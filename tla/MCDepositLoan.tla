--------------------------- MODULE MCDepositLoan ---------------------------
(***************************************************************************)
(* Instances of DepositLoan for TLC: the genesis layout of the node, with  *)
(* DUSD (0) saved, lent and earned, and BTC (1) pledged. An LTV of 10 is   *)
(* parity; a price of 2 is one unit of DUSD for one of BTC.                *)
(***************************************************************************)
EXTENDS DepositLoan

CONSTANTS alice, bob, collection, profit, shop, auctioneer

MCUsers == {alice, bob}
MCAccounts == {alice, bob, collection, profit, shop, auctioneer}
MCAssets == {0, 1}

MCConfig == [collectionAsset |-> 0, collateralAsset |-> 1, loanAsset |-> 0, profitAsset |-> 0,
             collectionAccount |-> collection, profitPool |-> profit,
             liquidationAccount |-> auctioneer,
             ltvLimit |-> 7, liquidationThreshold |-> 12, warningThreshold |-> 9,
             loanCap |-> NoCap, penaltyRate |-> 1]

\* A pool in use: DUSD was minted and 14 of it was sent to the collection account.
\* Alice and Bob can pledge 10 BTC each; the auctioneer can settle.
MCFree == [asset \in MCAssets |-> [a \in MCAccounts |->
  IF asset = 0 THEN (IF a \in MCUsers THEN 6
                     ELSE IF a = collection THEN 14 ELSE IF a = auctioneer THEN 20 ELSE 0)
               ELSE (IF a \in MCUsers THEN 10 ELSE 0)]]

\* The pool holds nothing but what is saved.
MCSaved == [asset \in MCAssets |-> [a \in MCAccounts |->
  IF asset = 0 THEN (IF a \in MCUsers THEN 7 ELSE IF a = auctioneer THEN 6 ELSE 0)
               ELSE (IF a \in MCUsers THEN 5 ELSE 0)]]

MCPrice == [asset \in MCAssets |-> IF asset = 1 THEN 4 ELSE 2]

MCNone == {}
MCZero == {0}
MCPrices == {2, 4}
MCLow == {2}
MCAdds == {3}
MCExtras == {0, 1}
MCOneApplication == {<<5, 6>>}
\* The collateral left to be derived, down to none at all.
MCApplications == {<<10, 12>>, <<0, 1>>}
MCLoanSettings == [loanCap |-> {0, 6}]
MCDraw == {5}
\* The collateral named, and the loan too or left to be derived.
MCOrderly == {<<10, 12>>, <<4, 0>>}
MCNoChoice == [s \in {} |-> {}]
MCStakes == {3, 7}
MCRedeems == {0, 2}
=============================================================================
