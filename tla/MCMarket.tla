------------------------------ MODULE MCMarket ------------------------------
(***************************************************************************)
(* The runtime at the genesis of cli/src/chain_spec.rs, with the amounts   *)
(* the first block finds once DUSD and BTC are minted. LTVs and prices are *)
(* in tenths; reports, of DUSD too, name nothing or 1 DUSD.                *)
(***************************************************************************)
EXTENDS Market

CONSTANTS DUSD, alice, collection, profit, shop, auctioneer

MCUsers == {alice}
MCAccounts == {alice, collection, profit, shop, auctioneer}
MCAssets == {0, 1}
MCSymbol == [asset \in MCAssets |-> IF asset = 1 THEN BTC ELSE DUSD]
MCTokens == {BTC, DUSD}

MCConfig == [collectionAsset |-> 0, collateralAsset |-> 1, loanAsset |-> 0, profitAsset |-> 0,
             collectionAccount |-> collection, profitPool |-> profit,
             liquidationAccount |-> auctioneer,
             ltvLimit |-> 7, liquidationThreshold |-> 10, warningThreshold |-> 5,
             loanCap |-> NoCap, penaltyRate |-> 50]

MCFree == [asset \in MCAssets |-> [a \in MCAccounts |->
  IF asset = 0 THEN (IF a = collection THEN 200 ELSE IF a = auctioneer THEN 150 ELSE 40)
               ELSE (IF a = alice THEN 200 ELSE 0)]]

\* DUSD has a price at genesis, BTC none.
MCCurrent == [t \in MCTokens |-> IF t = DUSD THEN 10 ELSE NoPrice]
MCPrice == [asset \in MCAssets |-> IF asset = 1 THEN 0 ELSE 10]
\* Two sources of BTC at genesis, to which root may add one; nothing asks for DUSD.
MCSources == [t \in MCTokens |-> IF t = BTC THEN 2 ELSE 3]

\* A report of 1 DUSD beside one of nothing makes a price of a half.
MCReports == {0, 10}
MCMeans == 0..10
MCMaxReports == [t \in MCTokens |-> IF t = BTC THEN 2 ELSE 1]
MCNone == {}
MCZero == {0}
MCNoChoice == [s \in {} |-> {}]
\* Within the limit when BTC is 1 DUSD, and always beyond it.
MCApplications == {<<100, 60>>, <<100, 110>>}
\* A draw that takes such a loan from within the limit through the threshold.
MCDraw == {40}
=============================================================================
