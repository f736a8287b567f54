--------------------------- MODULE FactoryProofs ---------------------------
(***************************************************************************)
(* The transaction factory never loses track of its chain, and of what the *)
(* chain can be asked for nothing is refused: for any period of the eras   *)
(* longer than one block, however few hashes the chain keeps, and any      *)
(* fees, room in a block and money of the master account.                  *)
(***************************************************************************)
EXTENDS TransactionFactory, TLAPS

\* The values the factory's and the chain's state may take.
FactoryTyped ==
  /\ blocks \in Nat /\ transactions \in Nat
  /\ blockNumber \in Nat /\ index \in Nat /\ bestHash \in Nat
  /\ stage \in {"Loop", "Push", "Bake"} /\ txNum \in Nat
  /\ head \in Nat /\ nonce \in Nat /\ money \in Nat /\ time \in Nat
  /\ panicked \in BOOLEAN

\* The chain has the time of its last block, and of the next one once that has its
\* inherents. Before the first block it has none.
TimeIsOfBlock ==
  time = (IF stage = "Bake" THEN head + 1 ELSE head) * MinimumPeriod

\* What was asked for and what is made: whole blocks of transfers, and the part of
\* one that is under way, never one too many.
MadeSoFar ==
  /\ index = head * transactions + txNum
  /\ stage = "Loop" => txNum = 0
  /\ stage # "Loop" => head < blocks
  /\ stage = "Bake" => txNum = transactions
  /\ head <= blocks /\ txNum <= transactions

\* The most a transfer takes from the master, and what is left for the transfers to
\* come: where all of them are feasible, none has been refused.
Cost == MaxFee + Deposit
FundsLast ==
  Feasible => ~panicked /\ money >= Deposit /\ money + index * Cost >= GenesisMoney

\* The inductive invariant: the factory's numbers are the chain's at all times, in
\* the middle of a block too, but for the index of a refused transfer and the nonce
\* of an account that is no more.
FactoryInv ==
  /\ FactoryTyped
  /\ blockNumber = head /\ bestHash = head
  /\ TimeIsOfBlock
  /\ ~panicked => MadeSoFar /\ (money > 0 => index = nonce)
  /\ panicked => stage = "Push"
  /\ FundsLast

-----------------------------------------------------------------------------
\* Dividing with a remainder gives back the quotient.
LEMMA QuotientOf ==
  ASSUME NEW p \in Nat, p > 1, NEW q \in Nat
  PROVE  (q * p + 1) \div p = q
<1> DEFINE m == q * p
           d == (m + 1) \div p
<1>1. m \in Nat
  OBVIOUS
<1>2. d \in Nat /\ d * p <= m + 1 /\ m + 1 < (d + 1) * p
  BY <1>1
<1>3. ASSUME d < q PROVE FALSE
  <2>1. (d + 1) * p <= q * p
    BY <1>2, <1>3
  <2> QED
    BY <1>1, <1>2, <2>1
<1>4. ASSUME d > q PROVE FALSE
  <2>1. (q + 1) * p <= d * p /\ (q + 1) * p = m + p
    BY <1>2, <1>4
  <2> QED
    BY <1>1, <1>2, <2>1
<1> QED
  BY <1>2, <1>3, <1>4

\* The era of a transfer made after block n is born at n, as block n + 1 sees it,
\* also where the phase has wrapped. With a period of 1 it would seem to be born at
\* n + 1, and every transfer would be refused.
LEMMA BornAtHead ==
  ASSUME Period > 1, NEW n \in Nat
  PROVE  Birth(Mortal(Period, n), n + 1) = n
<1> DEFINE q == n \div Period
           r == n % Period
<1>1. Period \in Nat /\ Period > 1
  BY PeriodAssumption
<1>2. q \in Nat /\ r \in Nat /\ n = q * Period + r
  BY <1>1
<1>3. Birth(Mortal(Period, n), n + 1)
        = ((IF n + 1 < r THEN 0 ELSE (n + 1) - r) \div Period) * Period + r
  BY DEF Birth, Mortal
<1> HIDE DEF q, r
<1>4. q * Period \in Nat
  BY <1>1, <1>2
<1>5. ~ (n + 1 < r) /\ (n + 1) - r = q * Period + 1
  BY <1>2, <1>4
<1>6. (q * Period + 1) \div Period = q
  BY <1>1, <1>2, QuotientOf
<1> QED
  BY <1>2, <1>3, <1>5, <1>6

\* A transfer that carries the account's next nonce and is made for the block after
\* the head passes CheckEra and CheckNonce: the parent's hash is always kept. Whether
\* it is taken is a matter of room and money.
LEMMA TransferAccepted ==
  ASSUME Period > 1, FactoryInv, ~panicked, NEW fee \in Fees, HasRoom, CanPay(fee)
  PROVE  Accepted(fee)
<1>1. /\ head \in Nat /\ blockNumber = head /\ bestHash = head
      /\ money \in Nat /\ (money > 0 => index = nonce)
  BY DEF FactoryInv, FactoryTyped
<1>2. Birth(Mortal(Period, Phase), head + 1) = head
  BY <1>1, BornAtHead DEF Phase
<1>3. head \in HashesAt(head + 1, BlockHashCount)
  BY <1>1, PeriodAssumption DEF HashesAt
<1>4. index = nonce
  BY <1>1, ChainAssumption DEF CanPay
<1> QED
  BY <1>1, <1>2, <1>3, <1>4 DEF Accepted, EraHolds

\* Of feasible transfers the next one can be paid twice over: once more than it
\* costs stays behind for the account to live on.
LEMMA NextIsPaid ==
  ASSUME FactoryInv, Feasible, stage = "Push", txNum < transactions
  PROVE  money >= Cost + Deposit
<1> DEFINE asked == blocks * transactions
           made == head * transactions
<1>1. /\ blocks \in Nat /\ transactions \in Nat /\ head \in Nat /\ txNum \in Nat
      /\ index \in Nat /\ money \in Nat
  BY DEF FactoryInv, FactoryTyped
<1>2. /\ MadeSoFar /\ money + index * Cost >= GenesisMoney
      /\ asked * Cost + Deposit <= GenesisMoney
  BY DEF FactoryInv, FundsLast, Feasible, Cost
<1>3. Cost \in Nat /\ Deposit \in Nat /\ GenesisMoney \in Nat
  BY ChainAssumption DEF Cost
<1>4. asked \in Nat /\ made \in Nat
  BY <1>1
<1>5. index + 1 <= asked
  <2>1. head + 1 <= blocks /\ index = made + txNum
    BY <1>1, <1>2 DEF MadeSoFar
  <2>2. (head + 1) * transactions <= blocks * transactions
    BY <1>1, <2>1
  <2>3. (head + 1) * transactions = made + transactions
    BY <1>1
  <2> HIDE DEF asked, made
  <2>4. made + transactions <= asked
    BY <2>2, <2>3 DEF asked
  <2> QED
    BY <1>1, <1>4, <2>1, <2>4
<1> HIDE DEF asked
<1>6. (index + 1) * Cost <= asked * Cost /\ (index + 1) * Cost = index * Cost + Cost
  BY <1>1, <1>3, <1>4, <1>5
<1> DEFINE paid == index * Cost
           price == asked * Cost
<1>7. paid \in Nat /\ price \in Nat
  BY <1>1, <1>3, <1>4
<1>8. paid + Cost <= price /\ money + paid >= GenesisMoney /\ price + Deposit <= GenesisMoney
  BY <1>2, <1>6
<1> HIDE DEF paid, price
<1> QED
  BY <1>1, <1>3, <1>7, <1>8

-----------------------------------------------------------------------------
\* The factory starts in step with the empty chain.
LEMMA FactoryInitially == Init => FactoryInv
<1> SUFFICES ASSUME Init PROVE FactoryInv
  OBVIOUS
<1>1. blocks \in Nat /\ transactions \in Nat /\ money \in Nat
  BY BoundAssumption, ChainAssumption DEF Init
<1>2. panicked \in BOOLEAN
  BY Zenon DEF Init
<1>3. FactoryTyped
  BY <1>1, <1>2 DEF Init, FactoryTyped
<1>4. TimeIsOfBlock /\ MadeSoFar /\ (money > 0 => index = nonce)
  BY <1>1, PeriodAssumption DEF Init, TimeIsOfBlock, MadeSoFar
<1>5. FundsLast
  <2> SUFFICES ASSUME Feasible PROVE ~panicked /\ money >= Deposit /\ money + index * Cost >= GenesisMoney
    BY DEF FundsLast
  <2> DEFINE price == blocks * transactions * (MaxFee + Deposit)
  <2>1. price \in Nat /\ price + Deposit <= GenesisMoney
    BY <1>1, ChainAssumption DEF Feasible
  <2> HIDE DEF price
  <2>2. money = GenesisMoney /\ money >= Deposit
    BY <2>1, ChainAssumption DEF Init
  <2>3. Cost \in Nat /\ index * Cost = 0
    BY ChainAssumption DEF Cost, Init
  <2>4. ~panicked
    BY DEF Init
  <2> QED
    BY <1>1, <2>2, <2>3, <2>4
<1> QED
  BY <1>3, <1>4, <1>5 DEF Init, FactoryInv

\* A transfer that is taken is counted once by the factory and once by the chain; a
\* refused one is not feasible.
LEMMA PushKeepsTrack ==
  ASSUME Period > 1, FactoryInv, ~panicked, PushTransfer
  PROVE  FactoryInv'
<1>1. /\ FactoryTyped /\ MadeSoFar /\ (money > 0 => index = nonce)
      /\ blockNumber = head /\ bestHash = head /\ TimeIsOfBlock /\ FundsLast
  BY DEF FactoryInv
<1>2. /\ stage = "Push" /\ txNum < transactions /\ index' = index + 1
      /\ UNCHANGED <<args, blockNumber, bestHash, stage, head, time>>
  BY DEF PushTransfer, NextIndex
<1>3. PICK fee \in Fees :
        IF Accepted(fee)
          THEN Taken(fee) /\ txNum' = txNum + 1 /\ UNCHANGED panicked
          ELSE panicked' = TRUE /\ UNCHANGED <<nonce, money, txNum>>
  BY DEF PushTransfer
<1>4. fee \in Nat /\ fee <= MaxFee /\ MaxFee \in Nat /\ Deposit \in Nat /\ Deposit > 0
      /\ GenesisMoney \in Nat /\ Cost \in Nat /\ Cost = MaxFee + Deposit
  BY ChainAssumption DEF Cost
<1>5. TimeIsOfBlock' /\ Feasible' = Feasible
  BY <1>1, <1>2 DEF TimeIsOfBlock, Feasible, args
<1>6. ASSUME Feasible
      PROVE  Accepted(fee) /\ Left(fee) >= Deposit /\ money >= Cost + Deposit
  <2>1. money >= Cost + Deposit
    BY <1>2, <1>6, NextIsPaid
  <2>2. HasRoom
    BY <1>1, <1>2, <1>6, ChainAssumption DEF Feasible, HasRoom, FactoryTyped
  <2>3. CanPay(fee) /\ Left(fee) >= Deposit
    BY <1>1, <1>4, <2>1 DEF CanPay, Left, FactoryTyped
  <2> QED
    BY <2>1, <2>2, <2>3, TransferAccepted
<1>7. CASE Accepted(fee)
  <2>1. Taken(fee) /\ txNum' = txNum + 1 /\ UNCHANGED panicked
    BY <1>3, <1>7
  <2>2. money >= fee + Deposit /\ index = nonce /\ Left(fee) = (money - fee) - Deposit
    BY <1>7 DEF Accepted, CanPay, Left
  <2>3. /\ money' \in Nat /\ nonce' \in Nat
        /\ (money' > 0 => nonce' = nonce + 1)
        /\ (Left(fee) >= Deposit => money' = Left(fee))
    BY <1>1, <1>4, <2>1, <2>2 DEF Taken, FactoryTyped
  <2>4. FactoryTyped'
    BY <1>1, <1>2, <2>1, <2>3 DEF FactoryTyped, args
  <2>5. MadeSoFar'
    <3> DEFINE made == head * transactions
    <3>1. made \in Nat /\ index = made + txNum /\ head' * transactions' = made
      BY <1>1, <1>2 DEF MadeSoFar, FactoryTyped, args
    <3> HIDE DEF made
    <3> QED
      BY <1>1, <1>2, <2>1, <3>1 DEF MadeSoFar, FactoryTyped, args
  <2>6. FundsLast'
    <3> SUFFICES ASSUME Feasible
                 PROVE  ~panicked' /\ money' >= Deposit /\ money' + index' * Cost >= GenesisMoney
      BY <1>5 DEF FundsLast, Cost
    <3> DEFINE paid == index * Cost
    <3>1. paid \in Nat /\ index' * Cost = paid + Cost
      BY <1>1, <1>2, <1>4 DEF FactoryTyped
    <3>2. money + paid >= GenesisMoney
      BY <1>1 DEF FundsLast
    <3> HIDE DEF paid
    <3>3. Left(fee) >= Deposit /\ money' = (money - fee) - Deposit
      BY <1>6, <2>2, <2>3
    <3>4. money' >= money - Cost
      BY <1>1, <1>4, <3>3 DEF FactoryTyped
    <3>5. money' + (paid + Cost) >= GenesisMoney
      <4>1. money \in Int /\ money' \in Int /\ paid \in Int /\ Cost \in Int /\ GenesisMoney \in Int
        BY <1>1, <1>4, <2>3, <3>1 DEF FactoryTyped
      <4> QED
        <5>1. \A a, b, c, d, e \in Int : a + c >= e /\ b >= a - d => b + (c + d) >= e
          OBVIOUS
        <5> QED
          BY <3>2, <3>4, <4>1, <5>1
    <3>6. ~panicked'
      BY <2>1
    <3> QED
      BY <2>2, <3>1, <3>3, <3>5, <3>6
  <2>7. money' > 0 => index' = nonce'
    BY <1>2, <2>2, <2>3
  <2>8. ~panicked'
    BY <2>1
  <2> QED
    BY <1>1, <1>2, <1>5, <2>4, <2>5, <2>6, <2>7, <2>8 DEF FactoryInv
<1>8. CASE ~Accepted(fee)
  <2>1. panicked' = TRUE /\ UNCHANGED <<nonce, money, txNum>>
    BY <1>3, <1>8
  <2>2. panicked' \in BOOLEAN
    BY <2>1, Zenon
  <2>3. FactoryTyped'
    BY <1>1, <1>2, <2>1, <2>2 DEF FactoryTyped, args
  <2>4. FundsLast'
    BY <1>5, <1>6, <1>8 DEF FundsLast
  <2> QED
    BY <1>1, <1>2, <1>5, <2>1, <2>3, <2>4 DEF FactoryInv
<1> QED
  BY <1>7, <1>8

\* Each of the loop's steps keeps it in step.
LEMMA FactoryInductive ==
  Period > 1 => (FactoryInv /\ [Next]_vars => FactoryInv')
<1> SUFFICES ASSUME Period > 1, FactoryInv, [Next]_vars PROVE FactoryInv'
  OBVIOUS
<1>0. /\ FactoryTyped /\ TimeIsOfBlock /\ FundsLast
      /\ blockNumber = head /\ bestHash = head
      /\ ~panicked => MadeSoFar /\ (money > 0 => index = nonce)
      /\ panicked => stage = "Push"
  BY DEF FactoryInv
<1>1. CASE NewBlock /\ ~panicked
  <2>1. FactoryTyped' /\ TimeIsOfBlock' /\ FundsLast'
    BY <1>0, <1>1 DEF NewBlock, FactoryTyped, TimeIsOfBlock, FundsLast, Feasible, args, chain
  <2>2. MadeSoFar'
    BY <1>0, <1>1 DEF NewBlock, MadeSoFar, FactoryTyped, args, chain
  <2> QED
    BY <1>0, <1>1, <2>1, <2>2 DEF NewBlock, FactoryInv, chain
<1>2. CASE PushTransfer /\ ~panicked
  BY <1>2, PushKeepsTrack
<1>3. CASE PushInherents /\ ~panicked
  <2> DEFINE t == head * MinimumPeriod
             t1 == (head + 1) * MinimumPeriod
  <2>1. t \in Nat /\ t1 = t + MinimumPeriod /\ MinimumPeriod \in Nat /\ t1 \in Nat
    BY <1>0, PeriodAssumption DEF FactoryTyped
  <2>2. time = t /\ Timestamp = t1 /\ FinalHint = head /\ stage = "Push"
    BY <1>0, <1>3 DEF PushInherents, Timestamp, FinalHint, TimeIsOfBlock
  <2> HIDE DEF t, t1
  <2>3. Timestamp >= time + MinimumPeriod /\ FinalHint <= head + 1
    BY <1>0, <2>1, <2>2 DEF FactoryTyped
  <2>4. time' = t1 /\ stage' = "Bake" /\ UNCHANGED panicked
    BY <1>3, <2>2, <2>3 DEF PushInherents
  <2>5. UNCHANGED <<args, blockNumber, index, bestHash, txNum, head, nonce, money>>
    BY <1>3 DEF PushInherents
  <2>6. TimeIsOfBlock'
    BY <2>4, <2>5 DEF t1, TimeIsOfBlock
  <2>7. FactoryTyped' /\ FundsLast'
    BY <1>0, <2>1, <2>4, <2>5 DEF FactoryTyped, FundsLast, Feasible, args
  <2>8. MadeSoFar'
    <3>1. txNum = transactions
      BY <1>3 DEF PushInherents
    <3> QED
      BY <1>0, <1>3, <2>2, <2>4, <2>5, <3>1 DEF MadeSoFar, args
  <2> QED
    BY <1>0, <1>3, <2>4, <2>5, <2>6, <2>7, <2>8 DEF FactoryInv
<1>4. CASE Import /\ ~panicked
  <2>1. FactoryTyped' /\ TimeIsOfBlock' /\ FundsLast'
    BY <1>0, <1>4 DEF Import, BuiltHash, FactoryTyped, TimeIsOfBlock, FundsLast, Feasible, args
  <2>2. MadeSoFar'
    <3> DEFINE made == head * transactions
    <3>1. made \in Nat /\ head' * transactions' = made + transactions
      BY <1>0, <1>4 DEF FactoryTyped, Import, args
    <3>2. index = made + transactions /\ head < blocks
      BY <1>0, <1>4 DEF MadeSoFar, Import
    <3> HIDE DEF made
    <3> QED
      BY <1>0, <1>4, <3>1, <3>2 DEF Import, MadeSoFar, FactoryTyped, args
  <2> QED
    BY <1>0, <1>4, <2>1, <2>2 DEF Import, BuiltHash, FactoryInv
<1>5. CASE UNCHANGED vars
  BY <1>0, <1>5 DEF vars, FactoryInv, FactoryTyped, TimeIsOfBlock, MadeSoFar, FundsLast, Feasible
<1> QED
  BY <1>1, <1>2, <1>3, <1>4, <1>5 DEF Next

\* The factory's number, hash and index, which it never reads back, are those of the
\* chain, and it panics only where it was asked for more transfers than a block has
\* room for or than the master can be sure to pay. The factory uses a period of 256.
THEOREM FactoryKeepsTrack ==
  Period > 1 => (Spec => [](ChainIsTracked /\ (panicked => ~Feasible)))
<1> SUFFICES ASSUME Period > 1
             PROVE  Spec => [](ChainIsTracked /\ (panicked => ~Feasible))
  OBVIOUS
<1>1. Init => FactoryInv
  BY FactoryInitially
<1>2. FactoryInv /\ [Next]_vars => FactoryInv'
  BY FactoryInductive
<1>3. FactoryInv => ChainIsTracked /\ (panicked => ~Feasible)
  BY DEF FactoryInv, ChainIsTracked, FundsLast
<1> QED
  BY <1>1, <1>2, <1>3, PTL DEF Spec

\* When the factory is done it has made exactly what it was asked for, whether that
\* was feasible or the fees were low: the safety half of MakesAllBlocks, whose other
\* half is that it gets done.
THEOREM FactoryMakesAll ==
  Period > 1 =>
    (Spec => [](Finished => /\ head = blocks /\ index = blocks * transactions
                            /\ Feasible => nonce = index))
<1> DEFINE Done == Finished => /\ head = blocks /\ index = blocks * transactions
                               /\ Feasible => nonce = index
<1> SUFFICES ASSUME Period > 1 PROVE Spec => []Done
  OBVIOUS
<1>1. Init => FactoryInv
  BY FactoryInitially
<1>2. FactoryInv /\ [Next]_vars => FactoryInv'
  BY FactoryInductive
<1>3. FactoryInv => Done
  <2> SUFFICES ASSUME FactoryInv, Finished
               PROVE  /\ head = blocks /\ index = blocks * transactions
                      /\ Feasible => nonce = index
    OBVIOUS
  <2>1. ~panicked
    BY DEF FactoryInv, Finished
  <2>2. head = blocks /\ txNum = 0 /\ index = head * transactions + txNum
    BY <2>1 DEF FactoryInv, Finished, MadeSoFar
  <2>3. head * transactions \in Nat
    BY DEF FactoryInv, FactoryTyped
  <2>4. Feasible => nonce = index
    BY <2>1, ChainAssumption DEF FactoryInv, FactoryTyped, FundsLast
  <2> QED
    BY <2>2, <2>3, <2>4
<1> HIDE DEF Done
<1> QED
  BY <1>1, <1>2, <1>3, PTL DEF Spec
=============================================================================
