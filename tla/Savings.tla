------------------------------ MODULE Savings ------------------------------
(***************************************************************************)
(* The savings side of the money pool: staking an amount of the collection *)
(* asset for dtokens, and redeeming (deposit-loan/src/lib.rs, staking,     *)
(* redeem and what they call).                                             *)
(***************************************************************************)
EXTENDS PoolState

\* The part of the storage a saving changes.
SavingState == [free |-> free, dtoken |-> dtoken, market |-> market, total |-> total]

\* Mutant: the precision divides the amount.
DtokensScaled(s, amount) == amount \div LtvPrec

\* create_staking's dtokens for an amount, at the rate market : total.
DtokensFor(s, amount) ==
  IF s.total = 0 THEN amount ELSE (amount * s.market) \div s.total

\* create_staking refuses an empty saving and a transfer `who` cannot afford ...
StakeRefused(s, who, amount) ==
  amount = 0 \/ ~Affords(s.free, config.collectionAsset, who, amount)

\* ... and panics where a checked operation overflows.
StakePanics(s, who, amount) ==
  \/ s.total # 0 /\ amount * s.market > MaxBalance
  \/ s.dtoken[who] + DtokensFor(s, amount) > MaxBalance
  \/ s.market + DtokensFor(s, amount) > MaxBalance
  \/ s.market + amount > MaxBalance

\* create_staking's effect. TotalDtoken is put to market + amount.
AfterStake(s, who, amount) ==
  [free   |-> Paid(s.free, config.collectionAsset, who, config.collectionAccount, amount),
   dtoken |-> [s.dtoken EXCEPT ![who] = @ + DtokensFor(s, amount)],
   market |-> s.market + DtokensFor(s, amount),
   total  |-> s.market + amount]

-----------------------------------------------------------------------------
\* user_will_get: two integer divisions, each of which panics on zero.
RedeemPanics(s) == s.total = 0 \/ s.market \div s.total = 0
WillGet(s, who) == s.dtoken[who] \div (s.market \div s.total)

\* make_redeem_all's checks.
RedeemAllRefused(s, who) ==
  \/ ~Affords(s.free, config.collectionAsset, config.collectionAccount, WillGet(s, who))
  \/ s.total < s.dtoken[who]
  \/ s.market < s.dtoken[who]

\* Mutant: TotalDtoken is not lowered.
RedeemWithoutTotal(s, who) ==
  [s EXCEPT !.free   = Paid(@, config.collectionAsset, config.collectionAccount, who, WillGet(s, who)),
            !.market = @ - s.dtoken[who]]

\* make_redeem_all's effect. The user's dtokens are not taken away.
AfterRedeemAll(s, who) ==
  [free   |-> Paid(s.free, config.collectionAsset, config.collectionAccount, who, WillGet(s, who)),
   dtoken |-> s.dtoken,
   market |-> s.market - s.dtoken[who],
   total  |-> Wrapped(s.total - WillGet(s, who))]

\* make_redeem pays everything out and saves the rest again; the error of
\* either half is dropped, so each half may happen without the other.
Redeemed(s, who) == IF RedeemAllRefused(s, who) THEN s ELSE AfterRedeemAll(s, who)
Restaked(s, who, amount) == IF StakeRefused(s, who, amount) THEN s ELSE AfterStake(s, who, amount)

-----------------------------------------------------------------------------
Becomes(s) ==
  /\ free' = s.free /\ dtoken' = s.dtoken /\ market' = s.market /\ total' = s.total
  /\ UNCHANGED <<price, settings, book, halted>>

\* staking, and sudo_staking on behalf of `who`.
Stake(who, amount) ==
  /\ ~paused
  /\ ~StakeRefused(SavingState, who, amount) /\ ~StakePanics(SavingState, who, amount)
  /\ Becomes(AfterStake(SavingState, who, amount))

\* redeem, and sudo_redeem on behalf of `who`.
Redeem(who, amount) ==
  /\ ~paused
  /\ Cash >= amount
  /\ ~RedeemPanics(SavingState) /\ WillGet(SavingState, who) >= amount
  /\ LET s == Redeemed(SavingState, who)
         rest == WillGet(SavingState, who) - amount
     IN  /\ ~StakeRefused(s, who, rest) => ~StakePanics(s, who, rest)
         /\ Becomes(Restaked(s, who, rest))
=============================================================================
