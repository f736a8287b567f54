----------------------------- MODULE BtcBridge -----------------------------
(***************************************************************************)
(* The bridge's predecessor: runtime/modules/btc-bridge/src/lib.rs. Its    *)
(* deposits and withdrawals are those of Bridge, line by line, over the    *)
(* older assets module; it also derives, for each user and path, the key   *)
(* of an address to receive BTC on, and keeps it.                          *)
(***************************************************************************)
EXTENDS Bridge

CONSTANTS
  Materials,         \* what root may set as the key material
  GenesisMaterial,   \* key_material() at genesis
  Components,        \* what a path is made of between its delimiters ...
  Invalid,           \* ... and those of them hkd32 does not take
  Paths              \* the paths users ask for: sequences of components

ASSUME MaterialAssumption == GenesisMaterial \in Materials
ASSUME PathAssumption ==
  Paths \subseteq Seq(Components) \ {<< >>} /\ Invalid \subseteq Components

VARIABLES
  keyMaterial,   \* KeyMaterial
  subKeys        \* SubKeyMap: a function on pairs of an account and a path

keyVars == <<keyMaterial, subKeys>>
btc_vars == <<vars, keyVars>>

BtcInit == Init /\ keyMaterial = GenesisMaterial /\ subKeys = << >>

-----------------------------------------------------------------------------
\* set_key_material, root only.
SetKeyMaterial(material) ==
  /\ keyMaterial' = material
  /\ UNCHANGED <<vars, subKeys>>

\* derive_subkey, one step per component. What precedes the first delimiter is
\* skipped.
Derived(material, path) == [material |-> material, steps |-> Tail(path)]

\* get_subkey_from_path: a key that is there is left as it is; a component that
\* hkd32 does not take panics. Who asks does not enter the key.
GetSubkeyFromPath(who, path) ==
  /\ <<who, path>> \notin DOMAIN subKeys
  /\ \A i \in 2..Len(path) : path[i] \notin Invalid
  /\ subKeys' = [k \in DOMAIN subKeys \cup {<<who, path>>} |->
       IF k = <<who, path>> THEN Derived(keyMaterial, path) ELSE subKeys[k]]
  /\ UNCHANGED <<vars, keyMaterial>>

-----------------------------------------------------------------------------
\* The calls that Bridge has as well.
BtcSetPaused(b) == SetPaused(b) /\ UNCHANGED keyVars
BtcTransfer(from, to, amount) == Transfer(from, to, amount) /\ UNCHANGED keyVars
BtcDeposit(admin, account, amount, tx) == Deposit(admin, account, amount, tx) /\ UNCHANGED keyVars
BtcMarkWhite(admin, account) == MarkWhite(admin, account) /\ UNCHANGED keyVars
BtcMarkBlack(admin, account) == MarkBlack(admin, account) /\ UNCHANGED keyVars
BtcWithdraw(who, amount) == Withdraw(who, amount) /\ UNCHANGED keyVars
BtcRefund(admin, who, amount) == Refund(admin, who, amount) /\ UNCHANGED keyVars
BtcWithdrawFinish(admin, who, amount) == WithdrawFinish(admin, who, amount) /\ UNCHANGED keyVars

BtcNext ==
  \/ \E b \in BOOLEAN : BtcSetPaused(b)
  \/ \E who \in Users, amount \in Amounts :
       \/ BtcWithdraw(who, amount)
       \/ \E to \in Users : BtcTransfer(who, to, amount)
       \/ \E admin \in Admins :
            \/ BtcRefund(admin, who, amount)
            \/ BtcWithdrawFinish(admin, who, amount)
            \/ \E tx \in TxHashes : BtcDeposit(admin, who, amount, tx)
  \/ \E admin \in Admins, who \in Users : BtcMarkWhite(admin, who) \/ BtcMarkBlack(admin, who)
  \/ \E material \in Materials : SetKeyMaterial(material)
  \/ \E who \in Users, path \in Paths : GetSubkeyFromPath(who, path)

BtcSpec == BtcInit /\ [][BtcNext]_btc_vars

-----------------------------------------------------------------------------
(***************************************************************************)
(* Properties, beside those of Bridge, which hold here as they do there    *)
(***************************************************************************)

\* Every entry has its type; every key is of a material root once set, along
\* components the library takes.
BtcTypeOK ==
  /\ TypeOK
  /\ keyMaterial \in Materials
  /\ DOMAIN subKeys \subseteq Users \X Paths
  /\ \A k \in DOMAIN subKeys :
       subKeys[k] \in [material : Materials, steps : Seq(Components \ Invalid)]
=============================================================================
