--------------------------- MODULE MCGenericAsset ---------------------------
(***************************************************************************)
(* Instances of GenericAsset for TLC.                                      *)
(***************************************************************************)
EXTENDS GenericAsset

CONSTANTS sudo, alice, nobody

\* The sudo key and two more accounts, one of them the default account.
MCAccounts == {sudo, alice, nobody}
MCEndowed == {sudo, alice}

\* The two permissions callers pass: everything handed to alice, or update
\* renounced while minting stays with alice and burning with the sudo key.
MCPermissions == {OwnedBy(alice), [update |-> NoOwner, mint |-> alice, burn |-> sudo]}

\* Locking is studied on an asset the genesis creates for the sudo key.
MCFirst == {0}
MCNone == {}
=============================================================================
