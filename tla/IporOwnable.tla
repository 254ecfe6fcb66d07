---------------------------- MODULE IporOwnable ----------------------------
(***************************************************************************)
(* Ownership of the upgradeable contracts: IporOwnableUpgradeable.sol on   *)
(* top of OpenZeppelin's OwnableUpgradeable.  An owner appoints a          *)
(* successor, who has to confirm; an owner may also renounce.              *)
(***************************************************************************)
CONSTANTS
    Account,     \* who may own the contract
    NoAddress    \* address(0)

ASSUME OwnableAssumption == NoAddress \notin Account

VARIABLES
    owner,            \* OwnableUpgradeable._owner
    appointedOwner    \* _appointedOwner

ownableVars == <<owner, appointedOwner>>

OwnableTypeOK ==
    /\ owner \in Account \cup {NoAddress}
    /\ appointedOwner \in Account \cup {NoAddress}

OwnableInit ==
    /\ owner \in Account
    /\ appointedOwner = NoAddress

-----------------------------------------------------------------------------
TransferOwnership(sender, appointed) ==
    /\ sender = owner
    /\ appointed # NoAddress
    /\ appointedOwner' = appointed
    /\ UNCHANGED owner

ConfirmTransferOwnership(sender) ==
    /\ sender = appointedOwner
    /\ appointedOwner' = NoAddress
    /\ owner' = sender

(* Inherited from OwnableUpgradeable: who is appointed stays appointed. *)
RenounceOwnership(sender) ==
    /\ sender = owner
    /\ owner' = NoAddress
    /\ UNCHANGED appointedOwner
=============================================================================
