------------------------------- MODULE Lifecycle -------------------------------
(***************************************************************************)
(* The lifecycle of one revision of a segment list: the nine states, the   *)
(* sixteen events and the literal transition table of src/lifecycle.cpp.   *)
(* A pair that the table denies (kD in the code) has no entry here.        *)
(***************************************************************************)
EXTENDS Naturals, FiniteSets

LifecycleState ==
    {"Declared", "Validating", "Active", "RevalidationRequired", "Withdrawing",
     "Withdrawn", "Superseded", "Revoked", "Retired"}

LifecycleEvent ==
    {"ValidateBegin", "ValidateSucceed", "ValidateFail", "RevalidateBegin",
     "RevalidateSucceed", "RevalidateFail", "DependencyChanged",
     "WithdrawBegin", "WithdrawCommit", "SupersedeBegin", "SupersedeCommit",
     "Revoke", "Retire", "Reactivate", "RecoveryLoad", "ReplaceBegin"}

(* The permitted pairs, one function from event to next state per state.   *)
kTable ==
    [Declared |->
        [ValidateBegin |-> "Validating", WithdrawBegin |-> "Withdrawing",
         SupersedeBegin |-> "Superseded", Revoke |-> "Revoked",
         Retire |-> "Retired", RecoveryLoad |-> "Declared",
         ReplaceBegin |-> "Validating"],
     Validating |->
        [ValidateSucceed |-> "Active", ValidateFail |-> "Declared",
         DependencyChanged |-> "Declared", WithdrawBegin |-> "Withdrawing",
         SupersedeBegin |-> "Superseded", Revoke |-> "Revoked",
         Retire |-> "Retired", RecoveryLoad |-> "Declared",
         ReplaceBegin |-> "Validating"],
     Active |->
        [RevalidateBegin |-> "Validating", RevalidateSucceed |-> "Active",
         DependencyChanged |-> "RevalidationRequired",
         WithdrawBegin |-> "Withdrawing", SupersedeBegin |-> "Superseded",
         Revoke |-> "Revoked", Retire |-> "Retired",
         RecoveryLoad |-> "RevalidationRequired", ReplaceBegin |-> "Validating"],
     RevalidationRequired |->
        [RevalidateBegin |-> "Validating", RevalidateSucceed |-> "Active",
         RevalidateFail |-> "RevalidationRequired",
         DependencyChanged |-> "RevalidationRequired",
         WithdrawBegin |-> "Withdrawing", SupersedeBegin |-> "Superseded",
         Revoke |-> "Revoked", Retire |-> "Retired",
         RecoveryLoad |-> "RevalidationRequired", ReplaceBegin |-> "Validating"],
     Withdrawing |->
        [DependencyChanged |-> "Withdrawing", WithdrawCommit |-> "Withdrawn",
         SupersedeBegin |-> "Superseded", Revoke |-> "Revoked",
         Retire |-> "Retired", RecoveryLoad |-> "Withdrawn"],
     Withdrawn |->
        [DependencyChanged |-> "Withdrawn", SupersedeBegin |-> "Superseded",
         Revoke |-> "Revoked", Retire |-> "Retired",
         RecoveryLoad |-> "Withdrawn"],
     Superseded |->
        [DependencyChanged |-> "Superseded", SupersedeCommit |-> "Superseded",
         Revoke |-> "Revoked", Retire |-> "Retired",
         RecoveryLoad |-> "Superseded"],
     Revoked |->
        [DependencyChanged |-> "Revoked", Retire |-> "Retired",
         RecoveryLoad |-> "Revoked"],
     Retired |->
        [RecoveryLoad |-> "Retired"]]

(* lifecycle_transition(s, e).allowed *)
Permits(s, e) == e \in DOMAIN kTable[s]

(* lifecycle_transition(s, e).next, meaningful only where Permits(s, e) *)
Advance(s, e) == kTable[s][e]

(* lifecycle_is_terminal_for_activation *)
TerminalForActivation == {"Withdrawn", "Superseded", "Revoked", "Retired"}

(* The table has the size the documentation gives it: 9 x 16 pairs, of     *)
(* which exactly 55 are permitted.                                         *)
ASSUME TableSize ==
    /\ Cardinality(LifecycleState) = 9
    /\ Cardinality(LifecycleEvent) = 16
    /\ Cardinality({p \in LifecycleState \X LifecycleEvent :
                       Permits(p[1], p[2])}) = 55
================================================================================
