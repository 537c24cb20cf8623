----------------------------- MODULE GovernedLists -----------------------------
(***************************************************************************)
(* What the fabric promises about the durable segment lists, with nothing  *)
(* of how it is done: a list is absent, available, unavailable or closed,  *)
(* and each of its generations is published by exactly one attempt.        *)
(*                                                                         *)
(*   - a list becomes available only by publishing its next generation,    *)
(*     under an attempt that has never been used;                          *)
(*   - publishing a list may close other lists (supersession);             *)
(*   - availability may be withdrawn from any set of lists at any time;    *)
(*   - a closed lineage stays closed for good.                             *)
(***************************************************************************)
EXTENDS Naturals

CONSTANTS Lists, Attempts

VARIABLES
    generation,     \* the durable generation of each list, 0 if absent
    status,         \* what a consumer may assume of each list
    used            \* the attempts that are recorded

glVars == <<generation, status, used>>

Status == {"absent", "available", "unavailable", "closed"}

GLInit ==
    /\ generation = [l \in Lists |-> 0]
    /\ status = [l \in Lists |-> "absent"]
    /\ used = {}

(* create_list, replace_list, revalidate: the next generation of list l is *)
(* available, and the list it supersedes, if any, is closed.               *)
Publish(l, a, superseded) ==
    /\ status[l] # "closed"
    /\ a \notin used
    /\ l \notin superseded
    /\ \A s \in superseded : status[s] # "absent"
    /\ generation' = [generation EXCEPT ![l] = @ + 1]
    /\ status' = [s \in Lists |->
                     IF s = l THEN "available"
                     ELSE IF s \in superseded THEN "closed" ELSE status[s]]
    /\ used' = used \cup {a}

(* refresh_currentness and recovery: lists lose their availability. *)
Degrade(lost) ==
    /\ \A l \in lost : status[l] = "available"
    /\ status' = [l \in Lists |-> IF l \in lost THEN "unavailable" ELSE status[l]]
    /\ UNCHANGED <<generation, used>>

(* withdraw, withdraw_commit, revoke, retire *)
Close(l, a) ==
    /\ status[l] # "absent"
    /\ status' = [status EXCEPT ![l] = "closed"]
    /\ used' = used \cup {a}
    /\ UNCHANGED generation

GLNext ==
    \/ \E l \in Lists, a \in Attempts, superseded \in SUBSET Lists : Publish(l, a, superseded)
    \/ \E lost \in SUBSET Lists : Degrade(lost)
    \/ \E l \in Lists, a \in Attempts : Close(l, a)

GLSpec == GLInit /\ [][GLNext]_glVars
================================================================================
