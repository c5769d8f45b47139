------------------------------- MODULE Intake -------------------------------
(***************************************************************************)
(* What a resumable transfer promises its uploader: it ends once.  It is   *)
(* stored only when bytes with the declared digest are kept, and what is   *)
(* stored stays; a transfer that is refused can still be withdrawn.        *)
(***************************************************************************)
CONSTANTS
  Ids,      \* transfers
  Digests   \* digests a transfer may declare

VARIABLES
  outcome,  \* "open", "refused", "withdrawn", or the digest that was stored
  kept      \* digests whose bytes are kept

Init ==
  /\ outcome = [t \in Ids |-> "open"]
  /\ kept = {}

Keep(c) ==
  /\ kept' = kept \cup {c}
  /\ UNCHANGED outcome

End(t, from, o) ==
  /\ outcome[t] \in from
  /\ outcome' = [outcome EXCEPT ![t] = o]
  /\ UNCHANGED kept

Store(t) == \E c \in kept : End(t, {"open"}, c)

Refuse(t) == End(t, {"open"}, "refused")

\* Transfers of one path that lapsed are withdrawn together.
Withdraw(T) ==
  /\ \A t \in T : outcome[t] \in {"open", "refused"}
  /\ outcome' = [t \in Ids |-> IF t \in T THEN "withdrawn" ELSE outcome[t]]
  /\ UNCHANGED kept

Next ==
  \/ \E T \in SUBSET Ids : Withdraw(T)
  \/ \E t \in Ids : Store(t) \/ Refuse(t)
  \/ \E c \in Digests : Keep(c)

Spec == Init /\ [][Next]_<<outcome, kept>>
=============================================================================
