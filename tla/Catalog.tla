------------------------------- MODULE Catalog -------------------------------
(***************************************************************************)
(* What readers of one repository are promised: a revision is served from  *)
(* the moment it is released, with exactly the files its signed manifest   *)
(* names, and what is served never changes or disappears.                  *)
(***************************************************************************)
CONSTANTS
  RevisionIds,  \* revisions of the repository
  Manifests     \* sets of files a release may hold

VARIABLES
  served,  \* what a reader can fetch from each revision
  signed,  \* manifests the policy service attested, by revision
  current  \* the release the repository's page points at; 0 when none

Init ==
  /\ served = [r \in RevisionIds |-> {}]
  /\ signed = {}
  /\ current = 0

\* Attestation, content and pointer appear together, once per revision.
Publish(r) ==
  /\ current' = r
  /\ served[r] = {}
  /\ \E m \in Manifests \ {{}} :
       /\ served' = [served EXCEPT ![r] = m]
       /\ signed' = signed \cup {<<r, m>>}

Next == \E r \in RevisionIds : Publish(r)

Spec == Init /\ [][Next]_<<served, signed, current>>
=============================================================================
