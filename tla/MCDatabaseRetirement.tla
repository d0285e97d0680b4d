----------------------- MODULE MCDatabaseRetirement -----------------------
(* A small instance of DatabaseRetirement for TLC. *)
EXTENDS DatabaseRetirement, TLC

CONSTANTS p1, p2

Symmetry == Permutations({p1, p2})

\* Every evidence for the quarantine, which the drop is decided on later.  What
\* is submitted before and after it is not read again: there the variants that
\* the validation of the step itself tells apart are enough.
AnyEvidence ==
  [s \in States |->
     CASE s = "quarantined" -> EvidenceType
       [] s = "dropped" -> [until: {0, 2}, backup: {0, 2}, accesses: {0}]
       [] OTHER -> [until: {0}, backup: {0}, accesses: 0..MaxAccesses]]
=============================================================================
