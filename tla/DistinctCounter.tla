--------------------------- MODULE DistinctCounter ---------------------------
(***************************************************************************)
(* What the core topology list promises its callers, without arrays,       *)
(* capacities or sorting: keys are accepted one at a time, a report states *)
(* how many different keys were accepted, and nothing accepted is lost or  *)
(* counted twice.  A key the list refuses (no memory) is a stutter here.   *)
(***************************************************************************)
EXTENDS FiniteSets

CONSTANTS
  Key,      \* what is counted
  Unknown   \* no report yet

VARIABLES
  seen,     \* the keys accepted since the list was made
  reported  \* the number reported for them, or Unknown

dcVars == <<seen, reported>>

Init ==
  /\ seen = {}
  /\ reported = Unknown

Accept(k) ==
  /\ reported = Unknown
  /\ seen' = seen \cup {k}
  /\ UNCHANGED reported

Report ==
  /\ reported = Unknown
  /\ reported' = Cardinality(seen)
  /\ UNCHANGED seen

Discard ==
  /\ seen' = {}
  /\ reported' = Unknown

Next ==
  \/ \E k \in Key : Accept(k)
  \/ Report
  \/ Discard

Spec == Init /\ [][Next]_dcVars
=============================================================================
