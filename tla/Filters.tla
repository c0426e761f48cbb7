------------------------------ MODULE Filters -------------------------------
(***************************************************************************)
(* The filter conditions a QueryBuilder or a ScanBuilder queues.  There is *)
(* one for every operator, field and value of the Filter methods; it is    *)
(* known by the rows that satisfy it, each of which has it in its set sat. *)
(***************************************************************************)
CONSTANTS
    Conds,      \* the conditions
    BadConds    \* those with an empty field name, which do not build

ASSUME FiltersAssumption == BadConds \subseteq Conds

buildCondition(f, row) == f \in row.sat

\* The queued conditions are ANDed, so that their order does not matter.
filterExpression(filters, row) == \A f \in filters : buildCondition(f, row)

\* expression.Builder.Build (external) refuses an empty name.
Builds(filters) == filters \cap BadConds = {}
=============================================================================
