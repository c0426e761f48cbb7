------------------------------- MODULE Paging -------------------------------
(***************************************************************************)
(* How DynamoDB (external) answers one Query, Scan or ExecuteStatement     *)
(* call.  Keys are numbers in the order in which the service walks them;   *)
(* 0 stands for no key.  The service evaluates rows from the start key on, *)
(* stops at the limit of the request, at 1 MB or at the end, and returns   *)
(* those of the evaluated rows that pass the filter.  Unless it reached    *)
(* the end for sure it also returns the last key it evaluated: the page    *)
(* can be empty and not the last one, or the next one can be empty.        *)
(***************************************************************************)
EXTENDS FiniteSets, Integers

NoKey == 0
NoLimit == 0

\* items: the keys of the rows returned; last: LastEvaluatedKey.
Replies(reachable, matching, start, limit) ==
    LET todo == {k \in reachable : k > start}
        Upto(last) == {k \in todo : k <= last}
        Fits(S) == limit # NoLimit => Cardinality(S) <= limit
        Page(S, last) == [items |-> S \cap matching, last |-> last]
    IN  {Page(Upto(k), k) : k \in {k \in todo : Fits(Upto(k))}}
        \cup (IF Fits(todo) THEN {Page(todo, NoKey)} ELSE {})

\* The items collected so far, with those of one more page.
Collect(bag, keys) == [k \in DOMAIN bag |-> bag[k] + (IF k \in keys THEN 1 ELSE 0)]
=============================================================================
