--------------------------- MODULE VersionedItem ----------------------------
(***************************************************************************)
(* What the version counter of Model promises (model.go 44-48): an item is *)
(* a register that is read, changed and written back in one atomic step.   *)
(* Every write adds one change to all those before it, no write happens    *)
(* twice, and Version counts them.  Who writes, through which operation,   *)
(* from which copy and over which network is of no concern here.           *)
(***************************************************************************)
EXTENDS Naturals

CONSTANTS
    Keys,       \* the items
    Changes     \* the names of the changes, one for each writing call

VARIABLE items  \* the version and the changes of every item

Never == [version |-> 0, edits |-> {}]

Init == items = [k \in Keys |-> Never]

Write(k, e) ==
    /\ e \notin items[k].edits
    /\ items' = [items EXCEPT ![k] = [version |-> @.version + 1,
                                      edits   |-> @.edits \cup {e}]]

Next == \E k \in Keys, e \in Changes : Write(k, e)

Spec == Init /\ [][Next]_items
=============================================================================
