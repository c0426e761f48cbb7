------------------------------ MODULE ReadAll -------------------------------
(***************************************************************************)
(* What a read of many items promises while others write: a call that      *)
(* returns without an error has every wanted row that was there all the    *)
(* time, as often as it was asked for, and no row that never was.  A call  *)
(* that fails returns nothing.  Query.All, a walk with Query.Page,         *)
(* Statement.All, Scan.All and BatchGet.Run are shown to implement it.     *)
(***************************************************************************)
EXTENDS Naturals

CONSTANT Keys    \* the keys rows can have

VARIABLES
    rows,      \* the keys of the rows that match, as the service's reads see them
    asked,     \* how often each key is asked for
    always,    \* the keys that matched ever since the call began
    ever,      \* the keys that matched at some time since
    status,    \* "idle", "running", "ok" or "err"
    items      \* the returned items: how often each key is among them

vars == <<rows, asked, always, ever, status, items>>

Bag == [Keys -> Nat]
Nothing == [k \in Keys |-> 0]

TypeOK ==
    /\ rows \subseteq Keys /\ always \subseteq Keys /\ ever \subseteq Keys
    /\ asked \in Bag /\ items \in Bag
    /\ status \in {"idle", "running", "ok", "err"}

Init == TypeOK /\ status = "idle" /\ items = Nothing

\* Others write.
Change ==
    /\ rows' \subseteq Keys
    /\ always' = always \cap rows'
    /\ ever'   = ever \cup rows'
    /\ UNCHANGED <<asked, status, items>>

\* The caller decides what to ask for, before a call.
Build ==
    /\ status # "running"
    /\ rows' \subseteq Keys /\ asked' \in Bag
    /\ UNCHANGED <<always, ever, status, items>>

Begin ==
    /\ status # "running"
    /\ status' = "running"
    /\ always' = rows /\ ever' = rows
    /\ items' = Nothing
    /\ UNCHANGED <<rows, asked>>

Promised(bag) ==
    \A k \in Keys : /\ bag[k] <= asked[k]
                    /\ k \in always => bag[k] = asked[k]
                    /\ k \notin ever => bag[k] = 0

Return ==
    /\ status = "running"
    /\ status' = "ok"
    /\ items' \in Bag /\ Promised(items')
    /\ UNCHANGED <<rows, asked, always, ever>>

Fail ==
    /\ status' = "err"
    /\ items' = Nothing
    /\ UNCHANGED <<rows, asked, always, ever>>

Next == Change \/ Build \/ Begin \/ Return \/ Fail

Spec == Init /\ [][Next]_vars
=============================================================================
