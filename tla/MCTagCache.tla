----------------------------- MODULE MCTagCache -----------------------------
(***************************************************************************)
(* TLC instances of TagCache: a type with a clause of each kind and one    *)
(* that is repeated, a type with no tags, and a type without Model.        *)
(***************************************************************************)
EXTENDS TagCache, TLC

Tags ==
    "Order" :> <<[key |-> "pk", names |-> <<"Status">>], [key |-> "none", names |-> <<>>],
                 [key |-> "sk", names |-> <<"", "Status", "ID">>],
                 [key |-> "pk", names |-> <<"CustomerID", "">>]>>
    @@ [t \in {"User", "int"} |-> <<>>]

Fields ==
    "Order" :> <<[name |-> "Notes", tag |-> "compress"], [name |-> "Status", tag |-> ""]>>
    @@ [t \in {"User", "int"} |-> <<>>]

Symmetry == Permutations(Goroutines)
=============================================================================
