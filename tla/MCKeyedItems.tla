---------------------------- MODULE MCKeyedItems ----------------------------
(***************************************************************************)
(* TLC instances of KeyedItems: the default key, an sk clause of two       *)
(* fields and the ID, and a pk and an sk clause without the ID.            *)
(* The second value has "#" in its text, so that two pairs of values can   *)
(* give the same parts.                                                    *)
(***************************************************************************)
EXTENDS KeyedItems, TLC

Names == {"F", "G"}
Texts == {<<"a">>, <<"a", "a">>}

PkOf == "Default" :> <<>> @@ "Sk" :> <<>> @@ "Both" :> <<"F">>
SkOf == "Default" :> <<>> @@ "Sk" :> <<"F", "G", "ID">> @@ "Both" :> <<"G">>

Symmetry == Permutations(Ids) \cup Permutations(Callers)
=============================================================================
