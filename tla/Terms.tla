-------------------------------- MODULE Terms --------------------------------
(***************************************************************************)
(* Terms and predicates of factum-core/src/types.rs. A predicate is a      *)
(* record of head, args and named arguments <<key, term>>; a term is a     *)
(* record tagged Var, Ent, Lit, Compound or List.                          *)
(***************************************************************************)
Var(x) == [kind |-> "Var", var |-> x]
Ent(e) == [kind |-> "Ent", ent |-> e]
Lit(l) == [kind |-> "Lit", lit |-> l]
Compound(p) == [kind |-> "Compound", pred |-> p]
List(ts) == [kind |-> "List", items |-> ts]
Pred(h, args, named) == [head |-> h, args |-> args, named |-> named]
=============================================================================
