---------------------------- MODULE TermMatching ----------------------------
(***************************************************************************)
(* match_pattern and match_term of factum-rt/src/query.rs, and the entity  *)
(* mentions collect_entity_index_ops finds. A match is the set of the      *)
(* bindings it yields: one function from variables to terms, or nothing.   *)
(***************************************************************************)
EXTENDS Naturals, Sequences, FiniteSets, TLC, Terms

IdHead == "<morpheme-id>"  \* PredicateHead::Id, which matches nothing

\* A variable keeps its first value.
BindLast(b, v, t) == {(v :> t) @@ b}
Bind(b, v, t) == IF v \notin DOMAIN b THEN {b @@ (v :> t)} ELSE {b0 \in {b} : b0[v] = t}

RECURSIVE MatchTerm(_, _, _), MatchAll(_, _, _), MatchNamed(_, _, _), MatchPattern(_, _)

\* What a compound binds is dropped.
MatchTerm(p, c, b) ==
  CASE p.kind = "Var" -> Bind(b, p.var, c)
    [] p.kind \in {"Ent", "Lit"} -> {b0 \in {b} : p = c}
    [] p.kind = "Compound" ->
         {b0 \in {b} : c.kind = "Compound" /\ MatchPattern(p.pred, c.pred) # {}}
    [] p.kind = "List" -> IF c.kind = "List" THEN MatchAll(p.items, c.items, b) ELSE {}

MatchAll(ps, cs, b) ==
  IF Len(ps) # Len(cs) THEN {}
  ELSE IF ps = <<>> THEN {b}
  ELSE UNION {MatchAll(Tail(ps), Tail(cs), b1) : b1 \in MatchTerm(Head(ps), Head(cs), b)}

\* Every named argument of the pattern, with the first of that key in the node.
MatchNamed(ps, cs, b) ==
  IF ps = <<>> THEN {b}
  ELSE LET same == SelectSeq(cs, LAMBDA kv : kv[1] = Head(ps)[1])
       IN IF same = <<>> THEN {}
          ELSE UNION {MatchNamed(Tail(ps), cs, b1) : b1 \in MatchTerm(Head(ps)[2], same[1][2], b)}

MatchPattern(p, c) ==
  IF p.head = IdHead \/ c.head = IdHead \/ p.head # c.head THEN {}
  ELSE UNION {MatchNamed(p.named, c.named, b) : b \in MatchAll(p.args, c.args, <<>>)}

Accepts(p, c) == MatchPattern(p, c) # {}

RECURSIVE CountEnt(_, _), CountAll(_, _)

CountEnt(t, e) ==
  CASE t.kind = "Ent" -> IF t.ent = e THEN 1 ELSE 0
    [] t.kind = "Compound" -> CountAll(t.pred.args, e)
    [] t.kind = "List" -> CountAll(t.items, e)
    [] OTHER -> 0
CountAll(ts, e) == IF ts = <<>> THEN 0 ELSE CountEnt(Head(ts), e) + CountAll(Tail(ts), e)

\* Named arguments of the predicate itself count, those of a compound do not.
MentionsOf(p, e) ==
  CountAll(p.args, e) + CountAll([k \in DOMAIN p.named |-> p.named[k][2]], e)
=============================================================================
