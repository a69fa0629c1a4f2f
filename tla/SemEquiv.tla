------------------------------- MODULE SemEquiv -------------------------------
(***************************************************************************)
(* factum-l/src/sequiv.rs: how close two nodes are in meaning. A node is   *)
(* the record of Parser.tla with a status; a head is [name |-> n] or       *)
(* [id |-> k]. Scores are in hundredths. The lists of differences are left *)
(* out: only whether there are any matters to a verdict.                   *)
(***************************************************************************)
EXTENDS Terms, Integers, SequencesExt

CONSTANTS
  Morphemes,  \* the registry: a sequence of [name, kind]; an id is a position, from 0
  Eps,        \* F32_EPS, in the unit of confidence and authority
  Inner       \* the terms that stand in other terms: recursion is over them

resolve(name) == {k - 1 : k \in {j \in DOMAIN Morphemes : Morphemes[j].name = name}}
lookup_id(id) == {Morphemes[k] : k \in {id + 1} \cap DOMAIN Morphemes}

Exact == [level |-> "Exact", score |-> 100]
MetadataDrift == [level |-> "MetadataDrift", score |-> 85]
WrongValues(score) == [level |-> "WrongValues", score |-> IF score < 30 THEN score ELSE 30]
Different == [level |-> "Different", score |-> 0]

\* A head as the serializer writes it: an id is not the name it stands for.
head_text(h) == IF "name" \in DOMAIN h THEN h.name ELSE <<"M", ToString(h.id)>>
head_info(h) ==
  IF "name" \in DOMAIN h \/ lookup_id(h.id) = {} THEN head_text(h) ELSE Morphemes[h.id + 1].name

compare_heads_text(a, b) == head_text(a) = head_text(b)
compare_heads(a, b) == head_info(a) = head_info(b)

\* The verdict on a predicate or a list, from the verdicts on its parts.
Verdict(parts) ==
  LET levels == {parts[k].level : k \in DOMAIN parts}
      wrong == Cardinality({k \in DOMAIN parts : parts[k].level = "WrongValues"})
  IN IF "Different" \in levels THEN Different
     ELSE IF wrong > 0 THEN WrongValues(IF wrong < 3 THEN 30 - 10 * wrong ELSE 0)
     ELSE IF levels \subseteq {"Exact"} THEN Exact ELSE MetadataDrift

lit_eq(a, b) == a = b   \* decimals by mantissa and scale
compare_literals(a, b) ==
  IF lit_eq(a, b) THEN Exact ELSE IF a.type = b.type THEN WrongValues(30) ELSE Different

\* With the terms compared by Part.
ListsBy(as, bs, Part(_, _)) ==
  IF Len(as) # Len(bs) THEN Different ELSE Verdict([k \in DOMAIN as |-> Part(as[k], bs[k])])

Keys(named) == [k \in DOMAIN named |-> named[k][1]]
Values(named) == [k \in DOMAIN named |-> named[k][2]]

\* Named arguments are compared by position, not by key.
PredicatesBy(a, b, Part(_, _)) ==
  IF ~compare_heads(a.head, b.head) \/ Len(a.args) # Len(b.args) \/ Keys(a.named) # Keys(b.named)
  THEN Different
  ELSE ListsBy(a.args \o Values(a.named), b.args \o Values(b.named), Part)

Nests(t) == t.kind \in {"Compound", "List"}
compare_leaves(a, b) ==
  IF a.kind # b.kind THEN Different
  ELSE CASE a.kind = "Var" -> IF a.var = b.var THEN Exact ELSE WrongValues(20)
         [] a.kind = "Ent" -> IF a.ent = b.ent THEN Exact ELSE WrongValues(30)
         [] a.kind = "Lit" -> compare_literals(a.lit, b.lit)

\* Terms whose parts are compared by inner.
compare_nested(a, b, inner) ==
  LET Part(u, v) == IF u.kind # v.kind \/ ~Nests(u) THEN compare_leaves(u, v) ELSE inner[<<u, v>>]
  IN IF a.kind # b.kind \/ ~Nests(a) THEN compare_leaves(a, b)
     ELSE IF a.kind = "Compound" THEN PredicatesBy(a.pred, b.pred, Part)
     ELSE ListsBy(a.items, b.items, Part)
compare_inner[ab \in Inner \X Inner] == compare_nested(ab[1], ab[2], compare_inner)
compare_terms(a, b) == compare_nested(a, b, compare_inner)
compare_predicates(a, b) == PredicatesBy(a, b, compare_terms)

Near(x, y) == x - y <= Eps /\ y - x <= Eps

\* collect_metadata_diffs finds nothing. The id and the note are not compared.
SameMetadata(a, b) ==
  /\ \A f \in {"validity", "provenance", "perm", "deps", "status"} : a[f] = b[f]
  /\ Near(a.conf, b.conf) /\ Near(a.auth, b.auth)

compare(a, b) ==
  LET pred == compare_predicates(a.pred, b.pred)
  IN IF pred.level = "Exact" /\ ~SameMetadata(a, b) THEN MetadataDrift ELSE pred

\* The average score, in hundredths.
compare_sequence(original, decoded) ==
  IF original = <<>> /\ decoded = <<>> THEN 100
  ELSE IF Len(original) # Len(decoded) THEN 0
  ELSE FoldLeft(LAMBDA sum, k : sum + compare(original[k], decoded[k]).score, 0,
                [k \in DOMAIN original |-> k]) \div Len(original)
=============================================================================
