---------------------------- MODULE Arbitration ----------------------------
(***************************************************************************)
(* Conflict arbitration (factum-rt/src/arbitration.rs): what a query       *)
(* answers when several nodes match its pattern. Candidates are a function *)
(* from places, in the order in which the index listed them, to nodes; an  *)
(* answer is a set of places and the ambiguous flag. Authorities are       *)
(* integers in ten-thousandths, so that the tolerance 0.001 is 10. Weights *)
(* are f32 numbers in units of 2^-25, of which those from 1/4 up are       *)
(* multiples, and are added as f32 adds.                                   *)
(***************************************************************************)
EXTENDS Integers, Sequences, FiniteSets, FiniteSetsExt

Forever == 0  \* the `from` of Validity::Forever; windows start at 1 or later
Digits == 16777216  \* 24 significant bits
Default == Digits   \* 0.5
Near(a, b) == a - b < 10 /\ b - a < 10

\* The comparator of LatestWins: authority, then validity_recency_cmp, for which
\* windows go by their start and Forever is the least recent.
Outranks(a, b) == a.auth > b.auth \/ (a.auth = b.auth /\ a.from > b.from)

\* Places whose nodes have the same canonical predicate (sub_group_by_predicate).
\* group_by_pattern puts all candidates of one pattern in a single group.
SubGroup(g, i) == {j \in DOMAIN g : g[j].pred = g[i].pred}
SubGroups(g) == {SubGroup(g, i) : i \in DOMAIN g}

First(S) == CHOOSE i \in S : \A j \in S : i <= j
Weight(weights, n) == IF n.principal \in DOMAIN weights THEN weights[n.principal] ELSE Default

\* What a number of a size is rounded to a multiple of, below 64 * Digits (32.0);
\* larger sums, which f32 rounds to coarser steps yet, are rounded as these are.
Coarsest == 64
Ulps == {1, 2, 4, 8, 16, 32, Coarsest}
Ulp(size) == CHOOSE u \in Ulps : /\ size < u * Digits \/ u = Coarsest
                                 /\ \A v \in Ulps : size < v * Digits => u <= v

\* To the nearest multiple, from the middle to the even one.
Rounded(x) ==
  LET ulp == Ulp(IF x < 0 THEN -x ELSE x)
      times == x \div ulp
      rest == x % ulp
  IN IF 2 * rest < ulp \/ (2 * rest = ulp /\ times % 2 = 0) THEN times * ulp ELSE (times + 1) * ulp

\* The weight of places, added up in their order: the order decides the last digits.
Tally(g, S, weights) ==
  MapThenFoldSet(LAMBDA w, sum : Rounded(sum + w), 0, LAMBDA i : Weight(weights, g[i]), Max, S)

Answered(S) == [results |-> S, ambiguous |-> FALSE]
Refused == [results |-> {}, ambiguous |-> TRUE]

\* max_by returns the last of several greatest elements.
IsLatest(g, S, w) ==
  /\ w \in S
  /\ \A j \in S : ~Outranks(g[j], g[w]) /\ (j > w => Outranks(g[w], g[j]))
LatestTie(g, S, w) ==
  \E j \in S \ {w} : Near(g[j].auth, g[w].auth) /\ g[j].from = g[w].from

LatestWins(g) ==
  {[results |-> R,
    ambiguous |-> \E S \in SubGroups(g) : \E w \in S \cap R : LatestTie(g, S, w)] :
     R \in {R \in SUBSET DOMAIN g :
              \A S \in SubGroups(g) : \E w \in S : R \cap S = {w} /\ IsLatest(g, S, w)}}

\* Those within the tolerance of the highest authority; the first one is returned.
Winners(g, S) == {i \in S : \E m \in S : /\ \A j \in S : g[j].auth <= g[m].auth
                                         /\ Near(g[i].auth, g[m].auth)}
HighestAuthority(g) ==
  {[results |-> {First(Winners(g, S)) : S \in SubGroups(g)},
    ambiguous |-> \E S \in SubGroups(g) : Cardinality(Winners(g, S)) > 1]}

Unanimous(g) ==
  LET first == First(DOMAIN g)
  IN {IF \A i \in DOMAIN g : g[i].pred = g[first].pred THEN Answered({first}) ELSE Refused}

Plurality(weight, total) == weight > 0
Majority(weight, total) == 2 * weight > total

\* The heaviest predicate answers, with its first node, if it has more than
\* half of all weight (halving a float is exact). The HashMap's order decides
\* between equal weights.
WeightedVote(g, weights) ==
  {IF Majority(Tally(g, S, weights), Tally(g, DOMAIN g, weights))
   THEN Answered({First(S)}) ELSE Refused :
     S \in {S \in SubGroups(g) :
              \A T \in SubGroups(g) : Tally(g, T, weights) <= Tally(g, S, weights)}}

PolicyKinds == {"LatestWins", "HighestAuthority", "Unanimous", "WeightedVote", "Custom"}

\* All answers `arbitrate` can return. A single candidate answers under every
\* policy, none at all is an empty, unambiguous answer.
Outcomes(g, policy) ==
  IF Cardinality(DOMAIN g) <= 1 THEN {Answered(DOMAIN g)}
  ELSE CASE policy.kind = "LatestWins"       -> LatestWins(g)
         [] policy.kind = "HighestAuthority" -> HighestAuthority(g)
         [] policy.kind = "Unanimous"        -> Unanimous(g)
         [] policy.kind = "WeightedVote"     -> WeightedVote(g, policy.weights)
         [] policy.kind = "Custom"           -> {Refused}
=============================================================================
