-------------------------- MODULE QueryProperties --------------------------
(***************************************************************************)
(* What a query of module QueryEngine should answer.                       *)
(***************************************************************************)
EXTENDS QueryEngine

RangeOf(s) == {s[k] : k \in DOMAIN s}
Retracted(i, state) == state[i] # None /\ state[i].status = "Retracted"
Asked(c) == asking[c] > 0
ReadAll(c) == Asked(c) /\ todo[c] = {} /\ pc[c] # "scan"

\* The nodes a look-up of q is for.
LookedFor(q, n) ==
  IF q.entity = None THEN n.head = q.pattern.head ELSE Mentions(n.pred, q.entity) > 0

-----------------------------------------------------------------------------
(* While others write, a query works on a set of nodes between those       *)
(* believed during all of it and those believed at some moment of it.      *)

\* Whatever order the locks are taken in: a query considers nothing that was
\* retracted before it was asked, misses nothing that was indexed when it was
\* asked and is active still (unless the backend failed), and considers no node
\* twice under a predicate look-up (query.rs:95-106, store.rs:436-446, 598-603).
CandidatesRegular ==
  \A c \in Clients :
    /\ \A k \in DOMAIN got[c] :
         LET n == got[c][k] IN /\ Known(n.id) /\ facts[n.id].node = n
                               /\ ~Retracted(n.id, before[c].facts)
    /\ ReadAll(c) /\ errors[c] = 0 =>
         \A i \in before[c].listed :
           Believed(i) /\ LookedFor(call[c], facts[i].node) => facts[i].node \in RangeOf(got[c])
    /\ Asked(c) /\ call[c].entity = None =>
         \A j, k \in DOMAIN got[c] : j # k => got[c][j].id # got[c][k].id

-----------------------------------------------------------------------------
(* The answer, from the considered nodes as a set: no order, no index.     *)

\* What q asks about: nodes it may see, that hold at its time, that are as
\* confident as it wants.
Relevant(n, q) ==
  /\ \E role \in q.roles : role \in n.perm
  /\ n.from # Forever => n.from <= q.now
  /\ n.from # Forever /\ n.until # None => q.now < n.until
  /\ q.minConf <= n.conf
Considered(c) == {n \in RangeOf(got[c]) : Relevant(n, call[c]) /\ Bound(call[c].pattern, n.pred)}

SameFact(A, n) == {m \in A : m.pred = n.pred}
Support(A, weights) == SumFunction([n \in A |-> Weight(weights, n)])

\* One node for each fact, flagged if another source of it is as good.
OneEach(A, r) == \A n \in A : Cardinality(SameFact(r.results, n)) = 1

Is_LatestWins(A, r) ==
  /\ OneEach(A, r)
  /\ \A n \in A : \A w \in SameFact(r.results, n) : ~Outranks(n, w)
  /\ r.ambiguous <=> \E w \in r.results : \E n \in SameFact(A, w) \ {w} :
                       Near(n.auth, w.auth) /\ n.from = w.from

Foremost(A, n) ==
  {m \in SameFact(A, n) : \A x \in SameFact(A, n) : x.auth <= m.auth \/ Near(x.auth, m.auth)}
Is_HighestAuthority(A, r) ==
  /\ OneEach(A, r)
  /\ \A w \in r.results : w \in Foremost(A, w)
  /\ r.ambiguous <=> \E n \in A : Cardinality(Foremost(A, n)) > 1

\* Agreement, or nothing.
Is_Unanimous(A, r) ==
  IF \A n, m \in A : n.pred = m.pred THEN OneEach(A, r) /\ ~r.ambiguous ELSE r = Refused

\* What a vote and its half can be off by, for nodes that weigh less than 32 together.
Slack(A) == 2 * Coarsest * Cardinality(A)
Light(A, weights) ==
  SumFunction([n \in A |-> LET w == Weight(weights, n) IN IF w < 0 THEN -w ELSE w])
    < Coarsest * Digits

\* The heaviest fact if it weighs more than half, nothing if none does; within
\* the slack of a half, one or the other.
Is_WeightedVote(A, weights, r) ==
  LET support(n) == Support(SameFact(A, n), weights)
      margin(n) == 2 * support(n) - Support(A, weights)
  IN \/ \E n \in A : /\ r = Answered({n}) /\ margin(n) > -Slack(A)
                     /\ \A m \in A : support(m) <= support(n) + Slack(A)
     \/ r = Refused /\ \A n \in A : margin(n) <= Slack(A)

Arbitrated(A, p, r) ==
  /\ r.results \subseteq A
  /\ Cardinality(A) <= 1 => r = Answered(A)
  /\ Cardinality(A) > 1 =>
       CASE p.kind = "LatestWins"       -> Is_LatestWins(A, r)
         [] p.kind = "HighestAuthority" -> Is_HighestAuthority(A, r)
         [] p.kind = "Unanimous"        -> Is_Unanimous(A, r)
         [] p.kind = "WeightedVote"     -> Light(A, p.weights) => Is_WeightedVote(A, p.weights, r)
         [] p.kind = "Custom"           -> r = Refused

\* What a query answers depends only on the nodes it may see, is valid and
\* confident enough, and matches, and not on the order they were found in: for
\* each policy the answer is the documented one, and a policy that needs
\* agreement returns nothing without it (arbitration.rs:3-31; permission.rs:3-8
\* "if a query returns 10 results but 3 are filtered out, the caller can infer").
\* Save for votes so close to a half that adding f32 weights in another order
\* would decide otherwise (arbitration.rs:210-234): those may go either way.
AnswersArbitrate ==
  \A c \in Clients : pc[c] = "idle" /\ Asked(c) => Arbitrated(Considered(c), call[c].policy, reply[c])
=============================================================================
