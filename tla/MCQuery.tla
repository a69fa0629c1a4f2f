------------------------------ MODULE MCQuery ------------------------------
(***************************************************************************)
(* Instances of the query engine: facts about the status of two services,  *)
(* some of them twice, from several sources.                               *)
(***************************************************************************)
EXTENDS QueryProperties, TermMatching

CONSTANTS c1, i1, i2, i3, x, y, up, down, public, internal, a, b

-----------------------------------------------------------------------------
(* The shapes of node; MCNodes is every id with every shape of a set.      *)

Status(service, value) == Pred("status", <<Ent(service), Lit(value)>>, <<>>)

Shape(pred) ==
  [head |-> pred.head, pred |-> pred, perm |-> {public}, from |-> Forever, until |-> None,
   conf |-> 60, auth |-> 8000, principal |-> a, derived |-> FALSE, deps |-> {}]

XUp == Shape(Status(x, up))
XDown == [Shape(Status(x, down)) EXCEPT !.principal = b]
ShapeSeq ==
  <<XUp,
    [XUp EXCEPT !.auth = 8005, !.principal = b],                          \* a near tie
    [XUp EXCEPT !.from = 2, !.until = 4, !.principal = b],                \* a window
    [XUp EXCEPT !.auth = 9500, !.perm = {internal}],                      \* hidden
    XDown,
    [XDown EXCEPT !.auth = 9000, !.conf = 95, !.principal = None],        \* no weight
    Shape(Status(y, up))>>
Shapes == RangeOf(ShapeSeq)

\* Shapes only the matching tells apart: repeated, nested and named terms.
Odd(pred) == [Shape(pred) EXCEPT !.principal = b]
Shapes2 ==
  {Odd(Pred("status", <<Ent(x), Ent(x)>>, <<>>)),
   Odd(Pred("status", <<Ent(x), Ent(y)>>, <<<<"of", Ent(x)>>>>)),
   Odd(Pred("status", <<Ent(x), List(<<Ent(y), Ent(x)>>)>>, <<>>)),
   Odd(Pred("status", <<Ent(y), Compound(Status(x, up))>>, <<>>)),
   Odd(Pred("other", <<Ent(x)>>, <<>>))}

WithId(shape, i) == [id |-> i] @@ shape
MCIds == {i1, i2, i3}
MCNodes == {WithId(s, i) : s \in Shapes \cup Shapes2, i \in MCIds}
MCBatches == {{WithId(XUp, i)} : i \in MCIds}
             \cup {{WithId(XUp, i), WithId(XDown, j)} :
                      <<i, j>> \in {e \in MCIds \X MCIds : e[1] # e[2]}}

\* The retractions of i1 and i2 have been asked for and may come at any time.
Opening(f) == [facts |-> [i \in MCIds |-> IF f[i] = None THEN None
                                          ELSE [node |-> WithId(f[i], i), status |-> "Active"]],
               asked |-> {i1, i2}, listed |-> {i \in MCIds : f[i] # None}]
Filled(s1, s2, s3) == Opening((i1 :> s1) @@ (i2 :> s2) @@ (i3 :> s3))
MCOpenings ==
  {Filled(ShapeSeq[j], ShapeSeq[k], s) : <<j, k>> \in {e \in (1..7) \X (1..7) : e[1] <= e[2]}, s \in Shapes}
  \cup {Filled(s, u, None) : s \in Shapes2, u \in {XUp, XDown}}

-----------------------------------------------------------------------------
(* Questions.                                                              *)

StatusOfX == Pred("status", <<Ent(x), Var("s")>>, <<>>)
StatusOfAll == Pred("status", <<Var("e"), Var("s")>>, <<>>)
Repeated == Pred("status", <<Var("e"), Var("e")>>, <<>>)
Listed == Pred("status", <<Var("e"), List(<<Var("f"), Var("e")>>)>>, <<>>)
Named == Pred("status", <<Var("e"), Var("f")>>, <<<<"of", Var("e")>>>>)
Nested(v) == Pred("status", <<Var("e"), Compound(Pred("status", <<Var(v), Lit(up)>>, <<>>))>>, <<>>)

\* a weighs 0.8 and b 0.3, so that b and the default are as good as a.
Tool(query, policy) ==
  [query |-> query, policy |-> policy, weights |-> (a :> 26843546) @@ (b :> 10066330),
   asOf |-> None, minConf |-> None]
MCToolQueries ==
  {Tool(StatusOfX, p) : p \in {"latest", "authority", "unanimous", "weighted"}}
  \cup {[Tool(StatusOfAll, "latest") EXCEPT !.asOf = 1], [Tool(StatusOfX, "") EXCEPT !.minConf = 80]}
  \cup {Tool(StatusOfAll, "weighted"),
         [Tool(StatusOfAll, "weighted") EXCEPT !.weights = (a :> -13421773) @@ (b :> 16777216)]}
Library(pattern, kind) ==
  [pattern |-> pattern, entity |-> None, policy |-> [kind |-> kind], now |-> 4, minConf |-> 0,
   roles |-> {public, internal}]
MCQueries ==
  {Library(p, "LatestWins") : p \in {Repeated, Listed, Named, Nested("f")}}
  \cup {Library(StatusOfAll, "Custom"), [Library(StatusOfX, "HighestAuthority") EXCEPT !.entity = y]}

ValueQueries == {Tool(StatusOfX, "latest")}
PastQueries == {[Tool(StatusOfX, "latest") EXCEPT !.asOf = 1]}
EntityQueries == {[Library(Repeated, "LatestWins") EXCEPT !.entity = x]}
SharedQueries == {Library(Nested("e"), "LatestWins")}

-----------------------------------------------------------------------------
(* Properties that speak about terms.                                      *)

RECURSIVE VarsOf(_), Put(_, _)
VarsOf(t) ==
  CASE t.kind = "Var" -> {t.var}
    [] t.kind = "List" -> UNION {VarsOf(t.items[k]) : k \in DOMAIN t.items}
    [] t.kind = "Compound" -> UNION {VarsOf(t.pred.args[k]) : k \in DOMAIN t.pred.args}
    [] OTHER -> {}
Put(t, sub) ==
  CASE t.kind = "Var" -> sub[t.var]
    [] t.kind = "List" -> List([k \in DOMAIN t.items |-> Put(t.items[k], sub)])
    [] t.kind = "Compound" ->
         Compound([t.pred EXCEPT !.args = [k \in DOMAIN t.pred.args |-> Put(t.pred.args[k], sub)]])
    [] OTHER -> t

Values == {Ent(x), Ent(y), Lit(up), Lit(down), List(<<Ent(y), Ent(x)>>), Compound(Status(x, up))}

\* An answer is what the pattern says with one value for each of its variables,
\* in lists and named arguments too (query.rs:214-217 "Same variable must bind
\* to same value"); named arguments the pattern does not mention are free.
AnswersInstances ==
  \A c \in Clients : \A n \in reply[c].results :
    LET p == call[c].pattern
        vars_ == UNION {VarsOf(p.args[k]) : k \in DOMAIN p.args}
                 \cup UNION {VarsOf(p.named[k][2]) : k \in DOMAIN p.named}
    IN \E sub \in [vars_ -> Values] :
         /\ n.pred.args = [k \in DOMAIN p.args |-> Put(p.args[k], sub)]
         /\ \A k \in DOMAIN p.named : \E j \in DOMAIN n.pred.named :
              n.pred.named[j] = <<p.named[k][1], Put(p.named[k][2], sub)>>

\* Asked for one attribute of one subject, LatestWins answers with a node that
\* no other one outranks, or flags the answer (docs/multi-agent-usage.md:187-197
\* "With `LatestWins` policy: Agent B wins (higher authority)").
MostAuthoritativeWins ==
  \A c \in Clients : pc[c] = "idle" /\ Asked(c) /\ call[c].pattern = StatusOfX
                    /\ call[c].policy.kind = "LatestWins" =>
    reply[c].ambiguous \/ \A w \in reply[c].results : \A n \in Considered(c) : ~Outranks(n, w)

\* A query as of a past time considers what was known then and is retracted now
\* (docs/design-rationale.md:99-101 "can still see what was known at a past time,
\* even if some of those nodes have since been retracted").
AsOfSeesPast ==
  \A c \in Clients : ReadAll(c) /\ call[c].now < Now =>
    \A i \in before[c].listed :
      LET n == before[c].facts[i].node
      IN LookedFor(call[c], n) /\ Relevant(n, call[c]) => n \in RangeOf(got[c])
=============================================================================
