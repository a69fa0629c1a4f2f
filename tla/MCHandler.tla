----------------------------- MODULE MCHandler -----------------------------
(***************************************************************************)
(* Instances of the handler for TLC: two versions v and w of a fact about  *)
(* entity e with predicate p, a node derived from v, an assertion.         *)
(***************************************************************************)
EXTENDS HandlerProperties, TLC

CONSTANTS v, w, d, x, t1, t2, e, p, q, alice, bob, always

Node(id, keys, deps) ==
  [id |-> id, deps |-> deps, derived |-> deps # {}, keys |-> keys, window |-> always, valid |-> TRUE]

V  == Node(v, {e, p, alice}, {})
W  == Node(w, {e, p, bob}, {})
Wv == Node(w, {e, p}, {v})                  \* the new version, derived from the old
D  == Node(d, {q}, {v})                     \* something derived from v
Vd == Node(v, {e, p, alice}, {d})           \* v on a cycle with d
Xa == Node(x, {q, alice}, {})               \* asserted by alice, within the band
Xb == Node(x, {q, bob}, {})                 \* the same fact asserted by bob, too confident

AllNodes == {V, W, Wv, D, Vd, Xa, Xb}
TheFact == {[entity |-> e, keys |-> {p}]}

One(S) == t1 :> S
Both(S, T) == (t1 :> S) @@ (t2 :> T)

OneAll == One(AllNodes)
BothAll == Both(AllNodes, AllNodes)

OneNothing == One({})
OneInserts == One({D})
OneUpserts == One({V, W, Wv})
OneDerived == One({V, Wv})
OneAsserts == One({Xa, Xb})

BothNothing == Both({}, {})
BothCyclic == Both({Vd, D}, {W})
BothBatches == Both({{V, D}}, {})
BothUpserts == Both({}, {W})
RaceUpserts == Both({V}, {W})
BothAsserts == Both({Xb}, {})

Unlikely == {Xb}
Twice == {<<V, e>>}
Nowhere == {}
NoWatches == <<>>
=============================================================================
