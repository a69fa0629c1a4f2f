------------------------------ MODULE MCStore ------------------------------
(***************************************************************************)
(* Instances of the store for TLC: a fact a, nodes derived from it, a      *)
(* summary that is not Derived, a dependency cycle, an invalid node.       *)
(***************************************************************************)
EXTENDS StoreProperties, TLC

CONSTANTS a, b, c, t1, t2, s1, s2, k1, k2, w1, w2

Fact(i, deps, derived) ==
  [id |-> i, deps |-> deps, derived |-> derived, keys |-> {k1}, window |-> w1, valid |-> TRUE]

A  == [Fact(a, {}, FALSE) EXCEPT !.keys = {k1, k2}]
B  == Fact(b, {a}, TRUE)
C  == [Fact(c, {a, b}, TRUE) EXCEPT !.window = w2]
Bs == Fact(b, {a}, FALSE)                   \* a Summary of a: does not follow it
Ac == Fact(a, {b}, TRUE)                    \* with B, a cycle
Bx == [B EXCEPT !.valid = FALSE]            \* rejected by the verifiers

AllNodes == {A, B, C, Bs, Ac, Bx}

\* One client, everything it may do.
SeqOffers  == t1 :> {A, B, C, Ac, Bx}
SeqBatches == t1 :> {{A, B}, {A, Ac}, {Bs, C}, {A, Bx}}

\* Two clients that insert different ids.
TwoOffers  == (t1 :> {A, B, Bs}) @@ (t2 :> {C})
NoBatches  == (t1 :> {}) @@ (t2 :> {})
TwoBatches == (t1 :> {{A, B}}) @@ (t2 :> {})

\* Two clients that may insert the same id.
SameOffers == (t1 :> {A, B}) @@ (t2 :> {A, B})
CycleOffers == (t1 :> {Ac}) @@ (t2 :> {B})

WatchAll == (s1 :> {A, B, C, Bs, Ac})
WatchTwo == (s1 :> {A, B, C, Bs, Ac}) @@ (s2 :> {B, C, Bs})
WatchNone == <<>>
=============================================================================
