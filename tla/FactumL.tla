------------------------------- MODULE FactumL -------------------------------
(***************************************************************************)
(* factum-l in use. A sender encodes nodes into a vector, the vector may   *)
(* be normalised and disturbed, a reader decodes it and may pass on what   *)
(* it got. Beside it, the benchmark of benchmark.rs takes the same nodes   *)
(* through the three gates, one after the other.                           *)
(***************************************************************************)
EXTENDS BaselineCodec

CONSTANTS
  Batches,       \* what may be sent: sequences of nodes
  Bytes(_),      \* length of a node's canonical text
  Length(_),     \* l2_norm of a node's baseline vector, n-grams included, in units of 1 / Unit
  GateConfigs,   \* [divisor, latent, split]: split is <<a, b>> for a / b
  MaxUsize,      \* usize::MAX, the divisor that sets no budget
  Threshold,     \* DEFAULT_THRESHOLD, 50
  MaxHops,
  MaxNoise       \* latent operations on one vector

Codecs == {"packed", "baseline"}

-----------------------------------------------------------------------------
(* What is taken for granted of the constants: nodes are made as types.rs  *)
(* makes them.                                                             *)

IsSeq(s) == s \in Seq(ToSet(s))

LeafShape(t) ==
  CASE t.kind = "Ent" -> t = Ent(t.ent)
    [] t.kind = "Var" -> t = Var(t.var)
    [] t.kind = "Lit" ->
         /\ t = Lit(t.lit) /\ t.lit.type \in {"Dec", "Str", "Date", "Bool", "Uri", "Dur"}
         /\ t.lit.type \in {"Str", "Uri"} => t.lit = [type |-> t.lit.type, text |-> t.lit.text]
         /\ t.lit.type = "Date" => t.lit = [type |-> "Date", day |-> t.lit.day] /\ t.lit.day \in Days
         /\ t.lit.type = "Bool" => \E b \in {"t", "f"} : t.lit = [type |-> "Bool", text |-> <<b>>]
    [] OTHER -> t.kind \in {"Compound", "List"}

TermShape(t) ==
  /\ LeafShape(t) /\ TypeOf(t) \in ToSet(Types) /\ IsSeq(term_value_string(t))
  /\ t.kind = "List" => t = List(t.items) /\ IsSeq(t.items) /\ \A u \in ToSet(t.items) : LeafShape(u)

NodeShape(n) ==
  /\ IsSeq(n.pred.args) /\ IsSeq(n.pred.named)
  /\ \A t \in ToSet(n.pred.args) \cup ToSet(Values(n.pred.named)) : TermShape(t)
  /\ {n.conf, n.auth} \subseteq 0..Certain /\ n.status \in ToSet(StatusSeq)
  /\ n.perm \in ToSet(PermissionSeq) /\ n.provenance.kind \in ToSet(ProvenanceSeq)
  /\ n.validity.kind \in {"Forever", "Window"}
  /\ IF "id" \in DOMAIN n.pred.head
     THEN /\ n.pred.head = [id |-> n.pred.head.id] /\ n.pred.head.id \in Nat
          /\ \A k \in DOMAIN Morphemes : Morphemes[k].name # head_text(n.pred.head)
     ELSE n.pred.head = [name |-> n.pred.head.name]

ASSUME BatchAssumption ==
  /\ \A nodes \in Batches : IsSeq(nodes)
  /\ \A nodes \in Batches : \A n \in ToSet(nodes) :
       NodeShape(n) /\ Bytes(n) \in Nat /\ Length(n) \in Nat \ {0}
  /\ IsSeq(Morphemes)
  /\ \A j, k \in DOMAIN Morphemes : Morphemes[j].name = Morphemes[k].name => j = k

\* Inner has the terms within terms, and what is counted over them is a number.
ASSUME InnerAssumption ==
  /\ \A nodes \in Batches : \A n \in ToSet(nodes) :
       \A t \in ToSet(n.pred.args) \cup ToSet(Values(n.pred.named)) :
         \A ts \in {ItemsOf(t), IF t.kind = "Compound" THEN t.pred.args ELSE ItemsOf(t)} :
           IsSeq(ts) /\ ToSet(ts) \subseteq Inner
  /\ \A ft \in FeatureNames \X Inner : inner_terms[ft] \in Nat

ASSUME BoundAssumption ==
  /\ {MaxHops, MaxUsize, NGramSize} \subseteq Nat /\ PackedDim # BaselineDim
  /\ Threshold \in 31..85
  /\ \A g \in GateConfigs :
       g.divisor \in Nat \ {0} /\ g.split[1] \in Nat /\ g.split[2] \in Nat \ {0}

\* One latent operation moves the ratio of a float to the first one by at most
\* 0.000005, since a vector is at most 4.92 times as long as its first float, and the
\* next one moves it on in the same direction. After 20 it is still within half a unit
\* of 1 / 4488, the closest any float is read; some ten more and a character changes.
NoiseMargin == 20
ASSUME NoiseAssumption == MaxNoise \in 0..NoiseMargin

VARIABLES
  codec, reader,  \* of the sender and of the receiver
  sent,           \* what the first sender meant
  held,           \* what the last receiver has
  wire,           \* the vector under way, if there is one
  hops, noise, error,
  gates, rest, details  \* of the benchmark: nodes to do, results so far

channel == <<held, wire, hops, noise, error>>
bench == <<rest, details>>
vars == <<codec, reader, sent, gates, channel, bench>>

-----------------------------------------------------------------------------
(* The two codecs behind the traits Encoder and Decoder.                   *)

encode_sequence(c, nodes) ==
  IF c = "packed" THEN packed_encode_sequence(nodes) ELSE baseline_encode_sequence(nodes)
encode_node(c, n) == IF c = "packed" THEN packed_encode_node(n) ELSE baseline_encode_node(n)
decode(c, z) == IF c = "packed" THEN packed_decode(z) ELSE baseline_decode(z)

\* Normalisation and noise for a packed vector, within the margin: what is rounded when
\* read stays what it was, the authority, which is not, moves towards 1, here by a
\* unit. Of the zero vector all floats become the noise, and all ratios 1.
disturb_packed(z) ==
  IF z.scale = 0 THEN [z EXCEPT !.scale = 1, !.head = MaxMorphemes, !.auth = Certain]
  ELSE [z EXCEPT !.auth = IF z.auth < Certain THEN z.auth + 1 ELSE Certain]

\* A baseline vector has no scale reference: every feature shrinks by its length. Of the
\* morphemes only the order is read, and whether there are any: with the noise no
\* morpheme is at zero, so that there always is one. The noise is less than a unit.
disturb_baseline(z, length) ==
  [z EXCEPT !.morphemes = [k \in DOMAIN Morphemes |-> z.morphemes[k] + 1],
            !.types = [f \in FeatureNames |-> (z.types[f] * Unit) \div length],
            !.meta = [f \in MetaFeatures |-> (z.meta[f] * Unit) \div length]]

apply_latent_operation(c, z, length) ==
  IF c = "packed" THEN disturb_packed(z) ELSE disturb_baseline(z, length)

-----------------------------------------------------------------------------
(* The benchmark.                                                          *)

\* Every second node is a test, as many as the ratio asks for.
TestNodes(nodes, g) ==
  LET wanted == (Len(nodes) * g.split[1] + g.split[2] - 1) \div g.split[2]
      odd == [k \in 1..(Len(nodes) \div 2) |-> nodes[2 * k]]
      test == SubSeq(odd, 1, IF wanted < Len(odd) THEN wanted ELSE Len(odd))
  IN IF g.split[1] = 0 \/ test = <<>> THEN nodes ELSE test

\* The budget itself is allowed.
within_budget_equal(dim, bytes, divisor) ==
  divisor = MaxUsize \/ dim * 32 <= (bytes * 8) \div divisor
within_budget(dim, bytes, divisor) ==
  divisor = MaxUsize \/ dim * 32 < (bytes * 8) \div divisor

Result(n, verdict, err) == [node |-> n, level |-> verdict.level, score |-> verdict.score, err |-> err]

bench_single_node_gated(n) ==
  LET z == encode_node(codec, n)
  IN IF ~within_budget(z.dim, Bytes(n), gates.divisor) THEN Result(n, Different, "")
     ELSE LET r == decode(codec, IF gates.latent THEN apply_latent_operation(codec, z, Length(n)) ELSE z)
          IN IF r.err # "" THEN Result(n, Different, r.err) ELSE Result(n, compare(n, r.val), "")

Summary ==
  LET scores == {details[k].score : k \in DOMAIN details}
  IN [total |-> Len(details),
      passed |-> Cardinality({k \in DOMAIN details : details[k].score >= Threshold}),
      sum |-> Total(LAMBDA d : d.score, details),
      min |-> IF scores = {} THEN 0 ELSE Min(scores), max |-> IF scores = {} THEN 0 ELSE Max(scores),
      failures |-> SelectSeq(details, LAMBDA d : d.err # "")]

-----------------------------------------------------------------------------

Init ==
  /\ codec \in Codecs /\ reader \in Codecs
  /\ sent \in Batches /\ held = sent
  /\ wire = <<>> /\ hops = 0 /\ noise = 0 /\ error = ""
  /\ gates \in GateConfigs
  /\ rest = TestNodes(sent, gates) /\ details = <<>>

\* encode_node, encode_sequence, or encode_text of what parses to these nodes.
Encode ==
  /\ wire = <<>> /\ error = "" /\ hops < MaxHops
  /\ wire' = <<IF Len(held) = 1 THEN encode_node(codec, held[1]) ELSE encode_sequence(codec, held)>>
  /\ noise' = 0
  /\ UNCHANGED <<codec, reader, sent, gates, held, hops, error, bench>>

\* Only packed vectors are disturbed on their way: their decoder undoes a scale.
Disturb ==
  /\ wire # <<>> /\ codec = "packed" /\ noise < MaxNoise
  /\ wire' = <<disturb_packed(wire[1])>>
  /\ noise' = noise + 1
  /\ UNCHANGED <<codec, reader, sent, gates, held, hops, error, bench>>

Decode ==
  /\ wire # <<>>
  /\ \E r \in {decode(reader, wire[1])} :
       /\ error' = r.err
       /\ held' = IF r.err = "" THEN <<r.val>> ELSE <<>>
  /\ wire' = <<>>
  /\ hops' = hops + 1
  /\ UNCHANGED <<codec, reader, sent, gates, noise, bench>>

\* Failures are left out of the statistics.
BenchSucceeded ==
  /\ rest # <<>>
  /\ \E r \in {bench_single_node_gated(rest[1])} :
       details' = IF r.err = "" THEN Append(details, r) ELSE details
  /\ rest' = Tail(rest)
  /\ UNCHANGED <<codec, reader, sent, gates, channel>>

BenchNode ==
  /\ rest # <<>>
  /\ details' = Append(details, bench_single_node_gated(rest[1]))
  /\ rest' = Tail(rest)
  /\ UNCHANGED <<codec, reader, sent, gates, channel>>

Finished ==
  /\ rest = <<>> /\ wire = <<>> /\ (error # "" \/ hops = MaxHops)
  /\ UNCHANGED vars

Next == Encode \/ Disturb \/ Decode \/ BenchNode \/ Finished

Spec == Init /\ [][Next]_vars
=============================================================================
