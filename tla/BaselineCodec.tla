---------------------------- MODULE BaselineCodec ----------------------------
(***************************************************************************)
(* factum-l/src/encoder.rs and decoder.rs: a node as counts. The vector    *)
(* has a bag of morphemes, n-gram frequencies of the canonical text, which *)
(* the decoder does not read and which are left out, and features of the   *)
(* argument types and of the metadata. A feature is an integer in units of *)
(* 1 / Unit, which divides evenly in every division of the encoder.        *)
(***************************************************************************)
EXTENDS PackedCodec

CONSTANTS NGramSize,  \* NGRAM_HASH_SIZE, 256 in the code
          Unit

ASSUME UnitAssumption == Unit \in Nat \ {0} /\ Unit % 2 = 0

TypeFeatures == <<"Var", "Ent", "Lit", "Compound", "List", "Dec", "Str", "Other">>
FeatureNames == ToSet(TypeFeatures)
MetaFeatures == {"auth", "perm", "window", "provenance", "deps", "status", "note"}
PermissionSeq == <<"public", "internal", "confidential", "restricted", "combined">>
ProvenanceSeq == <<"Verbatim", "Summary", "Extracted", "Derived", "Asserted">>
StatusSeq == <<"Active", "Retracted", "Pending">>
PlaceOf(s, x) == (CHOOSE k \in DOMAIN s : s[k] = x) - 1

BaselineDim == Len(Morphemes) + NGramSize + 8 + 8

Total(f(_), s) == SumFunction([k \in DOMAIN s |-> f(s[k])])

-----------------------------------------------------------------------------
(* The encoder.                                                            *)

ItemsOf(t) ==
  CASE t.kind = "Compound" -> t.pred.args \o Values(t.pred.named)
    [] t.kind = "List" -> t.items
    [] OTHER -> <<>>

\* How often a morpheme is the head of a predicate or of one nested in it.
morpheme_of(h) == IF "id" \in DOMAIN h THEN {h.id} ELSE resolve(h.name)
HeadCount(h, k) == IF morpheme_of(h) = {k - 1} THEN 1 ELSE 0
HeadsInTerm(t, k, inner) ==
  (IF t.kind = "Compound" THEN HeadCount(t.pred.head, k) ELSE 0) + Total(LAMBDA u : inner[<<u, k>>], ItemsOf(t))
inner_heads[tk \in Inner \X DOMAIN Morphemes] == HeadsInTerm(tk[1], tk[2], inner_heads)
extract_morpheme_features(p) ==
  [k \in DOMAIN Morphemes |->
     HeadCount(p.head, k) + Total(LAMBDA u : HeadsInTerm(u, k, inner_heads), p.args \o Values(p.named))]

FeaturesOf(t) ==
  IF t.kind # "Lit" THEN {t.kind}
  ELSE {"Lit", IF t.lit.type \in {"Dec", "Str"} THEN t.lit.type ELSE "Other"}

\* How many terms have a feature. Named arguments of nested predicates are not counted.
TermsWith(f, t, inner) ==
  (IF f \in FeaturesOf(t) THEN 1 ELSE 0)
  + Total(LAMBDA u : inner[<<f, u>>], IF t.kind = "Compound" THEN t.pred.args ELSE ItemsOf(t))
inner_terms[ft \in FeatureNames \X Inner] == TermsWith(ft[1], ft[2], inner_terms)

\* Counts over the number of positional arguments.
extract_type_features(p) ==
  [f \in FeatureNames |-> (Total(LAMBDA t : TermsWith(f, t, inner_terms), p.args \o Values(p.named)) * Unit)
                          \div (IF p.args = <<>> THEN 1 ELSE Len(p.args))]

Flag(b) == IF b THEN Unit ELSE 0
\* A level is stored as its number over the highest one and read back times that.
extract_meta_features(n) ==
  [auth |-> n.auth * Unit, perm |-> PlaceOf(PermissionSeq, n.perm) * Unit, window |-> Flag(n.validity.kind = "Window"),
   provenance |-> PlaceOf(ProvenanceSeq, n.provenance.kind) * Unit, deps |-> Flag(n.deps # <<>>),
   status |-> PlaceOf(StatusSeq, n.status) * Unit, note |-> Flag(n.note # <<>>)]

build_vector(morphemes, types, meta) ==
  [dim |-> BaselineDim, morphemes |-> morphemes, types |-> types, meta |-> meta]
BaselineZeros ==
  build_vector([k \in DOMAIN Morphemes |-> 0], [f \in FeatureNames |-> 0], [f \in MetaFeatures |-> 0])

baseline_encode_node(n) ==
  build_vector(extract_morpheme_features(n.pred), extract_type_features(n.pred), extract_meta_features(n))

\* Morphemes are added up, types and metadata averaged.
Averaged(vs, names, f(_, _)) == [x \in names |-> Total(LAMBDA v : f(v, x), vs) \div Len(vs)]
baseline_encode_sequence(nodes) ==
  IF nodes = <<>> THEN BaselineZeros
  ELSE LET vs == [k \in DOMAIN nodes |-> baseline_encode_node(nodes[k])]
       IN build_vector([k \in DOMAIN Morphemes |-> Total(LAMBDA v : v.morphemes[k], vs)],
                       Averaged(vs, FeatureNames, LAMBDA v, f : v.types[f]),
                       Averaged(vs, MetaFeatures, LAMBDA v, f : v.meta[f]))

-----------------------------------------------------------------------------
(* The decoder. round() rounds halves up.                                  *)

Rounded(v) == (2 * v + Unit) \div (2 * Unit)
\* A flag is exactly 1.
ExceedsOne(v) == v > Unit
Exceeds(v) == 2 * v > Unit

\* The most frequent morpheme, the first of several; none if nothing is activated.
extract_head_morpheme(bag) ==
  {k \in DOMAIN bag : bag[k] > 0 /\ \A j \in DOMAIN bag : bag[j] < bag[k] \/ (bag[j] = bag[k] /\ k <= j)}

Numbered(prefix, count, from) == [k \in 1..count |-> <<prefix, ToString(from + k - 1)>>]
EntityArgs(count, from) == [k \in 1..count |-> Ent(Numbered("ENT-", count, from)[k])]
Larger(a, b) == IF a < b THEN b ELSE a

\* Placeholders: entities, then literals, then variables. A relation gets two arguments.
build_predicate(head, types) ==
  LET c == [f \in FeatureNames |-> Rounded(types[f])]
      literals == Larger(c["Lit"], c["Dec"] + c["Str"] + c["Other"])
      literal(k) == IF k <= c["Dec"] THEN Lit(Dec(0, 1))
                    ELSE IF k <= c["Dec"] + c["Str"] THEN Str(<<"placeholder">>)
                    ELSE Lit([type |-> "Bool", text |-> <<"f">>])
      vars == Numbered("v", c["Var"], 0)
      args == EntityArgs(c["Ent"], 0) \o [k \in 1..literals |-> literal(k)]
              \o [k \in DOMAIN vars |-> Var(vars[k])]
      missing == IF head.kind = "Relation" /\ Len(args) < 2 THEN 2 - Len(args) ELSE 0
  IN Pred([name |-> head.name], args \o EntityArgs(missing, c["Ent"]), <<>>)

DecodedProvenance(kind) ==
  CASE kind = "Derived" -> [kind |-> kind, from |-> <<"decoded-src">>, rule |-> <<"decoded-rule">>]
    [] kind = "Asserted" -> [kind |-> kind, by |-> <<"decoder">>]
    [] kind = "Extracted" -> [kind |-> kind, doc |-> <<"decoded">>, span |-> <<0, 0>>,
                              model |-> <<<<"baseline-decoder">>, <<"0.1">>>>]
    [] OTHER -> [kind |-> kind, doc |-> <<"decoded">>, span |-> <<0, 0>>]

\* The confidence is that of the provenance. A window begins now and has no end.
decoded_node(pred, meta) ==
  LET kind == ProvenanceSeq[Rounded(meta.provenance) + 1]
      perm == Rounded(meta.perm) + 1
  IN [id |-> <<"decoded">>, pred |-> pred, conf |-> default_confidence_for_provenance[kind], auth |-> meta.auth \div Unit,
      perm |-> IF perm <= 4 THEN PermissionSeq[perm] ELSE "public",
      validity |-> IF Exceeds(meta.window) THEN [kind |-> "Window", from |-> <<"now">>, until |-> <<>>]
                   ELSE [kind |-> "Forever"],
      provenance |-> DecodedProvenance(kind),
      deps |-> IF Exceeds(meta.deps) THEN <<<<"decoded-dep">>>> ELSE <<>>,
      status |-> StatusSeq[Rounded(meta.status) + 1],
      note |-> IF Exceeds(meta.note) THEN <<<<"decoded from latent space">>>> ELSE <<>>]

baseline_decode(z) ==
  IF z.dim # BaselineDim THEN Bad("DimensionMismatch")
  ELSE LET heads == extract_head_morpheme(z.morphemes)
       IN IF heads = {} THEN Bad("no activated morpheme in vector")
          ELSE Good(decoded_node(build_predicate(Morphemes[CHOOSE k \in heads : TRUE], z.types), z.meta))
=============================================================================
