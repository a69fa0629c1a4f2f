-------------------------- MODULE FactumLProperties --------------------------
(***************************************************************************)
(* What each codec carries through any number of hops, and what the        *)
(* benchmark's figures mean.                                               *)
(***************************************************************************)
EXTENDS FactumL

\* The channel holds nodes or an error, the benchmark one result per finished node.
TypeOK ==
  /\ {codec, reader} \subseteq Codecs
  /\ Len(wire) <= 1 /\ hops \in 0..MaxHops /\ noise \in 0..MaxNoise
  /\ error # "" => held = <<>> /\ wire = <<>>
  /\ \A k \in DOMAIN held :
       {held[k].conf, held[k].auth} \subseteq 0..Certain /\ held[k].status \in ToSet(StatusSeq)
  /\ Len(details) + Len(rest) = Len(TestNodes(sent, gates))

-----------------------------------------------------------------------------
(* The packed codec.                                                       *)

Spelt(s) == Len(s) \in 1..(2 * ArgFloats) /\ ToSet(s) \subseteq ToSet(Charset)

\* The start of a text, as far as it is spelt in the charset and there is room.
EndsAt(s, n) ==
  /\ n <= 2 * ArgFloats /\ \A j \in 1..n : s[j] \in ToSet(Charset)
  /\ n = 2 * ArgFloats \/ n = Len(s) \/ s[n + 1] \notin ToSet(Charset)
StartOf(s) == [j \in 1..(CHOOSE n \in 0..Len(s) : EndsAt(s, n)) |-> s[j]]

\* An argument read from the start of its text.
ReadFrom(t) ==
  LET s == StartOf(term_value_string(t)) IN reconstruct_term(IF s = <<>> THEN Unknown ELSE s, TypeOf(t))

\* How numbers are spelt and read: the start of a text gives the number back exactly if it
\* is the whole, and what is read for it stays what it is.
ASSUME NumberAssumption ==
  \A nodes \in Batches : \A n \in ToSet(nodes) : \A t \in ToSet(n.pred.args) :
    TypeOf(t) \in {"Dec", "Dur"} =>
      /\ Spelt(term_value_string(t)) <=> ReadFrom(t) = Good(t)
      /\ ReadFrom(t).err = "" => IsSeq(term_value_string(ReadFrom(t).val)) /\ ReadFrom(ReadFrom(t).val) = ReadFrom(t)

Carriable(t) ==
  /\ Spelt(term_value_string(t)) /\ t.kind # "Compound"
  /\ t.kind = "List" =>
       /\ Len(t.items) = 1
       /\ TypeOf(t.items[1]) = (IF term_value_string(t)[1] \in Uppercase THEN "Ent" ELSE "Str")

Carries(n) ==
  /\ IF "id" \in DOMAIN n.pred.head THEN lookup_id(n.pred.head.id) # {} ELSE resolve(n.pred.head.name) # {}
  /\ Len(n.pred.args) <= MaxArgs /\ n.pred.named = <<>>
  /\ \A t \in ToSet(n.pred.args) : Carriable(t)

Packed == codec = "packed" /\ reader = "packed"
Arrived == wire = <<>> /\ hops > 0

\* The predicate of a node gets through the packed codec if and only if it has a known
\* head, at most three arguments, no named ones, no compound, no longer list, and texts of
\* at most MAX_ARG_CHARS characters of the charset: whatever the number of hops, if each
\* vector is disturbed at most as often as the margin of its floats allows
\* (packed_codec.rs: encode_predicate, decode_predicate).
PackedCarries ==
  Packed /\ Arrived /\ Len(sent) = 1 =>
    (Carries(sent[1]) <=> \E d \in ToSet(held) : compare(sent[1], d).score >= Threshold)

Named == {"Ent", "Var", "Str", "Uri", "List", "Date"}

\* What does not fit is cut, never replaced: the arguments that arrive are the first three
\* sent, in their order, of their types, a name being the start of the one sent or
\* the text UNKNOWN. A reader of the other codec gets nothing (packed_codec.rs: decode).
NothingInvented ==
  /\ Packed /\ Arrived /\ sent # <<>> =>
       \A d \in ToSet(held) : \E args \in {sent[1].pred.args} :
         /\ Len(d.pred.args) = (IF Len(args) < MaxArgs THEN Len(args) ELSE MaxArgs)
         /\ \A k \in DOMAIN d.pred.args :
              /\ TypeOf(d.pred.args[k]) = TypeOf(args[k])
              /\ TypeOf(args[k]) \in Named =>
                   \/ IsPrefix(term_value_string(d.pred.args[k]), term_value_string(args[k]))
                   \/ term_value_string(d.pred.args[k]) = Unknown
  /\ Arrived /\ codec # reader => error = "DimensionMismatch"

\* Relaying does not wear a message down for ever: from the first hop on the packed codec
\* repeats what it got, with an authority that only grows; the baseline settles after three
\* (packed_codec.rs and decoder.rs: decode).
RelaysSettle ==
  [][/\ Decode /\ codec = reader /\ held # <<>>
     /\ hops >= (IF codec = "packed" THEN 1 ELSE 3)
     => /\ held' # <<>>
        /\ held'[1] = [held[1] EXCEPT !.auth = held'[1].auth]
        /\ held'[1].auth >= held[1].auth]_vars

-----------------------------------------------------------------------------
(* The baseline codec.                                                     *)

Flat(n) == \A t \in ToSet(n.pred.args \o Values(n.pred.named)) : t.kind \notin {"Compound", "List"}

\* Whatever becomes of the arguments, the baseline keeps what a reader decides trust
\* and visibility by, through every hop: authority, status, window or none, the kind of
\* provenance with the confidence it deserves, whether there are dependencies and a
\* note, a single permission level; and the head, if no predicate is nested
\* (encoder.rs: extract_meta_features, decoder.rs: build_metadata).
BaselineKeeps ==
  codec = "baseline" /\ reader = "baseline" /\ Arrived /\ Len(sent) = 1 =>
    \A n \in ToSet(sent) :
      /\ \A d \in ToSet(held) :
           /\ d.auth = n.auth /\ d.status = n.status
           /\ d.validity.kind = n.validity.kind /\ d.provenance.kind = n.provenance.kind
           /\ d.conf = default_confidence_for_provenance[n.provenance.kind]
           /\ (d.deps = <<>>) = (n.deps = <<>>) /\ (d.note = <<>>) = (n.note = <<>>)
           /\ d.perm = (IF n.perm = "combined" THEN "public" ELSE n.perm)
           /\ Flat(n) => d.pred.head.name = head_info(n.pred.head)
      /\ Flat(n) => (held = <<>> <=> \A k \in DOMAIN Morphemes : Morphemes[k].name # head_info(n.pred.head))

-----------------------------------------------------------------------------
(* The benchmark.                                                          *)

Placeholders(count) ==
  ToSet(EntityArgs(count, 0)) \cup {Lit(Dec(0, 1)), Str(<<"placeholder">>), Lit([type |-> "Bool", text |-> <<"f">>])}
  \cup {Var(v) : v \in ToSet(Numbered("v", count, 0))}
Affordable(dim, n) == gates.divisor # MaxUsize => dim * 32 < (Bytes(n) * 8) \div gates.divisor

\* The figures count every test node once, in order, failures as zero. A node
\* passes the gates with the packed codec exactly if its text is long enough for the
\* budget and its predicate fits; with the baseline only what consists of the
\* decoder's own placeholders can pass, whether or not its vector is normalised before it
\* is read (benchmark.rs: bench_semantic_roundtrip_gated_with, apply_latent_operation).
BenchHonest ==
  rest = <<>> =>
    /\ [k \in DOMAIN details |-> details[k].node] = TestNodes(sent, gates)
    /\ Summary.total = Len(TestNodes(sent, gates))
    /\ \A k \in DOMAIN details :
         /\ details[k].err # "" => details[k].score = 0
         /\ codec = "packed" =>
              (details[k].score >= Threshold
               <=> Carries(details[k].node) /\ Affordable(PackedDim, details[k].node))
         /\ codec = "baseline" /\ details[k].score >= Threshold =>
              /\ Affordable(BaselineDim, details[k].node)
              /\ \E args \in {details[k].node.pred.args} : ToSet(args) \subseteq Placeholders(Len(args))
    /\ Summary.passed * Threshold <= Summary.sum /\ Summary.sum <= Summary.total * Summary.max
=============================================================================
