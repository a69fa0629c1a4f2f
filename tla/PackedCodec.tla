----------------------------- MODULE PackedCodec -----------------------------
(***************************************************************************)
(* factum-l/src/packed_codec.rs: a node as 24 floats, which are integers   *)
(* here (Packing). The decoder multiplies by the encoder's divisor again   *)
(* and rounds, so that a float may be off by less than half a unit.        *)
(* Authority is not rounded. A text is a sequence of characters.           *)
(***************************************************************************)
EXTENDS SemEquiv, Literals, Calibration, Packing

CONSTANTS
  MaxMorphemes,  \* 300 in the code: beyond every id of the registry
  Unknown,       \* the text "UNKNOWN"
  Uppercase,     \* the characters is_ascii_uppercase accepts
  Days           \* what parse_from_str reads as a date

ASSUME CodecAssumption ==
  /\ " " \notin ToSet(Charset)
  /\ Len(Morphemes) <= MaxMorphemes
  /\ ArgFloats > 0 /\ {"0", "1"} \subseteq ToSet(Charset)
  /\ Unknown \in Seq(ToSet(Charset)) /\ Len(Unknown) \in 1..(2 * ArgFloats)

PackedDim == 6 + MaxArgs * ArgFloats

-----------------------------------------------------------------------------
(* Terms as texts and back.                                                *)

TypeOf(t) == IF t.kind = "Lit" THEN t.lit.type ELSE t.kind
Types == <<"Ent", "Var", "Dec", "Str", "Date", "Bool", "Uri", "Dur", "Compound", "List">>
TypeCode(t) == CHOOSE k \in DOMAIN Types : Types[k] = TypeOf(t)

Text(l) ==
  CASE l.type = "Dec" -> dec_text(l)
    [] l.type = "Date" -> <<l.day>>
    [] l.type = "Bool" -> IF l.text = <<"t">> THEN <<"1">> ELSE <<"0">>
    [] l.type = "Dur" -> DigitsOf(l.ns)
    [] OTHER -> l.text

\* Of a compound or a list only what stands before its first space can get through.
flat_text(t) ==
  CASE t.kind = "Ent" -> t.ent
    [] t.kind = "Var" -> t.var
    [] t.kind = "Lit" -> Text(t.lit)
    [] t.kind = "Compound" ->
         <<"(">> \o head_text(t.pred.head) \o IF t.pred.args \o t.pred.named = <<>> THEN <<")">> ELSE <<" ">>

items_text(ts, inner) ==
  LET first == IF ts[1].kind = "List" THEN inner[ts[1]] ELSE flat_text(ts[1])
  IN IF ts = <<>> THEN <<>> ELSE IF Len(ts) = 1 THEN first ELSE Append(first, " ")
inner_text[t \in {u \in Inner : u.kind = "List"}] == items_text(t.items, inner_text)
term_value_string(t) == IF t.kind = "List" THEN items_text(t.items, inner_text) ELSE flat_text(t)

Str(s) == Lit([type |-> "Str", text |-> s])
Wrapped(r) == IF r.err = "" THEN Good(Lit(r.val)) ELSE r

\* The text has no space, so a list has one item. A compound in one more pair
\* of parentheses is no node, and the parser finds none or an error.
reconstruct_term(s, type) ==
  CASE type = "Ent" -> Good(Ent(s))
    [] type = "Var" -> Good(Var(s))
    [] type = "Dec" -> Wrapped(dec_from_str(s))
    [] type \in {"Str", "Uri"} -> Good(Lit([type |-> type, text |-> s]))
    [] type = "Date" -> IF Len(s) = 1 /\ s[1] \in Days THEN Good(Lit([type |-> "Date", day |-> s[1]]))
                        ELSE Bad("date parse")
    [] type = "Bool" -> Good(Lit([type |-> "Bool", text |-> IF s = <<"1">> THEN <<"t">> ELSE <<"f">>]))
    [] type = "Dur" -> IF AllDigits(s) THEN Good(Lit(Dur(NatOf(s)))) ELSE Bad("dur parse")
    [] type = "Compound" -> Bad("compound parse")
    [] type = "List" -> Good(List(<<IF s[1] \in Uppercase THEN Ent(s) ELSE Str(s)>>))

-----------------------------------------------------------------------------
(* The encoder. An unknown head has index 0, which is a morpheme's.        *)

head_to_index(h) ==
  IF "id" \in DOMAIN h THEN h.id
  ELSE IF resolve(h.name) = {} THEN 0 ELSE CHOOSE k \in resolve(h.name) : TRUE

PackedZeros ==
  [dim |-> PackedDim, scale |-> 0, head |-> 0, packed |-> 0, named |-> 0, conf |-> 0, auth |-> 0,
   args |-> [i \in 1..MaxArgs |-> encode_string(<<>>)]]

\* What does not fit is left behind: further arguments, named ones, the rest of a text.
packed_encode_node(n) ==
  LET args == n.pred.args
      count == IF Len(args) < MaxArgs THEN Len(args) ELSE MaxArgs
  IN [PackedZeros EXCEPT
        !.scale = 1, !.head = head_to_index(n.pred.head),
        !.packed = pack_args(count, [i \in 1..MaxArgs |-> IF i <= count THEN TypeCode(args[i]) ELSE 0]),
        !.args = [i \in 1..MaxArgs |-> encode_string(IF i <= count THEN term_value_string(args[i]) ELSE <<>>)],
        !.named = IF n.pred.named = <<>> THEN 0 ELSE TypeCode(n.pred.named[1][2]),
        !.conf = n.conf, !.auth = n.auth]

\* Only the first node.
packed_encode_sequence(nodes) == IF nodes = <<>> THEN PackedZeros ELSE packed_encode_node(nodes[1])

-----------------------------------------------------------------------------
(* The decoder. Every float is divided by the first, the scale reference;  *)
(* if that is 0, every float counts as 0.                                  *)

\* An argument of type 0 is none. An empty text is read as Unknown.
DecodedArgs(z) ==
  LET u == unpack_args(z.packed)
      text(s) == IF s = <<>> THEN Unknown ELSE s
      arg(i) == IF i > u.count \/ u.types[i] = 0 THEN <<>>
                ELSE <<reconstruct_term(text(decode_string(z.args[i])), Types[u.types[i]])>>
  IN arg(1) \o arg(2) \o arg(3)

PackedBy == [kind |-> "Asserted", by |-> <<"packed-codec-decoder">>]

packed_node(name, args, auth) ==
  [id |-> <<"decoded">>, pred |-> Pred([name |-> name], args, <<>>), validity |-> [kind |-> "Forever"],
   provenance |-> PackedBy, conf |-> default_confidence_for_provenance["Asserted"],
   auth |-> IF auth < Certain THEN auth ELSE Certain,
   perm |-> "public", deps |-> <<>>, status |-> "Active", note |-> <<>>]

packed_decode(z) ==
  IF z.dim # PackedDim THEN Bad("DimensionMismatch")
  ELSE IF lookup_id(z.head) = {} THEN Bad("morpheme index not in registry")
  ELSE LET args == DecodedArgs(z)
           failed == {i \in DOMAIN args : args[i].err # ""}
       IN IF failed # {} THEN args[CHOOSE i \in failed : \A j \in failed : i <= j]
          ELSE Good(packed_node(Morphemes[z.head + 1].name, [i \in DOMAIN args |-> args[i].val], z.auth))
=============================================================================
