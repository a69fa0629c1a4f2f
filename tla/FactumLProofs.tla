---------------------------- MODULE FactumLProofs ----------------------------
(***************************************************************************)
(* Theorems about factum-l: what the packed codec's numbers carry, for any *)
(* charset and length, what either codec carries through any number of     *)
(* hops, and what the benchmark's figures say.                             *)
(***************************************************************************)
EXTENDS FactumLProperties, FiniteSums

-----------------------------------------------------------------------------
(* The numbers of the packed codec.                                        *)

\* A digit below the base shares a number with what stands above it without loss.
LEMMA LastDigit ==
  ASSUME NEW b \in Nat \ {0}, NEW x \in Nat, NEW y \in 0..(b - 1)
  PROVE  (x * b + y) \div b = x /\ (x * b + y) % b = y
<1> DEFINE q == (x * b + y) \div b
           r == (x * b + y) % b
<1>1. x * b + y \in Nat
  OBVIOUS
<1>2. q \in Int /\ r \in 0..(b - 1) /\ x * b + y = b * q + r
  BY <1>1
<1>3. q = x
  <2>1. CASE q < x
    <3>1. b * q <= b * (x - 1)
      BY <2>1, <1>2
    <3> QED BY <3>1, <1>2
  <2>2. CASE q > x
    <3>1. b * q >= b * (x + 1)
      BY <2>2, <1>2
    <3> QED BY <3>1, <1>2
  <2> QED BY <1>2, <2>1, <2>2
<1> QED BY <1>2, <1>3

\* One float carries the number of arguments and three type codes: what pack_args makes
\* of at most three arguments and codes up to 10, unpack_args takes apart again.
THEOREM ArgumentsRecovered ==
  ASSUME NEW count \in 0..MaxArgs, NEW types \in [1..3 -> 0..10]
  PROVE  unpack_args(pack_args(count, types)) = [count |-> count, types |-> types]
<1> DEFINE later == types[1] * 121 + types[2] * 11 + types[3]
<1>1. types[1] \in 0..10 /\ types[2] \in 0..10 /\ types[3] \in 0..10
  OBVIOUS
<1>2. later \in 0..1330
  BY <1>1
<1>3. pack_args(count, types) = count * 1331 + later
  BY <1>1 DEF pack_args, MaxArgs
<1>4. (count * 1331 + later) \div 1331 = count /\ (count * 1331 + later) % 1331 = later
  <2> HIDE DEF later
  <2>1. count \in Nat /\ later \in 0..(1331 - 1)
    BY <1>2 DEF MaxArgs
  <2> QED BY <2>1, LastDigit
<1>5. later \div 121 = types[1]
  BY <1>1
<1>6. (later \div 11) % 11 = types[2]
  <2>1. later \div 11 = types[1] * 11 + types[2]
    BY <1>1
  <2> QED BY <1>1, <2>1
<1>7. later % 11 = types[3]
  BY <1>1
<1>8. types = <<types[1], types[2], types[3]>>
  OBVIOUS
<1> HIDE DEF later
<1>9. unpack_args(pack_args(count, types)) = [count |-> count, types |-> <<types[1], types[2], types[3]>>]
  BY <1>3, <1>4, <1>5, <1>6, <1>7 DEF unpack_args, MaxArgs
<1> QED BY <1>8, <1>9

LEMMA Codes ==
  ASSUME NEW c
  PROVE  /\ char_to_idx(c) \in 0..(Base - 1)
         /\ HasCode(c) <=> char_to_idx(c) # 0
         /\ HasCode(c) => Charset[char_to_idx(c)] = c
<1>1. CASE HasCode(c)
  <2>1. CodeOf(c) \in DOMAIN Charset /\ Charset[CodeOf(c)] = c
    BY <1>1 DEF HasCode, CodeOf
  <2> QED BY <1>1, <2>1, PackingAssumption DEF char_to_idx, Base
<1>2. CASE ~HasCode(c)
  BY <1>2, PackingAssumption DEF char_to_idx, Base
<1> QED BY <1>1, <1>2

LEMMA CodesOfText ==
  ASSUME NEW s, NEW k
  PROVE  CharIdx(s, k) \in 0..(Base - 1)
BY Codes, PackingAssumption DEF CharIdx, Base

\* The j-th code that decode_string reads is the one encode_string wrote for the
\* j-th character.
LEMMA CodeRead ==
  ASSUME NEW s, NEW j \in 1..(2 * ArgFloats)
  PROVE  Decoded(encode_string(s), j) = CharIdx(s, j)
<1> DEFINE k == (j + 1) \div 2
           x == CharIdx(s, 2 * k - 1)
           y == CharIdx(s, 2 * k)
<1>1. k \in 1..ArgFloats /\ ((j = 2 * k - 1 /\ j % 2 = 1) \/ (j = 2 * k /\ j % 2 = 0))
  <2>1. ArgFloats \in Nat /\ j \in Nat /\ 1 <= j /\ j <= 2 * ArgFloats
    BY PackingAssumption
  <2>2. PICK i \in Nat, b \in {0, 1} : j = 2 * i + b
    <3> WITNESS j \div 2 \in Nat, j % 2 \in {0, 1}
    <3> QED BY <2>1
  <2>3. j % 2 = b /\ k = i + b
    BY <2>1, <2>2
  <2> QED BY <2>1, <2>2, <2>3
<1>2. encode_string(s)[k] = x * Base + y
  BY <1>1 DEF encode_string
<1>3. Base \in Nat \ {0} /\ x \in 0..(Base - 1) /\ y \in 0..(Base - 1)
  BY CodesOfText, PackingAssumption DEF Base
<1> HIDE DEF x, y
<1>4. (x * Base + y) \div Base = x /\ (x * Base + y) % Base = y /\ x % Base = x
  BY <1>3, LastDigit
<1>5. decode_2chars(x * Base + y) = <<x, y>>
  BY <1>4 DEF decode_2chars
<1>6. Decoded(encode_string(s), j) = <<x, y>>[2 - (j % 2)]
  BY <1>2, <1>5 DEF Decoded
<1>7. CASE j = 2 * k - 1 /\ j % 2 = 1
  BY <1>6, <1>7 DEF x
<1>8. CASE j = 2 * k /\ j % 2 = 0
  BY <1>6, <1>8 DEF y
<1> QED BY <1>1, <1>7, <1>8

LEMMA Largest ==
  ASSUME NEW R \in SUBSET Int, NEW n \in R, \A i \in R : i <= n
  PROVE  n = CHOOSE j \in R : \A i \in R : i <= j
<1>1. \A j \in R : (\A i \in R : i <= j) => j = n
  OBVIOUS
<1> QED BY <1>1

\* A text comes back up to its first character without a code, its end, or the room of
\* an argument, whichever is first: the decoder invents no character and skips none.
THEOREM TextKept ==
  ASSUME NEW S, NEW s \in Seq(S), NEW n \in 0..Len(s),
         n <= 2 * ArgFloats,
         \A j \in 1..n : HasCode(s[j]),
         n = 2 * ArgFloats \/ n = Len(s) \/ ~HasCode(s[n + 1])
  PROVE  decode_string(encode_string(s)) = [j \in 1..n |-> s[j]]
<1> DEFINE m == 2 * ArgFloats
           code == [j \in 1..m |-> CharIdx(s, j)]
           read == {j \in 0..m : \A i \in 1..j : Decoded(encode_string(s), i) # 0}
           last == CHOOSE j \in read : \A i \in read : i <= j
<1>1. m \in Nat /\ ArgFloats \in Nat /\ n \in Nat /\ n <= m
  BY PackingAssumption
<1>3. ASSUME NEW j \in 1..n
      PROVE  code[j] # 0 /\ Charset[code[j]] = s[j]
  <2>1. j \in DOMAIN s /\ j \in 1..m
    BY <1>1
  <2>2. code[j] = char_to_idx(s[j])
    BY <2>1 DEF CharIdx
  <2> HIDE DEF code
  <2> QED BY <2>2, Codes
<1>4. n < m => code[n + 1] = 0
  <2>1. ASSUME n < m PROVE CharIdx(s, n + 1) = 0
    <3>1. CASE n = Len(s)
      <4>1. n + 1 \notin DOMAIN s
        BY <3>1
      <4> QED BY <4>1 DEF CharIdx
    <3>2. CASE ~HasCode(s[n + 1])
      BY <3>2, Codes DEF CharIdx
    <3> QED BY <2>1, <3>1, <3>2
  <2>2. n < m => n + 1 \in 1..m
    BY <1>1
  <2> QED BY <2>1, <2>2
<1>5. read = {j \in 0..m : \A i \in 1..j : code[i] # 0}
  <2>1. \A j \in 1..m : Decoded(encode_string(s), j) = code[j]
    BY CodeRead
  <2>2. \A j \in 0..m : 1..j \subseteq 1..m
    BY <1>1
  <2> HIDE DEF code, m
  <2> QED BY <2>1, <2>2
<1> HIDE DEF code, m
<1>6. n \in 0..m
  BY <1>1
<1>7. last = n
  <2>1. n \in read
    BY <1>3, <1>5, <1>6
  <2>2. ASSUME NEW j \in read PROVE j <= n
    <3>1. j \in 0..m /\ \A i \in 1..j : code[i] # 0
      BY <1>5
    <3>2. CASE j > n
      <4>1. n + 1 \in 1..j /\ n < m
        BY <1>1, <3>1, <3>2
      <4> QED BY <1>4, <3>1, <4>1
    <3> QED BY <1>1, <3>1, <3>2
  <2>3. read \in SUBSET Int
    BY <1>1
  <2> HIDE DEF read
  <2> QED BY <2>1, <2>2, <2>3, Largest
<1>8. Len(encode_string(s)) = ArgFloats
  BY PackingAssumption DEF encode_string
<1>9. decode_string(encode_string(s)) = [j \in 1..last |-> Charset[Decoded(encode_string(s), j)]]
  BY <1>8 DEF decode_string, m
<1>10. \A j \in 1..n : Decoded(encode_string(s), j) = code[j]
  <2>1. 1..n \subseteq 1..m
    BY <1>1, <1>6
  <2>2. \A j \in 1..m : Decoded(encode_string(s), j) = code[j]
    BY CodeRead DEF code, m
  <2> QED BY <2>1, <2>2
<1> HIDE DEF last
<1> QED BY <1>3, <1>7, <1>9, <1>10

\* A text of coded characters that fits in an argument comes back as it is.
THEOREM TextRecovered ==
  ASSUME NEW S, NEW s \in Seq(S), Len(s) <= 2 * ArgFloats, \A j \in 1..Len(s) : HasCode(s[j])
  PROVE  decode_string(encode_string(s)) = s
<1>1. Len(s) \in 0..Len(s) /\ s = [j \in 1..Len(s) |-> s[j]]
  OBVIOUS
<1> QED BY <1>1, TextKept

-----------------------------------------------------------------------------
(* Sequences, and what the constants are.                                  *)

LEMMA Elements ==
  ASSUME NEW s, IsSeq(s)
  PROVE  /\ \A k \in DOMAIN s : s[k] \in ToSet(s)
         /\ \A x \in ToSet(s) : \E k \in DOMAIN s : x = s[k]
         /\ DOMAIN s = 1..Len(s) /\ Len(s) \in Nat
BY DEF IsSeq, ToSet

LEMMA Singletons ==
  ASSUME NEW x
  PROVE  IsSeq(<<x>>) /\ ToSet(<<x>>) = {x} /\ Len(<<x>>) = 1 /\ DOMAIN <<x>> = {1} /\ <<x>>[1] = x /\ <<x>> # <<>>
BY DEF IsSeq, ToSet

LEMMA NoElements ==
  ASSUME NEW s, s = <<>>
  PROVE  IsSeq(s) /\ ToSet(s) = {} /\ Len(s) = 0
<1>1. ToSet(s) = {}
  BY DEF ToSet
<1>2. \A S : s \in Seq(S)
  OBVIOUS
<1>3. IsSeq(s)
  BY <1>2 DEF IsSeq
<1>4. Len(s) = 0
  OBVIOUS
<1> QED BY <1>1, <1>3, <1>4

LEMMA CertainIsNat == Certain \in Nat /\ Certain \div 100 \in Nat /\ 100 * (Certain \div 100) = Certain
BY CertainAssumption

LEMMA DefaultConfidence ==
  ASSUME NEW kind \in ToSet(ProvenanceSeq)
  PROVE  default_confidence_for_provenance[kind] \in 0..Certain
<1>1. kind \in {"Verbatim", "Summary", "Extracted", "Derived", "Asserted"}
  BY DEF ProvenanceSeq, ToSet
<1>2. \A p \in {95, 80, 75, 60} : Percent(p) \in 0..Certain
  BY CertainIsNat DEF Percent
<1>3. default_confidence_for_provenance[kind] \in {Percent(95), Percent(80), Percent(75), Percent(60)}
  BY <1>1 DEF default_confidence_for_provenance
<1> QED BY <1>2, <1>3

LEMMA PositiveUnit == Unit \in Nat \ {0}
BY UnitAssumption

-----------------------------------------------------------------------------
(* What is sent, under way and held.                                       *)

MetaShape(n) ==
  /\ {n.conf, n.auth} \subseteq 0..Certain /\ n.status \in ToSet(StatusSeq)
  /\ n.perm \in ToSet(PermissionSeq) /\ n.provenance.kind \in ToSet(ProvenanceSeq)

MetaFits(meta) ==
  /\ meta.auth \in 0..(Certain * Unit) /\ meta.perm \in 0..(4 * Unit)
  /\ meta.provenance \in 0..(4 * Unit) /\ meta.status \in 0..(2 * Unit)

WireShape(c, z) ==
  \/ c = "packed" /\ z.dim = PackedDim /\ z.auth \in 0..Certain
  \/ c = "baseline" /\ z.dim = BaselineDim /\ MetaFits(z.meta)

ChannelInv ==
  /\ codec \in Codecs /\ reader \in Codecs /\ sent \in Batches
  /\ IsSeq(held) /\ \A n \in ToSet(held) : MetaShape(n)
  /\ wire # <<>> => wire = <<wire[1]>> /\ WireShape(codec, wire[1]) /\ hops < MaxHops /\ error = ""
  /\ hops \in 0..MaxHops /\ noise \in 0..MaxNoise
  /\ error # "" => held = <<>>

LEMMA Place ==
  ASSUME NEW n \in Nat, NEW s, DOMAIN s = 1..n, NEW x \in ToSet(s)
  PROVE  PlaceOf(s, x) \in 0..(n - 1) /\ s[PlaceOf(s, x) + 1] = x
<1> DEFINE j == CHOOSE k \in DOMAIN s : s[k] = x
<1>1. j \in 1..n /\ s[j] = x
  BY DEF ToSet
<1>2. PlaceOf(s, x) = j - 1
  BY DEF PlaceOf
<1> HIDE DEF j
<1> QED BY <1>1, <1>2

LEMMA Places ==
  /\ \A x \in ToSet(StatusSeq) : PlaceOf(StatusSeq, x) \in 0..2 /\ StatusSeq[PlaceOf(StatusSeq, x) + 1] = x
  /\ \A x \in ToSet(PermissionSeq) :
       PlaceOf(PermissionSeq, x) \in 0..4 /\ PermissionSeq[PlaceOf(PermissionSeq, x) + 1] = x
  /\ \A x \in ToSet(ProvenanceSeq) :
       PlaceOf(ProvenanceSeq, x) \in 0..4 /\ ProvenanceSeq[PlaceOf(ProvenanceSeq, x) + 1] = x
<1>1. DOMAIN StatusSeq = 1..3 /\ DOMAIN PermissionSeq = 1..5 /\ DOMAIN ProvenanceSeq = 1..5
  BY DEF StatusSeq, PermissionSeq, ProvenanceSeq
<1>2. \A x \in ToSet(StatusSeq) : PlaceOf(StatusSeq, x) \in 0..(3 - 1) /\ StatusSeq[PlaceOf(StatusSeq, x) + 1] = x
  BY <1>1, Place
<1>3. \A x \in ToSet(PermissionSeq) :
        PlaceOf(PermissionSeq, x) \in 0..(5 - 1) /\ PermissionSeq[PlaceOf(PermissionSeq, x) + 1] = x
  BY <1>1, Place
<1>4. \A x \in ToSet(ProvenanceSeq) :
        PlaceOf(ProvenanceSeq, x) \in 0..(5 - 1) /\ ProvenanceSeq[PlaceOf(ProvenanceSeq, x) + 1] = x
  BY <1>1, Place
<1> QED BY <1>2, <1>3, <1>4

LEMMA Scaled ==
  ASSUME NEW k \in Nat, NEW top \in Nat, k <= top
  PROVE  k * Unit \in 0..(top * Unit)
<1>1. Unit \in Nat
  BY PositiveUnit
<1>2. k * Unit \in Nat /\ top * Unit \in Nat /\ (top - k) * Unit \in Nat
  BY <1>1
<1>3. top * Unit = k * Unit + (top - k) * Unit
  BY <1>1
<1> QED BY <1>2, <1>3

LEMMA MetaEncoded ==
  ASSUME NEW n, MetaShape(n)
  PROVE  MetaFits(extract_meta_features(n))
<1>1. /\ n.auth \in Nat /\ n.auth <= Certain
      /\ PlaceOf(PermissionSeq, n.perm) \in 0..4
      /\ PlaceOf(ProvenanceSeq, n.provenance.kind) \in 0..4
      /\ PlaceOf(StatusSeq, n.status) \in 0..2
  BY Places, CertainIsNat DEF MetaShape
<1>2. /\ n.auth * Unit \in 0..(Certain * Unit)
      /\ PlaceOf(PermissionSeq, n.perm) * Unit \in 0..(4 * Unit)
      /\ PlaceOf(ProvenanceSeq, n.provenance.kind) * Unit \in 0..(4 * Unit)
      /\ PlaceOf(StatusSeq, n.status) * Unit \in 0..(2 * Unit)
  BY <1>1, Scaled, CertainIsNat
<1> QED BY <1>2 DEF MetaFits, extract_meta_features

\* The average of numbers is between the least and the greatest.
LEMMA Average ==
  ASSUME NEW f, NEW n \in Nat \ {0}, DOMAIN f = 1..n, NEW top \in Nat, \A k \in 1..n : f[k] \in 0..top
  PROVE  SumFunction(f) \div n \in 0..top
<1>1. IsFiniteSet(DOMAIN f) /\ Cardinality(DOMAIN f) = n
  BY FS_Interval
<1>2. SumFunction(f) \in Int /\ 0 * n <= SumFunction(f) /\ SumFunction(f) <= top * n
  BY <1>1, SumWithin
<1> DEFINE x == SumFunction(f)
           q == x \div n
<1>3. x \in Nat /\ x <= top * n
  BY <1>2
<1> HIDE DEF x
<1>4. q \in Nat /\ q * n <= x
  BY <1>3
<1>5. q <= top
  <2> SUFFICES ASSUME q >= top + 1 PROVE FALSE
    BY <1>4
  <2> HIDE DEF q
  <2>1. q * n >= (top + 1) * n
    BY <1>4
  <2>2. (top + 1) * n = top * n + n /\ top * n \in Nat
    OBVIOUS
  <2> QED BY <1>3, <1>4, <2>1, <2>2
<1> QED BY <1>4, <1>5 DEF x

LEMMA SequenceEncoded ==
  ASSUME NEW ns, IsSeq(ns), \A n \in ToSet(ns) : MetaShape(n)
  PROVE  LET z == baseline_encode_sequence(ns) IN z.dim = BaselineDim /\ MetaFits(z.meta)
<1>1. CASE ns = <<>>
  <2>1. baseline_encode_sequence(ns) = BaselineZeros
    BY <1>1 DEF baseline_encode_sequence
  <2>2. Certain * Unit \in Nat /\ 4 * Unit \in Nat /\ 2 * Unit \in Nat
    BY PositiveUnit, CertainIsNat
  <2> QED BY <2>1, <2>2 DEF BaselineZeros, build_vector, MetaFits, MetaFeatures
<1>2. CASE ns # <<>>
  <2> DEFINE vs == [k \in DOMAIN ns |-> baseline_encode_node(ns[k])]
             part(f) == [k \in DOMAIN vs |-> vs[k].meta[f]]
             z == baseline_encode_sequence(ns)
  <2>1. DOMAIN ns = 1..Len(ns) /\ Len(ns) \in Nat \ {0}
    BY <1>2 DEF IsSeq
  <2>2. DOMAIN vs = 1..Len(ns) /\ Len(vs) = Len(ns)
    BY <2>1
  <2>3. z.dim = BaselineDim /\ z.meta = [f \in MetaFeatures |-> SumFunction(part(f)) \div Len(vs)]
    BY <1>2 DEF baseline_encode_sequence, build_vector, Averaged, Total
  <2>4. \A k \in DOMAIN vs : MetaFits(vs[k].meta)
    <3> SUFFICES ASSUME NEW k \in DOMAIN ns PROVE MetaFits(baseline_encode_node(ns[k]).meta)
      OBVIOUS
    <3>1. MetaShape(ns[k])
      BY Elements
    <3> QED BY <3>1, MetaEncoded DEF baseline_encode_node, build_vector
  <2> HIDE DEF vs
  <2>5. ASSUME NEW f \in MetaFeatures, NEW top \in Nat, \A k \in DOMAIN vs : vs[k].meta[f] \in 0..top
        PROVE  z.meta[f] \in 0..top
    <3>1. DOMAIN part(f) = 1..Len(ns) /\ \A k \in 1..Len(ns) : part(f)[k] \in 0..top
      BY <2>2, <2>5
    <3> HIDE DEF part
    <3>2. SumFunction(part(f)) \div Len(ns) \in 0..top
      BY <2>1, <3>1, Average
    <3> HIDE DEF z
    <3> QED BY <2>2, <2>3, <3>2
  <2> HIDE DEF part, z
  <2>6. Certain * Unit \in Nat /\ 4 * Unit \in Nat /\ 2 * Unit \in Nat
    BY PositiveUnit, CertainIsNat
  <2>7. \A k \in DOMAIN vs : /\ vs[k].meta["auth"] \in 0..(Certain * Unit)
                             /\ vs[k].meta["perm"] \in 0..(4 * Unit)
                             /\ vs[k].meta["provenance"] \in 0..(4 * Unit)
                             /\ vs[k].meta["status"] \in 0..(2 * Unit)
    BY <2>4 DEF MetaFits
  <2>8. /\ z.meta["auth"] \in 0..(Certain * Unit) /\ z.meta["perm"] \in 0..(4 * Unit)
        /\ z.meta["provenance"] \in 0..(4 * Unit) /\ z.meta["status"] \in 0..(2 * Unit)
    BY <2>5, <2>6, <2>7 DEF MetaFeatures
  <2> QED BY <2>3, <2>8 DEF MetaFits, z
<1> QED BY <1>1, <1>2

LEMMA ReadBack ==
  ASSUME NEW v \in Int, NEW top \in Nat, v \in 0..(top * Unit)
  PROVE  Rounded(v) \in 0..top
<1> DEFINE q == Rounded(v)
<1>1. Unit \in Nat \ {0} /\ v \in Nat
  BY PositiveUnit
<1>2. 2 * v + Unit \in Nat /\ 2 * Unit \in Nat \ {0}
  BY <1>1
<1>3. q \in Nat /\ q * (2 * Unit) <= 2 * v + Unit
  <2> DEFINE x == 2 * v + Unit
             y == 2 * Unit
  <2>1. x \in Nat /\ y \in Nat \ {0}
    BY <1>2
  <2> HIDE DEF x, y
  <2>2. x \div y \in Nat /\ (x \div y) * y <= x
    BY <2>1
  <2> QED BY <2>2 DEF Rounded, x, y
<1> HIDE DEF q
<1>4. q <= top
  <2> SUFFICES ASSUME q >= top + 1 PROVE FALSE
    BY <1>3
  <2>1. q * (2 * Unit) >= (top + 1) * (2 * Unit)
    BY <1>1, <1>3
  <2>2. (top + 1) * (2 * Unit) = 2 * (top * Unit) + 2 * Unit /\ top * Unit \in Nat
    BY <1>1
  <2>3. v <= top * Unit
    OBVIOUS
  <2> QED BY <1>1, <1>3, <2>1, <2>2, <2>3
<1> QED BY <1>3, <1>4 DEF q

LEMMA BaselineDecoded ==
  ASSUME NEW z, MetaFits(z.meta), NEW pred
  PROVE  MetaShape(decoded_node(pred, z.meta))
<1> DEFINE meta == z.meta
           kind == ProvenanceSeq[Rounded(meta.provenance) + 1]
           perm == Rounded(meta.perm) + 1
           d == decoded_node(pred, meta)
<1>1. Rounded(meta.provenance) \in 0..4 /\ Rounded(meta.status) \in 0..2 /\ Rounded(meta.perm) \in 0..4
  BY ReadBack, PositiveUnit DEF MetaFits
<1>2. kind \in ToSet(ProvenanceSeq)
  BY <1>1 DEF ProvenanceSeq, ToSet
<1>3. StatusSeq[Rounded(meta.status) + 1] \in ToSet(StatusSeq)
  BY <1>1 DEF StatusSeq, ToSet
<1>4. (IF perm <= 4 THEN PermissionSeq[perm] ELSE "public") \in ToSet(PermissionSeq)
  BY <1>1 DEF PermissionSeq, ToSet
<1>5. meta.auth \div Unit \in 0..Certain
  <2> DEFINE a == meta.auth
  <2>1. a \in Nat /\ a <= Certain * Unit /\ Unit \in Nat \ {0} /\ Certain \in Nat
    BY PositiveUnit, CertainIsNat DEF MetaFits
  <2> HIDE DEF a
  <2>2. a \div Unit \in Nat /\ (a \div Unit) * Unit <= a
    BY <2>1
  <2>3. (a \div Unit) <= Certain
    <3> DEFINE q == a \div Unit
    <3> SUFFICES ASSUME q >= Certain + 1 PROVE FALSE
      BY <2>1, <2>2
    <3> HIDE DEF q
    <3>1. q \in Nat /\ q * Unit <= a
      BY <2>2 DEF q
    <3>2. q * Unit >= (Certain + 1) * Unit /\ (Certain + 1) * Unit = Certain * Unit + Unit
      BY <2>1, <3>1
    <3> QED BY <2>1, <3>1, <3>2
  <2> QED BY <2>2, <2>3 DEF a
<1>6. default_confidence_for_provenance[kind] \in 0..Certain
  BY <1>2, DefaultConfidence
<1>7. DecodedProvenance(kind).kind = kind
  BY DEF DecodedProvenance
<1>8. /\ d.conf = default_confidence_for_provenance[kind] /\ d.auth = meta.auth \div Unit
      /\ d.perm = (IF perm <= 4 THEN PermissionSeq[perm] ELSE "public")
      /\ d.provenance = DecodedProvenance(kind) /\ d.status = StatusSeq[Rounded(meta.status) + 1]
  BY DEF decoded_node
<1> HIDE DEF kind, perm, d
<1> QED BY <1>2, <1>3, <1>4, <1>5, <1>6, <1>7, <1>8 DEF MetaShape, d

LEMMA PackedDecoded ==
  ASSUME NEW name, NEW args, NEW auth \in Nat
  PROVE  MetaShape(packed_node(name, args, auth))
<1>1. "Asserted" \in ToSet(ProvenanceSeq) /\ "public" \in ToSet(PermissionSeq) /\ "Active" \in ToSet(StatusSeq)
  BY DEF ToSet, ProvenanceSeq, PermissionSeq, StatusSeq
<1>2. default_confidence_for_provenance["Asserted"] \in 0..Certain
  BY <1>1, DefaultConfidence
<1>3. (IF auth < Certain THEN auth ELSE Certain) \in 0..Certain
  BY CertainIsNat
<1> QED BY <1>1, <1>2, <1>3 DEF MetaShape, packed_node, PackedBy

LEMMA Failure ==
  ASSUME NEW why, why # ""
  PROVE  Bad(why).err # ""
BY DEF Bad

LEMMA Success ==
  ASSUME NEW v
  PROVE  Good(v).err = "" /\ Good(v).val = v
BY DEF Good

LEMMA OtherDimension ==
  ASSUME NEW z
  PROVE  /\ z.dim # PackedDim => packed_decode(z) = Bad("DimensionMismatch")
         /\ z.dim # BaselineDim => baseline_decode(z) = Bad("DimensionMismatch")
BY Zenon DEF packed_decode, baseline_decode

LEMMA PackedResult ==
  ASSUME NEW z, z.dim = PackedDim
  PROVE  LET args == DecodedArgs(z)
             failed == {i \in DOMAIN args : args[i].err # ""}
             r == packed_decode(z)
         IN /\ lookup_id(z.head) = {} => r.err # ""
            /\ lookup_id(z.head) # {} /\ failed # {} /\ failed \subseteq Nat => r.err # ""
            /\ lookup_id(z.head) # {} /\ failed = {} =>
                 r = Good(packed_node(Morphemes[z.head + 1].name, [i \in DOMAIN args |-> args[i].val], z.auth))
<1> DEFINE args == DecodedArgs(z)
           failed == {i \in DOMAIN args : args[i].err # ""}
           first == CHOOSE i \in failed : \A j \in failed : i <= j
           node == packed_node(Morphemes[z.head + 1].name, [i \in DOMAIN args |-> args[i].val], z.auth)
<1>1. packed_decode(z) = IF lookup_id(z.head) = {} THEN Bad("morpheme index not in registry")
                         ELSE IF failed # {} THEN args[first] ELSE Good(node)
  BY Zenon DEF packed_decode
<1>2. Bad("morpheme index not in registry").err # ""
  BY Failure
<1>3. failed # {} /\ failed \subseteq Nat => args[first].err # ""
  <2> HIDE DEF args
  <2>1. failed # {} /\ failed \subseteq Nat => \E i \in failed : \A j \in failed : i <= j
    <3> HIDE DEF failed
    <3> QED BY LeastNat
  <2> QED BY <2>1
<1> HIDE DEF args, failed, first, node
<1>4. /\ lookup_id(z.head) = {} => packed_decode(z).err # ""
      /\ lookup_id(z.head) # {} /\ failed # {} /\ failed \subseteq Nat => packed_decode(z).err # ""
      /\ lookup_id(z.head) # {} /\ failed = {} => packed_decode(z) = Good(node)
  BY <1>1, <1>2, <1>3
<1> QED BY <1>4, Zenon DEF args, failed, node

\* A vector of the other codec has another dimension.
LEMMA DecodedShape ==
  ASSUME NEW c \in Codecs, NEW d \in Codecs, NEW z, WireShape(c, z), DOMAIN DecodedArgs(z) \subseteq Nat
  PROVE  /\ c # d => decode(d, z) = Bad("DimensionMismatch")
         /\ decode(d, z).err = "" => MetaShape(decode(d, z).val)
<1>0. /\ decode("packed", z) = packed_decode(z) /\ decode("baseline", z) = baseline_decode(z)
      /\ c \in {"packed", "baseline"} /\ d \in {"packed", "baseline"} /\ PackedDim # BaselineDim
      /\ c = "packed" => z.dim = PackedDim /\ z.auth \in Nat
      /\ c = "baseline" => z.dim = BaselineDim /\ MetaFits(z.meta)
  BY BoundAssumption, CertainIsNat DEF Codecs, WireShape, decode
<1>1. c # d => decode(d, z) = Bad("DimensionMismatch")
  BY <1>0, OtherDimension
<1>2. ASSUME c = d, decode(d, z).err = "" PROVE MetaShape(decode(d, z).val)
  <2>1. CASE c = "packed"
    <3> DEFINE args == DecodedArgs(z)
               failed == {i \in DOMAIN args : args[i].err # ""}
               node == packed_node(Morphemes[z.head + 1].name, [i \in DOMAIN args |-> args[i].val], z.auth)
    <3>1. failed \subseteq Nat
      OBVIOUS
    <3>2. packed_decode(z) = Good(node)
      <4> HIDE DEF node
      <4> QED BY <1>0, <1>2, <2>1, <3>1, PackedResult DEF node
    <3>3. MetaShape(node)
      BY <1>0, <2>1, PackedDecoded
    <3> HIDE DEF node
    <3> QED BY <1>0, <1>2, <2>1, <3>2, <3>3, Success
  <2>2. CASE c = "baseline"
    <3> DEFINE heads == extract_head_morpheme(z.morphemes)
               pred == build_predicate(Morphemes[CHOOSE k \in heads : TRUE], z.types)
               node == decoded_node(pred, z.meta)
    <3>1. baseline_decode(z) = IF heads = {} THEN Bad("no activated morpheme in vector") ELSE Good(node)
      BY <1>0, <2>2, Zenon DEF baseline_decode
    <3>2. Bad("no activated morpheme in vector").err # ""
      BY Failure
    <3>3. MetaShape(node)
      <4> HIDE DEF pred
      <4> QED BY <1>0, <2>2, BaselineDecoded
    <3> HIDE DEF node, heads
    <3> QED BY <1>0, <1>2, <2>2, <3>1, <3>2, <3>3, Success
  <2> QED BY <1>0, <2>1, <2>2
<1>3. Bad("DimensionMismatch").err # ""
  BY Failure
<1> QED BY <1>1, <1>2, <1>3

LEMMA AtMostOne ==
  ASSUME NEW c, NEW S, NEW x \in S, NEW s, s = IF c THEN <<>> ELSE <<x>>
  PROVE  s \in Seq(S)
<1>1. CASE c
  BY <1>1
<1>2. CASE ~c
  BY <1>2
<1> QED BY <1>1, <1>2

LEMMA Bounds == MaxHops \in Nat /\ MaxNoise \in Nat
BY BoundAssumption, NoiseAssumption DEF NoiseMargin

LEMMA DecodedPlaces ==
  ASSUME NEW z
  PROVE  DOMAIN DecodedArgs(z) \subseteq Nat
<1> DEFINE u == unpack_args(z.packed)
           text(s) == IF s = <<>> THEN Unknown ELSE s
           term(i) == reconstruct_term(text(decode_string(z.args[i])), Types[u.types[i]])
           arg(i) == IF i > u.count \/ u.types[i] = 0 THEN <<>> ELSE <<term(i)>>
           S == {term(1), term(2), term(3)}
<1>1. DecodedArgs(z) = arg(1) \o arg(2) \o arg(3)
  BY Zenon DEF DecodedArgs
<1>2. arg(1) \in Seq(S) /\ arg(2) \in Seq(S) /\ arg(3) \in Seq(S)
  <2> HIDE DEF u, term, text
  <2>1. term(1) \in S /\ term(2) \in S /\ term(3) \in S
    OBVIOUS
  <2> HIDE DEF S
  <2>2. arg(1) \in Seq(S)
    BY <2>1, AtMostOne
  <2>3. arg(2) \in Seq(S)
    BY <2>1, AtMostOne
  <2>4. arg(3) \in Seq(S)
    BY <2>1, AtMostOne
  <2> QED BY <2>2, <2>3, <2>4
<1> HIDE DEF arg, S
<1>3. arg(1) \o arg(2) \o arg(3) \in Seq(S)
  BY <1>2
<1>4. \A s \in Seq(S) : DOMAIN s \subseteq Nat
  OBVIOUS
<1> QED BY <1>1, <1>3, <1>4

LEMMA NodeMeta ==
  ASSUME NEW n, NodeShape(n)
  PROVE  MetaShape(n)
BY DEF NodeShape, MetaShape

LEMMA PackedShape ==
  /\ WireShape("packed", PackedZeros)
  /\ \A n : MetaShape(n) => WireShape("packed", packed_encode_node(n))
<1>1. WireShape("packed", PackedZeros)
  BY CertainIsNat DEF WireShape, PackedZeros
<1>2. ASSUME NEW n, MetaShape(n) PROVE WireShape("packed", packed_encode_node(n))
  <2>1. packed_encode_node(n).dim = PackedDim /\ packed_encode_node(n).auth = n.auth
    BY DEF packed_encode_node, PackedZeros
  <2> QED BY <1>2, <2>1 DEF WireShape, MetaShape
<1> QED BY <1>1, <1>2

LEMMA EncodedShape ==
  ASSUME NEW c \in Codecs, NEW ns, IsSeq(ns), \A n \in ToSet(ns) : MetaShape(n)
  PROVE  /\ Len(ns) = 1 => WireShape(c, encode_node(c, ns[1]))
         /\ WireShape(c, encode_sequence(c, ns))
<1>1. DOMAIN ns = 1..Len(ns) /\ Len(ns) \in Nat /\ \A k \in DOMAIN ns : MetaShape(ns[k])
  BY Elements
<1>2. CASE c = "packed"
  <2>1. /\ encode_node(c, ns[1]) = packed_encode_node(ns[1])
        /\ encode_sequence(c, ns) = IF ns = <<>> THEN PackedZeros ELSE packed_encode_node(ns[1])
    BY <1>2 DEF encode_node, encode_sequence, packed_encode_sequence
  <2>2. ns # <<>> => MetaShape(ns[1])
    BY <1>1 DEF IsSeq
  <2>3. Len(ns) = 1 => MetaShape(ns[1])
    BY <1>1
  <2> QED BY <1>2, <2>1, <2>2, <2>3, PackedShape
<1>3. CASE c = "baseline"
  <2>1. /\ encode_node(c, ns[1]) = baseline_encode_node(ns[1])
        /\ encode_sequence(c, ns) = baseline_encode_sequence(ns)
    BY <1>3 DEF encode_node, encode_sequence
  <2>2. Len(ns) = 1 => MetaFits(extract_meta_features(ns[1]))
    BY <1>1, MetaEncoded
  <2>3. Len(ns) = 1 => WireShape(c, baseline_encode_node(ns[1]))
    BY <1>3, <2>2 DEF WireShape, baseline_encode_node, build_vector
  <2>4. WireShape(c, baseline_encode_sequence(ns))
    BY <1>3, SequenceEncoded DEF WireShape
  <2> QED BY <2>1, <2>3, <2>4
<1> QED BY <1>2, <1>3 DEF Codecs

\* Noise changes what no shape depends on.
LEMMA DisturbedShape ==
  ASSUME NEW z, WireShape("packed", z)
  PROVE  WireShape("packed", disturb_packed(z))
<1>1. z.dim = PackedDim /\ z.auth \in 0..Certain
  BY DEF WireShape
<1>2. disturb_packed(z).dim = z.dim
  BY DEF disturb_packed
<1>3. disturb_packed(z).auth \in 0..Certain
  <2>1. Certain \in 0..Certain /\ (z.auth < Certain => z.auth + 1 \in 0..Certain)
    BY <1>1, CertainIsNat
  <2>2. disturb_packed(z).auth \in {Certain, IF z.auth < Certain THEN z.auth + 1 ELSE Certain, z.auth}
    BY DEF disturb_packed
  <2> QED BY <1>1, <2>1, <2>2
<1> QED BY <1>1, <1>2, <1>3 DEF WireShape

LEMMA ChannelInit == Init => ChannelInv
<1> SUFFICES ASSUME Init PROVE ChannelInv
  OBVIOUS
<1>1. sent \in Batches /\ held = sent
  BY DEF Init
<1>2. IsSeq(held) /\ \A n \in ToSet(held) : MetaShape(n)
  BY <1>1, BatchAssumption, NodeMeta
<1>3. codec \in Codecs /\ reader \in Codecs /\ wire = <<>> /\ hops = 0 /\ noise = 0 /\ error = ""
  BY DEF Init
<1>4. hops \in 0..MaxHops /\ noise \in 0..MaxNoise
  <2>1. hops = 0 /\ noise = 0
    BY <1>3
  <2>2. 0 \in 0..MaxHops /\ 0 \in 0..MaxNoise
    BY Bounds
  <2> QED BY <2>1, <2>2
<1> QED BY <1>1, <1>2, <1>3, <1>4 DEF ChannelInv

LEMMA ChannelStep == ChannelInv /\ [Next]_vars => ChannelInv'
<1> SUFFICES ASSUME ChannelInv, [Next]_vars PROVE ChannelInv'
  OBVIOUS
<1>1. CASE Encode
  <2>1. wire = <<>> /\ error = "" /\ hops < MaxHops /\ error' = error /\ hops' = hops
    BY <1>1 DEF Encode
  <2> DEFINE z == IF Len(held) = 1 THEN encode_node(codec, held[1]) ELSE encode_sequence(codec, held)
  <2>2. wire' = <<z>>
    BY <1>1 DEF Encode
  <2>3. WireShape(codec, z)
    BY EncodedShape DEF ChannelInv
  <2> HIDE DEF z
  <2>4. wire'[1] = z /\ wire' = <<wire'[1]>>
    BY <2>2
  <2>5. UNCHANGED <<codec, reader, sent, gates, held, hops, error>>
    BY <1>1 DEF Encode
  <2>6. noise' \in 0..MaxNoise
    <3>1. noise' = 0
      BY <1>1 DEF Encode
    <3> QED BY <3>1, Bounds
  <2> QED BY <2>1, <2>3, <2>4, <2>5, <2>6 DEF ChannelInv
<1>2. CASE Disturb
  <2>1. /\ wire # <<>> /\ codec = "packed" /\ noise < MaxNoise /\ noise' = noise + 1
        /\ wire' = <<disturb_packed(wire[1])>>
        /\ UNCHANGED <<codec, reader, sent, gates, held, hops, error>>
    BY <1>2 DEF Disturb
  <2>2. WireShape(codec, disturb_packed(wire[1])) /\ hops < MaxHops /\ error = ""
    BY <2>1, DisturbedShape DEF ChannelInv
  <2>3. wire'[1] = disturb_packed(wire[1]) /\ wire' = <<wire'[1]>>
    BY <2>1
  <2>4. noise' \in 0..MaxNoise
    <3>1. noise \in 0..MaxNoise
      BY DEF ChannelInv
    <3>2. noise < MaxNoise /\ noise' = noise + 1
      BY <2>1
    <3> QED BY <3>1, <3>2, Bounds
  <2> QED BY <2>1, <2>2, <2>3, <2>4 DEF ChannelInv
<1>3. CASE Decode
  <2> DEFINE r == decode(reader, wire[1])
  <2>1. /\ wire # <<>> /\ error' = r.err /\ held' = (IF r.err = "" THEN <<r.val>> ELSE <<>>)
        /\ wire' = <<>> /\ hops' = hops + 1 /\ UNCHANGED <<codec, reader, sent, gates, noise>>
    BY <1>3 DEF Decode
  <2>2. r.err = "" => MetaShape(r.val)
    BY <2>1, DecodedShape, DecodedPlaces DEF ChannelInv
  <2> HIDE DEF r
  <2>3. hops' \in 0..MaxHops
    <3>1. hops \in 0..MaxHops /\ hops < MaxHops
      BY <2>1 DEF ChannelInv
    <3>2. hops' = hops + 1
      BY <2>1
    <3> QED BY <3>1, <3>2, Bounds
  <2>4. IsSeq(held') /\ \A n \in ToSet(held') : MetaShape(n)
    <3>1. CASE r.err = ""
      <4>1. IsSeq(<<r.val>>) /\ ToSet(<<r.val>>) = {r.val}
        BY Singletons
      <4> QED BY <2>1, <2>2, <3>1, <4>1
    <3>2. CASE r.err # ""
      BY <2>1, <3>2, NoElements
    <3> QED BY <3>1, <3>2
  <2> QED BY <2>1, <2>3, <2>4 DEF ChannelInv
<1>4. CASE BenchNode \/ Finished \/ UNCHANGED vars
  <2>1. UNCHANGED <<codec, reader, sent, held, wire, hops, noise, error>>
    BY <1>4 DEF BenchNode, Finished, vars, channel
  <2> QED BY <2>1 DEF ChannelInv
<1> QED BY <1>1, <1>2, <1>3, <1>4 DEF Next

-----------------------------------------------------------------------------
(* The benchmark takes the test nodes in order.                            *)

LEMMA InSeq ==
  ASSUME NEW S, NEW s \in Seq(S)
  PROVE  IsSeq(s) /\ ToSet(s) \subseteq S
BY DEF IsSeq, ToSet

LEMMA Appended ==
  ASSUME NEW s, IsSeq(s), NEW x
  PROVE  /\ IsSeq(Append(s, x)) /\ Len(Append(s, x)) = Len(s) + 1
         /\ \A k \in 1..Len(s) : Append(s, x)[k] = s[k]
         /\ Append(s, x)[Len(s) + 1] = x
<1> DEFINE S == ToSet(s) \cup {x}
<1>1. s \in Seq(S) /\ x \in S
  BY DEF IsSeq
<1> HIDE DEF S
<1>2. Append(s, x) \in Seq(S) /\ Len(Append(s, x)) = Len(s) + 1
  BY <1>1
<1>3. \A k \in 1..Len(s) : Append(s, x)[k] = s[k]
  BY <1>1
<1>4. Append(s, x)[Len(s) + 1] = x
  BY <1>1
<1>5. IsSeq(Append(s, x))
  BY <1>2, InSeq
<1> QED BY <1>2, <1>3, <1>4, <1>5

LEMMA Remaining ==
  ASSUME NEW s, IsSeq(s), s # <<>>
  PROVE  /\ IsSeq(Tail(s)) /\ Len(Tail(s)) = Len(s) - 1 /\ Len(s) \in Nat \ {0}
         /\ \A k \in 1..Len(Tail(s)) : Tail(s)[k] = s[k + 1]
<1> DEFINE S == ToSet(s)
<1>1. s \in Seq(S)
  BY DEF IsSeq
<1> HIDE DEF S
<1>2. Tail(s) \in Seq(S) /\ Len(Tail(s)) = Len(s) - 1 /\ Len(s) \in Nat \ {0}
  BY <1>1
<1>3. \A k \in 1..(Len(s) - 1) : Tail(s)[k] = s[k + 1]
  BY <1>1
<1>4. IsSeq(Tail(s))
  BY <1>2, InSeq
<1> QED BY <1>2, <1>3, <1>4

LEMMA TestsAreSent ==
  ASSUME NEW nodes, IsSeq(nodes), NEW g \in GateConfigs
  PROVE  TestNodes(nodes, g) \in Seq(ToSet(nodes))
<1> DEFINE S == ToSet(nodes)
           wanted == (Len(nodes) * g.split[1] + g.split[2] - 1) \div g.split[2]
           odd == [k \in 1..(Len(nodes) \div 2) |-> nodes[2 * k]]
           top == IF wanted < Len(odd) THEN wanted ELSE Len(odd)
           test == SubSeq(odd, 1, top)
<1>1. nodes \in Seq(S) /\ Len(nodes) \in Nat /\ DOMAIN nodes = 1..Len(nodes) /\ \A k \in DOMAIN nodes : nodes[k] \in S
  BY Elements DEF IsSeq
<1> DEFINE half == Len(nodes) \div 2
<1>2. half \in Nat /\ \A k \in 1..half : 2 * k \in DOMAIN nodes
  BY <1>1
<1> HIDE DEF S, half
<1>3. [k \in 1..half |-> nodes[2 * k]] \in Seq(S) /\ Len([k \in 1..half |-> nodes[2 * k]]) = half
  BY <1>1, <1>2
<1>4. odd \in Seq(S) /\ Len(odd) \in Nat
  BY <1>3 DEF half
<1>5. wanted \in Nat
  <2> DEFINE a == g.split[1]
             b == g.split[2]
             l == Len(nodes)
  <2>1. a \in Nat /\ b \in Nat \ {0} /\ l \in Nat
    BY <1>1, BoundAssumption
  <2> HIDE DEF a, b, l
  <2>2. l * a \in Nat
    BY <2>1
  <2>3. l * a + b - 1 \in Nat
    BY <2>1, <2>2
  <2>4. (l * a + b - 1) \div b \in Nat
    BY <2>1, <2>3
  <2> QED BY <2>4 DEF a, b, l
<1> HIDE DEF odd, wanted
<1>6. top \in Nat /\ top <= Len(odd)
  BY <1>4, <1>5
<1> HIDE DEF top
<1>7. test \in Seq(S)
  BY <1>4, <1>6
<1> HIDE DEF test
<1>8. TestNodes(nodes, g) = IF g.split[1] = 0 \/ test = <<>> THEN nodes ELSE test
  BY Zenon DEF TestNodes, test, top, odd, wanted
<1> QED BY <1>1, <1>7, <1>8 DEF S

BenchInv ==
  LET nodes == TestNodes(sent, gates)
  IN /\ gates \in GateConfigs /\ IsSeq(nodes) /\ IsSeq(rest) /\ IsSeq(details)
     /\ Len(details) + Len(rest) = Len(nodes)
     /\ \A k \in 1..Len(rest) : rest[k] = nodes[Len(details) + k]
     /\ \A k \in 1..Len(details) : details[k] = bench_single_node_gated(nodes[k])

LEMMA BenchInit == Init => BenchInv
<1> SUFFICES ASSUME Init PROVE BenchInv
  OBVIOUS
<1> DEFINE nodes == TestNodes(sent, gates)
<1>1. sent \in Batches /\ gates \in GateConfigs /\ rest = nodes /\ details = <<>>
  BY DEF Init
<1>2. IsSeq(nodes)
  BY <1>1, BatchAssumption, TestsAreSent, InSeq
<1> HIDE DEF nodes
<1>3. Len(nodes) \in Nat
  BY <1>2, Elements
<1>4. IsSeq(details) /\ Len(details) = 0
  BY <1>1, NoElements
<1>5. \A k \in 1..Len(rest) : rest[k] = nodes[Len(details) + k]
  BY <1>1, <1>3, <1>4
<1>6. Len(details) + Len(rest) = Len(nodes)
  BY <1>1, <1>3, <1>4
<1>7. \A k \in 1..Len(details) : details[k] = bench_single_node_gated(nodes[k])
  BY <1>4
<1> QED BY <1>1, <1>2, <1>4, <1>5, <1>6, <1>7 DEF BenchInv, nodes

LEMMA SameGates == UNCHANGED <<codec, gates>> => \A n : bench_single_node_gated(n)' = bench_single_node_gated(n)
BY DEF bench_single_node_gated

LEMMA BenchStep == BenchInv /\ [Next]_vars => BenchInv'
<1> SUFFICES ASSUME BenchInv, [Next]_vars PROVE BenchInv'
  OBVIOUS
<1> DEFINE nodes == TestNodes(sent, gates)
<1>0. UNCHANGED <<codec, gates, sent>>
  BY DEF Next, Encode, Disturb, Decode, BenchNode, Finished, vars
<1>1. nodes' = nodes /\ \A n : bench_single_node_gated(n)' = bench_single_node_gated(n)
  BY <1>0, SameGates
<1>2. CASE BenchNode
  <2> DEFINE r == bench_single_node_gated(rest[1])
  <2>1. rest # <<>> /\ details' = Append(details, r) /\ rest' = Tail(rest)
    BY <1>2 DEF BenchNode
  <2>2. /\ gates \in GateConfigs /\ IsSeq(nodes) /\ IsSeq(rest) /\ IsSeq(details)
        /\ Len(details) + Len(rest) = Len(nodes)
        /\ \A k \in 1..Len(rest) : rest[k] = nodes[Len(details) + k]
        /\ \A k \in 1..Len(details) : details[k] = bench_single_node_gated(nodes[k])
    BY DEF BenchInv
  <2> HIDE DEF nodes
  <2>3. /\ IsSeq(rest') /\ Len(rest') = Len(rest) - 1 /\ Len(rest) \in Nat \ {0}
        /\ \A k \in 1..Len(rest') : rest'[k] = rest[k + 1]
    BY <2>1, <2>2, Remaining
  <2>4. r = bench_single_node_gated(nodes[Len(details) + 1])
    BY <2>2, <2>3
  <2> HIDE DEF r
  <2>5. /\ IsSeq(details') /\ Len(details') = Len(details) + 1 /\ Len(details) \in Nat
        /\ \A k \in 1..Len(details) : details'[k] = details[k]
        /\ details'[Len(details) + 1] = r
    BY <2>1, <2>2, Appended, Elements
  <2>6. Len(details') + Len(rest') = Len(nodes)
    <3> DEFINE a == Len(details)
               b == Len(rest)
    <3>1. a \in Nat /\ b \in Nat /\ a + b = Len(nodes)
      BY <2>2, <2>3, <2>5
    <3>2. Len(details') = a + 1 /\ Len(rest') = b - 1
      BY <2>3, <2>5
    <3> HIDE DEF a, b
    <3> QED BY <3>1, <3>2
  <2>7. \A k \in 1..Len(rest') : rest'[k] = nodes[Len(details') + k]
    <3> SUFFICES ASSUME NEW k \in 1..Len(rest') PROVE rest'[k] = nodes[Len(details') + k]
      OBVIOUS
    <3>1. k + 1 \in 1..Len(rest) /\ Len(details) + (k + 1) = Len(details') + k
      BY <2>3, <2>5
    <3> QED BY <2>2, <2>3, <3>1
  <2>8. \A k \in 1..Len(details') : details'[k] = bench_single_node_gated(nodes[k])
    <3> SUFFICES ASSUME NEW k \in 1..Len(details') PROVE details'[k] = bench_single_node_gated(nodes[k])
      OBVIOUS
    <3>1. k \in 1..Len(details) \/ k = Len(details) + 1
      BY <2>5
    <3> QED BY <2>2, <2>4, <2>5, <3>1
  <2>9. gates' \in GateConfigs /\ IsSeq(nodes)' 
    BY <1>0, <1>1, <2>2 DEF IsSeq
  <2>10. \A k \in 1..Len(details') : details'[k] = bench_single_node_gated(nodes[k])'
    BY <1>1, <2>8
  <2> QED BY <1>1, <2>3, <2>5, <2>6, <2>7, <2>9, <2>10 DEF BenchInv, nodes
<1>3. CASE Encode \/ Disturb \/ Decode \/ Finished \/ UNCHANGED vars
  <2>1. UNCHANGED <<rest, details, gates>>
    BY <1>3 DEF Encode, Disturb, Decode, Finished, vars, bench
  <2> QED BY <1>0, <1>1, <2>1 DEF BenchInv
<1> QED BY <1>2, <1>3 DEF Next

\* The state is well formed, and the benchmark has one result per finished node
\* (benchmark.rs: bench_semantic_roundtrip_gated_with).
THEOREM FactumLTyped == Spec => []TypeOK
<1>1. Init => ChannelInv /\ BenchInv
  BY ChannelInit, BenchInit
<1>2. ChannelInv /\ BenchInv /\ [Next]_vars => (ChannelInv /\ BenchInv)'
  BY ChannelStep, BenchStep
<1>3. ChannelInv /\ BenchInv => TypeOK
  <2> SUFFICES ASSUME ChannelInv, BenchInv PROVE TypeOK
    OBVIOUS
  <2>1. Len(wire) <= 1
    <3>1. wire = <<>> \/ wire = <<wire[1]>>
      BY DEF ChannelInv
    <3> QED BY <3>1
  <2>2. \A k \in DOMAIN held : MetaShape(held[k])
    BY Elements DEF ChannelInv
  <2>3. Len(details) + Len(rest) = Len(TestNodes(sent, gates))
    BY DEF BenchInv
  <2> QED BY <2>1, <2>2, <2>3 DEF TypeOK, ChannelInv, MetaShape
<1> QED BY <1>1, <1>2, <1>3, PTL DEF Spec

-----------------------------------------------------------------------------
(* What the packed codec makes of a text.                                  *)

LEMMA Empty ==
  ASSUME NEW s, IsSeq(s)
  PROVE  s = <<>> <=> Len(s) = 0
<1> DEFINE S == ToSet(s)
<1>1. s \in Seq(S)
  BY DEF IsSeq
<1> HIDE DEF S
<1> QED BY <1>1

LEMMA OneElement ==
  ASSUME NEW s, IsSeq(s), Len(s) = 1
  PROVE  s = <<s[1]>> /\ s[1] \in ToSet(s)
<1> DEFINE S == ToSet(s)
<1>1. s \in Seq(S)
  BY DEF IsSeq
<1>2. s = <<s[1]>>
  <2> HIDE DEF S
  <2> QED BY <1>1
<1>3. s[1] \in ToSet(s)
  <2>1. 1 \in DOMAIN s
    BY Elements
  <2> QED BY <2>1, Elements
<1> QED BY <1>2, <1>3

LEMMA CodedText ==
  ASSUME NEW c
  PROVE  HasCode(c) <=> c \in ToSet(Charset)
BY DEF HasCode, ToSet

\* The start of a text, as far as it has codes and there is room.
LEMMA Cut ==
  ASSUME NEW s, IsSeq(s)
  PROVE  \E n \in 0..Len(s) :
           /\ n <= 2 * ArgFloats
           /\ \A j \in 1..n : HasCode(s[j])
           /\ n = 2 * ArgFloats \/ n = Len(s) \/ ~HasCode(s[n + 1])
           /\ decode_string(encode_string(s)) = [j \in 1..n |-> s[j]]
<1>1. Len(s) \in Nat /\ ArgFloats \in Nat /\ s \in Seq(ToSet(s))
  BY PackingAssumption, Elements DEF IsSeq
<1> DEFINE Ends == {n \in Nat : n = 2 * ArgFloats \/ n = Len(s) \/ ~HasCode(s[n + 1])}
<1>2. PICK n \in Ends : \A m \in Ends : n <= m
  <2>1. Ends \subseteq Nat /\ Len(s) \in Ends
    BY <1>1
  <2> HIDE DEF Ends
  <2> QED BY <2>1, LeastNat
<1>3. n \in 0..Len(s) /\ n <= 2 * ArgFloats
  <2>1. Len(s) \in Ends /\ 2 * ArgFloats \in Ends /\ n \in Nat
    BY <1>1
  <2> HIDE DEF Ends
  <2>2. n <= Len(s) /\ n <= 2 * ArgFloats
    BY <1>2, <2>1
  <2> QED BY <1>1, <2>1, <2>2
<1>4. ASSUME NEW j \in 1..n PROVE HasCode(s[j])
  <2>1. j - 1 \in Nat /\ j - 1 < n
    BY <1>3
  <2>2. j - 1 \notin Ends
    <3>1. \A i \in Ends : n <= i
      BY <1>2
    <3>2. n \in Nat /\ ~(n <= j - 1)
      BY <1>3, <2>1
    <3> HIDE DEF Ends
    <3> QED BY <3>1, <3>2
  <2>3. (j - 1) + 1 = j
    BY <2>1
  <2> QED BY <2>1, <2>2, <2>3
<1>5. decode_string(encode_string(s)) = [j \in 1..n |-> s[j]]
  BY <1>1, <1>2, <1>3, <1>4, TextKept
<1> QED BY <1>2, <1>3, <1>4, <1>5

Received(s) == LET c == decode_string(encode_string(s)) IN IF c = <<>> THEN Unknown ELSE c

LEMMA ReceivedText ==
  ASSUME NEW s, IsSeq(s)
  PROVE  /\ IsSeq(Received(s)) /\ Spelt(Received(s)) /\ Received(s) # <<>>
         /\ Spelt(s) <=> Received(s) = s
         /\ IsPrefix(Received(s), s) \/ Received(s) = Unknown
<1> DEFINE c == decode_string(encode_string(s))
<1>1. PICK n \in 0..Len(s) :
        /\ n <= 2 * ArgFloats
        /\ \A j \in 1..n : HasCode(s[j])
        /\ n = 2 * ArgFloats \/ n = Len(s) \/ ~HasCode(s[n + 1])
        /\ c = [j \in 1..n |-> s[j]]
  BY Cut
<1> HIDE DEF c
<1>0. Len(s) \in Nat
  BY Elements
<1>10. n \in Nat /\ n <= Len(s)
  BY <1>0
<1>2. Len(s) \in Nat /\ DOMAIN s = 1..Len(s) /\ s \in Seq(ToSet(s))
  BY Elements DEF IsSeq
<1>3. c \in Seq(ToSet(Charset)) /\ Len(c) = n /\ \A j \in 1..n : c[j] = s[j]
  <2>1. \A j \in 1..n : s[j] \in ToSet(Charset)
    BY <1>1, CodedText
  <2>2. n \in Nat
    BY <1>10
  <2> HIDE DEF c
  <2>3. [j \in 1..n |-> s[j]] \in Seq(ToSet(Charset)) /\ Len([j \in 1..n |-> s[j]]) = n
    BY <2>1, <2>2
  <2> QED BY <1>1, <2>3
<1>4. /\ Unknown \in Seq(ToSet(Charset)) /\ Len(Unknown) \in 1..(2 * ArgFloats) /\ Unknown # <<>>
      /\ ArgFloats \in Nat
  <2>1. Unknown \in Seq(ToSet(Charset)) /\ Len(Unknown) \in 1..(2 * ArgFloats) /\ ArgFloats \in Nat
    BY CodecAssumption, PackingAssumption
  <2>2. 1 <= Len(Unknown)
    BY <2>1
  <2>3. Unknown = <<>> => Len(Unknown) = 0
    BY NoElements
  <2> QED BY <2>1, <2>2, <2>3
<1>5. Received(s) = IF c = <<>> THEN Unknown ELSE c
  BY DEF Received, c
<1>6. Received(s) \in Seq(ToSet(Charset)) /\ Len(Received(s)) \in 1..(2 * ArgFloats) /\ Received(s) # <<>>
  <2>1. c # <<>> => n # 0
    <3>1. IsSeq(c)
      BY <1>3, InSeq
    <3> QED BY <1>3, <3>1, Empty
  <2>2. n \in Nat /\ n <= 2 * ArgFloats
    BY <1>1, <1>10
  <2> QED BY <1>3, <1>4, <1>5, <2>1, <2>2
<1>7. IsSeq(Received(s)) /\ Spelt(Received(s))
  BY <1>6, InSeq DEF Spelt
<1>8. ASSUME Spelt(s) PROVE Received(s) = s
  <2>1. Len(s) \in 1..(2 * ArgFloats) /\ \A j \in 1..Len(s) : HasCode(s[j])
    BY <1>2, <1>8, CodedText DEF Spelt, ToSet
  <2>2. n = Len(s)
    <3> SUFFICES ASSUME n # Len(s) PROVE FALSE
      OBVIOUS
    <3>1. n \in Nat /\ n <= Len(s) /\ n # Len(s)
      BY <1>10
    <3>2. n + 1 \in 1..Len(s)
      BY <1>0, <3>1
    <3>3. HasCode(s[n + 1]) /\ Len(s) <= 2 * ArgFloats
      BY <2>1, <3>2
    <3>4. n = 2 * ArgFloats
      BY <1>1, <3>1, <3>3
    <3> QED BY <1>0, <3>1, <3>3, <3>4
  <2>3. c = s
    BY <1>1, <1>2, <2>2
  <2>4. s # <<>>
    BY <2>1
  <2> QED BY <1>5, <2>3, <2>4
<1>9. c # <<>> => IsPrefix(c, s)
  <2>1. Len(c) <= Len(s) /\ \A j \in 1..Len(c) : c[j] = s[j]
    <3>1. n <= Len(s)
      BY <1>10
    <3> QED BY <1>3, <3>1
  <2>2. SubSeq(c, 1, Len(c)) = SubSeq(s, 1, Len(c))
    BY <1>2, <1>3, <2>1
  <2> QED BY <2>1, <2>2 DEF IsPrefix
<1> QED BY <1>5, <1>6, <1>7, <1>8, <1>9

-----------------------------------------------------------------------------
(* What the packed codec makes of a term.                                  *)

LEMMA TypeNames ==
  ToSet(Types) = {"Ent", "Var", "Dec", "Str", "Date", "Bool", "Uri", "Dur", "Compound", "List"}
BY DEF Types, ToSet

LEMMA TypesOfTerms ==
  /\ \A x : /\ TypeOf(Ent(x)) = "Ent" /\ TypeOf(Var(x)) = "Var" /\ TypeOf(List(x)) = "List"
            /\ TypeOf(Lit(x)) = x.type
            /\ Ent(x).kind = "Ent" /\ Var(x).kind = "Var" /\ List(x).kind = "List" /\ Lit(x).kind = "Lit"
            /\ Ent(x).ent = x /\ Var(x).var = x /\ List(x).items = x /\ Lit(x).lit = x
  /\ \A t : /\ t.kind = "Lit" => TypeOf(t) = t.lit.type
            /\ t.kind # "Lit" => TypeOf(t) = t.kind
BY DEF TypeOf, Ent, Var, List, Lit

LEMMA TextsOfTerms ==
  /\ \A x : /\ term_value_string(Ent(x)) = x /\ term_value_string(Var(x)) = x
            /\ term_value_string(Lit(x)) = Text(x)
            /\ flat_text(Ent(x)) = x /\ flat_text(Lit(x)) = Text(x)
  /\ \A u : u.kind # "List" => term_value_string(List(<<u>>)) = flat_text(u)
<1>1. \A x : /\ flat_text(Ent(x)) = x /\ flat_text(Var(x)) = x /\ flat_text(Lit(x)) = Text(x)
  BY DEF flat_text, Ent, Var, Lit
<1>2. \A t : t.kind # "List" => term_value_string(t) = flat_text(t)
  BY DEF term_value_string
<1>3. ASSUME NEW u, u.kind # "List"
      PROVE  term_value_string(List(<<u>>)) = flat_text(u)
  <2>1. term_value_string(List(<<u>>)) = items_text(<<u>>, inner_text)
    BY DEF term_value_string, List
  <2>2. Len(<<u>>) = 1 /\ <<u>> # <<>> /\ <<u>>[1] = u
    OBVIOUS
  <2>3. items_text(<<u>>, inner_text) = flat_text(u)
    BY <1>3, <2>2 DEF items_text
  <2> QED BY <2>1, <2>3
<1> QED BY <1>1, <1>2, <1>3, TypesOfTerms

LEMMA TextsOfLiterals ==
  \A x : /\ Text([type |-> "Str", text |-> x]) = x /\ Text([type |-> "Uri", text |-> x]) = x
         /\ Text([type |-> "Date", day |-> x]) = <<x>>
         /\ Text([type |-> "Bool", text |-> x]) = IF x = <<"t">> THEN <<"1">> ELSE <<"0">>
BY DEF Text

\* What the packed codec makes of an argument.
Arriving(t) ==
  LET s == decode_string(encode_string(term_value_string(t)))
  IN reconstruct_term(IF s = <<>> THEN Unknown ELSE s, TypeOf(t))

LEMMA ArrivingIs ==
  ASSUME NEW t
  PROVE  Arriving(t) = reconstruct_term(Received(term_value_string(t)), TypeOf(t))
BY DEF Arriving, Received

\* What arrives is read from the start of the text.
LEMMA ArrivingIsRead ==
  ASSUME NEW t, IsSeq(term_value_string(t))
  PROVE  Arriving(t) = ReadFrom(t)
<1> DEFINE s == term_value_string(t)
           n == CHOOSE k \in 0..Len(s) : EndsAt(s, k)
<1>1. \A k \in 0..Len(s) :
        EndsAt(s, k) <=> /\ k <= 2 * ArgFloats
                         /\ \A j \in 1..k : HasCode(s[j])
                         /\ k = 2 * ArgFloats \/ k = Len(s) \/ ~HasCode(s[k + 1])
  BY CodedText, Zenon DEF EndsAt
<1>2. \E k \in 0..Len(s) : EndsAt(s, k)
  BY <1>1, Cut
<1>3. n \in 0..Len(s) /\ EndsAt(s, n)
  BY <1>2, Zenon
<1> HIDE DEF n, s
<1>4. s \in Seq(ToSet(s))
  BY DEF IsSeq, s
<1>5. decode_string(encode_string(s)) = [j \in 1..n |-> s[j]]
  BY <1>1, <1>3, <1>4, TextKept
<1>6. StartOf(s) = [j \in 1..n |-> s[j]]
  BY Zenon DEF StartOf, n
<1>7. decode_string(encode_string(s)) = StartOf(s)
  BY <1>5, <1>6
<1> QED BY <1>7 DEF Arriving, ReadFrom, s

LEMMA NumbersArrive ==
  ASSUME NEW nodes \in Batches, NEW n \in ToSet(nodes), NEW t \in ToSet(n.pred.args), TypeOf(t) \in {"Dec", "Dur"}
  PROVE  /\ Spelt(term_value_string(t)) <=> Arriving(t) = Good(t)
         /\ Arriving(t).err = "" => Arriving(Arriving(t).val) = Arriving(t)
<1>1. IsSeq(term_value_string(t))
  BY BatchAssumption DEF NodeShape, TermShape
<1>2. Arriving(t) = ReadFrom(t)
  BY <1>1, ArrivingIsRead
<1>3. /\ Spelt(term_value_string(t)) <=> ReadFrom(t) = Good(t)
      /\ ReadFrom(t).err = "" => IsSeq(term_value_string(ReadFrom(t).val)) /\ ReadFrom(ReadFrom(t).val) = ReadFrom(t)
  BY NumberAssumption
<1>4. IsSeq(term_value_string(ReadFrom(t).val)) => Arriving(ReadFrom(t).val) = ReadFrom(ReadFrom(t).val)
  BY ArrivingIsRead
<1> QED BY <1>2, <1>3, <1>4, Zenon

Rebuilt(r, x, type) ==
  /\ r = Good(r.val) /\ TypeOf(r.val) = type /\ type # "Compound"
  /\ type \in Named => term_value_string(r.val) = x
  /\ type = "Bool" /\ x = <<"1">> => term_value_string(r.val) = <<"1">>
  /\ type = "Bool" /\ x # <<"1">> => term_value_string(r.val) = <<"0">>
  /\ type \in {"Dec", "Dur"} => r.val = Lit(r.val.lit)

LEMMA Reconstructed ==
  ASSUME NEW x, IsSeq(x), NEW type \in ToSet(Types), NEW r, r = reconstruct_term(x, type), r.err = ""
  PROVE  Rebuilt(r, x, type)
<1> USE DEF Rebuilt
<1>1. CASE type = "Ent"
  <2>1. r = Good(Ent(x))
    BY <1>1 DEF reconstruct_term
  <2>2. r.val = Ent(x)
    BY <2>1, Success
  <2> QED BY <1>1, <2>1, <2>2, TypesOfTerms, TextsOfTerms
<1>2. CASE type = "Var"
  <2>1. r = Good(Var(x))
    BY <1>2 DEF reconstruct_term
  <2>2. r.val = Var(x)
    BY <2>1, Success
  <2> QED BY <1>2, <2>1, <2>2, TypesOfTerms, TextsOfTerms
<1>3. CASE type \in {"Str", "Uri"}
  <2> DEFINE l == [type |-> type, text |-> x]
  <2>1. r = Good(Lit(l))
    BY <1>3 DEF reconstruct_term
  <2>2. r.val = Lit(l)
    BY <2>1, Success
  <2>3. l.type = type /\ Text(l) = x
    BY <1>3, TextsOfLiterals
  <2> HIDE DEF l
  <2> QED BY <1>3, <2>1, <2>2, <2>3, TypesOfTerms, TextsOfTerms
<1>4. CASE type = "Date"
  <2> DEFINE l == [type |-> "Date", day |-> x[1]]
  <2>1. r = IF Len(x) = 1 /\ x[1] \in Days THEN Good(Lit(l)) ELSE Bad("date parse")
    BY <1>4 DEF reconstruct_term
  <2>2. Bad("date parse").err # ""
    BY Failure
  <2>3. r = Good(Lit(l)) /\ Len(x) = 1
    <3> HIDE DEF l
    <3> QED BY <2>1, <2>2
  <2>4. r.val = Lit(l)
    BY <2>3, Success
  <2>5. l.type = type /\ Text(l) = <<x[1]>>
    BY <1>4, TextsOfLiterals
  <2>6. <<x[1]>> = x
    BY <2>3, OneElement
  <2> HIDE DEF l
  <2>7. TypeOf(r.val) = type
    BY <2>4, <2>5, TypesOfTerms
  <2>8. term_value_string(r.val) = x
    BY <2>4, <2>5, <2>6, TextsOfTerms
  <2> QED BY <1>4, <2>3, <2>4, <2>7, <2>8
<1>5. CASE type = "Bool"
  <2> DEFINE b == IF x = <<"1">> THEN <<"t">> ELSE <<"f">>
             l == [type |-> "Bool", text |-> b]
  <2>1. r = Good(Lit(l))
    BY <1>5 DEF reconstruct_term
  <2>2. r.val = Lit(l)
    BY <2>1, Success
  <2>3. l.type = type /\ Text(l) = IF b = <<"t">> THEN <<"1">> ELSE <<"0">>
    BY <1>5, TextsOfLiterals
  <2>4. b = <<"t">> <=> x = <<"1">>
    OBVIOUS
  <2> HIDE DEF l, b
  <2>5. TypeOf(r.val) = type
    BY <2>2, <2>3, TypesOfTerms
  <2>6. term_value_string(r.val) = (IF x = <<"1">> THEN <<"1">> ELSE <<"0">>)
    BY <2>2, <2>3, <2>4, TextsOfTerms
  <2> QED BY <1>5, <2>1, <2>2, <2>5, <2>6 DEF Named
<1>6. CASE type = "Dec"
  <2> DEFINE d == dec_from_str(x)
             l == Dec(Mantissa(Parts(x)), Parts(x).scale % ScaleWidth)
  <2>1. r = Wrapped(d)
    BY <1>6 DEF reconstruct_term
  <2>2. d = Bad("InvalidDecimal") \/ d = Good(l)
    BY Zenon DEF dec_from_str
  <2>3. l.type = "Dec"
    BY DEF Dec
  <2> HIDE DEF d, l
  <2>4. d = Good(l) /\ r = Good(Lit(l))
    <3>1. Bad("InvalidDecimal").err # ""
      BY Failure
    <3>2. Good(l).err = "" /\ Good(l).val = l
      BY Success
    <3> QED BY <2>1, <2>2, <3>1, <3>2 DEF Wrapped
  <2>5. r.val = Lit(l)
    BY <2>4, Success
  <2>6. r.val = Lit(r.val.lit) /\ TypeOf(r.val) = type
    <3>1. Lit(l).lit = l /\ TypeOf(Lit(l)) = l.type
      BY TypesOfTerms
    <3> QED BY <1>6, <2>3, <2>5, <3>1
  <2> QED BY <1>6, <2>4, <2>5, <2>6 DEF Named
<1>7. CASE type = "Dur"
  <2> DEFINE l == Dur(NatOf(x))
  <2>1. r = IF AllDigits(x) THEN Good(Lit(l)) ELSE Bad("dur parse")
    BY <1>7 DEF reconstruct_term
  <2>2. Bad("dur parse").err # ""
    BY Failure
  <2>3. l.type = "Dur"
    BY DEF Dur
  <2> HIDE DEF l
  <2>4. r = Good(Lit(l)) /\ r.val = Lit(l)
    BY <2>1, <2>2, Success
  <2>5. r.val = Lit(r.val.lit) /\ TypeOf(r.val) = type
    <3>1. Lit(l).lit = l /\ TypeOf(Lit(l)) = l.type
      BY TypesOfTerms
    <3> QED BY <1>7, <2>3, <2>4, <3>1
  <2> QED BY <1>7, <2>4, <2>5 DEF Named
<1>8. CASE type = "Compound"
  <2>1. r = Bad("compound parse")
    BY <1>8 DEF reconstruct_term
  <2> QED BY <2>1, Failure
<1>9. CASE type = "List"
  <2> DEFINE u == IF x[1] \in Uppercase THEN Ent(x) ELSE Str(x)
  <2>1. r = Good(List(<<u>>))
    BY <1>9 DEF reconstruct_term
  <2>2. r.val = List(<<u>>)
    BY <2>1, Success
  <2>3. u.kind # "List" /\ flat_text(u) = x
    <3>1. Ent(x).kind # "List" /\ flat_text(Ent(x)) = x
      BY TypesOfTerms, TextsOfTerms
    <3>2. Str(x).kind # "List" /\ flat_text(Str(x)) = x
      <4> DEFINE l == [type |-> "Str", text |-> x]
      <4>1. Str(x) = Lit(l)
        BY DEF Str
      <4>2. Text(l) = x
        BY TextsOfLiterals
      <4> HIDE DEF l
      <4> QED BY <4>1, <4>2, TypesOfTerms, TextsOfTerms
    <3> QED BY <3>1, <3>2
  <2> HIDE DEF u
  <2> QED BY <1>9, <2>1, <2>2, <2>3, TypesOfTerms, TextsOfTerms
<1> QED BY <1>1, <1>2, <1>3, <1>4, <1>5, <1>6, <1>7, <1>8, <1>9, TypeNames

LEMMA ArrivingTerm ==
  ASSUME NEW t, TermShape(t), Arriving(t).err = ""
  PROVE  Rebuilt(Arriving(t), Received(term_value_string(t)), TypeOf(t))
<1>1. TypeOf(t) \in ToSet(Types) /\ IsSeq(Received(term_value_string(t)))
  BY ReceivedText DEF TermShape
<1> QED BY <1>1, ArrivingIs, Reconstructed

LEMMA FalseAndTrue ==
  \A s \in {<<"0">>, <<"1">>} : IsSeq(s) /\ Spelt(s) /\ Received(s) = s
<1>1. ASSUME NEW c \in {"0", "1"}
      PROVE  IsSeq(<<c>>) /\ Spelt(<<c>>) /\ Received(<<c>>) = <<c>>
  <2>1. IsSeq(<<c>>) /\ ToSet(<<c>>) = {c} /\ Len(<<c>>) = 1
    BY Singletons
  <2>2. 1 \in 1..(2 * ArgFloats) /\ {c} \subseteq ToSet(Charset)
    <3>1. ArgFloats \in Nat /\ ArgFloats > 0 /\ {"0", "1"} \subseteq ToSet(Charset)
      BY CodecAssumption, PackingAssumption
    <3>2. 1 \in 1..(2 * ArgFloats)
      BY <3>1
    <3> QED BY <3>1, <3>2
  <2>3. Spelt(<<c>>)
    BY <2>1, <2>2 DEF Spelt
  <2> QED BY <2>1, <2>3, ReceivedText
<1> QED BY <1>1

\* What has arrived once arrives the same again.
LEMMA ArrivingAgain ==
  ASSUME NEW n, NEW nodes \in Batches, n \in ToSet(nodes), NEW t \in ToSet(n.pred.args), Arriving(t).err = ""
  PROVE  Arriving(Arriving(t).val) = Arriving(t)
<1> DEFINE r == Arriving(t)
           x == Received(term_value_string(t))
           y == term_value_string(r.val)
<1>1. TermShape(t)
  BY BatchAssumption DEF NodeShape
<1>2. r = reconstruct_term(x, TypeOf(t)) /\ IsSeq(x) /\ Spelt(x)
  BY <1>1, ArrivingIs, ReceivedText DEF TermShape
<1>3. Arriving(r.val) = reconstruct_term(Received(y), TypeOf(r.val))
  BY ArrivingIs
<1>4. /\ TypeOf(r.val) = TypeOf(t)
      /\ TypeOf(t) \in Named => y = x
      /\ TypeOf(t) = "Bool" /\ x = <<"1">> => y = <<"1">>
      /\ TypeOf(t) = "Bool" /\ x # <<"1">> => y = <<"0">>
      /\ TypeOf(t) # "Compound"
  BY <1>1, ArrivingTerm DEF Rebuilt
<1>5. TypeOf(t) \in Named \cup {"Bool", "Dec", "Dur"}
  BY <1>1, <1>4, TypeNames DEF TermShape, Named
<1>6. CASE TypeOf(t) \in {"Dec", "Dur"}
  BY <1>6, NumbersArrive
<1>7. CASE TypeOf(t) \in Named
  <2>1. Received(y) = y
    BY <1>2, <1>4, <1>7, ReceivedText
  <2> HIDE DEF x, y, r
  <2> QED BY <1>2, <1>3, <1>4, <1>7, <2>1 DEF r
<1>8. CASE TypeOf(t) = "Bool"
  <2>1. Received(y) = y /\ (y = <<"1">> <=> x = <<"1">>)
    <3> HIDE DEF x, y
    <3>1. y \in {<<"0">>, <<"1">>}
      BY <1>4, <1>8
    <3>2. <<"0">> # <<"1">>
      OBVIOUS
    <3> QED BY <1>4, <1>8, <3>1, <3>2, FalseAndTrue
  <2>2. \A z : reconstruct_term(z, "Bool")
               = Good(Lit([type |-> "Bool", text |-> IF z = <<"1">> THEN <<"t">> ELSE <<"f">>]))
    BY DEF reconstruct_term
  <2> HIDE DEF x, y, r
  <2> QED BY <1>2, <1>3, <1>4, <1>8, <2>1, <2>2 DEF r
<1> QED BY <1>5, <1>6, <1>7, <1>8

-----------------------------------------------------------------------------
(* Verdicts.                                                               *)

Levels == {"Exact", "MetadataDrift", "WrongValues", "Different"}
Told(c) ==
  /\ c.level \in Levels /\ c.score \in 0..100
  /\ IF c.level \in {"Exact", "MetadataDrift"} THEN c.score >= 85 ELSE c.score <= 30

LEMMA Scores ==
  /\ Exact.level = "Exact" /\ Exact.score = 100 /\ MetadataDrift.level = "MetadataDrift" /\ MetadataDrift.score = 85
  /\ Different.level = "Different" /\ Different.score = 0
  /\ \A k \in Int : WrongValues(k).level = "WrongValues" /\ WrongValues(k).score = (IF k < 30 THEN k ELSE 30)
BY DEF Exact, MetadataDrift, Different, WrongValues

LEMMA VerdictOf ==
  ASSUME NEW parts, IsFiniteSet(DOMAIN parts)
  PROVE  /\ Told(Verdict(parts))
         /\ Verdict(parts).level \in {"Exact", "MetadataDrift"} <=>
              \A k \in DOMAIN parts : parts[k].level \notin {"Different", "WrongValues"}
         /\ Verdict(parts).level = "Exact" <=> \A k \in DOMAIN parts : parts[k].level = "Exact"
         /\ (\E k \in DOMAIN parts : parts[k].level = "Different") => Verdict(parts) = Different
<1> DEFINE levels == {parts[k].level : k \in DOMAIN parts}
           wrongs == {k \in DOMAIN parts : parts[k].level = "WrongValues"}
           wrong == Cardinality(wrongs)
           score == IF wrong < 3 THEN 30 - 10 * wrong ELSE 0
<1>1. wrong \in Nat /\ (wrong > 0 <=> \E k \in DOMAIN parts : parts[k].level = "WrongValues")
  <2>1. IsFiniteSet(wrongs)
    BY FS_Subset
  <2>2. wrong \in Nat /\ (wrong = 0 <=> wrongs = {})
    BY <2>1, FS_CardinalityType, FS_EmptySet
  <2>3. wrongs = {} <=> ~\E k \in DOMAIN parts : parts[k].level = "WrongValues"
    OBVIOUS
  <2> HIDE DEF wrong, wrongs
  <2> QED BY <2>2, <2>3
<1>2. Verdict(parts) = IF "Different" \in levels THEN Different
                       ELSE IF wrong > 0 THEN WrongValues(score)
                       ELSE IF levels \subseteq {"Exact"} THEN Exact ELSE MetadataDrift
  BY Zenon DEF Verdict
<1>3. wrong > 0 => score \in 0..20
  <2> HIDE DEF wrong
  <2> QED BY <1>1
<1> HIDE DEF wrong, score
<1>4. ("Different" \in levels <=> \E k \in DOMAIN parts : parts[k].level = "Different")
      /\ (levels \subseteq {"Exact"} <=> \A k \in DOMAIN parts : parts[k].level = "Exact")
  OBVIOUS
<1> HIDE DEF levels
<1>5. CASE "Different" \in levels
  BY <1>2, <1>4, <1>5, Scores DEF Told, Levels
<1>6. CASE "Different" \notin levels /\ wrong > 0
  <2>1. Verdict(parts) = WrongValues(score) /\ score \in Int /\ score < 30 /\ score >= 0
    BY <1>2, <1>3, <1>6
  <2>2. Verdict(parts).level = "WrongValues" /\ Verdict(parts).score = score
    BY <2>1, Scores
  <2> QED BY <1>1, <1>3, <1>4, <1>6, <2>1, <2>2 DEF Told, Levels
<1>7. CASE "Different" \notin levels /\ ~(wrong > 0)
  BY <1>1, <1>2, <1>4, <1>7, Scores DEF Told, Levels
<1> QED BY <1>5, <1>6, <1>7

Judged(c, b) == c.level \in {"Exact", "WrongValues", "Different"} /\ (c.level = "Exact" <=> b)

LEMMA LeavesJudged ==
  /\ \A a, b : /\ Judged(compare_leaves(Ent(a), Ent(b)), a = b)
               /\ Judged(compare_leaves(Var(a), Var(b)), a = b)
               /\ Judged(compare_leaves(Lit(a), Lit(b)), a = b)
  /\ \A t, u : t.kind # u.kind => Judged(compare_leaves(t, u), FALSE)
<1>1. \A a, b : Judged(compare_literals(a, b), a = b)
  <2>1. \A a, b : compare_literals(a, b) = IF a = b THEN Exact ELSE IF a.type = b.type THEN WrongValues(30) ELSE Different
    BY DEF compare_literals, lit_eq
  <2> QED BY <2>1, Scores DEF Judged
<1>2. \A a, b : /\ compare_leaves(Ent(a), Ent(b)) = IF a = b THEN Exact ELSE WrongValues(30)
                /\ compare_leaves(Var(a), Var(b)) = IF a = b THEN Exact ELSE WrongValues(20)
                /\ compare_leaves(Lit(a), Lit(b)) = compare_literals(a, b)
  BY DEF compare_leaves, Ent, Var, Lit
<1>3. \A t, u : t.kind # u.kind => compare_leaves(t, u) = Different
  BY DEF compare_leaves
<1> QED BY <1>1, <1>2, <1>3, Scores DEF Judged

LEMMA LeavesCompared ==
  \A t, u : t.kind \notin {"Compound", "List"} => compare_terms(t, u) = compare_leaves(t, u)
BY DEF compare_terms, compare_nested, Nests

\* A list is judged by its only item.
LEMMA ListsCompared ==
  ASSUME NEW items, IsSeq(items), NEW u, u.kind \notin {"Compound", "List"}
  PROVE  /\ Len(items) # 1 => Judged(compare_terms(List(items), List(<<u>>)), FALSE)
         /\ Len(items) = 1 => \A b : Judged(compare_leaves(items[1], u), b)
                                     => Judged(compare_terms(List(items), List(<<u>>)), b)
<1> DEFINE Part(v, w) == IF v.kind # w.kind \/ ~Nests(v) THEN compare_leaves(v, w) ELSE compare_inner[<<v, w>>]
           us == <<u>>
           parts == [k \in DOMAIN items |-> Part(items[k], us[k])]
           c == compare_terms(List(items), List(us))
<1>1. c = IF Len(items) # Len(us) THEN Different ELSE Verdict(parts)
  <2>1. List(items).kind = "List" /\ List(items).items = items /\ List(us).kind = "List" /\ List(us).items = us
    BY TypesOfTerms
  <2> HIDE DEF us
  <2> QED BY <2>1 DEF compare_terms, compare_nested, ListsBy, Nests
<1>2. Len(us) = 1 /\ us[1] = u
  OBVIOUS
<1>3. DOMAIN items = 1..Len(items) /\ Len(items) \in Nat
  BY Elements
<1>4. Len(items) = 1 => DOMAIN parts = {1} /\ parts[1] = compare_leaves(items[1], u)
  <2> SUFFICES ASSUME Len(items) = 1 PROVE DOMAIN parts = {1} /\ parts[1] = compare_leaves(items[1], u)
    OBVIOUS
  <2>1. DOMAIN items = {1}
    BY <1>3
  <2>2. Part(items[1], us[1]) = compare_leaves(items[1], u)
    <3> HIDE DEF us
    <3> QED BY <1>2 DEF Nests
  <2> HIDE DEF Part, us
  <2> QED BY <2>1, <2>2
<1> HIDE DEF parts, us, c
<1>5. Len(items) # 1 => Judged(c, FALSE)
  BY <1>1, <1>2, Scores DEF Judged
<1>6. ASSUME Len(items) = 1, NEW b, Judged(compare_leaves(items[1], u), b)
      PROVE  Judged(c, b)
  <2>1. IsFiniteSet(DOMAIN parts) /\ c = Verdict(parts)
    BY <1>1, <1>2, <1>4, <1>6, FS_Singleton
  <2>2. /\ Told(Verdict(parts))
        /\ Verdict(parts).level \in {"Exact", "MetadataDrift"} <=> parts[1].level \notin {"Different", "WrongValues"}
        /\ Verdict(parts).level = "Exact" <=> parts[1].level = "Exact"
    BY <1>4, <1>6, <2>1, VerdictOf
  <2> QED BY <1>4, <1>6, <2>1, <2>2 DEF Judged, Told, Levels
<1> QED BY <1>5, <1>6 DEF c, us

LEMMA LeafKinds ==
  ASSUME NEW t, LeafShape(t)
  PROVE  /\ TypeOf(t) = "Ent" => t = Ent(t.ent)
         /\ TypeOf(t) = "Var" => t = Var(t.var)
         /\ TypeOf(t) \in {"Dec", "Str", "Date", "Bool", "Uri", "Dur"} => t = Lit(t.lit) /\ t.lit.type = TypeOf(t)
         /\ TypeOf(t) \in {"Str", "Uri"} => t.lit = [type |-> TypeOf(t), text |-> t.lit.text]
         /\ TypeOf(t) = "Date" => t.lit = [type |-> "Date", day |-> t.lit.day] /\ t.lit.day \in Days
         /\ TypeOf(t) = "Bool" => \E b \in {"t", "f"} : t.lit = [type |-> "Bool", text |-> <<b>>]
         /\ TypeOf(t) = "List" => t.kind = "List"
<1>1. /\ t.kind = "Ent" => t = Ent(t.ent)
      /\ t.kind = "Var" => t = Var(t.var)
      /\ t.kind = "Lit" =>
           /\ t = Lit(t.lit) /\ t.lit.type \in {"Dec", "Str", "Date", "Bool", "Uri", "Dur"}
           /\ t.lit.type \in {"Str", "Uri"} => t.lit = [type |-> t.lit.type, text |-> t.lit.text]
           /\ t.lit.type = "Date" => t.lit = [type |-> "Date", day |-> t.lit.day] /\ t.lit.day \in Days
           /\ t.lit.type = "Bool" => \E b \in {"t", "f"} : t.lit = [type |-> "Bool", text |-> <<b>>]
      /\ t.kind \notin {"Ent", "Var", "Lit"} => t.kind \in {"Compound", "List"}
  BY DEF LeafShape
<1>2. (t.kind = "Lit" => TypeOf(t) = t.lit.type) /\ (t.kind # "Lit" => TypeOf(t) = t.kind)
  BY TypesOfTerms
<1>3. CASE t.kind = "Ent"
  BY <1>1, <1>2, <1>3
<1>4. CASE t.kind = "Var"
  BY <1>1, <1>2, <1>4
<1>5. CASE t.kind = "Lit"
  BY <1>1, <1>2, <1>5
<1>6. CASE t.kind \in {"Compound", "List"}
  BY <1>2, <1>6
<1> QED BY <1>1, <1>3, <1>4, <1>5, <1>6

\* A term arrives as itself if and only if the packed codec can carry it.
LEMMA ArrivalJudged ==
  ASSUME NEW nodes \in Batches, NEW n \in ToSet(nodes), NEW t \in ToSet(n.pred.args), Arriving(t).err = ""
  PROVE  Judged(compare_terms(t, Arriving(t).val), Carriable(t))
<1> DEFINE s == term_value_string(t)
           x == Received(s)
           r == Arriving(t)
           type == TypeOf(t)
<1>1. TermShape(t) /\ IsSeq(s) /\ LeafShape(t) /\ type \in ToSet(Types)
  BY BatchAssumption DEF NodeShape, TermShape
<1>2. IsSeq(x) /\ (Spelt(s) <=> x = s)
  BY <1>1, ReceivedText
<1>3. r = reconstruct_term(x, type)
  BY ArrivingIs
<1>4. r.err = "" /\ type # "Compound"
  BY <1>1, ArrivingTerm DEF Rebuilt
<1>5. type # "List" => t.kind \notin {"Compound", "List"} /\ (Carriable(t) <=> Spelt(s))
  BY <1>4, TypesOfTerms DEF Carriable
<1> HIDE DEF s, x, r, type
<1>6. type # "List" => compare_terms(t, r.val) = compare_leaves(t, r.val)
  BY <1>5, LeavesCompared
<1>7. CASE type = "Ent"
  <2>1. t = Ent(t.ent) /\ s = t.ent
    BY <1>1, <1>7, LeafKinds, TextsOfTerms DEF s, type
  <2>2. r = Good(Ent(x)) /\ r.val = Ent(x)
    BY <1>3, <1>7, Success DEF reconstruct_term
  <2>3. Judged(compare_leaves(Ent(t.ent), Ent(x)), t.ent = x)
    BY LeavesJudged
  <2>4. compare_terms(t, r.val) = compare_leaves(Ent(t.ent), Ent(x))
    BY <1>6, <1>7, <2>1, <2>2
  <2>5. (t.ent = x) <=> Carriable(t)
    BY <1>2, <1>5, <1>7, <2>1
  <2> QED BY <2>3, <2>4, <2>5 DEF r, Judged
<1>8. CASE type = "Var"
  <2>1. t = Var(t.var) /\ s = t.var
    BY <1>1, <1>8, LeafKinds, TextsOfTerms DEF s, type
  <2>2. r = Good(Var(x)) /\ r.val = Var(x)
    BY <1>3, <1>8, Success DEF reconstruct_term
  <2>3. Judged(compare_leaves(Var(t.var), Var(x)), t.var = x)
    BY LeavesJudged
  <2>4. compare_terms(t, r.val) = compare_leaves(Var(t.var), Var(x))
    BY <1>6, <1>8, <2>1, <2>2
  <2>5. (t.var = x) <=> Carriable(t)
    BY <1>2, <1>5, <1>8, <2>1
  <2> QED BY <2>3, <2>4, <2>5 DEF r, Judged
<1>9. CASE type \in {"Str", "Uri"}
  <2> DEFINE l == [type |-> type, text |-> x]
             y == t.lit.text
  <2>1. t = Lit(t.lit) /\ t.lit = [type |-> type, text |-> y]
    BY <1>1, <1>9, LeafKinds DEF type
  <2>2. s = y
    <3> DEFINE k == [type |-> type, text |-> y]
    <3>1. Text(k) = y
      BY <1>9, TextsOfLiterals
    <3> HIDE DEF k, y
    <3>2. term_value_string(Lit(k)) = Text(k)
      BY TextsOfTerms
    <3> QED BY <2>1, <3>1, <3>2 DEF s, k
  <2>3. r = Good(Lit(l)) /\ r.val = Lit(l)
    BY <1>3, <1>9, Success DEF reconstruct_term
  <2>4. Judged(compare_leaves(Lit(t.lit), Lit(l)), t.lit = l)
    BY LeavesJudged
  <2>5. compare_terms(t, r.val) = compare_leaves(Lit(t.lit), Lit(l))
    BY <1>6, <1>9, <2>1, <2>3
  <2>6. (t.lit = l) <=> y = x
    <3> HIDE DEF y
    <3>1. [type |-> type, text |-> y] = [type |-> type, text |-> x] <=> y = x
      OBVIOUS
    <3> QED BY <2>1, <3>1
  <2> HIDE DEF l
  <2>7. (t.lit = l) <=> Carriable(t)
    BY <1>2, <1>5, <1>9, <2>2, <2>6
  <2> QED BY <2>4, <2>5, <2>7 DEF r, Judged
<1>10. CASE type = "Date"
  <2> DEFINE l == [type |-> "Date", day |-> x[1]]
             y == t.lit.day
  <2>1. t = Lit(t.lit) /\ t.lit = [type |-> "Date", day |-> y]
    BY <1>1, <1>10, LeafKinds DEF type
  <2>2. s = <<y>>
    <3> DEFINE k == [type |-> "Date", day |-> y]
    <3>1. Text(k) = <<y>>
      BY TextsOfLiterals
    <3> HIDE DEF k, y
    <3>2. term_value_string(Lit(k)) = Text(k)
      BY TextsOfTerms
    <3> QED BY <2>1, <3>1, <3>2 DEF s, k
  <2>3. r = Good(Lit(l)) /\ r.val = Lit(l) /\ Len(x) = 1
    <3>1. r = IF Len(x) = 1 /\ x[1] \in Days THEN Good(Lit(l)) ELSE Bad("date parse")
      BY <1>3, <1>10 DEF reconstruct_term
    <3>2. Bad("date parse").err # ""
      BY Failure
    <3> HIDE DEF l
    <3> QED BY <1>4, <3>1, <3>2, Success
  <2>4. Judged(compare_leaves(Lit(t.lit), Lit(l)), t.lit = l)
    BY LeavesJudged
  <2>5. compare_terms(t, r.val) = compare_leaves(Lit(t.lit), Lit(l))
    BY <1>6, <1>10, <2>1, <2>3
  <2>6. (t.lit = l) <=> y = x[1]
    <3> HIDE DEF y
    <3>1. [type |-> "Date", day |-> y] = [type |-> "Date", day |-> x[1]] <=> y = x[1]
      OBVIOUS
    <3> QED BY <2>1, <3>1
  <2>7. (y = x[1]) <=> (x = s)
    <3>1. x = <<x[1]>>
      BY <1>2, <2>3, OneElement
    <3> DEFINE a == x[1]
    <3>2. s = <<y>> /\ x = <<a>>
      BY <2>2, <3>1
    <3> HIDE DEF a, y
    <3>3. (<<a>> = <<y>>) <=> (a = y)
      OBVIOUS
    <3> QED BY <3>2, <3>3 DEF a
  <2> HIDE DEF l, y
  <2>8. (t.lit = l) <=> Carriable(t)
    BY <1>2, <1>5, <1>10, <2>6, <2>7
  <2> QED BY <2>4, <2>5, <2>8 DEF r, Judged
<1>11. CASE type = "Bool"
  <2>1. PICK b \in {"t", "f"} : t.lit = [type |-> "Bool", text |-> <<b>>]
    BY <1>1, <1>11, LeafKinds DEF type
  <2> DEFINE k == [type |-> "Bool", text |-> <<b>>]
             l == [type |-> "Bool", text |-> IF x = <<"1">> THEN <<"t">> ELSE <<"f">>]
  <2>2. t = Lit(k)
    BY <1>1, <1>11, <2>1, LeafKinds DEF type
  <2>3. Text(k) = IF <<b>> = <<"t">> THEN <<"1">> ELSE <<"0">>
    BY TextsOfLiterals
  <2>4. /\ b = "t" => Text(k) = <<"1">>
        /\ b = "f" => Text(k) = <<"0">>
    <3>1. <<"f">> # <<"t">>
      OBVIOUS
    <3> HIDE DEF k
    <3> QED BY <2>3, <3>1
  <2>5. s = Text(k)
    <3> HIDE DEF k
    <3> QED BY <2>2, TextsOfTerms DEF s
  <2>6. Spelt(s) /\ x = s
    BY <2>4, <2>5, FalseAndTrue DEF x
  <2>7. r = Good(Lit(l)) /\ r.val = Lit(l)
    BY <1>3, <1>11, Success DEF reconstruct_term
  <2>8. l = k
    <3>1. <<"0">> # <<"1">>
      OBVIOUS
    <3>2. CASE b = "t"
      BY <2>4, <2>5, <2>6, <3>2
    <3>3. CASE b = "f"
      BY <2>4, <2>5, <2>6, <3>1, <3>3
    <3> QED BY <3>2, <3>3
  <2> HIDE DEF k, l
  <2>9. Judged(compare_leaves(Lit(k), Lit(l)), k = l)
    BY LeavesJudged
  <2>10. compare_terms(t, r.val) = compare_leaves(Lit(k), Lit(l)) /\ Carriable(t)
    BY <1>5, <1>6, <1>11, <2>2, <2>6, <2>7
  <2> QED BY <2>8, <2>9, <2>10 DEF r, Judged
<1>12. CASE type \in {"Dec", "Dur"}
  <2> DEFINE l == r.val.lit
  <2>1. t = Lit(t.lit)
    BY <1>1, <1>12, LeafKinds DEF type
  <2>2. r = Good(r.val) /\ r.val = Lit(l)
    BY <1>1, <1>4, <1>12, ArrivingTerm DEF Rebuilt, r, type
  <2>3. Spelt(s) <=> r = Good(t)
    BY <1>12, NumbersArrive DEF r, s, type
  <2> HIDE DEF l
  <2>4. r = Good(t) <=> t.lit = l
    <3>1. r = Good(t) => t = Lit(l)
      BY <2>2, Success
    <3>2. Lit(t.lit).lit = t.lit /\ Lit(l).lit = l
      BY TypesOfTerms
    <3> QED BY <2>1, <2>2, <3>1, <3>2
  <2>5. Judged(compare_leaves(Lit(t.lit), Lit(l)), t.lit = l)
    BY LeavesJudged
  <2>6. compare_terms(t, r.val) = compare_leaves(Lit(t.lit), Lit(l))
    BY <1>6, <1>12, <2>1, <2>2
  <2>7. (t.lit = l) <=> Carriable(t)
    BY <1>5, <1>12, <2>3, <2>4
  <2> QED BY <2>5, <2>6, <2>7 DEF r, Judged
<1>13. CASE type = "List"
  <2> DEFINE u == IF x[1] \in Uppercase THEN Ent(x) ELSE Str(x)
             v == t.items[1]
             fits == Len(t.items) = 1 /\ TypeOf(v) = (IF s[1] \in Uppercase THEN "Ent" ELSE "Str")
  <2>1. /\ t = List(t.items) /\ IsSeq(t.items) /\ \A w \in ToSet(t.items) : LeafShape(w)
        /\ t.kind = "List"
    BY <1>1, <1>13, LeafKinds DEF TermShape, type
  <2>2. Carriable(t) <=> Spelt(s) /\ fits
    BY <2>1 DEF Carriable, s
  <2>3. r = Good(List(<<u>>)) /\ r.val = List(<<u>>)
    BY <1>3, <1>13, Success DEF reconstruct_term
  <2>4. u = Ent(x) \/ u = Lit([type |-> "Str", text |-> x])
    BY DEF Str
  <2>5. u.kind \notin {"Compound", "List"}
    <3> HIDE DEF u
    <3> QED BY <2>4, TypesOfTerms
  <2>6. Len(t.items) # 1 => Judged(compare_terms(t, r.val), FALSE) /\ ~Carriable(t)
    <3> HIDE DEF u
    <3> QED BY <2>1, <2>2, <2>3, <2>5, ListsCompared
  <2>7. ASSUME Len(t.items) = 1 PROVE Judged(compare_leaves(v, u), Carriable(t))
    <3>1. LeafShape(v) /\ t.items = <<v>>
      <4>1. v \in ToSet(t.items)
        <5> HIDE DEF u, fits
        <5> QED BY <2>1, <2>7, OneElement
      <4> QED BY <2>1, <2>7, <4>1, OneElement
    <3>2. v.kind # "List" => s = flat_text(v)
      <4> HIDE DEF v
      <4> QED BY <2>1, <3>1, TextsOfTerms DEF s
    <3>3. CASE x[1] \in Uppercase
      <4>1. u = Ent(x)
        BY <3>3
      <4>2. CASE TypeOf(v) = "Ent"
        <5>1. v = Ent(v.ent) /\ s = v.ent
          <6>1. v = Ent(v.ent)
            BY <3>1, <4>2, LeafKinds
          <6> DEFINE e == v.ent
          <6>2. Ent(e).kind = "Ent" /\ flat_text(Ent(e)) = e
            BY TypesOfTerms, TextsOfTerms
          <6>3. v.kind = "Ent" /\ flat_text(v) = e
            <7> HIDE DEF e, v
            <7> QED BY <6>1, <6>2 DEF e
          <6> QED BY <3>2, <6>1, <6>3
        <5>2. Judged(compare_leaves(Ent(v.ent), Ent(x)), v.ent = x)
          BY LeavesJudged
        <5>3. (v.ent = x) <=> Carriable(t)
          BY <1>2, <2>2, <2>7, <3>3, <4>2, <5>1
        <5> HIDE DEF u, v
        <5> QED BY <4>1, <5>1, <5>2, <5>3 DEF Judged
      <4>3. CASE TypeOf(v) # "Ent"
        <5>1. v.kind # "Ent" /\ u.kind = "Ent"
          BY <4>1, <4>3, TypesOfTerms
        <5>2. ~Carriable(t)
          BY <1>2, <2>2, <3>3, <4>3
        <5>3. Judged(compare_leaves(v, u), FALSE)
          <6> HIDE DEF u, v
          <6> QED BY <5>1, LeavesJudged
        <5> HIDE DEF u, v
        <5> QED BY <5>2, <5>3 DEF Judged
      <4> QED BY <4>2, <4>3
    <3>4. CASE x[1] \notin Uppercase
      <4> DEFINE l == [type |-> "Str", text |-> x]
                 y == v.lit.text
      <4>1. u = Lit(l)
        BY <3>4 DEF Str
      <4>2. CASE TypeOf(v) = "Str"
        <5>1. v = Lit(v.lit) /\ v.lit = [type |-> "Str", text |-> y]
          BY <3>1, <4>2, LeafKinds
        <5>2. s = y
          <6> DEFINE k == [type |-> "Str", text |-> y]
          <6>1. Text(k) = y
            BY TextsOfLiterals
          <6> HIDE DEF k, y
          <6>2. v = Lit(k)
            BY <5>1 DEF k
          <6> HIDE DEF v
          <6> QED BY <3>2, <6>1, <6>2, TypesOfTerms, TextsOfTerms
        <5>3. Judged(compare_leaves(Lit(v.lit), Lit(l)), v.lit = l)
          BY LeavesJudged
        <5>4. (v.lit = l) <=> y = x
          <6> HIDE DEF y
          <6>1. [type |-> "Str", text |-> y] = [type |-> "Str", text |-> x] <=> y = x
            OBVIOUS
          <6> QED BY <5>1, <6>1
        <5> HIDE DEF y, l
        <5>5. (v.lit = l) <=> Carriable(t)
          BY <1>2, <2>2, <2>7, <3>4, <4>2, <5>2, <5>4
        <5> HIDE DEF v, u
        <5> QED BY <4>1, <5>1, <5>3, <5>5 DEF Judged
      <4>3. CASE TypeOf(v) # "Str"
        <5>1. Judged(compare_leaves(v, u), FALSE)
          <6>1. CASE v.kind # "Lit"
            <7>1. u.kind = "Lit"
              BY <4>1, TypesOfTerms
            <7> HIDE DEF u, v
            <7> QED BY <6>1, <7>1, LeavesJudged
          <6>2. CASE v.kind = "Lit"
            <7>1. v = Lit(v.lit) /\ v.lit.type # "Str" /\ l.type = "Str"
              BY <3>1, <4>3, <6>2 DEF LeafShape, TypeOf
            <7>2. Judged(compare_leaves(Lit(v.lit), Lit(l)), v.lit = l)
              BY LeavesJudged
            <7>3. v.lit # l
              BY <7>1
            <7> HIDE DEF u, v, l
            <7> QED BY <4>1, <7>1, <7>2, <7>3 DEF Judged
          <6> QED BY <6>1, <6>2
        <5>2. ~Carriable(t)
          BY <1>2, <2>2, <3>4, <4>3
        <5> HIDE DEF u, v
        <5> QED BY <5>1, <5>2 DEF Judged
      <4> QED BY <4>2, <4>3
    <3> QED BY <3>3, <3>4
  <2>8. Len(t.items) = 1 => Judged(compare_terms(t, r.val), Carriable(t))
    <3> HIDE DEF u
    <3> QED BY <2>1, <2>3, <2>5, <2>7, ListsCompared
  <2> QED BY <2>6, <2>8 DEF r, Judged
<1> QED BY <1>1, <1>4, <1>7, <1>8, <1>9, <1>10, <1>11, <1>12, <1>13, TypeNames

-----------------------------------------------------------------------------
(* What the packed codec makes of the arguments of a node.                 *)

LEMMA ArgumentCodes ==
  ASSUME NEW t, TypeOf(t) \in ToSet(Types)
  PROVE  TypeCode(t) \in 1..10 /\ Types[TypeCode(t)] = TypeOf(t)
<1> DEFINE j == CHOOSE k \in DOMAIN Types : Types[k] = TypeOf(t)
<1>1. DOMAIN Types = 1..10
  BY DEF Types
<1>2. \E k \in DOMAIN Types : Types[k] = TypeOf(t)
  BY DEF ToSet
<1>3. j \in 1..10 /\ Types[j] = TypeOf(t)
  <2> HIDE DEF j
  <2> QED BY <1>1, <1>2 DEF j
<1> QED BY <1>3 DEF TypeCode

LEMMA Concatenated ==
  ASSUME NEW S, NEW s \in Seq(S), NEW t \in Seq(S)
  PROVE  /\ s \o t \in Seq(S) /\ Len(s \o t) = Len(s) + Len(t)
         /\ \A k \in 1..Len(s) : (s \o t)[k] = s[k]
         /\ \A k \in 1..Len(t) : (s \o t)[Len(s) + k] = t[k]
<1>1. s \o t \in Seq(S) /\ Len(s \o t) = Len(s) + Len(t)
  OBVIOUS
<1>2. \A k \in 1..Len(s) : (s \o t)[k] = s[k]
  OBVIOUS
<1>3. \A k \in 1..Len(t) : (s \o t)[Len(s) + k] = t[k]
  OBVIOUS
<1> QED BY <1>1, <1>2, <1>3

LEMMA TwoElements ==
  ASSUME NEW S, NEW s \in Seq(S), Len(s) = 2
  PROVE  s = <<s[1], s[2]>>
<1>1. DOMAIN s = 1..2
  OBVIOUS
<1> QED BY <1>1

LEMMA ThreeElements ==
  ASSUME NEW S, NEW s \in Seq(S), Len(s) = 3
  PROVE  s = <<s[1], s[2], s[3]>>
<1>1. DOMAIN s = 1..3
  OBVIOUS
<1> QED BY <1>1

LEMMA TwoAndOne ==
  ASSUME NEW S, NEW s \in Seq(S), NEW t \in Seq(S), Len(s) = 2, Len(t) = 1
  PROVE  s \o t \in Seq(S) /\ Len(s \o t) = 3 /\ (s \o t)[1] = s[1] /\ (s \o t)[2] = s[2] /\ (s \o t)[3] = t[1]
<1> DEFINE l == Len(s)
           m == Len(t)
           w == s \o t
<1>1. /\ w \in Seq(S) /\ Len(w) = l + m
      /\ \A k \in 1..l : w[k] = s[k]
      /\ \A k \in 1..m : w[l + k] = t[k]
  BY ONLY Concatenated, s \in Seq(S), t \in Seq(S)
<1>2. l = 2 /\ m = 1
  OBVIOUS
<1> HIDE DEF l, m, w
<1>3. 1 \in 1..l /\ 2 \in 1..l /\ 1 \in 1..m /\ l + 1 = 3 /\ l + m = 3
  BY <1>2
<1>4. w[1] = s[1] /\ w[2] = s[2] /\ w[3] = t[1]
  <2>1. w[1] = s[1] /\ w[2] = s[2] /\ w[l + 1] = t[1]
    BY <1>1, <1>3, Zenon
  <2> QED BY <2>1, <1>3
<1>5. w \in Seq(S) /\ Len(w) = 3
  BY <1>1, <1>3
<1> QED BY <1>4, <1>5 DEF w

LEMMA TwoJoined ==
  ASSUME NEW a, NEW b
  PROVE  <<a>> \o <<b>> = <<a, b>>
<1> DEFINE S == {a, b}
           p == <<a>>
           q == <<b>>
<1>1. p \in Seq(S) /\ q \in Seq(S) /\ Len(p) = 1 /\ Len(q) = 1 /\ p[1] = a /\ q[1] = b
  OBVIOUS
<1> HIDE DEF S, p, q
<1> DEFINE pq == p \o q
<1>2. pq \in Seq(S) /\ Len(pq) = 1 + 1 /\ pq[1] = p[1] /\ pq[1 + 1] = q[1]
  <2>1. 1 \in 1..1
    OBVIOUS
  <2> QED BY <1>1, <2>1, Concatenated
<1> HIDE DEF pq
<1>3. pq = <<pq[1], pq[2]>>
  BY <1>2, TwoElements
<1> QED BY <1>1, <1>2, <1>3 DEF pq, p, q

LEMMA ThirdJoined ==
  ASSUME NEW a, NEW b, NEW c
  PROVE  <<a, b>> \o <<c>> = <<a, b, c>>
<1> DEFINE S == {a, b, c}
           p == <<a, b>>
           q == <<c>>
<1>1. p \in Seq(S) /\ q \in Seq(S) /\ Len(p) = 2 /\ Len(q) = 1 /\ p[1] = a /\ p[2] = b /\ q[1] = c
  OBVIOUS
<1> HIDE DEF S, p, q
<1> DEFINE all == p \o q
<1>2. all \in Seq(S) /\ Len(all) = 3 /\ all[1] = p[1] /\ all[2] = p[2] /\ all[3] = q[1]
  BY <1>1, TwoAndOne
<1> HIDE DEF all
<1>3. all = <<all[1], all[2], all[3]>>
  BY <1>2, ThreeElements
<1> QED BY <1>1, <1>2, <1>3 DEF all, p, q

\* p, q and r hold the first count of three elements, one each.
Holding(xs, count, p, q, r) ==
  /\ p = IF 1 <= count THEN <<xs[1]>> ELSE <<>>
  /\ q = IF 2 <= count THEN <<xs[2]>> ELSE <<>>
  /\ r = IF 3 <= count THEN <<xs[3]>> ELSE <<>>
FirstFew(xs, count) == [i \in 1..count |-> xs[i]]

LEMMA UpToThree ==
  ASSUME NEW xs, NEW count \in 0..3, NEW p, NEW q, NEW r, Holding(xs, count, p, q, r)
  PROVE  (p \o q) \o r = FirstFew(xs, count)
<1>1. CASE count = 0
  <2>1. p = <<>> /\ q = <<>> /\ r = <<>>
    BY <1>1 DEF Holding
  <2>2. (p \o q) \o r = <<>>
    BY ONLY <2>1
  <2>3. FirstFew(xs, count) = <<>>
    BY ONLY <1>1 DEF FirstFew
  <2> QED BY ONLY <2>2, <2>3
<1>2. CASE count = 1
  <2>1. p = <<xs[1]>> /\ q = <<>> /\ r = <<>>
    BY <1>2 DEF Holding
  <2>2. (p \o q) \o r = <<xs[1]>>
    BY ONLY <2>1
  <2>3. FirstFew(xs, count) = <<xs[1]>>
    BY ONLY <1>2 DEF FirstFew
  <2> QED BY ONLY <2>2, <2>3
<1>3. CASE count = 2
  <2>1. p = <<xs[1]>> /\ q = <<xs[2]>> /\ r = <<>>
    BY <1>3 DEF Holding
  <2>2. p \o q = <<xs[1], xs[2]>>
    BY ONLY <2>1, TwoJoined
  <2>3. <<xs[1], xs[2]>> \o <<>> = <<xs[1], xs[2]>>
    OBVIOUS
  <2>4. (p \o q) \o r = <<xs[1], xs[2]>>
    BY ONLY <2>1, <2>2, <2>3
  <2>5. FirstFew(xs, count) = <<xs[1], xs[2]>>
    BY ONLY <1>3 DEF FirstFew
  <2> QED BY ONLY <2>4, <2>5
<1>4. CASE count = 3
  <2>1. p = <<xs[1]>> /\ q = <<xs[2]>> /\ r = <<xs[3]>>
    BY <1>4 DEF Holding
  <2>2. p \o q = <<xs[1], xs[2]>>
    BY ONLY <2>1, TwoJoined
  <2>3. <<xs[1], xs[2]>> \o <<xs[3]>> = <<xs[1], xs[2], xs[3]>>
    BY ONLY ThirdJoined
  <2>4. (p \o q) \o r = <<xs[1], xs[2], xs[3]>>
    BY ONLY <2>1, <2>2, <2>3
  <2>5. FirstFew(xs, count) = <<xs[1], xs[2], xs[3]>>
    BY ONLY <1>4 DEF FirstFew
  <2> QED BY ONLY <2>4, <2>5
<1> QED BY <1>1, <1>2, <1>3, <1>4

ArgsShape(n) == IsSeq(n.pred.args) /\ \A t \in ToSet(n.pred.args) : TypeOf(t) \in ToSet(Types)

\* The arguments that a vector carries: the first three, each as it arrives.
LEMMA ArgumentsArrive ==
  ASSUME NEW n, ArgsShape(n), NEW z, z.packed = packed_encode_node(n).packed, z.args = packed_encode_node(n).args
  PROVE  LET args == n.pred.args
             count == IF Len(args) < MaxArgs THEN Len(args) ELSE MaxArgs
         IN DecodedArgs(z) = [i \in 1..count |-> Arriving(args[i])]
<1> DEFINE args == n.pred.args
           count == IF Len(args) < MaxArgs THEN Len(args) ELSE MaxArgs
           types == [i \in 1..MaxArgs |-> IF i <= count THEN TypeCode(args[i]) ELSE 0]
           texts == [i \in 1..MaxArgs |-> encode_string(IF i <= count THEN term_value_string(args[i]) ELSE <<>>)]
           u == unpack_args(z.packed)
           text(s) == IF s = <<>> THEN Unknown ELSE s
           term(i) == reconstruct_term(text(decode_string(z.args[i])), Types[u.types[i]])
           arg(i) == IF i > u.count \/ u.types[i] = 0 THEN <<>> ELSE <<term(i)>>
<1>1. /\ IsSeq(args) /\ Len(args) \in Nat /\ DOMAIN args = 1..Len(args)
      /\ \A i \in DOMAIN args : TypeOf(args[i]) \in ToSet(Types)
  BY Elements DEF ArgsShape
<1>2. count \in 0..3 /\ count <= Len(args) /\ MaxArgs = 3
  <2> HIDE DEF args
  <2> QED BY <1>1 DEF MaxArgs
<1>3. z.packed = pack_args(count, types) /\ z.args = texts
  BY DEF packed_encode_node, PackedZeros
<1> HIDE DEF count
<1>4. types \in [1..3 -> 0..10]
  <2> SUFFICES ASSUME NEW i \in 1..3 PROVE (IF i <= count THEN TypeCode(args[i]) ELSE 0) \in 0..10
    BY <1>2
  <2>1. i <= count => TypeCode(args[i]) \in 1..10
    <3> HIDE DEF args
    <3> QED BY <1>1, <1>2, ArgumentCodes
  <2> QED BY <2>1
<1>5. u = [count |-> count, types |-> types]
  <2> HIDE DEF types
  <2> QED BY <1>2, <1>3, <1>4, ArgumentsRecovered
<1>6. ASSUME NEW i \in 1..3, i <= count
      PROVE  arg(i) = <<Arriving(args[i])>>
  <2>1. u.count = count /\ u.types[i] = TypeCode(args[i])
    BY <1>2, <1>5, <1>6
  <2>2. TypeCode(args[i]) \in 1..10 /\ Types[TypeCode(args[i])] = TypeOf(args[i])
    <3> HIDE DEF args
    <3> QED BY <1>1, <1>2, <1>6, ArgumentCodes
  <2>3. z.args[i] = encode_string(term_value_string(args[i]))
    BY <1>2, <1>3, <1>6
  <2>4. term(i) = Arriving(args[i])
    <3> HIDE DEF u
    <3> QED BY <2>1, <2>2, <2>3, Zenon DEF Arriving
  <2> HIDE DEF u, term
  <2>5. ~(i > u.count) /\ u.types[i] # 0
    BY <1>2, <1>6, <2>1, <2>2
  <2> QED BY <2>4, <2>5
<1>7. ASSUME NEW i \in 1..3, ~(i <= count)
      PROVE  arg(i) = <<>>
  <2>1. u.count = count
    BY <1>5
  <2> HIDE DEF u, term
  <2>2. i > u.count
    BY <1>2, <1>7, <2>1
  <2> QED BY <2>2
<1>8. DecodedArgs(z) = arg(1) \o arg(2) \o arg(3)
  BY Zenon DEF DecodedArgs
<1> HIDE DEF arg, types, texts, args, u
<1> DEFINE xs == [i \in 1..3 |-> Arriving(args[i])]
<1>9. Holding(xs, count, arg(1), arg(2), arg(3))
  <2> HIDE DEF xs
  <2>1. \A i \in 1..3 : i <= count => xs[i] = Arriving(args[i])
    BY DEF xs
  <2>2. \A i \in 1..3 : arg(i) = IF i <= count THEN <<xs[i]>> ELSE <<>>
    BY <1>6, <1>7, <2>1
  <2> QED BY <2>2 DEF Holding
<1>10. \A i \in 1..count : xs[i] = Arriving(args[i])
  BY <1>2
<1> HIDE DEF xs
<1>11. (arg(1) \o arg(2)) \o arg(3) = FirstFew(xs, count)
  BY <1>2, <1>9, UpToThree
<1>12. DecodedArgs(z) = [i \in 1..count |-> Arriving(args[i])]
  BY <1>8, <1>10, <1>11 DEF FirstFew
<1> QED BY <1>12 DEF args, count

-----------------------------------------------------------------------------
(* A node on its way through the packed codec.                             *)

Kept(n) == IF Len(n.pred.args) < MaxArgs THEN Len(n.pred.args) ELSE MaxArgs
Arrives(n) == lookup_id(head_to_index(n.pred.head)) # {} /\ \A i \in 1..Kept(n) : Arriving(n.pred.args[i]).err = ""
Copy(n, auth) ==
  packed_node(Morphemes[head_to_index(n.pred.head) + 1].name,
              [i \in 1..Kept(n) |-> Arriving(n.pred.args[i]).val], auth)

\* z is n as it was encoded, but for the authority.
Bears(z, n) ==
  /\ z.dim = PackedDim /\ z.scale = 1 /\ z.auth \in Nat
  /\ z.head = head_to_index(n.pred.head)
  /\ z.packed = packed_encode_node(n).packed /\ z.args = packed_encode_node(n).args

LEMMA KeptArgs ==
  ASSUME NEW n, IsSeq(n.pred.args)
  PROVE  /\ Kept(n) \in 0..3 /\ Kept(n) <= Len(n.pred.args) /\ MaxArgs = 3
         /\ Kept(n) = Len(n.pred.args) <=> Len(n.pred.args) <= MaxArgs
         /\ DOMAIN n.pred.args = 1..Len(n.pred.args) /\ Len(n.pred.args) \in Nat
         /\ \A i \in 1..Kept(n) : i \in DOMAIN n.pred.args /\ n.pred.args[i] \in ToSet(n.pred.args)
<1> DEFINE args == n.pred.args
           l == Len(args)
<1>1. l \in Nat /\ DOMAIN args = 1..l /\ \A i \in DOMAIN args : args[i] \in ToSet(args)
  BY Elements
<1>2. Kept(n) = IF l < 3 THEN l ELSE 3
  BY DEF Kept, MaxArgs
<1> HIDE DEF l, args
<1>3. Kept(n) \in 0..3 /\ Kept(n) <= l /\ (Kept(n) = l <=> l <= 3) /\ \A i \in 1..Kept(n) : i \in 1..l
  BY <1>1, <1>2
<1> QED BY <1>1, <1>3 DEF l, args, MaxArgs

LEMMA Encoded ==
  ASSUME NEW n, n.auth \in Nat
  PROVE  Bears(packed_encode_node(n), n)
BY DEF Bears, packed_encode_node, PackedZeros

LEMMA Disturbed ==
  ASSUME NEW n, NEW z, Bears(z, n)
  PROVE  Bears(disturb_packed(z), n)
<1>1. z.scale # 0 /\ z.auth \in Nat
  BY DEF Bears
<1>2. disturb_packed(z) = [z EXCEPT !.auth = IF z.auth < Certain THEN z.auth + 1 ELSE Certain]
  BY <1>1 DEF disturb_packed
<1>3. (IF z.auth < Certain THEN z.auth + 1 ELSE Certain) \in Nat
  BY <1>1, CertainIsNat
<1> DEFINE a == IF z.auth < Certain THEN z.auth + 1 ELSE Certain
           y == disturb_packed(z)
<1> HIDE DEF a
<1>4. y = [z EXCEPT !.auth = a] /\ a \in Nat
  BY <1>2, <1>3 DEF a
<1>5. y.auth \in {a, z.auth} /\ y.dim = z.dim /\ y.scale = z.scale /\ y.head = z.head
      /\ y.packed = z.packed /\ y.args = z.args
  BY <1>4
<1> QED BY <1>1, <1>4, <1>5 DEF Bears

LEMMA PackedArrival ==
  ASSUME NEW n, ArgsShape(n), NEW z, Bears(z, n)
  PROVE  /\ Arrives(n) => packed_decode(z) = Good(Copy(n, z.auth))
         /\ ~Arrives(n) => packed_decode(z).err # ""
<1> DEFINE args == n.pred.args
           dec == DecodedArgs(z)
           failed == {i \in DOMAIN dec : dec[i].err # ""}
<1>1. dec = [i \in 1..Kept(n) |-> Arriving(args[i])]
  BY ArgumentsArrive DEF Bears, Kept
<1>2. Kept(n) \in Nat
  BY KeptArgs DEF ArgsShape
<1>3. failed \subseteq Nat /\ (failed = {} <=> \A i \in 1..Kept(n) : Arriving(args[i]).err = "")
  <2>1. DOMAIN dec = 1..Kept(n) /\ \A i \in 1..Kept(n) : dec[i] = Arriving(args[i])
    <3> HIDE DEF dec
    <3> QED BY <1>1
  <2>2. 1..Kept(n) \subseteq Nat
    BY <1>2
  <2> HIDE DEF dec, args
  <2>3. failed \subseteq Nat
    BY <2>1, <2>2
  <2>4. failed = {} <=> \A i \in 1..Kept(n) : Arriving(args[i]).err = ""
    BY <2>1
  <2> QED BY <2>3, <2>4
<1>4. [i \in DOMAIN dec |-> dec[i].val] = [i \in 1..Kept(n) |-> Arriving(args[i]).val]
  <2> HIDE DEF dec
  <2> QED BY <1>1
<1>5. z.head = head_to_index(n.pred.head) /\ z.dim = PackedDim
  BY DEF Bears
<1>6. /\ lookup_id(z.head) = {} => packed_decode(z).err # ""
      /\ lookup_id(z.head) # {} /\ failed # {} /\ failed \subseteq Nat => packed_decode(z).err # ""
      /\ lookup_id(z.head) # {} /\ failed = {} =>
           packed_decode(z) = Good(packed_node(Morphemes[z.head + 1].name, [i \in DOMAIN dec |-> dec[i].val], z.auth))
  BY <1>5, PackedResult, Zenon
<1>7. Copy(n, z.auth) = packed_node(Morphemes[z.head + 1].name, [i \in DOMAIN dec |-> dec[i].val], z.auth)
  BY <1>4, <1>5, Zenon DEF Copy
<1> HIDE DEF dec, failed
<1> QED BY <1>3, <1>5, <1>6, <1>7 DEF Arrives

LEMMA MorphemeNames ==
  ASSUME NEW j, j + 1 \in DOMAIN Morphemes, j \in Int
  PROVE  resolve(Morphemes[j + 1].name) = {j}
<1>1. DOMAIN Morphemes \subseteq Int
  BY BatchAssumption, Elements
<1>2. \A k \in DOMAIN Morphemes : Morphemes[k].name = Morphemes[j + 1].name => k = j + 1
  BY BatchAssumption
<1>3. {k \in DOMAIN Morphemes : Morphemes[k].name = Morphemes[j + 1].name} = {j + 1}
  BY <1>2
<1>4. resolve(Morphemes[j + 1].name) = {k - 1 : k \in {j + 1}}
  BY <1>3 DEF resolve
<1> QED BY <1>4

LEMMA LookedUp ==
  ASSUME NEW id
  PROVE  lookup_id(id) # {} <=> id + 1 \in DOMAIN Morphemes
BY DEF lookup_id

\* The head of what arrives is the head that was sent.
LEMMA KnownHead ==
  ASSUME NEW h, "id" \in DOMAIN h => h.id \in Nat, lookup_id(head_to_index(h)) # {}
  PROVE  /\ head_to_index(h) \in Int /\ head_to_index(h) + 1 \in DOMAIN Morphemes
         /\ head_to_index([name |-> Morphemes[head_to_index(h) + 1].name]) = head_to_index(h)
<1> DEFINE k == head_to_index(h)
           g == [name |-> Morphemes[k + 1].name]
<1>1. k + 1 \in DOMAIN Morphemes
  BY LookedUp
<1>2. k \in Int
  <2>1. CASE "id" \in DOMAIN h
    BY <2>1 DEF head_to_index
  <2>2. CASE "id" \notin DOMAIN h /\ resolve(h.name) = {}
    BY <2>2 DEF head_to_index
  <2>3. CASE "id" \notin DOMAIN h /\ resolve(h.name) # {}
    <3>1. k \in resolve(h.name)
      BY <2>3 DEF head_to_index
    <3>2. DOMAIN Morphemes \subseteq Int
      BY BatchAssumption, Elements
    <3> QED BY <3>1, <3>2 DEF resolve
  <2> QED BY <2>1, <2>2, <2>3
<1> HIDE DEF k
<1>3. resolve(g.name) = {k}
  BY <1>1, <1>2, MorphemeNames
<1>4. "id" \notin DOMAIN g
  OBVIOUS
<1> HIDE DEF g
<1>5. head_to_index(g) = k
  BY <1>3, <1>4 DEF head_to_index
<1> QED BY <1>1, <1>2, <1>5 DEF g, k

LEMMA CopyIs ==
  ASSUME NEW n, NEW a
  PROVE  /\ Copy(n, a).pred = Pred([name |-> Morphemes[head_to_index(n.pred.head) + 1].name],
                                   [i \in 1..Kept(n) |-> Arriving(n.pred.args[i]).val], <<>>)
         /\ Copy(n, a).auth = (IF a < Certain THEN a ELSE Certain)
BY DEF Copy, packed_node

\* A further hop takes a copy for the same copy.
LEMMA Relayed ==
  ASSUME NEW nodes \in Batches, NEW n \in ToSet(nodes), Arrives(n), NEW a \in Nat
  PROVE  /\ ArgsShape(Copy(n, a)) /\ Copy(n, a).auth \in Nat /\ Arrives(Copy(n, a))
         /\ \A b : Copy(Copy(n, a), b) = Copy(n, b)
<1> DEFINE v == Copy(n, a)
           args == n.pred.args
           vargs == v.pred.args
           g == [name |-> Morphemes[head_to_index(n.pred.head) + 1].name]
           k == Kept(n)
<1>1. v.pred.head = g /\ vargs = [i \in 1..k |-> Arriving(args[i]).val] /\ v.auth = IF a < Certain THEN a ELSE Certain
  <2>1. \A h, x, y : Pred(h, x, y).head = h /\ Pred(h, x, y).args = x
    BY DEF Pred
  <2> HIDE DEF v
  <2> QED BY <2>1, CopyIs DEF v
<1>2. v.auth \in Nat
  BY <1>1, CertainIsNat
<1> HIDE DEF v
<1>3. NodeShape(n) /\ IsSeq(args) /\ \A t \in ToSet(args) : TermShape(t) /\ TypeOf(t) \in ToSet(Types)
  BY BatchAssumption DEF NodeShape, TermShape
<1>4. k \in 0..3 /\ MaxArgs = 3 /\ \A i \in 1..k : args[i] \in ToSet(args)
  BY <1>3, KeptArgs
<1>5. ASSUME NEW i \in 1..k
      PROVE  /\ Arriving(args[i]).err = ""
             /\ TypeOf(Arriving(args[i]).val) = TypeOf(args[i]) /\ TypeOf(args[i]) \in ToSet(Types)
             /\ Arriving(Arriving(args[i]).val) = Arriving(args[i])
  <2>1. Arriving(args[i]).err = "" /\ args[i] \in ToSet(args)
    BY <1>4 DEF Arrives
  <2>2. TermShape(args[i]) /\ TypeOf(args[i]) \in ToSet(Types)
    BY <1>3, <2>1
  <2>3. Rebuilt(Arriving(args[i]), Received(term_value_string(args[i])), TypeOf(args[i]))
    BY <2>1, <2>2, ArrivingTerm
  <2>4. TypeOf(Arriving(args[i]).val) = TypeOf(args[i])
    BY <2>3 DEF Rebuilt
  <2>5. Arriving(Arriving(args[i]).val) = Arriving(args[i])
    BY <2>1, ArrivingAgain
  <2> QED BY <2>1, <2>2, <2>4, <2>5
<1> HIDE DEF args, vargs
<1>6. /\ k \in Nat /\ DOMAIN vargs = 1..k /\ \A i \in 1..k : vargs[i] = Arriving(args[i]).val
  <2> HIDE DEF k
  <2> QED BY <1>1, <1>4
<1>7. IsSeq(vargs) /\ Len(vargs) = k
  <2> HIDE DEF k
  <2>1. \A i \in 1..k : Arriving(args[i]).val \in ToSet(vargs)
    BY <1>6 DEF ToSet
  <2>2. vargs \in Seq(ToSet(vargs)) /\ Len(vargs) = k
    <3> DEFINE S == ToSet(vargs)
               f == [i \in 1..k |-> Arriving(args[i]).val]
    <3>1. \A i \in 1..k : f[i] \in S
      BY <2>1
    <3> HIDE DEF S
    <3>2. f \in Seq(S) /\ Len(f) = k
      BY <1>6, <3>1
    <3> QED BY <1>1, <3>2 DEF S
  <2> QED BY <2>2 DEF IsSeq
<1>8. Kept(v) = k
  <2>1. Kept(v) = IF Len(vargs) < MaxArgs THEN Len(vargs) ELSE MaxArgs
    BY DEF Kept, vargs
  <2> HIDE DEF k
  <2> QED BY <1>4, <1>7, <2>1
<1>9. ArgsShape(v)
  <2>1. \A t \in ToSet(vargs) : TypeOf(t) \in ToSet(Types)
    <3> SUFFICES ASSUME NEW t \in ToSet(vargs) PROVE TypeOf(t) \in ToSet(Types)
      OBVIOUS
    <3>1. PICK i \in 1..k : t = vargs[i]
      BY <1>6, <1>7, Elements
    <3>2. t = Arriving(args[i]).val
      BY <1>6, <3>1
    <3> HIDE DEF k
    <3> QED BY <1>5, <3>2
  <2> QED BY <1>7, <2>1 DEF ArgsShape, vargs
<1>10. head_to_index(v.pred.head) = head_to_index(n.pred.head) /\ lookup_id(head_to_index(n.pred.head)) # {}
  <2>1. lookup_id(head_to_index(n.pred.head)) # {}
    BY DEF Arrives
  <2>2. "id" \in DOMAIN n.pred.head => n.pred.head.id \in Nat
    BY <1>3 DEF NodeShape
  <2>3. head_to_index(g) = head_to_index(n.pred.head)
    BY <2>1, <2>2, KnownHead
  <2> QED BY <1>1, <2>1, <2>3
<1>11. \A i \in 1..k : Arriving(v.pred.args[i]) = Arriving(args[i])
  <2> SUFFICES ASSUME NEW i \in 1..k PROVE Arriving(vargs[i]) = Arriving(args[i])
    BY DEF vargs
  <2>1. vargs[i] = Arriving(args[i]).val
    BY <1>6
  <2> QED BY <1>5, <2>1
<1>12. Arrives(v)
  <2>1. \A i \in 1..k : Arriving(v.pred.args[i]).err = ""
    BY <1>5, <1>11
  <2> QED BY <1>8, <1>10, <2>1 DEF Arrives
<1>13. \A b : Copy(v, b) = Copy(n, b)
  <2>1. [i \in 1..Kept(v) |-> Arriving(v.pred.args[i]).val] = [i \in 1..k |-> Arriving(args[i]).val]
    <3> HIDE DEF k
    <3> QED BY <1>8, <1>11
  <2> HIDE DEF k
  <2> QED BY <1>10, <2>1, Zenon DEF Copy, args, k
<1> QED BY <1>2, <1>9, <1>12, <1>13 DEF v

-----------------------------------------------------------------------------
(* The packed codec through any number of hops.                            *)

\* What has come back is a copy of the first node, or an error if that does not arrive;
\* what is under way bears the first node or a copy of it.
PackedInv ==
  /\ hops > 0 /\ codec # reader => error = "DimensionMismatch"
  /\ Packed /\ sent # <<>> =>
       /\ hops = 0 => held = sent
       /\ hops > 0 /\ Arrives(sent[1]) => error = "" /\ \E a \in Nat : held = <<Copy(sent[1], a)>>
       /\ hops > 0 /\ ~Arrives(sent[1]) => error # "" /\ held = <<>>
       /\ wire # <<>> => IF hops = 0 THEN Bears(wire[1], sent[1])
                         ELSE \E a \in Nat : Bears(wire[1], Copy(sent[1], a))

LEMMA HopsCounted ==
  ASSUME ChannelInv
  PROVE  hops \in Nat /\ (hops # 0 => hops > 0)
<1>1. hops \in 0..MaxHops
  BY DEF ChannelInv
<1> QED BY <1>1, Bounds

LEMMA FirstSent ==
  ASSUME ChannelInv, sent # <<>>
  PROVE  sent \in Batches /\ IsSeq(sent) /\ sent[1] \in ToSet(sent) /\ NodeShape(sent[1]) /\ ArgsShape(sent[1])
<1>1. sent \in Batches /\ IsSeq(sent) /\ \A n \in ToSet(sent) : NodeShape(n)
  BY BatchAssumption DEF ChannelInv
<1>2. sent[1] \in ToSet(sent)
  <2>1. Len(sent) # 0 /\ Len(sent) \in Nat /\ DOMAIN sent = 1..Len(sent)
    BY <1>1, Empty, Elements
  <2>2. 1 \in DOMAIN sent
    BY <2>1
  <2> QED BY <1>1, <2>2, Elements
<1>3. \A n : NodeShape(n) => ArgsShape(n)
  BY DEF NodeShape, ArgsShape, TermShape
<1> QED BY <1>1, <1>2, <1>3

LEMMA PackedInit == Init => PackedInv
<1> SUFFICES ASSUME Init PROVE PackedInv
  OBVIOUS
<1>1. hops = 0 /\ held = sent /\ wire = <<>>
  BY DEF Init
<1> QED BY <1>1 DEF PackedInv

LEMMA PackedEncode == ChannelInv /\ PackedInv /\ Encode => PackedInv'
<1> SUFFICES ASSUME ChannelInv, PackedInv, Encode PROVE PackedInv'
  OBVIOUS
<1> DEFINE z == IF Len(held) = 1 THEN encode_node(codec, held[1]) ELSE encode_sequence(codec, held)
           n == sent[1]
<1>1. wire' = <<z>> /\ error = "" /\ UNCHANGED <<codec, reader, sent, held, hops, error>>
  BY DEF Encode
<1>2. ASSUME Packed, sent # <<>>, held # <<>>
      PROVE  z = packed_encode_node(held[1])
  <2>1. /\ encode_node(codec, held[1]) = packed_encode_node(held[1])
        /\ encode_sequence(codec, held) = packed_encode_node(held[1])
    BY <1>2 DEF Packed, encode_node, encode_sequence, packed_encode_sequence
  <2> QED BY <2>1
<1> HIDE DEF z
<1>3. wire'[1] = z /\ Packed' = Packed
  BY <1>1 DEF Packed
<1>4. ASSUME Packed, sent # <<>>
      PROVE  IF hops = 0 THEN Bears(z, n) ELSE \E a \in Nat : Bears(z, Copy(n, a))
  <2>1. sent \in Batches /\ n \in ToSet(sent) /\ NodeShape(n)
    BY <1>4, FirstSent
  <2>2. CASE hops = 0
    <3>1. held = sent
      BY <1>4, <2>2 DEF PackedInv
    <3>2. z = packed_encode_node(n)
      BY <1>2, <1>4, <3>1
    <3>3. n.auth \in Nat
      BY <2>1, CertainIsNat DEF NodeShape
    <3> QED BY <2>2, <3>2, <3>3, Encoded
  <2>3. CASE hops # 0
    <3>1. hops > 0
      BY <2>3, HopsCounted
    <3>2. Arrives(n) /\ \E a \in Nat : held = <<Copy(n, a)>>
      BY <1>1, <1>4, <3>1 DEF PackedInv
    <3>3. PICK a \in Nat : held = <<Copy(n, a)>>
      BY <3>2
    <3>4. z = packed_encode_node(Copy(n, a))
      <4>1. held # <<>> /\ held[1] = Copy(n, a)
        BY <3>3
      <4> QED BY <1>2, <1>4, <4>1
    <3>5. Copy(n, a).auth \in Nat
      BY <2>1, <3>2, Relayed
    <3> QED BY <2>3, <3>4, <3>5, Encoded
  <2> QED BY <2>2, <2>3
<1> QED BY <1>1, <1>3, <1>4 DEF PackedInv

LEMMA PackedDisturb == ChannelInv /\ PackedInv /\ Disturb => PackedInv'
<1> SUFFICES ASSUME ChannelInv, PackedInv, Disturb PROVE PackedInv'
  OBVIOUS
<1> DEFINE y == disturb_packed(wire[1])
<1>1. wire # <<>> /\ wire' = <<y>> /\ UNCHANGED <<codec, reader, sent, held, hops, error>>
  BY DEF Disturb
<1>2. \A n : Bears(wire[1], n) => Bears(y, n)
  BY Disturbed
<1> HIDE DEF y
<1>3. wire'[1] = y /\ Packed' = Packed
  BY <1>1 DEF Packed
<1> QED BY <1>1, <1>2, <1>3 DEF PackedInv

LEMMA PackedDecode == ChannelInv /\ PackedInv /\ Decode => PackedInv'
<1> SUFFICES ASSUME ChannelInv, PackedInv, Decode PROVE PackedInv'
  OBVIOUS
<1> DEFINE r == decode(reader, wire[1])
           n == sent[1]
<1>1. /\ wire # <<>> /\ wire' = <<>> /\ hops' = hops + 1 /\ error' = r.err
      /\ held' = (IF r.err = "" THEN <<r.val>> ELSE <<>>) /\ UNCHANGED <<codec, reader, sent>>
  BY DEF Decode
<1>2. hops \in Nat /\ hops' > 0
  <2>1. hops \in Nat /\ hops' = hops + 1
    BY <1>1, HopsCounted
  <2> QED BY <2>1
<1>3. codec # reader => r.err = "DimensionMismatch"
  <2>1. codec # reader => r = Bad("DimensionMismatch")
    BY <1>1, DecodedShape, DecodedPlaces DEF ChannelInv
  <2> HIDE DEF r
  <2> QED BY <2>1 DEF Bad
<1>4. ASSUME Packed, sent # <<>>
      PROVE  /\ Arrives(n) => r.err = "" /\ \E a \in Nat : r.val = Copy(n, a)
             /\ ~Arrives(n) => r.err # ""
  <2>1. sent \in Batches /\ n \in ToSet(sent) /\ ArgsShape(n)
    BY <1>4, FirstSent
  <2>2. r = packed_decode(wire[1])
    BY <1>4 DEF Packed, decode
  <2>3. \A w : Bears(wire[1], w) => wire[1].auth \in Nat
    BY DEF Bears
  <2> HIDE DEF r
  <2>4. CASE hops = 0
    <3>1. Bears(wire[1], n)
      BY <1>1, <1>4, <2>4 DEF PackedInv
    <3>2. (Arrives(n) => r = Good(Copy(n, wire[1].auth))) /\ (~Arrives(n) => r.err # "")
      BY <2>1, <2>2, <3>1, PackedArrival
    <3> QED BY <2>3, <3>1, <3>2, Success
  <2>5. CASE hops # 0
    <3>1. hops > 0
      BY <2>5, HopsCounted
    <3>0. error = ""
      BY <1>1 DEF ChannelInv
    <3>2. Arrives(n) /\ \E a \in Nat : Bears(wire[1], Copy(n, a))
      BY <1>1, <1>4, <2>5, <3>0, <3>1 DEF PackedInv
    <3>3. PICK a \in Nat : Bears(wire[1], Copy(n, a))
      BY <3>2
    <3>4. ArgsShape(Copy(n, a)) /\ Arrives(Copy(n, a)) /\ Copy(Copy(n, a), wire[1].auth) = Copy(n, wire[1].auth)
      BY <2>1, <3>2, Relayed
    <3>5. r = Good(Copy(n, wire[1].auth))
      BY <2>2, <3>3, <3>4, PackedArrival
    <3> QED BY <2>3, <3>2, <3>3, <3>5, Success
  <2> QED BY <2>4, <2>5
<1> HIDE DEF r
<1>5. Packed' = Packed
  BY <1>1 DEF Packed
<1>6. (hops > 0 /\ codec # reader => error = "DimensionMismatch")'
  BY <1>1, <1>3
<1>7. ASSUME Packed, sent # <<>>
      PROVE  /\ Arrives(n) => error' = "" /\ \E a \in Nat : held' = <<Copy(n, a)>>
             /\ ~Arrives(n) => error' # "" /\ held' = <<>>
  BY <1>1, <1>4, <1>7
<1>8. n' = n /\ sent' = sent /\ wire' = <<>> /\ hops' > 0 /\ ~(hops' = 0)
  <2>1. n' = n /\ sent' = sent /\ wire' = <<>>
    BY <1>1
  <2>2. hops' > 0 /\ ~(hops' = 0)
    BY <1>2
  <2> QED BY <2>1, <2>2
<1> QED BY <1>5, <1>6, <1>7, <1>8 DEF PackedInv

LEMMA PackedStep == ChannelInv /\ PackedInv /\ [Next]_vars => PackedInv'
<1> SUFFICES ASSUME ChannelInv, PackedInv, [Next]_vars PROVE PackedInv'
  OBVIOUS
<1>1. CASE BenchNode \/ Finished \/ UNCHANGED vars
  <2>1. UNCHANGED <<codec, reader, sent, held, wire, hops, error>>
    BY <1>1 DEF BenchNode, Finished, vars, channel
  <2> QED BY <2>1 DEF PackedInv, Packed
<1> QED BY <1>1, PackedEncode, PackedDisturb, PackedDecode DEF Next

LEMMA PackedAlways == Spec => [](ChannelInv /\ PackedInv)
<1>1. Init => ChannelInv /\ PackedInv
  BY ChannelInit, PackedInit
<1>2. ChannelInv /\ PackedInv /\ [Next]_vars => (ChannelInv /\ PackedInv)'
  BY ChannelStep, PackedStep
<1> QED BY <1>1, <1>2, PTL DEF Spec

LEMMA CopyArgs ==
  ASSUME NEW n, IsSeq(n.pred.args), NEW a
  PROVE  LET args == Copy(n, a).pred.args IN
         /\ Len(args) = Kept(n) /\ DOMAIN args = 1..Kept(n)
         /\ \A i \in 1..Kept(n) : args[i] = Arriving(n.pred.args[i]).val
<1> DEFINE k == Kept(n)
           f == [i \in 1..k |-> Arriving(n.pred.args[i]).val]
<1>1. Copy(n, a).pred.args = f
  <2>1. \A h, x, y : Pred(h, x, y).args = x
    BY DEF Pred
  <2> DEFINE g == [name |-> Morphemes[head_to_index(n.pred.head) + 1].name]
  <2>2. Copy(n, a).pred = Pred(g, f, <<>>)
    BY CopyIs, Zenon
  <2> HIDE DEF f, g
  <2> QED BY <2>1, <2>2
<1>2. k \in Nat
  BY KeptArgs
<1> HIDE DEF k
<1>3. Len(f) = k /\ DOMAIN f = 1..k /\ \A i \in 1..k : f[i] = Arriving(n.pred.args[i]).val
  BY <1>2
<1> QED BY <1>1, <1>3 DEF k

\* Any reader gets the first three arguments in order, each of its type, a name cut at
\* the most; a reader of the other codec gets an error (packed_codec.rs: decode).
THEOREM NothingIsInvented == Spec => []NothingInvented
<1>1. ASSUME ChannelInv, PackedInv PROVE NothingInvented
  <2>1. Arrived /\ codec # reader => error = "DimensionMismatch"
    BY <1>1 DEF PackedInv, Arrived
  <2>2. ASSUME Packed, Arrived, sent # <<>>, NEW d \in ToSet(held)
        PROVE  \E args \in {sent[1].pred.args} :
                 /\ Len(d.pred.args) = (IF Len(args) < MaxArgs THEN Len(args) ELSE MaxArgs)
                 /\ \A k \in DOMAIN d.pred.args :
                      /\ TypeOf(d.pred.args[k]) = TypeOf(args[k])
                      /\ TypeOf(args[k]) \in Named =>
                           \/ IsPrefix(term_value_string(d.pred.args[k]), term_value_string(args[k]))
                           \/ term_value_string(d.pred.args[k]) = Unknown
    <3> DEFINE n == sent[1]
               args == n.pred.args
    <3>1. sent \in Batches /\ n \in ToSet(sent) /\ NodeShape(n)
      BY <1>1, <2>2, FirstSent
    <3>2. hops > 0 /\ ToSet(<<>>) = {}
      BY <2>2, NoElements DEF Arrived
    <3>3. Arrives(n) /\ \E a \in Nat : held = <<Copy(n, a)>>
      BY <1>1, <2>2, <3>2 DEF PackedInv
    <3>4. PICK a \in Nat : d = Copy(n, a)
      BY <2>2, <3>3, Singletons
    <3> HIDE DEF n
    <3>5. IsSeq(args) /\ \A t \in ToSet(args) : TermShape(t)
      BY <3>1 DEF NodeShape
    <3>6. /\ Len(d.pred.args) = Kept(n) /\ DOMAIN d.pred.args = 1..Kept(n)
          /\ \A i \in 1..Kept(n) : d.pred.args[i] = Arriving(args[i]).val
      BY <3>4, <3>5, CopyArgs
    <3>7. ASSUME NEW k \in 1..Kept(n)
          PROVE  /\ TypeOf(d.pred.args[k]) = TypeOf(args[k])
                 /\ TypeOf(args[k]) \in Named =>
                      \/ IsPrefix(term_value_string(d.pred.args[k]), term_value_string(args[k]))
                      \/ term_value_string(d.pred.args[k]) = Unknown
      <4>1. args[k] \in ToSet(args) /\ Arriving(args[k]).err = ""
        BY <3>3, <3>5, KeptArgs DEF Arrives
      <4>2. Rebuilt(Arriving(args[k]), Received(term_value_string(args[k])), TypeOf(args[k]))
        BY <3>5, <4>1, ArrivingTerm
      <4>3. IsSeq(term_value_string(args[k]))
        BY <3>5, <4>1 DEF TermShape
      <4>4. \/ IsPrefix(Received(term_value_string(args[k])), term_value_string(args[k]))
            \/ Received(term_value_string(args[k])) = Unknown
        BY <4>3, ReceivedText
      <4> HIDE DEF args
      <4> QED BY <3>6, <4>2, <4>4 DEF Rebuilt
    <3>8. Kept(n) = IF Len(args) < MaxArgs THEN Len(args) ELSE MaxArgs
      BY DEF Kept
    <3> HIDE DEF args
    <3>9. sent[1].pred.args = args
      BY DEF args, n
    <3> QED BY <3>6, <3>7, <3>8, <3>9
  <2> QED BY <2>1, <2>2 DEF NothingInvented
<1> QED BY <1>1, PackedAlways, PTL

-----------------------------------------------------------------------------
(* What the packed codec can carry.                                        *)

LEMMA CarriableArrives ==
  ASSUME NEW nodes \in Batches, NEW n \in ToSet(nodes), NEW t \in ToSet(n.pred.args), Carriable(t)
  PROVE  Arriving(t).err = ""
<1> DEFINE s == term_value_string(t)
           type == TypeOf(t)
<1>1. TermShape(t) /\ IsSeq(s) /\ LeafShape(t) /\ type \in ToSet(Types)
  BY BatchAssumption DEF NodeShape, TermShape
<1>2. Spelt(s) /\ t.kind # "Compound"
  BY DEF Carriable
<1>3. Received(s) = s
  BY <1>1, <1>2, ReceivedText
<1>4. Arriving(t) = reconstruct_term(s, type)
  BY <1>3, ArrivingIs
<1>5. CASE type \in {"Dec", "Dur"}
  BY <1>2, <1>5, NumbersArrive, Success
<1>6. CASE type = "Date"
  <2>1. t = Lit(t.lit) /\ t.lit = [type |-> "Date", day |-> t.lit.day] /\ t.lit.day \in Days
    BY <1>1, <1>6, LeafKinds
  <2>2. s = <<t.lit.day>>
    BY <2>1, TextsOfTerms, TextsOfLiterals
  <2>3. Len(s) = 1 /\ s[1] \in Days
    <3> HIDE DEF s
    <3> QED BY <2>1, <2>2
  <2>4. \A x : Len(x) = 1 /\ x[1] \in Days => reconstruct_term(x, "Date").err = ""
    BY Success DEF reconstruct_term
  <2> HIDE DEF s, type
  <2> QED BY <1>4, <1>6, <2>3, <2>4
<1>7. CASE type \in {"Ent", "Var", "Str", "Uri", "Bool", "List"}
  <2>1. \A x : /\ reconstruct_term(x, "Ent").err = "" /\ reconstruct_term(x, "Var").err = ""
               /\ reconstruct_term(x, "Str").err = "" /\ reconstruct_term(x, "Uri").err = ""
               /\ reconstruct_term(x, "Bool").err = "" /\ reconstruct_term(x, "List").err = ""
    BY Success DEF reconstruct_term
  <2> HIDE DEF s, type
  <2> QED BY <1>4, <1>7, <2>1
<1>8. type # "Compound"
  <2>1. t.kind \in {"Ent", "Var", "Compound", "List"} 
       \/ (t.kind = "Lit" /\ t.lit.type \in {"Dec", "Str", "Date", "Bool", "Uri", "Dur"})
    BY <1>1 DEF LeafShape
  <2> QED BY <1>2, <2>1, TypesOfTerms
<1> QED BY <1>1, <1>5, <1>6, <1>7, <1>8, TypeNames

HeadKnown(h) == IF "id" \in DOMAIN h THEN lookup_id(h.id) # {} ELSE resolve(h.name) # {}
HeadShape(h) ==
  IF "id" \in DOMAIN h
  THEN h = [id |-> h.id] /\ h.id \in Nat /\ \A k \in DOMAIN Morphemes : Morphemes[k].name # head_text(h)
  ELSE h = [name |-> h.name]

LEMMA HeadsOf ==
  ASSUME NEW nodes \in Batches, NEW n \in ToSet(nodes)
  PROVE  HeadShape(n.pred.head)
BY BatchAssumption DEF NodeShape, HeadShape

LEMMA Resolved ==
  ASSUME NEW name, NEW k \in resolve(name)
  PROVE  k \in Int /\ k + 1 \in DOMAIN Morphemes /\ Morphemes[k + 1].name = name
<1>1. DOMAIN Morphemes \subseteq Int
  BY BatchAssumption, Elements
<1>2. PICK j \in DOMAIN Morphemes : Morphemes[j].name = name /\ k = j - 1
  BY DEF resolve
<1>3. k \in Int /\ k + 1 = j
  BY <1>1, <1>2
<1> QED BY <1>2, <1>3

LEMMA HeadArrives ==
  ASSUME NEW h, HeadShape(h)
  PROVE  /\ HeadKnown(h) => lookup_id(head_to_index(h)) # {}
         /\ lookup_id(head_to_index(h)) # {} =>
              (HeadKnown(h) <=> head_info(h) = head_info([name |-> Morphemes[head_to_index(h) + 1].name]))
<1> DEFINE k == head_to_index(h)
           g == [name |-> Morphemes[k + 1].name]
<1>1. head_info(g) = Morphemes[k + 1].name
  <2>1. \A x : head_info([name |-> x]) = x
    BY DEF head_info, head_text
  <2> HIDE DEF k
  <2> QED BY <2>1
<1> HIDE DEF g
<1>2. CASE "id" \in DOMAIN h
  <2>1. k = h.id /\ h = [id |-> h.id]
    BY <1>2 DEF head_to_index, HeadShape
  <2>2. "name" \notin DOMAIN h
    BY <2>1
  <2>3. lookup_id(h.id) # {} => head_info(h) = Morphemes[h.id + 1].name
    BY <2>2 DEF head_info
  <2> HIDE DEF k
  <2> QED BY <1>1, <1>2, <2>1, <2>3 DEF HeadKnown, g, k
<1>3. CASE "id" \notin DOMAIN h
  <2>1. head_info(h) = h.name
    <3>1. h = [name |-> h.name]
      BY <1>3 DEF HeadShape
    <3>2. "name" \in DOMAIN h
      BY <3>1
    <3> QED BY <3>2 DEF head_info, head_text
  <2>2. CASE resolve(h.name) # {}
    <3>1. k \in resolve(h.name)
      BY <1>3, <2>2 DEF head_to_index
    <3> HIDE DEF k
    <3>2. k \in Int /\ k + 1 \in DOMAIN Morphemes /\ Morphemes[k + 1].name = h.name
      BY <3>1, Resolved
    <3>3. lookup_id(k) # {}
      BY <3>2, LookedUp
    <3> QED BY <1>1, <1>3, <2>1, <2>2, <3>2, <3>3 DEF HeadKnown, g, k
  <2>3. CASE resolve(h.name) = {}
    <3>1. k = 0
      BY <1>3, <2>3 DEF head_to_index
    <3> HIDE DEF k
    <3>2. lookup_id(k) # {} => Morphemes[k + 1].name # h.name
      <4> SUFFICES ASSUME lookup_id(k) # {}, Morphemes[k + 1].name = h.name PROVE FALSE
        OBVIOUS
      <4>1. k + 1 \in DOMAIN Morphemes
        BY LookedUp
      <4>2. resolve(Morphemes[k + 1].name) = {k}
        BY <3>1, <4>1, MorphemeNames
      <4> QED BY <2>3, <4>2
    <3> QED BY <1>1, <1>3, <2>1, <2>3, <3>2 DEF HeadKnown, g, k
  <2> QED BY <2>2, <2>3
<1> QED BY <1>2, <1>3

LEMMA HasScore ==
  /\ Told(Different) /\ Different.score = 0 /\ MetadataDrift.score = 85 /\ Exact.score = 100 /\ Told(MetadataDrift)
  /\ \A c : Told(c) => (c.score >= Threshold <=> c.level \in {"Exact", "MetadataDrift"})
<1>1. Threshold \in 31..85
  BY BoundAssumption
<1>2. \A c : Told(c) => (c.score >= Threshold <=> c.level \in {"Exact", "MetadataDrift"})
  BY <1>1 DEF Told
<1> QED BY <1>2, Scores DEF Told, Levels

\* compare only looks at the metadata when the predicates agree.
LEMMA CompareIs ==
  ASSUME NEW a, NEW b, Told(compare_predicates(a.pred, b.pred))
  PROVE  LET c == compare_predicates(a.pred, b.pred) IN
         /\ Told(compare(a, b))
         /\ compare(a, b).score >= Threshold <=> c.level \in {"Exact", "MetadataDrift"}
<1> DEFINE c == compare_predicates(a.pred, b.pred)
<1>1. compare(a, b) = IF c.level = "Exact" /\ ~SameMetadata(a, b) THEN MetadataDrift ELSE c
  BY Zenon DEF compare
<1> HIDE DEF c
<1>2. Told(c)
  BY DEF c
<1>3. MetadataDrift.level = "MetadataDrift"
  BY Scores
<1> QED BY <1>1, <1>2, <1>3, HasScore DEF c

LEMMA Unnamed ==
  ASSUME NEW named, IsSeq(named)
  PROVE  /\ Keys(<<>>) = <<>> /\ Values(<<>>) = <<>>
         /\ Keys(named) = Keys(<<>>) <=> named = <<>>
<1>1. Keys(<<>>) = <<>> /\ Values(<<>>) = <<>>
  BY DEF Keys, Values
<1>2. Keys(named) = <<>> => named = <<>>
  <2>1. DOMAIN Keys(named) = DOMAIN named
    BY DEF Keys
  <2>2. Keys(named) = <<>> => DOMAIN Keys(named) = {}
    OBVIOUS
  <2>3. Len(named) \in Nat /\ DOMAIN named = 1..Len(named)
    BY Elements
  <2>4. DOMAIN named = {} => Len(named) = 0
    BY <2>3
  <2> QED BY <2>1, <2>2, <2>4, Empty
<1> QED BY <1>1, <1>2

\* The predicates are compared argument by argument.
LEMMA ArgsCompared ==
  ASSUME NEW as, IsSeq(as), NEW bs, Len(bs) = Len(as), NEW S,
         \A i \in DOMAIN as : Judged(compare_terms(as[i], bs[i]), as[i] \in S)
  PROVE  LET c == ListsBy(as, bs, compare_terms)
         IN Told(c) /\ (c.level \in {"Exact", "MetadataDrift"} <=> \A i \in DOMAIN as : as[i] \in S)
<1> DEFINE parts == [k \in DOMAIN as |-> compare_terms(as[k], bs[k])]
<1>1. ListsBy(as, bs, compare_terms) = Verdict(parts)
  BY Zenon DEF ListsBy
<1>2. IsFiniteSet(DOMAIN as)
  BY Elements, FS_Interval
<1>3. DOMAIN parts = DOMAIN as /\ \A i \in DOMAIN as : Judged(parts[i], as[i] \in S)
  OBVIOUS
<1> HIDE DEF parts
<1>4. Told(Verdict(parts)) /\ (Verdict(parts).level \in {"Exact", "MetadataDrift"} <=>
              \A k \in DOMAIN parts : parts[k].level \notin {"Different", "WrongValues"})
  BY <1>2, <1>3, VerdictOf
<1>5. \A i \in DOMAIN as : parts[i].level \notin {"Different", "WrongValues"} <=> as[i] \in S
  BY <1>3 DEF Judged
<1> QED BY <1>1, <1>3, <1>4, <1>5

\* What arrives is equivalent to what was sent if and only if the codec can carry it.
LEMMA CopyCompared ==
  ASSUME NEW nodes \in Batches, NEW n \in ToSet(nodes), Arrives(n), NEW a \in Nat
  PROVE  compare(n, Copy(n, a)).score >= Threshold <=> Carries(n)
<1> DEFINE h == n.pred.head
           g == [name |-> Morphemes[head_to_index(h) + 1].name]
           args == n.pred.args
           named == n.pred.named
           v == Copy(n, a)
           vargs == v.pred.args
           c == compare_predicates(n.pred, v.pred)
           S == {t \in ToSet(args) : Carriable(t)}
<1>1. NodeShape(n) /\ IsSeq(args) /\ IsSeq(named)
  BY BatchAssumption DEF NodeShape
<1>2. v.pred.head = g /\ v.pred.named = <<>>
  <2>1. \A x, y, z : Pred(x, y, z).head = x /\ Pred(x, y, z).named = z
    BY DEF Pred
  <2> DEFINE f == [i \in 1..Kept(n) |-> Arriving(n.pred.args[i]).val]
  <2>2. v.pred = Pred(g, f, <<>>)
    BY CopyIs, Zenon
  <2> HIDE DEF f, g
  <2> QED BY <2>1, <2>2
<1>3. /\ Len(vargs) = Kept(n) /\ DOMAIN vargs = 1..Kept(n)
      /\ \A i \in 1..Kept(n) : vargs[i] = Arriving(args[i]).val
  BY <1>1, CopyArgs
<1>4. /\ Kept(n) \in 0..3 /\ (Kept(n) = Len(args) <=> Len(args) <= MaxArgs)
      /\ DOMAIN args = 1..Len(args) /\ Len(args) \in Nat /\ \A i \in 1..Kept(n) : args[i] \in ToSet(args)
  BY <1>1, KeptArgs
<1>5. HeadKnown(h) <=> head_info(h) = head_info(g)
  BY HeadsOf, HeadArrives DEF Arrives
<1>6. Carries(n) <=> HeadKnown(h) /\ Len(args) <= MaxArgs /\ named = <<>> /\ \A t \in ToSet(args) : Carriable(t)
  BY DEF Carries, HeadKnown
<1>7. c = IF ~compare_heads(h, v.pred.head) \/ Len(args) # Len(vargs) \/ Keys(named) # Keys(v.pred.named)
          THEN Different
          ELSE ListsBy(args \o Values(named), vargs \o Values(v.pred.named), compare_terms)
  BY Zenon DEF compare_predicates, PredicatesBy
<1>8. Keys(named) = Keys(<<>>) <=> named = <<>>
  BY <1>1, Unnamed
<1> HIDE DEF h, g, args, named, v, vargs, c
<1>9. ~(HeadKnown(h) /\ Len(args) <= MaxArgs /\ named = <<>>) => c = Different
  BY <1>2, <1>3, <1>4, <1>5, <1>7, <1>8 DEF compare_heads
<1>10. ASSUME HeadKnown(h), Len(args) <= MaxArgs, named = <<>>
       PROVE  Told(c) /\ (c.level \in {"Exact", "MetadataDrift"} <=> \A t \in ToSet(args) : Carriable(t))
  <2>1. c = ListsBy(args \o <<>>, vargs \o <<>>, compare_terms)
    <3>1. ~(~compare_heads(h, v.pred.head) \/ Len(args) # Len(vargs) \/ Keys(named) # Keys(v.pred.named))
      BY <1>2, <1>3, <1>4, <1>5, <1>8, <1>10 DEF compare_heads
    <3>2. c = ListsBy(args \o Values(named), vargs \o Values(v.pred.named), compare_terms)
      BY <1>7, <3>1, Zenon
    <3>3. Values(named) = <<>> /\ Values(v.pred.named) = <<>>
      BY <1>1, <1>2, <1>10, Unnamed
    <3> QED BY <3>2, <3>3, Zenon
  <2>2. args \o <<>> = args
    <3>1. args \in Seq(ToSet(args))
      BY <1>1 DEF IsSeq
    <3> QED BY <3>1
  <2>3. vargs \o <<>> = vargs
    <3>1. vargs \in Seq(ToSet(vargs))
      BY Relayed DEF ArgsShape, IsSeq, v, vargs
    <3> QED BY <3>1
  <2>4. c = ListsBy(args, vargs, compare_terms) /\ Len(vargs) = Len(args)
    BY <1>3, <1>4, <1>10, <2>1, <2>2, <2>3
  <2>5. ASSUME NEW i \in DOMAIN args
        PROVE  Judged(compare_terms(args[i], vargs[i]), args[i] \in S)
    <3>1. i \in 1..Kept(n)
      BY <1>4, <1>10
    <3>2. vargs[i] = Arriving(args[i]).val /\ args[i] \in ToSet(args) /\ Arriving(args[i]).err = ""
      BY <1>3, <1>4, <3>1 DEF Arrives, args
    <3>3. Judged(compare_terms(args[i], Arriving(args[i]).val), Carriable(args[i]))
      BY <3>2, ArrivalJudged DEF args
    <3>4. args[i] \in S <=> Carriable(args[i])
      BY <3>2
    <3> QED BY <3>2, <3>3, <3>4 DEF Judged
  <2> HIDE DEF S
  <2>6. Told(c) /\ (c.level \in {"Exact", "MetadataDrift"} <=> \A i \in DOMAIN args : args[i] \in S)
    BY <1>1, <2>4, <2>5, ArgsCompared
  <2>7. (\A i \in DOMAIN args : args[i] \in S) <=> \A t \in ToSet(args) : Carriable(t)
    BY <1>1, Elements DEF S
  <2> QED BY <2>6, <2>7
<1>11. Told(c) /\ (c.level \in {"Exact", "MetadataDrift"} <=> Carries(n))
  BY <1>6, <1>9, <1>10, HasScore, Scores
<1>12. compare(n, v).score >= Threshold <=> c.level \in {"Exact", "MetadataDrift"}
  BY <1>11, CompareIs DEF c
<1> QED BY <1>11, <1>12 DEF v

LEMMA CarriedArrives ==
  ASSUME NEW nodes \in Batches, NEW n \in ToSet(nodes), Carries(n)
  PROVE  Arrives(n)
<1>1. HeadKnown(n.pred.head) /\ \A t \in ToSet(n.pred.args) : Carriable(t)
  BY DEF Carries, HeadKnown
<1>2. lookup_id(head_to_index(n.pred.head)) # {}
  BY <1>1, HeadsOf, HeadArrives
<1>3. IsSeq(n.pred.args)
  BY BatchAssumption DEF NodeShape
<1>4. \A i \in 1..Kept(n) : Arriving(n.pred.args[i]).err = ""
  BY <1>1, <1>3, KeptArgs, CarriableArrives
<1> QED BY <1>2, <1>4 DEF Arrives

\* What gets through the packed codec is what fits it, however many hops and latent
\* operations there are (packed_codec.rs: encode_predicate, decode_predicate).
THEOREM PackedCarriesWhatFits == Spec => []PackedCarries
<1>1. ASSUME ChannelInv, PackedInv PROVE PackedCarries
  <2> DEFINE n == sent[1]
  <2> SUFFICES ASSUME Packed, Arrived, Len(sent) = 1
               PROVE  Carries(n) <=> \E d \in ToSet(held) : compare(n, d).score >= Threshold
    BY DEF PackedCarries
  <2>1. sent # <<>> /\ hops > 0
    BY DEF Arrived
  <2>2. sent \in Batches /\ n \in ToSet(sent)
    BY <1>1, <2>1, FirstSent
  <2>3. CASE Arrives(n)
    <3>1. \E a \in Nat : held = <<Copy(n, a)>>
      BY <1>1, <2>1, <2>3 DEF PackedInv
    <3>2. PICK a \in Nat : held = <<Copy(n, a)>>
      BY <3>1
    <3>3. ToSet(held) = {Copy(n, a)}
      BY <3>2, Singletons
    <3> HIDE DEF n
    <3> QED BY <2>2, <2>3, <3>3, CopyCompared
  <2>4. CASE ~Arrives(n)
    <3>1. ToSet(held) = {}
      BY <1>1, <2>1, <2>4, NoElements DEF PackedInv
    <3>2. ~Carries(n)
      BY <2>2, <2>4, CarriedArrives
    <3> QED BY <3>1, <3>2
  <2> QED BY <2>3, <2>4
<1> QED BY <1>1, PackedAlways, PTL

-----------------------------------------------------------------------------
(* The baseline codec: metadata.                                           *)

\* What a copy has of n's metadata.
MetaKept(n, d) ==
  /\ d.auth = n.auth /\ d.status = n.status
  /\ d.validity.kind = n.validity.kind /\ d.provenance.kind = n.provenance.kind
  /\ d.conf = default_confidence_for_provenance[n.provenance.kind]
  /\ (d.deps = <<>>) = (n.deps = <<>>) /\ (d.note = <<>>) = (n.note = <<>>)
  /\ d.perm = (IF n.perm = "combined" THEN "public" ELSE n.perm)

FullMeta(n) == MetaShape(n) /\ n.validity.kind \in {"Forever", "Window"}

LEMMA Divided ==
  ASSUME NEW x \in Nat, NEW y \in Nat \ {0}, NEW k \in Nat, NEW r \in Nat, r < y, x = k * y + r
  PROVE  x \div y = k
<1> DEFINE q == x \div y
<1>1. q \in Nat /\ q * y <= x /\ x < (q + 1) * y
  OBVIOUS
<1> HIDE DEF q
<1>2. q <= k
  <2> SUFFICES ASSUME q >= k + 1 PROVE FALSE
    BY <1>1
  <2>1. q * y >= (k + 1) * y /\ (k + 1) * y = k * y + y /\ k * y \in Nat
    BY <1>1
  <2> QED BY <1>1, <2>1
<1>3. k <= q
  <2> SUFFICES ASSUME k >= q + 1 PROVE FALSE
    BY <1>1
  <2>1. k * y >= (q + 1) * y /\ k * y \in Nat /\ (q + 1) * y \in Nat
    BY <1>1
  <2> QED BY <1>1, <2>1
<1> QED BY <1>1, <1>2, <1>3 DEF q

LEMMA LevelsRead ==
  /\ \A k \in Nat : Rounded(k * Unit) = k /\ (k * Unit) \div Unit = k
  /\ \A b \in BOOLEAN : Exceeds(Flag(b)) <=> b
<1>1. Unit \in Nat \ {0}
  BY PositiveUnit
<1>2. ASSUME NEW k \in Nat PROVE Rounded(k * Unit) = k /\ (k * Unit) \div Unit = k
  <2>1. k * Unit \in Nat /\ k * Unit = k * Unit + 0
    BY <1>1
  <2>2. (k * Unit) \div Unit = k
    BY <1>1, <2>1, Divided
  <2>3. /\ 2 * (k * Unit) + Unit \in Nat /\ 2 * Unit \in Nat \ {0} /\ Unit < 2 * Unit
        /\ 2 * (k * Unit) + Unit = k * (2 * Unit) + Unit
    BY <1>1
  <2>4. (2 * (k * Unit) + Unit) \div (2 * Unit) = k
    <3> DEFINE x == 2 * (k * Unit) + Unit
               y == 2 * Unit
    <3>1. x \in Nat /\ y \in Nat \ {0} /\ Unit \in Nat /\ Unit < y /\ x = k * y + Unit
      BY <1>1, <2>3
    <3> HIDE DEF x, y
    <3>2. x \div y = k
      BY <3>1, Divided
    <3> QED BY <3>2 DEF x, y
  <2> QED BY <2>2, <2>4 DEF Rounded
<1>3. ASSUME NEW b \in BOOLEAN PROVE Exceeds(Flag(b)) <=> b
  BY <1>1 DEF Exceeds, Flag
<1> QED BY <1>2, <1>3

LEMMA MetaReadBack ==
  ASSUME NEW n, FullMeta(n), NEW pred
  PROVE  MetaKept(n, decoded_node(pred, extract_meta_features(n)))
<1> DEFINE meta == extract_meta_features(n)
           kind == ProvenanceSeq[Rounded(meta.provenance) + 1]
           perm == Rounded(meta.perm) + 1
           d == decoded_node(pred, meta)
<1>1. /\ meta.auth = n.auth * Unit /\ meta.perm = PlaceOf(PermissionSeq, n.perm) * Unit
      /\ meta.window = Flag(n.validity.kind = "Window")
      /\ meta.provenance = PlaceOf(ProvenanceSeq, n.provenance.kind) * Unit
      /\ meta.deps = Flag(n.deps # <<>>) /\ meta.status = PlaceOf(StatusSeq, n.status) * Unit
      /\ meta.note = Flag(n.note # <<>>)
  BY DEF extract_meta_features
<1>2. /\ d.conf = default_confidence_for_provenance[kind] /\ d.auth = meta.auth \div Unit
      /\ d.perm = (IF perm <= 4 THEN PermissionSeq[perm] ELSE "public")
      /\ d.validity = (IF Exceeds(meta.window) THEN [kind |-> "Window", from |-> <<"now">>, until |-> <<>>]
                       ELSE [kind |-> "Forever"])
      /\ d.provenance = DecodedProvenance(kind) /\ d.status = StatusSeq[Rounded(meta.status) + 1]
      /\ d.deps = (IF Exceeds(meta.deps) THEN <<<<"decoded-dep">>>> ELSE <<>>)
      /\ d.note = (IF Exceeds(meta.note) THEN <<<<"decoded from latent space">>>> ELSE <<>>)
  BY DEF decoded_node
<1> HIDE DEF meta, d
<1>3. n.auth \in Nat /\ n.status \in ToSet(StatusSeq) /\ n.perm \in ToSet(PermissionSeq)
      /\ n.provenance.kind \in ToSet(ProvenanceSeq) /\ n.validity.kind \in {"Forever", "Window"}
  BY CertainIsNat DEF FullMeta, MetaShape
<1>4. d.auth = n.auth
  BY <1>1, <1>2, <1>3, LevelsRead
<1>5. kind = n.provenance.kind
  <2>1. PlaceOf(ProvenanceSeq, n.provenance.kind) \in 0..4
        /\ ProvenanceSeq[PlaceOf(ProvenanceSeq, n.provenance.kind) + 1] = n.provenance.kind
    BY <1>3, Places
  <2>2. Rounded(meta.provenance) = PlaceOf(ProvenanceSeq, n.provenance.kind)
    BY <1>1, <2>1, LevelsRead
  <2> QED BY <2>1, <2>2
<1>6. d.status = n.status
  <2>1. PlaceOf(StatusSeq, n.status) \in 0..2 /\ StatusSeq[PlaceOf(StatusSeq, n.status) + 1] = n.status
    BY <1>3, Places
  <2>2. Rounded(meta.status) = PlaceOf(StatusSeq, n.status)
    BY <1>1, <2>1, LevelsRead
  <2> QED BY <1>2, <2>1, <2>2
<1>7. d.perm = (IF n.perm = "combined" THEN "public" ELSE n.perm)
  <2> DEFINE j == PlaceOf(PermissionSeq, n.perm)
  <2>1. j \in 0..4 /\ PermissionSeq[j + 1] = n.perm
    BY <1>3, Places
  <2> HIDE DEF j
  <2>2. perm = j + 1
    <3>1. Rounded(meta.perm) = j
      BY <1>1, <2>1, LevelsRead DEF j
    <3> QED BY <3>1
  <2>3. n.perm = "combined" <=> j = 4
    <3>1. j \in {0, 1, 2, 3, 4}
      BY <2>1
    <3> QED BY <2>1, <3>1 DEF PermissionSeq
  <2>4. d.perm = IF perm <= 4 THEN PermissionSeq[perm] ELSE "public"
    BY <1>2
  <2> HIDE DEF perm
  <2> QED BY <2>1, <2>2, <2>3, <2>4
<1>8. d.validity.kind = n.validity.kind
  <2>1. Exceeds(meta.window) <=> n.validity.kind = "Window"
    <3>1. (n.validity.kind = "Window") \in BOOLEAN
      OBVIOUS
    <3> QED BY <1>1, <3>1, LevelsRead, Zenon
  <2>2. /\ Exceeds(meta.window) => d.validity.kind = "Window"
        /\ ~Exceeds(meta.window) => d.validity.kind = "Forever"
    <3> DEFINE window == [kind |-> "Window", from |-> <<"now">>, until |-> <<>>]
               forever == [kind |-> "Forever"]
    <3>1. window.kind = "Window" /\ forever.kind = "Forever"
      OBVIOUS
    <3>2. (Exceeds(meta.window) => d.validity = window) /\ (~Exceeds(meta.window) => d.validity = forever)
      BY <1>2, Zenon
    <3> HIDE DEF window, forever
    <3> QED BY <3>1, <3>2
  <2> QED BY <1>3, <2>1, <2>2
<1>9. (d.deps = <<>>) = (n.deps = <<>>)
  <2>1. Exceeds(meta.deps) <=> n.deps # <<>>
    <3>1. (n.deps # <<>>) \in BOOLEAN
      OBVIOUS
    <3> QED BY <1>1, <3>1, LevelsRead, Zenon
  <2>2. (Exceeds(meta.deps) => d.deps # <<>>) /\ (~Exceeds(meta.deps) => d.deps = <<>>)
    <3> DEFINE some == <<<<"decoded-dep">>>>
    <3>1. some # <<>>
      OBVIOUS
    <3>2. (Exceeds(meta.deps) => d.deps = some) /\ (~Exceeds(meta.deps) => d.deps = <<>>)
      BY <1>2, Zenon
    <3> HIDE DEF some
    <3> QED BY <3>1, <3>2
  <2>3. d.deps = <<>> <=> n.deps = <<>>
    BY <2>1, <2>2
  <2> QED BY <2>3
<1>10. (d.note = <<>>) = (n.note = <<>>)
  <2>1. Exceeds(meta.note) <=> n.note # <<>>
    <3>1. (n.note # <<>>) \in BOOLEAN
      OBVIOUS
    <3> QED BY <1>1, <3>1, LevelsRead, Zenon
  <2>2. (Exceeds(meta.note) => d.note # <<>>) /\ (~Exceeds(meta.note) => d.note = <<>>)
    <3> DEFINE some == <<<<"decoded from latent space">>>>
    <3>1. some # <<>>
      OBVIOUS
    <3>2. (Exceeds(meta.note) => d.note = some) /\ (~Exceeds(meta.note) => d.note = <<>>)
      BY <1>2, Zenon
    <3> HIDE DEF some
    <3> QED BY <3>1, <3>2
  <2>3. d.note = <<>> <=> n.note = <<>>
    BY <2>1, <2>2
  <2> QED BY <2>3
<1>11. d.provenance.kind = kind
  <2>1. \A x : DecodedProvenance(x).kind = x
    BY DEF DecodedProvenance
  <2> HIDE DEF kind
  <2> QED BY <1>2, <2>1
<1> HIDE DEF kind
<1> QED BY <1>2, <1>4, <1>5, <1>6, <1>7, <1>8, <1>9, <1>10, <1>11 DEF MetaKept, d, meta

-----------------------------------------------------------------------------
(* The baseline codec: nodes without nested terms.                         *)

LEMMA Joint ==
  ASSUME NEW s, IsSeq(s), NEW t, IsSeq(t)
  PROVE  /\ IsSeq(s \o t) /\ IsFiniteSet(DOMAIN (s \o t)) /\ DOMAIN (s \o t) \subseteq Nat
         /\ ToSet(s \o t) \subseteq ToSet(s) \cup ToSet(t)
<1> DEFINE S == ToSet(s) \cup ToSet(t)
           st == s \o t
<1>1. s \in Seq(ToSet(s)) /\ t \in Seq(ToSet(t))
  BY DEF IsSeq
<1>2. \A A, B : Seq(A) \subseteq Seq(A \cup B) /\ Seq(B) \subseteq Seq(A \cup B)
  OBVIOUS
<1>3. s \in Seq(S) /\ t \in Seq(S)
  BY <1>1, <1>2
<1> HIDE DEF S
<1>4. st \in Seq(S)
  BY <1>3
<1> HIDE DEF st
<1>5. IsSeq(st) /\ ToSet(st) \subseteq S
  BY <1>4, InSeq
<1>6. DOMAIN st = 1..Len(st) /\ Len(st) \in Nat
  BY <1>5, Elements
<1>7. IsFiniteSet(DOMAIN st) /\ DOMAIN st \subseteq Nat
  BY <1>6, FS_Interval
<1> QED BY <1>5, <1>7 DEF st, S

LEMMA ValuesSeq ==
  ASSUME NEW named, IsSeq(named)
  PROVE  IsSeq(Values(named))
<1> DEFINE vs == Values(named)
           V == {named[k][2] : k \in DOMAIN named}
<1>1. vs = [k \in DOMAIN named |-> named[k][2]] /\ DOMAIN named = 1..Len(named) /\ Len(named) \in Nat
  BY Elements DEF Values
<1> HIDE DEF vs
<1>2. vs \in [1..Len(named) -> V]
  BY <1>1
<1> HIDE DEF V
<1>3. vs \in Seq(V)
  BY <1>1, <1>2
<1> QED BY <1>3, InSeq DEF vs

LEMMA SumOfZeros ==
  ASSUME NEW f, IsFiniteSet(DOMAIN f), \A x \in DOMAIN f : f[x] = 0
  PROVE  SumFunction(f) = 0
<1>1. \A x \in DOMAIN f : f[x] \in 0..0
  OBVIOUS
<1>2. /\ SumFunction(f) \in Int
      /\ 0 * Cardinality(DOMAIN f) <= SumFunction(f) /\ SumFunction(f) <= 0 * Cardinality(DOMAIN f)
  BY <1>1, SumWithin
<1>3. 0 * Cardinality(DOMAIN f) = 0
  BY FS_CardinalityType
<1> QED BY <1>2, <1>3

LEMMA SumOfNothing ==
  ASSUME NEW f, DOMAIN f = {}
  PROVE  SumFunction(f) = 0
BY FS_EmptySet, SumOfZeros

LEMMA FlatTerm ==
  ASSUME NEW t, t.kind \notin {"Compound", "List"}
  PROVE  /\ \A k : HeadsInTerm(t, k, inner_heads) = 0
         /\ \A f : TermsWith(f, t, inner_terms) \in 0..1
<1>1. ItemsOf(t) = <<>> /\ DOMAIN <<>> = {}
  BY DEF ItemsOf
<1>2. ASSUME NEW k PROVE HeadsInTerm(t, k, inner_heads) = 0
  <2> DEFINE s == [j \in DOMAIN <<>> |-> inner_heads[<<(<<>>)[j], k>>]]
  <2>1. HeadsInTerm(t, k, inner_heads) = 0 + SumFunction(s)
    BY <1>1 DEF HeadsInTerm, Total
  <2>2. DOMAIN s = {}
    BY <1>1
  <2> HIDE DEF s
  <2> QED BY <2>1, <2>2, SumOfNothing
<1>3. ASSUME NEW f PROVE TermsWith(f, t, inner_terms) \in 0..1
  <2> DEFINE s == [j \in DOMAIN <<>> |-> inner_terms[<<f, (<<>>)[j]>>]]
  <2>1. TermsWith(f, t, inner_terms) = (IF f \in FeaturesOf(t) THEN 1 ELSE 0) + SumFunction(s)
    BY <1>1 DEF TermsWith, Total
  <2>2. DOMAIN s = {}
    BY <1>1
  <2> HIDE DEF s
  <2> QED BY <2>1, <2>2, SumOfNothing
<1> QED BY <1>2, <1>3

FlatSeqs(n) == IsSeq(n.pred.args) /\ IsSeq(n.pred.named) /\ Flat(n)

LEMMA FlatEncoded ==
  ASSUME NEW n, FlatSeqs(n)
  PROVE  /\ extract_morpheme_features(n.pred) = [k \in DOMAIN Morphemes |-> HeadCount(n.pred.head, k)]
         /\ \A f \in FeatureNames : extract_type_features(n.pred)[f] \in Nat
<1> DEFINE args == n.pred.args
           all == n.pred.args \o Values(n.pred.named)
<1>1. IsSeq(all) /\ IsFiniteSet(DOMAIN all) /\ \A t \in ToSet(all) : t.kind \notin {"Compound", "List"}
  BY Joint, ValuesSeq DEF FlatSeqs, Flat
<1>2. \A k \in DOMAIN all : all[k].kind \notin {"Compound", "List"}
  <2> HIDE DEF all
  <2> QED BY <1>1, Elements
<1>3. ASSUME NEW k \in DOMAIN Morphemes
      PROVE  extract_morpheme_features(n.pred)[k] = HeadCount(n.pred.head, k)
  <2> DEFINE s == [j \in DOMAIN all |-> HeadsInTerm(all[j], k, inner_heads)]
  <2>1. extract_morpheme_features(n.pred)[k] = HeadCount(n.pred.head, k) + SumFunction(s)
    BY DEF extract_morpheme_features, Total
  <2> HIDE DEF all
  <2>2. DOMAIN s = DOMAIN all /\ \A j \in DOMAIN all : s[j] = 0
    BY <1>2, FlatTerm
  <2> HIDE DEF s
  <2>3. SumFunction(s) = 0
    BY <1>1, <2>2, SumOfZeros
  <2>4. HeadCount(n.pred.head, k) \in Nat
    BY DEF HeadCount
  <2> QED BY <2>1, <2>3, <2>4
<1>4. extract_morpheme_features(n.pred) = [k \in DOMAIN Morphemes |-> HeadCount(n.pred.head, k)]
  <2> DEFINE e == extract_morpheme_features(n.pred)
  <2>1. e = [k \in DOMAIN Morphemes |-> e[k]]
    BY DEF extract_morpheme_features
  <2> HIDE DEF e
  <2>2. \A k \in DOMAIN Morphemes : e[k] = HeadCount(n.pred.head, k)
    BY <1>3 DEF e
  <2>3. e = [k \in DOMAIN Morphemes |-> HeadCount(n.pred.head, k)]
    BY <2>1, <2>2
  <2> QED BY <2>3 DEF e
<1>5. ASSUME NEW f \in FeatureNames
      PROVE  extract_type_features(n.pred)[f] \in Nat
  <2> DEFINE s == [j \in DOMAIN all |-> TermsWith(f, all[j], inner_terms)]
             l == IF args = <<>> THEN 1 ELSE Len(args)
  <2>1. extract_type_features(n.pred)[f] = (SumFunction(s) * Unit) \div l
    BY DEF extract_type_features, Total
  <2> HIDE DEF all
  <2>2. DOMAIN s = DOMAIN all /\ \A j \in DOMAIN all : s[j] \in 0..1
    BY <1>2, FlatTerm
  <2> HIDE DEF s
  <2>3. SumFunction(s) \in Nat
    <3>1. SumFunction(s) \in Int /\ 0 * Cardinality(DOMAIN s) <= SumFunction(s)
      BY <1>1, <2>2, SumWithin
    <3>2. 0 * Cardinality(DOMAIN s) = 0
      BY <1>1, <2>2, FS_CardinalityType
    <3> QED BY <3>1, <3>2
  <2>4. l \in Nat \ {0}
    <3>1. IsSeq(args)
      BY DEF FlatSeqs
    <3> HIDE DEF args
    <3> QED BY <3>1, Elements, Empty
  <2> HIDE DEF l
  <2>5. SumFunction(s) * Unit \in Nat
    BY <2>3, PositiveUnit
  <2>6. (SumFunction(s) * Unit) \div l \in Nat
    BY <2>4, <2>5
  <2> QED BY <2>1, <2>6
<1> QED BY <1>4, <1>5

-----------------------------------------------------------------------------
(* The baseline codec: placeholders.                                       *)

LEMMA FeatureNamesAre ==
  FeatureNames = {"Var", "Ent", "Lit", "Compound", "List", "Dec", "Str", "Other"}
BY DEF FeatureNames, TypeFeatures, ToSet

LEMMA RoundedNat ==
  \A v \in Nat : Rounded(v) \in Nat
<1> SUFFICES ASSUME NEW v \in Nat PROVE Rounded(v) \in Nat
  OBVIOUS
<1>1. Unit \in Nat \ {0}
  BY PositiveUnit
<1> DEFINE x == 2 * v + Unit
           y == 2 * Unit
<1>2. x \in Nat /\ y \in Nat \ {0}
  BY <1>1
<1> HIDE DEF x, y
<1>3. x \div y \in Nat
  BY <1>2
<1> QED BY <1>3 DEF Rounded, x, y

\* The number in a placeholder's name is below the number of arguments.
LEMMA NumberedPlaceholders ==
  ASSUME NEW N \in Nat, NEW count \in Nat, NEW from \in Nat, from + count <= N
  PROVE  /\ EntityArgs(count, from) \in Seq(Placeholders(N)) /\ Len(EntityArgs(count, from)) = count
         /\ from = 0 => LET fresh == Numbered("v", count, from) IN
              /\ [k \in DOMAIN fresh |-> Var(fresh[k])] \in Seq(Placeholders(N))
              /\ Len([k \in DOMAIN fresh |-> Var(fresh[k])]) = count
<1>1. \A prefix, n, m : /\ DOMAIN Numbered(prefix, n, m) = 1..n
                        /\ \A k \in 1..n : Numbered(prefix, n, m)[k] = <<prefix, ToString(m + k - 1)>>
  BY DEF Numbered
<1>2. EntityArgs(count, from) = [k \in 1..count |-> Ent(<<"ENT-", ToString(from + k - 1)>>)]
  BY <1>1 DEF EntityArgs
<1>3. ASSUME NEW k \in 1..count
      PROVE  Ent(<<"ENT-", ToString(from + k - 1)>>) \in Placeholders(N)
  <2>1. from + k \in 1..N /\ 0 + (from + k) - 1 = from + k - 1
    OBVIOUS
  <2>2. EntityArgs(N, 0) = [j \in 1..N |-> Ent(<<"ENT-", ToString(0 + j - 1)>>)]
    BY <1>1 DEF EntityArgs
  <2>3. EntityArgs(N, 0)[from + k] = Ent(<<"ENT-", ToString(from + k - 1)>>) /\ from + k \in DOMAIN EntityArgs(N, 0)
    BY <2>1, <2>2
  <2> QED BY <2>3 DEF Placeholders, ToSet
<1>4. EntityArgs(count, from) \in Seq(Placeholders(N)) /\ Len(EntityArgs(count, from)) = count
  <2> DEFINE f == [k \in 1..count |-> Ent(<<"ENT-", ToString(from + k - 1)>>)]
             P == Placeholders(N)
  <2>1. \A k \in 1..count : f[k] \in P
    BY <1>3
  <2>2. DOMAIN f = 1..count /\ f = [k \in 1..count |-> f[k]]
    OBVIOUS
  <2> HIDE DEF f, P
  <2>3. f \in Seq(P) /\ Len(f) = count
    BY <2>1, <2>2
  <2> QED BY <1>2, <2>3 DEF f, P
<1> DEFINE fresh == Numbered("v", count, 0)
           g == [k \in DOMAIN fresh |-> Var(fresh[k])]
<1>5. ASSUME NEW k \in 1..count
      PROVE  g[k] \in Placeholders(N)
  <2>1. k \in 1..N
    OBVIOUS
  <2>2. fresh[k] = Numbered("v", N, 0)[k] /\ k \in DOMAIN Numbered("v", N, 0) /\ k \in DOMAIN fresh
    BY <1>1, <2>1
  <2>3. fresh[k] \in ToSet(Numbered("v", N, 0)) /\ g[k] = Var(fresh[k])
    BY <2>2 DEF ToSet
  <2> HIDE DEF g, fresh
  <2> QED BY <2>3 DEF Placeholders
<1>6. g \in Seq(Placeholders(N)) /\ Len(g) = count
  <2> DEFINE P == Placeholders(N)
  <2>1. \A k \in 1..count : g[k] \in P
    BY <1>5
  <2>2. DOMAIN g = 1..count /\ g = [k \in 1..count |-> g[k]]
    BY <1>1
  <2> HIDE DEF g, P
  <2>3. g \in Seq(P) /\ Len(g) = count
    BY <2>1, <2>2
  <2> QED BY <2>3 DEF P
<1> QED BY <1>4, <1>6

LEMMA ThreeJoined ==
  \A S : \A a, b, c \in Seq(S) : Len(a \o b \o c) = Len(a) + Len(b) + Len(c)
<1> SUFFICES ASSUME NEW S, NEW a \in Seq(S), NEW b \in Seq(S), NEW c \in Seq(S)
             PROVE  Len(a \o b \o c) = Len(a) + Len(b) + Len(c)
  OBVIOUS
<1>1. a \o b \in Seq(S) /\ Len(a \o b) = Len(a) + Len(b)
  OBVIOUS
<1>2. \A d \in Seq(S) : Len(d \o c) = Len(d) + Len(c)
  OBVIOUS
<1> QED BY <1>1, <1>2

Made(p) == IsSeq(p.args) /\ p.named = <<>> /\ ToSet(p.args) \subseteq Placeholders(Len(p.args))

\* What the decoder builds are placeholders.
LEMMA PredicateBuilt ==
  ASSUME NEW head, NEW types, \A f \in FeatureNames : types[f] \in Nat
  PROVE  Made(build_predicate(head, types)) /\ build_predicate(head, types).head = [name |-> head.name]
<1> DEFINE c == [f \in FeatureNames |-> Rounded(types[f])]
           literals == Larger(c["Lit"], c["Dec"] + c["Str"] + c["Other"])
           literal(k) == IF k <= c["Dec"] THEN Lit(Dec(0, 1))
                         ELSE IF k <= c["Dec"] + c["Str"] THEN Str(<<"placeholder">>)
                         ELSE Lit([type |-> "Bool", text |-> <<"f">>])
           fresh == Numbered("v", c["Var"], 0)
           es == EntityArgs(c["Ent"], 0)
           ls == [k \in 1..literals |-> literal(k)]
           vs == [k \in DOMAIN fresh |-> Var(fresh[k])]
           args == es \o ls \o vs
           missing == IF head.kind = "Relation" /\ Len(args) < 2 THEN 2 - Len(args) ELSE 0
           ms == EntityArgs(missing, c["Ent"])
           all == args \o ms
           h == [name |-> head.name]
<1>1. build_predicate(head, types) = Pred(h, all, <<>>)
  BY Zenon DEF build_predicate
<1>2. c["Lit"] \in Nat /\ c["Dec"] \in Nat /\ c["Str"] \in Nat /\ c["Other"] \in Nat /\ c["Var"] \in Nat /\ c["Ent"] \in Nat
  BY FeatureNamesAre, RoundedNat
<1> HIDE DEF c
<1>3. literals \in Nat
  BY <1>2 DEF Larger
<1>4. ASSUME NEW N \in Nat, c["Ent"] <= N, c["Var"] <= N
      PROVE  /\ es \in Seq(Placeholders(N)) /\ ls \in Seq(Placeholders(N)) /\ vs \in Seq(Placeholders(N))
             /\ Len(es) = c["Ent"] /\ Len(ls) = literals /\ Len(vs) = c["Var"]
  <2> DEFINE P == Placeholders(N)
  <2>1. \A k \in 1..literals : ls[k] \in P
    <3>1. {Lit(Dec(0, 1)), Str(<<"placeholder">>), Lit([type |-> "Bool", text |-> <<"f">>])} \subseteq P
      BY DEF Placeholders
    <3> HIDE DEF P
    <3>2. \A k : literal(k) \in P
      BY <3>1
    <3> HIDE DEF literal, literals
    <3> QED BY <3>2
  <2> HIDE DEF literal, literals, P
  <2>2. DOMAIN ls = 1..literals /\ ls = [k \in 1..literals |-> ls[k]]
    OBVIOUS
  <2> HIDE DEF ls
  <2>3. ls \in Seq(P) /\ Len(ls) = literals
    BY <1>3, <2>1, <2>2
  <2>4. 0 + c["Ent"] <= N /\ 0 + c["Var"] <= N /\ 0 \in Nat
    BY <1>2, <1>4
  <2>5. es \in Seq(P) /\ Len(es) = c["Ent"]
    BY <1>2, <2>4, NumberedPlaceholders DEF P
  <2>6. vs \in Seq(P) /\ Len(vs) = c["Var"]
    BY <1>2, <2>4, NumberedPlaceholders DEF P
  <2> QED BY <2>3, <2>5, <2>6 DEF P
<1> HIDE DEF es, ls, vs, literals
<1>5. Len(args) = c["Ent"] + literals + c["Var"] /\ Len(args) \in Nat
  <2> DEFINE N == c["Ent"] + c["Var"]
             P == Placeholders(N)
  <2>1. N \in Nat /\ c["Ent"] <= N /\ c["Var"] <= N
    BY <1>2
  <2> HIDE DEF N
  <2>2. /\ es \in Seq(P) /\ ls \in Seq(P) /\ vs \in Seq(P)
        /\ Len(es) = c["Ent"] /\ Len(ls) = literals /\ Len(vs) = c["Var"]
    BY <1>4, <2>1
  <2> HIDE DEF P
  <2>3. Len(args) = Len(es) + Len(ls) + Len(vs)
    <3>1. es \in Seq(P) /\ ls \in Seq(P) /\ vs \in Seq(P)
      BY <2>2
    <3>2. Len(es \o ls \o vs) = Len(es) + Len(ls) + Len(vs)
      BY ONLY <3>1, ThreeJoined
    <3> QED BY <3>2, Zenon
  <2> HIDE DEF args
  <2> QED BY <1>2, <1>3, <2>2, <2>3
<1> HIDE DEF args
<1>6. missing \in Nat
  BY <1>5
<1> HIDE DEF missing
<1> DEFINE N == c["Ent"] + literals + c["Var"] + missing
           P == Placeholders(N)
<1>7. N \in Nat /\ c["Ent"] <= N /\ c["Var"] <= N /\ c["Ent"] + missing <= N
  BY <1>2, <1>3, <1>6
<1>8. N = Len(args) + missing
  BY <1>2, <1>3, <1>5, <1>6
<1> HIDE DEF N
<1>9. es \in Seq(P) /\ ls \in Seq(P) /\ vs \in Seq(P)
  BY <1>4, <1>7
<1>10. ms \in Seq(P) /\ Len(ms) = missing
  BY <1>2, <1>6, <1>7, NumberedPlaceholders
<1> HIDE DEF P, ms
<1>11. args \in Seq(P)
  BY <1>9 DEF args
<1>12. all \in Seq(P) /\ Len(all) = N
  <2>1. all \in Seq(P) /\ Len(all) = Len(args) + Len(ms)
    BY <1>10, <1>11
  <2> QED BY <1>8, <1>10, <2>1
<1> HIDE DEF all, h
<1>13. IsSeq(all) /\ ToSet(all) \subseteq P
  BY <1>12, InSeq
<1>14. Pred(h, all, <<>>).head = h /\ Pred(h, all, <<>>).args = all /\ Pred(h, all, <<>>).named = <<>>
  BY DEF Pred
<1>15. Made(Pred(h, all, <<>>))
  BY <1>12, <1>13, <1>14 DEF Made, P
<1> QED BY <1>1, <1>14, <1>15 DEF h

LEMMA PlaceholdersAreFlat ==
  ASSUME NEW N, NEW t \in Placeholders(N)
  PROVE  t.kind \notin {"Compound", "List"}
<1>1. \A x : Ent(x).kind = "Ent" /\ Var(x).kind = "Var" /\ Lit(x).kind = "Lit"
  BY TypesOfTerms
<1>2. \A x : x \in ToSet(EntityArgs(N, 0)) => \E y : x = Ent(y)
  BY DEF EntityArgs, ToSet
<1>3. \/ t \in ToSet(EntityArgs(N, 0))
      \/ t \in {Lit(Dec(0, 1)), Lit([type |-> "Str", text |-> <<"placeholder">>]), Lit([type |-> "Bool", text |-> <<"f">>])}
      \/ \E v : t = Var(v)
  BY DEF Placeholders, Str
<1> QED BY <1>1, <1>2, <1>3

-----------------------------------------------------------------------------
(* The baseline codec through any number of hops.                          *)

Registered(h) == \E k \in DOMAIN Morphemes : Morphemes[k].name = head_info(h)

LEMMA HeadInfoOfName ==
  \A x : head_info([name |-> x]) = x /\ HeadShape([name |-> x])
BY DEF head_info, head_text, HeadShape

\* The bag of a node without nested predicates has its head, if that is registered.
LEMMA HeadCounted ==
  ASSUME NEW h, HeadShape(h), NEW k \in DOMAIN Morphemes
  PROVE  HeadCount(h, k) = IF Morphemes[k].name = head_info(h) THEN 1 ELSE 0
<1>1. DOMAIN Morphemes \subseteq Int /\ k \in Int
  BY BatchAssumption, Elements
<1>2. \A j \in DOMAIN Morphemes : Morphemes[j].name = Morphemes[k].name => j = k
  BY BatchAssumption
<1>3. morpheme_of(h) = {k - 1} <=> Morphemes[k].name = head_info(h)
  <2>1. CASE "id" \in DOMAIN h
    <3>1. h = [id |-> h.id] /\ h.id \in Nat /\ \A j \in DOMAIN Morphemes : Morphemes[j].name # head_text(h)
      BY <2>1 DEF HeadShape
    <3>2. morpheme_of(h) = {h.id}
      BY <2>1 DEF morpheme_of
    <3>3. "name" \notin DOMAIN h
      BY <3>1
    <3>4. /\ lookup_id(h.id) = {} => head_info(h) = head_text(h)
          /\ lookup_id(h.id) # {} => head_info(h) = Morphemes[h.id + 1].name
      BY <3>3 DEF head_info
    <3>5. h.id = k - 1 <=> h.id + 1 = k
      BY <1>1, <3>1
    <3>6. lookup_id(h.id) # {} <=> h.id + 1 \in DOMAIN Morphemes
      BY LookedUp
    <3> QED BY <1>2, <3>1, <3>2, <3>4, <3>5, <3>6
  <2>2. CASE "id" \notin DOMAIN h
    <3>1. h = [name |-> h.name] /\ morpheme_of(h) = resolve(h.name)
      BY <2>2 DEF HeadShape, morpheme_of
    <3>2. head_info(h) = h.name
      BY <3>1, HeadInfoOfName
    <3>3. resolve(h.name) = {k - 1} => Morphemes[k].name = h.name
      <4> SUFFICES ASSUME resolve(h.name) = {k - 1} PROVE Morphemes[k].name = h.name
        OBVIOUS
      <4>1. k - 1 \in resolve(h.name) /\ (k - 1) + 1 = k
        BY <1>1
      <4>2. Morphemes[(k - 1) + 1].name = h.name
        BY <4>1, Resolved
      <4> QED BY <4>1, <4>2
    <3>4. Morphemes[k].name = h.name => resolve(h.name) = {k - 1}
      <4>1. k - 1 \in Int /\ (k - 1) + 1 = k
        BY <1>1
      <4>2. resolve(Morphemes[(k - 1) + 1].name) = {k - 1}
        BY <4>1, MorphemeNames
      <4> QED BY <4>1, <4>2
    <3> QED BY <3>1, <3>2, <3>3, <3>4
  <2> QED BY <2>1, <2>2
<1> QED BY <1>3 DEF HeadCount

LEMMA HeadExtracted ==
  ASSUME NEW h, HeadShape(h), NEW bag, bag = [k \in DOMAIN Morphemes |-> HeadCount(h, k)]
  PROVE  /\ extract_head_morpheme(bag) # {} <=> Registered(h)
         /\ \A k \in extract_head_morpheme(bag) : Morphemes[k].name = head_info(h)
<1>1. DOMAIN bag = DOMAIN Morphemes
      /\ \A k \in DOMAIN Morphemes : /\ Morphemes[k].name = head_info(h) => bag[k] = 1
                                     /\ Morphemes[k].name # head_info(h) => bag[k] = 0
  BY HeadCounted
<1>2. \A j, k \in DOMAIN Morphemes : Morphemes[j].name = Morphemes[k].name => j = k
  BY BatchAssumption
<1>3. DOMAIN Morphemes \subseteq Int
  BY BatchAssumption, Elements
<1>4. \A k : k \in extract_head_morpheme(bag) <=>
             k \in DOMAIN bag /\ bag[k] > 0 /\ \A j \in DOMAIN bag : bag[j] < bag[k] \/ (bag[j] = bag[k] /\ k <= j)
  BY DEF extract_head_morpheme
<1>5. \A k \in extract_head_morpheme(bag) : k \in DOMAIN Morphemes /\ Morphemes[k].name = head_info(h)
  <2> SUFFICES ASSUME NEW k \in extract_head_morpheme(bag), k \in DOMAIN Morphemes, Morphemes[k].name # head_info(h)
               PROVE  FALSE
    BY <1>1, <1>4
  <2>1. bag[k] = 0 /\ bag[k] > 0
    BY <1>1, <1>4
  <2> QED BY <2>1
<1>6. ASSUME NEW k \in DOMAIN Morphemes, Morphemes[k].name = head_info(h)
      PROVE  k \in extract_head_morpheme(bag)
  <2>1. bag[k] = 1
    BY <1>1, <1>6
  <2>2. ASSUME NEW j \in DOMAIN bag
        PROVE  bag[j] < bag[k] \/ (bag[j] = bag[k] /\ k <= j)
    <3>1. CASE Morphemes[j].name = head_info(h)
      <4>1. j = k /\ k \in Int
        BY <1>1, <1>2, <1>3, <1>6, <3>1
      <4> QED BY <4>1
    <3>2. CASE Morphemes[j].name # head_info(h)
      <4>1. bag[j] = 0
        BY <1>1, <3>2
      <4> QED BY <2>1, <4>1
    <3> QED BY <3>1, <3>2
  <2> QED BY <1>1, <1>4, <2>1, <2>2
<1> QED BY <1>5, <1>6 DEF Registered

\* m is the node n that was sent, or what the baseline made of it.
BaseCopy(n, d) ==
  /\ FullMeta(d) /\ MetaKept(n, d)
  /\ Flat(n) => /\ FlatSeqs(d) /\ HeadShape(d.pred.head)
                /\ head_info(d.pred.head) = head_info(n.pred.head) /\ d.pred.head.name = head_info(n.pred.head)

BaseNode(n) == FullMeta(n) /\ HeadShape(n.pred.head) /\ IsSeq(n.pred.args) /\ IsSeq(n.pred.named)

LEMMA BaseNodes ==
  ASSUME NEW n, NodeShape(n)
  PROVE  BaseNode(n)
BY NodeMeta DEF BaseNode, NodeShape, FullMeta, HeadShape

LEMMA BaselineHop ==
  ASSUME NEW n, BaseNode(n), NEW m, m = n \/ BaseCopy(n, m), NEW r, r = baseline_decode(baseline_encode_node(m))
  PROVE  /\ r.err = "" => BaseCopy(n, r.val)
         /\ Flat(n) => (r.err = "" <=> Registered(n.pred.head))
<1> DEFINE z == baseline_encode_node(m)
           heads == extract_head_morpheme(z.morphemes)
           head == Morphemes[CHOOSE k \in heads : TRUE]
           pred == build_predicate(head, z.types)
           d == decoded_node(pred, z.meta)
<1>1. /\ z.dim = BaselineDim /\ z.meta = extract_meta_features(m)
      /\ z.morphemes = extract_morpheme_features(m.pred) /\ z.types = extract_type_features(m.pred)
  BY DEF baseline_encode_node, build_vector
<1> HIDE DEF z
<1>2. r = IF heads = {} THEN Bad("no activated morpheme in vector") ELSE Good(d)
  BY <1>1, Zenon DEF baseline_decode, z
<1>3. Bad("no activated morpheme in vector").err # "" /\ Good(d).err = "" /\ Good(d).val = d
  BY Failure, Success
<1> HIDE DEF heads
<1>4. (r.err = "" <=> heads # {}) /\ (r.err = "" => r.val = d)
  <2> HIDE DEF d
  <2> QED BY <1>2, <1>3
<1>5. FullMeta(m)
  BY DEF BaseNode, BaseCopy
<1>6. MetaKept(m, d) /\ d.pred = pred
  <2>1. d.pred = pred
    <3> HIDE DEF pred
    <3> QED BY DEF decoded_node
  <2> HIDE DEF pred
  <2> QED BY <1>1, <1>5, <2>1, MetaReadBack
<1>7. FullMeta(d)
  <2>1. MetaFits(z.meta)
    BY <1>1, <1>5, MetaEncoded DEF FullMeta
  <2>2. MetaShape(d)
    <3> HIDE DEF pred
    <3> QED BY <2>1, BaselineDecoded
  <2>3. d.validity.kind = m.validity.kind
    BY <1>6 DEF MetaKept
  <2> QED BY <1>5, <2>2, <2>3 DEF FullMeta
<1> HIDE DEF d, pred, head
<1>8. MetaKept(n, d)
  BY <1>6 DEF MetaKept, BaseCopy
<1>9. ASSUME Flat(n)
      PROVE  /\ FlatSeqs(m) /\ HeadShape(m.pred.head) /\ head_info(m.pred.head) = head_info(n.pred.head)
  BY <1>9 DEF BaseNode, BaseCopy, FlatSeqs
<1>10. ASSUME Flat(n)
       PROVE  /\ heads # {} <=> Registered(n.pred.head)
              /\ \A k \in heads : Morphemes[k].name = head_info(n.pred.head)
  <2>1. z.morphemes = [k \in DOMAIN Morphemes |-> HeadCount(m.pred.head, k)]
    BY <1>1, <1>9, <1>10, FlatEncoded
  <2>2. /\ heads # {} <=> Registered(m.pred.head)
        /\ \A k \in heads : Morphemes[k].name = head_info(m.pred.head)
    BY <1>9, <1>10, <2>1, HeadExtracted DEF heads
  <2> QED BY <1>9, <1>10, <2>2 DEF Registered
<1>11. ASSUME Flat(n), heads # {}
       PROVE  /\ FlatSeqs(d) /\ HeadShape(d.pred.head)
              /\ head_info(d.pred.head) = head_info(n.pred.head) /\ d.pred.head.name = head_info(n.pred.head)
  <2>1. \A f \in FeatureNames : z.types[f] \in Nat
    BY <1>1, <1>9, <1>11, FlatEncoded
  <2>2. Made(pred) /\ pred.head = [name |-> head.name]
    BY <2>1, PredicateBuilt DEF pred
  <2>3. head.name = head_info(n.pred.head)
    BY <1>10, <1>11 DEF head
  <2>4. HeadShape(d.pred.head) /\ head_info(d.pred.head) = head.name /\ d.pred.head.name = head.name
    BY <1>6, <2>2, HeadInfoOfName
  <2>5. FlatSeqs(d)
    <3>1. IsSeq(d.pred.args) /\ IsSeq(d.pred.named) /\ d.pred.named = <<>>
      BY <1>6, <2>2, NoElements DEF Made
    <3>2. \A t \in ToSet(d.pred.args) : t.kind \notin {"Compound", "List"}
      BY <1>6, <2>2, PlaceholdersAreFlat DEF Made
    <3>3. d.pred.args \o Values(d.pred.named) = d.pred.args
      <4>1. Values(d.pred.named) = <<>>
        BY <3>1, Unnamed
      <4>2. d.pred.args \in Seq(ToSet(d.pred.args))
        BY <3>1 DEF IsSeq
      <4> QED BY <4>1, <4>2
    <3> QED BY <3>1, <3>2, <3>3 DEF FlatSeqs, Flat
  <2> QED BY <2>3, <2>4, <2>5
<1> QED BY <1>4, <1>7, <1>8, <1>10, <1>11 DEF BaseCopy

Baseline == codec = "baseline" /\ reader = "baseline" /\ Len(sent) = 1

\* What has come back is a copy of the node or an error, and without nested terms
\* only an unknown head is an error; what is under way encodes the node or a copy.
BaselineInv ==
  Baseline =>
    /\ hops = 0 => held = sent
    /\ hops > 0 => /\ (held = <<>> /\ error # "") \/ (error = "" /\ \E d : held = <<d>> /\ BaseCopy(sent[1], d))
                   /\ Flat(sent[1]) => (error = "" <=> Registered(sent[1].pred.head))
    /\ wire # <<>> => \E m : (m = sent[1] \/ BaseCopy(sent[1], m)) /\ wire[1] = baseline_encode_node(m)

LEMMA BaselineInit == Init => BaselineInv
<1> SUFFICES ASSUME Init PROVE BaselineInv
  OBVIOUS
<1>1. hops = 0 /\ held = sent /\ wire = <<>>
  BY DEF Init
<1> QED BY <1>1 DEF BaselineInv

LEMMA BaselineStep == ChannelInv /\ BaselineInv /\ [Next]_vars => BaselineInv'
<1> SUFFICES ASSUME ChannelInv, BaselineInv, [Next]_vars PROVE BaselineInv'
  OBVIOUS
<1> DEFINE n == sent[1]
<1>1. CASE Encode
  <2> DEFINE z == IF Len(held) = 1 THEN encode_node(codec, held[1]) ELSE encode_sequence(codec, held)
             Bearing(y) == \E m : (m = n \/ BaseCopy(n, m)) /\ y = baseline_encode_node(m)
  <2>1. wire = <<>> /\ error = "" /\ wire' = <<z>> /\ UNCHANGED <<codec, reader, sent, held, hops, error>>
    BY <1>1 DEF Encode
  <2>2. ASSUME Baseline PROVE Bearing(z)
    <3>1. Len(held) = 1 /\ (held[1] = n \/ BaseCopy(n, held[1]))
      <4>1. CASE hops = 0
        BY <2>2, <4>1 DEF BaselineInv, Baseline
      <4>2. CASE hops # 0
        <5>1. hops > 0
          BY <4>2, HopsCounted
        <5>2. PICK d : held = <<d>> /\ BaseCopy(n, d)
          BY <2>1, <2>2, <5>1 DEF BaselineInv
        <5>3. Len(held) = 1 /\ held[1] = d
          BY <5>2
        <5> QED BY <5>2, <5>3
      <4> QED BY <4>1, <4>2
    <3>2. z = baseline_encode_node(held[1])
      BY <2>2, <3>1 DEF Baseline, encode_node
    <3> QED BY <3>1, <3>2
  <2> HIDE DEF z
  <2>3. wire'[1] = z
    BY <2>1
  <2> QED BY <2>1, <2>2, <2>3 DEF BaselineInv, Baseline
<1>2. CASE Disturb
  <2>1. codec = "packed" /\ codec' = codec
    BY <1>2 DEF Disturb
  <2> QED BY <2>1 DEF BaselineInv, Baseline
<1>3. CASE Decode
  <2> DEFINE r == decode(reader, wire[1])
  <2>1. /\ wire # <<>> /\ wire' = <<>> /\ hops' = hops + 1 /\ error' = r.err
        /\ held' = (IF r.err = "" THEN <<r.val>> ELSE <<>>) /\ UNCHANGED <<codec, reader, sent>>
    BY <1>3 DEF Decode
  <2>2. hops' > 0 /\ ~(hops' = 0)
    <3>1. hops \in Nat /\ hops' = hops + 1
      BY <2>1, HopsCounted
    <3> QED BY <3>1
  <2>3. ASSUME Baseline
        PROVE  /\ r.err = "" => BaseCopy(n, r.val)
               /\ Flat(n) => (r.err = "" <=> Registered(n.pred.head))
    <3>1. r = baseline_decode(wire[1])
      BY <2>3 DEF Baseline, decode
    <3>2. PICK m : (m = n \/ BaseCopy(n, m)) /\ wire[1] = baseline_encode_node(m)
      BY <2>1, <2>3 DEF BaselineInv
    <3>3. BaseNode(n)
      <4>1. sent # <<>>
        BY <2>3 DEF Baseline
      <4> QED BY <4>1, FirstSent, BaseNodes
    <3> HIDE DEF r
    <3> QED BY <3>1, <3>2, <3>3, BaselineHop
  <2> HIDE DEF r
  <2>4. n' = n /\ Baseline' = Baseline
    BY <2>1 DEF Baseline
  <2>5. ASSUME Baseline
        PROVE  /\ (held' = <<>> /\ error' # "") \/ (error' = "" /\ \E d : held' = <<d>> /\ BaseCopy(n, d))
               /\ Flat(n) => (error' = "" <=> Registered(n.pred.head))
    BY <2>1, <2>3, <2>5
  <2> QED BY <2>1, <2>2, <2>4, <2>5 DEF BaselineInv
<1>4. CASE BenchNode \/ Finished \/ UNCHANGED vars
  <2>1. UNCHANGED <<codec, reader, sent, held, wire, hops, error>>
    BY <1>4 DEF BenchNode, Finished, vars, channel
  <2> QED BY <2>1 DEF BaselineInv, Baseline
<1> QED BY <1>1, <1>2, <1>3, <1>4 DEF Next

\* Through any number of hops the baseline keeps what trust and visibility are decided
\* by, and the head where nothing is nested (encoder.rs: extract_meta_features, decoder.rs: build_metadata).
THEOREM BaselineKeepsMeta == Spec => []BaselineKeeps
<1>1. Init => ChannelInv /\ BaselineInv
  BY ChannelInit, BaselineInit
<1>2. ChannelInv /\ BaselineInv /\ [Next]_vars => (ChannelInv /\ BaselineInv)'
  BY ChannelStep, BaselineStep
<1>3. ChannelInv /\ BaselineInv => BaselineKeeps
  <2> SUFFICES ASSUME ChannelInv, BaselineInv, codec = "baseline", reader = "baseline", Arrived, Len(sent) = 1
               PROVE  \A n \in ToSet(sent) :
                        /\ \A d \in ToSet(held) :
                             /\ MetaKept(n, d)
                             /\ Flat(n) => d.pred.head.name = head_info(n.pred.head)
                        /\ Flat(n) => (held = <<>> <=> ~Registered(n.pred.head))
    BY DEF BaselineKeeps, MetaKept, Registered
  <2>1. Baseline /\ hops > 0 /\ ToSet(sent) = {sent[1]}
    <3>1. IsSeq(sent) /\ hops > 0
      BY FirstSent, BatchAssumption DEF ChannelInv, Arrived
    <3>2. sent = <<sent[1]>>
      BY <3>1, OneElement
    <3> QED BY <3>1, <3>2, Singletons DEF Baseline
  <2> DEFINE n == sent[1]
  <2>2. /\ (held = <<>> /\ error # "") \/ (error = "" /\ \E d : held = <<d>> /\ BaseCopy(n, d))
        /\ Flat(n) => (error = "" <=> Registered(n.pred.head))
    BY <2>1 DEF BaselineInv
  <2> HIDE DEF n
  <2>3. ASSUME NEW d \in ToSet(held)
        PROVE  MetaKept(n, d) /\ (Flat(n) => d.pred.head.name = head_info(n.pred.head))
    <3>1. held # <<>>
      BY NoElements
    <3>2. PICK x : held = <<x>> /\ BaseCopy(n, x)
      BY <2>2, <3>1
    <3>3. d = x
      BY <3>2, Singletons
    <3> QED BY <3>2, <3>3 DEF BaseCopy
  <2>4. held = <<>> <=> error # ""
    BY <2>2, Singletons
  <2> QED BY <2>1, <2>2, <2>3, <2>4 DEF n
<1> QED BY <1>1, <1>2, <1>3, PTL DEF Spec

-----------------------------------------------------------------------------
(* The benchmark's result for a node.                                      *)

LEMMA SumNat ==
  ASSUME NEW f, IsFiniteSet(DOMAIN f), \A x \in DOMAIN f : f[x] \in Nat
  PROVE  SumFunction(f) \in Nat
<1> DEFINE D == DOMAIN f
<1>1. \A x \in D : f[x] \in Int
  OBVIOUS
<1>2. PICK F : IsSum(F, D, f)
  BY <1>1, SumExists
<1>3. SumFunction(f) = F[D]
  BY <1>1, <1>2, SumIs
<1>4. {} \in SUBSET D /\ D \in SUBSET D /\ {} \subseteq D
  OBVIOUS
<1>5. F[{}] = 0 /\ F[D] \in Int
  BY <1>2, <1>4 DEF IsSum
<1>6. F[{}] <= F[D]
  BY <1>2, <1>4, SumGrows
<1> QED BY <1>3, <1>5, <1>6

LEMMA TermsCounted ==
  ASSUME NEW nodes \in Batches, NEW n \in ToSet(nodes),
         NEW t \in ToSet(n.pred.args) \cup ToSet(Values(n.pred.named)), NEW f \in FeatureNames
  PROVE  TermsWith(f, t, inner_terms) \in Nat
<1> DEFINE ts == IF t.kind = "Compound" THEN t.pred.args ELSE ItemsOf(t)
           s == [j \in DOMAIN ts |-> inner_terms[<<f, ts[j]>>]]
<1>1. IsSeq(ts) /\ ToSet(ts) \subseteq Inner
  BY InnerAssumption
<1>2. TermsWith(f, t, inner_terms) = (IF f \in FeaturesOf(t) THEN 1 ELSE 0) + SumFunction(s)
  BY DEF TermsWith, Total
<1> HIDE DEF ts
<1>3. IsFiniteSet(DOMAIN ts) /\ \A j \in DOMAIN ts : ts[j] \in Inner
  <2>1. DOMAIN ts = 1..Len(ts) /\ Len(ts) \in Nat /\ \A j \in DOMAIN ts : ts[j] \in Inner
    BY <1>1, Elements
  <2>2. IsFiniteSet(1..Len(ts))
    BY <2>1, FS_Interval
  <2> QED BY <2>1, <2>2
<1>4. DOMAIN s = DOMAIN ts /\ \A j \in DOMAIN s : s[j] \in Nat
  BY <1>3, InnerAssumption
<1> HIDE DEF s
<1>5. SumFunction(s) \in Nat
  BY <1>3, <1>4, SumNat
<1> QED BY <1>2, <1>5

LEMMA TypesCounted ==
  ASSUME NEW nodes \in Batches, NEW n \in ToSet(nodes), NEW f \in FeatureNames
  PROVE  extract_type_features(n.pred)[f] \in Nat
<1> DEFINE args == n.pred.args
           all == n.pred.args \o Values(n.pred.named)
           s == [j \in DOMAIN all |-> TermsWith(f, all[j], inner_terms)]
           l == IF args = <<>> THEN 1 ELSE Len(args)
<1>1. IsSeq(n.pred.args) /\ IsSeq(n.pred.named)
  BY BatchAssumption DEF NodeShape
<1>2. IsSeq(all) /\ IsFiniteSet(DOMAIN all) /\ ToSet(all) \subseteq ToSet(n.pred.args) \cup ToSet(Values(n.pred.named))
  BY <1>1, Joint, ValuesSeq
<1>3. extract_type_features(n.pred)[f] = (SumFunction(s) * Unit) \div l
  BY DEF extract_type_features, Total
<1>4. l \in Nat \ {0}
  <2> HIDE DEF args
  <2> QED BY <1>1, Elements, Empty DEF args
<1> HIDE DEF all, l
<1>5. \A j \in DOMAIN all : all[j] \in ToSet(n.pred.args) \cup ToSet(Values(n.pred.named))
  BY <1>2, Elements
<1>6. DOMAIN s = DOMAIN all /\ \A j \in DOMAIN s : s[j] \in Nat
  BY <1>5, TermsCounted
<1> HIDE DEF s
<1>7. SumFunction(s) * Unit \in Nat
  BY <1>2, <1>6, SumNat, PositiveUnit
<1>8. (SumFunction(s) * Unit) \div l \in Nat
  BY <1>4, <1>7
<1> QED BY <1>3, <1>8

LEMMA PlaceholderMatched ==
  ASSUME NEW t, LeafShape(t), NEW N, NEW p \in Placeholders(N),
         compare_terms(t, p).level \notin {"Different", "WrongValues"}
  PROVE  t = p
<1>1. p.kind \notin {"Compound", "List"} /\ ((\E x : p = Ent(x)) \/ (\E x : p = Var(x)) \/ (\E x : p = Lit(x)))
  <2>1. \A x \in ToSet(EntityArgs(N, 0)) : \E y : x = Ent(y)
    BY DEF EntityArgs, ToSet
  <2>2. \/ p \in ToSet(EntityArgs(N, 0))
        \/ p \in {Lit(Dec(0, 1)), Lit([type |-> "Str", text |-> <<"placeholder">>]), Lit([type |-> "Bool", text |-> <<"f">>])}
        \/ \E v : p = Var(v)
    BY DEF Placeholders, Str
  <2> QED BY <2>1, <2>2, PlaceholdersAreFlat
<1>2. compare_terms(t, p) = compare_leaves(t, p)
  <2>1. t.kind # p.kind \/ ~Nests(t)
    BY <1>1 DEF Nests
  <2> QED BY <2>1 DEF compare_terms, compare_nested
<1>3. \A b : Judged(compare_terms(t, p), b) => b
  BY DEF Judged
<1>4. t.kind = p.kind
  <2> SUFFICES ASSUME t.kind # p.kind PROVE FALSE
    OBVIOUS
  <2>1. Judged(compare_leaves(t, p), FALSE)
    BY LeavesJudged
  <2> QED BY <1>2, <2>1 DEF Judged
<1>5. /\ \A x : Ent(x).kind = "Ent" /\ Var(x).kind = "Var" /\ Lit(x).kind = "Lit"
  BY TypesOfTerms
<1>6. t.kind \in {"Ent", "Var", "Lit"}
  BY <1>1, <1>4, <1>5
<1>7. /\ t.kind = "Ent" => t = Ent(t.ent)
      /\ t.kind = "Var" => t = Var(t.var)
      /\ t.kind = "Lit" => t = Lit(t.lit)
  BY DEF LeafShape
<1>8. CASE t.kind = "Ent"
  <2>1. PICK x : p = Ent(x)
    BY <1>1, <1>4, <1>5, <1>8
  <2>2. Judged(compare_terms(t, p), t.ent = x)
    BY <1>2, <1>7, <1>8, <2>1, LeavesJudged
  <2> QED BY <1>3, <1>7, <1>8, <2>1, <2>2
<1>9. CASE t.kind = "Var"
  <2>1. PICK x : p = Var(x)
    BY <1>1, <1>4, <1>5, <1>9
  <2>2. Judged(compare_terms(t, p), t.var = x)
    BY <1>2, <1>7, <1>9, <2>1, LeavesJudged
  <2> QED BY <1>3, <1>7, <1>9, <2>1, <2>2
<1>10. CASE t.kind = "Lit"
  <2>1. PICK x : p = Lit(x)
    BY <1>1, <1>4, <1>5, <1>10
  <2>2. Judged(compare_terms(t, p), t.lit = x)
    BY <1>2, <1>7, <1>10, <2>1, LeavesJudged
  <2> QED BY <1>3, <1>7, <1>10, <2>1, <2>2
<1> QED BY <1>6, <1>8, <1>9, <1>10

LEMMA ComparedByParts ==
  ASSUME NEW n, IsSeq(n.pred.args), IsSeq(n.pred.named), NEW d
  PROVE  LET c == compare_predicates(n.pred, d.pred)
             as == n.pred.args \o Values(n.pred.named)
             bs == d.pred.args \o Values(d.pred.named)
         IN /\ Told(c)
            /\ c.level \in {"Exact", "MetadataDrift"} =>
                 /\ Len(n.pred.args) = Len(d.pred.args) /\ Keys(n.pred.named) = Keys(d.pred.named)
                 /\ \A k \in DOMAIN as : compare_terms(as[k], bs[k]).level \notin {"Different", "WrongValues"}
<1> DEFINE c == compare_predicates(n.pred, d.pred)
           as == n.pred.args \o Values(n.pred.named)
           bs == d.pred.args \o Values(d.pred.named)
           parts == [k \in DOMAIN as |-> compare_terms(as[k], bs[k])]
           other == ~compare_heads(n.pred.head, d.pred.head) \/ Len(n.pred.args) # Len(d.pred.args)
                    \/ Keys(n.pred.named) # Keys(d.pred.named)
<1>1. c = IF other THEN Different ELSE ListsBy(as, bs, compare_terms)
  BY Zenon DEF compare_predicates, PredicatesBy
<1>2. ListsBy(as, bs, compare_terms) = IF Len(as) # Len(bs) THEN Different ELSE Verdict(parts)
  BY Zenon DEF ListsBy
<1>3. IsFiniteSet(DOMAIN as)
  BY Joint, ValuesSeq
<1> HIDE DEF as, bs
<1>4. DOMAIN parts = DOMAIN as /\ \A k \in DOMAIN as : parts[k] = compare_terms(as[k], bs[k])
  OBVIOUS
<1>5. ~other => Len(n.pred.args) = Len(d.pred.args) /\ Keys(n.pred.named) = Keys(d.pred.named)
  OBVIOUS
<1> HIDE DEF parts, other, c
<1>6. /\ Told(Verdict(parts))
      /\ Verdict(parts).level \in {"Exact", "MetadataDrift"} <=>
           \A k \in DOMAIN parts : parts[k].level \notin {"Different", "WrongValues"}
  BY <1>3, <1>4, VerdictOf
<1>7. Told(Different) /\ Different.level \notin {"Exact", "MetadataDrift"}
  BY HasScore, Scores
<1>8. Told(c)
  BY <1>1, <1>2, <1>6, <1>7
<1>9. c.level \in {"Exact", "MetadataDrift"} => ~other /\ c = Verdict(parts)
  BY <1>1, <1>2, <1>7
<1>10. c.level \in {"Exact", "MetadataDrift"} =>
         \A k \in DOMAIN as : compare_terms(as[k], bs[k]).level \notin {"Different", "WrongValues"}
  BY <1>4, <1>6, <1>9
<1> QED BY <1>5, <1>8, <1>9, <1>10 DEF c, as, bs

LEMMA OnlyPlaceholders ==
  ASSUME NEW nodes \in Batches, NEW n \in ToSet(nodes), NEW d, Made(d.pred), compare(n, d).score >= Threshold
  PROVE  ToSet(n.pred.args) \subseteq Placeholders(Len(n.pred.args))
<1> DEFINE args == n.pred.args
           dargs == d.pred.args
           as == args \o Values(n.pred.named)
           bs == dargs \o Values(d.pred.named)
           c == compare_predicates(n.pred, d.pred)
<1>1. IsSeq(args) /\ IsSeq(n.pred.named) /\ \A t \in ToSet(args) : LeafShape(t)
  BY BatchAssumption DEF NodeShape, TermShape
<1>2. IsSeq(dargs) /\ d.pred.named = <<>> /\ ToSet(dargs) \subseteq Placeholders(Len(dargs))
  BY DEF Made
<1>3. /\ Told(c)
      /\ c.level \in {"Exact", "MetadataDrift"} =>
           /\ Len(args) = Len(dargs) /\ Keys(n.pred.named) = Keys(d.pred.named)
           /\ \A k \in DOMAIN as : compare_terms(as[k], bs[k]).level \notin {"Different", "WrongValues"}
  BY <1>1, ComparedByParts, Zenon
<1>4. c.level \in {"Exact", "MetadataDrift"}
  BY <1>3, CompareIs
<1>5. n.pred.named = <<>> /\ Values(n.pred.named) = <<>> /\ Values(d.pred.named) = <<>>
  BY <1>1, <1>2, <1>3, <1>4, Unnamed
<1>6. as = args /\ bs = dargs
  <2>1. args \in Seq(ToSet(args)) /\ dargs \in Seq(ToSet(dargs))
    BY <1>1, <1>2 DEF IsSeq
  <2> HIDE DEF args, dargs
  <2>2. args \o <<>> = args /\ dargs \o <<>> = dargs
    BY <2>1
  <2> QED BY <1>5, <2>2, Zenon DEF args, dargs
<1> HIDE DEF args, dargs, as, bs, c
<1>7. ASSUME NEW t \in ToSet(args) PROVE t \in Placeholders(Len(args))
  <2>1. PICK k \in DOMAIN args : t = args[k]
    BY <1>1, Elements
  <2>2. k \in DOMAIN dargs /\ Len(args) = Len(dargs)
    BY <1>1, <1>2, <1>3, <1>4, Elements
  <2>3. dargs[k] \in Placeholders(Len(args))
    BY <1>2, <2>2, Elements
  <2>4. compare_terms(args[k], dargs[k]).level \notin {"Different", "WrongValues"}
    BY <1>3, <1>4, <1>6
  <2>5. args[k] = dargs[k]
    BY <1>1, <2>1, <2>3, <2>4, PlaceholderMatched
  <2> QED BY <2>1, <2>3, <2>5
<1> QED BY <1>7 DEF args

\* What the gates make of one node.
Honest(r, n) ==
  /\ r.node = n /\ r.score \in 0..100
  /\ r.err # "" => r.score = 0
  /\ codec = "packed" => (r.score >= Threshold <=> Carries(n) /\ Affordable(PackedDim, n))
  /\ codec = "baseline" /\ r.score >= Threshold =>
       Affordable(BaselineDim, n) /\ ToSet(n.pred.args) \subseteq Placeholders(Len(n.pred.args))

LEMMA GatesHonest ==
  ASSUME codec \in Codecs, NEW nodes \in Batches, NEW n \in ToSet(nodes)
  PROVE  Honest(bench_single_node_gated(n), n)
<1> DEFINE z == encode_node(codec, n)
           y == IF gates.latent THEN apply_latent_operation(codec, z, Length(n)) ELSE z
           r == decode(codec, y)
           b == bench_single_node_gated(n)
           cheap == within_budget(z.dim, Bytes(n), gates.divisor)
<1>1. b = IF ~cheap THEN Result(n, Different, "")
          ELSE IF r.err # "" THEN Result(n, Different, r.err) ELSE Result(n, compare(n, r.val), "")
  BY Zenon DEF bench_single_node_gated
<1>2. \A dim : within_budget(dim, Bytes(n), gates.divisor) <=> Affordable(dim, n)
  BY DEF within_budget, Affordable
<1>3. Threshold \in 31..85 /\ Different.score = 0
  BY BoundAssumption, Scores
<1>4. NodeShape(n) /\ IsSeq(n.pred.args) /\ IsSeq(n.pred.named)
  BY BatchAssumption DEF NodeShape
<1>5. \A d : Told(compare(n, d))
  BY <1>4, ComparedByParts, CompareIs
<1>6. \A d : compare(n, d).score \in 0..100
  BY <1>5 DEF Told
<1>7. CASE codec = "packed"
  <2>1. z = packed_encode_node(n) /\ r = packed_decode(y)
    BY <1>7 DEF encode_node, decode
  <2> HIDE DEF r
  <2>2. Bears(z, n)
    <3>1. n.auth \in Nat
      BY <1>4, CertainIsNat DEF NodeShape
    <3> QED BY <2>1, <3>1, Encoded
  <2> HIDE DEF z
  <2>3. Bears(y, n) /\ y.auth \in Nat
    <3>1. y = disturb_packed(z) \/ y = z
      BY <1>7 DEF apply_latent_operation
    <3> HIDE DEF y
    <3> QED BY <2>2, <3>1, Disturbed DEF Bears
  <2>4. ArgsShape(n)
    BY <1>4 DEF NodeShape, ArgsShape, TermShape
  <2> HIDE DEF y
  <2>5. /\ Arrives(n) => r = Good(Copy(n, y.auth))
        /\ ~Arrives(n) => r.err # ""
    BY <2>1, <2>3, <2>4, PackedArrival
  <2>6. cheap <=> Affordable(PackedDim, n)
    BY <1>2, <2>2 DEF Bears
  <2> HIDE DEF cheap, b
  <2>7. CASE ~cheap
    <3>1. b = Result(n, Different, "")
      BY <1>1, <2>7
    <3>2. b.node = n /\ b.score = 0 /\ b.err = ""
      <4>1. b.node = n /\ b.score = Different.score /\ b.err = ""
        BY ONLY <3>1 DEF Result
      <4> QED BY <1>3, <4>1
    <3>3. ~(b.score >= Threshold) /\ b.score \in 0..100
      <4>1. Threshold > 0 /\ 0 \in 0..100
        BY <1>3
      <4>2. b.score = 0
        BY <3>2
      <4> HIDE DEF b
      <4> QED BY ONLY <1>3, <4>1, <4>2
    <3> QED BY <1>7, <2>6, <2>7, <3>2, <3>3 DEF Honest, b
  <2>8. CASE cheap /\ ~Arrives(n)
    <3>1. b = Result(n, Different, r.err)
      BY <1>1, <2>5, <2>8
    <3>2. b.node = n /\ b.score = 0
      <4>1. b.node = n /\ b.score = Different.score
        BY ONLY <3>1 DEF Result
      <4> QED BY <1>3, <4>1
    <3>3. ~Carries(n)
      BY <2>8, CarriedArrives
    <3> QED BY <1>3, <1>7, <3>2, <3>3 DEF Honest, b
  <2>9. CASE cheap /\ Arrives(n)
    <3>1. r.err = "" /\ r.val = Copy(n, y.auth)
      BY <2>5, <2>9, Success
    <3>2. b = Result(n, compare(n, Copy(n, y.auth)), "")
      BY <1>1, <2>9, <3>1
    <3>3. b.node = n /\ b.score = compare(n, Copy(n, y.auth)).score /\ b.err = ""
      BY ONLY <3>2 DEF Result
    <3>4. b.score >= Threshold <=> Carries(n)
      BY <2>3, <2>9, <3>3, CopyCompared
    <3> QED BY <1>6, <1>7, <2>6, <2>9, <3>3, <3>4 DEF Honest, b
  <2> QED BY <2>7, <2>8, <2>9
<1>8. CASE codec = "baseline"
  <2>1. z = baseline_encode_node(n) /\ r = baseline_decode(y)
    BY <1>8 DEF encode_node, decode
  <2>2. z.dim = BaselineDim /\ z.types = extract_type_features(n.pred) /\ "types" \in DOMAIN z
    BY <2>1 DEF baseline_encode_node, build_vector
  <2>3. y.dim = BaselineDim /\ \A f \in FeatureNames : y.types[f] \in Nat
    <3>1. y = disturb_baseline(z, Length(n)) \/ y = z
      BY <1>8 DEF apply_latent_operation, Codecs
    <3>2. \A f \in FeatureNames : z.types[f] \in Nat
      BY <2>2, TypesCounted
    <3>3. Length(n) \in Nat \ {0} /\ Unit \in Nat
      BY BatchAssumption, PositiveUnit
    <3> HIDE DEF y, z
    <3>4. CASE y = disturb_baseline(z, Length(n))
      <4>1. y.dim = z.dim
        BY <3>4 DEF disturb_baseline
      <4>2. y.types = [f \in FeatureNames |-> (z.types[f] * Unit) \div Length(n)]
        BY <2>2, <3>4 DEF disturb_baseline
      <4>3. \A x, l \in Nat : l # 0 => (x * Unit) \div l \in Nat
        BY <3>3
      <4> QED BY <2>2, <3>2, <3>3, <4>1, <4>2, <4>3
    <3> QED BY <2>2, <3>1, <3>2, <3>4
  <2>4. cheap <=> Affordable(BaselineDim, n)
    BY <1>2, <2>2
  <2> HIDE DEF cheap, b, r, z, y
  <2>5. r.err = "" => Made(r.val.pred)
    <3> DEFINE heads == extract_head_morpheme(y.morphemes)
               pred == build_predicate(Morphemes[CHOOSE k \in heads : TRUE], y.types)
               node == decoded_node(pred, y.meta)
    <3>1. r = IF heads = {} THEN Bad("no activated morpheme in vector") ELSE Good(node)
      BY <2>1, <2>3, Zenon DEF baseline_decode
    <3>2. \A f \in FeatureNames : y.types[f] \in Nat
      BY <2>3
    <3>3. Made(pred)
      BY <3>2, PredicateBuilt
    <3>4. node.pred = pred
      <4> HIDE DEF pred
      <4> QED BY DEF decoded_node
    <3> HIDE DEF heads, node, pred
    <3>5. Bad("no activated morpheme in vector").err # "" /\ Good(node).val = node
      BY Failure, Success
    <3> QED BY <3>1, <3>3, <3>4, <3>5
  <2>6. CASE ~cheap \/ r.err # ""
    <3>1. b = Result(n, Different, "") \/ b = Result(n, Different, r.err)
      BY <1>1, <2>6
    <3>2. b.node = n /\ b.score = Different.score
      <4>1. ASSUME b = Result(n, Different, "") PROVE b.node = n /\ b.score = Different.score
        BY ONLY <4>1 DEF Result
      <4>2. ASSUME b = Result(n, Different, r.err) PROVE b.node = n /\ b.score = Different.score
        BY ONLY <4>2 DEF Result
      <4> QED BY <3>1, <4>1, <4>2
    <3>3. b.score = 0 /\ ~(b.score >= Threshold) /\ b.score \in 0..100
      BY <1>3, <3>2
    <3> QED BY <1>8, <3>2, <3>3 DEF Honest, b
  <2>7. CASE cheap /\ r.err = ""
    <3>1. b = Result(n, compare(n, r.val), "")
      BY <1>1, <2>7
    <3>2. b.node = n /\ b.score = compare(n, r.val).score /\ b.err = ""
      BY ONLY <3>1 DEF Result
    <3>3. b.score >= Threshold => ToSet(n.pred.args) \subseteq Placeholders(Len(n.pred.args))
      BY <2>5, <2>7, <3>2, OnlyPlaceholders
    <3> QED BY <1>6, <1>8, <2>4, <2>7, <3>2, <3>3 DEF Honest, b
  <2> QED BY <2>6, <2>7
<1> QED BY <1>7, <1>8 DEF Codecs

LEMMA Dominated ==
  ASSUME NEW f, IsFiniteSet(DOMAIN f), NEW top \in Nat, \A x \in DOMAIN f : f[x] \in 0..top,
         NEW bound \in Nat
  PROVE  bound * Cardinality({x \in DOMAIN f : f[x] >= bound}) <= SumFunction(f)
<1> DEFINE D == DOMAIN f
           P == {x \in D : f[x] >= bound}
<1>1. \A x \in D : f[x] \in Int /\ f[x] \in Nat
  OBVIOUS
<1>2. PICK F : IsSum(F, D, f)
  BY <1>1, SumExists
<1>3. SumFunction(f) = F[D]
  BY <1>1, <1>2, SumIs
<1>4. P \in SUBSET D /\ D \in SUBSET D /\ P \subseteq D /\ IsFiniteSet(P)
  BY FS_Subset
<1>5. F[P] <= F[D]
  BY <1>1, <1>2, <1>4, SumGrows
<1> DEFINE g == [x \in P |-> f[x]]
<1>6. SumFunction(g) = F[P]
  BY <1>1, <1>2, <1>4, SumIs
<1>7. IsFiniteSet(DOMAIN g) /\ DOMAIN g = P /\ \A x \in DOMAIN g : g[x] \in (IF bound <= top THEN bound ELSE 0)..top
  BY <1>4
<1>8. CASE bound <= top
  <2>1. \A x \in DOMAIN g : g[x] \in bound..top
    BY <1>7, <1>8
  <2> HIDE DEF g
  <2>2. bound * Cardinality(P) <= SumFunction(g)
    BY <1>7, <2>1, SumWithin
  <2>3. Cardinality(P) \in Nat
    BY <1>4, FS_CardinalityType
  <2>4. F[P] \in Int /\ F[D] \in Int
    BY <1>2, <1>4 DEF IsSum
  <2> HIDE DEF P, D
  <2>5. bound * Cardinality(P) \in Int
    BY <2>3
  <2>6. bound * Cardinality(P) <= SumFunction(f)
    BY <1>3, <1>5, <1>6, <2>2, <2>4, <2>5
  <2> QED BY <2>6 DEF P, D
<1>9. CASE bound > top
  <2>1. P = {}
    BY <1>9
  <2>2. Cardinality(P) = 0
    BY <2>1, FS_EmptySet
  <2>3. SumFunction(f) \in Nat
    BY <1>1, SumNat
  <2> QED BY <2>2, <2>3
<1> QED BY <1>8, <1>9

LEMMA Highest ==
  ASSUME NEW S, S # {}, NEW top \in Nat, S \subseteq 0..top
  PROVE  Max(S) \in S /\ \A s \in S : s <= Max(S)
<1> DEFINE T == {top - s : s \in S}
<1>1. T \subseteq Nat /\ T # {}
  OBVIOUS
<1>2. PICK x \in T : \A y \in T : x <= y
  BY <1>1, LeastNat
<1>3. PICK m \in S : x = top - m
  BY <1>2
<1>4. ASSUME NEW s \in S PROVE s <= m
  BY <1>2, <1>3
<1>5. \E m1 \in S : \A s \in S : s <= m1
  BY <1>4
<1>6. \A s, t \in S : s <= t <=> t >= s
  OBVIOUS
<1> QED BY <1>5, <1>6 DEF Max

LEMMA Figures ==
  ASSUME IsSeq(details), \A k \in DOMAIN details : details[k].score \in 0..100
  PROVE  /\ Summary.total = Len(details)
         /\ Summary.passed * Threshold <= Summary.sum /\ Summary.sum <= Summary.total * Summary.max
<1> DEFINE f == [k \in DOMAIN details |-> details[k].score]
           scores == {details[k].score : k \in DOMAIN details}
           top == IF scores = {} THEN 0 ELSE Max(scores)
           P == {k \in DOMAIN details : details[k].score >= Threshold}
<1>1. Summary.total = Len(details) /\ Summary.passed = Cardinality(P) /\ Summary.sum = SumFunction(f) /\ Summary.max = top
  BY DEF Summary, Total
<1>2. DOMAIN details = 1..Len(details) /\ Len(details) \in Nat
  BY Elements
<1>3. DOMAIN f = 1..Len(details) /\ IsFiniteSet(DOMAIN f) /\ Cardinality(DOMAIN f) = Len(details)
  <2>1. DOMAIN f = 1..Len(details)
    BY <1>2
  <2>2. IsFiniteSet(1..Len(details)) /\ Cardinality(1..Len(details)) = Len(details)
    <3> DEFINE n == Len(details)
    <3>1. n \in Nat
      BY <1>2
    <3> HIDE DEF n
    <3>2. IsFiniteSet(1..n) /\ Cardinality(1..n) = IF 1 > n THEN 0 ELSE n - 1 + 1
      BY <3>1, FS_Interval
    <3>3. Cardinality(1..n) = n
      BY <3>1, <3>2
    <3> QED BY <3>2, <3>3 DEF n
  <2> HIDE DEF f
  <2> QED BY <2>1, <2>2
<1>4. \A k \in DOMAIN f : f[k] = details[k].score /\ f[k] \in 0..100
  BY <1>2
<1>5. P = {k \in DOMAIN f : f[k] >= Threshold}
  BY <1>4
<1>6. Threshold \in Nat /\ 100 \in Nat
  BY BoundAssumption
<1>7. top \in Nat /\ \A k \in DOMAIN f : f[k] \in 0..top
  <2>1. scores \subseteq 0..100
    OBVIOUS
  <2>2. \A k \in DOMAIN f : f[k] \in scores
    BY <1>4
  <2> HIDE DEF scores, f
  <2>3. CASE scores = {}
    BY <2>2, <2>3
  <2>4. CASE scores # {}
    <3>1. top \in scores /\ \A s \in scores : s <= top
      BY <1>6, <2>1, <2>4, Highest
    <3> HIDE DEF top
    <3> QED BY <1>4, <2>1, <2>2, <3>1
  <2> QED BY <2>3, <2>4
<1> HIDE DEF f, scores, top
<1>8. Threshold * Cardinality(P) <= SumFunction(f)
  BY <1>3, <1>4, <1>5, <1>6, Dominated
<1>9. SumFunction(f) <= top * Len(details)
  BY <1>3, <1>7, SumWithin
<1>10. Cardinality(P) \in Nat
  <2>1. IsFiniteSet(P)
    BY <1>3, <1>5, FS_Subset
  <2> QED BY <2>1, FS_CardinalityType
<1> HIDE DEF P
<1>11. Threshold * Cardinality(P) = Cardinality(P) * Threshold /\ top * Len(details) = Len(details) * top
  BY <1>2, <1>6, <1>7, <1>10
<1> QED BY <1>1, <1>8, <1>9, <1>11

LEMMA BenchMeans == ChannelInv /\ BenchInv => BenchHonest
<1> SUFFICES ASSUME ChannelInv, BenchInv, rest = <<>> PROVE BenchHonest
  BY DEF BenchHonest
<1> DEFINE nodes == TestNodes(sent, gates)
           named == [k \in DOMAIN details |-> details[k].node]
<1>1. /\ gates \in GateConfigs /\ IsSeq(nodes) /\ IsSeq(details)
      /\ Len(details) + Len(rest) = Len(nodes)
      /\ \A k \in 1..Len(details) : details[k] = bench_single_node_gated(nodes[k])
  BY DEF BenchInv
<1>2. sent \in Batches /\ codec \in Codecs
  BY DEF ChannelInv
<1>3. ToSet(nodes) \subseteq ToSet(sent)
  BY <1>1, <1>2, BatchAssumption, TestsAreSent, InSeq
<1> HIDE DEF nodes
<1>4. /\ Len(nodes) \in Nat /\ DOMAIN nodes = 1..Len(nodes) /\ \A k \in DOMAIN nodes : nodes[k] \in ToSet(nodes)
      /\ Len(details) \in Nat /\ DOMAIN details = 1..Len(details)
  BY <1>1, Elements
<1>5. Len(details) = Len(nodes)
  <2>1. Len(rest) = 0
    BY NoElements
  <2> QED BY <1>1, <1>4, <2>1
<1>6. ASSUME NEW k \in DOMAIN details
      PROVE  details[k].node = nodes[k] /\ Honest(details[k], details[k].node) /\ details[k].score \in 0..100
  <2>1. nodes[k] \in ToSet(sent) /\ details[k] = bench_single_node_gated(nodes[k])
    BY <1>1, <1>3, <1>4, <1>5
  <2>2. Honest(details[k], nodes[k])
    BY <1>2, <2>1, GatesHonest
  <2>3. details[k].node = nodes[k] /\ details[k].score \in 0..100
    BY <2>2 DEF Honest
  <2> QED BY <2>2, <2>3
<1>7. named = nodes
  <2>1. nodes = [k \in 1..Len(nodes) |-> nodes[k]]
    <3>1. nodes \in Seq(ToSet(nodes))
      BY <1>1 DEF IsSeq
    <3> QED BY <3>1
  <2> QED BY <1>4, <1>5, <1>6, <2>1
<1> HIDE DEF named
<1>8. /\ Summary.total = Len(details)
      /\ Summary.passed * Threshold <= Summary.sum /\ Summary.sum <= Summary.total * Summary.max
  BY <1>1, <1>6, Figures
<1>9. ASSUME NEW k \in DOMAIN details
      PROVE  /\ details[k].err # "" => details[k].score = 0
             /\ codec = "packed" =>
                  (details[k].score >= Threshold
                   <=> Carries(details[k].node) /\ Affordable(PackedDim, details[k].node))
             /\ codec = "baseline" /\ details[k].score >= Threshold =>
                  /\ Affordable(BaselineDim, details[k].node)
                  /\ \E args \in {details[k].node.pred.args} : ToSet(args) \subseteq Placeholders(Len(args))
  BY <1>6 DEF Honest
<1> QED BY <1>5, <1>7, <1>8, <1>9 DEF BenchHonest, nodes, named

THEOREM FiguresAreHonest == Spec => []BenchHonest
<1>1. Init => ChannelInv /\ BenchInv
  BY ChannelInit, BenchInit
<1>2. ChannelInv /\ BenchInv /\ [Next]_vars => ChannelInv' /\ BenchInv'
  BY ChannelStep, BenchStep
<1>3. ChannelInv /\ BenchInv => BenchHonest
  BY BenchMeans
<1> QED BY <1>1, <1>2, <1>3, PTL DEF Spec
=============================================================================
