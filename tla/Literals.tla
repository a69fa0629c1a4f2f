------------------------------ MODULE Literals ------------------------------
(***************************************************************************)
(* Decimals and durations of factum-core/src/types.rs and parser.rs: what  *)
(* a spelling is read as and how a value is spelt. A spelling is a         *)
(* sequence of atoms: digits, the sign, the point, the unit. The integers  *)
(* of the code keep a width: MaxMantissa stands for the largest i128,      *)
(* ScaleWidth for the 2^8 of the u8 scale, MaxU64 and MaxU32 for theirs.   *)
(***************************************************************************)
EXTENDS Integers, Sequences, SequencesExt

CONSTANTS MaxMantissa, ScaleWidth, MaxU64, MaxU32,
          UnitSecs,    \* seconds of each unit parse_duration knows
          NsPerSec

ASSUME WidthAssumption ==
  /\ {MaxMantissa, MaxU64, MaxU32} \subseteq Nat
  /\ {ScaleWidth, NsPerSec} \subseteq Nat \ {0}

DigitSeq == <<"0", "1", "2", "3", "4", "5", "6", "7", "8", "9">>
Digits == ToSet(DigitSeq)
DigitVal == [d \in Digits |-> (CHOOSE k \in 1..10 : DigitSeq[k] = d) - 1]

AllDigits(s) == ToSet(s) \subseteq Digits
NatOf(s) == FoldLeft(LAMBDA n, d : 10 * n + DigitVal[d], 0, s)

digits[n \in Nat] == IF n < 10 THEN <<DigitSeq[n + 1]>>
                     ELSE Append(digits[n \div 10], DigitSeq[(n % 10) + 1])
DigitsOf(n) == digits[n]

\* Where a spelling splits: the first position of an atom, or one past the end.
FirstOf(s, S) == IF \E k \in DOMAIN s : s[k] \in S
                 THEN CHOOSE k \in DOMAIN s : s[k] \in S /\ \A j \in 1..(k - 1) : s[j] \notin S
                 ELSE Len(s) + 1
From(s, k) == SubSeq(s, k, Len(s))

Bad(what) == [err |-> what]
Good(v) == [err |-> "", val |-> v]

-----------------------------------------------------------------------------
(* Decimals: mantissa and scale. Equality is by field: 1.0 # 1.00.         *)

Dec(m, scale) == [type |-> "Dec", m |-> m, scale |-> scale]

\* A sign, a whole part and a fraction.
Parts(s) ==
  LET signed == s # <<>> /\ Head(s) \in {"-", "+"}
      rest == IF signed THEN Tail(s) ELSE s
      dot == FirstOf(rest, {"."})
  IN [neg |-> signed /\ Head(s) = "-", digits |-> SubSeq(rest, 1, dot - 1) \o From(rest, dot + 1),
      scale |-> Len(From(rest, dot + 1))]
Mantissa(p) == IF p.neg THEN -NatOf(p.digits) ELSE NatOf(p.digits)

dec_from_str(s) ==
  LET p == Parts(s)
  IN IF p.digits = <<>> \/ ~AllDigits(p.digits) \/ NatOf(p.digits) > MaxMantissa
     THEN Bad("InvalidDecimal")
     ELSE Good(Dec(Mantissa(p), p.scale % ScaleWidth))

Magnitude(m) == IF m < 0 THEN -m ELSE m

\* The point goes in front of the last scale digits, zeros where there are none.
Pointed(s, scale) ==
  LET point == Len(s) - scale
  IN IF scale = 0 THEN s
     ELSE IF point <= 0 THEN <<"0", ".">> \o [k \in 1..(-point) |-> "0"] \o s
     ELSE SubSeq(s, 1, point) \o <<".">> \o From(s, point + 1)

dec_text(l) == (IF l.m < 0 THEN <<"-">> ELSE <<>>) \o Pointed(DigitsOf(Magnitude(l.m)), l.scale)

-----------------------------------------------------------------------------
(* Durations, in nanoseconds. The seconds are a u64 product, which wraps   *)
(* in a release build.                                                     *)

Dur(ns) == [type |-> "Dur", ns |-> ns]

parse_duration(s) ==
  LET split == FirstOf(s, {a \in ToSet(s) : a \notin Digits})
      num == SubSeq(s, 1, split - 1)
      unit == From(s, split)
  IN IF num = <<>> \/ NatOf(num) > MaxU64 THEN Bad("invalid number")
     ELSE IF unit = <<"ns">> THEN Good(Dur(NatOf(num)))
     ELSE IF Len(unit) = 1 /\ unit[1] \in DOMAIN UnitSecs
          THEN Good(Dur(((NatOf(num) * UnitSecs[unit[1]]) % (MaxU64 + 1)) * NsPerSec))
     ELSE Bad("unknown duration unit")

dur_text(l) == Append(DigitsOf(l.ns), "ns")

-----------------------------------------------------------------------------
(* Confidence and authority: an f32 is the decimal it is the nearest to,   *)
(* without trailing zeros, so that equal numbers are equal records.        *)

trimmed[m \in Int, scale \in Nat] ==
  IF scale > 0 /\ m % 10 = 0 THEN trimmed[m \div 10, scale - 1]
  ELSE [m |-> m, scale |-> scale]
Trimmed(m, scale) == trimmed[m, scale]

F32(s) == LET p == Parts(s) IN Trimmed(Mantissa(p), p.scale)
UnitInterval(v) == 0 <= v.m /\ v.m <= 10 ^ v.scale
f32_text(v) == IF v.scale = 0 THEN dec_text(Dec(v.m * 10, 1)) ELSE dec_text(v)
=============================================================================
