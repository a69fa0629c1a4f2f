------------------------------- MODULE Packing -------------------------------
(***************************************************************************)
(* The numbers of factum-l/src/packed_codec.rs: two characters in a float, *)
(* and the argument count with three type codes in another. A float is the *)
(* integer the code divides by a constant to obtain it.                    *)
(***************************************************************************)
EXTENDS Integers, Sequences

CONSTANTS
  Charset,   \* the characters that have a code, in order
  ArgFloats  \* floats of an argument, two characters each: 6 in the code

ASSUME PackingAssumption ==
  /\ Len(Charset) \in Nat /\ DOMAIN Charset = 1..Len(Charset)
  /\ \A j, k \in DOMAIN Charset : Charset[j] = Charset[k] => j = k
  /\ ArgFloats \in Nat

Base == Len(Charset) + 1

-----------------------------------------------------------------------------
(* Characters. Code 0 ends a string; a character without a code has it.    *)

HasCode(c) == \E k \in DOMAIN Charset : Charset[k] = c
CodeOf(c) == CHOOSE k \in DOMAIN Charset : Charset[k] = c

\* A character without a code becomes a full stop.
char_to_idx_dot(c) == CodeOf(IF HasCode(c) THEN c ELSE ".")
char_to_idx(c) == IF HasCode(c) THEN CodeOf(c) ELSE 0
CharIdx(s, k) == IF k \in DOMAIN s THEN char_to_idx(s[k]) ELSE 0

\* The first character is skipped.
encode_string_late(s) == [k \in 1..ArgFloats |-> CharIdx(s, 2 * k) * Base + CharIdx(s, 2 * k + 1)]
encode_string(s) == [k \in 1..ArgFloats |-> CharIdx(s, 2 * k - 1) * Base + CharIdx(s, 2 * k)]

decode_2chars(v) == <<(v \div Base) % Base, v % Base>>

\* The code of the j-th character: odd ones come first in their float.
Decoded(floats, j) == decode_2chars(floats[(j + 1) \div 2])[2 - (j % 2)]

\* Up to the first code 0, if there is one.
decode_string(floats) ==
  LET read == {j \in 0..(2 * Len(floats)) : \A i \in 1..j : Decoded(floats, i) # 0}
      last == CHOOSE j \in read : \A i \in read : i <= j
  IN [j \in 1..last |-> Charset[Decoded(floats, j)]]

-----------------------------------------------------------------------------
(* The count of arguments, at most three, and their type codes up to 10.   *)

MaxArgs == 3

\* The encoder counts in tens, the decoder in elevens.
pack_args_10(count, t) == count * 1331 + t[1] * 100 + t[2] * 10 + t[3]
pack_args(count, t) == count * 1331 + t[1] * 121 + t[2] * 11 + t[3]

unpack_args(packed) ==
  LET rest == packed % 1331
  IN [count |-> IF packed \div 1331 < MaxArgs THEN packed \div 1331 ELSE MaxArgs,
      types |-> <<rest \div 121, (rest \div 11) % 11, rest % 11>>]
=============================================================================
