------------------------------ MODULE Verifiers ------------------------------
(***************************************************************************)
(* factum-rt/src/verifier.rs: what the built-in verifiers say of a node    *)
(* before it is stored. A signature is the number of its required and of   *)
(* all its parameters; every seed's has its arrow.                         *)
(***************************************************************************)
EXTENDS Serializer

CONSTANTS
  Seeds,      \* the seeds: a sequence of [name, kind, required, total]
  MaxScale, MaxDigits   \* 38 both in the code

NameOf(def) == def.name
DefOf(name, registry) ==
  {registry[k] : k \in {j \in DOMAIN registry : registry[j].name = name}}

\* register: a name that is known keeps its number.
Register(registry, def) ==
  IF DefOf(def.name, registry) # {} THEN registry ELSE Append(registry, def)
with_seeds == FoldLeft(Register, <<>>, Seeds)

ArityFits(def, p) ==
  def.total > 0 =>
    LET provided == Len(p.args) + Len(p.named)
    IN def.required <= provided /\ provided <= def.total

\* can_verify: the head is a known morpheme, an argument is a decimal.
SchemaVerifier(p, registry) ==
  LET defs == DefOf(p.head, registry)
  IN IF defs = {} THEN "skipped"
     ELSE IF \A def \in defs : ArityFits(def, p) /\ (def.kind = "Entity" => p.args = <<>>)
     THEN "Pass" ELSE "Fail"

Decimals(p) == {t.lit : t \in {u \in ToSet(p.args) : u.kind = "Lit" /\ u.lit.type = "Dec"}}
DecimalRangeVerifier(p) ==
  IF Decimals(p) = {} THEN "skipped"
  ELSE IF \A l \in Decimals(p) : l.scale <= MaxScale /\ Len(DigitsOf(Magnitude(l.m))) <= MaxDigits
  THEN "Pass" ELSE "Fail"

verify(p, registry) ==
  LET verdicts == {SchemaVerifier(p, registry), DecimalRangeVerifier(p)}
  IN IF "Fail" \in verdicts THEN "Fail" ELSE IF "Pass" \in verdicts THEN "Pass" ELSE "Inconclusive"
=============================================================================
