----------------------------- MODULE Calibration -----------------------------
(***************************************************************************)
(* factum-core/src/calibration.rs: which confidence a provenance deserves. *)
(* Confidences are integers, Certain being 1.0; the code's f32 constants   *)
(* are percentages of it. The product of derived_confidence is rounded     *)
(* down to the unit, as f32 rounds it to its own.                          *)
(***************************************************************************)
EXTENDS Integers, FiniteSetsExt

CONSTANT Certain

ASSUME CertainAssumption == Certain \in Nat /\ Certain % 100 = 0

Percent(p) == p * (Certain \div 100)
ProvenanceKinds == {"Verbatim", "Extracted", "Summary", "Asserted", "Derived"}

RuleReliability == Percent(95)

default_confidence_for_provenance ==
  [Verbatim |-> Percent(95), Extracted |-> Percent(80), Summary |-> Percent(75),
   Asserted |-> Percent(60), Derived |-> Percent(80)]

Decayed(conf, reliability) == (conf * reliability) \div Certain

derived_confidence(deps, reliability) ==
  IF deps = {} THEN 0 ELSE Decayed(Min(deps), reliability)

Band(lower, upper) == [lower |-> Percent(lower), upper |-> Percent(upper)]
confidence_band ==
  [Verbatim |-> Band(90, 98), Extracted |-> Band(60, 90), Summary |-> Band(50, 85),
   Asserted |-> Band(30, 80), Derived |-> Band(0, 100)]

check_confidence_band(kind, conf) ==
  confidence_band[kind].lower <= conf /\ conf <= confidence_band[kind].upper
=============================================================================
