----------------------- MODULE VerificationController -----------------------
(***************************************************************************)
(* verifaxis/controller.py: the rule-based stopping policy.  It is a pure  *)
(* function of the trace and of the packets of the newest step; a          *)
(* controller is the record of its three settings.                         *)
(***************************************************************************)
EXTENDS EvidenceTypes

\* The dataclass with the bounds of __post_init__.
Controller ==
    [plateau_patience : Nat \ {0},
     oscillation_window : {n \in Nat : n >= 3},
     require_independent_evidence : BOOLEAN]

Statuses(evidence) == {evidence[i].status : i \in DOMAIN evidence}

\* The indices of the slice steps[-n:].
LastIndices(steps, n) == {i \in 1..Len(steps) : i > Len(steps) - n}

----------------------------------------------------------------------------
(* Plausible slips in the rules below, kept to show that the properties of *)
(* the runs notice them; no behaviour uses them.                           *)

ConflictedNever(evidence) == FALSE

SelfCertifiedWhenAllAre(evidence) ==
    \A i \in DOMAIN evidence : ~IsIndependent(evidence[i])

UnsettledNever(evidence) == FALSE

IsOscillatingShortWindow(ctl, steps) ==
    /\ Len(steps) >= 3
    /\ \E i \in LastIndices(steps, ctl.oscillation_window - 1) :
          /\ i <= Len(steps) - 2
          /\ steps[i].candidate = steps[Len(steps)].candidate

IsPlateauLate(ctl, steps) ==
    /\ Len(steps) > ctl.plateau_patience + 1
    /\ \A i \in LastIndices(steps, ctl.plateau_patience + 2) :
          Residual(steps[i].evidence) = Residual(steps[Len(steps)].evidence)

----------------------------------------------------------------------------

Tampered(evidence) ==
    \E i \in DOMAIN evidence : ~ValidateHash(evidence[i])

Conflicted(evidence) == {"PASS", "FAIL"} \subseteq Statuses(evidence)

Passed(evidence) == Statuses(evidence) = {"PASS"}

SelfCertified(evidence) ==
    \E i \in DOMAIN evidence : ~IsIndependent(evidence[i])

Unsettled(evidence) == Statuses(evidence) = {"UNKNOWN"}

\* _is_oscillating: the newest candidate already occurred in the window, at
\* least two steps ago (recent[:-2]).
IsOscillating(ctl, steps) ==
    /\ Len(steps) >= 3
    /\ \E i \in LastIndices(steps, ctl.oscillation_window) :
          /\ i <= Len(steps) - 2
          /\ steps[i].candidate = steps[Len(steps)].candidate

\* _is_plateau: the last plateau_patience + 1 residual fingerprints are equal.
IsPlateau(ctl, steps) ==
    /\ Len(steps) >= ctl.plateau_patience + 1
    /\ \A i \in LastIndices(steps, ctl.plateau_patience + 1) :
          Residual(steps[i].evidence) = Residual(steps[Len(steps)].evidence)

\* decide: the early returns, in the order of the code; None asks for another
\* revision.
Decide(ctl, steps, evidence, budgetExhausted) ==
    IF evidence = << >> THEN "UNVERIFIABLE"
    ELSE IF Tampered(evidence) THEN "VERIFIER_ERROR"
    ELSE IF Conflicted(evidence) THEN "VERIFIER_CONFLICT"
    ELSE IF Passed(evidence)
         THEN IF ctl.require_independent_evidence /\ SelfCertified(evidence)
              THEN "UNVERIFIABLE"
              ELSE "VERIFIED"
    ELSE IF Unsettled(evidence) THEN "UNVERIFIABLE"
    ELSE IF IsOscillating(ctl, steps) THEN "OSCILLATION"
    ELSE IF IsPlateau(ctl, steps) THEN "PLATEAU"
    ELSE IF budgetExhausted THEN "BUDGET_EXHAUSTED"
    ELSE None
=============================================================================
