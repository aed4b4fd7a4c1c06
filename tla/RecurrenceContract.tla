------------------------- MODULE RecurrenceContract -------------------------
(***************************************************************************)
(* What verifier-conditioned recurrence promises its caller, without       *)
(* packets, candidates or counters: rounds of proposing and checking, each *)
(* complete check summed up in one judgement, and an end whose reason the  *)
(* last judgement permits.  VerifyRuntime implements it.                   *)
(***************************************************************************)
EXTENDS Integers

CONSTANT None

VARIABLES
    limit,      \* proposals the caller pays for
    phase,      \* "propose", "check" or "stopped"
    judgement,  \* of the newest checked proposal, "none" before and while checking
    rounds,     \* proposals whose check has ended
    verdict     \* the reason of the end, None before

vars == <<limit, phase, judgement, rounds, verdict>>

Judgement ==
    {"none", "supported", "selfSupported", "contradicted", "unsettled",
     "refuted", "interrupted", "broken"}

\* The reasons a check may end the recurrence with.  "refuted" alone also
\* permits another proposal.
Permitted(j) ==
    CASE j = "supported" -> {"VERIFIED"}
      [] j = "selfSupported" -> {"UNVERIFIABLE"}
      [] j = "contradicted" -> {"VERIFIER_CONFLICT"}
      [] j = "unsettled" -> {"UNVERIFIABLE"}
      [] j = "refuted" -> {"OSCILLATION", "PLATEAU", "BUDGET_EXHAUSTED"}
      [] j = "interrupted" -> {"BUDGET_EXHAUSTED"}
      [] j = "broken" -> {"VERIFIER_ERROR"}
      [] j = "none" -> {}

Init ==
    /\ limit \in Nat \ {0}
    /\ phase = "propose"
    /\ judgement = "none"
    /\ rounds = 0
    /\ verdict = None

Propose ==
    /\ phase = "propose"
    /\ rounds < limit
    /\ phase' = "check"
    /\ judgement' = "none"
    /\ UNCHANGED <<limit, rounds, verdict>>

Revise ==
    /\ phase = "check"
    /\ rounds + 1 < limit
    /\ phase' = "propose"
    /\ judgement' = "refuted"
    /\ rounds' = rounds + 1
    /\ UNCHANGED <<limit, verdict>>

Conclude(j) ==
    /\ phase = "check"
    /\ phase' = "stopped"
    /\ judgement' = j
    /\ rounds' = rounds + 1
    /\ verdict' \in Permitted(j)
    /\ UNCHANGED limit

\* No proposal could be made, or none is allowed any more.
GiveUp ==
    /\ phase = "propose"
    /\ phase' = "stopped"
    /\ verdict' \in {"MODEL_ERROR", "BUDGET_EXHAUSTED"}
    /\ UNCHANGED <<limit, judgement, rounds>>

Next ==
    \/ Propose
    \/ Revise
    \/ \E j \in Judgement : Conclude(j)
    \/ GiveUp

Spec == Init /\ [][Next]_vars
=============================================================================
