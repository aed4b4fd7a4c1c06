--------------------------- MODULE EvidenceTypes ---------------------------
(***************************************************************************)
(* The vocabulary of verifaxis/types.py: evidence packets, the residual    *)
(* that is carried to the next model call, budgets and termination         *)
(* reasons.  Content hashes are abstracted to the one bit the code reads   *)
(* from them, "sealed": content_hash equals the hash of the content.       *)
(***************************************************************************)
EXTENDS Integers, Sequences, FiniteSets

CONSTANTS
    Candidates,       \* candidate contents; equality is Candidate.fingerprint equality
    Claims,           \* values of EvidencePacket.checked_claim
    Counterexamples,  \* JSON counterexamples other than null
    Provenances,      \* provenance objects
    Reliabilities,    \* reliability objects
    None              \* Python's None

Status == {"PASS", "FAIL", "UNKNOWN"}

Independence == {"INDEPENDENT", "LLM_ASSISTED", "LLM_GENERATED", "UNKNOWN"}

TerminationReason ==
    {"VERIFIED", "BUDGET_EXHAUSTED", "PLATEAU", "OSCILLATION",
     "VERIFIER_CONFLICT", "UNVERIFIABLE", "MODEL_ERROR", "VERIFIER_ERROR"}

ASSUME NoneAssumption ==
    None \notin Candidates \cup Counterexamples \cup Nat \cup TerminationReason

----------------------------------------------------------------------------
(* Evidence packets *)

PacketArguments ==
    [checked_claim : Claims, status : Status,
     counterexample : Counterexamples \cup {None},
     provenance : Provenances, reliability : Reliabilities,
     independence : Independence, llm_produced : BOOLEAN]

EvidencePacket ==
    [checked_claim : Claims, status : Status,
     counterexample : Counterexamples \cup {None},
     provenance : Provenances, reliability : Reliabilities,
     independence : Independence, llm_produced : BOOLEAN, sealed : BOOLEAN]

\* EvidencePacket(...): an LLM-produced packet that claims independence is
\* demoted, and the hash is computed from what results.
NewPacket(arg) ==
    [checked_claim |-> arg.checked_claim, status |-> arg.status,
     counterexample |-> arg.counterexample,
     provenance |-> arg.provenance, reliability |-> arg.reliability,
     independence |->
        IF arg.llm_produced /\ arg.independence = "INDEPENDENT"
        THEN "LLM_GENERATED" ELSE arg.independence,
     llm_produced |-> arg.llm_produced, sealed |-> TRUE]

IsIndependent(p) == p.independence = "INDEPENDENT" /\ ~p.llm_produced

ValidateHash(p) == p.sealed

----------------------------------------------------------------------------
(* The residual of a tuple of packets *)

LOCAL WithStatus(evidence, status) ==
    SelectSeq(evidence, LAMBDA p : p.status = status)

LOCAL CheckedClaims(evidence) ==
    [i \in DOMAIN evidence |-> evidence[i].checked_claim]

\* EvidenceResidual.from_packets, restricted to the three fields that enter the
\* residual fingerprint; equality of this record is equality of fingerprints.
Residual(evidence) ==
    LET failures == WithStatus(evidence, "FAIL")
        witnesses == SelectSeq(failures, LAMBDA p : p.counterexample # None)
    IN  [failed_constraints |-> CheckedClaims(failures),
         counterexamples |-> [i \in DOMAIN witnesses |-> witnesses[i].counterexample],
         unresolved_claims |-> CheckedClaims(WithStatus(evidence, "UNKNOWN"))]

----------------------------------------------------------------------------
(* Budgets and the recurrence trace *)

Budget ==
    [max_iterations : Nat \ {0},
     max_model_calls : (Nat \ {0}) \cup {None},
     max_verifier_calls : (Nat \ {0}) \cup {None},
     wall_time_limited : BOOLEAN]

ModelCallLimit(b) ==
    IF b.max_model_calls = None THEN b.max_iterations ELSE b.max_model_calls

LoopStep ==
    [candidate : Candidates, evidence : Seq(EvidencePacket),
     model_call : Nat, verifier_calls : Nat]

FinalCandidate(steps) ==
    IF steps = << >> THEN None ELSE steps[Len(steps)].candidate
=============================================================================
