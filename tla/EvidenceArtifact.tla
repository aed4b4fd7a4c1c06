-------------------------- MODULE EvidenceArtifact --------------------------
(***************************************************************************)
(* verifaxis/evidence.py: the claim/evidence artifact that is built from   *)
(* the result of a finished run, and the validation that a reader of one   *)
(* performs without running a model or a verifier.                         *)
(*                                                                         *)
(* A digest is modelled by what was digested: two digests are equal when   *)
(* their contents are, and a stored digest can differ from the digest of   *)
(* the content it is stored with.  Producer, schema and fixed texts, which *)
(* a run never varies, are counted as JSON values and otherwise left out.  *)
(***************************************************************************)
EXTENDS EvidenceTypes, SequencesExt

CONSTANTS
    MaxPackets, MaxNodes, MaxDepth,  \* the limits on a document that is read
    Depth(_),  \* levels of nesting of a JSON value; 1 for a scalar or null
    Nodes(_)   \* JSON values in a JSON value, itself included

\* The values of a run that are not of a fixed shape; a candidate stands for the
\* metadata it comes with.
JsonValues ==
    Counterexamples \cup {None} \cup Provenances \cup Reliabilities \cup Candidates

\* The limits leave room for the levels every document has.
ASSUME LimitAssumption ==
    /\ MaxPackets \in Nat /\ MaxNodes \in Nat /\ MaxDepth \in Nat /\ MaxDepth >= 7
    /\ \A v \in JsonValues : Depth(v) \in Nat /\ Nodes(v) \in Nat

\* The part of a RunTrace the artifact is derived from; started stands for the time
\* stamps, which differ between any two runs, errors for the error records.
Trace ==
    [started : Nat, task : STRING, steps : Seq([candidate : Candidates, evidence : Seq(EvidencePacket)]),
     reason : TerminationReason, model_calls : Nat, verifier_calls : Nat, errors : Nat]

----------------------------------------------------------------------------
(* Building, from the objects of a finished run *)

\* The content_hash a packet carries; once the packet was written to, the digest
\* of something else.
ContentHash(p) == IF ValidateHash(p) THEN p ELSE None

PacketSummary(p) ==
    [status |-> p.status, checked_claim |-> p.checked_claim,
     independence |-> p.independence, llm_produced |-> p.llm_produced,
     content_hash |-> ContentHash(p)]

PacketSummaries(evidence) ==
    [k \in DOMAIN evidence |-> PacketSummary(evidence[k])]

EvidenceChain(trace) ==
    [i \in DOMAIN trace.steps |->
        [iteration |-> i, candidate_fingerprint |-> trace.steps[i].candidate,
         packets |-> PacketSummaries(trace.steps[i].evidence)]]

Claim(trace) ==
    [task |-> trace.task, candidate |-> FinalCandidate(trace.steps),
     candidate_fingerprint |-> FinalCandidate(trace.steps)]

Decision(trace) ==
    [status |-> trace.reason, verified |-> trace.reason = "VERIFIED",
     stopping_reason |-> trace.reason, iterations |-> Len(trace.steps),
     model_calls |-> trace.model_calls, verifier_calls |-> trace.verifier_calls]

\* Candidate.to_dict stores the fingerprint beside what it is the digest of; the
\* residual is represented by the packets it was computed from.
ToDict(trace) ==
    [trace EXCEPT !.steps =
        [i \in DOMAIN trace.steps |->
            LET step == trace.steps[i]
            IN  [iteration |-> i,
                 candidate |-> [content |-> step.candidate, metadata |-> step.candidate,
                                fingerprint |-> step.candidate],
                 evidence |-> step.evidence, residual |-> step.evidence]]]

Sign(payload) == [payload |-> payload, artifact_hash |-> payload]

\* Slip: the claim is that of the first round.
BuildFirstCandidate(trace) ==
    Sign([claim |-> Claim([trace EXCEPT !.steps = SubSeq(@, 1, Min({1, Len(@)}))]),
          evidence_chain |-> EvidenceChain(trace),
          decision |-> Decision(trace), trace |-> ToDict(trace)])

\* build_claim_evidence_artifact, for the result that verify() returned with this
\* trace: its candidate is the final one and its status the reason.  No limit is
\* looked at here.
Build(trace) ==
    Sign([claim |-> Claim(trace), evidence_chain |-> EvidenceChain(trace),
          decision |-> Decision(trace), trace |-> ToDict(trace)])

----------------------------------------------------------------------------
(* The limits on a document *)

\* A packet has twelve fields, three of which hold values of any shape.
PacketNodes(p) ==
    10 + Nodes(p.counterexample) + Nodes(p.provenance) + Nodes(p.reliability)

\* What a packet adds to the residual: its hash, its claim unless it passed, and
\* once more its counterexample if it failed with one.
CarriesCounterexample(p) == p.status = "FAIL" /\ p.counterexample # None

ResidualNodes(p) ==
    1 + (IF p.status = "PASS" THEN 0 ELSE 1)
      + (IF CarriesCounterexample(p) THEN Nodes(p.counterexample) ELSE 0)

\* A step has seven fields, its candidate four and its residual five.
StepNodes(step) ==
    16 + Nodes(step.candidate.metadata)
       + SumFunction([k \in DOMAIN step.evidence |-> PacketNodes(step.evidence[k])])
       + SumFunction([k \in DOMAIN step.residual |-> ResidualNodes(step.residual[k])])

ChainNodes(entry) == 4 + 8 * Len(entry.packets)

\* The values outside of steps, chain and error records.
FixedNodes == 38

JsonNodes(payload) ==
    FixedNodes + 4 * payload.trace.errors
      + SumFunction([i \in DOMAIN payload.trace.steps |-> StepNodes(payload.trace.steps[i])])
      + SumFunction([i \in DOMAIN payload.evidence_chain |->
                        ChainNodes(payload.evidence_chain[i])])

PacketValues(p) == {p.counterexample, p.provenance, p.reliability}

\* The value of a packet's field is on the seventh level, and so is a counterexample
\* of the residual; a candidate's metadata is on the sixth.
DepthHolds(payload) ==
    \A i \in DOMAIN payload.trace.steps :
        LET step == payload.trace.steps[i]
        IN  /\ 5 + Depth(step.candidate.metadata) <= MaxDepth
            /\ \A k \in DOMAIN step.evidence :
                  \A v \in PacketValues(step.evidence[k]) : 6 + Depth(v) <= MaxDepth
            /\ \A k \in DOMAIN step.residual :
                  CarriesCounterexample(step.residual[k]) =>
                      6 + Depth(step.residual[k].counterexample) <= MaxDepth

\* _enforce_json_limits visits every value of the document.
EnforceJsonLimits(payload) == JsonNodes(payload) <= MaxNodes /\ DepthHolds(payload)

----------------------------------------------------------------------------
(* Validating, from what the document says *)

PacketCount(steps) == SumFunction([i \in DOMAIN steps |-> Len(steps[i].evidence)])

PacketsHold(steps) ==
    /\ PacketCount(steps) <= MaxPackets
    /\ \A i \in DOMAIN steps :
          \A k \in DOMAIN steps[i].evidence : ValidateHash(steps[i].evidence[k])

\* The fingerprints are taken from the steps as they are stored there.
DerivedChain(steps) ==
    [i \in DOMAIN steps |->
        [iteration |-> steps[i].iteration,
         candidate_fingerprint |-> steps[i].candidate.fingerprint,
         packets |-> PacketSummaries(steps[i].evidence)]]

ExpectedClaim(trace) ==
    IF trace.steps = << >>
    THEN [task |-> trace.task, candidate |-> None, candidate_fingerprint |-> None]
    ELSE LET final == Last(trace.steps).candidate
         IN  [task |-> trace.task, candidate |-> final.content,
              candidate_fingerprint |-> final.fingerprint]

\* Six keys are compared; others may be there.
DecisionHolds(decision, trace) ==
    /\ decision.status = trace.reason
    /\ decision.stopping_reason = trace.reason
    /\ decision.verified = (trace.reason = "VERIFIED")
    /\ decision.iterations = Len(trace.steps)
    /\ decision.model_calls = trace.model_calls
    /\ decision.verifier_calls = trace.verifier_calls

\* Slips: the outer hash is not compared; the claim is not.
AcceptedUnsigned(artifact) ==
    LET payload == artifact.payload
    IN  /\ EnforceJsonLimits(payload)
        /\ PacketsHold(payload.trace.steps)
        /\ payload.evidence_chain = DerivedChain(payload.trace.steps)
        /\ payload.claim = ExpectedClaim(payload.trace)
        /\ DecisionHolds(payload.decision, payload.trace)

AcceptedAnyClaim(artifact) ==
    LET payload == artifact.payload
    IN  /\ EnforceJsonLimits(payload)
        /\ artifact.artifact_hash = payload
        /\ PacketsHold(payload.trace.steps)
        /\ payload.evidence_chain = DerivedChain(payload.trace.steps)
        /\ DecisionHolds(payload.decision, payload.trace)

\* validate_claim_evidence_artifact returns (rather than raises).
Accepted(artifact) ==
    LET payload == artifact.payload
    IN  /\ EnforceJsonLimits(payload)
        /\ artifact.artifact_hash = payload
        /\ PacketsHold(payload.trace.steps)
        /\ payload.evidence_chain = DerivedChain(payload.trace.steps)
        /\ payload.claim = ExpectedClaim(payload.trace)
        /\ DecisionHolds(payload.decision, payload.trace)
=============================================================================
