-------------------------- MODULE BaselineEvidence --------------------------
(***************************************************************************)
(* The pure helpers of verifaxis/baselines.py: how a baseline reads the    *)
(* packets of a round and how it shows its candidates and packets as a     *)
(* trace.                                                                  *)
(***************************************************************************)
EXTENDS EvidenceTypes

\* Slips: a kind is missing from the list of known corruptions, or all are in it.
KnownCorruptionButPositive(p) ==
    \E k \in DOMAIN p.reliability.injected_faults :
        p.reliability.injected_faults[k] \in
            {"malformed_evidence", "stale_evidence", "prompt_injection"}

KnownCorruptionButInjection(p) ==
    \E k \in DOMAIN p.reliability.injected_faults :
        p.reliability.injected_faults[k] \in
            {"false_positive", "malformed_evidence", "stale_evidence"}

KnownCorruptionAnyLabel(p) == p.reliability.injected_faults # << >>

KnownCorruption(p) ==
    \E k \in DOMAIN p.reliability.injected_faults :
        p.reliability.injected_faults[k] \in
            {"false_positive", "malformed_evidence", "stale_evidence", "prompt_injection"}

Applicable(packets) == {k \in DOMAIN packets : IsIndependent(packets[k])}

\* _evidence_status: only independent packets count, an unknown conflicts with a
\* pass as a failure does, and a pass labelled as corrupted does not verify.
EvidenceStatus(packets) ==
    LET statuses == {packets[k].status : k \in Applicable(packets)}
        passes == {k \in Applicable(packets) : packets[k].status = "PASS"}
    IN  IF passes # {} /\ statuses # {"PASS"} THEN "VERIFIER_CONFLICT"
        ELSE IF passes # {} /\ \A k \in passes : ~KnownCorruption(packets[k])
             THEN "VERIFIED"
        ELSE IF "FAIL" \in statuses THEN "FAILED"
        ELSE "UNVERIFIABLE"

\* Slip: the remainder of the division is not dealt out.
SyntheticEvidenceEven(candidates, evidence) ==
    LET n == Len(candidates)
        width == Len(evidence) \div n
    IN  [i \in 1..n |-> SubSeq(evidence, (i - 1) * width + 1, i * width)]

\* _synthetic_trace: the packets of step i when the flat list of packets is dealt
\* out evenly, the first steps taking one more each if it does not divide.
SyntheticEvidence(candidates, evidence) ==
    LET n == Len(candidates)
        width == Len(evidence) \div n
        remainder == Len(evidence) % n
        First(i) == (i - 1) * width + (IF i <= remainder THEN i - 1 ELSE remainder)
    IN  [i \in 1..n |->
            SubSeq(evidence, First(i) + 1,
                   First(i) + width + (IF i <= remainder THEN 1 ELSE 0))]
=============================================================================
