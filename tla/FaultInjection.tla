--------------------------- MODULE FaultInjection ---------------------------
(***************************************************************************)
(* verifaxis/faults.py as functions: what one injector does to one packet. *)
(* A probability and a seed only ever yield a truth value per              *)
(* configuration and step, so they are replaced by that schedule.          *)
(***************************************************************************)
EXTENDS EvidenceTypes, SequencesExt

CONSTANTS
    Malformed,  \* the claim and the counterexample of malformed evidence
    Tainted(_)  \* a counterexample with the untrusted text added

ASSUME CorruptionAssumption ==
    /\ Malformed \in Claims \cap Counterexamples
    /\ \A cx \in Counterexamples \cup {None} : Tainted(cx) \in Counterexamples

FaultKind ==
    {"false_positive", "false_negative", "stale_evidence", "malformed_evidence",
     "contradictory_outputs", "missing_counterexample", "duplicated_evidence",
     "delayed_evidence", "prompt_injection"}

FaultConfig == [kind : FaultKind, delay_steps : Nat \ {0}]

\* What the injector reads and writes of the reliability metadata.
Reliability == [injected_faults : Seq(FaultKind), release_step : Nat \cup {None}]

\* A new injector: its configurations and the schedule they determine.  The
\* pending packets are a dictionary: a function from release steps to lists.
NewInjector(configs, schedule) ==
    [configs |-> configs, schedule |-> schedule, history |-> << >>,
     pending |-> << >>, events |-> << >>]

\* _decision: it looks at the configuration and the step, never at the packet.
Decision(injector, index, step) == injector.schedule[index][step]

\* _clone with the labels of _with_fault_metadata: the clone is hashed anew.
Labelled(p, kind) ==
    [p EXCEPT !.reliability.injected_faults = Append(@, kind), !.sealed = TRUE]

\* Slip: the second output of a contradiction carries no label.
ContradictionUnlabelled(p) ==
    [p EXCEPT !.status = IF p.status = "PASS" THEN "FAIL" ELSE "PASS"]

\* The opposite verdict, sent along with p.
Contradiction(p) ==
    [Labelled(p, "contradictory_outputs") EXCEPT
        !.status = IF p.status = "PASS" THEN "FAIL" ELSE "PASS"]

\* _apply for every kind but delayed evidence: the packets that replace p.
Apply(injector, p, config) ==
    LET marked == Labelled(p, config.kind)
        source == IF injector.history = << >> THEN p ELSE Last(injector.history)
    IN  CASE config.kind = "false_positive" -> <<[marked EXCEPT !.status = "PASS"]>>
          [] config.kind = "false_negative" -> <<[marked EXCEPT !.status = "FAIL"]>>
          [] config.kind = "stale_evidence" -> <<Labelled(source, config.kind)>>
          [] config.kind = "malformed_evidence" ->
                <<[marked EXCEPT !.checked_claim = Malformed, !.counterexample = Malformed]>>
          [] config.kind = "contradictory_outputs" -> <<p, Contradiction(p)>>
          [] config.kind = "missing_counterexample" ->
                <<[marked EXCEPT !.counterexample = None]>>
          [] config.kind = "duplicated_evidence" -> <<p, marked>>
          [] config.kind = "prompt_injection" ->
                <<[marked EXCEPT !.counterexample = Tainted(@)]>>

\* What a fault other than a delay makes of the packets.
ApplyAll(injector, packets, config) ==
    FlattenSeq([k \in DOMAIN packets |-> Apply(injector, packets[k], config)])

\* The list the dictionary of pending packets has under a release step; one that
\* is missing is empty.
PendingAt(pending, release) ==
    IF release \in DOMAIN pending THEN pending[release] ELSE << >>

\* A packet that is put aside says when it will be released.
Delayed(p, config, release) ==
    [Labelled(p, config.kind) EXCEPT !.reliability.release_step = release]

DelayedPackets(packets, config, release) ==
    [k \in DOMAIN packets |-> Delayed(packets[k], config, release)]

\* Slip: every delay lasts one step.
PutAsideOnce(pending, packets, config, step) ==
    [r \in DOMAIN pending \cup {step + 1 : k \in DOMAIN packets} |->
        PendingAt(pending, r) \o
            (IF r = step + 1 THEN DelayedPackets(packets, config, r) ELSE << >>)]

\* Slip: the list of a release step is assigned, not extended.
PutAsideOverwrites(pending, packets, config, step) ==
    LET release == step + config.delay_steps
    IN  [r \in DOMAIN pending \cup {release : k \in DOMAIN packets} |->
            IF r = release THEN DelayedPackets(packets, config, release) ELSE pending[r]]

\* _apply for delayed evidence: the packets wait under their release step.
PutAside(pending, packets, config, step) ==
    LET release == step + config.delay_steps
        delayed == DelayedPackets(packets, config, release)
    IN  [r \in DOMAIN pending \cup {release : k \in DOMAIN packets} |->
            PendingAt(pending, r) \o (IF r = release THEN delayed ELSE << >>)]

\* Slip: the latest release first.
LatestReleaseFirst(pending, last) ==
    FlattenSeq([n \in 1..(last + 1) |-> PendingAt(pending, last + 1 - n)])

\* What is pending up to release step last, in order of the release steps.
InReleaseOrder(pending, last) ==
    FlattenSeq([n \in 1..(last + 1) |-> PendingAt(pending, n - 1)])

\* What a call of inject at this step leaves pending of what was.
StillPending(pending, step) ==
    [r \in {s \in DOMAIN pending : s > step} |-> pending[r]]

----------------------------------------------------------------------------
(* One call of inject *)

\* Before the first configuration: the packets that are due have been taken out.
FirstStage(injector, p, step) ==
    [packets |-> <<p>>, pending |-> StillPending(injector.pending, step),
     events |-> injector.events]

\* One turn of the loop over the configurations.
NextStage(injector, before, i, step) ==
    LET config == injector.configs[i]
        applied == Decision(injector, i, step)
        delays == applied /\ config.kind = "delayed_evidence"
    IN  [packets |->
            IF ~applied THEN before.packets
            ELSE IF delays THEN << >>
            ELSE ApplyAll(injector, before.packets, config),
         pending |->
            IF delays THEN PutAside(before.pending, before.packets, config, step)
                      ELSE before.pending,
         events |-> before.events \o [k \in DOMAIN before.packets |->
            [step |-> step, config_index |-> i, kind |-> config.kind,
             applied |-> applied,
             release_step |-> IF delays THEN step + config.delay_steps ELSE None]]]

\* Stage i is what the first i configurations made of the packet.
LastStage(injector, p, step) ==
    LET stage[i \in 0..Len(injector.configs)] ==
            IF i = 0 THEN FirstStage(injector, p, step)
                     ELSE NextStage(injector, stage[i - 1], i, step)
    IN  stage[Len(injector.configs)]

\* inject(packet, step): the packets it returns.  Those put aside earlier and now
\* due come first, and pass through no configuration again.
Injected(injector, p, step) ==
    InReleaseOrder(injector.pending, step) \o LastStage(injector, p, step).packets

\* Slip: the history holds what the faults made of the packet.
AfterInjectCorrupted(injector, p, step) ==
    LET last == LastStage(injector, p, step)
    IN  [injector EXCEPT !.pending = last.pending, !.events = last.events,
                         !.history = @ \o last.packets]

\* inject(packet, step): the injector it leaves.
AfterInject(injector, p, step) ==
    LET last == LastStage(injector, p, step)
    IN  [injector EXCEPT !.pending = last.pending, !.events = last.events,
                         !.history = Append(@, p)]

\* flush(): what it returns, and the injector it leaves.
Flushed(injector) ==
    InReleaseOrder(injector.pending, Max({0} \cup DOMAIN injector.pending))

AfterFlush(injector) == [injector EXCEPT !.pending = << >>]
=============================================================================
