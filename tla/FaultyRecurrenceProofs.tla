----------------------- MODULE FaultyRecurrenceProofs -----------------------
(***************************************************************************)
(* What a single fault can and cannot make of the vcer row, proved for     *)
(* every case, every model, every kind of fault, every delay and every     *)
(* schedule; and that the row of the scripted model survives the harmless  *)
(* faults.                                                                 *)
(***************************************************************************)
EXTENDS FaultyRecurrence, SequenceLemmas

----------------------------------------------------------------------------
(* One injector with one configuration *)

\* Nothing is due when nothing is pending.
LEMMA NothingDue ==
    ASSUME NEW step \in Nat
    PROVE  /\ InReleaseOrder(<< >>, step) = << >>
           /\ StillPending(<< >>, step) = << >>
<1> DEFINE ss == [n \in 1..(step + 1) |-> PendingAt(<< >>, n - 1)]
<1>1. \A r : PendingAt(<< >>, r) = << >>
  BY DEF PendingAt
<1>2. ss \in Seq(Seq({}))
  <2>1. << >> \in Seq({})
    OBVIOUS
  <2>2. ss = [n \in 1..(step + 1) |-> << >>]
    BY <1>1
  <2> HIDE DEF ss
  <2> QED
    BY <2>1, <2>2
<1> HIDE DEF ss
<1>3. FlattenSeq(ss) \in Seq({})
  BY <1>2, FlattenType
<1>4. FlattenSeq(ss) = << >>
  BY <1>3
<1>5. StillPending(<< >>, step) = << >>
  BY DEF StillPending
<1> QED
  BY <1>4, <1>5 DEF InReleaseOrder, ss

\* The loop over the configurations has one turn.
LEMMA OneTurn ==
    ASSUME NEW j, NEW config, j.configs = <<config>>, NEW p, NEW step
    PROVE  LastStage(j, p, step) = NextStage(j, FirstStage(j, p, step), 1, step)
<1> DEFINE first == FirstStage(j, p, step)
           next(before, i) == NextStage(j, before, i, step)
           Solves(f) == f = [i \in 0..1 |-> IF i = 0 THEN first ELSE next(f[i - 1], i)]
           g == [i \in 0..1 |-> IF i = 0 THEN first ELSE next(first, 1)]
           stage == CHOOSE f : Solves(f)
<1>1. LastStage(j, p, step) = stage[1]
  BY DEF LastStage
<1> HIDE DEF first, next
<1>2. Solves(g)
  OBVIOUS
<1> HIDE DEF g
<1>3. Solves(stage)
  BY <1>2
<1> HIDE DEF stage
<1>4. stage[0] = first /\ stage[1] = next(stage[0], 1)
  BY <1>3
<1> QED
  BY <1>1, <1>4 DEF first, next

----------------------------------------------------------------------------

\* Flattening a list of one list yields that list.
LEMMA FlattenOne ==
    ASSUME NEW U, NEW s \in Seq(U)
    PROVE  FlattenSeq(<<s>>) = s
<1>1. FlattenSeq(<< >>) = << >>
  BY DEF FlattenSeq
<1>2. << >> \in Seq(Seq(U)) /\ Append(<< >>, s) = <<s>> /\ << >> \o s = s
  OBVIOUS
<1> QED
  BY <1>1, <1>2, FlattenAppend

\* The packets the case verifier makes.
Made == {CasePacket(c) : c \in Candidates}

SaysStale(p) ==
    \E f \in DOMAIN p.reliability.injected_faults :
        p.reliability.injected_faults[f] = "stale_evidence"

\* A label on a packet of the case verifier changes nothing else of it.
IsLabelled(q, p, kind) ==
    /\ q.status = p.status
    /\ q.provenance = p.provenance
    /\ q.reliability.injected_faults = <<kind>>
    /\ DOMAIN q = DOMAIN p

\* A labelled packet of the case verifier has this one label.
LEMMA LabelOnce ==
    ASSUME NEW p \in Made, NEW kind
    PROVE  IsLabelled(Labelled(p, kind), p, kind)
<1>1. PICK c \in Candidates : p = CasePacket(c)
  BY DEF Made
<1> DEFINE rel == [p.reliability EXCEPT !.injected_faults = Append(@, kind)]
           q == [p EXCEPT !.reliability = rel, !.sealed = TRUE]
<1>2. Labelled(p, kind) = q
  BY <1>1 DEF Labelled, CasePacket
<1>3. p.reliability = NoFaults
  BY <1>1 DEF CasePacket
<1>4. rel.injected_faults = <<kind>>
  BY <1>3 DEF NoFaults
<1> HIDE DEF rel
<1>5. /\ DOMAIN p = {"checked_claim", "status", "counterexample", "provenance",
                     "reliability", "independence", "llm_produced", "sealed"}
      /\ q.status = p.status /\ q.provenance = p.provenance /\ q.reliability = rel
      /\ DOMAIN q = DOMAIN p
  BY <1>1 DEF CasePacket
<1> HIDE DEF q
<1> QED
  BY <1>2, <1>4, <1>5 DEF IsLabelled

\* What verifier k may answer for candidate c: a packet made for another candidate
\* says it is stale, and the first verifier passes a wrong one only with a label
\* of known corruption.
AnswerOK(a, c, k) ==
    /\ a.provenance = c \/ SaysStale(a)
    /\ k = 1 /\ c \notin Correct => a.status # "PASS" \/ KnownCorruption(a)

\* One packet or two.
IsOutputs(outs) == \E x, y : outs = <<x>> \/ outs = <<x, y>>

\* The answers to be had from a list of outputs.
OutputsOK(outs, c) ==
    \A k \in {1, 2} : AnswerOK(outs[IF k <= Len(outs) THEN k ELSE Len(outs)], c, k)

\* The verdict itself can be borne.
LEMMA CasePacketOK ==
    ASSUME NEW c \in Candidates, NEW k
    PROVE  AnswerOK(CasePacket(c), c, k)
BY DEF CasePacket, AnswerOK

\* Four kinds of label are known corruption, one of them says stale.
LEMMA CorruptionIsKnown ==
    ASSUME NEW q, NEW kind, q.reliability.injected_faults = <<kind>>
    PROVE  /\ KnownCorruption(q) <=>
                  kind \in {"false_positive", "malformed_evidence", "stale_evidence",
                            "prompt_injection"}
           /\ SaysStale(q) <=> kind = "stale_evidence"
<1> DEFINE labels == q.reliability.injected_faults
<1>1. DOMAIN labels = {1} /\ labels[1] = kind
  OBVIOUS
<1> HIDE DEF labels
<1>2. KnownCorruption(q) <=>
         \E f \in DOMAIN labels :
            labels[f] \in {"false_positive", "malformed_evidence", "stale_evidence",
                           "prompt_injection"}
  BY DEF KnownCorruption, labels
<1>3. SaysStale(q) <=> \E f \in DOMAIN labels : labels[f] = "stale_evidence"
  BY DEF SaysStale, labels
<1> QED
  BY <1>1, <1>2, <1>3

\* Every fault but a delay leaves one or two packets that the row can bear.
LEMMA ApplyOK ==
    ASSUME NEW j, j.history \in Seq(Made), NEW c \in Candidates,
           NEW config \in FaultConfig, config.kind # "delayed_evidence",
           NEW outs, outs = Apply(j, CasePacket(c), config)
    PROVE  IsOutputs(outs) /\ OutputsOK(outs, c)
<1> DEFINE kind == config.kind
           p == CasePacket(c)
           source == IF j.history = << >> THEN p ELSE Last(j.history)
           q == Labelled(p, kind)
<1>1. /\ p \in Made /\ source \in Made
      /\ kind \in FaultKind \ {"delayed_evidence"}
  <2>1. j.history # << >> => Last(j.history) \in Made
    BY DEF Last
  <2> QED
    BY <2>1 DEF Made, FaultConfig
<1>2. IsLabelled(q, p, kind) /\ IsLabelled(Labelled(source, kind), source, kind)
  BY <1>1, LabelOnce
<1>3. p.provenance = c /\ p.status \in {"PASS", "FAIL"} /\ (p.status = "PASS" <=> c \in Correct)
      /\ {"status", "checked_claim", "counterexample"} \subseteq DOMAIN p
  BY DEF CasePacket
<1>4. AnswerOK(p, c, 1) /\ AnswerOK(p, c, 2)
  BY CasePacketOK
<1> HIDE DEF p, q, source
<1>5. \A x : OutputsOK(<<x>>, c) <=> AnswerOK(x, c, 1) /\ AnswerOK(x, c, 2)
  BY DEF OutputsOK
<1>6. \A x, y : OutputsOK(<<x, y>>, c) <=> AnswerOK(x, c, 1) /\ AnswerOK(y, c, 2)
  BY DEF OutputsOK
<1>0. \A x, y : IsOutputs(<<x>>) /\ IsOutputs(<<x, y>>)
  BY DEF IsOutputs
<1>7. ASSUME NEW x, x.provenance = c, x.status = p.status \/ x.status = "FAIL", NEW k
      PROVE  AnswerOK(x, c, k)
  BY <1>3, <1>7 DEF AnswerOK
<1>8. /\ q.provenance = c /\ q.status = p.status
      /\ q.reliability.injected_faults = <<kind>>
      /\ {"status", "checked_claim", "counterexample"} \subseteq DOMAIN q
  BY <1>2, <1>3 DEF IsLabelled
<1>9. CASE kind = "false_positive"
  <2> DEFINE x == [q EXCEPT !.status = "PASS"]
  <2>1. outs = <<x>>
    BY <1>9 DEF Apply, q, p
  <2>2. x.provenance = c /\ x.reliability.injected_faults = <<kind>>
    BY <1>8
  <2> HIDE DEF x
  <2>3. KnownCorruption(x)
    BY <1>9, <2>2, CorruptionIsKnown
  <2>4. \A k : AnswerOK(x, c, k)
    BY <2>2, <2>3 DEF AnswerOK
  <2> QED
    BY <1>0, <1>5, <2>1, <2>4
<1>10. CASE kind = "false_negative"
  <2> DEFINE x == [q EXCEPT !.status = "FAIL"]
  <2>1. outs = <<x>>
    BY <1>10 DEF Apply, q, p
  <2>2. x.provenance = c /\ x.status = "FAIL"
    BY <1>8
  <2> HIDE DEF x
  <2> QED
    BY <1>0, <1>5, <1>7, <2>1, <2>2
<1>11. CASE kind = "stale_evidence"
  <2> DEFINE x == Labelled(source, kind)
  <2>1. outs = <<x>>
    BY <1>11 DEF Apply, source, p
  <2>2. x.reliability.injected_faults = <<kind>>
    BY <1>2 DEF IsLabelled
  <2> HIDE DEF x
  <2>3. KnownCorruption(x) /\ SaysStale(x)
    BY <1>11, <2>2, CorruptionIsKnown
  <2>4. \A k : AnswerOK(x, c, k)
    BY <2>3 DEF AnswerOK
  <2> QED
    BY <1>0, <1>5, <2>1, <2>4
<1>12. CASE kind = "malformed_evidence"
  <2> DEFINE x == [q EXCEPT !.checked_claim = Malformed, !.counterexample = Malformed]
  <2>1. outs = <<x>>
    BY <1>12 DEF Apply, q, p
  <2>2. x.provenance = c /\ x.status = p.status
    BY <1>8
  <2> HIDE DEF x
  <2> QED
    BY <1>0, <1>5, <1>7, <2>1, <2>2
<1>13. CASE kind = "contradictory_outputs"
  <2> DEFINE x == Contradiction(p)
  <2>1. outs = <<p, x>>
    BY <1>13 DEF Apply, p
  <2>2. x.provenance = c
    <3>1. x = [q EXCEPT !.status = IF p.status = "PASS" THEN "FAIL" ELSE "PASS"]
      BY <1>13 DEF Contradiction, q
    <3> QED
      BY <1>8, <3>1
  <2> HIDE DEF x
  <2>3. AnswerOK(x, c, 2)
    BY <2>2 DEF AnswerOK
  <2> QED
    BY <1>0, <1>4, <1>6, <2>1, <2>3
<1>14. CASE kind = "missing_counterexample"
  <2> DEFINE x == [q EXCEPT !.counterexample = None]
  <2>1. outs = <<x>>
    BY <1>14 DEF Apply, q, p
  <2>2. x.provenance = c /\ x.status = p.status
    BY <1>8
  <2> HIDE DEF x
  <2> QED
    BY <1>0, <1>5, <1>7, <2>1, <2>2
<1>15. CASE kind = "duplicated_evidence"
  <2>1. outs = <<p, q>>
    BY <1>15 DEF Apply, p, q
  <2> QED
    BY <1>0, <1>4, <1>6, <1>7, <1>8, <2>1
<1>16. CASE kind = "prompt_injection"
  <2> DEFINE x == [q EXCEPT !.counterexample = Tainted(@)]
  <2>1. outs = <<x>>
    BY <1>16 DEF Apply, q, p
  <2>2. x.provenance = c /\ x.status = p.status
    BY <1>8
  <2> HIDE DEF x
  <2> QED
    BY <1>0, <1>5, <1>7, <2>1, <2>2
<1> HIDE DEF kind
<1> QED
  BY <1>1, <1>9, <1>10, <1>11, <1>12, <1>13, <1>14, <1>15, <1>16 DEF FaultKind

\* An injector of the row between two calls.
IsRowInjector(j, config) ==
    /\ j \in [configs : {<<config>>}, schedule : {j.schedule}, history : Seq(Made),
              pending : {j.pending}, events : {j.events}]
    /\ config \in FaultConfig

\* One call of such an injector with nothing pending: either it answers with what
\* the row can bear, or a delay leaves the call without an answer.
LEMMA OneFault ==
    ASSUME NEW config, NEW j, IsRowInjector(j, config), j.pending = << >>,
           NEW c \in Candidates, NEW step \in Nat,
           NEW outs, outs = Injected(j, CasePacket(c), step),
           NEW new, new = AfterInject(j, CasePacket(c), step)
    PROVE  /\ IsRowInjector(new, config)
           /\ \/ outs # << >> /\ OutputsOK(outs, c) /\ new.pending = << >>
              \/ outs = << >> /\ config.kind = "delayed_evidence"
<1> DEFINE p == CasePacket(c)
           last == LastStage(j, p, step)
           events == last.events
           pending == last.pending
           applied == Decision(j, 1, step)
<1>1. /\ j.configs = <<config>> /\ j.configs[1] = config /\ config \in FaultConfig
      /\ j.history \in Seq(Made) /\ p \in Made
  BY DEF IsRowInjector, Made
<1>2. last = NextStage(j, FirstStage(j, p, step), 1, step)
  BY <1>1, OneTurn
<1>3. FirstStage(j, p, step).packets = <<p>> /\ FirstStage(j, p, step).pending = << >>
  BY NothingDue DEF FirstStage
<1>4. outs = << >> \o last.packets
  BY NothingDue DEF Injected
<1>5. IsRowInjector(new, config)
  <2>1. new = [j EXCEPT !.pending = pending, !.events = events, !.history = Append(@, p)]
    BY DEF AfterInject
  <2>2. Append(j.history, p) \in Seq(Made)
    BY <1>1
  <2> HIDE DEF pending, events, p
  <2>3. new \in [configs : {<<config>>}, schedule : {new.schedule}, history : Seq(Made),
                 pending : {new.pending}, events : {new.events}]
    BY <2>1, <2>2 DEF IsRowInjector
  <2> QED
    BY <1>1, <2>3 DEF IsRowInjector
<1>6. new.pending = pending
  BY DEF AfterInject, IsRowInjector
<1> HIDE DEF p
<1>7. CASE ~applied
  <2>1. last.packets = <<p>> /\ pending = << >>
    BY <1>1, <1>2, <1>3, <1>7 DEF NextStage
  <2>2. outs = <<p>>
    BY <1>4, <2>1
  <2>3. AnswerOK(p, c, 1) /\ AnswerOK(p, c, 2)
    BY CasePacketOK DEF p
  <2>4. OutputsOK(outs, c)
    BY <2>2, <2>3 DEF OutputsOK
  <2> QED
    BY <1>5, <1>6, <2>1, <2>2, <2>4
<1>8. CASE applied /\ config.kind = "delayed_evidence"
  <2>1. last.packets = << >>
    BY <1>1, <1>2, <1>8 DEF NextStage
  <2> QED
    BY <1>4, <1>5, <1>8, <2>1
<1>9. CASE applied /\ config.kind # "delayed_evidence"
  <2> DEFINE made == Apply(j, p, config)
  <2>1. last.packets = ApplyAll(j, <<p>>, config) /\ pending = << >>
    BY <1>1, <1>2, <1>3, <1>9 DEF NextStage
  <2>2. IsOutputs(made) /\ OutputsOK(made, c)
    BY <1>1, <1>9, ApplyOK DEF p
  <2>3. ApplyAll(j, <<p>>, config) = FlattenSeq(<<made>>)
    <3>1. [k \in DOMAIN <<p>> |-> Apply(j, <<p>>[k], config)] = <<made>>
      OBVIOUS
    <3> QED
      BY <3>1 DEF ApplyAll
  <2> HIDE DEF made
  <2>4. PICK x, y : made = <<x>> \/ made = <<x, y>>
    BY <2>2 DEF IsOutputs
  <2>5. made \in Seq({x, y}) /\ made # << >> /\ << >> \o made = made
    <3>1. CASE made = <<x>>
      BY <3>1
    <3>2. CASE made = <<x, y>>
      BY <3>2
    <3> QED
      BY <2>4, <3>1, <3>2
  <2>6. outs = made
    BY <1>4, <2>1, <2>3, <2>5, FlattenOne
  <2> QED
    BY <1>5, <1>6, <2>1, <2>2, <2>5, <2>6
<1> QED
  BY <1>7, <1>8, <1>9

----------------------------------------------------------------------------
(* The row *)

IsSequence(s) == s \in Seq({s[k] : k \in DOMAIN s})

\* Appending keeps what is there, without knowing the set of the elements.
LEMMA SequenceAppend ==
    ASSUME NEW s, IsSequence(s), NEW x
    PROVE  /\ IsSequence(Append(s, x))
           /\ Len(s) \in Nat /\ DOMAIN s = 1..Len(s)
           /\ Len(Append(s, x)) = Len(s) + 1
           /\ DOMAIN Append(s, x) = 1..(Len(s) + 1)
           /\ Append(s, x)[Len(s) + 1] = x
           /\ \A k \in 1..Len(s) : Append(s, x)[k] = s[k]
<1> DEFINE U == {s[k] : k \in DOMAIN s}
           t == Append(s, x)
           V == {t[k] : k \in DOMAIN t}
<1>1. s \in Seq(U)
  BY DEF IsSequence
<1> HIDE DEF U
<1>2. /\ Len(s) \in Nat /\ DOMAIN s = 1..Len(s)
      /\ Len(t) = Len(s) + 1 /\ DOMAIN t = 1..(Len(s) + 1)
      /\ t[Len(s) + 1] = x /\ \A k \in 1..Len(s) : t[k] = s[k]
      /\ t \in Seq(U \cup {x})
  BY <1>1
<1> HIDE DEF t
<1>3. t \in Seq(V)
  <2>1. \A k \in 1..Len(t) : t[k] \in V
    BY <1>2
  <2> HIDE DEF V
  <2>2. t = [k \in 1..Len(t) |-> t[k]] /\ Len(t) \in Nat
    BY <1>2
  <2>3. [k \in 1..Len(t) |-> t[k]] \in Seq(V)
    BY <2>1, <2>2
  <2> QED
    BY <2>2, <2>3
<1> QED
  BY <1>2, <1>3 DEF t, V, IsSequence

\* The injectors, and that no packet waits while a round may still use it: a delay
\* leaves the round of the only verifier without a verdict, which ends the row.
InjectorsInv ==
    /\ verifiers \in {1, 2}
    /\ verifiers = VerifiersFor(Config)
    /\ DOMAIN injectors = 1..verifiers
    /\ \A k \in 1..verifiers : IsRowInjector(injectors[k], Config)
    /\ \/ \A k \in 1..verifiers : injectors[k].pending = << >>
       \/ /\ verifiers = 1
          /\ \/ pc = "done"
             \/ pc = "verifiers" /\ called = 1 /\ packets[1].status = "UNKNOWN"

\* The round in progress.
RoundInv ==
    /\ IsSequence(packets)
    /\ called \in Nat
    /\ pc = "verifiers" => Len(packets) = called
    /\ pc = "verify" => called \in 1..verifiers /\ Len(packets) = called - 1
    /\ InRound =>
          /\ candidate \in Candidates
          /\ \A k \in DOMAIN packets : AnswerOK(packets[k], candidate, k)

\* The recorded rounds.
TraceInv ==
    /\ pc \in {"loop", "model", "verifiers", "verify", "done"}
    /\ IsSequence(steps)
    /\ \A i \in DOMAIN steps : \A k \in DOMAIN steps[i].evidence :
          AnswerOK(steps[i].evidence[k], steps[i].candidate, k)
    /\ \A i \in Revised : \A k \in DOMAIN steps[i].evidence :
          ~KnownCorruption(steps[i].evidence[k])
    /\ pc # "done" => reason = None
    /\ NoFalseVerification

RowInv == InjectorsInv /\ RoundInv /\ TraceInv

\* A row begins with fresh injectors and no rounds.
LEMMA RowInit == FaultyInit => RowInv
<1> SUFFICES ASSUME FaultyInit
             PROVE  RowInv
  OBVIOUS
<1>1. Init
  BY DEF FaultyInit
<1>2. /\ pc = "loop" /\ steps = << >> /\ packets = << >> /\ called = 0
      /\ reason = None
  BY <1>1 DEF Init
<1>3. PICK config \in FaultConfigs :
         \E schedule \in [{1} -> [FaultSteps(budget) -> BOOLEAN]] :
            /\ verifiers = VerifiersFor(config)
            /\ injectors = [k \in 1..verifiers |-> NewInjector(<<config>>, schedule)]
  BY DEF FaultyInit
<1>4. PICK schedule \in [{1} -> [FaultSteps(budget) -> BOOLEAN]] :
            /\ verifiers = VerifiersFor(config)
            /\ injectors = [k \in 1..verifiers |-> NewInjector(<<config>>, schedule)]
  BY <1>3
<1>5. config \in FaultConfig /\ verifiers \in {1, 2}
  BY <1>4, FaultyAssumption DEF VerifiersFor
<1> DEFINE j == NewInjector(<<config>>, schedule)
<1>6. IsRowInjector(j, config) /\ j.pending = << >> /\ j.configs[1] = config
  BY <1>5 DEF NewInjector, IsRowInjector
<1> HIDE DEF j
<1>7. \A k \in 1..verifiers : injectors[k] = j
  BY <1>4 DEF j
<1>8. Config = config
  BY <1>5, <1>6, <1>7 DEF Config
<1>9. InjectorsInv
  BY <1>4, <1>5, <1>6, <1>7, <1>8 DEF InjectorsInv
<1>10. IsSequence(<< >>) /\ Len(<< >>) = 0 /\ DOMAIN << >> = {} /\ 1..0 = {}
  BY DEF IsSequence
<1>11. RoundInv
  BY <1>2, <1>10 DEF RoundInv, InRound
<1>12. TraceInv
  BY <1>2, <1>10, NoneAssumption DEF TraceInv, Revised, NoFalseVerification, TerminationReason
<1> QED
  BY <1>9, <1>11, <1>12 DEF RowInv

\* A step that records the round in progress records what the row can bear.
LEMMA RecordRound ==
    ASSUME RowInv, pc = "verifiers", RecordStep(packets, called)
    PROVE  /\ IsSequence(steps') /\ Len(steps) \in Nat /\ Len(steps') = Len(steps) + 1
           /\ \A i \in DOMAIN steps' : \A k \in DOMAIN steps'[i].evidence :
                 AnswerOK(steps'[i].evidence[k], steps'[i].candidate, k)
           /\ \A i \in 1..Len(steps) : steps'[i] = steps[i]
           /\ steps'[Len(steps')].candidate = candidate
           /\ steps'[Len(steps')].evidence = packets
<1> DEFINE new == [candidate |-> candidate, evidence |-> packets,
                   model_call |-> modelCalls, verifier_calls |-> called]
<1>1. steps' = Append(steps, new) /\ IsSequence(steps)
  BY DEF RecordStep, RowInv, TraceInv
<1>2. new.candidate = candidate /\ new.evidence = packets
  OBVIOUS
<1> HIDE DEF new
<1>3. /\ IsSequence(steps') /\ Len(steps) \in Nat /\ DOMAIN steps = 1..Len(steps)
      /\ Len(steps') = Len(steps) + 1 /\ DOMAIN steps' = 1..(Len(steps) + 1)
      /\ steps'[Len(steps) + 1] = new
      /\ \A k \in 1..Len(steps) : steps'[k] = steps[k]
  BY <1>1, SequenceAppend
<1>4. \A k \in DOMAIN packets : AnswerOK(packets[k], candidate, k)
  BY DEF RowInv, RoundInv, InRound
<1>5. ASSUME NEW i \in DOMAIN steps', NEW k \in DOMAIN steps'[i].evidence
      PROVE  AnswerOK(steps'[i].evidence[k], steps'[i].candidate, k)
  <2>1. CASE i = Len(steps) + 1
    BY <1>2, <1>3, <1>4, <2>1
  <2>2. CASE i \in 1..Len(steps)
    BY <1>3, <2>2 DEF RowInv, TraceInv
  <2> QED
    BY <1>3, <2>1, <2>2
<1> QED
  BY <1>2, <1>3, <1>5

\* What a verdict of the fault-aware controller says of the round.
LEMMA VerdictMeans ==
    ASSUME RowInv, pc = "verifiers", IsSequence(packets)
    PROVE  /\ FaultAwareDecision = None => \A k \in DOMAIN packets : ~KnownCorruption(packets[k])
           /\ FaultAwareDecision = "VERIFIED" => candidate \in Correct
           /\ Len(packets) = 1 /\ packets[1].status = "UNKNOWN" => FaultAwareDecision # None
<1>1. Len(packets) \in Nat /\ DOMAIN packets = 1..Len(packets)
  BY DEF IsSequence
<1>2. /\ None \notin {"UNVERIFIABLE", "VERIFIER_ERROR", "VERIFIED", "VERIFIER_CONFLICT"}
  BY NoneAssumption DEF TerminationReason
<1>3. FaultAwareDecision = None => \A k \in DOMAIN packets : ~KnownCorruption(packets[k])
  BY <1>2 DEF FaultAwareDecision
<1>4. ASSUME FaultAwareDecision = "VERIFIED"
      PROVE  candidate \in Correct
  <2>1. \A k \in DOMAIN packets : ~KnownCorruption(packets[k])
    BY <1>4 DEF FaultAwareDecision
  <2>2. PICK spent : Decide(DefaultSettings, steps', packets, spent) = "VERIFIED"
    BY <1>4 DEF FaultAwareDecision
  <2>3. packets # << >> /\ Statuses(packets) = {"PASS"}
    BY <1>2, <2>2 DEF Decide, Passed
  <2>4. 1 \in DOMAIN packets
    BY <1>1, <2>3
  <2>5. packets[1].status = "PASS"
    BY <2>3, <2>4 DEF Statuses
  <2>6. AnswerOK(packets[1], candidate, 1)
    BY <2>4 DEF RowInv, RoundInv, InRound
  <2> QED
    BY <2>1, <2>4, <2>5, <2>6 DEF AnswerOK
<1>5. ASSUME Len(packets) = 1, packets[1].status = "UNKNOWN"
      PROVE  FaultAwareDecision # None
  <2>1. DOMAIN packets = {1} /\ packets # << >>
    BY <1>1, <1>5
  <2>2. Statuses(packets) = {"UNKNOWN"}
    BY <1>5, <2>1 DEF Statuses
  <2>3. \A spent : Decide(DefaultSettings, steps', packets, spent) # None
    BY <1>2, <2>1, <2>2 DEF Decide, Conflicted, Passed, Unsettled
  <2> QED
    BY <1>2, <2>3 DEF FaultAwareDecision
<1> QED
  BY <1>3, <1>4, <1>5

\* A verifier answers with what its fault made of the verdict.
LEMMA VerifierStep ==
    ASSUME RowInv, FaultingVerifierReturns
    PROVE  RowInv'
<1> DEFINE k == called
           j == injectors[k]
           step == Len(j.history)
           outs == Injected(j, CasePacket(candidate), step)
           new == AfterInject(j, CasePacket(candidate), step)
           answer == NewPacket(AnswerOf(k, outs))
<1>1. /\ pc = "verify" /\ pc' = "verifiers" /\ packets' = Append(packets, answer)
      /\ injectors' = [injectors EXCEPT ![k] = new]
      /\ UNCHANGED <<verifiers, steps, reason, candidate, called>>
  BY DEF FaultingVerifierReturns, VerifierReturns, arguments
<1>2. /\ verifiers \in {1, 2} /\ verifiers = VerifiersFor(Config) /\ k \in 1..verifiers
      /\ DOMAIN injectors = 1..verifiers /\ Len(packets) = k - 1
      /\ candidate \in Candidates /\ IsSequence(packets)
      /\ \A i \in 1..verifiers : IsRowInjector(injectors[i], Config)
      /\ \A i \in DOMAIN packets : AnswerOK(packets[i], candidate, i)
  BY <1>1 DEF RowInv, InjectorsInv, RoundInv, InRound
<1>3. \A i \in 1..verifiers : injectors[i].pending = << >>
  BY <1>1 DEF RowInv, InjectorsInv
<1>4. step \in Nat
  <2>1. j.history \in Seq(Made)
    BY <1>2 DEF IsRowInjector
  <2> QED
    BY <2>1
<1>5. /\ IsRowInjector(new, Config)
      /\ \/ outs # << >> /\ OutputsOK(outs, candidate) /\ new.pending = << >>
         \/ outs = << >> /\ Config.kind = "delayed_evidence"
  BY <1>2, <1>3, <1>4, OneFault
<1> HIDE DEF j, step, outs, new, answer
<1>6. /\ IsSequence(packets') /\ Len(packets') = k /\ DOMAIN packets' = 1..k
      /\ packets'[k] = answer /\ \A i \in 1..(k - 1) : packets'[i] = packets[i]
      /\ DOMAIN packets = 1..(k - 1)
  BY <1>1, <1>2, SequenceAppend
<1>7. AnswerOK(answer, candidate, k) /\ (outs = << >> => answer.status = "UNKNOWN")
  <2> DEFINE a == AnswerOf(k, outs)
  <2>1. /\ answer.status = a.status /\ answer.provenance = a.provenance
        /\ answer.reliability = a.reliability
    BY DEF answer, NewPacket
  <2>2. CASE outs = << >>
    <3>1. a.status = "UNKNOWN" /\ a.provenance = candidate
      BY <2>2 DEF AnswerOf, Placeholder
    <3> HIDE DEF a
    <3> QED
      BY <2>1, <3>1 DEF AnswerOK
  <2>3. CASE outs # << >>
    <3>1. a = outs[IF k <= Len(outs) THEN k ELSE Len(outs)]
      BY <2>3 DEF AnswerOf
    <3>2. k \in {1, 2}
      BY <1>2
    <3>3. OutputsOK(outs, candidate)
      BY <1>5, <2>3
    <3> HIDE DEF a, k
    <3>4. AnswerOK(a, candidate, k)
      BY <3>1, <3>2, <3>3 DEF OutputsOK
    <3> QED
      BY <2>1, <2>3, <3>4 DEF AnswerOK, SaysStale, KnownCorruption
  <2> QED
    BY <2>2, <2>3
<1>8. /\ DOMAIN injectors' = 1..verifiers /\ injectors'[k] = new
      /\ \A i \in 1..verifiers : i # k => injectors'[i] = injectors[i]
  BY <1>1, <1>2
<1>9. Config' = Config
  <2>1. \A i \in 1..verifiers : injectors'[i].configs[1] = Config
    BY <1>2, <1>5, <1>8 DEF IsRowInjector
  <2>2. 1 \in 1..verifiers
    BY <1>2
  <2> QED
    BY <2>1, <2>2 DEF Config
<1> HIDE DEF k
<1>10. InjectorsInv'
  <2>1. \A i \in 1..verifiers : IsRowInjector(injectors'[i], Config)
    BY <1>2, <1>5, <1>8
  <2>2. CASE outs # << >>
    <3>1. \A i \in 1..verifiers : injectors'[i].pending = << >>
      BY <1>2, <1>3, <1>5, <1>8, <2>2
    <3> QED
      BY <1>1, <1>2, <1>8, <1>9, <2>1, <3>1 DEF InjectorsInv, VerifiersFor
  <2>3. CASE outs = << >>
    <3>1. verifiers = 1
      BY <1>2, <1>5, <2>3 DEF VerifiersFor
    <3>2. k = 1 /\ k = called
      BY <1>2, <3>1 DEF k
    <3>3. packets'[1].status = "UNKNOWN"
      BY <1>6, <1>7, <2>3, <3>2
    <3> QED
      BY <1>1, <1>2, <1>8, <1>9, <2>1, <3>1, <3>2, <3>3 DEF InjectorsInv, VerifiersFor
  <2> QED
    BY <2>2, <2>3
<1>11. RoundInv'
  <2>1. \A i \in 1..k : AnswerOK(packets'[i], candidate, i)
    BY <1>2, <1>6, <1>7
  <2>2. k = called /\ called \in Nat
    BY DEF k, RowInv, RoundInv
  <2> QED
    BY <1>1, <1>2, <1>6, <2>1, <2>2 DEF RoundInv, InRound
<1>12. TraceInv'
  <2>1. Revised' = Revised
    BY <1>1 DEF Revised
  <2> QED
    BY <1>1, <2>1 DEF RowInv, TraceInv, NoFalseVerification, FinalStep
<1> QED
  BY <1>10, <1>11, <1>12 DEF RowInv

\* The fault-aware controller revises no round with known corruption or a late packet.
LEMMA JudgeStep ==
    ASSUME RowInv, FaultAwareJudge
    PROVE  RowInv'
<1>1. /\ pc = "verifiers" /\ called = verifiers /\ RecordStep(packets, called)
      /\ UNCHANGED <<verifiers, candidate, packets, called, injectors>>
      /\ \/ FaultAwareDecision = None /\ pc' = "loop" /\ UNCHANGED reason
         \/ FaultAwareDecision # None /\ pc' = "done" /\ reason' = FaultAwareDecision
  BY DEF FaultAwareJudge, JudgeRound, Finalize, arguments, round
<1>2. /\ IsSequence(steps') /\ Len(steps) \in Nat /\ Len(steps') = Len(steps) + 1
      /\ \A i \in DOMAIN steps' : \A k \in DOMAIN steps'[i].evidence :
            AnswerOK(steps'[i].evidence[k], steps'[i].candidate, k)
      /\ \A i \in 1..Len(steps) : steps'[i] = steps[i]
      /\ steps'[Len(steps')].candidate = candidate
      /\ steps'[Len(steps')].evidence = packets
  BY <1>1, RecordRound
<1>3. /\ FaultAwareDecision = None => \A k \in DOMAIN packets : ~KnownCorruption(packets[k])
      /\ FaultAwareDecision = "VERIFIED" => candidate \in Correct
      /\ Len(packets) = 1 /\ packets[1].status = "UNKNOWN" => FaultAwareDecision # None
  BY <1>1, VerdictMeans DEF RowInv, RoundInv
<1>4. pc # "done" /\ Revised = 1..Len(steps)
  BY <1>1 DEF Revised
<1>5. \A i \in 1..Len(steps) : \A k \in DOMAIN steps[i].evidence :
         ~KnownCorruption(steps[i].evidence[k])
  BY <1>4 DEF RowInv, TraceInv
<1>6. InjectorsInv'
  <2>1. Config' = Config
    BY <1>1 DEF Config
  <2>2. CASE \A k \in 1..verifiers : injectors[k].pending = << >>
    BY <1>1, <2>1, <2>2 DEF RowInv, InjectorsInv, VerifiersFor
  <2>3. CASE ~ \A k \in 1..verifiers : injectors[k].pending = << >>
    <3>1. verifiers = 1 /\ called = 1 /\ packets[1].status = "UNKNOWN"
      BY <1>1, <2>3 DEF RowInv, InjectorsInv
    <3>2. Len(packets) = 1
      BY <1>1, <3>1 DEF RowInv, RoundInv
    <3>3. pc' = "done"
      BY <1>1, <1>3, <3>1, <3>2
    <3> QED
      BY <1>1, <2>1, <3>1, <3>3 DEF RowInv, InjectorsInv, VerifiersFor
  <2> QED
    BY <2>2, <2>3
<1>7. RoundInv'
  BY <1>1 DEF RowInv, RoundInv, InRound
<1>8. \A i \in Revised' : \A k \in DOMAIN steps'[i].evidence :
         ~KnownCorruption(steps'[i].evidence[k])
  <2>1. CASE pc' = "done"
    <3>1. Revised' = 1..Len(steps)
      BY <1>2, <2>1 DEF Revised
    <3> QED
      BY <1>2, <1>5, <3>1
  <2>2. CASE pc' = "loop"
    <3>1. Revised' = 1..(Len(steps) + 1)
      BY <1>2, <2>2 DEF Revised
    <3>2. FaultAwareDecision = None
      BY <1>1, <2>2
    <3>3. ASSUME NEW i \in 1..(Len(steps) + 1), NEW k \in DOMAIN steps'[i].evidence
          PROVE  ~KnownCorruption(steps'[i].evidence[k])
      <4>1. CASE i = Len(steps) + 1
        BY <1>2, <1>3, <3>2, <4>1
      <4>2. CASE i # Len(steps) + 1
        <5>1. i \in 1..Len(steps)
          BY <1>2, <4>2
        <5> QED
          BY <1>2, <1>5, <5>1
      <4> QED
        BY <4>1, <4>2
    <3> QED
      BY <3>1, <3>3
  <2> QED
    BY <1>1, <2>1, <2>2
<1>9. pc' # "done" => reason' = None
  BY <1>1, <1>4 DEF RowInv, TraceInv
<1>10. NoFalseVerification'
  <2>1. reason' = "VERIFIED" => candidate \in Correct
    <3>1. reason = None /\ None # "VERIFIED"
      BY <1>4, NoneAssumption DEF RowInv, TraceInv, TerminationReason
    <3> QED
      BY <1>1, <1>3, <3>1
  <2> QED
    BY <1>2, <2>1 DEF NoFalseVerification, FinalStep
<1>11. TraceInv'
  BY <1>1, <1>2, <1>8, <1>9, <1>10 DEF TraceInv
<1> QED
  BY <1>6, <1>7, <1>11 DEF RowInv

\* A round ended by the verifier budget is recorded and not revised.
LEMMA InterruptStep ==
    ASSUME RowInv, InterruptVerifiers, UNCHANGED <<injectors, scripted>>
    PROVE  RowInv'
<1>1. /\ pc = "verifiers" /\ called < verifiers /\ RecordStep(packets, called)
      /\ pc' = "done" /\ reason' = "BUDGET_EXHAUSTED"
      /\ UNCHANGED <<verifiers, candidate, packets, called, injectors>>
  BY DEF InterruptVerifiers, Finalize, arguments, round
<1>2. /\ IsSequence(steps') /\ Len(steps) \in Nat /\ Len(steps') = Len(steps) + 1
      /\ \A i \in DOMAIN steps' : \A k \in DOMAIN steps'[i].evidence :
            AnswerOK(steps'[i].evidence[k], steps'[i].candidate, k)
      /\ \A i \in 1..Len(steps) : steps'[i] = steps[i]
  BY <1>1, RecordRound
<1>3. InjectorsInv'
  <2>1. Config' = Config
    BY <1>1 DEF Config
  <2> QED
    BY <1>1, <2>1 DEF RowInv, InjectorsInv, VerifiersFor
<1>4. RoundInv'
  BY <1>1 DEF RowInv, RoundInv, InRound
<1>5. Revised = 1..Len(steps) /\ Revised' = 1..Len(steps)
  BY <1>1, <1>2 DEF Revised
<1>6. TraceInv'
  BY <1>1, <1>2, <1>5 DEF RowInv, TraceInv, NoFalseVerification
<1> QED
  BY <1>3, <1>4, <1>6 DEF RowInv

\* The steps that record nothing and call no verifier.
LEMMA QuietStep ==
    ASSUME RowInv,
           \/ StartRound /\ UNCHANGED <<injectors, scripted>>
           \/ \E c \in Proposals : ModelReturns(c) /\ UNCHANGED <<injectors, scripted>>
           \/ CallVerifier /\ UNCHANGED <<injectors, scripted>>
           \/ UNCHANGED allVars
    PROVE  RowInv'
<1>1. UNCHANGED <<verifiers, steps, reason, injectors>>
  BY DEF StartRound, ModelReturns, CallVerifier, arguments, round, allVars, vars
<1>2. Config' = Config
  BY <1>1 DEF Config
<1>3. CASE StartRound
  <2>1. pc = "loop" /\ pc' = "model" /\ UNCHANGED <<candidate, packets, called>>
    BY <1>3 DEF StartRound, round
  <2>2. InjectorsInv'
    BY <1>1, <1>2, <2>1 DEF RowInv, InjectorsInv, VerifiersFor
  <2>3. RoundInv'
    BY <1>1, <2>1 DEF RowInv, RoundInv, InRound
  <2>4. TraceInv'
    BY <1>1, <2>1 DEF RowInv, TraceInv, NoFalseVerification, FinalStep, Revised
  <2> QED
    BY <2>2, <2>3, <2>4 DEF RowInv
<1>4. ASSUME NEW c \in Proposals, ModelReturns(c)
      PROVE  RowInv'
  <2>1. /\ pc = "model" /\ pc' = "verifiers" /\ candidate' = c /\ packets' = << >>
        /\ called' = 0
    BY <1>4 DEF ModelReturns
  <2>2. c \in Candidates
    BY FaultyAssumption DEF Proposals
  <2>3. InjectorsInv'
    BY <1>1, <1>2, <2>1 DEF RowInv, InjectorsInv, VerifiersFor
  <2>4. RoundInv'
    <3>1. IsSequence(<< >>) /\ Len(<< >>) = 0 /\ DOMAIN << >> = {}
      BY DEF IsSequence
    <3> QED
      BY <2>1, <2>2, <3>1 DEF RoundInv, InRound
  <2>5. TraceInv'
    BY <1>1, <2>1 DEF RowInv, TraceInv, NoFalseVerification, FinalStep, Revised
  <2> QED
    BY <2>3, <2>4, <2>5 DEF RowInv
<1>5. CASE CallVerifier
  <2>1. /\ pc = "verifiers" /\ pc' = "verify" /\ called < verifiers /\ called' = called + 1
        /\ UNCHANGED <<candidate, packets>>
    BY <1>5 DEF CallVerifier
  <2>2. verifiers \in {1, 2} /\ called \in Nat /\ Len(packets) = called
    BY <2>1 DEF RowInv, InjectorsInv, RoundInv
  <2>3. InjectorsInv'
    BY <1>1, <1>2, <2>1, <2>2 DEF RowInv, InjectorsInv, VerifiersFor
  <2>4. RoundInv'
    BY <1>1, <2>1, <2>2 DEF RowInv, RoundInv, InRound
  <2>5. TraceInv'
    BY <1>1, <2>1 DEF RowInv, TraceInv, NoFalseVerification, FinalStep, Revised
  <2> QED
    BY <2>3, <2>4, <2>5 DEF RowInv
<1>6. CASE UNCHANGED allVars
  <2>1. UNCHANGED <<pc, candidate, packets, called>>
    BY <1>6 DEF allVars, vars
  <2>2. InjectorsInv'
    BY <1>1, <1>2, <2>1 DEF RowInv, InjectorsInv, VerifiersFor
  <2>3. RoundInv'
    BY <1>1, <2>1 DEF RowInv, RoundInv, InRound
  <2>4. TraceInv'
    BY <1>1, <2>1 DEF RowInv, TraceInv, NoFalseVerification, FinalStep, Revised
  <2> QED
    BY <2>2, <2>3, <2>4 DEF RowInv
<1> QED
  BY <1>3, <1>4, <1>5, <1>6

\* Every step of the row keeps the invariant.
LEMMA RowStep == RowInv /\ [FaultyNext]_allVars => RowInv'
<1> SUFFICES ASSUME RowInv, [FaultyNext]_allVars
             PROVE  RowInv'
  OBVIOUS
<1>1. CASE \/ StartRound /\ UNCHANGED <<injectors, scripted>>
           \/ \E c \in Proposals : ModelReturns(c) /\ UNCHANGED <<injectors, scripted>>
           \/ CallVerifier /\ UNCHANGED <<injectors, scripted>>
           \/ UNCHANGED allVars
  BY <1>1, QuietStep
<1>2. CASE FaultingVerifierReturns
  BY <1>2, VerifierStep
<1>3. CASE InterruptVerifiers /\ UNCHANGED <<injectors, scripted>>
  BY <1>3, InterruptStep
<1>4. CASE FaultAwareJudge
  BY <1>4, JudgeStep
<1> QED
  BY <1>1, <1>2, <1>3, <1>4 DEF FaultyNext, FaultyRow

\* The invariant on which every property of the row rests.
THEOREM RowInvariant == FaultySpec => []RowInv
BY RowInit, RowStep, PTL DEF FaultySpec

----------------------------------------------------------------------------
(* The properties *)

\* No single fault makes the row verify a wrong answer: run_vcer with the
\* fault-aware controller fails closed.
THEOREM FailsClosed == FaultySpec => []NoFalseVerification
<1>1. RowInv => NoFalseVerification
  BY DEF RowInv, TraceInv
<1> QED
  BY <1>1, RowInvariant, PTL

\* No revision rests on evidence that is labelled as known corruption.
THEOREM NothingIsAmplified == FaultySpec => []NoRevisionFromCorruption
<1>1. RowInv => NoRevisionFromCorruption
  BY DEF RowInv, TraceInv, NoRevisionFromCorruption, KnownCorruption
<1> QED
  BY <1>1, RowInvariant, PTL

\* Evidence that is recorded for another candidate than it was made for says that
\* it is stale.
THEOREM StraysSaySo == FaultySpec => []StrayEvidenceIsStale
<1>1. RowInv => StrayEvidenceIsStale
  BY DEF RowInv, TraceInv, StrayEvidenceIsStale, AnswerOK, SaysStale
<1> QED
  BY <1>1, RowInvariant, PTL

----------------------------------------------------------------------------
(* The loop head *)

\* The row reaches the loop head only with room for another round: decide() has
\* stopped it before, so that StopAtLoopHead is no step of the row.
GoesOn == pc = "loop" => LoopMayContinue

GoesOnInv ==
    /\ budget \in Budget
    /\ modelCalls \in Nat
    /\ ~timeUp
    /\ GoesOn

\* The first round is always allowed.
LEMMA GoesOnInitially == FaultyInit => GoesOnInv
<1> SUFFICES ASSUME FaultyInit
             PROVE  GoesOnInv
  OBVIOUS
<1>1. Init
  BY DEF FaultyInit
<1>2. budget \in Budget
  BY <1>1, ParameterAssumption DEF Init
<1>3. timeUp = FALSE /\ steps = << >> /\ modelCalls = 0
  BY <1>1 DEF Init
<1>4. budget.max_iterations \in Nat \ {0} /\ ModelCallLimit(budget) \in Nat \ {0}
  BY <1>2 DEF Budget, ModelCallLimit
<1>5. 0 < budget.max_iterations /\ 0 < ModelCallLimit(budget) /\ Len(<< >>) = 0
  BY <1>4
<1> QED
  BY <1>2, <1>3, <1>5 DEF GoesOnInv, GoesOn, LoopMayContinue

\* Without a decision the budget leaves another round.
LEMMA UndecidedGoesOn ==
    ASSUME FaultAwareDecision = None
    PROVE  ~ (Len(steps') >= budget.max_iterations \/ modelCalls >= ModelCallLimit(budget))
<1> DEFINE spent == Len(steps') >= budget.max_iterations \/ modelCalls >= ModelCallLimit(budget)
<1>1. None \notin TerminationReason
  BY NoneAssumption
<1>2. "UNVERIFIABLE" # None
  BY <1>1 DEF TerminationReason
<1>3. Decide(DefaultSettings, steps', packets, spent) = None
  BY <1>2 DEF FaultAwareDecision
<1> HIDE DEF spent
<1>4. spent => Decide(DefaultSettings, steps', packets, spent) \in TerminationReason
  BY DEF Decide, TerminationReason
<1> QED
  BY <1>1, <1>3, <1>4 DEF spent

\* Only JudgeRound returns to the loop head.
LEMMA GoesOnStep ==
    ASSUME RowInv, GoesOnInv, [FaultyNext]_allVars
    PROVE  GoesOnInv'
<1>1. UNCHANGED <<budget, timeUp>> /\ modelCalls' \in {modelCalls, modelCalls + 1}
  BY DEF FaultyNext, FaultyRow, StartRound, ModelReturns, CallVerifier,
         FaultingVerifierReturns, VerifierReturns, InterruptVerifiers, FaultAwareJudge,
         JudgeRound, allVars, vars, arguments
<1>2. budget' \in Budget /\ modelCalls' \in Nat /\ ~timeUp'
  BY <1>1 DEF GoesOnInv
<1>3. CASE FaultAwareJudge
  <2>1. /\ pc = "verifiers" /\ RecordStep(packets, called) /\ UNCHANGED modelCalls
        /\ pc' = "loop" => FaultAwareDecision = None
    BY <1>3 DEF FaultAwareJudge, JudgeRound
  <2>2. IsSequence(steps') /\ Len(steps') \in Nat
    BY <2>1, RecordRound
  <2>3. budget.max_iterations \in Nat /\ ModelCallLimit(budget) \in Nat /\ modelCalls \in Nat
    BY DEF GoesOnInv, Budget, ModelCallLimit
  <2>4. ASSUME pc' = "loop"
        PROVE  Len(steps') < budget.max_iterations /\ modelCalls < ModelCallLimit(budget)
    <3>1. ~ (Len(steps') >= budget.max_iterations \/ modelCalls >= ModelCallLimit(budget))
      BY <2>1, <2>4, UndecidedGoesOn
    <3> QED
      BY <3>1, <2>2, <2>3
  <2>5. GoesOn'
    BY <1>1, <1>2, <2>1, <2>4 DEF GoesOn, LoopMayContinue, ModelCallLimit
  <2> QED
    BY <1>2, <2>5 DEF GoesOnInv
<1>4. CASE UNCHANGED allVars
  BY <1>2, <1>4 DEF allVars, vars, GoesOnInv, GoesOn, LoopMayContinue, ModelCallLimit
<1>5. CASE ~FaultAwareJudge /\ ~ UNCHANGED allVars
  <2>1. pc' # "loop"
    BY <1>5 DEF FaultyNext, FaultyRow, StartRound, ModelReturns, CallVerifier,
         FaultingVerifierReturns, VerifierReturns, InterruptVerifiers, Finalize
  <2> QED
    BY <1>2, <2>1 DEF GoesOnInv, GoesOn
<1> QED
  BY <1>3, <1>4, <1>5

\* The guard of the loop head of runtime.verify never ends a vcer row: decide()
\* has stopped it before.
THEOREM LoopHeadNeverStops == FaultySpec => []GoesOn
<1>1. RowInv /\ GoesOnInv /\ [FaultyNext]_allVars => GoesOnInv'
  BY GoesOnStep
<1>2. GoesOnInv => GoesOn
  BY DEF GoesOnInv
<1> QED
  BY <1>1, <1>2, GoesOnInitially, RowInvariant, PTL DEF FaultySpec

----------------------------------------------------------------------------
(* Harmless faults *)

HarmlessKind == {"duplicated_evidence", "missing_counterexample"}

\* What is left of the verdict on candidate c, but for its counterexample.
Speaks(a, c) ==
    /\ a.status = IF c \in Correct THEN "PASS" ELSE "FAIL"
    /\ a.independence = "INDEPENDENT" /\ a.llm_produced = FALSE
    /\ ~KnownCorruption(a)

\* The counterexample that is left of it.
Shown(c, hidden) == IF c \in Correct \/ hidden THEN None ELSE "actual"

\* Answers to both verifiers that agree with the verdict on c.
SpeakFor(outs, c, hidden) ==
    \A k \in {1, 2} :
        LET a == outs[IF k <= Len(outs) THEN k ELSE Len(outs)]
        IN  Speaks(a, c) /\ a.counterexample = Shown(c, hidden)

\* A label of these kinds on the case verifier's packet says nothing else.
LEMMA HarmlessLabel ==
    ASSUME NEW c \in Candidates, NEW kind \in HarmlessKind
    PROVE  /\ Speaks(CasePacket(c), c) /\ Speaks(Labelled(CasePacket(c), kind), c)
           /\ CasePacket(c).counterexample = Shown(c, FALSE)
           /\ Labelled(CasePacket(c), kind).counterexample = Shown(c, FALSE)
           /\ "counterexample" \in DOMAIN Labelled(CasePacket(c), kind)
<1> DEFINE p == CasePacket(c)
           rel == [p.reliability EXCEPT !.injected_faults = Append(@, kind)]
           q == [p EXCEPT !.reliability = rel, !.sealed = TRUE]
<1>1. Labelled(p, kind) = q
  BY DEF Labelled, CasePacket
<1>2. p.reliability = NoFaults
  BY DEF CasePacket
<1>3. rel.injected_faults = <<kind>> /\ p.reliability.injected_faults = << >>
  BY <1>2 DEF NoFaults
<1> HIDE DEF rel
<1>4. /\ p.status = (IF c \in Correct THEN "PASS" ELSE "FAIL")
      /\ p.counterexample = Shown(c, FALSE)
      /\ p.independence = "INDEPENDENT" /\ p.llm_produced = FALSE
      /\ q.status = p.status /\ q.counterexample = p.counterexample
      /\ q.independence = p.independence /\ q.llm_produced = p.llm_produced
      /\ q.reliability = rel /\ "counterexample" \in DOMAIN q
  BY DEF CasePacket, Shown
<1> HIDE DEF p, q
<1>5. ~KnownCorruption(p)
  BY <1>3 DEF KnownCorruption
<1>6. q.reliability.injected_faults = <<kind>>
  BY <1>3, <1>4
<1>7. ~KnownCorruption(q)
  BY <1>6, CorruptionIsKnown DEF HarmlessKind
<1>8. Speaks(p, c) /\ Speaks(q, c)
  BY <1>4, <1>5, <1>7 DEF Speaks
<1> QED
  BY <1>1, <1>4, <1>8 DEF p

\* One call of an injector with a harmless fault.
LEMMA HarmlessCall ==
    ASSUME NEW config, NEW j, IsRowInjector(j, config), j.pending = << >>,
           config.kind \in HarmlessKind,
           NEW c \in Candidates, NEW step \in Nat,
           NEW outs, outs = Injected(j, CasePacket(c), step),
           NEW new, new = AfterInject(j, CasePacket(c), step),
           NEW hidden, hidden = (config.kind = "missing_counterexample" /\ Decision(j, 1, step))
    PROVE  /\ outs # << >> /\ SpeakFor(outs, c, hidden)
           /\ new.schedule = j.schedule
           /\ Len(new.history) = Len(j.history) + 1 /\ Len(j.history) \in Nat
<1> DEFINE p == CasePacket(c)
           q == Labelled(p, config.kind)
           last == LastStage(j, p, step)
           events == last.events
           pending == last.pending
           applied == Decision(j, 1, step)
<1>1. /\ j.configs = <<config>> /\ j.configs[1] = config
      /\ j.history \in Seq(Made) /\ p \in Made
  BY DEF IsRowInjector, Made
<1>2. last = NextStage(j, FirstStage(j, p, step), 1, step)
  BY <1>1, OneTurn
<1>3. FirstStage(j, p, step).packets = <<p>>
  BY DEF FirstStage
<1>4. outs = << >> \o last.packets
  BY NothingDue DEF Injected
<1>5. /\ new.schedule = j.schedule
      /\ Len(new.history) = Len(j.history) + 1 /\ Len(j.history) \in Nat
  <2>1. new = [j EXCEPT !.pending = pending, !.events = events, !.history = Append(@, p)]
    BY DEF AfterInject
  <2> HIDE DEF pending, events, p
  <2>2. new.schedule = j.schedule /\ new.history = Append(j.history, p)
    BY <2>1 DEF IsRowInjector
  <2>3. Len(j.history) \in Nat /\ Len(Append(j.history, p)) = Len(j.history) + 1
    BY <1>1
  <2> QED
    BY <2>2, <2>3
<1>6. /\ Speaks(p, c) /\ Speaks(q, c)
      /\ p.counterexample = Shown(c, FALSE) /\ q.counterexample = Shown(c, FALSE)
      /\ "counterexample" \in DOMAIN q
  BY HarmlessLabel
<1> HIDE DEF p, q, events, pending
<1>7. \A x : Speaks(x, c) /\ x.counterexample = Shown(c, hidden) => SpeakFor(<<x>>, c, hidden)
  BY DEF SpeakFor
<1>8. CASE ~applied
  <2>1. last.packets = <<p>>
    BY <1>1, <1>2, <1>3, <1>8 DEF NextStage
  <2>2. outs = <<p>>
    BY <1>4, <2>1
  <2>3. Shown(c, hidden) = Shown(c, FALSE)
    BY <1>8 DEF Shown
  <2>4. SpeakFor(outs, c, hidden)
    BY <1>6, <1>7, <2>2, <2>3
  <2> QED
    BY <1>5, <2>2, <2>4
<1>9. CASE applied
  <2> DEFINE made == Apply(j, p, config)
  <2>1. last.packets = ApplyAll(j, <<p>>, config)
    BY <1>1, <1>2, <1>3, <1>9 DEF NextStage, HarmlessKind
  <2>2. ApplyAll(j, <<p>>, config) = FlattenSeq(<<made>>)
    <3>1. [k \in DOMAIN <<p>> |-> Apply(j, <<p>>[k], config)] = <<made>>
      OBVIOUS
    <3> QED
      BY <3>1 DEF ApplyAll
  <2>3. CASE config.kind = "duplicated_evidence"
    <3>1. made = <<p, q>>
      BY <2>3 DEF Apply, q
    <3> HIDE DEF made
    <3>2. made \in Seq({p, q}) /\ << >> \o made = made
      BY <3>1
    <3>3. outs = <<p, q>>
      BY <1>4, <2>1, <2>2, <3>1, <3>2, FlattenOne
    <3>4. Shown(c, hidden) = Shown(c, FALSE)
      BY <2>3 DEF Shown
    <3>5. \A k \in {1, 2} :
             LET a == outs[IF k <= Len(outs) THEN k ELSE Len(outs)] IN a = p \/ a = q
      BY <3>3
    <3>6. SpeakFor(outs, c, hidden)
      BY <1>6, <3>4, <3>5 DEF SpeakFor
    <3> QED
      BY <1>5, <3>3, <3>6
  <2>4. CASE config.kind = "missing_counterexample"
    <3> DEFINE x == [q EXCEPT !.counterexample = None]
    <3>1. made = <<x>>
      BY <2>4 DEF Apply, q
    <3>2. Speaks(x, c) /\ x.counterexample = None
      BY <1>6 DEF Speaks, KnownCorruption
    <3> HIDE DEF made, x
    <3>3. made \in Seq({x}) /\ << >> \o made = made
      BY <3>1
    <3>4. outs = <<x>>
      BY <1>4, <2>1, <2>2, <3>1, <3>3, FlattenOne
    <3>5. Shown(c, hidden) = None
      BY <1>9, <2>4 DEF Shown
    <3> QED
      BY <1>5, <1>7, <3>2, <3>4, <3>5
  <2> QED
    BY <2>3, <2>4 DEF HarmlessKind
<1> QED
  BY <1>8, <1>9

\* The round in which the scripted model is right: the one after the first round
\* with a counterexample.
Needed ==
    IF Config.kind = "missing_counterexample" /\ injectors[1].schedule[1][0] THEN 3 ELSE 2

\* A packet of round n of a row that is right in round needed.
Expected(p, n, needed) ==
    /\ p.sealed = TRUE
    /\ p.independence = "INDEPENDENT" /\ p.llm_produced = FALSE
    /\ ~KnownCorruption(p)
    /\ p.status = IF n = needed THEN "PASS" ELSE "FAIL"
    /\ p.counterexample # None <=> n = needed - 1

\* The calls of the first injector that belong to the round in progress.
CallsInRound == IF pc = "verifiers" THEN called ELSE 0

HarmlessInv ==
    /\ ~timeUp
    /\ pc # "done" =>
          /\ Len(steps) < Needed
          /\ modelCalls = Len(steps) + IF pc = "model" \/ InRound THEN 1 ELSE 0
          /\ Config.kind = "missing_counterexample" =>
                Len(injectors[1].history) = Len(steps) + CallsInRound
    /\ pc \in {"loop", "model"} =>
          /\ IsSequence(lastEvidence)
          /\ lastEvidence = << >> <=> steps = << >>
          /\ \A k \in DOMAIN lastEvidence : Expected(lastEvidence[k], Len(steps), Needed)
    /\ InRound =>
          /\ candidate \in Correct <=> Len(steps) + 1 = Needed
          /\ \A k \in DOMAIN packets : Expected(packets[k], Len(steps) + 1, Needed)
    /\ pc = "done" => Succeeds

RowSucceeds == Harmless => HarmlessInv

\* No step changes what makes a row harmless.
LEMMA HarmlessStays ==
    ASSUME RowInv, [FaultyNext]_allVars
    PROVE  /\ UNCHANGED <<budget, scripted, verifiers, timeUp>>
           /\ Config' = Config
           /\ Harmless' => Harmless /\ injectors'[1].schedule = injectors[1].schedule
           /\ Harmless' => Needed' = Needed
<1>1. UNCHANGED <<budget, scripted, verifiers, timeUp>>
  BY DEF FaultyNext, FaultyRow, StartRound, ModelReturns, CallVerifier,
         FaultingVerifierReturns, VerifierReturns, InterruptVerifiers, FaultAwareJudge,
         JudgeRound, allVars, vars, arguments
<1>2. \/ UNCHANGED injectors
      \/ \E p, step : /\ called \in 1..verifiers
                      /\ injectors' = [injectors EXCEPT
                            ![called] = AfterInject(injectors[called], p, step)]
  <2>1. CASE FaultingVerifierReturns
    <3>1. called \in 1..verifiers
      BY <2>1 DEF FaultingVerifierReturns, VerifierReturns, RowInv, RoundInv
    <3>2. injectors' = [injectors EXCEPT ![called] =
               AfterInject(injectors[called], CasePacket(candidate), Len(injectors[called].history))]
      BY <2>1 DEF FaultingVerifierReturns
    <3> QED
      BY <3>1, <3>2
  <2>2. CASE ~FaultingVerifierReturns
    BY <2>2 DEF FaultyNext, FaultyRow, FaultAwareJudge, allVars
  <2> QED
    BY <2>1, <2>2
<1>3. /\ \A k \in 1..verifiers : IsRowInjector(injectors[k], Config)
      /\ DOMAIN injectors = 1..verifiers /\ verifiers \in {1, 2}
  BY DEF RowInv, InjectorsInv
<1>4. \A p, step : \A k \in 1..verifiers :
         /\ AfterInject(injectors[k], p, step).configs = injectors[k].configs
         /\ AfterInject(injectors[k], p, step).schedule = injectors[k].schedule
  <2>1. ASSUME NEW p, NEW step, NEW k \in 1..verifiers
        PROVE  /\ AfterInject(injectors[k], p, step).configs = injectors[k].configs
               /\ AfterInject(injectors[k], p, step).schedule = injectors[k].schedule
    <3> DEFINE last == LastStage(injectors[k], p, step)
               pending == last.pending
               events == last.events
               j == injectors[k]
    <3>1. AfterInject(j, p, step) =
             [j EXCEPT !.pending = pending, !.events = events, !.history = Append(@, p)]
      BY DEF AfterInject
    <3>2. IsRowInjector(j, Config)
      BY <1>3
    <3> HIDE DEF pending, events, j
    <3>3. /\ AfterInject(j, p, step).configs = j.configs
          /\ AfterInject(j, p, step).schedule = j.schedule
      BY <3>1, <3>2 DEF IsRowInjector
    <3> QED
      BY <3>3 DEF j
  <2> QED
    BY <2>1
<1>5. injectors'[1].configs = injectors[1].configs /\ injectors'[1].schedule = injectors[1].schedule
  BY <1>2, <1>3, <1>4
<1>6. Config' = Config
  BY <1>5 DEF Config
<1>7. Harmless' => Harmless
  BY <1>1, <1>5, <1>6 DEF Harmless, ModelCallLimit
<1>8. Needed' = Needed
  BY <1>5, <1>6 DEF Needed
<1> QED
  BY <1>1, <1>5, <1>6, <1>7, <1>8

\* The right round is the second or the third.
LEMMA NeededType == Needed \in {2, 3}
BY DEF Needed

\* A row begins without evidence.
LEMMA SucceedsInitially == FaultyInit => RowSucceeds
<1> SUFFICES ASSUME FaultyInit
             PROVE  HarmlessInv
  BY DEF RowSucceeds
<1>1. Init
  BY DEF FaultyInit
<1>2. /\ pc = "loop" /\ steps = << >> /\ timeUp = FALSE /\ modelCalls = 0
      /\ lastEvidence = << >>
  BY <1>1 DEF Init
<1>3. IsSequence(<< >>) /\ Len(<< >>) = 0 /\ DOMAIN << >> = {}
  BY DEF IsSequence
<1>4. Len(injectors[1].history) = 0
  <2>1. PICK config \in FaultConfigs :
         \E schedule \in [{1} -> [FaultSteps(budget) -> BOOLEAN]] :
            /\ verifiers = VerifiersFor(config)
            /\ injectors = [k \in 1..verifiers |-> NewInjector(<<config>>, schedule)]
    BY DEF FaultyInit
  <2>2. PICK schedule \in [{1} -> [FaultSteps(budget) -> BOOLEAN]] :
            /\ verifiers = VerifiersFor(config)
            /\ injectors = [k \in 1..verifiers |-> NewInjector(<<config>>, schedule)]
    BY <2>1
  <2>3. 1 \in 1..verifiers
    BY <2>2 DEF VerifiersFor
  <2>4. injectors[1].history = << >>
    BY <2>2, <2>3 DEF NewInjector
  <2> QED
    BY <1>3, <2>4
<1> QED
  BY <1>2, <1>3, <1>4, NeededType DEF HarmlessInv, InRound, CallsInRound

\* A step within a round or into one: the counts follow, and the model answers what
\* the evidence tells it.
LEMMA SucceedsQuietly ==
    ASSUME RowInv, Harmless, HarmlessInv, Needed' = Needed, ~timeUp',
           \/ StartRound /\ UNCHANGED <<injectors, scripted>>
           \/ \E c \in Proposals : ModelReturns(c) /\ UNCHANGED <<injectors, scripted>>
           \/ CallVerifier /\ UNCHANGED <<injectors, scripted>>
           \/ UNCHANGED allVars
    PROVE  HarmlessInv'
<1>1. UNCHANGED <<verifiers, steps, reason, injectors, lastEvidence>> /\ Config' = Config
  BY DEF StartRound, ModelReturns, CallVerifier, arguments, round, allVars, vars, Config
<1>2. Len(steps) \in Nat /\ (steps = << >> <=> Len(steps) = 0)
  BY DEF RowInv, TraceInv, IsSequence
<1>3. CASE StartRound
  <2>1. pc = "loop" /\ pc' = "model" /\ modelCalls' = modelCalls + 1
    BY <1>3 DEF StartRound
  <2> QED
    BY <1>1, <1>2, <2>1 DEF HarmlessInv, InRound, CallsInRound
<1>4. ASSUME NEW c \in Proposals, ModelReturns(c)
      PROVE  HarmlessInv'
  <2>1. /\ pc = "model" /\ pc' = "verifiers" /\ candidate' = c /\ packets' = << >>
        /\ called' = 0 /\ UNCHANGED modelCalls
    BY <1>4 DEF ModelReturns
  <2>2. /\ IsSequence(lastEvidence) /\ (lastEvidence = << >> <=> steps = << >>)
        /\ \A k \in DOMAIN lastEvidence : Expected(lastEvidence[k], Len(steps), Needed)
        /\ Len(steps) < Needed
    BY <2>1 DEF HarmlessInv
  <2>3. HasTrustedFailure(lastEvidence) <=> Len(steps) + 1 = Needed
    <3>1. ASSUME NEW k \in DOMAIN lastEvidence
          PROVE  /\ lastEvidence[k].counterexample # None <=> Len(steps) = Needed - 1
                 /\ lastEvidence[k].status = "FAIL"
                 /\ ValidateHash(lastEvidence[k]) /\ IsIndependent(lastEvidence[k])
      <4>1. Expected(lastEvidence[k], Len(steps), Needed)
        BY <2>2
      <4>2. lastEvidence[k].sealed = TRUE /\ lastEvidence[k].llm_produced = FALSE
        BY <4>1 DEF Expected
      <4>3. lastEvidence[k].independence = "INDEPENDENT" /\ lastEvidence[k].status = "FAIL"
        BY <1>2, <2>2, <4>1, NeededType DEF Expected
      <4>4. lastEvidence[k].counterexample # None <=> Len(steps) = Needed - 1
        BY <4>1 DEF Expected
      <4> QED
        BY <4>2, <4>3, <4>4 DEF ValidateHash, IsIndependent
    <3>2. Len(steps) + 1 = Needed => 1 \in DOMAIN lastEvidence
      <4>1. Len(steps) + 1 = Needed => lastEvidence # << >>
        BY <1>2, <2>2, NeededType
      <4>2. lastEvidence # << >> => 1 \in DOMAIN lastEvidence
        BY <2>2 DEF IsSequence
      <4> QED
        BY <4>1, <4>2
    <3>3. Len(steps) + 1 = Needed <=> Len(steps) = Needed - 1
      BY <1>2, NeededType
    <3> QED
      BY <3>1, <3>2, <3>3 DEF HasTrustedFailure
  <2>4. c \in Correct <=> Len(steps) + 1 = Needed
    BY <2>3, FaultyAssumption DEF Proposals, Harmless, StateForModel
  <2>5. DOMAIN << >> = {}
    OBVIOUS
  <2>6. Config.kind = "missing_counterexample" =>
              Len(injectors[1].history) = Len(steps) + 0
    BY <2>1 DEF HarmlessInv, CallsInRound
  <2> QED
    BY <1>1, <1>2, <2>1, <2>2, <2>4, <2>5, <2>6 DEF HarmlessInv, InRound, CallsInRound
<1>5. CASE CallVerifier
  <2>1. /\ pc = "verifiers" /\ pc' = "verify" /\ called < verifiers
        /\ UNCHANGED <<candidate, packets, modelCalls>>
    BY <1>5 DEF CallVerifier
  <2>2. Config.kind = "missing_counterexample" => called = 0
    BY <2>1 DEF RowInv, InjectorsInv, RoundInv, VerifiersFor
  <2> QED
    BY <1>1, <1>2, <2>1, <2>2 DEF HarmlessInv, InRound, CallsInRound
<1>6. CASE UNCHANGED allVars
  BY <1>1, <1>6 DEF allVars, vars, HarmlessInv, InRound, CallsInRound, Succeeds, FinalStep
<1> QED
  BY <1>3, <1>4, <1>5, <1>6

\* A verifier answers with the verdict, without a counterexample only in the
\* first of three rounds.
LEMMA SucceedsAtVerifier ==
    ASSUME RowInv, Harmless, HarmlessInv, Needed' = Needed, ~timeUp', Config' = Config,
           FaultingVerifierReturns
    PROVE  HarmlessInv'
<1> DEFINE k == called
           j == injectors[k]
           step == Len(j.history)
           outs == Injected(j, CasePacket(candidate), step)
           new == AfterInject(j, CasePacket(candidate), step)
           a == AnswerOf(k, outs)
           answer == NewPacket(a)
           hidden == Config.kind = "missing_counterexample" /\ Decision(j, 1, step)
           n == Len(steps) + 1
<1>1. /\ pc = "verify" /\ pc' = "verifiers" /\ packets' = Append(packets, answer)
      /\ injectors' = [injectors EXCEPT ![k] = new]
      /\ UNCHANGED <<verifiers, steps, candidate, called, modelCalls>>
  BY DEF FaultingVerifierReturns, VerifierReturns, arguments
<1>2. /\ verifiers \in {1, 2} /\ verifiers = VerifiersFor(Config) /\ k \in 1..verifiers
      /\ DOMAIN injectors = 1..verifiers /\ Len(packets) = k - 1
      /\ candidate \in Candidates /\ IsSequence(packets)
      /\ \A i \in 1..verifiers : IsRowInjector(injectors[i], Config)
      /\ Len(steps) \in Nat
  BY <1>1 DEF RowInv, InjectorsInv, RoundInv, InRound, TraceInv, IsSequence
<1>3. j.pending = << >> /\ IsRowInjector(j, Config) /\ step \in Nat
  <2>1. j.pending = << >> /\ IsRowInjector(j, Config)
    BY <1>1, <1>2 DEF RowInv, InjectorsInv
  <2>2. j.history \in Seq(Made)
    BY <2>1 DEF IsRowInjector
  <2> QED
    BY <2>1, <2>2
<1>4. Config.kind \in HarmlessKind
  BY DEF Harmless, HarmlessKind
<1>5. /\ outs # << >> /\ SpeakFor(outs, candidate, hidden)
      /\ Len(new.history) = step + 1
  BY <1>2, <1>3, <1>4, HarmlessCall
<1>6. /\ Len(steps) < Needed
      /\ Config.kind = "missing_counterexample" =>
            Len(injectors[1].history) = Len(steps)
      /\ candidate \in Correct <=> n = Needed
      /\ \A i \in DOMAIN packets : Expected(packets[i], n, Needed)
      /\ modelCalls = Len(steps) + 1
  BY <1>1, <1>2 DEF HarmlessInv, InRound, CallsInRound
<1>7. /\ a.status = (IF candidate \in Correct THEN "PASS" ELSE "FAIL")
      /\ a.independence = "INDEPENDENT" /\ a.llm_produced = FALSE
      /\ ~KnownCorruption(a)
      /\ a.counterexample = Shown(candidate, hidden)
  <2>1. a = outs[IF k <= Len(outs) THEN k ELSE Len(outs)]
    BY <1>5 DEF AnswerOf
  <2>2. k \in {1, 2}
    BY <1>2
  <2>3. SpeakFor(outs, candidate, hidden)
    BY <1>5
  <2> HIDE DEF a, outs, hidden, k
  <2> QED
    BY <2>1, <2>2, <2>3 DEF SpeakFor, Speaks
<1>8. Config.kind = "missing_counterexample" => k = 1 /\ step = Len(steps)
  BY <1>2, <1>6 DEF VerifiersFor
<1>9. a.counterexample # None <=> n = Needed - 1
  <2>1. "actual" # None
    BY FaultyAssumption, NoneAssumption
  <2>2. CASE candidate \in Correct
    BY <1>2, <1>6, <1>7, <2>2, NeededType DEF Shown
  <2>3. CASE candidate \notin Correct
    <3>1. n < Needed /\ n \in Nat \ {0}
      BY <1>2, <1>6, <2>3, NeededType
    <3>2. a.counterexample # None <=> ~hidden
      BY <1>7, <2>1, <2>3 DEF Shown
    <3>3. hidden <=> n # Needed - 1
      <4>1. CASE Config.kind # "missing_counterexample"
        <5>1. Needed = 2
          BY <4>1 DEF Needed
        <5> QED
          BY <3>1, <4>1, <5>1
      <4>2. CASE Config.kind = "missing_counterexample"
        <5>1. hidden <=> injectors[1].schedule[1][Len(steps)]
          BY <1>8, <4>2 DEF Decision
        <5>2. ~injectors[1].schedule[1][0] \/ ~injectors[1].schedule[1][1]
          BY <4>2 DEF Harmless
        <5>3. CASE injectors[1].schedule[1][0]
          <6>1. Needed = 3
            BY <4>2, <5>3 DEF Needed
          <6>2. CASE Len(steps) = 0
            BY <5>1, <5>3, <6>1, <6>2
          <6>3. CASE Len(steps) = 1
            <7>1. ~hidden
              BY <5>1, <5>2, <5>3, <6>3
            <7> QED
              BY <6>1, <6>3, <7>1
          <6>4. Len(steps) = 0 \/ Len(steps) = 1
            <7>1. Len(steps) \in Nat
              BY <1>2
            <7>2. Len(steps) + 1 < 3
              BY <3>1, <6>1
            <7> QED
              BY <7>1, <7>2
          <6> QED
            BY <6>2, <6>3, <6>4
        <5>4. CASE ~injectors[1].schedule[1][0]
          <6>1. Needed = 2
            BY <5>4 DEF Needed
          <6>2. Len(steps) = 0
            BY <1>2, <3>1, <6>1
          <6> QED
            BY <5>1, <5>4, <6>1, <6>2
        <5> QED
          BY <5>3, <5>4
      <4> QED
        BY <4>1, <4>2
    <3>4. n = Needed - 1 \/ n # Needed - 1
      OBVIOUS
    <3> QED
      BY <3>2, <3>3
  <2> QED
    BY <2>2, <2>3
<1>10. Expected(answer, n, Needed)
  <2>1. /\ answer.sealed = TRUE /\ answer.status = a.status
        /\ answer.counterexample = a.counterexample /\ answer.reliability = a.reliability
        /\ answer.llm_produced = a.llm_produced
        /\ a.llm_produced = FALSE => answer.independence = a.independence
    BY DEF NewPacket
  <2> HIDE DEF a, answer, n
  <2>2. ~KnownCorruption(answer)
    BY <1>7, <2>1 DEF KnownCorruption
  <2>3. answer.status = IF n = Needed THEN "PASS" ELSE "FAIL"
    BY <1>6, <1>7, <2>1
  <2> QED
    BY <1>7, <1>9, <2>1, <2>2, <2>3 DEF Expected
<1> HIDE DEF answer, new
<1>11. \A i \in DOMAIN packets' : Expected(packets'[i], n, Needed)
  <2>1. /\ DOMAIN packets' = 1..k /\ packets'[k] = answer
        /\ \A i \in 1..(k - 1) : packets'[i] = packets[i] /\ i \in DOMAIN packets
    BY <1>1, <1>2, SequenceAppend
  <2>2. \A i \in 1..k : i = k \/ i \in 1..(k - 1)
    BY <1>2
  <2> QED
    BY <1>6, <1>10, <2>1, <2>2
<1>12. Config.kind = "missing_counterexample" =>
          Len(injectors'[1].history) = Len(steps) + called
  BY <1>1, <1>2, <1>5, <1>8
<1> QED
  BY <1>1, <1>6, <1>11, <1>12 DEF HarmlessInv, InRound, CallsInRound

\* A round without a right answer is revised, a right one verified.
LEMMA SucceedsAtJudge ==
    ASSUME RowInv, GoesOnInv, Harmless, HarmlessInv, Needed' = Needed, ~timeUp',
           Config' = Config, FaultAwareJudge
    PROVE  HarmlessInv'
<1> DEFINE n == Len(steps) + 1
<1>1. /\ pc = "verifiers" /\ called = verifiers /\ RecordStep(packets, called)
      /\ UNCHANGED <<verifiers, candidate, packets, called, injectors, modelCalls>>
      /\ \/ /\ FaultAwareDecision = None /\ pc' = "loop" /\ lastEvidence' = packets
         \/ FaultAwareDecision # None /\ pc' = "done" /\ reason' = FaultAwareDecision
  BY DEF FaultAwareJudge, JudgeRound, Finalize, arguments, round
<1>2. /\ IsSequence(steps') /\ Len(steps) \in Nat /\ Len(steps') = n
      /\ steps'[n].candidate = candidate
  BY <1>1, RecordRound
<1>3. /\ verifiers \in {1, 2} /\ verifiers = VerifiersFor(Config)
      /\ IsSequence(packets) /\ Len(packets) = verifiers
  BY <1>1 DEF RowInv, InjectorsInv, RoundInv
<1>4. /\ Len(steps) < Needed
      /\ modelCalls = n
      /\ Config.kind = "missing_counterexample" =>
            Len(injectors[1].history) = Len(steps) + called
      /\ candidate \in Correct <=> n = Needed
      /\ \A k \in DOMAIN packets : Expected(packets[k], n, Needed)
  BY <1>1 DEF HarmlessInv, InRound, CallsInRound
<1>5. DOMAIN packets = 1..verifiers /\ 1 \in DOMAIN packets /\ packets # << >>
  BY <1>3 DEF IsSequence
<1>6. \A k \in DOMAIN packets : ~KnownCorruption(packets[k])
  BY <1>4 DEF Expected
<1> DEFINE spent == Len(steps') >= budget.max_iterations \/ modelCalls >= ModelCallLimit(budget)
<1>7. FaultAwareDecision = Decide(DefaultSettings, steps', packets, spent)
  BY <1>6 DEF FaultAwareDecision
<1>8. ~Tampered(packets) /\ ~SelfCertified(packets)
  BY <1>4 DEF Tampered, SelfCertified, ValidateHash, IsIndependent, Expected
<1> HIDE DEF spent
<1>9. CASE n = Needed
  <2>1. Statuses(packets) = {"PASS"}
    BY <1>4, <1>5, <1>9 DEF Statuses, Expected
  <2>2. FaultAwareDecision = "VERIFIED"
    BY <1>5, <1>7, <1>8, <2>1 DEF Decide, Conflicted, Passed
  <2>3. None # "VERIFIED"
    BY NoneAssumption DEF TerminationReason
  <2>4. pc' = "done" /\ reason' = "VERIFIED"
    BY <1>1, <2>2, <2>3
  <2> QED
    BY <1>2, <1>4, <1>9, <2>4 DEF HarmlessInv, InRound, Succeeds, FinalStep
<1>10. CASE n # Needed
  <2>1. n \in {1, 2} /\ n < Needed
    BY <1>2, <1>4, <1>10, NeededType
  <2>2. Statuses(packets) = {"FAIL"}
    BY <1>4, <1>5, <1>10 DEF Statuses, Expected
  <2>3. ~spent
    <3>1. budget.max_iterations >= 3 /\ ModelCallLimit(budget) >= 3
      BY DEF Harmless
    <3>2. budget.max_iterations \in Nat /\ ModelCallLimit(budget) \in Nat
      BY DEF GoesOnInv, Budget, ModelCallLimit
    <3> HIDE DEF n
    <3> QED
      BY <1>2, <1>4, <2>1, <3>1, <3>2 DEF spent
  <2>4. ~IsOscillating(DefaultSettings, steps') /\ ~IsPlateau(DefaultSettings, steps')
    BY <1>2, <2>1 DEF IsOscillating, IsPlateau, DefaultSettings
  <2>5. FaultAwareDecision = None
    BY <1>5, <1>7, <1>8, <2>2, <2>3, <2>4 DEF Decide, Conflicted, Passed, Unsettled
  <2>6. pc' = "loop" /\ lastEvidence' = packets
    BY <1>1, <2>5
  <2>7. steps' # << >>
    BY <1>2, <2>1
  <2>8. Config.kind = "missing_counterexample" =>
           Len(injectors[1].history) = Len(steps')
    BY <1>1, <1>2, <1>3, <1>4 DEF VerifiersFor
  <2>9. \A k \in DOMAIN packets : Expected(packets[k], Len(steps'), Needed)
    BY <1>2, <1>4
  <2> HIDE DEF n
  <2>10. modelCalls' = Len(steps') /\ Len(steps') < Needed /\ Len(steps') \in Nat
    BY <1>1, <1>2, <1>4, <2>1
  <2> QED
    BY <1>1, <1>3, <1>5, <2>6, <2>7, <2>8, <2>9, <2>10 DEF HarmlessInv, InRound, CallsInRound
<1> QED
  BY <1>9, <1>10

\* The verifiers are not interrupted: nothing limits their calls.
LEMMA SucceedsUninterrupted ==
    ASSUME Harmless, HarmlessInv
    PROVE  ~InterruptVerifiers
BY DEF Harmless, HarmlessInv, InterruptVerifiers, MayCallVerifier

\* The invariant of the rows with a harmless fault.
LEMMA SucceedsStep ==
    ASSUME RowInv, GoesOnInv, RowSucceeds, [FaultyNext]_allVars
    PROVE  RowSucceeds'
<1> SUFFICES ASSUME Harmless'
             PROVE  HarmlessInv'
  BY DEF RowSucceeds
<1>1. /\ UNCHANGED timeUp /\ Config' = Config /\ Harmless /\ Needed' = Needed
  BY HarmlessStays
<1>2. HarmlessInv /\ ~timeUp'
  BY <1>1 DEF RowSucceeds, HarmlessInv
<1>3. CASE \/ StartRound /\ UNCHANGED <<injectors, scripted>>
           \/ \E c \in Proposals : ModelReturns(c) /\ UNCHANGED <<injectors, scripted>>
           \/ CallVerifier /\ UNCHANGED <<injectors, scripted>>
           \/ UNCHANGED allVars
  BY <1>1, <1>2, <1>3, SucceedsQuietly
<1>4. CASE FaultingVerifierReturns
  BY <1>1, <1>2, <1>4, SucceedsAtVerifier
<1>5. CASE InterruptVerifiers
  BY <1>1, <1>2, <1>5, SucceedsUninterrupted
<1>6. CASE FaultAwareJudge
  BY <1>1, <1>2, <1>6, SucceedsAtJudge
<1> QED
  BY <1>3, <1>4, <1>5, <1>6 DEF FaultyNext, FaultyRow

\* A row of the scripted model with a fault that leaves the verdict alone ends
\* VERIFIED with the right answer (_ScriptedSmokeModel, _FaultAwareController).
THEOREM HarmlessRowsSucceed == FaultySpec => [](Harmless /\ pc = "done" => Succeeds)
<1>1. RowInv /\ GoesOnInv /\ RowSucceeds /\ [FaultyNext]_allVars => RowSucceeds'
  BY SucceedsStep
<1>2. RowInv /\ GoesOnInv /\ [FaultyNext]_allVars => GoesOnInv'
  BY GoesOnStep
<1>3. RowSucceeds => (Harmless /\ pc = "done" => Succeeds)
  BY DEF RowSucceeds, HarmlessInv
<1> QED
  BY <1>1, <1>2, <1>3, GoesOnInitially, SucceedsInitially, RowInvariant, PTL DEF FaultySpec
=============================================================================
