------------------------ MODULE ArithmeticDemoProofs ------------------------
(***************************************************************************)
(* verify() with arithmetic verifiers ends VERIFIED at the first right     *)
(* answer and at nothing else, whatever the model answers, for every set   *)
(* of numbers, every float format and every number of verifiers; and the   *)
(* replay model, if it has the rounds, gives that answer in time.          *)
(***************************************************************************)
EXTENDS ArithmeticDemo, SequenceLemmas

IsSeq(s) == \E S : s \in Seq(S)

\* Appending keeps what is there, without knowing the set of the elements.
LEMMA AppendToSeq ==
    ASSUME NEW s, NEW e, IsSeq(s)
    PROVE  /\ IsSeq(Append(s, e))
           /\ Len(s) \in Nat /\ DOMAIN s = 1..Len(s)
           /\ Len(Append(s, e)) = Len(s) + 1
           /\ DOMAIN Append(s, e) = 1..(Len(s) + 1)
           /\ \A i \in 1..Len(s) : Append(s, e)[i] = s[i]
           /\ Append(s, e)[Len(s) + 1] = e
<1>1. PICK S : s \in Seq(S)
  BY DEF IsSeq
<1>2. Append(s, e) \in Seq(S \cup {e})
  BY <1>1
<1> QED
  BY <1>1, <1>2 DEF IsSeq

----------------------------------------------------------------------------
(* The verdict *)

\* The verifier passes exactly the right answers, and its packet can be trusted.
LEMMA VerdictIsRight ==
    ASSUME task \in Values \cup {None}, candidate \in Candidates
    PROVE  /\ Right(candidate) <=> SafeMathVerdict.status = "PASS"
           /\ NewPacket(SafeMathVerdict).status = SafeMathVerdict.status
           /\ ValidateHash(NewPacket(SafeMathVerdict))
           /\ IsIndependent(NewPacket(SafeMathVerdict))
<1>1. ASSUME task # None, candidate.number # None
      PROVE  Right(candidate) <=> Equal(candidate.number, task)
  <2>1. Finite(task)
    BY <1>1, NumberAssumption
  <2>2. candidate.number.value = task.value => Finite(candidate.number)
    BY <2>1 DEF Finite
  <2> QED
    BY <1>1, <2>2 DEF Right, Equal
<1>2. Right(candidate) <=> SafeMathVerdict.status = "PASS"
  <2>1. CASE task = None
    BY <2>1 DEF Right, SafeMathVerdict, ArithmeticPacket
  <2>2. CASE task # None /\ candidate.number = None
    BY <2>2 DEF Right, SafeMathVerdict, ArithmeticPacket
  <2>3. CASE task # None /\ candidate.number # None
    <3>1. SafeMathVerdict = Verdict(candidate.number)
      BY <2>3 DEF SafeMathVerdict
    <3> QED
      BY <1>1, <2>3, <3>1 DEF Verdict, ArithmeticPacket
  <2> QED
    BY <2>1, <2>2, <2>3
<1>3. \A claim, status, counterexample :
         LET p == NewPacket(ArithmeticPacket(claim, status, counterexample))
         IN  p.status = status /\ ValidateHash(p) /\ IsIndependent(p)
  BY DEF NewPacket, ArithmeticPacket, ValidateHash, IsIndependent
<1>4. \E claim, status, counterexample :
         SafeMathVerdict = ArithmeticPacket(claim, status, counterexample)
  BY DEF SafeMathVerdict, Verdict
<1>5. SafeMathVerdict.status = NewPacket(SafeMathVerdict).status
  BY DEF NewPacket
<1> QED
  BY <1>2, <1>3, <1>4, <1>5

\* Where an exception takes the place of a verdict, the answer was wrong.
LEMMA RaisesAtWrongAnswer ==
    ASSUME task \in Values \cup {None}, candidate \in Candidates, VerdictRaises
    PROVE  ~Right(candidate)
<1>1. Finite(task)
  BY NumberAssumption DEF VerdictRaises
<1> QED
  BY <1>1 DEF VerdictRaises, Right, Equal, Finite

\* Verifiers that all say the same are believed, whatever the trace is.
LEMMA UnanimousDecision ==
    ASSUME NEW trace, NEW evidence, NEW spent, NEW p,
           IsSeq(evidence), evidence # << >>,
           \A k \in DOMAIN evidence : evidence[k] = p,
           ValidateHash(p), IsIndependent(p)
    PROVE  Decide(DefaultController, trace, evidence, spent) = "VERIFIED"
              <=> p.status = "PASS"
<1>1. Statuses(evidence) = {p.status}
  <2>1. 1 \in DOMAIN evidence
    BY DEF IsSeq
  <2> QED
    BY <2>1 DEF Statuses
<1>2. ~Tampered(evidence) /\ ~SelfCertified(evidence) /\ ~Conflicted(evidence)
  BY <1>1 DEF Tampered, SelfCertified, Conflicted
<1>3. None # "VERIFIED"
  BY NoneAssumption DEF TerminationReason
<1> QED
  BY <1>1, <1>2, <1>3 DEF Decide, Passed, Unsettled, DefaultController

----------------------------------------------------------------------------
(* The run *)

\* While the loop runs no answer was right; the packets of a round are all the
\* verdict on its answer.
DemoInv ==
    /\ controller = DefaultController
    /\ verifiers > 0 /\ verifiers \in Nat
    /\ task \in Values \cup {None}
    /\ pc \in {"loop", "model", "verifiers", "verify", "done"}
    /\ IsSeq(steps) /\ IsSeq(packets)
    /\ called \in Nat
    /\ InRound =>
          /\ candidate \in Candidates
          /\ \A k \in DOMAIN packets : packets[k] = NewPacket(SafeMathVerdict)
    /\ pc = "verifiers" => Len(packets) = called
    /\ pc = "verify" => Len(packets) = called - 1
    /\ pc # "done" => reason = None /\ \A i \in DOMAIN steps : ~Right(steps[i].candidate)
    /\ VerifiedIffRight

\* The invariant holds before the first round.
LEMMA DemoInvInitially == DemoInit => DemoInv
<1> SUFFICES ASSUME DemoInit
             PROVE  DemoInv
  OBVIOUS
<1>1. verifiers \in Nat
  BY ParameterAssumption DEF DemoInit, Init
<1>2. steps = << >> /\ packets = << >> /\ IsSeq(<< >>)
  BY DEF DemoInit, Init, IsSeq
<1>3. DOMAIN steps = {}
  BY <1>2
<1> QED
  BY <1>1, <1>2, <1>3 DEF DemoInit, Init, DemoInv, VerifiedIffRight, InRound

\* A recorded round with a wrong answer, or with a right one that is verified.
LEMMA RoundRecorded ==
    ASSUME DemoInv, InRound, UNCHANGED <<task, candidate>>,
           NEW evidence, NEW calls, RecordStep(evidence, calls),
           Right(candidate) <=> reason' = "VERIFIED"
    PROVE  /\ IsSeq(steps') /\ VerifiedIffRight'
           /\ ~Right(candidate) => (\A i \in DOMAIN steps : ~Right(steps[i].candidate))'
<1> DEFINE step == [candidate |-> candidate, evidence |-> evidence,
                    model_call |-> modelCalls, verifier_calls |-> calls]
<1>1. steps' = Append(steps, step) /\ step.candidate = candidate
  BY DEF RecordStep
<1> HIDE DEF step
<1>2. /\ IsSeq(steps') /\ DOMAIN steps' = 1..(Len(steps) + 1) /\ Len(steps') = Len(steps) + 1
      /\ DOMAIN steps = 1..Len(steps) /\ Len(steps) \in Nat
      /\ \A i \in 1..Len(steps) : steps'[i] = steps[i]
      /\ steps'[Len(steps) + 1].candidate = candidate
  BY <1>1, AppendToSeq DEF DemoInv
<1>3. \A i \in 1..Len(steps) : ~Right(steps[i].candidate)
  BY <1>2 DEF DemoInv, InRound
<1>6. \A i \in 1..(Len(steps) + 1) : i \in 1..Len(steps) \/ i = Len(steps) + 1
  BY <1>2
<1> QED
  BY <1>2, <1>3, <1>6 DEF VerifiedIffRight, Right

\* The verdict stays as long as the answer and the task do.
LEMMA SameVerdict ==
    ASSUME UNCHANGED <<task, candidate>>
    PROVE  SafeMathVerdict' = SafeMathVerdict
BY DEF SafeMathVerdict, Verdict

\* A step that records nothing and gives no reason disturbs the round at most.
LEMMA NothingRecorded ==
    ASSUME DemoInv, UNCHANGED <<arguments, task, steps, reason>>,
           pc # "done", pc' \in {"loop", "model", "verifiers", "verify"}
    PROVE  /\ controller' = DefaultController /\ verifiers' > 0 /\ verifiers' \in Nat
           /\ task' \in Values \cup {None}
           /\ IsSeq(steps') /\ reason' = None
           /\ (\A i \in DOMAIN steps : ~Right(steps[i].candidate))'
           /\ VerifiedIffRight'
BY DEF DemoInv, arguments, VerifiedIffRight, Right

\* Every step of verify() with arithmetic verifiers keeps it.
LEMMA DemoInvInductive ==
    ASSUME DemoInv, [DemoNext]_demoVars
    PROVE  DemoInv'
<1> USE DEF arguments, round
<1>0. task' = task /\ DefaultController # AnyController /\ None # "VERIFIED"
  <2>1. task' = task
    BY DEF DemoNext, DemoStep, demoVars, ModelAnswers, ReplayRaises, SafeMathReturns,
           SafeMathRaises
  <2>2. DefaultController \in Controller
    BY DEF DefaultController, Controller
  <2> QED
    BY <2>1, <2>2, ParameterAssumption, NoneAssumption DEF TerminationReason
<1>1. CASE StartRound
  BY <1>0, <1>1, NothingRecorded DEF StartRound, DemoInv, InRound
<1>2. CASE ModelAnswers
  <2>1. PICK c \in Candidates : ModelReturns(c)
    BY <1>2 DEF ModelAnswers
  <2>2. candidate' \in Candidates /\ packets' = << >> /\ called' = 0 /\ pc' = "verifiers"
    BY <2>1 DEF ModelReturns
  <2>3. IsSeq(packets') /\ Len(packets') = 0 /\ DOMAIN packets' = {}
    BY <2>2 DEF IsSeq
  <2> QED
    BY <1>0, <2>1, <2>2, <2>3, NothingRecorded DEF ModelReturns, DemoInv, InRound
<1>3. CASE ReplayRaises
  <2>1. /\ pc = "model" /\ pc' = "done" /\ reason' = "MODEL_ERROR"
        /\ UNCHANGED <<arguments, steps, packets, called>>
    BY <1>3 DEF ReplayRaises, ModelRaises, Finalize
  <2>2. VerifiedIffRight'
    BY <1>0, <2>1 DEF DemoInv, VerifiedIffRight, Right
  <2> QED
    BY <1>0, <2>1, <2>2 DEF DemoInv, InRound
<1>4. CASE CallVerifier
  <2>1. /\ pc = "verifiers" /\ pc' = "verify" /\ called' = called + 1
        /\ UNCHANGED <<arguments, steps, reason, candidate, packets>>
    BY <1>4 DEF CallVerifier
  <2> QED
    BY <1>0, <2>1, NothingRecorded, SameVerdict DEF DemoInv, InRound
<1>5. CASE SafeMathReturns
  <2>1. /\ pc = "verify" /\ pc' = "verifiers" /\ packets' = Append(packets, NewPacket(SafeMathVerdict))
        /\ UNCHANGED <<arguments, steps, reason, candidate, called>>
    BY <1>5 DEF SafeMathReturns, VerifierReturns
  <2>2. SafeMathVerdict' = SafeMathVerdict
    BY <1>0, <2>1, SameVerdict
  <2>3. /\ IsSeq(packets') /\ Len(packets') = called /\ called \in Nat
        /\ \A k \in DOMAIN packets' : packets'[k] = NewPacket(SafeMathVerdict)
    <3>1. IsSeq(packets) /\ Len(packets) = called - 1 /\ called \in Nat
      BY <2>1 DEF DemoInv
    <3>2. \A k \in DOMAIN packets : packets[k] = NewPacket(SafeMathVerdict)
      BY <2>1 DEF DemoInv, InRound
    <3> DEFINE p == NewPacket(SafeMathVerdict)
    <3>3. packets' = Append(packets, p)
      BY <2>1
    <3> HIDE DEF p
    <3>4. /\ IsSeq(packets') /\ Len(packets') = Len(packets) + 1 /\ Len(packets) \in Nat
          /\ DOMAIN packets = 1..Len(packets) /\ DOMAIN packets' = 1..(Len(packets) + 1)
          /\ \A k \in 1..Len(packets) : packets'[k] = packets[k]
          /\ packets'[Len(packets) + 1] = p
      BY <3>1, <3>3, AppendToSeq
    <3>5. \A k \in DOMAIN packets' : k \in DOMAIN packets \/ k = Len(packets) + 1
      BY <3>4
    <3> QED
      BY <3>1, <3>2, <3>4, <3>5 DEF p
  <2>4. NewPacket(SafeMathVerdict') = NewPacket(SafeMathVerdict)
    BY <2>2
  <2> QED
    BY <1>0, <2>1, <2>3, <2>4, NothingRecorded DEF DemoInv, InRound
<1>6. CASE SafeMathRaises
  <2>1. /\ pc = "verify" /\ pc' = "done" /\ reason' = "VERIFIER_ERROR"
        /\ RecordStep(packets, called)
        /\ UNCHANGED <<arguments, candidate, packets, called>> /\ VerdictRaises
    BY <1>6 DEF SafeMathRaises, VerifierRaises, Finalize
  <2>2. ~Right(candidate)
    BY <2>1, RaisesAtWrongAnswer DEF DemoInv, InRound
  <2>3. IsSeq(steps') /\ VerifiedIffRight'
    BY <1>0, <2>1, <2>2, RoundRecorded DEF InRound
  <2> QED
    BY <1>0, <2>1, <2>3 DEF DemoInv, InRound
<1>7. CASE JudgeRound
  <2>1. /\ pc = "verifiers" /\ called = verifiers /\ RecordStep(packets, called)
        /\ UNCHANGED <<arguments, candidate, packets, called>> /\ pc' \in {"loop", "done"}
    BY <1>7 DEF JudgeRound, Finalize
  <2>2. PICK spent : \/ /\ Decide(DefaultController, steps', packets, spent) = None
                        /\ pc' = "loop" /\ reason' = reason
                     \/ /\ Decide(DefaultController, steps', packets, spent) # None
                        /\ pc' = "done"
                        /\ reason' = Decide(DefaultController, steps', packets, spent)
    BY <1>0, <1>7 DEF JudgeRound, Finalize, Decisions, DemoInv
  <2>3. /\ IsSeq(packets) /\ packets # << >>
        /\ \A k \in DOMAIN packets : packets[k] = NewPacket(SafeMathVerdict)
        /\ task \in Values \cup {None} /\ candidate \in Candidates
    BY <2>1 DEF DemoInv, InRound
  <2>4. Decide(DefaultController, steps', packets, spent) = "VERIFIED" <=> Right(candidate)
    BY <2>3, VerdictIsRight, UnanimousDecision
  <2>5. Right(candidate) <=> reason' = "VERIFIED"
    BY <1>0, <2>1, <2>2, <2>4 DEF DemoInv
  <2>6. /\ IsSeq(steps') /\ VerifiedIffRight'
        /\ ~Right(candidate) => (\A i \in DOMAIN steps : ~Right(steps[i].candidate))'
    BY <1>0, <2>1, <2>5, RoundRecorded DEF InRound
  <2>7. pc' # "done" => reason' = None /\ ~Right(candidate)
    BY <1>0, <2>1, <2>2, <2>4 DEF DemoInv
  <2> QED
    BY <1>0, <2>1, <2>6, <2>7 DEF DemoInv, InRound
<1>8. CASE UNCHANGED vars
  BY <1>0, <1>8, SameVerdict DEF vars, DemoInv, InRound, VerifiedIffRight, Right
<1> QED
  BY <1>1, <1>2, <1>3, <1>4, <1>5, <1>6, <1>7, <1>8 DEF DemoNext, DemoStep, demoVars

\* The run ends VERIFIED at the first right answer and on nothing else, for every
\* model, every float format and every number of arithmetic verifiers.
THEOREM VerifiedExactlyWhenRight == DemoSpec => []VerifiedIffRight
<1>1. DemoInv => VerifiedIffRight
  BY DEF DemoInv
<1> QED
  BY <1>1, DemoInvInitially, DemoInvInductive, PTL DEF DemoSpec

----------------------------------------------------------------------------
(* Rounding *)

\* The next multiple has the next quotient, and of two such one is even.
LEMMA NextQuotient ==
    ASSUME NEW m \in Nat, NEW n \in Nat \ {0}
    PROVE  /\ m \div n \in Nat
           /\ (m + n) \div n = m \div n + 1
           /\ (m \div n) % 2 = 0 \/ ((m + n) \div n) % 2 = 0
<1>1. m \div n \in Nat
  BY Division
<1>2. (m + n) \div n = m \div n + 1
  OBVIOUS
<1> DEFINE q == m \div n
<1>3. q \in Nat /\ (q % 2 = 0 \/ (q + 1) % 2 = 0)
  <2> HIDE DEF q
  <2>1. q \in Nat
    BY <1>1 DEF q
  <2> QED
    BY <2>1
<1> QED
  BY <1>1, <1>2, <1>3 DEF q

\* Magnitudes are natural numbers up to TooBig.
LEMMA MagnitudesType ==
    /\ TooBig \in Nat /\ TooBig \in Magnitudes
    /\ \A f \in Magnitudes : f \in Nat /\ f \in 0..TooBig
    /\ {0, 1, 2} \subseteq Magnitudes /\ 2 < TooBig
BY NumberAssumption DEF Magnitudes

\* A number has a nearest magnitude, which Nearest finds: of two equally near
\* ones exactly one has an even mantissa.
LEMMA NearestIsNear ==
    ASSUME NEW v \in 0..TooBig
    PROVE  /\ Nearest[v] \in Magnitudes
           /\ \A g \in Magnitudes : Magnitude(v - Nearest[v]) <= Magnitude(v - g)
<1> DEFINE Away(f) == Magnitude(v - f)
           Even(f, g) == (f \div Magnitude(f - g)) % 2 = 0
           IsNearest(f) == \A g \in Magnitudes \ {f} :
                              \/ Away(f) < Away(g)
                              \/ Away(f) = Away(g) /\ Even(f, g)
<1>1. \A f \in Magnitudes : f \in Nat /\ Away(f) \in Nat
  BY MagnitudesType DEF Magnitude
<1>2. PICK f \in Magnitudes : \A g \in Magnitudes : Away(f) <= Away(g)
  <2> DEFINE T == {Away(g) : g \in Magnitudes}
  <2>1. T \subseteq Nat /\ T # {}
    BY <1>1, MagnitudesType
  <2> HIDE DEF T
  <2>2. PICK x \in T : \A y \in T : x <= y
    BY <2>1, LeastNumber
  <2> QED
    BY <2>2 DEF T
<1>3. \E e \in Magnitudes : IsNearest(e) /\ Away(e) = Away(f)
  <2>1. CASE \A g \in Magnitudes \ {f} : Away(f) # Away(g)
    <3>1. \A g \in Magnitudes \ {f} : Away(f) < Away(g)
      BY <1>1, <1>2, <2>1
    <3> QED
      BY <1>2, <3>1
  <2>2. CASE \E h \in Magnitudes \ {f} : Away(f) = Away(h)
    <3>1. PICK h \in Magnitudes \ {f} : Away(f) = Away(h)
      BY <2>2
    <3>2. \A g \in Magnitudes : Away(g) = Away(f) => g = f \/ g = h
      BY <1>1, <3>1, MagnitudesType DEF Magnitude
    <3>3. \E e \in {f, h} : \A g \in {f, h} \ {e} : Even(e, g)
      <4> DEFINE n == Magnitude(f - h)
      <4>1. /\ n \in Nat \ {0} /\ Magnitude(h - f) = n
            /\ h = f + n \/ f = h + n
        BY <1>1, <3>1 DEF Magnitude
      <4>2. (f \div n) % 2 = 0 \/ (h \div n) % 2 = 0
        <5>1. f \in Nat /\ h \in Nat
          BY <1>1, <3>1
        <5> HIDE DEF n
        <5>2. n \in Nat \ {0}
          BY <4>1
        <5>3. (f \div n) % 2 = 0 \/ ((f + n) \div n) % 2 = 0
          BY <5>1, <5>2, NextQuotient
        <5>4. (h \div n) % 2 = 0 \/ ((h + n) \div n) % 2 = 0
          BY <5>1, <5>2, NextQuotient
        <5> QED
          BY <4>1, <5>3, <5>4
      <4> QED
        BY <3>1, <4>1, <4>2
    <3>4. PICK e \in {f, h} : \A g \in {f, h} \ {e} : Even(e, g)
      BY <3>3
    <3>5. e \in Magnitudes /\ Away(e) = Away(f)
      BY <3>1, <3>4
    <3>6. ASSUME NEW g \in Magnitudes \ {e}
          PROVE  \/ Away(e) < Away(g)
                 \/ Away(e) = Away(g) /\ Even(e, g)
      <4>1. Away(f) <= Away(g) /\ Away(f) \in Nat /\ Away(g) \in Nat
        BY <1>1, <1>2
      <4> HIDE DEF Away, Even
      <4>2. CASE Away(g) = Away(f)
        BY <3>2, <3>4, <3>5, <3>6, <4>2
      <4>3. CASE Away(g) # Away(f)
        BY <3>5, <4>1, <4>3
      <4> QED
        BY <4>2, <4>3
    <3> QED
      BY <3>5, <3>6
  <2> QED
    BY <2>1, <2>2
<1>4. PICK e \in Magnitudes : IsNearest(e) /\ Away(e) = Away(f)
  BY <1>3
<1>5. Nearest[v] = CHOOSE x \in Magnitudes : IsNearest(x)
  BY DEF Nearest
<1>6. Nearest[v] \in Magnitudes /\ IsNearest(Nearest[v])
  <2> HIDE DEF IsNearest
  <2> QED
    BY <1>4, <1>5
<1>7. Away(Nearest[v]) <= Away(e)
  <2>1. Nearest[v] = e \/ Away(Nearest[v]) <= Away(e)
    <3> HIDE DEF Away, Even
    <3> QED
      BY <1>1, <1>6
  <2> QED
    BY <1>1, <1>6, <2>1
<1>8. ASSUME NEW g \in Magnitudes PROVE Away(Nearest[v]) <= Away(g)
  <2>1. Away(f) <= Away(g) /\ Away(f) \in Nat /\ Away(g) \in Nat /\ Away(Nearest[v]) \in Nat
    BY <1>1, <1>2, <1>6
  <2> HIDE DEF Away
  <2> QED
    BY <1>4, <1>7, <2>1
<1> QED
  BY <1>6, <1>8

\* Rounding yields a magnitude with the sign of the number, and leaves one alone.
LEMMA RoundedType ==
    ASSUME NEW v \in Int
    PROVE  /\ Rounded(v) \in Int /\ Magnitude(Rounded(v)) \in Magnitudes
           /\ Magnitude(v) \in Magnitudes => Rounded(v) = v
           /\ Rounded(Rounded(v)) = Rounded(v)
           /\ Rounded(-v) = -Rounded(v)
<1>1. ASSUME NEW x \in Int
      PROVE  /\ Magnitude(x) \in Nat
             /\ Magnitude(x) \in Magnitudes => Rounded(x) = x
             /\ \E f \in Magnitudes : Rounded(x) = (IF x < 0 THEN -f ELSE f)
                                      /\ Rounded(-x) = (IF -x < 0 THEN -f ELSE f)
                                      /\ (x = 0 => f = 0)
  <2> DEFINE f == IF Magnitude(x) <= TooBig THEN Nearest[Magnitude(x)] ELSE TooBig
  <2>1. Magnitude(x) \in Nat /\ Magnitude(-x) = Magnitude(x)
    BY DEF Magnitude
  <2>2. Rounded(x) = (IF x < 0 THEN -f ELSE f) /\ Rounded(-x) = (IF -x < 0 THEN -f ELSE f)
    BY <2>1 DEF Rounded
  <2>3. f \in Magnitudes
    BY <2>1, MagnitudesType, NearestIsNear
  <2>4. Magnitude(x) \in Magnitudes => f = Magnitude(x)
    <3> SUFFICES ASSUME Magnitude(x) \in Magnitudes PROVE f = Magnitude(x)
      OBVIOUS
    <3>1. Magnitude(x) \in 0..TooBig
      BY MagnitudesType
    <3>2. Magnitude(Magnitude(x) - Nearest[Magnitude(x)]) <= Magnitude(Magnitude(x) - Magnitude(x))
      BY <3>1, NearestIsNear
    <3>3. Nearest[Magnitude(x)] \in Nat
      <4>1. Nearest[Magnitude(x)] \in Magnitudes
        BY <3>1, NearestIsNear
      <4> QED
        BY <4>1, MagnitudesType
    <3>4. Nearest[Magnitude(x)] = Magnitude(x)
      BY <2>1, <3>2, <3>3 DEF Magnitude
    <3> QED
      BY <3>1, <3>4
  <2>5. x = 0 => f = 0
    BY <2>4, MagnitudesType DEF Magnitude
  <2> HIDE DEF f
  <2>6. f \in Int
    BY <2>3, MagnitudesType
  <2>7. Magnitude(x) \in Magnitudes => Rounded(x) = x
    BY <2>2, <2>4, <2>6 DEF Magnitude
  <2> QED
    BY <2>1, <2>2, <2>3, <2>5, <2>7
<1>2. PICK f \in Magnitudes : /\ Rounded(v) = (IF v < 0 THEN -f ELSE f)
                              /\ Rounded(-v) = (IF -v < 0 THEN -f ELSE f)
                              /\ v = 0 => f = 0
  BY <1>1
<1>3. f \in Nat
  BY MagnitudesType
<1>4. Rounded(v) \in Int /\ Magnitude(Rounded(v)) = f
  BY <1>2, <1>3 DEF Magnitude
<1>5. Rounded(-v) = -Rounded(v)
  BY <1>2, <1>3
<1> QED
  BY <1>1, <1>4, <1>5

\* What follows a float that is no infinity is at most two away from it when rounded.
LEMMA SuccessorIsNear ==
    ASSUME NEW v \in Int, Rounded(v) = v, Magnitude(v) < TooBig
    PROVE  Rounded(v + 1) - v \in 0..2
<1>1. Magnitude(v) \in Magnitudes /\ Magnitude(v) \in Nat /\ TooBig \in Nat
  BY RoundedType, MagnitudesType DEF Magnitude
<1>2. Magnitude(v + 1) \in 0..TooBig
  BY <1>1 DEF Magnitude
<1> DEFINE f == Nearest[Magnitude(v + 1)]
<1>3. f \in Nat
  <2>1. f \in Magnitudes
    BY <1>2, NearestIsNear
  <2> QED
    BY <2>1, MagnitudesType
<1>4. Magnitude(Magnitude(v + 1) - f) <= Magnitude(Magnitude(v + 1) - Magnitude(v))
  BY <1>1, <1>2, NearestIsNear
<1>5. Rounded(v + 1) = IF v + 1 < 0 THEN -f ELSE f
  BY <1>2 DEF Rounded
<1> HIDE DEF f
<1> QED
  BY <1>3, <1>4, <1>5 DEF Magnitude

----------------------------------------------------------------------------
(* The answers of the replay model *)

\* An exception takes the place of the verdict on n where t is expected.
Raises(t, n) ==
    /\ t # None /\ n # None /\ ~Equal(n, t)
    /\ ConversionOverflows(n, t) \/ \E m \in {n, Minus(n, t)} : m.float /\ ~Finite(m)

\* The first answer is wrong, unless adding one to the value does not change it,
\* and the verifier can say so.
LEMMA FirstAnswer ==
    ASSUME NEW t \in Values, t # None, NEW n, n = Plus(t, Integer(1))
    PROVE  /\ n # None /\ n.value = t.value <=> t.float /\ Rounded(t.value + 1) = t.value
           /\ ~Raises(t, n)
<1> DEFINE v == t.value
           w == Rounded(v + 1)
<1>1. /\ t = [float |-> t.float, value |-> v] /\ v \in Int /\ t.float \in BOOLEAN
      /\ Magnitude(Rounded(v)) < TooBig
      /\ t.float => Rounded(v) = v /\ Magnitude(w) < TooBig
  BY NumberAssumption DEF Number, Finite, Float
<1>3. CASE ~t.float
  <2>1. n = Integer(v + 1)
    BY <1>3 DEF Plus, Integer
  <2>2. ~n.float /\ n.value # v
    BY <1>1, <2>1 DEF Integer
  <2>3. Minus(n, t).float = FALSE
    BY <1>1, <1>3, <2>2 DEF Minus, Plus, Integer
  <2>4. ~Raises(t, n)
    BY <1>3, <2>2, <2>3 DEF Raises, ConversionOverflows
  <2> QED
    BY <1>3, <2>2, <2>4
<1>4. CASE t.float
  <2>1. n = Float(w)
    <3>1. Rounded(1) = 1
      BY RoundedType, MagnitudesType DEF Magnitude
    <3>2. Finite(t)
      BY <1>1 DEF Finite
    <3> QED
      BY <1>1, <1>4, <3>1, <3>2 DEF Plus, Integer
  <2>2. w \in Int /\ Rounded(w) = w /\ w - v \in 0..2
    BY <1>1, <1>4, RoundedType, SuccessorIsNear
  <2>3. n # None /\ n.value = v <=> w = v
    <3>1. t.float = TRUE
      BY <1>1, <1>4
    <3>2. t = [float |-> TRUE, value |-> v]
      BY <1>1, <3>1
    <3>3. n = [float |-> TRUE, value |-> w]
      BY <2>1 DEF Float
    <3> HIDE DEF v, w
    <3> QED
      BY <3>2, <3>3
  <2>4. Minus(n, t) = Float(w - v)
    <3>1. Rounded(-v) = -v
      BY <1>1, <1>4, RoundedType
    <3>2. Rounded(w - v) = w - v
      <4>1. Magnitude(w - v) \in {0, 1, 2}
        BY <2>2 DEF Magnitude
      <4> QED
        BY <1>1, <2>2, <4>1, RoundedType, MagnitudesType
    <3>3. Finite(n) /\ n.float /\ n.value = w
      BY <1>1, <1>4, <2>1, <2>2 DEF Finite, Float
    <3>4. [t EXCEPT !.value = -@].value = -v /\ [t EXCEPT !.value = -@].float
      BY <1>1, <1>4
    <3>5. Plus(n, [t EXCEPT !.value = -@]) = Float(Rounded(Rounded(w) + Rounded(-v)))
      BY <3>3, <3>4 DEF Plus
    <3>6. Rounded(w) + Rounded(-v) = w - v
      BY <1>1, <2>2, <3>1
    <3> QED
      BY <3>2, <3>5, <3>6 DEF Minus
  <2>5. ~Raises(t, n)
    <3>1. Finite(n) /\ n.float
      BY <1>1, <1>4, <2>1, <2>2 DEF Finite, Float
    <3>2. Finite(Minus(n, t))
      <4>1. Magnitude(w - v) \in {0, 1, 2}
        BY <2>2 DEF Magnitude
      <4>2. Rounded(w - v) = w - v
        BY <1>1, <2>2, <4>1, RoundedType, MagnitudesType
      <4>3. Magnitude(w - v) < TooBig
        BY <4>1, MagnitudesType
      <4> QED
        BY <2>4, <4>2, <4>3 DEF Finite, Float
    <3> QED
      BY <1>4, <3>1, <3>2 DEF Raises, ConversionOverflows
  <2> QED
    BY <1>4, <2>3, <2>5
<1> QED
  BY <1>1, <1>3, <1>4

\* An answer that was taken from a failed check is right.
LEMMA RepairedAnswer ==
    ASSUME NEW t \in Values
    PROVE  ~Raises(t, t)
<1>1. Finite(t)
  BY NumberAssumption
<1> QED
  BY <1>1 DEF Raises, Equal

\* Packets that the replay model may believe and that state the value of the task.
Told(evidence) ==
    /\ evidence # << >>
    /\ \A k \in DOMAIN evidence :
          Believed(evidence[k]) /\ evidence[k].counterexample.expected = task

\* What the replay model answers before and after it was told.
LEMMA ReplayAnswers ==
    ASSUME task \in Values, task # None
    PROVE  /\ lastEvidence = << >> => ReplayAnswer = Str(Plus(task, Integer(1)))
           /\ IsSeq(lastEvidence) /\ Told(lastEvidence) => ReplayAnswer = Str(task)
<1> DEFINE I == {i \in 1..Len(lastEvidence) : Believed(lastEvidence[i])}
<1>1. ValidExpected(StateForModel.evidence) =
         IF SelectInSeq(lastEvidence, Believed) = 0 THEN None
         ELSE lastEvidence[SelectInSeq(lastEvidence, Believed)].counterexample.expected
  BY DEF ValidExpected, StateForModel
<1>2. SelectInSeq(lastEvidence, Believed) = IF I # {} THEN Min(I) ELSE 0
  BY DEF SelectInSeq
<1>3. lastEvidence = << >> => ReplayAnswer = Str(Plus(task, Integer(1)))
  BY <1>1, <1>2 DEF ReplayAnswer
<1>4. ASSUME IsSeq(lastEvidence), Told(lastEvidence)
      PROVE  ReplayAnswer = Str(task)
  <2>1. DOMAIN lastEvidence = 1..Len(lastEvidence) /\ Len(lastEvidence) \in Nat \ {0}
    BY <1>4 DEF Told, IsSeq
  <2>2. I = 1..Len(lastEvidence)
    BY <1>4, <2>1 DEF Told
  <2>3. I # {} /\ Min(I) \in DOMAIN lastEvidence /\ Min(I) # 0
    <3>1. 1 \in I /\ \A j \in I : 1 <= j
      BY <2>1, <2>2
    <3>2. Min(I) \in I
      BY <3>1 DEF Min
    <3> QED
      BY <2>1, <2>2, <3>1, <3>2
  <2>4. ValidExpected(StateForModel.evidence) = task
    BY <1>1, <1>2, <1>4, <2>3 DEF Told
  <2>5. Equal(task, task)
    BY NumberAssumption DEF Equal
  <2> QED
    BY <2>4, <2>5 DEF ReplayAnswer
<1> QED
  BY <1>3, <1>4

\* A failed check tells the replay model what was expected.
LEMMA FailureTells ==
    ASSUME task \in Values, task # None, candidate \in Candidates, ~Right(candidate),
           NEW evidence, IsSeq(evidence), evidence # << >>,
           \A k \in DOMAIN evidence : evidence[k] = NewPacket(SafeMathVerdict)
    PROVE  /\ Told(evidence)
           /\ \A k \in DOMAIN evidence : evidence[k].status = "FAIL" /\ evidence[k].sealed
<1> DEFINE p == NewPacket(SafeMathVerdict)
           c == SafeMathVerdict.counterexample
<1>1. SafeMathVerdict.status = "FAIL"
      /\ c \in Counterexamples /\ "expected" \in DOMAIN c /\ c.expected = task
  <2>1. CASE candidate.number = None
    <3>1. SafeMathVerdict = ArithmeticPacket("equals", "FAIL",
             [expected |-> task, observed |-> None, error |-> "candidate"])
      BY <2>1 DEF SafeMathVerdict
    <3>2. [expected |-> task, observed |-> None, error |-> "candidate"] \in Counterexamples
      BY <2>1, CounterexampleAssumption
    <3> QED
      BY <3>1, <3>2 DEF ArithmeticPacket
  <2>2. CASE candidate.number # None
    <3>1. ~Equal(candidate.number, task)
      <4>1. Finite(task)
        BY NumberAssumption
      <4> QED
        BY <2>2, <4>1 DEF Right, Equal
    <3>2. SafeMathVerdict = ArithmeticPacket("equals", "FAIL",
             [expected |-> task, observed |-> candidate.number,
              difference |-> Minus(candidate.number, task)])
      BY <2>2, <3>1 DEF SafeMathVerdict, Verdict
    <3>3. [expected |-> task, observed |-> candidate.number,
           difference |-> Minus(candidate.number, task)] \in Counterexamples
      BY <2>2, CounterexampleAssumption
    <3> QED
      BY <3>2, <3>3 DEF ArithmeticPacket
  <2> QED
    BY <2>1, <2>2
<1>2. p.status = "FAIL" /\ p.counterexample = c /\ ValidateHash(p) /\ IsIndependent(p)
  BY <1>1, VerdictIsRight DEF NewPacket
<1>3. c # None
  BY <1>1, NoneAssumption
<1> HIDE DEF p, c
<1>4. Believed(p) /\ p.counterexample.expected = task /\ p.sealed
  BY <1>1, <1>2, <1>3 DEF Believed, ValidateHash
<1> QED
  BY <1>2, <1>4 DEF Told, p

\* A first round that failed is revised.
LEMMA FirstFailureIsRevised ==
    ASSUME NEW trace, NEW evidence, Len(trace) = 1,
           IsSeq(evidence), evidence # << >>,
           \A k \in DOMAIN evidence : evidence[k].status = "FAIL" /\ evidence[k].sealed
    PROVE  Decide(DefaultController, trace, evidence, FALSE) = None
<1>1. Statuses(evidence) = {"FAIL"}
  <2>1. 1 \in DOMAIN evidence
    BY DEF IsSeq
  <2> QED
    BY <2>1 DEF Statuses
<1>2. ~Tampered(evidence) /\ ~Conflicted(evidence) /\ ~Passed(evidence) /\ ~Unsettled(evidence)
  BY <1>1 DEF Tampered, Conflicted, Passed, Unsettled, ValidateHash
<1>3. ~IsOscillating(DefaultController, trace) /\ ~IsPlateau(DefaultController, trace)
  BY DEF IsOscillating, IsPlateau, DefaultController
<1> QED
  BY <1>2, <1>3 DEF Decide

----------------------------------------------------------------------------
(* Runs of the replay model *)

\* The replay model is asked for a number, and as often as it needs.
Repairing == scripted /\ task # None /\ budget.max_iterations >= Rounds

\* Before its last answer the model was told, in the round before, what is right;
\* the last answer is right; and no round ends with an exception or for want of
\* another.
RepairInv ==
    /\ budget.max_model_calls = None /\ budget.max_iterations \in Nat
    /\ ~timeUp
    /\ pc # "done" => modelCalls = Len(steps) + IF pc = "loop" THEN 0 ELSE 1
    /\ Repairing =>
        /\ pc # "done" => Len(steps) < Rounds
        /\ pc \in {"loop", "model"} =>
              IF steps = << >> THEN lastEvidence = << >>
              ELSE IsSeq(lastEvidence) /\ Told(lastEvidence)
        /\ InRound =>
              /\ Right(candidate) <=> Len(steps) + 1 = Rounds
              /\ ~VerdictRaises
        /\ pc = "done" => reason = "VERIFIED" /\ Len(steps) = Rounds

\* ReplayModel is done after the second round, or after the first where adding one
\* to the value does not change it.
RepairedInTime ==
    Repairing /\ pc = "done" =>
        reason = "VERIFIED" /\ Right(FinalStep.candidate) /\ Len(steps) = Rounds

\* A run starts with nothing recorded and nothing to show.
LEMMA RepairInvInitially == DemoInit => RepairInv
<1> SUFFICES ASSUME DemoInit PROVE RepairInv
  OBVIOUS
<1>1. budget \in Budget
  BY ParameterAssumption DEF DemoInit, Init
<1>2. budget.max_iterations \in Nat
  BY <1>1 DEF Budget
<1>3. Rounds \in {1, 2} /\ Len(steps) = 0 /\ steps = << >> /\ lastEvidence = << >>
  BY DEF DemoInit, Init, Rounds
<1> QED
  BY <1>2, <1>3 DEF DemoInit, Init, RepairInv, InRound

\* What a step leaves alone keeps its meaning.
LEMMA RepairingStays ==
    ASSUME UNCHANGED <<budget, task, scripted>>
    PROVE  /\ Repairing' <=> Repairing
           /\ Rounds' = Rounds
           /\ \A e : Told(e)' <=> Told(e)
BY DEF Repairing, Rounds, Told, Believed, ValidateHash, IsIndependent

\* Every step keeps the invariant, given the one about the answers.
LEMMA RepairInvInductive ==
    ASSUME DemoInv, RepairInv, [DemoNext]_demoVars
    PROVE  RepairInv'
<1> USE DEF arguments, round
<1>0. /\ UNCHANGED <<budget, task, scripted>> /\ Rounds \in {1, 2}
      /\ None # "VERIFIED" /\ DefaultController # AnyController
      /\ controller = DefaultController
  <2>1. UNCHANGED <<task, scripted>>
    BY DEF DemoNext, DemoStep, demoVars, ModelAnswers, ReplayRaises, SafeMathReturns,
           SafeMathRaises
  <2>2. UNCHANGED budget
    BY DEF DemoNext, DemoStep, demoVars, vars, ModelAnswers, ReplayRaises,
           SafeMathReturns, SafeMathRaises, StartRound, ModelReturns, ModelRaises,
           CallVerifier, VerifierReturns, VerifierRaises, JudgeRound
  <2>3. DefaultController \in Controller
    BY DEF DefaultController, Controller
  <2> QED
    BY <2>1, <2>2, <2>3, ParameterAssumption, NoneAssumption
    DEF Rounds, TerminationReason, DemoInv
<1>a. /\ Repairing' <=> Repairing
      /\ Rounds' = Rounds
      /\ Told(lastEvidence') => Told(lastEvidence)'
  BY <1>0, RepairingStays DEF Told
<1>b. budget'.max_model_calls = None /\ budget'.max_iterations \in Nat
  BY <1>0 DEF RepairInv
<1>c. Len(steps) \in Nat /\ IsSeq(steps)
  BY DEF DemoInv, IsSeq
<1>d. Repairing => task \in Values /\ task # None /\ scripted
  BY DEF Repairing, DemoInv
<1> HIDE DEF Rounds, Repairing
<1>1. CASE StartRound
  <2>1. /\ pc = "loop" /\ pc' = "model" /\ modelCalls' = modelCalls + 1
        /\ UNCHANGED <<steps, timeUp, lastEvidence, candidate>>
    BY <1>1 DEF StartRound
  <2> QED
    BY <1>0, <1>a, <1>b, <1>c, <2>1 DEF RepairInv, InRound
<1>2. CASE ModelAnswers
  <2>1. PICK c \in Candidates : (scripted => c = ReplayAnswer) /\ ModelReturns(c)
    BY <1>2 DEF ModelAnswers
  <2>2. /\ pc = "model" /\ pc' = "verifiers" /\ candidate' = c
        /\ UNCHANGED <<steps, timeUp, modelCalls, lastEvidence>>
    BY <2>1 DEF ModelReturns
  <2>3. ASSUME Repairing
        PROVE  (Right(candidate) <=> Len(steps) + 1 = Rounds)' /\ ~VerdictRaises'
    <3>1. Len(steps) < Rounds /\ c = ReplayAnswer
      BY <1>d, <2>1, <2>2, <2>3 DEF RepairInv
    <3>2. CASE steps = << >>
      <4>1. candidate' = Str(Plus(task', Integer(1))) /\ task' \in Values /\ task' # None
        BY <1>0, <1>d, <2>2, <2>3, <3>1, <3>2, ReplayAnswers DEF RepairInv
      <4> DEFINE n == Plus(task', Integer(1))
      <4>2. candidate'.number = n
        BY <4>1 DEF Str
      <4>3. /\ n # None /\ n.value = task'.value
                  <=> task'.float /\ Rounded(task'.value + 1) = task'.value
            /\ ~Raises(task', n)
        BY <4>1, FirstAnswer
      <4> HIDE DEF n
      <4>4. (Right(candidate) <=> Rounds = 1)' /\ ~VerdictRaises'
        BY <4>1, <4>2, <4>3 DEF Right, Rounds, VerdictRaises, Raises
      <4> QED
        BY <1>0, <1>a, <2>2, <3>2, <4>4
    <3>3. CASE steps # << >>
      <4>1. candidate' = Str(task') /\ task' \in Values /\ task' # None
        BY <1>0, <1>d, <2>2, <2>3, <3>1, <3>3, ReplayAnswers DEF RepairInv
      <4>2. Right(candidate)' /\ ~VerdictRaises'
        BY <4>1, RepairedAnswer DEF Str, Right, VerdictRaises, Raises
      <4>3. Len(steps) # 0
        BY <1>c, <3>3 DEF IsSeq
      <4> QED
        BY <1>0, <1>a, <1>c, <2>2, <3>1, <4>2, <4>3
    <3> QED
      BY <3>2, <3>3
  <2> QED
    BY <1>0, <1>a, <1>b, <2>2, <2>3 DEF RepairInv, InRound
<1>3. CASE ReplayRaises
  <2>1. pc = "model" /\ pc' = "done" /\ task = None /\ UNCHANGED timeUp
    BY <1>3 DEF ReplayRaises, ModelRaises, Finalize
  <2> QED
    BY <1>0, <1>a, <1>b, <1>d, <2>1 DEF RepairInv, InRound
<1>4. CASE CallVerifier
  <2>1. /\ pc = "verifiers" /\ pc' = "verify"
        /\ UNCHANGED <<steps, timeUp, modelCalls, lastEvidence, candidate>>
    BY <1>4 DEF CallVerifier
  <2>2. (Right(candidate)' <=> Right(candidate)) /\ (VerdictRaises' <=> VerdictRaises)
    BY <1>0, <2>1 DEF Right, VerdictRaises
  <2> QED
    BY <1>0, <1>a, <1>b, <2>1, <2>2 DEF RepairInv, InRound
<1>5. CASE SafeMathReturns
  <2>1. /\ pc = "verify" /\ pc' = "verifiers"
        /\ UNCHANGED <<steps, timeUp, modelCalls, lastEvidence, candidate>>
    BY <1>5 DEF SafeMathReturns, VerifierReturns
  <2>2. (Right(candidate)' <=> Right(candidate)) /\ (VerdictRaises' <=> VerdictRaises)
    BY <1>0, <2>1 DEF Right, VerdictRaises
  <2> QED
    BY <1>0, <1>a, <1>b, <2>1, <2>2 DEF RepairInv, InRound
<1>6. CASE SafeMathRaises
  <2>1. pc = "verify" /\ pc' = "done" /\ VerdictRaises /\ UNCHANGED timeUp
    BY <1>6 DEF SafeMathRaises, VerifierRaises, Finalize
  <2>2. ~Repairing
    BY <2>1 DEF RepairInv, InRound
  <2> QED
    BY <1>0, <1>a, <1>b, <2>1, <2>2 DEF RepairInv, InRound
<1>7. CASE JudgeRound
  <2> DEFINE spent == \/ Len(steps') >= budget.max_iterations
                      \/ modelCalls >= ModelCallLimit(budget)
                      \/ timeUp
             decision == Decide(DefaultController, steps', packets, spent)
  <2>1. /\ pc = "verifiers" /\ called = verifiers /\ RecordStep(packets, called)
        /\ UNCHANGED <<timeUp, modelCalls, candidate>>
        /\ \/ decision # None /\ Finalize(decision) /\ UNCHANGED lastEvidence
           \/ decision = None /\ pc' = "loop" /\ lastEvidence' = packets /\ UNCHANGED reason
    BY <1>0, <1>7 DEF JudgeRound, Decisions
  <2>2. Len(steps') = Len(steps) + 1 /\ steps' # << >>
    <3> DEFINE step == [candidate |-> candidate, evidence |-> packets,
                        model_call |-> modelCalls, verifier_calls |-> called]
    <3>1. steps' = Append(steps, step)
      BY <2>1 DEF RecordStep
    <3> HIDE DEF step
    <3>2. Len(steps') = Len(steps) + 1 /\ IsSeq(steps')
      BY <1>c, <3>1, AppendToSeq
    <3> QED
      BY <1>c, <3>2
  <2>3. /\ IsSeq(packets) /\ packets # << >>
        /\ \A k \in DOMAIN packets : packets[k] = NewPacket(SafeMathVerdict)
        /\ task \in Values \cup {None} /\ candidate \in Candidates
    BY <2>1 DEF DemoInv, InRound
  <2> HIDE DEF spent, decision
  <2>4. decision = "VERIFIED" <=> Right(candidate)
    BY <2>3, VerdictIsRight, UnanimousDecision DEF decision
  <2>5. modelCalls = Len(steps) + 1 /\ (pc' = "loop" => modelCalls' = Len(steps'))
    BY <2>1, <2>2 DEF RepairInv
  <2>6. CASE ~Repairing
    BY <1>0, <1>a, <1>b, <2>1, <2>2, <2>5, <2>6 DEF RepairInv, InRound, Finalize
  <2>7. CASE Repairing /\ Right(candidate)
    <3>1. Len(steps) + 1 = Rounds
      BY <2>1, <2>7 DEF RepairInv, InRound
    <3>2. pc' = "done" /\ reason' = "VERIFIED"
      BY <1>0, <2>1, <2>4, <2>7 DEF Finalize
    <3> QED
      BY <1>0, <1>a, <1>b, <2>1, <2>2, <3>1, <3>2 DEF RepairInv, InRound
  <2>8. CASE Repairing /\ ~Right(candidate)
    <3>1. Len(steps) = 0 /\ Rounds = 2
      BY <1>0, <1>c, <2>1, <2>8 DEF RepairInv, InRound
    <3>2. /\ Told(packets)
          /\ \A k \in DOMAIN packets : packets[k].status = "FAIL" /\ packets[k].sealed
      BY <1>d, <2>3, <2>8, FailureTells
    <3>3. spent = FALSE
      BY <2>2, <2>5, <2>8, <3>1 DEF spent, RepairInv, Repairing, ModelCallLimit
    <3>4. decision = None
      <4>1. Len(steps') = 1
        BY <2>2, <3>1
      <4>2. Decide(DefaultController, steps', packets, FALSE) = None
        BY <2>3, <3>2, <4>1, FirstFailureIsRevised
      <4> QED
        BY <3>3, <4>2 DEF decision
    <3>5. pc' = "loop" /\ lastEvidence' = packets
      BY <2>1, <3>4
    <3>6. IsSeq(lastEvidence)' /\ Told(lastEvidence)'
      BY <1>a, <2>3, <3>2, <3>5 DEF IsSeq
    <3> QED
      BY <1>0, <1>a, <1>b, <2>1, <2>2, <2>5, <3>1, <3>5, <3>6 DEF RepairInv, InRound
  <2> QED
    BY <2>6, <2>7, <2>8
<1>8. CASE UNCHANGED vars
  <2>1. (Right(candidate)' <=> Right(candidate)) /\ (VerdictRaises' <=> VerdictRaises)
    BY <1>0, <1>8 DEF Right, VerdictRaises, vars
  <2> QED
    BY <1>0, <1>a, <1>b, <1>8, <2>1 DEF RepairInv, InRound, vars
<1> QED
  BY <1>1, <1>2, <1>3, <1>4, <1>5, <1>6, <1>7, <1>8 DEF DemoNext, DemoStep, demoVars

\* A run of the replay model with enough rounds stops only where ReplayRepairs says
\* it does, for every number in the task, every float format and every number of
\* verifiers: it is never stopped by an exception, a plateau or a limit, and never
\* answers wrongly twice.
THEOREM RepairIsInTime == DemoSpec => []RepairedInTime
<1>1. DemoInv /\ RepairInv => RepairedInTime
  <2> SUFFICES ASSUME DemoInv, RepairInv, Repairing, pc = "done"
               PROVE  reason = "VERIFIED" /\ Right(FinalStep.candidate) /\ Len(steps) = Rounds
    BY DEF RepairedInTime
  <2>1. reason = "VERIFIED" /\ Len(steps) = Rounds /\ Rounds \in {1, 2}
    BY DEF RepairInv, Rounds
  <2>2. Len(steps) \in DOMAIN steps
    BY <2>1 DEF DemoInv, IsSeq
  <2> QED
    BY <2>1, <2>2 DEF DemoInv, VerifiedIffRight, FinalStep
<1> QED
  BY <1>1, DemoInvInitially, DemoInvInductive, RepairInvInitially, RepairInvInductive,
     PTL DEF DemoSpec
=============================================================================
