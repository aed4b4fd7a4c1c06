--------------------------- MODULE ArithmeticDemo ---------------------------
(***************************************************************************)
(* "verifaxis demo" and "verifaxis run" (cli.py): verify() with            *)
(* SafeMathVerifier and ReplayModel, or the same verifier with any other   *)
(* model.                                                                  *)
(*                                                                         *)
(* Python's two kinds of number are kept apart: integers are exact, floats *)
(* are the few of FiniteFloats, and a sum or difference with a float is    *)
(* rounded to one of them, or past the largest, to infinity.  Fractions    *)
(* are left out.                                                           *)
(***************************************************************************)
EXTENDS VerifyRuntime

CONSTANTS
    FiniteFloats,  \* the magnitudes of the finite floats
    TooBig,        \* the next magnitude: what rounds to it is infinite
    Values         \* the values of the expressions in tasks

Number == [float : BOOLEAN, value : Int]
Integer(v) == [float |-> FALSE, value |-> v]
Float(v) == [float |-> TRUE, value |-> v]

Magnitude(v) == IF v < 0 THEN -v ELSE v

Magnitudes == FiniteFloats \cup {TooBig}

\* Round to nearest; of two equally near, to the one with an even mantissa.
Nearest ==
    [v \in 0..TooBig |->
        CHOOSE f \in Magnitudes : \A g \in Magnitudes \ {f} :
            \/ Magnitude(v - f) < Magnitude(v - g)
            \/ /\ Magnitude(v - f) = Magnitude(v - g)
               /\ (f \div Magnitude(f - g)) % 2 = 0]

Rounded(v) ==
    LET f == IF Magnitude(v) <= TooBig THEN Nearest[Magnitude(v)] ELSE TooBig
    IN  IF v < 0 THEN -f ELSE f

Finite(n) == Magnitude(Rounded(n.value)) < TooBig

\* Slip: both sides are compared as floats.
EqualAsFloats(a, b) == Finite(a) /\ Finite(b) /\ Rounded(a.value) = Rounded(b.value)

\* a = b for a finite b: Python compares an integer and a float exactly.
Equal(a, b) == a.value = b.value /\ (a.float => Finite(a))

\* a + b for a finite b.
Plus(a, b) ==
    IF ~a.float /\ ~b.float THEN Integer(a.value + b.value)
    ELSE IF ~Finite(a) THEN Float(Rounded(a.value))
    ELSE Float(Rounded(Rounded(a.value) + Rounded(b.value)))

Minus(a, b) == Plus(a, [b EXCEPT !.value = -@])

\* Slip: the difference is that of float(a) and float(b).
ConversionOverflowsAlways(a, b) == \E n \in {a, b} : ~Finite(n)

\* A float operation first converts an integer operand.
ConversionOverflows(a, b) == \E n \in {a, b} : ~n.float /\ (a.float \/ b.float) /\ ~Finite(n)

\* A format with the first three numbers, in which what follows the largest is
\* nearer to it than to infinity.
ASSUME NumberAssumption ==
    /\ TooBig \in Nat
    /\ {0, 1, 2} \subseteq FiniteFloats /\ FiniteFloats \subseteq 0..(TooBig - 1)
    /\ \A n \in Values :
          /\ n \in Number /\ Finite(n)
          /\ n.float => Rounded(n.value) = n.value /\ Finite(Float(n.value + 1))

\* A candidate is the number that is read from its text, None if there is none,
\* and the wording around it.
ASSUME CandidateAssumption ==
    Candidates \subseteq [number : Number \cup {None}, wording : {"plain", "wordy"}]

\* What a failed check reports is no None.
ASSUME CounterexampleAssumption ==
    \A n \in Values, c \in Candidates :
        IF c.number = None
        THEN [expected |-> n, observed |-> None, error |-> "candidate"] \in Counterexamples
        ELSE [expected |-> n, observed |-> c.number, difference |-> Minus(c.number, n)]
                \in Counterexamples

\* str(n); what it writes is read back as the same number.
Str(n) == [number |-> n, wording |-> "plain"]

VARIABLES
    task,     \* what its expression evaluates to, None if none is found in it
    scripted  \* the model is ReplayModel

demoVars == <<vars, task, scripted>>

\* VerificationController().
DefaultController ==
    [plateau_patience |-> 2, oscillation_window |-> 4,
     require_independent_evidence |-> TRUE]

\* _run_spec: a task, a number of arithmetic verifiers, and max_iterations.
DemoInit ==
    /\ Init
    /\ controller = DefaultController
    /\ verifiers > 0
    /\ budget.max_model_calls = None /\ budget.max_verifier_calls = None
    /\ ~budget.wall_time_limited
    /\ task \in Values \cup {None}
    /\ scripted \in BOOLEAN

----------------------------------------------------------------------------
(* ReplayModel *)

\* _valid_expected: the expected value of the first packet that is fit to be
\* believed, None if there is no such packet.
Believed(p) ==
    /\ ValidateHash(p)
    /\ p.status = "FAIL" /\ IsIndependent(p)
    /\ p.counterexample # None
    /\ "expected" \in DOMAIN p.counterexample

ValidExpected(evidence) ==
    LET i == SelectInSeq(evidence, Believed)
    IN  IF i = 0 THEN None ELSE evidence[i].counterexample.expected

\* generate, if evaluate_arithmetic_task does not raise.
ReplayAnswer ==
    LET expected == ValidExpected(StateForModel.evidence)
    IN  IF expected # None /\ Equal(expected, task)
        THEN Str(expected)
        ELSE Str(Plus(task, Integer(1)))

ModelAnswers ==
    /\ scripted => task # None
    /\ \E c \in Candidates :
          /\ scripted => c = ReplayAnswer
          /\ ModelReturns(c)
    /\ UNCHANGED <<task, scripted>>

\* evaluate_arithmetic_task raises: the answer "unknown" is never given.
ReplayRaises ==
    /\ scripted /\ task = None
    /\ ModelRaises
    /\ UNCHANGED <<task, scripted>>

----------------------------------------------------------------------------
(* SafeMathVerifier *)

ArithmeticPacket(claim, status, counterexample) ==
    [checked_claim |-> claim, status |-> status, counterexample |-> counterexample,
     provenance |-> "ast", reliability |-> "deterministic",
     independence |-> "INDEPENDENT", llm_produced |-> FALSE]

\* The verdict on the number that was read.
Verdict(observed) ==
    IF Equal(observed, task) THEN ArithmeticPacket("equals", "PASS", None)
    ELSE ArithmeticPacket("equals", "FAIL",
            [expected |-> task, observed |-> observed, difference |-> Minus(observed, task)])

SafeMathVerdict ==
    IF task = None THEN ArithmeticPacket("supported", "UNKNOWN", [error |-> "task"])
    ELSE IF candidate.number = None
    THEN ArithmeticPacket("equals", "FAIL",
            [expected |-> task, observed |-> None, error |-> "candidate"])
    ELSE Verdict(candidate.number)

\* Nothing guards the difference of a wrong answer, nor the hash of its packet:
\* an integer may not convert to float, and infinity is not JSON.
VerdictRaises ==
    /\ task # None /\ candidate.number # None
    /\ ~Equal(candidate.number, task)
    /\ \/ ConversionOverflows(candidate.number, task)
       \/ \E n \in {candidate.number, Minus(candidate.number, task)} :
             n.float /\ ~Finite(n)

SafeMathReturns ==
    /\ pc = "verify"
    /\ ~VerdictRaises
    /\ VerifierReturns(SafeMathVerdict)
    /\ UNCHANGED <<task, scripted>>

SafeMathRaises ==
    /\ pc = "verify"
    /\ VerdictRaises
    /\ VerifierRaises
    /\ UNCHANGED <<task, scripted>>

----------------------------------------------------------------------------

\* Without limits but max_iterations, a run ends in JudgeRound or by an error.
DemoStep ==
    \/ StartRound /\ UNCHANGED <<task, scripted>>
    \/ ModelAnswers
    \/ ReplayRaises
    \/ CallVerifier /\ UNCHANGED <<task, scripted>>
    \/ SafeMathReturns
    \/ SafeMathRaises
    \/ JudgeRound /\ UNCHANGED <<task, scripted>>

DemoNext == DemoStep \/ (pc = "done" /\ UNCHANGED demoVars)

DemoSpec == DemoInit /\ [][DemoNext]_demoVars /\ WF_demoVars(DemoStep)

----------------------------------------------------------------------------
(* Properties *)

\* An answer has the value of the task, which is never infinite.
Right(c) == task # None /\ c.number # None /\ c.number.value = task.value

\* Whatever the model answers, the run ends VERIFIED at the first right answer
\* and on nothing else: no rounding makes a wrong number pass or fails a right
\* one, no exception takes a right answer's place, and no task without an
\* expression is verified (SafeMathVerifier.verify under verify()).
VerifiedIffRight ==
    \A i \in DOMAIN steps :
        Right(steps[i].candidate) <=> i = Len(steps) /\ reason = "VERIFIED"

\* How many answers ReplayModel needs.
Rounds == IF task.float /\ Rounded(task.value + 1) = task.value THEN 1 ELSE 2

\* ReplayModel repairs its answer in the second round, given one.  If the value
\* is a float so large that adding one does not change it, there is nothing to
\* repair, and the first answer is verified.
ReplayRepairs ==
    scripted /\ task # None /\ budget.max_iterations >= Rounds =>
        <>(reason = "VERIFIED" /\ Right(FinalStep.candidate) /\ Len(steps) = Rounds)
=============================================================================
