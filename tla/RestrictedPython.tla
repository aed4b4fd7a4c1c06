-------------------------- MODULE RestrictedPython --------------------------
(***************************************************************************)
(* RestrictedPythonVerifier: a candidate that is one plain function is     *)
(* interpreted on one test case after the other, by one interpreter.       *)
(***************************************************************************)
EXTENDS PythonInterpreter

CONSTANTS
    Submissions,   \* what candidates and test suites the verifier is given
    StepLimits,
    Meaning(_, _)  \* what the function of that name returns in Python for arguments;
                   \* a value of its own if it raises or is beyond the size limits

\* A candidate as parsed: its top-level definitions, the number of its nodes, whether
\* forbidden syntax is among them.  A test case is its arguments and what to expect.
ASSUME SubmissionAssumption ==
    /\ StepLimits \subseteq Nat \ {0}
    /\ \A s \in Submissions :
          /\ s.candidate.nodes \in Nat /\ s.candidate.forbidden \in BOOLEAN
          /\ DOMAIN s.tests = 1..Len(s.tests)

MaxNodes == 256

VARIABLES
    submission,
    limit,    \* step_limit
    pc,       \* "start", "cases" or "done"
    index,    \* the next case
    steps,    \* interpreter.steps
    verdict   \* the status of the packet and the failing case

vars == <<submission, limit, pc, index, steps, verdict>>

candidate == submission.candidate
tests == submission.tests
function == candidate.definitions[1]

Init ==
    /\ submission \in Submissions
    /\ limit \in StepLimits
    /\ pc = "start"
    /\ index = 1
    /\ steps = 0
    /\ verdict = None

Packet(status, case) ==
    /\ verdict' = [status |-> status, case |-> case]
    /\ pc' = "done"

NoTestCases ==
    /\ pc = "start"
    /\ tests = << >>
    /\ Packet("UNKNOWN", None)
    /\ UNCHANGED <<submission, limit, index, steps>>

\* The candidate is a function the interpreter may be given.
Interpretable ==
    /\ candidate.nodes <= MaxNodes
    /\ Len(candidate.definitions) = 1
    /\ ~function.decorated
    /\ submission.function_name \in {None, function.name}  \* None asks for no name
    /\ ~candidate.forbidden

Refuse ==
    /\ pc = "start"
    /\ tests # << >>
    /\ ~Interpretable
    /\ Packet("FAIL", None)
    /\ UNCHANGED <<submission, limit, index, steps>>

Accept ==
    /\ pc = "start"
    /\ tests # << >>
    /\ Interpretable
    /\ pc' = "cases"
    /\ UNCHANGED <<submission, limit, index, steps, verdict>>

\* The next case: an exception or another value than the expected one ends the loop.
RunCase ==
    /\ pc = "cases"
    /\ index <= Len(tests)
    /\ LET observed == Call(function, tests[index].args, limit, steps)
       IN  /\ steps' = observed.steps
           /\ IF observed.raised \/ observed.value # tests[index].expected
              THEN /\ Packet("FAIL", index)
                   /\ UNCHANGED index
              ELSE /\ index' = index + 1
                   /\ UNCHANGED <<pc, verdict>>
    /\ UNCHANGED <<submission, limit>>

AllPassed ==
    /\ pc = "cases"
    /\ index > Len(tests)
    /\ Packet("PASS", None)
    /\ UNCHANGED <<submission, limit, index, steps>>

Next == NoTestCases \/ Refuse \/ Accept \/ RunCase \/ AllPassed

Spec == Init /\ [][Next]_vars

----------------------------------------------------------------------------
(* Properties *)

\* A candidate passes only if, in Python, its function returns what every case
\* expects, through loops, breaks, else parts, early returns and conditions.  (As
\* an operand, an "and" or "or" is a Boolean here and "is" is false: the functions
\* judged do not depend on either.)
PassIsPythons ==
    verdict # None /\ verdict.status = "PASS" =>
        \A i \in DOMAIN tests :
            Meaning(function.name, tests[i].args) = tests[i].expected

\* A candidate fails at the first case that is to blame: in Python the function
\* returns what the earlier cases expect, and this case alone fails, for another
\* value, an exception or more steps than the limit in this one call.
FailureIsToBlame ==
    verdict # None /\ verdict.case # None =>
        LET Alone(i) == Interpret(function, tests[i].args, limit, 0)
            expected(i) == Meaning(function.name, tests[i].args) = tests[i].expected
        IN  /\ \A i \in 1..(verdict.case - 1) : expected(i) /\ ~Alone(i).raised
            /\ ~expected(verdict.case) \/ Alone(verdict.case).steps > limit
=============================================================================
