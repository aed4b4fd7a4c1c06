------------------------- MODULE MCArithmeticDemo -------------------------
(***************************************************************************)
(* Small instances of ArithmeticDemo for TLC: floats of two bits, the       *)
(* largest of them 12.                                                     *)
(***************************************************************************)
EXTENDS ArithmeticDemo

MCFiniteFloats == {0, 1, 2, 3, 4, 6, 8, 12}

\* Integers that are floats, that lie between floats, and whose successor is
\* too big to be one; floats that adding one changes and does not.
MCValues == {Integer(2), Integer(5), Integer(13), Float(4), Float(6), Float(12), Float(-12)}

\* The values, what ReplayModel makes of them, and numbers next to them; an integer
\* that is too big, infinity, and no number.
MCCandidates ==
    {Str(n) : n \in MCValues \cup {Plus(n, Integer(1)) : n \in MCValues}
                   \cup {Float(16), None}}
    \cup {[number |-> n, wording |-> "wordy"] : n \in {Integer(5), Integer(6)}}

MCCounterexamples ==
    {[error |-> "task"]} \cup
    [expected : MCValues, observed : {None}, error : {"candidate"}] \cup
    [expected : MCValues, observed : {c.number : c \in MCCandidates} \ {None},
     difference : [float : BOOLEAN, value : -32..32]]

\* Every limit but that of the iterations is absent.
MCCalls ==
    {[max_iterations |-> i, max_model_calls |-> None, max_verifier_calls |-> None,
      wall_time_limited |-> FALSE] : i \in 1..3}
    \X {DefaultController} \X {1, 2}

\* The packets are those of SafeMathVerdict; no others are enumerated.
MCArguments == {}
=============================================================================
