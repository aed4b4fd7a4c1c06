------------------------- MODULE MCRestrictedPython -------------------------
(***************************************************************************)
(* Functions with a known meaning for RestrictedPython.                    *)
(***************************************************************************)
EXTENDS RestrictedPython

CONSTANT Raises  \* the meaning of a call that raises

(* Syntax *)

Num(k) == [node |-> "Constant", constant |-> k]
Var(x) == [node |-> "Name", id |-> x]
Op(a, op, b) == [node |-> "BinOp", left |-> a, op |-> op, right |-> b]
Is(a, op, b) == [node |-> "Compare", left |-> a, ops |-> <<op>>, comparators |-> <<b>>]
Both(op, a, b) == [node |-> "BoolOp", op |-> op, values |-> <<a, b>>]
Choice(test, a, b) == [node |-> "IfExp", test |-> test, then |-> a, otherwise |-> b]
Let(x, e) == [node |-> "Assign", target |-> x, value |-> e]
Plus(x, e) == [node |-> "AugAssign", target |-> x, op |-> "Add", value |-> e]
When(test, body) == [node |-> "If", test |-> test, body |-> body, orelse |-> << >>]
Loop(x, stop, body, orelse) ==
    [node |-> "For", target |-> x, stop |-> stop, body |-> body, orelse |-> orelse]
Returns(e) == [node |-> "Return", value |-> e]

\* The ways to go on from inside a loop.
Goings == [break |-> [node |-> "Break"], continue |-> [node |-> "Continue"],
           return |-> Returns(Var("s")), pass |-> [node |-> "Pass"]]

(* Functions of n and a *)

\* Add the numbers below n, with a going at a; 100 if the loop was not broken.
Search(going) ==
    <<Let("s", Num(0)),
      Loop("i", Var("n"),
           <<When(Is(Var("i"), "Eq", Var("a")), <<going>>), Plus("s", Var("i"))>>,
           <<Plus("s", Num(100))>>),
      Returns(Var("s"))>>

\* The going is in the else part of an inner loop, and so concerns the outer one.
Nested(going) ==
    <<Let("s", Num(0)),
      Loop("i", Var("n"),
           <<Loop("j", Var("i"),
                  <<When(Is(Var("j"), "Eq", Var("a")), <<Goings.break>>), Plus("s", Num(1))>>,
                  <<going>>),
             Plus("s", Num(10))>>,
           <<Plus("s", Num(100))>>),
      Returns(Var("s"))>>

\* 1 if 0 <= n < 4 and (a == 0 or n % a == 0) else -(n // a)
Logic ==
    <<Returns(Choice(
        Both("And",
             [node |-> "Compare", left |-> Num(0), ops |-> <<"LtE", "Lt">>,
              comparators |-> <<Var("n"), Num(4)>>],
             Both("Or", Is(Var("a"), "Eq", Num(0)),
                  Is(Op(Var("n"), "Mod", Var("a")), "Eq", Num(0)))),
        Num(1),
        [node |-> "UnaryOp", op |-> "USub", operand |-> Op(Var("n"), "FloorDiv", Var("a"))]))>>

Bodies == [logic |-> Logic, nothing |-> <<Goings.pass>>]
    @@ [name \in {"search break", "search continue", "search return", "search pass"} |->
          Search(Goings[CASE name = "search break" -> "break"
                          [] name = "search continue" -> "continue"
                          [] name = "search return" -> "return"
                          [] name = "search pass" -> "pass"])]
    @@ [name \in {"nested break", "nested continue", "nested return", "nested pass"} |->
          Nested(Goings[CASE name = "nested break" -> "break"
                          [] name = "nested continue" -> "continue"
                          [] name = "nested return" -> "return"
                          [] name = "nested pass" -> "pass"])]

(* Their meaning, in closed form *)

Positive(n) == IF n > 0 THEN n ELSE 0
Below(n) == (Positive(n) * (Positive(n) - 1)) \div 2

\* The turns of an inner loop over range(i), and the outer turns in which it breaks.
Turns(n, a) == FoldFunction(+, 0, [i \in 0..(n - 1) |-> IF a \in 0..i THEN a ELSE i])
Broken(n, a) == Cardinality({i \in 0..(n - 1) : a \in 0..(i - 1)})

MCMeaning(name, args) ==
    LET n == args[1]
        a == args[2]
        hit == a \in 0..(n - 1)
    IN  CASE Len(args) # 2 -> Raises
          [] name = "search pass" -> Below(n) + 100
          [] name = "search continue" -> Below(n) + 100 - (IF hit THEN a ELSE 0)
          [] name \in {"search break", "search return"} ->
                IF hit THEN Below(a) ELSE Below(n) + 100
          [] name = "nested pass" -> Turns(n, a) + 10 * Positive(n) + 100
          [] name = "nested continue" -> Turns(n, a) + 10 * Broken(n, a) + 100
          [] name \in {"nested break", "nested return"} -> IF n > 0 THEN 0 ELSE 100
          [] name = "logic" ->
                IF n \in 0..3 /\ (a = 0 \/ \E q \in -3..3 : n = q * a) THEN 1
                ELSE IF a = 0 THEN Raises
                ELSE -(CHOOSE q \in -5..5 : \E r \in 0..4 :
                          n = q * a + (IF a > 0 THEN r ELSE -r) /\ (r < a \/ r < -a))
          [] name = "nothing" -> None

(* Submissions *)

Definition(name) ==
    [name |-> name, parameters |-> <<"n", "a">>, decorated |-> FALSE, body |-> Bodies[name]]

Candidate(definitions, nodes, forbidden) ==
    [definitions |-> definitions, nodes |-> nodes, forbidden |-> forbidden]

Submission(name, suite) ==
    [candidate |-> Candidate(<<Definition(name)>>, 60, FALSE), function_name |-> name,
     tests |-> suite]

\* A case with the right expectation or with one that is off by what an else part
\* adds; none expects to raise.
Case(name, args, right) ==
    LET meaning == MCMeaning(name, args)
    IN  [args |-> args,
         expected |-> IF meaning \in {None, Raises} THEN (IF right THEN None ELSE 77)
                      ELSE IF right THEN meaning ELSE meaning + 100]

Grid == (-1..4) \X (-1..3)

MCSubmissions ==
    {Submission(name, <<Case(name, at, right)>>) :
        name \in DOMAIN Bodies, at \in Grid, right \in BOOLEAN}
    \cup {Submission(name, <<Case(name, <<3, 1>>, TRUE), Case(name, at, TRUE),
                             Case(name, <<2, 2>>, right)>>) :
        name \in DOMAIN Bodies, at \in Grid, right \in BOOLEAN}
    \cup {Submission("logic", suite) : suite \in {<< >>, <<Case("logic", <<1>>, TRUE)>>}}
    \cup {[Submission("logic", <<Case("logic", <<2, 1>>, right)>>) EXCEPT
             !.function_name = None] : right \in BOOLEAN}
    \cup {[candidate |-> c, function_name |-> "logic", tests |-> <<Case("logic", <<1, 1>>, TRUE)>>] :
        c \in {Candidate(<< >>, 1, FALSE), Candidate(<<Definition("nothing")>>, 9, FALSE),
               Candidate(<<Definition("logic")>>, 257, FALSE),
               Candidate(<<Definition("logic")>>, 60, TRUE),
               Candidate(<<Definition("logic"), Definition("logic")>>, 120, FALSE),
               Candidate(<<[Definition("logic") EXCEPT !.decorated = TRUE]>>, 60, FALSE)}}
=============================================================================
