------------------------- MODULE PythonInterpreter -------------------------
(***************************************************************************)
(* _Interpreter of verifiers/restricted_python.py: the syntax tree of a    *)
(* pure function is run on arguments under limits.                         *)
(*                                                                         *)
(* A node is a record with its class in "node".  A value is None or an     *)
(* integer, and a Boolean the integer it is in Python.  Other constants,   *)
(* containers, powers, and calls but that of range in a loop, are left     *)
(* out.                                                                    *)
(*                                                                         *)
(* An interpretation is a machine m that is passed on: m.signal is "next", *)
(* or the exception that is propagating; m.value is the last value.        *)
(***************************************************************************)
EXTENDS Integers, SequencesExt

CONSTANTS
    None,
    MaxInt,  \* stands for the integers of 4096 bits
    MaxLoop  \* stands for the 1000 elements of a range

ASSUME LimitAssumption == MaxInt \in Nat /\ MaxLoop \in Nat

Truth(v) == v \notin {0, None}
Bool(b) == IF b THEN 1 ELSE 0

Running(m) == m.signal = "next"
Raise(m) == [m EXCEPT !.signal = "error"]
Give(m, v) == [m EXCEPT !.value = v]

\* _tick.
Tick(m) ==
    LET counted == [m EXCEPT !.steps = @ + 1]
    IN  IF counted.steps > m.limit THEN Raise(counted) ELSE counted

\* _bounded.
Bounded(m, v) == IF v # None /\ v \notin -MaxInt..MaxInt THEN Raise(m) ELSE Give(m, v)

\* An operation on two numbers: division rounds down, also by a negative number.
FloorDiv(a, b) == IF b > 0 THEN a \div b ELSE (-a) \div (-b)

Binary(m, op, a, b) ==
    IF None \in {a, b} \/ (op \in {"FloorDiv", "Mod"} /\ b = 0) THEN Raise(m)
    ELSE Give(m, CASE op = "Add" -> a + b
                   [] op = "Sub" -> a - b
                   [] op = "Mult" -> a * b
                   [] op = "FloorDiv" -> FloorDiv(a, b)
                   [] op = "Mod" -> a - b * FloorDiv(a, b))

Ordering == {"Lt", "LtE", "Gt", "GtE"}

\* An operator that is not listed, as "is", compares as false.
Compares(op, a, b) ==
    CASE op = "Eq" -> a = b
      [] op = "NotEq" -> a # b
      [] op = "Lt" -> a < b
      [] op = "LtE" -> a <= b
      [] op = "Gt" -> a > b
      [] op = "GtE" -> a >= b
      [] OTHER -> FALSE

----------------------------------------------------------------------------
(* Expressions *)

\* An exception, or a signal, skips what follows.
Then(r, Continue(_)) == IF Running(r) THEN Continue(r) ELSE r

RECURSIVE Expression(_, _)

\* all(...) or any(...) of the operands: the first that decides is the last one
\* looked at, and the result is a Boolean.
BoolOp(e, m) ==
    FoldLeft(LAMBDA acc, operand :
                IF ~Running(acc) \/ Truth(acc.value) = (e.op = "Or") THEN acc
                ELSE Then(Expression(operand, acc), LAMBDA r : Give(r, Bool(Truth(r.value)))),
             Give(m, Bool(e.op = "And")), e.values)

\* One link of a chained comparison, between the value of m and that of r.
Linked(m, op, r) ==
    CASE ~Running(r) -> [machine |-> r, linked |-> FALSE]
      [] op \in Ordering /\ None \in {m.value, r.value} ->
            [machine |-> Raise(r), linked |-> FALSE]
      [] OTHER -> [machine |-> r, linked |-> Compares(op, m.value, r.value)]

\* The links are compared until one fails.
Compare(e, m) ==
    LET links == FoldLeft(LAMBDA acc, i :
                    IF acc.linked
                    THEN Linked(acc.machine, e.ops[i], Expression(e.comparators[i], acc.machine))
                    ELSE acc,
                 [machine |-> m, linked |-> TRUE], [i \in DOMAIN e.ops |-> i])
    IN  Give(links.machine, Bool(links.linked))

UnaryOp(op, r) ==
    CASE op = "Not" -> Give(r, Bool(~Truth(r.value)))
      [] op = "USub" /\ r.value # None -> Give(r, -r.value)
      [] op = "UAdd" /\ r.value # None -> r
      [] OTHER -> Raise(r)

\* _expression.  A node that is not listed is not supported.
Expression(e, entered) ==
    Then(Tick(entered), LAMBDA m :
        CASE e.node = "Constant" -> Bounded(m, e.constant)
          [] e.node = "Name" ->
                IF e.id \in DOMAIN m.environment THEN Give(m, m.environment[e.id]) ELSE Raise(m)
          [] e.node = "BinOp" ->
                Then(Expression(e.left, m), LAMBDA left :
                    Then(Expression(e.right, left), LAMBDA right :
                        Then(Binary(right, e.op, left.value, right.value),
                             LAMBDA r : Bounded(r, r.value))))
          [] e.node = "UnaryOp" -> Then(Expression(e.operand, m), LAMBDA r : UnaryOp(e.op, r))
          [] e.node = "BoolOp" -> BoolOp(e, m)
          [] e.node = "Compare" -> Then(Expression(e.left, m), LAMBDA left : Compare(e, left))
          [] e.node = "IfExp" ->
                Then(Expression(e.test, m), LAMBDA test :
                    Expression(IF Truth(test.value) THEN e.then ELSE e.otherwise, test))
          [] OTHER -> Raise(m))

\* The call range(stop), whose argument is an expression: the number of its elements.
RangeCall(e, entered) ==
    Then(Tick(entered), LAMBDA m :
        Then(Expression(e, m), LAMBDA stop :
            IF stop.value = None \/ stop.value > MaxLoop THEN Raise(stop) ELSE stop))

----------------------------------------------------------------------------
(* Statements *)

Assign(m, name, v) == [m EXCEPT !.environment = (name :> v) @@ @]

RECURSIVE Statement(_, _)

Statements(ss, m) ==
    FoldLeft(LAMBDA acc, s : Then(acc, LAMBDA r : Statement(s, r)), m, ss)

\* continue ends one iteration only.
Continued(r) == IF r.signal = "continue" THEN [r EXCEPT !.signal = "next"] ELSE r

Iterations(s, m, count) ==
    FoldLeft(LAMBDA acc, i : Then(acc, LAMBDA r :
                 Continued(Statements(s.body, Assign(r, s.target, i - 1)))),
             m, [i \in 1..count |-> i])

\* Slip: the else part follows a break as well.
ForElseAlways(s, end) ==
    IF end.signal \in {"next", "break"}
    THEN Statements(s.orelse, [end EXCEPT !.signal = "next"]) ELSE end

\* What follows the iterations of a loop: break has ended them, and only a loop that
\* was not broken runs its else part.
For(s, end) ==
    CASE end.signal = "next" -> Statements(s.orelse, end)
      [] end.signal = "break" -> [end EXCEPT !.signal = "next"]
      [] OTHER -> end

\* _statement.  A node that is not listed is not supported.
Statement(s, entered) ==
    Then(Tick(entered), LAMBDA m :
        CASE s.node = "Return" ->
                Then(Expression(s.value, m), LAMBDA r : [r EXCEPT !.signal = "return"])
          [] s.node = "Assign" ->
                Then(Expression(s.value, m), LAMBDA r : Assign(r, s.target, r.value))
          [] s.node = "AugAssign" /\ s.target \in DOMAIN m.environment ->
                Then(Expression(s.value, m), LAMBDA r :
                    Then(Binary(r, s.op, m.environment[s.target], r.value),
                         LAMBDA applied : Assign(applied, s.target, applied.value)))
          [] s.node = "If" ->
                Then(Expression(s.test, m), LAMBDA test :
                    Statements(IF Truth(test.value) THEN s.body ELSE s.orelse, test))
          [] s.node = "For" ->
                Then(RangeCall(s.stop, m), LAMBDA r : For(s, Iterations(s, r, r.value)))
          [] s.node = "Break" -> [m EXCEPT !.signal = "break"]
          [] s.node = "Continue" -> [m EXCEPT !.signal = "continue"]
          [] s.node = "Pass" -> m
          [] OTHER -> Raise(m))

\* What a call comes to: a break or a continue outside a loop ends it like any other
\* exception.
Outcome(end) ==
    [raised |-> end.signal \notin {"return", "next"}, steps |-> end.steps,
     value |-> IF end.signal = "return" THEN end.value ELSE None]

Interpret(function, args, limit, steps) ==
    LET start == [environment |-> << >>, limit |-> limit, steps |-> steps, signal |-> "next",
                  value |-> None]
        environment == [name \in ToSet(function.parameters) |->
                            args[CHOOSE i \in DOMAIN args : function.parameters[i] = name]]
    IN  Outcome(IF Len(args) # Len(function.parameters) THEN Raise(start)
                ELSE Statements(function.body, [start EXCEPT !.environment = environment]))

\* Slip: the steps of earlier calls count.
CallOnAndOn(function, args, limit, steps) == Interpret(function, args, limit, steps)

\* call, of an interpreter that has counted steps before.
Call(function, args, limit, steps) == Interpret(function, args, limit, 0)
=============================================================================
