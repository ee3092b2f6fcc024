-------------------------------- MODULE Calc --------------------------------
(***************************************************************************)
(* cmd_calc_handler of calc.h: an expression evaluator with a stack of     *)
(* values and a stack of operators.  A token is a parenthesis, a numeral   *)
(* (a run of digits) or any other character, which the code takes for an   *)
(* operator.  A step is one token pushed or one turn of a loop that        *)
(* applies the top operator.  int is WIDTH bits wide and wraps, as the     *)
(* instructions the compiler emits do.                                     *)
(***************************************************************************)
EXTENDS Integers, Sequences, FiniteSets, FiniteSetsExt

CONSTANTS
  STACK,       \* elements of values[] and of ops[] (40)
  WIDTH,       \* bits of an int (32)
  Numerals,    \* numerals that are typed
  Value,       \* what the digits of a numeral add up to, in an int
  Operators,   \* other characters that are typed
  MAX_TOKENS,    \* bound: tokens of an expression
  MAX_MALFORMED, \* bound: tokens of one that is not the start of any
                 \* expression
  Reading        \* the meaning of expressions, which CalcCorrect compares

MaxInt == 2 ^ (WIDTH - 1) - 1
MinInt == -MaxInt - 1
Ints == MinInt .. MaxInt
Tokens == Numerals \cup Operators \cup {"(", ")"}

ASSUME CalcConstants ==
  /\ STACK \in Nat \ {0}
  /\ WIDTH \in Nat \ {0}
  /\ MAX_TOKENS \in Nat
  /\ MAX_MALFORMED \in Nat
  /\ Value \in [Numerals -> Ints]
  /\ {"(", ")", "end", "none"} \cap (Numerals \cup Operators) = {}
  /\ Numerals \cap Operators = {}

VARIABLES
  values, ops,  \* the stacks, top last
  current,      \* the operator or ")" that applies operators, "end" for the
                \* loop after the last token, or "none"
  outcome,      \* "reading", an error message, or "printed"
  printed,      \* the number printed
  tokens        \* history: what was typed

cvars == <<values, ops, current, outcome, printed, tokens>>

CalcInit ==
  /\ values = << >>
  /\ ops = << >>
  /\ current = "none"
  /\ outcome = "reading"
  /\ printed = 0
  /\ tokens = << >>

-----------------------------------------------------------------------------
(***************************************************************************)
(* Arithmetic on int                                                       *)
(***************************************************************************)
Wrap(n) == ((n - MinInt) % (2 ^ WIDTH)) + MinInt
Magnitude(n) == IF n < 0 THEN -n ELSE n

\* C division truncates towards 0 and the remainder has the sign of a.
Quotient(a, b) ==
  LET q == Magnitude(a) \div Magnitude(b) IN IF (a < 0) = (b < 0) THEN q ELSE -q
Remainder(a, b) == a - b * Quotient(a, b)

power(base, exp) ==
  IF exp < 0 THEN 0 ELSE IF exp = 0 THEN 1 ELSE Wrap(base ^ exp)

Bit(n, k) == (Wrap(n) % 2 ^ WIDTH) \div 2 ^ k % 2
FromBits(S) == Wrap(MapThenSumSet(LAMBDA k : 2 ^ k, S))
BitAnd(a, b) == FromBits({k \in 0 .. WIDTH - 1 : Bit(a, k) = 1 /\ Bit(b, k) = 1})
BitOr(a, b) == FromBits({k \in 0 .. WIDTH - 1 : Bit(a, k) = 1 \/ Bit(b, k) = 1})

\* Mutant of get_precedence: & and | bind like + and -.
get_precedence_flat(op) ==
  CASE op \in {"+", "-", "&", "|"} -> 1
    [] op \in {"*", "/", "%", "x"} -> 2
    [] op = "^" -> 3
    [] OTHER -> -1

get_precedence(op) ==
  CASE op \in {"&", "|"} -> 0
    [] op \in {"+", "-"} -> 1
    [] op \in {"*", "/", "%", "x"} -> 2
    [] op = "^" -> 3
    [] OTHER -> -1

\* What stops the evaluation: the two tested errors, and the one the
\* processor finds.
Fault(a, b, op) ==
  CASE op = "/" /\ b = 0 -> "Division by zero"
    [] op = "%" /\ b = 0 -> "Modulo by zero"
    [] op \in {"/", "%"} /\ a = MinInt /\ b = -1 -> "divide error"
    [] OTHER -> "none"

\* Any other character, a left-over parenthesis included, gives 0.
apply_op(a, b, op) ==
  CASE op = "+" -> Wrap(a + b)
    [] op = "-" -> Wrap(a - b)
    [] op \in {"*", "x"} -> Wrap(a * b)
    [] op = "/" -> Quotient(a, b)
    [] op = "%" -> Remainder(a, b)
    [] op = "^" -> power(a, b)
    [] op = "&" -> BitAnd(a, b)
    [] op = "|" -> BitOr(a, b)
    [] OTHER -> 0

-----------------------------------------------------------------------------
(***************************************************************************)
(* What is typed: anything short, and the longer expressions.              *)
(***************************************************************************)
Depth(s) ==
  Cardinality({k \in DOMAIN s : s[k] = "("}) - Cardinality({k \in DOMAIN s : s[k] = ")"})

OperandEnds(t) == t \in Numerals \cup {")"}
OperandStarts(t) == t \in Numerals \cup {"("}

\* The start of an expression: operands and operators take turns, and no
\* parenthesis is closed that was not opened.
Prefix(s) ==
  /\ \A k \in DOMAIN s :
       OperandStarts(s[k]) <=> k = 1 \/ ~OperandEnds(s[k - 1])
  /\ \A k \in DOMAIN s : Depth(SubSeq(s, 1, k)) >= 0
WellFormed(s) ==
  s # << >> /\ Prefix(s) /\ OperandEnds(s[Len(s)]) /\ Depth(s) = 0

Typed(t) ==
  LET s == Append(tokens, t)
  IN /\ outcome = "reading" /\ current = "none"
     /\ Len(s) <= IF Prefix(s) THEN MAX_TOKENS ELSE MAX_MALFORMED
     /\ tokens' = s

-----------------------------------------------------------------------------
Error(message) ==
  /\ outcome' = message
  /\ UNCHANGED <<values, ops, current, printed>>

\* Mutant of StackFull: one element too many.
StackFull_late(s) == Len(s) > STACK

StackFull(s) == Len(s) >= STACK

OpenParenthesis ==
  /\ Typed("(")
  /\ \/ StackFull(ops) /\ Error("Stack overflow")
     \/ /\ ~StackFull(ops)
        /\ ops' = Append(ops, "(")
        /\ UNCHANGED <<values, current, outcome, printed>>

Number(t) ==
  /\ Typed(t)
  /\ \/ StackFull(values) /\ Error("Stack overflow")
     \/ /\ ~StackFull(values)
        /\ values' = Append(values, Value[t])
        /\ UNCHANGED <<ops, current, outcome, printed>>

\* A closing parenthesis or an operator starts the loop that applies the
\* operators above it.
OperatorOrClose(t) ==
  /\ Typed(t)
  /\ current' = t
  /\ UNCHANGED <<values, ops, outcome, printed>>

EndOfInput ==
  /\ outcome = "reading" /\ current = "none"
  /\ current' = "end"
  /\ UNCHANGED <<values, ops, outcome, printed, tokens>>

Top(s) == s[Len(s)]
Pop(s) == SubSeq(s, 1, Len(s) - 1)

Binds(op) == get_precedence(op) >= get_precedence(current)

\* The condition of the three loops.
MustApply ==
  /\ ops # << >>
  /\ current = ")" => Top(ops) # "("
  /\ current \notin {")", "end"} => Binds(Top(ops))

ApplyTop ==
  /\ outcome = "reading" /\ current # "none"
  /\ MustApply
  /\ IF Len(values) < 2
       THEN Error("Invalid syntax")
       ELSE LET b == Top(values)
                a == Top(Pop(values))
                fault == Fault(a, b, Top(ops))
            IN IF fault # "none"
                 THEN Error(fault)
                 ELSE /\ values' = Append(Pop(Pop(values)), apply_op(a, b, Top(ops)))
                      /\ ops' = Pop(ops)
                      /\ UNCHANGED <<current, outcome, printed>>
  /\ UNCHANGED tokens

\* After the loop: the parenthesis is dropped, if there is one.
CloseParenthesis ==
  /\ outcome = "reading" /\ current = ")"
  /\ ~MustApply
  /\ ops' = IF ops # << >> THEN Pop(ops) ELSE ops
  /\ current' = "none"
  /\ UNCHANGED <<values, outcome, printed, tokens>>

PushOperator ==
  /\ outcome = "reading" /\ current \in Operators
  /\ ~MustApply
  /\ \/ StackFull(ops) /\ Error("Stack overflow")
     \/ /\ ~StackFull(ops)
        /\ ops' = Append(ops, current)
        /\ current' = "none"
        /\ UNCHANGED <<values, outcome, printed>>
  /\ UNCHANGED tokens

PrintResult ==
  /\ outcome = "reading" /\ current = "end"
  /\ ~MustApply
  /\ IF Len(values) = 1
       THEN /\ outcome' = "printed"
            /\ printed' = values[1]
            /\ UNCHANGED <<values, ops, current>>
       ELSE Error("Invalid expression")
  /\ UNCHANGED tokens

CalcNext ==
  \/ OpenParenthesis
  \/ \E t \in Numerals : Number(t)
  \/ \E t \in Operators \cup {")"} : OperatorOrClose(t)
  \/ EndOfInput
  \/ ApplyTop
  \/ CloseParenthesis
  \/ PushOperator
  \/ PrintResult

CalcSpec == CalcInit /\ [][CalcNext]_cvars

-----------------------------------------------------------------------------
(***************************************************************************)
(* Properties                                                              *)
(***************************************************************************)
Outcomes == {"reading", "printed", "Stack overflow", "Invalid syntax",
             "Invalid expression", "Division by zero", "Modulo by zero",
             "divide error"}

CalcTypeOK ==
  /\ values \in Seq(Ints)
  /\ ops \in Seq(Operators \cup {"("})
  /\ current \in Operators \cup {")", "end", "none"}
  /\ outcome \in Outcomes
  /\ printed \in Ints
  /\ tokens \in Seq(Tokens)

\* The stacks stay inside values[40] and ops[40].  Upwards from a parenthesis
\* the operators bind ever more tightly, so at most five of them wait above
\* each, and only nesting can fill the stack of operators.
StackDiscipline ==
  /\ Len(values) <= STACK
  /\ Len(ops) <= STACK
  /\ \A k \in 2 .. Len(ops) :
       ops[k] # "(" => get_precedence(ops[k - 1]) < get_precedence(ops[k])

-----------------------------------------------------------------------------
(***************************************************************************)
(* The meaning of expressions.  Operators come in four kinds, the loosest  *)
(* first.  An expression of level p has outside parentheses only operators *)
(* of kind p or tighter; one of level 5 is a numeral or in parentheses.    *)
(***************************************************************************)
Kinds == <<{"&", "|"}, {"+", "-"}, {"*", "x", "/", "%"}, {"^"}>>
KnownOperators(s) ==
  \A k \in DOMAIN s : s[k] \in Operators => \E p \in DOMAIN Kinds : s[k] \in Kinds[p]

Printed(n) == [outcome |-> "printed", value |-> n]
Failed(message) == [outcome |-> message, value |-> 0]

\* Operands are evaluated from the left; the first error counts.
Applied(left, right, op) ==
  LET fault == Fault(left.value, right.value, op)
  IN IF left.outcome # "printed" THEN left
     ELSE IF right.outcome # "printed" THEN right
     ELSE IF fault # "none" THEN Failed(fault)
     ELSE Printed(apply_op(left.value, right.value, op))

\* Meaning[l][p] pairs the expressions of l tokens and level p with their
\* results.  (TLC evaluates a definition once, a constant at every use.)
Meaning == Reading
Reads(p, s, result) == <<s, result>> \in Meaning[Len(s)][p]

\* The grammar: numerals, parentheses, levels, and operators of one kind,
\* which are applied from the left.
ASSUME GrammarAssumption ==
  /\ \A n \in Numerals : Reads(5, <<n>>, Printed(Value[n]))
  /\ \A l \in 1 .. MAX_TOKENS - 2 : \A e \in Meaning[l][1] :
       Reads(5, <<"(">> \o e[1] \o <<")">>, e[2])
  /\ \A p \in 1 .. 4, l \in 1 .. MAX_TOKENS : Meaning[l][p + 1] \subseteq Meaning[l][p]
  /\ \A p \in 1 .. 4, k, l \in 1 .. MAX_TOKENS :
       k + 1 + l <= MAX_TOKENS =>
         \A left \in Meaning[k][p], right \in Meaning[l][p + 1], op \in Operators \cap Kinds[p] :
           Reads(p, left[1] \o <<op>> \o right[1], Applied(left[2], right[2], op))

\* A well-formed expression gets the value, or the error, that the grammar
\* gives it: & and | bind loosest, then + and -, then *, /, % and x, then ^,
\* all of them from the left; it is never refused as invalid.
CalcCorrect ==
  (/\ WellFormed(tokens) /\ KnownOperators(tokens)
   /\ current = "end" /\ outcome \notin {"reading", "Stack overflow"})
  => Reads(1, tokens, [outcome |-> outcome, value |-> printed])
=============================================================================
