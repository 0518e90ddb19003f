-------------------------------- MODULE Formula --------------------------------
(***************************************************************************)
(* The formula language (formula): lexer, parser, type inference and       *)
(* evaluation.  A character is a one-character string, a token is its text *)
(* ("1" stands for every number, "sel" for a selector; a word is one       *)
(* character, since lex takes it whole), an expression is a record whose   *)
(* field k is its Node kind.  A decimal is counted in halves: a half is    *)
(* the last digit that the numeric policy keeps and MaxNumber the largest  *)
(* value, so rounding and overflow happen on small numbers.                *)
(***************************************************************************)
EXTENDS Integers, Sequences, FiniteSets, SequencesExt

CONSTANT MaxNumber              \* bound: the largest decimal, in halves

-------------------------------------------------------------------------------
(* Lexer and parser.                                                       *)

Digits == {"1"}
Words == {"true", "sel", "if", "min", "clamp", "abs", "unknown", "millisecond", "mile"}
SingleCharacter == {"(", ")", "+", "-", "*", "/", "!", ",", "[", "]"}
OperatorCharacter == {"<", ">", "=", "&", "|"}

\* How many characters lex takes for the token that starts at i; 0 is a character
\* that no token starts with.
TokenLength(source, i) ==
    LET c == source[i]
        next == IF i < Len(source) THEN source[i + 1] ELSE ""
    IN CASE c \in SingleCharacter -> 1
         [] c \in OperatorCharacter -> IF next = "=" \/ (c \in {"&", "|"} /\ next = c) THEN 2 ELSE 1
         [] c \in Words -> 1
         [] c \in Digits -> CHOOSE n \in 1..Len(source) :
                              /\ \A j \in i..(i + n - 1) : j <= Len(source) /\ source[j] \in Digits
                              /\ (i + n <= Len(source) => source[i + n] \notin Digits)
         [] OTHER -> 0

Text(source, i, n) ==
    IF source[i] \in Digits THEN "1"
    ELSE IF n = 2 THEN source[i] \o source[i + 1] ELSE source[i]

RECURSIVE Lex(_, _)
Lex(source, i) ==
    IF i > Len(source) THEN <<"eof">>
    ELSE LET n == TokenLength(source, i)
         IN IF n = 0 THEN <<"?">> \o Lex(source, i + 1)
            ELSE <<Text(source, i, n)>> \o Lex(source, i + n)

Precedence(op) ==
    CASE op = "||" -> 1 [] op = "&&" -> 2
      [] op \in {"<", "<=", ">", ">=", "==", "!="} -> 3
      [] op \in {"+", "-"} -> 4 [] op \in {"*", "/"} -> 5 [] OTHER -> -1

Dec(n)      == [k |-> "dec", n |-> n]
Bool(b)     == [k |-> "bool", b |-> b]
Qty(n, u)   == [k |-> "qty", n |-> n, unit |-> u]
Sel(s)      == [k |-> "sel", sym |-> s]
Un(op, a)   == [k |-> "un", op |-> op, args |-> <<a>>]
Bin(op, l, r) == [k |-> "bin", op |-> op, args |-> <<l, r>>]
Call(f, as) == [k |-> "call", fn |-> f, args |-> as]
Invalid     == [k |-> "invalid"]

Scalar   == [type |-> "Decimal", dim |-> "scalar"]
Duration == [type |-> "Integer", dim |-> "duration"]
Ratio    == [type |-> "Decimal", dim |-> "ratio"]
Boolean  == [type |-> "Boolean", dim |-> ""]
NoType   == [type |-> "", dim |-> ""]

UnitsV1 == [scalar |-> Scalar, millisecond |-> Duration, ratio |-> Ratio]

Functions1 == {"if", "min", "clamp", "abs"}

\* parser.take never goes past the last token; p.error only adds.
Step(p) == [p EXCEPT !.at = IF @ < Len(p.tokens) THEN @ + 1 ELSE @]
Fail(p) == [p EXCEPT !.errors = @ + 1]
Peek(p) == p.tokens[p.at]
Want(p, text) == IF Peek(p) = text THEN Step(p) ELSE Fail(p)
Got(p, node) == [p EXCEPT !.node = node]

RECURSIVE ParsePrimary(_), ParseBinary(_, _), ParseArguments(_, _)

\* binary: a right operand binds tighter than its operator.
ParseBinary(p, min) ==
    LET op == Peek(p) IN
    IF Precedence(op) < min THEN p
    ELSE LET right == ParseBinary(ParsePrimary(Step(p)), Precedence(op) + 1)
         IN ParseBinary(Got(right, Bin(op, p.node, right.node)), min)

ParseArguments(p, args) ==
    LET arg == ParseBinary(ParsePrimary(p), 0)
    IN IF Peek(arg) = "," THEN ParseArguments(Step(arg), Append(args, arg.node))
       ELSE [p |-> arg, args |-> Append(args, arg.node)]

\* primary, with the registry at hand: an unknown function is a syntax error.
ParsePrimary(p) ==
    LET t == Peek(p)  q == Step(p) IN
    CASE t \in {"-", "!"} -> LET c == ParsePrimary(q) IN Got(c, Un(t, c.node))
      [] t = "(" -> LET e == ParseBinary(ParsePrimary(q), 0)
                    IN Got(Want(e, ")"), e.node)
      [] t = "1" -> IF Peek(q) # "[" THEN Got(q, Dec(2))
                    ELSE LET unit == Peek(Step(q))
                             close == Want(Step(Step(q)), "]")
                         IN Got(IF unit \in DOMAIN UnitsV1 THEN close ELSE Fail(close), Qty(2, unit))
      [] t = "sel" -> Got(q, Sel("num"))
      [] t = "true" -> Got(q, Bool(TRUE))
      [] t \in Functions1 \cup {"unknown"} ->
           IF Peek(q) # "(" THEN Got(Fail(q), Invalid)
           ELSE LET list == IF Peek(Step(q)) = ")" THEN [p |-> Step(q), args |-> <<>>]
                            ELSE ParseArguments(Step(q), <<>>)
                    end == Want(list.p, ")")
                IN Got(IF t = "unknown" THEN Fail(end) ELSE end, Call(t, list.args))
      [] OTHER -> Got(Fail(q), Invalid)

Parse(tokens) ==
    LET p == ParseBinary(ParsePrimary([tokens |-> tokens, at |-> 1, errors |-> 0, node |-> Invalid]), 0)
    IN [node |-> p.node,
        valid |-> p.errors = 0 /\ Peek(p) = "eof" /\ \A i \in DOMAIN tokens : tokens[i] # "?"]

-------------------------------------------------------------------------------
(* Types: a value type and the dimension of its unit.                      *)

\* AllowsBinary; a unit of no dimension is the zero Unit of a Boolean, whose value
\* type is empty as well.
UnitType(t) == IF t.dim = "" THEN "" ELSE t.type
AllowsBinary(op, l, r) ==
    IF op \in {"*", "/"} THEN "scalar" \in {l.dim, r.dim}
    ELSE l.dim = r.dim /\ UnitType(l) = UnitType(r)

Typed(t) == [type |-> t, issues |-> {}]
Refused(codes) == [type |-> NoType, issues |-> codes]

\* The binary operators of Infer, once both sides have a type.
InferLogic(l, r) ==
    IF l.type = "Boolean" /\ r.type = "Boolean" THEN Typed(Boolean) ELSE Refused({"FORMULA_TYPE_MISMATCH"})

InferBinary(op, l, r) ==
    IF op \in {"&&", "||"} THEN InferLogic(l, r)
    ELSE IF ~AllowsBinary(op, l, r) THEN Refused({"FORMULA_UNIT_MISMATCH"})
    ELSE IF op \in {"+", "-"} THEN Typed(l)
    ELSE IF op \in {"*", "/"} THEN Typed(IF l.dim = "scalar" THEN r ELSE l)
    ELSE Typed(Boolean)

Arity(f, n) == CASE f = "if" -> n = 3 [] f = "clamp" -> n = 3 [] f = "abs" -> n = 1 [] f = "min" -> n >= 2

\* Infer; symbols maps what a selector may read to its type.
RECURSIVE Infer(_, _)
Infer(node, symbols) ==
    CASE node.k = "dec" -> Typed(Scalar)
      [] node.k = "bool" -> Typed(Boolean)
      [] node.k = "qty" -> IF node.unit \in DOMAIN UnitsV1 THEN Typed(UnitsV1[node.unit])
                           ELSE Refused({"FORMULA_UNIT_MISMATCH"})
      [] node.k = "sel" -> IF node.sym \in DOMAIN symbols THEN Typed(symbols[node.sym])
                           ELSE Refused({"FORMULA_UNKNOWN_VARIABLE"})
      [] node.k = "un" ->
           LET a == Infer(node.args[1], symbols) IN
           IF a.issues # {} THEN a
           ELSE IF (node.op = "!") # (a.type.type = "Boolean") THEN Refused({"FORMULA_TYPE_MISMATCH"})
           ELSE a
      [] node.k = "bin" ->
           LET l == Infer(node.args[1], symbols)  r == Infer(node.args[2], symbols) IN
           IF l.issues \cup r.issues # {} THEN Refused(l.issues \cup r.issues)
           ELSE InferBinary(node.op, l.type, r.type)
      [] node.k = "call" ->
           LET args == [i \in DOMAIN node.args |-> Infer(node.args[i], symbols)]
               same(i, j) == args[i].type = args[j].type
           IN IF node.fn \notin Functions1 THEN Refused({"FORMULA_UNKNOWN_FUNCTION"})
              ELSE IF ~Arity(node.fn, Len(node.args)) THEN Refused({"FORMULA_TYPE_MISMATCH"})
              ELSE IF node.fn = "if"
              THEN IF (\A i \in 1..3 : args[i].issues = {}) /\ args[1].type = Boolean /\ same(2, 3)
                   THEN args[2] ELSE Refused({"FORMULA_TYPE_MISMATCH"})
              ELSE [type |-> args[1].type,
                    issues |-> UNION {args[i].issues : i \in DOMAIN args}
                               \cup (IF \E i \in DOMAIN args : ~same(1, i) THEN {"FORMULA_TYPE_MISMATCH"} ELSE {})]
      [] OTHER -> Refused({"FORMULA_SYNTAX_INVALID"})

\* InferOutput: the binding's attribute decides which type is wanted.
InferOutput(node, expected, symbols) ==
    LET t == Infer(node, symbols) IN
    IF t.issues # {} THEN t.issues
    ELSE IF t.type # expected THEN {"FORMULA_TYPE_MISMATCH"} ELSE {}

-------------------------------------------------------------------------------
(* Evaluation.  "nil" is the dereference of a value that is not there.      *)

Abs2(n) == IF n < 0 THEN -n ELSE n

\* Rounding of n/d to the nearest integer, half to even.
HalfEven(n, d) ==
    LET q == n \div d  r == n % d IN
    IF 2 * r < d \/ (2 * r = d /\ q % 2 = 0) THEN q ELSE q + 1

Value(n) == [k |-> "dec", n |-> n]
Truth(b) == [k |-> "bool", b |-> b]
Issue(c) == [k |-> "issue", code |-> c]
Finite(n) == IF Abs2(n) > MaxNumber THEN Issue("NUMERIC_OUT_OF_RANGE") ELSE Value(n)

\* The decimal operations: exact, then rounded to the last digit, or an error.
Arithmetic(op, a, b) ==
    CASE op = "+" -> Finite(a + b)
      [] op = "-" -> Finite(a - b)
      [] op = "*" -> Finite(HalfEven(a * b, 2))
      [] op = "/" -> IF b = 0 THEN Issue("FORMULA_DIVISION_BY_ZERO")
                     ELSE Finite(HalfEven(IF b < 0 THEN -2 * a ELSE 2 * a, Abs2(b)))

Comparison(op, a, b) == CASE op = "<" -> a < b [] op = "==" -> a = b

ApplyFunction(f, v) ==
    CASE f = "min" -> Value(CHOOSE x \in ToSet(v) : \A y \in ToSet(v) : x <= y)
      [] f = "clamp" -> LET low == IF v[1] < v[2] THEN v[2] ELSE v[1]
                        IN Value(IF low > v[3] THEN v[3] ELSE low)
      [] f = "abs" -> Value(Abs2(v[1]))

\* What evaluate does with the values of its operands.
EvalUnary(op, a) ==
    CASE a.k = "issue" -> a
      [] a.k = "bool" -> IF op = "!" THEN Truth(~a.b) ELSE Issue("nil")
      [] a.k = "dec" -> IF op = "-" THEN Arithmetic("-", 0, a.n) ELSE Issue("nil")

EvalBinary(op, l, r) ==
    IF l.k = "issue" THEN l
    ELSE IF r.k = "issue" THEN r
    ELSE IF "bool" \in {l.k, r.k} THEN Issue("FORMULA_TYPE_MISMATCH")
    ELSE IF op \in {"<", "=="} THEN Truth(Comparison(op, l.n, r.n))
    ELSE Arithmetic(op, l.n, r.n)

EvalCall(f, v) ==
    LET bad == {i \in DOMAIN v : v[i].k # "dec"}
        first == v[CHOOSE i \in bad : \A j \in bad : i <= j]
    IN IF bad = {} THEN ApplyFunction(f, [i \in DOMAIN v |-> v[i].n])
       ELSE IF first.k = "issue" THEN first ELSE Issue("FORMULA_TYPE_MISMATCH")

\* evaluate; && and || look at the right side only when the left does not decide,
\* if evaluates only the branch it takes.
RECURSIVE Eval(_, _)
Eval(node, values) ==
    LET arg(i) == Eval(node.args[i], values) IN
    CASE node.k \in {"dec", "qty"} -> Value(node.n)
      [] node.k = "bool" -> Truth(node.b)
      [] node.k = "sel" -> IF node.sym \in DOMAIN values THEN values[node.sym]
                           ELSE Issue("FORMULA_UNKNOWN_VARIABLE")
      [] node.k = "un" -> EvalUnary(node.op, arg(1))
      [] node.k = "bin" ->
           IF node.op \notin {"&&", "||"} THEN EvalBinary(node.op, arg(1), arg(2))
           ELSE IF arg(1).k = "bool"
           THEN IF arg(1).b = (node.op = "||") THEN arg(1) ELSE arg(2)
           ELSE IF arg(1).k = "dec" THEN Issue("nil") ELSE arg(1)
      [] node.k = "call" ->
           IF node.fn # "if" THEN EvalCall(node.fn, [i \in DOMAIN node.args |-> arg(i)])
           ELSE IF arg(1).k = "bool" THEN arg(IF arg(1).b THEN 2 ELSE 3)
           ELSE IF arg(1).k = "dec" THEN Issue("nil") ELSE arg(1)

RECURSIVE Selectors(_)
Selectors(node) ==
    IF node.k = "sel" THEN {node.sym}
    ELSE IF "args" \in DOMAIN node
    THEN UNION {Selectors(node.args[i]) : i \in DOMAIN node.args} ELSE {}

\* EvaluateWithSymbols: nothing is evaluated that does not infer.
Evaluate(node, types, values) ==
    IF Infer(node, types).issues # {} THEN Issue("infer") ELSE Eval(node, values)

\* FormulaHandler.validate of an expression that parsed: a formula that reads no
\* selector is also evaluated.
ValidateFormula(node, output, types) ==
    LET wanted == IF output = NoType THEN Infer(node, types).issues
                  ELSE InferOutput(node, output, types)
        value == Evaluate(node, types, <<>>)
    IN IF wanted = {} /\ Selectors(node) = {} /\ value.k = "issue" THEN {value.code} ELSE wanted

-------------------------------------------------------------------------------
(***************************************************************************)
(* The reference: the tokens of an expression by the grammar of            *)
(* dsl-v1.ebnf, with parentheses where a child belongs to a lower rule.    *)
(***************************************************************************)
Rule(op) == CASE op = "||" -> "Or" [] op = "&&" -> "And"
              [] op \in {"<", "<=", ">", ">=", "==", "!="} -> "Compare" [] op \in {"+", "-"} -> "Sum"
              [] op \in {"*", "/"} -> "Product"
RuleOrder == <<"Or", "And", "Compare", "Sum", "Product", "Unary">>
Order(rule) == CHOOSE i \in 1..6 : RuleOrder[i] = rule

\* The characters of the text that the tokens make.
Characters(tokens) ==
    LET two == [s \in {"||", "&&", "<=", ">=", "==", "!="} |->
                  CASE s = "||" -> <<"|", "|">> [] s = "&&" -> <<"&", "&">> [] s = "<=" -> <<"<", "=">>
                    [] s = ">=" -> <<">", "=">> [] s = "==" -> <<"=", "=">> [] s = "!=" -> <<"!", "=">>]
    IN FlattenSeq([i \in DOMAIN tokens |->
                     IF tokens[i] \in DOMAIN two THEN two[tokens[i]] ELSE <<tokens[i]>>])

RECURSIVE Tokens(_, _)
Tokens(node, least) ==
    LET level == IF node.k = "bin" THEN Order(Rule(node.op)) ELSE 6
        own == CASE node.k = "dec" -> <<"1">>
                 [] node.k = "bool" -> <<"true">>
                 [] node.k = "sel" -> <<"sel">>
                 [] node.k = "qty" -> <<"1", "[", node.unit, "]">>
                 [] node.k = "un" -> <<node.op>> \o Tokens(node.args[1], 6)
                 [] node.k = "bin" ->
                      Tokens(node.args[1], level + (IF Rule(node.op) = "Compare" THEN 1 ELSE 0))
                      \o <<node.op>> \o Tokens(node.args[2], level + 1)
                 [] node.k = "call" ->
                      <<node.fn, "(">>
                      \o FlattenSeq([i \in DOMAIN node.args |->
                           (IF i > 1 THEN <<",">> ELSE <<>>) \o Tokens(node.args[i], 1)])
                      \o <<")">>
    IN IF level < least THEN <<"(">> \o own \o <<")">> ELSE own
=============================================================================
