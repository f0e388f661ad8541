----------------------------- MODULE FeltGrammar ----------------------------
(***************************************************************************)
(* The grammar of Felt: the rules of the recursive descent parser          *)
(* (parser.rs), and a printer that writes an expression with no more       *)
(* parentheses than the precedence table of FELT.md asks for.              *)
(*                                                                         *)
(* A rule says what one function of the parser does with what the others   *)
(* give: those are the constants, and the parser is their solution         *)
(* (ParseAtom(ts, i) = AtomRule(ts, i), and so on), which Felt defines.    *)
(***************************************************************************)
EXTENDS FeltTree

CONSTANTS
  ParseLevel(_, _, _), ParseRest(_, _, _), ParseUnary(_, _), ParseArguments(_, _),
  ParseAtom(_, _), ParseParams(_, _), ParseArms(_, _), ParseWhere(_, _), ParseProgram(_, _, _)

-----------------------------------------------------------------------------
(* Tokens *)

Tok(t) == [t |-> t, v |-> 0, x |-> NoName]
Num(v) == [t |-> "num", v |-> v, x |-> NoName]
Id(x) == [t |-> "id", v |-> 0, x |-> x]

Peek(ts, i) == IF i \in DOMAIN ts THEN ts[i].t ELSE "end"

(* The parser's answer: the expression and the position after it, 0 when   *)
(* there is an error.                                                      *)
Parsed(e, i) == [e |-> e, i |-> i]
Error == Parsed(Ident(NoName), 0)
Failed(r) == r.i = 0

Expect(r, ts, t) == IF ~Failed(r) /\ Peek(ts, r.i) = t THEN Parsed(r.e, r.i + 1) ELSE Error
ExpectIdent(ts, i) == IF Peek(ts, i) = "id" THEN Parsed(Ident(ts[i].x), i + 1) ELSE Error

-----------------------------------------------------------------------------
(* The levels of binary operators: |> or and == ++ + *                     *)

OpsOf == << {"|>"}, {"or"}, {"and"}, Comparisons, {"++"}, {"+", "-"}, {"*", "/", "%"} >>
Unary == 8

Sections == {"==", "<", "<=", "+", "-", "*", "/", "%", "++"}
AtomStart == {"num", "id", "true", "false", "None", "Some", "(", "lambda"}

ParseExpr(ts, i) == ParseLevel(ts, i, 1)

LevelRule(ts, i, n) ==
  IF n = Unary THEN ParseUnary(ts, i)
  ELSE LET l == ParseLevel(ts, i, n + 1) IN IF Failed(l) THEN Error ELSE ParseRest(ts, l, n)

Combine(op, l, r) == IF op = "|>" THEN Apply(r, l) ELSE Node(op, 0, NoName, <<l, r>>)

(* A slip: every level associates to the right.                            *)
RestRightRule(ts, l, n) ==
  LET r == ParseLevel(ts, l.i + 1, n)
  IN IF Peek(ts, l.i) \notin OpsOf[n] THEN l
     ELSE IF Failed(r) THEN Error ELSE Parsed(Combine(Peek(ts, l.i), l.e, r.e), r.i)

(* Comparisons do not chain, ++ associates to the right, the others to the *)
(* left.                                                                   *)
RestRule(ts, l, n) ==
  LET r == ParseLevel(ts, l.i + 1, IF n = 5 THEN n ELSE n + 1)
      e == Parsed(Combine(Peek(ts, l.i), l.e, r.e), r.i)
  IN IF Peek(ts, l.i) \notin OpsOf[n] THEN l
     ELSE IF Failed(r) THEN Error
     ELSE IF n \in {4, 5} THEN e ELSE ParseRest(ts, e, n)

UnaryRule(ts, i) ==
  LET r == ParseUnary(ts, i + 1)
      k == IF Peek(ts, i) = "-" THEN "neg" ELSE "not"
  IN IF Peek(ts, i) \notin {"not", "-"} THEN ParseArguments(ts, ParseAtom(ts, i))
     ELSE IF Failed(r) THEN Error ELSE Parsed(Node(k, 0, NoName, <<r.e>>), r.i)

ArgumentsRule(ts, f) ==
  LET a == ParseAtom(ts, f.i)
  IN IF Failed(f) \/ Peek(ts, f.i) \notin AtomStart THEN f
     ELSE IF Failed(a) THEN Error ELSE ParseArguments(ts, Parsed(Apply(f.e, a.e), a.i))

(* ( expression ), or an operator and its right operand: a section.        *)
ParseSection(ts, i) ==
  LET r == Expect(ParseExpr(ts, i + 1), ts, ")")
  IN IF Failed(r) THEN Error
     ELSE Parsed(Lambda("__x", Node(Peek(ts, i), 0, NoName, <<Ident("__x"), r.e>>)), r.i)

ParseParen(ts, i) ==
  IF Peek(ts, i) \in Sections THEN ParseSection(ts, i) ELSE Expect(ParseExpr(ts, i), ts, ")")

ParamsRule(ts, i) ==
  LET r == ParseParams(ts, i + 1)
  IN CASE Peek(ts, i) = "id" -> IF Failed(r) THEN Error ELSE Parsed(Lambda(ts[i].x, r.e), r.i)
       [] Peek(ts, i) = "->" -> ParseExpr(ts, i + 1)
       [] OTHER -> Error

ParseLambda(ts, i) == IF Peek(ts, i) = "id" THEN ParseParams(ts, i) ELSE Error

(* After "name = value", one more binding is looked for only where an      *)
(* identifier follows; there the value has taken it as an argument.        *)
ParseLet(ts, i) ==
  LET eq == Expect(ExpectIdent(ts, i), ts, "=")
      b == Expect(ParseExpr(ts, eq.i), ts, "in")
      r == ParseExpr(ts, b.i)
  IN IF Failed(eq) \/ Failed(b) \/ Failed(r) THEN Error
     ELSE Parsed(Node("let", 0, ts[i].x, <<b.e, r.e>>), r.i)

ParseIf(ts, i) ==
  LET c == Expect(ParseExpr(ts, i), ts, "then")
      t == Expect(ParseExpr(ts, c.i), ts, "else")
      e == ParseExpr(ts, t.i)
  IN IF Failed(c) \/ Failed(t) \/ Failed(e) THEN Error
     ELSE Parsed(Node("if", 0, NoName, <<c.e, t.e, e.e>>), e.i)

ParsePattern(ts, i) ==
  CASE Peek(ts, i) = "_" -> Parsed(Node("_", 0, NoName, <<>>), i + 1)
    [] Peek(ts, i) = "num" -> Parsed(Node("intpat", ts[i].v, NoName, <<>>), i + 1)
    [] Peek(ts, i) = "true" -> Parsed(Node("boolpat", 1, NoName, <<>>), i + 1)
    [] Peek(ts, i) = "false" -> Parsed(Node("boolpat", 0, NoName, <<>>), i + 1)
    [] Peek(ts, i) = "None" -> Parsed(Node("nonepat", 0, NoName, <<>>), i + 1)
    [] Peek(ts, i) = "Some" /\ Peek(ts, i + 1) = "id" ->
         Parsed(Node("somepat", 0, ts[i + 1].x, <<>>), i + 2)
    [] Peek(ts, i) = "id" -> Parsed(Node("varpat", 0, ts[i].x, <<>>), i + 1)
    [] OTHER -> Error

(* The arms of a match, as the parts of a node; as many as there are bars. *)
ArmsRule(ts, m) ==
  LET p == Expect(ParsePattern(ts, m.i + 1), ts, "->")
      b == ParseExpr(ts, p.i)
      arm == [p.e EXCEPT !.es = <<b.e>>]
  IN IF Peek(ts, m.i) # "|" THEN m
     ELSE IF Failed(p) \/ Failed(b) THEN Error
     ELSE ParseArms(ts, Parsed([m.e EXCEPT !.es = Append(@, arm)], b.i))

ParseMatch(ts, i) ==
  LET s == Expect(ParseExpr(ts, i), ts, "with")
      m == ParseArms(ts, Parsed(Node("match", 0, NoName, <<s.e>>), s.i))
  IN IF Failed(s) \/ Failed(m) \/ Len(m.e.es) = 1 THEN Error ELSE m

ParseSome(ts, i) ==
  LET r == ParseAtom(ts, i)
  IN IF Failed(r) THEN Error ELSE Parsed(Node("some", 0, NoName, <<r.e>>), r.i)

AtomRule(ts, i) ==
  CASE Peek(ts, i) = "num" -> Parsed(Node("int", ts[i].v, NoName, <<>>), i + 1)
    [] Peek(ts, i) = "true" -> Parsed(Node("bool", 1, NoName, <<>>), i + 1)
    [] Peek(ts, i) = "false" -> Parsed(Node("bool", 0, NoName, <<>>), i + 1)
    [] Peek(ts, i) = "None" -> Parsed(Node("none", 0, NoName, <<>>), i + 1)
    [] Peek(ts, i) = "Some" -> ParseSome(ts, i + 1)
    [] Peek(ts, i) = "id" -> ExpectIdent(ts, i)
    [] Peek(ts, i) = "(" -> ParseParen(ts, i + 1)
    [] Peek(ts, i) = "lambda" -> ParseLambda(ts, i + 1)
    [] Peek(ts, i) = "let" -> ParseLet(ts, i + 1)
    [] Peek(ts, i) = "if" -> ParseIf(ts, i + 1)
    [] Peek(ts, i) = "match" -> ParseMatch(ts, i + 1)
    [] OTHER -> Error

(* The parameters of a where clause and its value: a function of them.     *)
WhereRule(ts, i) ==
  LET p == ExpectIdent(ts, i)
      r == ParseWhere(ts, p.i)
  IN IF Peek(ts, i) = "=" THEN ParseExpr(ts, i + 1)
     ELSE IF Failed(p) \/ Failed(r) THEN Error ELSE Parsed(Lambda(p.e.x, r.e), r.i)

ParseWhereClause(ts, i, body) ==
  LET n == ExpectIdent(ts, i)
      r == ParseWhere(ts, n.i)
  IN IF Failed(n) \/ Failed(r) THEN Error
     ELSE Parsed(Node("let", 0, n.e.x, <<r.e, body>>), r.i)

ParseBody(ts, i) ==
  LET body == ParseExpr(ts, i)
  IN IF Failed(body) THEN Error
     ELSE IF Peek(ts, body.i) # "where" THEN body
     ELSE ParseWhereClause(ts, body.i + 1, body.e)

(* "fn name = body", the signature left out, and a where clause.           *)
ParseFnDef(ts, i) ==
  LET eq == Expect(ExpectIdent(ts, i), ts, "=")
  IN IF Failed(eq) THEN Error ELSE ParseBody(ts, eq.i)

(* The functions of a file, one after the other.                           *)
ProgramRule(ts, i, bodies) ==
  LET f == ParseFnDef(ts, i + 1)
  IN IF i = Len(ts) + 1 THEN bodies
     ELSE IF Peek(ts, i) # "fn" \/ Failed(f) THEN <<>>
     ELSE ParseProgram(ts, f.i, Append(bodies, f.e))

-----------------------------------------------------------------------------
(* The printer.  An expression is written together with its texts, made    *)
(* from those of its parts: text, without parentheses around it; right,    *)
(* its right operand, for a section; clause, what follows the name when a  *)
(* where clause binds it; where, with its binding in a where clause.       *)

IsSection(e) ==
  /\ e.k = "lambda" /\ e.x = "__x" /\ e.es[1].k \in Sections
  /\ e.es[1].es[1] = Ident("__x")

LevelOf(e) ==
  CASE IsSection(e) -> 10
    [] e.k \in BinOps -> CHOOSE n \in DOMAIN OpsOf : e.k \in OpsOf[n]
    [] e.k \in {"neg", "not"} -> Unary
    [] e.k = "apply" -> 9
    [] e.k \in {"let", "if", "match"} \/ (e.k = "lambda" /\ ~IsSection(e)) -> 0
    [] OTHER -> 10

Parenthesised(text) == <<Tok("(")>> \o text \o <<Tok(")")>>

(* The tokens of w where an expression of level n or more may stand.       *)
At(w, n) == IF LevelOf(w.e) < n THEN Parenthesised(w.text) ELSE w.text

PatternText(a) ==
  CASE a.k = "_" -> <<Tok("_")>>
    [] a.k = "intpat" -> <<Num(a.v)>>
    [] a.k = "boolpat" -> <<Tok(IF a.v = 1 THEN "true" ELSE "false")>>
    [] a.k = "nonepat" -> <<Tok("None")>>
    [] a.k = "somepat" -> <<Tok("Some"), Id(a.x)>>
    [] OTHER -> <<Id(a.x)>>

ArmsText(arms) == FlattenSeq([i \in DOMAIN arms |-> arms[i].text])

Text(e, parts) ==
  LET l == LevelOf(e)
      P(i, m) == At(parts[i], m)
  IN CASE e.k \in Comparisons -> P(1, 5) \o <<Tok(e.k)>> \o P(2, 5)
       [] e.k = "++" -> P(1, 6) \o <<Tok(e.k)>> \o P(2, 5)
       [] e.k \in BinOps \ (Comparisons \union {"++"}) -> P(1, l) \o <<Tok(e.k)>> \o P(2, l + 1)
       [] e.k = "neg" -> <<Tok("-")>> \o P(1, Unary)
       [] e.k = "not" -> <<Tok("not")>> \o P(1, Unary)
       [] e.k = "apply" -> P(1, 9) \o P(2, 10)
       [] e.k = "some" -> <<Tok("Some")>> \o P(1, 10)
       [] e.k = "int" -> <<Num(e.v)>>
       [] e.k = "bool" -> <<Tok(IF e.v = 1 THEN "true" ELSE "false")>>
       [] e.k = "none" -> <<Tok("None")>>
       [] e.k = "ident" -> <<Id(e.x)>>
       [] IsSection(e) -> <<Tok("("), Tok(e.es[1].k)>> \o parts[1].right \o <<Tok(")")>>
       [] e.k = "lambda" /\ ~IsSection(e) -> <<Tok("lambda"), Id(e.x), Tok("->")>> \o P(1, 0)
       [] e.k = "let" -> <<Tok("let"), Id(e.x), Tok("=")>> \o P(1, 1)
                           \o <<Tok("in")>> \o P(2, 0)
       [] e.k = "if" -> <<Tok("if")>> \o P(1, 0) \o <<Tok("then")>> \o P(2, 0)
                          \o <<Tok("else")>> \o P(3, 0)
       [] e.k = "match" -> <<Tok("match")>> \o P(1, 1) \o <<Tok("with")>> \o ArmsText(Tail(parts))
       [] OTHER -> <<Tok("|")>> \o PatternText(e) \o <<Tok("->")>> \o P(1, 1)

Written(e, parts) ==
  LET text == Text(e, parts)
  IN [e |-> e,
      text |-> text,
      right |-> IF e.k \in BinOps THEN At(parts[2], 1) ELSE <<>>,
      clause |-> IF e.k = "lambda" /\ ~IsSection(e) THEN <<Id(e.x)>> \o parts[1].clause
                 ELSE <<Tok("=")>> \o text,
      where |-> IF e.k = "let"
                  THEN At(parts[2], 0) \o <<Tok("where"), Id(e.x)>> \o parts[1].clause
                  ELSE text]

(* The text of a function; a binding of the whole body may stand last.     *)
FunctionText(name, w, style) ==
  <<Tok("fn"), Id(name), Tok("=")>> \o IF style = "where" THEN w.where ELSE w.text

(* A minus sign after a parenthesis begins a section, so an operand that   *)
(* starts with one cannot be put in parentheses.                           *)
Printable(ts) == ~\E i \in 1..(Len(ts) - 1) : ts[i].t = "(" /\ ts[i + 1].t = "-"
=============================================================================
