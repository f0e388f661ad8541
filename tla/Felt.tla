-------------------------------- MODULE Felt --------------------------------
(***************************************************************************)
(* FeltPipeline with the parser, the compiler and WebAssembly in place,    *)
(* beside what FELT.md says a program means.                               *)
(*                                                                         *)
(* WebAssembly (what a valid module is, what its code does) and the host's *)
(* functions are external.  Numbers are not wrapped: they stay small.      *)
(***************************************************************************)
EXTENDS FeltPipeline, FeltCompiler

-----------------------------------------------------------------------------
(* WebAssembly: validation.  Types of the operand stack, FALSE in ok when  *)
(* an instruction does not fit; any operand is there after an unreachable. *)

Valid(st, any) == [ok |-> TRUE, any |-> any, st |-> st]
Invalid == [ok |-> FALSE, any |-> FALSE, st |-> <<>>]

RECURSIVE Pop(_, _), Check(_, _, _)

Pop(s, types) ==
  IF ~s.ok \/ types = <<>> THEN s
  ELSE IF s.st = <<>> THEN IF s.any THEN s ELSE Invalid
  ELSE IF Last(s.st) = Last(types) THEN Pop(Valid(Front(s.st), s.any), Front(types))
  ELSE Invalid

Push(s, types) == IF s.ok THEN Valid(s.st \o types, s.any) ELSE s

Operands(mod, f, ins) ==
  CASE ins.i \in {"const", "local.get", "unreachable"} -> <<>>
    [] ins.i = "local.set" -> <<mod[f].locals[ins.n]>>
    [] ins.i = "call" -> IF ins.x \in DOMAIN mod
                           THEN SubSeq(mod[ins.x].locals, 1, mod[ins.x].arity)
                           ELSE Imports[ins.x].params
    [] ins.i \in {"i64.eqz", "i32.wrap_i64"} -> <<"i64">>
    [] ins.i \in {"i32.eqz", "if"} -> <<"i32">>
    [] ins.i \in {"i32.and", "i32.or", "i32.add", "i32.eq"} -> <<"i32", "i32">>
    [] OTHER -> <<"i64", "i64">>

Results(mod, f, ins) ==
  CASE ins.i \in {"const", "if"} -> <<ins.t>>
    [] ins.i = "local.get" -> <<mod[f].locals[ins.n]>>
    [] ins.i = "call" -> <<IF ins.x \in DOMAIN mod THEN mod[ins.x].result
                           ELSE Imports[ins.x].result>>
    [] ins.i \in {"local.set", "unreachable"} -> <<>>
    [] ins.i \in {"i64.add", "i64.sub", "i64.mul", "i64.div_s", "i64.rem_s"} -> <<"i64">>
    [] OTHER -> <<"i32">>

Returns(mod, f, code, t) ==
  LET s == Pop(Check(mod, f, code), <<t>>) IN s.ok /\ s.st = <<>>

Check(mod, f, code) ==
  FoldLeft(LAMBDA s, ins :
    IF ins.i = "drop" THEN IF s.st # <<>> THEN Valid(Front(s.st), s.any)
                           ELSE IF s.any THEN s ELSE Invalid
    ELSE IF ins.i = "if" /\ ~(Returns(mod, f, ins.a, ins.t) /\ Returns(mod, f, ins.b, ins.t))
      THEN Invalid
    ELSE LET p == Push(Pop(s, Operands(mod, f, ins)), Results(mod, f, ins))
         IN IF ins.i = "unreachable" /\ p.ok THEN Valid(<<>>, TRUE) ELSE p,
    Valid(<<>>, FALSE), code)

ValidModule(mod) == \A f \in DOMAIN mod : Returns(mod, f, mod[f].code, mod[f].result)

-----------------------------------------------------------------------------
(* WebAssembly: execution, up to a trap; and the host's functions *)

Truth(p) == IF p THEN 1 ELSE 0
Abs(n) == IF n < 0 THEN -n ELSE n
Quotient(a, b) == (IF (a < 0) # (b < 0) THEN -1 ELSE 1) * (Abs(a) \div Abs(b))

Host(f, args) ==
  CASE f = "rank" -> args[1] + 1
    [] f = "is_finished" -> args[1] % 2
    [] f = "turn" -> args[1]
    [] OTHER -> Truth(args[2] < args[3])

Trapped(m) == [m EXCEPT !.trap = TRUE]

RECURSIVE Execute(_, _, _), Invoke(_, _, _)

Invoke(mod, f, args) ==
  LET ls == args \o [i \in 1..(Len(mod[f].locals) - Len(args)) |-> 0]
  IN Execute(mod, mod[f].code, [st |-> <<>>, ls |-> ls, trap |-> FALSE])

Operator(i, a, b) ==
  CASE i = "i64.add" -> a + b [] i = "i64.sub" -> a - b [] i = "i64.mul" -> a * b
    [] i = "i64.div_s" -> Quotient(a, b) [] i = "i64.rem_s" -> a - b * Quotient(a, b)
    [] i \in {"i64.eq", "i32.eq"} -> Truth(a = b) [] i = "i64.ne" -> Truth(a # b)
    [] i = "i64.lt_s" -> Truth(a < b) [] i = "i64.le_s" -> Truth(a <= b)
    [] i = "i32.and" -> Truth(a = 1 /\ b = 1) [] i = "i32.or" -> Truth(a = 1 \/ b = 1)

Step(mod, m, ins) ==
  LET top == Last(m.st)
      Give(k, n) == [m EXCEPT !.st = Append(SubSeq(@, 1, Len(@) - k), n)]
      arity == IF ins.x \in DOMAIN mod THEN mod[ins.x].arity ELSE Len(Imports[ins.x].params)
      args == SubSeq(m.st, Len(m.st) - arity + 1, Len(m.st))
  IN CASE ins.i = "const" -> Give(0, ins.n)
       [] ins.i = "local.get" -> Give(0, m.ls[ins.n])
       [] ins.i = "local.set" -> [m EXCEPT !.st = Front(@), !.ls[ins.n] = top]
       [] ins.i = "drop" -> [m EXCEPT !.st = Front(@)]
       [] ins.i = "unreachable" -> Trapped(m)
       [] ins.i = "i32.wrap_i64" -> m
       [] ins.i \in {"i64.eqz", "i32.eqz"} -> Give(1, Truth(top = 0))
       [] ins.i = "if" -> Execute(mod, IF top # 0 THEN ins.a ELSE ins.b, [m EXCEPT !.st = Front(@)])
       [] ins.i = "call" /\ ins.x \notin DOMAIN mod -> Give(arity, Host(ins.x, args))
       [] ins.i = "call" /\ ins.x \in DOMAIN mod ->
            LET r == Invoke(mod, ins.x, args)
            IN IF r.trap THEN Trapped(m) ELSE Give(arity, Last(r.st))
       [] ins.i \in {"i64.div_s", "i64.rem_s"} /\ top = 0 -> Trapped(m)
       [] OTHER -> Give(2, Operator(ins.i, m.st[Len(m.st) - 1], top))

Execute(mod, code, m) ==
  FoldLeft(LAMBDA s, ins : IF s.trap THEN s ELSE Step(mod, s, ins), m, code)

Outcome(mod, f, args) ==
  IF ~ValidModule(mod) THEN [result |-> "invalid", n |-> 0]
  ELSE LET m == Invoke(mod, f, args)
       IN IF m.trap THEN [result |-> "trap", n |-> 0] ELSE [result |-> "value", n |-> Last(m.st)]

-----------------------------------------------------------------------------
(* The parser: what its rules say of each other, and no more.  (The LET    *)
(* only keeps TLC, where it counts how often an expression is evaluated,   *)
(* from listing the expressions of the rules without end.)                 *)

RECURSIVE FeltLevel(_, _, _), FeltRest(_, _, _), FeltUnary(_, _), FeltArguments(_, _),
          FeltAtom(_, _), FeltParams(_, _), FeltArms(_, _), FeltWhere(_, _),
          FeltProgram(_, _, _), FeltCalls(_, _)

FeltLevel(ts, i, n) == LET r == LevelRule(ts, i, n) IN r
FeltRest(ts, l, n) == LET r == RestRule(ts, l, n) IN r
FeltUnary(ts, i) == LET r == UnaryRule(ts, i) IN r
FeltArguments(ts, f) == LET r == ArgumentsRule(ts, f) IN r
FeltAtom(ts, i) == LET r == AtomRule(ts, i) IN r
FeltParams(ts, i) == LET r == ParamsRule(ts, i) IN r
FeltArms(ts, m) == LET r == ArmsRule(ts, m) IN r
FeltWhere(ts, i) == LET r == WhereRule(ts, i) IN r
FeltProgram(ts, i, parsed) == LET r == ProgramRule(ts, i, parsed) IN r
FeltCalls(e, names) == LET r == CallsRule(e, names) IN r

-----------------------------------------------------------------------------
(* What an expression means (FELT.md).  A value is a number, a truth value *)
(* or an option of one, or it is undefined.  Undefined are also two things *)
(* that the compiled code does otherwise: a division by zero, which FELT.md *)
(* says is zero, and an option of something that the machine holds as zero. *)

Value(k, n) == [k |-> k, n |-> n]
Undefined == Value("undefined", 0)
Boolean(p) == Value("Bool", Truth(p))

RECURSIVE Eval(_, _)

Matches(arm, v) ==
  CASE arm.k \in {"_", "varpat"} -> TRUE
    [] arm.k = "intpat" -> v = Value("Int", arm.v)
    [] arm.k = "boolpat" -> v = Value("Bool", arm.v)
    [] arm.k = "nonepat" -> v.k = "None"
    [] OTHER -> v.k = "Some"

BindValue(arm, v, env) ==
  CASE arm.k = "varpat" -> Extend(env, arm.x, v)
    [] arm.k = "somepat" -> Extend(env, arm.x, Value("Int", v.n))
    [] OTHER -> env

Arithmetic(op, a, b) ==
  CASE op = "+" -> Value("Int", a + b) [] op = "-" -> Value("Int", a - b)
    [] op = "*" -> Value("Int", a * b) [] op = "==" -> Boolean(a = b)
    [] op = "<" -> Boolean(a < b) [] op = "<=" -> Boolean(a <= b)
    [] op = "and" -> Boolean(a = 1 /\ b = 1) [] op = "or" -> Boolean(a = 1 \/ b = 1)
    [] b = 0 -> Undefined
    [] op = "/" /\ b # 0 -> Value("Int", Quotient(a, b))
    [] OTHER -> Value("Int", a - b * Quotient(a, b))

EvalCall(x, args) ==
  IF \E i \in DOMAIN args : args[i] = Undefined THEN Undefined
  ELSE IF x \in NamesOf(program)
    THEN LET f == program[CHOOSE i \in DOMAIN program : program[i].name = x]
         IN Eval(f.body, [y \in {p[1] : p \in ToSet(f.params)} |->
                            args[CHOOSE i \in DOMAIN f.params : f.params[i][1] = y]])
    ELSE LET n == Host(x, [i \in DOMAIN args |-> args[i].n])
         IN IF Imports[x].result = "i32" THEN Value("Bool", n) ELSE Value("Int", n)

Eval(e, env) ==
  LET V(i) == Eval(e.es[i], env)
      strict == IF e.k \in BinOps \union {"neg", "not", "some"} THEN DOMAIN e.es
                ELSE IF e.k \in {"if", "match", "let"} THEN {1} ELSE {}
      arms == {i \in 2..Len(e.es) : Matches(e.es[i], V(1))}
      arm == e.es[CHOOSE i \in arms : \A j \in arms : i <= j]
  IN IF \E i \in strict : V(i) = Undefined THEN Undefined
     ELSE CASE e.k = "int" -> Value("Int", e.v)
            [] e.k = "bool" -> Value("Bool", e.v)
            [] e.k = "none" -> Value("None", 0)
            [] e.k = "some" -> IF V(1).n = 0 THEN Undefined ELSE Value("Some", V(1).n)
            [] e.k = "ident" -> env[e.x]
            [] e.k = "neg" -> Value("Int", -V(1).n)
            [] e.k = "not" -> Boolean(V(1).n = 0)
            [] e.k = "if" -> IF V(1).n = 1 THEN V(2) ELSE V(3)
            [] e.k = "let" -> Eval(e.es[2], Extend(env, e.x, V(1)))
            [] e.k = "match" -> IF arms = {} THEN Undefined
                                ELSE Eval(arm.es[1], BindValue(arm, V(1), env))
            [] e.k = "apply" ->
                 LET chain == FlattenApply(e)
                 IN EvalCall(chain[1].x, [i \in 1..(Len(chain) - 1) |-> Eval(chain[i + 1], env)])
            [] OTHER -> Arithmetic(e.k, V(1).n, V(2).n)

-----------------------------------------------------------------------------
(* The programs whose code should mean what FELT.md says *)

RECURSIVE Bound(_), Regular(_, _, _)

Bound(e) == (IF e.k \in {"let", "somepat", "varpat"} THEN <<e.x>> ELSE <<>>)
              \o FlattenSeq([i \in DOMAIN e.es |-> Bound(e.es[i])])

BoundOnce(f) ==
  LET names == [i \in DOMAIN f.params |-> f.params[i][1]] \o Bound(f.body)
  IN Cardinality(ToSet(names)) = Len(names)

PatternFits(arm, t) ==
  CASE arm.k = "intpat" -> t = Int_
    [] arm.k = "boolpat" -> t = Bool_
    [] arm.k \in {"nonepat", "somepat"} -> t.k = "Option"
    [] OTHER -> TRUE

(* Arguments and arms have the types FELT.md asks for (the checker does    *)
(* not look), functions are applied to all their arguments, numbers only   *)
(* are compared, an option is of a number, Some is not the last pattern,   *)
(* and where the code generator guesses the type of an expression once     *)
(* more, it is right.                                                      *)
Regular(e, env, ls) ==
  LET names == NamesOf(program)
      T(i) == Infer(e.es[i], env)
      ArmEnv(i) == BindPattern(e.es[i], T(1), env)
      ArmType(i) == Infer(e.es[i].es[1], ArmEnv(i))
      Guessed(p, t) == InferValtype(names, p, ls) = Valtype(t)
      R(i) == Regular(e.es[i], env, ls)
      chain == FlattenApply(e)
  IN CASE e.k \in {"int", "bool", "none"} -> TRUE
       [] e.k = "ident" -> env[e.x].k # "Fn"
       [] e.k = "lambda" -> FALSE
       [] e.k = "let" -> /\ R(1) /\ Guessed(e.es[1], T(1)) /\ T(1).k # "Fn"
                         /\ Regular(e.es[2], Extend(env, e.x, T(1)), ls)
       [] e.k = "if" -> R(1) /\ R(2) /\ R(3) /\ Guessed(e.es[2], T(2)) /\ T(1) = Bool_
       [] e.k = "==" -> R(1) /\ R(2) /\ T(1) = Int_ /\ T(2) = Int_
       [] e.k = "some" -> R(1) /\ T(1) = Int_
       [] e.k = "match" ->
            /\ R(1) /\ Guessed(e.es[1], T(1)) /\ ls[LocalOf(ls, "__match")][2] = Valtype(T(1))
            /\ e.es[Len(e.es)].k # "somepat"
            /\ \A i \in 2..Len(e.es) :
                 /\ PatternFits(e.es[i], T(1)) /\ ArmType(i) = ArmType(2)
                 /\ Regular(e.es[i].es[1], ArmEnv(i), ls)
                 /\ i < Len(e.es) => Guessed(e.es[i].es[1], ArmType(i))
       [] e.k = "apply" ->
            /\ chain # <<>> /\ chain[1].x \in names \union DOMAIN Imports /\ Len(chain) <= 4
            /\ Infer(e, env).k # "Fn"
            /\ CallsImport(names, e) => Guessed(e, Infer(e, env))
            /\ \A i \in 2..Len(chain) :
                 LET t == Infer(chain[i], env)
                     f == Infer(FoldLeft(Apply, chain[1], SubSeq(chain, 2, i - 1)), env)
                 IN /\ Regular(chain[i], env, ls) /\ f.of[1] = t
                    /\ CallsImport(names, e) => Guessed(chain[i], t)
       [] OTHER -> \A i \in DOMAIN e.es : R(i)

RegularProgram ==
  \A i \in DOMAIN program :
    LET f == program[i]
        params == FoldLeft(LAMBDA ls, p : Append(ls, <<p[1], Valtype(p[2])>>), <<>>, f.params)
    IN /\ BoundOnce(f)
       /\ Regular(f.body, EnvOf(program, f), Prescan(NamesOf(program), f.body, params))

-----------------------------------------------------------------------------
(* What is called is what was written: the module of a regular program is  *)
(* valid, and a call returns the value that FELT.md gives the function,    *)
(* when it gives one (codegen.rs:763).                                     *)
MeaningKept ==
  (call.result # "none" /\ RegularProgram) =>
    LET main == program[Len(program)]
        Typed(t, n) == IF t = Bool_ THEN Value("Bool", n) ELSE Value("Int", n)
        v == EvalCall(main.name, [i \in DOMAIN call.args |-> Typed(main.params[i][2], call.args[i])])
    IN /\ call.result # "invalid"
       /\ v # Undefined => call.result = "value" /\ call.n = v.n
=============================================================================
