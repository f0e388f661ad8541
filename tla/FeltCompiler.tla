---------------------------- MODULE FeltCompiler ----------------------------
(***************************************************************************)
(* The type checker (checker.rs) and the code generator (codegen.rs) of    *)
(* Felt.                                                                   *)
(*                                                                         *)
(* Code is a sequence of instructions [i, t, n, a, b]: operation, type,    *)
(* number and, for an if, its branches.                                    *)
(***************************************************************************)
EXTENDS FeltTree

-----------------------------------------------------------------------------
(* Types *)

Bad == Basic("error")
Variables == {"a", "b", "lambda"}

RECURSIVE Compatible(_, _), Bind(_, _, _), Substitute(_, _), Infer(_, _)

(* A type variable is compatible with every type.                          *)
Compatible(s, t) ==
  \/ s.k \in Variables \/ t.k \in Variables
  \/ /\ s.k = t.k /\ Len(s.of) = Len(t.of)
     /\ \A i \in DOMAIN s.of : Compatible(s.of[i], t.of[i])

(* collect_subst: the first type that a variable of the declared type      *)
(* meets in the actual one.                                                *)
Bind(declared, actual, subst) ==
  IF declared.k \in Variables
    THEN IF declared.k \in DOMAIN subst THEN subst
         ELSE [v \in DOMAIN subst \union {declared.k} |->
                 IF v = declared.k THEN actual ELSE subst[v]]
  ELSE IF declared.k # actual.k \/ Len(declared.of) # Len(actual.of) THEN subst
  ELSE FoldLeft(LAMBDA s, i : Bind(declared.of[i], actual.of[i], s), subst,
                [i \in DOMAIN declared.of |-> i])

Substitute(t, subst) ==
  IF t.k \in DOMAIN subst THEN subst[t.k]
  ELSE [t EXCEPT !.of = [i \in DOMAIN @ |-> Substitute(@[i], subst)]]

(* refine_return: the argument is not compared with the parameter.         *)
Refine(f, actual) == Substitute(f.of[2], Bind(f.of[1], actual, <<>>))

(* Some of register_builtins: an import of each kind, two polymorphic      *)
(* functions that are not imported.                                        *)
Builtins ==
  [rank |-> Fn(Basic("Component"), Int_),
   is_finished |-> Fn(Basic("State"), Bool_),
   turn |-> Fn(Basic("State"), Int_),
   in_bounds |-> Fn(Basic("Zone"), Fn(Int_, Fn(Int_, Bool_))),
   is_some |-> Fn(Option(Basic("a")), Bool_),
   unwrap_or |-> Fn(Basic("a"), Fn(Option(Basic("a")), Basic("a")))]

Extend(env, x, t) == [y \in DOMAIN env \union {x} |-> IF y = x THEN t ELSE env[y]]

FnType(f) == FoldRight(LAMBDA p, t : Fn(p[2], t), f.params, f.ret)

BinOpType(op, l, r) ==
  CASE op \in {"+", "-", "*", "/", "%"} -> IF l = Int_ /\ r = Int_ THEN Int_ ELSE Bad
    [] op = "==" -> IF Compatible(l, r) THEN Bool_ ELSE Bad
    [] op \in {"<", "<="} -> IF l = Int_ /\ r = Int_ THEN Bool_ ELSE Bad
    [] op = "++" -> Bad
    [] OTHER -> IF Compatible(l, Bool_) /\ Compatible(r, Bool_) THEN Bool_ ELSE Bad

BindPattern(arm, t, env) ==
  CASE arm.k = "varpat" -> Extend(env, arm.x, t)
    [] arm.k = "somepat" -> Extend(env, arm.x, IF t.k = "Option" THEN t.of[1] ELSE t)
    [] OTHER -> env

(* infer_expr, with Bad for an error.                                      *)
Infer(e, env) ==
  LET T(i) == Infer(e.es[i], env)
      Arm(i) == Infer(e.es[i].es[1], BindPattern(e.es[i], T(1), env))
      parts == IF e.k \in {"lambda", "let", "match"} THEN {} ELSE DOMAIN e.es
  IN IF \E i \in parts : T(i) = Bad THEN Bad
     ELSE CASE e.k = "int" -> Int_
            [] e.k = "bool" -> Bool_
            [] e.k = "none" -> Option(Int_)
            [] e.k = "some" -> Option(T(1))
            [] e.k = "ident" -> IF e.x \in DOMAIN env THEN env[e.x] ELSE Bad
            [] e.k \in BinOps -> BinOpType(e.k, T(1), T(2))
            [] e.k = "neg" -> IF T(1) = Int_ THEN Int_ ELSE Bad
            [] e.k = "not" -> IF Compatible(T(1), Bool_) THEN Bool_ ELSE Bad
            [] e.k = "if" -> IF Compatible(T(1), Bool_) /\ Compatible(T(2), T(3))
                               THEN T(2) ELSE Bad
            [] e.k = "let" -> IF T(1) = Bad THEN Bad
                              ELSE Infer(e.es[2], Extend(env, e.x, T(1)))
            [] e.k = "lambda" ->
                 LET body == Infer(e.es[1], Extend(env, e.x, Basic("lambda")))
                 IN IF body = Bad THEN Bad ELSE Fn(Basic("lambda"), body)
            [] e.k = "apply" -> IF T(1).k = "Fn" THEN Refine(T(1), T(2)) ELSE Bad
            [] OTHER -> IF T(1) = Bad \/ \E i \in 2..Len(e.es) : Arm(i) = Bad
                          THEN Bad ELSE Arm(2)

Globals(program) ==
  FoldLeft(LAMBDA env, f : Extend(env, f.name, FnType(f)), Builtins, program)

EnvOf(program, f) ==
  FoldLeft(LAMBDA env, p : Extend(env, p[1], p[2]), Globals(program), f.params)

TypesAccepted(program) ==
  \A i \in DOMAIN program :
    LET t == Infer(program[i].body, EnvOf(program, program[i]))
    IN t # Bad /\ Compatible(t, program[i].ret)

-----------------------------------------------------------------------------
(* The code generator *)

Instr(i, t, n, x) == [i |-> i, t |-> t, n |-> n, x |-> x, a |-> <<>>, b |-> <<>>]
Const(t, n) == <<Instr("const", t, n, "")>>
Do(i) == <<Instr(i, "", 0, "")>>
GetLocal(n) == <<Instr("local.get", "", n, "")>>
SetLocal(n) == <<Instr("local.set", "", n, "")>>
Call(x) == <<Instr("call", "", 0, x)>>
If(t, a, b) == <<[Instr("if", t, 0, "") EXCEPT !.a = a, !.b = b]>>

(* type_to_valtype; floats are left out.                                   *)
Valtype(t) == IF t.k = "Bool" THEN "i32" ELSE "i64"

(* builtin_imports.                                                        *)
Imports ==
  [rank |-> [params |-> <<"i32">>, result |-> "i64"],
   is_finished |-> [params |-> <<"i32">>, result |-> "i32"],
   turn |-> [params |-> <<"i32">>, result |-> "i32"],
   in_bounds |-> [params |-> <<"i32", "i32", "i32">>, result |-> "i32"]]

RECURSIVE FlattenApply(_)
(* The function at the root of an application, and its arguments.          *)
FlattenApply(e) ==
  IF e.k = "ident" THEN <<e>>
  ELSE IF e.k # "apply" THEN <<>>
  ELSE LET f == FlattenApply(e.es[1]) IN IF f = <<>> THEN <<>> ELSE Append(f, e.es[2])

(* builtin_info: a function of the program takes the name of an import.    *)
Imported(names, x) == x \in DOMAIN Imports \ names
CallsImport(names, e) ==
  LET f == FlattenApply(e) IN f # <<>> /\ Imported(names, f[1].x)

(* The locals of a function: pairs of a name and a type.                   *)
HasLocal(ls, x) == \E i \in DOMAIN ls : ls[i][1] = x
LocalOf(ls, x) == CHOOSE i \in DOMAIN ls : ls[i][1] = x
AddLocal(ls, x, t) == IF HasLocal(ls, x) THEN ls ELSE Append(ls, <<x, t>>)

RECURSIVE InferValtype(_, _, _)
InferValtype(names, e, ls) ==
  CASE e.k \in {"bool", "not", "and", "or", "++"} \union Comparisons -> "i32"
    [] e.k = "neg" -> InferValtype(names, e.es[1], ls)
    [] e.k = "if" -> InferValtype(names, e.es[2], ls)
    [] e.k = "ident" /\ HasLocal(ls, e.x) -> ls[LocalOf(ls, e.x)][2]
    [] e.k \in {"ident", "apply"} /\ CallsImport(names, e) ->
         Imports[FlattenApply(e)[1].x].result
    [] OTHER -> "i64"

RECURSIVE Prescan(_, _, _)
(* The locals that the body adds: one for each name, and one that every    *)
(* match of the function shares.                                           *)
Prescan(names, e, ls) ==
  LET Scan(l, p) == Prescan(names, p, l)
      type(l) == InferValtype(names, e.es[1], l)
      Arm(l, a) == Scan(IF a.k \in {"somepat", "varpat"} THEN AddLocal(l, a.x, type(l)) ELSE l,
                        a.es[1])
  IN CASE e.k = "let" -> FoldLeft(Scan, AddLocal(ls, e.x, type(ls)), e.es)
       [] e.k = "match" ->
            FoldLeft(Arm, Scan(AddLocal(ls, "__match", type(ls)), e.es[1]), Tail(e.es))
       [] OTHER -> FoldLeft(Scan, ls, e.es)

RECURSIVE Compile(_, _, _), CompileArms(_, _, _)

CompileAll(names, es, ls) == FlattenSeq([i \in DOMAIN es |-> Compile(names, es[i], ls)])

(* try_compile_builtin_call: an argument that seems to be an i64 is        *)
(* wrapped; an application to too few arguments is not handled here.       *)
CompileImport(names, f, args, ls) ==
  IF Len(args) > Len(Imports[f].params) THEN Do("unreachable")
  ELSE FlattenSeq([i \in DOMAIN args |->
         Compile(names, args[i], ls)
           \o IF InferValtype(names, args[i], ls) = "i64" THEN Do("i32.wrap_i64") ELSE <<>>])
       \o Call(f)

CompileApply(names, e, ls) ==
  LET chain == FlattenApply(e)
      args == Tail(chain)
  IN IF CallsImport(names, e) /\ Len(args) >= Len(Imports[chain[1].x].params)
       THEN CompileImport(names, chain[1].x, args, ls)
     ELSE IF chain # <<>> /\ chain[1].x \in names /\ Len(args) <= 3
       THEN CompileAll(names, args, ls) \o Call(chain[1].x)
     ELSE Compile(names, e.es[2], ls) \o Compile(names, e.es[1], ls) \o Do("drop")

(* A function that is not applied is its index, zero here.                 *)
CompileIdent(names, x, ls) ==
  CASE HasLocal(ls, x) -> GetLocal(LocalOf(ls, x))
    [] ~HasLocal(ls, x) /\ Imported(names, x) -> Do("unreachable")
    [] OTHER -> Const("i64", 0)

BinOpInstr ==
  [op \in BinOps |->
     CASE op = "+" -> "i64.add" [] op = "-" -> "i64.sub" [] op = "*" -> "i64.mul"
       [] op = "/" -> "i64.div_s" [] op = "%" -> "i64.rem_s" [] op = "==" -> "i64.eq"
       [] op = "<" -> "i64.lt_s" [] op = "<=" -> "i64.le_s" [] op = "and" -> "i32.and"
       [] op = "or" -> "i32.or" [] OTHER -> "i32.add"]

(* A slip: a name in a pattern keeps what its local held.                  *)
BindNothing(arm, m, ls) == <<>>

BindVar(arm, m, ls) ==
  IF arm.k = "varpat" THEN GetLocal(m) \o SetLocal(LocalOf(ls, arm.x)) ELSE <<>>

(* compile_match_arms: the last arm is taken without a look at its pattern *)
(* and binds a name only if the pattern is one.                            *)
CompileArms(names, arms, ls) ==
  LET arm == Head(arms)
      m == LocalOf(ls, "__match")
      body == Compile(names, arm.es[1], ls)
      t == InferValtype(names, arm.es[1], ls)
      Cascade(test, bind) ==
        GetLocal(m) \o test \o If(t, bind \o body, CompileArms(names, Tail(arms), ls))
  IN CASE Len(arms) = 1 \/ arm.k \in {"_", "varpat"} -> BindVar(arm, m, ls) \o body
       [] Len(arms) > 1 /\ arm.k = "intpat" ->
            Cascade(Const("i64", arm.v) \o Do("i64.eq"), <<>>)
       [] Len(arms) > 1 /\ arm.k = "boolpat" ->
            Cascade(Const("i32", arm.v) \o Do("i32.eq"), <<>>)
       [] Len(arms) > 1 /\ arm.k = "nonepat" -> Cascade(Do("i64.eqz"), <<>>)
       [] OTHER -> Cascade(Const("i64", 0) \o Do("i64.ne"),
                           GetLocal(m) \o SetLocal(LocalOf(ls, arm.x)))

(* compile_expr; a lambda is its body, None is zero and Some x is x.       *)
Compile(names, e, ls) ==
  LET C(i) == Compile(names, e.es[i], ls)
  IN CASE e.k = "int" -> Const("i64", e.v)
       [] e.k = "bool" -> Const("i32", e.v)
       [] e.k = "none" -> Const("i64", 0)
       [] e.k \in {"some", "lambda"} -> C(1)
       [] e.k = "ident" -> CompileIdent(names, e.x, ls)
       [] e.k \in BinOps -> C(1) \o C(2) \o Do(BinOpInstr[e.k])
       [] e.k = "neg" -> Const("i64", 0) \o C(1) \o Do("i64.sub")
       [] e.k = "not" -> C(1) \o Do("i32.eqz")
       [] e.k = "if" -> C(1) \o If(InferValtype(names, e.es[2], ls), C(2), C(3))
       [] e.k = "let" -> C(1) \o SetLocal(LocalOf(ls, e.x)) \o C(2)
       [] e.k = "apply" -> CompileApply(names, e, ls)
       [] OTHER -> C(1) \o SetLocal(LocalOf(ls, "__match")) \o CompileArms(names, Tail(e.es), ls)

(* The module: of a function its parameters' types, its locals' types, its *)
(* result and its code.                                                    *)
CompileFunction(names, f) ==
  LET params == FoldLeft(LAMBDA ls, p : Append(ls, <<p[1], Valtype(p[2])>>), <<>>, f.params)
      ls == Prescan(names, f.body, params)
  IN [arity |-> Len(params), locals |-> [i \in DOMAIN ls |-> ls[i][2]],
      result |-> Valtype(f.ret), code |-> Compile(names, f.body, ls)]

CompileModule(program) ==
  [x \in NamesOf(program) |->
     CompileFunction(NamesOf(program),
       program[CHOOSE i \in DOMAIN program : program[i].name = x])]
=============================================================================
