---------------------------- MODULE FeltPipeline ----------------------------
(***************************************************************************)
(* A Felt program is written, compiled as "felt compile" does it           *)
(* (main.rs: lexed, parsed, checked, searched for recursion, translated)   *)
(* and called by the server.                                               *)
(*                                                                         *)
(* A vocabulary is the part of the language that a program is written in:  *)
(* its words, the signatures of its functions and the number of nodes.     *)
(* The type checker, the code generator and the execution of a module are  *)
(* constants, which Felt defines; what is proved of the parser and of the  *)
(* search for recursion holds whatever they are.                           *)
(***************************************************************************)
EXTENDS FeltGrammar, CallGraph

CONSTANTS
  Vocabularies,  (* [words, functions, size], a word a node with an arity  *)
  Depth,         (* the expressions that may wait to be combined           *)
  Arguments,     (* the numbers and handles a function is called with      *)
  Accepts(_),    (* the type checker's verdict on a program                *)
  Calls(_, _),   (* the functions of some names that an expression mentions *)
  Translate(_),  (* the module made of a program                           *)
  Run(_, _, _)   (* what the call of a function of a module gives          *)

VARIABLES
  vocabulary,
  program,       (* the functions written                                  *)
  source,        (* their text                                             *)
  work,          (* the expressions of the next one                        *)
  left,          (* the nodes that may still be written                    *)
  verdict,       (* of felt compile: "none" before it ran                  *)
  bodies,        (* what the parser made of the text                       *)
  module,        (* the module written to the file                         *)
  call           (* the arguments and the result of a call                 *)

vars == <<vocabulary, program, source, work, left, verdict, bodies, module, call>>

-----------------------------------------------------------------------------
(* The words of the language: a kind comes with its number of parts, and   *)
(* with a number or a name where its text shows one.                       *)

ArityOf(k) ==
  CASE k \in {"int", "bool", "none", "ident"} -> {0}
    [] k \in {"neg", "not", "some", "lambda"} \union Patterns -> {1}
    [] k \in BinOps \union {"apply", "let"} -> {2}
    [] k = "if" -> {3}
    [] k = "match" -> Nat \ {0, 1}
    [] OTHER -> {}

NumbersOf(k) ==
  CASE k \in {"int", "intpat"} -> Nat
    [] k \in {"bool", "boolpat"} -> {0, 1}
    [] OTHER -> {0}

NamesIn(k) ==
  IF k \in {"ident", "lambda", "let", "somepat", "varpat"} THEN STRING ELSE {NoName}

IsWord(w) ==
  w.arity \in ArityOf(w.k) /\ w.v \in NumbersOf(w.k) /\ w.x \in NamesIn(w.k)

ASSUME VocabulariesAssumption ==
  \A voc \in Vocabularies :
    /\ \A w \in voc.words : IsWord(w)
    /\ voc.functions \in Seq(ToSet(voc.functions))
    /\ \A f \in ToSet(voc.functions) : f.name \in STRING

-----------------------------------------------------------------------------
(* Writing a program, in postfix order *)

NoCall == [args |-> <<>>, result |-> "none", n |-> 0]

Init ==
  /\ vocabulary \in Vocabularies
  /\ program = <<>> /\ source = <<>> /\ work = <<>> /\ left = vocabulary.size
  /\ verdict = "none" /\ bodies = <<>> /\ module = <<>> /\ call = NoCall

Fits(w, parts) ==
  IF w.k = "match" THEN ~IsArm(parts[1].e) /\ \A i \in 2..w.arity : IsArm(parts[i].e)
  ELSE \A i \in 1..w.arity : ~IsArm(parts[i].e)

Write == \E w \in vocabulary.words :
  LET n == Len(work) - w.arity
      parts == SubSeq(work, n + 1, Len(work))
      e == Node(w.k, w.v, w.x, [i \in DOMAIN parts |-> parts[i].e])
  IN /\ left > 0 /\ n \in 0..(Depth - 1) /\ Len(program) < Len(vocabulary.functions)
     /\ Fits(w, parts)
     /\ work' = Append(SubSeq(work, 1, n), Written(e, parts))
     /\ left' = left - 1
     /\ UNCHANGED <<vocabulary, program, source, verdict, bodies, module, call>>

Finish == \E style \in {"let", "where"} :
  LET f == vocabulary.functions[Len(program) + 1]
  IN /\ Len(program) < Len(vocabulary.functions) /\ Len(work) = 1 /\ ~IsArm(work[1].e)
     /\ program' = Append(program, [name |-> f.name, params |-> f.params,
                                    ret |-> f.ret, body |-> work[1].e])
     /\ source' = source \o FunctionText(f.name, work[1], style)
     /\ work' = <<>>
     /\ UNCHANGED <<vocabulary, left, verdict, bodies, module, call>>

-----------------------------------------------------------------------------
(* felt compile *)

(* collect_calls: the functions that an expression mentions, in order.     *)
CallsRule(e, names) ==
  IF e.k = "ident" THEN IF e.x \in names THEN <<e.x>> ELSE <<>>
  ELSE FlattenSeq([i \in DOMAIN e.es |-> Calls(e.es[i], names)])

Callees(p) ==
  [x \in NamesOf(p) |->
     Calls(p[CHOOSE i \in DOMAIN p : p[i].name = x].body, NamesOf(p))]

(* A slip: only the first function is searched from.                       *)
CycleFromFirst(p) == CycleFrom(Callees(p), <<p[1].name>>)

Cycle(p) == CycleFrom(Callees(p), NamesInOrder(p))

Judge(p) ==
  CASE ~Accepts(p) -> "type error"
    [] Accepts(p) /\ Cycle(p) # <<>> -> "recursion"
    [] OTHER -> "compiled"

CompileFile ==
  /\ Len(program) = Len(vocabulary.functions) /\ verdict = "none"
  /\ Printable(source)
  /\ bodies' = ParseProgram(source, 1, <<>>)
  /\ LET p == [i \in DOMAIN program |-> [program[i] EXCEPT !.body = bodies'[i]]]
     IN IF bodies' = <<>>
          THEN verdict' = "syntax error" /\ UNCHANGED module
          ELSE /\ verdict' = Judge(p)
               /\ module' = IF verdict' = "compiled" THEN Translate(p) ELSE <<>>
  /\ UNCHANGED <<vocabulary, program, source, work, left, call>>

(* The server loads the module and calls the last function.                *)
CallFunction ==
  LET main == program[Len(program)]
      Values(t) == IF t = Bool_ THEN {0, 1} ELSE Arguments
  IN /\ verdict = "compiled" /\ call = NoCall
     /\ \E args \in [DOMAIN main.params -> Arguments \union {0, 1}] :
          /\ \A i \in DOMAIN args : args[i] \in Values(main.params[i][2])
          /\ LET o == Run(module, main.name, args)
             IN call' = [args |-> args, result |-> o.result, n |-> o.n]
     /\ UNCHANGED <<vocabulary, program, source, work, left, verdict, bodies, module>>

Next == Write \/ Finish \/ CompileFile \/ CallFunction

Spec == Init /\ [][Next]_vars

-----------------------------------------------------------------------------
(* Properties *)

(* The parser reads a program as it was written: precedence and            *)
(* associativity are those of FELT.md:143, sections, lambdas, matches and  *)
(* where clauses end where they should (parser.rs:294).                    *)
ParsesAsWritten ==
  verdict # "none" => bodies = [i \in DOMAIN program |-> program[i].body]

(* The functions that x calls, by however many calls: what every set holds *)
(* that has those it mentions and those that its members mention.          *)
Reaches(calls, x) ==
  {y \in DOMAIN calls :
     \A S \in SUBSET DOMAIN calls :
       (\A z \in S \union {x} : ToSet(calls[z]) \subseteq S) => y \in S}

(* A program whose types are accepted is refused exactly when a function   *)
(* can reach itself, by however many calls and wherever the search begins, *)
(* and the cycle reported is one (callgraph.rs:16).                        *)
RecursionRefused ==
  verdict \in {"recursion", "compiled"} =>
    LET calls == Callees(program)
        c == Cycle(program)
    IN /\ (verdict = "recursion") <=> \E x \in DOMAIN calls : x \in Reaches(calls, x)
       /\ verdict = "recursion" =>
            /\ c[1] = Last(c)
            /\ \A i \in 1..(Len(c) - 1) : c[i + 1] \in ToSet(calls[c[i]])
=============================================================================
