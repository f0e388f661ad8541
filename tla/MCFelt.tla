------------------------------- MODULE MCFelt -------------------------------
(* Vocabularies that each reach one part of the language: operators of     *)
(* every level, bindings, matches on numbers and options, imports, and     *)
(* three functions that call each other in every way.                      *)
EXTENDS Felt

Word(k, arity) == [k |-> k, v |-> 0, x |-> NoName, arity |-> arity]
IntWord(n) == [Word("int", 0) EXCEPT !.v = n]
Var(x) == [Word("ident", 0) EXCEPT !.x = x]
Binds(k, x, arity) == [Word(k, arity) EXCEPT !.x = x]
x_ == Var("x")

IntFn(name) == [name |-> name, params |-> <<<<"x", Int_>>>>, ret |-> Int_]
Returning(t) == [IntFn("f") EXCEPT !.ret = t]

Operators == [words |-> {x_, IntWord(2), Word("-", 2), Word("*", 2), Word("/", 2), Word("neg", 1)},
              functions |-> <<IntFn("f")>>, size |-> 6]
Logic == [words |-> {x_, IntWord(0), Word("<", 2), Word("==", 2), Word("and", 2), Word("or", 2),
                     Word("not", 1), Word("if", 3)},
          functions |-> <<Returning(Bool_)>>, size |-> 6]
Bindings == [words |-> {x_, Var("__x"), IntWord(1), Word("+", 2), Binds("let", "__x", 2),
                        Binds("let", "x", 2), Binds("lambda", "__x", 1), Word("apply", 2)},
             functions |-> <<IntFn("f")>>, size |-> 5]
Options == [words |-> {x_, Var("y"), Word("none", 0), Word("some", 1), Word("match", 3),
                       Binds("somepat", "y", 1), Word("nonepat", 1), Binds("varpat", "y", 1),
                       [Word("intpat", 1) EXCEPT !.v = 2]},
            functions |-> <<IntFn("f")>>, size |-> 7]
Grid == [words |-> {x_, Var("z"), Var("in_bounds"), Word("apply", 2), Word("++", 2)},
         functions |-> <<[IntFn("f") EXCEPT !.params = <<<<"x", Int_>>, <<"z", Basic("Zone")>>>>,
                            !.ret = Bool_]>>, size |-> 7]
Queries == [words |-> {Var("s"), Var("c"), Var("rank"), Var("turn"), Var("is_finished"),
                       Word("apply", 2), Word("+", 2)},
            functions |-> <<[IntFn("f") EXCEPT !.params = <<<<"s", Basic("State")>>,
                                                          <<"c", Basic("Component")>>>>]>>,
            size |-> 7]
Graph == [words |-> {x_, Var("f"), Var("g"), Var("h"), Word("apply", 2)},
          functions |-> <<IntFn("f"), IntFn("g"), IntFn("h")>>, size |-> 9]

MCVocabularies == {Operators, Logic, Bindings, Options, Grid, Queries, Graph}
=============================================================================
