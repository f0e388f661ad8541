------------------------------ MODULE FeltTree ------------------------------
(***************************************************************************)
(* The trees of Felt (ast.rs): expressions, types and programs.            *)
(*                                                                         *)
(* A node is [k, v, x, es]: its kind (for an operator, the operator), a    *)
(* number, a name and its parts.  An arm of a match is a node whose kind   *)
(* is its pattern and whose part is its body.  Collections, records,       *)
(* strings and floats are left out.  A program is a sequence of functions  *)
(* [name, params, ret, body], with params pairs of a name and a type.      *)
(***************************************************************************)
EXTENDS Integers, Sequences, SequencesExt

NoName == ""

Node(k, v, x, es) == [k |-> k, v |-> v, x |-> x, es |-> es]

Ident(x) == Node("ident", 0, x, <<>>)
Apply(f, a) == Node("apply", 0, NoName, <<f, a>>)
Lambda(x, body) == Node("lambda", 0, x, <<body>>)

Comparisons == {"==", "<", "<="}
BinOps == {"or", "and", "++", "+", "-", "*", "/", "%"} \union Comparisons
Patterns == {"_", "intpat", "boolpat", "nonepat", "somepat", "varpat"}
IsArm(e) == e.k \in Patterns

-----------------------------------------------------------------------------
(* Types *)

Type(k, of) == [k |-> k, of |-> of]
Basic(k) == Type(k, <<>>)
Int_ == Basic("Int")
Bool_ == Basic("Bool")
Option(t) == Type("Option", <<t>>)
Fn(p, r) == Type("Fn", <<p, r>>)

NamesOf(program) == {program[i].name : i \in DOMAIN program}
NamesInOrder(program) == [i \in DOMAIN program |-> program[i].name]
=============================================================================
