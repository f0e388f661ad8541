----------------------------- MODULE MCSession ------------------------------
(* Two clients that make two connections between them, so that either both *)
(* play or one comes back, a queue of one message and a game of three      *)
(* changes: a move, an answer to it and a stale move after them.  The one  *)
(* who begins also moves when it is not his turn.                          *)
EXTENDS Session

MCClients == {"white", "black"}
MCImpatient == {"white"}
=============================================================================
