----------------------------- MODULE MCSession -----------------------------
(* Session with a program of three instructions: one of dyld's, the entry   *)
(* point, and one more.                                                     *)
EXTENDS Session
=============================================================================
