------------------------------ MODULE MCFiles -------------------------------
(* Three processes, one pipe page and a short file table. *)
EXTENDS Programs, TLC
=============================================================================
