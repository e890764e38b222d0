------------------------------ MODULE MCStorage ------------------------------
(***************************************************************************)
(* A small instance of Storage: _users, a plain name and one with a dot,   *)
(* two requests at a time.                                                 *)
(***************************************************************************)
EXTENDS Storage
=============================================================================
