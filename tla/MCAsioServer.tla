---------------------------- MODULE MCAsioServer ----------------------------
(***************************************************************************)
(* Two of the five threads, three connection objects (two clients and the  *)
(* object of the accept operation) and the operations they can have: one   *)
(* per object, and one whose handler returns per thread.                   *)
(***************************************************************************)
EXTENDS AsioServer

=============================================================================
