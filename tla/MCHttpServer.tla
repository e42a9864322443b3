---------------------------- MODULE MCHttpServer ----------------------------
(***************************************************************************)
(* One client and one thread are enough for the exit page not to work.     *)
(***************************************************************************)
EXTENDS HttpServer

=============================================================================
