--------------------------- MODULE MCHttplibServer ---------------------------
(***************************************************************************)
(* Two workers and two connections of one request each: jobs are left in   *)
(* the queue when the pool is shut down, and two exit requests may be      *)
(* served together.                                                        *)
(***************************************************************************)
EXTENDS HttplibServer
==============================================================================
