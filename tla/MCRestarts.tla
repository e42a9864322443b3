----------------------------- MODULE MCRestarts -----------------------------
(***************************************************************************)
(* Restarts with three logins, of which the entry of one contains another. *)
(***************************************************************************)
EXTENDS Restarts

MCLogins == {"al", "alice", "bob"}
MCWithin == [l \in MCLogins |-> IF l = "al" THEN {"al", "alice"} ELSE {l}]
=============================================================================
