-------------------------- MODULE TaskQueueContract --------------------------
(***************************************************************************)
(* What Server::listen() of httplib relies on when it hands connections to *)
(* a TaskQueue (lesson7/server/httplib.h:522-531): every job that was      *)
(* enqueued is run to its end exactly once, and shutdown() returns when    *)
(* the last has been.                                                      *)
(***************************************************************************)
EXTENDS Naturals

CONSTANT Jobs

VARIABLES
  given,      \* the jobs that were enqueued
  runs,       \* how often each has been run to its end
  over        \* shutdown() has returned

vars == <<given, runs, over>>

Init ==
  /\ given = {}
  /\ runs = [j \in Jobs |-> 0]
  /\ over = FALSE

Enqueue(j) ==
  /\ ~over
  /\ j \notin given
  /\ given' = given \cup {j}
  /\ UNCHANGED <<runs, over>>

Finish(j) ==
  /\ j \in given
  /\ runs[j] = 0
  /\ ~over
  /\ runs' = [runs EXCEPT ![j] = 1]
  /\ UNCHANGED <<given, over>>

ShutdownReturns ==
  /\ \A j \in given : runs[j] = 1
  /\ over' = TRUE
  /\ UNCHANGED <<given, runs>>

Next ==
  \/ \E j \in Jobs : Enqueue(j) \/ Finish(j)
  \/ ShutdownReturns

Spec == Init /\ [][Next]_vars
==============================================================================
