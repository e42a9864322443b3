--------------------------- MODULE TorrentClient ---------------------------
(***************************************************************************)
(* lesson8/torrent: one thread adds a torrent to a libtorrent session,     *)
(* polls its alerts every 200 ms and keeps the resume data in              *)
(* .resume_file.  The session works on its own: it answers requests by     *)
(* alerts, in order.  The process may be interrupted by SIGINT, which only *)
(* sets shut_down, or killed at any step, and is then started again.       *)
(***************************************************************************)
EXTENDS Integers, Sequences, SequencesExt

CONSTANTS
  Goal,       \* progress of a complete torrent
  MaxSaves,   \* save requests the session has not answered yet (bound)
  MaxAlerts   \* alerts the client has not popped yet (bound)

\* What the proofs rest on.
GoalAssumption == Goal \in Nat

VARIABLES
  file,      \* .resume_file
  pc,        \* where main() is
  buf,       \* what is left of the alerts main() popped
  h,         \* the handle was set
  done,      \* local variable done
  shut_down, \* set by the signal handler
  torrents,  \* number of torrents in the session
  progress,  \* progress of the torrent
  alerts,    \* the alerts of the session
  saves,     \* save_resume_data requests it has not answered
  reached,   \* the progress some session of the past had reached
  saved,     \* progress of the data this process loaded or wrote last
  torn,      \* the process was killed while it wrote the file
  asked      \* SIGINT came while the torrent was in the session

vars == <<file, pc, buf, h, done, shut_down, torrents, progress, alerts, saves,
          reached, torn, saved, asked>>

Session == <<torrents, progress, alerts, saves>>

\* The file: absent or empty, resume data of some progress, or a part of them.
Empty == [kind |-> "empty", at |-> 0]
Data(n) == [kind |-> "data", at |-> n]
Part == [kind |-> "part", at |-> 0]

Alert(k) == [kind |-> k, at |-> 0]
ResumeData(n) == [kind |-> "resume", at |-> n]

\* A process that has not begun, or is gone.
NoProcess ==
  /\ buf = <<>> /\ h = FALSE /\ done = FALSE /\ shut_down = FALSE
  /\ torrents = 0 /\ progress = 0 /\ alerts = <<>> /\ saves = 0
  /\ saved = 0 /\ asked = FALSE

ProcessEnds ==
  /\ buf' = <<>> /\ h' = FALSE /\ done' = FALSE /\ shut_down' = FALSE
  /\ torrents' = 0 /\ progress' = 0 /\ alerts' = <<>> /\ saves' = 0
  /\ saved' = 0 /\ asked' = FALSE

Running == pc \notin {"off", "exited", "died"}

Init ==
  /\ file = Empty
  /\ pc = "off"
  /\ NoProcess
  /\ reached = 0 /\ torn = FALSE

-----------------------------------------------------------------------------
\* Start and end of the process.

\* main() up to the loop: the resume data are passed in with the magnet link.
Start ==
  /\ ~Running
  /\ file.kind # "part"
  /\ pc' = "pop"
  /\ progress' = file.at
  /\ buf' = <<>> /\ h' = FALSE /\ done' = FALSE /\ shut_down' = FALSE
  /\ torrents' = 0 /\ alerts' = <<>> /\ saves' = 0 /\ asked' = FALSE
  /\ saved' = file.at
  /\ UNCHANGED <<file, reached, torn>>

\* read_resume_data throws at a part of a file, and main() does not catch.
StartFails ==
  /\ ~Running
  /\ file.kind = "part"
  /\ pc' = "died"
  /\ ProcessEnds
  /\ UNCHANGED <<file, reached, torn>>

\* The process is killed; while it writes, the file may be any part.
Killed ==
  /\ Running
  /\ pc' = "off"
  /\ file' \in IF pc = "write" THEN {file, Part, Data(Head(buf).at)} ELSE {file}
  /\ torn' = (torn \/ pc = "write")
  /\ ProcessEnds
  /\ UNCHANGED reached

\* sighandler
Interrupt ==
  /\ Running
  /\ ~shut_down
  /\ shut_down' = TRUE
  /\ asked' = (asked \/ torrents = 1)
  /\ UNCHANGED <<file, pc, buf, h, done, Session, reached, torn, saved>>

-----------------------------------------------------------------------------
\* The session.

Post(a) ==
  /\ Running
  /\ Len(alerts) < MaxAlerts
  /\ alerts' = Append(alerts, a)

\* async_add_torrent
Added ==
  /\ torrents = 0
  /\ Post(Alert("added"))
  /\ torrents' = 1
  /\ UNCHANGED <<file, pc, buf, h, done, shut_down, progress, saves, reached,
                 torn, saved, asked>>

Downloads ==
  /\ Running
  /\ torrents = 1
  /\ progress < Goal
  /\ progress' = progress + 1
  /\ reached' = IF progress' > reached THEN progress' ELSE reached
  /\ UNCHANGED <<file, pc, buf, h, done, shut_down, torrents, alerts, saves, torn,
                 saved, asked>>

\* The torrent is complete, be it because of the resume data.
Finished ==
  /\ torrents = 1
  /\ progress = Goal
  /\ Post(Alert("finished"))
  /\ UNCHANGED <<file, pc, buf, h, done, shut_down, torrents, progress, saves,
                 reached, torn, saved, asked>>

TorrentError ==
  /\ torrents = 1
  /\ Post(Alert("error"))
  /\ UNCHANGED <<file, pc, buf, h, done, shut_down, torrents, progress, saves,
                 reached, torn, saved, asked>>

\* A save request is answered by the resume data of that moment, or fails.
Answers ==
  /\ saves > 0
  /\ saves' = saves - 1
  /\ Post(ResumeData(progress)) \/ Post(Alert("failed"))
  /\ UNCHANGED <<file, pc, buf, h, done, shut_down, torrents, progress, reached,
                 torn, saved, asked>>

-----------------------------------------------------------------------------
\* The loop of main().

\* pop_alerts
Pop ==
  /\ pc = "pop"
  /\ buf' = alerts
  /\ alerts' = <<>>
  /\ pc' = "check"
  /\ UNCHANGED <<file, h, done, shut_down, torrents, progress, saves, reached,
                 torn, saved, asked>>

\* Mutant: a signal that came with alerts is forgotten.
ShutDownIfQuiet ==
  /\ pc = "check"
  /\ shut_down
  /\ torrents = 1
  /\ shut_down' = FALSE
  /\ IF buf = <<>> THEN done' = TRUE /\ saves' = saves + 1 /\ pc' = "exited"
                   ELSE UNCHANGED <<done, saves>> /\ pc' = "alerts"
  /\ UNCHANGED <<file, buf, h, torrents, progress, alerts, reached, torn, saved,
                 asked>>

\* if (shut_down), with the torrent in the session: ask for the resume data
\* and leave the loop; the session ends with main().
ShutDown ==
  /\ pc = "check"
  /\ shut_down
  /\ torrents = 1
  /\ shut_down' = FALSE
  /\ saves' = saves + 1
  /\ done' = TRUE
  /\ buf' = <<>>
  /\ pc' = "exited"
  /\ UNCHANGED <<file, h, torrents, progress, alerts, reached, torn, saved, asked>>

\* if (shut_down), before the torrent was added: the signal is forgotten.
ForgetSignal ==
  /\ pc = "check"
  /\ shut_down
  /\ torrents # 1
  /\ shut_down' = FALSE
  /\ pc' = "alerts"
  /\ UNCHANGED <<file, buf, h, done, Session, reached, torn, saved, asked>>

NoSignal ==
  /\ pc = "check"
  /\ ~shut_down
  /\ pc' = "alerts"
  /\ UNCHANGED <<file, buf, h, done, shut_down, Session, reached, torn, saved, asked>>

Next_(k) == pc = "alerts" /\ buf # <<>> /\ Head(buf).kind = k

\* add_torrent_alert
HandleAdded ==
  /\ Next_("added")
  /\ h' = TRUE
  /\ buf' = Tail(buf)
  /\ UNCHANGED <<file, pc, done, shut_down, Session, reached, torn, saved, asked>>

\* torrent_finished_alert or torrent_error_alert
HandleEnd ==
  /\ Next_("finished") \/ Next_("error")
  /\ done' = TRUE
  /\ saves' = saves + 1
  /\ buf' = Tail(buf)
  /\ UNCHANGED <<file, pc, h, shut_down, torrents, progress, alerts, reached,
                 torn, saved, asked>>

\* save_resume_data_alert: the ofstream truncates the file ...
OpenResumeFile ==
  /\ Next_("resume")
  /\ file' = Empty
  /\ pc' = "write"
  /\ UNCHANGED <<buf, h, done, shut_down, Session, reached, torn, saved, asked>>

\* Mutant: the file gets the progress of the end of the download.
WriteGoal ==
  /\ pc = "write"
  /\ file' = Data(Goal)
  /\ saved' = Goal
  /\ buf' = IF done THEN <<>> ELSE Tail(buf)
  /\ pc' = "alerts"
  /\ UNCHANGED <<h, done, shut_down, Session, reached, torn, asked>>

\* Mutant: the parameters of the magnet link are saved, not those of the alert.
WriteMagnet ==
  /\ pc = "write"
  /\ file' = Data(0)
  /\ saved' = 0
  /\ buf' = IF done THEN <<>> ELSE Tail(buf)
  /\ pc' = "alerts"
  /\ UNCHANGED <<h, done, shut_down, Session, reached, torn, asked>>

\* ... and the data are written.  If done, the other alerts are left alone.
WriteResumeFile ==
  /\ pc = "write"
  /\ file' = Data(Head(buf).at)
  /\ saved' = Head(buf).at
  /\ buf' = IF done THEN <<>> ELSE Tail(buf)
  /\ pc' = "alerts"
  /\ UNCHANGED <<h, done, shut_down, Session, reached, torn, asked>>

\* save_resume_data_failed_alert
HandleFailed ==
  /\ Next_("failed")
  /\ buf' = IF done THEN <<>> ELSE Tail(buf)
  /\ UNCHANGED <<file, pc, h, done, shut_down, Session, reached, torn, saved, asked>>

\* The end of the loop body, less than 30 s after the last save request.
Sleep ==
  /\ pc = "alerts"
  /\ buf = <<>>
  /\ pc' = IF done THEN "exited" ELSE "pop"
  /\ UNCHANGED <<file, buf, h, done, shut_down, Session, reached, torn, saved, asked>>

\* The end of the loop body, with the save request of every 30 s.
SleepAndSave ==
  /\ pc = "alerts"
  /\ buf = <<>>
  /\ h
  /\ saves < MaxSaves
  /\ saves' = saves + 1
  /\ pc' = IF done THEN "exited" ELSE "pop"
  /\ UNCHANGED <<file, buf, h, done, shut_down, torrents, progress, alerts,
                 reached, torn, saved, asked>>

\* The same, when the torrent was not added in 30 s: h is not valid and throws.
SaveThrows ==
  /\ pc = "alerts"
  /\ buf = <<>>
  /\ ~h
  /\ pc' = "died"
  /\ ProcessEnds
  /\ UNCHANGED <<file, reached, torn>>

HandleAlert ==
  \/ HandleAdded \/ HandleEnd \/ OpenResumeFile \/ WriteResumeFile \/ HandleFailed

Loop ==
  \/ Pop \/ ShutDown \/ ForgetSignal \/ NoSignal \/ HandleAlert
  \/ Sleep \/ SleepAndSave \/ SaveThrows

Environment == Start \/ StartFails \/ Killed \/ Interrupt

Libtorrent == Added \/ Downloads \/ Finished \/ TorrentError \/ Answers

Next == Environment \/ Libtorrent \/ Loop

Spec == Init /\ [][Next]_vars

-----------------------------------------------------------------------------
AlertKinds == {"added", "finished", "error", "resume", "failed"}
AlertType == [kind : AlertKinds, at : 0 .. Goal]

\* The values of the variables.
TypeOK ==
  /\ file \in [kind : {"empty", "data", "part"}, at : 0 .. Goal]
  /\ pc \in {"off", "pop", "check", "alerts", "write", "exited", "died"}
  /\ buf \in Seq(AlertType) /\ alerts \in Seq(AlertType)
  /\ h \in BOOLEAN /\ done \in BOOLEAN /\ shut_down \in BOOLEAN
  /\ torrents \in {0, 1}
  /\ progress \in 0 .. Goal /\ reached \in 0 .. Goal
  /\ saved \in 0 .. Goal
  /\ saves \in Nat
  /\ torn \in BOOLEAN /\ asked \in BOOLEAN

\* The file never claims more than what was downloaded: a download that starts
\* from it does not take missing pieces for present ones.  Interrupting the
\* client, and all its regular ends, leave a file that the next start can read:
\* only a kill in the middle of the write does not.  And save_resume_data is
\* called on a handle that was set: the alerts that call it come after
\* add_torrent_alert, also in another batch.
ResumeIsSafe ==
  /\ TypeOK
  /\ file.at <= reached
  /\ ~torn => file.kind # "part"
  /\ Next_("finished") \/ Next_("error") => h
  /\ pc \notin {"off", "exited"} /\ done => h

\* SIGINT ends the client, once the torrent is in the session.
InterruptEnds == asked /\ Running ~> ~Running

\* One process never replaces its resume data by older ones, those it has begun
\* from included: answers and alerts keep their order, and are all handled
\* before the next batch.
GoesForward == [][Running /\ Running' => saved' >= saved]_vars

\* "when resume data is ready, save it" (torrent.cpp:164): the client does not
\* end on its own while resume data it asked for are still to come.
SavedBeforeExit == pc = "exited" => saves = 0

=============================================================================
