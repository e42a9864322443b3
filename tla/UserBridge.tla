------------------------------ MODULE UserBridge ------------------------------
(***************************************************************************)
(* lesson2/sniffer-pcap++/npcap-sdk-1.12/Examples-remote/UserLevelBridge:  *)
(* two threads that carry the packets of one adapter to the other, one for *)
(* each direction, and a handler of Ctrl+C, a thread of its own on         *)
(* Windows, that tells them to end and waits for them.  What main() does   *)
(* before it starts the threads is CaptureTools!UserBridgeMain.            *)
(***************************************************************************)
EXTENDS Naturals

CONSTANTS
  Packets,   \* bound: packets that an adapter ever receives
  Nobody     \* no thread

Threads == {0, 1}

\* What the proofs rest on.
BridgeAssumption == Packets \in Nat /\ Nobody \notin Threads

VARIABLES
  main,      \* the place in main(): "first", "second", "signal", "print", "sleep"
  adapters,  \* "open" or "closed", both
  place,     \* of each thread
  printing,  \* the thread in print_cs
  taken,     \* packets that the thread has read
  n_fwd,     \* and sent on
  refused,   \* and reported as not sent
  kill_forwaders,
  handler,   \* of Ctrl+C: "idle", "waits", "patient" and "impatient" when it exits
  process    \* "up", "interrupted" without the handler, "failed", "crashed", "exited"

vars == <<main, adapters, place, printing, taken, n_fwd, refused, kill_forwaders,
          handler, process>>
ofThreads == <<place, printing, taken, n_fwd, refused>>

Init ==
  /\ main = "first" /\ adapters = "open"
  /\ place = [t \in Threads |-> "none"]
  /\ printing = Nobody
  /\ taken = [t \in Threads |-> 0]
  /\ n_fwd = [t \in Threads |-> 0]
  /\ refused = [t \in Threads |-> 0]
  /\ kill_forwaders = FALSE
  /\ handler = "idle" /\ process = "up"

(***************************************************************************)
(* main().  A thread runs as soon as it is created.                        *)
(***************************************************************************)
CreateThread(t, from, to) ==
  /\ main = from
  /\ main' = to
  /\ place' = [place EXCEPT ![t] = "loop"]
  /\ UNCHANGED <<adapters, printing, taken, n_fwd, refused, kill_forwaders, handler, process>>

\* The adapters are closed, and main() returns.
GiveUp ==
  /\ adapters' = "closed"
  /\ process' = "failed"
  /\ UNCHANGED <<main, printing, taken, n_fwd, refused, kill_forwaders, handler>>

NoFirstThread == main = "first" /\ GiveUp /\ UNCHANGED place

\* Mutant: the first thread is left alone.
NoSecondThreadLeavesFirst == main = "second" /\ GiveUp /\ UNCHANGED place

\* The first thread is terminated wherever it is, in print_cs as well.
NoSecondThread ==
  main = "second" /\ GiveUp /\ place' = [place EXCEPT ![0] = "terminated"]

InstallHandler ==
  /\ main = "signal"
  /\ main' = "print"
  /\ UNCHANGED <<adapters, ofThreads, kill_forwaders, handler, process>>

\* What is printed reads the name of an adapter in the list, which was freed.
PrintStart ==
  /\ main = "print"
  /\ \/ main' = "sleep" /\ UNCHANGED process
     \/ process' = "crashed" /\ UNCHANGED main
  /\ UNCHANGED <<adapters, ofThreads, kill_forwaders, handler>>

Main ==
  \/ CreateThread(0, "first", "second")
  \/ CreateThread(1, "second", "signal")
  \/ NoFirstThread
  \/ NoSecondThread
  \/ InstallHandler
  \/ PrintStart

(***************************************************************************)
(* CaptureAndForwardThread().                                              *)
(***************************************************************************)
Go(t, to) == place' = [place EXCEPT ![t] = to]
Rest == <<main, adapters, kill_forwaders, handler, process>>

TestKill(t) ==
  /\ place[t] = "loop"
  /\ Go(t, IF kill_forwaders THEN "report" ELSE "read")
  /\ UNCHANGED <<printing, taken, n_fwd, refused, Rest>>

\* A packet, the timeout of the adapter, or an error, which ends the loop.
NextEx(t) ==
  /\ place[t] = "read"
  /\ \/ /\ taken[t] < Packets
        /\ taken' = [taken EXCEPT ![t] = @ + 1]
        /\ Go(t, "show")
     \/ UNCHANGED taken /\ (Go(t, "loop") \/ Go(t, "report"))
  /\ UNCHANGED <<printing, n_fwd, refused, Rest>>

\* Mutant: nobody waits for print_cs.
EnterAtOnce(t) ==
  /\ place[t] \in {"show", "complain", "report"}
  /\ printing' = t
  /\ Go(t, CASE place[t] = "show" -> "showing"
             [] place[t] = "complain" -> "complaining"
             [] OTHER -> "reporting")
  /\ UNCHANGED <<taken, n_fwd, refused, Rest>>

Enter(t) == printing = Nobody /\ EnterAtOnce(t)

Leave(t) ==
  /\ place[t] \in {"showing", "complaining", "reporting"}
  /\ printing' = Nobody
  /\ Go(t, CASE place[t] = "showing" -> "send"
             [] place[t] = "complaining" -> "loop"
             [] OTHER -> "ended")
  /\ refused' = [refused EXCEPT ![t] = IF place[t] = "complaining" THEN @ + 1 ELSE @]
  /\ UNCHANGED <<taken, n_fwd, Rest>>

SendPacket(t) ==
  /\ place[t] = "send"
  /\ \/ Go(t, "loop") /\ n_fwd' = [n_fwd EXCEPT ![t] = @ + 1]
     \/ Go(t, "complain") /\ UNCHANGED n_fwd
  /\ UNCHANGED <<printing, taken, refused, Rest>>

Forward(t) == TestKill(t) \/ NextEx(t) \/ Enter(t) \/ Leave(t) \/ SendPacket(t)

(***************************************************************************)
(* Ctrl+C: without a handler it ends the process.                          *)
(***************************************************************************)
CtrlC ==
  /\ handler = "idle"
  /\ IF main \in {"print", "sleep"}
     THEN kill_forwaders' = TRUE /\ handler' = "waits" /\ UNCHANGED process
     ELSE process' = "interrupted" /\ UNCHANGED <<kill_forwaders, handler>>
  /\ UNCHANGED <<main, adapters, ofThreads>>

AllEnded == \A t \in Threads : place[t] = "ended"

\* Mutant: the handler waits for ever.
WaitForAll ==
  AllEnded /\ handler' = "patient"

\* Until both have ended, or for five seconds.
Wait ==
  \/ AllEnded /\ handler' = "patient"
  \/ ~AllEnded /\ handler' = "impatient"

\* exit(0) ends the threads that are left.
ExitProcess ==
  /\ handler = "waits"
  /\ Wait
  /\ process' = "exited"
  /\ UNCHANGED <<main, adapters, ofThreads, kill_forwaders>>

Next ==
  /\ process = "up"
  /\ \/ Main
     \/ \E t \in Threads : Forward(t)
     \/ CtrlC
     \/ ExitProcess

\* The handler has a timeout.  A send may take for ever, and so may a user.
Handles == process = "up" /\ ExitProcess

Spec == Init /\ [][Next]_vars /\ WF_vars(Handles)

-----------------------------------------------------------------------------
Places == {"none", "loop", "read", "show", "showing", "send", "complain",
           "complaining", "report", "reporting", "ended", "terminated"}

\* The values of the variables.
TypeOK ==
  /\ main \in {"first", "second", "signal", "print", "sleep"}
  /\ adapters \in {"open", "closed"}
  /\ place \in [Threads -> Places]
  /\ printing \in Threads \cup {Nobody}
  /\ taken \in [Threads -> Nat] /\ n_fwd \in [Threads -> Nat]
  /\ refused \in [Threads -> Nat]
  /\ kill_forwaders \in BOOLEAN
  /\ handler \in {"idle", "waits", "patient", "impatient"}
  /\ process \in {"up", "interrupted", "failed", "crashed", "exited"}

\* No thread is left that uses an adapter which main() has closed: not even
\* between the two CreateThread() calls, of which the second fails.
AdaptersAreOpen ==
  adapters = "closed" => \A t \in Threads : place[t] \in {"none", "terminated"}

\* The lines of the threads are not mixed: print_cs is held by the one that
\* prints, and by nobody if none does.
LinesAreWhole ==
  \A t \in Threads :
    place[t] # "terminated" =>
      (printing = t <=> place[t] \in {"showing", "complaining", "reporting"})

\* Each packet that was read is sent on or reported as an error, those that
\* were under way when Ctrl+C came included, and the number that a thread
\* reports at its end is exact.
NothingIsLost ==
  \A t \in Threads :
    LET underWay == IF place[t] \in {"show", "showing", "send", "complain", "complaining"}
                    THEN 1 ELSE 0
    IN  place[t] # "terminated" => taken[t] = n_fwd[t] + refused[t] + underWay

\* If the wait was not cut short, both threads had finished their last packet.
PatientMeansDone ==
  handler = "patient" => \A t \in Threads : taken[t] = n_fwd[t] + refused[t]

BridgeIsSafe == AdaptersAreOpen /\ LinesAreWhole /\ NothingIsLost /\ PatientMeansDone

\* Ctrl+C ends the program once the handler is installed, even while a thread
\* hangs in pcap_sendpacket(); unless it dies of what main() prints.
BridgeEnds == (handler = "waits") ~> process \in {"exited", "crashed"}
=============================================================================
