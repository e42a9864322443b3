----------------------------- MODULE Messenger -----------------------------
(***************************************************************************)
(* lesson8: one peer of the multicast chat.  Two threads of a pool share   *)
(* an io_context: "A" starts the receive chain and runs it, "B" reads the  *)
(* first line and runs it too.  Whichever thread runs the handler of a     *)
(* sent message reads the next line in it, and the other receives.         *)
(*                                                                         *)
(* A datagram is a "text" (the peer's own too: multicast loops back) or    *)
(* "empty", which ends the receive chain as an error does.                 *)
(***************************************************************************)
EXTENDS Integers, Sequences, FiniteSets

CONSTANT Room    \* datagrams that fit the socket; more are lost

\* What the proofs rest on.
RoomAssumption == Room \in Nat \ {0}

Threads == {"A", "B"}
Datagrams == {"text", "empty"}

VARIABLES
  at,         \* where each thread of the pool is
  stopped,    \* the io_context ran out of work
  receives,   \* number of async_receive_from under way
  welcome,    \* the async_send_to of the constructor
  message,    \* the async_send_to of do_send
  incoming    \* datagrams in the socket

vars == <<at, stopped, receives, welcome, message, incoming>>

\* A send is done at once or has to wait: the buffer it is given is a local
\* variable and gone by then.
SendStates == {"none", "blocked", "sent"}

\* What the socket holds once d was sent to the group, or lost.
Arrivals(d) ==
  {incoming} \cup (IF Len(incoming) < Room THEN {Append(incoming, d)} ELSE {})

Running == \E t \in Threads : at[t] = "run"

\* async_send_to: `send` is the variable of its state.
AsyncSendTo(send) ==
  \/ send' = "sent" /\ incoming' \in Arrivals("text")
  \/ send' = "blocked" /\ UNCHANGED incoming

\* The constructor sends the welcome message; main() posts the two tasks.
Init ==
  /\ at = [t \in Threads |-> "start"]
  /\ stopped = FALSE
  /\ receives = 0
  /\ welcome \in {"sent", "blocked"}
  /\ message = "none"
  /\ incoming \in {<<>>, <<"text">>}
  /\ welcome = "blocked" => incoming = <<>>

-----------------------------------------------------------------------------
\* io_context::run(): a thread that finds the context stopped returns at once.
Runs(t) == at' = [at EXCEPT ![t] = IF stopped THEN "done" ELSE "run"]

\* Thread A: do_receive(); io_context.run().
StartReceiving ==
  /\ at["A"] = "start"
  /\ receives' = receives + 1
  /\ Runs("A")
  /\ UNCHANGED <<stopped, welcome, message, incoming>>

\* Thread B: do_send() waits for the first line, outside of run().
StartSending ==
  /\ at["B"] = "start"
  /\ at' = [at EXCEPT !["B"] = "first"]
  /\ UNCHANGED <<stopped, receives, welcome, message, incoming>>

\* getline() returns (for ever at the end of the input), the line is sent, and
\* the thread goes on to run() or back to it.
ReadLine(t) ==
  /\ at[t] \in {"first", "getline"}
  /\ AsyncSendTo(message)
  /\ Runs(t)
  /\ UNCHANGED <<stopped, receives, welcome>>

\* Mutant: the handler of the welcome message starts to read lines, as that of a
\* message does.
HandleWelcomeSends(t) ==
  /\ at[t] = "run"
  /\ welcome = "sent"
  /\ welcome' = "none"
  /\ at' = [at EXCEPT ![t] = "getline"]
  /\ UNCHANGED <<stopped, receives, message, incoming>>

\* The handler of the welcome message only prints.
HandleWelcome(t) ==
  /\ at[t] = "run"
  /\ welcome = "sent"
  /\ welcome' = "none"
  /\ UNCHANGED <<at, stopped, receives, message, incoming>>

\* Mutant: do_send() is not called again.
HandleSendOnce(t) ==
  /\ at[t] = "run"
  /\ message = "sent"
  /\ message' = "none"
  /\ UNCHANGED <<at, stopped, receives, welcome, incoming>>

\* The handler of do_send calls do_send.
HandleSend(t) ==
  /\ at[t] = "run"
  /\ message = "sent"
  /\ message' = "none"
  /\ at' = [at EXCEPT ![t] = "getline"]
  /\ UNCHANGED <<stopped, receives, welcome, incoming>>

\* The handler of do_receive shows what does not begin with the peer's name, and
\* calls do_receive.
HandleReceive(t) ==
  /\ at[t] = "run"
  /\ receives > 0
  /\ incoming # <<>> /\ Head(incoming) # "empty"
  /\ incoming' = Tail(incoming)
  /\ UNCHANGED <<at, stopped, receives, welcome, message>>

\* An error or an empty datagram: nothing is received any more.
HandleReceiveEnd(t) ==
  /\ at[t] = "run"
  /\ receives > 0
  /\ \/ incoming # <<>> /\ Head(incoming) = "empty" /\ incoming' = Tail(incoming)
     \/ UNCHANGED incoming
  /\ receives' = receives - 1
  /\ UNCHANGED <<at, stopped, welcome, message>>

\* Nothing is under way and no handler runs: run() stops the context.
NoWork ==
  /\ receives = 0 /\ welcome = "none" /\ message = "none"
  /\ \A t \in Threads : at[t] # "getline"

RunOutOfWork(t) ==
  /\ at[t] = "run"
  /\ stopped \/ NoWork
  /\ stopped' = TRUE
  /\ at' = [at EXCEPT ![t] = "done"]
  /\ UNCHANGED <<receives, welcome, message, incoming>>

\* The socket can be written again: the reactor, which a thread in run()
\* serves, sends what the dead buffer holds now.
Unblock ==
  /\ Running
  /\ \/ welcome = "blocked" /\ welcome' = "sent" /\ UNCHANGED message
     \/ message = "blocked" /\ message' = "sent" /\ UNCHANGED welcome
  /\ incoming' \in Arrivals("text")
  /\ UNCHANGED <<at, stopped, receives>>

\* Somebody else writes to the group.
Arrive ==
  /\ incoming' \in UNION {Arrivals(d) : d \in Datagrams}
  /\ UNCHANGED <<at, stopped, receives, welcome, message>>

Step(t) ==
  \/ HandleWelcome(t) \/ HandleSend(t)
  \/ HandleReceive(t) \/ HandleReceiveEnd(t)
  \/ RunOutOfWork(t)

Next ==
  \/ StartReceiving \/ StartSending \/ Unblock \/ Arrive
  \/ \E t \in Threads : ReadLine(t) \/ Step(t)

Spec == Init /\ [][Next]_vars

-----------------------------------------------------------------------------
\* The values of the variables.
TypeOK ==
  /\ at \in [Threads -> {"start", "first", "run", "getline", "done"}]
  /\ at["A"] # "first"
  /\ stopped \in BOOLEAN
  /\ receives \in Nat
  /\ welcome \in SendStates /\ message \in SendStates
  /\ incoming \in Seq(Datagrams) /\ Len(incoming) <= Room

Readers == {t \in Threads : at[t] \in {"first", "getline"}}

\* There is one send chain: one thread at most waits in getline() for what the
\* user types, and only when no message is under way.  (Two would hand the
\* user's lines to both, and nobody would be left to receive.)  And there is
\* one receive chain: the handler reads receiving_buffer_ while no other
\* receive is filling it.
OneChainEach ==
  /\ TypeOK
  /\ Cardinality(Readers) + (IF message = "none" THEN 0 ELSE 1) <= 1
  /\ receives <= 1

\* A user who does not type is still told what the others write: a full socket
\* is read, unless the receive chain is over.  A line that was read is sent and
\* confirmed, and the next one is read, unless the context was stopped before
\* the first.
PeerGoesOn ==
  /\ Len(incoming) = Room
       ~> Len(incoming) < Room \/ (receives = 0 /\ at["A"] # "start")
  /\ message # "none" ~> Readers # {} \/ stopped

=============================================================================
