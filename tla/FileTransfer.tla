---------------------------- MODULE FileTransfer ----------------------------
(***************************************************************************)
(* How one TcpConnection of lesson4/tcp-asio-server sends a file:          *)
(* write() reads the whole file into a local vector and calls send_file(), *)
(* every completed write runs handle_send_file(), which sends again until  *)
(* it has counted content.size() bytes.  A file byte is its position.      *)
(*                                                                         *)
(* The buffer of a write is the memory of the function that started it: a  *)
(* write that the network layer carries out after that function returned   *)
(* reads freed memory, and send_file() always asks for chunk_ - 1 bytes,   *)
(* past the end of the vector if need be.  Either way bytes that are not   *)
(* the file's go on the wire.                                              *)
(***************************************************************************)
EXTENDS Integers

CONSTANTS
  ChunkSize,   \* 4096, the value chunk_ starts from
  IntLimit,    \* 2^31: int offset holds -IntLimit .. IntLimit - 1
  Sizes        \* the lengths of the (non-empty) files clients ask for

ASSUME TransferAssumption ==
  /\ ChunkSize \in Nat /\ ChunkSize >= 2
  /\ IntLimit \in Nat /\ IntLimit >= 2 * ChunkSize
  /\ Sizes \subseteq Nat \ {0}

VARIABLES
  phase,     \* "idle", "sending", or "sent" after a completed transfer
  size,      \* content.size()
  offset,    \* int offset, bound by value into the handler
  chunk,     \* chunk_
  op,        \* the outstanding async_write_some
  frame,     \* the memory op's buffer points to is still allocated
  sent,      \* positions of the file bytes that went on the wire
  wired,     \* number of bytes that went on the wire, others included
  stale,     \* some write read memory that was already freed
  full,      \* every write so far transferred all it was asked to
  peer,      \* "up", or "down" once the client is gone
  failed     \* some write of this transfer completed with an error

vars == <<phase, size, offset, chunk, op, frame, sent, wired, stale, full,
          peer, failed>>

NoOp == [st |-> "none", from |-> 0, len |-> 0, n |-> 0]

WriteOp(from, len) == [st |-> "pending", from |-> from, len |-> len, n |-> 0]

DoneOp(n) == [st |-> "done", from |-> op.from, len |-> op.len, n |-> n]

\* Narrowing size_t to int keeps the value modulo 2 * IntLimit.
AsInt(x) == IF x >= IntLimit THEN x - 2 * IntLimit ELSE x

\* Mutants: the comparison is off by one, in either direction.
MoreToSendShort(n) == offset >= 0 /\ offset + n < size - 1
MoreToSendLong(n) == offset >= 0 /\ offset + n <= size

\* offset + bytes_transferred < content.size(), computed in size_t: a
\* negative offset becomes larger than the size of any file.
MoreToSend(n) == offset >= 0 /\ offset + n < size

\* The file bytes among the n bytes read from position from on.
FileBytes(from, n) ==
  {i \in 0 .. size - 1 : from <= i /\ i < from + n}

\* async_write_some(buffer(content.data() + off, ch - 1), ...)
SendFile(off, ch) ==
  /\ op' = WriteOp(off, ch - 1)
  /\ frame' = TRUE

Init ==
  /\ phase = "idle"
  /\ size = 0 /\ offset = 0 /\ chunk = ChunkSize
  /\ op = NoOp /\ frame = FALSE
  /\ sent = {} /\ wired = 0
  /\ stale = FALSE /\ full = TRUE
  /\ peer = "up" /\ failed = FALSE

\* write(message) for a file that is there and not empty.
Write ==
  /\ phase # "sending"
  /\ ~failed
  /\ size' \in Sizes
  /\ phase' = "sending"
  /\ offset' = 0
  /\ SendFile(0, chunk)
  /\ sent' = {} /\ wired' = 0
  /\ stale' = FALSE /\ full' = TRUE
  /\ UNCHANGED <<chunk, peer, failed>>

\* The function that started the write returns, and its vector is freed.
FrameReturns ==
  /\ op.st = "pending"
  /\ frame
  /\ frame' = FALSE
  /\ UNCHANGED <<phase, size, offset, chunk, op, sent, wired, stale, full,
                 peer, failed>>

\* The network layer takes some of the bytes it was handed.
Transfer ==
  /\ op.st = "pending"
  /\ ~failed
  /\ \E n \in 0 .. op.len :
       /\ n = 0 => op.len = 0
       /\ op' = DoneOp(n)
       /\ sent' = IF frame THEN sent \cup FileBytes(op.from, n) ELSE sent
       /\ wired' = wired + n
       /\ full' = (full /\ n = op.len)
  /\ stale' = (stale \/ ~frame)
  /\ UNCHANGED <<phase, size, offset, chunk, frame, peer, failed>>

\* The connection is broken: the write completes with an error and 0 bytes.
TransferError ==
  /\ op.st = "pending"
  /\ peer = "down"
  /\ op' = DoneOp(0)
  /\ failed' = TRUE
  /\ full' = FALSE
  /\ UNCHANGED <<phase, size, offset, chunk, frame, sent, wired, stale, peer>>

\* Mutant: send_file() is called in the other branch only.
ShrinkChunkOnly ==
  /\ op.st = "done"
  /\ MoreToSend(op.n)
  /\ chunk > size - offset
  /\ chunk' = size - offset
  /\ op' = NoOp
  /\ UNCHANGED <<phase, size, offset, frame, sent, wired, stale, full, peer, failed>>

\* handle_send_file, first branch: what is left is smaller than chunk_.
ShrinkChunk ==
  /\ op.st = "done"
  /\ MoreToSend(op.n)
  /\ chunk > size - offset
  /\ chunk' = size - offset
  /\ SendFile(offset, chunk')
  /\ UNCHANGED <<phase, size, offset, sent, wired, stale, full, peer, failed>>

\* Mutant: offset moves on by what was asked for.
AdvanceByLength ==
  /\ op.st = "done"
  /\ MoreToSend(op.n)
  /\ chunk <= size - offset
  /\ offset' = AsInt(offset + op.len)
  /\ SendFile(offset', chunk)
  /\ UNCHANGED <<phase, size, chunk, sent, wired, stale, full, peer, failed>>

\* handle_send_file, second branch: move on by what was transferred.
Advance ==
  /\ op.st = "done"
  /\ MoreToSend(op.n)
  /\ chunk <= size - offset
  /\ offset' = AsInt(offset + op.n)
  /\ SendFile(offset', chunk)
  /\ UNCHANGED <<phase, size, chunk, sent, wired, stale, full, peer, failed>>

\* handle_send_file, "File was successfully sent!": back to read().
Finish ==
  /\ op.st = "done"
  /\ ~MoreToSend(op.n)
  /\ phase' = "sent"
  /\ chunk' = ChunkSize
  /\ offset' = 0
  /\ op' = NoOp
  /\ frame' = FALSE
  /\ UNCHANGED <<size, sent, wired, stale, full, peer, failed>>

HandleSendFile == ShrinkChunk \/ Advance \/ Finish

\* The client goes away.
PeerDown ==
  /\ peer = "up"
  /\ peer' = "down"
  /\ UNCHANGED <<phase, size, offset, chunk, op, frame, sent, wired, stale,
                 full, failed>>

Next ==
  \/ Write \/ FrameReturns \/ Transfer \/ TransferError
  \/ HandleSendFile \/ PeerDown

Spec == Init /\ [][Next]_vars

\* The network layer completes every write, the thread pool runs every
\* completion handler.
FairSpec ==
  /\ Spec
  /\ WF_vars(Transfer \/ TransferError)
  /\ WF_vars(HandleSendFile)

-----------------------------------------------------------------------------
\* The values of the variables, and the one outstanding write that lives
\* exactly as long as the transfer.
TypeOK ==
  /\ phase \in {"idle", "sending", "sent"}
  /\ size \in Nat
  /\ offset \in (-IntLimit) .. (IntLimit - 1)
  /\ chunk \in 0 .. ChunkSize
  /\ op \in [st : {"none", "pending", "done"}, from : Int, len : Int, n : Nat]
  /\ frame \in BOOLEAN
  /\ sent \subseteq 0 .. size - 1
  /\ wired \in Nat
  /\ stale \in BOOLEAN /\ full \in BOOLEAN /\ failed \in BOOLEAN
  /\ peer \in {"up", "down"}
  /\ (op.st # "none" <=> phase = "sending")

\* The file fits the int offset, and no write read freed memory.
Clean == size <= IntLimit /\ ~stale

\* "File was successfully sent!" is true: when handle_send_file stops, every
\* byte of the file went on the wire, although the shrinking branch does not
\* count what it sent and writes may be partial.
SentMeansCovered ==
  phase = "sent" /\ Clean => sent = 0 .. size - 1

\* The client sees the file without holes: handle_send_file never moves
\* offset past bytes that were not transferred.
NoGaps ==
  Clean => \A i \in sent : 0 .. i \subseteq sent

\* handle_send_file ignores its error code, and still never takes a broken
\* transfer for a finished one (it sends again for as long as it fails).
SuccessMeansNoError ==
  failed /\ size <= IntLimit => phase # "sent"

\* chunk_ - 1 does not wrap around in size_t, a write of nothing is only ever
\* started after an error, and each transfer starts from a full chunk.
ChunkIsSane ==
  /\ chunk >= 1
  /\ op.st = "pending" /\ ~failed => op.len >= 1
  /\ phase # "sending" => chunk = ChunkSize

RoundUp(s, k) == ((s + k - 1) \div k) * k

\* With a network layer that always takes all it is given, handle_send_file
\* puts exactly the file and its last over-read on the wire: the file length
\* rounded up to a multiple of chunk_ - 1.
WireLength ==
  phase = "sent" /\ full /\ size <= IntLimit
    => wired = RoundUp(size, ChunkSize - 1)

\* A transfer to a client that stays finishes: the shrinking branch, which
\* sends again from the same offset, cannot go on forever.
HealthyTransferFinishes ==
  phase = "sending" ~> (phase = "sent" \/ peer = "down")

Contract == INSTANCE TransferContract WITH
  status <- phase, total <- size, got <- sent

\* handle_send_file keeps the client's view of a transfer, for files that fit
\* the int offset and writes carried out before their function returns.
ContractStep ==
  [][size' <= IntLimit /\ ~stale' => Contract!CNext \/ UNCHANGED Contract!cvars]_vars

=============================================================================
