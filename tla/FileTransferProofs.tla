------------------------- MODULE FileTransferProofs -------------------------
(***************************************************************************)
(* Proofs about FileTransfer for every chunk size, int range and set of    *)
(* file lengths.  The safety properties of the runs are not inductive: the *)
(* outstanding write must be tied to offset and chunk_, and the set of     *)
(* bytes sent must be known to be a prefix that reaches at least offset.   *)
(***************************************************************************)
EXTENDS FileTransfer, TLAPS

\* The outstanding write starts at offset and asks for chunk_ - 1 bytes.
OpMatches ==
  /\ chunk >= 1
  /\ op.st # "none" => op.from = offset /\ op.len = chunk - 1
  /\ op.st = "done" => op.n <= op.len
  /\ phase # "sending" => chunk = ChunkSize

\* Only an error transfers nothing, and an error is never followed by
\* anything but errors.
Progress ==
  /\ ~failed /\ phase = "sending" => chunk >= 2
  /\ ~failed /\ op.st = "done" => op.n >= 1
  /\ failed /\ op.st = "done" => op.n = 0
  /\ failed /\ size <= IntLimit => phase = "sending"

\* A file that fits the int offset is sent from a position inside the file.
OffsetInside ==
  size <= IntLimit /\ phase = "sending" => offset >= 0 /\ offset < size

\* The bytes sent are a prefix of the file that reaches to offset, and to the
\* end of a completed write.
SentIsPrefix ==
  Clean =>
    \E k \in 0 .. size :
      /\ sent = 0 .. k - 1
      /\ phase = "sending" => offset <= k
      /\ op.st = "done" => offset + op.n <= k \/ k = size
      /\ phase = "sent" => k = size

IInv == TypeOK /\ OpMatches /\ Progress /\ OffsetInside /\ SentIsPrefix

\* The first state of a connection satisfies the inductive invariant.
LEMMA InitIInv == Init => IInv
<1> SUFFICES ASSUME Init PROVE IInv
  OBVIOUS
<1> USE TransferAssumption DEF Init, NoOp
<1>1. sent \subseteq 0 .. size - 1
  BY Zenon
<1>2. TypeOK
  <2>1. offset \in (-IntLimit) .. (IntLimit - 1) /\ chunk \in 0 .. ChunkSize
    BY SMT
  <2>2. op \in [st : {"none", "pending", "done"}, from : Int, len : Int, n : Nat]
    BY SMT
  <2> QED BY <1>1, <2>1, <2>2, Zenon DEF TypeOK
<1>3. OpMatches /\ Progress /\ OffsetInside
  BY SMT DEF OpMatches, Progress, OffsetInside
<1>4. SentIsPrefix
  <2>1. sent = 0 .. 0 - 1 /\ 0 \in 0 .. size
    BY SMT
  <2> QED BY <2>1, SMT DEF SentIsPrefix
<1> QED BY <1>2, <1>3, <1>4 DEF IInv

\* Starting a transfer (write()) keeps the inductive invariant.
LEMMA WriteIInv == IInv /\ Write => IInv'
<1> SUFFICES ASSUME IInv, Write PROVE IInv'
  OBVIOUS
<1> USE TransferAssumption
<1>1. size' \in Nat /\ size' >= 1 /\ sent' = 0 .. 0 - 1 /\ 0 \in 0 .. size'
  BY SMT DEF Write
<1>2. /\ op' = [st |-> "pending", from |-> 0, len |-> chunk - 1, n |-> 0]
      /\ phase' = "sending" /\ offset' = 0 /\ chunk' = ChunkSize
      /\ chunk = ChunkSize /\ failed' = FALSE /\ failed = FALSE
  BY SMT DEF Write, SendFile, WriteOp, IInv, TypeOK, OpMatches
<1>3. TypeOK'
  <2>1. /\ offset' \in (-IntLimit) .. (IntLimit - 1)
        /\ chunk' \in 0 .. ChunkSize
        /\ sent' \subseteq 0 .. size' - 1
    BY <1>1, <1>2, SMT
  <2>2. op' \in [st : {"none", "pending", "done"}, from : Int, len : Int, n : Nat]
    BY <1>2, SMT
  <2>3. /\ frame' \in BOOLEAN /\ stale' \in BOOLEAN /\ full' \in BOOLEAN
        /\ failed' \in BOOLEAN /\ peer' \in {"up", "down"}
    BY <1>2, Zenon DEF IInv, TypeOK, Write, SendFile
  <2>4. wired' \in Nat /\ (op'.st # "none" <=> phase' = "sending")
    BY <1>2, SMT DEF Write
  <2> QED BY <1>1, <1>2, <2>1, <2>2, <2>3, <2>4, Zenon DEF TypeOK
<1>4. OpMatches' /\ Progress' /\ OffsetInside'
  BY <1>1, <1>2, SMT DEF OpMatches, Progress, OffsetInside
<1>5. SentIsPrefix'
  BY <1>1, <1>2, SMT DEF SentIsPrefix
<1> QED BY <1>3, <1>4, <1>5 DEF IInv

\* The return of the function that started a write keeps the invariant.
LEMMA FrameReturnsIInv == IInv /\ FrameReturns => IInv'
<1> SUFFICES ASSUME IInv, FrameReturns PROVE IInv'
  OBVIOUS
<1> USE DEF FrameReturns
<1>1. TypeOK'
  BY Zenon DEF IInv, TypeOK
<1>2. OpMatches' /\ Progress' /\ OffsetInside'
  BY Zenon DEF IInv, OpMatches, Progress, OffsetInside
<1>3. SentIsPrefix'
  BY Zenon DEF IInv, SentIsPrefix, Clean
<1> QED BY <1>1, <1>2, <1>3 DEF IInv

\* The client leaving keeps the invariant.
LEMMA PeerDownIInv == IInv /\ PeerDown => IInv'
<1> SUFFICES ASSUME IInv, PeerDown PROVE IInv'
  OBVIOUS
<1> USE DEF PeerDown
<1>1. TypeOK'
  BY Zenon DEF IInv, TypeOK
<1>2. OpMatches' /\ Progress' /\ OffsetInside'
  BY Zenon DEF IInv, OpMatches, Progress, OffsetInside
<1>3. SentIsPrefix'
  BY Zenon DEF IInv, SentIsPrefix, Clean
<1> QED BY <1>1, <1>2, <1>3 DEF IInv

\* A write that transfers n bytes, at least one, keeps the invariant: what it
\* adds to the bytes sent starts no later than where they end.
LEMMA TransferIInv == IInv /\ Transfer => IInv'
<1> SUFFICES ASSUME IInv, Transfer PROVE IInv'
  OBVIOUS
<1> USE TransferAssumption
<1>1. op.st = "pending" /\ failed = FALSE /\ phase = "sending" /\ chunk \in Nat
      /\ chunk >= 2 /\ op.from = offset /\ op.len = chunk - 1
  BY SMT DEF Transfer, IInv, TypeOK, OpMatches, Progress
<1>2. PICK n \in 0 .. op.len :
        /\ n = 0 => op.len = 0
        /\ op' = DoneOp(n)
        /\ sent' = IF frame THEN sent \cup FileBytes(op.from, n) ELSE sent
        /\ wired' = wired + n
        /\ full' = (full /\ n = op.len)
  BY <1>1, Zenon DEF Transfer
<1>3. /\ n \in Nat /\ n >= 1
      /\ op'.st = "done" /\ op'.n = n /\ op'.from = offset /\ op'.len = chunk - 1
      /\ op' \in [st : {"none", "pending", "done"}, from : Int, len : Int, n : Nat]
  <2>1. n \in Nat /\ n >= 1 /\ op.from \in Int /\ op.len \in Int
    BY <1>1, <1>2, SMT DEF IInv, TypeOK
  <2>2. op' = [st |-> "done", from |-> op.from, len |-> op.len, n |-> n]
    BY <1>2 DEF DoneOp
  <2> QED BY <1>1, <2>1, <2>2, SMT
<1>4. /\ stale' = (stale \/ ~frame)
      /\ phase' = phase /\ size' = size /\ offset' = offset /\ chunk' = chunk
      /\ frame' = frame /\ peer' = peer /\ failed' = failed
  BY DEF Transfer
<1>5. sent' \subseteq 0 .. size' - 1
  <2>1. FileBytes(op.from, n) \subseteq 0 .. size - 1
    BY Zenon DEF FileBytes
  <2>2. sent \subseteq 0 .. size - 1
    BY DEF IInv, TypeOK
  <2>3. CASE frame
    BY <1>2, <1>4, <2>1, <2>2, <2>3, Zenon
  <2>4. CASE ~frame
    BY <1>2, <1>4, <2>2, <2>4, Zenon
  <2> QED BY <2>3, <2>4
<1>6. TypeOK'
  <2>1. wired' \in Nat
    BY <1>1, <1>2, SMT DEF IInv, TypeOK
  <2>2. stale' \in BOOLEAN /\ full' \in BOOLEAN /\ failed' \in BOOLEAN
    BY <1>2, <1>4, Zenon DEF IInv, TypeOK
  <2>3. op'.st # "none" <=> phase' = "sending"
    BY <1>1, <1>3, <1>4
  <2> QED BY <1>3, <1>4, <1>5, <2>1, <2>2, <2>3, Zenon DEF IInv, TypeOK
<1>7. OpMatches' /\ Progress' /\ OffsetInside'
  BY <1>1, <1>2, <1>3, <1>4, SMT
  DEF IInv, TypeOK, OpMatches, Progress, OffsetInside
<1>8. SentIsPrefix'
  <2> SUFFICES ASSUME Clean' PROVE
        \E k \in 0 .. size :
          sent' = 0 .. k - 1 /\ offset <= k /\ (offset + n <= k \/ k = size)
    BY <1>1, <1>3, <1>4, SMT DEF SentIsPrefix
  <2>1. Clean /\ frame
    BY <1>4, Zenon DEF Clean
  <2>2. PICK k \in 0 .. size : sent = 0 .. k - 1 /\ offset <= k
    BY <1>1, <2>1, Zenon DEF IInv, SentIsPrefix
  <2>3. sent' = sent \cup FileBytes(offset, n)
    BY <1>1, <1>2, <2>1
  <2>4. offset \in Int /\ 0 <= offset /\ offset < size /\ size \in Nat /\ n \in Nat
    BY <1>1, <1>3, <2>1, SMT DEF IInv, TypeOK, OffsetInside, Clean
  <2>5. CASE offset + n <= k
    <3>1. sent' = 0 .. k - 1
      BY <2>2, <2>3, <2>4, <2>5, SMT DEF FileBytes
    <3> QED BY <3>1, <2>2, <2>5
  <2>6. CASE offset + n > k /\ offset + n <= size
    <3>1. sent' = 0 .. (offset + n) - 1
      BY <2>2, <2>3, <2>4, <2>6, SMT DEF FileBytes
    <3>2. offset + n \in 0 .. size /\ offset <= offset + n
      BY <2>4, <2>6
    <3> QED BY <3>1, <3>2
  <2>7. CASE offset + n > size
    <3>1. sent' = 0 .. size - 1
      BY <2>2, <2>3, <2>4, <2>7, SMT DEF FileBytes
    <3>2. size \in 0 .. size /\ offset <= size
      BY <2>4
    <3> QED BY <3>1, <3>2, SMT
  <2>8. offset + n <= k \/ (offset + n > k /\ offset + n <= size) \/ offset + n > size
    BY <2>2, <2>4, SMT
  <2> QED BY <2>5, <2>6, <2>7, <2>8, Zenon
<1> QED BY <1>6, <1>7, <1>8 DEF IInv

\* A write that fails keeps the invariant: it completes with 0 bytes.
LEMMA TransferErrorIInv == IInv /\ TransferError => IInv'
<1> SUFFICES ASSUME IInv, TransferError PROVE IInv'
  OBVIOUS
<1> USE TransferAssumption
<1>1. /\ op.st = "pending" /\ phase = "sending" /\ chunk \in Nat /\ chunk >= 1
      /\ op.from = offset /\ op.len = chunk - 1
      /\ op.from \in Int /\ op.len \in Int
      /\ offset \in Int
  BY SMT DEF TransferError, IInv, TypeOK, OpMatches
<1>2. op' = [st |-> "done", from |-> op.from, len |-> op.len, n |-> 0]
  BY DEF TransferError, DoneOp
<1>3. /\ op'.st = "done" /\ op'.n = 0 /\ op'.from = offset /\ op'.len = chunk - 1
      /\ op' \in [st : {"none", "pending", "done"}, from : Int, len : Int, n : Nat]
  BY <1>1, <1>2, SMT
<1>4. /\ failed' = TRUE /\ full' = FALSE
      /\ phase' = phase /\ size' = size /\ offset' = offset /\ chunk' = chunk
      /\ frame' = frame /\ sent' = sent /\ wired' = wired /\ stale' = stale
      /\ peer' = peer
  BY DEF TransferError
<1>5. TypeOK'
  <2>1. op'.st # "none" <=> phase' = "sending"
    BY <1>1, <1>3, <1>4
  <2> QED BY <1>3, <1>4, <2>1, Zenon DEF IInv, TypeOK
<1>6. OpMatches' /\ Progress' /\ OffsetInside'
  BY <1>1, <1>3, <1>4, SMT DEF IInv, OpMatches, Progress, OffsetInside
<1>7. SentIsPrefix'
  <2> SUFFICES ASSUME Clean' PROVE
        \E k \in 0 .. size :
          sent = 0 .. k - 1 /\ offset <= k /\ (offset + 0 <= k \/ k = size)
    BY <1>1, <1>3, <1>4, SMT DEF SentIsPrefix
  <2>1. Clean /\ offset \in Int
    BY <1>1, <1>4 DEF Clean
  <2>2. PICK k \in 0 .. size : sent = 0 .. k - 1 /\ offset <= k
    BY <1>1, <2>1, Zenon DEF IInv, SentIsPrefix
  <2>3. offset + 0 <= k
    BY <2>1, <2>2, SMT DEF IInv, TypeOK
  <2> QED BY <2>2, <2>3
<1> QED BY <1>5, <1>6, <1>7 DEF IInv

\* Sending again a shorter piece keeps the invariant: two bytes at least are
\* left, because an error-free write moved at least one.
LEMMA ShrinkChunkIInv == IInv /\ ShrinkChunk => IInv'
<1> SUFFICES ASSUME IInv, ShrinkChunk PROVE IInv'
  OBVIOUS
<1> USE TransferAssumption
<1>1. /\ op.st = "done" /\ phase = "sending" /\ op.n \in Nat
      /\ offset \in Int /\ offset >= 0 /\ size \in Nat /\ offset + op.n < size
      /\ chunk \in 1 .. ChunkSize /\ chunk > size - offset
      /\ offset <= IntLimit - 1
  BY SMT DEF ShrinkChunk, MoreToSend, IInv, TypeOK, OpMatches
<1>2. /\ chunk' = size - offset /\ frame' = TRUE
      /\ op' = [st |-> "pending", from |-> offset, len |-> chunk' - 1, n |-> 0]
      /\ phase' = phase /\ size' = size /\ offset' = offset /\ sent' = sent
      /\ wired' = wired /\ stale' = stale /\ full' = full /\ peer' = peer
      /\ failed' = failed
  BY DEF ShrinkChunk, SendFile, WriteOp
<1>3. chunk' \in 1 .. ChunkSize /\ (~failed => chunk' >= 2)
  BY <1>1, <1>2, SMT DEF IInv, Progress
<1>4. /\ op'.st = "pending" /\ op'.from = offset /\ op'.len = chunk' - 1
      /\ op' \in [st : {"none", "pending", "done"}, from : Int, len : Int, n : Nat]
  BY <1>1, <1>2, <1>3, SMT
<1>5. TypeOK'
  <2>1. chunk' \in 0 .. ChunkSize
    BY <1>3, SMT
  <2>2. op'.st # "none" <=> phase' = "sending"
    BY <1>1, <1>2, <1>4
  <2> QED BY <1>2, <1>4, <2>1, <2>2, Zenon DEF IInv, TypeOK
<1>6. OpMatches' /\ Progress' /\ OffsetInside'
  BY <1>1, <1>2, <1>3, <1>4, SMT DEF OpMatches, Progress, OffsetInside
<1>7. SentIsPrefix'
  BY <1>1, <1>2, <1>4, Zenon DEF IInv, SentIsPrefix, Clean
<1> QED BY <1>5, <1>6, <1>7 DEF IInv

\* Moving on keeps the invariant: the bytes skipped are those the completed
\* write transferred.
LEMMA AdvanceIInv == IInv /\ Advance => IInv'
<1> SUFFICES ASSUME IInv, Advance PROVE IInv'
  OBVIOUS
<1> USE TransferAssumption
<1>1. /\ op.st = "done" /\ phase = "sending" /\ op.n \in Nat
      /\ offset \in Int /\ offset >= 0 /\ size \in Nat /\ offset + op.n < size
      /\ chunk \in 1 .. ChunkSize /\ op.n <= chunk - 1
      /\ offset <= IntLimit - 1
  BY SMT DEF Advance, MoreToSend, IInv, TypeOK, OpMatches
<1>2. /\ offset' = AsInt(offset + op.n) /\ frame' = TRUE
      /\ op' = [st |-> "pending", from |-> offset', len |-> chunk - 1, n |-> 0]
      /\ phase' = phase /\ size' = size /\ chunk' = chunk /\ sent' = sent
      /\ wired' = wired /\ stale' = stale /\ full' = full /\ peer' = peer
      /\ failed' = failed
  BY DEF Advance, SendFile, WriteOp
<1>3. /\ offset' \in (-IntLimit) .. (IntLimit - 1)
      /\ size <= IntLimit => offset' = offset + op.n
  BY <1>1, <1>2, SMT DEF AsInt
<1>4. /\ op'.st = "pending" /\ op'.from = offset' /\ op'.len = chunk - 1
      /\ op' \in [st : {"none", "pending", "done"}, from : Int, len : Int, n : Nat]
  BY <1>1, <1>2, <1>3, SMT
<1>5. TypeOK'
  <2>1. op'.st # "none" <=> phase' = "sending"
    BY <1>1, <1>2, <1>4
  <2> QED BY <1>2, <1>3, <1>4, <2>1, Zenon DEF IInv, TypeOK
<1>6. OpMatches' /\ Progress' /\ OffsetInside'
  BY <1>1, <1>2, <1>3, <1>4, SMT
  DEF IInv, OpMatches, Progress, OffsetInside
<1>7. SentIsPrefix'
  <2> SUFFICES ASSUME Clean' PROVE
        \E k \in 0 .. size : sent = 0 .. k - 1 /\ offset' <= k
    BY <1>1, <1>2, <1>4, SMT DEF SentIsPrefix
  <2>1. Clean
    BY <1>2, Zenon DEF Clean
  <2>2. PICK k \in 0 .. size :
          sent = 0 .. k - 1 /\ (offset + op.n <= k \/ k = size)
    BY <1>1, <2>1, Zenon DEF IInv, SentIsPrefix
  <2>3. offset' <= k
    BY <1>1, <1>3, <2>1, <2>2, SMT DEF Clean
  <2> QED BY <2>2, <2>3
<1> QED BY <1>5, <1>6, <1>7 DEF IInv

\* The end of a transfer keeps the invariant: what was counted reaches the
\* end of the file, so the prefix sent is the whole file.
LEMMA FinishIInv == IInv /\ Finish => IInv'
<1> SUFFICES ASSUME IInv, Finish PROVE IInv'
  OBVIOUS
<1> USE TransferAssumption
<1>1. /\ op.st = "done" /\ phase = "sending" /\ op.n \in Nat
      /\ offset \in Int /\ size \in Nat /\ ~(offset >= 0 /\ offset + op.n < size)
  BY SMT DEF Finish, MoreToSend, IInv, TypeOK
<1>2. /\ offset' = 0 /\ chunk' = ChunkSize /\ phase' = "sent" /\ frame' = FALSE
      /\ op' = [st |-> "none", from |-> 0, len |-> 0, n |-> 0]
      /\ size' = size /\ sent' = sent
      /\ wired' = wired /\ stale' = stale /\ full' = full /\ peer' = peer
      /\ failed' = failed
  BY DEF Finish, NoOp
<1>3. /\ op'.st = "none"
      /\ op' \in [st : {"none", "pending", "done"}, from : Int, len : Int, n : Nat]
  BY <1>2, SMT
<1>4. TypeOK'
  <2>1. op'.st # "none" <=> phase' = "sending"
    BY <1>2, <1>3
  <2>2. offset' \in (-IntLimit) .. (IntLimit - 1) /\ chunk' \in 0 .. ChunkSize
    BY <1>2, SMT
  <2> QED BY <1>2, <1>3, <2>1, <2>2, Zenon DEF IInv, TypeOK
<1>5. ~(failed /\ size <= IntLimit)
  BY <1>1, SMT DEF IInv, Progress, OffsetInside
<1>6. OpMatches' /\ Progress' /\ OffsetInside'
  BY <1>2, <1>3, <1>5, SMT DEF OpMatches, Progress, OffsetInside
<1>7. SentIsPrefix'
  <2> SUFFICES ASSUME Clean' PROVE
        \E k \in 0 .. size : sent = 0 .. k - 1 /\ k = size
    BY <1>2, <1>3, SMT DEF SentIsPrefix
  <2>1. Clean /\ offset >= 0
    BY <1>1, <1>2, Zenon DEF Clean, IInv, OffsetInside
  <2>2. PICK k \in 0 .. size :
          sent = 0 .. k - 1 /\ (offset + op.n <= k \/ k = size)
    BY <1>1, <2>1, Zenon DEF IInv, SentIsPrefix
  <2>3. k = size
    BY <1>1, <2>1, <2>2, SMT
  <2> QED BY <2>2, <2>3
<1> QED BY <1>4, <1>6, <1>7 DEF IInv

\* The inductive invariant holds of every reachable state.
THEOREM InductiveInvariant == Spec => []IInv
<1>1. IInv /\ [Next]_vars => IInv'
  <2> SUFFICES ASSUME IInv, [Next]_vars PROVE IInv'
    OBVIOUS
  <2>1. CASE UNCHANGED vars
    BY <2>1, Zenon
    DEF vars, IInv, TypeOK, OpMatches, Progress, OffsetInside, SentIsPrefix, Clean
  <2>2. CASE Next
    BY <2>2, WriteIInv, FrameReturnsIInv, TransferIInv, TransferErrorIInv,
       ShrinkChunkIInv, AdvanceIInv, FinishIInv, PeerDownIInv, Zenon
    DEF Next, HandleSendFile
  <2> QED BY <2>1, <2>2
<1> QED BY <1>1, InitIInv, PTL DEF Spec

\* The variables of a connection keep their types.
THEOREM TypeCorrect == Spec => []TypeOK
  BY InductiveInvariant, PTL DEF IInv

\* A finished transfer put every byte of the file on the wire.
THEOREM FinishedIsComplete == Spec => []SentMeansCovered
<1>1. IInv => SentMeansCovered
  BY SMT DEF IInv, SentIsPrefix, SentMeansCovered
<1> QED BY <1>1, InductiveInvariant, PTL

\* No byte goes on the wire before all those in front of it.
THEOREM NeverAHole == Spec => []NoGaps
<1>1. IInv => NoGaps
  <2> SUFFICES ASSUME IInv, Clean, NEW i \in sent PROVE 0 .. i \subseteq sent
    BY DEF NoGaps
  <2>1. PICK k \in Nat : sent = 0 .. k - 1
    BY SMT DEF IInv, SentIsPrefix, TypeOK
  <2> QED BY <2>1, SMT
<1> QED BY <1>1, InductiveInvariant, PTL

\* A transfer that failed is never taken for a finished one.
THEOREM FailureIsNotSuccess == Spec => []SuccessMeansNoError
<1>1. IInv => SuccessMeansNoError
  BY SMT DEF IInv, Progress, SuccessMeansNoError
<1> QED BY <1>1, InductiveInvariant, PTL

\* No empty write is started without an error, and every transfer starts from
\* a full chunk.
THEOREM ChunkStaysSane == Spec => []ChunkIsSane
<1>1. IInv => ChunkIsSane
  BY SMT DEF IInv, TypeOK, OpMatches, Progress, ChunkIsSane
<1> QED BY <1>1, InductiveInvariant, PTL

\* Every step of the server is a step of TransferContract or leaves what the
\* client sees alone, for files that fit the int offset and writes that did
\* not read freed memory.
THEOREM KeepsContract == Spec => ContractStep
<1> DEFINE Kept == size' <= IntLimit /\ ~stale'
                     => Contract!CNext \/ UNCHANGED Contract!cvars
<1>1. IInv /\ IInv' /\ [Next]_vars => [Kept]_vars
  <2> SUFFICES ASSUME IInv, IInv', Next, Clean' PROVE
        Contract!CNext \/ UNCHANGED Contract!cvars
    BY DEF Clean
  <2> USE DEF Contract!CNext, Contract!cvars
  <2>1. CASE Write
    <3>1. /\ phase # "sending" /\ phase' = "sending"
          /\ size' \in Sizes /\ sent' = {}
      BY <2>1 DEF Write
    <3> QED BY <3>1, Zenon DEF Contract!Start
  <2>2. CASE FrameReturns \/ PeerDown \/ TransferError \/ ShrinkChunk \/ Advance
    BY <2>2, Zenon
    DEF FrameReturns, PeerDown, TransferError, ShrinkChunk, Advance
  <2>3. CASE Transfer
    <3>1. phase' = phase /\ size' = size /\ op.st = "pending" /\ phase = "sending"
      BY <2>3, Zenon DEF Transfer, IInv, TypeOK
    <3>2. PICK k \in 0 .. size : sent' = 0 .. k - 1
      BY <3>1, Zenon DEF IInv, SentIsPrefix
    <3>3. sent \subseteq sent'
      BY <2>3, Zenon DEF Transfer
    <3> QED BY <3>1, <3>2, <3>3, Zenon DEF Contract!Deliver, Contract!Prefix
  <2>4. CASE Finish
    <3>1. phase' = "sent" /\ size' = size /\ sent' = sent /\ op.st = "done"
      BY <2>4 DEF Finish
    <3>2. phase = "sending"
      BY <3>1, Zenon DEF IInv, TypeOK
    <3>3. sent = 0 .. size - 1
      BY <3>1, Zenon DEF IInv, SentIsPrefix
    <3> QED BY <3>1, <3>2, <3>3, Zenon DEF Contract!Complete, Contract!Prefix
  <2> QED BY <2>1, <2>2, <2>3, <2>4, Zenon DEF Next, HandleSendFile
<1> QED BY <1>1, InductiveInvariant, PTL DEF Spec, ContractStep

-----------------------------------------------------------------------------
\* The size is rounded up to the multiple of K above q * K.
LEMMA RoundUpNext ==
  ASSUME NEW K \in Nat \ {0}, NEW q \in Nat, NEW s \in Nat, q * K < s, s <= q * K + K
  PROVE  RoundUp(s, K) = q * K + K
<1> DEFINE x == s + K - 1
           d == x \div K
<1>1. x \in Nat /\ d \in Int /\ d * K <= x /\ x < d * K + K
  BY SMT
<1>2. q * K + K <= x /\ x < q * K + K + K
  BY SMT
<1>3. d = q + 1
  <2>1. CASE d <= q
    <3>1. d * K <= q * K
      BY <1>1, <2>1, SMT
    <3> QED BY <1>1, <1>2, <3>1, SMT
  <2>2. CASE d >= q + 2
    <3>1. d * K >= (q + 2) * K /\ (q + 2) * K = q * K + K + K
      BY <1>1, <2>2, SMT
    <3> QED BY <1>1, <1>2, <3>1, SMT
  <2> QED BY <1>1, <2>1, <2>2, SMT
<1>4. (q + 1) * K = q * K + K
  BY SMT
<1> QED BY <1>3, <1>4 DEF RoundUp

\* As long as every write took all it was given, chunk_ has not shrunk, and what
\* went on the wire is what was counted and the write that is not yet counted.
Counted ==
  /\ chunk = ChunkSize
  /\ \E q \in Nat : offset = q * (ChunkSize - 1)
  /\ op.st = "pending" => wired = offset
  /\ op.st = "done" => op.n = ChunkSize - 1 /\ wired = offset + op.n

WireInv ==
  full /\ size <= IntLimit => (phase = "sending" => Counted) /\ WireLength

\* WireLength is not inductive: it counts over all the writes of a transfer.
LEMMA StepWireInv == IInv /\ WireInv /\ [Next]_vars => WireInv'
<1> SUFFICES ASSUME IInv, WireInv, [Next]_vars, full', size' <= IntLimit
             PROVE  (phase' = "sending" => Counted') /\ WireLength'
  BY DEF WireInv
<1> DEFINE K == ChunkSize - 1
<1>1. K \in Nat \ {0}
  BY TransferAssumption, SMT
<1> USE TransferAssumption
<1>2. CASE Write
  <2>1. op'.st = "pending" /\ offset' = 0 * K /\ wired' = 0 /\ phase' = "sending"
    BY <1>1, <1>2, SMT DEF Write, SendFile, WriteOp
  <2>2. chunk' = ChunkSize /\ offset' = 0 /\ 0 \in Nat
    BY <1>2 DEF Write, IInv, OpMatches
  <2> QED BY <2>1, <2>2, SMT DEF Counted, WireLength
<1>3. CASE FrameReturns \/ PeerDown \/ UNCHANGED vars
  <2>1. UNCHANGED <<phase, size, offset, chunk, op, wired, full>>
    BY <1>3 DEF FrameReturns, PeerDown, vars
  <2> QED BY <2>1 DEF WireInv, Counted, WireLength
<1>4. CASE TransferError
  BY <1>4 DEF TransferError
<1>5. CASE Transfer
  <2>1. /\ op.st = "pending" /\ phase = "sending" /\ phase' = "sending"
        /\ op.len = chunk - 1
        /\ full /\ UNCHANGED <<size, offset, chunk>>
    BY <1>5 DEF Transfer, IInv, TypeOK, OpMatches
  <2>2. op' = DoneOp(op.len) /\ wired' = wired + op.len
    BY <1>5, <2>1 DEF Transfer
  <2>3. op'.st = "done" /\ op'.n = op.len
    BY <2>2 DEF DoneOp
  <2>4. Counted
    BY <2>1 DEF WireInv
  <2> QED BY <2>1, <2>2, <2>3, <2>4, SMT DEF Counted, WireLength
<1>6. CASE ShrinkChunk \/ Advance
  <2>1. /\ op.st = "done" /\ MoreToSend(op.n) /\ phase = "sending" /\ phase' = "sending"
        /\ full /\ UNCHANGED <<size, wired>>
    BY <1>6, Zenon DEF ShrinkChunk, Advance, SendFile, IInv, TypeOK
  <2>2. Counted
    BY <2>1 DEF WireInv
  <2>3. PICK q \in Nat : offset = q * K
    BY <2>2 DEF Counted
  <2>4. offset \in Int /\ size \in Nat /\ offset + K < size /\ op.n = K /\ wired = offset + K
    BY <2>1, <2>2, SMT DEF MoreToSend, Counted, IInv, TypeOK
  <2>5. ~(chunk > size - offset)
    BY <2>2, <2>4, SMT DEF Counted
  <2>6. /\ chunk' = chunk /\ offset' = AsInt(offset + op.n)
        /\ op' = WriteOp(offset', chunk - 1)
    BY <1>6, <2>5, Zenon DEF ShrinkChunk, Advance, SendFile
  <2>11. op'.st = "pending"
    BY <2>6 DEF WriteOp
  <2>7. offset' = offset + K
    BY <2>1, <2>4, <2>6, SMT DEF AsInt
  <2>8. offset' = (q + 1) * K
    BY <1>1, <2>3, <2>7, SMT
  <2>9. wired' = offset'
    BY <2>1, <2>4, <2>7
  <2>10. q + 1 \in Nat
    BY <2>3
  <2>12. \E p \in Nat : offset' = p * (ChunkSize - 1)
    BY <2>8, <2>10, Zenon
  <2>13. chunk' = ChunkSize /\ phase' # "sent" /\ op'.st # "done"
    BY <2>1, <2>2, <2>6, <2>11 DEF Counted
  <2> QED BY <2>9, <2>12, <2>13 DEF Counted, WireLength
<1>7. CASE Finish
  <2>1. /\ op.st = "done" /\ ~MoreToSend(op.n) /\ phase = "sending" /\ phase' = "sent"
        /\ full /\ UNCHANGED <<size, wired>>
    BY <1>7, Zenon DEF Finish, IInv, TypeOK
  <2>2. Counted
    BY <2>1 DEF WireInv
  <2>3. PICK q \in Nat : offset = q * K
    BY <2>2 DEF Counted
  <2>4. /\ size \in Nat /\ offset < size /\ size <= offset + K
        /\ wired = offset + K
    BY <1>1, <2>1, <2>2, SMT DEF MoreToSend, Counted, IInv, TypeOK, OffsetInside
  <2>5. RoundUp(size, K) = q * K + K
    BY <1>1, <2>3, <2>4, RoundUpNext
  <2> QED BY <2>1, <2>3, <2>4, <2>5 DEF WireLength
<1> QED BY <1>2, <1>3, <1>4, <1>5, <1>6, <1>7 DEF Next, HandleSendFile

\* When every write takes all it is given, what goes on the wire for a file is
\* its length rounded up to a multiple of chunk_ - 1: handle_send_file sends
\* nothing twice, and the one over-read is that of the last write.
THEOREM OverReadIsOnce == Spec => []WireLength
<1>1. Init => WireInv
  BY DEF Init, WireInv, WireLength
<1>2. TypeOK /\ WireInv => WireLength
  BY DEF WireInv, WireLength
<1>3. IInv => TypeOK
  BY DEF IInv
<1> QED BY <1>1, <1>2, <1>3, StepWireInv, InductiveInvariant, PTL DEF Spec

=============================================================================
