--------------------------- MODULE HttplibPartsProofs ---------------------------
(***************************************************************************)
(* Proofs about the four parts of httplib.h. HttplibClient, for any number *)
(* of threads and any number of nested requests: a socket in use is closed *)
(* by its user only, and is used after its handshake only. HttplibSocket,  *)
(* for any number of addresses: no descriptor is lost but those that the   *)
(* code gives up. HttplibMultipart, for any boundary, any contents and any *)
(* pieces that do not end where the parser stumbles: what is delivered is  *)
(* what was sent, and no body of the client is refused. HttplibText, for   *)
(* texts of any length: what is encoded is what is decoded, and a range is *)
(* answered with the bytes it names.                                       *)
(***************************************************************************)
EXTENDS HttplibParts, TLAPS, SequenceTheorems, NaturalsInduction, WellFoundedInduction

\* The assertion of close_socket(), for one step.
ClosedByOwner ==
  sock # "closed" /\ sock' = "closed" /\ inFlight > 0
    => from = owner /\ owner # None /\ pc' # pc

LEMMA InitInv == Init => ClientInv
BY ClientAssumption, SMT DEF Init, ClientInv, TypeOK, Pcs, Connecting, Counted

\* What connects, or gives up.
LEMMA ConnectStep ==
  ASSUME ClientInv, Renew \/ Connect \/ Tunnel \/ Handshake
  PROVE  ClientInv' /\ ClosedByOwner
<1> USE ClientAssumption DEF config, frame, counts, ClientInv, TypeOK, Pcs, Connecting,
      Counted, ClosedByOwner, CloseSocket, GiveUp
<1>1. CASE Renew
  BY <1>1, SMT DEF Renew
<1>2. CASE Connect
  BY <1>2, SMT DEF Connect
<1>3. CASE Tunnel
  <2>1. pc \in {"tunnel", "tunnel2"}
    BY <1>3 DEF Tunnel
  <2>2. CASE pc' \in {"handshake", "tunnel2", "relock"} /\ UNCHANGED <<config, frame, counts, sock>>
    BY <2>1, <2>2, SMT
  <2>3. CASE proxy = "anonymous" /\ pc' = "return" /\ UNCHANGED <<config, frame, counts, sock>>
    BY <2>1, <2>3, SMT
  <2>4. CASE pc' = "return" /\ sock' = "closed" /\ UNCHANGED <<config, frame, counts>>
    BY <2>1, <2>4, SMT
  <2> QED BY <1>3, <2>2, <2>3, <2>4, Zenon DEF Tunnel
<1>4. CASE Handshake
  BY <1>4, SMT DEF Handshake, CountRequest
<1> QED BY <1>1, <1>2, <1>3, <1>4

LEMMA RequestStep ==
  ASSUME ClientInv,
         \/ \E t \in Threads : Request(t)
         \/ Reuse \/ Process \/ CloseAsTold \/ Handled \/ EndRequest \/ Return
  PROVE  ClientInv' /\ ClosedByOwner
<1> USE ClientAssumption DEF config, frame, counts, ClientInv, TypeOK, Pcs, Connecting,
      Counted, ClosedByOwner, CloseSocket
<1>1. ASSUME NEW t \in Threads, Request(t) PROVE ClientInv' /\ ClosedByOwner
  BY <1>1, SMT DEF Request
<1>2. CASE Reuse
  BY <1>2, SMT DEF Reuse, CountRequest
<1>3. CASE Process \/ CloseAsTold
  BY <1>3, SMT DEF Process, CloseAsTold
<1>4. CASE Handled \/ Return
  BY <1>4, SMT DEF Handled, Return
<1>5. CASE EndRequest
  BY <1>5, SMT DEF EndRequest, MustClose
<1> QED BY <1>1, <1>2, <1>3, <1>4, <1>5

LEMMA OtherStep ==
  ASSUME ClientInv, Stop \/ PeerCloses \/ UNCHANGED vars
  PROVE  ClientInv' /\ ClosedByOwner
<1> USE DEF config, frame, counts, ClientInv, TypeOK, Pcs, Connecting, Counted,
      ClosedByOwner, CloseSocket
<1>1. CASE Stop
  BY <1>1, SMT DEF Stop
<1>2. CASE PeerCloses \/ UNCHANGED vars
  BY <1>2, SMT DEF PeerCloses, vars
<1> QED BY <1>1, <1>2

LEMMA Step == ClientInv /\ [Next]_vars => ClientInv' /\ ClosedByOwner
BY ConnectStep, RequestStep, OtherStep DEF Next, Send

THEOREM Invariance == Spec => []ClientInv
<1>1. ClientInv /\ [Next]_vars => ClientInv'
  BY Step
<1> QED BY InitInv, <1>1, PTL DEF Spec

\* The assertions of close_socket() and shutdown_ssl() never fail: stop() does
\* not close the socket of a request that is in flight.
THEOREM ClosedByItsUser == Spec => ClosesOwn
<1>1. ClientInv /\ [Next]_vars => [ClosedByOwner]_vars
  BY Step
<1> QED BY Invariance, <1>1, PTL DEF Spec, ClosesOwn, ClosedByOwner

\* Without a proxy, or with its credentials, no request is sent in the clear.
THEOREM SentOverSsl == Spec => []SslInUse
<1>1. ClientInv => SslInUse
  BY SMT DEF ClientInv, TypeOK, SslInUse, Connecting
<1> QED BY Invariance, <1>1, PTL

-----------------------------------------------------------------------------
(***************************************************************************)
(* HttplibSocket.                                                          *)
(***************************************************************************)
\* One part moves, and the others stay where they are.
LEMMA SocketMoves ==
  ASSUME [AllNext]_all
  PROVE  [Create!Next]_(Create!vars)
<1> USE DEF all, ofSocket, Create!vars
<1>1. CASE UNCHANGED all
  BY <1>1
<1>2. CASE AllNext
  BY <1>2, Zenon DEF AllNext, ClientOnly, FormOnly, SocketOnly, Grow
<1> QED
  BY <1>1, <1>2

\* The calls between socket() and close(), or the return.
Trying == {"cloexec", "bind", "connect", "wait", "settle", "listen", "close"}

\* The descriptor of this address is open.
InHand == step \in Trying \/ result # 0

\* The lowest descriptors are the k that were given up; the one in hand, if
\* there is one, is the next.
Below(k) ==
  /\ leaked = 1 .. k
  /\ opened = IF InHand THEN 1 .. k + 1 ELSE 1 .. k
  /\ InHand => fd = k + 1
  /\ step \in Trying \cup {"socket"} => k < address

\* SocketIsSound speaks of the end only.  Before that: each address gives up one
\* descriptor at most, so that there is one left for socket(), and what a
\* client or a server calls leaves the descriptor in the state it needs.
SocketInv ==
  /\ \E k \in Nat : Below(k)
  /\ purpose \in {"connect", "connect from", "listen"}
  /\ step \in Trying \cup {"lookup", "socket", "done", "returned"}
  /\ step \in Trying \cup {"socket"} =>
       /\ count \in 1 .. MaxAddresses /\ address \in 1 .. count
       /\ list = "held"
  /\ step = "lookup" => leaked = {} /\ list = "none"
  /\ step \in {"done", "returned"} => list # "held"
  /\ result # 0 =>
       /\ step \in {"done", "returned"}
       /\ result = fd
       /\ IF purpose = "listen" THEN net = "listening"
          ELSE net = "connected" /\ blocking = TRUE /\ timeouts = TRUE
  /\ step = "settle" => net = "connected"
  /\ step = "listen" => purpose = "listen"
  /\ step \in {"bind", "connect", "wait", "settle"} => purpose # "listen"
  /\ step = "returned" => (error = "Success" <=> result # 0)

LEMMA SocketInit ==
  ASSUME Create!Init
  PROVE  SocketInv
<1>1. Below(0)
  <2>1. 1 .. 0 = {}
    OBVIOUS
  <2> QED
    BY <2>1 DEF Create!Init, Create!NoSocket, Below, InHand, Trying
<1> QED
  BY <1>1 DEF Create!Init, Create!NoSocket, SocketInv, Trying

\* What Continue makes of a descriptor that is closed (k stays) or given up.
LEMMA SocketContinue ==
  ASSUME SocketInv, NEW k \in Nat, Create!Continue,
         step \in Trying \cup {"socket"}, result' = result,
         leaked' = 1 .. k, opened' = 1 .. k, k <= address,
         UNCHANGED <<purpose, count>>
  PROVE  SocketInv'
<1>1. /\ count \in 1 .. MaxAddresses /\ address \in 1 .. count /\ list = "held"
      /\ result = 0 /\ result' = 0
  BY DEF SocketInv, Trying
<1>2. MaxAddresses \in Nat
  BY PartsAssumption
<1>3. CASE address < count
  <2>1. step' = "socket" /\ address' = address + 1 /\ list' = list
    BY <1>3 DEF Create!Continue
  <2>2. address' \in 1 .. count /\ k < address'
    BY <1>1, <1>2, <1>3, <2>1
  <2>3. Below(k)'
    BY <1>1, <2>1, <2>2 DEF Below, InHand, Trying
  <2> QED
    BY <1>1, <2>1, <2>2, <2>3 DEF SocketInv, Trying
<1>4. CASE ~(address < count)
  <2>1. step' = "done" /\ list' = "freed"
    BY <1>4 DEF Create!Continue
  <2>2. Below(k)'
    BY <1>1, <2>1 DEF Below, InHand, Trying
  <2> QED
    BY <1>1, <2>1, <2>2 DEF SocketInv, Trying
<1> QED
  BY <1>3, <1>4

LEMMA SocketStep ==
  ASSUME SocketInv, [Create!Next]_(Create!vars)
  PROVE  SocketInv'
<1> PICK k \in Nat : Below(k)
  BY DEF SocketInv
<1>m. MaxAddresses \in Nat
  BY PartsAssumption
<1>1. CASE Create!Lookup
  <2>0. /\ step = "lookup" /\ result = 0 /\ list = "none"
        /\ UNCHANGED <<purpose, fd, opened, leaked, net, error, result>>
    BY <1>1 DEF Create!Lookup, Create!handle, SocketInv, Trying
  <2>1. leaked = 1 .. k /\ opened = 1 .. k /\ k = 0
    <3>1. leaked = 1 .. k /\ opened = 1 .. k /\ leaked = {}
      BY <2>0 DEF Below, InHand, Trying, SocketInv
    <3> QED
      BY <3>1
  <2>2. CASE step' = "done" /\ UNCHANGED <<count, address, list>>
    <3>1. Below(k)'
      BY <2>0, <2>1, <2>2 DEF Below, InHand, Trying
    <3> QED
      BY <2>0, <2>2, <3>1 DEF SocketInv, Trying
  <2>3. CASE count' \in 1 .. MaxAddresses /\ address' = 1 /\ list' = "held" /\ step' = "socket"
    <3>1. Below(k)' /\ address' \in 1 .. count'
      BY <2>0, <2>1, <2>3, <1>m DEF Below, InHand, Trying
    <3> QED
      BY <2>0, <2>3, <3>1 DEF SocketInv, Trying
  <2> QED
    BY <1>1, <2>2, <2>3, Zenon DEF Create!Lookup
<1>2. CASE Create!Socket
  <2>0. step = "socket" /\ result = 0 /\ address \in 1 .. count /\ count \in 1 .. MaxAddresses /\ list = "held"
    BY <1>2 DEF Create!Socket, SocketInv, Trying
  <2>1. leaked = 1 .. k /\ opened = 1 .. k /\ k < address
    BY <2>0 DEF Below, InHand, Trying
  <2>2. CASE Create!Continue /\ UNCHANGED <<fd, opened, Create!handle>>
    <3>1. k <= address /\ UNCHANGED <<purpose, count, leaked, result, opened>>
      BY <1>2, <2>0, <2>1, <2>2, <1>m DEF Create!Socket
    <3> QED
      BY <2>0, <2>1, <2>2, <3>1, SocketContinue
  <2>3. CASE /\ fd' = Create!Min(1 .. MaxAddresses \ opened)
             /\ opened' = opened \cup {fd'}
             /\ net' = "idle" /\ blocking' = TRUE /\ timeouts' = FALSE
             /\ step' = "cloexec"
             /\ UNCHANGED <<address, list>>
    <3> DEFINE F == 1 .. MaxAddresses \ opened
    <3>1. k + 1 \in F /\ \A y \in F : k + 1 <= y
      BY <2>0, <2>1, <1>m
    <3>2. fd' \in F /\ \A y \in F : fd' <= y
      BY <2>3, <3>1, Zenon DEF Create!Min
    <3>3. fd' = k + 1
      <4>1. \A x, y \in Nat : x <= y /\ y <= x => x = y
        OBVIOUS
      <4>2. F \subseteq Nat
        OBVIOUS
      <4> HIDE DEF F
      <4> QED BY <3>1, <3>2, <4>1, <4>2
    <3>4. UNCHANGED <<purpose, count, leaked, error, result>>
      BY <1>2 DEF Create!Socket
    <3>5. opened' = 1 .. k + 1
      BY <2>1, <2>3, <3>3
    <3>6. Below(k)'
      BY <2>0, <2>1, <2>3, <3>3, <3>4, <3>5 DEF Below, InHand, Trying
    <3> QED
      BY <2>0, <2>3, <3>4, <3>6 DEF SocketInv, Trying
  <2> QED
    BY <1>2, <2>2, <2>3, Zenon DEF Create!Socket
<1>3. CASE Create!CloseOnExec
  <2>0. step = "cloexec" /\ result = 0 /\ address \in 1 .. count /\ count \in 1 .. MaxAddresses /\ list = "held"
    BY <1>3 DEF Create!CloseOnExec, SocketInv, Trying
  <2>1. leaked = 1 .. k /\ opened = 1 .. k + 1 /\ fd = k + 1 /\ k < address
    BY <2>0 DEF Below, InHand, Trying
  <2>2. CASE leaked' = leaked \cup {fd} /\ Create!Continue
    <3>1. UNCHANGED <<purpose, count, opened, result>>
      BY <1>3 DEF Create!CloseOnExec
    <3>2. leaked' = 1 .. k + 1 /\ opened' = 1 .. k + 1 /\ k + 1 <= address /\ k + 1 \in Nat
      BY <2>0, <2>1, <2>2, <3>1, <1>m
    <3> QED
      BY <2>0, <2>2, <3>1, <3>2, SocketContinue DEF Trying
  <2>3. CASE /\ step' = IF purpose = "connect from" THEN "bind" ELSE purpose
             /\ UNCHANGED <<address, list, leaked>>
    <3>1. UNCHANGED <<purpose, count, fd, opened, Create!handle, error, result>>
      BY <1>3 DEF Create!CloseOnExec
    <3>2. step' \in {"bind", "connect", "listen"} /\ (step' = "listen" <=> purpose = "listen")
      BY <2>3 DEF SocketInv
    <3>3. Below(k)'
      BY <2>0, <2>1, <2>3, <3>1, <3>2 DEF Below, InHand, Trying
    <3> QED
      BY <2>0, <2>3, <3>1, <3>2, <3>3 DEF SocketInv, Trying
  <2> QED
    BY <1>3, <2>2, <2>3, Zenon DEF Create!CloseOnExec
<1>4. CASE Create!CloseSocket
  <2>0. step = "close" /\ result = 0 /\ address \in 1 .. count /\ count \in 1 .. MaxAddresses
    BY <1>4 DEF Create!CloseSocket, SocketInv, Trying
  <2>1. leaked = 1 .. k /\ opened = 1 .. k + 1 /\ fd = k + 1 /\ k < address
    BY <2>0 DEF Below, InHand, Trying
  <2>2. opened' = 1 .. k /\ leaked' = 1 .. k /\ k <= address /\ UNCHANGED <<purpose, count, result>>
        /\ Create!Continue
    BY <1>4, <2>0, <2>1, <1>m DEF Create!CloseSocket
  <2> QED
    BY <2>0, <2>2, SocketContinue DEF Trying
<1>5. CASE Create!BindIpAddress \/ Create!Connect \/ Create!WaitUntilSocketIsReady
  <2>0. /\ step \in {"bind", "connect", "wait"} /\ step' \in {"connect", "close", "settle", "wait"}
        /\ UNCHANGED <<purpose, count, address, list, fd, opened, leaked, result>>
    BY <1>5 DEF Create!BindIpAddress, Create!Connect, Create!WaitUntilSocketIsReady, Create!found
  <2>1. step' = "settle" => net' = "connected"
    BY <1>5 DEF Create!BindIpAddress, Create!Connect, Create!WaitUntilSocketIsReady, Create!SocketError,
       Create!Ready, Create!handle
  <2>2. Below(k)'
    BY <2>0 DEF Below, InHand, Trying
  <2> QED
    BY <2>0, <2>1, <2>2 DEF SocketInv, Trying
<1>6. CASE Create!PeerAnswers
  <2>0. /\ net = "connecting" /\ UNCHANGED <<purpose, count, address, list, fd, opened, leaked, result, step, error>>
    BY <1>6 DEF Create!PeerAnswers, Create!found
  <2>1. Below(k)'
    BY <2>0 DEF Below, InHand
  <2> QED
    BY <2>0, <2>1 DEF SocketInv, Trying
<1>7. CASE Create!Settle
  <2>0. /\ step = "settle" /\ step' = "done" /\ result' = fd /\ list' = "freed" /\ blocking' = TRUE /\ timeouts' = TRUE
        /\ UNCHANGED <<purpose, count, address, fd, opened, leaked, net>>
    BY <1>7 DEF Create!Settle, Create!Return
  <2>1. Below(k)' /\ fd # 0
    BY <2>0 DEF Below, InHand, Trying
  <2> QED
    BY <2>0, <2>1 DEF SocketInv, Trying
<1>8. CASE Create!Listen
  <2>1. CASE net' = "listening" /\ Create!Return
    <3>0. /\ step = "listen" /\ step' = "done" /\ result' = fd /\ list' = "freed"
          /\ UNCHANGED <<purpose, count, address, fd, opened, leaked>>
      BY <1>8, <2>1 DEF Create!Listen, Create!Return
    <3>1. Below(k)' /\ fd # 0
      BY <3>0 DEF Below, InHand, Trying
    <3> QED
      BY <2>1, <3>0, <3>1 DEF SocketInv, Trying
  <2>2. CASE step' = "close" /\ UNCHANGED <<Create!found, fd, opened, leaked, net, result>>
    <3>0. step = "listen" /\ UNCHANGED <<purpose, count, address, list, fd, opened, leaked, net, result>>
      BY <1>8, <2>2 DEF Create!Listen, Create!found
    <3>1. Below(k)'
      BY <2>2, <3>0 DEF Below, InHand, Trying
    <3> QED
      BY <2>2, <3>0, <3>1 DEF SocketInv, Trying
  <2> QED
    BY <1>8, <2>1, <2>2, Zenon DEF Create!Listen
<1>9. CASE Create!Finish
  <2>0. /\ step = "done" /\ step' = "returned"
        /\ UNCHANGED <<purpose, count, address, list, fd, opened, leaked, net, blocking, timeouts, result>>
        /\ error' = "Success" <=> result # 0
    BY <1>9 DEF Create!Finish, Create!found, Create!handle, Create!NoSocket
  <2>1. Below(k)'
    BY <2>0 DEF Below, InHand, Trying
  <2> QED
    BY <2>0, <2>1 DEF SocketInv, Trying
<1>10. CASE UNCHANGED Create!vars
  BY <1>10 DEF Create!vars, SocketInv, Below, InHand
<1> QED
  BY <1>1, <1>2, <1>3, <1>4, <1>5, <1>6, <1>7, <1>8, <1>9, <1>10 DEF Create!Next

\* HttplibSocket::SocketIsSound, for any number of addresses of a name and any
\* size of an fd_set: what create_socket() returns is connected or listening,
\* and nothing else is left open that it did not give up.
THEOREM SocketsStaySound == AllSpec => []SocketIsSound
<1>1. AllInit => SocketInv
  BY SocketInit DEF AllInit
<1>2. SocketInv /\ [AllNext]_all => SocketInv'
  BY SocketMoves, SocketStep
<1>3. SocketInv => SocketIsSound
  <2> SUFFICES ASSUME SocketInv, step = "returned" PROVE SocketIsSound
    BY DEF SocketIsSound, Create!SocketIsSound
  <2> PICK k \in Nat : Below(k)
    BY DEF SocketInv
  <2>1. /\ leaked = 1 .. k
        /\ result # 0 => fd = k + 1 /\ result = fd /\ opened = 1 .. k + 1
        /\ result = 0 => opened = 1 .. k
    BY DEF SocketInv, Below, InHand, Trying
  <2>2. opened = leaked \cup ({result} \ {0}) /\ (result # 0 => result \notin leaked)
    BY <2>1
  <2> QED
    BY <2>2 DEF SocketInv, SocketIsSound, Create!SocketIsSound, Create!NoSocket
<1> QED BY <1>1, <1>2, <1>3, PTL DEF AllSpec

(***************************************************************************)
(* Forms.  First the operators: where a pattern matches, what the text is  *)
(* put together from, and where its parts begin.                           *)
(***************************************************************************)
\* What holds of zero and of the next of each number of which it holds.
LEMMA Counting ==
  ASSUME NEW T, 0 \in T, \A n \in Nat : n \in T => n + 1 \in T
  PROVE  \A n \in Nat : n \in T
<1> SUFFICES ASSUME \E n \in Nat : n \notin T
             PROVE  FALSE
  OBVIOUS
<1> DEFINE R == OpToRel(<, Nat)
           U == {n \in Nat : n \notin T}
<1>1. IsWellFoundedOn(R, Nat)
  BY NatLessThanWellFounded, Zenon
<1>2. \A x, y \in Nat : y < x => <<y, x>> \in R
  BY Zenon DEF OpToRel
<1>3. U \subseteq Nat /\ U # {}
  OBVIOUS
<1> HIDE DEF R, U
<1>4. PICK x \in U : \A y \in U : ~(<<y, x>> \in R)
  BY <1>1, <1>3, WFMin
<1>5. x \in Nat /\ x \notin T /\ x # 0
  BY <1>4 DEF U
<1>6. x - 1 \in Nat /\ x - 1 < x /\ (x - 1) + 1 = x
  BY <1>5
<1>7. x - 1 \in U
  BY <1>5, <1>6 DEF U
<1> QED
  BY <1>2, <1>3, <1>4, <1>5, <1>6, <1>7

\* Characters i + 1 and following of s are those of p.
Matches(s, i, p) == i + Len(p) <= Len(s) /\ \A j \in 1 .. Len(p) : s[i + j] = p[j]

LEMMA MatchIsPrefix ==
  ASSUME NEW S, NEW s \in Seq(S), NEW p \in Seq(S), NEW i \in 0 .. Len(s)
  PROVE  Form!StartsWith(s, i, p) <=> Matches(s, i, p)
<1> DEFINE t == SubSeq(s, i + 1, Len(s))
<1>1. Len(s) \in Nat /\ Len(p) \in Nat
  BY LenProperties
<1>2. \A k \in i + 1 .. Len(s) : s[k] \in S
  BY <1>1, ElementOfSeq
<1>3. /\ t \in Seq(S)
      /\ Len(t) = Len(s) - i
      /\ \A k \in 1 .. Len(s) - i : t[k] = s[i + k]
  <2>1. /\ t \in Seq(S)
        /\ Len(t) = IF i + 1 <= Len(s) THEN Len(s) - (i + 1) + 1 ELSE 0
        /\ \A k \in 1 .. Len(s) - (i + 1) + 1 : t[k] = s[(i + 1) + k - 1]
    BY <1>1, <1>2, SubSeqProperties
  <2> QED BY <1>1, <2>1
<1>4. SubSeq(p, 1, Len(p)) = p
  BY SubSeqFull
<1> HIDE DEF t
<1>5. ASSUME Len(p) <= Len(t)
      PROVE  p = SubSeq(t, 1, Len(p)) <=> \A j \in 1 .. Len(p) : s[i + j] = p[j]
  <2> DEFINE u == SubSeq(t, 1, Len(p))
  <2>1. \A k \in 1 .. Len(p) : t[k] \in S
    BY <1>1, <1>3, <1>5, ElementOfSeq
  <2>2. u \in Seq(S) /\ Len(u) = Len(p) /\ \A k \in 1 .. Len(p) : u[k] = t[k]
    <3>1. /\ u \in Seq(S)
          /\ Len(u) = IF 1 <= Len(p) THEN Len(p) - 1 + 1 ELSE 0
          /\ \A k \in 1 .. Len(p) - 1 + 1 : u[k] = t[1 + k - 1]
      BY <1>1, <2>1, SubSeqProperties
    <3> QED BY <1>1, <3>1
  <2> HIDE DEF u
  <2>3. p = u <=> \A k \in 1 .. Len(p) : p[k] = u[k]
    BY <2>2, SeqEqual
  <2>4. \A k \in 1 .. Len(p) : u[k] = s[i + k]
    BY <1>1, <1>3, <1>5, <2>2
  <2> QED
    BY <2>3, <2>4 DEF u
<1>6. Form!StartsWith(s, i, p) <=> Len(p) <= Len(t) /\ p = SubSeq(t, 1, Len(p))
  BY <1>4 DEF Form!StartsWith, Form!IsPrefix, t
<1> QED
  BY <1>1, <1>3, <1>5, <1>6 DEF Matches

\* FlattenSeq, whose definition is recursive, gives the parts one after another.
LEMMA Flattened ==
  ASSUME NEW S, NEW n \in Nat, n # 0, NEW seqs \in [1 .. n -> Seq(S)]
  PROVE  \E f \in [0 .. n -> Seq(S)] :
           /\ f[0] = <<>>
           /\ \A i \in 1 .. n : f[i] = f[i - 1] \o seqs[i]
           /\ Form!FlattenSeq(seqs) = f[n]
<1> DEFINE Fits(g, m) == g = [i \in 1 .. m |-> IF i = 1 THEN seqs[i] ELSE g[i - 1] \o seqs[i]]
           T == {m \in Nat : \E g : Fits(g, m)}
<1>1. Fits([i \in 1 .. 0 |-> <<>>], 0)
  OBVIOUS
<1>2. 0 \in T
  BY <1>1
<1>3. ASSUME NEW m \in Nat, m \in T
      PROVE  m + 1 \in T
  <2>1. PICK g : Fits(g, m)
    BY <1>3
  <2> DEFINE h == [i \in 1 .. m + 1 |->
                     IF i = 1 THEN seqs[i] ELSE g[i - 1] \o seqs[i]]
  <2>2. ASSUME NEW i \in 1 .. m
        PROVE  h[i] = g[i]
    <3>1. g[i] = IF i = 1 THEN seqs[i] ELSE g[i - 1] \o seqs[i]
      BY <2>1
    <3>2. i \in 1 .. m + 1
      OBVIOUS
    <3> QED BY <3>1, <3>2
  <2>3. \A i \in 1 .. m + 1 : i # 1 => i - 1 \in 1 .. m
    OBVIOUS
  <2>4. \A i \in 1 .. m + 1 : h[i] = IF i = 1 THEN seqs[i] ELSE h[i - 1] \o seqs[i]
    BY <2>2, <2>3
  <2>5. Fits(h, m + 1)
    BY <2>4
  <2> HIDE DEF Fits, h
  <2> QED
    BY <2>5
<1>4. \E g : Fits(g, n)
  <2> HIDE DEF Fits
  <2>1. \A m \in Nat : m \in T
    <3> HIDE DEF T
    <3> QED BY <1>2, <1>3, Counting
  <2> QED BY <2>1
<1> DEFINE F == CHOOSE g : Fits(g, n)
<1>5. Fits(F, n)
  <2> HIDE DEF Fits
  <2> QED BY <1>4
<1>6. Len(seqs) = n /\ DOMAIN seqs = 1 .. n
  <2>1. seqs \in Seq(Seq(S)) /\ DOMAIN seqs = 1 .. n
    BY SeqDef
  <2> QED BY <2>1, LenProperties
<1>7. Form!FlattenSeq(seqs) = F[n]
  BY <1>6 DEF Form!FlattenSeq
<1> HIDE DEF F
<1>8. \A i \in 1 .. n : F[i] = IF i = 1 THEN seqs[i] ELSE F[i - 1] \o seqs[i]
  BY <1>5
<1> DEFINE U == {m \in Nat : m \in 1 .. n => F[m] \in Seq(S)}
<1>9. \A m \in Nat : m \in U
  <2>1. 0 \in U
    OBVIOUS
  <2>2. ASSUME NEW m \in Nat, m \in U
        PROVE  m + 1 \in U
    <3>1. CASE m + 1 \in 1 .. n
      <4>1. seqs[m + 1] \in Seq(S)
        BY <3>1
      <4>2. CASE m = 0
        BY <1>8, <3>1, <4>1, <4>2
      <4>3. CASE m # 0
        <5>1. m \in 1 .. n /\ F[m] \in Seq(S) /\ (m + 1) - 1 = m
          BY <2>2, <3>1, <4>3
        <5>2. F[m] \o seqs[m + 1] \in Seq(S)
          BY <4>1, <5>1, ConcatProperties
        <5>3. F[m + 1] = IF m + 1 = 1 THEN seqs[m + 1] ELSE F[(m + 1) - 1] \o seqs[m + 1]
          BY <1>8, <3>1
        <5>4. m + 1 # 1 /\ (m + 1) - 1 = m
          BY <4>3
        <5>5. F[m + 1] = F[m] \o seqs[m + 1]
          BY <5>3, <5>4, Zenon
        <5>6. F[m + 1] \in Seq(S)
          BY <5>2, <5>5, Zenon
        <5> QED
          BY <5>6
      <4> QED BY <4>2, <4>3
    <3> QED BY <3>1
  <2> HIDE DEF U
  <2> QED BY <2>1, <2>2, Counting
<1> DEFINE f == [i \in 0 .. n |-> IF i = 0 THEN <<>> ELSE F[i]]
<1>10. f \in [0 .. n -> Seq(S)]
  <2>1. <<>> \in Seq(S)
    BY EmptySeq
  <2> QED BY <1>9, <2>1
<1>11. ASSUME NEW i \in 1 .. n
       PROVE  f[i] = f[i - 1] \o seqs[i]
  <2>1. CASE i = 1
    <3>1. f[0] = <<>> /\ f[1] = seqs[1]
      BY <1>8, <2>1
    <3>2. <<>> \o seqs[1] = seqs[1]
      BY <2>1, ConcatEmptySeq
    <3> QED BY <2>1, <3>1, <3>2
  <2>2. CASE i # 1
    <3>1. i - 1 \in 1 .. n /\ i - 1 \in 0 .. n /\ i - 1 # 0 /\ i \in 0 .. n /\ i # 0
      BY <2>2
    <3>2. f[i] = F[i] /\ f[i - 1] = F[i - 1]
      BY <3>1
    <3> HIDE DEF f
    <3>3. F[i] = F[i - 1] \o seqs[i]
      BY <1>8, <2>2
    <3> QED BY <3>2, <3>3
  <2> QED BY <2>1, <2>2
<1>12. f[0] = <<>> /\ f[n] = F[n]
  OBVIOUS
<1> HIDE DEF f
<1> QED
  BY <1>7, <1>10, <1>11, <1>12

\* A pattern of two parts matches where both do.
LEMMA MatchBoth ==
  ASSUME NEW S, NEW s \in Seq(S), NEW a \in Seq(S), NEW b \in Seq(S), NEW i \in Nat
  PROVE  Matches(s, i, a \o b) <=> Matches(s, i, a) /\ Matches(s, i + Len(a), b)
<1>1. Len(s) \in Nat /\ Len(a) \in Nat /\ Len(b) \in Nat
  BY LenProperties
<1>2. /\ Len(a \o b) = Len(a) + Len(b)
      /\ \A j \in 1 .. Len(a) + Len(b) :
           (a \o b)[j] = IF j <= Len(a) THEN a[j] ELSE b[j - Len(a)]
  BY ConcatProperties
<1> DEFINE c == a \o b
<1>3. /\ Len(c) = Len(a) + Len(b)
      /\ \A j \in 1 .. Len(a) + Len(b) : c[j] = IF j <= Len(a) THEN a[j] ELSE b[j - Len(a)]
  BY <1>2
<1> HIDE DEF c
<1>4. ASSUME Matches(s, i, c)
      PROVE  Matches(s, i, a) /\ Matches(s, i + Len(a), b)
  <2>1. i + Len(a) <= Len(s) /\ (i + Len(a)) + Len(b) <= Len(s)
    BY <1>1, <1>3, <1>4 DEF Matches
  <2>2. ASSUME NEW j \in 1 .. Len(a)
        PROVE  s[i + j] = a[j]
    <3>1. j \in 1 .. Len(a) + Len(b)
      BY <1>1
    <3> QED BY <1>3, <1>4, <3>1 DEF Matches
  <2>3. ASSUME NEW j \in 1 .. Len(b)
        PROVE  s[(i + Len(a)) + j] = b[j]
    <3>1. /\ Len(a) + j \in 1 .. Len(a) + Len(b) /\ ~(Len(a) + j <= Len(a))
          /\ (Len(a) + j) - Len(a) = j /\ (i + Len(a)) + j = i + (Len(a) + j)
      BY <1>1
    <3>2. s[i + (Len(a) + j)] = c[Len(a) + j]
      BY <1>3, <1>4, <3>1 DEF Matches
    <3>3. c[Len(a) + j] = b[j]
      BY <1>3, <3>1
    <3> QED BY <3>1, <3>2, <3>3
  <2> QED BY <2>1, <2>2, <2>3 DEF Matches
<1>5. ASSUME Matches(s, i, a), Matches(s, i + Len(a), b)
      PROVE  Matches(s, i, c)
  <2>1. i + Len(c) <= Len(s)
    BY <1>1, <1>3, <1>5 DEF Matches
  <2>2. ASSUME NEW j \in 1 .. Len(c)
        PROVE  s[i + j] = c[j]
    <3>1. CASE j <= Len(a)
      <4>1. j \in 1 .. Len(a) /\ j \in 1 .. Len(a) + Len(b)
        BY <1>1, <1>3, <3>1
      <4> QED BY <1>3, <1>5, <3>1, <4>1 DEF Matches
    <3>2. CASE ~(j <= Len(a))
      <4>1. /\ j - Len(a) \in 1 .. Len(b) /\ j \in 1 .. Len(a) + Len(b)
            /\ (i + Len(a)) + (j - Len(a)) = i + j
        BY <1>1, <1>3, <3>2
      <4>2. s[(i + Len(a)) + (j - Len(a))] = b[j - Len(a)]
        BY <1>5, <4>1 DEF Matches
      <4> QED BY <1>3, <3>2, <4>1, <4>2
    <3> QED BY <3>1, <3>2
  <2> QED BY <2>1, <2>2 DEF Matches
<1> QED
  BY <1>4, <1>5 DEF c

LEMMA MatchSelf ==
  ASSUME NEW S, NEW s \in Seq(S)
  PROVE  Matches(s, 0, s)
BY LenProperties DEF Matches

(***************************************************************************)
(* The text of a body.                                                     *)
(***************************************************************************)
Chars == Form!Chars
CRLF == Form!CRLF
Dash == Form!Dash
Delimiter == Form!Delimiter

LEMMA Signs ==
  ASSUME PartsAssumption
  PROVE  /\ CRLF \in Seq(Chars) /\ Len(CRLF) = 2
         /\ CRLF[1] = "CR" /\ CRLF[2] = "LF"
         /\ Dash \in Seq(Chars) /\ Len(Dash) = 2
         /\ Dash[1] = "-" /\ Dash[2] = "-"
         /\ <<"h">> \in Seq(Chars) /\ Len(<<"h">>) = 1
         /\ Boundary \in Seq(Chars) /\ Len(Boundary) \in Nat
         /\ \A j \in 1 .. Len(Boundary) : Boundary[j] # "CR"
         /\ CRLF \o Dash \in Seq(Chars) /\ Len(CRLF \o Dash) = 4
         /\ Dash \o CRLF \in Seq(Chars) /\ Len(Dash \o CRLF) = 4
         /\ Delimiter \in Seq(Chars) /\ Len(Delimiter) = Len(Boundary) + 4
         /\ Dash \o Boundary \o CRLF \in Seq(Chars)
         /\ Len(Dash \o Boundary \o CRLF) = Len(Boundary) + 4
<1>1. {"CR", "LF", "-", "h"} \subseteq Chars
  BY DEF Chars, Form!Chars
<1> HIDE DEF Chars
<1>2. /\ CRLF \in Seq(Chars) /\ Len(CRLF) = 2 /\ CRLF[1] = "CR" /\ CRLF[2] = "LF"
      /\ Dash \in Seq(Chars) /\ Len(Dash) = 2 /\ Dash[1] = "-" /\ Dash[2] = "-"
      /\ <<"h">> \in Seq(Chars) /\ Len(<<"h">>) = 1
  BY <1>1 DEF CRLF, Form!CRLF, Dash, Form!Dash
<1>3. Boundary \in Seq(Chars) /\ Len(Boundary) \in Nat
  BY LenProperties DEF PartsAssumption, Form!FormAssumption, Chars
<1>4. \A j \in 1 .. Len(Boundary) : Boundary[j] # "CR"
  BY <1>3, LenProperties DEF PartsAssumption, Form!FormAssumption, Form!Range
<1>5. CRLF \o Dash \in Seq(Chars) /\ Len(CRLF \o Dash) = 4
  <2>1. CRLF \o Dash \in Seq(Chars) /\ Len(CRLF \o Dash) = Len(CRLF) + Len(Dash)
    BY <1>2, ConcatProperties
  <2> QED BY <1>2, <2>1
<1>6. Dash \o CRLF \in Seq(Chars) /\ Len(Dash \o CRLF) = 4
  BY <1>2, ConcatProperties
<1>7. Delimiter \in Seq(Chars) /\ Len(Delimiter) = Len(Boundary) + 4
  <2>1. /\ (CRLF \o Dash) \o Boundary \in Seq(Chars)
        /\ Len((CRLF \o Dash) \o Boundary) = Len(CRLF \o Dash) + Len(Boundary)
    BY <1>3, <1>5, ConcatProperties
  <2> QED BY <1>3, <1>5, <2>1 DEF Delimiter, Form!Delimiter, CRLF, Dash
<1>8. Dash \o Boundary \in Seq(Chars) /\ Len(Dash \o Boundary) = Len(Boundary) + 2
  <2>1. Dash \o Boundary \in Seq(Chars) /\ Len(Dash \o Boundary) = Len(Dash) + Len(Boundary)
    BY <1>2, <1>3, ConcatProperties
  <2> QED BY <1>2, <1>3, <2>1
<1>9. /\ (Dash \o Boundary) \o CRLF \in Seq(Chars)
      /\ Len((Dash \o Boundary) \o CRLF) = (Len(Boundary) + 2) + 2
  BY <1>2, <1>8, ConcatProperties
<1> QED
  BY <1>2, <1>3, <1>4, <1>5, <1>6, <1>7, <1>9

\* Where the delimiter behind content k begins, and where it ends.
EndOf(st, k) == st[k] + Len(items[k])
Behind(st, k) == EndOf(st, k) + (Len(Boundary) + 4)

\* Content k begins after st[k] characters, behind its header; what follows is
\* the delimiter, and the next part or the end.
LayoutAt(st, k) ==
  /\ st[k] \in Nat /\ items[k] \in Contents /\ st[k] >= 5
  /\ Matches(text, st[k] - 5, <<"h">>)
  /\ Matches(text, st[k] - 4, CRLF)
  /\ Matches(text, st[k] - 2, CRLF)
  /\ Matches(text, st[k], items[k])
  /\ Matches(text, EndOf(st, k), Delimiter)
  /\ k < Len(items) => Matches(text, Behind(st, k), CRLF) /\ st[k + 1] = Behind(st, k) + 7
  /\ k = Len(items) =>
       /\ Matches(text, Behind(st, k), Dash \o CRLF)
       /\ text = Form!Encode(items) => Len(text) = Behind(st, k) + 4

Layout(st) ==
  /\ text \in Seq(Chars) /\ items \in Seq(Contents)
  /\ Len(items) \in Nat \ {0}
  /\ Matches(text, 0, Dash \o Boundary \o CRLF)
  /\ st[1] = Len(Boundary) + 9
  /\ \A k \in 1 .. Len(items) : LayoutAt(st, k)

LEMMA PartMatches ==
  ASSUME PartsAssumption, NEW s \in Seq(Chars), NEW c \in Seq(Chars), NEW i \in Nat,
         NEW p, p = Dash \o Boundary \o CRLF \o <<"h">> \o CRLF \o CRLF \o c \o CRLF
  PROVE  /\ p \in Seq(Chars) /\ Len(p) = Len(Boundary) + Len(c) + 11
         /\ Matches(s, i, p) =>
              LET b == i + (Len(Boundary) + 9)
              IN  /\ Matches(s, i, Dash \o Boundary \o CRLF)
                  /\ Matches(s, i, Dash) /\ Matches(s, i + 2, Boundary)
                  /\ Matches(s, b - 5, <<"h">>)
                  /\ Matches(s, b - 4, CRLF)
                  /\ Matches(s, b - 2, CRLF)
                  /\ Matches(s, b, c)
                  /\ Matches(s, b + Len(c), CRLF)
<1> DEFINE p1 == Dash \o Boundary \o CRLF
           p2 == p1 \o <<"h">>
           p3 == p2 \o CRLF
           p4 == p3 \o CRLF
           p5 == p4 \o c
<1> USE Signs
<1>1. p1 \in Seq(Chars) /\ Len(p1) = Len(Boundary) + 4 /\ Len(c) \in Nat /\ Len(Boundary) \in Nat
  BY LenProperties
<1>2. Matches(s, i, p1) => Matches(s, i, Dash) /\ Matches(s, i + 2, Boundary)
  <2>1. Dash \o Boundary \in Seq(Chars)
    BY ConcatProperties
  <2>2. Matches(s, i, (Dash \o Boundary) \o CRLF) => Matches(s, i, Dash \o Boundary)
    BY <2>1, MatchBoth
  <2>3. Matches(s, i, Dash \o Boundary) => Matches(s, i, Dash) /\ Matches(s, i + Len(Dash), Boundary)
    BY MatchBoth
  <2> QED BY <2>2, <2>3
<1> HIDE DEF p1
<1>3. p2 \in Seq(Chars) /\ Len(p2) = Len(p1) + 1
  BY <1>1, ConcatProperties
<1>4. Matches(s, i, p2) => Matches(s, i, p1) /\ Matches(s, i + Len(p1), <<"h">>)
  BY <1>1, MatchBoth
<1> HIDE DEF p2
<1>5. p3 \in Seq(Chars) /\ Len(p3) = Len(p2) + 2
  BY <1>3, ConcatProperties
<1>6. Matches(s, i, p3) => Matches(s, i, p2) /\ Matches(s, i + Len(p2), CRLF)
  BY <1>3, MatchBoth
<1> HIDE DEF p3
<1>7. p4 \in Seq(Chars) /\ Len(p4) = Len(p3) + 2
  BY <1>5, ConcatProperties
<1>8. Matches(s, i, p4) => Matches(s, i, p3) /\ Matches(s, i + Len(p3), CRLF)
  BY <1>5, MatchBoth
<1> HIDE DEF p4
<1>9. p5 \in Seq(Chars) /\ Len(p5) = Len(p4) + Len(c)
  <2>1. p4 \in Seq(Chars) /\ c \in Seq(Chars)
    BY <1>7
  <2> QED BY ONLY <2>1, ConcatProperties
<1>10. Matches(s, i, p5) => Matches(s, i, p4) /\ Matches(s, i + Len(p4), c)
  BY <1>7, MatchBoth
<1> HIDE DEF p5
<1>11. p5 \o CRLF \in Seq(Chars) /\ Len(p5 \o CRLF) = Len(p5) + 2
  <2>1. p5 \in Seq(Chars) /\ CRLF \in Seq(Chars)
    BY <1>9
  <2>2. p5 \o CRLF \in Seq(Chars) /\ Len(p5 \o CRLF) = Len(p5) + Len(CRLF)
    BY ONLY <2>1, ConcatProperties
  <2> QED BY <2>2
<1>12. Matches(s, i, p5 \o CRLF) => Matches(s, i, p5) /\ Matches(s, i + Len(p5), CRLF)
  BY <1>9, MatchBoth
<1>13. p = p5 \o CRLF
  BY DEF p1, p2, p3, p4, p5
<1>14. /\ Len(p1) = Len(Boundary) + 4 /\ Len(p2) = Len(Boundary) + 5 /\ Len(p3) = Len(Boundary) + 7
       /\ Len(p4) = Len(Boundary) + 9 /\ Len(p5) = Len(Boundary) + 9 + Len(c)
  BY <1>1, <1>3, <1>5, <1>7, <1>9
<1>15. p \in Seq(Chars) /\ Len(p) = Len(Boundary) + Len(c) + 11
  <2>1. Len(p) = (Len(Boundary) + 9 + Len(c)) + 2
    BY <1>11, <1>13, <1>14
  <2> QED BY <1>1, <1>11, <1>13, <2>1
<1> DEFINE b == i + (Len(Boundary) + 9)
<1>16. /\ i + Len(p1) = b - 5 /\ i + Len(p2) = b - 4 /\ i + Len(p3) = b - 2 /\ i + Len(p4) = b
       /\ i + Len(p5) = b + Len(c)
  BY <1>1, <1>14
<1> HIDE DEF b
<1>17. Matches(s, i, p) =>
         /\ Matches(s, i, p1) /\ Matches(s, i, Dash) /\ Matches(s, i + 2, Boundary)
         /\ Matches(s, b - 5, <<"h">>) /\ Matches(s, b - 4, CRLF) /\ Matches(s, b - 2, CRLF)
         /\ Matches(s, b, c) /\ Matches(s, b + Len(c), CRLF)
  BY <1>2, <1>4, <1>6, <1>8, <1>10, <1>12, <1>13, <1>16
<1> QED
  BY <1>15, <1>17, Zenon DEF b, p1

\* Texts put together one after another: each is where the ones before it end.
LEMMA Chained ==
  ASSUME NEW S, NEW n \in Nat, n # 0, NEW seqs \in [1 .. n -> Seq(S)],
         NEW f \in [0 .. n -> Seq(S)], \A i \in 1 .. n : f[i] = f[i - 1] \o seqs[i],
         NEW s \in Seq(S), Matches(s, 0, f[n])
  PROVE  \A k \in 1 .. n :
           /\ Len(f[k]) = Len(f[k - 1]) + Len(seqs[k])
           /\ Matches(s, Len(f[k - 1]), seqs[k])
<1>1. \A k \in 1 .. n : k - 1 \in 0 .. n /\ k \in 0 .. n
  OBVIOUS
<1>2. \A k \in 1 .. n : f[k - 1] \in Seq(S) /\ seqs[k] \in Seq(S) /\ Len(f[k - 1]) \in Nat
  BY <1>1, LenProperties
<1>3. ASSUME NEW k \in 1 .. n, Matches(s, 0, f[k])
      PROVE  Matches(s, 0, f[k - 1]) /\ Matches(s, Len(f[k - 1]), seqs[k])
  <2> DEFINE a == f[k - 1]
             b == seqs[k]
  <2>1. a \in Seq(S) /\ b \in Seq(S) /\ Len(a) \in Nat /\ 0 + Len(a) = Len(a)
    BY <1>2
  <2>2. f[k] = a \o b
    OBVIOUS
  <2> HIDE DEF a, b
  <2>3. Matches(s, 0, a \o b)
    BY <1>3, <2>2
  <2>4. Matches(s, 0, a) /\ Matches(s, 0 + Len(a), b)
    BY <2>1, <2>3, MatchBoth
  <2> QED BY <2>1, <2>4 DEF a, b
<1>4. \A k \in 0 .. n : Matches(s, 0, f[k])
  <2> DEFINE T == {m \in Nat : m <= n => Matches(s, 0, f[n - m])}
  <2>1. 0 \in T
    OBVIOUS
  <2>2. ASSUME NEW m \in Nat, m \in T
        PROVE  m + 1 \in T
    <3>1. CASE m + 1 <= n
      <4>1. n - m \in 1 .. n /\ (n - m) - 1 = n - (m + 1) /\ m <= n
        BY <3>1
      <4>2. Matches(s, 0, f[n - m])
        BY <2>2, <4>1
      <4>3. Matches(s, 0, f[(n - m) - 1])
        BY <1>3, <4>1, <4>2
      <4> QED BY <4>1, <4>3
    <3> QED BY <3>1
  <2> HIDE DEF T
  <2>3. \A m \in Nat : m \in T
    BY <2>1, <2>2, Counting
  <2>4. \A k \in 0 .. n : n - k \in Nat /\ n - k <= n /\ n - (n - k) = k
    OBVIOUS
  <2> QED BY <2>3, <2>4 DEF T
<1>5. ASSUME NEW k \in 1 .. n
      PROVE  Len(f[k]) = Len(f[k - 1]) + Len(seqs[k])
  BY <1>2, ConcatProperties, ZenonT(60)
<1> QED
  BY <1>1, <1>3, <1>4, <1>5

\* What matches where, when part k begins after i characters.
PartAt(i, c) ==
  /\ Matches(text, i, Dash \o Boundary \o CRLF)
  /\ Matches(text, i, Dash) /\ Matches(text, i + 2, Boundary)
  /\ Matches(text, i + (Len(Boundary) + 9) - 5, <<"h">>)
  /\ Matches(text, i + (Len(Boundary) + 9) - 4, CRLF)
  /\ Matches(text, i + (Len(Boundary) + 9) - 2, CRLF)
  /\ Matches(text, i + (Len(Boundary) + 9), c)
  /\ Matches(text, i + (Len(Boundary) + 9) + Len(c), CRLF)

\* The end of a body, after i characters.
EndAt(i) ==
  /\ Matches(text, i, Dash) /\ Matches(text, i + 2, Boundary)
  /\ Matches(text, i + 2 + Len(Boundary), Dash)
  /\ Matches(text, i + 4 + Len(Boundary), CRLF)

LEMMA EndMatches ==
  ASSUME PartsAssumption, NEW a \in Seq(Chars), NEW e \in Seq(Chars),
         NEW q, q = a \o Dash \o Boundary \o Dash \o CRLF, text = q \o e
  PROVE  /\ text \in Seq(Chars) /\ Len(q) = Len(a) + 6 + Len(Boundary)
         /\ Matches(text, 0, a) /\ EndAt(Len(a))
<1> USE Signs
<1> DEFINE q1 == a \o Dash
           q2 == q1 \o Boundary
           q3 == q2 \o Dash
           q4 == q3 \o CRLF
<1>0. Len(a) \in Nat /\ Len(e) \in Nat /\ Len(Boundary) \in Nat /\ q = q4
  BY LenProperties
<1>p. Dash \in Seq(Chars) /\ Boundary \in Seq(Chars) /\ CRLF \in Seq(Chars)
  OBVIOUS
<1>1. q1 \in Seq(Chars) /\ Len(q1) = Len(a) + Len(Dash)
  BY ConcatProperties
<1> HIDE DEF q1
<1>2. q2 \in Seq(Chars) /\ Len(q2) = Len(q1) + Len(Boundary)
  BY ONLY <1>p, <1>1, ConcatProperties
<1> HIDE DEF q2
<1>3. q3 \in Seq(Chars) /\ Len(q3) = Len(q2) + Len(Dash)
  BY ONLY <1>p, <1>2, ConcatProperties
<1> HIDE DEF q3
<1>4. q4 \in Seq(Chars) /\ Len(q4) = Len(q3) + Len(CRLF)
  BY ONLY <1>p, <1>3, ConcatProperties
<1> HIDE DEF q4
<1>5. text = q4 \o e
  BY <1>0
<1>6. text \in Seq(Chars)
  <2>1. q4 \o e \in Seq(Chars)
    BY <1>4, ConcatProperties
  <2> QED BY <1>5, <2>1
<1>7. Matches(text, 0, q4)
  <2>1. Matches(text, 0, text)
    BY <1>6, MatchSelf
  <2>2. Matches(text, 0, q4 \o e)
    BY <1>5, <2>1
  <2> QED BY <1>4, <1>6, <2>2, MatchBoth
<1>8. Matches(text, 0, q3) /\ Matches(text, 0 + Len(q3), CRLF)
  <2>1. Matches(text, 0, q3 \o CRLF)
    BY <1>7 DEF q4
  <2> QED BY <1>3, <1>6, <2>1, MatchBoth
<1>9. Matches(text, 0, q2) /\ Matches(text, 0 + Len(q2), Dash)
  <2>1. Matches(text, 0, q2 \o Dash)
    BY <1>8 DEF q3
  <2> QED BY <1>2, <1>6, <2>1, MatchBoth
<1>10. Matches(text, 0, q1) /\ Matches(text, 0 + Len(q1), Boundary)
  <2>1. Matches(text, 0, q1 \o Boundary)
    BY <1>9 DEF q2
  <2> QED BY <1>1, <1>6, <2>1, MatchBoth
<1>11. Matches(text, 0, a) /\ Matches(text, 0 + Len(a), Dash)
  <2>1. Matches(text, 0, a \o Dash)
    BY <1>10 DEF q1
  <2> QED BY <1>6, <2>1, MatchBoth
<1>12. /\ 0 + Len(a) = Len(a) /\ 0 + Len(q1) = Len(a) + 2
       /\ 0 + Len(q2) = Len(a) + 2 + Len(Boundary) /\ 0 + Len(q3) = Len(a) + 4 + Len(Boundary)
       /\ Len(q4) = Len(a) + 6 + Len(Boundary)
  <2>1. Len(q1) = Len(a) + 2
    BY <1>1
  <2>2. Len(q2) = (Len(a) + 2) + Len(Boundary)
    BY <1>2, <2>1
  <2>3. Len(q3) = ((Len(a) + 2) + Len(Boundary)) + 2
    BY <1>3, <2>2
  <2>4. Len(q4) = (((Len(a) + 2) + Len(Boundary)) + 2) + 2
    BY <1>4, <2>3
  <2> QED BY <1>0, <2>1, <2>2, <2>3, <2>4
<1>13. EndAt(Len(a))
  <2>1. Matches(text, Len(a), Dash) /\ Matches(text, Len(a) + 2, Boundary)
    BY <1>10, <1>11, <1>12
  <2>2. Matches(text, Len(a) + 2 + Len(Boundary), Dash)
    BY <1>9, <1>12
  <2>3. Matches(text, Len(a) + 4 + Len(Boundary), CRLF)
    BY <1>8, <1>12
  <2> QED BY <2>1, <2>2, <2>3 DEF EndAt
<1> QED
  BY <1>0, <1>6, <1>11, <1>12, <1>13

LEMMA TextOfForm ==
  ASSUME PartsAssumption, NEW n \in Nat, n # 0, items \in [1 .. n -> Contents],
         NEW e \in Epilogues, text = Form!Encode(items) \o e
  PROVE  \E L \in [0 .. n -> Nat] :
           /\ L[0] = 0
           /\ \A k \in 1 .. n : /\ L[k] = L[k - 1] + (Len(Boundary) + Len(items[k]) + 11)
                                /\ PartAt(L[k - 1], items[k])
           /\ EndAt(L[n])
           /\ text \in Seq(Chars)
           /\ Len(Form!Encode(items)) = L[n] + 6 + Len(Boundary)
<1> DEFINE seqs == [i \in 1 .. n |->
             Dash \o Boundary \o CRLF \o <<"h">> \o CRLF \o CRLF \o items[i] \o CRLF]
<1>1. /\ Len(items) = n
      /\ \A k \in 1 .. n : items[k] \in Seq(Chars)
  <2>1. items \in Seq(Contents) /\ DOMAIN items = 1 .. n
    BY SeqDef
  <2>2. \A k \in 1 .. n : items[k] \in Contents /\ items[k] \in Seq(Chars)
    BY DEF PartsAssumption, Form!FormAssumption, Chars
  <2> QED BY <2>1, <2>2, LenProperties
<1>2. e \in Seq(Chars)
  BY DEF PartsAssumption, Form!FormAssumption, Chars
<1>3. ASSUME NEW k \in 1 .. n
      PROVE  /\ seqs[k] \in Seq(Chars) /\ Len(seqs[k]) = Len(Boundary) + Len(items[k]) + 11
             /\ \A i \in Nat : text \in Seq(Chars) /\ Matches(text, i, seqs[k]) => PartAt(i, items[k])
  <2>1. <<>> \in Seq(Chars) /\ items[k] \in Seq(Chars)
    BY <1>1, EmptySeq
  <2>2. seqs[k] = Dash \o Boundary \o CRLF \o <<"h">> \o CRLF \o CRLF \o items[k] \o CRLF
    OBVIOUS
  <2> DEFINE p == seqs[k]
  <2>3. p = Dash \o Boundary \o CRLF \o <<"h">> \o CRLF \o CRLF \o items[k] \o CRLF
    BY <2>2
  <2> HIDE DEF seqs, p
  <2>4. p \in Seq(Chars) /\ Len(p) = Len(Boundary) + Len(items[k]) + 11
    BY <2>1, <2>3, PartMatches, ZenonT(60)
  <2>5. ASSUME NEW i \in Nat, text \in Seq(Chars), Matches(text, i, p)
        PROVE  PartAt(i, items[k])
    <3> DEFINE c == items[k]
    <3>1. c \in Seq(Chars) /\ p = Dash \o Boundary \o CRLF \o <<"h">> \o CRLF \o CRLF \o c \o CRLF
      BY <2>1, <2>3
    <3> HIDE DEF c
    <3>2. LET b == i + (Len(Boundary) + 9)
          IN  /\ Matches(text, i, Dash \o Boundary \o CRLF)
              /\ Matches(text, i, Dash) /\ Matches(text, i + 2, Boundary)
              /\ Matches(text, b - 5, <<"h">>)
              /\ Matches(text, b - 4, CRLF)
              /\ Matches(text, b - 2, CRLF)
              /\ Matches(text, b, c)
              /\ Matches(text, b + Len(c), CRLF)
      BY <2>5, <3>1, PartMatches
    <3>3. PartAt(i, c)
      BY <3>2 DEF PartAt
    <3> QED BY <3>3 DEF c
  <2> QED BY <2>4, <2>5 DEF p
<1>4. seqs \in [1 .. n -> Seq(Chars)]
  BY <1>3
<1>5. Form!Encode(items) = Form!FlattenSeq(seqs) \o Dash \o Boundary \o Dash \o CRLF
  BY <1>1 DEF Form!Encode, Dash, CRLF
<1> HIDE DEF seqs
<1>6. \A q \in [1 .. n -> Seq(Chars)] :
        \E f \in [0 .. n -> Seq(Chars)] :
          /\ f[0] = <<>>
          /\ \A i \in 1 .. n : f[i] = f[i - 1] \o q[i]
          /\ Form!FlattenSeq(q) = f[n]
  <2> SUFFICES ASSUME NEW q \in [1 .. n -> Seq(Chars)]
               PROVE  \E f \in [0 .. n -> Seq(Chars)] :
                        /\ f[0] = <<>>
                        /\ \A i \in 1 .. n : f[i] = f[i - 1] \o q[i]
                        /\ Form!FlattenSeq(q) = f[n]
    OBVIOUS
  <2> QED BY Flattened, Zenon
<1>7. PICK f \in [0 .. n -> Seq(Chars)] :
        /\ f[0] = <<>>
        /\ \A i \in 1 .. n : f[i] = f[i - 1] \o seqs[i]
        /\ Form!FlattenSeq(seqs) = f[n]
  BY <1>4, <1>6, Zenon
<1>8. /\ text \in Seq(Chars) /\ Len(Form!Encode(items)) = Len(f[n]) + 6 + Len(Boundary)
      /\ Matches(text, 0, f[n]) /\ EndAt(Len(f[n]))
  <2> DEFINE a == f[n]
             q == Form!Encode(items)
  <2>1. a \in Seq(Chars) /\ q = a \o Dash \o Boundary \o Dash \o CRLF /\ text = q \o e
    BY <1>5, <1>7
  <2> HIDE DEF a, q
  <2>2. /\ text \in Seq(Chars) /\ Len(q) = Len(a) + 6 + Len(Boundary)
        /\ Matches(text, 0, a) /\ EndAt(Len(a))
    BY <1>2, <2>1, EndMatches
  <2> QED BY <2>2 DEF a, q
<1>9. \A k \in 1 .. n : /\ Len(f[k]) = Len(f[k - 1]) + Len(seqs[k])
                        /\ Matches(text, Len(f[k - 1]), seqs[k])
  BY <1>4, <1>7, <1>8, Chained, ZenonT(60)
<1> DEFINE L == [k \in 0 .. n |-> Len(f[k])]
<1>10. L \in [0 .. n -> Nat]
  BY LenProperties
<1>11. L[0] = 0
  BY <1>7, EmptySeq
<1>12. L[n] = Len(f[n])
  OBVIOUS
<1>13. \A k \in 1 .. n : L[k] = Len(f[k]) /\ L[k - 1] = Len(f[k - 1]) /\ L[k - 1] \in Nat
  <2>1. \A k \in 1 .. n : k \in 0 .. n /\ k - 1 \in 0 .. n
    OBVIOUS
  <2> QED BY <1>10, <2>1
<1> HIDE DEF L
<1>14. ASSUME NEW k \in 1 .. n
       PROVE  /\ L[k] = L[k - 1] + (Len(Boundary) + Len(items[k]) + 11)
              /\ PartAt(L[k - 1], items[k])
  BY <1>3, <1>8, <1>9, <1>13
<1> QED
  BY <1>8, <1>10, <1>11, <1>12, <1>14

\* The text that Encode() puts together has the layout of a body.
LEMMA EncodeLayout ==
  ASSUME PartsAssumption, NEW n \in Nat, n # 0, items \in [1 .. n -> Contents],
         NEW e \in Epilogues, text = Form!Encode(items) \o e
  PROVE  \E st : Layout(st)
<1> USE Signs
<1>1. PICK L \in [0 .. n -> Nat] :
        /\ L[0] = 0
        /\ \A k \in 1 .. n : /\ L[k] = L[k - 1] + (Len(Boundary) + Len(items[k]) + 11)
                             /\ PartAt(L[k - 1], items[k])
        /\ EndAt(L[n])
        /\ text \in Seq(Chars)
        /\ Len(Form!Encode(items)) = L[n] + 6 + Len(Boundary)
  BY TextOfForm
<1>2. /\ items \in Seq(Contents) /\ Len(items) = n /\ Len(Boundary) \in Nat
      /\ \A k \in 1 .. n : items[k] \in Contents /\ items[k] \in Seq(Chars) /\ Len(items[k]) \in Nat
  <2>1. items \in Seq(Contents) /\ DOMAIN items = 1 .. n
    BY SeqDef
  <2>2. \A k \in 1 .. n : items[k] \in Contents /\ items[k] \in Seq(Chars)
    BY DEF PartsAssumption, Form!FormAssumption, Chars
  <2> QED BY <2>1, <2>2, LenProperties
<1> DEFINE st == [k \in 1 .. n |-> L[k - 1] + (Len(Boundary) + 9)]
<1>3. ASSUME NEW k \in 1 .. n
      PROVE  /\ st[k] \in Nat /\ st[k] >= 5 /\ L[k - 1] \in Nat /\ L[k] \in Nat
             /\ st[k] = L[k - 1] + (Len(Boundary) + 9)
             /\ EndOf(st, k) = st[k] + Len(items[k]) /\ EndOf(st, k) \in Nat
             /\ EndOf(st, k) + 2 = L[k] /\ EndOf(st, k) + 4 = L[k] + 2
             /\ Behind(st, k) = L[k] + 2 + Len(Boundary)
  <2>1. L[k - 1] \in Nat /\ L[k] \in Nat
    OBVIOUS
  <2>2. st[k] = L[k - 1] + (Len(Boundary) + 9)
    OBVIOUS
  <2>3. EndOf(st, k) = st[k] + Len(items[k]) /\ Behind(st, k) = EndOf(st, k) + (Len(Boundary) + 4)
    BY DEF EndOf, Behind
  <2>4. L[k] = L[k - 1] + (Len(Boundary) + Len(items[k]) + 11)
    BY <1>1
  <2> DEFINE a == L[k - 1]
             b == L[k]
             c == Len(items[k])
             d == Len(Boundary)
             s == st[k]
  <2>5. a \in Nat /\ b \in Nat /\ c \in Nat /\ d \in Nat /\ s = a + (d + 9) /\ b = a + (d + c + 11)
    BY <1>2, <2>1, <2>2, <2>4
  <2>6. EndOf(st, k) = s + c /\ Behind(st, k) = (s + c) + (d + 4)
    BY <2>3
  <2> HIDE DEF a, b, c, d, s, st
  <2>7. /\ s \in Nat /\ s >= 5 /\ s + c \in Nat /\ (s + c) + 2 = b /\ (s + c) + 4 = b + 2
        /\ (s + c) + (d + 4) = b + 2 + d
    BY <2>5
  <2> QED BY <2>1, <2>2, <2>3, <2>6, <2>7, Zenon DEF a, b, c, d, s
<1>4. ASSUME NEW k \in 1 .. n
      PROVE  PartAt(L[k - 1], items[k])
  BY <1>1
<1> HIDE DEF st
<1>5. ASSUME NEW k \in 1 .. n
      PROVE  /\ Matches(text, st[k] - 5, <<"h">>) /\ Matches(text, st[k] - 4, CRLF)
             /\ Matches(text, st[k] - 2, CRLF)
             /\ Matches(text, st[k], items[k]) /\ Matches(text, EndOf(st, k), CRLF)
  <2>1. /\ Matches(text, L[k - 1] + (Len(Boundary) + 9) - 5, <<"h">>)
        /\ Matches(text, L[k - 1] + (Len(Boundary) + 9) - 4, CRLF)
        /\ Matches(text, L[k - 1] + (Len(Boundary) + 9) - 2, CRLF)
        /\ Matches(text, L[k - 1] + (Len(Boundary) + 9), items[k])
        /\ Matches(text, L[k - 1] + (Len(Boundary) + 9) + Len(items[k]), CRLF)
    BY <1>4 DEF PartAt
  <2>2. st[k] = L[k - 1] + (Len(Boundary) + 9) /\ EndOf(st, k) = st[k] + Len(items[k])
    BY <1>3
  <2>3. /\ L[k - 1] + (Len(Boundary) + 9) - 5 = st[k] - 5
        /\ L[k - 1] + (Len(Boundary) + 9) - 4 = st[k] - 4
        /\ L[k - 1] + (Len(Boundary) + 9) - 2 = st[k] - 2
    <3>1. \A a, d \in Nat : /\ a + (d + 9) - 5 = (a + (d + 9)) - 5
                            /\ a + (d + 9) - 4 = (a + (d + 9)) - 4
                            /\ a + (d + 9) - 2 = (a + (d + 9)) - 2
      OBVIOUS
    <3>2. L[k - 1] \in Nat /\ Len(Boundary) \in Nat
      BY <1>2, <1>3
    <3>3. /\ L[k - 1] + (Len(Boundary) + 9) - 5 = (L[k - 1] + (Len(Boundary) + 9)) - 5
          /\ L[k - 1] + (Len(Boundary) + 9) - 4 = (L[k - 1] + (Len(Boundary) + 9)) - 4
          /\ L[k - 1] + (Len(Boundary) + 9) - 2 = (L[k - 1] + (Len(Boundary) + 9)) - 2
      BY <3>1, <3>2, Zenon
    <3> QED BY <2>2, <3>3, Zenon
  <2> QED BY <2>1, <2>2, <2>3, Zenon
<1>6. ASSUME NEW k \in 1 .. n
      PROVE  Matches(text, L[k], Dash) /\ Matches(text, L[k] + 2, Boundary)
  <2>1. CASE k = n
    BY <1>1, <2>1 DEF EndAt
  <2>2. CASE k < n
    <3>1. k + 1 \in 1 .. n /\ (k + 1) - 1 = k
      BY <2>2
    <3>2. PartAt(L[k], items[k + 1])
      BY <1>1, <3>1
    <3> QED BY <3>2 DEF PartAt
  <2> QED BY <2>1, <2>2
<1>7. ASSUME NEW k \in 1 .. n, k < n
      PROVE  Matches(text, Behind(st, k), CRLF) /\ st[k + 1] = Behind(st, k) + 7
  <2>1. k + 1 \in 1 .. n /\ (k + 1) - 1 = k
    BY <1>7
  <2>2. Matches(text, L[k], (Dash \o Boundary) \o CRLF)
    BY <1>1, <2>1 DEF PartAt
  <2>3. Dash \o Boundary \in Seq(Chars) /\ Len(Dash \o Boundary) = Len(Dash) + Len(Boundary)
    BY ConcatProperties
  <2>4. L[k] \in Nat /\ Behind(st, k) = L[k] + 2 + Len(Boundary)
    BY <1>3
  <2>5. Matches(text, L[k] + Len(Dash \o Boundary), CRLF)
    BY <1>1, <2>2, <2>3, <2>4, MatchBoth
  <2>6. Len(Dash \o Boundary) = 2 + Len(Boundary)
    BY <2>3
  <2>7. L[k] + (2 + Len(Boundary)) = Behind(st, k)
    BY <1>2, <2>4
  <2>8. st[k + 1] = L[k] + (Len(Boundary) + 9)
    BY <1>3, <2>1
  <2>9. st[k + 1] = Behind(st, k) + 7
    <3>1. \A a, d \in Nat : a + (d + 9) = (a + 2 + d) + 7
      OBVIOUS
    <3>2. L[k] \in Nat /\ Len(Boundary) \in Nat
      BY <1>2, <2>4
    <3> QED BY <2>4, <2>8, <3>1, <3>2, Zenon
  <2> QED BY <2>5, <2>6, <2>7, <2>9
<1>8. ASSUME NEW k \in 1 .. n
      PROVE  Matches(text, EndOf(st, k), Delimiter)
  <2> DEFINE i == EndOf(st, k)
  <2>1. i \in Nat /\ Matches(text, i, CRLF) /\ Matches(text, i + 2, Dash) /\ Matches(text, i + 4, Boundary)
    BY <1>3, <1>5, <1>6
  <2> HIDE DEF i
  <2>2. Matches(text, i, CRLF \o Dash)
    BY <1>1, <2>1, MatchBoth
  <2>3. Matches(text, i, (CRLF \o Dash) \o Boundary)
    BY <1>1, <2>1, <2>2, MatchBoth
  <2> QED BY <2>3 DEF Delimiter, Form!Delimiter, CRLF, Dash, i
<1>9. /\ Matches(text, Behind(st, n), Dash \o CRLF)
      /\ text = Form!Encode(items) => Len(text) = Behind(st, n) + 4
  <2>1. Behind(st, n) = L[n] + 2 + Len(Boundary) /\ L[n] \in Nat
    BY <1>3
  <2> DEFINE i == Behind(st, n)
  <2>2. i \in Nat /\ i + 2 = L[n] + 4 + Len(Boundary) /\ i + 4 = L[n] + 6 + Len(Boundary)
    BY <1>2, <2>1, SMTT(30)
  <2>3. Matches(text, i, Dash) /\ Matches(text, i + 2, CRLF)
    BY <1>1, <2>1, <2>2 DEF EndAt
  <2>4. text = Form!Encode(items) => Len(text) = i + 4
    BY <1>1, <2>2
  <2> HIDE DEF i
  <2>5. Matches(text, i, Dash \o CRLF)
    BY <1>1, <2>2, <2>3, MatchBoth
  <2> QED BY <2>4, <2>5 DEF i
<1>10. ASSUME NEW k \in 1 .. n
       PROVE  LayoutAt(st, k)
  BY <1>2, <1>3, <1>5, <1>7, <1>8, <1>9 DEF LayoutAt
<1>11. st[1] = Len(Boundary) + 9 /\ Matches(text, 0, Dash \o Boundary \o CRLF)
  <2>1. 1 \in 1 .. n /\ 1 - 1 = 0
    OBVIOUS
  <2>2. PartAt(0, items[1])
    BY <1>1, <2>1
  <2>3. st[1] = 0 + (Len(Boundary) + 9)
    BY <1>1, <1>3, <2>1
  <2> QED BY <1>2, <2>2, <2>3 DEF PartAt
<1> QED
  BY <1>1, <1>2, <1>10, <1>11 DEF Layout

(***************************************************************************)
(* How far the body is parsed.                                             *)
(***************************************************************************)
\* The characters read, and those of them that the parser has done with.
Cut == Len(text) - Len(rest)
Begin == Cut - Len(buf)

\* The buffer and what is not read are the text, from there on.
Buffered ==
  /\ buf \in Seq(Chars) /\ rest \in Seq(Chars)
  /\ Cut \in Nat /\ Begin \in Nat
  /\ \A j \in 1 .. Len(buf) : buf[j] = text[Begin + j]
  /\ \A j \in 1 .. Len(rest) : rest[j] = text[Cut + j]
  /\ CutAnywhere \/ Form!CleanCut(Cut)

\* Where a state of the parser begins.
Placed(st) ==
  LET n == Len(files)
  IN  /\ state \in 0 .. 5
      /\ state = 0 => n = 0 /\ Begin = 0
      /\ state = 1 => n + 1 <= Len(items) /\ Begin = st[n + 1] - 5
      /\ state = 2 => n + 1 <= Len(items) /\ Begin \in {st[n + 1] - 5, st[n + 1] - 2}
      /\ state \in 3 .. 5 => n \in 1 .. Len(items)
      /\ state = 3 => /\ st[n] <= Begin /\ Begin <= EndOf(st, n)
                      /\ Len(files[n]) = Begin - st[n] /\ Matches(items[n], 0, files[n])
      /\ state = 4 => Begin = Behind(st, n)
      /\ state = 5 => n = Len(items) /\ Begin = Behind(st, n) + 4

\* The files before the last are the items; so is the last, when its content
\* has ended.
Filed ==
  /\ files \in Seq(Seq(Chars)) /\ Len(files) <= Len(items)
  /\ \A i \in 1 .. Len(files) : (i = Len(files) /\ state = 3) \/ files[i] = items[i]

\* The parser waits for more only if there is too little to go on.
Waiting ==
  at = "read" =>
    /\ state = 0 => Len(buf) < Len(Boundary) + 4
    /\ state = 1 => buf = <<>>
    /\ state = 2 => \A i \in Nat : ~Matches(buf, i, CRLF)
    /\ state = 3 => Len(buf) < Len(Boundary) + 4
    /\ state = 4 => ~Matches(buf, 0, CRLF) /\ ~Matches(buf, 0, Dash \o CRLF)

Judged ==
  /\ at \in {"read", "parse", "accepted", "refused"}
  /\ valid => state = 5
  /\ state = 5 /\ at # "refused" => valid
  /\ at = "accepted" => state = 5
  /\ at = "refused" => text # Form!Encode(items)

Parsed(st) == Layout(st) /\ Buffered /\ Placed(st) /\ Filed /\ Waiting /\ Judged

FormInv == \E st : Parsed(st)

LEMMA BufferMatches ==
  ASSUME Buffered, NEW p \in Seq(Chars), NEW i \in Nat, text \in Seq(Chars)
  PROVE  Matches(buf, i, p) <=> i + Len(p) <= Len(buf) /\ Matches(text, Begin + i, p)
<1>1. Len(buf) \in Nat /\ Len(rest) \in Nat /\ Len(p) \in Nat /\ Len(text) \in Nat
  BY LenProperties DEF Buffered
<1>2. Begin \in Nat /\ Begin + Len(buf) <= Len(text)
  BY <1>1 DEF Buffered, Cut, Begin
<1>3. ASSUME i + Len(p) <= Len(buf)
      PROVE  /\ (Begin + i) + Len(p) <= Len(text)
             /\ \A j \in 1 .. Len(p) : buf[i + j] = text[(Begin + i) + j]
  <2>1. (Begin + i) + Len(p) <= Len(text)
    BY <1>1, <1>2, <1>3
  <2>2. ASSUME NEW j \in 1 .. Len(p)
        PROVE  buf[i + j] = text[(Begin + i) + j]
    <3>1. i + j \in 1 .. Len(buf) /\ Begin + (i + j) = (Begin + i) + j
      BY <1>1, <1>2, <1>3
    <3>2. buf[i + j] = text[Begin + (i + j)]
      BY <3>1 DEF Buffered
    <3> QED BY <3>1, <3>2
  <2> QED BY <2>1, <2>2
<1>4. CASE i + Len(p) <= Len(buf)
  <2>1. (\A j \in 1 .. Len(p) : buf[i + j] = p[j]) <=> (\A j \in 1 .. Len(p) : text[(Begin + i) + j] = p[j])
    BY <1>3, <1>4
  <2> QED BY <1>3, <1>4, <2>1 DEF Matches
<1> QED
  BY <1>4 DEF Matches

\* The least of a set of numbers.
LEMMA LeastOf ==
  ASSUME NEW U, U \subseteq Nat, U # {}
  PROVE  /\ Form!Min(U) \in U
         /\ \A x \in U : Form!Min(U) <= x
<1> DEFINE R == OpToRel(<, Nat)
<1>1. IsWellFoundedOn(R, Nat)
  BY NatLessThanWellFounded, Zenon
<1>2. \A x, y \in Nat : y < x => <<y, x>> \in R
  BY Zenon DEF OpToRel
<1> HIDE DEF R
<1>3. PICK x \in U : \A y \in U : ~(<<y, x>> \in R)
  BY <1>1, WFMin
<1>4. ASSUME NEW y \in U
      PROVE  x <= y
  <2>1. x \in Nat /\ y \in Nat
    OBVIOUS
  <2>2. ~(y < x)
    BY <1>2, <1>3, <2>1, Zenon
  <2> QED BY <2>1, <2>2
<1> QED
  BY <1>3, <1>4 DEF Form!Min

\* What find() gives for a pattern: where it comes first, or the size.
LEMMA Found ==
  ASSUME Buffered, NEW p \in Seq(Chars), Len(p) > 0
  PROVE  /\ \/ /\ Form!Find(p) \in Nat /\ Matches(buf, Form!Find(p), p)
               /\ \A j \in Nat : Matches(buf, j, p) => Form!Find(p) <= j
            \/ Form!Find(p) = Len(buf) /\ \A j \in Nat : ~Matches(buf, j, p)
<1>1. Len(buf) \in Nat /\ Len(p) \in Nat /\ buf \in Seq(Chars)
  BY LenProperties DEF Buffered
<1> DEFINE found == {i \in 0 .. Len(buf) - Len(p) : Form!StartsWith(buf, i, p)}
<1>2. \A i : i \in found <=> i \in Nat /\ Matches(buf, i, p)
  <2>1. ASSUME NEW i \in 0 .. Len(buf)
        PROVE  Form!StartsWith(buf, i, p) <=> Matches(buf, i, p)
    BY <1>1, MatchIsPrefix
  <2>2. \A i \in 0 .. Len(buf) - Len(p) : i \in 0 .. Len(buf)
    BY <1>1
  <2>3. \A i \in Nat : Matches(buf, i, p) => i \in 0 .. Len(buf) - Len(p)
    BY <1>1 DEF Matches
  <2>4. \A i \in 0 .. Len(buf) - Len(p) : i \in Nat
    BY <1>1
  <2> QED BY <2>1, <2>2, <2>3, <2>4
<1>3. Form!Find(p) = IF found = {} THEN Len(buf) ELSE Form!Min(found)
  BY DEF Form!Find
<1> HIDE DEF found
<1>4. found \subseteq Nat
  BY <1>2
<1>5. CASE found = {}
  BY <1>2, <1>3, <1>5
<1>6. CASE found # {}
  <2>1. Form!Find(p) \in found /\ \A x \in found : Form!Find(p) <= x
    BY <1>3, <1>4, <1>6, LeastOf
  <2> QED BY <1>2, <2>1
<1> QED
  BY <1>5, <1>6

LEMMA BufferKept ==
  ASSUME Buffered, buf' = buf, rest' = rest, text' = text
  PROVE  Buffered' /\ Begin' = Begin /\ Cut' = Cut
BY DEF Buffered, Begin, Cut, Form!CleanCut

LEMMA BufferErased ==
  ASSUME Buffered, NEW n \in 0 .. Len(buf), Form!Erase(n), rest' = rest, text' = text
  PROVE  /\ Buffered' /\ Begin' = Begin + n /\ Cut' = Cut
         /\ Len(buf') = Len(buf) - n
<1>1. /\ Len(buf) \in Nat /\ buf \in Seq(Chars) /\ Cut \in Nat /\ Begin \in Nat
      /\ Begin = Cut - Len(buf)
  BY LenProperties DEF Buffered, Begin
<1>2. \A k \in n + 1 .. Len(buf) : buf[k] \in Chars
  BY <1>1, ElementOfSeq
<1>3. /\ buf' \in Seq(Chars)
      /\ Len(buf') = IF n + 1 <= Len(buf) THEN Len(buf) - (n + 1) + 1 ELSE 0
      /\ \A k \in 1 .. Len(buf) - (n + 1) + 1 : buf'[k] = buf[(n + 1) + k - 1]
  <2> DEFINE b == SubSeq(buf, n + 1, Len(buf))
  <2>1. /\ b \in Seq(Chars)
        /\ Len(b) = IF n + 1 <= Len(buf) THEN Len(buf) - (n + 1) + 1 ELSE 0
        /\ \A k \in 1 .. Len(buf) - (n + 1) + 1 : b[k] = buf[(n + 1) + k - 1]
    BY <1>1, <1>2, SubSeqProperties
  <2>2. buf' = b
    BY DEF Form!Erase
  <2> HIDE DEF b
  <2> QED BY <2>1, <2>2
<1>4. Len(buf') = Len(buf) - n
  BY <1>1, <1>3
<1>5. Cut' = Cut
  BY DEF Cut
<1>6. Begin' = Begin + n
  BY <1>1, <1>4, <1>5 DEF Begin
<1>7. ASSUME NEW j \in 1 .. Len(buf')
      PROVE  buf'[j] = text[Begin' + j]
  <2>1. /\ j \in 1 .. Len(buf) - (n + 1) + 1 /\ (n + 1) + j - 1 = n + j
        /\ n + j \in 1 .. Len(buf) /\ Begin + (n + j) = (Begin + n) + j
    BY <1>1, <1>4
  <2>2. buf'[j] = buf[n + j]
    BY <1>3, <2>1
  <2>3. buf[n + j] = text[Begin + (n + j)]
    BY <2>1 DEF Buffered
  <2> QED BY <1>6, <2>1, <2>2, <2>3
<1>8. Begin' \in Nat /\ Cut' \in Nat
  BY <1>1, <1>5, <1>6
<1>9. /\ rest' \in Seq(Chars) /\ \A j \in 1 .. Len(rest') : rest'[j] = text'[Cut' + j]
      /\ (CutAnywhere \/ Form!CleanCut(Cut))'
  BY <1>5 DEF Buffered, Form!CleanCut
<1>10. Buffered'
  BY <1>3, <1>7, <1>8, <1>9 DEF Buffered
<1> QED
  BY <1>4, <1>5, <1>6, <1>10

\* A piece of what is not read is appended to the buffer.
LEMMA BufferGrown ==
  ASSUME Buffered, text \in Seq(Chars), text' = text, NEW n \in 1 .. Len(rest),
         CutAnywhere \/ Form!CleanCut(Len(text) - Len(rest) + n),
         buf' = buf \o SubSeq(rest, 1, n), rest' = SubSeq(rest, n + 1, Len(rest))
  PROVE  Buffered' /\ Begin' = Begin
<1>1. /\ Len(buf) \in Nat /\ buf \in Seq(Chars) /\ Cut \in Nat /\ Begin \in Nat
      /\ Begin = Cut - Len(buf) /\ Len(rest) \in Nat /\ rest \in Seq(Chars)
      /\ Cut = Len(text) - Len(rest) /\ Len(text) \in Nat
  BY LenProperties DEF Buffered, Begin, Cut
<1>2. \A k \in 1 .. Len(rest) : rest[k] \in Chars
  BY <1>1, ElementOfSeq
<1>3. /\ rest' \in Seq(Chars)
      /\ Len(rest') = Len(rest) - n
      /\ \A k \in 1 .. Len(rest) - n : rest'[k] = rest[n + k]
  <2> DEFINE r == SubSeq(rest, n + 1, Len(rest))
  <2>1. \A k \in n + 1 .. Len(rest) : rest[k] \in Chars
    BY <1>2
  <2>2. /\ r \in Seq(Chars)
        /\ Len(r) = IF n + 1 <= Len(rest) THEN Len(rest) - (n + 1) + 1 ELSE 0
        /\ \A k \in 1 .. Len(rest) - (n + 1) + 1 : r[k] = rest[(n + 1) + k - 1]
    BY <1>1, <2>1, SubSeqProperties
  <2>3. rest' = r
    OBVIOUS
  <2> HIDE DEF r
  <2>4. Len(r) = Len(rest) - n
    BY <1>1, <2>2
  <2>5. ASSUME NEW k \in 1 .. Len(rest) - n
        PROVE  r[k] = rest[n + k]
    <3>1. k \in 1 .. Len(rest) - (n + 1) + 1 /\ (n + 1) + k - 1 = n + k
      BY <1>1
    <3> QED BY <2>2, <3>1
  <2> QED BY <2>2, <2>3, <2>4, <2>5
<1> DEFINE p == SubSeq(rest, 1, n)
<1>4. p \in Seq(Chars) /\ Len(p) = n /\ \A k \in 1 .. n : p[k] = rest[k]
  <2>1. \A k \in 1 .. n : rest[k] \in Chars
    BY <1>1, <1>2
  <2>2. /\ p \in Seq(Chars)
        /\ Len(p) = IF 1 <= n THEN n - 1 + 1 ELSE 0
        /\ \A k \in 1 .. n - 1 + 1 : p[k] = rest[1 + k - 1]
    BY <1>1, <2>1, SubSeqProperties
  <2> HIDE DEF p
  <2> QED BY <1>1, <2>2
<1>5. buf' = buf \o p
  OBVIOUS
<1> HIDE DEF p
<1>6. /\ buf' \in Seq(Chars) /\ Len(buf') = Len(buf) + n
      /\ \A k \in 1 .. Len(buf) + n : buf'[k] = IF k <= Len(buf) THEN buf[k] ELSE p[k - Len(buf)]
  <2>1. /\ buf \o p \in Seq(Chars) /\ Len(buf \o p) = Len(buf) + Len(p)
        /\ \A k \in 1 .. Len(buf) + Len(p) :
             (buf \o p)[k] = IF k <= Len(buf) THEN buf[k] ELSE p[k - Len(buf)]
    BY <1>1, <1>4, ConcatProperties
  <2> QED BY <1>4, <1>5, <2>1
<1>7. Cut' = Cut + n /\ Begin' = Begin
  <2>1. Cut' = Len(text) - Len(rest')
    BY DEF Cut
  <2>2. Cut' = Cut + n
    BY <1>1, <1>3, <2>1
  <2>3. Begin' = Cut' - Len(buf')
    BY DEF Begin
  <2> QED BY <1>1, <1>6, <2>2, <2>3
<1>8. ASSUME NEW j \in 1 .. Len(buf')
      PROVE  buf'[j] = text[Begin + j]
  <2>1. CASE j <= Len(buf)
    <3>1. j \in 1 .. Len(buf) /\ j \in 1 .. Len(buf) + n
      BY <1>1, <1>6, <2>1
    <3> QED BY <1>6, <2>1, <3>1 DEF Buffered
  <2>2. CASE ~(j <= Len(buf))
    <3>1. /\ j - Len(buf) \in 1 .. n /\ j - Len(buf) \in 1 .. Len(rest) /\ j \in 1 .. Len(buf) + n
          /\ Cut + (j - Len(buf)) = Begin + j
      BY <1>1, <1>6, <2>2
    <3>2. buf'[j] = rest[j - Len(buf)]
      BY <1>4, <1>6, <2>2, <3>1
    <3>3. rest[j - Len(buf)] = text[Cut + (j - Len(buf))]
      BY <3>1 DEF Buffered
    <3> QED BY <3>1, <3>2, <3>3
  <2> QED BY <2>1, <2>2
<1>9. ASSUME NEW j \in 1 .. Len(rest')
      PROVE  rest'[j] = text[Cut' + j]
  <2>1. j \in 1 .. Len(rest) - n /\ n + j \in 1 .. Len(rest) /\ Cut + (n + j) = (Cut + n) + j
    BY <1>1, <1>3
  <2>2. rest'[j] = rest[n + j]
    BY <1>3, <2>1
  <2>3. rest[n + j] = text[Cut + (n + j)]
    BY <2>1 DEF Buffered
  <2> QED BY <1>7, <2>1, <2>2, <2>3
<1>10. (CutAnywhere \/ Form!CleanCut(Cut))'
  <2>1. Len(text) - Len(rest) + n = Cut'
    BY <1>1, <1>7
  <2>2. CASE CutAnywhere
    BY <2>2
  <2>3. CASE Form!CleanCut(Len(text) - Len(rest) + n)
    <3>1. PICK c : c = Cut'
      OBVIOUS
    <3>2. Form!CleanCut(c)
      BY <2>1, <2>3, <3>1
    <3> QED BY <3>1, <3>2 DEF Form!CleanCut
  <2> QED BY <2>2, <2>3
<1>11. Cut' \in Nat /\ Begin' \in Nat
  BY <1>1, <1>7
<1>12. Buffered'
  BY <1>3, <1>6, <1>7, <1>8, <1>9, <1>10, <1>11 DEF Buffered
<1> QED
  BY <1>7, <1>12

LEMMA Prefix ==
  ASSUME NEW S, NEW s \in Seq(S), NEW p \in Seq(S)
  PROVE  Form!IsPrefix(p, s) <=> Matches(s, 0, p)
<1>1. Len(s) \in Nat /\ 0 \in 0 .. Len(s)
  BY LenProperties
<1>2. Form!StartsWith(s, 0, p) <=> Matches(s, 0, p)
  BY <1>1, MatchIsPrefix
<1>3. SubSeq(s, 0 + 1, Len(s)) = s
  BY SubSeqFull
<1> QED
  BY <1>2, <1>3 DEF Form!StartsWith

LEMMA DelimiterSigns ==
  ASSUME PartsAssumption
  PROVE  Delimiter[1] = "CR" /\ \A j \in 2 .. Len(Boundary) + 4 : Delimiter[j] # "CR"
<1> USE Signs
<1> DEFINE a == CRLF \o Dash
<1>1. /\ Len(a) = 4 /\ a \in Seq(Chars)
      /\ a[1] = "CR" /\ a[2] = "LF" /\ a[3] = "-" /\ a[4] = "-"
  <2>1. \A j \in 1 .. Len(CRLF) + Len(Dash) : a[j] = IF j <= Len(CRLF) THEN CRLF[j] ELSE Dash[j - Len(CRLF)]
    BY ConcatProperties
  <2> HIDE DEF a
  <2>2. \A j \in 1 .. 4 : a[j] = IF j <= 2 THEN CRLF[j] ELSE Dash[j - 2]
    <3> DEFINE l == Len(CRLF)
               m == Len(Dash)
    <3>1. l = 2 /\ m = 2
      OBVIOUS
    <3>2. \A j \in 1 .. l + m : a[j] = IF j <= l THEN CRLF[j] ELSE Dash[j - l]
      BY <2>1
    <3> HIDE DEF l, m
    <3> QED BY <3>1, <3>2
  <2>3. /\ 3 - 2 = 1 /\ 4 - 2 = 2 /\ 1 <= 2 /\ ~(3 <= 2) /\ ~(4 <= 2)
        /\ 1 \in 1 .. 4 /\ 2 \in 1 .. 4 /\ 3 \in 1 .. 4 /\ 4 \in 1 .. 4
    OBVIOUS
  <2>4. a[1] = CRLF[1] /\ a[2] = CRLF[2] /\ a[3] = Dash[1] /\ a[4] = Dash[2]
    BY <2>2, <2>3
  <2> QED BY <2>4 DEF a
<1>2. Delimiter = a \o Boundary
  BY DEF Delimiter, Form!Delimiter, CRLF, Dash
<1> HIDE DEF a
<1>3. \A j \in 1 .. 4 + Len(Boundary) : Delimiter[j] = IF j <= 4 THEN a[j] ELSE Boundary[j - 4]
  <2>1. \A j \in 1 .. Len(a) + Len(Boundary) : (a \o Boundary)[j] = IF j <= Len(a) THEN a[j] ELSE Boundary[j - Len(a)]
    BY <1>1, ConcatProperties, ZenonT(60)
  <2> QED BY <1>1, <1>2, <2>1
<1>4. Delimiter[1] = "CR"
  BY <1>1, <1>3
<1>5. ASSUME NEW j \in 2 .. Len(Boundary) + 4
      PROVE  Delimiter[j] # "CR"
  <2>1. CASE j <= 4
    <3>1. j \in 1 .. 4 + Len(Boundary) /\ (j = 2 \/ j = 3 \/ j = 4)
      BY <2>1
    <3>2. Delimiter[j] = a[j]
      BY <1>3, <2>1, <3>1
    <3> QED BY <1>1, <3>1, <3>2
  <2>2. CASE ~(j <= 4)
    <3>1. j \in 1 .. 4 + Len(Boundary) /\ j - 4 \in 1 .. Len(Boundary)
      BY <2>2
    <3>2. Delimiter[j] = Boundary[j - 4]
      BY <1>3, <2>2, <3>1
    <3> QED BY <3>1, <3>2
  <2> QED BY <2>1, <2>2
<1> QED
  BY <1>4, <1>5

\* The places of a part, as numbers.
LEMMA Places ==
  ASSUME PartsAssumption, NEW st, Layout(st), NEW k \in 1 .. Len(items)
  PROVE  /\ text \in Seq(Chars) /\ Len(text) \in Nat /\ Len(items) \in Nat /\ Len(Boundary) \in Nat
         /\ items[k] \in Contents /\ items[k] \in Seq(Chars) /\ Len(items[k]) \in Nat
         /\ st[k] \in Nat /\ st[k] >= 5 /\ EndOf(st, k) \in Nat /\ Behind(st, k) \in Nat
         /\ EndOf(st, k) = st[k] + Len(items[k])
         /\ Behind(st, k) = EndOf(st, k) + (Len(Boundary) + 4)
         /\ Behind(st, k) <= Len(text)
<1>1. text \in Seq(Chars) /\ Len(text) \in Nat /\ Len(items) \in Nat /\ LayoutAt(st, k)
  BY LenProperties DEF Layout
<1>2. items[k] \in Contents /\ st[k] \in Nat /\ st[k] >= 5 /\ Matches(text, EndOf(st, k), Delimiter)
  BY <1>1 DEF LayoutAt
<1>3. items[k] \in Seq(Chars) /\ Len(items[k]) \in Nat
  <2>1. items[k] \in Seq(Chars)
    BY <1>2 DEF PartsAssumption, Form!FormAssumption, Chars
  <2> QED BY <2>1, LenProperties
<1>4. EndOf(st, k) = st[k] + Len(items[k]) /\ Behind(st, k) = EndOf(st, k) + (Len(Boundary) + 4)
  BY DEF EndOf, Behind
<1>5. EndOf(st, k) + Len(Delimiter) <= Len(text)
  BY <1>2 DEF Matches
<1>6. Len(Delimiter) = Len(Boundary) + 4 /\ Len(Boundary) \in Nat
  BY Signs
<1>7. EndOf(st, k) \in Nat
  BY <1>2, <1>3, <1>4
<1>8. Behind(st, k) \in Nat
  BY <1>4, <1>6, <1>7
<1> QED
  BY <1>1, <1>2, <1>3, <1>4, <1>5, <1>6, <1>7, <1>8

\* The first delimiter behind the beginning of a content is the one at its end.
LEMMA NoneBefore ==
  ASSUME PartsAssumption, NEW st, Layout(st), NEW k \in 1 .. Len(items), NEW p \in Nat,
         st[k] <= p, p < EndOf(st, k)
  PROVE  ~Matches(text, p, Delimiter)
<1> SUFFICES ASSUME Matches(text, p, Delimiter)
             PROVE  FALSE
  OBVIOUS
<1> DEFINE D == Len(Boundary) + 4
           c == items[k]
           s == st[k]
           e == EndOf(st, k)
<1>1. /\ Len(Delimiter) = D /\ D \in Nat /\ D >= 4 /\ Delimiter \in Seq(Chars)
      /\ c \in Contents /\ c \in Seq(Chars) /\ Len(c) \in Nat
      /\ s \in Nat /\ e \in Nat /\ e = s + Len(c) /\ s <= p /\ p < e
      /\ Delimiter[1] = "CR" /\ \A j \in 2 .. D : Delimiter[j] # "CR"
  <2>1. Len(Delimiter) = D /\ D \in Nat /\ D >= 4 /\ Delimiter \in Seq(Chars)
    BY Signs
  <2>2. Delimiter[1] = "CR" /\ \A j \in 2 .. D : Delimiter[j] # "CR"
    BY DelimiterSigns
  <2> QED BY <2>1, <2>2, Places
<1>2. Matches(text, s, c) /\ Matches(text, e, Delimiter)
  BY DEF Layout, LayoutAt
<1>3. \A c1 \in Contents : \A i \in 0 .. Len(c1) : ~Form!StartsWith(c1, i, Delimiter)
  BY DEF PartsAssumption, Form!FormAssumption, Delimiter
<1> HIDE DEF D, c, s, e
<1>4. CASE p + D <= e
  <2>1. p - s \in 0 .. Len(c) /\ p - s \in Nat /\ (p - s) + D <= Len(c)
    BY <1>1, <1>4
  <2>2. ASSUME NEW j \in 1 .. D
        PROVE  c[(p - s) + j] = Delimiter[j]
    <3>1. (p - s) + j \in 1 .. Len(c) /\ s + ((p - s) + j) = p + j
      BY <1>1, <2>1
    <3>2. text[s + ((p - s) + j)] = c[(p - s) + j]
      BY <1>2, <3>1 DEF Matches
    <3>3. text[p + j] = Delimiter[j]
      BY <1>1 DEF Matches
    <3> QED BY <3>1, <3>2, <3>3
  <2>3. Matches(c, p - s, Delimiter)
    BY <1>1, <2>1, <2>2 DEF Matches
  <2>4. Form!StartsWith(c, p - s, Delimiter)
    BY <1>1, <2>1, <2>3, MatchIsPrefix
  <2> QED BY <1>1, <1>3, <2>1, <2>4
<1>5. CASE ~(p + D <= e)
  <2>1. (e - p) + 1 \in 2 .. D /\ (e - p) + 1 \in 1 .. D /\ p + ((e - p) + 1) = e + 1 /\ 1 \in 1 .. D
    BY <1>1, <1>5
  <2>2. text[e + 1] = Delimiter[(e - p) + 1]
    BY <1>1, <2>1 DEF Matches
  <2>3. text[e + 1] = Delimiter[1]
    BY <1>1, <1>2, <2>1 DEF Matches
  <2> QED BY <1>1, <2>1, <2>2, <2>3
<1> QED
  BY <1>4, <1>5

LEMMA LayoutKept ==
  ASSUME NEW st, Layout(st), items' = items, text' = text
  PROVE  Layout(st)'
BY DEF Layout, LayoutAt, EndOf, Behind, Form!Encode

LEMMA PlacedKept ==
  ASSUME NEW st, Placed(st), items' = items, files' = files, state' = state, Begin' = Begin
  PROVE  Placed(st)'
BY DEF Placed, EndOf, Behind

\* parse() returns without a change of the buffer.
LEMMA Returned ==
  ASSUME NEW st, Parsed(st), NEW more \in BOOLEAN, Form!Return(more)
  PROVE  Layout(st)' /\ Buffered' /\ Placed(st)' /\ Filed' /\ Begin' = Begin
<1>1. items' = items /\ text' = text /\ rest' = rest /\ buf' = buf /\ state' = state /\ files' = files
  BY DEF Form!Return
<1>2. Buffered' /\ Begin' = Begin
  BY <1>1, BufferKept DEF Parsed
<1>3. Filed'
  BY <1>1 DEF Parsed, Filed
<1> QED
  BY <1>1, <1>2, <1>3, LayoutKept, PlacedKept DEF Parsed

LEMMA ReadPieceParsed ==
  ASSUME NEW st, Parsed(st), Form!ReadPiece
  PROVE  Parsed(st)'
<1>1. /\ items' = items /\ text' = text /\ state' = state /\ files' = files /\ valid' = valid
      /\ at = "read" /\ at' = "parse"
  BY DEF Form!ReadPiece
<1>2. Buffered' /\ Begin' = Begin
  <2>1. PICK n \in 1 .. Len(rest) :
          /\ CutAnywhere \/ Form!CleanCut(Len(text) - Len(rest) + n)
          /\ buf' = buf \o SubSeq(rest, 1, n)
          /\ rest' = SubSeq(rest, n + 1, Len(rest))
    BY DEF Form!ReadPiece
  <2> QED BY <1>1, <2>1, BufferGrown DEF Parsed, Layout
<1>3. Filed' /\ Waiting'
  BY <1>1 DEF Parsed, Filed, Waiting
<1>4. Judged'
  BY <1>1 DEF Parsed, Judged
<1> QED
  BY <1>1, <1>2, <1>3, <1>4, LayoutKept, PlacedKept DEF Parsed

LEMMA BufferEmptyParsed ==
  ASSUME PartsAssumption, NEW st, Parsed(st), Form!BufferEmpty
  PROVE  Parsed(st)'
<1>1. Form!Return(TRUE) /\ valid' = valid /\ buf = <<>> /\ at' = "read" /\ at = "parse"
  BY DEF Form!BufferEmpty, Form!Return
<1>2. buf' = <<>> /\ state' = state /\ items' = items /\ text' = text
  BY <1>1 DEF Form!Return
<1>3. Len(buf') = 0
  BY <1>2, EmptySeq
<1>4. Waiting'
  <2>1. Len(buf') < Len(Boundary) + 4
    BY <1>3, Signs
  <2>2. \A i \in Nat : ~Matches(buf', i, CRLF)
    BY <1>3, Signs DEF Matches
  <2>3. ~Matches(buf', 0, CRLF) /\ ~Matches(buf', 0, Dash \o CRLF)
    BY <1>3, Signs DEF Matches
  <2> QED BY <1>2, <2>1, <2>2, <2>3 DEF Waiting
<1>5. Judged'
  BY <1>1, <1>2 DEF Parsed, Judged
<1>6. Layout(st)' /\ Buffered' /\ Placed(st)' /\ Filed'
  BY <1>1, Returned
<1> QED
  BY <1>4, <1>5, <1>6 DEF Parsed

LEMMA InitialBoundaryParsed ==
  ASSUME PartsAssumption, NEW st, Parsed(st), Form!InitialBoundary
  PROVE  Parsed(st)'
<1> DEFINE p == Dash \o Boundary \o CRLF
<1>1. p \in Seq(Chars) /\ Len(p) = Len(Boundary) + 4 /\ Len(Boundary) \in Nat
  BY Signs
<1>2. at = "parse" /\ state = 0 /\ valid' = valid
  BY DEF Form!InitialBoundary, Form!InState
<1>3. /\ \/ /\ Form!IsPrefix(p, buf) /\ Form!Erase(Len(p)) /\ state' = 1
            /\ UNCHANGED <<items, text, rest, files, at>>
         \/ ~Form!IsPrefix(p, buf) /\ Form!Return(Len(p) > Len(buf))
      /\ TRUE
  BY DEF Form!InitialBoundary, p, Dash, CRLF
<1>4. Matches(text, 0, p) /\ text \in Seq(Chars) /\ 1 \in 1 .. Len(items)
  <2>1. Len(items) \in Nat \ {0}
    BY DEF Parsed, Layout
  <2>2. 1 \in 1 .. Len(items)
    BY <2>1
  <2> QED BY <2>2 DEF Parsed, Layout
<1> HIDE DEF p
<1>5. Buffered /\ Len(buf) \in Nat /\ buf \in Seq(Chars)
  BY LenProperties DEF Parsed, Buffered
<1>6. Begin = 0 /\ Len(files) = 0
  BY <1>2 DEF Parsed, Placed
<1>7. Form!IsPrefix(p, buf) <=> Len(p) <= Len(buf)
  <2>1. Form!IsPrefix(p, buf) <=> Matches(buf, 0, p)
    BY <1>1, <1>5, Prefix
  <2>2. Matches(buf, 0, p) <=> 0 + Len(p) <= Len(buf) /\ Matches(text, Begin + 0, p)
    BY <1>1, <1>4, <1>5, BufferMatches
  <2> QED BY <1>1, <1>4, <1>5, <1>6, <2>1, <2>2
<1>8. CASE Form!IsPrefix(p, buf) /\ Form!Erase(Len(p)) /\ state' = 1
           /\ UNCHANGED <<items, text, rest, files, at>>
  <2>1. Len(p) \in 0 .. Len(buf)
    BY <1>1, <1>5, <1>7, <1>8
  <2>2. Buffered' /\ Begin' = Begin + Len(p)
    BY <1>5, <1>8, <2>1, BufferErased
  <2>3. st[1] = Len(Boundary) + 9
    BY DEF Parsed, Layout
  <2>4. Begin' = st[0 + 1] - 5
    BY <1>1, <1>6, <2>2, <2>3
  <2>5. Placed(st)'
    BY <1>4, <1>6, <1>8, <2>4 DEF Placed
  <2>6. Filed' /\ Waiting' /\ Judged'
    BY <1>2, <1>8 DEF Parsed, Filed, Waiting, Judged
  <2> QED BY <1>8, <2>2, <2>5, <2>6, LayoutKept DEF Parsed
<1>9. CASE ~Form!IsPrefix(p, buf) /\ Form!Return(Len(p) > Len(buf))
  <2>1. Len(p) > Len(buf)
    BY <1>1, <1>5, <1>7, <1>9
  <2>2. Form!Return(TRUE)
    BY <1>9, <2>1
  <2>3. at' = "read" /\ state' = 0 /\ buf' = buf /\ text' = text /\ items' = items
    BY <1>2, <2>2 DEF Form!Return
  <2>4. Waiting' /\ Judged'
    BY <1>1, <1>2, <2>1, <2>3 DEF Parsed, Waiting, Judged
  <2>5. Layout(st)' /\ Buffered' /\ Placed(st)' /\ Filed'
    BY <2>2, Returned
  <2> QED BY <2>4, <2>5 DEF Parsed
<1> QED
  BY <1>3, <1>8, <1>9

LEMMA NewEntryParsed ==
  ASSUME NEW st, Parsed(st), Form!NewEntry
  PROVE  Parsed(st)'
<1>1. /\ at = "parse" /\ state = 1 /\ state' = 2
      /\ UNCHANGED <<items, text, rest, buf, valid, files, at>>
  BY DEF Form!NewEntry, Form!InState
<1>2. Buffered' /\ Begin' = Begin
  BY <1>1, BufferKept DEF Parsed
<1>3. Placed(st)'
  BY <1>1, <1>2 DEF Parsed, Placed
<1>4. Filed' /\ Waiting' /\ Judged'
  BY <1>1 DEF Parsed, Filed, Waiting, Judged
<1> QED
  BY <1>1, <1>2, <1>3, <1>4, LayoutKept DEF Parsed

LEMMA AfterTheEndParsed ==
  ASSUME PartsAssumption, NEW st, Parsed(st), Form!AfterTheEnd
  PROVE  Parsed(st)'
<1>1. /\ state = 5 /\ buf # <<>> /\ valid' = FALSE /\ Form!Return(FALSE)
  BY DEF Form!AfterTheEnd, Form!InState
<1>2. at' = "refused" /\ state' = 5 /\ text' = text /\ items' = items
  BY <1>1 DEF Form!Return
<1>3. text # Form!Encode(items)
  <2>1. SUFFICES ASSUME text = Form!Encode(items)
                 PROVE  FALSE
    OBVIOUS
  <2>2. Len(items) \in 1 .. Len(items) /\ Begin = Behind(st, Len(items)) + 4
    BY <1>1 DEF Parsed, Layout, Placed
  <2>3. Len(text) = Behind(st, Len(items)) + 4
    BY <2>1, <2>2 DEF Parsed, Layout, LayoutAt
  <2>4. /\ Len(buf) \in Nat /\ Len(rest) \in Nat /\ Len(text) \in Nat /\ buf \in Seq(Chars)
        /\ Begin = (Len(text) - Len(rest)) - Len(buf)
    BY LenProperties DEF Parsed, Layout, Buffered, Begin, Cut
  <2>5. Len(buf) = 0
    BY <2>2, <2>3, <2>4
  <2> QED BY <1>1, <2>4, <2>5, EmptySeq
<1>4. Waiting' /\ Judged'
  BY <1>1, <1>2, <1>3 DEF Waiting, Judged, Form!Encode
<1> QED
  BY <1>1, <1>4, Returned DEF Parsed

\* A CRLF that is not at the front of the buffer is not found there.
LEMMA LineEnd ==
  ASSUME PartsAssumption, NEW st, Parsed(st), state = 2, NEW i \in Nat, i \in {0, 1},
         Begin + i = st[Len(files) + 1] - 4 \/ Begin + i = st[Len(files) + 1] - 2,
         i = 1 => Begin = st[Len(files) + 1] - 5
  PROVE  \/ Form!Find(CRLF) = i /\ i + 2 <= Len(buf) /\ Form!Find(CRLF) # Len(buf)
         \/ Form!Find(CRLF) = Len(buf) /\ \A j \in Nat : ~Matches(buf, j, CRLF)
<1> USE Signs
<1> DEFINE k == Len(files) + 1
<1>1. k \in 1 .. Len(items) /\ Buffered /\ text \in Seq(Chars) /\ Begin \in Nat /\ Len(buf) \in Nat
  <2>1. files \in Seq(Seq(Chars)) /\ Len(files) \in Nat
    BY LenProperties DEF Parsed, Filed
  <2> QED BY <2>1, LenProperties DEF Parsed, Placed, Layout, Buffered
<1>2. /\ Matches(text, st[k] - 5, <<"h">>) /\ Matches(text, st[k] - 4, CRLF)
      /\ Matches(text, st[k] - 2, CRLF) /\ st[k] \in Nat
  BY <1>1 DEF Parsed, Layout, LayoutAt
<1>3. Matches(text, Begin + i, CRLF)
  BY <1>2
<1>4. \A j \in Nat : Matches(buf, j, CRLF) <=> j + 2 <= Len(buf) /\ Matches(text, Begin + j, CRLF)
  BY <1>1, BufferMatches
<1>5. i = 1 => ~Matches(buf, 0, CRLF)
  <2> SUFFICES ASSUME i = 1, Matches(buf, 0, CRLF)
               PROVE  FALSE
    OBVIOUS
  <2>1. Matches(text, Begin, CRLF)
    BY <1>1, <1>4
  <2>2. Matches(text, Begin, <<"h">>)
    BY <1>2
  <2>3. \A j \in 1 .. 2 : text[Begin + j] = CRLF[j]
    BY <2>1 DEF Matches
  <2>4. \A j \in 1 .. 1 : text[Begin + j] = <<"h">>[j]
    BY <2>2 DEF Matches
  <2>5. text[Begin + 1] = "CR" /\ text[Begin + 1] = <<"h">>[1]
    BY <2>3, <2>4
  <2> QED BY <2>5
<1> HIDE DEF k
<1>6. CASE i + 2 <= Len(buf)
  <2>1. Matches(buf, i, CRLF)
    BY <1>3, <1>4, <1>6
  <2>2. /\ Form!Find(CRLF) \in Nat /\ Matches(buf, Form!Find(CRLF), CRLF)
        /\ \A j \in Nat : Matches(buf, j, CRLF) => Form!Find(CRLF) <= j
    BY <1>1, <2>1, Found
  <2>3. Form!Find(CRLF) <= i
    BY <2>1, <2>2
  <2>4. Form!Find(CRLF) = i
    BY <1>5, <2>2, <2>3
  <2> QED BY <1>1, <1>6, <2>4
<1>7. CASE ~(i + 2 <= Len(buf))
  <2>1. ASSUME NEW j \in Nat, Matches(buf, j, CRLF)
        PROVE  FALSE
    <3>1. j + 2 <= Len(buf)
      BY <1>4, <2>1
    <3>2. j = 0 /\ i = 1
      BY <1>1, <1>7, <3>1
    <3> QED BY <1>5, <2>1, <3>2
  <2>2. Form!Find(CRLF) = Len(buf)
    BY <1>1, <2>1, Found
  <2> QED BY <2>1, <2>2
<1> QED
  BY <1>6, <1>7

LEMMA HeaderLineParsed ==
  ASSUME PartsAssumption, NEW st, Parsed(st), Form!HeaderLine
  PROVE  Parsed(st)'
<1> DEFINE n == Len(files)
           pos == Form!Find(CRLF)
<1>1. at = "parse" /\ state = 2 /\ valid' = valid
  BY DEF Form!HeaderLine, Form!InState
<1>2. \/ pos = Len(buf) /\ Form!Return(TRUE)
      \/ /\ pos # Len(buf) /\ Form!Erase(pos + 2) /\ UNCHANGED <<items, text, rest, at>>
         /\ \/ pos = 0 /\ state' = 3 /\ files' = Append(files, <<>>)
            \/ pos # 0 /\ UNCHANGED <<state, files>>
  BY Signs DEF Form!HeaderLine, CRLF
<1>3. /\ n \in Nat /\ n + 1 \in 1 .. Len(items) /\ files \in Seq(Seq(Chars))
      /\ Begin \in {st[n + 1] - 5, st[n + 1] - 2}
      /\ Buffered /\ Layout(st) /\ Begin \in Nat /\ Len(buf) \in Nat
      /\ st[n + 1] \in Nat
  <2>1. files \in Seq(Seq(Chars)) /\ n \in Nat /\ Len(items) \in Nat
    BY LenProperties DEF Parsed, Filed, Layout
  <2>2. n + 1 \in 1 .. Len(items) /\ Begin \in {st[n + 1] - 5, st[n + 1] - 2}
    BY <1>1, <2>1 DEF Parsed, Placed
  <2> QED BY <2>1, <2>2, LenProperties DEF Parsed, Buffered, Layout, LayoutAt
<1>4. \/ pos = Len(buf) /\ \A j \in Nat : ~Matches(buf, j, CRLF)
      \/ Begin = st[n + 1] - 5 /\ pos = 1 /\ 3 <= Len(buf)
      \/ Begin = st[n + 1] - 2 /\ pos = 0 /\ 2 <= Len(buf)
  <2> HIDE DEF pos
  <2>1. CASE Begin = st[n + 1] - 5
    <3>1. Begin + 1 = st[n + 1] - 4
      BY <1>3, <2>1
    <3> HIDE DEF n
    <3> QED BY <1>1, <1>3, <2>1, <3>1, LineEnd DEF n, pos
  <2>2. CASE Begin = st[n + 1] - 2
    <3>1. Begin + 0 = st[n + 1] - 2
      BY <1>3, <2>2
    <3> QED BY <1>1, <1>3, <2>2, <3>1, LineEnd DEF pos
  <2> QED BY <1>3, <2>1, <2>2
<1> HIDE DEF pos
<1>5. CASE pos = Len(buf) /\ Form!Return(TRUE)
  <2>1. \A j \in Nat : ~Matches(buf, j, CRLF)
    BY <1>3, <1>4, <1>5
  <2>2. at' = "read" /\ state' = 2 /\ buf' = buf /\ text' = text /\ items' = items
    BY <1>1, <1>5 DEF Form!Return
  <2>3. Waiting' /\ Judged'
    BY <1>1, <2>1, <2>2 DEF Parsed, Waiting, Judged
  <2>4. Layout(st)' /\ Buffered' /\ Placed(st)' /\ Filed'
    BY <1>5, Returned
  <2> QED BY <2>3, <2>4 DEF Parsed
<1>6. CASE pos # Len(buf) /\ Form!Erase(pos + 2) /\ UNCHANGED <<items, text, rest, at>>
           /\ pos = 0 /\ state' = 3 /\ files' = Append(files, <<>>)
  <2>1. Begin = st[n + 1] - 2 /\ 2 <= Len(buf)
    BY <1>4, <1>6
  <2>2. Buffered' /\ Begin' = Begin + 2
    <3>1. 2 \in 0 .. Len(buf) /\ pos + 2 = 2
      BY <1>3, <1>6, <2>1
    <3> QED BY <1>3, <1>6, <3>1, BufferErased
  <2>3. Begin' = st[n + 1]
    BY <1>3, <2>1, <2>2
  <2>4. /\ files' \in Seq(Seq(Chars)) /\ Len(files') = n + 1 /\ files'[n + 1] = <<>>
        /\ \A i \in 1 .. n : files'[i] = files[i]
    <3>1. <<>> \in Seq(Chars)
      BY EmptySeq
    <3> QED BY <1>3, <1>6, <3>1, AppendProperties
  <2>5. Filed'
    <3>1. \A i \in 1 .. n : files[i] = items[i]
      BY <1>1 DEF Parsed, Filed
    <3>2. \A i \in 1 .. n + 1 : i \in 1 .. n \/ i = n + 1
      BY <1>3
    <3> QED BY <1>3, <1>6, <2>4, <3>1, <3>2 DEF Filed
  <2>6. Placed(st)'
    <3>1. /\ st[n + 1] <= EndOf(st, n + 1) /\ items[n + 1] \in Seq(Chars)
          /\ Len(items[n + 1]) \in Nat
      BY <1>3, Places, SMTT(30)
    <3>2. Matches(items[n + 1], 0, <<>>) /\ Len(<<>>) = 0
      BY <3>1 DEF Matches
    <3>3. n + 1 \in 1 .. Len(items)
      BY <1>3
    <3>4. (state = 3)' /\ Len(files') = n + 1 /\ items' = items
      BY <1>6, <2>4
    <3>5. Len(files'[n + 1]) = Begin' - st[n + 1]
      BY <1>3, <2>3, <2>4, <3>2
    <3>6. PICK m : m = n + 1
      OBVIOUS
    <3>7. Len(files') = m /\ m \in 1 .. Len(items') /\ state' = 3
      BY <3>3, <3>4, <3>6
    <3>8. /\ st[m] <= Begin' /\ Begin' <= EndOf(st, m)
          /\ Matches(items[m], 0, files'[m]) /\ Len(files'[m]) = Begin' - st[m]
      BY <1>3, <2>3, <2>4, <3>1, <3>2, <3>5, <3>6
    <3>9. EndOf(st, m)' = EndOf(st, m)
      BY <3>4 DEF EndOf
    <3> HIDE DEF n
    <3> QED BY <3>4, <3>7, <3>8, <3>9 DEF Placed
  <2>7. Waiting' /\ Judged'
    BY <1>1, <1>6 DEF Parsed, Waiting, Judged
  <2> QED BY <1>3, <1>6, <2>2, <2>5, <2>6, <2>7, LayoutKept DEF Parsed
<1>7. CASE pos # Len(buf) /\ Form!Erase(pos + 2) /\ UNCHANGED <<items, text, rest, at>>
           /\ pos # 0 /\ UNCHANGED <<state, files>>
  <2>1. Begin = st[n + 1] - 5 /\ 3 <= Len(buf) /\ pos = 1
    BY <1>4, <1>7
  <2>2. Buffered' /\ Begin' = Begin + 3
    <3>1. 3 \in 0 .. Len(buf) /\ pos + 2 = 3
      BY <1>3, <2>1
    <3> QED BY <1>3, <1>7, <3>1, BufferErased
  <2>3. Begin' = st[n + 1] - 2
    BY <1>3, <2>1, <2>2, SMTT(30)
  <2>4. Placed(st)'
    BY <1>1, <1>3, <1>7, <2>3 DEF Placed
  <2>5. Filed' /\ Waiting' /\ Judged'
    BY <1>1, <1>7 DEF Parsed, Filed, Waiting, Judged
  <2> QED BY <1>3, <1>7, <2>2, <2>4, <2>5, LayoutKept DEF Parsed
<1> QED
  BY <1>2, <1>5, <1>6, <1>7

LEMMA AfterBoundaryParsed ==
  ASSUME PartsAssumption, NEW st, Parsed(st), Form!AfterBoundary
  PROVE  Parsed(st)'
<1> USE Signs
<1> DEFINE n == Len(files)
           e == Behind(st, n)
<1>1. at = "parse" /\ state = 4
  BY DEF Form!AfterBoundary, Form!InState
<1>2. \/ /\ Form!IsPrefix(CRLF, buf) /\ Form!Erase(2) /\ state' = 1
         /\ UNCHANGED <<items, text, rest, valid, files, at>>
      \/ /\ Form!IsPrefix(Dash \o CRLF, buf) /\ Form!Erase(4) /\ valid' = TRUE /\ state' = 5
         /\ UNCHANGED <<items, text, rest, files, at>>
      \/ /\ ~Form!IsPrefix(CRLF, buf) /\ ~Form!IsPrefix(Dash \o CRLF, buf)
         /\ Form!Return(TRUE) /\ UNCHANGED valid
  BY DEF Form!AfterBoundary, CRLF, Dash
<1>3. /\ n \in 1 .. Len(items) /\ n \in Nat /\ Len(items) \in Nat /\ Begin = e /\ e \in Nat
      /\ Buffered /\ Layout(st) /\ Len(buf) \in Nat /\ buf \in Seq(Chars) /\ text \in Seq(Chars)
  <2>1. n \in 1 .. Len(items) /\ Begin = e
    BY <1>1 DEF Parsed, Placed
  <2>2. files \in Seq(Seq(Chars)) /\ n \in Nat /\ Len(items) \in Nat
    BY LenProperties DEF Parsed, Filed, Layout
  <2> QED BY <2>1, <2>2, Places, LenProperties DEF Parsed, Buffered
<1>4. /\ n < Len(items) => Matches(text, e, CRLF) /\ st[n + 1] = e + 7
      /\ n = Len(items) => Matches(text, e, Dash \o CRLF)
  BY <1>3 DEF Layout, LayoutAt
<1>5. ASSUME NEW p \in Seq(Chars)
      PROVE  /\ Form!IsPrefix(p, buf) <=> Matches(buf, 0, p)
             /\ Matches(buf, 0, p) => Len(p) <= Len(buf) /\ Matches(text, e, p)
  <2>1. Form!IsPrefix(p, buf) <=> Matches(buf, 0, p)
    BY <1>3, Prefix
  <2>2. Matches(buf, 0, p) <=> 0 + Len(p) <= Len(buf) /\ Matches(text, Begin + 0, p)
    BY <1>3, BufferMatches
  <2>3. Len(p) \in Nat
    BY LenProperties
  <2> QED BY <1>3, <2>1, <2>2, <2>3
<1>6. ~(Matches(text, e, CRLF) /\ Matches(text, e, Dash \o CRLF))
  <2> SUFFICES ASSUME Matches(text, e, CRLF), Matches(text, e, Dash \o CRLF)
               PROVE  FALSE
    OBVIOUS
  <2>1. Matches(text, e, Dash)
    BY <1>3, MatchBoth
  <2>2. text[e + 1] = CRLF[1] /\ text[e + 1] = Dash[1]
    BY <2>1 DEF Matches
  <2> QED BY <2>2
<1> HIDE DEF e
<1>7. CASE Form!IsPrefix(CRLF, buf) /\ Form!Erase(2) /\ state' = 1
           /\ UNCHANGED <<items, text, rest, valid, files, at>>
  <2>1. 2 \in 0 .. Len(buf) /\ Matches(text, e, CRLF)
    BY <1>3, <1>5, <1>7
  <2>2. n < Len(items) /\ st[n + 1] = e + 7
    BY <1>3, <1>4, <1>6, <2>1
  <2>3. Buffered' /\ Begin' = Begin + 2
    BY <1>3, <1>7, <2>1, BufferErased
  <2>4. Begin' = st[n + 1] - 5 /\ n + 1 <= Len(items)
    BY <1>3, <2>2, <2>3
  <2>5. Placed(st)'
    BY <1>7, <2>4 DEF Placed
  <2>6. Filed' /\ Waiting' /\ Judged'
    BY <1>1, <1>7 DEF Parsed, Filed, Waiting, Judged
  <2> QED BY <1>3, <1>7, <2>3, <2>5, <2>6, LayoutKept DEF Parsed
<1>8. CASE Form!IsPrefix(Dash \o CRLF, buf) /\ Form!Erase(4) /\ valid' = TRUE /\ state' = 5
           /\ UNCHANGED <<items, text, rest, files, at>>
  <2>1. 4 \in 0 .. Len(buf) /\ Matches(text, e, Dash \o CRLF)
    <3>1. Dash \o CRLF \in Seq(Chars) /\ Len(Dash \o CRLF) = 4
      BY Signs
    <3>2. Len(Dash \o CRLF) <= Len(buf) /\ Matches(text, e, Dash \o CRLF)
      BY <1>5, <1>8, <3>1, Zenon
    <3> QED BY <1>3, <3>1, <3>2
  <2>2. n = Len(items)
    BY <1>3, <1>4, <1>6, <2>1
  <2>3. Buffered' /\ Begin' = Begin + 4
    BY <1>3, <1>8, <2>1, BufferErased
  <2>4. Placed(st)'
    BY <1>3, <1>8, <2>2, <2>3, SMTT(30) DEF Placed, Behind, EndOf, e
  <2>5. Filed' /\ Waiting' /\ Judged'
    BY <1>1, <1>8 DEF Parsed, Filed, Waiting, Judged
  <2> QED BY <1>3, <1>8, <2>3, <2>4, <2>5, LayoutKept DEF Parsed
<1>9. CASE ~Form!IsPrefix(CRLF, buf) /\ ~Form!IsPrefix(Dash \o CRLF, buf)
           /\ Form!Return(TRUE) /\ UNCHANGED valid
  <2>1. ~Matches(buf, 0, CRLF) /\ ~Matches(buf, 0, Dash \o CRLF)
    BY <1>5, <1>9
  <2>2. at' = "read" /\ state' = 4 /\ buf' = buf /\ text' = text /\ items' = items
    BY <1>1, <1>9 DEF Form!Return
  <2>3. Waiting' /\ Judged'
    BY <1>1, <1>9, <2>1, <2>2 DEF Parsed, Waiting, Judged
  <2>4. Layout(st)' /\ Buffered' /\ Placed(st)' /\ Filed'
    BY <1>9, Returned
  <2> QED BY <2>3, <2>4 DEF Parsed
<1> QED
  BY <1>2, <1>7, <1>8, <1>9

\* What is delivered of a content is the content, as far as it is delivered.
LEMMA Delivered ==
  ASSUME PartsAssumption, NEW st, Parsed(st), state = 3, NEW m \in 0 .. Len(buf),
         Begin + m <= EndOf(st, Len(files)), Form!Deliver(m)
  PROVE  /\ files' \in Seq(Seq(Chars)) /\ Len(files') = Len(files)
         /\ \A i \in 1 .. Len(files) : i # Len(files) => files'[i] = files[i]
         /\ Len(files'[Len(files)]) = (Begin + m) - st[Len(files)]
         /\ Matches(items[Len(files)], 0, files'[Len(files)])
         /\ Begin + m = EndOf(st, Len(files)) => files'[Len(files)] = items[Len(files)]
<1> DEFINE n == Len(files)
<1>1. PICK k : k = n
  OBVIOUS
<1>2. /\ k \in 1 .. Len(items) /\ k \in Nat /\ files \in Seq(Seq(Chars)) /\ k = Len(files)
      /\ Buffered /\ Layout(st) /\ buf \in Seq(Chars) /\ Len(buf) \in Nat /\ Begin \in Nat
      /\ text \in Seq(Chars)
  <2>1. files \in Seq(Seq(Chars)) /\ Len(files) \in Nat
    BY LenProperties DEF Parsed, Filed
  <2>2. k \in 1 .. Len(items)
    BY <1>1 DEF Parsed, Placed
  <2> QED BY <1>1, <2>1, <2>2, LenProperties DEF Parsed, Buffered, Layout
<1>3. /\ st[k] \in Nat /\ st[k] <= Begin /\ Begin <= EndOf(st, k) /\ EndOf(st, k) = st[k] + Len(items[k])
      /\ Len(files[k]) = Begin - st[k] /\ Matches(items[k], 0, files[k])
      /\ items[k] \in Seq(Chars) /\ Len(items[k]) \in Nat /\ Matches(text, st[k], items[k])
      /\ Begin + m <= EndOf(st, k)
  <2>1. /\ st[k] <= Begin /\ Begin <= EndOf(st, k)
        /\ Len(files[k]) = Begin - st[k] /\ Matches(items[k], 0, files[k])
    BY <1>1 DEF Parsed, Placed
  <2>2. Matches(text, st[k], items[k])
    BY <1>2 DEF Layout, LayoutAt
  <2> QED BY <1>1, <1>2, <2>1, <2>2, Places
<1> DEFINE c == items[k]
           f == files[k]
           d == SubSeq(buf, 1, m)
           e == Begin - st[k]
<1>4. d \in Seq(Chars) /\ Len(d) = m /\ \A j \in 1 .. m : d[j] = buf[j]
  <2>1. \A j \in 1 .. m : buf[j] \in Chars
    BY <1>2, ElementOfSeq
  <2>2. /\ d \in Seq(Chars)
        /\ Len(d) = IF 1 <= m THEN m - 1 + 1 ELSE 0
        /\ \A j \in 1 .. m - 1 + 1 : d[j] = buf[1 + j - 1]
    BY <1>2, <2>1, SubSeqProperties
  <2> HIDE DEF d
  <2>3. m \in Nat /\ Len(d) = m
    BY <1>2, <2>2
  <2>4. ASSUME NEW j \in 1 .. m
        PROVE  d[j] = buf[j]
    <3>1. j \in 1 .. m - 1 + 1 /\ 1 + j - 1 = j
      BY <2>3
    <3> QED BY <2>2, <3>1
  <2> QED BY <2>2, <2>3, <2>4
<1>5. f \in Seq(Chars)
  BY <1>2, ElementOfSeq
<1>6. files' = [files EXCEPT ![k] = f \o d]
  BY <1>1 DEF Form!Deliver
<1> HIDE DEF d, f
<1>7. /\ f \o d \in Seq(Chars) /\ Len(f \o d) = e + m
      /\ \A j \in 1 .. e + m : (f \o d)[j] = IF j <= e THEN f[j] ELSE d[j - e]
  <2>1. Len(f) = e
    BY <1>3 DEF f
  <2>2. /\ f \o d \in Seq(Chars) /\ Len(f \o d) = Len(f) + Len(d)
        /\ \A j \in 1 .. Len(f) + Len(d) : (f \o d)[j] = IF j <= Len(f) THEN f[j] ELSE d[j - Len(f)]
    BY <1>4, <1>5, ConcatProperties
  <2> HIDE DEF e
  <2> QED BY <1>4, <2>1, <2>2
<1>8. /\ files' \in Seq(Seq(Chars)) /\ Len(files') = k /\ files'[k] = f \o d
      /\ \A i \in 1 .. k : i # k => files'[i] = files[i]
  <2> DEFINE v == f \o d
  <2>1. v \in Seq(Chars) /\ files' = [files EXCEPT ![k] = v]
    BY <1>6, <1>7
  <2> HIDE DEF v
  <2>2. files' \in Seq(Seq(Chars)) /\ Len(files') = k /\ files'[k] = v
        /\ \A i \in 1 .. k : i # k => files'[i] = files[i]
    BY <1>2, <2>1, ExceptSeq
  <2> QED BY <2>2 DEF v
<1>9. /\ e \in Nat /\ e + m \in Nat /\ e + m <= Len(c) /\ m \in Nat
      /\ Begin + m = EndOf(st, k) => e + m = Len(c)
      /\ e + m = (Begin + m) - st[k] /\ Begin = st[k] + e
  <2> DEFINE s == st[k]
             l == Len(c)
             o == EndOf(st, k)
  <2>1. /\ s \in Nat /\ l \in Nat /\ Begin \in Nat /\ s <= Begin /\ o = s + l /\ Begin + m <= o
        /\ e = Begin - s /\ Len(buf) \in Nat
    BY <1>2, <1>3
  <2> HIDE DEF s, l, o, e, c
  <2>2. /\ e \in Nat /\ e + m \in Nat /\ e + m <= l /\ m \in Nat
        /\ Begin + m = o => e + m = l
        /\ e + m = (Begin + m) - s /\ Begin = s + e
    BY <2>1
  <2> QED BY <2>2 DEF s, l, o
<1>10. ASSUME NEW j \in 1 .. e + m
       PROVE  c[j] = (f \o d)[j]
  <2>1. CASE j <= e
    <3>1. j \in 1 .. e
      BY <1>9, <2>1
    <3>2. Matches(c, 0, f) /\ Len(f) = e
      BY <1>3 DEF c, f
    <3>3. c[0 + j] = f[j]
      BY <3>1, <3>2 DEF Matches
    <3> HIDE DEF c, e
    <3> QED BY <1>7, <1>9, <2>1, <3>1, <3>3
  <2>2. CASE ~(j <= e)
    <3> HIDE DEF c, e
    <3>1. /\ j - e \in 1 .. m /\ j - e \in 1 .. Len(buf) /\ Begin + (j - e) = st[k] + j
          /\ j \in 1 .. Len(c) /\ Len(c) \in Nat
      <4>1. Len(c) \in Nat /\ st[k] \in Nat /\ e \in Nat /\ m \in Nat /\ e + m <= Len(c)
            /\ Begin = st[k] + e /\ m <= Len(buf) /\ Len(buf) \in Nat
        BY <1>2, <1>3, <1>9 DEF c
      <4> QED BY <2>2, <4>1, SMTT(30)
    <3>2. (f \o d)[j] = d[j - e] /\ d[j - e] = buf[j - e]
      BY <1>4, <1>7, <2>2, <3>1
    <3>3. buf[j - e] = text[Begin + (j - e)]
      BY <1>2, <3>1 DEF Buffered
    <3>4. text[st[k] + j] = c[j]
      BY <1>3, <3>1 DEF Matches, c
    <3> QED BY <3>1, <3>2, <3>3, <3>4
  <2> QED BY <2>1, <2>2
<1> DEFINE v == f \o d
<1>11. v \in Seq(Chars) /\ Len(v) = e + m /\ \A j \in 1 .. e + m : c[j] = v[j]
  BY <1>7, <1>10
<1>12. c \in Seq(Chars) /\ Len(c) \in Nat
  BY <1>3
<1> HIDE DEF v, c, e
<1>13. Matches(c, 0, v)
  <2>1. \A j \in 1 .. e + m : 0 + j = j
    BY <1>9
  <2> QED BY <1>9, <1>11, <1>12, <2>1 DEF Matches
<1>14. e + m = Len(c) => v = c
  BY <1>11, <1>12, SeqEqual
<1> QED
  BY <1>1, <1>8, <1>9, <1>11, <1>13, <1>14 DEF v, c

\* Characters of a content are delivered, and the parser looks on.
LEMMA DeliveredSome ==
  ASSUME PartsAssumption, NEW st, Parsed(st), state = 3, NEW m \in 0 .. Len(buf),
         Begin + m <= EndOf(st, Len(files)), Form!Deliver(m), Form!Erase(m),
         UNCHANGED <<items, text, rest, state>>
  PROVE  Layout(st)' /\ Buffered' /\ Placed(st)' /\ Filed' /\ Len(buf') = Len(buf) - m
<1>1. PICK k : k = Len(files)
  OBVIOUS
<1>2. Buffered /\ Layout(st) /\ k \in 1 .. Len(items) /\ Len(items) \in Nat /\ st[k] <= Begin
      /\ st[k] \in Nat /\ Begin \in Nat
  <2>1. k \in 1 .. Len(items) /\ st[k] <= Begin
    BY <1>1 DEF Parsed, Placed
  <2> QED BY <2>1, LenProperties DEF Parsed, Layout, LayoutAt, Buffered
<1>3. Buffered' /\ Begin' = Begin + m /\ Len(buf') = Len(buf) - m
  BY <1>2, BufferErased
<1>4. /\ files' \in Seq(Seq(Chars)) /\ Len(files') = k
      /\ \A i \in 1 .. k : i # k => files'[i] = files[i]
      /\ Len(files'[k]) = (Begin + m) - st[k] /\ Matches(items[k], 0, files'[k])
  BY <1>1, Delivered
<1>5. Filed'
  <2>1. \A i \in 1 .. k : i # k => files[i] = items[i]
    BY <1>1 DEF Parsed, Filed
  <2>2. k <= Len(items) /\ items' = items /\ state' = 3
    BY <1>2
  <2>3. ASSUME NEW i \in 1 .. Len(files')
        PROVE  (i = Len(files') /\ state' = 3) \/ files'[i] = items'[i]
    <3>1. i \in 1 .. k
      BY <1>4
    <3>2. i = k \/ files'[i] = items[i]
      BY <1>4, <2>1, <3>1
    <3> QED BY <1>4, <2>2, <3>2
  <2>4. files' \in Seq(Seq(Chars)) /\ Len(files') <= Len(items')
    BY <1>4, <2>2
  <2> QED BY <2>3, <2>4 DEF Filed
<1>6. Placed(st)'
  <2>1. st[k] <= Begin' /\ Begin' <= EndOf(st, k) /\ Len(files'[k]) = Begin' - st[k]
    BY <1>1, <1>2, <1>3, <1>4
  <2>2. EndOf(st, k)' = EndOf(st, k)
    BY DEF EndOf
  <2> QED BY <1>2, <1>4, <2>1, <2>2 DEF Placed
<1> QED
  BY <1>2, <1>3, <1>5, <1>6, LayoutKept

LEMMA BodyParsed ==
  ASSUME PartsAssumption, ~CutAnywhere, NEW st, Parsed(st), Form!Body
  PROVE  Parsed(st)'
<1> USE Signs
<1> DEFINE pos == Form!Find(CRLF \o Dash)
           end == Form!Find(Delimiter)
           D == Len(Boundary) + 4
<1>0. PICK k : k = Len(files)
  OBVIOUS
<1>1. at = "parse" /\ state = 3 /\ valid' = valid
  BY DEF Form!Body, Form!InState
<1>2. \/ 4 > Len(buf) /\ Form!Return(TRUE)
      \/ /\ ~(4 > Len(buf)) /\ UNCHANGED <<items, text, rest>>
         /\ \/ D > Len(buf) - pos /\ Form!Deliver(pos) /\ Form!Erase(pos) /\ at' = "read" /\ state' = 3
            \/ /\ ~(D > Len(buf) - pos) /\ end < Len(buf) /\ Form!Deliver(end) /\ Form!Erase(end + D)
               /\ state' = 4 /\ at' = at
            \/ /\ ~(D > Len(buf) - pos) /\ ~(end < Len(buf)) /\ Form!Deliver(pos + D)
               /\ Form!Erase(pos + D) /\ UNCHANGED <<state, at>>
  <2>1. /\ Form!CRLF = CRLF /\ Form!Dash = Dash /\ Form!Delimiter = Delimiter
        /\ Len(CRLF \o Dash) = 4 /\ Len(Delimiter) = D
    BY DEF CRLF, Dash, Delimiter
  <2> HIDE DEF D, pos, end
  <2> QED BY <2>1 DEF Form!Body, pos, end
<1>3. /\ k \in 1 .. Len(items) /\ Buffered /\ Layout(st) /\ Begin \in Nat /\ Len(buf) \in Nat
      /\ text \in Seq(Chars) /\ Begin + Len(buf) = Cut /\ Cut \in Nat /\ D \in Nat /\ D >= 4
      /\ Len(Delimiter) = D /\ Len(CRLF \o Dash) = 4
  <2>1. Begin + Len(buf) = Cut
    BY LenProperties DEF Parsed, Buffered, Begin
  <2>2. k \in 1 .. Len(items)
    BY <1>0, <1>1 DEF Parsed, Placed
  <2> QED BY <2>1, <2>2, LenProperties DEF Parsed, Buffered, Layout
<1> DEFINE e == EndOf(st, k)
<1>4. /\ e \in Nat /\ st[k] \in Nat /\ st[k] <= Begin /\ Begin <= e /\ Behind(st, k) = e + D
  <2>1. st[k] <= Begin /\ Begin <= e
    BY <1>0, <1>1 DEF Parsed, Placed
  <2> QED BY <1>3, <2>1, Places
<1>5. Matches(text, e, Delimiter) /\ Matches(text, e, CRLF \o Dash)
  <2>1. Matches(text, e, Delimiter)
    BY <1>3 DEF Layout, LayoutAt
  <2>2. Delimiter = (CRLF \o Dash) \o Boundary
    BY DEF Delimiter, Form!Delimiter, CRLF, Dash
  <2> HIDE DEF e
  <2>3. Matches(text, e, (CRLF \o Dash) \o Boundary)
    BY <2>1, <2>2
  <2>4. Matches(text, e, CRLF \o Dash)
    BY <1>3, <1>4, <2>3, MatchBoth
  <2> QED BY <2>1, <2>4
<1>6. \A j \in Nat : Matches(buf, j, CRLF \o Dash) <=> j + 4 <= Len(buf) /\ Matches(text, Begin + j, CRLF \o Dash)
  <2> DEFINE p == CRLF \o Dash
  <2>1. p \in Seq(Chars) /\ Len(p) = 4
    OBVIOUS
  <2> HIDE DEF p
  <2>2. \A j \in Nat : Matches(buf, j, p) <=> j + 4 <= Len(buf) /\ Matches(text, Begin + j, p)
    BY <1>3, <2>1, BufferMatches
  <2> QED BY <2>2 DEF p
<1>7. \A j \in Nat : Matches(buf, j, Delimiter) <=> j + D <= Len(buf) /\ Matches(text, Begin + j, Delimiter)
  <2> HIDE DEF D
  <2> QED BY <1>3, BufferMatches
\* The end of what is read is no place in the delimiter but its boundary.
<1>8. ASSUME e < Cut, Cut < e + D
      PROVE  /\ e + 4 <= Cut
             /\ \A j \in Nat : j < e /\ Matches(text, j, CRLF \o Dash) => j + D <= e
  <2>1. Form!CleanCut(Cut)
    BY <1>3 DEF Buffered
  <2>2. e \in 0 .. Cut - 1 /\ e \in 0 .. Len(text) /\ Len(text) \in Nat
    <3>1. e + Len(Delimiter) <= Len(text) /\ Len(text) \in Nat
      BY <1>3, <1>5, LenProperties DEF Matches
    <3> HIDE DEF e, D
    <3> QED BY <1>3, <1>4, <1>8, <3>1
  <2>3. Form!StartsWith(text, e, Delimiter)
    <3> HIDE DEF e, D
    <3> QED BY <1>3, <1>5, <2>2, MatchIsPrefix
  <2>4. /\ \A i \in 0 .. Cut - 1 : Cut < i + Len(Delimiter) /\ Form!StartsWith(text, i, Delimiter) =>
             /\ i + Len(CRLF \o Dash) <= Cut
             /\ \A j \in 0 .. i - 1 : Form!StartsWith(text, j, CRLF \o Dash) => j + Len(Delimiter) <= i
    BY <2>1 DEF Form!CleanCut, Delimiter, CRLF, Dash
  <2> HIDE DEF e, D
  <2>5. /\ e + Len(CRLF \o Dash) <= Cut
        /\ \A j \in 0 .. e - 1 : Form!StartsWith(text, j, CRLF \o Dash) => j + Len(Delimiter) <= e
    BY <1>3, <1>8, <2>2, <2>3, <2>4
  <2>6. ASSUME NEW j \in Nat, j < e, Matches(text, j, CRLF \o Dash)
        PROVE  j + D <= e
    <3>1. j \in 0 .. e - 1 /\ j \in 0 .. Len(text)
      BY <1>4, <2>2, <2>6
    <3>2. Form!StartsWith(text, j, CRLF \o Dash)
      BY <1>3, <2>6, <3>1, MatchIsPrefix
    <3> QED BY <1>3, <2>5, <3>1, <3>2
  <2> QED BY <1>3, <2>5, <2>6
\* Where the first CRLF-- is: not behind the end of the content.
<1>9. pos \in 0 .. Len(buf) /\ Begin + pos <= e
      /\ (pos = Len(buf) \/ (pos + 4 <= Len(buf) /\ Matches(text, Begin + pos, CRLF \o Dash)))
  <2>1. \/ /\ pos \in Nat /\ Matches(buf, pos, CRLF \o Dash)
           /\ \A j \in Nat : Matches(buf, j, CRLF \o Dash) => pos <= j
        \/ pos = Len(buf) /\ \A j \in Nat : ~Matches(buf, j, CRLF \o Dash)
    <3> DEFINE p == CRLF \o Dash
    <3>1. p \in Seq(Chars) /\ Len(p) > 0
      OBVIOUS
    <3> HIDE DEF p, pos
    <3>2. \/ /\ Form!Find(p) \in Nat /\ Matches(buf, Form!Find(p), p)
             /\ \A j \in Nat : Matches(buf, j, p) => Form!Find(p) <= j
          \/ Form!Find(p) = Len(buf) /\ \A j \in Nat : ~Matches(buf, j, p)
      BY <1>3, <3>1, Found
    <3> QED BY <3>2 DEF p, pos
  <2> HIDE DEF pos, e, D
  <2>2. CASE e + 4 <= Cut
    <3>1. e - Begin \in Nat /\ (e - Begin) + 4 <= Len(buf) /\ Begin + (e - Begin) = e
      BY <1>3, <1>4, <2>2
    <3>2. Matches(buf, e - Begin, CRLF \o Dash)
      BY <1>5, <1>6, <3>1
    <3>3. pos \in Nat /\ pos <= e - Begin /\ Matches(buf, pos, CRLF \o Dash)
      BY <2>1, <3>1, <3>2
    <3>4. pos + 4 <= Len(buf) /\ Matches(text, Begin + pos, CRLF \o Dash)
      BY <1>6, <3>3
    <3> QED BY <1>3, <1>4, <3>1, <3>3, <3>4
  <2>3. CASE ~(e + 4 <= Cut)
    <3>1. Cut <= e
      BY <1>3, <1>4, <1>8, <2>3
    <3>2. pos \in 0 .. Len(buf) /\ (pos = Len(buf) \/ (pos + 4 <= Len(buf) /\ Matches(text, Begin + pos, CRLF \o Dash)))
      BY <1>3, <1>6, <2>1, SMTT(20)
    <3> QED BY <1>3, <1>4, <3>1, <3>2
  <2> QED BY <2>2, <2>3
\* Where the first delimiter is: at the end of the content.
<1>10. \/ end = e - Begin /\ e + D <= Cut
       \/ end = Len(buf) /\ ~(e + D <= Cut)
  <2>1. \/ /\ end \in Nat /\ Matches(buf, end, Delimiter)
           /\ \A j \in Nat : Matches(buf, j, Delimiter) => end <= j
        \/ end = Len(buf) /\ \A j \in Nat : ~Matches(buf, j, Delimiter)
    <3>1. Len(Delimiter) > 0
      BY <1>3
    <3> QED BY <1>3, <3>1, Found
  <2>2. ASSUME NEW j \in Nat, Matches(buf, j, Delimiter)
        PROVE  e <= Begin + j /\ (Begin + j) + D <= Cut
    <3>1. j + D <= Len(buf) /\ Matches(text, Begin + j, Delimiter)
      BY <1>7, <2>2
    <3>2. Begin + j \in Nat /\ st[k] <= Begin + j /\ (Begin + j) + D <= Cut
      <4>1. st[k] \in Nat /\ st[k] <= Begin
        BY <1>4
      <4> HIDE DEF D, e
      <4> QED BY <1>3, <3>1, <4>1, SMTT(30)
    <3>3. ~(Begin + j < e)
      BY <1>3, <3>1, <3>2, NoneBefore
    <3> HIDE DEF e, D
    <3> QED BY <1>4, <3>2, <3>3
  <2> HIDE DEF end, e, D
  <2>3. CASE e + D <= Cut
    <3>1. e - Begin \in Nat /\ (e - Begin) + D <= Len(buf) /\ Begin + (e - Begin) = e
      BY <1>3, <1>4, <2>3
    <3>2. Matches(buf, e - Begin, Delimiter)
      BY <1>5, <1>7, <3>1
    <3>3. end \in Nat /\ end <= e - Begin /\ Matches(buf, end, Delimiter)
      BY <2>1, <3>1, <3>2
    <3>4. e <= Begin + end
      BY <2>2, <3>3
    <3> QED BY <1>3, <1>4, <2>3, <3>3, <3>4
  <2>4. CASE ~(e + D <= Cut)
    <3>1. ASSUME NEW j \in Nat, Matches(buf, j, Delimiter)
          PROVE  FALSE
      <4>1. e <= Begin + j /\ (Begin + j) + D <= Cut
        BY <2>2, <3>1
      <4> QED BY <1>3, <1>4, <2>4, <4>1
    <3> QED BY <2>1, <2>4, <3>1
  <2> QED BY <2>3, <2>4
<1> HIDE DEF pos, end, e, D
<1>11. CASE 4 > Len(buf) /\ Form!Return(TRUE)
  <2>1. at' = "read" /\ state' = 3 /\ buf' = buf /\ text' = text /\ items' = items
    BY <1>1, <1>11 DEF Form!Return
  <2>2. Len(buf) < Len(Boundary) + 4
    BY <1>3, <1>11
  <2>3. Waiting' /\ Judged'
    BY <1>1, <2>1, <2>2 DEF Parsed, Waiting, Judged
  <2>4. Layout(st)' /\ Buffered' /\ Placed(st)' /\ Filed'
    BY <1>11, Returned
  <2> QED BY <2>3, <2>4 DEF Parsed
<1>12. CASE UNCHANGED <<items, text, rest>> /\ D > Len(buf) - pos /\ Form!Deliver(pos)
            /\ Form!Erase(pos) /\ at' = "read" /\ state' = 3
  <2>1. Begin + pos <= EndOf(st, Len(files)) /\ pos \in 0 .. Len(buf) /\ UNCHANGED <<items, text, rest, state>>
    BY <1>0, <1>1, <1>9, <1>12 DEF e
  <2>2. Layout(st)' /\ Buffered' /\ Placed(st)' /\ Filed' /\ Len(buf') = Len(buf) - pos
    BY <1>1, <1>12, <2>1, DeliveredSome
  <2>3. Len(buf') < Len(Boundary) + 4
    BY <1>12, <2>2 DEF D
  <2>4. Waiting' /\ Judged'
    BY <1>1, <1>12, <2>3 DEF Parsed, Waiting, Judged
  <2> QED BY <2>2, <2>4 DEF Parsed
<1>13. CASE UNCHANGED <<items, text, rest>> /\ end < Len(buf) /\ Form!Deliver(end)
            /\ Form!Erase(end + D) /\ state' = 4 /\ at' = at
  <2>1. /\ end = e - Begin /\ end \in 0 .. Len(buf) /\ Begin + end = e
        /\ end + D \in 0 .. Len(buf) /\ Begin + (end + D) = e + D
    <3>1. end = e - Begin /\ e + D <= Cut
      BY <1>3, <1>10, <1>13
    <3> QED BY <1>3, <1>4, <3>1
  <2>2. /\ files' \in Seq(Seq(Chars)) /\ Len(files') = k
        /\ \A i \in 1 .. k : i # k => files'[i] = files[i]
        /\ files'[k] = items[k]
    <3>1. Begin + end = EndOf(st, Len(files)) /\ Begin + end <= EndOf(st, Len(files))
      BY <1>0, <1>4, <2>1 DEF e
    <3> QED BY <1>0, <1>1, <1>13, <2>1, <3>1, Delivered
  <2>3. Buffered' /\ Begin' = e + D
    <3>1. Buffered' /\ Begin' = Begin + (end + D)
      BY <1>3, <1>13, <2>1, BufferErased
    <3> QED BY <2>1, <3>1
  <2>4. Filed'
    <3>1. \A i \in 1 .. k : i # k => files[i] = items[i]
      BY <1>0, <1>1 DEF Parsed, Filed
    <3>2. Len(items) \in Nat /\ k <= Len(items)
      BY <1>3 DEF Layout
    <3> QED BY <1>13, <2>2, <3>1, <3>2 DEF Filed
  <2>5. Placed(st)'
    <3>1. Behind(st, k)' = Behind(st, k)
      BY <1>13 DEF Behind, EndOf
    <3>2. Begin' = Behind(st, k)
      BY <1>4, <2>3
    <3> QED BY <1>3, <1>13, <2>2, <3>1, <3>2 DEF Placed
  <2>6. Waiting' /\ Judged'
    BY <1>1, <1>13 DEF Parsed, Waiting, Judged
  <2> QED BY <1>3, <1>13, <2>3, <2>4, <2>5, <2>6, LayoutKept DEF Parsed
<1>14. CASE UNCHANGED <<items, text, rest>> /\ ~(D > Len(buf) - pos) /\ ~(end < Len(buf))
            /\ Form!Deliver(pos + D) /\ Form!Erase(pos + D) /\ UNCHANGED <<state, at>>
  <2>1. pos + D \in 0 .. Len(buf) /\ pos # Len(buf)
    BY <1>3, <1>9, <1>14, SMTT(30)
  <2>2. Matches(text, Begin + pos, CRLF \o Dash) /\ Begin + pos \in Nat
    BY <1>3, <1>9, <2>1
  <2>3. ~(e + D <= Cut)
    BY <1>3, <1>4, <1>10, <1>14
  <2>4. Begin + (pos + D) <= e
    <3>1. CASE Cut <= e
      BY <1>3, <1>4, <2>1, <3>1, SMTT(30)
    <3>2. CASE ~(Cut <= e)
      <4>1. e < Cut /\ Cut < e + D
        BY <1>3, <1>4, <2>3, <3>2
      <4>2. Begin + pos < e
        BY <1>3, <1>4, <1>9, <2>1, <4>1, SMTT(20)
      <4>3. (Begin + pos) + D <= e
        BY <1>8, <2>2, <4>1, <4>2
      <4> QED BY <1>3, <1>9, <4>3
    <3> QED BY <3>1, <3>2
  <2>5. Begin + (pos + D) <= EndOf(st, Len(files)) /\ UNCHANGED <<items, text, rest, state>>
    BY <1>0, <1>14, <2>4 DEF e
  <2>6. Layout(st)' /\ Buffered' /\ Placed(st)' /\ Filed'
    BY <1>1, <1>14, <2>1, <2>5, DeliveredSome
  <2>7. Waiting' /\ Judged'
    BY <1>1, <1>14 DEF Parsed, Waiting, Judged
  <2> QED BY <2>6, <2>7 DEF Parsed
<1> QED
  BY <1>2, <1>11, <1>12, <1>13, <1>14

LEMMA EndOfBodyParsed ==
  ASSUME PartsAssumption, NEW st, Parsed(st), Form!EndOfBody
  PROVE  Parsed(st)'
<1> USE Signs
<1>1. /\ at = "read" /\ rest = <<>> /\ at' = (IF valid THEN "accepted" ELSE "refused")
      /\ UNCHANGED <<items, text, rest, buf, state, valid, files>>
  BY DEF Form!EndOfBody
<1>2. /\ Buffered /\ Layout(st) /\ buf \in Seq(Chars) /\ Len(buf) \in Nat /\ Begin \in Nat
      /\ text \in Seq(Chars) /\ Len(text) \in Nat /\ Begin + Len(buf) = Len(text)
      /\ Len(files) \in Nat /\ Len(items) \in Nat /\ Len(items) # 0 /\ Len(Boundary) \in Nat
  <2>1. Len(rest) = 0
    BY <1>1, EmptySeq
  <2>2. /\ Buffered /\ Layout(st) /\ buf \in Seq(Chars) /\ Len(buf) \in Nat /\ Begin \in Nat
        /\ text \in Seq(Chars) /\ Len(text) \in Nat /\ Len(items) \in Nat /\ Len(items) # 0
        /\ files \in Seq(Seq(Chars))
    BY LenProperties DEF Parsed, Buffered, Layout, Filed
  <2>3. Begin = (Len(text) - Len(rest)) - Len(buf)
    BY DEF Begin, Cut
  <2>4. Len(files) \in Nat
    BY <2>2, LenProperties
  <2> QED BY <2>1, <2>2, <2>3, <2>4
\* What stands in the buffer is found there, for all of the text is.
<1>3. ASSUME NEW i \in Nat, NEW p \in Seq(Chars), Matches(text, Begin + i, p)
      PROVE  Matches(buf, i, p)
  <2>1. (Begin + i) + Len(p) <= Len(text) /\ Len(p) \in Nat
    BY <1>3, LenProperties DEF Matches
  <2>2. i + Len(p) <= Len(buf)
    BY <1>2, <2>1
  <2> QED BY <1>2, <1>3, <2>2, BufferMatches
<1>4. state = 5
  <2>1. state \in 0 .. 5
    BY DEF Parsed, Placed
  <2>2. ASSUME state = 0
        PROVE  FALSE
    <3>1. Begin = 0 /\ Len(buf) < Len(Boundary) + 4
      BY <1>1, <2>2 DEF Parsed, Placed, Waiting
    <3>2. 0 + Len(Dash \o Boundary \o CRLF) <= Len(text)
      BY <1>2 DEF Layout, Matches
    <3> QED BY <1>2, <3>1, <3>2
  <2>3. ASSUME state \in 1 .. 2
        PROVE  FALSE
    <3>1. PICK k : k = Len(files) + 1
      OBVIOUS
    <3>2. k \in 1 .. Len(items) /\ Begin \in {st[k] - 5, st[k] - 2}
      BY <1>2, <2>3, <3>1 DEF Parsed, Placed
    <3>3. /\ Matches(text, st[k] - 5, <<"h">>) /\ Matches(text, st[k] - 4, CRLF)
          /\ Matches(text, st[k] - 2, CRLF) /\ st[k] \in Nat
      BY <1>2, <3>2 DEF Layout, LayoutAt
    <3>4. PICK i \in Nat : Matches(text, Begin + i, CRLF)
      <4>1. CASE Begin = st[k] - 5
        <5>1. Begin + 1 = st[k] - 4
          BY <1>2, <3>3, <4>1, SMTT(30)
        <5> QED BY <3>3, <5>1
      <4>2. CASE Begin = st[k] - 2
        <5>1. Begin + 0 = st[k] - 2
          BY <1>2, <3>3, <4>2
        <5> QED BY <3>3, <5>1
      <4> QED BY <3>2, <4>1, <4>2
    <3>5. Matches(buf, i, CRLF)
      BY <1>3, <3>4
    <3>6. CASE state = 1
      <4>1. buf = <<>>
        BY <1>1, <3>6 DEF Parsed, Waiting
      <4>2. Len(buf) = 0
        BY <4>1, EmptySeq
      <4> QED BY <3>5, <4>2 DEF Matches
    <3>7. CASE state = 2
      BY <1>1, <3>5, <3>7 DEF Parsed, Waiting
    <3> QED BY <2>3, <3>6, <3>7
  <2>4. ASSUME state \in 3 .. 4
        PROVE  FALSE
    <3>1. PICK k : k = Len(files)
      OBVIOUS
    <3>2. k \in 1 .. Len(items)
      BY <2>4, <3>1 DEF Parsed, Placed
    <3>3. LayoutAt(st, k) /\ EndOf(st, k) \in Nat /\ Behind(st, k) \in Nat
          /\ Behind(st, k) = EndOf(st, k) + (Len(Boundary) + 4) /\ Behind(st, k) <= Len(text)
      BY <1>2, <3>2, Places DEF Layout
    <3>4. CASE state = 3
      <4>1. Begin <= EndOf(st, k) /\ Len(buf) < Len(Boundary) + 4
        BY <1>1, <3>1, <3>4 DEF Parsed, Placed, Waiting
      <4> QED BY <1>2, <3>3, <4>1, SMTT(20)
    <3>5. CASE state = 4
      <4>1. /\ Begin = Behind(st, k)
            /\ ~Matches(buf, 0, CRLF) /\ ~Matches(buf, 0, Dash \o CRLF)
        BY <1>1, <3>1, <3>5 DEF Parsed, Placed, Waiting
      <4>2. Matches(text, Begin, CRLF) \/ Matches(text, Begin, Dash \o CRLF)
        BY <1>2, <3>2, <3>3, <4>1 DEF LayoutAt
      <4>3. Begin + 0 = Begin /\ 0 \in Nat /\ Dash \o CRLF \in Seq(Chars) /\ CRLF \in Seq(Chars)
        BY <1>2, Signs
      <4> DEFINE q == Dash \o CRLF
      <4>4. q \in Seq(Chars) /\ ~Matches(buf, 0, q) /\ (Matches(text, Begin, CRLF) \/ Matches(text, Begin, q))
        BY <4>1, <4>2, <4>3
      <4> HIDE DEF q
      <4> QED BY <1>3, <4>1, <4>3, <4>4
    <3> QED BY <2>4, <3>4, <3>5
  <2> QED BY <2>1, <2>2, <2>3, <2>4
<1>5. valid /\ at' = "accepted"
  BY <1>1, <1>4 DEF Parsed, Judged
<1>6. Waiting' /\ Judged'
  BY <1>1, <1>4, <1>5 DEF Waiting, Judged
<1>7. Buffered' /\ Begin' = Begin
  BY <1>1, <1>2, BufferKept
<1>8. Filed'
  BY <1>1 DEF Parsed, Filed
<1> QED
  BY <1>1, <1>2, <1>6, <1>7, <1>8, LayoutKept, PlacedKept DEF Parsed

LEMMA FormStep ==
  ASSUME PartsAssumption, ~CutAnywhere, FormInv, Form!Next
  PROVE  FormInv'
<1>1. PICK st : Parsed(st)
  BY DEF FormInv
<1>2. Parsed(st)'
  <2>1. CASE Form!ReadPiece
    BY <1>1, <2>1, ReadPieceParsed
  <2>2. CASE Form!InitialBoundary
    BY <1>1, <2>2, InitialBoundaryParsed
  <2>3. CASE Form!NewEntry
    BY <1>1, <2>3, NewEntryParsed
  <2>4. CASE Form!HeaderLine
    BY <1>1, <2>4, HeaderLineParsed
  <2>5. CASE Form!Body
    BY <1>1, <2>5, BodyParsed
  <2>6. CASE Form!AfterBoundary
    BY <1>1, <2>6, AfterBoundaryParsed
  <2>7. CASE Form!AfterTheEnd
    BY <1>1, <2>7, AfterTheEndParsed
  <2>8. CASE Form!BufferEmpty
    BY <1>1, <2>8, BufferEmptyParsed
  <2>9. CASE Form!EndOfBody
    BY <1>1, <2>9, EndOfBodyParsed
  <2> QED BY <2>1, <2>2, <2>3, <2>4, <2>5, <2>6, <2>7, <2>8, <2>9 DEF Form!Next
<1> QED
  BY <1>2 DEF FormInv

LEMMA FormInit ==
  ASSUME PartsAssumption, Form!Init
  PROVE  FormInv
<1>1. PICK n \in 1 .. MaxItems : items \in [1 .. n -> Contents]
  BY DEF Form!Init
<1>2. PICK e \in Epilogues : text = Form!Encode(items) \o e
  BY DEF Form!Init
<1>3. n \in Nat /\ n # 0
  BY <1>1 DEF PartsAssumption, Form!FormAssumption
<1>4. PICK st : Layout(st)
  BY <1>1, <1>2, <1>3, EncodeLayout
<1>5. /\ rest = text /\ buf = <<>> /\ state = 0 /\ valid = FALSE /\ files = <<>> /\ at = "read"
  BY DEF Form!Init
<1>6. /\ text \in Seq(Chars) /\ Len(text) \in Nat /\ Len(items) \in Nat /\ Len(Boundary) \in Nat
  BY <1>4, Signs, LenProperties DEF Layout
<1>7. Len(buf) = 0 /\ Len(files) = 0 /\ Cut = 0 /\ Begin = 0 /\ buf \in Seq(Chars) /\ files \in Seq(Seq(Chars))
  <2>1. Len(buf) = 0 /\ Len(files) = 0 /\ buf \in Seq(Chars) /\ files \in Seq(Seq(Chars))
    BY <1>5, EmptySeq
  <2>2. Cut = 0
    BY <1>5, <1>6 DEF Cut
  <2> QED BY <2>1, <2>2 DEF Begin
<1>8. Buffered
  <2>1. Form!CleanCut(0)
    <3>1. 0 .. 0 - 1 = {}
      OBVIOUS
    <3> QED BY <3>1 DEF Form!CleanCut
  <2>2. \A j \in 1 .. Len(buf) : buf[j] = text[Begin + j]
    BY <1>7
  <2>3. \A j \in 1 .. Len(rest) : rest[j] = text[Cut + j]
    BY <1>5, <1>6, <1>7
  <2> QED BY <1>5, <1>6, <1>7, <2>1, <2>2, <2>3 DEF Buffered
<1>9. Placed(st) /\ Filed /\ Waiting /\ Judged
  BY <1>5, <1>6, <1>7 DEF Placed, Filed, Waiting, Judged
<1> QED
  BY <1>4, <1>8, <1>9 DEF FormInv, Parsed

LEMMA MoreOf ==
  ASSUME NEW S, NEW T, S \subseteq T, NEW s \in Seq(S)
  PROVE  s \in Seq(T)
<1>1. PICK n \in Nat : s \in [1 .. n -> S]
  BY SeqDef
<1>2. s \in [1 .. n -> T]
  BY <1>1
<1> QED
  BY <1>2, SeqDef

\* What the invariant says of the files that are delivered.
LEMMA FormSays ==
  ASSUME PartsAssumption, FormInv
  PROVE  Form!DeliveredIsSent /\ Form!PiecesDoNotMatter
<1>1. PICK st : Parsed(st)
  BY DEF FormInv
<1>2. /\ files \in Seq(Seq(Chars)) /\ Len(files) <= Len(items) /\ Len(files) \in Nat
      /\ DOMAIN files = 1 .. Len(files) /\ items \in Seq(Contents) /\ Len(items) \in Nat
      /\ \A i \in 1 .. Len(files) : (i = Len(files) /\ state = 3) \/ files[i] = items[i]
  BY <1>1, LenProperties DEF Parsed, Filed, Layout
<1>3. ASSUME state = 3
      PROVE  Form!IsPrefix(files[Len(files)], items[Len(files)])
  <2>1. Len(files) \in 1 .. Len(items) /\ Matches(items[Len(files)], 0, files[Len(files)])
    BY <1>1, <1>3 DEF Parsed, Placed
  <2>2. items[Len(files)] \in Seq(Chars)
    BY <1>1, <2>1, Places DEF Parsed
  <2>3. files[Len(files)] \in Seq(Chars)
    <3> DEFINE n == Len(files)
    <3>1. n \in 1 .. Len(items) /\ n \in Nat /\ Len(items) \in Nat
      BY <1>2, <2>1
    <3> HIDE DEF n
    <3>2. n \in 1 .. n
      BY <3>1
    <3> QED BY <1>2, <3>2, ElementOfSeq DEF n
  <2> QED BY <2>1, <2>2, <2>3, Prefix
<1>4. Form!DeliveredIsSent
  BY <1>2, <1>3 DEF Form!DeliveredIsSent
<1>5. at = "accepted" => files = items
  <2> SUFFICES ASSUME at = "accepted"
               PROVE  files = items
    OBVIOUS
  <2>1. state = 5
    BY <1>1 DEF Parsed, Judged
  <2>2. Len(files) = Len(items) /\ \A i \in 1 .. Len(files) : files[i] = items[i]
    BY <1>1, <1>2, <2>1 DEF Parsed, Placed
  <2>5. items \in Seq(Seq(Chars))
    <3>1. Contents \subseteq Seq(Chars)
      BY DEF PartsAssumption, Form!FormAssumption, Chars
    <3> QED BY <1>2, <3>1, MoreOf
  <2> QED BY <1>2, <2>2, <2>5, SeqEqual
<1>6. text = Form!Encode(items) => at # "refused"
  BY <1>1 DEF Parsed, Judged
<1> QED
  BY <1>4, <1>5, <1>6 DEF Form!PiecesDoNotMatter

\* If the form is the part that moves, its body is parsed as said; if it is
\* not, there is no file.
FormPart ==
  /\ part = "form" => FormInv
  /\ part # "form" => files = <<>> /\ items = <<>>

LEMMA FormPartStep ==
  ASSUME PartsAssumption, ~CutAnywhere, FormPart, [AllNext]_all
  PROVE  FormPart'
<1>1. CASE FormOnly /\ Form!Next
  BY <1>1, FormStep DEF FormPart, FormOnly
<1>2. CASE UNCHANGED <<part, ofForm>>
  <2>1. UNCHANGED <<part, items, text, rest, buf, state, valid, files, at>>
    BY <1>2 DEF ofForm
  <2>2. ASSUME NEW st, Parsed(st)
        PROVE  Parsed(st)'
    <3>1. Buffered' /\ Begin' = Begin
      BY <2>1, <2>2, BufferKept DEF Parsed
    <3>2. Filed' /\ Waiting' /\ Judged'
      BY <2>1, <2>2 DEF Parsed, Filed, Waiting, Judged, Form!Encode
    <3> QED BY <2>1, <2>2, <3>1, <3>2, LayoutKept, PlacedKept DEF Parsed
  <2>3. FormInv => FormInv'
    BY <2>2 DEF FormInv
  <2> QED BY <2>1, <2>3 DEF FormPart
<1>3. CASE (ClientOnly /\ Next) \/ (SocketOnly /\ Create!Next) \/ Grow \/ UNCHANGED all
  BY <1>2, <1>3 DEF ClientOnly, SocketOnly, Grow, all
<1> QED
  BY <1>1, <1>3 DEF AllNext

\* Every body that the client of httplib.h puts together, with any boundary
\* without CR, any contents without the delimiter and any epilogue, is
\* taken apart into the contents that were sent, whatever pieces it is read in
\* if none ends where the parser stumbles (MultipartFormDataParser::parse()).
THEOREM DeliveredIsSentHolds ==
  ASSUME ~CutAnywhere
  PROVE  AllSpec => []DeliveredIsSent
<1> USE PartsAssumption
<1>1. AllInit => FormPart
  <2> SUFFICES ASSUME AllInit
               PROVE  FormPart
    OBVIOUS
  <2>1. part = "form" => Form!Init
    BY DEF AllInit
  <2>2. part # "form" => files = <<>> /\ items = <<>>
    BY DEF AllInit
  <2> QED BY <2>1, <2>2, FormInit DEF FormPart
<1>2. FormPart /\ [AllNext]_all => FormPart'
  BY FormPartStep
<1>3. FormPart => DeliveredIsSent
  <2> SUFFICES ASSUME FormPart
               PROVE  Form!DeliveredIsSent
    BY DEF DeliveredIsSent
  <2>1. CASE part = "form"
    BY <2>1, FormSays DEF FormPart
  <2>2. CASE part # "form"
    <3>1. files = <<>> /\ items = <<>>
      BY <2>2 DEF FormPart
    <3>2. Len(files) <= Len(items) /\ DOMAIN files = {}
      BY <3>1
    <3> QED BY <3>2 DEF Form!DeliveredIsSent
  <2> QED BY <2>1, <2>2
<1> QED
  BY <1>1, <1>2, <1>3, PTL DEF AllSpec

\* And it is accepted only with all the items, and refused only if another
\* client has appended something (read_content_core() with is_valid()).
THEOREM NeverRefused ==
  ASSUME ~CutAnywhere
  PROVE  AllSpec => [](part = "form" => Form!PiecesDoNotMatter)
<1> USE PartsAssumption
<1>1. AllInit => FormPart
  <2> SUFFICES ASSUME AllInit
               PROVE  FormPart
    OBVIOUS
  <2>1. part = "form" => Form!Init
    BY DEF AllInit
  <2>2. part # "form" => files = <<>> /\ items = <<>>
    BY DEF AllInit
  <2> QED BY <2>1, <2>2, FormInit DEF FormPart
<1>2. FormPart /\ [AllNext]_all => FormPart'
  BY FormPartStep
<1>3. FormPart => (part = "form" => Form!PiecesDoNotMatter)
  BY FormSays DEF FormPart
<1> QED
  BY <1>1, <1>2, <1>3, PTL DEF AllSpec

-----------------------------------------------------------------------------
(***************************************************************************)
(* Texts, of any length.  First the ranges.                                *)
(***************************************************************************)
\* The least and the greatest of the sets that ranges are made of.
LEMMA EndsOfInterval ==
  ASSUME NEW a \in Int, NEW b \in Int, a <= b
  PROVE  Text!Min(a .. b) = a /\ Text!Max(a .. b) = b
<1>1. a \in a .. b /\ \A y \in a .. b : a <= y
  OBVIOUS
<1>2. b \in a .. b /\ \A y \in a .. b : y <= b
  OBVIOUS
<1>3. \A x \in a .. b : (\A y \in a .. b : x <= y) => x = a
  BY <1>1
<1>4. \A x \in a .. b : (\A y \in a .. b : y <= x) => x = b
  BY <1>2
<1>5. Text!Min(a .. b) = a
  <2>1. \E x \in a .. b : \A y \in a .. b : x <= y
    BY <1>1
  <2> QED BY <2>1, <1>3, Zenon DEF Text!Min
<1>6. Text!Max(a .. b) = b
  <2>1. \E x \in a .. b : \A y \in a .. b : x >= y
    BY <1>2
  <2>2. \A x \in a .. b : (\A y \in a .. b : x >= y) => x = b
    BY <1>4
  <2> QED BY <2>1, <2>2, Zenon DEF Text!Max
<1> QED BY <1>5, <1>6

LEMMA PairEnds ==
  ASSUME NEW a \in Int, NEW b \in Int
  PROVE  /\ Text!Max({a, b}) = IF a >= b THEN a ELSE b
         /\ Text!Min({a, b}) = IF a <= b THEN a ELSE b
BY SMT DEF Text!Min, Text!Max

\* Whatever is asked of a body is the part of it behind the first f bytes, up to
\* the byte h.
LEMMA SliceOf ==
  ASSUME NEW S, NEW s \in Seq(S), NEW first, NEW last,
         NEW f \in Nat, NEW h \in Int, NEW k \in Int,
         Text!GetRangeOffsetAndLength(first, last, Len(s)) = [offset |-> f, length |-> k],
         h = (IF Len(s) <= f + k THEN Len(s) ELSE f + k),
         f < Len(s) => f < h,
         \A i \in 1 .. Len(s) :
           (IF first = -1 THEN last = -1 \/ i > Len(s) - last
            ELSE i > first /\ (last = -1 \/ i <= last + 1)) <=> f < i /\ i <= h
  PROVE  Text!RangeIsAnswered(s, first, last)
<1> DEFINE n == Len(s)
           asked == {i \in DOMAIN s :
                       IF first = -1 THEN last = -1 \/ i > Len(s) - last
                       ELSE i > first /\ (last = -1 \/ i <= last + 1)}
<1>1. n \in Nat /\ DOMAIN s = 1 .. n
  BY LenProperties
<1>2. /\ h = (IF n <= f + k THEN n ELSE f + k)
      /\ f < n => f < h
      /\ asked = {i \in 1 .. n : f < i /\ i <= h}
  BY <1>1
<1>3. Text!ApplyRange(s, first, last) =
        LET r == [offset |-> f, length |-> k]
        IN  IF r.offset < n
            THEN [status |-> 206, body |-> SubSeq(s, r.offset + 1, Text!Min({n, r.offset + r.length}))]
            ELSE [status |-> 416, body |-> <<>>]
  BY DEF Text!ApplyRange
<1>4. Text!RangeIsAnswered(s, first, last) <=>
        Text!ApplyRange(s, first, last) =
          IF asked = {} THEN [status |-> 416, body |-> <<>>]
          ELSE [status |-> 206, body |-> SubSeq(s, Text!Min(asked), Text!Max(asked))]
  BY DEF Text!RangeIsAnswered
<1> HIDE DEF n, asked
<1>5. Text!ApplyRange(s, first, last) =
        IF f < n THEN [status |-> 206, body |-> SubSeq(s, f + 1, h)]
        ELSE [status |-> 416, body |-> <<>>]
  <2>1. n \in Int /\ f + k \in Int
    BY <1>1
  <2>2. Text!Min({n, f + k}) = IF n <= f + k THEN n ELSE f + k
    BY <2>1, PairEnds
  <2>3. Text!Min({n, f + k}) = h
    BY <1>2, <2>2
  <2> QED BY <1>3, <2>3
<1>6. h <= n
  BY <1>1, <1>2
<1>7. CASE f < n
  <2>1. asked = (f + 1) .. h
    BY <1>1, <1>2, <1>6
  <2>2. f + 1 \in Int /\ f + 1 <= h
    BY <1>1, <1>2, <1>7
  <2>3. Text!Min(asked) = f + 1 /\ Text!Max(asked) = h
    BY <2>1, <2>2, EndsOfInterval, Zenon
  <2>4. asked # {}
    BY <2>1, <2>2
  <2> QED BY <1>4, <1>5, <1>7, <2>3, <2>4, Zenon
<1>8. CASE ~(f < n)
  <2>1. asked = {}
    BY <1>1, <1>2, <1>6, <1>8
  <2> QED BY <1>4, <1>5, <1>8, <2>1, Zenon
<1> QED BY <1>7, <1>8

\* get_range_offset_and_length() and apply_ranges(): every range that
\* parse_range_header() lets through is answered with the bytes it names, or with
\* 416 if there are none, for every body that is not empty; one without any
\* number ("bytes=-") with all of them.
THEOREM RangesAreSlices ==
  ASSUME NEW S, NEW s \in Seq(S), s # <<>>,
         NEW first \in Nat \cup {-1}, NEW last \in Nat \cup {-1}, Text!IsRange(first, last)
  PROVE  Text!RangeIsAnswered(s, first, last)
<1> DEFINE n == Len(s)
<1>1. n \in Nat /\ n > 0
  BY SMT
<1> HIDE DEF n
<1>2. CASE first = -1 /\ last = -1
  <2>1. Text!GetRangeOffsetAndLength(first, last, n) = [offset |-> 0, length |-> n]
    BY <1>2, Zenon DEF Text!GetRangeOffsetAndLength
  <2>2. n = (IF n <= 0 + n THEN n ELSE 0 + n) /\ (0 < n => 0 < n) /\ \A i \in 1 .. n : 0 < i /\ i <= n
    BY <1>1
  <2> QED BY <1>1, <1>2, <2>1, <2>2, SliceOf, SMTT(30) DEF n
<1>3. CASE first = -1 /\ last # -1
  <2> DEFINE f == IF 0 >= n - last THEN 0 ELSE n - last
  <2>1. last \in Nat /\ last # -1
    BY <1>3
  <2>2. f \in Nat /\ (n <= f + (((n - 1) - f) + 1))
    BY <1>1, <2>1
  <2>3. Text!Max({0, n - last}) = f
    BY <1>1, <2>1, PairEnds
  <2>4. Text!GetRangeOffsetAndLength(first, last, n) = [offset |-> f, length |-> ((n - 1) - f) + 1]
    BY <1>3, <2>1, <2>3, Zenon DEF Text!GetRangeOffsetAndLength
  <2>5. \A i \in 1 .. n : i > n - last <=> f < i /\ i <= n
    BY <1>1, <2>1
  <2> HIDE DEF f
  <2> QED BY <1>1, <1>3, <2>2, <2>4, <2>5, SliceOf, SMT DEF n
<1>4. CASE first # -1 /\ last = -1
  <2>1. first \in Nat
    BY <1>4
  <2>2. Text!GetRangeOffsetAndLength(first, last, n) = [offset |-> first, length |-> ((n - 1) - first) + 1]
    BY <1>4, Zenon DEF Text!GetRangeOffsetAndLength
  <2>3. n <= first + (((n - 1) - first) + 1)
    BY <1>1, <2>1
  <2> QED BY <1>1, <1>4, <2>1, <2>2, <2>3, SliceOf, SMTT(30) DEF n
<1>5. CASE first # -1 /\ last # -1
  <2>1. first \in Nat /\ last \in Nat /\ first <= last
    BY <1>5 DEF Text!IsRange
  <2>2. Text!GetRangeOffsetAndLength(first, last, n) = [offset |-> first, length |-> (last - first) + 1]
    BY <1>5, Zenon DEF Text!GetRangeOffsetAndLength
  <2> DEFINE h == IF n <= last + 1 THEN n ELSE last + 1
  <2>3. /\ h = (IF n <= first + ((last - first) + 1) THEN n ELSE first + ((last - first) + 1))
        /\ first < n => first < h
        /\ h \in Int /\ \A i \in 1 .. n : (i > first /\ i <= last + 1) <=> (first < i /\ i <= h)
    BY <1>1, <2>1
  <2>4. (last - first) + 1 \in Int
    BY <2>1
  <2>5. \A i \in 1 .. n :
          (IF first = -1 THEN last = -1 \/ i > n - last ELSE i > first /\ (last = -1 \/ i <= last + 1))
            <=> first < i /\ i <= h
    BY <1>5, <2>3, Zenon
  <2> HIDE DEF h
  <2> QED BY <2>1, <2>2, <2>3, <2>4, <2>5, SliceOf, Zenon DEF n
<1> QED BY <1>2, <1>3, <1>4, <1>5

(***************************************************************************)
(* What is encoded is what is decoded.                                     *)
(***************************************************************************)
Bytes == 0 .. 255

\* What stands for the byte c in a text that is encoded.
Stands(p, c, plusIsSpace) ==
  \/ p = <<c>> /\ c # 37 /\ (plusIsSpace => c # 43)
  \/ p = Text!PercentHex(c)

\* PercentHex gives two digits, which are a number again.
LEMMA HexDigits ==
  ASSUME NEW c \in Bytes, NEW a, NEW b, a = Text!HexUpper(c \div 16), b = Text!HexUpper(c % 16)
  PROVE  /\ a \in Bytes /\ b \in Bytes /\ Text!IsHex(a) /\ Text!IsHex(b) /\ a # 117
         /\ Text!HexValue(a) \in Nat /\ Text!HexValue(b) \in Nat
         /\ 16 * Text!HexValue(a) + Text!HexValue(b) = c
<1>1. /\ c \div 16 \in 0 .. 15 /\ c % 16 \in 0 .. 15
      /\ 16 * (c \div 16) + (c % 16) = c
  BY SMT DEF Bytes
<1>2. ASSUME NEW d \in 0 .. 15
      PROVE  /\ Text!HexUpper(d) \in Bytes /\ Text!IsHex(Text!HexUpper(d)) /\ Text!HexUpper(d) # 117
             /\ Text!HexValue(Text!HexUpper(d)) = d
  BY SMT DEF Text!HexUpper, Text!IsHex, Text!HexValue, Bytes
<1> QED BY <1>1, <1>2

\* HexNumber, whose definition is recursive, for two digits.
LEMMA TwoDigits ==
  ASSUME NEW s \in Seq(Bytes), Len(s) = 2,
         Text!HexValue(s[1]) \in Nat, Text!HexValue(s[2]) \in Nat
  PROVE  Text!HexNumber(s) = 16 * Text!HexValue(s[1]) + Text!HexValue(s[2])
<1> DEFINE x == Text!HexValue(s[1])
           y == Text!HexValue(s[2])
           Fits(g) == g = [n \in 0 .. 2 |-> IF n = 0 THEN 0 ELSE 16 * g[n - 1] + Text!HexValue(s[n])]
           G == [n \in 0 .. 2 |-> IF n = 0 THEN 0 ELSE IF n = 1 THEN x ELSE 16 * x + y]
           F == CHOOSE g : Fits(g)
<1>1. Fits(G)
  <2>1. G[0] = 0 /\ G[1] = x /\ G[2] = 16 * x + y
    OBVIOUS
  <2>2. \A n \in 0 .. 2 : G[n] = IF n = 0 THEN 0 ELSE 16 * G[n - 1] + Text!HexValue(s[n])
    <3> HIDE DEF G
    <3>1. \A n \in 0 .. 2 : n = 0 \/ n = 1 \/ n = 2
      OBVIOUS
    <3> QED BY <2>1, <3>1
  <2> QED BY <2>2
<1>2. Fits(F)
  BY <1>1, Zenon
<1>3. Text!HexNumber(s) = F[2]
  BY DEF Text!HexNumber
<1> HIDE DEF F
<1>4. F[0] = 0 /\ F[1] = 16 * F[0] + x /\ F[2] = 16 * F[1] + y
  BY <1>2
<1>5. F[1] = x
  BY <1>4
<1> QED BY <1>3, <1>4, <1>5

\* What decode_url() makes of each piece, and that it does not read on behind
\* the text.
LEMMA DecodePlain ==
  ASSUME NEW t, NEW i, NEW plus, t[i] # 37, plus => t[i] # 43
  PROVE  Text!DecodeAt(t, i, plus) = [text |-> <<t[i]>>, size |-> 1]
BY Zenon DEF Text!DecodeAt, Text!Percent, Text!Plus

LEMMA DecodePercent ==
  ASSUME NEW t \in Seq(Bytes), NEW i \in 1 .. Len(t), NEW plus, NEW c \in Bytes,
         i + 2 <= Len(t), t[i] = 37,
         t[i + 1] = Text!HexUpper(c \div 16), t[i + 2] = Text!HexUpper(c % 16)
  PROVE  Text!DecodeAt(t, i, plus) = [text |-> <<c>>, size |-> 3]
<1> DEFINE s == SubSeq(t, i + 1, i + 2)
<1>1. Len(t) \in Nat /\ i \in Nat
  BY LenProperties
<1>2. s \in Seq(Bytes) /\ Len(s) = 2 /\ s[1] = t[i + 1] /\ s[2] = t[i + 2]
  BY <1>1, SMT
<1> HIDE DEF s
<1>3. Text!HexNumber(s) = c
  <2>1. /\ Text!HexValue(s[1]) \in Nat /\ Text!HexValue(s[2]) \in Nat
        /\ 16 * Text!HexValue(s[1]) + Text!HexValue(s[2]) = c
    <3>1. s[1] = Text!HexUpper(c \div 16) /\ s[2] = Text!HexUpper(c % 16)
      BY <1>2
    <3> HIDE <1>2
    <3> QED BY ONLY c \in Bytes, <3>1, HexDigits
  <2>2. Text!HexNumber(s) = 16 * Text!HexValue(s[1]) + Text!HexValue(s[2])
    BY <1>2, <2>1, TwoDigits
  <2> QED BY <2>1, <2>2
<1>4. \A j \in i + 1 .. (i + 1) + 2 - 1 : Text!IsHex(t[j])
  <2>1. \A j \in i + 1 .. (i + 1) + 2 - 1 : j = i + 1 \/ j = i + 2
    BY <1>1
  <2>2. Text!IsHex(t[i + 1]) /\ Text!IsHex(t[i + 2])
    BY ONLY c \in Bytes, t[i + 1] = Text!HexUpper(c \div 16),
            t[i + 2] = Text!HexUpper(c % 16), HexDigits
  <2> QED BY <2>1, <2>2, Zenon
<1>5. (i + 1) + 2 - 1 = i + 2 /\ i < Len(t)
  BY <1>1
<1>6. Text!FromHex(t, i + 1, 2) = c
  BY <1>3, <1>4, <1>5 DEF Text!FromHex, s
<1>7. c >= 0
  BY DEF Bytes
<1>8. t[i + 1] # 117
  BY HexDigits
<1> QED BY <1>5, <1>6, <1>7, <1>8 DEF Text!DecodeAt, Text!Percent

LEMMA DecodeIsInText ==
  ASSUME NEW t \in Seq(Bytes), NEW i \in 1 .. Len(t), NEW plus
  PROVE  LET d == Text!DecodeAt(t, i, plus) IN d.size \in 1 .. 6 /\ i + d.size <= Len(t) + 1
<1>1. Len(t) \in Nat /\ i \in Nat
  BY LenProperties
<1>2. Text!FromHex(t, i + 1, 2) >= 0 => i + 2 <= Len(t)
  BY <1>1, SMT DEF Text!FromHex
<1>3. Text!FromHex(t, i + 2, 4) >= 0 => i + 5 <= Len(t)
  BY <1>1, SMT DEF Text!FromHex
<1>4. Text!DecodeAt(t, i, plus).size \in {1, 3, 6}
  BY Zenon DEF Text!DecodeAt
<1> QED BY <1>1, <1>2, <1>3, SMT DEF Text!DecodeAt
\* DecodeUrl, whose definition is recursive: what is made of the rest of a text.
LEMMA Decoding ==
  ASSUME NEW t \in Seq(Bytes), NEW plus
  PROVE  \E F : /\ Text!DecodeUrl(t, plus) = F[1]
                /\ F[Len(t) + 1] = <<>>
                /\ \A i \in 1 .. Len(t) :
                     F[i] = Text!DecodeAt(t, i, plus).text \o F[i + Text!DecodeAt(t, i, plus).size]
<1> DEFINE n == Len(t)
           At(i) == Text!DecodeAt(t, i, plus)
           Of(g, i) == IF i > n THEN <<>> ELSE At(i).text \o g[i + At(i).size]
           Fits(g, m) == \A i \in m .. n + 1 : g[i] = Of(g, i)
           T == {m \in Nat : m <= n => \E g : Fits(g, n + 1 - m)}
<1>1. n \in Nat
  BY LenProperties
<1>2. \A i \in 1 .. n : At(i).size \in 1 .. 6 /\ i + At(i).size <= n + 1
  BY DecodeIsInText
<1> HIDE DEF n, At
<1>3. 0 \in T
  <2> DEFINE g == [i \in {n + 1} |-> <<>>]
  <2>1. Fits(g, n + 1)
    <3>1. \A i \in n + 1 .. n + 1 : i = n + 1 /\ i > n
      BY <1>1
    <3> QED BY <3>1
  <2>2. n + 1 - 0 = n + 1
    BY <1>1
  <2> HIDE DEF g, Fits
  <2> QED BY <2>1, <2>2
<1>4. ASSUME NEW m \in Nat, m \in T
      PROVE  m + 1 \in T
  <2> SUFFICES ASSUME m + 1 <= n
               PROVE  \E g : Fits(g, n + 1 - (m + 1))
    OBVIOUS
  <2>1. PICK g : Fits(g, n + 1 - m)
    BY <1>1, <1>4
  <2> DEFINE k == n - m
             h == [i \in k .. n + 1 |-> IF i = k THEN Of(g, k) ELSE g[i]]
  <2>2. /\ k \in 1 .. n /\ n + 1 - m = k + 1 /\ n + 1 - (m + 1) = k
    BY <1>1
  <2> HIDE DEF k
  <2>3. \A i \in k + 1 .. n + 1 : h[i] = g[i]
    BY <1>1, <2>2
  <2>4. h[k] = Of(g, k)
    BY <1>1, <2>2
  <2> HIDE DEF h
  <2>5. \A i \in k .. n : i + At(i).size \in k + 1 .. n + 1
    BY <1>1, <1>2, <2>2
  <2>6. \A i \in k .. n + 1 : Of(h, i) = Of(g, i)
    <3>1. \A i \in k .. n + 1 : i > n \/ i \in k .. n
      BY <1>1, <2>2
    <3> QED BY <2>3, <2>5, <3>1
  <2>7. \A i \in k .. n + 1 : i = k \/ i \in k + 1 .. n + 1
    BY <1>1, <2>2
  <2>8. \A i \in k + 1 .. n + 1 : g[i] = Of(g, i)
    BY <2>1, <2>2
  <2> HIDE DEF Of
  <2>9. Fits(h, k)
    BY <2>3, <2>4, <2>6, <2>7, <2>8
  <2> QED BY <2>2, <2>9
<1>5. \E g : Fits(g, 1)
  <2> HIDE DEF T, Fits
  <2>1. \A m \in Nat : m \in T
    BY <1>3, <1>4, Counting
  <2>2. n + 1 - n = 1 /\ n <= n
    BY <1>1
  <2> QED BY <1>1, <2>1, <2>2 DEF T
<1> DEFINE Is(g) == g = [i \in 1 .. n + 1 |-> Of(g, i)]
           F == CHOOSE g : Is(g)
<1>6. \E g : Is(g)
  <2>1. PICK g : Fits(g, 1)
    BY <1>5
  <2> DEFINE h == [i \in 1 .. n + 1 |-> g[i]]
  <2>2. \A i \in 1 .. n + 1 : h[i] = g[i]
    OBVIOUS
  <2>3. \A i \in 1 .. n + 1 : i > n \/ (i \in 1 .. n /\ i + At(i).size \in 1 .. n + 1)
    BY <1>1, <1>2
  <2> HIDE DEF h
  <2>4. \A i \in 1 .. n + 1 : Of(h, i) = Of(g, i)
    BY <2>2, <2>3
  <2>5. \A i \in 1 .. n + 1 : g[i] = Of(g, i)
    BY <2>1
  <2> HIDE DEF Of, Fits
  <2>6. [i \in 1 .. n + 1 |-> g[i]] = [i \in 1 .. n + 1 |-> Of(h, i)]
    BY <2>4, <2>5
  <2>7. Is(h)
    BY <2>6 DEF h
  <2> HIDE DEF Is
  <2> QED BY <2>7
<1>7. Is(F)
  <2> HIDE DEF Is
  <2> QED BY <1>6
<1>8. Text!DecodeUrl(t, plus) = F[1]
  BY DEF Text!DecodeUrl, n, At
<1> HIDE DEF F
<1>9. \A i \in 1 .. n + 1 : F[i] = Of(F, i)
  <2> HIDE DEF Of
  <2> QED BY <1>7
<1>10. F[n + 1] = <<>> /\ \A i \in 1 .. n : F[i] = At(i).text \o F[i + At(i).size]
  <2>1. /\ n + 1 \in 1 .. n + 1 /\ n + 1 > n
        /\ \A i \in 1 .. n : i \in 1 .. n + 1 /\ ~(i > n)
    BY <1>1
  <2> QED BY <1>9, <2>1, Zenon
<1> QED BY <1>8, <1>10 DEF n, At

\* A text that is put together from what stands for each byte is decoded to
\* these bytes.
LEMMA Decoded ==
  ASSUME NEW plus \in BOOLEAN, NEW c \in Seq(Bytes), NEW n \in Nat, n = Len(c), n # 0,
         NEW seqs \in [1 .. n -> Seq(Bytes)], \A k \in 1 .. n : Stands(seqs[k], c[k], plus),
         NEW f \in [0 .. n -> Seq(Bytes)], f[0] = <<>>, \A k \in 1 .. n : f[k] = f[k - 1] \o seqs[k]
  PROVE  Text!DecodeUrl(f[n], plus) = c
<1> DEFINE t == f[n]
<1>1. t \in Seq(Bytes) /\ Len(t) \in Nat
  BY LenProperties
<1>2. Matches(t, 0, t)
  BY <1>1, MatchSelf
<1>3. \A k \in 1 .. n :
        /\ Len(f[k]) = Len(f[k - 1]) + Len(seqs[k])
        /\ Matches(t, Len(f[k - 1]), seqs[k])
  BY <1>1, <1>2, Chained
<1>4. \A k \in 0 .. n : Len(f[k]) \in Nat
  BY LenProperties
<1>5. \A k \in 1 .. n : seqs[k] \in Seq(Bytes) /\ c[k] \in Bytes /\ k - 1 \in 0 .. n
  BY ElementOfSeq
<1>6. PICK F : /\ Text!DecodeUrl(t, plus) = F[1]
               /\ F[Len(t) + 1] = <<>>
               /\ \A i \in 1 .. Len(t) :
                    F[i] = Text!DecodeAt(t, i, plus).text \o F[i + Text!DecodeAt(t, i, plus).size]
  BY <1>1, Decoding
<1> HIDE DEF t
<1>7. ASSUME NEW k \in 1 .. n
      PROVE  F[Len(f[k - 1]) + 1] = <<c[k]>> \o F[Len(f[k]) + 1]
  <2> DEFINE i == Len(f[k - 1]) + 1
             p == seqs[k]
  <2>1. i \in Nat /\ i > 0 /\ Len(p) \in Nat
    BY <1>4, <1>5, LenProperties
  <2>2. Matches(t, i - 1, p) /\ Len(f[k]) + 1 = i + Len(p)
    <3>1. i - 1 = Len(f[k - 1]) /\ Len(f[k - 1]) \in Nat
      BY <1>4, <1>5
    <3>2. Len(f[k]) = Len(f[k - 1]) + Len(p) /\ Matches(t, Len(f[k - 1]), p)
      BY <1>3
    <3>3. Len(f[k]) + 1 = i + Len(p)
      BY <2>1, <3>1, <3>2
    <3> QED BY <3>1, <3>2, <3>3, Zenon
  <2>3. i - 1 + Len(p) <= Len(t) /\ \A j \in 1 .. Len(p) : t[(i - 1) + j] = p[j]
    BY <2>2 DEF Matches
  <2>4. Stands(p, c[k], plus)
    OBVIOUS
  <2> HIDE DEF i, p
  <2>5. CASE p = <<c[k]>> /\ c[k] # 37 /\ (plus => c[k] # 43)
    <3>1. Len(p) = 1 /\ p[1] = c[k]
      BY <2>5
    <3>2. i \in 1 .. Len(t) /\ t[i] = c[k]
      <4>1. i \in 1 .. Len(t) /\ 1 \in 1 .. Len(p) /\ (i - 1) + 1 = i
        BY <1>1, <2>1, <2>3, <3>1
      <4> QED BY <2>3, <3>1, <4>1
    <3>3. Text!DecodeAt(t, i, plus) = [text |-> <<c[k]>>, size |-> 1]
      BY <2>5, <3>2, DecodePlain
    <3>4. F[i] = Text!DecodeAt(t, i, plus).text \o F[i + Text!DecodeAt(t, i, plus).size]
      BY <1>6, <3>2
    <3>5. F[i] = <<c[k]>> \o F[i + 1]
      <4>1. Text!DecodeAt(t, i, plus).text = <<c[k]>> /\ Text!DecodeAt(t, i, plus).size = 1
        BY <3>3
      <4> QED BY <3>4, <4>1, Zenon
    <3> QED BY <2>2, <3>1, <3>5 DEF i
  <2>6. CASE p = Text!PercentHex(c[k])
    <3>1. /\ Len(p) = 3 /\ p[1] = 37
          /\ p[2] = Text!HexUpper(c[k] \div 16) /\ p[3] = Text!HexUpper(c[k] % 16)
      BY <2>6 DEF Text!PercentHex, Text!Percent
    <3>2. /\ i \in 1 .. Len(t) /\ i + 2 <= Len(t)
          /\ t[i] = p[1] /\ t[i + 1] = p[2] /\ t[i + 2] = p[3]
      <4>1. /\ i \in 1 .. Len(t) /\ i + 2 <= Len(t)
            /\ 1 \in 1 .. Len(p) /\ (i - 1) + 1 = i
            /\ 2 \in 1 .. Len(p) /\ (i - 1) + 2 = i + 1
            /\ 3 \in 1 .. Len(p) /\ (i - 1) + 3 = i + 2
        BY <1>1, <2>1, <2>3, <3>1
      <4> QED BY <2>3, <4>1
    <3>3. Text!DecodeAt(t, i, plus) = [text |-> <<c[k]>>, size |-> 3]
      BY <1>1, <1>5, <3>1, <3>2, DecodePercent, SMTT(30)
    <3>4. F[i] = Text!DecodeAt(t, i, plus).text \o F[i + Text!DecodeAt(t, i, plus).size]
      BY <1>6, <3>2
    <3>5. F[i] = <<c[k]>> \o F[i + 3]
      <4>1. Text!DecodeAt(t, i, plus).text = <<c[k]>> /\ Text!DecodeAt(t, i, plus).size = 3
        BY <3>3
      <4> QED BY <3>4, <4>1, Zenon
    <3> QED BY <2>2, <3>1, <3>5 DEF i
  <2> QED BY <2>4, <2>5, <2>6 DEF Stands
<1> DEFINE T == {m \in Nat : m <= n => F[Len(f[n - m]) + 1] = SubSeq(c, n - m + 1, n)}
<1>8. 0 \in T
  <2>1. SubSeq(c, n + 1, n) = <<>>
    OBVIOUS
  <2>2. F[Len(f[n]) + 1] = <<>>
    BY <1>6 DEF t
  <2>3. n - 0 = n
    OBVIOUS
  <2> QED BY <2>1, <2>2, <2>3
<1>9. ASSUME NEW m \in Nat, m \in T
      PROVE  m + 1 \in T
  <2> SUFFICES ASSUME m + 1 <= n
               PROVE  F[Len(f[n - (m + 1)]) + 1] = SubSeq(c, n - (m + 1) + 1, n)
    OBVIOUS
  <2> DEFINE k == n - m
  <2>1. k \in 1 .. n /\ n - (m + 1) = k - 1 /\ n - (m + 1) + 1 = k
    OBVIOUS
  <2>2. F[Len(f[k]) + 1] = SubSeq(c, k + 1, n)
    BY <1>9
  <2> HIDE DEF k
  <2>3. F[Len(f[k - 1]) + 1] = <<c[k]>> \o SubSeq(c, k + 1, n)
    BY <1>7, <2>1, <2>2
  <2>4. <<c[k]>> \o SubSeq(c, k + 1, n) = SubSeq(c, k, n)
    BY <2>1, SMTT(30)
  <2> QED BY <2>1, <2>3, <2>4
<1>10. F[Len(f[0]) + 1] = SubSeq(c, 1, n)
  <2> HIDE DEF T
  <2>1. \A m \in Nat : m \in T
    BY <1>8, <1>9, Counting
  <2>2. n <= n /\ n - n = 0 /\ n - n + 1 = 1
    OBVIOUS
  <2> QED BY <2>1, <2>2 DEF T
<1>11. SubSeq(c, 1, n) = c
  BY SubSeqFull
<1>12. Len(f[0]) + 1 = 1
  OBVIOUS
<1> QED BY <1>6, <1>10, <1>11, <1>12 DEF t

\* Pieces are texts.
LEMMA HexStands ==
  ASSUME NEW c \in Bytes
  PROVE  Text!PercentHex(c) \in Seq(Bytes) /\ Len(Text!PercentHex(c)) = 3
<1>1. Text!HexUpper(c \div 16) \in Bytes /\ Text!HexUpper(c % 16) \in Bytes
  BY HexDigits
<1>2. 37 \in Bytes
  BY DEF Bytes
<1> QED BY <1>1, <1>2 DEF Text!PercentHex, Text!Percent

\* Flattened, of bytes, and of no parts at all too.
LEMMA FlattenedAny ==
  ASSUME NEW n \in Nat, NEW seqs \in [1 .. n -> Seq(Bytes)]
  PROVE  \E f :
           /\ f \in [0 .. n -> Seq(Bytes)]
           /\ f[0] = <<>>
           /\ \A i \in 1 .. n : f[i] = f[i - 1] \o seqs[i]
           /\ Text!FlattenSeq(seqs) = f[n]
<1>1. Text!FlattenSeq(seqs) = Form!FlattenSeq(seqs)
  BY DEF Text!FlattenSeq, Form!FlattenSeq
<1>2. CASE n # 0
  <2>1. \E f \in [0 .. n -> Seq(Bytes)] :
           /\ f[0] = <<>>
           /\ \A i \in 1 .. n : f[i] = f[i - 1] \o seqs[i]
           /\ Form!FlattenSeq(seqs) = f[n]
    BY <1>2, Flattened, Zenon
  <2> QED BY <1>1, <2>1, Zenon
<1>3. CASE n = 0
  <2>1. seqs = <<>>
    BY <1>3
  <2>2. Text!FlattenSeq(<<>>) = <<>>
    BY SMT DEF Text!FlattenSeq
  <2>3. <<>> \in Seq(Bytes) /\ \A i \in 1 .. 0 : FALSE
    OBVIOUS
  <2> DEFINE f == [i \in 0 .. n |-> <<>>]
  <2>4. f \in [0 .. n -> Seq(Bytes)] /\ f[0] = <<>> /\ f[n] = <<>>
    BY <1>3, <2>3
  <2> HIDE DEF f
  <2> QED BY <1>3, <2>1, <2>2, <2>3, <2>4
<1> QED BY <1>2, <1>3

\* The same of the parts of a text, put together.
LEMMA DecodedParts ==
  ASSUME NEW plus \in BOOLEAN, NEW c \in Seq(Bytes), NEW e \in [1 .. Len(c) -> Seq(Bytes)],
         \A k \in 1 .. Len(c) : Stands(e[k], c[k], plus)
  PROVE  Text!DecodeUrl(Text!FlattenSeq(e), plus) = c
<1> DEFINE n == Len(c)
<1>1. n \in Nat
  BY LenProperties
<1>2. PICK f \in [0 .. n -> Seq(Bytes)] :
        /\ f[0] = <<>>
        /\ \A i \in 1 .. n : f[i] = f[i - 1] \o e[i]
        /\ Text!FlattenSeq(e) = f[n]
  BY <1>1, FlattenedAny
<1>3. CASE n = 0
  <2>1. c = <<>> /\ f[n] = <<>>
    BY <1>2, <1>3
  <2> DEFINE t == <<>>
  <2>2. t \in Seq(Bytes) /\ Len(t) + 1 = 1
    OBVIOUS
  <2> HIDE DEF t
  <2>3. PICK F : /\ Text!DecodeUrl(t, plus) = F[1]
                 /\ F[Len(t) + 1] = <<>>
                 /\ \A i \in 1 .. Len(t) :
                      F[i] = Text!DecodeAt(t, i, plus).text \o F[i + Text!DecodeAt(t, i, plus).size]
    BY <2>2, Decoding
  <2>4. Text!DecodeUrl(t, plus) = <<>>
    BY <2>2, <2>3, Zenon
  <2> QED BY <1>2, <2>1, <2>4, Zenon DEF t
<1>4. CASE n # 0
  <2>1. Text!DecodeUrl(f[n], plus) = c
    BY <1>1, <1>2, <1>4, Decoded, ZenonT(60)
  <2> QED BY <1>2, <2>1
<1> QED BY <1>3, <1>4

\* The m parts of x, and then the n parts of y.
Joins(z, x, y, m, n) ==
  /\ x \in [1 .. m -> Seq(Bytes)] /\ y \in [1 .. n -> Seq(Bytes)]
  /\ z \in [1 .. m + n -> Seq(Bytes)]
  /\ \A i \in 1 .. m : z[i] = x[i]
  /\ \A i \in 1 .. n : z[m + i] = y[i]

LEMMA FlattenBoth ==
  ASSUME NEW m \in Nat, NEW n \in Nat, NEW x, NEW y, NEW z, Joins(z, x, y, m, n)
  PROVE  Text!FlattenSeq(z) = Text!FlattenSeq(x) \o Text!FlattenSeq(y)
<1>0. /\ x \in [1 .. m -> Seq(Bytes)] /\ y \in [1 .. n -> Seq(Bytes)]
      /\ z \in [1 .. m + n -> Seq(Bytes)]
      /\ \A i \in 1 .. m : z[i] = x[i]
      /\ \A i \in 1 .. n : z[m + i] = y[i]
  BY DEF Joins
<1>1. PICK f :
        /\ f \in [0 .. m -> Seq(Bytes)]
        /\ f[0] = <<>>
        /\ \A i \in 1 .. m : f[i] = f[i - 1] \o x[i]
        /\ Text!FlattenSeq(x) = f[m]
  BY ONLY m \in Nat, <1>0, FlattenedAny, Zenon
<1>2. PICK g :
        /\ g \in [0 .. n -> Seq(Bytes)]
        /\ g[0] = <<>>
        /\ \A i \in 1 .. n : g[i] = g[i - 1] \o y[i]
        /\ Text!FlattenSeq(y) = g[n]
  BY ONLY n \in Nat, <1>0, FlattenedAny, Zenon
<1>3. m + n \in Nat
  OBVIOUS
<1>4. PICK h :
        /\ h \in [0 .. m + n -> Seq(Bytes)]
        /\ h[0] = <<>>
        /\ \A i \in 1 .. m + n : h[i] = h[i - 1] \o z[i]
        /\ Text!FlattenSeq(z) = h[m + n]
  BY ONLY <1>3, <1>0, FlattenedAny, Zenon
<1> DEFINE T == {k \in Nat : k <= m => h[k] = f[k]}
           U == {k \in Nat : k <= n => h[m + k] = f[m] \o g[k]}
<1>5. \A k \in Nat : k \in T
  <2>1. 0 \in T
    BY <1>0, <1>1, <1>4
  <2>2. ASSUME NEW k \in Nat, k \in T PROVE k + 1 \in T
    <3> SUFFICES ASSUME k + 1 <= m PROVE h[k + 1] = f[k + 1]
      OBVIOUS
    <3>1. k + 1 \in 1 .. m /\ k + 1 \in 1 .. m + n /\ (k + 1) - 1 = k /\ h[k] = f[k]
      BY <2>2
    <3> QED BY <1>0, <1>1, <1>4, <3>1, ZenonT(60)
  <2> HIDE DEF T
  <2> QED BY <2>1, <2>2, Counting
<1>6. f[m] \in Seq(Bytes) /\ f[m] \o <<>> = f[m]
  <2>1. f[m] \in Seq(Bytes)
    BY <1>1
  <2> QED BY <2>1, ConcatEmptySeq
<1>7. \A k \in Nat : k \in U
  <2>1. 0 \in U
    <3>1. h[m] = f[m]
      BY <1>5
    <3>2. m + 0 = m
      OBVIOUS
    <3> QED BY <1>2, <1>6, <3>1, <3>2
  <2>2. ASSUME NEW k \in Nat, k \in U PROVE k + 1 \in U
    <3>0. k + 1 \in Nat
      OBVIOUS
    <3> SUFFICES ASSUME k + 1 <= n PROVE h[m + (k + 1)] = f[m] \o g[k + 1]
      BY <3>0, Zenon
    <3>1. /\ k + 1 \in 1 .. n /\ m + (k + 1) \in 1 .. m + n /\ (m + (k + 1)) - 1 = m + k
          /\ (k + 1) - 1 = k /\ k \in 0 .. n
      OBVIOUS
    <3>2. h[m + k] = f[m] \o g[k]
      <4>1. k <= n
        OBVIOUS
      <4> QED BY <2>2, <4>1, Zenon
    <3>3. h[m + (k + 1)] = h[m + k] \o y[k + 1]
      BY <1>0, <1>4, <3>1
    <3>4. g[k + 1] = g[k] \o y[k + 1]
      BY <1>0, <1>2, <3>1
    <3>5. g[k] \in Seq(Bytes) /\ y[k + 1] \in Seq(Bytes)
      BY <1>0, <1>2, <3>1
    <3>6. f[m] \in Seq(Bytes)
      BY <1>6
    <3>7. PICK a \in Seq(Bytes), b \in Seq(Bytes), c \in Seq(Bytes) :
            a = f[m] /\ b = g[k] /\ c = y[k + 1]
      BY <3>5, <3>6, Zenon
    <3>8. PICK ab, bc, abc :
            ab = h[m + k] /\ bc = g[k + 1] /\ abc = h[m + (k + 1)]
      OBVIOUS
    <3>9. ab = a \o b /\ bc = b \o c /\ abc = ab \o c
      BY <3>2, <3>3, <3>4, <3>7, <3>8, Zenon
    <3>10. abc = a \o bc
      BY ONLY a \in Seq(Bytes), b \in Seq(Bytes), c \in Seq(Bytes), <3>9
    <3> QED BY <3>7, <3>8, <3>10, Zenon
  <2> HIDE DEF U
  <2> QED BY <2>1, <2>2, Counting
<1> QED
  <2>1. n \in U
    BY <1>7
  <2>2. n <= n
    OBVIOUS
  <2>3. h[m + n] = f[m] \o g[n]
    BY <2>1, <2>2, Zenon
  <2> QED BY <1>1, <1>2, <1>4, <2>3, Zenon

\* encode_query_param() and decode_url(), as in the body of a POST of parameters:
\* whatever bytes a value consists of, what the server decodes is the value.
THEOREM ParamsSurvive ==
  ASSUME NEW s \in Seq(Bytes)
  PROVE  Text!DecodeUrl(Text!EncodeQueryParam(s), TRUE) = s
<1> DEFINE Of(c) == IF Text!IsAlnum(c) \/ c \in {45, 95, 46, 33, 126, 42, 39, 40, 41}
                    THEN <<c>> ELSE Text!PercentHex(c)
           e == [i \in DOMAIN s |-> Of(s[i])]
<1>1. Text!EncodeQueryParam(s) = Text!FlattenSeq(e)
  BY DEF Text!EncodeQueryParam, Text!FlatMap
<1>2. DOMAIN s = 1 .. Len(s) /\ \A i \in 1 .. Len(s) : s[i] \in Bytes
  BY LenProperties, ElementOfSeq
<1>3. ASSUME NEW c \in Bytes
      PROVE  Of(c) \in Seq(Bytes) /\ Stands(Of(c), c, TRUE)
  <2>1. Text!IsAlnum(c) \/ c \in {45, 95, 46, 33, 126, 42, 39, 40, 41} => c # 37 /\ c # 43
    BY SMT DEF Text!IsAlnum, Bytes
  <2> QED BY <2>1, HexStands DEF Stands
<1> HIDE DEF Of
<1>4. /\ e \in [1 .. Len(s) -> Seq(Bytes)]
      /\ \A i \in 1 .. Len(s) : Stands(e[i], s[i], TRUE)
  BY <1>2, <1>3
<1> HIDE DEF e
<1> QED BY <1>1, <1>4, DecodedParts

\* encode_url() takes a text character by character, as far as it goes.
UrlOf(c) ==
  IF c \in {Text!Space, Text!Plus, Text!CR, Text!LF, 39, 44, 59} \/ c >= 128
  THEN Text!PercentHex(c) ELSE <<c>>

LEMMA UrlOfIs ==
  ASSUME NEW c \in Bytes
  PROVE  UrlOf(c) \in Seq(Bytes)
BY HexStands DEF UrlOf

LEMMA UrlCharsAre ==
  ASSUME NEW s \in Seq(Bytes)
  PROVE  /\ Text!UrlChars(s) = Text!FlattenSeq([i \in 1 .. Len(s) |-> UrlOf(s[i])])
         /\ [i \in 1 .. Len(s) |-> UrlOf(s[i])] \in [1 .. Len(s) -> Seq(Bytes)]
         /\ Text!UrlChars(s) \in Seq(Bytes)
<1>1. DOMAIN s = 1 .. Len(s) /\ Len(s) \in Nat /\ \A i \in 1 .. Len(s) : s[i] \in Bytes
  BY LenProperties, ElementOfSeq
<1>2. Text!UrlChars(s) = Text!FlattenSeq([i \in DOMAIN s |-> UrlOf(s[i])])
  BY DEF Text!UrlChars, Text!FlatMap, UrlOf
<1> DEFINE e == [i \in 1 .. Len(s) |-> UrlOf(s[i])]
<1>3. e \in [1 .. Len(s) -> Seq(Bytes)]
  BY <1>1, UrlOfIs
<1>4. Text!UrlChars(s) = Text!FlattenSeq(e)
  BY <1>1, <1>2
<1> HIDE DEF e
<1>5. Text!FlattenSeq(e) \in Seq(Bytes)
  <2>1. PICK f :
          /\ f \in [0 .. Len(s) -> Seq(Bytes)]
          /\ f[0] = <<>>
          /\ \A i \in 1 .. Len(s) : f[i] = f[i - 1] \o e[i]
          /\ Text!FlattenSeq(e) = f[Len(s)]
    BY <1>1, <1>3, FlattenedAny
  <2>2. Len(s) \in 0 .. Len(s)
    BY <1>1
  <2> QED BY <2>1, <2>2
<1> QED BY <1>3, <1>4, <1>5 DEF e

LEMMA UrlCharsBoth ==
  ASSUME NEW a \in Seq(Bytes), NEW b \in Seq(Bytes)
  PROVE  Text!UrlChars(a \o b) = Text!UrlChars(a) \o Text!UrlChars(b)
<1> DEFINE m == Len(a)
           n == Len(b)
           x == [i \in 1 .. m |-> UrlOf(a[i])]
           y == [i \in 1 .. n |-> UrlOf(b[i])]
           z == [i \in 1 .. m + n |-> UrlOf((a \o b)[i])]
<1>1. m \in Nat /\ n \in Nat
  BY LenProperties
<1>2. /\ a \o b \in Seq(Bytes) /\ Len(a \o b) = m + n
      /\ \A i \in 1 .. m + n : (a \o b)[i] = IF i <= m THEN a[i] ELSE b[i - m]
  BY ConcatProperties
<1>3. /\ Text!UrlChars(a) = Text!FlattenSeq(x) /\ x \in [1 .. m -> Seq(Bytes)]
      /\ Text!UrlChars(b) = Text!FlattenSeq(y) /\ y \in [1 .. n -> Seq(Bytes)]
  BY UrlCharsAre
<1>4. /\ Text!UrlChars(a \o b) = Text!FlattenSeq(z) /\ z \in [1 .. m + n -> Seq(Bytes)]
  BY <1>2, UrlCharsAre
<1>5. \A i \in 1 .. m : z[i] = x[i]
  <2>1. \A i \in 1 .. m : i \in 1 .. m + n /\ i <= m
    BY <1>1
  <2> QED BY <1>2, <2>1
<1>6. \A i \in 1 .. n : z[m + i] = y[i]
  <2>1. \A i \in 1 .. n : m + i \in 1 .. m + n /\ ~(m + i <= m) /\ (m + i) - m = i
    BY <1>1
  <2>2. \A i \in 1 .. n : (a \o b)[m + i] = b[i]
    BY <1>2, <2>1, Zenon
  <2> QED BY <2>1, <2>2, Zenon
<1> HIDE DEF m, n, x, y, z
<1>7. Text!FlattenSeq(z) = Text!FlattenSeq(x) \o Text!FlattenSeq(y)
  <2>1. x \in [1 .. m -> Seq(Bytes)] /\ y \in [1 .. n -> Seq(Bytes)]
    BY <1>3
  <2>2. z \in [1 .. m + n -> Seq(Bytes)]
    BY <1>4
  <2>3. Joins(z, x, y, m, n)
    BY <1>5, <1>6, <2>1, <2>2, Zenon DEF Joins
  <2> QED BY <1>1, <2>3, FlattenBoth
<1> QED BY <1>3, <1>4, <1>7

LEMMA UrlCharsOne ==
  ASSUME NEW c \in Bytes
  PROVE  Text!UrlChars(<<c>>) = UrlOf(c)
<1> DEFINE e == [i \in 1 .. 1 |-> UrlOf(c)]
<1>1. <<c>> \in Seq(Bytes) /\ Len(<<c>>) = 1
  OBVIOUS
<1>2. \A i \in 1 .. 1 : <<c>>[i] = c
  OBVIOUS
<1>3. Text!UrlChars(<<c>>) = Text!FlattenSeq([i \in 1 .. 1 |-> UrlOf(<<c>>[i])])
  BY <1>1, UrlCharsAre, Zenon
<1>4. [i \in 1 .. 1 |-> UrlOf(<<c>>[i])] = e
  BY <1>2
<1>5. e \in [1 .. 1 -> Seq(Bytes)] /\ e[1] = UrlOf(c)
  BY UrlOfIs
<1> HIDE DEF e
<1>6. PICK f :
        /\ f \in [0 .. 1 -> Seq(Bytes)]
        /\ f[0] = <<>>
        /\ \A i \in 1 .. 1 : f[i] = f[i - 1] \o e[i]
        /\ Text!FlattenSeq(e) = f[1]
  BY <1>5, FlattenedAny
<1>7. f[1] = <<>> \o UrlOf(c)
  <2>1. 1 \in 1 .. 1 /\ 1 - 1 = 0
    OBVIOUS
  <2> QED BY <1>5, <1>6, <2>1
<1>8. <<>> \o UrlOf(c) = UrlOf(c)
  BY UrlOfIs, ConcatEmptySeq
<1> QED BY <1>3, <1>4, <1>6, <1>7, <1>8, Zenon

\* It leaves alone what encode_query_param() has encoded.
LEMMA UrlCharsHex ==
  ASSUME NEW c \in Bytes
  PROVE  Text!UrlChars(Text!PercentHex(c)) = Text!PercentHex(c)
<1>1. ASSUME NEW d \in 0 .. 15
      PROVE  /\ Text!HexUpper(d) \in Bytes
             /\ UrlOf(Text!HexUpper(d)) = <<Text!HexUpper(d)>>
  <2>1. Text!HexUpper(d) \in (48 .. 57) \cup (65 .. 70)
    BY SMT DEF Text!HexUpper
  <2> QED BY <2>1 DEF UrlOf, Bytes, Text!Space, Text!Plus, Text!CR, Text!LF
<1>2. 37 \in Bytes /\ UrlOf(37) = <<37>>
  BY DEF UrlOf, Bytes, Text!Space, Text!Plus, Text!CR, Text!LF
<1>3. c \div 16 \in 0 .. 15 /\ c % 16 \in 0 .. 15
  BY SMT DEF Bytes
<1> DEFINE a == Text!HexUpper(c \div 16)
           b == Text!HexUpper(c % 16)
<1>4. a \in Bytes /\ b \in Bytes /\ UrlOf(a) = <<a>> /\ UrlOf(b) = <<b>>
  BY <1>1, <1>3
<1>5. Text!PercentHex(c) = <<37, a, b>>
  BY DEF Text!PercentHex, Text!Percent
<1> HIDE DEF a, b
<1>6. /\ Text!UrlChars(<<37>>) = <<37>> /\ Text!UrlChars(<<a>>) = <<a>>
      /\ Text!UrlChars(<<b>>) = <<b>>
  BY <1>2, <1>4, UrlCharsOne
<1>7. <<37>> \o <<a>> = <<37, a>> /\ <<37, a>> \o <<b>> = <<37, a, b>>
  <2>1. <<37>> \o <<a>> = <<37, a>>
    <3> DEFINE u == <<37>> \o <<a>>
               v == <<37, a>>
    <3>1. u \in Seq(Bytes) /\ Len(u) = 2 /\ u[1] = 37 /\ u[2] = a
      BY <1>2, <1>4, ConcatProperties
    <3>2. v \in Seq(Bytes) /\ Len(v) = 2 /\ v[1] = 37 /\ v[2] = a
      BY <1>2, <1>4
    <3> HIDE DEF u, v
    <3>3. u = v
      BY <3>1, <3>2, SeqEqual
    <3> QED BY <3>3 DEF u, v
  <2>2. <<37, a>> \o <<b>> = <<37, a, b>>
    <3> DEFINE u == <<37, a>> \o <<b>>
               v == <<37, a, b>>
    <3>1. u \in Seq(Bytes) /\ Len(u) = 3 /\ u[1] = 37 /\ u[2] = a /\ u[3] = b
      BY <1>2, <1>4, ConcatProperties
    <3>2. v \in Seq(Bytes) /\ Len(v) = 3 /\ v[1] = 37 /\ v[2] = a /\ v[3] = b
      BY <1>2, <1>4
    <3> HIDE DEF u, v
    <3>3. u = v
      BY <3>1, <3>2, SeqEqual
    <3> QED BY <3>3 DEF u, v
  <2> QED BY <2>1, <2>2
<1>8. <<37>> \in Seq(Bytes) /\ <<a>> \in Seq(Bytes) /\ <<b>> \in Seq(Bytes) /\ <<37, a>> \in Seq(Bytes)
  BY <1>2, <1>4
<1>9. Text!UrlChars(<<37, a>>) = <<37, a>>
  BY <1>6, <1>7, <1>8, UrlCharsBoth
<1>10. Text!UrlChars(<<37, a, b>>) = <<37, a, b>>
  BY <1>6, <1>7, <1>8, <1>9, UrlCharsBoth
<1> QED BY <1>5, <1>10

\* encode_url() of a text that is put together is put together of what it
\* makes of the parts.
LEMMA UrlCharsParts ==
  ASSUME NEW n \in Nat, NEW e \in [1 .. n -> Seq(Bytes)],
         NEW u, u = [k \in 1 .. n |-> Text!UrlChars(e[k])]
  PROVE  Text!UrlChars(Text!FlattenSeq(e)) = Text!FlattenSeq(u)
<1>1. u \in [1 .. n -> Seq(Bytes)]
  <2>1. \A k \in 1 .. n : Text!UrlChars(e[k]) \in Seq(Bytes)
    BY UrlCharsAre
  <2> QED BY <2>1
<1>2. PICK f :
        /\ f \in [0 .. n -> Seq(Bytes)]
        /\ f[0] = <<>>
        /\ \A i \in 1 .. n : f[i] = f[i - 1] \o e[i]
        /\ Text!FlattenSeq(e) = f[n]
  BY FlattenedAny, Zenon
<1>3. PICK g :
        /\ g \in [0 .. n -> Seq(Bytes)]
        /\ g[0] = <<>>
        /\ \A i \in 1 .. n : g[i] = g[i - 1] \o u[i]
        /\ Text!FlattenSeq(u) = g[n]
  BY <1>1, FlattenedAny, Zenon
<1> DEFINE T == {k \in Nat : k <= n => Text!UrlChars(f[k]) = g[k]}
<1>4. 0 \in T
  <2> DEFINE s == <<>>
             z == [i \in 1 .. Len(s) |-> UrlOf(s[i])]
  <2>1. s \in Seq(Bytes) /\ Len(s) = 0
    OBVIOUS
  <2>2. z = <<>>
    BY <2>1
  <2>3. Text!UrlChars(s) = Text!FlattenSeq(z)
    BY <2>1, UrlCharsAre
  <2>4. Text!FlattenSeq(<<>>) = <<>>
    BY SMT DEF Text!FlattenSeq
  <2>5. Text!UrlChars(s) = <<>>
    BY <2>2, <2>3, <2>4
  <2> QED BY <1>2, <1>3, <2>5
<1>5. ASSUME NEW k \in Nat, k \in T PROVE k + 1 \in T
  <2>1. k + 1 \in Nat
    OBVIOUS
  <2> SUFFICES ASSUME k + 1 <= n PROVE Text!UrlChars(f[k + 1]) = g[k + 1]
    BY <2>1, Zenon
  <2>2. k + 1 \in 1 .. n /\ (k + 1) - 1 = k /\ k \in 0 .. n /\ k <= n
    OBVIOUS
  <2>3. Text!UrlChars(f[k]) = g[k]
    BY <1>5, <2>2, Zenon
  <2>4. f[k + 1] = f[k] \o e[k + 1] /\ g[k + 1] = g[k] \o u[k + 1]
    BY <1>2, <1>3, <2>2
  <2>5. f[k] \in Seq(Bytes) /\ e[k + 1] \in Seq(Bytes) /\ u[k + 1] = Text!UrlChars(e[k + 1])
    BY <1>2, <2>2
  <2>6. Text!UrlChars(f[k] \o e[k + 1]) = Text!UrlChars(f[k]) \o Text!UrlChars(e[k + 1])
    BY <2>5, UrlCharsBoth
  <2> QED BY <2>3, <2>4, <2>5, <2>6
<1>6. n \in T
  <2> HIDE DEF T
  <2> QED BY <1>4, <1>5, Counting
<1>7. n <= n
  OBVIOUS
<1>8. Text!UrlChars(f[n]) = g[n]
  BY <1>6, <1>7, Zenon
<1> QED BY <1>2, <1>3, <1>8

\* encode_url() goes as far as the first zero byte; a text without one is its
\* own beginning.
LEMMA BeforeZero ==
  ASSUME NEW s \in Seq(Bytes), NEW t, t = Text!Before(s, 0)
  PROVE  /\ t \in Seq(Bytes) /\ Len(t) <= Len(s)
         /\ \A i \in 1 .. Len(t) : t[i] = s[i] /\ t[i] # 0
         /\ (\A i \in 1 .. Len(s) : s[i] # 0) => t = s
<1> DEFINE zeros == {i \in DOMAIN s : s[i] = 0}
<1>1. DOMAIN s = 1 .. Len(s) /\ Len(s) \in Nat /\ \A i \in 1 .. Len(s) : s[i] \in Bytes
  BY LenProperties, ElementOfSeq
<1>2. t = IF zeros = {} THEN s ELSE SubSeq(s, 1, Text!Min(zeros) - 1)
  BY DEF Text!Before
<1>3. \A i : i \in zeros <=> i \in 1 .. Len(s) /\ s[i] = 0
  BY <1>1
<1> HIDE DEF zeros
<1>4. CASE zeros = {}
  BY <1>1, <1>2, <1>3, <1>4
<1>5. CASE zeros # {}
  <2> DEFINE m == Text!Min(zeros)
  <2>1. m = Form!Min(zeros)
    BY DEF Text!Min, Form!Min
  <2>2. zeros \subseteq Nat
    BY <1>1, <1>3
  <2>3. m \in zeros /\ \A x \in zeros : m <= x
    BY <1>5, <2>1, <2>2, LeastOf
  <2> HIDE DEF m
  <2>4. m \in 1 .. Len(s) /\ s[m] = 0 /\ m \in Nat
    BY <1>1, <1>3, <2>3
  <2>5. t = SubSeq(s, 1, m - 1)
    BY <1>2, <1>5 DEF m
  <2>6. /\ t \in Seq(Bytes) /\ Len(t) = m - 1
        /\ \A i \in 1 .. m - 1 : t[i] = s[i]
    BY <1>1, <2>4, <2>5, SMT
  <2>7. ASSUME NEW i \in 1 .. m - 1
        PROVE  s[i] # 0
    <3>1. i \in 1 .. Len(s) /\ ~(m <= i)
      BY <1>1, <2>4
    <3> QED BY <1>3, <2>3, <3>1
  <2> QED BY <1>1, <2>4, <2>6, <2>7
<1> QED BY <1>4, <1>5

\* encode_url() and decode_url(): a path of any bytes but the percent sign, which
\* encode_url() leaves as it is, is decoded to what it was, up to its first zero
\* byte, where encode_url() stops.  (The server's parse_request_line() takes the
\* path out of the target before: there "#" and "?" end it.)
THEOREM PathsSurvive ==
  ASSUME NEW s \in Seq(Bytes), \A i \in 1 .. Len(s) : s[i] # Text!Percent
  PROVE  Text!DecodeUrl(Text!EncodeUrl(s), FALSE) = Text!Before(s, 0)
<1> DEFINE t == Text!Before(s, 0)
           e == [i \in 1 .. Len(t) |-> UrlOf(t[i])]
<1>1. /\ t \in Seq(Bytes) /\ Len(t) <= Len(s) /\ Len(t) \in Nat /\ Len(s) \in Nat
      /\ \A i \in 1 .. Len(t) : t[i] = s[i]
  BY BeforeZero, LenProperties
<1>2. Text!EncodeUrl(s) = Text!UrlChars(t)
  BY DEF Text!EncodeUrl
<1> HIDE DEF t
<1>3. Text!UrlChars(t) = Text!FlattenSeq(e) /\ e \in [1 .. Len(t) -> Seq(Bytes)]
  BY <1>1, UrlCharsAre
<1>4. ASSUME NEW c \in Bytes, c # 37
      PROVE  Stands(UrlOf(c), c, FALSE)
  BY <1>4 DEF Stands, UrlOf
<1>5. \A i \in 1 .. Len(t) : t[i] \in Bytes /\ t[i] # 37
  BY <1>1, ElementOfSeq DEF Text!Percent
<1>6. \A i \in 1 .. Len(t) : Stands(e[i], t[i], FALSE)
  BY <1>4, <1>5
<1> HIDE DEF e
<1>7. Text!DecodeUrl(Text!FlattenSeq(e), FALSE) = t
  BY <1>1, <1>3, <1>6, DecodedParts
<1> QED BY <1>2, <1>3, <1>7 DEF t

\* Parts of some characters make up a text of them: without zero bytes, if they
\* have none.
LEMMA FlattenedIn ==
  ASSUME NEW S, NEW n \in Nat, NEW e \in [1 .. n -> Seq(S)]
  PROVE  Text!FlattenSeq(e) \in Seq(S)
<1>1. Text!FlattenSeq(e) = Form!FlattenSeq(e)
  BY DEF Text!FlattenSeq, Form!FlattenSeq
<1>2. CASE n # 0
  <2>1. \E f \in [0 .. n -> Seq(S)] :
           /\ f[0] = <<>>
           /\ \A i \in 1 .. n : f[i] = f[i - 1] \o e[i]
           /\ Form!FlattenSeq(e) = f[n]
    BY <1>2, Flattened, Zenon
  <2>2. n \in 0 .. n
    OBVIOUS
  <2> QED BY <1>1, <2>1, <2>2
<1>3. CASE n = 0
  <2>1. e = <<>>
    BY <1>3
  <2>2. Text!FlattenSeq(<<>>) = <<>>
    BY SMT DEF Text!FlattenSeq
  <2>3. <<>> \in Seq(S)
    OBVIOUS
  <2> QED BY <2>1, <2>2, <2>3
<1> QED BY <1>2, <1>3

\* The parameters of a request, of which its client encodes each value and then
\* the target as a whole: the value that the server decodes is the one that the
\* client was given.
THEOREM ValuesSurvive ==
  ASSUME NEW s \in Seq(Bytes)
  PROVE  Text!DecodeUrl(Text!EncodeUrl(Text!EncodeQueryParam(s)), TRUE) = s
<1> DEFINE Of(c) == IF Text!IsAlnum(c) \/ c \in {45, 95, 46, 33, 126, 42, 39, 40, 41}
                    THEN <<c>> ELSE Text!PercentHex(c)
           n == Len(s)
           e == [i \in 1 .. n |-> Of(s[i])]
           u == [i \in 1 .. n |-> Text!UrlChars(e[i])]
<1>1. DOMAIN s = 1 .. n /\ n \in Nat /\ \A i \in 1 .. n : s[i] \in Bytes
  BY LenProperties, ElementOfSeq
<1>2. Text!EncodeQueryParam(s) = Text!FlattenSeq(e)
  <2>1. Text!EncodeQueryParam(s) = Text!FlattenSeq([i \in DOMAIN s |-> Of(s[i])])
    BY DEF Text!EncodeQueryParam, Text!FlatMap
  <2> QED BY <1>1, <2>1
<1>3. ASSUME NEW c \in Bytes
      PROVE  /\ Of(c) \in Seq(Bytes)
             /\ Text!UrlChars(Of(c)) \in Seq(Bytes)
             /\ Stands(Text!UrlChars(Of(c)), c, TRUE)
  <2>1. CASE Text!IsAlnum(c) \/ c \in {45, 95, 46, 33, 126, 42, 39, 40, 41}
    <3>1. c # 37 /\ c # 43
      BY <2>1, SMT DEF Text!IsAlnum, Bytes
    <3>2. Of(c) = <<c>> /\ <<c>> \in Seq(Bytes)
      BY <2>1
    <3>3. Text!UrlChars(Of(c)) = UrlOf(c)
      BY <3>2, UrlCharsOne
    <3> HIDE DEF Of
    <3> QED BY <3>1, <3>2, <3>3, HexStands, UrlOfIs DEF Stands, UrlOf
  <2>2. CASE ~(Text!IsAlnum(c) \/ c \in {45, 95, 46, 33, 126, 42, 39, 40, 41})
    <3>1. Of(c) = Text!PercentHex(c)
      BY <2>2
    <3> HIDE DEF Of
    <3> QED BY <3>1, HexStands, UrlCharsHex DEF Stands
  <2> QED BY <2>1, <2>2
<1>4. ASSUME NEW c \in Bytes
      PROVE  Of(c) \in Seq(1 .. 255)
  <2>1. CASE Text!IsAlnum(c) \/ c \in {45, 95, 46, 33, 126, 42, 39, 40, 41}
    <3>1. c \in 1 .. 255
      BY <2>1, SMT DEF Text!IsAlnum, Bytes
    <3>2. Of(c) = <<c>>
      BY <2>1
    <3> HIDE DEF Of
    <3> QED BY <3>1, <3>2
  <2>2. CASE ~(Text!IsAlnum(c) \/ c \in {45, 95, 46, 33, 126, 42, 39, 40, 41})
    <3>1. Of(c) = Text!PercentHex(c)
      BY <2>2
    <3> HIDE DEF Of
    <3>2. Text!HexUpper(c \div 16) \in 1 .. 255 /\ Text!HexUpper(c % 16) \in 1 .. 255
      BY SMT DEF Text!HexUpper, Bytes
    <3>3. Text!PercentHex(c) \in Seq(1 .. 255)
      BY <3>2 DEF Text!PercentHex, Text!Percent
    <3> QED BY <3>1, <3>3
  <2> QED BY <2>1, <2>2
<1> HIDE DEF Of
<1>5. e \in [1 .. n -> Seq(Bytes)] /\ \A i \in 1 .. n : e[i] = Of(s[i])
  BY <1>1, <1>3
<1>6. Text!EncodeUrl(Text!FlattenSeq(e)) = Text!UrlChars(Text!FlattenSeq(e))
  <2> DEFINE v == Text!FlattenSeq(e)
  <2>1. e \in [1 .. n -> Seq(1 .. 255)]
    BY <1>1, <1>4, <1>5
  <2> HIDE DEF e
  <2>2. v \in Seq(1 .. 255)
    BY <1>1, <2>1, FlattenedIn
  <2> HIDE DEF v
  <2>3. DOMAIN v = 1 .. Len(v) /\ Len(v) \in Nat /\ \A i \in 1 .. Len(v) : v[i] \in 1 .. 255
    BY <2>2, LenProperties, ElementOfSeq
  <2>4. {i \in DOMAIN v : v[i] = 0} = {}
    <3>1. \A k \in 1 .. 255 : k # 0
      OBVIOUS
    <3>2. \A i \in DOMAIN v : v[i] # 0
      BY <2>3, <3>1, Zenon
    <3> QED BY <3>2, Zenon
  <2>5. Text!Before(v, 0) = v
    BY <2>4 DEF Text!Before
  <2> QED BY <2>5 DEF Text!EncodeUrl, v
<1>7. Text!UrlChars(Text!FlattenSeq(e)) = Text!FlattenSeq(u)
  <2> HIDE DEF e
  <2> QED BY <1>1, <1>5, UrlCharsParts
<1>8. u \in [1 .. n -> Seq(Bytes)] /\ \A i \in 1 .. n : Stands(u[i], s[i], TRUE)
  <2> HIDE DEF e
  <2>1. \A i \in 1 .. n : /\ Text!UrlChars(e[i]) \in Seq(Bytes)
                          /\ Stands(Text!UrlChars(e[i]), s[i], TRUE)
    BY <1>1, <1>3, <1>5
  <2> QED BY <2>1
<1> HIDE DEF e, u
<1>9. Text!DecodeUrl(Text!FlattenSeq(u), TRUE) = s
  BY <1>8, DecodedParts
<1> QED BY <1>2, <1>6, <1>7, <1>9
================================================================================
