------------------------ MODULE HttplibExchangeProofs -------------------------
(***************************************************************************)
(* Proofs about HttplibExchange, for any number of requests of any kinds:  *)
(* send() returns the answer to its own request unless an answer was       *)
(* written before its request had been read, no request is handled twice,  *)
(* and the content that send() returns is whole, with the exceptions that  *)
(* ContentIsWhole names.                                                   *)
(*                                                                         *)
(* Four things are shown by induction, each on what comes before: where    *)
(* the connections are and who writes what (Shape), where each request is  *)
(* (Carried, Backed, Clean, Early), in which order the pieces of a content *)
(* and the answers follow each other (Chain), and when something else is   *)
(* read as part of a content (ForeignOk).                                  *)
(***************************************************************************)
EXTENDS HttplibExchange, SequenceTheorems, TLAPS

AllKinds == {"get", "head", "post", "expect", "badrange", "getbody", "exit"}
AllForms == {"empty", "plain", "length", "chunked", "stream"}

Answers == [req : 0 .. MaxRequests, form : AllForms, close : BOOLEAN]

RequestUnit == [unit : {"head", "body"}, req : Requests]

AnswerUnit == [unit : {"100", "end"}] \cup [unit : {"head"}, answer : Answers]
                \cup [unit : {"piece"}, form : AllForms, no : Nat]

Results == [is : {"none", "error"}]
             \cup [is : {"answer"}, to : 0 .. MaxRequests, via : Requests, form : AllForms,
                   pieces : Nat, foreign : BOOLEAN]

\* The types of the variables; a client that is busy has a connection.
ClientType ==
  /\ keepAlive \in BOOLEAN
  /\ cpc \in {"idle", "head", "body", "read", "content"}
  /\ n \in 0 .. MaxRequests
  /\ kind \in [Requests -> AllKinds \cup {"none"}]
  /\ conn \in 0 .. MaxRequests
  /\ conn <= n
  /\ cpc # "idle" => conn # 0
  /\ got \in Answers
  /\ pieces \in Nat
  /\ foreign \in BOOLEAN
  /\ torn \in BOOLEAN
  /\ result \in [Requests -> Results]
  /\ cOpen \in [Requests -> BOOLEAN]

WireType ==
  /\ up \in [Requests -> Seq(RequestUnit)]
  /\ down \in [Requests -> Seq(AnswerUnit)]

WorkerType ==
  /\ sEnd \in [Requests -> {"open", "graceful", "abrupt"}]
  /\ spc \in [Requests -> {"none", "loop", "wait", "line", "route", "handle", "answer",
                           "content", "done", "close", "closed"}]
  /\ left \in [Requests -> Int]
  /\ ret \in [Requests -> BOOLEAN]
  /\ cur \in [Requests -> 0 .. MaxRequests]
  /\ form \in [Requests -> AllForms]
  /\ wrote \in [Requests -> Nat]

HistoryType ==
  /\ stopped \in BOOLEAN
  /\ handled \in [Requests -> Nat]
  /\ unread \in [Requests -> BOOLEAN]
  /\ cut \in [Requests -> BOOLEAN]

TypeOK == ClientType /\ WireType /\ WorkerType /\ HistoryType

(***************************************************************************)
(* The connections, and the answers that are under way.                    *)
(***************************************************************************)
\* The client is busy with a request on its connection, and has one result at
\* most for each request it has sent.
ClientShape ==
  /\ conn # 0 => spc[conn] # "none" /\ cOpen[conn]
  /\ \A c \in Requests : cOpen[c] => c = conn
  /\ \A i \in Requests :
       Answered(i) => i <= n /\ (i = n => cpc = "idle") /\ result[i].to <= n
  /\ cpc # "content" => pieces = 0
  /\ pieces <= Pieces(got.form)
  /\ got.req <= n

\* A worker has a request in hand between its head and Again, and the form of
\* an answer between the handler and Again.
WorkerShapeAt(c) ==
  /\ c > n => spc[c] = "none"
  /\ spc[c] = "none" => up[c] = <<>> /\ down[c] = <<>> /\ ~unread[c]
  /\ sEnd[c] # "open" => spc[c] = "closed"
  /\ cur[c] # 0 => spc[c] \in {"route", "handle", "answer", "content", "done"}
  /\ spc[c] \in {"route", "handle"} => cur[c] # 0
  /\ form[c] # "empty" => spc[c] \in {"answer", "content", "done"}
  /\ wrote[c] # 0 => spc[c] \in {"content", "done"}
  /\ cur[c] <= n
  /\ \A k \in 1 .. Len(up[c]) : up[c][k].req <= n
  /\ \A k \in 1 .. Len(down[c]) : down[c][k].unit = "head" => down[c][k].answer.req <= n

WorkerShape == \A c \in Requests : WorkerShapeAt(c)

(***************************************************************************)
(* Where each request is.                                                  *)
(***************************************************************************)
\* Request i was sent on connection c: the last that was made before it.
Carries(c, i) ==
  /\ c <= i /\ i <= n /\ spc[c] # "none"
  /\ \A d \in Requests : c < d /\ d <= i => spc[d] = "none"

IsHead(c, k) == k \in 1 .. Len(up[c]) /\ up[c][k].unit = "head"

CarriedAt(c) ==
  /\ cur[c] # 0 => Carries(c, cur[c])
  /\ spc[c] \in {"route", "handle"} => handled[cur[c]] = 0
  /\ \A k \in Nat : IsHead(c, k) =>
       /\ Carries(c, up[c][k].req)
       /\ handled[up[c][k].req] = 0
       /\ cur[c] < up[c][k].req
       /\ \A j \in Nat : IsHead(c, j) /\ j < k => up[c][j].req < up[c][k].req

\* A request is on one connection, and the handler runs for it once at most.
Carried ==
  /\ conn # 0 => Carries(conn, n)
  /\ cpc = "head" => \A k \in Nat : IsHead(conn, k) => up[conn][k].req < n
  /\ cpc = "head" => cur[conn] < n
  /\ \A i \in Requests : i > n \/ (i = n /\ cpc = "head") => handled[i] = 0
  /\ \A i \in Requests : handled[i] <= 1
  /\ \A c \in Requests : CarriedAt(c)

\* An answer with content is that of a handler.
Ran(answer) == answer.form # "empty" => answer.req \in Requests /\ handled[answer.req] > 0

BackedAt(c) ==
  /\ form[c] # "empty" => cur[c] \in Requests /\ handled[cur[c]] > 0
  /\ \A k \in 1 .. Len(down[c]) : down[c][k].unit = "head" => Ran(down[c][k].answer)

Backed ==
  /\ Ran(got)
  /\ \A i \in Requests :
       Answered(i) /\ result[i].form # "empty" /\ result[i].to = i => handled[i] > 0
  /\ \A c \in Requests : BackedAt(c)

Busy(c) == spc[c] \in {"route", "handle", "answer"}

IsAnswer(c, k) == k \in 1 .. Len(down[c]) /\ down[c][k].unit = "head"

\* What is on the way to the server: the request, or what the worker has left of it.
Nothing(c) == Len(up[c]) = 0
OnlyHead(c) == Len(up[c]) = 1 /\ up[c][1].unit = "head"
OnlyBody(c) == Len(up[c]) = 1 /\ up[c][1].unit = "body"
HeadAndBody(c) == Len(up[c]) = 2 /\ up[c][1].unit = "head" /\ up[c][2].unit = "body"

\* On connection c, where every answer so far was written after the whole
\* request, request n is at one place: still with the client, on the way, with
\* the worker, or answered.
CleanAt(c) ==
  /\ Busy(c) => cur[c] = n
  /\ \A k \in Nat : IsAnswer(c, k) =>
       /\ down[c][k].answer.req = n
       /\ cpc = "read" /\ Nothing(c) /\ ~Busy(c)
       /\ \A j \in Nat : IsAnswer(c, j) => j = k
  /\ cpc \in {"idle", "head", "content"} => Nothing(c) /\ ~Busy(c)
  /\ cpc = "content" => got.req = n
  /\ \A k \in Nat : k \in 1 .. Len(up[c]) => up[c][k].req = n
  /\ Nothing(c) \/ OnlyHead(c) \/ OnlyBody(c) \/ HeadAndBody(c)
  /\ sEnd[c] # "open" => Nothing(c)
  /\ cpc = "body" => OnlyHead(c) \/ Nothing(c)
  /\ cpc = "body" /\ Nothing(c) => Busy(c) \/ sEnd[c] # "open"
  /\ OnlyHead(c) \/ HeadAndBody(c) => ~Busy(c)
  /\ OnlyBody(c) => Busy(c)
  /\ OnlyHead(c) /\ HasBody(kind[n]) => cpc = "body"
  /\ cpc = "body" \/ OnlyBody(c) \/ HeadAndBody(c) => HasBody(kind[n])
  /\ (cpc = "body" \/ OnlyBody(c)) /\ Busy(c) /\ kind[n] \in {"post", "expect"}
       => spc[c] # "handle" /\ handled[n] = 0

Clean ==
  /\ conn # 0 /\ ~unread[conn] => CleanAt(conn)
  /\ \A i \in Requests : Answered(i) /\ ~unread[result[i].via] => result[i].to = i

IsHundred(c, k) == k \in 1 .. Len(down[c]) /\ down[c][k].unit = "100"

\* On such a connection "100 Continue" comes before the answer.
EarlyAt(c) ==
  \A j \in Nat : IsHundred(c, j) =>
    cpc \in {"body", "read"} /\ \A k \in Nat : IsAnswer(c, k) => j < k

Early == conn # 0 /\ ~unread[conn] => EarlyAt(conn)

(***************************************************************************)
(* In which order content is written and read.                             *)
(***************************************************************************)
\* How much of which content there is after a unit, of the answer to req: of
\* one that a piece belongs to, which is no HEAD's, no is not asked.
After(u) ==
  CASE u.unit = "head" -> [form |-> u.answer.form, no |-> 0, req |-> u.answer.req]
    [] u.unit = "piece" -> [form |-> u.form, no |-> u.no, req |-> 0]
    [] OTHER -> [form |-> "none", no |-> 2, req |-> 0]

\* After what the client has read.
AfterRead == [form |-> got.form, no |-> pieces, req |-> IF pieces = 0 THEN got.req ELSE 0]

Complete(after) == after.no = Pieces(after.form) \/ KindOf(after.req) = "head"

\* An answer comes after all of a content, or after a plain one whose body could
\* not be written.
Follows(c, u, after) ==
  /\ u.unit = "piece" => u.form = after.form /\ u.no = after.no + 1
  /\ u.unit = "end" => after.form = "chunked" /\ after.no = 2
  /\ u.unit \in {"head", "100"} => Complete(after) \/ (after.form = "plain" /\ cut[c])

\* What was written last, if there is something that was not read or is being read.
Tip(c) == IF down[c] # <<>> THEN After(down[c][Len(down[c])]) ELSE AfterRead

\* The worker will write no other answer.
Ending(c) ==
  \/ spc[c] \in {"close", "closed"}
  \/ spc[c] = "done" /\ ~ret[c]
  \/ spc[c] \in {"done", "loop"} /\ stopped

\* What was written last is what the worker is at, or all there is of it, unless
\* it was cut short.
TipAt(c, tip) ==
  IF spc[c] = "content"
  THEN tip.form = form[c] /\ tip.no = wrote[c] /\ wrote[c] <= Pieces(form[c])
       /\ KindOf(tip.req) # "head"
  ELSE Complete(tip) \/ sEnd[c] = "abrupt" \/ (cut[c] /\ (tip.form = "plain" \/ Ending(c)))

\* The client is in a content of which it knows how far it has read.
Reads == cpc = "content" /\ ~foreign

ChainAt(c) ==
  /\ \A k \in Nat : k \in 2 .. Len(down[c]) => Follows(c, down[c][k], After(down[c][k - 1]))
  /\ Reads /\ down[c] # <<>> => Follows(c, down[c][1], AfterRead)
  /\ down[c] # <<>> \/ Reads => TipAt(c, Tip(c))

Chain == conn # 0 => ChainAt(conn)

\* Something else is read as content where an answer was written early, and
\* where the content has no length, or less of it was written.
ForeignOk ==
  /\ foreign => cpc = "content"
  /\ foreign /\ kind[n] # "head" /\ KindOf(got.req) # "head" =>
       /\ unread[conn]
       /\ (got.form = "stream" /\ pieces = 2) \/ (got.form = "plain" /\ cut[conn])

-----------------------------------------------------------------------------
(***************************************************************************)
(* What is written and what is taken.                                      *)
(***************************************************************************)
\* t is s with u at its end.
Grown(s, u, t) ==
  /\ Len(t) = Len(s) + 1
  /\ t[Len(s) + 1] = u
  /\ \A k \in 1 .. Len(s) : t[k] = s[k]

LEMMA AppendGrows ==
  ASSUME NEW S, NEW s \in Seq(S), NEW u \in S
  PROVE  /\ Append(s, u) \in Seq(S) /\ Grown(s, u, Append(s, u))
         /\ s \o <<u>> \in Seq(S) /\ Grown(s, u, s \o <<u>>)
         /\ s \o <<>> = s
BY ConcatProperties, ConcatEmptySeq, SMT DEF Grown

LEMMA TailShifts ==
  ASSUME NEW S, NEW s \in Seq(S), s # <<>>
  PROVE  /\ Tail(s) \in Seq(S) /\ Len(Tail(s)) = Len(s) - 1 /\ Len(s) > 0
         /\ Head(s) = s[1] /\ Head(s) \in S
         /\ \A k \in 1 .. Len(s) - 1 : Tail(s)[k] = s[k + 1]
BY SMT

\* Send adds a unit to what is on the way if the client has not closed its end.
LEMMA SendGrows ==
  ASSUME down \in [Requests -> Seq(AnswerUnit)], NEW c \in Requests, NEW u \in AnswerUnit,
         Send(c, <<u>>)
  PROVE  /\ down' \in [Requests -> Seq(AnswerUnit)]
         /\ \A d \in Requests \ {c} : down'[d] = down[d]
         /\ ~cOpen[c] => down'[c] = down[c]
         /\ cOpen[c] => Grown(down[c], u, down'[c])
<1>1. down[c] \o <<u>> \in Seq(AnswerUnit) /\ Grown(down[c], u, down[c] \o <<u>>)
  BY AppendGrows
<1>2. down' = [down EXCEPT ![c] = IF cOpen[c] THEN down[c] \o <<u>> ELSE down[c]]
  BY DEF Send
<1> HIDE DEF AnswerUnit
<1> QED BY <1>1, <1>2

LEMMA SendNothing ==
  ASSUME down \in [Requests -> Seq(AnswerUnit)], NEW c \in Requests, Send(c, <<>>)
  PROVE  down' = down
<1>1. down[c] \o <<>> = down[c]
  BY ConcatEmptySeq
<1>2. down' = [down EXCEPT ![c] = IF cOpen[c] THEN down[c] \o <<>> ELSE down[c]]
  BY DEF Send
<1> QED BY <1>1, <1>2

-----------------------------------------------------------------------------
(***************************************************************************)
(* The types.                                                              *)
(***************************************************************************)
LEMMA Values ==
  /\ NoAnswer \in Answers
  /\ [is |-> "none"] \in Results /\ [is |-> "error"] \in Results
  /\ \A to \in 0 .. MaxRequests, via \in Requests, f \in AllForms, p \in Nat, b \in BOOLEAN :
       [is |-> "answer", to |-> to, via |-> via, form |-> f, pieces |-> p, foreign |-> b] \in Results
  /\ \A u \in {"head", "body"}, i \in Requests : [unit |-> u, req |-> i] \in RequestUnit
  /\ [unit |-> "100"] \in AnswerUnit /\ [unit |-> "end"] \in AnswerUnit
  /\ \A a \in Answers : [unit |-> "head", answer |-> a] \in AnswerUnit
  /\ \A f \in AllForms, k \in Nat : [unit |-> "piece", form |-> f, no |-> k] \in AnswerUnit
  /\ \A i \in 0 .. MaxRequests, f \in AllForms, b \in BOOLEAN :
       [req |-> i, form |-> f, close |-> b] \in Answers
  /\ <<>> \in Seq(RequestUnit) /\ <<>> \in Seq(AnswerUnit)
BY ExchangeAssumption DEF ExchangeAssumption, Answers, NoAnswer, AllForms, Results, RequestUnit, AnswerUnit

LEMMA InitType == Init => TypeOK
<1> SUFFICES ASSUME Init PROVE TypeOK
  OBVIOUS
<1>1. ClientType
  <2>1. foreign \in BOOLEAN /\ torn \in BOOLEAN
    BY Zenon DEF Init
  <2>2. /\ keepAlive \in BOOLEAN /\ cpc = "idle" /\ n = 0 /\ conn = 0 /\ got = NoAnswer /\ pieces = 0
        /\ kind = [i \in Requests |-> "none"] /\ result = [i \in Requests |-> [is |-> "none"]]
        /\ cOpen = [c \in Requests |-> FALSE]
    BY DEF Init
  <2> QED
    BY <2>1, <2>2, Values, ExchangeAssumption DEF ClientType
<1>2. WireType
  BY Values DEF Init, WireType
<1>3. WorkerType
  BY ExchangeAssumption DEF Init, WorkerType, AllForms
<1>4. HistoryType
  BY DEF Init, HistoryType
<1> QED
  BY <1>1, <1>2, <1>3, <1>4 DEF TypeOK

\* What a step leaves alone keeps its type.
LEMMA TypeFrames ==
  ASSUME TypeOK
  PROVE  /\ UNCHANGED client => ClientType'
         /\ UNCHANGED <<up, down>> => WireType'
         /\ UNCHANGED worker => WorkerType'
         /\ UNCHANGED history => HistoryType'
BY DEF TypeOK, ClientType, WireType, WorkerType, HistoryType, client, worker, history

LEMMA ClientStepType ==
  ASSUME TypeOK, Client
  PROVE  TypeOK'
<1> USE ExchangeAssumption DEF Requests
<1>0. TypeOK'
      <=> ClientType' /\ WireType' /\ WorkerType' /\ HistoryType'
  BY DEF TypeOK
<1>b. /\ foreign' \in BOOLEAN /\ torn' \in BOOLEAN
  <2>1. foreign \in BOOLEAN /\ torn \in BOOLEAN
    BY DEF TypeOK, ClientType
  <2> QED
    BY <2>1, Zenon
    DEF Client, Ask, WriteRequest, Write, Fail, ReadHead, ReadPiece, ReadForeign, Finish, Close
<1>1. CASE Ask
  <2>1. n' \in Requests /\ kind' \in [Requests -> AllKinds \cup {"none"}] /\ n < n'
    BY <1>1 DEF Ask, TypeOK, ClientType, AllKinds
  <2>2. ClientType'
    <3>1. CASE Alive /\ cpc' = "head" /\ UNCHANGED <<conn, cOpen, torn, spc, result>>
      BY <1>1, <2>1, <3>1 DEF Ask, TypeOK, ClientType, Alive
    <3>2. CASE conn' = n' /\ cOpen' = [c \in Requests |-> c = n'] /\ cpc' = "head"
               /\ UNCHANGED result
      BY <1>1, <1>b, <2>1, <3>2 DEF Ask, TypeOK, ClientType
    <3>3. CASE conn' = 0 /\ cOpen' = [c \in Requests |-> FALSE]
               /\ result' = [result EXCEPT ![n'] = [is |-> "error"]] /\ UNCHANGED cpc
      BY <1>1, <1>b, <2>1, <3>3, Values DEF Ask, TypeOK, ClientType
    <3> QED
      BY <1>1, <3>1, <3>2, <3>3 DEF Ask
  <2>3. WorkerType'
    BY <1>1, <2>1, ZenonT(40) DEF Ask, TypeOK, WorkerType
  <2> QED
    BY <1>0, <1>1, <2>2, <2>3, TypeFrames DEF Ask
<1>2. CASE WriteRequest
  <2> DEFINE h == [unit |-> "head", req |-> n]
             b == [unit |-> "body", req |-> n]
  <2>1. PICK u \in {h, b}, next \in {"body", "read"} : Write(u, next)
    BY <1>2 DEF WriteRequest
  <2>2. conn \in Requests /\ n \in Requests
    BY <1>2 DEF WriteRequest, TypeOK, ClientType
  <2>3. u \in RequestUnit
    BY <2>1, <2>2, Values
  <2> HIDE DEF h, b
  <2>4. Append(up[conn], u) \in Seq(RequestUnit)
    BY <2>2, <2>3, AppendGrows DEF TypeOK, WireType
  <2>5. WireType'
    BY <2>1, <2>2, <2>4, Values DEF Write, TypeOK, WireType
  <2>6. WorkerType'
    BY <2>1 DEF Write, TypeOK, WorkerType
  <2>7. ClientType'
    BY <2>1, <2>2 DEF Write, TypeOK, ClientType
  <2> QED
    BY <1>0, <2>1, <2>5, <2>6, <2>7, TypeFrames DEF Write
<1>3. CASE Fail
  <2>1. ClientType'
    <3>1. /\ cpc' = "idle" /\ got' = NoAnswer /\ pieces' = 0 /\ conn' = 0
          /\ result' = [result EXCEPT ![n] = [is |-> "error"]]
          /\ cOpen' = [cOpen EXCEPT ![conn] = FALSE] /\ UNCHANGED <<keepAlive, n, kind>>
      BY <1>3 DEF Fail, Close
    <3>2. result' \in [Requests -> Results] /\ cOpen' \in [Requests -> BOOLEAN]
      BY <3>1, Values DEF TypeOK, ClientType
    <3> QED
      BY <1>b, <3>1, <3>2, Values DEF TypeOK, ClientType
  <2> QED
    BY <1>0, <1>3, <2>1, TypeFrames DEF Fail
<1>4. ASSUME cpc # "idle", down[conn] # <<>>
      PROVE  /\ conn \in Requests
             /\ Head(down[conn]) \in AnswerUnit
             /\ Tail(down[conn]) \in Seq(AnswerUnit)
  <2>1. conn \in Requests
    BY <1>4 DEF TypeOK, ClientType
  <2> QED
    BY <1>4, <2>1, TailShifts DEF TypeOK, WireType
<1>5. ASSUME NEW u \in AnswerUnit, u.unit = "head"
      PROVE  u.answer \in Answers
  BY <1>5 DEF AnswerUnit
<1>6. CASE ReadHead
  <2>1. ClientType'
    BY <1>4, <1>5, <1>6 DEF ReadHead, TypeOK, ClientType
  <2>2. WireType'
    BY <1>4, <1>6 DEF ReadHead, Take, TypeOK, WireType
  <2> QED
    BY <1>0, <1>6, <2>1, <2>2, TypeFrames DEF ReadHead
<1>7. CASE ReadPiece
  <2>1. ClientType'
    BY <1>7 DEF ReadPiece, TypeOK, ClientType
  <2>2. WireType'
    BY <1>4, <1>7 DEF ReadPiece, Take, TypeOK, WireType
  <2> QED
    BY <1>0, <1>7, <2>1, <2>2, TypeFrames DEF ReadPiece
<1>9. CASE ReadForeign
  <2>1. ClientType'
    BY <1>9 DEF ReadForeign, TypeOK, ClientType
  <2>2. WireType'
    <3>1. CASE UNCHANGED down
      BY <1>9, <3>1 DEF ReadForeign, TypeOK, WireType
    <3>2. CASE Take /\ down[conn] # <<>>
      BY <1>4, <1>9, <3>2 DEF ReadForeign, Take, TypeOK, WireType
    <3> QED
      BY <1>9, <3>1, <3>2 DEF ReadForeign
  <2> QED
    BY <1>0, <1>9, <2>1, <2>2, TypeFrames DEF ReadForeign
<1>8. CASE Finish
  <2>1. conn \in Requests /\ n \in Requests
    BY <1>8 DEF Finish, TypeOK, ClientType
  <2>2. got.req \in 0 .. MaxRequests /\ got.form \in AllForms
    BY DEF TypeOK, ClientType, Answers
  <2>3. [is |-> "answer", to |-> got.req, via |-> conn, form |-> got.form, pieces |-> pieces,
         foreign |-> foreign] \in Results
    <3>1. pieces \in Nat /\ foreign \in BOOLEAN
      BY DEF TypeOK, ClientType
    <3> QED
      BY <2>1, <2>2, <3>1, Values
  <2>4. ClientType'
    <3> DEFINE r == [is |-> "answer", to |-> got.req, via |-> conn, form |-> got.form,
                     pieces |-> pieces, foreign |-> foreign]
    <3>1. /\ result' = [result EXCEPT ![n] = r] /\ cpc' = "idle" /\ got' = NoAnswer /\ pieces' = 0
          /\ (conn' = 0 /\ cOpen' = [cOpen EXCEPT ![conn] = FALSE]) \/ UNCHANGED <<conn, cOpen>>
          /\ UNCHANGED <<keepAlive, n, kind>>
      BY <1>8 DEF Finish, Close
    <3> HIDE DEF r
    <3>2. result' \in [Requests -> Results]
      BY <2>3, <3>1 DEF r, TypeOK, ClientType
    <3>3. CASE conn' = 0 /\ cOpen' = [cOpen EXCEPT ![conn] = FALSE]
      BY <1>b, <2>1, <3>1, <3>2, <3>3, Values DEF TypeOK, ClientType
    <3>4. CASE UNCHANGED <<conn, cOpen>>
      BY <1>b, <2>1, <3>1, <3>2, <3>4, Values DEF TypeOK, ClientType
    <3> QED
      BY <3>1, <3>3, <3>4
  <2>5. WireType'
    <3>1. CASE UNCHANGED down
      BY <1>8, <3>1 DEF Finish, TypeOK, WireType
    <3>2. CASE Take /\ down[conn] # <<>>
      BY <1>4, <1>8, <3>2 DEF Finish, Take, TypeOK, WireType
    <3> QED
      BY <1>8, <3>1, <3>2 DEF Finish, AllRead
  <2> QED
    BY <1>0, <1>8, <2>4, <2>5, TypeFrames DEF Finish
<1> QED
  BY <1>1, <1>2, <1>3, <1>6, <1>7, <1>8, <1>9 DEF Client

LEMMA WorkerStepType ==
  ASSUME TypeOK, NEW c \in Requests, Worker(c)
  PROVE  TypeOK'
<1> USE ExchangeAssumption DEF Requests
<1>0. TypeOK'
      <=> ClientType' /\ WireType' /\ WorkerType' /\ HistoryType'
  BY DEF TypeOK
<1>c. ClientType'
  BY TypeFrames
  DEF Worker, Loop, KeepAlive, ReadLine, ReadJunk, ReadEnd, ReadBody, NoBody, Handle, WriteHead,
      WritePiece, WriteFails, EndContent, Again, CloseSocket, client
<1>u. up[c] # <<>> => /\ Tail(up[c]) \in Seq(RequestUnit)
                       /\ Head(up[c]).req \in Requests
  <2>1. ASSUME up[c] # <<>>
        PROVE  Tail(up[c]) \in Seq(RequestUnit) /\ Head(up[c]) \in RequestUnit
    BY <2>1, TailShifts DEF TypeOK, WireType
  <2> QED
    BY <2>1 DEF RequestUnit
<1>d. ASSUME NEW u \in AnswerUnit, Send(c, <<u>>)
      PROVE  down' \in [Requests -> Seq(AnswerUnit)]
  BY <1>d, SendGrows DEF TypeOK, WireType
<1>n. ASSUME Send(c, <<>>)
      PROVE  down' \in [Requests -> Seq(AnswerUnit)]
  BY <1>n, SendNothing DEF TypeOK, WireType
<1>1. CASE Loop(c) \/ KeepAlive(c) \/ ReadEnd(c) \/ NoBody(c)
  <2>1. WorkerType'
    BY <1>1 DEF Loop, KeepAlive, ReadEnd, NoBody, At, TypeOK, WorkerType
  <2> QED
    BY <1>0, <1>1, <1>c, <2>1, TypeFrames DEF Loop, KeepAlive, ReadEnd, NoBody
<1>2. CASE ReadLine(c)
  <2>1. WorkerType'
    <3>1. cur' \in [Requests -> 0 .. MaxRequests]
      <4>1. cur' = [cur EXCEPT ![c] = Head(up[c]).req] /\ up[c] # <<>>
        BY <1>2 DEF ReadLine
      <4>2. cur \in [Requests -> 0 .. MaxRequests] /\ Head(up[c]).req \in Requests
        BY <1>u, <4>1 DEF TypeOK, WorkerType
      <4> QED
        BY <4>1, <4>2
    <3>2. \E there \in {"answer", "route"} : At(c, "line", there)
      BY <1>2 DEF ReadLine
    <3> QED
      BY <1>2, <3>1, <3>2 DEF ReadLine, At, TypeOK, WorkerType
  <2>2. down' \in [Requests -> Seq(AnswerUnit)]
    BY <1>2, <1>d, <1>n, Values DEF ReadLine
  <2>3. WireType'
    BY <1>2, <1>u, <2>2 DEF ReadLine, TypeOK, WireType
  <2> QED
    BY <1>0, <1>2, <1>c, <2>1, <2>3, TypeFrames DEF ReadLine
<1>3. CASE ReadJunk(c)
  <2>1. WorkerType'
    BY <1>3 DEF ReadJunk, At, TypeOK, WorkerType
  <2>2. WireType'
    BY <1>3, <1>u DEF ReadJunk, TypeOK, WireType
  <2> QED
    BY <1>0, <1>3, <1>c, <2>1, <2>2, TypeFrames DEF ReadJunk
<1>4. CASE ReadBody(c)
  <2>1. WorkerType'
    BY <1>4, ZenonT(40) DEF ReadBody, At, TypeOK, WorkerType
  <2>2. WireType'
    BY <1>4, <1>u DEF ReadBody, TypeOK, WireType
  <2> QED
    BY <1>0, <1>4, <1>c, <2>1, <2>2, TypeFrames DEF ReadBody
<1>5. CASE Handle(c)
  <2>1. WorkerType'
    BY <1>5, SMTT(30) DEF Handle, At, TypeOK, WorkerType, ExchangeAssumption, AllForms
  <2>2. stopped' \in BOOLEAN
    BY <1>5, Zenon DEF Handle
  <2>3. handled' \in [Requests -> Nat]
    <3> DEFINE i == cur[c]
    <3>1. handled' = [handled EXCEPT ![i] = handled[i] + 1]
      BY <1>5 DEF Handle
    <3>2. handled \in [Requests -> Nat]
      BY DEF TypeOK, HistoryType
    <3> HIDE DEF i
    <3>3. CASE i \in Requests
      BY <3>1, <3>2, <3>3
    <3>4. CASE i \notin Requests
      BY <3>1, <3>2, <3>4
    <3> QED
      BY <3>3, <3>4
  <2>4. HistoryType'
    BY <1>5, <2>2, <2>3 DEF Handle, TypeOK, HistoryType
  <2> QED
    BY <1>0, <1>5, <1>c, <2>1, <2>4, TypeFrames DEF Handle
<1>6. CASE WriteHead(c)
  <2>1. WorkerType'
    BY <1>6 DEF WriteHead, At, TypeOK, WorkerType
  <2>2. (left[c] = 1 \/ Bye(c)) \in BOOLEAN
    BY Zenon
  <2>3. [req |-> cur[c], form |-> form[c], close |-> left[c] = 1 \/ Bye(c)] \in Answers
    BY <2>2, Values DEF TypeOK, WorkerType
  <2>4. WireType'
    BY <1>6, <1>d, <2>3, Values DEF WriteHead, TypeOK, WireType
  <2>5. unread' \in [Requests -> BOOLEAN]
    BY <1>6 DEF WriteHead, TypeOK, HistoryType
  <2>6. HistoryType'
    BY <1>6, <2>5 DEF WriteHead, TypeOK, HistoryType
  <2> QED
    BY <1>0, <1>c, <2>1, <2>4, <2>6
<1>7. CASE WritePiece(c)
  <2>1. WorkerType'
    BY <1>7, SMTT(30) DEF WritePiece, TypeOK, WorkerType
  <2>2. [unit |-> "piece", form |-> form[c], no |-> wrote[c] + 1] \in AnswerUnit
    <3>1. form[c] \in AllForms /\ wrote[c] + 1 \in Nat
      BY DEF TypeOK, WorkerType
    <3> QED
      BY <3>1, Values
  <2>3. WireType'
    BY <1>7, <1>d, <2>2 DEF WritePiece, TypeOK, WireType
  <2> QED
    BY <1>0, <1>7, <1>c, <2>1, <2>3, TypeFrames DEF WritePiece
<1>8. CASE WriteFails(c)
  <2>1. WorkerType'
    BY <1>8 DEF WriteFails, At, TypeOK, WorkerType
  <2>2. HistoryType'
    BY <1>8 DEF WriteFails, CutIfShort, TypeOK, HistoryType
  <2> QED
    BY <1>0, <1>8, <1>c, <2>1, <2>2, TypeFrames DEF WriteFails
<1>9. CASE EndContent(c)
  <2>1. WorkerType'
    BY <1>9 DEF EndContent, At, TypeOK, WorkerType
  <2>2. WireType'
    BY <1>9, <1>d, <1>n, Values DEF EndContent, TypeOK, WireType
  <2>3. HistoryType'
    BY <1>9 DEF EndContent, CutIfShort, TypeOK, HistoryType
  <2> QED
    BY <1>0, <1>9, <1>c, <2>1, <2>2, <2>3, TypeFrames DEF EndContent
<1>10. CASE Again(c)
  <2>1. spc' \in [Requests -> {"none", "loop", "wait", "line", "route", "handle", "answer",
                               "content", "done", "close", "closed"}]
    BY <1>10 DEF Again, At, TypeOK, WorkerType
  <2>2. WorkerType'
    BY <1>10, <2>1 DEF Again, TypeOK, WorkerType, AllForms
  <2> QED
    BY <1>0, <1>10, <1>c, <2>2, TypeFrames DEF Again
<1>11. CASE CloseSocket(c)
  <2>1. spc' \in [Requests -> {"none", "loop", "wait", "line", "route", "handle", "answer",
                               "content", "done", "close", "closed"}]
    BY <1>11 DEF CloseSocket, At, TypeOK, WorkerType
  <2>2. sEnd' \in [Requests -> {"open", "graceful", "abrupt"}]
    BY <1>11 DEF CloseSocket, TypeOK, WorkerType
  <2>3. WorkerType'
    BY <1>11, <2>1, <2>2 DEF CloseSocket, TypeOK, WorkerType, AllForms
  <2>4. WireType'
    BY <1>11, Values DEF CloseSocket, TypeOK, WireType
  <2> QED
    BY <1>0, <1>11, <1>c, <2>3, <2>4, TypeFrames DEF CloseSocket
<1> QED
  BY <1>1, <1>2, <1>3, <1>4, <1>5, <1>6, <1>7, <1>8, <1>9, <1>10, <1>11 DEF Worker

LEMMA StepType == TypeOK /\ [Next]_vars => TypeOK'
<1> SUFFICES ASSUME TypeOK, [Next]_vars PROVE TypeOK'
  OBVIOUS
<1>1. CASE Next
  BY <1>1, ClientStepType, WorkerStepType DEF Next
<1>2. CASE UNCHANGED vars
  BY <1>2, TypeFrames DEF TypeOK, vars, client, worker, history
<1> QED
  BY <1>1, <1>2

-----------------------------------------------------------------------------
(***************************************************************************)
(* What a worker does at its connection, and that it does nothing          *)
(* elsewhere.                                                              *)
(***************************************************************************)
LEMMA WorkerFrame ==
  ASSUME TypeOK, NEW c \in Requests, Worker(c)
  PROVE  /\ UNCHANGED client
         /\ spc[c] # "none" /\ spc'[c] # "none"
         /\ stopped => stopped'
         /\ \A d \in Requests \ {c} :
              /\ spc'[d] = spc[d] /\ cur'[d] = cur[d] /\ form'[d] = form[d]
              /\ wrote'[d] = wrote[d] /\ sEnd'[d] = sEnd[d] /\ ret'[d] = ret[d]
              /\ up'[d] = up[d] /\ down'[d] = down[d] /\ unread'[d] = unread[d]
              /\ cut'[d] = cut[d]
<1> USE DEF TypeOK, WireType, WorkerType, HistoryType, At, history
<1>1. CASE Loop(c) \/ KeepAlive(c) \/ ReadEnd(c) \/ NoBody(c)
  BY <1>1 DEF Loop, KeepAlive, ReadEnd, NoBody
<1>2. CASE ReadLine(c)
  BY <1>2 DEF ReadLine, Send
<1>3. CASE ReadJunk(c)
  BY <1>3 DEF ReadJunk
<1>4. CASE ReadBody(c)
  BY <1>4 DEF ReadBody
<1>5. CASE Handle(c)
  BY <1>5 DEF Handle
<1>6. CASE WriteHead(c)
  BY <1>6 DEF WriteHead, Send
<1>7. CASE WritePiece(c)
  BY <1>7 DEF WritePiece, Send
<1>8. CASE WriteFails(c)
  BY <1>8 DEF WriteFails, CutIfShort
<1>9. CASE EndContent(c)
  BY <1>9 DEF EndContent, Send, CutIfShort
<1>10. CASE Again(c)
  BY <1>10 DEF Again
<1>11. CASE CloseSocket(c)
  BY <1>11 DEF CloseSocket
<1> QED
  BY <1>1, <1>2, <1>3, <1>4, <1>5, <1>6, <1>7, <1>8, <1>9, <1>10, <1>11 DEF Worker

\* A worker takes what was sent first, or drops it all.
LEMMA UpShrinks ==
  ASSUME TypeOK, NEW c \in Requests, Worker(c)
  PROVE  \E s \in {0, 1} : \A k \in 1 .. Len(up'[c]) :
           k \in Nat /\ k + s \in 1 .. Len(up[c]) /\ up'[c][k] = up[c][k + s]
<1>0. up[c] \in Seq(RequestUnit) /\ up \in [Requests -> Seq(RequestUnit)]
  BY DEF TypeOK, WireType
<1>1. CASE UNCHANGED up
  BY <1>0, <1>1
<1>2. CASE up[c] # <<>> /\ up' = [up EXCEPT ![c] = Tail(@)]
  <2>1. up'[c] = Tail(up[c])
    BY <1>0, <1>2
  <2> QED
    BY <1>0, <1>2, <2>1, TailShifts
<1>3. CASE up' = [up EXCEPT ![c] = <<>>]
  BY <1>0, <1>3
<1> QED
  BY <1>1, <1>2, <1>3
  DEF Worker, Loop, KeepAlive, ReadLine, ReadJunk, ReadEnd, ReadBody, NoBody, Handle, WriteHead,
      WritePiece, WriteFails, EndContent, Again, CloseSocket

\* The head of an answer that is on the way was so before, or is written now.
LEMMA DownGrows ==
  ASSUME TypeOK, NEW c \in Requests, Worker(c),
         NEW k \in 1 .. Len(down'[c]), down'[c][k].unit = "head"
  PROVE  \/ k \in 1 .. Len(down[c]) /\ down'[c][k] = down[c][k]
         \/ /\ WriteHead(c)
            /\ down'[c][k].answer.req = cur[c]
            /\ down'[c][k].answer.form = form[c]
<1>0. down[c] \in Seq(AnswerUnit) /\ down \in [Requests -> Seq(AnswerUnit)]
  BY DEF TypeOK, WireType
<1>1. CASE UNCHANGED down
  BY <1>1
<1>2. CASE down' = [down EXCEPT ![c] = <<>>]
  BY <1>0, <1>2
<1>3. ASSUME NEW u \in AnswerUnit, Send(c, <<u>>), down'[c][k] # u
      PROVE  k \in 1 .. Len(down[c]) /\ down'[c][k] = down[c][k]
  <2>1. down' \in [Requests -> Seq(AnswerUnit)]
        /\ (down'[c] = down[c] \/ Grown(down[c], u, down'[c]))
    BY <1>0, <1>3, SendGrows DEF TypeOK, HistoryType, ClientType
  <2> QED
    BY <1>0, <1>3, <2>1 DEF Grown
<1>4. ASSUME Send(c, <<>>)
      PROVE  UNCHANGED down
  BY <1>0, <1>4, SendNothing
<1>5. CASE ReadLine(c)
  BY <1>1, <1>3, <1>4, <1>5, Values DEF ReadLine
<1>6. CASE WriteHead(c)
  <2> DEFINE a == [req |-> cur[c], form |-> form[c], close |-> left[c] = 1 \/ Bye(c)]
             u == [unit |-> "head", answer |-> a]
  <2>1. a \in Answers
    <3>1. (left[c] = 1 \/ Bye(c)) \in BOOLEAN
      BY Zenon
    <3>2. cur[c] \in 0 .. MaxRequests /\ form[c] \in AllForms
      BY DEF TypeOK, WorkerType
    <3> QED
      BY <3>1, <3>2, Values
  <2>2. Send(c, <<u>>)
    BY <1>6 DEF WriteHead
  <2>3. u.answer.req = cur[c] /\ u.answer.form = form[c]
    OBVIOUS
  <2>4. u \in AnswerUnit
    BY <2>1, Values
  <2> HIDE DEF u
  <2> QED
    BY <1>3, <1>6, <2>2, <2>3, <2>4
<1>7. CASE WritePiece(c)
  <2> DEFINE u == [unit |-> "piece", form |-> form[c], no |-> wrote[c] + 1]
  <2>1. form[c] \in AllForms /\ wrote[c] + 1 \in Nat
    BY DEF TypeOK, WorkerType
  <2>2. u \in AnswerUnit /\ u.unit # "head"
    BY <2>1, Values
  <2>3. Send(c, <<u>>)
    BY <1>7 DEF WritePiece
  <2> HIDE DEF u
  <2> QED
    BY <1>3, <2>2, <2>3
<1>8. CASE EndContent(c)
  BY <1>1, <1>3, <1>4, <1>8, Values DEF EndContent
<1> QED
  BY <1>1, <1>2, <1>5, <1>6, <1>7, <1>8
  DEF Worker, Loop, KeepAlive, ReadJunk, ReadEnd, ReadBody, NoBody, Handle, WriteFails, Again,
      CloseSocket

-----------------------------------------------------------------------------
(***************************************************************************)
(* The connections.                                                        *)
(***************************************************************************)
Shape == ClientShape /\ WorkerShape

LEMMA InitShape == Init => Shape
BY ExchangeAssumption
DEF Init, Shape, ClientShape, WorkerShape, WorkerShapeAt, Requests, Answered, NoAnswer, Pieces

\* The worker's own part, action by action; what is on the way comes after.
LEMMA WorkerMoves ==
  ASSUME TypeOK, WorkerShape, NEW c \in Requests, Worker(c)
  PROVE  /\ sEnd'[c] # "open" => spc'[c] = "closed"
         /\ cur'[c] # 0 => spc'[c] \in {"route", "handle", "answer", "content", "done"}
         /\ spc'[c] \in {"route", "handle"} => cur'[c] # 0
         /\ form'[c] # "empty" => spc'[c] \in {"answer", "content", "done"}
         /\ wrote'[c] # 0 => spc'[c] \in {"content", "done"}
         /\ cur'[c] <= n
<1>0. /\ sEnd[c] # "open" => spc[c] = "closed"
      /\ cur[c] # 0 => spc[c] \in {"route", "handle", "answer", "content", "done"}
      /\ spc[c] \in {"route", "handle"} => cur[c] # 0
      /\ form[c] # "empty" => spc[c] \in {"answer", "content", "done"}
      /\ wrote[c] # 0 => spc[c] \in {"content", "done"}
      /\ cur[c] <= n /\ 0 <= n
  BY DEF WorkerShape, WorkerShapeAt, TypeOK, ClientType
<1>t. WorkerType
  BY DEF TypeOK
<1> USE DEF At, WorkerType
<1>1. CASE Loop(c) \/ KeepAlive(c) \/ ReadEnd(c) \/ NoBody(c)
  BY <1>0, <1>1, <1>t DEF Loop, KeepAlive, ReadEnd, NoBody
<1>2. CASE ReadLine(c)
  <2>1. up[c] # <<>> /\ Head(up[c]) \in RequestUnit /\ Head(up[c]).req <= n
        /\ Head(up[c]).req \in Requests /\ Head(up[c]).req # 0
    <3>1. up[c] # <<>> /\ up[c] \in Seq(RequestUnit)
      BY <1>2 DEF ReadLine, TypeOK, WireType
    <3>2. Head(up[c]) = up[c][1] /\ 1 \in 1 .. Len(up[c]) /\ Head(up[c]) \in RequestUnit
      BY <3>1, TailShifts
    <3> QED
      BY <3>1, <3>2 DEF RequestUnit, WorkerShape, WorkerShapeAt, Requests
  <2>2. cur'[c] = Head(up[c]).req /\ UNCHANGED <<sEnd, form, wrote>>
    BY <1>2, <1>t DEF ReadLine
  <2>3. spc[c] = "line" /\ spc'[c] \in {"route", "answer"}
    BY <1>2, <1>t DEF ReadLine
  <2> QED
    BY <1>0, <2>1, <2>2, <2>3
<1>3. CASE ReadJunk(c)
  BY <1>0, <1>3, <1>t DEF ReadJunk
<1>4. CASE ReadBody(c)
  BY <1>0, <1>4, <1>t DEF ReadBody
<1>5. CASE Handle(c)
  BY <1>0, <1>5, <1>t DEF Handle
<1>6. CASE WriteHead(c)
  BY <1>0, <1>6, <1>t DEF WriteHead
<1>7. CASE WritePiece(c)
  BY <1>0, <1>7, <1>t DEF WritePiece
<1>8. CASE WriteFails(c)
  BY <1>0, <1>8, <1>t DEF WriteFails
<1>9. CASE EndContent(c)
  BY <1>0, <1>9, <1>t DEF EndContent
<1>10. CASE Again(c)
  BY <1>0, <1>10, <1>t DEF Again
<1>11. CASE CloseSocket(c)
  BY <1>0, <1>11, <1>t DEF CloseSocket
<1> QED
  BY <1>1, <1>2, <1>3, <1>4, <1>5, <1>6, <1>7, <1>8, <1>9, <1>10, <1>11 DEF Worker

LEMMA ShapeWorker ==
  ASSUME TypeOK, Shape, NEW c \in Requests, Worker(c)
  PROVE  Shape'
<1>1. UNCHANGED client /\ spc[c] # "none" /\ spc'[c] # "none" /\ c <= n
      /\ \A d \in Requests \ {c} :
              /\ spc'[d] = spc[d] /\ cur'[d] = cur[d] /\ form'[d] = form[d]
              /\ wrote'[d] = wrote[d] /\ sEnd'[d] = sEnd[d]
              /\ up'[d] = up[d] /\ down'[d] = down[d] /\ unread'[d] = unread[d]
  BY WorkerFrame DEF Shape, WorkerShape, WorkerShapeAt, Requests, TypeOK, ClientType
<1>2. ClientShape'
  <2>1. UNCHANGED <<keepAlive, cpc, n, kind, conn, got, pieces, result, cOpen>>
    BY <1>1 DEF client
  <2>2. conn # 0 => conn \in Requests
    BY DEF TypeOK, ClientType, Requests
  <2> QED
    BY <1>1, <2>1, <2>2 DEF Shape, ClientShape, Answered
<1>3. ASSUME NEW d \in Requests \ {c}
      PROVE  WorkerShapeAt(d)'
  BY <1>1, <1>3 DEF Shape, WorkerShape, WorkerShapeAt, client
<1>4. WorkerShapeAt(c)'
  <2>1. \A k \in 1 .. Len(up'[c]) : up'[c][k].req <= n
    BY UpShrinks DEF Shape, WorkerShape, WorkerShapeAt
  <2>2. \A k \in 1 .. Len(down'[c]) : down'[c][k].unit = "head" => down'[c][k].answer.req <= n
    BY DownGrows DEF Shape, WorkerShape, WorkerShapeAt
  <2>3. n' = n /\ spc'[c] # "none" /\ c <= n
    BY <1>1 DEF client
  <2>4. WorkerShape
    BY DEF Shape
  <2>5. /\ sEnd'[c] # "open" => spc'[c] = "closed"
        /\ cur'[c] # 0 => spc'[c] \in {"route", "handle", "answer", "content", "done"}
        /\ spc'[c] \in {"route", "handle"} => cur'[c] # 0
        /\ form'[c] # "empty" => spc'[c] \in {"answer", "content", "done"}
        /\ wrote'[c] # 0 => spc'[c] \in {"content", "done"}
        /\ cur'[c] <= n
    BY <2>4, WorkerMoves
  <2>6. c > n' => spc'[c] = "none"
    BY <2>3 DEF Requests, TypeOK, ClientType
  <2>7. cur'[c] <= n'
    BY <2>3, <2>5
  <2> QED
    BY <2>1, <2>2, <2>3, <2>5, <2>6, <2>7, ZenonT(20) DEF WorkerShapeAt
<1> QED
  BY <1>2, <1>3, <1>4 DEF Shape, WorkerShape

\* What the client writes comes last, or is lost.
LEMMA WriteAdds ==
  ASSUME TypeOK, conn # 0, NEW u \in RequestUnit, NEW next, Write(u, next)
  PROVE  /\ conn \in Requests
         /\ cpc' = next
         /\ \/ sEnd[conn] = "open" /\ Grown(up[conn], u, up'[conn]) /\ UNCHANGED <<down, sEnd>>
               /\ up'[conn] = Append(up[conn], u)
            \/ sEnd[conn] # "open" /\ UNCHANGED <<up, down, sEnd>>
            \/ sEnd[conn] # "open" /\ UNCHANGED up /\ down'[conn] = <<>> /\ sEnd'[conn] = "abrupt"
         /\ \A c \in Requests \ {conn} : up'[c] = up[c] /\ down'[c] = down[c] /\ sEnd'[c] = sEnd[c]
         /\ UNCHANGED <<keepAlive, n, kind, conn, got, pieces, foreign, torn, result, cOpen, spc,
                        left, ret, cur, form, wrote, stopped, handled, unread, cut>>
<1>1. conn \in Requests
  BY DEF TypeOK, ClientType, Requests
<1>2. Grown(up[conn], u, Append(up[conn], u))
  BY <1>1, AppendGrows DEF TypeOK, WireType
<1> QED
  BY <1>1, <1>2 DEF Write, TypeOK, WireType, WorkerType, history

\* What the client takes is what came first.
LEMMA TakeShifts ==
  ASSUME TypeOK, conn # 0, down[conn] # <<>>, Take
  PROVE  /\ conn \in Requests
         /\ \A c \in Requests \ {conn} : down'[c] = down[c]
         /\ Len(down[conn]) > 0 /\ Head(down[conn]) = down[conn][1]
         /\ down'[conn] \in Seq(AnswerUnit) /\ Len(down'[conn]) = Len(down[conn]) - 1
         /\ \A k \in 1 .. Len(down[conn]) - 1 : down'[conn][k] = down[conn][k + 1]
<1>1. conn \in Requests
  BY DEF TypeOK, ClientType, Requests
<1>2. down'[conn] = Tail(down[conn]) /\ \A c \in Requests \ {conn} : down'[c] = down[c]
  BY <1>1 DEF Take, TypeOK, WireType
<1> QED
  BY <1>1, <1>2, TailShifts DEF TypeOK, WireType

\* A step of the client leaves nothing on the way that was not there, but what
\* it writes.
LEMMA ClientWires ==
  ASSUME TypeOK, Client, NEW c \in Requests
  PROVE  /\ \E s \in {0, 1} : \A k \in 1 .. Len(down'[c]) :
              k \in Nat /\ k + s \in 1 .. Len(down[c]) /\ down'[c][k] = down[c][k + s]
         /\ \A k \in 1 .. Len(up'[c]) :
              \/ k \in 1 .. Len(up[c]) /\ up'[c][k] = up[c][k]
              \/ /\ c = conn /\ up'[c][k].req = n
                 /\ up'[c][k].unit = "head" => cpc = "head"
                 /\ k = Len(up[c]) + 1
<1>0. down \in [Requests -> Seq(AnswerUnit)] /\ up \in [Requests -> Seq(RequestUnit)]
  BY DEF TypeOK, WireType
<1>1. CASE Ask
  BY <1>0, <1>1 DEF Ask
<1>2. CASE WriteRequest
  <2>1. PICK u \in {[unit |-> "head", req |-> n], [unit |-> "body", req |-> n]}, next \in {"body", "read"} :
          Write(u, next) /\ (u.unit = "head" => cpc = "head")
    BY <1>2 DEF WriteRequest
  <2>2. conn # 0 /\ u \in RequestUnit /\ u.req = n
    BY <1>2, <2>1, Values DEF WriteRequest, TypeOK, ClientType, Requests
  <2>3. /\ down'[c] = down[c] \/ down'[c] = <<>>
        /\ up'[c] = up[c] \/ (c = conn /\ Grown(up[c], u, up'[c]))
    <3> HIDE DEF RequestUnit
    <3>1. Write(u, next) /\ u \in RequestUnit /\ conn # 0
      BY <2>1, <2>2
    <3>2. /\ \/ Grown(up[conn], u, up'[conn]) /\ UNCHANGED down
             \/ UNCHANGED <<up, down>>
             \/ UNCHANGED up /\ down'[conn] = <<>>
          /\ \A d \in Requests \ {conn} : up'[d] = up[d] /\ down'[d] = down[d]
      BY <3>1, WriteAdds
    <3>3. CASE c = conn
      BY <3>2, <3>3
    <3>4. CASE c # conn
      BY <3>2, <3>4
    <3> QED
      BY <3>3, <3>4
  <2>4. up'[c] \in Seq(RequestUnit)
    BY ClientStepType DEF TypeOK, WireType
  <2> QED
    BY <1>0, <2>1, <2>2, <2>3, <2>4 DEF Grown
<1>3. CASE Fail
  BY <1>0, <1>3 DEF Fail
<1>4. CASE Take /\ down[conn] # <<>> /\ conn # 0 /\ UNCHANGED up
  <2>1. CASE c = conn
    <3>1. \A k \in 1 .. Len(down'[c]) : k \in Nat /\ k + 1 \in 1 .. Len(down[c]) /\ down'[c][k] = down[c][k + 1]
      BY <1>0, <1>4, <2>1, TakeShifts
    <3> QED
      BY <1>0, <1>4, <3>1
  <2>2. CASE c # conn
    <3>1. \A k \in 1 .. Len(down'[c]) : k \in Nat /\ k + 0 \in 1 .. Len(down[c]) /\ down'[c][k] = down[c][k + 0]
      BY <1>0, <1>4, <2>2, TakeShifts
    <3> QED
      BY <1>0, <1>4, <3>1
  <2> QED
    BY <2>1, <2>2
<1>5. CASE UNCHANGED <<up, down>>
  BY <1>0, <1>5
<1>6. CASE ReadHead \/ ReadPiece
  BY <1>4, <1>6 DEF ReadHead, ReadPiece, TypeOK, ClientType
<1>7. CASE Finish \/ ReadForeign
  BY <1>4, <1>5, <1>7 DEF Finish, ReadForeign, AllRead, TypeOK, ClientType
<1> QED
  BY <1>1, <1>2, <1>3, <1>6, <1>7 DEF Client

LEMMA ShapeClient ==
  ASSUME TypeOK, Shape, Client
  PROVE  Shape'
<1>n. n \in 0 .. MaxRequests /\ n' \in 0 .. MaxRequests /\ n <= n'
  <2>1. n' = n \/ n' = n + 1
    BY DEF Client, Ask, WriteRequest, Write, Fail, ReadHead, ReadPiece, ReadForeign, Finish
  <2> QED
    BY <2>1, ClientStepType DEF TypeOK, ClientType
<1>1. ASSUME NEW c \in Requests
      PROVE  WorkerShapeAt(c)'
  <2>0. WorkerShapeAt(c) /\ n \in Nat /\ n' \in Nat /\ up'[c] \in Seq(RequestUnit)
        /\ down'[c] \in Seq(AnswerUnit)
    BY <1>n, ClientStepType DEF Shape, WorkerShape, TypeOK, WireType
  <2>1. ASSUME NEW k \in 1 .. Len(up'[c])
        PROVE  up'[c][k].req <= n'
    <3>1. up'[c][k] \in RequestUnit
      BY <2>0
    <3>1a. up'[c][k].req \in Nat
      BY <3>1 DEF RequestUnit, Requests
    <3>2. CASE k \in 1 .. Len(up[c]) /\ up'[c][k] = up[c][k]
      BY <1>n, <2>0, <3>1a, <3>2 DEF WorkerShapeAt
    <3>3. CASE up'[c][k].req = n
      BY <1>n, <3>3
    <3> QED
      BY <3>2, <3>3, ClientWires
  <2>2. ASSUME NEW k \in 1 .. Len(down'[c]), down'[c][k].unit = "head"
        PROVE  down'[c][k].answer.req <= n'
    <3>1. PICK s \in {0, 1} : k + s \in 1 .. Len(down[c]) /\ down'[c][k] = down[c][k + s]
      BY ClientWires
    <3>2. down[c][k + s].answer.req <= n
      BY <2>0, <2>2, <3>1 DEF WorkerShapeAt
    <3>3. down'[c][k].answer \in Answers
      BY <2>0, <2>2 DEF AnswerUnit
    <3> QED
      BY <1>n, <3>1, <3>2, <3>3 DEF Answers
  <2>3. CASE Ask
    <3>1. n' = n + 1 /\ n' \in Requests
          /\ (spc' = spc \/ spc' = [spc EXCEPT ![n'] = "loop"])
          /\ UNCHANGED <<sEnd, cur, form, wrote, up, down, unread>>
      BY <1>n, <2>3 DEF Ask, Requests, history
    <3>2. spc'[c] = spc[c] \/ (c = n' /\ spc'[c] = "loop" /\ spc[c] = "none")
      <4>1. spc \in [Requests -> {"none", "loop", "wait", "line", "route", "handle", "answer",
                                  "content", "done", "close", "closed"}]
        BY DEF TypeOK, WorkerType
      <4>2. c = n' => spc[c] = "none"
        BY <2>0, <3>1 DEF WorkerShapeAt
      <4> QED
        BY <3>1, <4>1, <4>2
    <3> QED
      <4>1. (c > n' => spc'[c] = "none") /\ cur'[c] <= n'
        BY <1>n, <2>0, <3>1, <3>2 DEF WorkerShapeAt, Requests, TypeOK, WorkerType
      <4> QED
        BY <2>0, <2>1, <2>2, <3>1, <3>2, <4>1 DEF WorkerShapeAt
  <2>4. CASE WriteRequest
    <3>1. PICK u \in {[unit |-> "head", req |-> n], [unit |-> "body", req |-> n]},
               next \in {"body", "read"} : Write(u, next)
      BY <2>4 DEF WriteRequest
    <3>2. conn # 0 /\ u \in RequestUnit
      BY <2>4, <3>1, Values DEF WriteRequest, TypeOK, ClientType, Requests
    <3> HIDE DEF RequestUnit
    <3>3. UNCHANGED <<n, spc, cur, form, wrote, unread, cOpen>>
          /\ \/ UNCHANGED <<up, down, sEnd>>
             \/ c # conn /\ up'[c] = up[c] /\ down'[c] = down[c] /\ sEnd'[c] = sEnd[c]
             \/ c = conn /\ sEnd[c] = "open" /\ UNCHANGED <<down, sEnd>>
             \/ c = conn /\ sEnd[c] # "open" /\ UNCHANGED up /\ down'[c] = <<>>
      BY <3>1, <3>2, WriteAdds
    <3>4. c = conn => spc[c] # "none"
      BY <3>2 DEF Shape, ClientShape
    <3> QED
      BY <2>0, <2>1, <2>2, <3>3, <3>4 DEF WorkerShapeAt
  <2>5. CASE Fail \/ ReadHead \/ ReadPiece \/ ReadForeign \/ Finish
    <3>1. UNCHANGED <<n, up, sEnd, spc, cur, form, wrote, unread>>
      BY <2>5 DEF Fail, ReadHead, ReadPiece, ReadForeign, Finish, worker, history
    <3>2. spc[c] = "none" => down'[c] = down[c]
      <4>1. CASE UNCHANGED down
        BY <4>1
      <4>2. CASE down[conn] # <<>> /\ Take /\ conn # 0
        BY <4>2, TakeShifts DEF Shape, ClientShape
      <4> QED
        BY <2>5, <4>1, <4>2 DEF Fail, ReadHead, ReadPiece, ReadForeign, Finish, AllRead, TypeOK, ClientType
    <3> QED
      BY <2>0, <2>1, <2>2, <3>1, <3>2 DEF WorkerShapeAt
  <2> QED
    BY <2>3, <2>4, <2>5 DEF Client
<1>2. ClientShape'
  <2> USE DEF Shape, ClientShape, Answered
  <2>0. /\ conn # 0 => conn \in Requests
        /\ n \in Nat
        /\ \A i \in Requests : result[i] \in Results
        /\ result \in [Requests -> Results]
        /\ spc \in [Requests -> {"none", "loop", "wait", "line", "route", "handle", "answer",
                                 "content", "done", "close", "closed"}]
        /\ cOpen \in [Requests -> BOOLEAN]
    BY DEF TypeOK, ClientType, WorkerType, Requests
  <2>1. CASE Ask
    <3>1. n' = n + 1 /\ n' \in Requests /\ cpc = "idle"
          /\ UNCHANGED <<got, pieces>>
      BY <1>n, <2>1 DEF Ask, Requests
    <3>2. conn' # 0 => spc'[conn'] # "none" /\ cOpen'[conn']
      BY <2>0, <2>1, <3>1 DEF Ask
    <3>3. \A c \in Requests : cOpen'[c] => c = conn'
      BY <2>0, <2>1, <3>1 DEF Ask
    <3>4. ASSUME NEW i \in Requests, result'[i].is = "answer"
          PROVE  i <= n' /\ (i = n' => cpc' = "idle") /\ result'[i].to <= n'
      <4>1. result'[i] = result[i] \/ result'[i] = [is |-> "error"]
        BY <2>0, <2>1, <3>1 DEF Ask
      <4>2. result'[i] = result[i]
        BY <3>4, <4>1
      <4>3. i <= n /\ result[i].to <= n /\ result[i].to \in Nat
        BY <2>0, <3>4, <4>2 DEF Results
      <4> QED
        BY <2>0, <3>1, <4>2, <4>3 DEF Requests
    <3>5. got.req <= n'
      BY <2>0, <3>1 DEF TypeOK, ClientType, Answers
    <3> QED
      BY <3>1, <3>2, <3>3, <3>4, <3>5
  <2>2. CASE WriteRequest
    BY <2>0, <2>2 DEF WriteRequest, Write
  <2>p. \A f : Pieces(f) \in Nat /\ Pieces("empty") = 0
    BY DEF Pieces
  <2> HIDE DEF Pieces
  <2>c. ASSUME conn # 0, \/ Close
                         \/ UNCHANGED <<conn, cOpen>>, UNCHANGED spc
        PROVE  /\ conn' # 0 => spc'[conn'] # "none" /\ cOpen'[conn']
               /\ \A c \in Requests : cOpen'[c] => c = conn'
    BY <2>0, <2>c DEF Close
  <2>3. CASE Fail
    <3>1. /\ cpc # "idle" /\ conn # 0 /\ Close /\ UNCHANGED <<n, spc>> /\ cpc' = "idle"
          /\ got' = [req |-> 0, form |-> "empty", close |-> FALSE] /\ pieces' = 0
          /\ result' = [result EXCEPT ![n] = [is |-> "error"]]
      BY <2>3 DEF Fail, Failing, NoAnswer, worker, TypeOK, ClientType
    <3>2. got'.req = 0 /\ got'.form = "empty"
      BY <3>1
    <3>3. ASSUME NEW i \in Requests, result'[i].is = "answer"
          PROVE  result'[i] = result[i]
      BY <2>0, <3>1, <3>3
    <3> QED
      BY <2>0, <2>p, <2>c, <3>1, <3>2, <3>3
  <2>4. CASE ReadHead
    <3>1. /\ cpc = "read" /\ conn # 0 /\ down[conn] # <<>> /\ Take
          /\ UNCHANGED <<n, spc, conn, cOpen, pieces, result>>
          /\ \/ UNCHANGED <<cpc, got>>
             \/ cpc' = "content" /\ got' = Head(down[conn]).answer /\ Head(down[conn]).unit = "head"
      BY <2>4 DEF ReadHead, worker, TypeOK, ClientType
    <3>2. got'.req <= n
      <4>1. Head(down[conn]) = down[conn][1] /\ 1 \in 1 .. Len(down[conn]) /\ conn \in Requests
        BY <3>1, TakeShifts DEF TypeOK, WireType
      <4> QED
        BY <3>1, <4>1 DEF WorkerShape, WorkerShapeAt
    <3>3. pieces = 0 /\ pieces <= Pieces(got'.form)
      BY <2>p, <3>1
    <3> QED
      BY <2>0, <3>1, <3>2, <3>3
  <2>5. CASE ReadPiece
    <3>1. /\ cpc = "content" /\ pieces < Pieces(got.form) /\ pieces' = pieces + 1
          /\ UNCHANGED <<cpc, n, spc, conn, cOpen, got, result>>
      BY <2>5 DEF ReadPiece, worker
    <3>2. pieces' <= Pieces(got'.form)
      BY <2>p, <3>1 DEF TypeOK, ClientType
    <3> QED
      BY <2>0, <3>1, <3>2
  <2>7. CASE ReadForeign
    <3>1. UNCHANGED <<cpc, n, spc, conn, cOpen, got, pieces, result>>
      BY <2>7 DEF ReadForeign, worker
    <3> QED
      BY <2>0, <3>1
  <2>6. CASE Finish
    <3> DEFINE r == [is |-> "answer", to |-> got.req, via |-> conn, form |-> got.form,
                     pieces |-> pieces, foreign |-> foreign]
    <3>1. /\ cpc = "content" /\ conn # 0 /\ (Close \/ UNCHANGED <<conn, cOpen>>)
          /\ UNCHANGED <<n, spc>> /\ cpc' = "idle"
          /\ got' = [req |-> 0, form |-> "empty", close |-> FALSE] /\ pieces' = 0
          /\ result' = [result EXCEPT ![n] = r]
      BY <2>6 DEF Finish, NoAnswer, worker, TypeOK, ClientType
    <3>2. got'.req = 0 /\ got'.form = "empty"
      BY <3>1
    <3>3. r.to = got.req
      OBVIOUS
    <3> HIDE DEF r
    <3>4. ASSUME NEW i \in Requests, result'[i].is = "answer"
          PROVE  i <= n /\ result'[i].to <= n
      BY <2>0, <3>1, <3>3, <3>4
    <3>5. /\ conn' # 0 => spc'[conn'] # "none" /\ cOpen'[conn']
          /\ \A c \in Requests : cOpen'[c] => c = conn'
      BY <2>c, <3>1
    <3> QED
      BY <2>0, <2>p, <3>1, <3>2, <3>4, <3>5
  <2> QED
    BY <2>1, <2>2, <2>3, <2>4, <2>5, <2>6, <2>7 DEF Client
<1> QED
  BY <1>1, <1>2 DEF Shape, WorkerShape

LEMMA StepShape == TypeOK /\ Shape /\ [Next]_vars => Shape'
<1> SUFFICES ASSUME TypeOK, Shape, [Next]_vars PROVE Shape'
  OBVIOUS
<1>1. CASE Next
  BY <1>1, ShapeClient, ShapeWorker DEF Next
<1>2. CASE UNCHANGED vars
  BY <1>2 DEF Shape, ClientShape, WorkerShape, WorkerShapeAt, Answered, vars
<1> QED
  BY <1>1, <1>2

-----------------------------------------------------------------------------
(***************************************************************************)
(* Where each request is, and how often the handler runs for it.           *)
(***************************************************************************)
LEMMA OneCarrier ==
  ASSUME NEW c \in Requests, NEW d \in Requests, NEW i \in Requests, Carries(c, i), Carries(d, i)
  PROVE  c = d
BY ExchangeAssumption DEF Carries, Requests

\* A connection is never unmade, and a new one is made for a new request.
LEMMA CarriesOn ==
  ASSUME TypeOK, Next, NEW c \in Requests, NEW i \in Requests, Carries(c, i)
  PROVE  Carries(c, i)'
<1>0. n \in 0 .. MaxRequests /\ n' \in 0 .. MaxRequests
      /\ spc \in [Requests -> {"none", "loop", "wait", "line", "route", "handle", "answer",
                               "content", "done", "close", "closed"}]
  BY StepType DEF TypeOK, ClientType, WorkerType
<1>1. CASE Ask
  <2>1. n' = n + 1 /\ (spc' = spc \/ spc' = [spc EXCEPT ![n'] = "loop"])
    BY <1>1 DEF Ask
  <2>2. \A d \in Requests : d <= n => spc'[d] = spc[d]
    <3>1. CASE spc' = spc
      BY <3>1
    <3>2. CASE spc' = [spc EXCEPT ![n'] = "loop"]
      BY <1>0, <2>1, <3>2 DEF Requests
    <3> QED
      BY <2>1, <3>1, <3>2
  <2>3. c <= i /\ i <= n /\ spc[c] # "none" /\ \A d \in Requests : c < d /\ d <= i => spc[d] = "none"
    BY DEF Carries
  <2>4. c <= n /\ i <= n' /\ \A d \in Requests : d <= i => d <= n
    BY <1>0, <2>1, <2>3 DEF Requests
  <2> QED
    BY <2>2, <2>3, <2>4 DEF Carries
<1>2. CASE WriteRequest \/ Fail \/ ReadHead \/ ReadPiece \/ ReadForeign \/ Finish
  BY <1>2 DEF WriteRequest, Write, Fail, ReadHead, ReadPiece, ReadForeign, Finish, worker, Carries
<1>3. ASSUME NEW d \in Requests, Worker(d)
      PROVE  Carries(c, i)'
  <2>1. n' = n /\ spc[d] # "none" /\ spc'[d] # "none" /\ \A e \in Requests \ {d} : spc'[e] = spc[e]
    BY <1>3, WorkerFrame DEF client
  <2> QED
    BY <2>1 DEF Carries
<1> QED
  BY <1>1, <1>2, <1>3 DEF Next, Client

LEMMA InitCarried == Init => Carried
BY ExchangeAssumption DEF Init, Carried, CarriedAt, IsHead, Carries, Requests

LEMMA CarriedClient ==
  ASSUME TypeOK, Shape, Carried, Client
  PROVE  Carried'
<1>0. /\ n \in Nat /\ n' \in Nat /\ (conn # 0 => conn \in Requests) /\ (conn' # 0 => conn' \in Requests)
      /\ handled \in [Requests -> Nat] /\ cur \in [Requests -> 0 .. MaxRequests]
      /\ up \in [Requests -> Seq(RequestUnit)] /\ up' \in [Requests -> Seq(RequestUnit)]
  <2>1. TypeOK /\ TypeOK'
    BY ClientStepType
  <2>2. /\ n \in Nat /\ n' \in Nat /\ (conn # 0 => conn \in Requests)
        /\ (conn' # 0 => conn' \in Requests)
    BY <2>1 DEF TypeOK, ClientType, Requests
  <2> QED
    BY <2>1, <2>2 DEF TypeOK, WireType, WorkerType, HistoryType
<1>1. UNCHANGED <<cur, handled>>
  BY DEF Client, Ask, WriteRequest, Write, Fail, ReadHead, ReadPiece, ReadForeign, Finish, worker, history
<1>2. ASSUME NEW c \in Requests, NEW i \in Requests, Carries(c, i)
      PROVE  Carries(c, i)'
  BY <1>2, CarriesOn DEF Next
<1>s. \A c \in Requests : WorkerShapeAt(c) /\ CarriedAt(c)
  BY DEF Shape, WorkerShape, Carried
<1>r. \A c \in Requests, k \in Nat : IsHead(c, k) => up[c][k].req \in Requests
  <2> SUFFICES ASSUME NEW c \in Requests, NEW k \in 1 .. Len(up[c]) PROVE up[c][k].req \in Requests
    BY DEF IsHead
  <2>1. up[c] \in Seq(RequestUnit)
    BY <1>0
  <2>2. up[c][k] \in RequestUnit
    BY <2>1
  <2> QED
    BY <2>2 DEF RequestUnit
<1>3. CASE Ask
  <2>1. n' = n + 1 /\ n' \in Requests /\ cpc = "idle" /\ UNCHANGED up
        /\ (UNCHANGED spc \/ (conn' = n' /\ spc' = [spc EXCEPT ![n'] = "loop"]))
        /\ (conn' = conn \/ conn' = n' \/ conn' = 0)
        /\ (conn' = n' => spc'[n'] = "loop")
        /\ (cpc' = "head" => conn' # 0)
    <3>1. n' = n + 1 /\ n' \in Requests
      BY <1>3, StepType DEF Ask, TypeOK, ClientType, Requests, Next
    <3>2. ClientType' /\ WorkerType /\ conn <= n
      BY ClientStepType DEF TypeOK, ClientType
    <3> QED
      BY <1>0, <1>3, <3>1, <3>2 DEF Ask, ClientType, WorkerType
  <2>2. ASSUME NEW c \in Requests
        PROVE  CarriedAt(c)'
    <3>1. CarriedAt(c) /\ UNCHANGED <<cur[c], up[c]>> /\ cur[c] \in 0 .. MaxRequests
      BY <1>0, <1>1, <1>s, <2>1
    <3>2. cur[c] # 0 => Carries(c, cur[c])'
      <4> SUFFICES ASSUME cur[c] # 0 PROVE Carries(c, cur[c])'
        OBVIOUS
      <4> DEFINE i == cur[c]
      <4>1. i \in Requests /\ Carries(c, i)
        BY <3>1 DEF CarriedAt, Requests
      <4>2. i' = i
        BY <3>1
      <4> QED
        BY <1>2, <4>1, <4>2 DEF Carries
    <3>3. spc'[c] = spc[c] \/ spc'[c] = "loop"
      BY <1>0, <2>1 DEF TypeOK, WorkerType
    <3>4. ASSUME NEW k \in Nat, IsHead(c, k)
          PROVE  Carries(c, up[c][k].req)'
      <4> DEFINE i == up[c][k].req
      <4>1. i \in Requests /\ Carries(c, i)
        BY <1>r, <3>1, <3>4 DEF CarriedAt
      <4>2. i' = i
        BY <3>1
      <4> QED
        BY <1>2, <4>1, <4>2 DEF Carries
    <3> QED
      BY <1>1, <3>1, <3>2, <3>3, <3>4 DEF CarriedAt, IsHead
  <2>3. ASSUME conn' # 0 PROVE Carries(conn, n)'
    <3>1. CASE conn' = n'
      BY <1>0, <2>1, <3>1 DEF Carries, Requests
    <3>2. CASE conn' = conn
      <4>1. conn \in Requests /\ n \in Requests /\ Carries(conn, n)
        BY <1>0, <2>3, <3>2 DEF Carried, Requests, TypeOK, ClientType
      <4>2. spc[n'] = "none" /\ conn # n'
        BY <1>0, <1>s, <2>1 DEF WorkerShapeAt, TypeOK, ClientType
      <4>3. UNCHANGED spc /\ conn' = conn
        BY <2>1, <3>2, <4>2
      <4>4. \A d \in Requests : d <= n' => d <= n \/ d = n'
        BY <1>0, <2>1 DEF Requests
      <4>5. conn <= n /\ spc[conn] # "none" /\ \A d \in Requests : conn < d /\ d <= n => spc[d] = "none"
        BY <4>1 DEF Carries
      <4>6. conn <= n' /\ n' <= n'
        BY <1>0, <2>1, <4>1, <4>5 DEF Requests
      <4> QED
        BY <4>2, <4>3, <4>4, <4>5, <4>6 DEF Carries
    <3> QED
      BY <2>1, <2>3, <3>1, <3>2
  <2>4. ASSUME conn' # 0
        PROVE  /\ \A k \in Nat : IsHead(conn, k)' => up'[conn'][k].req < n'
               /\ cur'[conn'] < n'
    <3> DEFINE c == conn'
    <3>1. c \in Requests /\ cur'[c] = cur[c] /\ up'[c] = up[c] /\ cur[c] \in Nat
      <4>1. c \in Requests
        BY <1>0, <2>4
      <4> QED
        BY <1>0, <1>1, <2>1, <4>1
    <3> HIDE DEF c
    <3>2. cur[c] <= n /\ \A k \in 1 .. Len(up[c]) : up[c][k].req <= n
      BY <1>s, <3>1 DEF WorkerShapeAt
    <3>3. \A k \in Nat : k \in 1 .. Len(up[c]) /\ up[c][k].unit = "head" => up[c][k].req < n'
      BY <1>0, <1>r, <2>1, <3>1, <3>2 DEF IsHead, Requests
    <3> QED
      BY <1>0, <2>1, <3>1, <3>2, <3>3 DEF c, IsHead
  <2>5. \A i \in Requests : i > n' \/ (i = n' /\ cpc' = "head") => handled'[i] = 0
    BY <1>0, <1>1, <2>1 DEF Carried, Requests
  <2> QED
    BY <1>0, <1>1, <2>1, <2>2, <2>3, <2>4, <2>5 DEF Carried
<1>4. CASE WriteRequest
  <2>1. PICK u \in {[unit |-> "head", req |-> n], [unit |-> "body", req |-> n]},
             next \in {"body", "read"} : Write(u, next) /\ (u.unit = "head" => cpc = "head")
    BY <1>4 DEF WriteRequest
  <2>2. conn # 0 /\ u \in RequestUnit /\ u.req = n /\ n \in Requests
    BY <1>4, <2>1, Values DEF WriteRequest, TypeOK, ClientType, Requests
  <2> HIDE DEF RequestUnit
  <2>3. /\ UNCHANGED <<n, spc, conn, cur, handled>> /\ cpc' = next /\ conn \in Requests
        /\ UNCHANGED up \/ Grown(up[conn], u, up'[conn])
        /\ \A c \in Requests \ {conn} : up'[c] = up[c]
    BY <2>1, <2>2, WriteAdds
  <2>4. ASSUME NEW c \in Requests \ {conn} PROVE CarriedAt(c)'
    BY <1>s, <2>3, <2>4 DEF CarriedAt, Carries, IsHead
  <2>5. CarriedAt(conn)'
    <3>1. CASE UNCHANGED up
      BY <1>s, <2>3, <3>1 DEF CarriedAt, Carries, IsHead
    <3>2. CASE Grown(up[conn], u, up'[conn])
      <4>1. ASSUME NEW k \in Nat, k \in 1 .. Len(up'[conn])
            PROVE  \/ k \in 1 .. Len(up[conn]) /\ up'[conn][k] = up[conn][k]
                   \/ k = Len(up[conn]) + 1 /\ up'[conn][k] = u
        BY <1>0, <2>3, <3>2, <4>1 DEF Grown
      <4>2. /\ Carries(conn, n)' /\ \A m \in Nat : Carries(conn, m) => Carries(conn, m)'
            /\ handled' = handled /\ cur' = cur /\ spc' = spc
        BY <2>2, <2>3 DEF Carries, Carried
      <4>3. u.unit = "head" => /\ handled[n] = 0 /\ cur[conn] < n
                               /\ \A k \in Nat : IsHead(conn, k) => up[conn][k].req < n
        BY <2>1, <2>2 DEF Carried
      <4>4. ASSUME NEW k \in Nat, IsHead(conn, k)'
            PROVE  /\ Carries(conn, up[conn][k].req)'
                   /\ handled'[up'[conn][k].req] = 0
                   /\ cur'[conn] < up'[conn][k].req
                   /\ \A j \in Nat : IsHead(conn, j)' /\ j < k => up'[conn][j].req < up'[conn][k].req
        <5>1. k \in 1 .. Len(up'[conn]) /\ up'[conn][k].unit = "head" /\ Len(up[conn]) \in Nat
          BY <1>0, <2>3, <4>4 DEF IsHead
        <5>2. \A j \in Nat : IsHead(conn, j)' /\ j < k => IsHead(conn, j) /\ up'[conn][j] = up[conn][j]
          <6>1. k <= Len(up[conn]) + 1
            BY <3>2, <5>1 DEF Grown
          <6>2. \A j \in Nat : j \in 1 .. Len(up'[conn]) /\ j < k =>
                  j \in 1 .. Len(up[conn]) /\ up'[conn][j] = up[conn][j]
            BY <4>1, <5>1, <6>1
          <6> QED
            BY <2>3, <6>2 DEF IsHead
        <5>3. CASE IsHead(conn, k) /\ up'[conn][k] = up[conn][k]
          BY <1>s, <2>3, <4>2, <5>2, <5>3 DEF CarriedAt, Carries
        <5>4. CASE up'[conn][k] = u
          BY <2>2, <2>3, <4>2, <4>3, <5>1, <5>2, <5>4 DEF Carries
        <5> QED
          BY <4>1, <5>1, <5>3, <5>4 DEF IsHead
      <4> QED
        BY <1>s, <2>3, <4>2, <4>4 DEF CarriedAt, Carries
    <3> QED
      BY <2>3, <3>1, <3>2
  <2> QED
    BY <1>0, <2>1, <2>3, <2>4, <2>5 DEF Carried, Carries
<1>5. CASE Fail \/ ReadHead \/ ReadPiece \/ ReadForeign \/ Finish
  <2>1. UNCHANGED <<n, spc, up>> /\ (conn' = conn \/ conn' = 0) /\ cpc' # "head"
    BY <1>5 DEF Fail, ReadHead, ReadPiece, ReadForeign, Finish, Close, worker
  <2>2. ASSUME NEW c \in Requests PROVE CarriedAt(c)'
    BY <1>1, <1>s, <2>1 DEF CarriedAt, Carries, IsHead
  <2> QED
    BY <1>0, <1>1, <2>1, <2>2 DEF Carried, Carries
<1> QED
  BY <1>3, <1>4, <1>5 DEF Client

LEMMA CarriedWorker ==
  ASSUME TypeOK, Shape, Carried, NEW c \in Requests, Worker(c)
  PROVE  Carried'
<1>0. /\ n \in Nat /\ (conn # 0 => conn \in Requests)
      /\ handled \in [Requests -> Nat] /\ cur \in [Requests -> 0 .. MaxRequests]
      /\ spc \in [Requests -> {"none", "loop", "wait", "line", "route", "handle", "answer",
                               "content", "done", "close", "closed"}]
      /\ up \in [Requests -> Seq(RequestUnit)] /\ up' \in [Requests -> Seq(RequestUnit)]
  <2>1. TypeOK /\ TypeOK'
    BY WorkerStepType
  <2>2. n \in Nat /\ (conn # 0 => conn \in Requests)
    BY <2>1 DEF TypeOK, ClientType, Requests
  <2> QED
    BY <2>1, <2>2 DEF TypeOK, WireType, WorkerType, HistoryType
<1>1. /\ UNCHANGED <<conn, n, cpc>>
      /\ \A d \in Requests \ {c} : spc'[d] = spc[d] /\ cur'[d] = cur[d] /\ up'[d] = up[d]
  BY WorkerFrame DEF client
<1>2. ASSUME NEW d \in Requests, NEW i \in Requests, Carries(d, i)
      PROVE  Carries(d, i)'
  BY <1>2, CarriesOn DEF Next
<1>s. \A d \in Requests : WorkerShapeAt(d) /\ CarriedAt(d)
  BY DEF Shape, WorkerShape, Carried
<1>r. \A d \in Requests, k \in Nat : IsHead(d, k) => up[d][k].req \in Requests
  <2> SUFFICES ASSUME NEW d \in Requests, NEW k \in 1 .. Len(up[d]) PROVE up[d][k].req \in Requests
    BY DEF IsHead
  <2>1. up[d] \in Seq(RequestUnit)
    BY <1>0
  <2>2. up[d][k] \in RequestUnit
    BY <2>1
  <2> QED
    BY <2>2 DEF RequestUnit
<1>h. \/ UNCHANGED handled
      \/ /\ Handle(c) /\ cur[c] \in Requests /\ handled[cur[c]] = 0 /\ Carries(c, cur[c])
         /\ handled' = [handled EXCEPT ![cur[c]] = 1]
  <2>1. CASE Handle(c)
    <3>1. spc[c] = "handle" /\ handled' = [handled EXCEPT ![cur[c]] = handled[cur[c]] + 1]
      BY <2>1 DEF Handle, At
    <3>2. cur[c] \in Requests /\ handled[cur[c]] = 0 /\ Carries(c, cur[c])
      BY <1>0, <1>s, <3>1 DEF CarriedAt, WorkerShapeAt, Requests
    <3> QED
      BY <2>1, <3>1, <3>2
  <2>2. CASE ~Handle(c)
    BY <2>2
    DEF Worker, Loop, KeepAlive, ReadLine, ReadJunk, ReadEnd, ReadBody, NoBody, WriteHead,
        WritePiece, WriteFails, EndContent, Again, CloseSocket, history
  <2> QED
    BY <2>1, <2>2
\* The handler has not run for what is on the way or on another connection.
<1>w. ASSUME NEW d \in Requests, NEW i \in Requests, handled[i] = 0, Carries(d, i),
             d # c \/ cur[c] < i
      PROVE  handled'[i] = 0
  <2>1. CASE UNCHANGED handled
    BY <1>w, <2>1
  <2>2. CASE Carries(c, cur[c]) /\ cur[c] \in Requests /\ handled' = [handled EXCEPT ![cur[c]] = 1]
    <3>1. cur[c] # i
      BY <1>w, <2>2, OneCarrier DEF Requests
    <3> QED
      BY <1>0, <1>w, <2>2, <3>1
  <2> QED
    BY <1>h, <2>1, <2>2
<1>3. ASSUME NEW d \in Requests \ {c} PROVE CarriedAt(d)'
  <2>1. CarriedAt(d) /\ WorkerShapeAt(d) /\ UNCHANGED <<spc[d], cur[d], up[d]>>
        /\ cur[d] \in 0 .. MaxRequests
    BY <1>0, <1>1, <1>s
  <2>2. cur[d] # 0 => Carries(d, cur[d])'
    <3> DEFINE i == cur[d]
    <3>1. i' = i
      BY <2>1
    <3>2. i # 0 => i \in Requests /\ Carries(d, i)
      BY <2>1 DEF CarriedAt, Requests
    <3> QED
      BY <1>2, <3>1, <3>2 DEF Carries
  <2>3. ASSUME NEW k \in Nat, IsHead(d, k)
        PROVE  Carries(d, up[d][k].req)' /\ handled'[up[d][k].req] = 0
    <3> DEFINE i == up[d][k].req
    <3>1. i' = i
      BY <2>1
    <3>2. i \in Requests /\ Carries(d, i) /\ handled[i] = 0
      BY <1>r, <2>1, <2>3 DEF CarriedAt
    <3> QED
      BY <1>2, <1>w, <3>1, <3>2 DEF Carries
  <2>4. spc[d] \in {"route", "handle"} => handled'[cur[d]] = 0
    BY <1>w, <2>1 DEF CarriedAt, WorkerShapeAt, Requests
  <2> QED
    BY <2>1, <2>2, <2>3, <2>4 DEF CarriedAt, IsHead
\* The worker takes requests in the order in which they were sent.
<1>c. \/ cur'[c] \in {0, cur[c]}
      \/ /\ ReadLine(c) /\ IsHead(c, 1) /\ cur'[c] = up[c][1].req
         /\ \A k \in 1 .. Len(up'[c]) : k \in Nat /\ k + 1 \in 1 .. Len(up[c]) /\ up'[c][k] = up[c][k + 1]
  <2>1. CASE ReadLine(c)
    <3>1. up[c] # <<>> /\ up[c] \in Seq(RequestUnit) /\ Head(up[c]).unit = "head"
          /\ cur'[c] = Head(up[c]).req /\ up'[c] = Tail(up[c])
      BY <1>0, <2>1 DEF ReadLine
    <3>2. Head(up[c]) = up[c][1] /\ Len(up[c]) \in Nat /\ 1 \in 1 .. Len(up[c])
      BY <3>1, TailShifts
    <3> QED
      BY <2>1, <3>1, <3>2, TailShifts DEF IsHead
  <2>2. CASE ~ReadLine(c)
    BY <1>0, <2>2
    DEF Worker, Loop, KeepAlive, Handle, ReadJunk, ReadEnd, ReadBody, NoBody, WriteHead,
        WritePiece, WriteFails, EndContent, Again, CloseSocket
  <2> QED
    BY <2>1, <2>2
<1>q. ASSUME NEW k \in Nat, IsHead(c, k)'
      PROVE  \E m \in Nat :
               /\ IsHead(c, m) /\ up'[c][k] = up[c][m] /\ cur'[c] < up[c][m].req
               /\ \A j \in Nat : IsHead(c, j)' /\ j < k => up'[c][j].req < up[c][m].req
  <2> DEFINE P(s) == \A j \in 1 .. Len(up'[c]) :
                       j \in Nat /\ j + s \in 1 .. Len(up[c]) /\ up'[c][j] = up[c][j + s]
  <2>0. CarriedAt(c) /\ cur[c] \in Nat
    BY <1>0, <1>s
  <2>1. ASSUME NEW s \in {0, 1}, P(s), cur'[c] \in {0, cur[c]} \/ (s = 1 /\ IsHead(c, 1) /\ cur'[c] = up[c][1].req)
        PROVE  /\ IsHead(c, k + s) /\ up'[c][k] = up[c][k + s] /\ cur'[c] < up[c][k + s].req
               /\ \A j \in Nat : IsHead(c, j)' /\ j < k => up'[c][j].req < up[c][k + s].req
    <3>1. IsHead(c, k + s) /\ up'[c][k] = up[c][k + s] /\ k + s \in Nat /\ k > 0
      BY <1>q, <2>1 DEF IsHead
    <3>2. up[c][k + s].req \in Nat /\ up[c][k + s].req > 0
      BY <1>r, <3>1 DEF Requests
    <3>3. cur'[c] < up[c][k + s].req
      BY <2>0, <2>1, <3>1, <3>2 DEF CarriedAt
    <3>4. ASSUME NEW j \in Nat, IsHead(c, j)', j < k
          PROVE  up'[c][j].req < up[c][k + s].req
      <4>1. IsHead(c, j + s) /\ up'[c][j] = up[c][j + s] /\ j + s \in Nat /\ j + s < k + s
        BY <2>1, <3>4 DEF IsHead
      <4> QED
        BY <2>0, <3>1, <4>1 DEF CarriedAt
    <3> QED
      BY <3>1, <3>3, <3>4
  <2>2. PICK s \in {0, 1} : P(s)
    BY UpShrinks
  <2>3. CASE cur'[c] \in {0, cur[c]}
    <3>1. /\ IsHead(c, k + s) /\ up'[c][k] = up[c][k + s] /\ cur'[c] < up[c][k + s].req
          /\ \A j \in Nat : IsHead(c, j)' /\ j < k => up'[c][j].req < up[c][k + s].req
      BY <2>1, <2>2, <2>3
    <3> PICK m \in Nat : m = k + s
      OBVIOUS
    <3> HIDE DEF P
    <3> QED
      BY <3>1
  <2>4. CASE P(1) /\ IsHead(c, 1) /\ cur'[c] = up[c][1].req
    BY <2>1, <2>4
  <2> QED
    BY <1>c, <2>3, <2>4
<1>4. CarriedAt(c)'
  <2>0. CarriedAt(c) /\ cur'[c] \in 0 .. MaxRequests
    BY <1>s, WorkerStepType DEF TypeOK, WorkerType
  <2>1. cur'[c] # 0 => Carries(c, cur[c])'
    <3> DEFINE i == cur'[c]
    <3>1. i # 0 => i \in Requests /\ Carries(c, i)
      BY <1>c, <1>r, <2>0 DEF CarriedAt, Requests
    <3> HIDE DEF i
    <3>2. i # 0 => c' <= i /\ i <= n' /\ spc'[c] # "none"
                   /\ \A d \in Requests : c < d /\ d <= i => spc'[d] = "none"
      BY <1>2, <3>1 DEF Carries
    <3> QED
      BY <3>2 DEF i, Carries
  <2>2. spc'[c] \in {"route", "handle"} => handled'[cur'[c]] = 0
    <3>1. CASE ReadLine(c)
      <4>1. cur'[c] = Head(up[c]).req /\ up[c] # <<>> /\ Head(up[c]).unit = "head" /\ UNCHANGED handled
        BY <1>0, <3>1 DEF ReadLine, history
      <4>2. Head(up[c]) = up[c][1] /\ 1 \in 1 .. Len(up[c])
        BY <1>0, <4>1, TailShifts
      <4> QED
        BY <2>0, <4>1, <4>2 DEF CarriedAt, IsHead
    <3>2. CASE NoBody(c) \/ ReadBody(c)
      BY <1>0, <2>0, <3>2 DEF NoBody, ReadBody, At, CarriedAt, history
    <3>3. CASE Loop(c) \/ KeepAlive(c) \/ ReadEnd(c) \/ ReadJunk(c) \/ Handle(c) \/ WriteHead(c)
               \/ WritePiece(c) \/ WriteFails(c) \/ EndContent(c) \/ Again(c) \/ CloseSocket(c)
      BY <1>0, <3>3
      DEF Loop, KeepAlive, ReadEnd, ReadJunk, Handle, WriteHead, WritePiece, WriteFails, EndContent,
          Again, CloseSocket, At
    <3> QED
      BY <3>1, <3>2, <3>3 DEF Worker
  <2>3. ASSUME NEW k \in Nat, IsHead(c, k)'
        PROVE  /\ Carries(c, up[c][k].req)' /\ handled'[up'[c][k].req] = 0
               /\ cur'[c] < up'[c][k].req
               /\ \A j \in Nat : IsHead(c, j)' /\ j < k => up'[c][j].req < up'[c][k].req
    <3>1. PICK m \in Nat :
            /\ IsHead(c, m) /\ up'[c][k] = up[c][m] /\ cur'[c] < up[c][m].req
            /\ \A j \in Nat : IsHead(c, j)' /\ j < k => up'[c][j].req < up[c][m].req
      BY <1>q, <2>3
    <3>2. PICK i \in Requests : i = up'[c][k].req
      BY <1>r, <3>1
    <3>3. Carries(c, i) /\ handled[i] = 0 /\ cur[c] < i
      BY <2>0, <3>1, <3>2 DEF CarriedAt
    <3>4. Carries(c, i)' /\ handled'[i] = 0
      BY <1>2, <1>w, <3>3
    <3> QED
      BY <3>1, <3>2, <3>4 DEF Carries
  <2> QED
    BY <2>1, <2>2, <2>3 DEF CarriedAt
<1>5. ASSUME NEW i \in Requests, i > n \/ (i = n /\ cpc = "head")
      PROVE  handled'[i] = 0
  <2>1. handled[i] = 0
    BY <1>5 DEF Carried
  <2>2. CASE UNCHANGED handled
    BY <2>1, <2>2
  <2>3. CASE /\ cur[c] \in Requests /\ Carries(c, cur[c])
             /\ handled' = [handled EXCEPT ![cur[c]] = 1]
    <3>1. cur[c] <= n
      BY <2>3 DEF Carries
    <3>2. ASSUME cur[c] = n, cpc = "head" PROVE FALSE
      <4>1. conn \in Requests /\ Carries(conn, n) /\ cur[conn] < n
        BY <1>0, <3>2 DEF Carried, TypeOK, ClientType
      <4>2. conn = c
        BY <2>3, <3>2, <4>1, OneCarrier
      <4> QED
        BY <1>0, <3>2, <4>1, <4>2
    <3>3. cur[c] # i
      BY <1>0, <1>5, <3>1, <3>2 DEF Requests
    <3> QED
      BY <1>0, <2>1, <2>3, <3>3
  <2> QED
    BY <1>h, <2>2, <2>3
<1>6. \A i \in Requests : handled'[i] <= 1
  <2>1. CASE UNCHANGED handled
    BY <2>1 DEF Carried
  <2>2. CASE cur[c] \in Requests /\ handled' = [handled EXCEPT ![cur[c]] = 1]
    BY <1>0, <2>2 DEF Carried
  <2> QED
    BY <1>h, <2>1, <2>2
<1>7. ASSUME cpc = "head"
      PROVE  /\ \A k \in Nat : IsHead(conn, k)' => up'[conn][k].req < n
             /\ cur'[conn] < n
  <2>1. /\ conn \in Requests /\ 0 < n /\ cur[conn] < n
        /\ \A k \in Nat : IsHead(conn, k) => up[conn][k].req < n
    BY <1>0, <1>7 DEF Carried, Carries, TypeOK, ClientType, Requests
  <2>2. CASE conn # c
    BY <1>1, <2>1, <2>2 DEF IsHead
  <2>3. CASE conn = c
    <3>1. \A k \in Nat : IsHead(c, k)' => up'[c][k].req < n
      BY <1>q, <2>1, <2>3
    <3>2. cur'[c] < n
      BY <1>c, <2>1, <2>3
    <3> QED
      BY <1>1, <2>3, <3>1, <3>2 DEF IsHead
  <2> QED
    BY <2>2, <2>3
<1>8. conn # 0 => Carries(conn, n)'
  <2>1. conn # 0 => conn \in Requests /\ n \in Requests /\ Carries(conn, n)
    BY <1>0 DEF Carried, Requests, TypeOK, ClientType
  <2> QED
    BY <1>1, <1>2, <2>1 DEF Carries
<1> QED
  BY <1>1, <1>3, <1>4, <1>5, <1>6, <1>7, <1>8 DEF Carried, Carries, IsHead

LEMMA StepCarried == TypeOK /\ Shape /\ Carried /\ [Next]_vars => Carried'
<1> SUFFICES ASSUME TypeOK, Shape, Carried, [Next]_vars PROVE Carried'
  OBVIOUS
<1>1. CASE Next
  BY <1>1, CarriedClient, CarriedWorker DEF Next
<1>2. CASE UNCHANGED vars
  BY <1>2 DEF Carried, CarriedAt, IsHead, Carries, vars
<1> QED
  BY <1>1, <1>2

-----------------------------------------------------------------------------
(***************************************************************************)
(* An answer with content is the handler's.                                *)
(***************************************************************************)
LEMMA InitBacked == Init => Backed
BY DEF Init, Backed, BackedAt, Ran, NoAnswer, Answered

LEMMA BackedClient ==
  ASSUME TypeOK, Shape, Backed, Client
  PROVE  Backed'
<1>1. UNCHANGED <<handled, form, cur>>
  BY DEF Client, Ask, WriteRequest, Write, Fail, ReadHead, ReadPiece, ReadForeign, Finish, worker, history
<1>2. ASSUME NEW c \in Requests
      PROVE  BackedAt(c)'
  <2>1. PICK s \in {0, 1} : \A k \in 1 .. Len(down'[c]) :
              k \in Nat /\ k + s \in 1 .. Len(down[c]) /\ down'[c][k] = down[c][k + s]
    BY ClientWires
  <2> QED
    BY <1>1, <2>1 DEF Backed, BackedAt, Ran
<1>3. Ran(got)'
  <2>1. CASE ReadHead /\ got' # got
    <3>1. conn # 0 /\ down[conn] # <<>> /\ Take /\ Head(down[conn]).unit = "head"
          /\ got' = Head(down[conn]).answer
      BY <2>1 DEF ReadHead, TypeOK, ClientType
    <3>2. Head(down[conn]) = down[conn][1] /\ 1 \in 1 .. Len(down[conn]) /\ conn \in Requests
      BY <3>1, TakeShifts DEF TypeOK, WireType
    <3> QED
      BY <1>1, <3>1, <3>2 DEF Backed, BackedAt, Ran
  <2>2. CASE got' = got
    BY <1>1, <2>2 DEF Backed, Ran
  <2>3. CASE got' = NoAnswer
    BY <2>3 DEF Ran, NoAnswer
  <2> QED
    BY <2>1, <2>2, <2>3 DEF Client, Ask, WriteRequest, Write, Fail, ReadHead, ReadPiece, ReadForeign, Finish
<1>4. ASSUME NEW i \in Requests, result'[i].is = "answer", result'[i].form # "empty",
             result'[i].to = i
      PROVE  handled[i] > 0
  <2> DEFINE r == [is |-> "answer", to |-> got.req, via |-> conn, form |-> got.form,
                   pieces |-> pieces, foreign |-> foreign]
  <2>1. result' = result \/ (\E j \in Requests : result' = [result EXCEPT ![j] = [is |-> "error"]])
          \/ result' = [result EXCEPT ![n] = r]
    <3>1. CASE Ask
      <4>1. n' \in Requests
        BY <3>1, ExchangeAssumption DEF Ask, TypeOK, ClientType, Requests
      <4> QED
        BY <3>1, <4>1 DEF Ask
    <3>2. CASE Fail
      <4>1. n \in Requests
        BY <3>2 DEF Fail, Failing, TypeOK, ClientType, Requests
      <4> QED
        BY <3>2, <4>1 DEF Fail
    <3>3. CASE WriteRequest \/ ReadHead \/ ReadPiece \/ ReadForeign \/ Finish
      BY <3>3 DEF WriteRequest, Write, ReadHead, ReadPiece, ReadForeign, Finish
    <3> QED
      BY <3>1, <3>2, <3>3 DEF Client
  <2>2. r.to = got.req /\ r.form = got.form
    OBVIOUS
  <2> HIDE DEF r
  <2>3. result'[i] = result[i] \/ result'[i] = [is |-> "error"] \/ result'[i] = r
    BY <2>1 DEF TypeOK, ClientType
  <2>4. CASE result'[i] = result[i]
    BY <1>4, <2>4 DEF Backed, Answered
  <2>5. CASE result'[i] = r
    BY <1>4, <2>2, <2>5 DEF Backed, Ran
  <2> QED
    BY <1>4, <2>3, <2>4, <2>5
<1> QED
  BY <1>1, <1>2, <1>3, <1>4 DEF Backed, Answered

LEMMA BackedWorker ==
  ASSUME TypeOK, Shape, Backed, NEW c \in Requests, Worker(c)
  PROVE  Backed'
<1>0. /\ handled \in [Requests -> Nat] /\ cur \in [Requests -> 0 .. MaxRequests]
      /\ spc \in [Requests -> {"none", "loop", "wait", "line", "route", "handle", "answer",
                               "content", "done", "close", "closed"}]
      /\ form \in [Requests -> AllForms]
      /\ WorkerShapeAt(c)
  BY DEF TypeOK, WorkerType, HistoryType, Shape, WorkerShape
<1>1. /\ UNCHANGED <<got, result>>
      /\ \A d \in Requests \ {c} : form'[d] = form[d] /\ cur'[d] = cur[d] /\ down'[d] = down[d]
  BY WorkerFrame DEF client
<1>2. ASSUME NEW i \in Requests, handled[i] > 0
      PROVE  handled'[i] > 0
  <2>1. UNCHANGED handled \/ handled' = [handled EXCEPT ![cur[c]] = handled[cur[c]] + 1]
    BY DEF Worker, Loop, KeepAlive, ReadLine, ReadJunk, ReadEnd, ReadBody, NoBody, Handle, WriteHead,
        WritePiece, WriteFails, EndContent, Again, CloseSocket, history
  <2> QED
    BY <1>0, <1>2, <2>1
<1>3. ASSUME NEW a, Ran(a)
      PROVE  a.form # "empty" => a.req \in Requests /\ handled'[a.req] > 0
  BY <1>2, <1>3 DEF Ran
<1>4. ASSUME NEW d \in Requests \ {c} PROVE BackedAt(d)'
  BY <1>1, <1>2, <1>3 DEF Backed, BackedAt, Ran
<1>5. BackedAt(c)'
  <2>1. form'[c] # "empty" => cur'[c] \in Requests /\ handled'[cur'[c]] > 0
    <3>1. CASE Handle(c)
      <4>1. cur'[c] = cur[c] /\ cur[c] \in Requests
            /\ handled' = [handled EXCEPT ![cur[c]] = handled[cur[c]] + 1]
        BY <1>0, <3>1 DEF Handle, At, WorkerShapeAt, Requests
      <4> QED
        BY <1>0, <4>1
    <3>2. CASE form'[c] = "empty"
      BY <3>2
    <3>3. CASE form'[c] = form[c] /\ cur'[c] = cur[c]
      BY <1>2, <3>3 DEF Backed, BackedAt
    <3>4. CASE ReadLine(c)
      BY <1>0, <3>4 DEF ReadLine, At, WorkerShapeAt
    <3> QED
      BY <1>0, <3>1, <3>2, <3>3, <3>4
      DEF Worker, Loop, KeepAlive, ReadJunk, ReadEnd, ReadBody, NoBody, WriteHead,
          WritePiece, WriteFails, EndContent, Again, CloseSocket
  <2>2. ASSUME NEW k \in 1 .. Len(down'[c]), down'[c][k].unit = "head"
        PROVE  Ran(down[c][k].answer)'
    <3>1. CASE k \in 1 .. Len(down[c]) /\ down'[c][k] = down[c][k]
      BY <1>3, <2>2, <3>1 DEF Backed, BackedAt, Ran
    <3>2. CASE /\ WriteHead(c) /\ down'[c][k].answer.req = cur[c]
               /\ down'[c][k].answer.form = form[c]
      BY <1>2, <3>2 DEF Backed, BackedAt, Ran
    <3> QED
      BY <2>2, <3>1, <3>2, DownGrows
  <2> QED
    BY <2>1, <2>2 DEF BackedAt
<1> QED
  BY <1>1, <1>2, <1>3, <1>4, <1>5 DEF Backed, Ran, Answered

LEMMA StepBacked == TypeOK /\ Shape /\ Backed /\ [Next]_vars => Backed'
<1> SUFFICES ASSUME TypeOK, Shape, Backed, [Next]_vars PROVE Backed'
  OBVIOUS
<1>1. CASE Next
  BY <1>1, BackedClient, BackedWorker DEF Next
<1>2. CASE UNCHANGED vars
  BY <1>2 DEF Backed, BackedAt, Ran, Answered, vars
<1> QED
  BY <1>1, <1>2

-----------------------------------------------------------------------------
(***************************************************************************)
(* A connection on which every answer came after the whole request.        *)
(***************************************************************************)
LEMMA InitClean == Init => Clean
BY DEF Init, Clean, Answered

\* Where the client's request is if its own worker does a step.
LEMMA CleanOwnWorker ==
  ASSUME TypeOK, Shape, Carried, NEW c \in Requests, c = conn, CleanAt(c), Worker(c), ~unread'[c]
  PROVE  CleanAt(c)'
<1>0. /\ n \in Requests /\ 0 # n
      /\ UNCHANGED <<cpc, n, kind, conn, got>>
      /\ unread \in [Requests -> BOOLEAN]
      /\ spc \in [Requests -> {"none", "loop", "wait", "line", "route", "handle", "answer",
                               "content", "done", "close", "closed"}]
      /\ up \in [Requests -> Seq(RequestUnit)] /\ down \in [Requests -> Seq(AnswerUnit)]
      /\ up[c] \in Seq(RequestUnit) /\ Len(up[c]) \in Nat
      /\ cur \in [Requests -> 0 .. MaxRequests]
      /\ sEnd \in [Requests -> {"open", "graceful", "abrupt"}]
  <2>1. n \in Requests /\ 0 # n
    BY DEF TypeOK, ClientType, Requests
  <2>2. UNCHANGED <<cpc, n, kind, conn, got>>
    BY WorkerFrame DEF client
  <2> QED
    BY <2>1, <2>2 DEF TypeOK, WireType, WorkerType, HistoryType
<1>1. WorkerShapeAt(c) /\ CarriedAt(c)
  BY DEF Shape, WorkerShape, Carried
<1>2. ASSUME NEW k \in Nat, IsAnswer(c, k)'
      PROVE  \/ IsAnswer(c, k) /\ down'[c][k] = down[c][k]
             \/ WriteHead(c) /\ down'[c][k].answer.req = cur[c]
  BY <1>2, DownGrows DEF IsAnswer
\* What takes nothing, writes no answer and is not about a request.
<1>3. ASSUME UNCHANGED <<up[c], sEnd[c]>>, ~WriteHead(c), ~Busy(c), ~Busy(c)'
      PROVE  CleanAt(c)'
  BY <1>0, <1>2, <1>3 DEF CleanAt, IsAnswer, Nothing, OnlyHead, OnlyBody, HeadAndBody
<1>4. CASE Loop(c) \/ KeepAlive(c) \/ ReadEnd(c) \/ WritePiece(c) \/ WriteFails(c)
           \/ EndContent(c) \/ Again(c)
  <2>1. UNCHANGED <<up[c], sEnd[c]>> /\ ~Busy(c) /\ ~Busy(c)' /\ ~WriteHead(c)
    BY <1>0, <1>4
    DEF Loop, KeepAlive, ReadEnd, WritePiece, WriteFails, EndContent, Again, At, Busy, WriteHead
  <2> QED
    BY <1>3, <2>1
<1>5. CASE NoBody(c)
  <2>1. /\ UNCHANGED <<up[c], down[c], sEnd[c], cur[c], handled>> /\ Busy(c) /\ Busy(c)'
        /\ kind[cur[c]] \notin {"post", "expect"}
    BY <1>0, <1>5 DEF NoBody, At, Busy, history
  <2> QED
    BY <1>0, <2>1 DEF CleanAt, IsAnswer, Nothing, OnlyHead, OnlyBody, HeadAndBody
\* What was sent first is taken.
<1>t. ASSUME up[c] # <<>>, up' = [up EXCEPT ![c] = Tail(@)]
      PROVE  /\ Len(up[c]) > 0 /\ Head(up[c]) = up[c][1] /\ Len(up'[c]) = Len(up[c]) - 1
             /\ \A k \in 1 .. Len(up[c]) - 1 : up'[c][k] = up[c][k + 1]
  <2>1. up'[c] = Tail(up[c])
    BY <1>0, <1>t
  <2> QED
    BY <1>0, <1>t, <2>1, TailShifts
<1>6. CASE ReadLine(c)
  <2>1. /\ up[c] # <<>> /\ Head(up[c]).unit = "head" /\ up' = [up EXCEPT ![c] = Tail(@)]
        /\ cur'[c] = Head(up[c]).req /\ UNCHANGED <<sEnd, handled>>
        /\ spc[c] = "line" /\ spc'[c] \in {"answer", "route"}
    <3>1. \E there \in {"answer", "route"} : At(c, "line", there)
      BY <1>6 DEF ReadLine
    <3> QED
      BY <1>0, <1>6, <3>1 DEF ReadLine, At, history
  <2>2. /\ Len(up[c]) > 0 /\ Head(up[c]) = up[c][1] /\ Len(up'[c]) = Len(up[c]) - 1
        /\ \A k \in 1 .. Len(up[c]) - 1 : up'[c][k] = up[c][k + 1]
    BY <1>t, <2>1
  <2>3. ~Busy(c) /\ Busy(c)' /\ spc'[c] # "handle" /\ ~WriteHead(c)
    BY <2>1 DEF Busy, WriteHead, At
  <2>4. handled[n] = 0 /\ cur'[c] = n
    <3>1. IsHead(c, 1) /\ up[c][1].req = n
      BY <1>0, <2>1, <2>2 DEF CleanAt, IsHead
    <3> QED
      BY <1>1, <2>1, <2>2, <3>1 DEF CarriedAt
  <2>5. \A k \in Nat : ~IsAnswer(c, k)'
    BY <1>2, <2>2, <2>3 DEF CleanAt, Nothing
  <2>6. \/ OnlyHead(c) /\ Nothing(c)'
        \/ HeadAndBody(c) /\ OnlyBody(c)'
    BY <1>0, <2>1, <2>2 DEF CleanAt, Nothing, OnlyHead, OnlyBody, HeadAndBody
  <2>7. \A k \in Nat : k \in 1 .. Len(up'[c]) => up'[c][k].req = n
    <3> SUFFICES ASSUME NEW k \in Nat, k \in 1 .. Len(up'[c]) PROVE up'[c][k].req = n
      OBVIOUS
    <3>1. k + 1 \in Nat /\ k + 1 \in 1 .. Len(up[c]) /\ up'[c][k] = up[c][k + 1]
      <4> DEFINE l == Len(up[c])
      <4>1. l \in Nat /\ Len(up'[c]) = l - 1 /\ \A j \in 1 .. l - 1 : up'[c][j] = up[c][j + 1]
        BY <1>0, <2>2
      <4> HIDE DEF l
      <4>2. k \in 1 .. l - 1 /\ k + 1 \in Nat /\ k + 1 \in 1 .. l
        BY <4>1
      <4> QED
        BY <4>1, <4>2 DEF l
    <3> QED
      BY <3>1 DEF CleanAt
  <2>8. ~Nothing(c) /\ sEnd[c] = "open"
    BY <2>2 DEF CleanAt, Nothing
  <2>9. ~(OnlyHead(c) /\ HeadAndBody(c)) /\ ~(Nothing(c)' /\ OnlyBody(c)') /\ ~OnlyHead(c)' /\ ~HeadAndBody(c)'
    BY <2>6 DEF Nothing, OnlyHead, OnlyBody, HeadAndBody
  <2> HIDE DEF Nothing, OnlyHead, OnlyBody, HeadAndBody
  <2> QED
    BY <1>0, <2>1, <2>3, <2>4, <2>5, <2>6, <2>7, <2>8, <2>9 DEF CleanAt
<1>7. CASE ReadJunk(c)
  <2>1. up[c] # <<>> /\ Head(up[c]).unit = "body" /\ up' = [up EXCEPT ![c] = Tail(@)] /\ ~Busy(c)
    BY <1>7 DEF ReadJunk, At, Busy
  <2>2. Len(up[c]) > 0 /\ up[c][1].unit = "body"
    BY <1>t, <2>1
  <2> QED
    BY <2>1, <2>2 DEF CleanAt, Nothing, OnlyHead, OnlyBody, HeadAndBody
<1>8. CASE ReadBody(c)
  <2>1. CASE At(c, "route", "answer") /\ UNCHANGED up
    <3>1. UNCHANGED <<up[c], down[c], sEnd[c], cur[c], handled>> /\ Busy(c) /\ Busy(c)' /\ spc'[c] = "answer"
      BY <1>0, <1>8, <2>1 DEF ReadBody, At, Busy, history
    <3> QED
      BY <1>0, <3>1 DEF CleanAt, IsAnswer, Nothing, OnlyHead, OnlyBody, HeadAndBody
  <2>2. CASE At(c, "route", "handle") /\ up[c] # <<>> /\ up' = [up EXCEPT ![c] = Tail(@)]
    <3>1. UNCHANGED <<down[c], sEnd[c], cur[c], handled>> /\ Busy(c) /\ Busy(c)'
      BY <1>0, <1>8, <2>2 DEF ReadBody, At, Busy, history
    <3>2. Len(up[c]) > 0 /\ Len(up'[c]) = Len(up[c]) - 1
      BY <1>t, <2>2
    <3>3. OnlyBody(c) /\ Len(up'[c]) = 0 /\ cpc # "body"
      BY <3>1, <3>2 DEF CleanAt, Nothing, OnlyHead, OnlyBody, HeadAndBody
    <3> QED
      BY <1>0, <3>1, <3>2, <3>3 DEF CleanAt, IsAnswer, Nothing, OnlyHead, OnlyBody, HeadAndBody
  <2> QED
    BY <1>8, <2>1, <2>2 DEF ReadBody
<1>9. CASE Handle(c)
  <2>1. UNCHANGED <<up[c], down[c], sEnd[c], cur[c]>> /\ Busy(c) /\ Busy(c)' /\ spc[c] = "handle"
    BY <1>0, <1>9 DEF Handle, At, Busy
  <2> QED
    BY <1>0, <2>1 DEF CleanAt, IsAnswer, Nothing, OnlyHead, OnlyBody, HeadAndBody
<1>10. CASE WriteHead(c)
  <2>1. /\ UNCHANGED <<up[c], sEnd[c], cur[c], handled>> /\ Busy(c) /\ ~Busy(c)' /\ BodyIsRead(c)
    BY <1>0, <1>10 DEF WriteHead, At, Busy
  <2>2. ~HasBody(kind[n]) \/ (kind[n] \in {"post", "expect"} /\ handled[n] > 0)
    BY <1>0, <2>1 DEF BodyIsRead, Kind, KindOf, CleanAt
  <2>3. ~OnlyBody(c) /\ cpc # "body"
    BY <2>1, <2>2 DEF CleanAt
  <2>4. Nothing(c) /\ cpc = "read"
    BY <2>1, <2>3 DEF CleanAt, TypeOK, ClientType
  <2>5. \A k \in Nat : ~IsAnswer(c, k)
    BY <2>1 DEF CleanAt
  <2>6. ASSUME NEW k \in Nat, IsAnswer(c, k)'
        PROVE  k = Len(down[c]) + 1 /\ down'[c][k].answer.req = n
    <3> DEFINE a == [req |-> cur[c], form |-> form[c], close |-> left[c] = 1 \/ Bye(c)]
               u == [unit |-> "head", answer |-> a]
    <3>1. a \in Answers
      <4>1. (left[c] = 1 \/ Bye(c)) \in BOOLEAN
        BY Zenon
      <4>2. cur[c] \in 0 .. MaxRequests /\ form[c] \in AllForms
        BY DEF TypeOK, WorkerType
      <4> QED
        BY <4>1, <4>2, Values
    <3>2. Send(c, <<u>>)
      BY <1>10 DEF WriteHead
    <3>3. u \in AnswerUnit
      BY <3>1, Values
    <3> HIDE DEF u
    <3>4. down'[c] = down[c] \/ Grown(down[c], u, down'[c])
      BY <1>0, <3>2, <3>3, SendGrows DEF TypeOK, ClientType
    <3>5. down[c] \in Seq(AnswerUnit) /\ Len(down[c]) \in Nat
      BY <1>0
    <3>6. down'[c][k].answer.req = cur[c] /\ ~(k \in 1 .. Len(down[c]) /\ down'[c][k] = down[c][k])
      BY <1>2, <2>5, <2>6 DEF IsAnswer
    <3>7. k \in 1 .. Len(down'[c])
      BY <2>6 DEF IsAnswer
    <3>8. k = Len(down[c]) + 1
      BY <3>4, <3>5, <3>6, <3>7 DEF Grown
    <3>9. cur[c] = n
      BY <2>1 DEF CleanAt
    <3> QED
      BY <3>6, <3>8, <3>9
  <2>7. /\ UNCHANGED <<cpc, kind, n, got>> /\ cpc = "read"
        /\ Nothing(c)' /\ ~OnlyHead(c)' /\ ~OnlyBody(c)' /\ ~HeadAndBody(c)'
        /\ \A k \in Nat : ~(k \in 1 .. Len(up'[c]))
    BY <1>0, <2>1, <2>4 DEF Nothing, OnlyHead, OnlyBody, HeadAndBody
  <2> HIDE DEF Nothing, OnlyHead, OnlyBody, HeadAndBody, IsAnswer, Busy
  <2> QED
    BY <2>1, <2>6, <2>7 DEF CleanAt
<1>11. CASE CloseSocket(c)
  <2>1. /\ up'[c] = <<>> /\ ~Busy(c) /\ ~Busy(c)' /\ ~WriteHead(c) /\ sEnd'[c] # "open"
    BY <1>0, <1>11 DEF CloseSocket, At, Busy, WriteHead
  <2>2. /\ UNCHANGED <<cpc, kind, n, got>>
        /\ Nothing(c)' /\ ~OnlyHead(c)' /\ ~OnlyBody(c)' /\ ~HeadAndBody(c)'
        /\ \A k \in Nat : ~(k \in 1 .. Len(up'[c]))
    BY <1>0, <2>1 DEF Nothing, OnlyHead, OnlyBody, HeadAndBody
  <2>3. ASSUME NEW k \in Nat, IsAnswer(c, k)'
        PROVE  /\ IsAnswer(c, k) /\ down'[c][k].answer.req = n /\ cpc = "read"
               /\ \A j \in Nat : IsAnswer(c, j)' => j = k
    BY <1>2, <2>1, <2>3 DEF CleanAt
  <2> HIDE DEF Nothing, OnlyHead, OnlyBody, HeadAndBody, IsAnswer, Busy
  <2> QED
    BY <2>1, <2>2, <2>3 DEF CleanAt
<1> QED
  BY <1>4, <1>5, <1>6, <1>7, <1>8, <1>9, <1>10, <1>11 DEF Worker

\* The worker of another connection has nothing to do with request n.
LEMMA CleanOtherWorker ==
  ASSUME TypeOK, Shape, Carried, NEW c \in Requests, c = conn, CleanAt(c),
         NEW d \in Requests, d # c, Worker(d)
  PROVE  CleanAt(c)'
<1>1. /\ UNCHANGED <<cpc, n, kind, conn, got>>
      /\ UNCHANGED <<spc[c], cur[c], up[c], down[c], sEnd[c]>>
  BY WorkerFrame DEF client
<1>2. n \in Requests /\ handled \in [Requests -> Nat] /\ Carries(c, n)
  BY DEF TypeOK, ClientType, HistoryType, Carried, Requests
<1>3. handled'[n] = handled[n]
  <2>1. CASE UNCHANGED handled
    BY <2>1
  <2>2. CASE Handle(d)
    <3>1. spc[d] = "handle" /\ handled' = [handled EXCEPT ![cur[d]] = handled[cur[d]] + 1]
      BY <2>2 DEF Handle, At
    <3>2. cur[d] \in Requests /\ Carries(d, cur[d])
      BY <3>1 DEF Carried, CarriedAt, Shape, WorkerShape, WorkerShapeAt, TypeOK, WorkerType, Requests
    <3>3. cur[d] # n
      BY <1>2, <3>2, OneCarrier
    <3> QED
      BY <1>2, <3>1, <3>2, <3>3
  <2> QED
    BY <2>1, <2>2
    DEF Worker, Loop, KeepAlive, ReadLine, ReadJunk, ReadEnd, ReadBody, NoBody, WriteHead,
        WritePiece, WriteFails, EndContent, Again, CloseSocket, history
<1> QED
  BY <1>1, <1>3 DEF CleanAt, IsAnswer, Nothing, OnlyHead, OnlyBody, HeadAndBody, Busy

LEMMA CleanWorker ==
  ASSUME TypeOK, Shape, Carried, Clean, NEW c \in Requests, Worker(c)
  PROVE  Clean'
<1>1. UNCHANGED client /\ unread \in [Requests -> BOOLEAN] /\ unread' \in [Requests -> BOOLEAN]
  BY WorkerFrame, WorkerStepType DEF TypeOK, HistoryType
<1>2. ASSUME NEW d \in Requests, unread[d]
      PROVE  unread'[d]
  BY <1>1, <1>2
  DEF Worker, Loop, KeepAlive, ReadLine, ReadJunk, ReadEnd, ReadBody, NoBody, Handle, WriteHead,
      WritePiece, WriteFails, EndContent, Again, CloseSocket, history
<1>3. ASSUME conn # 0, ~unread'[conn]
      PROVE  CleanAt(conn)'
  <2>1. PICK d \in Requests : d = conn
    BY <1>3 DEF TypeOK, ClientType, Requests
  <2>2. CleanAt(d) /\ ~unread'[d]
    BY <1>2, <1>3, <2>1 DEF Clean
  <2>3. CleanAt(d)'
    BY <2>1, <2>2, CleanOwnWorker, CleanOtherWorker
  <2> QED
    BY <1>1, <2>1, <2>3
    DEF client, CleanAt, IsAnswer, Nothing, OnlyHead, OnlyBody, HeadAndBody, Busy
<1>4. ASSUME NEW i \in Requests, result[i].is = "answer", ~unread'[result[i].via]
      PROVE  result[i].to = i
  <2>1. result[i].via \in Requests
    BY <1>4 DEF TypeOK, ClientType, Results
  <2> QED
    BY <1>2, <1>4, <2>1 DEF Clean, Answered
<1> QED
  BY <1>1, <1>3, <1>4 DEF Clean, Answered, client

LEMMA CleanClient ==
  ASSUME TypeOK, Shape, Carried, Clean, Client
  PROVE  Clean'
<1>1. UNCHANGED <<unread, handled>>
  BY DEF Client, Ask, WriteRequest, Write, Fail, ReadHead, ReadPiece, ReadForeign, Finish, history
<1>t. /\ n \in Nat /\ kind \in [Requests -> AllKinds \cup {"none"}]
      /\ spc \in [Requests -> {"none", "loop", "wait", "line", "route", "handle", "answer",
                               "content", "done", "close", "closed"}]
      /\ up \in [Requests -> Seq(RequestUnit)] /\ down \in [Requests -> Seq(AnswerUnit)]
      /\ \A c \in Requests : Len(up[c]) \in Nat /\ Len(down[c]) \in Nat
  <2>1. up \in [Requests -> Seq(RequestUnit)] /\ down \in [Requests -> Seq(AnswerUnit)]
    BY DEF TypeOK, WireType
  <2>2. \A c \in Requests : Len(up[c]) \in Nat /\ Len(down[c]) \in Nat
    BY <2>1
  <2> QED
    BY <2>1, <2>2 DEF TypeOK, ClientType, WorkerType
\* A connection on which nothing is under way.
<1>q. ASSUME NEW c \in Requests, Nothing(c)', ~Busy(c)', \A k \in Nat : ~IsAnswer(c, k)',
             cpc' \in {"idle", "head", "content"}, cpc' = "content" => got'.req = n'
      PROVE  CleanAt(c)'
  BY <1>q DEF CleanAt, Nothing, OnlyHead, OnlyBody, HeadAndBody
<1>2. ASSUME NEW c \in Requests, c = conn', ~unread[c]
      PROVE  CleanAt(c)'
  <2>1. CASE Ask
    <3>1. n' = n + 1 /\ cpc = "idle" /\ cpc' = "head" /\ UNCHANGED <<up, down>>
          /\ \/ c = conn /\ UNCHANGED spc
             \/ c = n' /\ spc' = [spc EXCEPT ![n'] = "loop"]
      BY <1>2, <2>1 DEF Ask, Requests
    <3>2. CASE c = conn /\ UNCHANGED spc
      <4>1. CleanAt(c)
        BY <1>2, <3>2 DEF Clean, Requests
      <4>2. Nothing(c) /\ ~Busy(c) /\ \A k \in Nat : ~IsAnswer(c, k)
        BY <3>1, <4>1 DEF CleanAt
      <4> QED
        BY <1>q, <3>1, <3>2, <4>2 DEF Nothing, Busy, IsAnswer
    <3>3. CASE c = n' /\ spc' = [spc EXCEPT ![n'] = "loop"]
      <4>1. up[c] = <<>> /\ down[c] = <<>>
        BY <1>t, <3>1, <3>3 DEF Shape, WorkerShape, WorkerShapeAt
      <4>2. Nothing(c)' /\ ~Busy(c)' /\ \A k \in Nat : ~IsAnswer(c, k)'
        BY <1>t, <3>1, <3>3, <4>1 DEF Nothing, Busy, IsAnswer
      <4> QED
        BY <1>q, <3>1, <4>2
    <3> QED
      BY <3>1, <3>2, <3>3
  <2>2. CASE ~Ask
    <3>1. c = conn /\ UNCHANGED <<n, kind, spc, cur>>
      BY <1>2, <2>2
      DEF Client, WriteRequest, Write, Fail, ReadHead, ReadPiece, ReadForeign, Finish, Close, Requests, worker
    <3>2. CleanAt(c)
      BY <1>2, <3>1 DEF Clean, Requests
    <3>3. CASE WriteRequest
      <4>1. PICK u \in {[unit |-> "head", req |-> n], [unit |-> "body", req |-> n]},
                 next \in {"body", "read"} :
              /\ Write(u, next)
              /\ \/ u.unit = "head" /\ cpc = "head"
                    /\ next = IF HasBody(kind[n]) THEN "body" ELSE "read"
                 \/ u.unit = "body" /\ cpc = "body" /\ next = "read"
        BY <3>3 DEF WriteRequest
      <4>2. conn # 0 /\ n \in Requests
        BY <3>3 DEF WriteRequest, TypeOK, ClientType, Requests
      <4>3. u \in RequestUnit /\ u.req = n
        BY <4>1, <4>2, Values
      <4> HIDE DEF RequestUnit
      <4>4. /\ cpc' = next /\ UNCHANGED <<got, handled>>
            /\ \/ sEnd[c] = "open" /\ Grown(up[c], u, up'[c]) /\ UNCHANGED <<down, sEnd>>
               \/ sEnd[c] # "open" /\ UNCHANGED <<up, down, sEnd>>
               \/ sEnd[c] # "open" /\ UNCHANGED up /\ down'[c] = <<>> /\ sEnd'[c] = "abrupt"
        BY <3>1, <4>1, <4>2, <4>3, WriteAdds
      \* The server's end is closed, and what is written is lost.
      <4>5. ASSUME sEnd[c] # "open", UNCHANGED up, down' = down \/ down'[c] = <<>>, sEnd'[c] # "open"
            PROVE  CleanAt(c)'
        <5>1. \A k \in Nat : IsAnswer(c, k)' => IsAnswer(c, k) /\ down'[c][k] = down[c][k]
          BY <1>t, <4>5 DEF IsAnswer
        <5>2. cpc \in {"head", "body"} /\ cpc' \in {"body", "read"}
          BY <4>1, <4>4
        <5>3. Nothing(c) /\ (\A k \in Nat : ~IsAnswer(c, k)) /\ spc[c] = "closed"
          BY <3>2, <4>5, <5>2 DEF CleanAt, Shape, WorkerShape, WorkerShapeAt
        <5>4. ~Busy(c)' /\ Nothing(c)' /\ \A k \in Nat : ~IsAnswer(c, k)'
          BY <3>1, <4>5, <5>1, <5>3 DEF Busy, Nothing
        <5>5. cpc' = "body" => HasBody(kind[n])
          BY <4>1, <4>4
        <5>6. HasBody(kind[n])' <=> HasBody(kind[n])
          BY <3>1
        <5> QED
          BY <3>1, <4>5, <5>2, <5>4, <5>5, <5>6 DEF CleanAt, Nothing, OnlyHead, OnlyBody, HeadAndBody
      \* It is open, and the unit is on its way.
      <4>6. ASSUME sEnd[c] = "open", Grown(up[c], u, up'[c]), UNCHANGED <<down, sEnd>>
            PROVE  CleanAt(c)'
        <5>1. \A k \in Nat : ~IsAnswer(c, k)
          BY <3>2, <4>1 DEF CleanAt
        <5>2. \A k \in Nat : ~IsAnswer(c, k)'
          BY <4>6, <5>1 DEF IsAnswer
        <5>3. \A k \in Nat : k \in 1 .. Len(up'[c]) => up'[c][k].req = n
          <6> SUFFICES ASSUME NEW k \in Nat, k \in 1 .. Len(up'[c]) PROVE up'[c][k].req = n
            OBVIOUS
          <6>1. \/ k \in 1 .. Len(up[c]) /\ up'[c][k] = up[c][k]
                \/ up'[c][k] = u
            BY <1>t, <4>6 DEF Grown
          <6> QED
            BY <3>2, <4>3, <6>1 DEF CleanAt
        <5>4. CASE u.unit = "head"
          <6>1. Nothing(c) /\ ~Busy(c) /\ (cpc' = IF HasBody(kind[n]) THEN "body" ELSE "read")
            BY <3>2, <4>1, <4>4, <5>4 DEF CleanAt
          <6>2. OnlyHead(c)' /\ ~Nothing(c)' /\ ~OnlyBody(c)' /\ ~HeadAndBody(c)' /\ ~Busy(c)'
            BY <3>1, <4>6, <5>4, <6>1 DEF Grown, Nothing, OnlyHead, OnlyBody, HeadAndBody, Busy
          <6> HIDE DEF Nothing, OnlyHead, OnlyBody, HeadAndBody
          <6> QED
            BY <3>1, <4>6, <5>2, <5>3, <6>1, <6>2 DEF CleanAt
        <5>5. CASE u.unit = "body"
          <6>1. cpc = "body" /\ cpc' = "read"
            BY <4>1, <4>4, <5>5
          <6>2. \/ OnlyHead(c) /\ ~Busy(c)
                \/ Nothing(c) /\ Busy(c)
            BY <3>2, <4>6, <6>1 DEF CleanAt
          <6>3. ~OnlyHead(c)' /\ ~Nothing(c)'
                /\ \/ HeadAndBody(c)' /\ ~OnlyBody(c)' /\ ~Busy(c)'
                   \/ OnlyBody(c)' /\ ~HeadAndBody(c)' /\ Busy(c)'
            BY <3>1, <4>6, <5>5, <6>2 DEF Grown, Nothing, OnlyHead, OnlyBody, HeadAndBody, Busy
          <6>4. HasBody(kind[n]) /\ (Busy(c) => cur[c] = n)
                /\ (Busy(c) /\ kind[n] \in {"post", "expect"} => spc[c] # "handle" /\ handled[n] = 0)
            BY <3>2, <6>1 DEF CleanAt
          <6>5. Busy(c)' = Busy(c)
            BY <3>1 DEF Busy
          <6> HIDE DEF Nothing, OnlyHead, OnlyBody, HeadAndBody
          <6> QED
            BY <3>1, <4>4, <4>6, <5>2, <5>3, <6>1, <6>3, <6>4, <6>5 DEF CleanAt
        <5> QED
          BY <4>1, <5>4, <5>5
      <4> QED
        BY <4>4, <4>5, <4>6
    <3>4. CASE Fail
      <4>1. conn' = 0
        BY <3>4 DEF Fail, Close
      <4>2. c # 0
        BY DEF Requests
      <4> QED
        BY <1>2, <4>1, <4>2
    \* What comes first is taken, if something is.
    <3>5. ASSUME down[c] # <<>>, Take
          PROVE  /\ \A k \in Nat : IsAnswer(c, k)' => IsAnswer(c, k + 1) /\ down'[c][k] = down[c][k + 1]
                 /\ Head(down[c]) = down[c][1] /\ Len(down[c]) > 0
      <4>1. conn # 0
        BY <3>1 DEF Requests
      <4>2. /\ Len(down[c]) > 0 /\ Head(down[c]) = down[c][1]
            /\ Len(down'[c]) = Len(down[c]) - 1
            /\ \A k \in 1 .. Len(down[c]) - 1 : down'[c][k] = down[c][k + 1]
        BY <3>1, <3>5, <4>1, TakeShifts
      <4> QED
        BY <1>t, <4>2 DEF IsAnswer
    <3>6. CASE ReadHead
      <4>1. /\ cpc = "read" /\ down[c] # <<>> /\ Take /\ UNCHANGED <<up, sEnd>>
            /\ \/ Head(down[c]).unit = "100" /\ UNCHANGED <<cpc, got>>
               \/ Head(down[c]).unit = "head" /\ got' = Head(down[c]).answer /\ cpc' = "content"
        BY <3>1, <3>6 DEF ReadHead, worker
      <4>2. CASE UNCHANGED <<cpc, got>>
        <5>1. ASSUME NEW k \in Nat, IsAnswer(c, k)'
              PROVE  /\ down'[c][k].answer.req = n /\ Nothing(c) /\ ~Busy(c)
                     /\ \A j \in Nat : IsAnswer(c, j)' => j = k
          <6>1. IsAnswer(c, k + 1) /\ down'[c][k] = down[c][k + 1] /\ k + 1 \in Nat
            BY <3>5, <4>1, <5>1
          <6>2. \A j \in Nat : IsAnswer(c, j)' => IsAnswer(c, j + 1) /\ j + 1 \in Nat
            BY <3>5, <4>1
          <6> QED
            BY <3>2, <6>1, <6>2 DEF CleanAt
        <5> QED
          BY <1>1, <3>1, <3>2, <4>1, <4>2, <5>1
          DEF CleanAt, Nothing, OnlyHead, OnlyBody, HeadAndBody, Busy
      <4>3. CASE Head(down[c]).unit = "head" /\ got' = Head(down[c]).answer /\ cpc' = "content"
        <5>1. IsAnswer(c, 1) /\ down[c][1].answer = got' /\ 1 \in Nat
          BY <1>t, <3>5, <4>1, <4>3 DEF IsAnswer
        <5>2. got'.req = n /\ Nothing(c) /\ ~Busy(c) /\ \A k \in Nat : IsAnswer(c, k) => k = 1
          BY <3>2, <5>1 DEF CleanAt
        <5>3. \A k \in Nat : ~IsAnswer(c, k)'
          BY <3>5, <4>1, <5>2 DEF IsAnswer
        <5> QED
          BY <1>q, <3>1, <4>1, <4>3, <5>2, <5>3 DEF Nothing, Busy
      <4> QED
        BY <4>1, <4>2, <4>3
    <3>7. CASE ReadPiece \/ ReadForeign \/ Finish
      <4>1. cpc = "content" /\ UNCHANGED up /\ (cpc' = "idle" \/ (cpc' = "content" /\ UNCHANGED got))
            /\ (UNCHANGED down \/ (down[c] # <<>> /\ Take))
        BY <3>1, <3>7 DEF ReadPiece, ReadForeign, Finish, AllRead
      <4>2. Nothing(c) /\ ~Busy(c) /\ (\A k \in Nat : ~IsAnswer(c, k)) /\ got.req = n
        BY <3>2, <4>1 DEF CleanAt
      <4>3. \A k \in Nat : ~IsAnswer(c, k)'
        BY <3>5, <4>1, <4>2, SMTT(30) DEF IsAnswer
      <4> QED
        BY <1>q, <3>1, <4>1, <4>2, <4>3 DEF Nothing, Busy
    <3> QED
      BY <2>2, <3>3, <3>4, <3>6, <3>7 DEF Client
  <2> QED
    BY <2>1, <2>2
<1>3. ASSUME NEW i \in Requests, result'[i].is = "answer", ~unread[result'[i].via]
      PROVE  result'[i].to = i
  <2>1. CASE Finish
    <3> DEFINE r == [is |-> "answer", to |-> got.req, via |-> conn, form |-> got.form,
                     pieces |-> pieces, foreign |-> foreign]
    <3>1. result' = [result EXCEPT ![n] = r] /\ cpc = "content"
      BY <2>1 DEF Finish
    <3>2. r.to = got.req /\ r.via = conn
      OBVIOUS
    <3> HIDE DEF r
    <3>3. result'[i] = result[i] \/ (i = n /\ result'[i] = r)
      BY <3>1 DEF TypeOK, ClientType
    <3>4. conn # 0
      BY <3>1 DEF TypeOK, ClientType
    <3> QED
      BY <1>3, <3>1, <3>2, <3>3, <3>4 DEF Clean, CleanAt, Answered
  <2>2. CASE \/ UNCHANGED result
             \/ \E j \in Requests : result' = [result EXCEPT ![j] = [is |-> "error"]]
    <3>1. result'[i] = result[i] \/ result'[i] = [is |-> "error"]
      BY <2>2 DEF TypeOK, ClientType
    <3> QED
      BY <1>3, <3>1 DEF Clean, Answered
  <2>3. CASE Ask
    <3>1. n' \in Requests
      BY <1>t, <2>3, ExchangeAssumption DEF Ask, Requests
    <3> QED
      BY <2>2, <2>3, <3>1 DEF Ask
  <2>4. CASE Fail
    <3>1. n \in Requests
      BY <2>4 DEF Fail, Failing, TypeOK, ClientType, Requests
    <3> QED
      BY <2>2, <2>4, <3>1 DEF Fail
  <2> QED
    BY <2>1, <2>2, <2>3, <2>4 DEF Client, WriteRequest, Write, ReadHead, ReadPiece, ReadForeign
<1> QED
  BY <1>1, <1>2, <1>3, ClientStepType DEF Clean, Answered, TypeOK, ClientType, Requests

LEMMA StepClean == TypeOK /\ Shape /\ Carried /\ Clean /\ [Next]_vars => Clean'
<1> SUFFICES ASSUME TypeOK, Shape, Carried, Clean, [Next]_vars PROVE Clean'
  OBVIOUS
<1>1. CASE Next
  BY <1>1, CleanClient, CleanWorker DEF Next
<1>2. CASE UNCHANGED vars
  BY <1>2 DEF Clean, CleanAt, IsAnswer, Nothing, OnlyHead, OnlyBody, HeadAndBody, Busy, Answered, vars
<1> QED
  BY <1>1, <1>2

\* send() returns the answer to its own request: it closes the connection when a
\* request fails, so no late answer is left on it for the next one, unless
\* process_request() of the server has written an answer before it had read the
\* whole request.  routing() runs the handler once for a request at most, and
\* what has content comes from it.
THEOREM AnswersAreOwn == Spec => []AnswerIsOwn
<1>1. Init => TypeOK /\ Shape /\ Carried /\ Backed /\ Clean
  BY InitType, InitShape, InitCarried, InitBacked, InitClean
<1>2. TypeOK /\ Shape /\ Carried /\ Backed /\ Clean /\ [Next]_vars
        => (TypeOK /\ Shape /\ Carried /\ Backed /\ Clean)'
  BY StepType, StepShape, StepCarried, StepBacked, StepClean
<1>3. TypeOK /\ Carried /\ Backed /\ Clean => AnswerIsOwn
  BY DEF TypeOK, HistoryType, Carried, Backed, Clean, AnswerIsOwn
<1> QED
  BY <1>1, <1>2, <1>3, PTL DEF Spec

-----------------------------------------------------------------------------
(***************************************************************************)
(* On such a connection nothing but content follows the head of an answer. *)
(***************************************************************************)
\* What is on the way to the client stays, as far as it is not lost, and "100
\* Continue" is written for the head of a request.
LEMMA DownKeeps ==
  ASSUME TypeOK, NEW c \in Requests, Worker(c), NEW k \in 1 .. Len(down'[c])
  PROVE  \/ k \in 1 .. Len(down[c]) /\ down'[c][k] = down[c][k]
         \/ /\ k \notin 1 .. Len(down[c])
            /\ down'[c][k].unit = "100" => ReadLine(c)
<1>0. down[c] \in Seq(AnswerUnit) /\ down \in [Requests -> Seq(AnswerUnit)]
  BY DEF TypeOK, WireType
<1>1. CASE UNCHANGED down
  BY <1>1
<1>2. CASE down' = [down EXCEPT ![c] = <<>>]
  BY <1>0, <1>2
<1>3. ASSUME NEW u \in AnswerUnit, Send(c, <<u>>)
      PROVE  \/ k \in 1 .. Len(down[c]) /\ down'[c][k] = down[c][k]
             \/ k \notin 1 .. Len(down[c]) /\ down'[c][k] = u
  <2>1. down' \in [Requests -> Seq(AnswerUnit)]
        /\ (down'[c] = down[c] \/ Grown(down[c], u, down'[c]))
    BY <1>0, <1>3, SendGrows DEF TypeOK, ClientType
  <2> QED
    BY <1>0, <2>1 DEF Grown
<1>4. ASSUME Send(c, <<>>)
      PROVE  UNCHANGED down
  BY <1>0, <1>4, SendNothing
<1>5. CASE ReadLine(c)
  BY <1>1, <1>3, <1>4, <1>5, Values DEF ReadLine
<1>6. CASE WriteHead(c)
  <2> DEFINE a == [req |-> cur[c], form |-> form[c], close |-> left[c] = 1 \/ Bye(c)]
             u == [unit |-> "head", answer |-> a]
  <2>1. a \in Answers
    <3>1. (left[c] = 1 \/ Bye(c)) \in BOOLEAN
      BY Zenon
    <3>2. cur[c] \in 0 .. MaxRequests /\ form[c] \in AllForms
      BY DEF TypeOK, WorkerType
    <3> QED
      BY <3>1, <3>2, Values
  <2>2. Send(c, <<u>>) /\ u.unit # "100"
    BY <1>6 DEF WriteHead
  <2>3. u \in AnswerUnit
    BY <2>1, Values
  <2> HIDE DEF u
  <2> QED
    BY <1>3, <2>2, <2>3
<1>7. CASE WritePiece(c)
  <2> DEFINE u == [unit |-> "piece", form |-> form[c], no |-> wrote[c] + 1]
  <2>1. form[c] \in AllForms /\ wrote[c] + 1 \in Nat
    BY DEF TypeOK, WorkerType
  <2>2. u \in AnswerUnit /\ u.unit # "100"
    BY <2>1, Values
  <2>3. Send(c, <<u>>)
    BY <1>7 DEF WritePiece
  <2> HIDE DEF u
  <2> QED
    BY <1>3, <2>2, <2>3
<1>8. CASE EndContent(c)
  <2> DEFINE u == [unit |-> "end"]
  <2>1. u \in AnswerUnit /\ u.unit # "100"
    BY Values
  <2>2. Send(c, <<u>>) \/ Send(c, <<>>)
    BY <1>8 DEF EndContent
  <2> HIDE DEF u
  <2> QED
    BY <1>1, <1>3, <1>4, <2>1, <2>2
<1> QED
  BY <1>1, <1>2, <1>5, <1>6, <1>7, <1>8
  DEF Worker, Loop, KeepAlive, ReadJunk, ReadEnd, ReadBody, NoBody, Handle, WriteFails, Again,
      CloseSocket

LEMMA EarlyWorker ==
  ASSUME TypeOK, Shape, Carried, Clean, Early, NEW d \in Requests, Worker(d)
  PROVE  Early'
<1>0. UNCHANGED <<cpc, conn>> /\ unread \in [Requests -> BOOLEAN] /\ unread' \in [Requests -> BOOLEAN]
      /\ down \in [Requests -> Seq(AnswerUnit)] /\ down' \in [Requests -> Seq(AnswerUnit)]
  BY WorkerFrame, WorkerStepType DEF client, TypeOK, HistoryType, WireType
<1>u. ASSUME NEW c \in Requests, unread[c]
      PROVE  unread'[c]
  BY <1>0, <1>u
  DEF Worker, Loop, KeepAlive, ReadLine, ReadJunk, ReadEnd, ReadBody, NoBody, Handle, WriteHead,
      WritePiece, WriteFails, EndContent, Again, CloseSocket, history
<1> SUFFICES ASSUME NEW c \in Requests, c = conn, ~unread[c] PROVE EarlyAt(c)'
  <2>1. conn # 0 => conn \in Requests
    BY DEF TypeOK, ClientType, Requests
  <2> QED
    BY <1>0, <1>u, <2>1 DEF Early, EarlyAt, IsHundred, IsAnswer
<1>1. EarlyAt(c) /\ CleanAt(c)
  BY DEF Early, Clean, Requests
<1>2. CASE c # d
  <2>1. down'[c] = down[c]
    BY <1>2, WorkerFrame
  <2> QED
    BY <1>0, <1>1, <2>1 DEF EarlyAt, IsHundred, IsAnswer
<1>3. CASE c = d
  <2>1. ASSUME NEW k \in Nat, IsAnswer(c, k)'
        PROVE  IsAnswer(c, k) \/ (WriteHead(c) /\ k \notin 1 .. Len(down[c]))
    <3>1. k \in 1 .. Len(down'[c]) /\ down'[c][k].unit = "head"
      BY <2>1 DEF IsAnswer
    <3>2. \/ k \in 1 .. Len(down[c]) /\ down'[c][k] = down[c][k]
          \/ k \notin 1 .. Len(down[c])
      BY <1>3, <3>1, DownKeeps
    <3>3. \/ k \in 1 .. Len(down[c]) /\ down'[c][k] = down[c][k]
          \/ WriteHead(c)
      BY <1>3, <3>1, DownGrows
    <3> QED
      BY <3>1, <3>2, <3>3 DEF IsAnswer
  <2>2. ASSUME NEW j \in Nat, IsHundred(c, j)'
        PROVE  IsHundred(c, j) \/ ReadLine(c)
    <3>1. j \in 1 .. Len(down'[c]) /\ down'[c][j].unit = "100"
      BY <2>2 DEF IsHundred
    <3> QED
      BY <1>3, <3>1, DownKeeps DEF IsHundred
  <2>3. CASE ReadLine(c)
    <3>1. up[c] # <<>> /\ spc[c] = "line"
      BY <2>3 DEF ReadLine, At
    <3>2. ~Nothing(c)
      BY <3>1 DEF Nothing, TypeOK, WireType
    <3>3. cpc \in {"body", "read"} /\ \A k \in Nat : ~IsAnswer(c, k)
      BY <1>1, <3>2 DEF CleanAt, TypeOK, ClientType
    <3>4. ~WriteHead(c)
      BY <3>1 DEF WriteHead, At
    <3> QED
      BY <1>0, <2>1, <3>3, <3>4 DEF EarlyAt
  <2>4. CASE WriteHead(c)
    <3>1. ~ReadLine(c) /\ Busy(c)
      BY <2>4 DEF ReadLine, WriteHead, At, Busy
    <3>2. \A k \in Nat : ~IsAnswer(c, k)
      BY <1>1, <3>1 DEF CleanAt
    <3>3. ASSUME NEW j \in Nat, IsHundred(c, j)', NEW k \in Nat, IsAnswer(c, k)'
          PROVE  j < k
      <4>1. IsHundred(c, j)
        BY <2>2, <3>1, <3>3
      <4>2. k \notin 1 .. Len(down[c])
        BY <2>1, <3>2, <3>3
      <4>3. j \in 1 .. Len(down[c]) /\ k \in 1 .. Len(down'[c])
        BY <3>3, <4>1 DEF IsHundred, IsAnswer
      <4>4. Len(down[c]) \in Nat
        BY <1>0
      <4> QED
        BY <4>2, <4>3, <4>4
    <3>4. \A j \in Nat : IsHundred(c, j)' => cpc' \in {"body", "read"}
      BY <1>0, <1>1, <2>2, <3>1 DEF EarlyAt
    <3> QED
      BY <3>3, <3>4 DEF EarlyAt
  <2>5. CASE ~ReadLine(c) /\ ~WriteHead(c)
    BY <1>0, <1>1, <2>1, <2>2, <2>5 DEF EarlyAt
  <2> QED
    BY <2>3, <2>4, <2>5
<1> QED
  BY <1>2, <1>3

LEMMA EarlyClient ==
  ASSUME TypeOK, Shape, Carried, Clean, Early, Client
  PROVE  Early'
<1>0. /\ down \in [Requests -> Seq(AnswerUnit)]
      /\ \A c \in Requests : Len(down[c]) \in Nat
      /\ UNCHANGED unread
  <2>1. down \in [Requests -> Seq(AnswerUnit)]
    BY DEF TypeOK, WireType
  <2>2. UNCHANGED unread
    BY DEF Client, Ask, WriteRequest, Write, Fail, ReadHead, ReadPiece, ReadForeign, Finish, history
  <2> QED
    BY <2>1, <2>2
<1> SUFFICES ASSUME NEW c \in Requests, c = conn', ~unread[c] PROVE EarlyAt(c)'
  <2>1. conn' # 0 => conn' \in Requests
    BY ClientStepType DEF TypeOK, ClientType, Requests
  <2> QED
    BY <1>0, <2>1 DEF Early, EarlyAt, IsHundred, IsAnswer
\* Nothing of it is left, or the client is where it may be.
<1>1. ASSUME \A j \in Nat : ~IsHundred(c, j)'
      PROVE  EarlyAt(c)'
  BY <1>1 DEF EarlyAt
<1>2. CASE Ask
  <2>1. UNCHANGED down /\ cpc = "idle"
    BY <1>2 DEF Ask
  <2>2. CASE c = conn
    <3>1. \A j \in Nat : ~IsHundred(c, j)
      BY <2>1, <2>2 DEF Early, EarlyAt, Requests
    <3> QED
      BY <1>1, <2>1, <3>1 DEF IsHundred
  <2>3. CASE c = n'
    <3>1. spc[c] = "none"
      BY <1>2, <2>3 DEF Ask, Shape, WorkerShape, WorkerShapeAt, TypeOK, ClientType
    <3>2. down[c] = <<>>
      BY <3>1 DEF Shape, WorkerShape, WorkerShapeAt
    <3> QED
      BY <1>0, <1>1, <2>1, <3>2 DEF IsHundred
  <2> QED
    BY <1>2, <2>2, <2>3 DEF Ask, Requests
<1>3. CASE ~Ask
  <2>1. c = conn /\ conn # 0 /\ cpc # "idle"
    BY <1>3 DEF Client, WriteRequest, Write, Fail, Failing, ReadHead, ReadPiece, ReadForeign, Finish, Close, Requests
  <2>2. EarlyAt(c) /\ CleanAt(c)
    BY <2>1 DEF Early, Clean
  <2>3. CASE WriteRequest
    <3>1. cpc \in {"head", "body"} /\ cpc' \in {"body", "read"}
          /\ (down'[c] = down[c] \/ down'[c] = <<>>)
      BY <1>0, <2>1, <2>3 DEF WriteRequest, Write
    <3> QED
      BY <1>0, <2>2, <3>1 DEF EarlyAt, IsHundred, IsAnswer
  <2>4. CASE Fail
    BY <2>1, <2>4 DEF Fail, Close
  <2>5. CASE cpc = "content"
    <3>1. \A j \in Nat : ~IsHundred(c, j)
      BY <2>2, <2>5 DEF EarlyAt
    <3>2. PICK s \in {0, 1} : \A k \in 1 .. Len(down'[c]) :
            k \in Nat /\ k + s \in 1 .. Len(down[c]) /\ down'[c][k] = down[c][k + s]
      BY ClientWires
    <3>3. \A j \in Nat : IsHundred(c, j)' => IsHundred(c, j + s) /\ j + s \in Nat
      BY <3>2 DEF IsHundred
    <3> QED
      BY <1>1, <3>1, <3>3
  <2>6. CASE ReadHead
    <3>1. /\ cpc = "read" /\ down[c] # <<>> /\ Take
          /\ \/ UNCHANGED cpc
             \/ Head(down[c]).unit = "head"
      BY <2>1, <2>6 DEF ReadHead
    <3>2. /\ Len(down[c]) > 0 /\ Head(down[c]) = down[c][1]
          /\ Len(down'[c]) = Len(down[c]) - 1
          /\ \A k \in 1 .. Len(down[c]) - 1 : down'[c][k] = down[c][k + 1]
      BY <2>1, <3>1, TakeShifts
    <3>3. /\ \A j \in Nat : IsHundred(c, j)' => IsHundred(c, j + 1) /\ j > 0
          /\ \A k \in Nat : IsAnswer(c, k)' => IsAnswer(c, k + 1)
      BY <1>0, <3>2 DEF IsHundred, IsAnswer
    <3>4. CASE UNCHANGED cpc
      BY <2>2, <3>1, <3>3, <3>4 DEF EarlyAt
    <3>5. CASE Head(down[c]).unit = "head"
      <4>1. IsAnswer(c, 1)
        BY <1>0, <3>2, <3>5 DEF IsAnswer
      <4>2. \A j \in Nat : ~IsHundred(c, j + 1) \/ j = 0
        BY <2>2, <4>1 DEF EarlyAt
      <4> QED
        BY <1>1, <3>3, <4>2
    <3> QED
      BY <3>1, <3>4, <3>5
  <2> QED
    BY <1>3, <2>3, <2>4, <2>5, <2>6 DEF Client, ReadPiece, ReadForeign, Finish
<1> QED
  BY <1>2, <1>3

LEMMA StepEarly == TypeOK /\ Shape /\ Carried /\ Clean /\ Early /\ [Next]_vars => Early'
<1> SUFFICES ASSUME TypeOK, Shape, Carried, Clean, Early, [Next]_vars PROVE Early'
  OBVIOUS
<1>1. CASE Next
  BY <1>1, EarlyClient, EarlyWorker DEF Next
<1>2. CASE UNCHANGED vars
  BY <1>2 DEF Early, EarlyAt, IsHundred, IsAnswer, vars
<1> QED
  BY <1>1, <1>2

-----------------------------------------------------------------------------
(***************************************************************************)
(* The pieces of a content follow each other.                              *)
(***************************************************************************)
LEMMA AfterIs ==
  /\ \A a : After([unit |-> "head", answer |-> a]) = [form |-> a.form, no |-> 0, req |-> a.req]
  /\ \A f, k : After([unit |-> "piece", form |-> f, no |-> k]) = [form |-> f, no |-> k, req |-> 0]
  /\ After([unit |-> "end"]) = [form |-> "none", no |-> 2, req |-> 0]
  /\ After([unit |-> "100"]) = [form |-> "none", no |-> 2, req |-> 0]
BY DEF After

\* What has happened on a connection has happened.
LEMMA HistoryStays ==
  ASSUME TypeOK, [Next]_vars, NEW c \in Requests
  PROVE  /\ cut[c] => cut'[c]
         /\ unread[c] => unread'[c]
         /\ stopped => stopped'
<1>0. cut \in [Requests -> BOOLEAN] /\ unread \in [Requests -> BOOLEAN]
  BY DEF TypeOK, HistoryType
<1>1. CASE Client
  BY <1>1 DEF Client, Ask, WriteRequest, Write, Fail, ReadHead, ReadPiece, ReadForeign, Finish, history
<1>2. ASSUME NEW d \in Requests, Worker(d)
      PROVE  /\ cut[c] => cut'[c]
             /\ unread[c] => unread'[c]
             /\ stopped => stopped'
  <2>1. CASE UNCHANGED history
    BY <2>1 DEF history
  <2>2. CASE Handle(d)
    BY <2>2 DEF Handle
  <2>3. CASE WriteHead(d)
    BY <1>0, <2>3 DEF WriteHead
  <2>4. CASE WriteFails(d) \/ EndContent(d)
    BY <1>0, <2>4 DEF WriteFails, EndContent, CutIfShort
  <2> QED
    BY <1>2, <2>1, <2>2, <2>3, <2>4
    DEF Worker, Loop, KeepAlive, ReadLine, ReadJunk, ReadEnd, ReadBody, NoBody, WritePiece, Again,
        CloseSocket
<1>3. CASE UNCHANGED vars
  BY <1>3 DEF vars
<1> QED
  BY <1>1, <1>2, <1>3 DEF Next

\* What is on the way, or was read last, is of a request that was sent.
LEMMA AfterWhom ==
  ASSUME TypeOK, Shape, NEW c \in Requests
  PROVE  /\ \A k \in Nat : k \in 1 .. Len(down[c]) =>
              After(down[c][k]).req \in Nat /\ After(down[c][k]).req <= n
         /\ AfterRead.req \in Nat /\ AfterRead.req <= n
         /\ Tip(c).req \in Nat /\ Tip(c).req <= n
<1>0. /\ down[c] \in Seq(AnswerUnit) /\ Len(down[c]) \in Nat /\ (down[c] = <<>> <=> Len(down[c]) = 0)
      /\ n \in Nat /\ got.req \in Nat /\ got.req <= n
  BY DEF TypeOK, WireType, ClientType, Answers, Shape, ClientShape
<1>1. ASSUME NEW k \in Nat, k \in 1 .. Len(down[c])
      PROVE  After(down[c][k]).req \in Nat /\ After(down[c][k]).req <= n
  <2> PICK u \in AnswerUnit : u = down[c][k]
    BY <1>0, <1>1
  <2>1. u.unit = "head" => u.answer.req <= n /\ u.answer.req \in Nat
    BY <1>1 DEF Shape, WorkerShape, WorkerShapeAt, AnswerUnit, Answers
  <2>2. After(u).req \in Nat /\ After(u).req <= n
    BY <1>0, <2>1 DEF After
  <2> QED
    BY <2>2
<1>2. AfterRead.req \in Nat /\ AfterRead.req <= n
  BY <1>0 DEF AfterRead
<1> QED
  BY <1>0, <1>1, <1>2 DEF Tip

\* What follows something goes on to follow it.
LEMMA LinksStay ==
  ASSUME TypeOK, Shape, NEW c \in Requests, ChainAt(c), cut[c] => cut'[c],
         \A i \in Nat : i <= n => KindOf(i)' = KindOf(i)
  PROVE  /\ \A k \in Nat : \A u, a :
              k \in 2 .. Len(down[c]) /\ u = down[c][k] /\ a = After(down[c][k - 1]) => Follows(c, u, a)'
         /\ \A u, a :
              Reads /\ down[c] # <<>> /\ u = down[c][1] /\ a = AfterRead => Follows(c, u, a)'
         /\ \A u, a : a = Tip(c) /\ Follows(c, u, a) => Follows(c, u, a)'
<1>1. ASSUME NEW u, NEW a, Follows(c, u, a), a.req \in Nat, a.req <= n
      PROVE  Follows(c, u, a)'
  <2>1. KindOf(a.req)' = KindOf(a.req)
    BY <1>1
  <2>2. Complete(a) => Complete(a)'
    BY <2>1 DEF Complete
  <2> QED
    BY <1>1, <2>2 DEF Follows
<1>2. ASSUME NEW k \in Nat, k \in 2 .. Len(down[c])
      PROVE  k - 1 \in Nat /\ k - 1 \in 1 .. Len(down[c])
  <2>1. Len(down[c]) \in Nat
    BY DEF TypeOK, WireType
  <2> QED
    BY <1>2, <2>1
<1>3. ASSUME NEW k \in Nat, NEW u, NEW a, k \in 2 .. Len(down[c]), u = down[c][k],
             a = After(down[c][k - 1])
      PROVE  Follows(c, u, a)'
  <2>1. Follows(c, u, a)
    BY <1>3 DEF ChainAt
  <2>2. a.req \in Nat /\ a.req <= n
    BY <1>2, <1>3, AfterWhom
  <2> QED
    BY <1>1, <2>1, <2>2
<1>4. ASSUME NEW u, NEW a, Reads, down[c] # <<>>, u = down[c][1], a = AfterRead
      PROVE  Follows(c, u, a)'
  <2>1. Follows(c, u, a)
    BY <1>4 DEF ChainAt
  <2>2. a.req \in Nat /\ a.req <= n
    BY <1>4, AfterWhom
  <2> QED
    BY <1>1, <2>1, <2>2
<1>5. ASSUME NEW u, NEW a, a = Tip(c), Follows(c, u, a)
      PROVE  Follows(c, u, a)'
  <2>1. a.req \in Nat /\ a.req <= n
    BY <1>5, AfterWhom
  <2> QED
    BY <1>1, <1>5, <2>1
<1> QED
  BY <1>3, <1>4, <1>5

\* A unit that follows what was written last continues the chain.
LEMMA ChainGrows ==
  ASSUME TypeOK, Shape, NEW c \in Requests, ChainAt(c), NEW u, Grown(down[c], u, down'[c]),
         UNCHANGED <<cpc, got, pieces, foreign>>, cut[c] => cut'[c],
         \A i \in Nat : i <= n => KindOf(i)' = KindOf(i),
         down[c] # <<>> \/ Reads => Follows(c, u, Tip(c)),
         down' \in [Requests -> Seq(AnswerUnit)],
         TipAt(c, After(u))'
  PROVE  ChainAt(c)'
<1>1. /\ Len(down[c]) \in Nat /\ Len(down'[c]) = Len(down[c]) + 1 /\ down'[c][Len(down[c]) + 1] = u
      /\ \A k \in 1 .. Len(down[c]) : down'[c][k] = down[c][k]
      /\ down[c] = <<>> <=> Len(down[c]) = 0
      /\ down'[c] # <<>>
  BY DEF TypeOK, WireType, Grown
<1>2. Tip(c)' = After(u)
  BY <1>1 DEF Tip, After
<1>l. /\ \A k \in Nat : \A v, a :
           k \in 2 .. Len(down[c]) /\ v = down[c][k] /\ a = After(down[c][k - 1]) => Follows(c, v, a)'
      /\ \A v, a :
           Reads /\ down[c] # <<>> /\ v = down[c][1] /\ a = AfterRead => Follows(c, v, a)'
      /\ \A v, a : a = Tip(c) /\ Follows(c, v, a) => Follows(c, v, a)'
  BY LinksStay
<1>3. ASSUME NEW k \in Nat, k \in 2 .. Len(down'[c]), NEW v, NEW a, v = down'[c][k],
             a = After(down'[c][k - 1])
      PROVE  Follows(c, v, a)'
  <2>1. CASE k \in 2 .. Len(down[c])
    <3>1. down'[c][k] = down[c][k] /\ down'[c][k - 1] = down[c][k - 1]
      <4> PICK l \in Nat : l = Len(down[c])
        BY <1>1
      <4> PICK m \in Nat : m = k - 1
        BY <2>1
      <4>1. k \in 1 .. l /\ m \in 1 .. l
        BY <2>1
      <4> QED
        BY <1>1, <4>1
    <3> QED
      BY <1>3, <1>l, <2>1, <3>1
  <2>2. CASE k = Len(down[c]) + 1
    <3>1. v = u /\ down[c] # <<>> /\ down'[c][k - 1] = down[c][Len(down[c])]
      BY <1>1, <1>3, <2>2
    <3>2. a = Tip(c)
      BY <1>3, <3>1 DEF Tip
    <3> QED
      BY <1>l, <3>1, <3>2
  <2> QED
    BY <1>1, <1>3, <2>1, <2>2
<1>4. ASSUME Reads, NEW v, NEW a, v = down'[c][1], a = AfterRead
      PROVE  Follows(c, v, a)'
  <2>1. CASE down[c] = <<>>
    <3>1. v = u /\ a = Tip(c)
      BY <1>1, <1>4, <2>1 DEF Tip
    <3> QED
      BY <1>4, <1>l, <3>1
  <2>2. CASE down[c] # <<>>
    <3>1. v = down[c][1]
      BY <1>1, <1>4, <2>2
    <3> QED
      BY <1>4, <1>l, <2>2, <3>1
  <2> QED
    BY <2>1, <2>2
<1>5. AfterRead' = AfterRead /\ (Reads' <=> Reads)
  BY DEF AfterRead, Reads
<1> QED
  BY <1>2, <1>3, <1>4, <1>5 DEF ChainAt, After

\* So does what is left when the first unit is read.
LEMMA ChainTakes ==
  ASSUME TypeOK, Shape, NEW c \in Requests, c = conn, ChainAt(c), down[c] # <<>>, Take,
         UNCHANGED <<spc, form, wrote, kind, stopped, ret, sEnd, cut>>,
         ~Reads' \/ AfterRead' = After(down[c][1])
  PROVE  ChainAt(c)'
<1>1. /\ Len(down[c]) \in Nat /\ Len(down[c]) > 0 /\ Len(down'[c]) = Len(down[c]) - 1
      /\ \A k \in 1 .. Len(down[c]) - 1 : down'[c][k] = down[c][k + 1]
      /\ down'[c] = <<>> <=> Len(down'[c]) = 0
  <2>1. conn # 0 /\ Len(down[c]) \in Nat
    BY DEF Requests, TypeOK, WireType
  <2>2. down'[c] \in Seq(AnswerUnit)
    BY <2>1, TakeShifts
  <2> QED
    BY <2>1, <2>2, TakeShifts
<1>k. \A i \in Nat : KindOf(i)' = KindOf(i)
  BY DEF KindOf
<1>l. \A k \in Nat : \A v, a :
        k \in 2 .. Len(down[c]) /\ v = down[c][k] /\ a = After(down[c][k - 1]) => Follows(c, v, a)'
  BY <1>k, LinksStay
<1>2. ASSUME NEW k \in Nat, k \in 2 .. Len(down'[c]), NEW v, NEW a, v = down'[c][k],
             a = After(down'[c][k - 1])
      PROVE  Follows(c, v, a)'
  <2>1. k + 1 \in 2 .. Len(down[c]) /\ down'[c][k] = down[c][k + 1] /\ down'[c][k - 1] = down[c][k]
    <3> DEFINE l == Len(down[c])
               m == k - 1
    <3>1. l \in Nat /\ k \in 2 .. l - 1 /\ m \in 1 .. l - 1 /\ k \in 1 .. l - 1 /\ m + 1 = k /\ k + 1 \in 2 .. l
      BY <1>1, <1>2
    <3> HIDE DEF l, m
    <3>2. \A j \in 1 .. l - 1 : down'[c][j] = down[c][j + 1]
      BY <1>1 DEF l
    <3>3. down'[c][k] = down[c][k + 1] /\ down'[c][m] = down[c][k]
      BY <3>1, <3>2
    <3> QED
      BY <3>1, <3>3 DEF l, m
  <2>2. k + 1 \in Nat /\ (k + 1) - 1 = k
    OBVIOUS
  <2> QED
    BY <1>2, <1>l, <2>1, <2>2
<1>3. ASSUME Reads', down'[c] # <<>>, NEW v, NEW a, v = down'[c][1], a = AfterRead'
      PROVE  Follows(c, v, a)'
  <2>1. down'[c][1] = down[c][2] /\ 2 \in 2 .. Len(down[c]) /\ 2 - 1 = 1 /\ 2 \in Nat
    BY <1>1, <1>3
  <2>2. a = After(down[c][2 - 1])
    BY <1>3
  <2> QED
    BY <1>3, <1>l, <2>1, <2>2
<1>4. down'[c] # <<>> \/ Reads' => Tip(c)' = Tip(c)
  <2>1. CASE down'[c] # <<>>
    BY <1>1, <2>1 DEF Tip, After
  <2>2. CASE down'[c] = <<>> /\ Reads'
    BY <1>1, <2>2 DEF Tip
  <2> QED
    BY <2>1, <2>2
<1>5. TipAt(c, Tip(c)) /\ (Tip(c)' = Tip(c) => TipAt(c, Tip(c))')
  BY DEF ChainAt, TipAt, Ending, Complete, KindOf
<1> QED
  BY <1>2, <1>3, <1>4, <1>5 DEF ChainAt, After

\* Where nothing is written or read, and no kind of a request so far changes.
LEMMA ChainStays ==
  ASSUME TypeOK, Shape, NEW c \in Requests, ChainAt(c),
         UNCHANGED <<down[c], spc[c], form[c], wrote[c], sEnd[c], ret[c]>>, stopped => stopped',
         cut[c] => cut'[c],
         ~Reads' \/ UNCHANGED <<cpc, got, pieces, foreign>>,
         \A i \in Nat : i <= n => KindOf(i)' = KindOf(i)
  PROVE  ChainAt(c)'
<1>1. down'[c] # <<>> \/ Reads' => (down[c] # <<>> \/ Reads) /\ Tip(c)' = Tip(c)
  BY DEF Tip, AfterRead, After, Reads
<1>l. /\ \A k \in Nat : \A v, a :
           k \in 2 .. Len(down[c]) /\ v = down[c][k] /\ a = After(down[c][k - 1]) => Follows(c, v, a)'
      /\ \A v, a :
           Reads /\ down[c] # <<>> /\ v = down[c][1] /\ a = AfterRead => Follows(c, v, a)'
  BY LinksStay
<1>2. ASSUME NEW k \in Nat, k \in 2 .. Len(down'[c]), NEW v, NEW a, v = down'[c][k],
             a = After(down'[c][k - 1])
      PROVE  Follows(c, v, a)'
  BY <1>2, <1>l
<1>4. ASSUME Reads', down'[c] # <<>>, NEW v, NEW a, v = down'[c][1], a = AfterRead'
      PROVE  Follows(c, v, a)'
  <2>1. Reads /\ a = AfterRead
    BY <1>4 DEF Reads, AfterRead
  <2> QED
    BY <1>4, <1>l, <2>1
<1>3. ASSUME down'[c] # <<>> \/ Reads'
      PROVE  TipAt(c, Tip(c))'
  <2> PICK a : a = Tip(c)
    OBVIOUS
  <2>1. KindOf(a.req)' = KindOf(a.req) /\ Tip(c)' = a /\ TipAt(c, a)
    <3>1. a.req \in Nat /\ a.req <= n
      BY AfterWhom
    <3>3. TipAt(c, a)
      BY <1>1, <1>3 DEF ChainAt
    <3> QED
      BY <1>1, <1>3, <3>1, <3>3
  <2>2. TipAt(c, a)'
    BY <2>1 DEF TipAt, Ending, Complete
  <2> QED
    BY <2>1, <2>2 DEF TipAt, Ending, Complete, KindOf
<1> QED
  BY <1>2, <1>3, <1>4 DEF ChainAt, After

LEMMA ChainOwnWorker ==
  ASSUME TypeOK, Shape, NEW c \in Requests, c = conn, ChainAt(c), Worker(c)
  PROVE  ChainAt(c)'
<1>0. /\ UNCHANGED <<cpc, n, kind, conn, got, pieces, foreign>> /\ cOpen[c] /\ (stopped => stopped')
      /\ spc \in [Requests -> {"none", "loop", "wait", "line", "route", "handle", "answer",
                               "content", "done", "close", "closed"}]
      /\ down \in [Requests -> Seq(AnswerUnit)] /\ down' \in [Requests -> Seq(AnswerUnit)]
      /\ ret \in [Requests -> BOOLEAN] /\ form \in [Requests -> AllForms] /\ wrote \in [Requests -> Nat]
      /\ sEnd \in [Requests -> {"open", "graceful", "abrupt"}] /\ cut \in [Requests -> BOOLEAN]
  <2>1. TypeOK' /\ cOpen[c]
    BY WorkerStepType DEF Shape, ClientShape, Requests
  <2>2. UNCHANGED <<cpc, n, kind, conn, got, pieces, foreign>> /\ (stopped => stopped')
    BY WorkerFrame DEF client
  <2> QED
    BY <2>1, <2>2 DEF TypeOK, WireType, WorkerType, HistoryType
<1>1. WorkerShapeAt(c)
  BY DEF Shape, WorkerShape
<1>h. cut[c] => cut'[c]
  BY HistoryStays DEF Next
<1>k. \A i \in Nat : KindOf(i)' = KindOf(i)
  BY <1>0 DEF KindOf
<1>r. Reads' = Reads /\ (UNCHANGED down[c] => Tip(c)' = Tip(c))
  BY <1>0 DEF Reads, Tip, AfterRead, After
\* Where nothing is written.
<1>2. ASSUME UNCHANGED down[c], down[c] # <<>> \/ Reads => TipAt(c, Tip(c))'
      PROVE  ChainAt(c)'
  <2>l. /\ \A k \in Nat : \A v, a :
             k \in 2 .. Len(down[c]) /\ v = down[c][k] /\ a = After(down[c][k - 1]) => Follows(c, v, a)'
        /\ \A v, a :
             Reads /\ down[c] # <<>> /\ v = down[c][1] /\ a = AfterRead => Follows(c, v, a)'
    BY <1>h, <1>k, LinksStay
  <2>1. ASSUME NEW k \in Nat, k \in 2 .. Len(down'[c]), NEW v, NEW a, v = down'[c][k],
               a = After(down'[c][k - 1])
        PROVE  Follows(c, v, a)'
    BY <1>2, <2>1, <2>l
  <2>2. ASSUME Reads', down'[c] # <<>>, NEW v, NEW a, v = down'[c][1], a = AfterRead'
        PROVE  Follows(c, v, a)'
    <3>1. Reads /\ a = AfterRead
      BY <1>0, <2>2 DEF Reads, AfterRead
    <3> QED
      BY <1>2, <2>2, <2>l, <3>1
  <2> QED
    BY <1>2, <1>r, <2>1, <2>2 DEF ChainAt, After
\* Where nothing is, and the worker is not at a content.
<1>q. ASSUME UNCHANGED down[c], spc[c] # "content", spc'[c] # "content", Ending(c) => Ending(c)',
             sEnd[c] = "abrupt" => sEnd'[c] = "abrupt"
      PROVE  ChainAt(c)'
  <2>1. ASSUME down[c] # <<>> \/ Reads
        PROVE  TipAt(c, Tip(c))'
    <3> PICK a : a = Tip(c)
      OBVIOUS
    <3>1. TipAt(c, a) /\ a.req \in Nat /\ Tip(c)' = a
      BY <1>q, <1>r, <2>1, AfterWhom DEF ChainAt
    <3>2. KindOf(a.req)' = KindOf(a.req)
      BY <1>k, <3>1
    <3>3. TipAt(c, a)'
      BY <1>h, <1>q, <3>1, <3>2 DEF TipAt, Complete
    <3> QED
      BY <3>1, <3>3 DEF TipAt, Ending, Complete, KindOf
  <2> QED
    BY <1>2, <1>q, <2>1
\* Where a unit is.
<1>3. ASSUME NEW u \in AnswerUnit, Send(c, <<u>>),
             down[c] # <<>> \/ Reads => Follows(c, u, Tip(c)),
             TipAt(c, After(u))'
      PROVE  ChainAt(c)'
  <2>1. Grown(down[c], u, down'[c])
    BY <1>0, <1>3, SendGrows
  <2> QED
    BY <1>0, <1>3, <1>h, <1>k, <2>1, ChainGrows
<1>4. ASSUME Send(c, <<>>)
      PROVE  UNCHANGED down
  BY <1>0, <1>4, SendNothing
\* An answer may be written when the one before is complete, or as good as that.
<1>a. ASSUME spc[c] \notin {"content", "done", "loop", "close", "closed"}, down[c] # <<>> \/ Reads
      PROVE  Complete(Tip(c)) \/ (Tip(c).form = "plain" /\ cut[c])
  BY <1>1, <1>a DEF ChainAt, TipAt, Ending, WorkerShapeAt
<1>5. CASE Loop(c) \/ KeepAlive(c) \/ ReadEnd(c) \/ ReadJunk(c) \/ ReadBody(c) \/ NoBody(c)
           \/ Handle(c) \/ Again(c)
  <2>1. UNCHANGED <<down[c], sEnd[c]>> /\ spc[c] # "content" /\ spc'[c] # "content"
    BY <1>0, <1>5 DEF Loop, KeepAlive, ReadEnd, ReadJunk, ReadBody, NoBody, Handle, Again, At
  <2>2. Ending(c) => Ending(c)'
    <3>1. CASE Loop(c)
      BY <1>0, <3>1 DEF Loop, Ending
    <3>2. CASE Again(c)
      <4>1. spc[c] = "done" /\ spc'[c] \in {"loop", "close"} /\ (~ret[c] => spc'[c] = "close")
        BY <1>0, <3>2 DEF Again, At
      <4> QED
        BY <1>0, <4>1 DEF Ending
    <3>3. CASE spc[c] \notin {"done", "loop", "close", "closed"}
      BY <3>3 DEF Ending
    <3> QED
      BY <1>5, <3>1, <3>2, <3>3 DEF KeepAlive, ReadEnd, ReadJunk, ReadBody, NoBody, Handle, At
  <2> QED
    BY <1>q, <2>1, <2>2
<1>6. CASE ReadLine(c)
  <2>1. UNCHANGED <<ret, sEnd>> /\ \E there \in {"answer", "route"} : At(c, "line", there)
    BY <1>6 DEF ReadLine
  <2>2. spc[c] = "line" /\ spc'[c] \in {"answer", "route"}
    BY <1>0, <2>1 DEF At
  <2>3. CASE Send(c, <<>>)
    <3>1. ~Ending(c)
      BY <2>2 DEF Ending
    <3> QED
      BY <1>4, <1>q, <2>1, <2>2, <2>3, <3>1
  <2>4. CASE Send(c, <<[unit |-> "100"]>>)
    <3> DEFINE u == [unit |-> "100"]
    <3>1. u \in AnswerUnit /\ u.unit = "100" /\ After(u).form = "none" /\ After(u).no = 2
      BY Values, AfterIs
    <3> HIDE DEF u
    <3>2. After(u)' = After(u) /\ (down[c] # <<>> \/ Reads => Follows(c, u, Tip(c)))
      BY <1>a, <2>2, <3>1 DEF After, Follows, u
    <3>3. TipAt(c, After(u))'
      BY <2>2, <3>1, <3>2 DEF TipAt, Complete, Pieces
    <3> QED
      BY <1>3, <2>4, <3>1, <3>2, <3>3 DEF u
  <2> QED
    BY <1>6, <2>3, <2>4 DEF ReadLine
<1>7. CASE WriteHead(c)
  <2> DEFINE a == [req |-> cur[c], form |-> form[c], close |-> left[c] = 1 \/ Bye(c)]
             u == [unit |-> "head", answer |-> a]
  <2>1. a \in Answers
    <3>1. (left[c] = 1 \/ Bye(c)) \in BOOLEAN
      BY Zenon
    <3>2. cur[c] \in 0 .. MaxRequests /\ form[c] \in AllForms
      BY DEF TypeOK, WorkerType
    <3> QED
      BY <3>1, <3>2, Values
  <2>2. /\ Send(c, <<u>>) /\ UNCHANGED <<form, cur, wrote>>
        /\ spc[c] = "answer" /\ spc'[c] = IF KindOf(cur[c]) = "head" THEN "done" ELSE "content"
    BY <1>0, <1>7 DEF WriteHead, At, Kind
  <2>3. u \in AnswerUnit /\ u.unit = "head" /\ After(u) = [form |-> form[c], no |-> 0, req |-> cur[c]]
    BY <2>1, Values, AfterIs
  <2>4. wrote[c] = 0
    BY <1>1, <2>2 DEF WorkerShapeAt
  <2>5. down[c] # <<>> \/ Reads => Follows(c, u, Tip(c))
    BY <1>a, <2>2, <2>3 DEF Follows
  <2>6. KindOf(cur[c])' = KindOf(cur[c])
    BY <1>0, <2>2 DEF KindOf
  <2> PICK v \in AnswerUnit : v = u
    BY <2>3
  <2>7. Send(c, <<v>>) /\ (down[c] # <<>> \/ Reads => Follows(c, v, Tip(c)))
        /\ After(v) = [form |-> form[c], no |-> 0, req |-> cur[c]]
    BY <2>2, <2>3, <2>5
  <2> HIDE DEF u
  <2>8. After(v)' = After(v)
    BY DEF After
  <2>9. /\ After(v).form = form[c] /\ After(v).no = 0 /\ After(v).req = cur[c]
        /\ form'[c] = form[c] /\ wrote'[c] = 0
    BY <2>2, <2>4, <2>7
  <2>10. TipAt(c, After(v))'
    <3>1. CASE KindOf(cur[c]) = "head"
      BY <2>2, <2>6, <2>8, <2>9, <3>1 DEF TipAt, KindOf, Complete
    <3>2. CASE KindOf(cur[c]) # "head"
      <4>1. Pieces(form[c]) \in {0, 1, 2}
        BY DEF Pieces
      <4> QED
        BY <2>2, <2>6, <2>8, <2>9, <3>2, <4>1 DEF TipAt, KindOf, Pieces
    <3> QED
      BY <3>1, <3>2
  <2> QED
    BY <1>3, <2>7, <2>10
<1>8. CASE WritePiece(c)
  <2> DEFINE u == [unit |-> "piece", form |-> form[c], no |-> wrote[c] + 1]
  <2>1. /\ Send(c, <<u>>) /\ UNCHANGED <<form, spc>> /\ wrote'[c] = wrote[c] + 1 /\ spc[c] = "content"
        /\ wrote[c] < Pieces(form[c])
    BY <1>0, <1>8 DEF WritePiece
  <2>2. u \in AnswerUnit /\ u.unit = "piece" /\ u.form = form[c] /\ u.no = wrote[c] + 1
        /\ After(u) = [form |-> form[c], no |-> wrote[c] + 1, req |-> 0]
    <3>1. PICK m \in Nat : m = wrote[c] + 1
      BY <1>0
    <3>2. After([unit |-> "piece", form |-> form[c], no |-> m]) = [form |-> form[c], no |-> m, req |-> 0]
      BY AfterIs, Zenon
    <3>3. After(u) = [form |-> form[c], no |-> wrote[c] + 1, req |-> 0]
      BY <3>1, <3>2, Zenon
    <3>4. form[c] \in AllForms /\ wrote[c] + 1 \in Nat
      BY <1>0
    <3>5. u \in AnswerUnit /\ u.unit = "piece" /\ u.form = form[c] /\ u.no = wrote[c] + 1
      BY <3>4, Values
    <3> QED
      BY <3>3, <3>5, Zenon
  <2>3. down[c] # <<>> \/ Reads => Follows(c, u, Tip(c))
    BY <2>1, <2>2 DEF ChainAt, TipAt, Follows
  <2> PICK v \in AnswerUnit : v = u
    BY <2>2
  <2>4. Send(c, <<v>>) /\ (down[c] # <<>> \/ Reads => Follows(c, v, Tip(c)))
        /\ After(v).form = form[c] /\ After(v).no = wrote[c] + 1 /\ After(v).req = 0
    BY <2>1, <2>2, <2>3
  <2> HIDE DEF u
  <2>5. After(v)' = After(v)
    BY DEF After
  <2>6. wrote'[c] <= Pieces(form'[c])
    <3> PICK m \in {0, 1, 2} : m = Pieces(form[c])
      BY DEF Pieces
    <3>1. wrote[c] + 1 <= m /\ Pieces(form'[c]) = m
      BY <1>0, <2>1 DEF Pieces
    <3> QED
      BY <2>1, <3>1
  <2>7. TipAt(c, After(v))'
    BY <2>1, <2>4, <2>5, <2>6 DEF TipAt, KindOf, Pieces
  <2> QED
    BY <1>3, <2>4, <2>7
\* What is left of a content when it is ended is cut.
<1>e. ASSUME spc[c] = "content", spc'[c] = "done", UNCHANGED <<form[c], wrote[c], down[c]>>,
             wrote[c] < Pieces(form[c]) => cut'[c] /\ (form[c] = "plain" \/ Ending(c)')
      PROVE  ChainAt(c)'
  <2>1. ASSUME down[c] # <<>> \/ Reads
        PROVE  TipAt(c, Tip(c))'
    <3> PICK a : a = Tip(c)
      OBVIOUS
    <3> PICK m \in {0, 1, 2} : m = Pieces(form[c])
      BY DEF Pieces
    <3>1. /\ a.form = form[c] /\ a.no = wrote[c] /\ wrote[c] <= m /\ Tip(c)' = a
      BY <1>e, <1>r, <2>1 DEF ChainAt, TipAt
    <3>2. CASE wrote[c] = m
      <4>1. a.no = Pieces(a.form)
        BY <3>1, <3>2
      <4>2. Complete(a)'
        BY <4>1 DEF Complete, Pieces
      <4> QED
        BY <1>e, <3>1, <4>2 DEF TipAt, Complete, Pieces, KindOf
    <3>3. CASE wrote[c] < m
      BY <1>e, <3>1, <3>3 DEF TipAt
    <3> QED
      BY <1>0, <3>1, <3>2, <3>3
  <2> QED
    BY <1>2, <1>e, <2>1
<1>9. CASE WriteFails(c)
  <2>1. /\ spc[c] = "content" /\ spc'[c] = "done" /\ UNCHANGED <<form, wrote, down>>
        /\ wrote[c] < Pieces(form[c]) => cut'[c]
        /\ Provided(c) => ~ret'[c]
        /\ wrote[c] < Pieces(form[c]) \/ form[c] \in {"chunked", "stream"}
    BY <1>0, <1>9 DEF WriteFails, CutIfShort, At
  <2>2. ASSUME wrote[c] < Pieces(form[c]), ~Provided(c)
        PROVE  form[c] = "plain"
    <3>1. form[c] \in {"empty", "plain"}
      BY <1>0, <2>2 DEF Provided, AllForms
    <3>2. form[c] # "empty"
      BY <1>0, <2>2 DEF Pieces
    <3> QED
      BY <3>1, <3>2
  <2> QED
    BY <1>e, <2>1, <2>2 DEF Ending
<1>10. CASE EndContent(c)
  <2>1. /\ spc[c] = "content" /\ spc'[c] = "done" /\ UNCHANGED <<form, wrote, ret, stopped>>
        /\ wrote[c] = Pieces(form[c]) \/ (Provided(c) /\ stopped)
        /\ wrote[c] < Pieces(form[c]) => cut'[c]
    BY <1>0, <1>10 DEF EndContent, CutIfShort, At
  <2>3. CASE Send(c, <<>>)
    <3>1. UNCHANGED down
      BY <1>4, <2>3
    <3>2. wrote[c] < Pieces(form[c]) => Ending(c)'
      <4> PICK m \in {0, 1, 2} : m = Pieces(form[c])
        BY DEF Pieces
      <4>1. wrote[c] < m => stopped'
        BY <1>0, <2>1
      <4> QED
        BY <2>1, <4>1 DEF Ending
    <3> QED
      BY <1>e, <2>1, <3>1, <3>2
  <2>4. CASE Send(c, <<[unit |-> "end"]>>) /\ form[c] = "chunked" /\ ~stopped
    <3> DEFINE u == [unit |-> "end"]
    <3>1. u \in AnswerUnit /\ u.unit = "end" /\ After(u).form = "none" /\ After(u).no = 2
      BY Values, AfterIs
    <3> HIDE DEF u
    <3>2. After(u)' = After(u)
      BY DEF After, u
    <3>3. wrote[c] = 2
      BY <2>1, <2>4 DEF Pieces
    <3>4. down[c] # <<>> \/ Reads => Follows(c, u, Tip(c))
      BY <2>1, <2>4, <3>1, <3>3 DEF ChainAt, TipAt, Follows
    <3>5. TipAt(c, After(u))'
      BY <2>1, <3>1, <3>2 DEF TipAt, Complete, Pieces
    <3> QED
      BY <1>3, <2>4, <3>1, <3>4, <3>5 DEF u
  <2> QED
    BY <1>10, <2>3, <2>4 DEF EndContent
<1>11. CASE CloseSocket(c)
  <2>1. spc[c] = "close" /\ spc'[c] = "closed" /\ Ending(c)' /\ sEnd[c] = "open"
    BY <1>0, <1>1, <1>11 DEF CloseSocket, At, Ending, WorkerShapeAt
  <2>2. CASE UNCHANGED down
    BY <1>q, <2>1, <2>2
  <2>3. CASE down' = [down EXCEPT ![c] = <<>>] /\ sEnd' = [sEnd EXCEPT ![c] = "abrupt"]
    <3>1. down'[c] = <<>> /\ Len(down'[c]) = 0 /\ sEnd'[c] = "abrupt"
      BY <1>0, <2>3
    <3> QED
      BY <2>1, <3>1 DEF ChainAt, TipAt
  <2> QED
    BY <1>11, <2>2, <2>3 DEF CloseSocket
<1> QED
  BY <1>5, <1>6, <1>7, <1>8, <1>9, <1>10, <1>11 DEF Worker

LEMMA ChainWorker ==
  ASSUME TypeOK, Shape, Chain, NEW d \in Requests, Worker(d)
  PROVE  Chain'
<1>0. UNCHANGED <<cpc, n, kind, conn, got, pieces, foreign>> /\ (stopped => stopped')
  BY WorkerFrame DEF client
<1>1. ASSUME conn # 0
      PROVE  ChainAt(conn)'
  <2> PICK c \in Requests : c = conn
    BY <1>1 DEF TypeOK, ClientType, Requests
  <2>1. ChainAt(c)
    BY <1>1 DEF Chain
  <2>2. ChainAt(c)'
    <3>1. CASE c = d
      BY <2>1, <3>1, ChainOwnWorker
    <3>2. CASE c # d
      <4>1. UNCHANGED <<down[c], spc[c], form[c], wrote[c], sEnd[c], ret[c]>>
        BY <3>2, WorkerFrame
      <4>2. \A i \in Nat : i <= n => KindOf(i)' = KindOf(i)
        BY <1>0 DEF KindOf
      <4>3. cut[c] => cut'[c]
        BY HistoryStays DEF Next
      <4> QED
        BY <1>0, <2>1, <4>1, <4>2, <4>3, ChainStays
    <3> QED
      BY <3>1, <3>2
  <2> QED
    BY <1>0, <2>2 DEF ChainAt, Tip, TipAt, Ending, Follows
<1> QED
  BY <1>0, <1>1 DEF Chain

LEMMA ChainClient ==
  ASSUME TypeOK, Shape, Chain, Client
  PROVE  Chain'
<1>0. /\ n \in Nat /\ conn \in 0 .. MaxRequests /\ (cpc # "idle" => conn \in Requests)
      /\ kind \in [Requests -> AllKinds \cup {"none"}]
      /\ down \in [Requests -> Seq(AnswerUnit)] /\ sEnd \in [Requests -> {"open", "graceful", "abrupt"}]
      /\ MaxRequests \in Nat
  BY ExchangeAssumption DEF TypeOK, ClientType, WireType, WorkerType, Requests
<1>1. CASE Ask
  <2>1. CASE conn' = conn /\ conn # 0
    <3>1. /\ cpc' # "content" /\ UNCHANGED <<down, sEnd, form, wrote, ret, stopped, cut, spc>>
          /\ n < MaxRequests /\ \E k \in Kinds : kind' = [kind EXCEPT ![n + 1] = k]
      <4>1. /\ n' = n + 1 /\ n < MaxRequests /\ \E k \in Kinds : kind' = [kind EXCEPT ![n + 1] = k]
            /\ UNCHANGED <<down, sEnd, form, wrote, ret, stopped, cut>>
        BY <1>1 DEF Ask, history
      <4>2. conn <= n /\ conn # n + 1
        BY <1>0 DEF TypeOK, ClientType
      <4>3. UNCHANGED spc /\ cpc' = "head"
        BY <1>1, <2>1, <4>1, <4>2 DEF Ask
      <4> QED
        BY <4>1, <4>3
    <3>2. \A i \in Nat : i <= n => KindOf(i)' = KindOf(i)
      BY <1>0, <3>1 DEF KindOf, Requests
    <3> PICK c \in Requests : c = conn
      BY <1>0, <2>1 DEF Requests
    <3>3. ChainAt(c)'
      BY <2>1, <3>1, <3>2, ChainStays DEF Chain, Reads
    <3> QED
      BY <2>1, <3>3 DEF Chain, ChainAt, Tip, TipAt, Ending, Follows
  <2>2. CASE conn' = n'
    <3> PICK c \in Requests : c = n + 1
      BY <1>0, <1>1 DEF Ask, Requests
    <3>1. down[c] = <<>>
      BY <1>0 DEF Shape, WorkerShape, WorkerShapeAt
    <3>2. down'[c] = <<>> /\ cpc' # "content" /\ Len(down'[c]) = 0 /\ conn' = c
      BY <1>1, <2>2, <3>1 DEF Ask
    <3>3. ChainAt(c)'
      BY <3>2 DEF ChainAt, Reads
    <3> QED
      BY <3>2, <3>3 DEF Chain, ChainAt, Tip, TipAt, Ending, Follows
  <2> QED
    BY <1>1, <2>1, <2>2 DEF Ask, Chain
<1>2. CASE Fail
  BY <1>2 DEF Fail, Close, Chain
\* The other actions keep the connection, or close it.
<1>3. ASSUME NEW c \in Requests, c = conn, ChainAt(c), cpc # "idle", conn' = conn,
             WriteRequest \/ ReadHead \/ ReadPiece \/ ReadForeign \/ Finish
      PROVE  ChainAt(c)'
  <2>1. UNCHANGED <<n, kind, spc, form, wrote, ret, stopped, cut>>
        /\ (ReadHead \/ ReadPiece \/ ReadForeign \/ Finish => UNCHANGED sEnd)
    BY <1>3 DEF WriteRequest, Write, ReadHead, ReadPiece, ReadForeign, Finish, worker, history
  <2>2. \A i \in Nat : i <= n => KindOf(i)' = KindOf(i)
    BY <2>1 DEF KindOf
  <2>3. CASE WriteRequest
    <3>1. PICK u \in {[unit |-> "head", req |-> n], [unit |-> "body", req |-> n]}, next \in {"body", "read"} :
            Write(u, next)
      BY <2>3 DEF WriteRequest
    <3>2. cpc' # "content" /\ (UNCHANGED <<down[c], sEnd[c]>> \/ down'[c] = <<>>)
      BY <1>0, <1>3, <3>1 DEF Write
    <3>3. CASE UNCHANGED <<down[c], sEnd[c]>>
      BY <1>3, <2>1, <2>2, <3>2, <3>3, ChainStays DEF Reads
    <3>4. CASE down'[c] = <<>>
      <4>1. Len(down'[c]) = 0
        BY <3>4
      <4> QED
        BY <3>2, <3>4, <4>1 DEF ChainAt, Reads
    <3> QED
      BY <3>2, <3>3, <3>4
  <2>4. CASE ReadHead
    <3> PICK u \in AnswerUnit : u = down[c][1]
      BY <1>0, <1>3, <2>4 DEF ReadHead
    <3>1. down[c] # <<>> /\ Take /\ Head(down[conn]) = u /\ cpc = "read" /\ pieces = 0 /\ pieces' = 0
      BY <1>0, <1>3, <2>4 DEF ReadHead, Shape, ClientShape
    <3>u. UNCHANGED <<spc, form, wrote, kind, stopped, ret, sEnd, cut>>
      BY <2>1, <2>4
    <3>2. CASE u.unit = "100" /\ UNCHANGED <<cpc, got>>
      <4>1. cpc' # "content"
        BY <3>1, <3>2
      <4> QED
        BY <1>3, <3>1, <3>u, <4>1, ChainTakes DEF Reads
    <3>3. CASE u.unit = "head" /\ got' = u.answer
      <4>1. AfterRead' = After(u)
        BY <3>1, <3>3 DEF AfterRead, After
      <4> QED
        BY <1>3, <3>1, <3>u, <4>1, ChainTakes
    <3> QED
      BY <2>4, <3>1, <3>2, <3>3 DEF ReadHead
  <2>5. CASE ReadPiece
    <3> PICK u \in AnswerUnit : u = down[c][1]
      BY <1>0, <1>3, <2>5 DEF ReadPiece
    <3>1. /\ down[c] # <<>> /\ Take /\ u.unit = "piece" /\ pieces' = pieces + 1 /\ got' = got
          /\ Reads /\ pieces \in Nat
      BY <1>0, <1>3, <2>5 DEF ReadPiece, Reads, TypeOK, ClientType
    <3>2. Follows(c, u, AfterRead)
      BY <1>3, <3>1 DEF ChainAt
    <3>3. AfterRead' = After(u)
      BY <3>1, <3>2 DEF AfterRead, After, Follows
    <3>4. UNCHANGED <<spc, form, wrote, kind, stopped, ret, sEnd, cut>>
      BY <2>1, <2>5
    <3> QED
      BY <1>3, <3>1, <3>3, <3>4, ChainTakes
  <2>6. CASE Finish
    <3>1. cpc' = "idle" /\ (UNCHANGED down \/ (Take /\ down[c] # <<>>))
      BY <1>3, <2>6 DEF Finish, AllRead
    <3>u. UNCHANGED <<spc, form, wrote, kind, stopped, ret, sEnd, cut>>
      BY <2>1, <2>6
    <3>2. CASE UNCHANGED down
      <4>1. UNCHANGED <<down[c], spc[c], form[c], wrote[c], sEnd[c], ret[c]>> /\ (stopped => stopped')
            /\ cpc' # "content"
        BY <3>1, <3>2, <3>u
      <4> QED
        BY <1>3, <2>2, <3>u, <4>1, ChainStays DEF Reads
    <3>3. CASE Take /\ down[c] # <<>>
      <4>1. cpc' # "content"
        BY <3>1
      <4> QED
        BY <1>3, <3>3, <3>u, <4>1, ChainTakes DEF Reads
    <3> QED
      BY <3>1, <3>2, <3>3
  <2>7. CASE ReadForeign
    <3>1. down[c] # <<>> /\ (UNCHANGED down \/ Take) /\ foreign' = TRUE
      BY <1>3, <2>7 DEF ReadForeign
    <3>2. ~Reads'
      BY <3>1 DEF Reads
    <3>3. UNCHANGED <<spc, form, wrote, kind, stopped, ret, sEnd, cut>>
      BY <2>1, <2>7
    <3>4. CASE UNCHANGED down
      <4>1. UNCHANGED <<down[c], spc[c], form[c], wrote[c], sEnd[c], ret[c]>> /\ (stopped => stopped')
            /\ (cut[c] => cut'[c])
        BY <3>3, <3>4
      <4> QED
        BY <1>3, <2>2, <3>2, <4>1, ChainStays
    <3>5. CASE Take
      BY <1>3, <3>1, <3>2, <3>3, <3>5, ChainTakes
    <3> QED
      BY <3>1, <3>4, <3>5
  <2> QED
    BY <1>3, <2>3, <2>4, <2>5, <2>6, <2>7
<1>4. CASE WriteRequest \/ ReadHead \/ ReadPiece \/ ReadForeign \/ Finish
  <2>1. cpc # "idle" /\ (conn' = conn \/ conn' = 0)
    BY <1>4 DEF WriteRequest, Write, ReadHead, ReadPiece, ReadForeign, Finish, Close
  <2>2. ASSUME conn' # 0
        PROVE  Chain'
    <3> PICK c \in Requests : c = conn
      BY <1>0, <2>1
    <3>1. c # 0 /\ ChainAt(c) /\ conn' = c
      BY <2>1, <2>2 DEF Chain, Requests
    <3>2. ChainAt(c)'
      BY <1>3, <1>4, <2>1, <3>1
    <3>3. conn' = c
      BY <3>1
    <3> QED
      BY <3>2, <3>3 DEF Chain, ChainAt, Tip, TipAt, Ending, Follows
  <2> QED
    BY <2>2 DEF Chain
<1> QED
  BY <1>1, <1>2, <1>4 DEF Client

LEMMA StepChain == TypeOK /\ Shape /\ Chain /\ [Next]_vars => Chain'
<1> SUFFICES ASSUME TypeOK, Shape, Chain, [Next]_vars PROVE Chain'
  OBVIOUS
<1>1. CASE Next
  BY <1>1, ChainClient, ChainWorker DEF Next
<1>2. CASE UNCHANGED vars
  BY <1>2, SMTT(30)
  DEF Chain, ChainAt, Reads, Tip, TipAt, Ending, Complete, AfterRead, After, Follows, KindOf, vars
<1> QED
  BY <1>1, <1>2

\* Where the next answer is read as content, it was written early; and the
\* content is all read, as far as there is any.
LEMMA StepForeign ==
  TypeOK /\ Shape /\ Clean /\ Early /\ Chain /\ ForeignOk /\ [Next]_vars => ForeignOk'
<1> SUFFICES ASSUME TypeOK, Shape, Clean, Early, Chain, ForeignOk, [Next]_vars
             PROVE  ForeignOk'
  OBVIOUS
\* What is foreign stays so while the client is at the content.
<1>1. ASSUME UNCHANGED <<cpc, n, kind, conn, got, pieces, foreign>>
      PROVE  ForeignOk'
  <2>1. ASSUME foreign
        PROVE  (unread[conn] => unread'[conn]) /\ (cut[conn] => cut'[conn])
    <3>1. conn \in Requests
      BY <2>1 DEF ForeignOk, TypeOK, ClientType, Requests
    <3> QED
      BY <3>1, HistoryStays
  <2>2. KindOf(got.req)' = KindOf(got.req)
    BY <1>1 DEF KindOf
  <2> QED
    BY <1>1, <2>1, <2>2 DEF ForeignOk
\* Or nothing is.
<1>2. ASSUME foreign' = FALSE
      PROVE  ForeignOk'
  BY <1>2 DEF ForeignOk
<1>3. CASE ReadForeign
  <2>1. /\ cpc = "content" /\ UNCHANGED <<cpc, n, kind, conn, got, pieces, unread, cut>>
        /\ foreign \/ Head(down[conn]).unit # "piece"
        /\ got.form = "stream" \/ (got.form \in {"plain", "length"} /\ pieces < Pieces(got.form))
        /\ kind[n] # "head" /\ down[conn] # <<>>
    BY <1>3 DEF ReadForeign, history
  <2>2. KindOf(got.req)' = KindOf(got.req)
    BY <2>1 DEF KindOf
  <2>3. CASE foreign
    BY <2>1, <2>2, <2>3 DEF ForeignOk
  <2>4. CASE ~foreign /\ KindOf(got.req) # "head"
    <3> PICK c \in Requests : c = conn
      BY <2>1 DEF TypeOK, ClientType, Requests
    <3>1. down[c] \in Seq(AnswerUnit) /\ down[c] # <<>> /\ 1 \in 1 .. Len(down[c]) /\ 1 \in Nat
      BY <2>1 DEF TypeOK, WireType
    <3> PICK u \in AnswerUnit : u = down[c][1]
      BY <3>1
    <3>2. u.unit # "piece" /\ u.unit \in {"100", "end", "head", "piece"}
      BY <2>1, <2>4 DEF AnswerUnit
    <3>3. Follows(c, u, AfterRead) /\ c # 0
      BY <2>1, <2>4, <3>1 DEF Chain, ChainAt, Reads, Requests
    <3>4. /\ AfterRead.form = got.form /\ AfterRead.no = pieces /\ KindOf(AfterRead.req) # "head"
          /\ pieces \in Nat
      <4>1. AfterRead.req = got.req \/ AfterRead.req = 0
        BY DEF AfterRead
      <4>2. KindOf(AfterRead.req) # "head"
        BY <2>4, <4>1 DEF KindOf
      <4> QED
        BY <4>2 DEF AfterRead, TypeOK, ClientType
    <3>5. u.unit \in {"head", "100"}
      BY <2>1, <3>2, <3>3, <3>4 DEF Follows
    <3>6. (got.form = "stream" /\ pieces = 2) \/ (got.form = "plain" /\ cut[c])
      <4>1. pieces = Pieces(got.form) \/ (got.form = "plain" /\ cut[c])
        BY <3>3, <3>4, <3>5 DEF Follows, Complete
      <4>2. CASE got.form = "stream"
        BY <4>1, <4>2 DEF Pieces
      <4>3. CASE got.form # "stream"
        <5> PICK m \in {0, 1, 2} : m = Pieces(got.form)
          BY DEF Pieces
        <5>1. pieces # m
          BY <2>1, <3>4, <4>3
        <5> QED
          BY <4>1, <5>1
      <4> QED
        BY <4>2, <4>3
    <3>7. unread[c]
      <4> SUFFICES ASSUME ~unread[c] PROVE FALSE
        OBVIOUS
      <4>1. CleanAt(c) /\ EarlyAt(c)
        BY <3>3 DEF Clean, Early
      <4>2. ~IsAnswer(c, 1) /\ ~IsHundred(c, 1)
        BY <2>1, <3>1, <4>1 DEF CleanAt, EarlyAt
      <4> QED
        BY <3>1, <3>5, <4>2 DEF IsAnswer, IsHundred
    <3> QED
      BY <2>1, <3>6, <3>7 DEF ForeignOk
  <2> QED
    BY <2>1, <2>2, <2>3, <2>4 DEF ForeignOk
<1>4. CASE Ask \/ WriteRequest \/ ReadHead
  <2>1. foreign' = foreign /\ cpc # "content"
    BY <1>4 DEF Ask, WriteRequest, Write, ReadHead
  <2>2. foreign' = FALSE
    BY <2>1 DEF ForeignOk, TypeOK, ClientType
  <2> QED
    BY <1>2, <2>2
<1>5. CASE Fail \/ Finish \/ ReadPiece
  <2>1. foreign' = FALSE
    BY <1>5 DEF Fail, Finish, ReadPiece, TypeOK, ClientType
  <2> QED
    BY <1>2, <2>1
<1>6. ASSUME NEW d \in Requests, Worker(d)
      PROVE  UNCHANGED <<cpc, n, kind, conn, got, pieces, foreign>>
  BY <1>6, WorkerFrame DEF client
<1>7. CASE UNCHANGED vars
  BY <1>1, <1>7 DEF vars
<1> QED
  BY <1>1, <1>3, <1>4, <1>5, <1>6, <1>7 DEF Next, Client
-----------------------------------------------------------------------------
(***************************************************************************)
(* What send() returns.                                                    *)
(***************************************************************************)
\* A step that finishes nothing: the results there are stay what they are.
LEMMA ResultsStay ==
  ASSUME TypeOK, Shape, [Next]_vars, NEW i \in Requests, Answered(i)', result'[i] = result[i]
  PROVE  /\ Answered(i) /\ kind'[i] = kind[i] /\ KindOf(result[i].to)' = KindOf(result[i].to)
         /\ cut[result[i].via] => cut'[result[i].via]
         /\ unread[result[i].via] => unread'[result[i].via]
<1>0. /\ Answered(i) /\ i <= n /\ result[i].to <= n /\ result[i].to \in 0 .. MaxRequests
      /\ result'[i].to = result[i].to /\ result[i].via \in Requests
      /\ n \in Nat /\ kind \in [Requests -> AllKinds \cup {"none"}] /\ MaxRequests \in Nat
  BY ExchangeAssumption DEF Shape, ClientShape, Answered, TypeOK, ClientType, Results
<1>1. \A j \in Requests : j <= n => kind'[j] = kind[j]
  <2>1. CASE Ask
    <3>1. n' = n + 1 /\ \E k \in Kinds : kind' = [kind EXCEPT ![n + 1] = k]
      BY <2>1 DEF Ask
    <3> QED
      BY <1>0, <3>1 DEF Requests
  <2>2. CASE WriteRequest \/ Fail \/ ReadHead \/ ReadPiece \/ ReadForeign \/ Finish
    BY <2>2 DEF WriteRequest, Write, Fail, ReadHead, ReadPiece, ReadForeign, Finish
  <2>3. ASSUME NEW d \in Requests, Worker(d)
        PROVE  UNCHANGED kind
    BY <2>3, WorkerFrame DEF client
  <2>4. CASE UNCHANGED vars
    BY <2>4 DEF vars
  <2> QED
    BY <2>1, <2>2, <2>3, <2>4 DEF Next, Client
<1> PICK to \in 0 .. MaxRequests : to = result[i].to
  BY <1>0
<1>2. to = 0 \/ (to \in Requests /\ to <= n)
  BY <1>0 DEF Requests
<1>3. KindOf(to)' = KindOf(to)
  BY <1>1, <1>2 DEF KindOf
<1> QED
  BY <1>0, <1>1, <1>3, HistoryStays DEF KindOf

\* A result that is new is that of the client's request, and all of it is read
\* that there is.
LEMMA FinishIsWhole ==
  ASSUME TypeOK, Shape, Chain, ForeignOk, Finish, "head" \notin {kind[n], KindOf(got.req)}
  PROVE  \/ pieces = Pieces(got.form) /\ ~foreign
         \/ got.form = "stream" /\ cut[conn] /\ ~foreign
         \/ got.form = "stream" /\ pieces = Pieces(got.form) /\ unread[conn]
         \/ got.form = "plain" /\ cut[conn] /\ unread[conn]
<1>0. /\ cpc = "content" /\ conn \in Requests /\ AllRead
      /\ pieces \in Nat /\ pieces <= Pieces(got.form) /\ got \in Answers /\ KindOf(0) # "head"
      /\ foreign \in BOOLEAN
      /\ down \in [Requests -> Seq(AnswerUnit)] /\ sEnd \in [Requests -> {"open", "graceful", "abrupt"}]
  BY DEF Finish, TypeOK, ClientType, WireType, WorkerType, Shape, ClientShape, Requests, KindOf
<1>1. ChainAt(conn)
  BY <1>0 DEF Chain, Requests
<1>f. CASE foreign
  BY <1>f DEF ForeignOk, Pieces
<1>2. CASE ~foreign /\ got.form = "empty"
  BY <1>0, <1>2 DEF Pieces
<1>3. CASE ~foreign /\ got.form \in {"plain", "length"}
  BY <1>0, <1>3 DEF AllRead, Pieces
<1>4. CASE ~foreign /\ got.form = "chunked"
  <2> PICK u \in AnswerUnit : u = down[conn][1] /\ down[conn] # <<>> /\ u.unit = "end"
    BY <1>0, <1>4 DEF AllRead
  <2>1. Follows(conn, u, AfterRead)
    BY <1>0, <1>1, <1>4 DEF ChainAt, Reads
  <2> QED
    BY <1>4, <2>1 DEF Follows, AfterRead, Pieces
<1>5. CASE ~foreign /\ got.form = "stream"
  <2>1. down[conn] = <<>> /\ sEnd[conn] = "graceful"
    BY <1>0, <1>5 DEF AllRead
  <2>2. spc[conn] = "closed"
    BY <1>0, <2>1 DEF Shape, WorkerShape, WorkerShapeAt
  <2>3. TipAt(conn, AfterRead)
    BY <1>0, <1>1, <1>5, <2>1 DEF ChainAt, Tip, Reads
  <2>4. AfterRead.form = "stream" /\ AfterRead.no = pieces /\ KindOf(AfterRead.req) # "head"
    <3>1. AfterRead.req = IF pieces = 0 THEN got.req ELSE 0
      BY DEF AfterRead
    <3>2. KindOf(AfterRead.req) # "head"
      BY <1>0, <3>1
    <3> QED
      BY <1>5, <3>2 DEF AfterRead
  <2> QED
    BY <1>5, <2>1, <2>2, <2>3, <2>4 DEF TipAt, Complete, Pieces
<1> QED
  BY <1>0, <1>f, <1>2, <1>3, <1>4, <1>5 DEF Answers, AllForms

LEMMA StepWhole ==
  TypeOK /\ Shape /\ Chain /\ ForeignOk /\ ContentIsWhole /\ [Next]_vars => ContentIsWhole'
<1> SUFFICES ASSUME TypeOK, Shape, Chain, ForeignOk, ContentIsWhole, [Next]_vars,
                    NEW i \in Requests, NEW r, r = result'[i], Answered(i)',
                    kind'[i] # "head", KindOf(r.to)' # "head"
             PROVE  \/ r.pieces = Pieces(r.form) /\ ~r.foreign
                    \/ r.form = "stream" /\ cut'[r.via] /\ ~r.foreign
                    \/ r.form = "stream" /\ r.pieces = Pieces(r.form) /\ unread'[r.via]
                    \/ r.form = "plain" /\ cut'[r.via] /\ unread'[r.via]
  BY DEF ContentIsWhole, Pieces, KindOf
<1>1. CASE r = result[i]
  <2>1. /\ Answered(i) /\ kind'[i] = kind[i] /\ KindOf(r.to)' = KindOf(r.to)
        /\ cut[r.via] => cut'[r.via]
        /\ unread[r.via] => unread'[r.via]
    <3>1. /\ Answered(i) /\ kind'[i] = kind[i] /\ KindOf(result[i].to)' = KindOf(result[i].to)
          /\ cut[result[i].via] => cut'[result[i].via]
          /\ unread[result[i].via] => unread'[result[i].via]
      BY <1>1, ResultsStay
    <3>2. KindOf(result[i].to)' = KindOf(r.to)'
      BY <1>1 DEF KindOf
    <3> QED
      BY <1>1, <3>1, <3>2
  <2>2. kind[i] # "head" /\ KindOf(r.to) # "head"
    BY <2>1
  <2>3. \/ r.pieces = Pieces(r.form) /\ ~r.foreign
        \/ r.form = "stream" /\ cut[r.via] /\ ~r.foreign
        \/ r.form = "stream" /\ r.pieces = Pieces(r.form) /\ unread[r.via]
        \/ r.form = "plain" /\ cut[r.via] /\ unread[r.via]
    BY <1>1, <2>1, <2>2 DEF ContentIsWhole
  <2> QED
    BY <2>1, <2>3
<1>2. CASE r # result[i]
  <2>0. result \in [Requests -> Results]
    BY DEF TypeOK, ClientType
  <2>1. Finish /\ i = n
    <3>1. CASE Ask \/ Fail
      <4>1. result' = result \/ \E j \in {n, n'} : result' = [result EXCEPT ![j] = [is |-> "error"]]
        BY <3>1 DEF Ask, Fail
      <4>2. result'[i] = result[i] \/ result'[i] = [is |-> "error"]
        BY <2>0, <4>1
      <4> QED
        BY <1>2, <4>2 DEF Answered
    <3>2. CASE WriteRequest \/ ReadHead \/ ReadPiece \/ ReadForeign
      BY <1>2, <3>2 DEF WriteRequest, Write, ReadHead, ReadPiece, ReadForeign
    <3>3. CASE Finish
      BY <1>2, <2>0, <3>3 DEF Finish
    <3>4. ASSUME NEW d \in Requests, Worker(d)
          PROVE  UNCHANGED result
      BY <3>4, WorkerFrame DEF client
    <3>5. CASE UNCHANGED vars
      BY <1>2, <3>5 DEF vars
    <3> QED
      BY <1>2, <3>1, <3>2, <3>3, <3>4, <3>5 DEF Next, Client
  <2>2. /\ UNCHANGED <<kind, cut, unread>>
        /\ r.to = got.req /\ r.via = conn /\ r.form = got.form /\ r.pieces = pieces
        /\ r.foreign = foreign
    BY <2>0, <2>1 DEF Finish, history
  <2>3. kind[n] # "head" /\ KindOf(got.req) # "head"
    BY <2>1, <2>2 DEF KindOf
  <2> QED
    BY <2>1, <2>2, <2>3, FinishIsWhole
<1> QED
  BY <1>1, <1>2

\* What send() returns has all the pieces of its content and nothing else, in
\* whatever way their number is told: write_content_chunked() ends a content that
\* stop(), its provider or the time have cut short without its last chunk, and
\* read_content_chunked() and read_content_with_length() take that for an error.
\* Only where the end of the connection ends the content may it be cut short
\* unnoticed; and only where an answer was written before its request was read
\* may read_content_without_length(), or what is left of the length of a body
\* that could not be written, take in the answer that follows.
THEOREM ContentsAreWhole == Spec => []ContentIsWhole
<1> DEFINE Inv == /\ TypeOK /\ Shape /\ Carried /\ Clean /\ Early /\ Chain /\ ForeignOk
                  /\ ContentIsWhole
<1>1. Init => Inv
  <2>1. Init => Chain /\ Early /\ ForeignOk
    BY DEF Init, Chain, Early, ForeignOk
  <2>2. Init => ContentIsWhole
    BY DEF Init, ContentIsWhole, Answered
  <2> QED
    BY <2>1, <2>2, InitType, InitShape, InitCarried, InitClean
<1>2. Inv /\ [Next]_vars => Inv'
  BY StepType, StepShape, StepCarried, StepClean, StepEarly, StepChain, StepForeign, StepWhole
<1>3. Inv => ContentIsWhole
  OBVIOUS
<1> QED
  BY <1>1, <1>2, <1>3, PTL DEF Spec

==============================================================================
