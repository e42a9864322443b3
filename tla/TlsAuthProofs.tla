----------------------------- MODULE TlsAuthProofs -----------------------------
(***************************************************************************)
(* Proofs about TlsAuth, for any number of clients, logins and passwords:  *)
(* the file has a login once, the server and its client keep in step, and  *)
(* the file is the book of logins that LoginBook describes.                *)
(***************************************************************************)
EXTENDS TlsAuth, SequenceTheorems, TLAPS

\* No two entries of the lines f have the same login.
Unique(f) ==
  \A i, k \in DOMAIN f : \A j \in DOMAIN f[i], m \in DOMAIN f[k] :
    f[i][j][1] = f[k][m][1] => i = k /\ j = m

\* The lines are unique whatever the programs do; the break of the last line
\* is missing only if there is a line.
FileInv ==
  /\ exists \in BOOLEAN /\ ended \in BOOLEAN
  /\ file \in Seq(Seq(Entries))
  /\ Unique(file)
  /\ ended \/ file # <<>>

\* That client and server are in step is not inductive: it takes what is on
\* its way in both directions at each place where the two may be.
InStep ==
  /\ cur = None =>
       /\ down = <<>>
       /\ \A c \in Clients : client[c] \in {"out", "queued"}
  /\ server \in {"accept", "spinning", "down"} => cur = None
  /\ cur # None =>
       /\ \A c \in Clients \ {cur} : client[c] \in {"out", "queued"}
       /\ \/ /\ server = "token" /\ up = <<>>
             /\ \/ client[cur] \in {"login", "token"} /\ down = <<>>
                \/ client[cur] = "sent" /\ down = <<"no">>
          \/ /\ server = "data" /\ up = <<>>
             /\ \/ client[cur] \in {"login", "token"} /\ down = <<"token">>
                \/ client[cur] = "sent" /\ down = <<"no", "token">>
          \/ /\ server = "data" /\ Len(up) = 1
             /\ client[cur] = "sent" /\ down = <<>>
          \/ /\ server = "adding" /\ up = <<>>
             /\ client[cur] = "sent" /\ down = <<>>
          \/ /\ server = "shell" /\ up = <<>>
             /\ \/ client[cur] = "sent" /\ down = <<"yes">>
                \/ client[cur] = "shell" /\ down = <<>>
                \/ client[cur] = "reading" /\ down \in {<<>>, <<"echo">>}
          \/ /\ server = "shell" /\ Len(up) = 1
             /\ client[cur] = "reading" /\ down = <<>>

WireType ==
  /\ server \in {"accept", "token", "data", "adding", "shell", "spinning", "down"}
  /\ cur \in Clients \cup {None} /\ backlog \in Seq(Clients \cup {None})
  /\ up \in Seq(Entries) /\ Len(up) <= 1
  /\ client \in [Clients ->
       {"out", "queued", "login", "token", "sent", "shell", "reading"}]
  /\ entry \in [Clients -> Entries]

LoginInv == FileInv /\ WireType /\ InStep

LEMMA AnyEntryIsOne == AnyEntry \in Entries
<1>1. \E e \in Entries : TRUE
  <2>1. PICK l \in Logins : TRUE
    BY TlsAssumption
  <2>2. PICK p \in Passwords : TRUE
    BY TlsAssumption
  <2>3. <<l, p>> \in Entries
    BY <2>1, <2>2 DEF Entries
  <2> QED BY <2>3
<1> QED BY <1>1 DEF AnyEntry

-----------------------------------------------------------------------------
\* The file.

\* What Append and EXCEPT do to any sequence.
LEMMA SeqFacts ==
  ASSUME NEW S, NEW s \in Seq(S), NEW x \in S
  PROVE  /\ Append(s, x) \in Seq(S) /\ Append(s, x) # <<>>
         /\ \A i \in DOMAIN Append(s, x) :
              \/ i = Len(s) + 1 /\ Append(s, x)[i] = x
              \/ i \in DOMAIN s /\ Append(s, x)[i] = s[i]
         /\ \A n \in DOMAIN s :
              [s EXCEPT ![n] = x] \in Seq(S) /\ [s EXCEPT ![n] = x] # <<>>
BY SMT

\* The login of e is nowhere in f, and g has e at the place n, p and else only
\* what f has.
Fresh(f, e) == \A i \in DOMAIN f : \A j \in DOMAIN f[i] : f[i][j][1] # e[1]
Adds(f, g, n, p, e) ==
  \A i \in DOMAIN g : \A j \in DOMAIN g[i] :
    \/ i = n /\ j = p /\ g[i][j] = e
    \/ i \in DOMAIN f /\ j \in DOMAIN f[i] /\ g[i][j] = f[i][j]

LEMMA OneMore ==
  ASSUME NEW f, NEW g, NEW n, NEW p, NEW e, Unique(f), Fresh(f, e), Adds(f, g, n, p, e)
  PROVE  Unique(g)
<1> SUFFICES ASSUME NEW i \in DOMAIN g, NEW k \in DOMAIN g,
                    NEW j \in DOMAIN g[i], NEW m \in DOMAIN g[k],
                    g[i][j][1] = g[k][m][1]
             PROVE  i = k /\ j = m
  BY DEF Unique
<1> USE DEF Fresh, Adds
<1>1. CASE i = n /\ j = p /\ g[i][j] = e
  BY <1>1
<1>2. CASE k = n /\ m = p /\ g[k][m] = e
  BY <1>2
<1>3. CASE /\ i \in DOMAIN f /\ j \in DOMAIN f[i] /\ g[i][j] = f[i][j]
           /\ k \in DOMAIN f /\ m \in DOMAIN f[k] /\ g[k][m] = f[k][m]
  BY <1>3 DEF Unique
<1> QED BY <1>1, <1>2, <1>3

LEMMA RegisterKeepsFile ==
  ASSUME FileInv, NEW e \in Entries, RegisterWrite(e)
  PROVE  FileInv'
<1>1. Fresh(file, e)
  <2>1. e[1] \in Logins
    BY DEF Entries
  <2>2. e[1] \in Within[e[1]]
    BY <2>1, TlsAssumption
  <2> QED BY <2>2 DEF RegisterWrite, LoginSeen, Fresh
<1>2. CASE ended
  <2>1. file' = Append(file, <<e>>)
    BY <1>2 DEF RegisterWrite
  <2>2. <<e>> \in Seq(Entries) /\ DOMAIN <<e>> = {1} /\ <<e>>[1] = e
    BY SMT
  <2>3. file' \in Seq(Seq(Entries)) /\ file' # <<>>
    BY <2>1, <2>2, SMT DEF FileInv
  <2>4. \A i \in DOMAIN file' :
          \/ i = Len(file) + 1 /\ file'[i] = <<e>>
          \/ i \in DOMAIN file /\ file'[i] = file[i]
    BY <2>1, <2>2, SeqFacts DEF FileInv
  <2>5. Adds(file, file', Len(file) + 1, 1, e)
    BY <2>2, <2>4, Zenon DEF Adds
  <2>6. Unique(file')
    BY <1>1, <2>5, OneMore DEF FileInv
  <2> QED BY <2>3, <2>6 DEF FileInv, RegisterWrite
<1>3. CASE ~ended
  <2> DEFINE n == Len(file)
             line == file[n]
  <2>1. file # <<>> /\ n \in DOMAIN file /\ line \in Seq(Entries)
    BY <1>3, SMT DEF FileInv
  <2>2. file' = [file EXCEPT ![n] = Append(line, e)]
    BY <1>3 DEF RegisterWrite
  <2>3. /\ Append(line, e) \in Seq(Entries)
        /\ \A j \in DOMAIN Append(line, e) :
             \/ j = Len(line) + 1 /\ Append(line, e)[j] = e
             \/ j \in DOMAIN line /\ Append(line, e)[j] = line[j]
    BY <2>1, SMT
  <2>4. file' \in Seq(Seq(Entries)) /\ file' # <<>>
    BY <2>1, <2>2, <2>3, SeqFacts DEF FileInv
  <2>5. DOMAIN file' = DOMAIN file
    BY <2>2
  <2>6. \A i \in DOMAIN file : file'[i] = IF i = n THEN Append(line, e) ELSE file[i]
    BY <2>2
  <2>7. Adds(file, file', n, Len(line) + 1, e)
    BY <2>3, <2>5, <2>6, Zenon DEF Adds
  <2>8. Unique(file')
    BY <1>1, <2>7, OneMore DEF FileInv
  <2> QED BY <2>4, <2>8 DEF FileInv, RegisterWrite
<1> QED BY <1>2, <1>3

-----------------------------------------------------------------------------
\* The programs in step.

LEMMA ShortSeqs ==
  ASSUME NEW a, NEW b
  PROVE  /\ <<a>> # <<>> /\ <<a, b>> # <<>>
         /\ Head(<<a>>) = a /\ Head(<<a, b>>) = a
         /\ Tail(<<a>>) = <<>> /\ Tail(<<a, b>>) = <<b>>
         /\ Append(<<>>, a) = <<a>> /\ Append(<<a>>, b) = <<a, b>>
         /\ Len(<<a>>) = 1
<1>1. <<a>> # <<>> /\ <<a, b>> # <<>> /\ Head(<<a>>) = a /\ Head(<<a, b>>) = a /\ Len(<<a>>) = 1
  BY SMT
<1>2. Tail(<<a>>) = <<>>
  BY SMT
<1>3. Tail(<<a, b>>) = <<b>>
  BY SMT
<1>4. Append(<<>>, a) = <<a>>
  BY SMT
<1>5. Append(<<a>>, b) = <<a, b>>
  <2>1. Append(<<a>>, b) \in Seq({a, b}) /\ Len(Append(<<a>>, b)) = 2
    BY SMT
  <2>2. <<a, b>> \in Seq({a, b}) /\ Len(<<a, b>>) = 2
    BY SMT
  <2>3. \A i \in 1 .. 2 : Append(<<a>>, b)[i] = <<a, b>>[i]
    BY SMT
  <2> QED BY <2>1, <2>2, <2>3, SeqEqual
<1> QED BY <1>1, <1>2, <1>3, <1>4, <1>5

\* The one entry that may be on its way.
LEMMA UpFacts ==
  ASSUME WireType
  PROVE  /\ <<>> \in Seq(Entries) /\ Len(<<>>) = 0
         /\ up = <<>> <=> Len(up) = 0
         /\ up # <<>> => Len(up) = 1 /\ Tail(up) = <<>>
         /\ \A e \in Entries : up = <<>> =>
              Append(up, e) \in Seq(Entries) /\ Len(Append(up, e)) = 1
<1>1. up \in Seq(Entries) /\ Len(up) <= 1
  BY DEF WireType
<1>2. <<>> \in Seq(Entries) /\ Len(<<>>) = 0 /\ (up = <<>> <=> Len(up) = 0)
  BY <1>1, SMT
<1>3. up # <<>> => Len(up) = 1 /\ Tail(up) = <<>>
  BY <1>1, SMT
<1>4. \A e \in Entries : up = <<>> => Append(up, e) \in Seq(Entries) /\ Len(Append(up, e)) = 1
  BY <1>1, SMT
<1> QED BY <1>2, <1>3, <1>4

LEMMA InitInv ==
  ASSUME Init
  PROVE  LoginInv
<1>1. FileInv
  BY SMT DEF Init, FileInv, Unique
<1>2. WireType
  <2>1. <<>> \in Seq(Clients \cup {None}) /\ <<>> \in Seq(Entries) /\ Len(<<>>) = 0
    BY SMT
  <2> QED BY <2>1, AnyEntryIsOne DEF Init, WireType
<1>3. InStep
  BY DEF Init, InStep
<1> QED BY <1>1, <1>2, <1>3 DEF LoginInv

\* The client that is served sends or reads.
LEMMA ClientStep ==
  ASSUME LoginInv, NEW c \in Clients, Client(c)
  PROVE  WireType' /\ InStep'
<1>1. cur = c /\ cur # None /\ entry[c] \in Entries /\ AnyEntry \in Entries
  BY TlsAssumption, AnyEntryIsOne DEF Client, SendEntry, ReadResponse, RecvAnswer, LoginInv, WireType
<1>2. CASE SendEntry(c)
  <2>1. server = "data" /\ up = <<>> /\ down = <<"token">>
    BY <1>1, <1>2, Zenon DEF SendEntry, LoginInv, InStep
  <2>2. down' = <<>> /\ up' \in Seq(Entries) /\ Len(up') = 1
    BY <1>1, <1>2, <2>1, ShortSeqs, UpFacts, Zenon DEF SendEntry, LoginInv
  <2>3. WireType'
    BY <1>2, <2>2, SMT DEF SendEntry, LoginInv, WireType
  <2>4. InStep'
    <3>1. /\ client' \in [Clients -> {"out", "queued", "login", "token", "sent", "shell", "reading"}]
          /\ client'[c] = "sent" /\ cur' = c /\ server' = "data"
          /\ \A d \in Clients \ {c} : client'[d] = client[d]
      BY <1>1, <1>2, <2>1, <2>3 DEF SendEntry, LoginInv, WireType
    <3> QED BY <1>1, <2>2, <3>1, Zenon DEF LoginInv, InStep
  <2> QED BY <2>3, <2>4
<1>3. CASE ReadResponse(c)
  <2>1. up = <<>> /\ \/ server = "token" /\ down = <<"no">>
                     \/ server = "data" /\ down = <<"no", "token">>
                     \/ server = "shell" /\ down = <<"yes">>
    BY <1>1, <1>3, Zenon DEF ReadResponse, LoginInv, InStep
  <2>2. \/ server = "token" /\ down' = <<>> /\ client'[c] = "login"
        \/ server = "data" /\ down' = <<"token">> /\ client'[c] = "login"
        \/ server = "shell" /\ down' = <<>> /\ client'[c] = "shell"
    <3>1. /\ down' = Tail(down)
          /\ client'[c] = IF Head(down) = "yes" THEN "shell" ELSE "login"
      BY <1>3, Zenon DEF ReadResponse, LoginInv, WireType
    <3>2. Head(<<"yes">>) = "yes" /\ Head(<<"no">>) = "no" /\ Head(<<"no", "token">>) = "no"
      BY ShortSeqs
    <3>3. Tail(<<"yes">>) = <<>> /\ Tail(<<"no">>) = <<>> /\ Tail(<<"no", "token">>) = <<"token">>
      BY ShortSeqs
    <3> QED BY <2>1, <3>1, <3>2, <3>3
  <2>3. WireType'
    BY <1>1, <1>3, Zenon DEF ReadResponse, LoginInv, WireType
  <2>4. InStep'
    <3>1. /\ cur' = c /\ server' = server /\ up' = <<>>
          /\ \A d \in Clients \ {c} : client'[d] = client[d]
      BY <1>1, <1>3, <2>1 DEF ReadResponse, LoginInv, WireType
    <3>2. \A d \in Clients \ {c} : client'[d] \in {"out", "queued"}
      BY <1>1, <3>1 DEF LoginInv, InStep
    <3>3. CASE server = "token" /\ down' = <<>> /\ client'[c] = "login"
      BY <1>1, <3>1, <3>2, <3>3 DEF InStep
    <3>4. CASE server = "data" /\ down' = <<"token">> /\ client'[c] = "login"
      BY <1>1, <3>1, <3>2, <3>4 DEF InStep
    <3>5. CASE server = "shell" /\ down' = <<>> /\ client'[c] = "shell"
      BY <1>1, <3>1, <3>2, <3>5 DEF InStep
    <3> QED BY <2>2, <3>3, <3>4, <3>5
  <2> QED BY <2>3, <2>4
<1>4. CASE RecvAnswer(c)
  <2>1. server = "shell" /\ up = <<>> /\ down = <<"echo">>
    BY <1>1, <1>4, Zenon DEF RecvAnswer, LoginInv, InStep
  <2>2. down' = <<>>
    BY <1>4, <2>1, ShortSeqs DEF RecvAnswer
  <2>3. WireType'
    BY <1>4, Zenon DEF RecvAnswer, LoginInv, WireType
  <2>4. InStep'
    BY <1>1, <1>4, <2>1, <2>2, Zenon DEF RecvAnswer, LoginInv, InStep
  <2> QED BY <2>3, <2>4
<1> QED BY <1>2, <1>3, <1>4 DEF Client

\* What users do, at any time.
LEMMA UserStep ==
  ASSUME LoginInv, NEW c \in Clients, User(c)
  PROVE  WireType' /\ InStep'
<1>1. AnyEntry \in Entries /\ c # None
  BY TlsAssumption, AnyEntryIsOne
<1>2. CASE Connect(c)
  <2>1. cur # c /\ client[c] = "out"
    BY <1>1, <1>2, Zenon DEF Connect, LoginInv, InStep
  <2>2. backlog' \in Seq(Clients \cup {None})
    BY <1>2, SMT DEF Connect, LoginInv, WireType
  <2>3. WireType'
    BY <1>2, <2>2, Zenon DEF Connect, LoginInv, WireType
  <2>4. \A d \in Clients : client'[d] = IF d = c THEN "queued" ELSE client[d]
    BY <1>2 DEF Connect, LoginInv, WireType
  <2>5. InStep'
    BY <1>2, <2>1, <2>4, SMT DEF Connect, LoginInv, WireType, InStep
  <2> QED BY <2>3, <2>5
<1>3. CASE TypeEntry(c)
  <2>1. WireType'
    BY <1>3, SMT DEF TypeEntry, Wire, LoginInv, WireType
  <2>2. \A d \in Clients : client'[d] = IF d = c THEN "token" ELSE client[d]
    BY <1>3 DEF TypeEntry, LoginInv, WireType
  <2>3. InStep'
    BY <1>3, <2>2, SMT DEF TypeEntry, Wire, LoginInv, WireType, InStep
  <2> QED BY <2>1, <2>3
<1>4. CASE SendRequest(c)
  <2>1. cur = c /\ server = "shell" /\ up = <<>> /\ down = <<>>
    BY <1>1, <1>4, Zenon DEF SendRequest, LoginInv, InStep
  <2>2. up' \in Seq(Entries) /\ Len(up') = 1
    BY <1>1, <1>4, <2>1, UpFacts, Zenon DEF SendRequest, LoginInv
  <2>3. WireType'
    BY <1>4, <2>2, SMT DEF SendRequest, LoginInv, WireType
  <2>4. \A d \in Clients : client'[d] = IF d = c THEN "reading" ELSE client[d]
    BY <1>4 DEF SendRequest, LoginInv, WireType
  <2>5. InStep'
    BY <1>1, <1>4, <2>1, <2>2, <2>4, SMT DEF SendRequest, LoginInv, InStep
  <2> QED BY <2>3, <2>5
<1>5. CASE Leave(c)
  <2>1. backlog' \in Seq(Clients \cup {None})
    BY <1>5, SMT DEF Leave, LoginInv, WireType
  <2>2. WireType'
    BY <1>1, <1>5, <2>1, Zenon DEF Leave, LoginInv, WireType
  <2>3. \A d \in Clients : client'[d] = IF d = c THEN "out" ELSE client[d]
    BY <1>5 DEF Leave, LoginInv, WireType
  <2>4. CASE cur = c
    <3>1. cur' = None /\ down' = <<>>
      BY <1>5, <2>4 DEF Leave
    <3>2. \A d \in Clients : client'[d] \in {"out", "queued"}
      BY <1>1, <2>3, <2>4 DEF LoginInv, InStep
    <3> QED BY <2>2, <3>1, <3>2 DEF InStep
  <2>5. CASE cur # c
    BY <1>5, <2>2, <2>3, <2>5, SMT DEF Leave, LoginInv, InStep
  <2> QED BY <2>2, <2>4, <2>5
<1> QED BY <1>2, <1>3, <1>4, <1>5 DEF User

\* All connections are closed.
LEMMA DownStep ==
  ASSUME GoesDown
  PROVE  WireType' /\ InStep'
<1>1. <<>> \in Seq(Clients \cup {None}) /\ <<>> \in Seq(Entries) /\ Len(<<>>) <= 1
  BY SMT
<1>2. WireType'
  BY <1>1, AnyEntryIsOne DEF GoesDown, WireType
<1>3. InStep'
  BY DEF GoesDown, InStep
<1> QED BY <1>2, <1>3

LEMMA AcceptStep ==
  ASSUME LoginInv, Accept
  PROVE  WireType' /\ InStep'
<1>1. Head(backlog) \in Clients /\ Tail(backlog) \in Seq(Clients \cup {None})
  BY SMT DEF Accept, LoginInv, WireType
<1>2. cur' \in Clients /\ cur' # None /\ server' = "token" /\ up' = <<>> /\ down' = <<>>
  BY <1>1, TlsAssumption DEF Accept
<1>3. \A d \in Clients : client'[d] = IF d = cur' THEN "login" ELSE client[d]
  BY DEF Accept, LoginInv, WireType
<1>4. \A d \in Clients : client[d] \in {"out", "queued"}
  BY Zenon DEF Accept, LoginInv, InStep
<1>5. <<>> \in Seq(Entries) /\ Len(<<>>) <= 1
  BY SMT
<1>6. WireType'
  BY <1>1, <1>2, <1>5, Zenon DEF Accept, LoginInv, WireType
<1>7. InStep'
  BY <1>2, <1>3, <1>4, Zenon DEF InStep
<1> QED BY <1>6, <1>7

\* The server goes on alone, and what it sends arrives nowhere; or it goes on
\* with its client, and the others wait.
LEMMA Alone ==
  ASSUME LoginInv, cur = None, cur' = cur, client' = client, down' = <<>>
  PROVE  InStep'
BY DEF LoginInv, InStep

LEMMA OthersWait ==
  ASSUME LoginInv, cur # None, cur' = cur, client' = client
  PROVE  /\ cur' # None /\ client'[cur'] = client[cur]
         /\ \A c \in Clients \ {cur'} : client'[c] \in {"out", "queued"}
BY DEF LoginInv, InStep

LEMMA SendTokenStep ==
  ASSUME LoginInv, SendToken
  PROVE  WireType' /\ InStep'
<1>1. WireType'
  BY Zenon DEF SendToken, LoginInv, WireType
<1>2. CASE cur = None
  BY <1>1, <1>2, Alone DEF SendToken, Send
<1>3. CASE cur # None
  <2>1. /\ up = <<>>
        /\ \/ client[cur] \in {"login", "token"} /\ down = <<>>
           \/ client[cur] = "sent" /\ down = <<"no">>
    BY <1>3, Zenon DEF SendToken, LoginInv, InStep
  <2>2. Append(<<>>, "token") = <<"token">> /\ Append(<<"no">>, "token") = <<"no", "token">>
    BY ShortSeqs
  <2>3. \/ client[cur] \in {"login", "token"} /\ down' = <<"token">>
        \/ client[cur] = "sent" /\ down' = <<"no", "token">>
    BY <1>3, <2>1, <2>2, Zenon DEF SendToken, Send
  <2>4. server' = "data" /\ up' = <<>>
    BY <2>1 DEF SendToken
  <2> QED BY <1>1, <1>3, <2>3, <2>4, OthersWait DEF SendToken, InStep
<1> QED BY <1>1, <1>2, <1>3

LEMMA ReplyStep ==
  ASSUME LoginInv, NEW e \in Entries, NEW r \in {"yes", "no"}, Replies(e, r)
  PROVE  WireType' /\ InStep'
<1>1. up # <<>> /\ up' = <<>> /\ Len(up) = 1
  BY UpFacts DEF Replies, LoginInv
<1>2. <<>> \in Seq(Entries) /\ Len(<<>>) <= 1
  BY SMT
<1>3. server' \in {"shell", "token"}
  BY DEF Replies
<1>4. WireType'
  BY <1>1, <1>2, <1>3, Zenon DEF Replies, LoginInv, WireType
<1>5. CASE cur = None
  <2>1. down' = <<>> /\ cur' = cur /\ client' = client
    BY <1>5, Zenon DEF Replies, Send
  <2> QED BY <1>4, <1>5, <2>1, Alone
<1>6. CASE cur # None
  <2>1. client[cur] = "sent" /\ down = <<>>
    BY <1>1, <1>6, Zenon DEF Replies, LoginInv, InStep
  <2>2. down' = <<r>>
    BY <1>6, <2>1, ShortSeqs DEF Replies, Send
  <2>3. cur' = cur /\ client' = client
    BY DEF Replies
  <2>4. /\ cur' # None /\ client'[cur'] = "sent" /\ down' = <<r>>
        /\ \A c \in Clients \ {cur'} : client'[c] \in {"out", "queued"}
    BY <1>6, <2>1, <2>2, <2>3, OthersWait
  <2>5. CASE r = "yes"
    <3>1. server' = "shell"
      BY <2>5 DEF Replies
    <3> QED BY <1>1, <1>4, <2>4, <2>5, <3>1 DEF InStep
  <2>6. CASE r = "no"
    <3>1. server' = "token"
      BY <2>6 DEF Replies
    <3> QED BY <1>1, <1>4, <2>4, <2>6, <3>1 DEF InStep
  <2> QED BY <2>5, <2>6
<1> QED BY <1>4, <1>5, <1>6

LEMMA RegisterStep ==
  ASSUME LoginInv, RegisterEnd \/ \E e \in Entries : RegisterWrite(e)
  PROVE  WireType' /\ InStep'
<1>1. CASE RegisterEnd
  <2>1. WireType'
    BY <1>1, Zenon DEF RegisterEnd, LoginInv, WireType
  <2>2. CASE cur = None
    <3>1. down' = <<>> /\ cur' = cur /\ client' = client
      BY <1>1, <2>2, Zenon DEF RegisterEnd, Send
    <3> QED BY <2>1, <2>2, <3>1, Alone
  <2>3. CASE cur # None
    <3>1. client[cur] = "sent" /\ down = <<>> /\ up = <<>>
      BY <1>1, <2>3, Zenon DEF RegisterEnd, LoginInv, InStep
    <3>2. down' = <<"yes">>
      BY <1>1, <2>3, <3>1, ShortSeqs DEF RegisterEnd, Send
    <3>3. server' = "shell" /\ up' = <<>> /\ cur' = cur /\ client' = client
      BY <1>1, <3>1, Zenon DEF RegisterEnd
    <3>4. /\ cur' # None /\ client'[cur'] = "sent"
          /\ \A c \in Clients \ {cur'} : client'[c] \in {"out", "queued"}
      BY <2>3, <3>1, <3>3, OthersWait
    <3> QED BY <2>1, <3>2, <3>3, <3>4 DEF InStep
  <2> QED BY <2>1, <2>2, <2>3
<1>2. ASSUME NEW e \in Entries, RegisterWrite(e)
      PROVE  WireType' /\ InStep'
  <2>1. up # <<>> /\ up' = <<>> /\ Len(up) = 1
    BY <1>2, UpFacts DEF RegisterWrite, LoginInv
  <2>2. <<>> \in Seq(Entries) /\ Len(<<>>) <= 1
    BY SMT
  <2>3. WireType'
    BY <1>2, <2>1, <2>2, Zenon DEF RegisterWrite, LoginInv, WireType
  <2>4. CASE cur = None
    <3>1. down' = <<>>
      BY <1>2, <2>4 DEF RegisterWrite, LoginInv, InStep
    <3>2. cur' = cur /\ client' = client
      BY <1>2, Zenon DEF RegisterWrite
    <3> QED BY <2>3, <2>4, <3>1, <3>2, Alone
  <2>5. CASE cur # None
    <3>1. client[cur] = "sent" /\ down = <<>>
      BY <1>2, <2>1, <2>5, Zenon DEF RegisterWrite, LoginInv, InStep
    <3>2. server' = "adding" /\ down' = <<>> /\ cur' = cur /\ client' = client
      BY <1>2, <3>1, Zenon DEF RegisterWrite
    <3>3. /\ cur' # None /\ client'[cur'] = "sent"
          /\ \A c \in Clients \ {cur'} : client'[c] \in {"out", "queued"}
      BY <2>5, <3>1, <3>2, OthersWait
    <3> QED BY <2>1, <2>3, <3>2, <3>3 DEF InStep
  <2> QED BY <2>3, <2>4, <2>5
<1> QED BY <1>1, <1>2

\* The steps of a server that has lost its client, or has none.
LEMMA AloneStep ==
  ASSUME LoginInv, AuthorizeSpins \/ EchoFails \/ ClientLeft \/ Restart
  PROVE  WireType' /\ InStep'
<1>1. CASE GoesDown
  BY <1>1, DownStep
<1>2. CASE ~GoesDown
  <2>1. /\ cur = None /\ UNCHANGED <<cur, backlog, up, down, client, entry>>
        /\ server' \in {"accept", "spinning"}
    BY <1>2, Zenon DEF AuthorizeSpins, EchoFails, ClientLeft, Restart, Wire, LoginInv, InStep
  <2>2. WireType'
    BY <2>1, Zenon DEF LoginInv, WireType
  <2>3. InStep'
    BY <2>1, Zenon DEF LoginInv, InStep
  <2> QED BY <2>2, <2>3
<1> QED BY <1>1, <1>2

LEMMA EchoStep ==
  ASSUME LoginInv, Echo
  PROVE  WireType' /\ InStep'
<1>1. up # <<>> /\ up' = <<>> /\ Len(up) = 1
  BY UpFacts DEF Echo, LoginInv
<1>2. <<>> \in Seq(Entries) /\ Len(<<>>) <= 1
  BY SMT
<1>3. WireType'
  BY <1>1, <1>2, Zenon DEF Echo, LoginInv, WireType
<1>4. cur' = cur /\ client' = client /\ server' = "shell"
  BY DEF Echo
<1>5. CASE cur = None
  <2>1. down' = <<>>
    BY <1>5 DEF Echo, Send
  <2> QED BY <1>3, <1>4, <1>5, <2>1, Alone
<1>6. CASE cur # None
  <2>1. client[cur] = "reading" /\ down = <<>>
    BY <1>1, <1>6, Zenon DEF Echo, LoginInv, InStep
  <2>2. down' = <<"echo">>
    BY <1>6, <2>1, ShortSeqs DEF Echo, Send
  <2>3. /\ cur' # None /\ client'[cur'] = "reading"
        /\ \A c \in Clients \ {cur'} : client'[c] \in {"out", "queued"}
    BY <1>4, <1>6, <2>1, OthersWait
  <2> QED BY <1>1, <1>3, <1>4, <2>2, <2>3 DEF InStep
<1> QED BY <1>5, <1>6

\* Nobody but register_client() writes to the file.
LEMMA FileStep ==
  ASSUME LoginInv, Next
  PROVE  FileInv'
<1>1. CASE \E e \in Entries : RegisterWrite(e)
  BY <1>1, RegisterKeepsFile DEF LoginInv
<1>2. CASE RegisterEnd
  BY <1>2 DEF RegisterEnd, LoginInv, FileInv
<1>3. CASE ~(\E e \in Entries : RegisterWrite(e)) /\ ~RegisterEnd
  <2>1. UNCHANGED <<exists, file, ended>>
    BY <1>3, Zenon DEF Next, Client, User, Server, Connect, TypeEntry, SendEntry, ReadResponse,
      SendRequest, RecvAnswer, Leave, Accept, HandshakeFails, SendToken, Authorize, Decline,
      Replies, AuthorizeSpins, Echo, EchoFails, ClientLeft, Stopped, Restart, GoesDown, Stored
  <2> QED BY <2>1 DEF LoginInv, FileInv
<1> QED BY <1>1, <1>2, <1>3

LEMMA NextInv ==
  ASSUME LoginInv, [Next]_vars
  PROVE  LoginInv'
<1>1. CASE Next
  <2>1. FileInv'
    BY <1>1, FileStep
  <2>2. CASE \E c \in Clients : Client(c) \/ User(c)
    BY <2>1, <2>2, ClientStep, UserStep DEF LoginInv
  <2>3. CASE Stopped \/ Restart
    BY <2>1, <2>3, DownStep, AloneStep DEF Stopped, LoginInv
  <2>4. CASE Server
    <3>1. CASE \E e \in Entries : Authorize(e) \/ Decline(e)
      BY <2>1, <3>1, ReplyStep DEF Authorize, Decline, LoginInv
    <3>2. CASE RegisterEnd \/ \E e \in Entries : RegisterWrite(e)
      BY <2>1, <3>2, RegisterStep DEF LoginInv
    <3>3. CASE HandshakeFails \/ Accept
      BY <2>1, <3>3, DownStep, AcceptStep DEF HandshakeFails, LoginInv
    <3>4. CASE SendToken \/ Echo \/ AuthorizeSpins \/ EchoFails \/ ClientLeft
      BY <2>1, <3>4, SendTokenStep, EchoStep, AloneStep DEF LoginInv
    <3> QED BY <2>4, <3>1, <3>2, <3>3, <3>4 DEF Server
  <2> QED BY <1>1, <2>2, <2>3, <2>4 DEF Next
<1>2. CASE UNCHANGED vars
  BY <1>2, Zenon DEF vars, LoginInv, FileInv, WireType, InStep
<1> QED BY <1>1, <1>2

\* What is in step is read for what it is.
LEMMA InvIsOnce ==
  ASSUME LoginInv
  PROVE  OneEntryPerLogin
<1>1. down \in Seq({"token", "yes", "no", "echo"}) /\ Len(down) <= 2
  <2>1. down \in {<<>>, <<"no">>, <<"token">>, <<"no", "token">>, <<"yes">>, <<"echo">>}
    BY Zenon DEF LoginInv, InStep
  <2> DEFINE S == {"token", "yes", "no", "echo"}
  <2>2. <<>> \in Seq(S) /\ Len(<<>>) <= 2
    BY SMT
  <2>3. \A a \in S : <<a>> \in Seq(S) /\ Len(<<a>>) <= 2
    BY SMT
  <2>4. <<"no", "token">> \in Seq(S) /\ Len(<<"no", "token">>) <= 2
    BY SMT
  <2>5. "token" \in S /\ "yes" \in S /\ "no" \in S /\ "echo" \in S
    OBVIOUS
  <2> HIDE DEF S
  <2>6. down \in Seq(S) /\ Len(down) <= 2
    BY <2>1, <2>2, <2>3, <2>4, <2>5, Zenon
  <2> QED BY <2>6 DEF S
<1>2. TypeOK
  BY <1>1 DEF LoginInv, FileInv, WireType, TypeOK
<1>3. Unique(file)
  BY DEF LoginInv, FileInv
<1>4. ASSUME NEW c \in Clients, cur = c, down # <<>>
      PROVE  CASE client[c] \in {"login", "token"} -> down = <<"token">>
               [] client[c] = "sent"    -> Head(down) \in {"yes", "no"}
               [] client[c] = "reading" -> Head(down) = "echo"
               [] OTHER                 -> FALSE
  <2>1. \/ client[c] \in {"login", "token"} /\ down = <<"token">>
        \/ client[c] = "sent" /\ down \in {<<"no">>, <<"no", "token">>, <<"yes">>}
        \/ client[c] = "reading" /\ down = <<"echo">>
    BY <1>4, TlsAssumption, Zenon DEF LoginInv, InStep
  <2>2. /\ Head(<<"no">>) = "no" /\ Head(<<"no", "token">>) = "no"
        /\ Head(<<"yes">>) = "yes" /\ Head(<<"echo">>) = "echo"
    BY ShortSeqs
  <2> QED BY <2>1, <2>2, SMT
<1> QED BY <1>2, <1>3, <1>4, Zenon DEF OneEntryPerLogin, Unique

\* openssl-server.cpp: whatever the clients send, whoever leaves and whenever the
\* server is stopped, client_data.txt never has a login twice, and neither
\* program takes a token for an answer or an answer for a token.
THEOREM LoginsStayUnique == Spec => []OneEntryPerLogin
<1>1. Init => LoginInv
  BY InitInv
<1>2. LoginInv /\ [Next]_vars => LoginInv'
  BY NextInv
<1>3. LoginInv => OneEntryPerLogin
  BY InvIsOnce
<1> QED BY <1>1, <1>2, <1>3, PTL DEF Spec

-----------------------------------------------------------------------------
\* The book.

\* That "Authorized" goes to somebody who is in the book is not inductive: the
\* entry that the server has before it is still that of its client, and so is
\* the one it has just added.
Asked ==
  cur # None =>
    /\ server = "data" /\ Len(up) = 1 => Head(up) = entry[cur]
    /\ server = "adding" => entry[cur] \in Written
    /\ client[cur] = "sent" /\ down = <<"yes">> => entry[cur] \in Written

BookInv == LoginInv /\ Asked

BookStep == [Book!Next]_(Book!vars)

\* No other record is "yes".
LEMMA OnlyYes ==
  /\ <<>> # <<"yes">> /\ <<"no">> # <<"yes">> /\ <<"token">> # <<"yes">>
  /\ <<"echo">> # <<"yes">> /\ <<"no", "token">> # <<"yes">>
BY SMT

LEMMA InLines ==
  ASSUME NEW f, NEW e
  PROVE  e \in UNION {{f[i][j] : j \in DOMAIN f[i]} : i \in DOMAIN f}
           <=> \E i \in DOMAIN f : \E j \in DOMAIN f[i] : e = f[i][j]
<1> DEFINE L(i) == {f[i][j] : j \in DOMAIN f[i]}
<1>1. \A i : e \in L(i) <=> \E j \in DOMAIN f[i] : e = f[i][j]
  OBVIOUS
<1> HIDE DEF L
<1>2. e \in UNION {L(i) : i \in DOMAIN f} <=> \E i \in DOMAIN f : e \in L(i)
  OBVIOUS
<1>3. e \in UNION {L(i) : i \in DOMAIN f} <=> \E i \in DOMAIN f : \E j \in DOMAIN f[i] : e = f[i][j]
  BY <1>1, <1>2, Zenon
<1> QED BY <1>3 DEF L

LEMMA WrittenIs ==
  /\ \A e : e \in Written <=> \E i \in DOMAIN file : \E j \in DOMAIN file[i] : e = file[i][j]
  /\ \A e : e \in Written' <=> \E i \in DOMAIN file' : \E j \in DOMAIN file'[i] : e = file'[i][j]
<1>1. Written' = UNION {{file'[i][j] : j \in DOMAIN file'[i]} : i \in DOMAIN file'}
  BY DEF Written
<1> QED BY <1>1, InLines DEF Written

\* A registration adds an entry whose login is new.
LEMMA LoginIsNew ==
  ASSUME NEW e \in Entries, RegisterWrite(e)
  PROVE  \A k \in Written : k[1] # e[1]
<1>1. e[1] \in Logins
  BY DEF Entries
<1>2. e[1] \in Within[e[1]]
  BY <1>1, TlsAssumption
<1>3. \A i \in DOMAIN file : \A j \in DOMAIN file[i] : file[i][j][1] # e[1]
  BY <1>2 DEF RegisterWrite, LoginSeen
<1> TAKE k \in Written
<1>4. PICK i \in DOMAIN file : \E j \in DOMAIN file[i] : k = file[i][j]
  BY WrittenIs, Zenon
<1>5. PICK j \in DOMAIN file[i] : k = file[i][j]
  BY <1>4
<1> QED BY <1>3, <1>5

LEMMA WrittenGrows ==
  ASSUME FileInv, NEW e \in Entries, RegisterWrite(e)
  PROVE  Written' = Written \cup {e}
<1>1. CASE ended
  <2>1. file' = Append(file, <<e>>) /\ file \in Seq(Seq(Entries))
    BY <1>1 DEF RegisterWrite, FileInv
  <2>2. DOMAIN file' = DOMAIN file \cup {Len(file) + 1} /\ file'[Len(file) + 1] = <<e>>
    BY <2>1, SMT
  <2>3. \A i \in DOMAIN file : file'[i] = file[i]
    BY <2>1, SMT
  <2>4. DOMAIN <<e>> = {1} /\ <<e>>[1] = e
    BY SMT
  <2>5. \A x : x \in Written' <=> x \in Written \/ x = e
    <3>1. ASSUME NEW x, x \in Written'
          PROVE  x \in Written \/ x = e
      <4>1. PICK i \in DOMAIN file' : \E j \in DOMAIN file'[i] : x = file'[i][j]
        BY <3>1, WrittenIs, Zenon
      <4>2. CASE i \in DOMAIN file
        BY <2>3, <4>1, <4>2, WrittenIs, Zenon
      <4>3. CASE i = Len(file) + 1
        BY <2>2, <2>4, <4>1, <4>3
      <4> QED BY <2>2, <4>2, <4>3
    <3>2. ASSUME NEW x, x \in Written
          PROVE  x \in Written'
      BY <2>2, <2>3, <3>2, WrittenIs, ZenonT(60)
    <3>3. e \in Written'
      BY <2>2, <2>4, WrittenIs, Zenon
    <3> QED BY <3>1, <3>2, <3>3
  <2> QED BY <2>5
<1>2. CASE ~ended
  <2> DEFINE n == Len(file)
             line == file[n]
  <2>1. n \in DOMAIN file /\ line \in Seq(Entries)
    BY <1>2, SMT DEF FileInv
  <2>2. file' = [file EXCEPT ![n] = Append(line, e)]
    BY <1>2 DEF RegisterWrite
  <2>3. /\ DOMAIN Append(line, e) = DOMAIN line \cup {Len(line) + 1}
        /\ Append(line, e)[Len(line) + 1] = e
        /\ \A j \in DOMAIN line : Append(line, e)[j] = line[j]
    BY <2>1, SMT
  <2>4. DOMAIN file' = DOMAIN file
    BY <2>2
  <2>5. file'[n] = Append(line, e) /\ \A i \in DOMAIN file \ {n} : file'[i] = file[i]
    BY <2>1, <2>2
  <2> HIDE DEF n, line
  <2>6. \A x : x \in Written' <=> x \in Written \/ x = e
    <3>1. ASSUME NEW x, x \in Written'
          PROVE  x \in Written \/ x = e
      <4>1. PICK i \in DOMAIN file' : \E j \in DOMAIN file'[i] : x = file'[i][j]
        BY <3>1, WrittenIs, Zenon
      <4>2. CASE i = n
        BY <2>1, <2>3, <2>5, <4>1, <4>2, WrittenIs, Zenon DEF line
      <4>3. CASE i # n
        BY <2>4, <2>5, <4>1, <4>3, WrittenIs, Zenon
      <4> QED BY <4>2, <4>3
    <3>2. ASSUME NEW x, x \in Written
          PROVE  x \in Written'
      <4>1. PICK i \in DOMAIN file : \E j \in DOMAIN file[i] : x = file[i][j]
        BY <3>2, WrittenIs, Zenon
      <4>2. CASE i = n
        BY <2>1, <2>3, <2>4, <2>5, <4>1, <4>2, WrittenIs, Zenon DEF line
      <4>3. CASE i # n
        BY <2>4, <2>5, <4>1, <4>3, WrittenIs, Zenon
      <4> QED BY <4>2, <4>3
    <3>3. e \in Written'
      BY <2>1, <2>3, <2>4, <2>5, WrittenIs, Zenon
    <3> QED BY <3>1, <3>2, <3>3
  <2> QED BY <2>6
<1> QED BY <1>1, <1>2

\* Whoever was found is found after a registration, if it began a new line.
LEMMA KnownStays ==
  ASSUME FileInv, ended, NEW e \in Entries, RegisterWrite(e), NEW x \in Entries, Known(x)
  PROVE  Known(x)'
<1>1. file' = Append(file, <<e>>) /\ file \in Seq(Seq(Entries)) /\ <<e>> \in Seq(Entries)
  BY SMT DEF RegisterWrite, FileInv
<1>2. PICK i \in 1 .. Len(file) : file[i] = <<x>>
  BY DEF Known, Contains
<1>3. Len(file') = Len(file) + 1 /\ Len(file) \in Nat /\ file'[i] = file[i]
  BY <1>1, SMT
<1>4. i \in 1 .. Len(file')
  BY <1>3, SMT
<1> QED BY <1>2, <1>3, <1>4 DEF Known, Contains

LEMMA KnownIsWritten ==
  ASSUME FileInv, NEW e \in Entries, Known(e)
  PROVE  e \in Written
<1>1. PICK i \in 1 .. Len(file) : file[i] = <<e>>
  BY DEF Known, Contains
<1>2. i \in DOMAIN file
  BY SMT DEF FileInv
<1>3. 1 \in DOMAIN <<e>> /\ <<e>>[1] = e
  BY SMT
<1> QED BY <1>1, <1>2, <1>3, WrittenIs

\* Steps that do not touch the file, and what becomes of "Authorized".
LEMMA Stutters ==
  ASSUME file' = file, Granted' = Granted
  PROVE  BookStep
BY DEF Written, BookStep, Book!vars

LEMMA Withdraws ==
  ASSUME file' = file, Granted' = None
  PROVE  BookStep
BY DEF Written, BookStep, Book!Next, Book!Withdraw

LEMMA NotGranted ==
  /\ cur = None \/ client[cur] # "sent" \/ down # <<"yes">> => Granted = None
  /\ cur' = None \/ client'[cur'] # "sent" \/ down' # <<"yes">> => Granted' = None
BY DEF Granted

\* A client sends its entry, or reads an answer to it.
LEMMA ClientBook ==
  ASSUME BookInv, NEW c \in Clients, Client(c)
  PROVE  BookStep /\ Asked'
<1>1. cur = c /\ cur # None /\ c # None
  BY TlsAssumption DEF Client, SendEntry, ReadResponse, RecvAnswer
<1>2. CASE SendEntry(c)
  <2>1. server = "data" /\ up = <<>> /\ down = <<"token">>
    BY <1>1, <1>2, Zenon DEF SendEntry, BookInv, LoginInv, InStep
  <2>2. down' = <<>> /\ up' = <<entry[c]>> /\ Head(up') = entry[c]
    BY <1>2, <2>1, ShortSeqs DEF SendEntry
  <2>3. cur' = cur /\ entry' = entry /\ file' = file /\ server' = "data"
    BY <1>2, <2>1 DEF SendEntry, Stored
  <2>4. BookStep
    BY <2>2, <2>3, NotGranted, OnlyYes, Withdraws
  <2>5. Asked'
    BY <1>1, <2>2, <2>3, OnlyYes DEF Asked
  <2> QED BY <2>4, <2>5
<1>3. CASE ReadResponse(c)
  <2>1. server # "adding" /\ (server = "data" => up = <<>>)
    BY <1>1, <1>3, UpFacts, Zenon DEF ReadResponse, BookInv, LoginInv, InStep
  <2>2. cur' = c /\ server' = server /\ up' = up /\ file' = file /\ client'[c] # "sent"
    BY <1>1, <1>3 DEF ReadResponse, Stored, BookInv, LoginInv, WireType
  <2>3. BookStep
    BY <2>2, NotGranted, Withdraws
  <2>4. Asked'
    BY <2>1, <2>2, UpFacts, SMT DEF Asked
  <2> QED BY <2>3, <2>4
<1>4. CASE RecvAnswer(c)
  <2>1. server = "shell" /\ client[c] = "reading"
    BY <1>1, <1>4, Zenon DEF RecvAnswer, BookInv, LoginInv, InStep
  <2>2. cur' = c /\ server' = server /\ file' = file /\ client' = client
    BY <1>1, <1>4 DEF RecvAnswer, Stored
  <2>3. BookStep
    BY <2>1, <2>2, NotGranted, Withdraws
  <2>4. Asked'
    BY <2>1, <2>2, SMT DEF Asked
  <2> QED BY <2>3, <2>4
<1> QED BY <1>2, <1>3, <1>4 DEF Client

\* What users do, at any time.
LEMMA UserBook ==
  ASSUME BookInv, NEW c \in Clients, User(c)
  PROVE  BookStep /\ Asked'
<1>1. c # None
  BY TlsAssumption
<1>2. CASE Leave(c) /\ cur = c
  <2>1. cur' = None /\ file' = file
    BY <1>2 DEF Leave, Stored
  <2> QED BY <2>1, NotGranted, Withdraws DEF Asked
<1>3. CASE cur # c /\ (Connect(c) \/ TypeEntry(c) \/ Leave(c))
  <2>1. cur' = cur /\ up' = up /\ down' = down /\ file' = file /\ server' = server
    BY <1>3, Zenon DEF Connect, TypeEntry, Leave, Wire, Stored
  <2>2. cur # None => client'[cur] = client[cur] /\ entry'[cur] = entry[cur]
    BY <1>3, SMT DEF Connect, TypeEntry, Leave, BookInv, LoginInv, WireType
  <2>3. Written' = Written
    BY <2>1 DEF Written
  <2>4. BookStep
    BY <2>1, <2>2, Stutters DEF Granted
  <2>5. Asked'
    BY <2>1, <2>2, <2>3 DEF BookInv, Asked
  <2> QED BY <2>4, <2>5
<1>4. CASE cur = c /\ TypeEntry(c)
  <2>1. server \in {"token", "data", "shell"} /\ (server = "data" => up = <<>>)
    BY <1>1, <1>4, UpFacts, Zenon DEF TypeEntry, BookInv, LoginInv, InStep
  <2>2. cur' = c /\ server' = server /\ up' = up /\ file' = file /\ client'[c] # "sent"
    BY <1>4 DEF TypeEntry, Wire, Stored, BookInv, LoginInv, WireType
  <2>3. BookStep
    BY <2>2, NotGranted, Withdraws
  <2>4. Asked'
    BY <2>1, <2>2, UpFacts, SMT DEF Asked
  <2> QED BY <2>3, <2>4
<1>5. CASE SendRequest(c)
  <2>1. cur = c /\ server = "shell"
    BY <1>1, <1>5, Zenon DEF SendRequest, BookInv, LoginInv, InStep
  <2>2. cur' = c /\ server' = server /\ file' = file /\ client'[c] # "sent"
    BY <1>5, <2>1 DEF SendRequest, Stored, BookInv, LoginInv, WireType
  <2>3. BookStep
    BY <2>2, NotGranted, Withdraws
  <2>4. Asked'
    BY <2>1, <2>2, SMT DEF Asked
  <2> QED BY <2>3, <2>4
<1>6. CASE cur = c /\ Connect(c)
  BY <1>1, <1>6, Zenon DEF Connect, BookInv, LoginInv, InStep
<1> QED BY <1>2, <1>3, <1>4, <1>5, <1>6 DEF User

LEMMA DownBook ==
  ASSUME GoesDown
  PROVE  BookStep /\ Asked'
<1>1. cur' = None /\ file' = file
  BY DEF GoesDown, Stored
<1> QED BY <1>1, NotGranted, Withdraws DEF Asked

\* A server that answers nothing.
LEMMA QuietBook ==
  ASSUME BookInv,
         Accept \/ SendToken \/ Echo \/ AuthorizeSpins \/ EchoFails \/ ClientLeft \/ Restart
  PROVE  BookStep /\ Asked'
<1>1. CASE GoesDown
  BY <1>1, DownBook
<1>2. CASE Accept
  <2>1. /\ cur' \in Clients /\ server' = "token" /\ file' = file
        /\ client'[cur'] = "login"
    <3>1. Head(backlog) \in Clients
      BY <1>2, SMT DEF Accept, BookInv, LoginInv, WireType
    <3> QED BY <1>2, <3>1 DEF Accept, Stored, BookInv, LoginInv, WireType
  <2>2. BookStep
    BY <2>1, NotGranted, Withdraws
  <2> QED BY <2>1, <2>2, SMT DEF Asked
<1>3. CASE SendToken
  <2>1. cur # None => up = <<>> /\ down \in {<<>>, <<"no">>}
    BY <1>3, Zenon DEF SendToken, BookInv, LoginInv, InStep
  <2>2. Append(<<>>, "token") = <<"token">> /\ Append(<<"no">>, "token") = <<"no", "token">>
    BY ShortSeqs
  <2>3. cur # None => down' # <<"yes">>
    BY <1>3, <2>1, <2>2, OnlyYes, Zenon DEF SendToken, Send
  <2>4. cur' = cur /\ up' = up /\ file' = file /\ server' = "data"
    BY <1>3 DEF SendToken, Stored
  <2>5. BookStep
    BY <2>3, <2>4, NotGranted, Withdraws
  <2>6. Asked'
    BY <2>1, <2>3, <2>4, UpFacts, SMT DEF Asked
  <2> QED BY <2>5, <2>6
<1>4. CASE Echo
  <2>1. cur # None => client[cur] # "sent"
    BY <1>4, UpFacts, Zenon DEF Echo, BookInv, LoginInv, InStep
  <2>2. cur' = cur /\ client' = client /\ file' = file /\ server' = "shell"
    BY <1>4 DEF Echo, Stored
  <2>3. BookStep
    BY <2>1, <2>2, NotGranted, Withdraws
  <2> QED BY <2>1, <2>2, <2>3, SMT DEF Asked
<1>5. CASE ~GoesDown /\ (AuthorizeSpins \/ EchoFails \/ ClientLeft \/ Restart)
  <2>1. cur' = None /\ file' = file
    BY <1>5, Zenon DEF AuthorizeSpins, EchoFails, ClientLeft, Restart, Wire, Stored,
      BookInv, LoginInv, InStep
  <2> QED BY <2>1, NotGranted, Withdraws DEF Asked
<1> QED BY <1>1, <1>2, <1>3, <1>4, <1>5

\* The entry that the server has is the one its client waits about.
LEMMA WhoAsks ==
  ASSUME BookInv, NEW e \in Entries, server = "data", up # <<>>, Head(up) = e, cur # None
  PROVE  client[cur] = "sent" /\ down = <<>> /\ entry[cur] = e
<1>1. Len(up) = 1
  BY UpFacts DEF BookInv, LoginInv
<1>2. client[cur] = "sent" /\ down = <<>>
  BY <1>1, UpFacts, Zenon DEF BookInv, LoginInv, InStep
<1> QED BY <1>1, <1>2 DEF BookInv, Asked

LEMMA ReplyBook ==
  ASSUME BookInv, NEW e \in Entries, Authorize(e) \/ Decline(e)
  PROVE  BookStep /\ Asked'
<1>1. CASE cur = None
  <2>1. cur' = None /\ file' = file
    BY <1>1, Zenon DEF Authorize, Decline, Replies, Stored
  <2> QED BY <2>1, NotGranted, Withdraws DEF Asked
<1>2. CASE cur # None /\ Decline(e)
  <2>1. client[cur] = "sent" /\ down = <<>>
    BY <1>2, WhoAsks, Zenon DEF Decline, Replies
  <2>2. down' = <<"no">> /\ cur' = cur /\ file' = file /\ server' = "token"
    BY <1>2, <2>1, ShortSeqs DEF Decline, Replies, Send, Stored
  <2>3. BookStep
    BY <2>2, NotGranted, OnlyYes, Withdraws
  <2> QED BY <2>2, <2>3, OnlyYes, SMT DEF Asked
<1>3. CASE cur # None /\ Authorize(e)
  <2>1. client[cur] = "sent" /\ down = <<>> /\ entry[cur] = e
    BY <1>3, WhoAsks, Zenon DEF Authorize, Replies
  <2>2. /\ down' = <<"yes">> /\ cur' = cur /\ file' = file /\ server' = "shell"
        /\ client' = client /\ entry' = entry
    BY <1>3, <2>1, ShortSeqs DEF Authorize, Replies, Send, Stored
  <2>3. e \in Written /\ Written' = Written
    BY <1>3, <2>2, KnownIsWritten DEF Authorize, Written, BookInv, LoginInv
  <2>4. Granted = None /\ Granted' = e
    BY <1>3, <2>1, <2>2, OnlyYes DEF Granted
  <2>5. Book!Grant(e)
    BY <2>3, <2>4 DEF Book!Grant
  <2>6. Asked'
    BY <2>1, <2>2, <2>3, SMT DEF Asked
  <2> QED BY <2>5, <2>6 DEF BookStep, Book!Next, Entries
<1> QED BY <1>1, <1>2, <1>3

LEMMA RegisterBook ==
  ASSUME BookInv, RegisterEnd \/ \E e \in Entries : RegisterWrite(e)
  PROVE  BookStep /\ Asked'
<1>1. ASSUME NEW e \in Entries, RegisterWrite(e)
      PROVE  BookStep /\ Asked'
  <2>1. cur # None => client[cur] = "sent" /\ down = <<>> /\ entry[cur] = e
    BY <1>1, WhoAsks, Zenon DEF RegisterWrite
  <2>2. cur' = cur /\ down' = down /\ entry' = entry /\ server' = "adding" /\ client' = client
    BY <1>1 DEF RegisterWrite
  <2>3. Written' = Written \cup {e} /\ \A k \in Written : k[1] # e[1]
    BY <1>1, WrittenGrows, LoginIsNew DEF BookInv, LoginInv
  <2>4. Granted' = Granted
    BY <2>1, <2>2, NotGranted, OnlyYes
  <2>5. Book!Register(e)
    BY <2>3, <2>4 DEF Book!Register
  <2>6. Asked'
    BY <2>1, <2>2, <2>3, OnlyYes, SMT DEF Asked
  <2> QED BY <2>5, <2>6 DEF BookStep, Book!Next, Entries
<1>2. CASE RegisterEnd /\ cur = None
  <2>1. cur' = None /\ file' = file
    BY <1>2, Zenon DEF RegisterEnd
  <2> QED BY <2>1, NotGranted, Withdraws DEF Asked
<1>3. CASE RegisterEnd /\ cur # None
  <2>1. client[cur] = "sent" /\ down = <<>> /\ entry[cur] \in Written
    BY <1>3, Zenon DEF RegisterEnd, BookInv, Asked, LoginInv, InStep
  <2>2. /\ down' = <<"yes">> /\ cur' = cur /\ file' = file /\ server' = "shell"
        /\ client' = client /\ entry' = entry
    BY <1>3, <2>1, ShortSeqs DEF RegisterEnd, Send
  <2>3. entry[cur] \in Entries /\ Written' = Written
    BY <1>3, <2>2 DEF Written, BookInv, LoginInv, WireType
  <2>4. Granted = None /\ Granted' = entry[cur]
    BY <1>3, <2>1, <2>2, OnlyYes DEF Granted
  <2>5. Book!Grant(entry[cur])
    BY <2>1, <2>3, <2>4 DEF Book!Grant
  <2>6. Asked'
    BY <2>1, <2>2, <2>3, SMT DEF Asked
  <2> QED BY <2>3, <2>5, <2>6 DEF BookStep, Book!Next, Entries
<1> QED BY <1>1, <1>2, <1>3

LEMMA NextBook ==
  ASSUME BookInv, [Next]_vars
  PROVE  BookStep /\ BookInv'
<1>1. LoginInv'
  BY NextInv DEF BookInv
<1>2. CASE UNCHANGED vars
  <2>1. Granted' = Granted /\ Written' = Written /\ file' = file
    BY <1>2 DEF vars, Granted, Written
  <2>2. Asked'
    BY <1>2, <2>1 DEF vars, BookInv, Asked
  <2> QED BY <1>1, <2>1, <2>2, Stutters DEF BookInv
<1>3. CASE \E c \in Clients : Client(c) \/ User(c)
  BY <1>1, <1>3, ClientBook, UserBook DEF BookInv
<1>4. CASE Stopped \/ HandshakeFails
  BY <1>1, <1>4, DownBook DEF Stopped, HandshakeFails, BookInv
<1>5. CASE Accept \/ SendToken \/ Echo \/ AuthorizeSpins \/ EchoFails \/ ClientLeft \/ Restart
  BY <1>1, <1>5, QuietBook DEF BookInv
<1>6. CASE \E e \in Entries : Authorize(e) \/ Decline(e)
  BY <1>1, <1>6, ReplyBook DEF BookInv
<1>7. CASE RegisterEnd \/ \E e \in Entries : RegisterWrite(e)
  BY <1>1, <1>7, RegisterBook DEF BookInv
<1> QED BY <1>2, <1>3, <1>4, <1>5, <1>6, <1>7 DEF Next, Server

\* Only a registration changes the file, and what was found stays found.
LEMMA NextKnown ==
  ASSUME LoginInv, [Next]_vars, NEW x \in Entries, Known(x), ended
  PROVE  Known(x)'
<1>1. CASE \E e \in Entries : RegisterWrite(e)
  BY <1>1, KnownStays DEF LoginInv
<1>2. CASE ~\E e \in Entries : RegisterWrite(e)
  <2>1. file' = file
    BY <1>2, Zenon DEF Next, Client, User, Server, Connect, TypeEntry, SendEntry, ReadResponse,
      SendRequest, RecvAnswer, Leave, Accept, HandshakeFails, SendToken, Authorize, Decline,
      Replies, RegisterEnd, AuthorizeSpins, Echo, EchoFails, ClientLeft, Stopped, Restart,
      GoesDown, Stored, vars
  <2> QED BY <2>1 DEF Known
<1> QED BY <1>1, <1>2

LEMMA InitBook ==
  ASSUME Init
  PROVE  BookInv /\ Book!Init
<1>1. LoginInv
  BY InitInv
<1>2. cur = None /\ file = <<>>
  BY DEF Init
<1>3. Granted = None
  BY <1>2, NotGranted
<1>4. DOMAIN <<>> = {}
  BY SMT
<1>5. Written = {}
  BY <1>2, <1>4, WrittenIs
<1> QED BY <1>1, <1>2, <1>3, <1>5 DEF BookInv, Asked, Book!Init

\* openssl-server.cpp: the server keeps a book of logins, in which nobody takes
\* the login of another, and tells only those in it that they are authorized,
\* with what they have sent themselves; and whoever was found once is found
\* again, a line excepted that a stop of the server has left open.
THEOREM LoginsAreABook == Spec => BookIsKept
<1>1. Init => BookInv /\ Book!Init
  BY InitBook
<1>2. BookInv /\ [Next]_vars => BookInv'
  BY NextBook
<1>3. BookInv /\ [Next]_vars => [Book!Next]_(Book!vars)
  BY NextBook DEF BookStep
<1>4. BookInv /\ [Next]_vars => [\A e \in Entries : Known(e) /\ ended => Known(e)']_vars
  BY NextKnown DEF BookInv
<1> QED BY <1>1, <1>2, <1>3, <1>4, PTL DEF Spec, BookIsKept, Book!Spec
=============================================================================
