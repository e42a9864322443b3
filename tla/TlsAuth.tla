------------------------------ MODULE TlsAuth ------------------------------
(***************************************************************************)
(* lesson6: openssl-server serves one client at a time: it sends a token,  *)
(* reads "login hash(password + token)", looks it up in client_data.txt,   *)
(* and adds it if no line contains the login.  Once authorized, a client   *)
(* is sent back what it sends.  openssl-client asks for login and password *)
(* until it is authorized.                                                 *)
(*                                                                         *)
(* The file is a sequence of lines, and a line the sequence of the entries *)
(* written to it: the line break is a write of its own, and a server that  *)
(* is stopped before it leaves a line to which the next entry is appended. *)
(***************************************************************************)
EXTENDS Integers, Sequences, SequencesExt

CONSTANTS
  Clients,
  Logins, Passwords,
  Within,      \* Within[l]: the logins whose entries contain l
  Backlog,     \* connections that may wait, listen(sock, 5)
  None         \* no client

ASSUME TlsAssumption ==
  /\ None \notin Clients /\ Backlog \in Nat
  /\ Logins # {} /\ Passwords # {}
  /\ Within \in [Logins -> SUBSET Logins]
  /\ \A l \in Logins : l \in Within[l]

\* What a client sends to be authorized: the token is always the same, so the
\* hash stands for the password.
Entries == Logins \X Passwords
AnyEntry == CHOOSE e \in Entries : TRUE

VARIABLES
  server,    \* where the server is
  cur,       \* its client, None once that client has left
  backlog,   \* connections the kernel holds, None where the client has left
  up, down,  \* records under way from and to the client
  exists,    \* there is a client_data.txt
  file,      \* its lines
  ended,     \* the last of them ends in a line break
  client,    \* where each client is
  entry      \* what it was given as login and password

vars == <<server, cur, backlog, up, down, exists, file, ended, client, entry>>

Stored == <<exists, file, ended>>
Wire == <<cur, backlog, up, down>>

Init ==
  /\ server = "accept"
  /\ cur = None /\ backlog = <<>> /\ up = <<>> /\ down = <<>>
  /\ exists \in BOOLEAN /\ file = <<>> /\ ended = TRUE
  /\ client = [c \in Clients |-> "out"]
  /\ entry = [c \in Clients |-> AnyEntry]

-----------------------------------------------------------------------------
\* The clients.

\* secure_connect: TCP connects at once, the handshake waits for the server.
Connect(c) ==
  /\ server # "down"
  /\ client[c] = "out"
  /\ Len(backlog) < Backlog
  /\ client' = [client EXCEPT ![c] = "queued"]
  /\ backlog' = Append(backlog, c)
  /\ UNCHANGED <<server, cur, up, down, Stored, entry>>

\* The user types login and password.
TypeEntry(c) ==
  /\ client[c] = "login"
  /\ \E e \in Entries : entry' = [entry EXCEPT ![c] = e]
  /\ client' = [client EXCEPT ![c] = "token"]
  /\ UNCHANGED <<server, Wire, Stored>>

\* authorize(): the token is read and the entry is sent.
SendEntry(c) ==
  /\ cur = c /\ client[c] = "token"
  /\ down # <<>>
  /\ down' = Tail(down)
  /\ up' = Append(up, entry[c])
  /\ client' = [client EXCEPT ![c] = "sent"]
  /\ UNCHANGED <<server, cur, backlog, Stored, entry>>

\* authorize(): the response; another login if it is not "Authorized".
ReadResponse(c) ==
  /\ cur = c /\ client[c] = "sent"
  /\ down # <<>>
  /\ down' = Tail(down)
  /\ client' = [client EXCEPT ![c] = IF Head(down) = "yes" THEN "shell" ELSE "login"]
  /\ entry' = [entry EXCEPT ![c] = AnyEntry]
  /\ UNCHANGED <<server, cur, backlog, up, Stored>>

\* "get /page": the request is sent (its text does not matter).
SendRequest(c) ==
  /\ cur = c /\ client[c] = "shell"
  /\ up' = Append(up, AnyEntry)
  /\ client' = [client EXCEPT ![c] = "reading"]
  /\ UNCHANGED <<server, cur, backlog, down, Stored, entry>>

\* recv_answer() reads on after it has read something, and waits in the next
\* read for as long as the server keeps the connection.
RecvAnswer(c) ==
  /\ cur = c /\ client[c] = "reading"
  /\ down # <<>>
  /\ down' = Tail(down)
  /\ UNCHANGED <<server, cur, backlog, up, Stored, client, entry>>

\* The end of the input, or the program is stopped.
Leave(c) ==
  /\ client[c] # "out"
  /\ client' = [client EXCEPT ![c] = "out"]
  /\ cur' = IF cur = c THEN None ELSE cur
  /\ backlog' = [i \in DOMAIN backlog |-> IF backlog[i] = c THEN None ELSE backlog[i]]
  /\ down' = IF cur = c THEN <<>> ELSE down
  /\ entry' = [entry EXCEPT ![c] = AnyEntry]
  /\ UNCHANGED <<server, up, Stored>>

-----------------------------------------------------------------------------
\* The server.

\* accept() and SSL_accept().
Accept ==
  /\ server = "accept"
  /\ backlog # <<>> /\ Head(backlog) # None
  /\ cur' = Head(backlog)
  /\ backlog' = Tail(backlog)
  /\ client' = [client EXCEPT ![cur'] = "login"]
  /\ up' = <<>> /\ down' = <<>>
  /\ server' = "token"
  /\ UNCHANGED <<Stored, entry>>

\* All that is connected to the server is closed with it.
GoesDown ==
  /\ server' = "down"
  /\ cur' = None /\ backlog' = <<>> /\ up' = <<>> /\ down' = <<>>
  /\ client' = [c \in Clients |-> "out"]
  /\ entry' = [c \in Clients |-> AnyEntry]
  /\ UNCHANGED Stored

\* SSL_accept() fails: main() breaks out of its loop.
HandshakeFails ==
  /\ server = "accept"
  /\ backlog # <<>> /\ Head(backlog) = None
  /\ GoesDown

\* SSL_write to the client, if it is there.
Send(record) == down' = IF cur = None THEN <<>> ELSE Append(down, record)

\* authorize(): the token.
SendToken ==
  /\ server = "token"
  /\ Send("token")
  /\ server' = "data"
  /\ UNCHANGED <<cur, backlog, up, Stored, client, entry>>

\* Mutant: find_client_data() takes any line that has the login.
KnownByLogin(e) ==
  \E i \in DOMAIN file : \E j \in DOMAIN file[i] : file[i][j][1] = e[1]

\* find_client_data(): one of the lines is this entry and nothing else.
Known(e) == Contains(file, <<e>>)

\* Mutant: the login is looked for in the last line only.
LoginSeenLast(e) == file # <<>> /\ Last(file)[1][1] \in Within[e[1]]

LoginSeen(e) ==
  \E i \in DOMAIN file : \E j \in DOMAIN file[i] : file[i][j][1] \in Within[e[1]]

\* Mutant: main() tries again around the read of authorize() only.
RepliesOrReads(e, record) ==
  /\ server = "data"
  /\ up # <<>> /\ Head(up) = e
  /\ up' = Tail(up)
  /\ IF record = "yes" THEN Send(record) /\ server' = "shell"
                       ELSE UNCHANGED <<down, server>>
  /\ UNCHANGED <<cur, backlog, Stored, client, entry>>

\* authorize() has read an entry, and replies.
Replies(e, record) ==
  /\ server = "data"
  /\ up # <<>> /\ Head(up) = e
  /\ up' = Tail(up)
  /\ Send(record)
  /\ server' = IF record = "yes" THEN "shell" ELSE "token"
  /\ UNCHANGED <<cur, backlog, Stored, client, entry>>

\* find_client_data() finds the very line.
Authorize(e) == exists /\ Known(e) /\ Replies(e, "yes")

\* It does not, but some line contains the login; or the file cannot be opened,
\* to be read or (by register_client) to be written.
Decline(e) == (~exists \/ ~Known(e)) /\ Replies(e, "no")

\* register_client(): out.write().
RegisterWrite(e) ==
  /\ server = "data"
  /\ up # <<>> /\ Head(up) = e
  /\ exists /\ ~Known(e) /\ ~LoginSeen(e)
  /\ file' = IF ended THEN Append(file, <<e>>)
             ELSE [file EXCEPT ![Len(file)] = Append(@, e)]
  /\ ended' = FALSE
  /\ up' = Tail(up)
  /\ server' = "adding"
  /\ UNCHANGED <<cur, backlog, down, exists, client, entry>>

\* register_client(): out << std::endl, and the client is authorized.
RegisterEnd ==
  /\ server = "adding"
  /\ ended' = TRUE
  /\ Send("yes")
  /\ server' = "shell"
  /\ UNCHANGED <<cur, backlog, up, exists, file, client, entry>>

\* authorize() reads nothing from a client that left, and main() calls it again
\* for ever, or until SSL_write() ends the process with SIGPIPE.
AuthorizeSpins ==
  /\ server = "data"
  /\ up = <<>> /\ cur = None
  /\ \/ server' = "spinning" /\ UNCHANGED <<Wire, Stored, client, entry>>
     \/ GoesDown

\* communicate(): what was read is sent back.
Echo ==
  /\ server = "shell"
  /\ up # <<>>
  /\ up' = Tail(up)
  /\ Send("echo")
  /\ UNCHANGED <<server, cur, backlog, Stored, client, entry>>

\* send_message() tries again whatever the error.
EchoFails ==
  /\ server = "shell"
  /\ up # <<>> /\ cur = None
  /\ \/ server' = "spinning" /\ UNCHANGED <<Wire, Stored, client, entry>>
     \/ GoesDown

\* SSL_read() fails: communicate() returns.
ClientLeft ==
  /\ server = "shell"
  /\ up = <<>> /\ cur = None
  /\ server' = "accept"
  /\ UNCHANGED <<Wire, Stored, client, entry>>

\* The server has no way to end but being stopped; it is started again.
Stopped == server # "down" /\ GoesDown

Restart ==
  /\ server = "down"
  /\ server' = "accept"
  /\ UNCHANGED <<Wire, Stored, client, entry>>

-----------------------------------------------------------------------------
Client(c) == SendEntry(c) \/ ReadResponse(c) \/ RecvAnswer(c)

User(c) == Connect(c) \/ TypeEntry(c) \/ SendRequest(c) \/ Leave(c)

Server ==
  \/ Accept \/ HandshakeFails \/ SendToken \/ RegisterEnd
  \/ \E e \in Entries : Authorize(e) \/ Decline(e) \/ RegisterWrite(e)
  \/ AuthorizeSpins \/ Echo \/ EchoFails \/ ClientLeft

Next == (\E c \in Clients : Client(c) \/ User(c)) \/ Server \/ Stopped \/ Restart

Spec == Init /\ [][Next]_vars

\* Both programs go on; nobody has to type, to leave or to restart the server.
FairSpec == Spec /\ WF_vars(Server) /\ \A c \in Clients : WF_vars(Client(c))

-----------------------------------------------------------------------------
\* The values of the variables.
TypeOK ==
  /\ server \in {"accept", "token", "data", "adding", "shell", "spinning", "down"}
  /\ cur \in Clients \cup {None} /\ backlog \in Seq(Clients \cup {None})
  /\ up \in Seq(Entries) /\ Len(up) <= 1
  /\ down \in Seq({"token", "yes", "no", "echo"}) /\ Len(down) <= 2
  /\ exists \in BOOLEAN /\ ended \in BOOLEAN /\ file \in Seq(Seq(Entries))
  /\ client \in [Clients ->
       {"out", "queued", "login", "token", "sent", "shell", "reading"}]
  /\ entry \in [Clients -> Entries]

\* A login is given away once: whatever the registrations, the lost clients and
\* the restarts, the file never has it with two passwords.  And the programs
\* keep in step: the client takes each record for what it is, a token for a
\* token and an answer for an answer, however often it is declined.
OneEntryPerLogin ==
  /\ TypeOK
  /\ \A i, k \in DOMAIN file : \A j \in DOMAIN file[i], m \in DOMAIN file[k] :
       file[i][j][1] = file[k][m][1] => i = k /\ j = m
  /\ \A c \in Clients :
       cur = c /\ down # <<>> =>
         CASE client[c] \in {"login", "token"} -> down = <<"token">>
           [] client[c] = "sent"    -> Head(down) \in {"yes", "no"}
           [] client[c] = "reading" -> Head(down) = "echo"
           [] OTHER                 -> FALSE

\* What has been written to the file, wherever the lines break, and the answer
\* that its client has still to read.
Written == UNION {{file[i][j] : j \in DOMAIN file[i]} : i \in DOMAIN file}

Granted ==
  IF cur # None /\ client[cur] = "sent" /\ down = <<"yes">> THEN entry[cur] ELSE None

Book == INSTANCE LoginBook WITH
  Nobody <- None, book <- Written, granted <- Granted

\* The file is a book of logins, and "Authorized" goes only to somebody who is in
\* it with what this very client has sent, be it after a search or a
\* registration, whoever has left or was served in between.  Who was found once
\* is found again, whatever is written later: unless the server was stopped
\* inside a registration, and the line it left is continued.
BookIsKept ==
  /\ Book!Spec
  /\ [][\A e \in Entries : Known(e) /\ ended => Known(e)']_vars

\* A client that sent its login and password is answered, known or not.
SentIsAnswered == \A c \in Clients : client[c] = "sent" ~> client[c] # "sent"

=============================================================================
