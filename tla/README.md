# NetProgramming: a TLA+ development

The repository is the work of eight lessons on network programming: some twenty
small C++ programs, most of them a server and its client, and two bodies of
code they carry with them, `httplib.h` (an HTTP library in one header) and the
example programs of the Npcap SDK.  The programs share no code of their own
and, where they meet, meet over a connection.  They have what makes network code
hard: threads that share an `io_context` or a queue, signals between threads,
partial transfers, buffers and objects whose lifetime hangs on a handler, files
that outlive a crash, calls of which any may fail, and peers that leave at any
time.

Each module here stands for one program, or for one concern of it, and names its
source in the header comment; `PROJECT.json` maps every definition to the lines
it stands for.

## Inventory

| Part | State | Operations | What is hard | Module |
|---|---|---|---|---|
| lesson4 `tcp-asio-server`, file transfer | `offset`, `chunk_`, the content bound to the handler, one outstanding write | `write`, `send_file`, `handle_send_file` | partial writes, ignored errors, an `int` offset, a buffer that may be gone | `FileTransfer`, `TransferContract` |
| lesson4 `tcp-asio-server`, connections | `shared_ptr`s in handlers, the handler queue, five threads | accept, read, reply and send handlers | interleaving without locks, lifetime, fairness among clients | `AsioServer` |
| lesson5 `http-server` | listening socket, thread pool, posted signals, a `SocketRunnable` per connection | `incomingConnection`, `run`, `stop`, `stop_server` | a signal connected too late, a request in pieces, a full pool, a backlog at the end | `HttpServer` |
| lesson7 server | `svr_sock_`, `is_running_`, the pool's queue and its workers | `listen_internal`, `ThreadPool`, `process_and_close_socket`, `stop` | a handler stops the server under `accept()`, two handlers do | `HttplibServer`, `TaskQueueContract` |
| lesson7 client | `socket_`, `socket_requests_in_flight_`, the thread they are from, two mutexes | `send`, `handle_request`, `connect_with_proxy`, `stop` | `stop()` during a request, nested requests, proxies that refuse | `HttplibClient` |
| lesson7 sockets | the descriptor, its mode, the list of addresses | `create_socket`, `create_client_socket`, `create_server_socket` | every call may fail, for every address | `HttplibSocket` |
| lesson7 requests and answers | a connection that is kept alive, what is on its way | both `process_request`s, content providers, `100-continue` | timeouts, closes, late answers, unread bodies | `HttplibExchange` |
| lesson7 multipart forms | buffer and state of the parser | the encoder, `MultipartFormDataParser::parse` | pieces of any size | `HttplibMultipart` |
| lesson7 texts | none | URLs, parameters, paths, Base64, ranges, chunks, certificate names | boundaries, unsigned counters | `HttplibText` |
| lesson8 `torrent` | `shut_down`, `done`, `h`, `.resume_file` | the alert loop, SIGINT, saving resume data | asynchronous answers, kills, restarts from the file | `TorrentClient` |
| lesson8 `P2P_messenger` | two threads, an `io_context`, one socket | `do_send`, `do_receive`, their handlers | blocking input in a handler, a context that runs out of work | `Messenger` |
| lesson6 `openssl-server`, `openssl-client` | `client_data.txt`, one client at a time | `authorize`, `find_client_data`, `register_client`, `communicate`, `recv_answer` | two programs in lock step, a file that survives stops, clients that leave | `TlsAuth`, `LoginBook` |
| lesson3 `tcp-server`, `tcp-client` | two buffers, two directions of a connection | `send_request`, `recv_answer`, `communicate`, `send_message` | partial sends, one non-blocking read per request, mutual waiting | `TcpEcho` |
| lesson2 sniffer and example programs of the SDK | adapters, the list of adapters, dump files, filters | the calls of each program in order | a call that fails after others have acquired something | `CaptureTools` |
| lesson2 `UserBridge` | two adapters, two threads, a lock, a flag | `CaptureAndForwardThread`, `ctrlc_handler`, the start of the threads | a thread that hangs or does not start, Ctrl+C | `UserBridge` |
| lesson2 `call-interceptor` | one file, one remembered descriptor | `socket`, `write`, `close` | the calls of a program in any order | `CallInterceptor` |
| lesson1 `ping` | a raw socket, a sequence number | `send_ping` | timeouts, late and foreign answers, sends that fail | `Ping` |
| lesson1 `udp_server` | a socket, an address, a buffer | the echo loop | a datagram of the buffer's size or more | `UdpEcho` |
| the rest | hardly any | | | see *Not modelled* |

How they interact:

* lesson5's `tcp-client` and `http-client` talk to `http-server`: they are the
  environment of `HttpServer` (requests in pieces, at any time).
* `openssl-client` talks to `openssl-server`, and `tcp-client` to `tcp-server`:
  `TlsAuth` and `TcpEcho` have both ends.
* In `tcp-asio-server` the two modules meet in the connection: `AsioServer`
  knows of a transfer only that each handler starts the next write or the next
  read; `FileTransfer` is what is sent.
* In lesson7 the modules are layers.  `HttplibSocket` creates the descriptor
  that `HttplibServer` listens at and `HttplibClient` connects.  A worker of
  `HttplibServer` answers requests one after the other; `HttplibExchange` has
  the details of that, against the client, whose use by several threads is
  `HttplibClient`.  `HttplibMultipart` and `HttplibText` are what is done with
  the bytes.
* `CaptureTools!UserBridgeMain` is the start of `UserBridge`, up to the threads.

## The modules

**FileTransfer** is one connection while it sends files.  `offset`, `chunk` and
`op` (the outstanding `async_write_some`) are the code's; `sent` and `wired`
record which bytes, and how many, reached the client.  `Write` is `write()` for
a file that exists; `ShrinkChunk`, `Advance` and `Finish` are the three ways
through `handle_send_file`; `Transfer` and `TransferError` complete a write,
partially or not at all.  `FrameReturns` is the return of the function that
started a write: `content` is a copy bound to the handler, and what the buffer
points to is freed then, so that a write not carried out by then is `stale`.
`int offset` wraps at `IntLimit`.  **TransferContract** is what a client may rely
on: what it has is a prefix of the file, and "successfully sent" means all of
it.  `ContractStep` is the refinement.

**AsioServer** is the whole server: `op[<<c, i>>]` are the operations and
handlers of connection object `c`, `queue` the handlers that are ready, `thr`
what each thread runs, `obj` whether the object is alive and its client there.
A handler runs in two steps, its body and its return, because the operation it
starts may be completed and run by another thread in between.  The object is
freed when the last handler that holds its `shared_ptr` returns.

**HttpServer** has the main thread (`IncomingConnection`, `ConnectController`,
`StopServer` from its event loop), the pool (`PoolStart`, a queue of runnables)
and `SocketRunnable::run` in three steps: reading what has arrived, acting on
the line, disconnecting.  The gap between `threads_->start` and `connect` in
`incomingConnection` is `main # None`.  A request line that comes in pieces is
read as it is when the first has come: a verb without a path, a path that is cut,
or one that is cut just where the name of the info or the exit page ends, which
is taken for that page (`Parsed`).

**HttplibServer** is the main thread in `listen_internal()` and the workers of
the `ThreadPool`.  A step is what a thread does between two accesses to shared
state, so that `stop()` in a worker (`is_running_`, the exchange of
`svr_sock_`, `shutdown`, `close`) interleaves with `accept()` and with a second
`stop()`.  **TaskQueueContract** is what a `TaskQueue` promises the server: each
connection it accepted is served and closed exactly once, before `listen()`
returns.

**HttplibClient** is an `SSLClient` that several threads use: `send()` as
critical sections of `socket_mutex_`, under the recursive `request_mutex_`
(`owner`, `nested`), with `stop()` by anybody at any time.  Connecting through
a proxy, the TLS handshake and nested requests (redirect, digest) are there.

**HttplibSocket** is `create_socket()`, one call of the system per step, each of
which may fail; the kernel gives out the lowest free descriptor.

**HttplibExchange** is the sequence of requests of a client and the workers that
answer them; a unit on a connection is what one write carries.  Each side has
timeouts and may close; a handler may stop the server; answers are plain, chunked
or from a content provider without length, which may give up.  Content with a
length is so many bytes and content without one all that comes, so the client may
read the next answer as content (`ReadForeign`), and what a length leaves of that
is lost or comes next (`torn`).  A head and `100 Continue` always find room; a
piece of content may be written too late, or in part, which counts as not
written.  A body that is not read stays on the connection: that it may also be
lost with the buffer of the request's stream does less harm and is left out.

**HttplibMultipart** has the encoder and the parser; a step is one turn of the
parser's loop, and the body arrives in any pieces.

**HttplibText** is functions only, each next to what it is meant to compute
(Base64 against RFC 4648, a range against the slice of the text, a path against
its depth).  A zero byte ends what `encode_url()` encodes (`Before`), `#` what
`parse_request_line()` reads; more than one `?` is refused, and the alphabet of the
run's words has all of them.  A provider that writes nothing ends chunked content
without its last chunk (`WriteChunked`).  The fixed
buffer of a line (16 characters for a chunk) is a constant, four in the run, so
that short lines exceed it.

**TorrentClient** is the loop of `main()` over alerts (`Pop`, one action per
kind of alert, `Sleep`, `SleepAndSave`), with SIGINT, a kill at any point, and
restarts.  The resume file is opened (and truncated) and written in two steps.
libtorrent is external: it adds the torrent, downloads, posts alerts, and
answers `save_resume_data` in its own time.

**TcpEcho** has both programs and the bytes between them.  A byte is its
position in what the user typed, so that loss, repetition and reordering are
visible.  A connection holds `UpRoom` and `DownRoom` bytes.

**Messenger** is one peer.  Thread A is in `run()` from the start; thread B
first waits in `getline()` outside of `run()`; later whichever thread runs the
handler of a sent message waits in it.  The rest of the group is a source of
datagrams.

**TlsAuth** has the server, its one client and those that wait for `accept()`.
The file is a sequence of lines, and a line a sequence of entries, because the
line break is a write of its own.  The hash stands for the password: the token
is a constant of the server.  **LoginBook** is what the server promises its
users: a book in which a login is taken once and for all, and an answer that
lets in only who is in it.  The book is all that was written to the file,
wherever its lines break (`Written`); who is let in is the entry of the client to
which "Authorized" is under way (`Granted`).

**Ping** is `send_ping()`: the sequence number modulo `Wrap`, `underWay` the
packets that may be answered, late or never, `inbox` what has arrived, foreign
packets included.  **UdpEcho** is the echo loop, with what the final zero behind
a full buffer may hit as a choice.  **CallInterceptor** is the three functions
that replace the C library's, called in any order; a program is *tame* as long
as it has one socket at a time and closes nothing else while it has one.  The
file may not open, or not take a text: then it is `spoilt` until the next socket.

**CaptureTools** treats each program as the set of its ways, a way being the
sequence of its calls with what each acquires, uses and releases and what an
early return releases.  **UserBridge** is what happens once the threads start:
two threads that read, send and print under a lock, the second start that may
fail, and the handler of Ctrl+C, which waits for them a limited time; what
`main()` prints at the end of the start reads freed memory and may end it.

## Runs

Each run is `tlc -config <name>.cfg <module>`.  Three modules put programs that
do not interact side by side: **Lessons** (eight small ones), **Restarts** (the
two that keep a file) and **HttplibParts** (four parts of `httplib.h`).
`program` (or `part`) is chosen at the start and never changes, the variables of
the others keep their initial values, so the states are the sum of the parts'
states and not their product.  The `MC` modules only give values to constants.  An operator whose comment begins with "Mutant" is part of no
specification: it is a plausible change of the code that breaks one of the
properties, and putting it in the place of the original makes that run fail.

| Run | Question | Bounds |
|---|---|---|
| `file_transfer` | is what is sent the file, whatever the partial writes, deferred writes and errors? | chunk of 4 bytes (3 are sent), files of 1 to 12 bytes, an `int` that wraps at 10: several full chunks, shrinking, the wrap |
| `asio_strand` | do the handlers of a connection never overlap, and does it live exactly as long as it is needed? | 2 threads, 2 connections, 3 kinds of request, 2 sends per file; a third thread could only run the accept handler |
| `asio_clients` | is everybody served while transfers to clients that left are retried? | 1 thread (the fewest that could starve somebody), 3 connections |
| `lessons` | eight small programs, each with its own faults: see below | echo: 9 bytes, the sixth zero, directions of 3 and 2, buffers of 2; chat: room for 2 datagrams; ping: 4 sequence numbers, room for 2; udp: 2 clients; interceptor: 3 descriptors; bridge: 2 packets per adapter; web: 2 clients on 1 thread, all first pieces of a request |
| `restarts` | is what the two programs keep in a file of use after any stop or kill? | 2 clients, 3 logins of which one contains another, 2 passwords, 2 waiting connections; a torrent of one piece, one answer and two alerts owed |
| `httplib_server` | does the pool serve and close each connection once while the server is stopped? | 2 workers, 2 connections, one request each: both workers busy, one in the queue, none left |
| `httplib_exchange` | are answers mixed up, or cut short unnoticed? | 2 requests, at most 2 per connection, five kinds of request (a POST with `Expect` stands for one without, which differs only by the `100` that is not sent), three forms of answer: an answer may come late and meet the next request, or be read as the rest of the one before |
| `httplib_parts` | four parts of `httplib.h`: the client, the sockets, forms, texts | 2 threads, 3 kinds of proxy, 2 nested requests; 3 addresses, the third descriptor beyond an `fd_set`; up to 2 items of 8 contents, empty, with the beginnings of a delimiter or CRLF-- shortly before one; all texts of up to 4 to 7 characters over the alphabet of each topic |
| `http_exit` | does a request for the exit page stop http-server? It does not: a finding | 1 connection |
| `torrent_exit` | is the resume data saved before the program exits? It is not: a finding | one piece |
| `httplib_stop` | can the assertion in `stop()` fail? It can: a finding | 2 workers, 2 connections |
| `httplib_pieces` | do the pieces of a multipart body make a difference? They do: a finding | 1 item, pieces that end anywhere |

Every bound is a constant named as one in its module (`MaxSends`, `Goal`,
`MaxSaves`, `MaxAlerts`, `Total`, `Room`, `Backlog`, `EachReceives`, `MaxRequests`,
`MaxNested`, `MaxItems`, `MaxAddresses`) or a size that is small in the
configuration and large in the code (chunk, buffers, sequence numbers, threads).
No action is left out because of them: what is interesting (a full queue, a
wrap, a line torn in the file, a worker that is not there) happens within them.

In `httplib_parts` no piece of a body ends where the parser stumbles
(`CutAnywhere` is FALSE, `CleanCut` says where that is: in the first four
characters of a delimiter, and in its boundary if CRLF-- comes shortly before
it).  Those cases are the finding of `httplib_pieces`, and all else about forms
is checked without them.

Deadlock is not checked where a program ends or may wait for good: in all runs
but the two of `AsioServer`.

## Fairness

The specifications assume that threads which can go on do go on: the operating
system schedules them.  Nobody outside is fair: users need not type, clients
need not ask or leave, a stopped program need not be started again, and nothing
need be lost or arrive.  In particular:

* `FileTransfer`: the network completes a write and, while the client is there,
  does not fail one for ever.
* `AsioServer`, `Messenger`: an `io_context` takes handlers first in, first out,
  so weak fairness of each thread, or of each kind of handler, is enough.
* `HttpServer`: a read that gets nothing ends after its 30 s.
* `HttplibServer`, `HttplibExchange`, `HttplibClient`, forms: reads, writes and
  connecting have timeouts, so each side goes on whatever the
  other does.  Failures of `accept()` are not fair.
* `Ping`: `SO_RCVTIMEO` ends a `recvfrom()`.
* `UserBridge`: the wait of the Ctrl+C handler has a timeout, and then it exits.
  The two threads are not fair: each may hang in `pcap_sendpacket()` for ever.
* `TorrentClient`: only the loop of `main()`; libtorrent may never answer.

Where a mutex is locked twice by the same thread, an assertion has failed or the
process has crashed, nothing is promised, and the liveness properties say so.

## What the runs show

* Although `handle_send_file` finds the end of a file from the offset and the
  last transfer alone, does not count what the shrinking branch sent, and
  ignores errors, a reported transfer is complete (`SentMeansCovered`), for
  files that fit an `int` and writes carried out at once.  More bytes than the
  file are sent: `WireLength` says how many.  A transfer to a client that stays
  ends (`HealthyTransferFinishes`); one to a client that left goes on for ever,
  which keeps its connection but starves nobody (`RequestIsRead`).
* A connection needs no strand (`OneOperation`): its chain of handlers is one,
  and it is freed once its client left (`LeaverIsFreed`), if it waits for a
  request then.
* http-server can lose the exit request (`ExitStops` fails); it stops on nothing
  else but a longer path that was cut at the name of the exit page, and each of
  its connections is in one place (`WebIsOrderly`).
* tcp-client and tcp-server wait for each other only if a request is larger
  than what both directions hold (`EchoGoesOn`); what comes back is in order
  up to the first zero byte (`EchoInOrder`).
* A user of the messenger who does not type still reads, one who types still
  sends (`PeerGoesOn`), and the two threads never run one chain twice
  (`OneChainEach`).
* The ping goes on and wraps its sequence number through losses, timeouts and
  foreign packets (`KeepsPinging`).  The UDP server echoes to whoever sent, unless
  the zero behind its buffer hit the address (`EchoToSender`).  The interceptor
  records what a tame program writes (`TameIsRecorded`): a file that cannot be
  opened or written costs the text of one socket, and the next is recorded again.
* No way through the capture programs uses or releases what is not there
  (`CaptureIsSafe`), four excepted; see *Defects described*.  The bridge closes
  no adapter under a thread, mixes no lines, loses no packet in a patient end,
  and ends (`BridgeIsSafe`, `BridgeEnds`).
* A login of openssl-server never has two passwords, even if the server is
  stopped between entry and line break (`OneEntryPerLogin`); the server keeps the
  book of `LoginBook`, and who is known stays known, except from a line that
  such a stop left open (`BookIsKept`).  Whoever sends a login and password is
  answered (`SentIsAnswered`).
* The torrent client never saves at its end what it asked for
  (`SavedBeforeExit` fails), but its file is never ahead of the data and is
  readable unless a kill hit the write (`ResumeIsSafe`).  One process never
  saves older data over newer (`GoesForward`), and SIGINT ends it once the
  torrent is in the session (`InterruptEnds`).
* The pool of the httplib server keeps its contract, whoever stops the server
  and when (`ContractStep`); `stop()` ends `listen()` (`StopEndsListen`), and
  connections are closed (`AcceptedIsClosed`).  A second `stop()` runs into its
  assertion (`StopAssertion` fails).
* An answer is that of its own request (`AnswerIsOwn`), except on a connection
  on which the server answered before it read the body; content that ends early
  is not taken for all of it and nothing else is read as part of it
  (`ContentIsWhole`), unless the end of the connection is its only end, or an
  answer was written before the body of its request was read.  Each send returns
  and each worker leaves (`BothGoOn`).
* While a request is under way, only its thread closes the socket (`ClosesOwn`);
  each send returns, and a socket that was stopped is closed (`SendReturns`).
  What is sent goes
  over TLS (`SslInUse`), proxies that ask for credentials nobody has excepted.
* What a form delivers is what was sent (`DeliveredIsSent`), and it is accepted
  (`BodyIsAccepted`), if no piece ends where the parser stumbles; otherwise text of a
  delimiter is delivered, and the body refused or the next item swallowed
  (`PiecesDoNotMatter` fails).
* A descriptor that is returned is connected or listening, in blocking mode with
  its timeouts, nothing else stays open, and the error is the last one's
  (`SocketIsSound`).

### Defects described

These were met while modelling.  Each is an exception of the property it
touches, which would not hold without it.

* A redirect or a digest challenge makes `send()` call itself, and the inner
  call resets the flag by which `stop()` asks for the socket to be closed
  (`httplib.h:5940`): the nested request goes on after `stop()`.
* After a 407 of a proxy for which the client has no credentials, a connection
  without TLS stays alive; the next request on it meets `assert(socket.ssl)`
  (7651).
* `connect_with_proxy()` (7498) calls `process_request()` while `send()` holds
  `socket_mutex_`; an answer with `Connection: close` locks it again (6472).
* The body of a GET is not read (a TODO at 4159), and its bytes are taken for
  the next request line; the answer to that may be taken for the next request's,
  or read as the rest of content that has no length (3325) or of a plain body
  that could not be written.
* Content without a length that `stop()`, its provider or a write that is too
  late has cut short is returned as if it were whole.
* `MultipartFormDataParser::parse()` delivers CR, CRLF or CRLF- of a delimiter
  that a piece cuts there (3842).  If CRLF-- stands less than the length of a
  delimiter before one, and a piece ends in the boundary, it delivers as many
  characters as a delimiter has from that CRLF-- on (3869): for the content
  CRLF--x, the first of the delimiter are among them.
* After an error of `accept()` the listening socket is closed but `svr_sock_`
  keeps its value, and `stop()` closes that number again.
* If `FD_CLOEXEC` cannot be set, the new descriptor is not closed (2580).
* A comment near 7674 has `f*.com` match `foo.com`; the code compares whole
  components, of which `*` is one (7774).
* `encode_url()` leaves `#`, `?` and `%` in a path as they are: the server drops all
  behind a `#`, parameters included (4997), takes the text behind `?` for parameters
  and refuses a second one (5024); a zero byte ends the URL (2042), and tabs at the
  end of a path are trimmed.
* An empty `write()` of a provider ends chunked content without its last chunk
  (3576), which the client takes for an error.
* `run()` of http-server reads one piece of a request line: a POST to a longer
  path than `/server/control/exit` stops the server if the piece ends with `exit`.
* `UserBridge.c` frees the list of adapters twice when a thread does not start
  (348, 370), and reads it once more when both have started (384); a run may die
  of that (`PrintStart`); `misc/sendpack.c` never closes its adapter, as
  `sendcap.c:190-194` does; the sniffer with a device name on its command line uses a null device.

## Proofs

The proofs hold for all values of the constants, from the assumption each module
states about them.  Where a run checks a composition, the theorem is about that
composition (`AllSpec => []P`): the steps of the other programs leave alone what
an invariant speaks of.  Every assumption is an `ASSUME` that TLC evaluates for
the values of a run; they say that counts and sizes are natural numbers, that
nobody is one of the clients, and what kinds of requests and pieces there are.

Of each property below, what has to be added to make it inductive is what the
code relies on without saying so.

*FileTransfer*, from `TransferAssumption` (a chunk of at least 2 bytes, files
that are not empty).  `SentMeansCovered` and `NoGaps` are not inductive: a
state in which the outstanding write starts elsewhere than at `offset` satisfies
them and may violate them after the next step.  The inductive invariant `IInv`
adds that the write starts at `offset` and asks for `chunk - 1` bytes
(`OpMatches`), that a write that did not fail transferred something
(`Progress`), that the offset is inside the file (`OffsetInside`), and that what
was sent is a prefix which reaches the offset and the end of the last write
(`SentIsPrefix`).  There is one lemma per action.  From `IInv` follow
`TypeCorrect`, `FinishedIsComplete`, `NeverAHole`, `FailureIsNotSuccess`,
`ChunkStaysSane` and, step by step, `KeepsContract`.  `WireLength` tells how many
bytes cross the wire in all, which no state shows but the last; `Counted` says
it of each state on the way there: the offset is a multiple of `ChunkSize - 1`,
and what was wired is the offset and the write that is not counted yet.
`RoundUpNext` turns the last multiple into the rounded length, and
`OverReadIsOnce` follows.

*AsioServer*, from `ServerAssumption`.  `OneOperation`, `OneAccept` and
`NoUseAfterFree` are inductive together with the types and one more fact: only
a handler of an accept is between its body and the next accept
(`RearmIsAccept`).  Starting an operation from a handler hands the connection
over from one to the other (`IssueOwn`), which is why no two are active.  The
theorems are `TypeCorrect`, `ImplicitStrand`, `ObjectsLiveLongEnough` and
`AlwaysAccepting`.

*HttplibServer*, from `ServerAssumption`.  `PoolInv` is inductive and is itself
what `httplib_server` checks: no connection is twice in the queue or in the
queue and with a worker (`QueueInv`, `ServedInv`), an accepted connection that
is open is in the queue or with a worker (`NobodyLost`), a
worker leaves only when the pool is shut down and the queue empty (`ShutInv`),
and only what was accepted is closed (`ClosedWasAccepted`).  `ShutInv` is what
makes the contract hold: without it a worker could leave before the last job.
`PoolIsSafe` is `[]PoolInv`, `EachJobOnce` the refinement of
`TaskQueueContract`.

*HttplibExchange*, from `ExchangeAssumption`.  `AnswerIsOwn` has three parts,
and each needs to know where the requests and answers are that are under way.
The client has one connection open, and nothing is sent on one that it has not
made (`Shape`).  A request is on one connection only, the last that was made
before it; those on one connection are there in the order of their numbers, and
the handler has not run for any whose head is still to be read: so it runs once
(`Carried`).  What has content comes from a handler that ran (`Backed`).  And on
a connection on which no answer was written before the request was read
(`Clean`), nothing is on its way to the client but parts of the answer to the
request it is busy with: `send()` closes the connection when a request fails, so
that no late answer is left for the next one.  The cases of `Clean` are those of
where head and body of a request are, which the worker decides from what it has
read.  `AnswersAreOwn` follows.  `ContentIsWhole` relates what a worker wrote to
what the client counts, with the pieces between them on the connection: `Chain`
says that each unit there continues the one before it, that the first continues
what the client has read, and that the last is what the worker is at, or else
was the last piece, unless its connection ended badly or the content was cut.
After content that was cut the worker writes nothing more, except after a plain
body, whose write it does not look at (`Ending`).  The client reads something
else as content only where `Chain` lets an answer follow content that it has not
counted to its end, and where an answer or a `100 Continue` is on the way while
the client is in a content; on a `Clean` connection there is none, the `100`
being before the answer (`Early`).  Hence the exceptions of `ContentIsWhole`
(`ForeignOk`), and `ContentsAreWhole` follows.

*HttplibParts*: the client from `ClientAssumption`, the sockets and the forms
from `PartsAssumption`.  The count of requests in flight of the client is the nesting
of the owner, plus one while `send()` itself is counted (`ClientInv`); from that
follows that nobody else finds the count at zero and closes the socket
(`ClosedByItsUser`), and `SentOverSsl` rests on its part about the state of the
socket where a request is sent.  `Invariance` is `[]ClientInv`.
`SocketIsSound` speaks of the end of `create_socket()` only.  Before it, the
descriptors that were given up are the lowest ones, and fewer than the addresses
tried (`Below`), so that `socket()` always has one to give, its number is known,
and what is open in the end can be counted (`SocketInv`).  `SocketsStaySound`
follows.

The forms of *HttplibParts* are two arguments.  The first is about the text that
`Encode` puts together, of any number of items: `Layout` gives for each item the
place where its content begins, and says what stands around it; `EncodeLayout`
proves that there are such places.  The concatenation of the parts is defined by
recursion, and what it comes to is proved by induction (`Flattened`, `Chained`).
`Counting` makes that possible: it has the form of induction over a set of
numbers and is proved from a least counterexample, so that no operator has to be
passed to a theorem of the library.  The second is the invariant of the parser
(`Parsed`): the buffer and what is not read are the text from the place up to
which the parser is done (`Buffered`), and in each of its states that place is at
the beginning, at a header, within a content or at the end of a delimiter
(`Placed`); the files before the last are the items (`Filed`); it waits for more
only if the buffer holds too little to go on (`Waiting`).  The step that matters
is `BodyParsed`.  `NoneBefore` shows that no delimiter comes before the one that
ends a content: none is in the content, by assumption, and none reaches over its
end, because a boundary has no CR.  Where the piece does not end in a delimiter
the parser therefore stays before it or finds it.  `FormAssumption` asks that no
content has the delimiter in it, which the client makes likely with 16 random
characters and does not check, and that the boundary has no CR.
`DeliveredIsSentHolds` follows, and `NeverRefused`: when all is read, what stands
in the buffer is enough to go on in every state but the last.  Nothing is assumed
about the pieces but `CleanCut`; the first version of it forbade the first three
characters only, and the proof of `BodyParsed` failed at the content CRLF--x.

The texts of *HttplibParts* need no assumption but that a character is a byte.
An encoded text is put together from one piece for each byte, which is the byte
itself or a percent sign and two digits (`Stands`).  `DecodeUrl` is recursive from
the end of a text to its beginning: `Decoding` proves that there is a function as
its definition asks for, for which no piece may be read beyond the end
(`DecodeIsInText`), and `Decoded` goes back through the pieces.
`ParamsSurvive` (values in the body of a POST) and `PathsSurvive` follow, the
latter for paths without a percent sign, which `encode_url()` leaves alone; of a
path with a zero byte, what comes before it survives (`BeforeZero`).  It is about
the two functions: that the server cuts a path at `#` and `?` first is in
`ParseTarget`, which TLC checks.
Values in a target are encoded twice and decoded once: `ValuesSurvive` rests on
`encode_url()` changing nothing that `encode_query_param()` has encoded
(`UrlCharsHex`), on its taking a text apart as it was put together
(`UrlCharsParts`), and on an encoded value having no zero byte, whatever the value
has (`FlattenedIn`).  `RangesAreSlices` is what `RangeIsSlice` says, for ranges and
bodies of any length and for all that `parse_range_header()` lets through, `bytes=-`
included; the body is not empty, since `apply_ranges()` treats an empty
one apart (5526).

*Lessons*, from `LessonsAssumption`, has six theorems.

* `BridgeStaysSafe`: `BridgeIsSafe` needs to know how far `main()` has come when
  a thread runs.  A thread has a place only when `main()` has created it,
  `main()` leaves the adapters open as long as the process is up unless it gives
  up, and no thread has been terminated before (`BridgeStarted`).
* `ChainsStaySingle`: `OneChainEach` counts the threads that read a line.  What
  begins a chain must not have been done before, so the invariant says that the
  chain of a thread is not there until the thread starts, and that no line is
  read while a message is under way (`Chains`).
* `EchoesGoBack`: the address is that of the datagram in the buffer as long as
  nothing was written behind the buffer (`UdpInv`).
* `TameStaysRecorded`: while a program is tame its only socket is the one that is
  remembered, with a file that is open unless it has failed, and without a socket
  the file is closed (`TameInv`); without the second half, the next socket would be recorded in the file of the last.
* `WebStaysOrderly`: a client that is twice in a queue is in one place until the
  first of the two is taken out, so the invariant says that no queue has a client
  twice (`WebShape`).  That only a request that reads as the exit page's stops the
  server (`AskedToStop`) needs the whole way of the request: a posted event is of a client that is linked, and a line
  that was read is what that client has sent (`WebAsked`).
* `EchoStaysInOrder`: `EchoInOrder` is about one sequence, what is on its way from
  the user through both directions and back.  It is inductive once the server
  holds nothing while it receives.  Each step cuts out, moves or appends some of
  that sequence, so the proof has lemmas about sequences (`DropMiddle`,
  `TypeMore`, `CStringBegins`, `Cut`, `SameStream`) and one lemma per action.
  `Smallest`, that a set of numbers has a least one, stands in for the induction
  over the position of the first zero byte.

*Restarts*, from `RestartsAssumption`.  The resume file is written from the data
in an alert, so the invariant must reach back to the queue of alerts: what an
alert carries was downloaded when it was posted, and no alert that uses the handle
comes before the one that sets it (`AlertsInv`).  `ResumeStaysSafe` follows.
That saved data never go back needs the order of both queues: resume data rise
within the alerts that `main()` has and within those of the session, the former
are not newer than the latter, and all lie between what was saved and what the
download has reached (`OrderInv`).  `NeverGoesBack` is the action property
`GoesForward`.

*TlsAuth*, from `TlsAssumption`.  That the logins in the file are unique holds
whatever the programs send, because an entry is added only when no line has its
login, and a line whose break is missing is extended and not replaced
(`FileInv`).  That each record is taken for what it is needs more: what is on its
way in both directions at each pair of places of client and server (`InStep`).
`LoginsStayUnique` joins the two.  That the server implements `LoginBook` needs
what an answer is about: the entry the server has before it is still the one its
client waits with, and the one it has just added is in the book (`Asked`).  A
registration is then `Register`, since no line has its login; the answer after a
search that finds, or after the line break, is `Grant`; reading the answer, or
leaving before it comes, is `Withdraw`; everything else stutters (`NextBook`).
`LoginsAreABook` adds that who is known stays known.

Only model-checked:

* all liveness properties, which rest on fairness and `ENABLED`;
* `CaptureIsSafe`: `CaptureTools` has no parameters, and what TLC explores of it
  is all there is;
* `TextsAreRight` as a whole.  Of its topics, ranges are proved, and of URLs what
  encoding and decoding do; that the parts of a target are cut where they were
  joined, and valid paths, Base64, chunks and names in certificates, are checked
  for all short texts.

## Not modelled

* `resolve`, `test_byte_order`: they print what a library returns.
* `http-client`, `tcp-client` of lesson5, `curl-client` of lesson7: a few lines
  around a library; they are the environment of the servers.
* `client-connection.cpp` of lesson5: nothing creates one.
* Of `httplib.h`: the registration of handlers and options, which is done before
  `listen()`; the file handler, compression, digest authentication, regular
  expressions and MIME tables; the code for Windows.
* In `TlsAuth`, the client's use against hosts other than localhost (it skips
  `authorize()`), and the verification of certificates, which it only reports.
* In `Messenger`, which texts are shown, and `send_info()`, which is never
  called.  In `TorrentClient`, the magnet link and the progress output.  In
  `Ping`, the checksum, whose comparison decides about nothing.
* The headers of `npcap-sdk-1.12` declare a library whose code is not here; the
  CMake output in `lesson1/udp_server` is generated.

## What is left

1. An abstract `ServerControl` for `HttpServer` (a stop is requested, the server
   stops), shown to be implemented, by TLC and by proof.
2. Action properties of the connections of `HttplibExchange`, from the invariants
   that are proved: an answer that was returned does not change, a closed
   connection carries nothing new.
3. The other functions of `HttplibText`, one by one, with `Counting`: `Fields`
   first, which stands between `ValuesSurvive` and the whole of
   `RequestSurvives`, then chunks and Base64.
4. The file handler of `httplib.h` with its ranges and content providers, on top
   of `HttplibExchange` and `HttplibText`.
