-------------------------- MODULE CallInterceptor --------------------------
(***************************************************************************)
(* lesson2/call-interceptor: a library loaded before libc, which records   *)
(* what a program writes to "the" socket, the first that is open.  The     *)
(* file is opened by each socket() and closed by each close(), whatever is *)
(* closed, and a std::ofstream that is opened twice, or closed twice, or   *)
(* that has failed to open its file or to write to it, writes no more      *)
(* until it is opened anew.  Nothing looks at whether it has failed.       *)
(***************************************************************************)
EXTENDS Integers, FiniteSets

CONSTANT Fds    \* the descriptors of the program

VARIABLES
  open,      \* what each of them is: "free", a "socket" or a "file"
  socketFd,  \* socket_fd
  isOpen,    \* fout.is_open()
  good,      \* fout.good()
  spoilt,    \* the file could not be opened for this socket, or not written
  tame,      \* one socket at a time so far, and nothing else closed during it
  missed     \* something was written to a socket and not recorded

vars == <<open, socketFd, isOpen, good, spoilt, tame, missed>>

Sockets == {fd \in Fds : open[fd] = "socket"}

Init ==
  /\ open = [fd \in Fds |-> "free"]
  /\ socketFd = -1
  /\ isOpen = FALSE
  /\ good = TRUE
  /\ spoilt = FALSE
  /\ tame = TRUE
  /\ missed = FALSE

\* socket(): fd is -1 if there is no socket.  The file may be open already,
\* which is an error, or there may be an error (ok is FALSE) that closes nothing.
Socket(fd) ==
  /\ fd # -1 => open[fd] = "free"
  /\ open' = IF fd = -1 THEN open ELSE [open EXCEPT ![fd] = "socket"]
  /\ socketFd' = IF socketFd = -1 THEN fd ELSE socketFd
  /\ \E ok \in BOOLEAN :
       /\ isOpen' = (isOpen \/ ok)
       /\ good' = (~isOpen /\ ok)
       /\ spoilt' = (~isOpen /\ ~ok)
  /\ tame' = (tame /\ fd # -1 /\ Sockets = {})
  /\ UNCHANGED missed

\* open() is not intercepted.
OpenFile(fd) ==
  /\ open[fd] = "free"
  /\ open' = [open EXCEPT ![fd] = "file"]
  /\ UNCHANGED <<socketFd, isOpen, good, spoilt, tame, missed>>

\* Mutant: socket_fd is kept.
CloseKeeps(fd) ==
  /\ open[fd] # "free"
  /\ open' = [open EXCEPT ![fd] = "free"]
  /\ good' = (good /\ isOpen)
  /\ isOpen' = FALSE
  /\ tame' = (tame /\ (fd \in Sockets \/ Sockets = {}))
  /\ UNCHANGED <<socketFd, spoilt, missed>>

\* close() of any descriptor.
Close(fd) ==
  /\ open[fd] # "free"
  /\ open' = [open EXCEPT ![fd] = "free"]
  /\ socketFd' = IF fd = socketFd THEN -1 ELSE socketFd
  /\ good' = (good /\ isOpen)
  /\ isOpen' = FALSE
  /\ tame' = (tame /\ (fd \in Sockets \/ Sockets = {}))
  /\ UNCHANGED <<spoilt, missed>>

Recording(fd) == fd = socketFd /\ isOpen /\ good

\* write() of more than one byte; less is not recorded.  The text may not get
\* to the file (ok is FALSE).
Write(fd) ==
  /\ open[fd] # "free"
  /\ \E ok \in BOOLEAN :
       /\ good' = (good /\ (Recording(fd) => ok))
       /\ spoilt' = (spoilt \/ (Recording(fd) /\ ~ok))
  /\ missed' = (missed \/ (fd \in Sockets /\ ~Recording(fd) /\ ~spoilt))
  /\ UNCHANGED <<open, socketFd, isOpen, tame>>

Next ==
  \/ Socket(-1)
  \/ \E fd \in Fds : Socket(fd) \/ OpenFile(fd) \/ Close(fd) \/ Write(fd)

-----------------------------------------------------------------------------
\* A program that has one socket after another and closes nothing else while
\* it has one is recorded in full: each socket(), close() pair leaves the
\* descriptor and the file ready for the next.  Any other close(), or a second
\* socket, ends the recording.  A file that cannot be opened or written costs
\* what is written to this socket from then on, and nothing of the next one's.
TameIsRecorded == tame => ~missed
=============================================================================
