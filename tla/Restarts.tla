------------------------------ MODULE Restarts ------------------------------
(***************************************************************************)
(* The two programs that are stopped, killed and started again, and go on  *)
(* from a file: openssl-server, which is TlsAuth, extended here, and the   *)
(* torrent client.  They do not interact: `program` is the one that runs,  *)
(* and the other stays where it begins.                                    *)
(***************************************************************************)
EXTENDS TlsAuth

CONSTANTS Goal, MaxSaves, MaxAlerts   \* Torrent

VARIABLES
  program,
  resume, pc, buf, h, done, shut_down, torrents, progress,
  alerts, saves, reached, saved, torn, asked

Torrent == INSTANCE TorrentClient WITH file <- resume

\* What the proofs about the torrent client rest on.
ASSUME RestartsAssumption == Torrent!GoalAssumption

ofTorrent == <<resume, pc, buf, h, done, shut_down, torrents, progress, alerts, saves,
               reached, saved, torn, asked>>
all == <<program, vars, ofTorrent>>

AllInit == program \in {"tls", "torrent"} /\ Init /\ Torrent!Init

TlsOnly == program = "tls" /\ UNCHANGED <<program, ofTorrent>>
TorrentOnly == program = "torrent" /\ UNCHANGED <<program, vars>>

AllNext ==
  \/ TlsOnly /\ Next
  \/ TorrentOnly /\ Torrent!Next

AllSpec == AllInit /\ [][AllNext]_all

\* The programs go on; nobody has to type, to leave, to stop a program or to
\* start it again.
AllFairSpec ==
  /\ AllSpec
  /\ WF_all(TlsOnly /\ Server)
  /\ \A c \in Clients : WF_all(TlsOnly /\ Client(c))
  /\ WF_all(TorrentOnly /\ Torrent!Loop)

ResumeIsSafe == Torrent!ResumeIsSafe
GoesForward == Torrent!GoesForward
InterruptEnds == Torrent!InterruptEnds
=============================================================================
