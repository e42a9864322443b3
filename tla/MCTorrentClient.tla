-------------------------- MODULE MCTorrentClient --------------------------
(***************************************************************************)
(* A torrent of one piece, whose end is all that is asked about here.      *)
(***************************************************************************)
EXTENDS TorrentClient

=============================================================================
