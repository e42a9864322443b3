--------------------------- MODULE MCFileTransfer ---------------------------
(***************************************************************************)
(* Chunks of 4 bytes stand for chunks of 4096, 10 for 2^31.  Files of 1 to *)
(* 12 bytes: smaller than a chunk, multiples of a chunk and not, ending in *)
(* a shrunk chunk, and longer than int offset can count.                   *)
(***************************************************************************)
EXTENDS FileTransfer

MCSizes == 1 .. 12

=============================================================================
