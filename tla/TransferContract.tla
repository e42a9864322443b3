-------------------------- MODULE TransferContract --------------------------
(***************************************************************************)
(* What a client of lesson4/tcp-asio-server may rely on when it asks for a *)
(* file, whatever chunks the server cuts the file into: the bytes it has   *)
(* been sent are always a prefix of the file, and the transfer is declared *)
(* finished only when that prefix is the whole file.                       *)
(***************************************************************************)
EXTENDS Integers

CONSTANT Sizes     \* the lengths of the files that may be asked for

VARIABLES
  status,          \* "idle", "sending", or "sent" after a completed transfer
  total,           \* length of the file of the current transfer
  got              \* positions of the file bytes sent to the client so far

cvars == <<status, total, got>>

Prefix(n) == 0 .. n - 1

CInit ==
  /\ status = "idle"
  /\ total = 0
  /\ got = {}

Start ==
  /\ status # "sending"
  /\ status' = "sending"
  /\ total' \in Sizes
  /\ got' = {}

Deliver ==
  /\ status = "sending"
  /\ \E n \in 0 .. total : got' = Prefix(n)
  /\ got \subseteq got'
  /\ UNCHANGED <<status, total>>

Complete ==
  /\ status = "sending"
  /\ got = Prefix(total)
  /\ status' = "sent"
  /\ UNCHANGED <<total, got>>

CNext == Start \/ Deliver \/ Complete

CSpec == CInit /\ [][CNext]_cvars

=============================================================================
