------------------------------- MODULE LoginBook -------------------------------
(***************************************************************************)
(* What openssl-server promises its users (lesson6/openssl-server): a      *)
(* login belongs to whoever takes it first and is never given away again,  *)
(* and only somebody who is in the book with this login and password is    *)
(* let in.                                                                 *)
(***************************************************************************)
CONSTANTS Logins, Passwords, Nobody

VARIABLES
  book,      \* the logins that were taken, each with its password
  granted    \* the one to whom "Authorized" is under way

vars == <<book, granted>>

Init ==
  /\ book = {}
  /\ granted = Nobody

\* A login that nobody has.
Register(e) ==
  /\ \A k \in book : k[1] # e[1]
  /\ book' = book \cup {e}
  /\ UNCHANGED granted

Grant(e) ==
  /\ granted = Nobody
  /\ e \in book
  /\ granted' = e
  /\ UNCHANGED book

\* It was read, or has gone with its connection.
Withdraw ==
  /\ granted' = Nobody
  /\ UNCHANGED book

Next ==
  \/ \E e \in Logins \X Passwords : Register(e) \/ Grant(e)
  \/ Withdraw

Spec == Init /\ [][Next]_vars
================================================================================
