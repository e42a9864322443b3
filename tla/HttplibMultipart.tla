--------------------------- MODULE HttplibMultipart ---------------------------
(***************************************************************************)
(* A multipart/form-data body in lesson7/server/httplib.h, from the client *)
(* that puts it together (ClientImpl::Post with items) to the files the    *)
(* server takes it apart into (MultipartFormDataParser, as                 *)
(* read_content_core() uses it).  The body arrives in whatever pieces the  *)
(* reads of the connection return; each piece is one call of parse(), and  *)
(* a step of the model is one turn of the loop in there.                   *)
(*                                                                         *)
(* A text is a sequence of characters, the header lines of a part are one  *)
(* line "h".  The callbacks are those of Server::read_content(), which     *)
(* refuse nothing.                                                         *)
(***************************************************************************)
EXTENDS Integers, Sequences, SequencesExt, FiniteSetsExt

CONSTANTS
  Boundary,    \* boundary_
  Contents,    \* the contents an item may have
  MaxItems,    \* bound: items in the body
  Epilogues,   \* what other clients may append to it
  CutAnywhere  \* the pieces may end within a delimiter

VARIABLES
  items,    \* what the client sends
  text,     \* in this body
  rest,     \* the part of the body that the server has not read
  buf,      \* what the parser keeps, from buf_spos_ to buf_epos_
  state,    \* state_
  valid,    \* is_valid_
  files,    \* the contents delivered so far
  at        \* "read" a piece, "parse" it, body "accepted" or "refused"

vars == <<items, text, rest, buf, state, valid, files, at>>

CRLF == <<"CR", "LF">>
Dash == <<"-", "-">>
Delimiter == CRLF \o Dash \o Boundary

StartsWith(s, i, pattern) == IsPrefix(pattern, SubSeq(s, i + 1, Len(s)))

\* What the proofs rest on.  make_multipart_data_boundary() ends with 16 letters
\* and digits at random, so that no content has the delimiter in it.
Chars ==
  {"CR", "LF", "-", "h"} \cup Range(Boundary) \cup UNION {Range(c) : c \in Contents \cup Epilogues}

FormAssumption ==
  /\ Boundary \in Seq(Chars) /\ "CR" \notin Range(Boundary)
  /\ Contents \subseteq Seq(Chars) /\ Epilogues \subseteq Seq(Chars)
  /\ \A c \in Contents : \A i \in 0 .. Len(c) : ~StartsWith(c, i, Delimiter)
  /\ MaxItems \in Nat

Encode(its) ==
  FlattenSeq([i \in 1 .. Len(its) |->
    Dash \o Boundary \o CRLF \o <<"h">> \o CRLF \o CRLF \o its[i] \o CRLF])
  \o Dash \o Boundary \o Dash \o CRLF

Init ==
  /\ items \in UNION {[1 .. n -> Contents] : n \in 1 .. MaxItems}
  /\ \E epilogue \in Epilogues : text = Encode(items) \o epilogue
  /\ rest = text
  /\ buf = <<>>
  /\ state = 0
  /\ valid = FALSE
  /\ files = <<>>
  /\ at = "read"

\* The text is cut after n characters: in no delimiter, or in the boundary of
\* one that no CRLF-- comes just before.
CleanCut(n) ==
  \A i \in 0 .. n - 1 :
    n < i + Len(Delimiter) /\ StartsWith(text, i, Delimiter) =>
      /\ i + Len(CRLF \o Dash) <= n
      /\ \A j \in 0 .. i - 1 : StartsWith(text, j, CRLF \o Dash) => j + Len(Delimiter) <= i

\* read_content_with_length() reads a piece, and parse() appends it.
ReadPiece ==
  /\ at = "read"
  /\ rest # <<>>
  /\ \E n \in 1 .. Len(rest) :
       /\ CutAnywhere \/ CleanCut(Len(text) - Len(rest) + n)
       /\ buf' = buf \o SubSeq(rest, 1, n)
       /\ rest' = SubSeq(rest, n + 1, Len(rest))
  /\ at' = "parse"
  /\ UNCHANGED <<items, text, state, valid, files>>

\* The position of a pattern in the buffer, or the size of the buffer.
Find(pattern) ==
  LET found == {i \in 0 .. Len(buf) - Len(pattern) : StartsWith(buf, i, pattern)}
  IN  IF found = {} THEN Len(buf) ELSE Min(found)

Erase(n) == buf' = SubSeq(buf, n + 1, Len(buf))

\* parse() returns, true to have more or false to refuse the body.
Return(more) ==
  /\ at' = IF more THEN "read" ELSE "refused"
  /\ UNCHANGED <<items, text, rest, buf, state, files>>

InState(n) == at = "parse" /\ state = n /\ buf # <<>>

InitialBoundary ==
  LET pattern == Dash \o Boundary \o CRLF
  IN  /\ InState(0)
      /\ IF IsPrefix(pattern, buf)
         THEN Erase(Len(pattern)) /\ state' = 1 /\ UNCHANGED <<items, text, rest, files, at>>
         ELSE Return(Len(pattern) > Len(buf))
      /\ UNCHANGED valid

NewEntry ==
  /\ InState(1)
  /\ state' = 2
  /\ UNCHANGED <<items, text, rest, buf, valid, files, at>>

\* A header line, or the empty one, at which the header callback adds a file.
HeaderLine ==
  /\ InState(2)
  /\ LET pos == Find(CRLF)
     IN  IF pos = Len(buf) THEN Return(TRUE)
         ELSE /\ Erase(pos + Len(CRLF))
              /\ IF pos = 0 THEN state' = 3 /\ files' = Append(files, <<>>)
                            ELSE UNCHANGED <<state, files>>
              /\ UNCHANGED <<items, text, rest, at>>
  /\ UNCHANGED valid

\* The content callback gets n characters, which are gone then.
Deliver(n) ==
  files' = [files EXCEPT ![Len(files)] = @ \o SubSeq(buf, 1, n)]

\* Mutant: what is delivered ends with the text, not before the delimiter.
BodyToTheEnd ==
  /\ InState(3)
  /\ IF Len(CRLF \o Dash) > Len(buf) THEN Return(TRUE)
     ELSE LET pos == Find(CRLF \o Dash)
              kept == Len(buf) - pos
              end == Find(Delimiter)
          IN  /\ IF Len(Delimiter) > kept
                 THEN Deliver(pos) /\ Erase(pos) /\ at' = "read" /\ state' = 3
                 ELSE /\ Deliver(Len(buf))
                      /\ Erase(end + Len(Delimiter))
                      /\ state' = 4
                      /\ UNCHANGED at
              /\ UNCHANGED <<items, text, rest>>
  /\ UNCHANGED valid

\* What comes before the first CRLF-- is content, and what comes before the
\* delimiter after that; if there is no delimiter yet, as many characters as
\* it has are.
Body ==
  /\ InState(3)
  /\ IF Len(CRLF \o Dash) > Len(buf) THEN Return(TRUE)
     ELSE LET pos == Find(CRLF \o Dash)
              kept == Len(buf) - pos
              end == Find(Delimiter)
          IN  /\ IF Len(Delimiter) > kept
                 THEN Deliver(pos) /\ Erase(pos) /\ at' = "read" /\ state' = 3
                 ELSE IF end < Len(buf)
                 THEN /\ Deliver(end)
                      /\ Erase(end + Len(Delimiter))
                      /\ state' = 4
                      /\ UNCHANGED at
                 ELSE /\ Deliver(pos + Len(Delimiter))
                      /\ Erase(pos + Len(Delimiter))
                      /\ UNCHANGED <<state, at>>
              /\ UNCHANGED <<items, text, rest>>
  /\ UNCHANGED valid

\* Mutant: the end of the body is looked for before it has arrived.
AfterBoundaryRefuses ==
  /\ InState(4)
  /\ IF IsPrefix(CRLF, buf)
     THEN Erase(Len(CRLF)) /\ state' = 1 /\ UNCHANGED <<items, text, rest, valid, files, at>>
     ELSE IF IsPrefix(Dash \o CRLF, buf)
     THEN /\ Erase(Len(Dash \o CRLF))
          /\ valid' = TRUE
          /\ state' = 5
          /\ UNCHANGED <<items, text, rest, files, at>>
     ELSE Return(FALSE) /\ UNCHANGED valid

\* CRLF and another part, or dashes and the end; anything else stays there.
AfterBoundary ==
  /\ InState(4)
  /\ IF IsPrefix(CRLF, buf)
     THEN Erase(Len(CRLF)) /\ state' = 1 /\ UNCHANGED <<items, text, rest, valid, files, at>>
     ELSE IF IsPrefix(Dash \o CRLF, buf)
     THEN /\ Erase(Len(Dash \o CRLF))
          /\ valid' = TRUE
          /\ state' = 5
          /\ UNCHANGED <<items, text, rest, files, at>>
     ELSE Return(TRUE) /\ UNCHANGED valid

AfterTheEnd ==
  /\ InState(5)
  /\ valid' = FALSE
  /\ Return(FALSE)

BufferEmpty ==
  /\ at = "parse"
  /\ buf = <<>>
  /\ Return(TRUE)
  /\ UNCHANGED valid

\* All of the body is read: read_content_core() asks is_valid().
EndOfBody ==
  /\ at = "read"
  /\ rest = <<>>
  /\ at' = IF valid THEN "accepted" ELSE "refused"
  /\ UNCHANGED <<items, text, rest, buf, state, valid, files>>

Next ==
  \/ ReadPiece \/ InitialBoundary \/ NewEntry \/ HeaderLine \/ Body
  \/ AfterBoundary \/ AfterTheEnd \/ BufferEmpty \/ EndOfBody

Spec == Init /\ [][Next]_vars

-----------------------------------------------------------------------------
\* Whatever pieces the body arrives in, no file gets a character that is not
\* its own, and none is left out: a content reader sees what it is given at
\* once, so this holds for each moment and not only at the end.
DeliveredIsSent ==
  /\ Len(files) <= Len(items)
  /\ \A i \in DOMAIN files :
       IF i = Len(files) /\ state = 3 THEN IsPrefix(files[i], items[i])
       ELSE files[i] = items[i]

\* A body that the client of httplib.h has put together is accepted, with all
\* the items, in as many pieces as it may come.
BodyIsAccepted == text = Encode(items) ~> at = "accepted" /\ Len(files) = Len(items)

\* The comment in read_content_core() (httplib.h:5229-5239) parses the body one
\* character at a time: what is parsed does not depend on the pieces.
PiecesDoNotMatter ==
  /\ text = Encode(items) => at # "refused"
  /\ at = "accepted" => files = items
==============================================================================
