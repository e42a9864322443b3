---------------------------- MODULE HttplibParts ----------------------------
(***************************************************************************)
(* Four parts of httplib.h that are looked at on their own, side by side:  *)
(* `part` is the one that moves, and the others stay where they begin.     *)
(*                                                                         *)
(* "client": several threads send requests over one client, which is       *)
(* HttplibClient, extended here.  "socket": the sockets of client and      *)
(* server are created.  "form": a body arrives in pieces.  "text": a text  *)
(* over the alphabet of a topic grows by one character a step.             *)
(***************************************************************************)
EXTENDS HttplibClient, Sequences

CONSTANTS
  Boundary, Contents, MaxItems, Epilogues, CutAnywhere,   \* Form
  MaxAddresses, FdSetSize,                                \* Create
  LineBuffer,                                             \* Text
  Alphabet,    \* the characters that matter for a topic
  MaxLength,   \* how long the first text of a topic gets (bound)
  MaxOther     \* and the second

VARIABLES
  part,
  items, text, rest, buf, state, valid, files, at,   \* Form
  topic, word, other,                                \* Text
  purpose, step, count, address, fd, list,           \* Create
  opened, leaked, net, blocking, timeouts, error, result

Form == INSTANCE HttplibMultipart
Create == INSTANCE HttplibSocket WITH sock <- fd
Text == INSTANCE HttplibText

\* What the proofs about the sockets and the forms rest on.
ASSUME PartsAssumption ==
  /\ MaxAddresses \in Nat /\ FdSetSize \in Nat
  /\ Form!FormAssumption

ofClient == <<proxy, keepAlive, owner, pc, nested, ret, locked, inFlight, from, closeLater,
              sock, alive>>
ofForm == <<items, text, rest, buf, state, valid, files, at>>
ofText == <<topic, word, other>>
ofSocket == <<purpose, step, count, address, fd, list, opened, leaked, net, blocking,
              timeouts, error, result>>
all == <<part, ofClient, ofForm, ofText, ofSocket>>

AllInit ==
  /\ part \in {"client", "form", "text", "socket"}
  /\ Init
  /\ part # "client" => proxy = "none" /\ keepAlive
  /\ IF part = "form" THEN Form!Init
     ELSE /\ items = <<>> /\ text = <<>> /\ rest = <<>> /\ buf = <<>>
          /\ state = 0 /\ valid = FALSE /\ files = <<>> /\ at = "read"
  /\ topic \in IF part = "text" THEN DOMAIN Alphabet ELSE {"none"}
  /\ word = <<>> /\ other = <<>>
  /\ Create!Init
  /\ part # "socket" => purpose = "listen"

ClientOnly == part = "client" /\ UNCHANGED <<part, ofForm, ofText, ofSocket>>
FormOnly == part = "form" /\ UNCHANGED <<part, ofClient, ofText, ofSocket>>
SocketOnly == part = "socket" /\ UNCHANGED <<part, ofClient, ofForm, ofText>>

Grow ==
  /\ part = "text"
  /\ \E c \in Alphabet[topic] :
       \/ Len(word) < MaxLength[topic] /\ word' = Append(word, c) /\ UNCHANGED other
       \/ Len(other) < MaxOther[topic] /\ other' = Append(other, c) /\ UNCHANGED word
  /\ UNCHANGED <<part, topic, ofClient, ofForm, ofSocket>>

AllNext ==
  \/ ClientOnly /\ Next
  \/ FormOnly /\ Form!Next
  \/ SocketOnly /\ Create!Next
  \/ Grow

AllSpec == AllInit /\ [][AllNext]_all

\* Connecting, reading and writing have timeouts: the owner of the client goes
\* on.  The sender of a form sends all of it, or the read times out and the
\* body is refused.
AllFairSpec ==
  /\ AllSpec
  /\ WF_all(ClientOnly /\ Send)
  /\ WF_all(FormOnly /\ Form!Next)

DeliveredIsSent == Form!DeliveredIsSent
SocketIsSound == Create!SocketIsSound
BodyIsAccepted == part = "form" => Form!BodyIsAccepted

\* The properties of the texts, each for the inputs of its topic.
\* What is encoded at one end arrives at the other, and what decides about
\* access, a path or the name in a certificate, is judged as it should be.
TextsAreRight ==
  /\ topic = "url" => Text!RequestSurvives(word, other)
  /\ topic = "base64" => Text!Base64IsRfc(word)
  /\ topic = "range" /\ word # <<>> => Text!RangeIsSlice(word)
  /\ topic = "chunk" => Text!ChunksArrive(word, other)
  /\ topic = "path" => Text!PathStaysBelow(word)
  /\ topic = "host" => Text!HostIsNamed(word, other)
=============================================================================
