----------------------------- MODULE CaptureTools -----------------------------
(***************************************************************************)
(* lesson2/sniffer-pcap++: sniffer-pcap++.cpp, and the example programs of *)
(* npcap-sdk-1.12 beside it, each a sequence of calls that acquire, use    *)
(* and release things of the capture library, with an early return after   *)
(* most of them.  Which thing is still there on which way through the      *)
(* program is all that is modelled: a program is the set of its ways, and  *)
(* a way is the sequence of its calls.  What is printed of a packet is     *)
(* part of the loop that reads it.                                         *)
(***************************************************************************)
EXTENDS Sequences

VARIABLES
  program,   \* which one runs
  way,       \* the calls that are left
  held,      \* what has been acquired and not been released
  sent,      \* packets were sent over an adapter
  state      \* "runs", "failed" with an early return, "ended", "undefined"

vars == <<program, way, held, sent, state>>

(***************************************************************************)
(* Calls.  fails has a member for each early return after the call: what   *)
(* is released before it.                                                  *)
(***************************************************************************)
Call(get, uses, put, fails) == [get |-> get, uses |-> uses, put |-> put, fails |-> fails,
                                sends |-> FALSE]

Get(thing, uses, fails) == Call({thing}, uses, {}, fails)
Use(uses, fails) == Call({}, uses, {}, fails)
Put(thing) == Call({}, {}, {thing}, {})
Send(thing, fails) == [Use({thing}, fails) EXCEPT !.sends = TRUE]

Return == {{}}                    \* an early return that releases nothing
NoReturn == {}

\* LoadNpcapDlls(), and programs that look at their arguments.
Load == <<Use({}, Return)>>
LoadArgs == Load \o <<Use({}, Return)>>

\* The list of the adapters: it is printed, and left alone if it is empty; a
\* number out of range frees it.
Choose == <<Get("list", {}, Return), Use({"list"}, {{}, {"list"}})>>

\* The adapter with that number is opened.
Open(fails) == <<Get("in", {"list"}, fails)>>
ChooseOpen == Choose \o Open({{"list"}})

\* pcap_loop(), or pcap_next_ex() whose error returns early.
Loop == <<Use({"in"}, NoReturn)>>
NextEx == <<Use({"in"}, Return)>>

ShowFree == <<Use({"list"}, NoReturn), Put("list")>>

(***************************************************************************)
(* npcap-sdk-1.12/Examples-pcap.                                           *)
(***************************************************************************)
BasicDump == {Load \o ChooseOpen \o ShowFree \o Loop \o <<Put("in")>>}

\* Mutant: the list is freed as soon as it was printed.
BasicDumpExFreesFirst ==
  {Load \o Choose \o <<Put("list")>> \o Open({{"list"}}) \o NextEx \o <<Put("in")>>}

BasicDumpEx == {Load \o ChooseOpen \o ShowFree \o NextEx \o <<Put("in")>>}

\* The dump file is not closed.
Savedump ==
  {LoadArgs \o ChooseOpen \o <<Get("dump", {"in"}, Return)>> \o ShowFree
     \o <<Use({"in", "dump"}, NoReturn), Put("in")>>}

Readfile == {LoadArgs \o <<Get("in", {}, Return)>> \o Loop \o <<Put("in")>>}

\* An error is printed, and the file closed all the same.
ReadfileEx == {LoadArgs \o <<Get("in", {}, Return)>> \o Loop \o <<Put("in")>>}

\* An error after the adapter was opened frees the list only.
UdpDump ==
  {Load \o ChooseOpen
     \o <<Use({"in"}, {{"list"}}),               \* not Ethernet
          Use({"list"}, NoReturn),               \* the mask of the address
          Use({"in"}, {{"list"}}), Use({"in"}, {{"list"}})>>  \* the filter
     \o ShowFree \o Loop}

\* The list is there to the end.
PktdumpEx ==
  {Load \o Choose \o Open(Return) \o NextEx \o <<Put("in")>>,
   Load \o <<Get("in", {}, Return)>> \o NextEx \o <<Put("in")>>}

\* usage() ends the program, where there is no source and where there is no
\* file; the filter may be left out.
PcapFilter ==
  LET Opened == LoadArgs \o <<Use({}, Return), Get("in", {}, Return),
                              Use({"in"}, Return)>>          \* its options
      Filtered == <<Use({"in"}, {{"in"}}), Use({"in"}, {{"in"}})>>
      Dumped == <<Use({}, Return), Get("dump", {"in"}, {{"in"}}),
                  Use({"in", "dump"}, NoReturn), Put("in"), Put("dump")>>
  IN  {Opened \o Dumped, Opened \o Filtered \o Dumped}

Sendpack ==
  {LoadArgs \o <<Get("in", {}, Return), Use({"in"}, Return), Send("in", Return), Put("in")>>}

Iflist == {Load \o <<Get("list", {}, Return), Use({"list"}, NoReturn), Put("list")>>}

(***************************************************************************)
(* npcap-sdk-1.12/Examples-remote: some close what they open, some do not. *)
(***************************************************************************)
MiscBasicDump == {Load \o ChooseOpen \o ShowFree \o Loop}
MiscBasicDumpEx == {ChooseOpen \o ShowFree \o NextEx}
MiscSavedump ==
  {LoadArgs \o ChooseOpen \o <<Get("dump", {"in"}, Return)>> \o ShowFree
     \o <<Use({"in", "dump"}, NoReturn)>>}
MiscReadfile == {LoadArgs \o <<Use({}, Return), Get("in", {}, Return)>> \o Loop}
MiscReadfileEx == {LoadArgs \o <<Use({}, Return), Get("in", {}, Return)>> \o Loop}
MiscSendpack == {LoadArgs \o <<Get("in", {}, Return), Use({"in"}, Return), Send("in", Return)>>}

RemoteUdpDump ==
  {Load \o ChooseOpen
     \o <<Use({"in"}, {{"list"}}), Use({"list"}, NoReturn),
          Use({"in"}, {{"list"}}), Use({"in"}, {{"list"}})>>
     \o ShowFree \o Loop}

RemotePktdumpEx ==
  {Load \o Choose \o Open(Return) \o NextEx,
   Load \o <<Get("in", {}, Return)>> \o NextEx}

RemotePcapFilter ==
  LET Opened == LoadArgs \o <<Use({}, Return), Get("in", {}, Return)>>
      Filtered == <<Use({"in"}, {{"in"}}), Use({"in"}, {{"in"}})>>
      Dumped == <<Use({}, Return), Get("dump", {"in"}, {{"in"}}), Use({"in", "dump"}, NoReturn)>>
  IN  {Opened \o Dumped, Opened \o Filtered \o Dumped}

RemoteIflist == {Load \o <<Get("list", {}, Return), Use({"list"}, NoReturn), Put("list")>>}

Smp1 == {Load \o ChooseOpen \o NextEx}

\* A filter that is not compiled leaves the adapter open, and one that is not
\* set, or a mode, closes it.
Tcptop ==
  {LoadArgs \o <<Get("in", {}, Return), Use({"in"}, Return),
                 Use({"in"}, {{"in"}}), Use({"in"}, {{"in"}})>> \o Loop \o <<Put("in")>>}

\* A queue of packets is filled from a file, and then sent.
Sendcap ==
  {LoadArgs
     \o <<Get("file", {}, Return), Put("file"),              \* its length
          Use({}, Return), Get("in", {}, Return), Get("out", {}, Return),
          Use({"in", "out"}, NoReturn),                      \* the types of link
          Get("queue", {}, NoReturn),
          Use({"in", "queue"}, {{"queue"}}),                 \* a corrupted file
          [Send("out", NoReturn) EXCEPT !.uses = {"queue", "out"}],
          Put("queue"), Put("in"), Put("out")>>}

PcapFopen ==
  {LoadArgs \o <<Use({}, Return), Use({}, Return),           \* paths, command
                 Get("pipe", {}, Return), Get("in", {"pipe"}, Return)>>
     \o Loop \o <<Put("in"), Put("pipe")>>}

\* Packet.dll: the names are copied, so that there is no list.
TestPacketCapture ==
  {Load \o <<Use({}, Return), Get("in", {}, Return), Use({"in"}, Return),
             Get("packet", {}, Return), Use({"in", "packet"}, Return),
             Put("packet"), Put("in")>>}

TestPacketSend ==
  {LoadArgs \o <<Get("in", {}, Return), Get("packet", {}, Return),
                 [Send("in", Return) EXCEPT !.uses = {"in", "packet"}],
                 Put("packet"), Put("in")>>}

GetMacAddress ==
  {Load \o <<Use({}, Return), Get("in", {}, Return), Get("oid", {}, {{"in"}}),
             Use({"in", "oid"}, NoReturn), Put("oid"), Put("in")>>}

\* UserLevelBridge, until its threads run (UserBridge): main() does not end after
\* that.  If a thread is not created the list is freed, which is done already,
\* and if both are, what is printed then reads the name of an adapter in it.
BridgeOpens == Choose \o Open({{"list"}}) \o <<Get("out", {"list"}, {{"list"}})>>

BridgeFilters ==
  LET Closed == {{"in", "out", "list"}}
  IN  <<Use({"in"}, Closed), Use({"out"}, Closed), Put("list")>>

BridgeThreads ==
  LET Both == {"in", "out"}
  IN  <<Get("first", Both, {Both \cup {"list"}}),
        Get("second", Both, {Both \cup {"list", "first"}}),
        Use({"list"}, NoReturn)>>

UserBridgeMain == {Load \o BridgeOpens \o BridgeFilters \o BridgeThreads}

(***************************************************************************)
(* sniffer-pcap++.cpp.  The vector is the capturing thread's from          *)
(* startCapture() to stopCapture(), and main()'s otherwise.  With a name   *)
(* for the device nobody looks for it, and dev is used as it is: null.     *)
(***************************************************************************)
Sniffer ==
  {<<Use({}, Return), Use({"dev"}, NoReturn)>>,
   <<Use({}, Return), Get("dev", {}, Return), Use({"dev"}, NoReturn),
     Get("in", {"dev"}, Return), Use({"in"}, Return),
     Get("file", {}, Return), Get("packets", {}, NoReturn),
     Call({"capture"}, {"in"}, {"packets"}, NoReturn),
     Call({"packets"}, {"in"}, {"capture"}, NoReturn),
     Use({"packets", "file"}, NoReturn), Put("file"),
     Use({"packets"}, NoReturn)>>}

Programs ==
  [basic_dump |-> BasicDump, basic_dump_ex |-> BasicDumpEx, savedump |-> Savedump,
   readfile |-> Readfile, readfile_ex |-> ReadfileEx, udpdump |-> UdpDump,
   pktdump_ex |-> PktdumpEx, pcap_filter |-> PcapFilter, sendpack |-> Sendpack,
   iflist |-> Iflist, misc_basic_dump |-> MiscBasicDump,
   misc_basic_dump_ex |-> MiscBasicDumpEx, misc_savedump |-> MiscSavedump,
   misc_readfile |-> MiscReadfile, misc_readfile_ex |-> MiscReadfileEx,
   misc_sendpack |-> MiscSendpack, remote_udpdump |-> RemoteUdpDump,
   remote_pktdump_ex |-> RemotePktdumpEx, remote_pcap_filter |-> RemotePcapFilter,
   remote_iflist |-> RemoteIflist, smp_1 |-> Smp1, tcptop |-> Tcptop,
   sendcap |-> Sendcap, pcap_fopen |-> PcapFopen,
   TestPacketCapture |-> TestPacketCapture, TestPacketSend |-> TestPacketSend,
   GetMacAddress |-> GetMacAddress,
   UserBridge |-> UserBridgeMain, sniffer |-> Sniffer]

Init ==
  /\ program \in DOMAIN Programs
  /\ way \in Programs[program]
  /\ held = {}
  /\ sent = FALSE
  /\ state = "runs"

Defined(call) == call.uses \cup call.put \subseteq held

Succeed ==
  /\ state = "runs" /\ way # <<>>
  /\ Defined(Head(way))
  /\ held' = (held \ Head(way).put) \cup Head(way).get
  /\ sent' = (sent \/ Head(way).sends)
  /\ way' = Tail(way)
  /\ UNCHANGED <<program, state>>

FailCall ==
  /\ state = "runs" /\ way # <<>>
  /\ Defined(Head(way))
  /\ \E released \in Head(way).fails : held' = held \ released
  /\ state' = "failed"
  /\ UNCHANGED <<program, way, sent>>

\* Something is used that was never acquired, or not any more.
Misuse ==
  /\ state = "runs" /\ way # <<>>
  /\ ~Defined(Head(way))
  /\ state' = "undefined"
  /\ UNCHANGED <<program, way, held, sent>>

End ==
  /\ state = "runs" /\ way = <<>>
  /\ state' = "ended"
  /\ UNCHANGED <<program, way, held, sent>>

Next == Succeed \/ FailCall \/ Misuse \/ End

Spec == Init /\ [][Next]_vars

-----------------------------------------------------------------------------
\* What an early return from the next call releases without having it.
ReleasedTwice ==
  UNION {released \ (held \cup Head(way).get) : released \in Head(way).fails}

\* A call, and what an early return after it releases, finds what it needs on
\* every way to it: nothing is used before it is there, or after it was
\* released, and nothing is released twice.  There are three exceptions: the
\* sniffer that was given the name of a device, and the list of UserBridge.c,
\* which is freed again where a thread is not created, and read where both are.
HandlesAreSafe ==
  /\ state = "undefined" => program = "sniffer" \/ (program = "UserBridge" /\ Len(way) = 1)
  /\ state = "runs" /\ way # <<>> /\ Defined(Head(way)) =>
       ReleasedTwice \subseteq (IF program = "UserBridge" THEN {"list"} ELSE {})

\* sendcap.c:190-194: if the adapter is not closed there is no guarantee that
\* the packets will be sent.  All that send and end well close it, but the
\* sendpack.c of misc.
SentIsClosed ==
  state = "ended" /\ sent /\ program # "misc_sendpack" => held \cap {"in", "out"} = {}
=============================================================================
