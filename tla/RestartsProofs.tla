----------------------------- MODULE RestartsProofs -----------------------------
(***************************************************************************)
(* Proofs about the torrent client of Restarts, for any length of the      *)
(* download and any number of alerts: what the resume file says has been   *)
(* downloaded and is never replaced by something older, and the handle is  *)
(* set when it is used.                                                    *)
(***************************************************************************)
EXTENDS Restarts, TLAPS

\* An alert that makes main() use the handle h comes after one that sets it.
Ends(a) == a.kind \in {"finished", "error"}
HasAdded(s) == \E i \in DOMAIN s : s[i].kind = "added"
Ordered(s) ==
  \A i \in DOMAIN s : Ends(s[i]) => \E j \in DOMAIN s : j < i /\ s[j].kind = "added"

\* The resume data in the alerts s are not ahead of n.
Past(s, n) == \A i \in DOMAIN s : s[i].at <= n

\* ResumeIsSafe is not inductive: the file gets what an alert holds, and the
\* alert what the session had when it was posted; and the alerts that main()
\* is about to handle were ordered while they were in the session.
AlertsInv ==
  /\ Past(buf, reached) /\ Past(alerts, reached) /\ progress <= reached
  /\ pc = "write" => buf # <<>>
  /\ pc = "write" => Head(buf).kind = "resume"
  /\ pc \in {"off", "died"} => ~done
  /\ Torrent!Running =>
       /\ pc = "pop" => buf = <<>>
       /\ done => h
       /\ ~h => Ordered(buf)
       /\ ~h /\ ~HasAdded(buf) => Ordered(alerts)
       /\ ~h /\ ~HasAdded(buf) /\ torrents = 1 => HasAdded(alerts)

ClientInv ==
  /\ Torrent!TypeOK
  /\ resume.at <= reached
  /\ ~torn => resume.kind # "part"
  /\ AlertsInv

-----------------------------------------------------------------------------
\* Sequences of alerts.

LEMMA EmptyAlerts ==
  /\ <<>> \in Seq(Torrent!AlertType)
  /\ Ordered(<<>>) /\ ~HasAdded(<<>>) /\ \A n \in Nat : Past(<<>>, n)
BY SMT DEF Ordered, Past, HasAdded

\* The values of the variables when there is no process, or it has just begun.
LEMMA NothingIsTyped ==
  ASSUME Torrent!GoalAssumption
  PROVE  /\ 0 \in 0 .. Goal /\ 0 \in {0, 1} /\ 0 \in Nat
         /\ FALSE \in BOOLEAN /\ <<>> \in Seq(Torrent!AlertType)
         /\ Torrent!Empty \in [kind : {"empty", "data", "part"}, at : 0 .. Goal]
BY EmptyAlerts, SMT DEF Torrent!GoalAssumption, Torrent!Empty

LEMMA AppendAlert ==
  ASSUME NEW s \in Seq(Torrent!AlertType), NEW a \in Torrent!AlertType, NEW n \in Nat
  PROVE  /\ Append(s, a) \in Seq(Torrent!AlertType)
         /\ Past(s, n) /\ a.at <= n => Past(Append(s, a), n)
         /\ HasAdded(s) \/ a.kind = "added" => HasAdded(Append(s, a))
         /\ Ordered(s) /\ (HasAdded(s) \/ ~Ends(a)) => Ordered(Append(s, a))
<1>1. /\ DOMAIN Append(s, a) = DOMAIN s \cup {Len(s) + 1}
      /\ Append(s, a)[Len(s) + 1] = a
      /\ \A i \in DOMAIN s : Append(s, a)[i] = s[i] /\ i < Len(s) + 1
  BY SMT
<1>2. Past(s, n) /\ a.at <= n => Past(Append(s, a), n)
  BY <1>1, Zenon DEF Past
<1>3. HasAdded(s) \/ a.kind = "added" => HasAdded(Append(s, a))
  BY <1>1, Zenon DEF HasAdded
<1>4. Ordered(s) /\ (HasAdded(s) \/ ~Ends(a)) => Ordered(Append(s, a))
  BY <1>1, Zenon DEF HasAdded, Ordered
<1>5. Append(s, a) \in Seq(Torrent!AlertType)
  BY SMT
<1> QED BY <1>2, <1>3, <1>4, <1>5

LEMMA TailOfAlerts ==
  ASSUME NEW s \in Seq(Torrent!AlertType), s # <<>>, NEW n \in Nat
  PROVE  /\ Tail(s) \in Seq(Torrent!AlertType)
         /\ Head(s) \in Torrent!AlertType
         /\ Past(s, n) => Past(Tail(s), n) /\ Head(s).at <= n
         /\ Head(s).kind # "added" /\ Ordered(s) => Ordered(Tail(s))
         /\ Head(s).kind # "added" /\ HasAdded(s) => HasAdded(Tail(s))
         /\ Ordered(s) => ~Ends(Head(s))
<1>1. Tail(s) \in Seq(Torrent!AlertType) /\ Head(s) \in Torrent!AlertType
  BY SMT
<1>2. 1 \in DOMAIN s /\ Head(s) = s[1]
  BY SMT
<1>3. \A i \in DOMAIN Tail(s) : i + 1 \in DOMAIN s /\ Tail(s)[i] = s[i + 1]
  BY SMT
<1>4. \A i \in DOMAIN s : i = 1 \/ (i - 1 \in DOMAIN Tail(s) /\ Tail(s)[i - 1] = s[i])
  BY SMT
<1>5. DOMAIN s \subseteq Int /\ DOMAIN Tail(s) \subseteq Int
  BY SMT
<1>6. Past(s, n) => Past(Tail(s), n) /\ Head(s).at <= n
  BY <1>2, <1>3 DEF Past
<1>7. ASSUME Head(s).kind # "added", Ordered(s)
      PROVE  Ordered(Tail(s))
  <2> SUFFICES ASSUME NEW i \in DOMAIN Tail(s), Ends(Tail(s)[i])
               PROVE  \E j \in DOMAIN Tail(s) : j < i /\ Tail(s)[j].kind = "added"
    BY DEF Ordered
  <2>1. PICK k \in DOMAIN s : k < i + 1 /\ s[k].kind = "added"
    BY <1>3, <1>7 DEF Ordered
  <2>2. k - 1 \in DOMAIN Tail(s) /\ Tail(s)[k - 1] = s[k]
    BY <1>2, <1>4, <1>7, <2>1
  <2>3. k - 1 < i
    BY <1>5, <2>1, SMT
  <2> QED BY <2>1, <2>2, <2>3
<1>8. ASSUME Head(s).kind # "added", HasAdded(s)
      PROVE  HasAdded(Tail(s))
  BY <1>2, <1>4, <1>8, Zenon DEF HasAdded
<1>9. Ordered(s) => ~Ends(Head(s))
  BY <1>2, SMT DEF Ordered
<1> QED BY <1>1, <1>6, <1>7, <1>8, <1>9

-----------------------------------------------------------------------------
\* Steps.

LEMMA InitInv ==
  ASSUME Torrent!GoalAssumption, Torrent!Init
  PROVE  ClientInv
<1>1. Torrent!TypeOK
  BY NothingIsTyped, Zenon DEF Torrent!Init, Torrent!NoProcess, Torrent!TypeOK
<1>2. AlertsInv
  BY EmptyAlerts, SMT DEF Torrent!Init, Torrent!NoProcess, AlertsInv, Torrent!Running
<1> QED BY <1>1, <1>2, SMT DEF Torrent!Init, Torrent!Empty, ClientInv

\* A process that ends, or begins, knows nothing.
LEMMA EnvironmentStep ==
  ASSUME Torrent!GoalAssumption, ClientInv, Torrent!Environment
  PROVE  ClientInv'
<1> USE DEF Torrent!GoalAssumption, ClientInv, AlertsInv, Torrent!Running, Torrent!ProcessEnds
<1>1. CASE Torrent!Start
  <2>0. resume.at \in 0 .. Goal
    BY DEF Torrent!TypeOK
  <2>1. Torrent!TypeOK'
    BY <1>1, NothingIsTyped, <2>0, Zenon DEF Torrent!Start, Torrent!TypeOK
  <2>2. AlertsInv'
    BY EmptyAlerts, <1>1, SMT DEF Torrent!Start, Torrent!TypeOK
  <2> QED BY <1>1, <2>1, <2>2 DEF Torrent!Start
<1>2. CASE Torrent!StartFails
  <2>1. Torrent!TypeOK'
    BY <1>2, NothingIsTyped, Zenon DEF Torrent!StartFails, Torrent!TypeOK
  <2>2. AlertsInv'
    BY EmptyAlerts, <1>2, SMT DEF Torrent!StartFails, Torrent!TypeOK
  <2> QED BY <1>2, <2>1, <2>2 DEF Torrent!StartFails
<1>3. CASE Torrent!Killed
  <2>1. /\ resume' \in [kind : {"empty", "data", "part"}, at : 0 .. Goal]
        /\ resume'.at <= reached
        /\ pc # "write" => resume' = resume
    <3>1. pc = "write" => Head(buf) \in Torrent!AlertType /\ Head(buf).at <= reached
      BY TailOfAlerts, SMT DEF Torrent!TypeOK
    <3>2. Torrent!Part \in [kind : {"empty", "data", "part"}, at : 0 .. Goal] /\ Torrent!Part.at <= reached
      BY SMT DEF Torrent!Part, Torrent!TypeOK
    <3>3. pc = "write" =>
            /\ Torrent!Data(Head(buf).at) \in [kind : {"empty", "data", "part"}, at : 0 .. Goal]
            /\ Torrent!Data(Head(buf).at).at <= reached
      BY <3>1, SMT DEF Torrent!Data, Torrent!AlertType
    <3> QED BY <1>3, <3>2, <3>3 DEF Torrent!Killed, Torrent!TypeOK
  <2>2. Torrent!TypeOK'
    BY <1>3, <2>1, NothingIsTyped, Zenon DEF Torrent!Killed, Torrent!TypeOK
  <2>3. AlertsInv'
    BY EmptyAlerts, <1>3, SMT DEF Torrent!Killed, Torrent!TypeOK
  <2> QED BY <1>3, <2>1, <2>2, <2>3, Zenon DEF Torrent!Killed
<1>4. CASE Torrent!Interrupt
  <2>1. Torrent!TypeOK'
    BY <1>4, Zenon DEF Torrent!Interrupt, Torrent!Session, Torrent!TypeOK
  <2>2. AlertsInv'
    BY <1>4, Zenon DEF Torrent!Interrupt, Torrent!Session, Past, Ordered, HasAdded
  <2> QED BY <1>4, <2>1, <2>2 DEF Torrent!Interrupt
<1> QED BY <1>1, <1>2, <1>3, <1>4 DEF Torrent!Environment

\* An alert is posted: one that ends the torrent only when it was added, and
\* then the alert which says so is in the session, unless main() has it.
LEMMA PostStep ==
  ASSUME Torrent!GoalAssumption, ClientInv, NEW a \in Torrent!AlertType, Torrent!Post(a), a.at <= reached,
         \/ a.kind = "added" /\ torrents' = 1
         \/ (Ends(a) => torrents = 1) /\ UNCHANGED torrents,
         saves' \in Nat,
         UNCHANGED <<resume, pc, buf, h, done, shut_down, progress, reached, torn, saved, asked>>
  PROVE  ClientInv'
<1> USE DEF ClientInv, AlertsInv
<1>1. reached \in Nat /\ alerts \in Seq(Torrent!AlertType)
  BY SMT DEF Torrent!TypeOK, Torrent!GoalAssumption
<1>2. alerts' = Append(alerts, a) /\ Torrent!Running'
  BY DEF Torrent!Post, Torrent!Running
<1>3. alerts' \in Seq(Torrent!AlertType) /\ Past(alerts', reached')
  BY <1>1, <1>2, AppendAlert
<1>4. ~Ends(a) \/ torrents = 1
  BY DEF Ends
<1>5. ~h /\ ~HasAdded(buf) => Ordered(alerts')
  BY <1>1, <1>2, <1>4, AppendAlert DEF Torrent!Post
<1>6. ~h /\ ~HasAdded(buf) /\ torrents' = 1 => HasAdded(alerts')
  BY <1>1, <1>2, AppendAlert DEF Torrent!Post
<1>7. Torrent!TypeOK'
  BY <1>3, Zenon DEF Torrent!TypeOK
<1>8. AlertsInv'
  BY <1>2, <1>3, <1>5, <1>6, Zenon DEF Torrent!Running
<1> QED BY <1>7, <1>8, Zenon

LEMMA LibtorrentStep ==
  ASSUME Torrent!GoalAssumption, ClientInv, Torrent!Libtorrent
  PROVE  ClientInv'
<1>1. \A k \in Torrent!AlertKinds : Torrent!Alert(k) \in Torrent!AlertType /\ Torrent!Alert(k).at = 0 /\ Torrent!Alert(k).kind = k
  BY SMT DEF Torrent!Alert, Torrent!AlertType, Torrent!GoalAssumption
<1>2. /\ Torrent!ResumeData(progress) \in Torrent!AlertType
      /\ Torrent!ResumeData(progress).at = progress /\ Torrent!ResumeData(progress).kind = "resume"
  BY SMT DEF Torrent!ResumeData, Torrent!AlertType, Torrent!AlertKinds, ClientInv, Torrent!TypeOK
<1>3. progress <= reached /\ 0 <= reached /\ torrents \in {0, 1} /\ saves \in Nat
  BY SMT DEF ClientInv, AlertsInv, Torrent!TypeOK, Torrent!GoalAssumption
<1>4. {"added", "finished", "error", "failed"} \subseteq Torrent!AlertKinds
  BY DEF Torrent!AlertKinds
<1>5. CASE Torrent!Added
  BY <1>1, <1>3, <1>4, <1>5, PostStep, Zenon DEF Torrent!Added
<1>6. CASE Torrent!Finished
  BY <1>1, <1>3, <1>4, <1>6, PostStep, Zenon DEF Torrent!Finished
<1>7. CASE Torrent!TorrentError
  BY <1>1, <1>3, <1>4, <1>7, PostStep, Zenon DEF Torrent!TorrentError
<1>8. CASE Torrent!Answers
  <2>1. saves' \in Nat
    BY <1>3, <1>8, SMT DEF Torrent!Answers
  <2>2. CASE Torrent!Post(Torrent!ResumeData(progress))
    BY <1>2, <1>3, <1>8, <2>1, <2>2, PostStep DEF Torrent!Answers, Ends
  <2>3. CASE Torrent!Post(Torrent!Alert("failed"))
    BY <1>1, <1>3, <1>4, <1>8, <2>1, <2>3, PostStep DEF Torrent!Answers, Ends
  <2> QED BY <1>8, <2>2, <2>3 DEF Torrent!Answers
<1>9. CASE Torrent!Downloads
  <2>1. progress' \in 0 .. Goal /\ reached' \in 0 .. Goal /\ progress' <= reached' /\ reached <= reached'
    BY <1>9, SMT DEF Torrent!Downloads, ClientInv, Torrent!TypeOK, Torrent!GoalAssumption
  <2>2. resume.at <= reached'
    BY <2>1, SMT DEF ClientInv, Torrent!TypeOK, Torrent!GoalAssumption
  <2>3. \A s \in Seq(Torrent!AlertType) : Past(s, reached) => Past(s, reached')
    <3> SUFFICES ASSUME NEW s \in Seq(Torrent!AlertType), Past(s, reached), NEW i \in DOMAIN s
                 PROVE  s[i].at <= reached'
      BY DEF Past
    <3>1. s[i] \in Torrent!AlertType /\ s[i].at <= reached
      BY SMT DEF Past
    <3> QED BY <2>1, <3>1, SMT DEF Torrent!AlertType, ClientInv, Torrent!TypeOK, Torrent!GoalAssumption
  <2>4. Past(buf, reached') /\ Past(alerts, reached')
    BY <2>3, Zenon DEF ClientInv, AlertsInv, Torrent!TypeOK
  <2>5. Torrent!TypeOK'
    BY <1>9, <2>1, Zenon DEF Torrent!Downloads, ClientInv, Torrent!TypeOK
  <2>6. AlertsInv'
    BY <1>9, <2>1, <2>4, Zenon DEF Torrent!Downloads, ClientInv, AlertsInv, Torrent!Running
  <2> QED BY <1>9, <2>2, <2>5, <2>6, Zenon DEF Torrent!Downloads, ClientInv
<1> QED BY <1>5, <1>6, <1>7, <1>8, <1>9 DEF Torrent!Libtorrent

\* The steps of main() that handle no alert.
LEMMA LoopStep ==
  ASSUME Torrent!GoalAssumption, ClientInv,
         \/ Torrent!Pop \/ Torrent!ShutDown \/ Torrent!ForgetSignal \/ Torrent!NoSignal
         \/ Torrent!Sleep \/ Torrent!SleepAndSave \/ Torrent!SaveThrows
  PROVE  ClientInv'
<1>1. saves + 1 \in Nat /\ reached \in Nat
  BY SMT DEF ClientInv, Torrent!TypeOK, Torrent!GoalAssumption
<1>2. <<>> \in Seq(Torrent!AlertType) /\ Ordered(<<>>) /\ ~HasAdded(<<>>) /\ Past(<<>>, reached)
  BY <1>1, EmptyAlerts
<1> USE DEF ClientInv, AlertsInv, Torrent!Running, Torrent!Session
<1>3. CASE Torrent!Pop
  <2>1. Torrent!TypeOK'
    BY <1>2, <1>3, Zenon DEF Torrent!Pop, Torrent!TypeOK
  <2>2. AlertsInv'
    BY <1>2, <1>3, SMT DEF Torrent!Pop
  <2> QED BY <1>3, <2>1, <2>2, Zenon DEF Torrent!Pop
<1>4. CASE Torrent!ShutDown
  <2>1. Torrent!TypeOK'
    BY <1>1, <1>2, <1>4, Zenon DEF Torrent!ShutDown, Torrent!TypeOK
  <2>2. AlertsInv'
    BY <1>2, <1>4, SMT DEF Torrent!ShutDown
  <2> QED BY <1>4, <2>1, <2>2, Zenon DEF Torrent!ShutDown
<1>5. CASE Torrent!ForgetSignal \/ Torrent!NoSignal
  <2>1. Torrent!TypeOK'
    BY <1>5, Zenon DEF Torrent!ForgetSignal, Torrent!NoSignal, Torrent!TypeOK
  <2>2. AlertsInv'
    BY <1>5, SMT DEF Torrent!ForgetSignal, Torrent!NoSignal
  <2> QED BY <1>5, <2>1, <2>2, Zenon DEF Torrent!ForgetSignal, Torrent!NoSignal
<1>6. CASE Torrent!Sleep \/ Torrent!SleepAndSave
  <2>1. Torrent!TypeOK'
    BY <1>1, <1>6, Zenon DEF Torrent!Sleep, Torrent!SleepAndSave, Torrent!TypeOK
  <2>2. AlertsInv'
    BY <1>6, SMT DEF Torrent!Sleep, Torrent!SleepAndSave
  <2> QED BY <1>6, <2>1, <2>2, Zenon DEF Torrent!Sleep, Torrent!SleepAndSave
<1>7. CASE Torrent!SaveThrows
  <2>1. Torrent!TypeOK'
    BY <1>7, NothingIsTyped, Zenon DEF Torrent!SaveThrows, Torrent!ProcessEnds, Torrent!TypeOK
  <2>2. AlertsInv'
    BY <1>1, <1>2, <1>7, SMT DEF Torrent!SaveThrows, Torrent!ProcessEnds
  <2> QED BY <1>7, <2>1, <2>2, Zenon DEF Torrent!SaveThrows
<1> QED BY <1>3, <1>4, <1>5, <1>6, <1>7

\* The alerts that main() handles, one by one.
LEMMA AlertStep ==
  ASSUME Torrent!GoalAssumption, ClientInv, Torrent!HandleAlert
  PROVE  ClientInv'
<1>1. saves + 1 \in Nat /\ reached \in Nat
  BY SMT DEF ClientInv, Torrent!TypeOK, Torrent!GoalAssumption
<1>2. <<>> \in Seq(Torrent!AlertType) /\ Ordered(<<>>) /\ ~HasAdded(<<>>) /\ Past(<<>>, reached)
  BY <1>1, EmptyAlerts
<1>3. buf # <<>> /\ Torrent!Running
  BY Zenon DEF Torrent!HandleAlert, Torrent!HandleAdded, Torrent!HandleEnd, Torrent!OpenResumeFile, Torrent!WriteResumeFile,
    Torrent!HandleFailed, Torrent!Next_, ClientInv, AlertsInv, Torrent!Running
<1>4. /\ Tail(buf) \in Seq(Torrent!AlertType) /\ Head(buf) \in Torrent!AlertType
      /\ Past(Tail(buf), reached) /\ Head(buf).at <= reached
      /\ Head(buf).kind # "added" /\ Ordered(buf) => Ordered(Tail(buf))
      /\ Head(buf).kind # "added" /\ HasAdded(buf) => HasAdded(Tail(buf))
      /\ Ordered(buf) => ~Ends(Head(buf))
  BY <1>1, <1>3, TailOfAlerts, Zenon DEF ClientInv, AlertsInv, Torrent!TypeOK
<1> USE DEF ClientInv, AlertsInv, Torrent!Running, Torrent!Session
<1>5. CASE Torrent!HandleAdded
  <2>1. Torrent!TypeOK'
    BY <1>4, <1>5, Zenon DEF Torrent!HandleAdded, Torrent!TypeOK
  <2>2. AlertsInv'
    BY <1>4, <1>5, SMT DEF Torrent!HandleAdded, Torrent!Next_
  <2> QED BY <1>5, <2>1, <2>2, Zenon DEF Torrent!HandleAdded
<1>6. CASE Torrent!HandleEnd
  <2>1. Torrent!TypeOK'
    BY <1>1, <1>4, <1>6, Zenon DEF Torrent!HandleEnd, Torrent!TypeOK
  <2>2. h
    BY <1>3, <1>4, <1>6, Zenon DEF Torrent!HandleEnd, Torrent!Next_, Ends
  <2>3. AlertsInv'
    BY <1>4, <1>6, <2>2, SMT DEF Torrent!HandleEnd, Torrent!Next_, Torrent!TypeOK
  <2> QED BY <1>6, <2>1, <2>3, Zenon DEF Torrent!HandleEnd
<1>7. CASE Torrent!OpenResumeFile
  <2>1. Torrent!TypeOK'
    BY <1>7, NothingIsTyped, Zenon DEF Torrent!OpenResumeFile, Torrent!TypeOK
  <2>2. AlertsInv'
    BY <1>3, <1>7, SMT DEF Torrent!OpenResumeFile, Torrent!Next_
  <2>3. resume'.at <= reached' /\ resume'.kind # "part"
    BY <1>1, <1>7, SMT DEF Torrent!OpenResumeFile, Torrent!Empty
  <2> QED BY <2>1, <2>2, <2>3
<1>8. CASE Torrent!WriteResumeFile
  <2>1. /\ Head(buf).at \in 0 .. Goal
        /\ Torrent!Data(Head(buf).at) \in [kind : {"empty", "data", "part"}, at : 0 .. Goal]
        /\ Torrent!Data(Head(buf).at).at = Head(buf).at /\ Torrent!Data(Head(buf).at).kind = "data"
    BY <1>4, SMT DEF Torrent!Data, Torrent!AlertType
  <2>2. Torrent!TypeOK'
    BY <1>2, <1>4, <1>8, <2>1, Zenon DEF Torrent!WriteResumeFile, Torrent!TypeOK
  <2>3. AlertsInv'
    BY <1>2, <1>3, <1>4, <1>8, SMT DEF Torrent!WriteResumeFile
  <2>4. resume'.at <= reached' /\ resume'.kind # "part"
    BY <1>4, <1>8, <2>1, SMT DEF Torrent!WriteResumeFile
  <2> QED BY <2>2, <2>3, <2>4
<1>9. CASE Torrent!HandleFailed
  <2>1. Torrent!TypeOK'
    BY <1>2, <1>4, <1>9, Zenon DEF Torrent!HandleFailed, Torrent!TypeOK
  <2>2. AlertsInv'
    BY <1>2, <1>3, <1>4, <1>9, SMT DEF Torrent!HandleFailed, Torrent!Next_
  <2> QED BY <1>9, <2>1, <2>2, Zenon DEF Torrent!HandleFailed
<1> QED BY <1>5, <1>6, <1>7, <1>8, <1>9 DEF Torrent!HandleAlert

LEMMA NextInv ==
  ASSUME Torrent!GoalAssumption, ClientInv, [Torrent!Next]_(Torrent!vars)
  PROVE  ClientInv'
<1>1. CASE Torrent!Next
  BY <1>1, EnvironmentStep, LibtorrentStep, LoopStep, AlertStep DEF Torrent!Next, Torrent!Loop
<1>2. CASE UNCHANGED Torrent!vars
  BY <1>2, ZenonT(60) DEF Torrent!vars, ClientInv, Torrent!TypeOK, AlertsInv, Torrent!Running
<1> QED BY <1>1, <1>2

LEMMA InvIsSafe ==
  ASSUME ClientInv
  PROVE  Torrent!ResumeIsSafe
<1>1. Torrent!Next_("finished") \/ Torrent!Next_("error") => h
  <2> SUFFICES ASSUME Torrent!Next_("finished") \/ Torrent!Next_("error"), ~h
               PROVE  FALSE
    OBVIOUS
  <2>1. buf # <<>> /\ Torrent!Running /\ Ends(Head(buf))
    BY Zenon DEF Torrent!Next_, Torrent!Running, Ends
  <2>2. Ordered(buf) /\ buf \in Seq(Torrent!AlertType)
    BY <2>1, Zenon DEF ClientInv, AlertsInv, Torrent!TypeOK
  <2> QED BY <2>1, <2>2, TailOfAlerts, 0 \in Nat, Zenon
<1>2. pc \notin {"off", "exited"} /\ done => h
  BY Zenon DEF ClientInv, AlertsInv, Torrent!Running
<1> QED BY <1>1, <1>2, Zenon DEF Torrent!ResumeIsSafe, ClientInv

\* The torrent client moves, or stays where it is.
LEMMA TorrentMoves ==
  ASSUME [AllNext]_all
  PROVE  [Torrent!Next]_(Torrent!vars)
<1> USE DEF all, ofTorrent, Torrent!vars
<1>1. CASE UNCHANGED all
  BY <1>1
<1>2. CASE AllNext
  BY <1>2, Zenon DEF AllNext, TlsOnly, TorrentOnly
<1> QED
  BY <1>1, <1>2

\* torrent.cpp: whatever kills and interrupts the client, its file never says
\* more than was downloaded, is torn only by a kill in the middle of the write,
\* and save_resume_data() is called on a handle that was set.
THEOREM ResumeStaysSafe == AllSpec => []ResumeIsSafe
<1>1. AllInit => ClientInv
  BY RestartsAssumption, InitInv DEF AllInit
<1>2. ClientInv /\ [AllNext]_all => ClientInv'
  BY RestartsAssumption, TorrentMoves, NextInv
<1>3. ClientInv => ResumeIsSafe
  BY InvIsSafe DEF ResumeIsSafe
<1> QED BY <1>1, <1>2, <1>3, PTL DEF AllSpec

-----------------------------------------------------------------------------
\* The order of the resume data.

Saves(a) == a.kind = "resume"

\* Resume data in the alerts s are never older than those before them.
Rising(s) ==
  \A i, j \in DOMAIN s : i < j /\ Saves(s[i]) /\ Saves(s[j]) => s[i].at <= s[j].at

\* They are not older than m, nor newer than n.
Between(s, m, n) == \A i \in DOMAIN s : Saves(s[i]) => m <= s[i].at /\ s[i].at <= n

\* Those in s are not newer than those in t.
Follows(s, t) ==
  \A i \in DOMAIN s, j \in DOMAIN t : Saves(s[i]) /\ Saves(t[j]) => s[i].at <= t[j].at

\* GoesForward is not inductive: what is written comes from the first of the
\* alerts that main() has, behind which are the others and those of the session.
OrderInv ==
  Torrent!Running =>
    /\ saved <= progress
    /\ Rising(buf) /\ Between(buf, saved, progress)
    /\ Rising(alerts) /\ Between(alerts, saved, progress)
    /\ Follows(buf, alerts)

LEMMA EmptyRises ==
  /\ Rising(<<>>) /\ \A m, n : Between(<<>>, m, n)
  /\ \A s : Follows(<<>>, s) /\ Follows(s, <<>>)
<1>1. DOMAIN <<>> = {}
  BY SMT
<1> QED BY <1>1, Zenon DEF Rising, Between, Follows

\* An alert that is posted has the newest data, or none.
LEMMA AppendRises ==
  ASSUME NEW s \in Seq(Torrent!AlertType), NEW t \in Seq(Torrent!AlertType),
         NEW a \in Torrent!AlertType, NEW m \in Nat, NEW n \in Nat, m <= n,
         Saves(a) => a.at = n
  PROVE  /\ Rising(s) /\ Between(s, m, n) => Rising(Append(s, a))
         /\ Between(s, m, n) => Between(Append(s, a), m, n)
         /\ Between(t, m, n) /\ Follows(t, s) => Follows(t, Append(s, a))
<1>1. /\ DOMAIN Append(s, a) = DOMAIN s \cup {Len(s) + 1}
      /\ Append(s, a)[Len(s) + 1] = a
      /\ \A i \in DOMAIN s : Append(s, a)[i] = s[i] /\ i < Len(s) + 1 /\ ~(Len(s) + 1 < i)
  BY SMT
<1>2. ~(Len(s) + 1 < Len(s) + 1) /\ n <= n
  BY SMT
<1>3. Rising(s) /\ Between(s, m, n) => Rising(Append(s, a))
  BY <1>1, <1>2, Zenon DEF Rising, Between
<1>4. Between(s, m, n) => Between(Append(s, a), m, n)
  BY <1>1, <1>2, Zenon DEF Between
<1>5. Between(t, m, n) /\ Follows(t, s) => Follows(t, Append(s, a))
  BY <1>1, Zenon DEF Between, Follows
<1> QED BY <1>3, <1>4, <1>5

LEMMA TailRises ==
  ASSUME NEW s \in Seq(Torrent!AlertType), s # <<>>, NEW t \in Seq(Torrent!AlertType),
         NEW m, NEW n, Rising(s), Between(s, m, n)
  PROVE  /\ Rising(Tail(s)) /\ Between(Tail(s), m, n)
         /\ Follows(s, t) => Follows(Tail(s), t)
         /\ Saves(Head(s)) => /\ m <= Head(s).at /\ Head(s).at <= n
                              /\ Between(Tail(s), Head(s).at, n)
                              /\ Follows(s, t) /\ Between(t, m, n) => Between(t, Head(s).at, n)
<1>1. 1 \in DOMAIN s /\ Head(s) = s[1]
  BY SMT
<1>2. \A i \in DOMAIN Tail(s) : i + 1 \in DOMAIN s /\ Tail(s)[i] = s[i + 1] /\ 1 < i + 1
  BY SMT
<1>3. \A i, j \in DOMAIN Tail(s) : i < j => i + 1 < j + 1
  BY SMT
<1>4. Rising(Tail(s))
  BY <1>2, <1>3, Zenon DEF Rising
<1>5. Between(Tail(s), m, n)
  BY <1>2, Zenon DEF Between
<1>6. Follows(s, t) => Follows(Tail(s), t)
  BY <1>2, Zenon DEF Follows
<1>7. ASSUME Saves(Head(s))
      PROVE  m <= Head(s).at /\ Head(s).at <= n /\ Between(Tail(s), Head(s).at, n)
  BY <1>1, <1>2, <1>7, Zenon DEF Rising, Between
<1>8. ASSUME Saves(Head(s)), Follows(s, t), Between(t, m, n)
      PROVE  Between(t, Head(s).at, n)
  BY <1>1, <1>8, Zenon DEF Follows, Between
<1> QED BY <1>4, <1>5, <1>6, <1>7, <1>8

LEMMA PostKeepsOrder ==
  ASSUME ClientInv, OrderInv, NEW a \in Torrent!AlertType, Torrent!Post(a),
         Saves(a) => a.at = progress,
         UNCHANGED <<pc, buf, saved, progress>>
  PROVE  OrderInv'
<1>1. /\ buf \in Seq(Torrent!AlertType) /\ alerts \in Seq(Torrent!AlertType)
      /\ progress \in Nat /\ saved \in Nat
  BY RestartsAssumption, SMT DEF ClientInv, Torrent!TypeOK, Torrent!GoalAssumption
<1>2. alerts' = Append(alerts, a) /\ Torrent!Running
  BY DEF Torrent!Post
<1>3. saved <= progress /\ Rising(alerts) /\ Between(alerts, saved, progress)
      /\ Between(buf, saved, progress) /\ Follows(buf, alerts) /\ Rising(buf)
  BY <1>2 DEF OrderInv
<1>4. /\ Rising(alerts') /\ Between(alerts', saved, progress) /\ Follows(buf, alerts')
  BY <1>1, <1>2, <1>3, AppendRises
<1> QED BY <1>3, <1>4 DEF OrderInv

\* The session: alerts, and what is downloaded meanwhile.
LEMMA SessionOrder ==
  ASSUME ClientInv, OrderInv, Torrent!Libtorrent
  PROVE  OrderInv'
<1>1. \A k \in Torrent!AlertKinds \ {"resume"} :
        Torrent!Alert(k) \in Torrent!AlertType /\ ~Saves(Torrent!Alert(k))
  BY RestartsAssumption, SMT DEF Torrent!Alert, Torrent!AlertType, Torrent!GoalAssumption, Saves
<1>2. Torrent!ResumeData(progress) \in Torrent!AlertType /\ Torrent!ResumeData(progress).at = progress
  BY SMT DEF Torrent!ResumeData, Torrent!AlertType, Torrent!AlertKinds, ClientInv, Torrent!TypeOK
<1>3. {"added", "finished", "error", "failed"} \subseteq Torrent!AlertKinds \ {"resume"}
  BY DEF Torrent!AlertKinds
<1>4. CASE Torrent!Added
  BY <1>1, <1>3, <1>4, PostKeepsOrder, Zenon DEF Torrent!Added
<1>5. CASE Torrent!Finished
  BY <1>1, <1>3, <1>5, PostKeepsOrder, Zenon DEF Torrent!Finished
<1>6. CASE Torrent!TorrentError
  BY <1>1, <1>3, <1>6, PostKeepsOrder, Zenon DEF Torrent!TorrentError
<1>7. CASE Torrent!Answers
  BY <1>1, <1>2, <1>3, <1>7, PostKeepsOrder, Zenon DEF Torrent!Answers
<1>8. CASE Torrent!Downloads
  <2>1. /\ progress \in 0 .. Goal /\ saved \in 0 .. Goal /\ progress' = progress + 1
        /\ UNCHANGED <<pc, buf, alerts, saved>>
    BY <1>8, Zenon DEF Torrent!Downloads, ClientInv, Torrent!TypeOK
  <2>2. \A s \in Seq(Torrent!AlertType) : Between(s, saved, progress) => Between(s, saved, progress')
    <3> SUFFICES ASSUME NEW s \in Seq(Torrent!AlertType), Between(s, saved, progress),
                        NEW i \in DOMAIN s, Saves(s[i])
                 PROVE  saved <= s[i].at /\ s[i].at <= progress'
      BY DEF Between
    <3>1. s[i] \in Torrent!AlertType /\ saved <= s[i].at /\ s[i].at <= progress
      BY SMT DEF Between
    <3> QED BY <2>1, <3>1, RestartsAssumption, SMT DEF Torrent!AlertType, Torrent!GoalAssumption
  <2>3. buf \in Seq(Torrent!AlertType) /\ alerts \in Seq(Torrent!AlertType)
    BY DEF ClientInv, Torrent!TypeOK
  <2>4. saved <= progress => saved <= progress'
    BY <2>1, RestartsAssumption, SMT DEF Torrent!GoalAssumption
  <2> QED BY <2>1, <2>2, <2>3, <2>4, Zenon DEF OrderInv, Torrent!Running
<1> QED BY <1>4, <1>5, <1>6, <1>7, <1>8 DEF Torrent!Libtorrent

\* A step that leaves main() its alerts, takes the first of them, or takes all
\* that are in the session when it has none.
LEMMA ReadingOrder ==
  ASSUME ClientInv, OrderInv, Torrent!Running, UNCHANGED <<saved, progress>>,
         \/ UNCHANGED <<buf, alerts>>
         \/ buf # <<>> /\ buf' \in {Tail(buf), <<>>} /\ UNCHANGED alerts
         \/ buf' = alerts /\ alerts' = <<>>
  PROVE  OrderInv'
<1>1. buf \in Seq(Torrent!AlertType) /\ alerts \in Seq(Torrent!AlertType)
  BY DEF ClientInv, Torrent!TypeOK
<1>2. /\ saved <= progress
      /\ Rising(buf) /\ Between(buf, saved, progress)
      /\ Rising(alerts) /\ Between(alerts, saved, progress)
      /\ Follows(buf, alerts)
  BY DEF OrderInv
<1>3. CASE UNCHANGED <<buf, alerts>>
  BY <1>2, <1>3 DEF OrderInv
<1>4. CASE buf # <<>> /\ buf' = Tail(buf) /\ UNCHANGED alerts
  BY <1>1, <1>2, <1>4, TailRises DEF OrderInv
<1>5. CASE buf' = <<>> /\ UNCHANGED alerts
  BY <1>2, <1>5, EmptyRises DEF OrderInv
<1>6. CASE buf' = alerts /\ alerts' = <<>>
  BY <1>2, <1>6, EmptyRises DEF OrderInv
<1> QED BY <1>3, <1>4, <1>5, <1>6

\* main(), and what starts and stops it; saved goes on.
LEMMA LoopOrder ==
  ASSUME ClientInv, OrderInv, Torrent!Loop \/ Torrent!Environment
  PROVE  OrderInv' /\ (Torrent!Running /\ Torrent!Running' => saved' >= saved)
<1>1. /\ buf \in Seq(Torrent!AlertType) /\ alerts \in Seq(Torrent!AlertType)
      /\ saved \in 0 .. Goal /\ Goal \in Nat /\ resume.at \in 0 .. Goal
  BY RestartsAssumption, SMT DEF ClientInv, Torrent!TypeOK, Torrent!GoalAssumption
<1>2. \A n \in 0 .. Goal : n <= n /\ n >= n
  BY <1>1, SMT
<1>3. CASE ~Torrent!Running'
  BY <1>3 DEF OrderInv
<1>4. CASE Torrent!Start
  <2>1. /\ ~Torrent!Running /\ saved' = resume.at /\ progress' = resume.at
        /\ buf' = <<>> /\ alerts' = <<>>
    BY <1>4 DEF Torrent!Start
  <2> QED BY <1>1, <1>2, <2>1, EmptyRises DEF OrderInv
<1>5. CASE Torrent!WriteResumeFile
  <2>1. /\ pc = "write" /\ buf # <<>> /\ Saves(Head(buf))
        /\ Torrent!Running
    BY <1>5, Zenon DEF Torrent!WriteResumeFile, ClientInv, AlertsInv, Saves, Torrent!Running
  <2>2. /\ saved' = Head(buf).at /\ buf' \in {Tail(buf), <<>>}
        /\ UNCHANGED <<alerts, progress>>
    BY <1>5 DEF Torrent!WriteResumeFile, Torrent!Session
  <2>3. /\ saved <= Head(buf).at /\ Head(buf).at <= progress
        /\ Rising(Tail(buf)) /\ Between(Tail(buf), Head(buf).at, progress)
        /\ Rising(alerts) /\ Between(alerts, Head(buf).at, progress)
        /\ Follows(Tail(buf), alerts)
    BY <1>1, <2>1, TailRises, Zenon DEF OrderInv
  <2>4. saved' >= saved
    BY <2>2, <2>3, SMT
  <2>5. OrderInv'
    BY <2>2, <2>3, EmptyRises DEF OrderInv
  <2> QED BY <2>4, <2>5
<1>6. CASE \/ Torrent!Pop \/ Torrent!ForgetSignal \/ Torrent!NoSignal \/ Torrent!Sleep
           \/ Torrent!SleepAndSave \/ Torrent!OpenResumeFile \/ Torrent!Interrupt
           \/ Torrent!HandleAdded \/ Torrent!HandleEnd \/ Torrent!HandleFailed
  <2>1. /\ Torrent!Running /\ UNCHANGED <<saved, progress>>
        /\ \/ UNCHANGED <<buf, alerts>>
           \/ buf # <<>> /\ buf' \in {Tail(buf), <<>>} /\ UNCHANGED alerts
           \/ buf' = alerts /\ alerts' = <<>>
    BY <1>6, Zenon DEF Torrent!Pop, Torrent!ForgetSignal, Torrent!NoSignal, Torrent!Sleep,
      Torrent!SleepAndSave, Torrent!OpenResumeFile, Torrent!Interrupt, Torrent!HandleAdded,
      Torrent!HandleEnd, Torrent!HandleFailed, Torrent!Next_, Torrent!Session, Torrent!Running
  <2>2. OrderInv'
    BY <2>1, ReadingOrder
  <2> QED BY <1>1, <1>2, <2>1, <2>2
<1>7. CASE \/ Torrent!StartFails \/ Torrent!Killed \/ Torrent!ShutDown \/ Torrent!SaveThrows
  BY <1>3, <1>7, Zenon DEF Torrent!StartFails, Torrent!Killed, Torrent!ShutDown,
    Torrent!SaveThrows, Torrent!Running
<1> QED BY <1>4, <1>5, <1>6, <1>7 DEF Torrent!Loop, Torrent!Environment, Torrent!HandleAlert

LEMMA NextOrder ==
  ASSUME ClientInv, OrderInv, [AllNext]_all
  PROVE  /\ OrderInv'
         /\ [Torrent!Running /\ Torrent!Running' => saved' >= saved]_(Torrent!vars)
<1>1. [Torrent!Next]_(Torrent!vars)
  BY TorrentMoves
<1>2. CASE UNCHANGED Torrent!vars
  BY <1>2, Zenon DEF Torrent!vars, OrderInv, Torrent!Running
<1>3. CASE Torrent!Libtorrent
  <2>1. saved' = saved /\ saved \in 0 .. Goal
    BY <1>3, Zenon DEF Torrent!Libtorrent, Torrent!Added, Torrent!Downloads, Torrent!Finished,
      Torrent!TorrentError, Torrent!Answers, ClientInv, Torrent!TypeOK
  <2>2. saved' >= saved
    BY <2>1, RestartsAssumption, SMT DEF Torrent!GoalAssumption
  <2> QED BY <1>3, <2>2, SessionOrder
<1>4. CASE Torrent!Loop \/ Torrent!Environment
  BY <1>4, LoopOrder
<1> QED BY <1>1, <1>2, <1>3, <1>4 DEF Torrent!Next

\* torrent.cpp: as long as a process runs, it never writes resume data older than
\* those it has written, nor than those it has started from, although the data
\* wait in two queues and are asked for in three places.
THEOREM NeverGoesBack == AllSpec => GoesForward
<1>1. AllInit => ClientInv /\ OrderInv
  BY RestartsAssumption, InitInv DEF AllInit, Torrent!Init, OrderInv, Torrent!Running
<1>2. ClientInv /\ OrderInv /\ [AllNext]_all => ClientInv' /\ OrderInv'
  BY RestartsAssumption, TorrentMoves, NextInv, NextOrder
<1>3. ClientInv /\ OrderInv /\ [AllNext]_all =>
        [Torrent!Running /\ Torrent!Running' => saved' >= saved]_(Torrent!vars)
  BY NextOrder
<1> QED BY <1>1, <1>2, <1>3, PTL DEF AllSpec, GoesForward, Torrent!GoesForward
=============================================================================
