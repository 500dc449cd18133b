----------------------------- MODULE VoiceProofs -----------------------------
(***************************************************************************)
(* What TLAPS proves of the voice process: of what it hears and says       *)
(* (VoiceUi), for every length of its queues, its guard and its silences;  *)
(* and of the turns it reports (DebugPage), for every number of turns and  *)
(* every length of the log and of the event queue.                         *)
(***************************************************************************)
EXTENDS VoiceUi, DebugPage, EventOrder

-----------------------------------------------------------------------------
(* The log and the page's table *)

(* A table cut to its newest rows is one the page and the log may have.    *)
LEMMA NewestType ==
    ASSUME NEW table \in Seq(Turns)
    PROVE  Newest(table) \in Seq(Turns) /\ Len(Newest(table)) <= MaxTurns
<1> DEFINE n == IF Len(table) > MaxTurns THEN MaxTurns ELSE Len(table)
<1>1. n \in Nat /\ n <= MaxTurns /\ n <= Len(table)
  BY DebugAssumption
<1>2. \A i \in 1..n : table[i] \in Turns
  BY <1>1
<1>3. /\ SubSeq(table, 1, n) \in Seq(Turns)
      /\ Len(SubSeq(table, 1, n)) = IF 1 <= n THEN n - 1 + 1 ELSE 0
  BY <1>1, <1>2, SubSeqProperties
<1> QED
  BY <1>1, <1>3 DEF Newest

(* What an event makes of the page's table.                                *)
Shown(event, table) ==
    IF event \in Turns THEN Newest(<<event>> \o table) ELSE table

(* A turn put on top of a table.                                           *)
LEMMA OnTopType ==
    ASSUME NEW t \in Turns, NEW table \in Seq(Turns)
    PROVE  /\ Newest(<<t>> \o table) \in Seq(Turns)
           /\ Len(Newest(<<t>> \o table)) <= MaxTurns
<1>1. <<t>> \o table \in Seq(Turns)
  BY PrependAt
<1> QED
  BY <1>1, NewestType

(* The debug page begins well typed.                                       *)
LEMMA DebugTypeInit == DebugInit => DebugTypeOK
<1> SUFFICES ASSUME DebugInit PROVE DebugTypeOK
  OBVIOUS
<1>1. <<>> \in Seq(Turns) /\ Len(<<>>) <= MaxTurns /\ <<>> \in Seq(Events)
  BY DebugAssumption, EmptySeq
<1> QED
  BY <1>1 DEF DebugInit, StreamInit, DebugTypeOK, StreamTypeOK

(* The stream of the debug page.                                           *)
LEMMA DebugStreamTypeStep ==
    ASSUME StreamTypeOK(Events), NEW e \in Events,
           \/ Publish(e) \/ Subscribe \/ SendSnapshot(e) \/ Disconnect \/ Arrives(e)
           \/ (link' = "down" /\ inbox' = <<>>)
           \/ UNCHANGED streamVars
    PROVE  StreamTypeOK(Events)'
<1> USE DEF StreamTypeOK
<1>1. CASE Publish(e)
  BY <1>1, AppendAt DEF Publish
<1>2. CASE \/ Subscribe \/ Disconnect \/ (link' = "down" /\ inbox' = <<>>)
           \/ UNCHANGED streamVars
  BY <1>2, EmptySeq DEF Subscribe, Disconnect, streamVars
<1>3. CASE SendSnapshot(e)
  BY <1>3, PrependAt DEF SendSnapshot
<1>4. CASE Arrives(e)
  BY <1>4, TailAt DEF Arrives
<1> QED
  BY <1>1, <1>2, <1>3, <1>4

(* Every step of the log, the stream and the page keeps the types.         *)
LEMMA DebugTypeStep ==
    ASSUME DebugTypeOK, [DebugNext]_debugVars
    PROVE  DebugTypeOK'
<1> USE DEF DebugTypeOK
<1>e. 0 \in Events /\ Turns \subseteq Events
  BY DEF Events
<1>n. <<>> \in Seq(Turns) /\ Len(<<>>) <= MaxTurns
  BY DebugAssumption, EmptySeq
<1>s. UNCHANGED streamVars => StreamTypeOK(Events)'
  BY DEF StreamTypeOK, streamVars
<1>1. ASSUME NEW t \in Turns, PostTurn(t) \/ ReportLost(t)
      PROVE  DebugTypeOK'
  BY <1>s, <1>1 DEF PostTurn, ReportLost
<1>2. ASSUME NEW t \in Turns, AddTurn(t)
      PROVE  DebugTypeOK'
  <2>1. log' \in Seq(Turns) /\ Len(log') <= MaxTurns
    BY <1>2, OnTopType DEF AddTurn
  <2>2. calm' \in BOOLEAN
    BY <1>2 DEF AddTurn
  <2> QED
    BY <1>s, <1>2, <2>1, <2>2 DEF AddTurn
<1>3. ASSUME NEW t \in Turns, PublishTurn(t)
      PROVE  DebugTypeOK'
  <2>1. StreamTypeOK(Events)'
    BY <1>e, <1>3, DebugStreamTypeStep DEF PublishTurn
  <2>2. calm' \in BOOLEAN
    BY <1>3 DEF PublishTurn
  <2> QED
    BY <1>3, <2>1, <2>2 DEF PublishTurn
<1>4. CASE PageOpens
  <2>1. StreamTypeOK(Events)'
    BY <1>e, <1>4, DebugStreamTypeStep DEF PageOpens
  <2>2. calm' \in BOOLEAN
    BY <1>4 DEF PageOpens
  <2> QED
    BY <1>n, <1>4, <2>1, <2>2 DEF PageOpens
<1>5. CASE ListTurns
  BY <1>s, <1>5 DEF ListTurns
<1>6. CASE LoadDone \/ LoadFails
  BY <1>s, <1>n, <1>6 DEF LoadDone, LoadFails
<1>7. ASSUME NEW event \in Events, Receive(event)
      PROVE  DebugTypeOK'
  <2>1. StreamTypeOK(Events)'
    BY <1>7, DebugStreamTypeStep DEF Receive
  <2>2. rows' \in Seq(Turns) /\ Len(rows') <= MaxTurns
    BY <1>7, OnTopType DEF Receive, AddVoiceTurn
  <2> QED
    BY <1>7, <2>1, <2>2 DEF Receive
<1>8. CASE Connect \/ ConnectionLost
  <2>1. StreamTypeOK(Events)'
    BY <1>e, <1>8, DebugStreamTypeStep DEF Connect, ConnectionLost
  <2>2. calm' \in BOOLEAN
    BY <1>8 DEF Connect, ConnectionLost
  <2> QED
    BY <1>8, <2>1, <2>2 DEF Connect, ConnectionLost
<1>9. CASE UNCHANGED debugVars
  BY <1>s, <1>9 DEF debugVars
<1> QED
  BY <1>1, <1>2, <1>3, <1>4, <1>5, <1>6, <1>7, <1>8, <1>9 DEF DebugNext

(* Neither the log nor the page's table outgrows its MaxTurns rows, and    *)
(* both hold turns only.                                                   *)
THEOREM DebugTypeCorrect == DebugSpec => []DebugTypeOK
BY DebugTypeInit, DebugTypeStep, PTL DEF DebugSpec

-----------------------------------------------------------------------------
(* The page shows the log *)

(* No turn is on its way behind the i-th event.                            *)
NoTurnAfter(i) == \A j \in DOMAIN inbox : j > i => inbox[j] \notin Turns

(* From table to table through the events on their way, with the log at    *)
(* the end but for the one turn that is logged and not published.          *)
LeadsToLog(course) ==
    /\ course \in [0..Len(inbox) -> Seq(Turns)]
    /\ course[0] = rows
    /\ \A i \in DOMAIN inbox : course[i] = Shown(inbox[i], course[i - 1])
    /\ \A i \in 0..Len(inbox) : NoTurnAfter(i) => course[Len(inbox)] = course[i]
    /\ Logging = {} => course[Len(inbox)] = log
    /\ \A t \in Logging : log = Newest(<<t>> \o course[Len(inbox)])

(* A calm page that has its load comes to the log with what is on its way; *)
(* before that nothing of the log is on its way, and the answer is the log.*)
WillShowLog ==
    /\ link = "down" => inbox = <<>>
    /\ calm =>
         /\ \A t, u \in Logging : t = u
         /\ load # "failed"
         /\ load # "done" => Logging = {} /\ NoTurnAfter(0)
         /\ load = "answered" => answer = log
         /\ load = "done" => \E course : LeadsToLog(course)

(* With an empty log there is nothing left to show.                        *)
LEMMA WillShowLogInit == DebugInit => WillShowLog
BY DEF DebugInit, StreamInit, WillShowLog, Logging, NoTurnAfter

(* The answer of the load replaces the table, and all on its way leaves it.*)
LEMMA LoadedStep ==
    ASSUME DebugTypeOK, WillShowLog, LoadDone
    PROVE  WillShowLog'
<1> SUFFICES ASSUME calm' PROVE WillShowLog'
  BY DEF WillShowLog, LoadDone, streamVars
<1> DEFINE course == [i \in 0..Len(inbox) |-> log]
<1>0. /\ UNCHANGED <<link, inbox, post, log>> /\ load' = "done" /\ calm
      /\ rows' = log /\ Logging = {} /\ NoTurnAfter(0) /\ log \in Seq(Turns)
      /\ inbox \in Seq(Events)
      /\ Len(inbox) \in Nat /\ DOMAIN inbox = 1..Len(inbox)
  BY DEF LoadDone, streamVars, WillShowLog, DebugTypeOK, StreamTypeOK
<1>1. Logging' = {} /\ (link' = "down" => inbox' = <<>>)
  BY <1>0 DEF Logging, WillShowLog
<1>2. LeadsToLog(course)'
  BY <1>0, <1>1 DEF LeadsToLog, NoTurnAfter, Shown
<1> QED
  BY <1>0, <1>1, <1>2 DEF WillShowLog

(* An event arrives: the course begins a table later.                      *)
LEMMA ReceivedStep ==
    ASSUME DebugTypeOK, WillShowLog, NEW event \in Events, Receive(event)
    PROVE  WillShowLog'
<1>0. /\ UNCHANGED <<link, post, log, load, answer, calm>>
      /\ link = "open" /\ inbox # <<>> /\ event = Head(inbox) /\ inbox' = Tail(inbox)
      /\ rows' = Shown(event, rows)
  BY DEF Receive, Arrives, AddVoiceTurn, Shown
<1> DEFINE n == Len(inbox)
<1>1. /\ inbox[1] = event /\ n \in Nat \ {0} /\ DOMAIN inbox = 1..n
      /\ Len(inbox') = n - 1 /\ DOMAIN inbox' = 1..(n - 1)
      /\ \A i \in DOMAIN inbox' : inbox'[i] = inbox[i + 1]
  BY <1>0, TailAt DEF DebugTypeOK, StreamTypeOK
<1> HIDE DEF n
<1>2. Logging' = Logging
  BY <1>0 DEF Logging
<1>3. \A i \in 0..(n - 1) : NoTurnAfter(i)' => NoTurnAfter(i + 1)
  <2> SUFFICES ASSUME NEW i \in 0..(n - 1), NoTurnAfter(i)', NEW j \in 1..n, j > i + 1
               PROVE  inbox[j] \notin Turns
    BY <1>1 DEF NoTurnAfter
  <2>1. j - 1 \in DOMAIN inbox' /\ j - 1 > i /\ inbox'[j - 1] = inbox[j]
    BY <1>1
  <2> QED
    BY <2>1 DEF NoTurnAfter
<1>4. NoTurnAfter(0) => NoTurnAfter(0)'
  BY <1>1 DEF NoTurnAfter
<1>5. ASSUME NEW course, LeadsToLog(course)
      PROVE  \E later : LeadsToLog(later)'
  <2> DEFINE later == [i \in 0..(n - 1) |-> course[i + 1]]
  <2>0. /\ course \in [0..n -> Seq(Turns)] /\ course[0] = rows
        /\ \A i \in 1..n : course[i] = Shown(inbox[i], course[i - 1])
    BY <1>1, <1>5 DEF LeadsToLog, n
  <2>1. later \in [0..(n - 1) -> Seq(Turns)] /\ later[n - 1] = course[n]
    BY <1>1, <2>0
  <2>2. later[0] = rows'
    BY <1>0, <1>1, <2>0
  <2>3. \A i \in DOMAIN inbox' : later[i] = Shown(inbox'[i], later[i - 1])
    <3> SUFFICES ASSUME NEW i \in 1..(n - 1)
                 PROVE  later[i] = Shown(inbox'[i], later[i - 1])
      BY <1>1
    <3>1. i + 1 \in 1..n /\ (i + 1) - 1 = i /\ inbox'[i] = inbox[i + 1]
      BY <1>1
    <3>2. later[i] = course[i + 1] /\ later[i - 1] = course[i]
      BY <1>1
    <3> QED
      BY <2>0, <3>1, <3>2
  <2>4. \A i \in 0..(n - 1) : NoTurnAfter(i)' => later[n - 1] = later[i]
    <3>1. \A i \in 0..n : NoTurnAfter(i) => course[n] = course[i]
      BY <1>1, <1>5 DEF LeadsToLog, n
    <3> QED
      BY <1>1, <1>3, <2>1, <3>1
  <2>5. /\ Logging = {} => later[n - 1] = log
        /\ \A t \in Logging : log = Newest(<<t>> \o later[n - 1])
    BY <1>1, <1>5, <2>1 DEF LeadsToLog, n
  <2> HIDE DEF later
  <2> QED
    BY <1>0, <1>1, <1>2, <2>1, <2>2, <2>3, <2>4, <2>5 DEF LeadsToLog
<1> QED
  BY <1>0, <1>2, <1>4, <1>5 DEF WillShowLog

(* A snapshot is sent ahead of what is queued: the table stays once more.  *)
LEMMA SnapshotSentStep ==
    ASSUME DebugTypeOK, WillShowLog, SendSnapshot(0),
           UNCHANGED <<post, log, rows, load, answer, calm>>
    PROVE  WillShowLog'
<1> DEFINE n == Len(inbox)
<1>0. link' = "open" /\ inbox' = <<0>> \o inbox /\ inbox \in Seq(Events) /\ 0 \in Events
  BY DEF SendSnapshot, DebugTypeOK, StreamTypeOK, Events
<1>1. /\ n \in Nat /\ DOMAIN inbox = 1..n /\ inbox'[1] = 0
      /\ Len(inbox') = 1 + n /\ DOMAIN inbox' = 1..(1 + n)
      /\ \A i \in DOMAIN inbox : inbox'[1 + i] = inbox[i]
  BY <1>0, PrependAt
<1> HIDE DEF n
<1>z. 0 \notin Turns
  BY DebugAssumption DEF Turns
<1>2. Logging' = Logging
  BY DEF Logging
<1>3. \A i \in 0..n : NoTurnAfter(i + 1)' => NoTurnAfter(i)
  <2> SUFFICES ASSUME NEW i \in 0..n, NoTurnAfter(i + 1)', NEW j \in 1..n, j > i
               PROVE  inbox[j] \notin Turns
    BY <1>1 DEF NoTurnAfter
  <2>1. 1 + j \in DOMAIN inbox' /\ 1 + j > i + 1 /\ inbox'[1 + j] = inbox[j]
    BY <1>1
  <2> QED
    BY <2>1 DEF NoTurnAfter
<1>4. NoTurnAfter(0) => NoTurnAfter(0)'
  <2> SUFFICES ASSUME NoTurnAfter(0), NEW j \in 1..(1 + n) PROVE inbox'[j] \notin Turns
    BY <1>1 DEF NoTurnAfter
  <2>1. CASE j = 1
    BY <1>1, <1>z, <2>1
  <2>2. CASE j # 1
    <3>1. j - 1 \in DOMAIN inbox /\ j - 1 > 0 /\ inbox'[1 + (j - 1)] = inbox[j - 1]
      BY <1>1, <2>2
    <3>2. 1 + (j - 1) = j
      OBVIOUS
    <3> QED
      BY <3>1, <3>2 DEF NoTurnAfter
  <2> QED
    BY <2>1, <2>2
<1>5. ASSUME NEW course, LeadsToLog(course)
      PROVE  \E longer : LeadsToLog(longer)'
  <2> DEFINE longer == [i \in 0..(1 + n) |-> IF i = 0 THEN rows ELSE course[i - 1]]
  <2>0. /\ course \in [0..n -> Seq(Turns)] /\ course[0] = rows
        /\ \A i \in 1..n : course[i] = Shown(inbox[i], course[i - 1])
        /\ rows \in Seq(Turns)
    BY <1>1, <1>5 DEF LeadsToLog, n, DebugTypeOK
  <2>1. longer \in [0..(1 + n) -> Seq(Turns)] /\ longer[1 + n] = course[n]
    BY <1>1, <2>0
  <2>2. longer[0] = rows'
    BY <1>1
  <2>3. \A i \in DOMAIN inbox' : longer[i] = Shown(inbox'[i], longer[i - 1])
    <3> SUFFICES ASSUME NEW i \in 1..(1 + n)
                 PROVE  longer[i] = Shown(inbox'[i], longer[i - 1])
      BY <1>1
    <3>1. CASE i = 1
      BY <1>1, <1>z, <2>0, <3>1 DEF Shown
    <3>2. CASE i # 1
      <4>1. i - 1 \in 1..n /\ inbox'[i] = inbox[i - 1]
        BY <1>1, <3>2
      <4>2. longer[i] = course[i - 1] /\ longer[i - 1] = course[(i - 1) - 1]
        BY <1>1, <3>2, <4>1
      <4> QED
        BY <2>0, <4>1, <4>2
    <3> QED
      BY <3>1, <3>2
  <2>4. \A i \in 0..(1 + n) : NoTurnAfter(i)' => longer[1 + n] = longer[i]
    <3> SUFFICES ASSUME NEW i \in 0..(1 + n), NoTurnAfter(i)'
                 PROVE  course[n] = longer[i]
      BY <2>1
    <3>0. \A k \in 0..n : NoTurnAfter(k) => course[n] = course[k]
      BY <1>1, <1>5 DEF LeadsToLog, n
    <3>1. CASE i = 0
      <4>1. NoTurnAfter(1)'
        BY <1>1, <3>1 DEF NoTurnAfter
      <4>2. NoTurnAfter(0)
        BY <1>1, <1>3, <4>1
      <4> QED
        BY <1>1, <2>0, <3>0, <3>1, <4>2
    <3>2. CASE i # 0
      <4>1. i - 1 \in 0..n /\ (i - 1) + 1 = i
        BY <1>1, <3>2
      <4>2. NoTurnAfter(i - 1)
        BY <1>3, <4>1
      <4> QED
        BY <3>0, <3>2, <4>1, <4>2
    <3> QED
      BY <3>1, <3>2
  <2>5. /\ Logging = {} => longer[1 + n] = log
        /\ \A t \in Logging : log = Newest(<<t>> \o longer[1 + n])
    BY <1>1, <1>5, <2>1 DEF LeadsToLog, n
  <2> HIDE DEF longer
  <2> QED
    BY <1>0, <1>1, <1>2, <2>1, <2>2, <2>3, <2>4, <2>5 DEF LeadsToLog
<1> QED
  BY <1>0, <1>2, <1>4, <1>5 DEF WillShowLog

(* A logged turn is published: the course ends with it on top, which is    *)
(* the log.                                                                *)
LEMMA PublishedStep ==
    ASSUME DebugTypeOK, WillShowLog, NEW t \in Turns, PublishTurn(t)
    PROVE  WillShowLog'
<1> DEFINE n == Len(inbox)
<1>0. /\ UNCHANGED <<link, log, rows, load, answer>> /\ t \in Logging
      /\ inbox' = IF link = "down" THEN inbox ELSE Append(inbox, t)
      /\ Logging' = Logging \ {t}
  BY DEF PublishTurn, Publish, Logging, DebugTypeOK
<1> SUFFICES ASSUME calm' PROVE WillShowLog'
  BY <1>0 DEF WillShowLog
<1>1. calm /\ link # "down"
  BY DEF PublishTurn
<1>2. Logging = {t} /\ Logging' = {} /\ load = "done"
  BY <1>0, <1>1 DEF WillShowLog, DebugTypeOK
<1>3. /\ n \in Nat /\ DOMAIN inbox = 1..n
      /\ Len(inbox') = n + 1 /\ DOMAIN inbox' = 1..(n + 1)
      /\ inbox'[n + 1] = t
      /\ \A i \in DOMAIN inbox : inbox'[i] = inbox[i]
  BY <1>0, <1>1, AppendAt DEF DebugTypeOK, StreamTypeOK, Events
<1> HIDE DEF n
<1>4. PICK course : LeadsToLog(course)
  BY <1>1, <1>2 DEF WillShowLog
<1> DEFINE longer == [i \in 0..(n + 1) |-> IF i = n + 1 THEN log ELSE course[i]]
<1>5. /\ course \in [0..n -> Seq(Turns)] /\ course[0] = rows
      /\ \A i \in 1..n : course[i] = Shown(inbox[i], course[i - 1])
      /\ log = Newest(<<t>> \o course[n])
  BY <1>2, <1>3, <1>4 DEF LeadsToLog, n
<1>6. longer \in [0..(n + 1) -> Seq(Turns)] /\ longer[n + 1] = log /\ longer[0] = rows'
  BY <1>0, <1>3, <1>5 DEF DebugTypeOK
<1>7. \A i \in DOMAIN inbox' : longer[i] = Shown(inbox'[i], longer[i - 1])
  <2> SUFFICES ASSUME NEW i \in 1..(n + 1)
               PROVE  longer[i] = Shown(inbox'[i], longer[i - 1])
    BY <1>3
  <2>1. longer[i - 1] = course[i - 1]
    BY <1>3
  <2>2. CASE i = n + 1
    <3>1. longer[i - 1] = course[n] /\ inbox'[i] = t
      BY <1>3, <2>1, <2>2
    <3> QED
      BY <1>5, <1>6, <2>2, <3>1 DEF Shown
  <2>3. CASE i # n + 1
    <3>1. i \in 1..n /\ inbox'[i] = inbox[i] /\ longer[i] = course[i]
      BY <1>3, <2>3
    <3> QED
      BY <1>5, <2>1, <3>1
  <2> QED
    BY <2>2, <2>3
<1>8. \A i \in 0..(n + 1) : NoTurnAfter(i)' => longer[n + 1] = longer[i]
  <2>1. \A i \in 0..n : ~NoTurnAfter(i)'
    BY <1>3 DEF NoTurnAfter
  <2> QED
    BY <1>3, <2>1
<1> HIDE DEF longer
<1>9. \E further : LeadsToLog(further)'
  <2>1. /\ Logging' = {} => longer[Len(inbox')] = log'
        /\ \A u \in Logging' : log' = Newest(<<u>> \o longer[Len(inbox')])
    BY <1>0, <1>2, <1>3, <1>6
  <2>2. \A i \in 0..Len(inbox') : NoTurnAfter(i)' => longer[Len(inbox')] = longer[i]
    BY <1>3, <1>8
  <2> QED
    BY <1>3, <1>6, <1>7, <2>1, <2>2 DEF LeadsToLog
<1> QED
  BY <1>0, <1>1, <1>2, <1>9 DEF WillShowLog

(* Every post, publish, load, break and event keeps WillShowLog.           *)
LEMMA WillShowLogStep ==
    ASSUME DebugTypeOK, WillShowLog, [DebugNext]_debugVars
    PROVE  WillShowLog'
<1>s. ASSUME UNCHANGED <<link, inbox, rows, load, answer, calm>>, Logging' = Logging,
             UNCHANGED log
      PROVE  WillShowLog'
  BY <1>s DEF WillShowLog, LeadsToLog, NoTurnAfter
<1>1. ASSUME NEW t \in Turns, PostTurn(t) \/ ReportLost(t)
      PROVE  WillShowLog'
  <2>1. Logging' = Logging
    BY <1>1 DEF PostTurn, ReportLost, Logging, DebugTypeOK
  <2> QED
    BY <1>1, <1>s, <2>1 DEF PostTurn, ReportLost, streamVars
<1>2. ASSUME NEW t \in Turns, AddTurn(t)
      PROVE  WillShowLog'
  <2>0. UNCHANGED <<link, inbox, rows, load, answer>> /\ log' = Newest(<<t>> \o log)
    BY <1>2 DEF AddTurn, streamVars
  <2> SUFFICES ASSUME calm' PROVE WillShowLog'
    BY <2>0 DEF WillShowLog
  <2>1. calm /\ load = "done" /\ Logging = {}
    BY <1>2 DEF AddTurn
  <2>2. Logging' = {t}
    BY <1>2, <2>1 DEF AddTurn, Logging, DebugTypeOK
  <2>3. PICK course : LeadsToLog(course)
    BY <2>1 DEF WillShowLog
  <2>4. LeadsToLog(course)'
    BY <2>0, <2>1, <2>2, <2>3 DEF LeadsToLog, NoTurnAfter
  <2> QED
    BY <2>0, <2>1, <2>2, <2>4 DEF WillShowLog
<1>3. ASSUME NEW t \in Turns, PublishTurn(t)
      PROVE  WillShowLog'
  BY <1>3, PublishedStep
<1>4. CASE PageOpens
  <2>1. Logging' = Logging /\ (calm' => Logging = {})
    BY <1>4 DEF PageOpens, Logging
  <2>2. NoTurnAfter(0)'
    BY <1>4 DEF PageOpens, NoTurnAfter
  <2> QED
    BY <1>4, <2>1, <2>2 DEF PageOpens, WillShowLog
<1>5. CASE ListTurns
  <2>1. /\ UNCHANGED <<link, inbox, log, calm>> /\ load = "sent" /\ load' = "answered"
        /\ answer' = log /\ Logging' = Logging
    BY <1>5 DEF ListTurns, streamVars, Logging
  <2>2. NoTurnAfter(0) => NoTurnAfter(0)'
    BY <2>1 DEF NoTurnAfter
  <2> QED
    BY <2>1, <2>2 DEF WillShowLog
<1>6. CASE LoadFails
  BY <1>6 DEF LoadFails, WillShowLog, streamVars
<1>7. CASE Subscribe /\ UNCHANGED <<post, log, rows, load, answer, calm>>
  <2>1. Logging' = Logging /\ UNCHANGED inbox /\ link' # "down"
    BY <1>7 DEF Subscribe, Logging
  <2> QED
    BY <1>7, <2>1 DEF WillShowLog, LeadsToLog, NoTurnAfter
<1>8. CASE ConnectionLost
  <2>0. /\ UNCHANGED <<log, rows, load, answer>> /\ Logging' = Logging /\ inbox' = <<>>
    BY <1>8 DEF ConnectionLost, Disconnect, Logging
  <2> SUFFICES ASSUME calm' PROVE WillShowLog'
    BY <2>0 DEF WillShowLog
  <2>1. calm /\ \A i \in DOMAIN inbox : inbox[i] \notin Turns
    BY <1>8 DEF ConnectionLost
  <2>2. NoTurnAfter(0)' /\ NoTurnAfter(0)
    BY <2>0, <2>1 DEF NoTurnAfter
  <2>3. ASSUME NEW course, LeadsToLog(course)
        PROVE  LeadsToLog([i \in {0} |-> rows])'
    <3>1. Len(inbox) \in Nat /\ 0 \in 0..Len(inbox) /\ course[Len(inbox)] = rows
      BY <2>2, <2>3 DEF LeadsToLog, DebugTypeOK, StreamTypeOK
    <3>2. Len(inbox') = 0 /\ DOMAIN inbox' = {} /\ 0..0 = {0}
      BY <2>0
    <3> QED
      BY <2>0, <2>3, <3>1, <3>2 DEF LeadsToLog, DebugTypeOK
  <2> QED
    BY <2>0, <2>1, <2>2, <2>3 DEF WillShowLog
<1>9. CASE UNCHANGED debugVars
  <2>1. Logging' = Logging
    BY <1>9 DEF debugVars, Logging
  <2> QED
    BY <1>9, <1>s, <2>1 DEF debugVars, streamVars
<1> QED
  BY <1>1, <1>2, <1>3, <1>4, <1>5, <1>6, <1>7, <1>8, <1>9, LoadedStep, ReceivedStep,
     SnapshotSentStep
  DEF DebugNext, Connect

(* The two ways a turn takes to the page, the load and the stream, end in  *)
(* one table: with every event taken it is the log, row by row and the     *)
(* newest first, however many turns were cut off either, unless one of the *)
(* three things happened that "calm" names.                                *)
THEOREM ShowsLogCorrect == DebugSpec => []ShowsLog
<1>1. ASSUME DebugTypeOK, WillShowLog PROVE ShowsLog
  <2> SUFFICES ASSUME calm, load = "done", inbox = <<>>, Logging = {} PROVE rows = log
    BY DEF ShowsLog
  <2>1. PICK course : LeadsToLog(course)
    BY <1>1 DEF WillShowLog
  <2> QED
    BY <2>1 DEF LeadsToLog
<1> QED
  BY <1>1, DebugTypeCorrect, DebugTypeStep, WillShowLogInit, WillShowLogStep, PTL
  DEF DebugSpec

-----------------------------------------------------------------------------
(* The voice process: type correctness *)

(* The speaker's own steps keep its types.                                 *)
LEMMA SpeakerTypeStep ==
    ASSUME SpeakerTypeOK,
           \/ \E sentences \in Nat : Speak(sentences)
           \/ SynthOnce \/ PlayBegins \/ PlayEnds
           \/ SpeakerTick /\ UNCHANGED <<texts, audio>>
           \/ UNCHANGED speakerVars
    PROVE  SpeakerTypeOK'
BY SpeakerAssumption
DEF SpeakerTypeOK, Speak, SynthOnce, PlayBegins, PlayEnds, SpeakerTick, speakerVars

(* Starting, answering and forgetting a conversation keep its types.       *)
LEMMA DialogueTypeStep ==
    ASSUME DialogueTypeOK,
           \/ Ask \/ Chat \/ Ignore \/ Checkin \/ DialogueTick
           \/ UNCHANGED dialogueVars
    PROVE  DialogueTypeOK'
BY DialogueAssumption
DEF DialogueTypeOK, Ask, Chat, Ignore, Checkin, DialogueTick, Reset, dialogueVars

(* No utterance outgrows the VAD's buffer: a chunk of speech in the queue  *)
(* will still find room for it, and what follows is the VAD's own silence. *)
(* And a loop that runs has not yet lost patience.                         *)
SpeechEnds ==
    /\ \A i \in DOMAIN queue : queue[i].sound # "quiet" => buffer.length + i <= MaxSpeech
    /\ buffer.length <= MaxSpeech + quiet_run
    /\ Running => streak < ExitThreshold

VoiceTyped == VoiceTypeOK /\ SpeechEnds

(* Every step of the loop and of the other threads, in the words of the    *)
(* proofs: what it does with the queue.                                    *)
LEMMA VoiceSteps ==
    ASSUME [VoiceNext]_allVars
    PROVE  \/ Tick
           \/ ReadChunk
           \/ CloseUtterance
           \/ NoUtterance
           \/ MicrophoneLost \/ TranscribeRaises \/ Discard
           \/ KeywordStart \/ AskLlm \/ LlmDecides
           \/ StartAnswered \/ Report \/ SpeakerThreads \/ Announce
           \/ UNCHANGED allVars
BY DEF VoiceNext, CheckinLoop, Exited

(* The queue of a step that leaves it alone, is fed, or is read.           *)
LEMMA QueueStep ==
    ASSUME VoiceTyped
    PROVE  /\ queue \in Seq(Chunks) /\ Len(queue) \in 0..MaxBacklog
           /\ DOMAIN queue = 1..Len(queue)
           /\ \A chunk \in Chunks :
                /\ Append(queue, chunk) \in Seq(Chunks)
                /\ Len(Append(queue, chunk)) = Len(queue) + 1
                /\ DOMAIN Append(queue, chunk) = 1..(Len(queue) + 1)
                /\ Append(queue, chunk)[Len(queue) + 1] = chunk
                /\ \A i \in 1..Len(queue) : Append(queue, chunk)[i] = queue[i]
           /\ queue # <<>> =>
                /\ Head(queue) = queue[1] /\ Head(queue) \in Chunks /\ Len(queue) > 0
                /\ Tail(queue) \in Seq(Chunks) /\ Len(Tail(queue)) = Len(queue) - 1
                /\ DOMAIN Tail(queue) = 1..(Len(queue) - 1)
                /\ \A i \in 1..(Len(queue) - 1) : Tail(queue)[i] = queue[i + 1]
<1>1. queue \in Seq(Chunks) /\ Len(queue) \in 0..MaxBacklog /\ DOMAIN queue = 1..Len(queue)
  BY VoiceAssumption DEF VoiceTyped, VoiceTypeOK
<1>2. ASSUME NEW chunk \in Chunks
      PROVE  /\ Append(queue, chunk) \in Seq(Chunks)
             /\ Len(Append(queue, chunk)) = Len(queue) + 1
             /\ DOMAIN Append(queue, chunk) = 1..(Len(queue) + 1)
             /\ Append(queue, chunk)[Len(queue) + 1] = chunk
             /\ \A i \in 1..Len(queue) : Append(queue, chunk)[i] = queue[i]
  BY <1>1, AppendAt
<1>3. ASSUME queue # <<>>
      PROVE  /\ Head(queue) = queue[1] /\ Head(queue) \in Chunks /\ Len(queue) > 0
             /\ Tail(queue) \in Seq(Chunks) /\ Len(Tail(queue)) = Len(queue) - 1
             /\ DOMAIN Tail(queue) = 1..(Len(queue) - 1)
             /\ \A i \in 1..(Len(queue) - 1) : Tail(queue)[i] = queue[i + 1]
  BY <1>1, <1>3, TailAt
<1> QED
  BY <1>1, <1>2, <1>3

(* The voice process begins well typed, with nothing being said.           *)
LEMMA VoiceTypedInit == VoiceInit => VoiceTyped
<1> SUFFICES ASSUME VoiceInit PROVE VoiceTyped
  OBVIOUS
<1>1. SpeakerTypeOK
  BY SpeakerAssumption DEF VoiceInit, SpeakerInit, SpeakerTypeOK
<1>2. DialogueTypeOK
  BY DialogueAssumption DEF VoiceInit, DialogueInit, DialogueTypeOK
<1>3. queue = <<>> /\ queue \in Seq(Chunks) /\ Len(queue) = 0
  BY EmptySeq DEF VoiceInit
<1>4. buffer \in [length : 0..MaxUtterance, own : BOOLEAN, guarded : BOOLEAN]
  BY VoiceAssumption DEF VoiceInit, Empty, MaxUtterance
<1>5. turn \in [own : BOOLEAN, guarded : BOOLEAN, echo : BOOLEAN, behind : 0..MaxBacklog]
  BY VoiceAssumption DEF VoiceInit, NoTurn
<1>6. since_chat \in 0..IdleReset /\ quiet_run \in 0..(SilenceChunks - 1)
  BY VoiceAssumption, DialogueAssumption DEF VoiceInit
<1>7. VoiceTypeOK
  <2>1. moved_on \in BOOLEAN
    BY DEF VoiceInit
  <2>2. /\ mic \in {"on", "gone"} /\ pc \in PCs /\ streak \in 0..ExitThreshold
        /\ Len(queue) <= MaxBacklog
    BY <1>3, VoiceAssumption DEF VoiceInit, PCs
  <2> QED
    BY <1>1, <1>2, <1>3, <1>4, <1>5, <1>6, <2>1, <2>2 DEF VoiceTypeOK
<1> QED
  BY <1>3, <1>7, VoiceAssumption DEF VoiceTyped, SpeechEnds, VoiceInit, Empty

(* What a new chunk of audio may hold.                                     *)
LEMMA HeardChunk ==
    ASSUME VoiceTypeOK, NEW chunk \in Hears
    PROVE  /\ chunk \in Chunks
           /\ chunk.guarded = Guarded
           /\ chunk.sound # "quiet" => buffer.length + Len(queue) < MaxSpeech
           /\ chunk.sound = "own" => Audible
<1>1. Guarded \in BOOLEAN
  BY DEF Guarded
<1>2. chunk \in [sound : Sounding, guarded : {Guarded}]
  BY DEF Hears
<1>3. chunk.sound \in Sounding /\ chunk.guarded = Guarded
  BY <1>2
<1>4. /\ chunk.sound \in Sounds
      /\ chunk.sound # "quiet" => ~(buffer.length + Len(queue) >= MaxSpeech)
      /\ chunk.sound = "own" => Audible
  BY <1>3 DEF Sounding, Sounds
<1>5. buffer.length \in Nat /\ Len(queue) \in Nat
  BY VoiceAssumption DEF VoiceTypeOK, MaxUtterance
<1>6. chunk.sound # "quiet" => buffer.length + Len(queue) < MaxSpeech
  BY <1>4, <1>5, VoiceAssumption
<1>7. chunk = [sound |-> chunk.sound, guarded |-> chunk.guarded]
  BY <1>2
<1>8. chunk \in Chunks
  BY <1>1, <1>3, <1>4, <1>7 DEF Chunks
<1> QED
  BY <1>3, <1>4, <1>6, <1>8

(* The buffer with a chunk more.                                           *)
LEMMA HeardType ==
    ASSUME VoiceTypeOK, NEW chunk \in Chunks
    PROVE  /\ Heard(chunk).length = buffer.length + 1
           /\ Heard(chunk).own = (buffer.own \/ chunk.sound = "own")
           /\ Heard(chunk).guarded = (buffer.guarded \/ chunk.guarded)
           /\ Heard(chunk).own \in BOOLEAN /\ Heard(chunk).guarded \in BOOLEAN
           /\ Heard(chunk) = [length |-> Heard(chunk).length, own |-> Heard(chunk).own,
                              guarded |-> Heard(chunk).guarded]
BY DEF Heard

(* Every step keeps the types, and that what is said comes to its end.     *)
LEMMA VoiceTypedStep ==
    ASSUME VoiceTyped, [VoiceNext]_allVars
    PROVE  VoiceTyped'
<1> USE DEF Running
<1>0. VoiceTypeOK /\ SpeechEnds /\ SpeakerTypeOK /\ DialogueTypeOK
  BY DEF VoiceTyped, VoiceTypeOK
<1>q. /\ queue \in Seq(Chunks) /\ Len(queue) \in 0..MaxBacklog
      /\ DOMAIN queue = 1..Len(queue)
  BY QueueStep
<1>a. /\ SilenceChunks \in Nat \ {0} /\ MaxSpeech \in Nat \ {0} /\ MaxBacklog \in Nat \ {0}
      /\ ExitThreshold \in Nat \ {0} /\ MaxUtterance = MaxSpeech + SilenceChunks
      /\ buffer.length \in Nat /\ quiet_run \in 0..(SilenceChunks - 1)
  BY <1>0, VoiceAssumption DEF MaxUtterance, VoiceTypeOK
(* Most steps leave the queue, the buffer and the microphone's turn alone. *)
<1>r. ASSUME SpeakerTypeOK', DialogueTypeOK', UNCHANGED <<queue, buffer, quiet_run>>,
             mic' \in {"on", "gone"}, turn' \in {turn, NoTurn}, pc' \in PCs,
             streak' \in {streak, 0}, pc = "exited" => pc' = "exited",
             since_chat' \in 0..IdleReset, moved_on' \in BOOLEAN
      PROVE  VoiceTyped'
  <2>1. turn' \in [own : BOOLEAN, guarded : BOOLEAN, echo : BOOLEAN, behind : 0..MaxBacklog]
    <3>1. NoTurn \in [own : BOOLEAN, guarded : BOOLEAN, echo : BOOLEAN,
                     behind : 0..MaxBacklog]
      BY <1>a DEF NoTurn
    <3>2. turn' = turn \/ turn' = NoTurn
      BY <1>r
    <3> QED
      BY <1>0, <3>1, <3>2 DEF VoiceTypeOK
  <2>2. streak' \in 0..ExitThreshold /\ (pc' # "exited" => streak' < ExitThreshold)
    BY <1>0, <1>a, <1>r DEF VoiceTypeOK, SpeechEnds
  <2>3. VoiceTypeOK'
    BY <1>0, <1>r, <2>1, <2>2 DEF VoiceTypeOK
  <2> QED
    BY <1>0, <1>r, <2>2, <2>3 DEF VoiceTyped, SpeechEnds
<1>1. CASE Tick
  <2>1. SpeakerTypeOK' /\ DialogueTypeOK'
    BY <1>0, <1>1, SpeakerTypeStep, DialogueTypeStep DEF Tick
  <2>2. since_chat' \in 0..IdleReset
    BY <1>0, <1>1, DialogueAssumption DEF Tick, VoiceTypeOK
  <2>3. /\ queue' \in Seq(Chunks) /\ Len(queue') <= MaxBacklog
        /\ \A i \in DOMAIN queue' :
              queue'[i].sound # "quiet" => buffer.length + i <= MaxSpeech
    <3>1. CASE mic = "on"
      <4>1. PICK chunk \in Hears : queue' = Append(queue, chunk)
        BY <1>1, <3>1 DEF Tick
      <4>2. /\ chunk \in Chunks
            /\ chunk.sound # "quiet" => buffer.length + Len(queue) < MaxSpeech
        BY <1>0, HeardChunk
      <4>3. /\ queue' \in Seq(Chunks) /\ Len(queue') = Len(queue) + 1
            /\ DOMAIN queue' = 1..(Len(queue) + 1)
            /\ queue'[Len(queue) + 1] = chunk
            /\ \A i \in 1..Len(queue) : queue'[i] = queue[i]
        BY <4>1, <4>2, QueueStep
      <4>4. Len(queue) < MaxBacklog
        BY <1>1, <3>1 DEF Tick
      <4>5. ASSUME NEW i \in 1..(Len(queue) + 1), queue'[i].sound # "quiet"
            PROVE  buffer.length + i <= MaxSpeech
        <5>1. CASE i = Len(queue) + 1
          BY <1>q, <1>a, <4>2, <4>3, <4>5, <5>1
        <5>2. CASE i # Len(queue) + 1
          BY <1>0, <1>q, <4>3, <4>5, <5>2 DEF SpeechEnds
        <5> QED
          BY <5>1, <5>2
      <4> QED
        BY <1>q, <1>a, <4>3, <4>4, <4>5
    <3>2. CASE mic # "on"
      BY <1>0, <1>1, <1>q, <3>2 DEF Tick, SpeechEnds
    <3> QED
      BY <3>1, <3>2
  <2>4. UNCHANGED <<mic, buffer, quiet_run, turn, pc, streak, moved_on>>
    BY <1>1 DEF Tick
  <2>5. VoiceTypeOK'
    BY <1>0, <2>1, <2>2, <2>3, <2>4 DEF VoiceTypeOK
  <2> QED
    BY <1>0, <2>3, <2>4, <2>5 DEF VoiceTyped, SpeechEnds
<1>2. CASE ReadChunk \/ CloseUtterance
  <2>1. /\ pc = "listen" /\ queue # <<>> /\ queue' = Tail(queue)
        /\ UNCHANGED <<mic, streak, since_chat, moved_on, speakerVars, dialogueVars>>
    BY <1>2 DEF ReadChunk, CloseUtterance
  <2>2. /\ Head(queue) = queue[1] /\ Head(queue) \in Chunks /\ Len(queue) > 0
        /\ queue' \in Seq(Chunks) /\ Len(queue') = Len(queue) - 1
        /\ DOMAIN queue' = 1..(Len(queue) - 1)
        /\ \A i \in 1..(Len(queue) - 1) : queue'[i] = queue[i + 1]
    BY <2>1, QueueStep
  <2>3. SpeakerTypeOK' /\ DialogueTypeOK'
    BY <1>0, <2>1, SpeakerTypeStep, DialogueTypeStep
  <2>4. /\ Heard(Head(queue)).length = buffer.length + 1
        /\ Heard(Head(queue)).own \in BOOLEAN /\ Heard(Head(queue)).guarded \in BOOLEAN
        /\ Heard(Head(queue)) =
             [length |-> Heard(Head(queue)).length, own |-> Heard(Head(queue)).own,
              guarded |-> Heard(Head(queue)).guarded]
    BY <1>0, <2>2, HeardType
  <2>5. /\ buffer' \in {buffer, Empty, Heard(Head(queue))}
        /\ quiet_run' \in 0..(SilenceChunks - 1)
        /\ buffer'.length \in 0..(buffer.length + 1)
        /\ buffer'.length <= MaxSpeech + quiet_run'
        /\ buffer'.own \in BOOLEAN /\ buffer'.guarded \in BOOLEAN
    <3>1. CASE ReadChunk /\ FeedSpeech
      <4>1. buffer.length + 1 <= MaxSpeech
        BY <1>0, <1>q, <2>2, <3>1 DEF FeedSpeech, SpeechEnds
      <4>2. buffer' = Heard(Head(queue)) /\ quiet_run' = 0
        BY <3>1 DEF FeedSpeech
      <4> QED
        BY <1>a, <2>4, <4>1, <4>2
    <3>2. CASE ReadChunk /\ FeedQuiet
      <4>1. CASE UNCHANGED <<buffer, quiet_run>>
        BY <1>0, <1>a, <4>1 DEF VoiceTypeOK, SpeechEnds
      <4>2. CASE /\ quiet_run + 1 < SilenceChunks
                 /\ buffer' = Heard(Head(queue)) /\ quiet_run' = quiet_run + 1
        BY <1>0, <1>a, <2>4, <4>2 DEF SpeechEnds
      <4> QED
        BY <3>2, <4>1, <4>2 DEF FeedQuiet
    <3>3. CASE CloseUtterance
      BY <1>a, <3>3 DEF CloseUtterance, Empty
    <3> QED
      BY <1>2, <3>1, <3>2, <3>3 DEF ReadChunk
  <2>6. buffer' \in [length : 0..MaxUtterance, own : BOOLEAN, guarded : BOOLEAN]
    <3>1. buffer'.length \in 0..MaxUtterance
      BY <1>a, <2>5
    <3>2. buffer' = [length |-> buffer'.length, own |-> buffer'.own,
                     guarded |-> buffer'.guarded]
      BY <1>0, <2>4, <2>5 DEF VoiceTypeOK, Empty
    <3> QED
      BY <2>5, <3>1, <3>2
  <2>7. turn' \in [own : BOOLEAN, guarded : BOOLEAN, echo : BOOLEAN, behind : 0..MaxBacklog]
    <3>1. CASE ReadChunk
      BY <1>0, <3>1 DEF ReadChunk, VoiceTypeOK
    <3>2. CASE CloseUtterance
      <4>1. PICK g \in BOOLEAN, e \in BOOLEAN, b \in 0..MaxBacklog :
              turn' = [own |-> Heard(Head(queue)).own, guarded |-> g, echo |-> e,
                       behind |-> b]
        <5>1. (Heard(Head(queue)).guarded \/ Guarded) \in BOOLEAN
          BY Zenon
        <5>2. WasSpeakingDuring(Heard(Head(queue)).length) \in BOOLEAN
          BY Zenon DEF WasSpeakingDuring
        <5>3. (IF mic = "on" THEN Len(queue) - 1 ELSE MaxBacklog) \in 0..MaxBacklog
          BY <1>q, <1>a, <2>2
        <5> QED
          BY <3>2, <5>1, <5>2, <5>3, Zenon DEF CloseUtterance
      <4> QED
        BY <2>4, <4>1
    <3> QED
      BY <1>2, <3>1, <3>2
  <2>8. \A i \in DOMAIN queue' : queue'[i].sound # "quiet" => buffer'.length + i <= MaxSpeech
    <3> SUFFICES ASSUME NEW i \in 1..(Len(queue) - 1), queue'[i].sound # "quiet"
                 PROVE  buffer'.length + i <= MaxSpeech
      BY <2>2
    <3>1. i + 1 \in DOMAIN queue /\ queue[i + 1].sound # "quiet"
      BY <1>q, <2>2
    <3>2. buffer.length + (i + 1) <= MaxSpeech
      BY <1>0, <3>1 DEF SpeechEnds
    <3> QED
      BY <1>a, <2>5, <3>2
  <2>9. pc' \in {"listen", "stt"}
    BY <1>2, <2>1 DEF ReadChunk, CloseUtterance
  <2>10. VoiceTypeOK'
    BY <1>0, <1>q, <1>a, <2>1, <2>2, <2>3, <2>5, <2>6, <2>7, <2>9 DEF VoiceTypeOK, PCs
  <2> QED
    BY <1>0, <2>1, <2>5, <2>8, <2>10 DEF VoiceTyped, SpeechEnds
<1>3. CASE NoUtterance
  <2>1. streak' = streak + 1 /\ streak' \in 0..ExitThreshold
    BY <1>0, <1>a, <1>3 DEF NoUtterance, VoiceTypeOK, SpeechEnds
  <2>2. pc' \in {"listen", "exited"} /\ (pc' # "exited" => streak' < ExitThreshold)
    BY <1>a, <1>3, <2>1 DEF NoUtterance
  <2>3. SpeakerTypeOK' /\ DialogueTypeOK'
    BY <1>0, <1>3, SpeakerTypeStep, DialogueTypeStep DEF NoUtterance
  <2>4. VoiceTypeOK'
    BY <1>0, <1>3, <2>1, <2>2, <2>3 DEF NoUtterance, VoiceTypeOK, PCs
  <2> QED
    BY <1>0, <1>3, <2>2, <2>4 DEF NoUtterance, VoiceTyped, SpeechEnds
<1>4. CASE MicrophoneLost \/ TranscribeRaises \/ Discard
  <2>1. SpeakerTypeOK' /\ DialogueTypeOK'
    BY <1>0, <1>4, SpeakerTypeStep, DialogueTypeStep
    DEF MicrophoneLost, TranscribeRaises, Discard
  <2> QED
    BY <1>0, <1>4, <1>r, <2>1
    DEF MicrophoneLost, TranscribeRaises, Discard, VoiceTypeOK, PCs
<1>5. CASE KeywordStart
  <2>1. SpeakerTypeOK' /\ DialogueTypeOK'
    BY <1>0, <1>5, SpeakerTypeStep, DialogueTypeStep DEF KeywordStart
  <2>2. moved_on' \in BOOLEAN
    BY <1>5, Zenon DEF KeywordStart
  <2> QED
    BY <1>0, <1>5, <1>r, <2>1, <2>2 DEF KeywordStart, VoiceTypeOK, PCs
<1>6. CASE AskLlm
  <2>1. SpeakerTypeOK' /\ DialogueTypeOK'
    BY <1>0, <1>6, SpeakerTypeStep, DialogueTypeStep DEF AskLlm
  <2> QED
    BY <1>0, <1>6, <1>r, <2>1 DEF AskLlm, VoiceTypeOK, PCs
<1>7. CASE LlmDecides
  <2>1. DialogueTypeOK'
    BY <1>0, <1>7, DialogueTypeStep DEF LlmDecides
  <2>2. \A sentences \in 1..MaxTexts : sentences \in Nat
    BY SpeakerAssumption
  <2>3. SpeakerTypeOK'
    BY <1>0, <1>7, <2>2, SpeakerTypeStep DEF LlmDecides
  <2>4. moved_on' \in BOOLEAN /\ since_chat' \in 0..IdleReset
    BY <1>0, <1>7 DEF LlmDecides, VoiceTypeOK, DialogueTypeOK
  <2>5. pc' \in {"start", "report"} /\ pc = "llm"
    BY <1>7 DEF LlmDecides
  <2> QED
    BY <1>0, <1>7, <1>r, <2>1, <2>3, <2>4, <2>5 DEF LlmDecides, VoiceTypeOK, PCs
<1>8. CASE StartAnswered
  <2>1. SpeakerTypeOK' /\ DialogueTypeOK'
    BY <1>0, <1>8, SpeakerTypeStep, DialogueTypeStep DEF StartAnswered
  <2> QED
    BY <1>0, <1>8, <1>r, <2>1 DEF StartAnswered, VoiceTypeOK, PCs
<1>9. CASE Report
  <2>1. SpeakerTypeOK' /\ DialogueTypeOK'
    BY <1>0, <1>9, SpeakerTypeStep, DialogueTypeStep DEF Report
  <2> QED
    BY <1>0, <1>9, <1>r, <2>1 DEF Report, VoiceTypeOK, PCs
<1>10. CASE SpeakerThreads \/ Announce \/ UNCHANGED allVars
  <2>1. UNCHANGED <<voiceVars, dialogueVars>>
    BY <1>10 DEF SpeakerThreads, Announce, allVars
  <2>2. SpeakerTypeOK' /\ DialogueTypeOK'
    BY <1>0, <1>10, <2>1, SpeakerTypeStep, DialogueTypeStep
    DEF SpeakerThreads, Announce, allVars
  <2> QED
    BY <1>0, <1>r, <2>1, <2>2 DEF voiceVars, VoiceTypeOK
<1> QED
  BY <1>1, <1>2, <1>3, <1>4, <1>5, <1>6, <1>7, <1>8, <1>9, <1>10, VoiceSteps

(* No queue, buffer or count of the voice process outgrows its bound: the  *)
(* utterance no longer than speech and the silence that ends it, the       *)
(* history no longer than HistoryTurns, the speaker's queues no longer     *)
(* than the model allows.                                                  *)
THEOREM VoiceTypeCorrect == VoiceSpec => []VoiceTypeOK
<1>1. VoiceTyped => VoiceTypeOK
  BY DEF VoiceTyped
<1> QED
  BY <1>1, VoiceTypedInit, VoiceTypedStep, PTL DEF VoiceSpec

-----------------------------------------------------------------------------
(* The robot's own voice *)

(* How many ticks ago the i-th chunk of the queue was put, and the first   *)
(* of the buffer, or of the queue where the buffer is empty.               *)
Since(i) == Len(queue) + 1 - i
Held     == buffer.length + Len(queue)

(* No playback is going on since before the last tick, and none has ended  *)
(* within the guard of these ticks.                                        *)
QuietFor(ticks) == playing # "yes" /\ (silent = Horizon \/ silent > EchoGuard + ticks)

ClearFrom(i) == \A j \in DOMAIN queue : j >= i => ~queue[j].guarded

(* As long as the microphone works: what was recorded last without the     *)
(* guard was recorded in a silence of the robot at least as long ...       *)
GuardKnows ==
    mic = "on" =>
        /\ \A i \in DOMAIN queue : ClearFrom(i) => QuietFor(Since(i))
        /\ buffer.length > 0 /\ ~buffer.guarded /\ ClearFrom(1) => QuietFor(Held)

(* ... and the robot's voice, where it was recorded, is still within the   *)
(* guard of the time that has passed since.                                *)
OwnRecent ==
    mic = "on" =>
        /\ \A i \in DOMAIN queue : queue[i].sound = "own" => WasSpeakingDuring(Since(i))
        /\ buffer.own => InSpeech /\ WasSpeakingDuring(Held)

(* The verdict on an utterance cut as soon as it was spoken.               *)
OwnIsEcho == pc = "stt" /\ turn.own /\ turn.behind = 0 => turn.echo

EchoInv == GuardKnows /\ OwnRecent /\ OwnIsEcho /\ VisitorNotEcho

(* At the start nothing has been heard.                                    *)
LEMMA EchoInit == VoiceInit => EchoInv
BY DEF VoiceInit, Empty, EchoInv, GuardKnows, OwnRecent, OwnIsEcho, VisitorNotEcho

(* A tick makes every silence a tick longer, unless a playback has begun.  *)
LEMMA SilenceGrows ==
    ASSUME SpeakerTypeOK, SpeakerTick, NEW ticks \in Nat
    PROVE  /\ ~Playing /\ QuietFor(ticks) => QuietFor(ticks + 1)'
           /\ ~Guarded => ~Playing /\ QuietFor(1)'
           /\ WasSpeakingDuring(ticks) => WasSpeakingDuring(ticks + 1)'
           /\ Audible => WasSpeakingDuring(1)'
<1> USE SpeakerAssumption DEF SpeakerTypeOK, SpeakerTick
<1>1. /\ ~Playing /\ QuietFor(ticks) => QuietFor(ticks + 1)'
      /\ ~Guarded => ~Playing /\ QuietFor(1)'
  BY DEF QuietFor, Guarded, Playing
<1>2. Playing => Playing'
  BY DEF Playing
<1>3. silent' \in Nat /\ silent \in Nat /\ silent' <= silent + 1 /\ EchoGuard \in Nat
  OBVIOUS
<1>4. WasSpeakingDuring(ticks) => WasSpeakingDuring(ticks + 1)'
  BY <1>2, <1>3 DEF WasSpeakingDuring
<1>5. Audible => WasSpeakingDuring(1)'
  BY <1>2, <1>3 DEF WasSpeakingDuring, Audible
<1> QED
  BY <1>1, <1>4, <1>5

(* The other steps of the speaker: a silence ends by a playback that was   *)
(* going on, and an overlap is none for no other reason than time.         *)
LEMMA SpeakerKeeps ==
    ASSUME SpeakerTypeOK, NEW ticks \in Nat,
           PlayBegins \/ PlayEnds \/ UNCHANGED <<playing, silent>>
    PROVE  /\ QuietFor(ticks) => QuietFor(ticks)'
           /\ WasSpeakingDuring(ticks) => WasSpeakingDuring(ticks)'
<1> USE SpeakerAssumption DEF SpeakerTypeOK
<1>1. CASE PlayBegins
  BY <1>1 DEF PlayBegins, QuietFor, WasSpeakingDuring, Playing
<1>2. CASE PlayEnds
  BY <1>2 DEF PlayEnds, QuietFor, WasSpeakingDuring, Playing
<1>3. CASE UNCHANGED <<playing, silent>>
  BY <1>3 DEF QuietFor, WasSpeakingDuring, Playing
<1> QED
  BY <1>1, <1>2, <1>3

(* Time: a chunk is put.                                                   *)
LEMMA EchoTick ==
    ASSUME VoiceTyped, EchoInv, Tick
    PROVE  EchoInv'
<1>l. Len(queue) \in Nat
  BY DEF VoiceTyped, VoiceTypeOK
<1>n. PICK n \in Nat : n = Len(queue)
  BY <1>l
<1>0. VoiceTypeOK /\ SpeakerTypeOK /\ SpeakerTick
  BY DEF VoiceTyped, VoiceTypeOK, Tick
<1>v. OwnIsEcho' /\ VisitorNotEcho'
  BY DEF Tick, EchoInv, OwnIsEcho, VisitorNotEcho
<1> SUFFICES ASSUME mic' = "on" PROVE GuardKnows' /\ OwnRecent'
  BY <1>v DEF EchoInv, GuardKnows, OwnRecent
<1>1. UNCHANGED <<mic, buffer>> /\ mic = "on"
  BY DEF Tick
<1>2. PICK chunk \in Hears : queue' = Append(queue, chunk)
  BY <1>1 DEF Tick
<1>3. /\ chunk \in Chunks /\ chunk.guarded = Guarded
      /\ chunk.sound = "own" => Audible
  BY <1>0, HeardChunk
<1>4. /\ n \in Nat /\ DOMAIN queue = 1..n
      /\ Len(queue') = n + 1 /\ DOMAIN queue' = 1..(n + 1)
      /\ queue'[n + 1] = chunk
      /\ \A i \in 1..n : queue'[i] = queue[i]
  BY <1>n, <1>2, <1>3, QueueStep
<1>5. /\ \A i \in 1..n : Since(i) \in Nat /\ Since(i)' = Since(i) + 1
      /\ Since(n + 1)' = 1
      /\ Held \in Nat /\ Held' = Held + 1
  <2>1. buffer.length \in Nat
    BY <1>0, VoiceAssumption DEF VoiceTypeOK, MaxUtterance
  <2> QED
    BY <1>n, <1>1, <1>4, <2>1 DEF Since, Held
<1>6. \A i \in 1..(n + 1) : ClearFrom(i)' => ~chunk.guarded
  BY <1>4 DEF ClearFrom
<1>7. \A i \in 1..n : ClearFrom(i)' => ClearFrom(i)
  BY <1>4 DEF ClearFrom
<1>8. ClearFrom(1)' => ~chunk.guarded /\ ClearFrom(1)
  BY <1>4 DEF ClearFrom
<1>9. GuardKnows'
  <2> USE DEF QuietFor
  <2>1. ASSUME NEW i \in 1..(n + 1), ClearFrom(i)'
        PROVE  QuietFor(Since(i))'
    <3>1. ~Guarded /\ ~Playing
      BY <1>0, <1>3, <1>6, <2>1, SilenceGrows
    <3>2. CASE i = n + 1
      BY <1>0, <1>5, <3>1, <3>2, SilenceGrows
    <3>3. CASE i # n + 1
      <4>1. i \in 1..n /\ QuietFor(Since(i))
        BY <1>1, <1>4, <1>7, <2>1, <3>3 DEF EchoInv, GuardKnows
      <4> QED
        BY <1>0, <1>5, <3>1, <4>1, SilenceGrows
    <3> QED
      BY <3>2, <3>3
  <2>2. ASSUME buffer.length > 0, ~buffer.guarded, ClearFrom(1)'
        PROVE  QuietFor(Held)'
    <3>1. ~Guarded /\ ~Playing
      BY <1>0, <1>3, <1>8, <2>2, SilenceGrows
    <3>2. QuietFor(Held)
      BY <1>1, <1>8, <2>2 DEF EchoInv, GuardKnows
    <3> QED
      BY <1>0, <1>5, <3>1, <3>2, SilenceGrows
  <2> QED
    BY <1>1, <1>4, <2>1, <2>2 DEF GuardKnows
<1>10. OwnRecent'
  <2> USE DEF WasSpeakingDuring
  <2>1. ASSUME NEW i \in 1..(n + 1), queue'[i].sound = "own"
        PROVE  WasSpeakingDuring(Since(i))'
    <3>1. CASE i = n + 1
      BY <1>0, <1>3, <1>4, <1>5, <2>1, <3>1, SilenceGrows
    <3>2. CASE i # n + 1
      <4>1. i \in 1..n /\ WasSpeakingDuring(Since(i))
        BY <1>1, <1>4, <2>1, <3>2 DEF EchoInv, OwnRecent
      <4> QED
        BY <1>0, <1>5, <4>1, SilenceGrows
    <3> QED
      BY <3>1, <3>2
  <2>2. ASSUME buffer.own
        PROVE  WasSpeakingDuring(Held)'
    <3>1. WasSpeakingDuring(Held)
      BY <1>1, <2>2 DEF EchoInv, OwnRecent
    <3> QED
      BY <1>0, <1>5, <3>1, SilenceGrows
  <2> QED
    BY <1>1, <1>4, <2>1, <2>2 DEF EchoInv, OwnRecent, InSpeech
<1> QED
  BY <1>9, <1>10

(* The loop takes a chunk: nothing of it is older than it was.             *)
LEMMA EchoRead ==
    ASSUME VoiceTyped, EchoInv, ReadChunk \/ CloseUtterance
    PROVE  GuardKnows' /\ OwnRecent'
<1>l. Len(queue) \in Nat
  BY DEF VoiceTyped, VoiceTypeOK
<1>n. PICK n \in Nat : n = Len(queue)
  BY <1>l
<1> SUFFICES ASSUME mic' = "on" PROVE GuardKnows' /\ OwnRecent'
  BY DEF GuardKnows, OwnRecent
<1> USE DEF QuietFor, WasSpeakingDuring
<1>0. /\ VoiceTypeOK /\ mic = "on" /\ UNCHANGED <<mic, playing, silent>>
      /\ queue # <<>> /\ queue' = Tail(queue)
      /\ buffer.length \in Nat /\ (Playing' <=> Playing)
  BY DEF VoiceTyped, VoiceTypeOK, MaxUtterance, ReadChunk, CloseUtterance, speakerVars,
         Playing
<1>1. /\ n \in Nat \ {0} /\ DOMAIN queue = 1..n
      /\ Head(queue) = queue[1] /\ Head(queue) \in Chunks
      /\ Len(queue') = n - 1 /\ DOMAIN queue' = 1..(n - 1)
      /\ \A i \in 1..(n - 1) : queue'[i] = queue[i + 1]
  BY <1>n, <1>0, QueueStep
<1>2. /\ \A i \in 1..(n - 1) : i + 1 \in DOMAIN queue /\ Since(i)' = Since(i + 1)
      /\ 1 \in DOMAIN queue /\ Since(1) = n /\ Held = buffer.length + n
  BY <1>n, <1>1 DEF Since, Held
<1>3. /\ \A i \in 1..(n - 1) : ClearFrom(i)' => ClearFrom(i + 1)
      /\ ClearFrom(1)' /\ ~Head(queue).guarded => ClearFrom(1)
  <2>1. ASSUME NEW i \in 1..n, ClearFrom(i)', NEW j \in 1..n, j >= i + 1
        PROVE  ~queue[j].guarded
    <3>1. j - 1 \in DOMAIN queue' /\ j - 1 >= i /\ queue'[j - 1] = queue[j]
      BY <1>1, <2>1
    <3> QED
      BY <2>1, <3>1 DEF ClearFrom
  <2>2. ASSUME NEW i \in 1..(n - 1), ClearFrom(i)'
        PROVE  ClearFrom(i + 1)
    <3>1. i \in 1..n /\ \A j \in 1..n : j >= i + 1 => ~queue[j].guarded
      BY <2>1, <2>2
    <3> QED
      BY <1>1, <3>1 DEF ClearFrom
  <2>3. ASSUME ClearFrom(1)', ~Head(queue).guarded, NEW j \in 1..n
        PROVE  ~queue[j].guarded
    <3>1. CASE j = 1
      BY <1>1, <2>3, <3>1
    <3>2. CASE j # 1
      BY <1>1, <2>1, <2>3, <3>2
    <3> QED
      BY <3>1, <3>2
  <2>4. ClearFrom(1)' /\ ~Head(queue).guarded => ClearFrom(1)
    BY <1>1, <2>3 DEF ClearFrom
  <2> QED
    BY <2>2, <2>4
<1>4. CASE buffer' = Heard(Head(queue))
  <2>1. /\ buffer'.length = buffer.length + 1
        /\ buffer'.own = (buffer.own \/ Head(queue).sound = "own")
        /\ buffer'.guarded = (buffer.guarded \/ Head(queue).guarded)
    BY <1>0, <1>1, <1>4, HeardType
  <2>2. Held' = Held
    BY <1>0, <1>1, <1>2, <2>1 DEF Held
  <2>3. ASSUME ~buffer'.guarded, ClearFrom(1)'
        PROVE  QuietFor(Held)'
    <3>1. ~buffer.guarded /\ ClearFrom(1)
      BY <1>3, <2>1, <2>3
    <3>2. QuietFor(Held)
      <4>1. CASE buffer.length > 0
        BY <1>0, <3>1, <4>1 DEF EchoInv, GuardKnows
      <4>2. CASE buffer.length = 0
        <5>1. QuietFor(Since(1)) /\ Held = Since(1)
          BY <1>0, <1>1, <1>2, <3>1, <4>2 DEF EchoInv, GuardKnows
        <5> QED
          BY <5>1
      <4> QED
        BY <1>0, <4>1, <4>2
    <3> QED
      BY <1>0, <2>2, <3>2
  <2>4. ASSUME buffer'.own
        PROVE  WasSpeakingDuring(Held)'
    <3>1. WasSpeakingDuring(Held)
      <4>1. CASE buffer.own
        BY <1>0, <4>1 DEF EchoInv, OwnRecent
      <4>2. CASE Head(queue).sound = "own"
        <5>1. WasSpeakingDuring(Since(1)) /\ Since(1) <= Held
          BY <1>0, <1>1, <1>2, <4>2 DEF EchoInv, OwnRecent
        <5> QED
          BY <1>0, <1>1, <1>2, <5>1, SpeakerAssumption DEF VoiceTypeOK, SpeakerTypeOK
      <4> QED
        BY <2>1, <2>4, <4>1, <4>2
    <3> QED
      BY <1>0, <2>2, <3>1
  <2>5. ASSUME NEW i \in 1..(n - 1)
        PROVE  /\ ClearFrom(i)' => QuietFor(Since(i))'
               /\ queue'[i].sound = "own" => WasSpeakingDuring(Since(i))'
    BY <1>0, <1>1, <1>2, <1>3 DEF EchoInv, GuardKnows, OwnRecent
  <2> QED
    BY <1>0, <1>1, <2>1, <2>3, <2>4, <2>5 DEF GuardKnows, OwnRecent, InSpeech
<1>5. CASE buffer'.length = 0 /\ buffer' \in {buffer, Empty}
  <2>0. ~buffer'.own
    BY <1>0, <1>5 DEF Empty, EchoInv, OwnRecent, InSpeech
  <2>1. ASSUME NEW i \in 1..(n - 1)
        PROVE  /\ ClearFrom(i)' => QuietFor(Since(i))'
               /\ queue'[i].sound = "own" => WasSpeakingDuring(Since(i))'
    BY <1>0, <1>1, <1>2, <1>3 DEF EchoInv, GuardKnows, OwnRecent
  <2> QED
    BY <1>1, <1>5, <2>0, <2>1 DEF GuardKnows, OwnRecent
<1> QED
  BY <1>0, <1>4, <1>5 DEF ReadChunk, FeedSpeech, FeedQuiet, CloseUtterance, InSpeech, Empty

(* The cut: with nothing queued behind it the utterance ends now, and the  *)
(* window the speaker is asked about begins where its first chunk does.    *)
LEMMA EchoClose ==
    ASSUME VoiceTyped, EchoInv, CloseUtterance
    PROVE  OwnIsEcho' /\ VisitorNotEcho'
<1> SUFFICES ASSUME turn'.behind = 0
             PROVE  /\ turn'.own => turn'.echo
                    /\ ~turn'.guarded => ~turn'.echo
  BY DEF OwnIsEcho, VisitorNotEcho
<1> DEFINE chunk == Head(queue)
<1>0. /\ VoiceTypeOK /\ InSpeech /\ chunk.sound = "quiet" /\ quiet_run + 1 = SilenceChunks
      /\ queue # <<>>
      /\ turn' = [own     |-> Heard(chunk).own,
                  guarded |-> Heard(chunk).guarded \/ Guarded,
                  echo    |-> WasSpeakingDuring(Heard(chunk).length),
                  behind  |-> IF mic = "on" THEN Len(queue) - 1 ELSE MaxBacklog]
  BY DEF CloseUtterance, UtteranceEnds, VoiceTyped
<1>1. /\ Len(queue) \in Nat /\ DOMAIN queue = 1..Len(queue)
      /\ chunk \in Chunks /\ chunk = queue[1]
  BY <1>0, QueueStep DEF VoiceTypeOK
<1>2. /\ turn'.own = Heard(chunk).own
      /\ turn'.guarded = (Heard(chunk).guarded \/ Guarded)
      /\ turn'.echo = WasSpeakingDuring(Heard(chunk).length)
      /\ turn'.behind = IF mic = "on" THEN Len(queue) - 1 ELSE MaxBacklog
  BY <1>0
<1>3. mic = "on" /\ Len(queue) = 1
  BY <1>1, <1>2, VoiceAssumption
<1>4. /\ Heard(chunk).length = buffer.length + 1
      /\ Heard(chunk).own = (buffer.own \/ chunk.sound = "own")
      /\ Heard(chunk).guarded = (buffer.guarded \/ chunk.guarded)
  BY <1>0, <1>1, HeardType
<1>5. buffer.length \in Nat /\ buffer.length > 0 /\ Held = buffer.length + 1
  BY <1>0, <1>3, VoiceAssumption DEF VoiceTypeOK, MaxUtterance, InSpeech, Held
<1>6. ASSUME turn'.own
      PROVE  turn'.echo
  <2>1. buffer.own
    BY <1>0, <1>2, <1>4, <1>6
  <2>2. WasSpeakingDuring(Held)
    BY <1>3, <2>1 DEF EchoInv, OwnRecent
  <2> QED
    BY <1>2, <1>4, <1>5, <2>2
<1>7. ASSUME ~turn'.guarded
      PROVE  ~turn'.echo
  <2>1. ~buffer.guarded /\ ~chunk.guarded /\ ~Guarded
    BY <1>2, <1>4, <1>7
  <2>2. QuietFor(Held) /\ ~Playing
    BY <1>1, <1>3, <1>5, <2>1 DEF EchoInv, GuardKnows, ClearFrom, Guarded
  <2>3. Held + EchoGuard < Horizon
    BY <1>0, <1>5, VoiceAssumption, SpeakerAssumption
    DEF VoiceTyped, SpeechEnds, VoiceTypeOK
  <2>4. ~WasSpeakingDuring(Held)
    BY <1>0, <1>5, <2>2, <2>3, SpeakerAssumption
    DEF QuietFor, WasSpeakingDuring, VoiceTypeOK, SpeakerTypeOK
  <2> QED
    BY <1>2, <1>4, <1>5, <2>4
<1> QED
  BY <1>6, <1>7

(* Every step of the microphone, the loop and the speaker keeps EchoInv.   *)
LEMMA EchoStep ==
    ASSUME VoiceTyped, EchoInv, [VoiceNext]_allVars
    PROVE  EchoInv'
<1>0. /\ SpeakerTypeOK /\ buffer.length \in Nat
      /\ Len(queue) \in Nat /\ DOMAIN queue = 1..Len(queue)
  BY VoiceAssumption DEF VoiceTyped, VoiceTypeOK, MaxUtterance
<1>1. CASE Tick
  BY <1>1, EchoTick
<1>2. CASE ReadChunk
  <2>1. OwnIsEcho' /\ VisitorNotEcho'
    BY <1>2 DEF ReadChunk, OwnIsEcho, VisitorNotEcho, EchoInv
  <2> QED
    BY <1>2, <2>1, EchoRead DEF EchoInv
<1>3. CASE CloseUtterance
  BY <1>3, EchoClose, EchoRead DEF EchoInv
<1>4. CASE \/ NoUtterance \/ MicrophoneLost \/ TranscribeRaises \/ Discard
           \/ KeywordStart \/ AskLlm \/ LlmDecides \/ StartAnswered \/ Report
           \/ SpeakerThreads \/ Announce \/ UNCHANGED allVars
  <2>1. /\ UNCHANGED <<queue, buffer>> /\ (mic' = "on" => mic = "on")
        /\ PlayBegins \/ PlayEnds \/ UNCHANGED <<playing, silent>>
    BY <1>4
    DEF NoUtterance, MicrophoneLost, TranscribeRaises, Discard, KeywordStart, AskLlm,
        LlmDecides, StartAnswered, Report, SpeakerThreads, Announce, allVars, voiceVars,
        speakerVars, Speak, SynthOnce
  <2>2. pc' = "stt" => pc = "stt" /\ turn' = turn
    BY <1>4
    DEF NoUtterance, MicrophoneLost, TranscribeRaises, Discard, KeywordStart, AskLlm,
        LlmDecides, StartAnswered, Report, SpeakerThreads, Announce, allVars, voiceVars
  <2>3. /\ \A i \in DOMAIN queue : Since(i) \in Nat /\ Since(i)' = Since(i)
        /\ Held \in Nat /\ Held' = Held
    BY <1>0, <2>1 DEF Since, Held
  <2>4. GuardKnows'
    <3>1. \A i \in DOMAIN queue : QuietFor(Since(i)) => QuietFor(Since(i))'
      BY <1>0, <2>1, <2>3, SpeakerKeeps DEF QuietFor
    <3>2. QuietFor(Held) => QuietFor(Held)'
      BY <1>0, <2>1, <2>3, SpeakerKeeps DEF QuietFor
    <3> QED
      BY <2>1, <3>1, <3>2 DEF EchoInv, GuardKnows, ClearFrom
  <2>5. OwnRecent'
    <3>1. \A i \in DOMAIN queue : WasSpeakingDuring(Since(i)) => WasSpeakingDuring(Since(i))'
      BY <1>0, <2>1, <2>3, SpeakerKeeps DEF WasSpeakingDuring
    <3>2. WasSpeakingDuring(Held) => WasSpeakingDuring(Held)'
      BY <1>0, <2>1, <2>3, SpeakerKeeps DEF WasSpeakingDuring
    <3> QED
      BY <2>1, <3>1, <3>2 DEF EchoInv, OwnRecent, InSpeech
  <2> QED
    BY <2>2, <2>4, <2>5 DEF EchoInv, OwnIsEcho, VisitorNotEcho
<1> QED
  BY <1>1, <1>2, <1>3, <1>4, VoiceSteps

(* A visitor who waits until the robot has spoken and the guard is over is *)
(* heard: unless the loop is behind the microphone, its words are not      *)
(* taken for the robot's, however long they are (was_speaking_during).     *)
THEOREM VisitorNotEchoCorrect == VoiceSpec => []VisitorNotEcho
<1>1. EchoInv => VisitorNotEcho
  BY DEF EchoInv
<1> QED
  BY <1>1, VoiceTypedInit, VoiceTypedStep, EchoInit, EchoStep, PTL DEF VoiceSpec

(* The robot's own voice is not acted on: an utterance with it in, cut as  *)
(* soon as it was spoken, goes neither to the keywords nor to the LLM,     *)
(* whatever silence the VAD waits for after it (run_turn_once).            *)
THEOREM OwnVoiceDiscardedCorrect == VoiceSpec => OwnVoiceDiscarded
<1>1. ASSUME EchoInv, [VoiceNext]_allVars
      PROVE  Acts => ~(turn.own /\ turn.behind = 0)
  <2> SUFFICES ASSUME Acts PROVE ~turn.echo
    BY <1>1 DEF EchoInv, OwnIsEcho, Acts
  <2> QED
    BY <1>1, VoiceSteps
    DEF Acts, Tick, ReadChunk, CloseUtterance, NoUtterance, MicrophoneLost,
        TranscribeRaises, Discard, KeywordStart, AskLlm, LlmDecides, StartAnswered, Report,
        SpeakerThreads, Announce, allVars, voiceVars
<1> QED
  BY <1>1, VoiceTypedInit, VoiceTypedStep, EchoInit, EchoStep, PTL
  DEF VoiceSpec, OwnVoiceDiscarded

-----------------------------------------------------------------------------
(* The conversation *)

(* What is kept of a conversation was said at the last chat, and nothing   *)
(* was asked of the server since; without a dialogue nothing is kept.      *)
HistoryIsRecent ==
    /\ history > 0 => since_chat = last_chat /\ ~moved_on
    /\ ~DialogueEnabled => history = 0 /\ pc # "llm"

(* At the start there is no conversation to inherit.                       *)
LEMMA HistoryInit == VoiceInit => HistoryIsRecent
BY DEF VoiceInit, DialogueInit, HistoryIsRecent

(* Every step of the loop keeps HistoryIsRecent.                           *)
LEMMA HistoryStep ==
    ASSUME VoiceTyped, HistoryIsRecent, [VoiceNext]_allVars
    PROVE  HistoryIsRecent'
<1> USE DEF HistoryIsRecent
<1>0. history \in Nat /\ last_chat \in 0..IdleReset /\ since_chat \in 0..IdleReset
  BY DialogueAssumption DEF VoiceTyped, VoiceTypeOK, DialogueTypeOK
<1>1. CASE Tick
  BY <1>0, <1>1 DEF Tick, DialogueTick
<1>2. CASE \/ ReadChunk \/ CloseUtterance \/ NoUtterance \/ MicrophoneLost
           \/ TranscribeRaises \/ Discard \/ StartAnswered \/ Report
           \/ SpeakerThreads \/ Announce \/ UNCHANGED allVars
  <2>1. /\ UNCHANGED <<history, last_chat, since_chat, moved_on>>
        /\ pc' = "llm" => pc = "llm"
    BY <1>2
    DEF ReadChunk, CloseUtterance, NoUtterance, MicrophoneLost, TranscribeRaises, Discard,
        StartAnswered, Report, SpeakerThreads, Announce, allVars, voiceVars, dialogueVars
  <2> QED
    BY <2>1
<1>3. CASE KeywordStart
  <2>1. history' = 0 /\ pc' = "start"
    BY <1>3 DEF KeywordStart, Checkin, Reset, dialogueVars
  <2> QED
    BY <2>1
<1>4. CASE AskLlm
  <2>1. /\ DialogueEnabled /\ UNCHANGED <<since_chat, moved_on>>
        /\ history' = 0 \/ UNCHANGED <<history, last_chat>>
    BY <1>4 DEF AskLlm, Ask, Reset
  <2> QED
    BY <2>1
<1>5. CASE LlmDecides
  <2>1. DialogueEnabled /\ pc' \in {"start", "report"}
    BY <1>5 DEF LlmDecides
  <2>2. \/ history' = 0
        \/ since_chat' = last_chat' /\ moved_on' = FALSE
        \/ UNCHANGED <<history, last_chat, since_chat, moved_on>>
    BY <1>5 DEF LlmDecides, Checkin, Reset, Chat, Ignore, dialogueVars
  <2>3. moved_on' = FALSE => ~moved_on'
    BY Zenon
  <2> QED
    BY <2>1, <2>2, <2>3
<1> QED
  BY <1>1, <1>2, <1>3, <1>4, <1>5, VoiceSteps

(* What goes to the LLM with a question was said by the visitor who asks:  *)
(* nothing from before a start, and nothing from before a pause, which     *)
(* what the LLM ignores in between does not shorten (respond, reset).      *)
THEOREM PromptOfThisVisitorCorrect == VoiceSpec => PromptOfThisVisitor
<1>1. ASSUME VoiceTyped, HistoryIsRecent, AskLlm, history' > 0
      PROVE  since_chat < IdleReset /\ ~moved_on
  <2>1. history' = history /\ ~(last_chat >= IdleReset)
    BY <1>1 DEF AskLlm, Ask, Reset
  <2>2. last_chat \in 0..IdleReset /\ IdleReset \in Nat
    BY <1>1, DialogueAssumption DEF VoiceTyped, VoiceTypeOK, DialogueTypeOK
  <2> QED
    BY <1>1, <2>1, <2>2 DEF HistoryIsRecent
<1> QED
  BY <1>1, VoiceTypedInit, VoiceTypedStep, HistoryInit, HistoryStep, PTL
  DEF VoiceSpec, PromptOfThisVisitor

-----------------------------------------------------------------------------
(* The end of a process without a microphone                               *)

(* How far the loop is from its exit at most, with what it has heard so    *)
(* far: an utterance it works on sets the count of vain reads back once.   *)
Remaining ==
    CASE pc = "stt"    -> ExitThreshold + 4
      [] pc = "llm"    -> ExitThreshold + 3
      [] pc = "start"  -> ExitThreshold + 2
      [] pc = "report" -> ExitThreshold + 1
      [] pc \in {"listen", "exited"} -> ExitThreshold - streak

(* A microphone that is gone does not come back, and each step either      *)
(* leaves the loop where it is, or takes a chunk of what was heard before, *)
(* or brings the loop nearer its exit.                                     *)
MicLossCountsDown ==
    [][mic = "gone" =>
          /\ mic' = "gone"
          /\ \/ UNCHANGED <<queue, pc, streak>>
             \/ Len(queue') < Len(queue)
             \/ queue' = queue /\ Remaining' < Remaining]_allVars

(* What remains is a number, so it cannot fall for ever.                   *)
LEMMA RemainingType == VoiceTypeOK => Remaining \in Nat
<1> SUFFICES ASSUME VoiceTypeOK PROVE Remaining \in Nat
  OBVIOUS
<1>1. ExitThreshold \in Nat /\ ExitThreshold - streak \in Nat
  BY VoiceAssumption DEF VoiceTypeOK
<1>2. pc \in {"listen", "stt", "llm", "start", "report", "exited"}
  BY DEF VoiceTypeOK, PCs
<1> QED
  BY <1>1, <1>2 DEF Remaining

(* Each step of the loop that reads nothing is one further in its turn, or *)
(* one more vain read.                                                     *)
LEMMA RemainingFalls ==
    ASSUME VoiceTypeOK, mic = "gone",
           NoUtterance \/ TranscribeRaises \/ Discard \/ KeywordStart \/ AskLlm
               \/ LlmDecides \/ StartAnswered \/ Report
    PROVE  mic' = "gone" /\ queue' = queue /\ Remaining' < Remaining
<1> USE VoiceAssumption DEF Remaining
<1>1. streak \in 0..ExitThreshold /\ ExitThreshold \in Nat
  BY DEF VoiceTypeOK
<1>2. CASE NoUtterance
  <2>1. /\ pc = "listen" /\ pc' \in {"listen", "exited"} /\ streak' = streak + 1
        /\ UNCHANGED <<queue, mic>>
    BY <1>2 DEF NoUtterance
  <2> QED
    BY <1>1, <2>1
<1>3. CASE \/ TranscribeRaises \/ Discard \/ KeywordStart \/ AskLlm \/ LlmDecides
           \/ StartAnswered
  <2>1. /\ <<pc, pc'>> \in {<<"stt", "exited">>, <<"stt", "report">>, <<"stt", "start">>,
               <<"stt", "llm">>, <<"llm", "start">>, <<"llm", "report">>,
               <<"start", "report">>}
        /\ UNCHANGED <<queue, mic, streak>>
    BY <1>3 DEF TranscribeRaises, Discard, KeywordStart, AskLlm, LlmDecides, StartAnswered
  <2> QED
    BY <1>1, <2>1
<1>4. CASE Report
  <2>1. /\ pc = "report" /\ pc' = "listen" /\ streak' = 0
        /\ UNCHANGED <<queue, mic>>
    BY <1>4 DEF Report
  <2> QED
    BY <1>1, <2>1
<1> QED
  BY <1>2, <1>3, <1>4

(* The measure behind MicLossEndsProcess (run_checkin_loop): once the      *)
(* microphone is gone, the chunks it left and the vain reads left to do    *)
(* only become fewer, whatever the speaker and the progress thread do.     *)
THEOREM MicLossCountsDownCorrect ==
    VoiceSpec => [](Remaining \in Nat) /\ MicLossCountsDown
<1>1. ASSUME VoiceTypeOK, [VoiceNext]_allVars, mic = "gone"
      PROVE  /\ mic' = "gone"
             /\ \/ UNCHANGED <<queue, pc, streak>>
                \/ Len(queue') < Len(queue)
                \/ queue' = queue /\ Remaining' < Remaining
  <2>1. CASE ReadChunk \/ CloseUtterance
    <3>1. queue # <<>> /\ queue' = Tail(queue) /\ mic' = mic
      BY <2>1 DEF ReadChunk, CloseUtterance
    <3>2. queue \in Seq(Chunks)
      BY <1>1 DEF VoiceTypeOK
    <3> QED
      BY <1>1, <3>1, <3>2
  <2>2. CASE \/ NoUtterance \/ TranscribeRaises \/ Discard \/ KeywordStart \/ AskLlm
             \/ LlmDecides \/ StartAnswered \/ Report
    BY <1>1, <2>2, RemainingFalls
  <2>3. CASE \/ Tick \/ MicrophoneLost \/ SpeakerThreads \/ Announce \/ Exited
             \/ UNCHANGED allVars
    BY <1>1, <2>3
    DEF Tick, MicrophoneLost, SpeakerThreads, Announce, Exited, allVars, voiceVars
  <2> QED
    BY <1>1, <2>1, <2>2, <2>3 DEF VoiceNext, CheckinLoop
<1> QED
  BY <1>1, RemainingType, VoiceTypeCorrect, PTL DEF VoiceSpec, MicLossCountsDown
=============================================================================
