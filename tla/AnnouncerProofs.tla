--------------------------- MODULE AnnouncerProofs ---------------------------
(***************************************************************************)
(* What TLAPS proves of Announcer for every length of the event queue and  *)
(* every backoff: the announcer beside the server keeps the server's own   *)
(* promises, and is silent only about what it could not know.              *)
(***************************************************************************)
EXTENDS Announcer, EventOrder, StateMachineProofs

(* The safety part of the specification.                                   *)
AnnouncerSafety == AnnouncerInit /\ [][AnnouncerNext]_announcerVars

(* No theorem of this module uses fairness.                                *)
LEMMA AnnouncerIsSafe == AnnouncerSpec => AnnouncerSafety
BY PTL DEF AnnouncerSpec, AnnouncerSafety

(* To the server the announcer is a listener like any other: a step of     *)
(* both is a step of the server, or none.                                  *)
LEMMA ServerWithListener ==
    ASSUME [AnnouncerNext]_announcerVars
    PROVE  [Next]_vars
BY DEF AnnouncerNext, ServerStep, Get, GetAnswered, HandleSnapshot, StreamEnds, Sleep,
       announcerVars

(* The server an announcer listens to is the state machine: all that       *)
(* StateMachineProofs shows of Spec holds of it too.                       *)
THEOREM AnnouncerImplementsStateMachine == AnnouncerSpec => Spec
<1>1. AnnouncerInit => Init
  BY DEF AnnouncerInit
<1>2. [AnnouncerNext]_announcerVars => [Next]_vars
  BY ServerWithListener
<1> QED
  BY <1>1, <1>2, AnnouncerIsSafe, PTL DEF AnnouncerSafety, Spec

-----------------------------------------------------------------------------
(* Type correctness *)

(* What the announcer is told is a set of cues.                            *)
LEMMA ViewIsCues == View \in SUBSET Cues /\ View' \in SUBSET Cues
BY DEF View

(* The announcer begins well typed.                                        *)
LEMMA AnnouncerTypeInit == AnnouncerInit => AnnouncerTypeOK
<1> SUFFICES ASSUME AnnouncerInit PROVE AnnouncerTypeOK
  OBVIOUS
<1>1. TypeOK
  BY TypeInit DEF AnnouncerInit
<1>2. Stream!StreamTypeOK(SUBSET Cues)
  BY EmptySeq DEF AnnouncerInit, Stream!StreamInit, Stream!StreamTypeOK
<1>3. backoff \in InitialBackoff..MaxBackoff
  BY AnnouncerAssumption DEF AnnouncerInit
<1> QED
  BY <1>1, <1>2, <1>3 DEF AnnouncerInit, AnnouncerTypeOK

(* The queue of the connection: what a step of the stream leaves.          *)
LEMMA ListenerTypeStep ==
    ASSUME Stream!StreamTypeOK(SUBSET Cues), NEW s \in SUBSET Cues,
           \/ Stream!Publish(s) \/ Stream!Subscribe \/ Stream!SendSnapshot(s)
           \/ Stream!Disconnect \/ Stream!Arrives(s)
           \/ (link' = "down" /\ inbox' = <<>>)
           \/ UNCHANGED streamVars
    PROVE  Stream!StreamTypeOK(SUBSET Cues)'
<1> USE DEF Stream!StreamTypeOK
<1>1. CASE Stream!Publish(s)
  BY <1>1, AppendAt DEF Stream!Publish
<1>2. CASE \/ Stream!Subscribe \/ Stream!Disconnect
           \/ (link' = "down" /\ inbox' = <<>>)
           \/ UNCHANGED streamVars
  BY <1>2, EmptySeq DEF Stream!Subscribe, Stream!Disconnect, streamVars
<1>3. CASE Stream!SendSnapshot(s)
  BY <1>3, PrependAt DEF Stream!SendSnapshot
<1>4. CASE Stream!Arrives(s)
  BY <1>4, TailAt DEF Stream!Arrives
<1> QED
  BY <1>1, <1>2, <1>3, <1>4

(* Every step of the announcer and of its server keeps the types.          *)
LEMMA AnnouncerTypeStep ==
    ASSUME AnnouncerTypeOK, [AnnouncerNext]_announcerVars
    PROVE  AnnouncerTypeOK'
<1> USE DEF AnnouncerTypeOK
<1>0. TypeOK'
  BY ServerWithListener, TypeStep
<1>v. UNCHANGED vars => View' = View
  BY DEF View, vars, cycleVars, entryVars
<1>1. CASE ServerStep
  <2>1. Stream!StreamTypeOK(SUBSET Cues)'
    BY <1>1, ViewIsCues, ListenerTypeStep DEF ServerStep
  <2>2. missed' \subseteq heard
    BY <1>1 DEF ServerStep, Lose
  <2>3. /\ unsaid' \subseteq View' /\ UNCHANGED <<backoff, heard>>
        /\ loop' \in {"stream", "sleep"}
    BY <1>1 DEF ServerStep
  <2> QED
    BY <1>0, <2>1, <2>2, <2>3
<1>2. CASE Get \/ GetAnswered
  <2>1. Stream!StreamTypeOK(SUBSET Cues)'
    BY <1>2, ViewIsCues, ListenerTypeStep DEF Get, GetAnswered
  <2> QED
    BY <1>0, <1>v, <1>2, <2>1 DEF Get, GetAnswered
<1>3. ASSUME NEW snapshot \in SUBSET Cues, HandleSnapshot(snapshot)
      PROVE  AnnouncerTypeOK'
  <2>1. Stream!StreamTypeOK(SUBSET Cues)'
    BY <1>3, ListenerTypeStep DEF HandleSnapshot
  <2>2. backoff' \in InitialBackoff..MaxBackoff
    BY <1>3, AnnouncerAssumption DEF HandleSnapshot
  <2>3. heard' \subseteq Cues /\ missed' \subseteq heard' /\ unsaid' \subseteq unsaid
    BY <1>3 DEF HandleSnapshot
  <2> QED
    BY <1>0, <1>v, <1>3, <2>1, <2>2, <2>3 DEF HandleSnapshot
<1>4. CASE StreamEnds
  <2>1. Stream!StreamTypeOK(SUBSET Cues)'
    BY <1>4, ViewIsCues, ListenerTypeStep DEF StreamEnds
  <2>2. missed' \subseteq heard
    BY <1>4 DEF StreamEnds, Lose
  <2> QED
    BY <1>0, <1>v, <1>4, <2>1, <2>2 DEF StreamEnds
<1>5. CASE Sleep
  <2>1. Stream!StreamTypeOK(SUBSET Cues)'
    BY <1>5, ViewIsCues, ListenerTypeStep DEF Sleep
  <2>2. backoff' \in InitialBackoff..MaxBackoff
    BY <1>5, AnnouncerAssumption DEF Sleep
  <2> QED
    BY <1>0, <1>v, <1>5, <2>1, <2>2 DEF Sleep
<1>6. CASE UNCHANGED announcerVars
  <2>1. Stream!StreamTypeOK(SUBSET Cues)'
    BY <1>6, ViewIsCues, ListenerTypeStep DEF announcerVars
  <2> QED
    BY <1>0, <1>v, <1>6, <2>1 DEF announcerVars
<1> QED
  BY <1>1, <1>2, <1>3, <1>4, <1>5, <1>6 DEF AnnouncerNext

(* What was heard and lost stays within what there was to hear, and the    *)
(* reconnecting loop sleeps no longer than _RECONNECT_MAX_BACKOFF.         *)
THEOREM AnnouncerTypeCorrect == AnnouncerSpec => []AnnouncerTypeOK
BY AnnouncerTypeInit, AnnouncerTypeStep, AnnouncerIsSafe, PTL DEF AnnouncerSafety

-----------------------------------------------------------------------------
(* Silence has a reason *)

(* A listener knows the present view, or has it as the last in its queue,  *)
(* or, while nothing can reach it, has missed the end of whatever it still *)
(* believes.  And what has begun on the server and was not said is new to  *)
(* the announcer, will look new to it because its end is queued before it, *)
(* or is a thing whose end was lost.                                       *)
Follows ==
    /\ link = "down" => inbox = <<>>
    /\ link \in {"down", "subscribed"} /\ inbox = <<>> => heard \ View \subseteq missed
    /\ link = "open" /\ inbox = <<>> => heard = View
    /\ inbox # <<>> => inbox[Len(inbox)] = View
    /\ \A cue \in unsaid :
          \/ cue \in missed
          \/ cue \notin heard
          \/ \E i \in DOMAIN inbox : cue \notin inbox[i]

(* Before the first connection there is nothing to follow.                 *)
LEMMA FollowsInit == AnnouncerInit => Follows
BY DEF AnnouncerInit, Stream!StreamInit, Follows

(* A connection ends: whatever was queued behind its back counts as lost.  *)
LEMMA FollowsLoss ==
    ASSUME AnnouncerTypeOK, Follows, NEW S, Pending \subseteq S, Lose(S),
           link' = "down", inbox' = <<>>, heard' = heard,
           View' = View \/ View' \in S,
           unsaid' \subseteq unsaid \cup (View' \ View),
           unsaid' \ unsaid # {} => inbox # <<>>
    PROVE  Follows'
<1> USE DEF Follows, AnnouncerTypeOK
<1>1. inbox # <<>> => Len(inbox) \in DOMAIN inbox /\ View \in Pending
  <2>1. inbox \in Seq(SUBSET Cues)
    BY DEF Stream!StreamTypeOK
  <2>2. inbox # <<>> => Len(inbox) \in DOMAIN inbox
    BY <2>1, TailAt
  <2> QED
    BY <2>2 DEF Pending
<1>2. ASSUME NEW cue \in heard, cue \notin View'
      PROVE  cue \in missed'
  <2>1. CASE View' \in S
    BY <1>2, <2>1 DEF Lose
  <2>2. CASE View' = View /\ inbox # <<>>
    BY <1>1, <1>2, <2>2 DEF Lose
  <2>3. CASE View' = View /\ inbox = <<>>
    BY <1>2, <2>3 DEF Lose, Stream!StreamTypeOK
  <2> QED
    BY <2>1, <2>2, <2>3
<1>3. ASSUME NEW cue \in unsaid'
      PROVE  cue \in missed' \/ cue \notin heard'
  <2>1. CASE cue \in unsaid
    <3>1. \A i \in DOMAIN inbox : inbox[i] \in S
      BY DEF Pending
    <3> QED
      BY <2>1, <3>1 DEF Lose
  <2>2. CASE cue \notin unsaid
    BY <1>1, <2>2 DEF Lose
  <2> QED
    BY <2>1, <2>2
<1> QED
  BY <1>2, <1>3

(* Every publish, connection, break and snapshot heard keeps Follows.      *)
LEMMA FollowsStep ==
    ASSUME AnnouncerTypeOK, Follows, [AnnouncerNext]_announcerVars
    PROVE  Follows'
<1> USE DEF Follows
<1>0. inbox \in Seq(SUBSET Cues) /\ link \in {"down", "subscribed", "open"}
  BY DEF AnnouncerTypeOK, Stream!StreamTypeOK
<1>v. UNCHANGED vars => View' = View
  BY DEF View, vars, cycleVars, entryVars
<1>1. CASE ServerStep
  <2> USE <1>1 DEF ServerStep
  <2>0. heard' = heard /\ unsaid' = (unsaid \cap View') \cup (View' \ View)
    OBVIOUS
  <2>1. CASE View' = View /\ UNCHANGED <<streamVars, loop, missed>>
    BY <2>0, <2>1 DEF streamVars
  <2>2. CASE View' # View /\ Stream!Publish(View') /\ link = "down" /\ Lose({View'})
    <3>1. UNCHANGED <<link, inbox>> /\ Pending = {}
      BY <2>2 DEF Stream!Publish, Pending
    <3>2. heard \ View' \subseteq missed'
      BY <2>2 DEF Lose
    <3>3. ASSUME NEW cue \in unsaid'
          PROVE  cue \in missed' \/ cue \notin heard
      <4>1. CASE cue \in unsaid
        BY <2>2, <4>1 DEF Lose
      <4>2. CASE cue \in View' \ View
        BY <2>2, <4>2 DEF Lose
      <4> QED
        BY <2>0, <3>3, <4>1, <4>2
    <3> QED
      BY <2>0, <2>2, <3>1, <3>2, <3>3
  <2>3. CASE View' # View /\ Stream!Publish(View') /\ link # "down" /\ UNCHANGED missed
    <3>1. inbox' = Append(inbox, View') /\ link' = link
      BY <2>3 DEF Stream!Publish
    <3>2. /\ inbox' # <<>> /\ Len(inbox) \in Nat /\ DOMAIN inbox = 1..Len(inbox)
          /\ Len(inbox') = Len(inbox) + 1 /\ DOMAIN inbox' = 1..(Len(inbox) + 1)
          /\ inbox'[Len(inbox) + 1] = View'
          /\ \A i \in DOMAIN inbox : inbox'[i] = inbox[i]
      BY <1>0, <3>1, ViewIsCues, AppendAt
    <3>3. inbox # <<>> => Len(inbox) \in DOMAIN inbox
      BY <1>0, TailAt
    <3>4. ASSUME NEW cue \in unsaid'
          PROVE  cue \in missed' \/ cue \notin heard \/ \E i \in DOMAIN inbox' : cue \notin inbox'[i]
      <4>1. CASE cue \in unsaid
        BY <2>3, <3>2, <4>1
      <4>2. CASE cue \in View' \ View /\ inbox # <<>>
        BY <3>2, <3>3, <4>2
      <4>3. CASE cue \in View' \ View /\ inbox = <<>>
        BY <1>0, <2>3, <4>3
      <4> QED
        BY <2>0, <3>4, <4>1, <4>2, <4>3
    <3>5. inbox'[Len(inbox')] = View'
      BY <3>2
    <3> QED
      BY <2>0, <2>3, <3>1, <3>2, <3>4, <3>5
  <2>4. CASE /\ View' # View /\ Len(inbox) = MaxInbox
             /\ Stream!Disconnect /\ Lose(Pending \cup {View'})
    <3>1. inbox # <<>>
      BY <2>4, AnnouncerAssumption DEF Stream!Disconnect
    <3> QED
      BY <2>0, <2>4, <3>1, FollowsLoss DEF Stream!Disconnect
  <2> QED
    BY <2>1, <2>2, <2>3, <2>4
<1>2. CASE Get
  BY <1>v, <1>2 DEF Get, Stream!Subscribe
<1>3. CASE GetAnswered
  <2>1. /\ link = "subscribed" /\ link' = "open" /\ inbox' = <<View>> \o inbox
        /\ View' = View /\ UNCHANGED <<heard, unsaid, missed>>
    BY <1>v, <1>3 DEF GetAnswered, Stream!SendSnapshot
  <2>2. /\ inbox' # <<>> /\ Len(inbox) \in Nat /\ DOMAIN inbox = 1..Len(inbox)
        /\ Len(inbox') = 1 + Len(inbox) /\ DOMAIN inbox' = 1..(1 + Len(inbox))
        /\ inbox'[1] = View
        /\ \A i \in DOMAIN inbox : inbox'[1 + i] = inbox[i]
    BY <1>0, <2>1, ViewIsCues, PrependAt
  <2>3. inbox'[Len(inbox')] = View
    <3>1. CASE inbox = <<>>
      BY <2>2, <3>1
    <3>2. CASE inbox # <<>>
      BY <1>0, <2>2, <3>2, TailAt
    <3> QED
      BY <3>1, <3>2
  <2>4. ASSUME NEW i \in DOMAIN inbox
        PROVE  1 + i \in DOMAIN inbox' /\ inbox'[1 + i] = inbox[i]
    BY <2>2
  <2> QED
    BY <2>1, <2>2, <2>3, <2>4
<1>4. ASSUME NEW s \in SUBSET Cues, HandleSnapshot(s)
      PROVE  Follows'
  <2>1. /\ link = "open" /\ link' = "open" /\ inbox # <<>>
        /\ s = Head(inbox) /\ inbox' = Tail(inbox)
        /\ heard' = s /\ unsaid' = unsaid \ (s \ heard) /\ missed' = missed \cap s
        /\ View' = View
    BY <1>v, <1>4 DEF HandleSnapshot, Stream!Arrives
  <2>2. /\ s = inbox[1] /\ Len(inbox) \in Nat \ {0} /\ DOMAIN inbox = 1..Len(inbox)
        /\ Len(inbox') = Len(inbox) - 1 /\ DOMAIN inbox' = 1..(Len(inbox) - 1)
        /\ \A i \in DOMAIN inbox' : inbox'[i] = inbox[i + 1]
        /\ inbox' \in Seq(SUBSET Cues)
    BY <1>0, <2>1, TailAt
  <2>3. CASE inbox' = <<>>
    <3>1. Len(inbox) = 1
      BY <2>2, <2>3
    <3>2. \A cue \in unsaid' : cue \in missed' \/ cue \notin s
      BY <2>1, <2>2, <3>1
    <3> QED
      BY <2>1, <2>2, <2>3, <3>1, <3>2
  <2>4. CASE inbox' # <<>>
    <3>1. Len(inbox') \in DOMAIN inbox'
      BY <2>2, <2>4, TailAt
    <3>2. inbox'[Len(inbox')] = View
      BY <2>1, <2>2, <3>1
    <3>3. ASSUME NEW cue \in unsaid', cue \in s, cue \notin missed'
          PROVE  \E i \in DOMAIN inbox' : cue \notin inbox'[i]
      <4>1. PICK i \in DOMAIN inbox : cue \notin inbox[i]
        BY <2>1, <3>3
      <4>2. i - 1 \in DOMAIN inbox' /\ inbox'[i - 1] = inbox[i]
        BY <2>2, <3>3, <4>1
      <4> QED
        BY <4>1, <4>2
    <3> QED
      BY <2>1, <2>4, <3>2, <3>3
  <2> QED
    BY <2>3, <2>4
<1>5. CASE StreamEnds
  BY <1>v, <1>5, FollowsLoss DEF StreamEnds
<1>6. CASE Sleep \/ UNCHANGED announcerVars
  BY <1>v, <1>6 DEF Sleep, announcerVars, streamVars
<1> QED
  BY <1>1, <1>2, <1>3, <1>4, <1>5, <1>6 DEF AnnouncerNext

(* An announcer that has taken every event is silent only about a thing    *)
(* whose earlier end was lost with a connection, however the stream breaks *)
(* and however long its queue.                                             *)
THEOREM SaidUnlessMissedCorrect == AnnouncerSpec => []SaidUnlessMissed
<1>1. AnnouncerTypeOK /\ Follows => SaidUnlessMissed
  BY DEF AnnouncerTypeOK, Follows, SaidUnlessMissed
<1> QED
  BY <1>1, AnnouncerTypeInit, AnnouncerTypeStep, FollowsInit, FollowsStep,
     AnnouncerIsSafe, PTL
  DEF AnnouncerSafety

-----------------------------------------------------------------------------
(* The server's promises beside a listener *)

(* With requests served one at a time the server an announcer listens to   *)
(* implements DrinkService, whenever its stream breaks off and its loop    *)
(* sleeps.                                                                 *)
THEOREM AnnouncerImplementsService ==
    ASSUME \A h, g \in Handlers : h = g
    PROVE  AnnouncerSpec => ImplementsService
<1>1. Spec => ImplementsService
  BY SerialImplementsService, PTL
<1> QED
  BY <1>1, AnnouncerImplementsStateMachine, PTL
=============================================================================
