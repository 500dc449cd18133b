----------------------------- MODULE EventOrder -----------------------------
(***************************************************************************)
(* What publishing, a connection's first snapshot and an arrival do to the *)
(* queue of a listener to GET /api/events, and what a queue of events does *)
(* to the page that takes them one after the other: only the last snapshot *)
(* in it matters.  The proofs of every listener rest on these lemmas.      *)
(***************************************************************************)
EXTENDS Integers, Sequences, SequenceTheorems, TLAPS

(* A published event comes last.                                           *)
LEMMA AppendAt ==
    ASSUME NEW S, NEW events \in Seq(S), NEW e \in S
    PROVE  /\ Append(events, e) \in Seq(S) /\ Append(events, e) # <<>>
           /\ Len(events) \in Nat /\ DOMAIN events = 1..Len(events)
           /\ Len(Append(events, e)) = Len(events) + 1
           /\ DOMAIN Append(events, e) = 1..(Len(events) + 1)
           /\ Append(events, e)[Len(events) + 1] = e
           /\ \A i \in DOMAIN events : Append(events, e)[i] = events[i]
BY AppendProperties

(* The first snapshot of a connection comes before all that was queued.    *)
LEMMA PrependAt ==
    ASSUME NEW S, NEW events \in Seq(S), NEW e \in S
    PROVE  /\ <<e>> \o events \in Seq(S) /\ <<e>> \o events # <<>>
           /\ Len(events) \in Nat /\ DOMAIN events = 1..Len(events)
           /\ Len(<<e>> \o events) = 1 + Len(events)
           /\ DOMAIN (<<e>> \o events) = 1..(1 + Len(events))
           /\ (<<e>> \o events)[1] = e
           /\ \A i \in DOMAIN events : (<<e>> \o events)[1 + i] = events[i]
<1> DEFINE all == <<e>> \o events
<1>1. <<e>> \in Seq(S) /\ Len(<<e>>) = 1 /\ <<e>>[1] = e
  OBVIOUS
<1>2. Len(events) \in Nat /\ DOMAIN events = 1..Len(events)
  OBVIOUS
<1>3. /\ all \in Seq(S) /\ Len(all) = 1 + Len(events)
      /\ \A i \in 1..Len(all) : all[i] = IF i <= 1 THEN <<e>>[i] ELSE events[i - 1]
  BY <1>1, ConcatProperties
<1>4. all # <<>>
  BY <1>2, <1>3, EmptySeq
<1> HIDE DEF all
<1>5. DOMAIN all = 1..(1 + Len(events))
  BY <1>3
<1> QED
  BY <1>1, <1>2, <1>3, <1>4, <1>5 DEF all

(* What is left when an event has arrived.                                 *)
LEMMA TailAt ==
    ASSUME NEW S, NEW events \in Seq(S), events # <<>>
    PROVE  /\ Tail(events) \in Seq(S) /\ Head(events) \in S
           /\ Head(events) = events[1]
           /\ Len(events) \in Nat \ {0} /\ DOMAIN events = 1..Len(events)
           /\ Len(Tail(events)) = Len(events) - 1
           /\ DOMAIN Tail(events) = 1..(Len(events) - 1)
           /\ \A i \in DOMAIN Tail(events) : Tail(events)[i] = events[i + 1]
<1> DEFINE rest == Tail(events)
<1>1. Len(events) \in Nat \ {0} /\ DOMAIN events = 1..Len(events)
  BY EmptySeq
<1>2. /\ rest \in Seq(S) /\ Head(events) \in S /\ Len(rest) = Len(events) - 1
      /\ \A i \in 1..Len(rest) : rest[i] = events[i + 1]
  BY HeadTailProperties
<1>3. Head(events) = events[1]
  OBVIOUS
<1> HIDE DEF rest
<1>4. DOMAIN rest = 1..(Len(events) - 1)
  BY <1>2
<1> QED
  BY <1>1, <1>2, <1>3, <1>4 DEF rest

-----------------------------------------------------------------------------
(* Screens *)

(* Nothing in the queue changes the screen ...                             *)
Silent(events) == \A i \in DOMAIN events : events[i].screen = "ui_action"

(* ... or the last of its snapshots shows screen s.                        *)
EndsWith(events, s) ==
    \E i \in DOMAIN events :
        /\ events[i].screen = s
        /\ \A j \in DOMAIN events : j > i => events[j].screen = "ui_action"

(* A published snapshot decides what the page ends with; another event     *)
(* leaves it as it is.                                                     *)
LEMMA PublishedLast ==
    ASSUME NEW S, NEW events \in Seq(S), NEW e \in S, NEW s
    PROVE  /\ Append(events, e) \in Seq(S)
           /\ e.screen = s => EndsWith(Append(events, e), s)
           /\ e.screen = "ui_action" =>
                /\ Silent(events) => Silent(Append(events, e))
                /\ EndsWith(events, s) => EndsWith(Append(events, e), s)
<1> DEFINE all == Append(events, e)
<1>1. /\ all \in Seq(S) /\ DOMAIN events = 1..Len(events) /\ Len(events) \in Nat
      /\ DOMAIN all = 1..(Len(events) + 1)
      /\ all[Len(events) + 1] = e
      /\ \A i \in DOMAIN events : all[i] = events[i]
  BY AppendAt
<1> HIDE DEF all
<1>2. \A i \in DOMAIN all : i \in DOMAIN events \/ i = Len(events) + 1
  BY <1>1
<1>3. e.screen = s => EndsWith(all, s)
  BY <1>1 DEF EndsWith
<1>4. ASSUME e.screen = "ui_action"
      PROVE  /\ Silent(events) => Silent(all)
             /\ EndsWith(events, s) => EndsWith(all, s)
  BY <1>1, <1>2, <1>4 DEF EndsWith, Silent
<1> QED
  BY <1>1, <1>3, <1>4 DEF all

(* A connection's first snapshot counts only where nothing newer is queued.*)
LEMMA SnapshotFirst ==
    ASSUME NEW S, NEW events \in Seq(S), NEW e \in S, NEW s
    PROVE  /\ <<e>> \o events \in Seq(S)
           /\ EndsWith(events, s) => EndsWith(<<e>> \o events, s)
           /\ Silent(events) /\ e.screen = s => EndsWith(<<e>> \o events, s)
<1> DEFINE all == <<e>> \o events
<1>1. /\ all \in Seq(S) /\ DOMAIN events = 1..Len(events) /\ Len(events) \in Nat
      /\ DOMAIN all = 1..(1 + Len(events))
      /\ all[1] = e
      /\ \A i \in DOMAIN events : all[1 + i] = events[i]
  BY PrependAt
<1> HIDE DEF all
<1>2. \A i \in DOMAIN all : i = 1 \/ i - 1 \in DOMAIN events
  BY <1>1
<1>3. ASSUME EndsWith(events, s)
      PROVE  EndsWith(all, s)
  <2>1. PICK i \in DOMAIN events :
          /\ events[i].screen = s
          /\ \A j \in DOMAIN events : j > i => events[j].screen = "ui_action"
    BY <1>3 DEF EndsWith
  <2>2. 1 + i \in DOMAIN all /\ all[1 + i].screen = s
    BY <1>1, <2>1
  <2>3. ASSUME NEW j \in DOMAIN all, j > 1 + i
        PROVE  all[j].screen = "ui_action"
    <3>1. j - 1 \in DOMAIN events /\ j - 1 > i /\ 1 + (j - 1) = j
      BY <1>1, <1>2, <2>3
    <3> QED
      BY <1>1, <2>1, <3>1
  <2> QED
    BY <2>2, <2>3 DEF EndsWith
<1>4. ASSUME Silent(events), e.screen = s
      PROVE  EndsWith(all, s)
  <2>1. 1 \in DOMAIN all /\ all[1].screen = s
    BY <1>1, <1>4
  <2>2. ASSUME NEW j \in DOMAIN all, j > 1
        PROVE  all[j].screen = "ui_action"
    <3>1. j - 1 \in DOMAIN events /\ 1 + (j - 1) = j
      BY <1>1, <1>2, <2>2
    <3> QED
      BY <1>1, <1>4, <3>1 DEF Silent
  <2> QED
    BY <2>1, <2>2 DEF EndsWith
<1> QED
  BY <1>1, <1>3, <1>4 DEF all

(* An event that arrives was the last to matter, or leaves one that is.    *)
LEMMA ArrivedFirst ==
    ASSUME NEW S, NEW events \in Seq(S), events # <<>>, NEW s
    PROVE  /\ Tail(events) \in Seq(S) /\ Head(events) \in S
           /\ Silent(events) => Head(events).screen = "ui_action" /\ Silent(Tail(events))
           /\ EndsWith(events, s) =>
                \/ EndsWith(Tail(events), s)
                \/ Head(events).screen = s /\ Silent(Tail(events))
<1> DEFINE rest == Tail(events)
<1>1. /\ rest \in Seq(S) /\ Head(events) \in S /\ Head(events) = events[1]
      /\ Len(events) \in Nat \ {0} /\ DOMAIN events = 1..Len(events)
      /\ DOMAIN rest = 1..(Len(events) - 1)
      /\ \A i \in DOMAIN rest : rest[i] = events[i + 1]
  BY TailAt
<1> HIDE DEF rest
<1>2. ASSUME Silent(events)
      PROVE  Head(events).screen = "ui_action" /\ Silent(rest)
  BY <1>1, <1>2 DEF Silent
<1>3. ASSUME EndsWith(events, s)
      PROVE  \/ EndsWith(rest, s)
             \/ Head(events).screen = s /\ Silent(rest)
  <2>1. PICK i \in DOMAIN events :
          /\ events[i].screen = s
          /\ \A j \in DOMAIN events : j > i => events[j].screen = "ui_action"
    BY <1>3 DEF EndsWith
  <2>2. CASE i = 1
    BY <1>1, <2>1, <2>2 DEF Silent
  <2>3. CASE i # 1
    <3>1. i - 1 \in DOMAIN rest /\ rest[i - 1].screen = s
      BY <1>1, <2>1, <2>3
    <3>2. \A j \in DOMAIN rest : j > i - 1 => rest[j].screen = "ui_action"
      BY <1>1, <2>1, <2>3
    <3> QED
      BY <3>1, <3>2 DEF EndsWith
  <2> QED
    BY <2>2, <2>3
<1> QED
  BY <1>1, <1>2, <1>3 DEF rest
=============================================================================
