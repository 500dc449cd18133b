---------------------------- MODULE EventStream ----------------------------
(***************************************************************************)
(* src/app/sse.py and src/app/routes/events.py, seen from one page that    *)
(* listens to GET /api/events: the subscriber queue of its connection, and *)
(* the order of what it is sent.                                           *)
(*                                                                         *)
(* A publish copies the subscribers under the broadcaster's lock and then  *)
(* puts; a snapshot is published while the state machine's lock is held,   *)
(* the lock snapshot() takes too.  A page that subscribes after the copy   *)
(* misses the put and reads its first snapshot after it, as it would had   *)
(* it subscribed after the put, so a publish is one step.                  *)
(***************************************************************************)
EXTENDS Naturals, Sequences

CONSTANT MaxInbox   \* the page takes an event before the next one exceeds this

ASSUME MaxInboxAssumption == MaxInbox \in Nat \ {0}

VARIABLES
    link,    \* the page's connection: "down", "subscribed", "open"
    inbox    \* what is on its way: the subscriber queue and the wire

streamVars == <<link, inbox>>

StreamTypeOK(Events) ==
    /\ link \in {"down", "subscribed", "open"}
    /\ inbox \in Seq(Events)

StreamInit == link = "down" /\ inbox = <<>>

(* Mutant: the callback runs after the state's lock is released, and two   *)
(* snapshots change places in the queue.                                   *)
Publish_Unordered(event) ==
    /\ Len(inbox) < MaxInbox
    /\ \/ link = "down" /\ inbox' = inbox
       \/ link # "down" /\ inbox' = Append(inbox, event)
       \/ link # "down" /\ inbox' = <<event>> \o inbox
    /\ UNCHANGED link

(* EventBroadcaster.publish                                                *)
Publish(event) ==
    /\ Len(inbox) < MaxInbox
    /\ inbox' = IF link = "down" THEN inbox ELSE Append(inbox, event)
    /\ UNCHANGED link

(* EventSource connects, or connects again: generate() subscribes ...      *)
Subscribe ==
    /\ link = "down"
    /\ link' = "subscribed"
    /\ UNCHANGED inbox

(* Mutant: a connection begins with the queue alone.                       *)
SendSnapshot_QueueOnly(current) ==
    /\ link = "subscribed"
    /\ link' = "open"
    /\ UNCHANGED inbox

(* ... and sends the current snapshot ahead of what was queued since.      *)
SendSnapshot(current) ==
    /\ link = "subscribed"
    /\ link' = "open"
    /\ inbox' = <<current>> \o inbox

(* The connection breaks: the queue is unsubscribed and what was on its    *)
(* way is lost.                                                            *)
Disconnect ==
    /\ link # "down"
    /\ link' = "down"
    /\ inbox' = <<>>

Arrives(event) ==
    /\ link = "open"
    /\ inbox # <<>>
    /\ event = Head(inbox)
    /\ inbox' = Tail(inbox)
    /\ UNCHANGED link
=============================================================================
