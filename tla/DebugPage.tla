----------------------------- MODULE DebugPage -----------------------------
(***************************************************************************)
(* The voice turns on the debug page: src/voice_ui/turn_reporter.py posts  *)
(* them, src/app/routes/voice_turns.py logs (src/app/voice_turns.py) and   *)
(* publishes them, src/app/static/debug.js loads the log once and then     *)
(* lives on the stream (EventStream).                                      *)
(*                                                                         *)
(* The voice process has one POST out at a time, but one it gave up after  *)
(* its timeout may still be handled, so posts overtake each other.  A turn *)
(* is its number.  Of the stream's other events the page's table sees      *)
(* nothing; one stands for the snapshot a connection begins with.          *)
(***************************************************************************)
EXTENDS EventStream

CONSTANTS LastTurn,  \* bound: turns the voice process reports
          MaxTurns   \* VoiceTurnLog's max_turns and the page's MAX_VOICE_TURNS

ASSUME DebugAssumption == LastTurn \in Nat /\ MaxTurns \in Nat \ {0}

VARIABLES
    post,    \* of each turn's POST: "unsent", "sent", "logged", "over"
    log,     \* VoiceTurnLog.recent(): the newest first
    rows,    \* the page's table, from its top
    load,    \* GET /api/voice/turns of the page: "sent", "answered", "done"
    answer,  \* ... and what it was answered
    calm     \* history: nothing came between this page and the log, see below

debugVars == <<streamVars, post, log, rows, load, answer, calm>>

Turns  == 1..LastTurn
Events == Turns \cup {0}   \* 0: a snapshot

DebugTypeOK ==
    /\ StreamTypeOK(Events)
    /\ post \in [Turns -> {"unsent", "sent", "logged", "over"}]
    /\ \A table \in {log, rows, answer} :
          table \in Seq(Turns) /\ Len(table) <= MaxTurns
    /\ load \in {"sent", "answered", "done", "failed"}
    /\ calm \in BOOLEAN

DebugInit ==
    /\ StreamInit
    /\ post = [t \in Turns |-> "unsent"]
    /\ log = <<>> /\ rows = <<>>
    /\ load = "sent" /\ answer = <<>>
    /\ calm = TRUE

Newest(table) == SubSeq(table, 1, IF Len(table) > MaxTurns THEN MaxTurns ELSE Len(table))

Logging == {t \in Turns : post[t] = "logged"}

-----------------------------------------------------------------------------
(* The voice process and the server *)

(* TurnReporter.report: the next turn goes out, the last is over or given  *)
(* up.                                                                     *)
PostTurn(t) ==
    /\ post[t] = "unsent"
    /\ \A earlier \in 1..(t - 1) : post[earlier] # "unsent"
    /\ post' = [post EXCEPT ![t] = "sent"]
    /\ UNCHANGED <<streamVars, log, rows, load, answer, calm>>

ReportLost(t) ==
    /\ post[t] = "sent"
    /\ post' = [post EXCEPT ![t] = "over"]
    /\ UNCHANGED <<streamVars, log, rows, load, answer, calm>>

(* VoiceTurnLog.add, under its lock ...                                    *)
AddTurn(t) ==
    /\ post[t] = "sent"
    /\ post' = [post EXCEPT ![t] = "logged"]
    /\ log' = Newest(<<t>> \o log)
    /\ calm' = (calm /\ load = "done" /\ Logging = {})
    /\ UNCHANGED <<streamVars, rows, load, answer>>

(* ... and the event after it.                                             *)
PublishTurn(t) ==
    /\ post[t] = "logged"
    /\ Publish(t)
    /\ post' = [post EXCEPT ![t] = "over"]
    /\ calm' = (calm /\ link # "down")
    /\ UNCHANGED <<log, rows, load, answer>>

-----------------------------------------------------------------------------
(* The page *)

(* The page is opened or reloaded: fetch() goes out, EventSource connects. *)
PageOpens ==
    /\ link' = "down" /\ inbox' = <<>>
    /\ rows' = <<>> /\ load' = "sent" /\ answer' = <<>>
    /\ calm' = (Logging = {})
    /\ UNCHANGED <<post, log>>

(* list_turns                                                              *)
ListTurns ==
    /\ load = "sent"
    /\ load' = "answered" /\ answer' = log
    /\ UNCHANGED <<streamVars, post, log, rows, calm>>

(* The answer replaces every row there is.                                 *)
LoadDone ==
    /\ load = "answered"
    /\ load' = "done"
    /\ rows' = answer /\ answer' = <<>>
    /\ UNCHANGED <<streamVars, post, log, calm>>

LoadFails ==
    /\ load \in {"sent", "answered"}
    /\ load' = "failed" /\ answer' = <<>>
    /\ calm' = FALSE
    /\ UNCHANGED <<streamVars, post, log, rows>>

(* Mutant: one row too many is kept.                                       *)
AddVoiceTurn_Late(t) ==
    rows' = IF Len(rows) > MaxTurns THEN Newest(<<t>> \o rows) ELSE <<t>> \o rows

(* Mutant: the row is put under the others.                                *)
AddVoiceTurn_Bottom(t) == rows' = Newest(Append(rows, t))

AddVoiceTurn(t) == rows' = Newest(<<t>> \o rows)

Receive(event) ==
    /\ Arrives(event)
    /\ \/ event \in Turns /\ AddVoiceTurn(event)
       \/ event \notin Turns /\ UNCHANGED rows
    /\ UNCHANGED <<post, log, load, answer, calm>>

(* EventSource connects by itself; the log is not loaded again.            *)
Connect ==
    /\ Subscribe \/ SendSnapshot(0)
    /\ UNCHANGED <<post, log, rows, load, answer, calm>>

ConnectionLost ==
    /\ Disconnect
    /\ calm' = (calm /\ \A i \in DOMAIN inbox : inbox[i] \notin Turns)
    /\ UNCHANGED <<post, log, rows, load, answer>>

DebugNext ==
    \/ \E t \in Turns : PostTurn(t) \/ ReportLost(t) \/ AddTurn(t) \/ PublishTurn(t)
    \/ PageOpens \/ ListTurns \/ LoadDone \/ LoadFails
    \/ \E event \in Events : Receive(event)
    \/ Connect \/ ConnectionLost

DebugSpec == DebugInit /\ [][DebugNext]_debugVars

-----------------------------------------------------------------------------
(* Properties *)

(* A page that has taken every event shows the log, turn by turn and the   *)
(* newest first, unless since it was opened                                *)
(*   - a turn was logged before the page had its load: it is then in both, *)
(*     or wiped by replaceChildren, or its load failed;                    *)
(*   - two posts overlapped between the log and the stream;                *)
(*   - a turn was published, or on its way, as the stream broke.           *)
(* These are all the ways (add_turn, list_turns, addVoiceTurn).            *)
ShowsLog ==
    calm /\ load = "done" /\ link = "open" /\ inbox = <<>> /\ Logging = {} =>
        rows = log
=============================================================================
