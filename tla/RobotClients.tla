---------------------------- MODULE RobotClients ----------------------------
(***************************************************************************)
(* The two HTTP clients of the drink cycle: src/app/clients/pf_client.py   *)
(* (the guide-robot platform, PF) and src/app/clients/r2_client.py (the    *)
(* drink-loading robot R2).  Each method turns what the network gave back  *)
(* (a timeout, another transport error, or a status code and a JSON body)  *)
(* into the outcome the state machine branches on.                         *)
(*                                                                         *)
(* A reply is a record: net is "timeout" when requests raised Timeout,     *)
(* "down" for any other RequestException, "ok" otherwise; code is the HTTP *)
(* status; the rest is what the clients read of the JSON body.  "invalid"  *)
(* stands for a body that is not JSON, or is JSON but not an object, and   *)
(* "other" for a status string the client does not know.                   *)
(***************************************************************************)
CONSTANTS RequestIds,   \* the ids request_id_factory may hand out
          None          \* Python's None

ASSUME NoneAssumption == None \notin RequestIds

Codes == {200, 422, 500}

OptionalIds == RequestIds \cup {None}

-----------------------------------------------------------------------------
(* PF *)

PFLost == [net : {"timeout", "down"}, code : {500}, body : {"invalid"}]

PFStatusReplies ==
    PFLost \cup [net : {"ok"}, code : Codes,
                 body : {"Ready", "Initializing", "Initialising", "other", "invalid"}]

PFPlacedReplies ==
    PFLost \cup [net : {"ok"}, code : Codes, body : {"accepted", "refused", "invalid"}]

PFOutcomes == {"ready", "initializing", "timeout", "retryable_error", "fatal_error"}

GetGuideRobotStatus(r) ==
    CASE r.net = "timeout" -> "timeout"
      [] r.net = "ok" /\ r.code = 422 -> "retryable_error"
      [] r.net = "ok" /\ r.code = 200 /\ r.body = "Ready" -> "ready"
      [] r.net = "ok" /\ r.code = 200 /\ r.body \in {"Initializing", "Initialising"} ->
            "initializing"
      [] OTHER -> "fatal_error"

PostDrinkPlaced(r) == r.net = "ok" /\ r.code = 200 /\ r.body = "accepted"

-----------------------------------------------------------------------------
(* R2 *)

R2Lost == [net : {"timeout", "down"}, code : {500}, status : {"invalid"},
           request_id : {None}]

R2StatusReplies ==
    R2Lost
    \cup [net : {"ok"}, code : Codes, status : {"invalid"}, request_id : {None}]
    \cup [net : {"ok"}, code : {200}, request_id : OptionalIds,
          status : {"loading", "returning", "completed", "failed", "other"}]

R2PostReplies ==
    R2Lost \cup [net : {"ok"}, code : Codes, status : {"invalid"}, request_id : {None}]

R2Outcomes == {"loading", "returning", "completed", "failed", "timeout", "fatal_error"}

R2Results == [outcome : R2Outcomes, request_id : OptionalIds]

(* Mutant: a status string R2 should not send is passed on.                *)
GetStatus_Unchecked(r) ==
    [outcome    |-> IF r.net = "timeout" THEN "timeout" ELSE r.status,
     request_id |-> IF r.net = "ok" /\ r.code = 200 THEN r.request_id ELSE None]

GetStatus(r) ==
    [outcome    |-> CASE r.net = "timeout" -> "timeout"
                      [] /\ r.net = "ok" /\ r.code = 200
                         /\ r.status \notin {"invalid", "other"} -> r.status
                      [] OTHER -> "fatal_error",
     request_id |-> IF r.net = "ok" /\ r.code = 200 THEN r.request_id ELSE None]

PostOutcomes == {"accepted", "timeout", "validation_error", "server_error"}

PostLoadDrink(r) ==
    CASE r.net = "timeout" -> "timeout"
      [] r.net = "ok" /\ r.code = 200 -> "accepted"
      [] r.net = "ok" /\ r.code = 422 -> "validation_error"
      [] OTHER -> "server_error"
=============================================================================
