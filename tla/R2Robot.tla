------------------------------ MODULE R2Robot ------------------------------
(***************************************************************************)
(* src/mocks/r2_mock.py: the repository's model of the robot that loads a  *)
(* drink on the tray.  It remembers one order, the last it began.  Time    *)
(* only counts when somebody asks: each request looks whether the current  *)
(* phase has lasted long enough and moves at most one phase on.            *)
(***************************************************************************)
EXTENDS RobotClients

CONSTANT InitialId    \* the id "none" of the order before the first

ASSUME InitialIdAssumption == InitialId \in RequestIds

VARIABLES r2,          \* [request_id, status]
          r2_elapsed   \* the current phase has lasted its loading/returning_seconds

r2Vars == <<r2, r2_elapsed>>

R2Statuses == {"loading", "returning", "completed", "failed"}

R2TypeOK ==
    /\ r2 \in [request_id : RequestIds, status : R2Statuses]
    /\ r2_elapsed \in BOOLEAN

R2Init ==
    /\ r2 = [request_id |-> InitialId, status |-> "completed"]
    /\ r2_elapsed = FALSE

R2Timed == r2.status \in {"loading", "returning"}

R2Elapse ==
    /\ R2Timed /\ ~r2_elapsed
    /\ r2_elapsed' = TRUE
    /\ UNCHANGED r2

(* The statuses a request may find; "failed" when R2 is made to fail.      *)
CurrentStatus(failing) ==
    IF failing /\ R2Timed THEN {"failed"}
    ELSE IF ~r2_elapsed THEN {r2.status}
    ELSE IF r2.status = "loading" THEN {"returning"} ELSE {"completed"}

Find(failing) ==
    \E status \in CurrentStatus(failing) :
        /\ r2' = [r2 EXCEPT !.status = status]
        /\ r2_elapsed' = (r2_elapsed /\ status = r2.status)

(* GET status                                                              *)
LoadDrinkStatus(failing) == Find(failing)

StatusReply(order) ==
    [net |-> "ok", code |-> 200, status |-> order.status,
     request_id |-> order.request_id]

(* Mutant: a known id is loaded again.                                     *)
LoadDrink_Again(id, code, failing) ==
    \/ /\ CurrentStatus(failing) # {"completed"}
       /\ code = 500
       /\ Find(failing)
    \/ /\ CurrentStatus(failing) = {"completed"}
       /\ code = 200
       /\ r2' = [request_id |-> id, status |-> "loading"]
       /\ r2_elapsed' = FALSE

(* POST load-drink: the effect on R2 and the status code it answers.       *)
LoadDrink(id, code, failing) ==
    \/ /\ id = r2.request_id
       /\ code = 200
       /\ UNCHANGED r2Vars
    \/ /\ id # r2.request_id
       /\ CurrentStatus(failing) # {"completed"}
       /\ code = 500
       /\ Find(failing)
    \/ /\ id # r2.request_id
       /\ CurrentStatus(failing) = {"completed"}
       /\ code = 200
       /\ r2' = [request_id |-> id, status |-> "loading"]
       /\ r2_elapsed' = FALSE

PostReply(code) ==
    [net |-> "ok", code |-> code, status |-> "invalid", request_id |-> None]
=============================================================================
