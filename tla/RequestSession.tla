--------------------------- MODULE RequestSession ---------------------------
(***************************************************************************)
(* The session of one API process (odp/db/__init__.py, odp/api/main.py).   *)
(*                                                                         *)
(* Session is scoped to a thread, and all handlers of a process run in the *)
(* thread of its event loop.  A handler runs without interruption; between *)
(* its end and the commit or rollback in db_middleware, call_next awaits,  *)
(* and another request may use and end the session.                        *)
(***************************************************************************)
CONSTANTS
  Requests,
  Rows               \* what a request writes, if it succeeds, by request

VARIABLES
  table,             \* committed rows
  session,           \* rows flushed in the transaction of the session
  failed,            \* a flush has failed and the session was not reset since
  state              \* per request: new, succeeded, refused or raised, then
                     \* its answer: ok or error

vars == <<table, session, failed, state>>

(* save() and delete() flush; the handler then returns.                    *)
Succeed(r) ==
  /\ state[r] = "new"
  /\ ~failed
  /\ session' = session \cup Rows[r]
  /\ state' = [state EXCEPT ![r] = "succeeded"]
  /\ UNCHANGED <<table, failed>>

(* An HTTPException before anything is written.                            *)
Refuse(r) ==
  /\ state[r] = "new"
  /\ ~failed
  /\ state' = [state EXCEPT ![r] = "refused"]
  /\ UNCHANGED <<table, session, failed>>

(* An HTTPException for a flush that a constraint fails: the database has  *)
(* rolled back the whole transaction of the session.                       *)
FailFlush(r) ==
  /\ state[r] = "new"
  /\ ~failed
  /\ session' = {}
  /\ failed' = TRUE
  /\ state' = [state EXCEPT ![r] = "refused"]
  /\ UNCHANGED table

(* The session refuses to work for anyone until it is reset.               *)
Raise(r) ==
  /\ state[r] = "new"
  /\ failed
  /\ state' = [state EXCEPT ![r] = "raised"]
  /\ UNCHANGED <<table, session, failed>>

(* The status is below 400: commit, which a failed session refuses, and    *)
(* remove the session.                                                     *)
Commit(r) ==
  /\ state[r] = "succeeded"
  /\ table' = IF failed THEN table ELSE table \cup session
  /\ state' = [state EXCEPT ![r] = IF failed THEN "error" ELSE "ok"]
  /\ session' = {}
  /\ failed' = FALSE

(* Any other status, or an exception: roll back, and remove the session.   *)
Rollback(r) ==
  /\ state[r] \in {"refused", "raised"}
  /\ state' = [state EXCEPT ![r] = "error"]
  /\ session' = {}
  /\ failed' = FALSE
  /\ UNCHANGED table

Init ==
  /\ table = {}
  /\ session = {}
  /\ failed = FALSE
  /\ state = [r \in Requests |-> "new"]

Next ==
  \E r \in Requests :
    \/ Succeed(r) \/ Refuse(r) \/ FailFlush(r) \/ Raise(r)
    \/ Commit(r) \/ Rollback(r)

Spec == Init /\ [][Next]_vars

(* What every test of the API asserts, for instance test_update_user:      *)
(* "assert_empty_result(r)", and then "assert_db_state": what a request    *)
(* that was answered with success has written is in the database.          *)
AnsweredIsCommitted ==
  \A r \in Requests : state[r] = "ok" => Rows[r] \subseteq table

(* A rollback of db_middleware, a flush that fails, or the exception of a  *)
(* session that waits for its reset.                                       *)
Unsuccessful(r) == state[r] \in {"refused", "raised", "error"}

(* Only a request of the same process that fails, in whichever of the three *)
(* ways and however the requests interleave, can cost another the writes   *)
(* that it was answered with success for: a commit in db_middleware takes  *)
(* along what others have flushed, and never leaves it behind.             *)
LostByFailure ==
  \A r \in Requests :
    state[r] = "ok" /\ ~(Rows[r] \subseteq table) =>
      \E s \in Requests \ {r} : Unsuccessful(s)
=============================================================================
