---------------------------- MODULE SessionProofs ----------------------------
(***************************************************************************)
(* A theorem about the session of one API process, for any number of       *)
(* requests and any interleaving of their handlers and ends.               *)
(***************************************************************************)
EXTENDS RequestSession, TLAPS

CostsOthers(r) == \E s \in Requests \ {r} : Unsuccessful(s)

(* What a handler has flushed is in the session until a commit moves it to *)
(* the table, and a commit that does not find it there finds a request     *)
(* that failed: no other step drops it.                                    *)
SessionInv ==
  /\ state \in [Requests -> {"new", "succeeded", "refused", "raised", "ok", "error"}]
  /\ \A r \in Requests :
       state[r] = "succeeded" => Rows[r] \subseteq table \cup session \/ CostsOthers(r)
  /\ LostByFailure

LEMMA InitSession == ASSUME Init PROVE SessionInv
BY DEF Init, SessionInv, LostByFailure

(* A request that has failed stays so.                                     *)
LEMMA FailureStays ==
  ASSUME SessionInv, [Next]_vars, NEW r \in Requests, CostsOthers(r)
  PROVE  CostsOthers(r)'
<1>1. PICK s \in Requests \ {r} : Unsuccessful(s)
  BY DEF CostsOthers
<1>2. Unsuccessful(s)'
  BY <1>1 DEF SessionInv, Next, vars, Unsuccessful, Succeed, Refuse, FailFlush, Raise, Commit,
              Rollback
<1> QED
  BY <1>1, <1>2 DEF CostsOthers

(* A request that fails in this step costs the others.                     *)
LEMMA FailureCosts ==
  ASSUME SessionInv, NEW s \in Requests, NEW u \in {"refused", "raised", "error"},
         state' = [state EXCEPT ![s] = u]
  PROVE  /\ state' \in [Requests -> {"new", "succeeded", "refused", "raised", "ok", "error"}]
         /\ \A r \in Requests : state'[r] \in {"succeeded", "ok"} => CostsOthers(r)'
BY DEF SessionInv, CostsOthers, Unsuccessful

LEMMA NextSession ==
  ASSUME SessionInv, [Next]_vars
  PROVE  SessionInv'
<1> DEFINE Statuses == {"new", "succeeded", "refused", "raised", "ok", "error"}
           Kept(r) == Rows[r] \subseteq table \cup session
<1>1. /\ state \in [Requests -> Statuses]
      /\ \A r \in Requests : state[r] = "succeeded" => Kept(r) \/ CostsOthers(r)
      /\ \A r \in Requests : state[r] = "ok" => Rows[r] \subseteq table \/ CostsOthers(r)
  BY DEF SessionInv, LostByFailure, CostsOthers
<1>2. \A r \in Requests : CostsOthers(r) => CostsOthers(r)'
  BY FailureStays
<1>3. SUFFICES /\ state' \in [Requests -> Statuses]
               /\ \A r \in Requests : state'[r] = "succeeded" => Kept(r)' \/ CostsOthers(r)'
               /\ \A r \in Requests :
                    state'[r] = "ok" => Rows[r] \subseteq table' \/ CostsOthers(r)'
  BY <1>3 DEF SessionInv, LostByFailure, CostsOthers
<1>4. ASSUME NEW s \in Requests, Succeed(s)
      PROVE  /\ state' \in [Requests -> Statuses]
             /\ \A r \in Requests : state'[r] = "succeeded" => Kept(r)' \/ CostsOthers(r)'
             /\ \A r \in Requests :
                  state'[r] = "ok" => Rows[r] \subseteq table' \/ CostsOthers(r)'
  BY <1>1, <1>2, <1>4 DEF Succeed
<1>5. ASSUME NEW s \in Requests,
             Refuse(s) \/ FailFlush(s) \/ Raise(s) \/ Rollback(s) \/ (Commit(s) /\ failed)
      PROVE  /\ state' \in [Requests -> Statuses]
             /\ \A r \in Requests : state'[r] \in {"succeeded", "ok"} => CostsOthers(r)'
  <2>1. \E u \in {"refused", "raised", "error"} : state' = [state EXCEPT ![s] = u]
    BY <1>5 DEF Refuse, FailFlush, Raise, Rollback, Commit
  <2> QED
    BY <2>1, FailureCosts
<1>6. ASSUME NEW s \in Requests, Commit(s), ~failed
      PROVE  /\ state' \in [Requests -> Statuses]
             /\ \A r \in Requests : state'[r] = "succeeded" => Kept(r)' \/ CostsOthers(r)'
             /\ \A r \in Requests :
                  state'[r] = "ok" => Rows[r] \subseteq table' \/ CostsOthers(r)'
  <2>1. /\ state[s] = "succeeded" /\ state' = [state EXCEPT ![s] = "ok"]
        /\ table' = table \cup session /\ session' = {}
    BY <1>6 DEF Commit
  <2> QED
    BY <1>1, <1>2, <2>1
<1>7. CASE UNCHANGED vars
  BY <1>1, <1>2, <1>7 DEF vars
<1> QED
  BY <1>4, <1>5, <1>6, <1>7 DEF Next

(* However many requests share the session and however they interleave:    *)
(* where the writes of a request answered with success are not in the      *)
(* database, another request of the process has failed.                    *)
THEOREM OnlyFailuresCost == Spec => []LostByFailure
<1>1. Init => SessionInv
  BY InitSession
<1>2. SessionInv /\ [Next]_vars => SessionInv'
  BY NextSession
<1>3. SessionInv => LostByFailure
  BY DEF SessionInv
<1> QED
  BY <1>1, <1>2, <1>3, PTL DEF Spec
=============================================================================
