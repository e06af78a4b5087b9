----------------------------- MODULE AccountLife -----------------------------
(***************************************************************************)
(* What the identity service promises of an account's life: it is created  *)
(* once, verified once, and when it is deleted it stays so; nobody signs   *)
(* in to an account that was not verified.  A login that was under way     *)
(* when the account was deleted may still get through.                     *)
(***************************************************************************)
CONSTANTS Ids, InitialStatus

VARIABLES status, sessions

vars == <<status, sessions>>

SignUp(u) ==
  /\ status[u] = "none"
  /\ status' = [status EXCEPT ![u] = "unverified"]
  /\ UNCHANGED sessions

Verify(u) ==
  /\ status[u] = "unverified"
  /\ status' = [status EXCEPT ![u] = "verified"]
  /\ UNCHANGED sessions

LogIn(u) ==
  /\ status[u] \in {"verified", "gone"}
  /\ sessions' = sessions \cup {u}
  /\ UNCHANGED status

(* Google verifies the address and signs the user up where need be.        *)
LogInByGoogle(u) ==
  /\ status[u] \in {"none", "unverified"}
  /\ status' = [status EXCEPT ![u] = "verified"]
  /\ sessions' = sessions \cup {u}

LogOut(u) ==
  /\ u \in sessions
  /\ sessions' = sessions \ {u}
  /\ UNCHANGED status

Delete(u) ==
  /\ status[u] \in {"unverified", "verified"}
  /\ status' = [status EXCEPT ![u] = "gone"]
  /\ UNCHANGED sessions

Init == status = InitialStatus /\ sessions = {}

Next ==
  \E u \in Ids :
    \/ SignUp(u) \/ Verify(u) \/ LogIn(u) \/ LogInByGoogle(u) \/ LogOut(u) \/ Delete(u)

Spec == Init /\ [][Next]_vars
=============================================================================
