----------------------------- MODULE MCAccounts -----------------------------
(***************************************************************************)
(* An instance of Accounts for TLC: the account of a staff member, from    *)
(* before the parameters of the password hash changed, and ids for two     *)
(* more, of which one can have the other address.                          *)
(***************************************************************************)
EXTENDS Accounts, TLC

CONSTANTS i1, i2, i3

MCResembles == [e \in Emails |-> IF e \in StaffEmails THEN {} ELSE {"p2"}]

MCInitialUser ==
  [u \in Ids |->
     IF u = i1
     THEN [email |-> "e1", password |-> "p1", outdated |-> TRUE, active |-> TRUE,
           verified |-> TRUE, roles |-> {StaffRole}]
     ELSE None]

MCEdits == {[active |-> FALSE, roles |-> {StaffRole}], [active |-> TRUE, roles |-> Roles]}

(* Workers, and the ids that no account has had, are alike.                *)
Alike == Permutations(Workers) \cup Permutations({i2, i3})
=============================================================================
