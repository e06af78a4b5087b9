------------------------------ MODULE MCAccess ------------------------------
(***************************************************************************)
(* An instance of Access for TLC: a user with a role for one collection, a *)
(* client of one provider, and requests that add, widen, narrow and delete *)
(* them.                                                                   *)
(***************************************************************************)
EXTENDS Access

CONSTANTS r1, r2, k1, p1, p2, g1, c1, c2, u1

MCInitialRows ==
  [o \in Objects |->
     CASE o = r1 -> Row(TRUE, None, {"record", "package"}, {c1})
       [] o = k1 -> Row(TRUE, p1, {"record", "package", "role"}, {})
       [] o = p1 -> Row(FALSE, None, {}, {u1})
       [] o = c1 -> Row(FALSE, p1, {}, {})
       [] o = u1 -> Row(FALSE, None, {}, {r1})
       [] OTHER  -> None]

MCBodies ==
  {[id |-> r1, row |-> Row(TRUE, None, {"record"}, {c1, c2})],
   [id |-> r2, row |-> Row(FALSE, None, {"record", "role"}, {})],
   [id |-> k1, row |-> Row(TRUE, p1, {"record", "package", "role"}, {})],
   [id |-> k1, row |-> Row(TRUE, p2, {"package"}, {})],
   [id |-> k1, row |-> Row(FALSE, None, {"record", "package", "role", "client"}, {})],
   [id |-> p1, row |-> Row(FALSE, None, {}, {})],
   [id |-> p2, row |-> Row(FALSE, None, {}, {u1})],
   [id |-> g1, row |-> Row(FALSE, p1, {}, {})],
   [id |-> g1, row |-> Row(FALSE, p2, {}, {})],
   [id |-> c1, row |-> Row(FALSE, p2, {}, {})],
   [id |-> c2, row |-> Row(FALSE, p1, {}, {})],
   [id |-> u1, row |-> Row(FALSE, None, {}, {r1, r2})]}
=============================================================================
