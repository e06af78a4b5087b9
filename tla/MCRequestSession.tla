-------------------------- MODULE MCRequestSession --------------------------
(***************************************************************************)
(* Requests each of which writes a row and its audit entry.                *)
(***************************************************************************)
EXTENDS RequestSession

CONSTANTS q1, q2

MCRows == [r \in Requests |-> {<<r, "row">>, <<r, "audit">>}]
=============================================================================
