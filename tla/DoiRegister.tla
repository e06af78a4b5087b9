---------------------------- MODULE DoiRegister ----------------------------
(***************************************************************************)
(* What the table published_record is for: a register of the ids and DOIs  *)
(* that have ever been published.  An id is entered once and never removed;*)
(* a DOI belongs to one id for ever, given at entry or later.              *)
(***************************************************************************)
CONSTANTS Ids, DOIs, None

VARIABLE register     \* per id: None, or [doi], where doi may be None

Taken(d) == \E i \in Ids : register[i] # None /\ register[i].doi = d

RegisterInit == register = [i \in Ids |-> None]

Enter(i, d) ==
  /\ register[i] = None
  /\ d # None => d \in DOIs /\ ~Taken(d)
  /\ register' = [register EXCEPT ![i] = [doi |-> d]]

GiveDoi(i, d) ==
  /\ register[i] = [doi |-> None]
  /\ d \in DOIs /\ ~Taken(d)
  /\ register' = [register EXCEPT ![i] = [doi |-> d]]

RegisterNext ==
  \E i \in Ids : \/ \E d \in DOIs \cup {None} : Enter(i, d)
                 \/ \E d \in DOIs : GiveDoi(i, d)

RegisterSpec == RegisterInit /\ [][RegisterNext]_register
=============================================================================
