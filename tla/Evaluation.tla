----------------------------- MODULE Evaluation -----------------------------
(***************************************************************************)
(* The rules that decide whether a record is published to a catalog, and   *)
(* whether it is under embargo, as functions of the record's API model.    *)
(***************************************************************************)
EXTENDS OdpTables

CONSTANTS
  EmbargoDays     \* the days an embargo covers, by the data of its tag

Indexed(c) == c \in {"SAEON", "MIMS"}

External(c) == c = "DATACITE"

Tagged(m, tag) == \E t \in m.tags : t.tag = tag

(* A migrated tag counts as long as the record is not changed after it.    *)
MigratedTags(m) ==
  {t \in m.tags : t.tag = "Record.Migrated" /\ t.ts >= m.timestamp}

QCPassed(m) ==
  /\ Tagged(m, "Record.QC")
  /\ \A t \in m.tags : t.tag = "Record.QC" => t.data = "pass"

(* Catalog.evaluate_record.                                                *)
UniversalRules(m) ==
  /\ Tagged(m, "Collection.Published")
  /\ IF MigratedTags(m) # {}
     THEN (CHOOSE t \in MigratedTags(m) : TRUE).data = "published"
     ELSE /\ IF Tagged(m, "Collection.Harvested")
             THEN m.metadata.valid
             ELSE QCPassed(m)
          /\ ~Tagged(m, "Record.Retracted")

(* evaluate_record of the catalog c.                                       *)
CanPublish(c, m) ==
  /\ UniversalRules(m)
  /\ c = "MIMS" => \E t \in m.tags : /\ t.tag = "Collection.Infrastructure"
                                     /\ t.data = "MIMS"
  /\ External(c) => m.doi # None

(* _process_embargoes: is the model under embargo on the day?              *)
Embargoed(m, day) ==
  \E t \in m.tags : t.tag = "Record.Embargo" /\ day \in EmbargoDays[t.data]

(* searchable: no tag, of the record or of its collection, says otherwise. *)
Searchable(ts) ==
  \A t \in ts : t.tag \notin {"Record.NotSearchable", "Collection.NotSearchable"}
=============================================================================
