------------------------------ MODULE Publisher ------------------------------
(***************************************************************************)
(* The catalog publisher: one process, started by cron, that brings every  *)
(* catalog up to date with the records, in a transaction per record, and   *)
(* mirrors the external catalog (DataCite).                                *)
(***************************************************************************)
EXTENDS OdpTables, Evaluation, Sequences

CONSTANTS
  CatalogOrder,   \* the order publish_all takes the catalogs in
  MaxAttempts,    \* Catalog.max_attempts
  MaxCrashes,     \* bound on the number of crashes of the publisher
  MaxDay          \* bound on the number of days that pass

VARIABLES
  phase,      \* "idle", or the part of publish() in progress: "sync",
              \* "global", "external" or "mirror"
  at,         \* position in CatalogOrder of the catalog in progress, or next
  snapshot,   \* per record: None or [model, timestamp]
  todo,       \* the records the current loop has still to visit
  first,      \* is the transaction that took the snapshot still open?
  sitemap,    \* the records listed in the global data of MIMS
  datacite,   \* DataCite's platform: per DOI, None or the findable record
  today,      \* the date
  crashes     \* crashes so far

pubVars == <<phase, at, snapshot, todo, first, sitemap, datacite, today, crashes>>

ASSUME PublisherAssumption ==
  /\ CatalogOrder \in Seq(Catalogs) \ {<<>>}
  /\ MaxAttempts \in Nat
  /\ MaxCrashes \in Nat
  /\ MaxDay \in Nat
  /\ \A i \in 1 .. Len(CatalogOrder) - 1 : ~External(CatalogOrder[i])

PublisherInit ==
  /\ phase = "idle"
  /\ at = 1
  /\ snapshot = [r \in Records |-> None]
  /\ todo = {}
  /\ first = FALSE
  /\ sitemap = {}
  /\ datacite = [d \in DOIs |-> None]
  /\ today = 0
  /\ crashes = 0

Current == CatalogOrder[at]

(* Mutant: the run does not end after the last catalog.                    *)
NextCatalogOnwards ==
  /\ phase' = "idle"
  /\ at' = at + 1

(* The catalog is done: the next one, or the end of the run.               *)
NextCatalog ==
  /\ phase' = "idle"
  /\ at' = IF at < Len(CatalogOrder) THEN at + 1 ELSE 1

(***************************************************************************)
(* Selection and snapshot: one REPEATABLE READ transaction.                *)
(***************************************************************************)

(* Mutants: changes of the collection and the provider are not noticed;    *)
(* the end of an embargo is not noticed.                                   *)
SelectedByRecord(c, r) ==
  LET e == catalogRecord[c][r]
  IN  \/ e = None
      \/ e.timestamp < timestamp[r]
      \/ \E t \in tags[r] : t.tag = "Record.Embargo"

SelectedByTime(c, r) ==
  catalogRecord[c][r] = None \/ catalogRecord[c][r].timestamp < MaxTimestamp(r)

(* Mutant: the catalog records of all catalogs are joined.                 *)
SelectedOfAnyCatalog(c, r) ==
  LET entries == {catalogRecord[k][r] : k \in Catalogs} \ {None}
  IN  \/ entries = {}
      \/ \E e \in entries : e.timestamp < MaxTimestamp(r)
      \/ \E t \in tags[r] : t.tag = "Record.Embargo"

(* _select_records.                                                        *)
Selected(c, r) ==
  LET e == catalogRecord[c][r]
  IN  \/ e = None
      \/ e.timestamp < MaxTimestamp(r)
      \/ \E t \in tags[r] : t.tag = "Record.Embargo"

Selection(c) == {r \in Existing : Selected(c, r)}

(* Mutant: what is not published need not be mirrored.                     *)
UnsyncedPublished(c) ==
  {r \in Records : /\ catalogRecord[c][r] # None
                   /\ catalogRecord[c][r].published
                   /\ ~catalogRecord[c][r].synced
                   /\ catalogRecord[c][r].errors < MaxAttempts}

(* The entries _sync_external selects.                                     *)
Unsynced(c) ==
  {r \in Records : /\ catalogRecord[c][r] # None
                   /\ ~catalogRecord[c][r].synced
                   /\ catalogRecord[c][r].errors < MaxAttempts}

(* A selection that is empty has nothing to commit: its transaction is the *)
(* one that selects the unsynced records, of an external catalog, or the   *)
(* records of the next catalog.                                            *)
PassesOn(i) == Selection(CatalogOrder[i]) = {} /\ ~External(CatalogOrder[i])

(* publish, from the first catalog whose selection a transaction makes up  *)
(* to _create_snapshot of the one it does not pass.                        *)
TakeSnapshot ==
  \E i \in at .. Len(CatalogOrder) :
    LET c == CatalogOrder[i]
        selection == Selection(c)
    IN  /\ phase = "idle"
        /\ \A j \in at .. (i - 1) : PassesOn(j)
        /\ PassesOn(i) => i = Len(CatalogOrder)
        /\ snapshot' = [r \in Records |->
                          IF r \in selection
                          THEN [model |-> RecordModel(r),
                                timestamp |-> MaxTimestamp(r)]
                          ELSE None]
        /\ todo' = IF selection # {} THEN selection
                   ELSE IF External(c) THEN Unsynced(c) ELSE {}
        /\ first' = (selection # {})
        /\ phase' = IF selection # {} THEN "sync"
                    ELSE IF External(c) THEN "mirror" ELSE "idle"
        /\ at' = IF PassesOn(i) THEN 1 ELSE i
        /\ UNCHANGED <<tables, sitemap, datacite, today, crashes>>

(***************************************************************************)
(* _sync_catalog.                                                          *)
(***************************************************************************)

(* Mutant: a DOI that a published record gets later is not registered.     *)
PublishedOnce(old, m) == IF old = None THEN [doi |-> m.doi] ELSE old

(* _save_published_record: the row after it, given the row before.         *)
PublishedAfter(old, m) ==
  IF old = None THEN [doi |-> m.doi]
  ELSE IF m.doi # None /\ old.doi = None THEN [doi |-> m.doi]
  ELSE old

(* Mutant: a record that is hidden leaves the register.                    *)
RegisterAfterHiding(c, r) ==
  IF CanPublish(c, snapshot[r].model)
  THEN PublishedAfter(published[r], snapshot[r].model)
  ELSE None

(* The register entry of r after its synchronization with the catalog c.   *)
RegisterAfter(c, r) ==
  IF CanPublish(c, snapshot[r].model)
  THEN PublishedAfter(published[r], snapshot[r].model)
  ELSE published[r]

(* Mutants: only children that were seen before are known; a child is as   *)
(* published as it was before.                                             *)
ChildKnownBefore(c, x) == catalogRecord[c][x] # None

ChildPublishedBefore(c, x) ==
  catalogRecord[c][x] # None /\ catalogRecord[c][x].published

(* MIMS lists the published children of a record; a child outside the      *)
(* snapshot is as published as its catalog record says.                    *)
ChildKnown(c, x) == snapshot[x] # None \/ catalogRecord[c][x] # None

ChildPublished(c, x) ==
  IF snapshot[x] # None THEN CanPublish(c, snapshot[x].model)
  ELSE catalogRecord[c][x].published

Parts(c, m) ==
  IF c # "MIMS" THEN {}
  ELSE {m.children[x] : x \in {y \in DOMAIN m.children : ChildPublished(c, y)}}

(* create_published_record: what is derived from the model is determined   *)
(* by it; embargoes strip the downloads, MIMS adds the parts.              *)
PublishedForm(c, m) ==
  [model |-> m, stripped |-> Embargoed(m, today), parts |-> Parts(c, m)]

(* Mutant: the entry stays marked as synced.                               *)
EntryStillSynced(c, r) ==
  LET public == CanPublish(c, snapshot[r].model)
  IN  [published  |-> public,
       form       |-> IF public THEN PublishedForm(c, snapshot[r].model) ELSE None,
       searchable |-> Indexed(c) /\ public /\ Searchable(snapshot[r].model.tags),
       timestamp  |-> snapshot[r].timestamp,
       synced     |-> ~External(c) \/ (/\ catalogRecord[c][r] # None
                                      /\ catalogRecord[c][r].synced),
       errors     |-> 0]

(* _sync_catalog_record: the entry it saves.                               *)
EntryFor(c, r) ==
  LET m      == snapshot[r].model
      public == CanPublish(c, m)
      seen   == IF first THEN m.tags ELSE tags[record[r].collection] \cup tags[r]
  IN  [published  |-> public,
       form       |-> IF public THEN PublishedForm(c, m) ELSE None,
       searchable |-> Indexed(c) /\ public /\ Searchable(seen),
       timestamp  |-> snapshot[r].timestamp,
       synced     |-> ~External(c),     \* NULL unless the catalog is external
       errors     |-> 0]

(* Neither a constraint of catalog_record and published_record, nor a      *)
(* conflict with the snapshot's transaction, nor a child that is gone,     *)
(* raises an exception.                                                    *)
CanSync(c, r) ==
  LET m   == snapshot[r].model
      row == RegisterAfter(c, r)
  IN  /\ record[r] # None
      /\ CanPublish(c, m) /\ row # published[r] /\ row.doi # None =>
           /\ \E x \in Existing : record[x].doi = row.doi
           /\ \A x \in Records \ {r} :
                published[x] # None => published[x].doi # row.doi
      /\ first /\ (row # published[r] \/ catalogRecord[c][r] = None) =>
           record[r].doi = m.doi /\ record[r].sid = m.sid
      /\ CanPublish(c, m) /\ c = "MIMS" =>
           \A x \in DOMAIN m.children : ChildKnown(c, x)

SyncRecord(r) ==
  /\ phase = "sync"
  /\ r \in todo
  /\ CanSync(Current, r)
  /\ catalogRecord' = [catalogRecord EXCEPT ![Current][r] = EntryFor(Current, r)]
  /\ published' = [published EXCEPT ![r] = RegisterAfter(Current, r)]
  /\ todo' = todo \ {r}
  /\ first' = FALSE
  /\ phase' = IF todo' = {} THEN "global" ELSE "sync"
  /\ UNCHANGED <<record, collection, provider, tags, timestamp, audit, at,
                 snapshot, sitemap, datacite, today, crashes>>

(* create_global_data: only MIMS has any, the sitemap.                     *)
SearchableEntries(c) ==
  {r \in Records : catalogRecord[c][r] # None /\ catalogRecord[c][r].searchable}

SaveGlobalData ==
  /\ phase = "global"
  /\ sitemap' = IF Current = "MIMS" THEN SearchableEntries(Current) ELSE sitemap
  /\ snapshot' = [r \in Records |-> None]     \* it is not read any more
  /\ IF External(Current) THEN phase' = "external" /\ at' = at ELSE NextCatalog
  /\ UNCHANGED <<tables, todo, first, datacite, today, crashes>>

(***************************************************************************)
(* _sync_external.                                                         *)
(***************************************************************************)

(* After the commit of a snapshot.                                         *)
SelectUnsynced ==
  /\ phase = "external"
  /\ todo' = Unsynced(Current)
  /\ phase' = "mirror"
  /\ UNCHANGED <<tables, at, snapshot, first, sitemap, datacite, today, crashes>>

(* sync_external_record: the platform after a call for the record.         *)
MirrorAfter(c, r) ==
  LET e == catalogRecord[c][r]
  IN  IF e.published
      THEN [datacite EXCEPT ![e.form.model.doi] = e.form]
      ELSE IF record[r].doi # None THEN [datacite EXCEPT ![record[r].doi] = None]
      ELSE datacite

MirrorRecord(r) ==
  /\ phase = "mirror"
  /\ r \in todo
  /\ catalogRecord[Current][r] # None
  /\ datacite' = MirrorAfter(Current, r)
  /\ catalogRecord' = [catalogRecord EXCEPT ![Current][r].synced = TRUE,
                                            ![Current][r].errors = 0]
  /\ todo' = todo \ {r}
  /\ UNCHANGED <<record, collection, provider, tags, timestamp, audit, published,
                 phase, at, snapshot, first, sitemap, today, crashes>>

(* The call raises: the platform may have carried it out all the same.     *)
MirrorFails(r) ==
  /\ phase = "mirror"
  /\ r \in todo
  /\ catalogRecord[Current][r] # None
  /\ catalogRecord[Current][r].published \/ record[r].doi # None
  /\ datacite' \in {datacite, MirrorAfter(Current, r)}
  /\ catalogRecord' = [catalogRecord EXCEPT ![Current][r].errors = @ + 1]
  /\ todo' = todo \ {r}
  /\ UNCHANGED <<record, collection, provider, tags, timestamp, audit, published,
                 phase, at, snapshot, first, sitemap, today, crashes>>

MirrorDone ==
  /\ phase = "mirror"
  /\ todo = {}
  /\ NextCatalog
  /\ UNCHANGED <<tables, snapshot, todo, first, sitemap, datacite, today, crashes>>

(***************************************************************************)
(* The end of a run that does not finish.                                  *)
(***************************************************************************)

Stop ==
  /\ phase' = "idle"
  /\ at' = 1
  /\ todo' = {}
  /\ first' = FALSE
  /\ snapshot' = [r \in Records |-> None]
  /\ UNCHANGED <<tables, sitemap, today>>

(* publish_all: an exception aborts the run (PUBLISHING ABORTED).          *)
Abort ==
  /\ \E r \in todo :
       \/ phase = "sync" /\ ~CanSync(Current, r)
       \/ phase = "mirror" /\ catalogRecord[Current][r] = None
  /\ Stop
  /\ UNCHANGED <<datacite, crashes>>

(* The process dies, possibly between an external call and its commit.     *)
Crash ==
  /\ phase # "idle" \/ at # 1
  /\ crashes < MaxCrashes
  /\ crashes' = crashes + 1
  /\ \/ datacite' = datacite
     \/ \E r \in todo : /\ phase = "mirror"
                        /\ catalogRecord[Current][r] # None
                        /\ datacite' = MirrorAfter(Current, r)
  /\ Stop

NextDay ==
  /\ today < MaxDay
  /\ today' = today + 1
  /\ UNCHANGED <<tables, phase, at, snapshot, todo, first, sitemap, datacite, crashes>>

PublisherStep ==
  \/ TakeSnapshot
  \/ \E r \in Records : SyncRecord(r)
  \/ SaveGlobalData
  \/ SelectUnsynced
  \/ \E r \in Records : MirrorRecord(r)
  \/ MirrorDone
  \/ Abort

PublisherNext ==
  \/ PublisherStep
  \/ \E r \in Records : MirrorFails(r)
  \/ Crash
  \/ NextDay
=============================================================================
