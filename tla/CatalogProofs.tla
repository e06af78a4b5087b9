---------------------------- MODULE CatalogProofs ----------------------------
(***************************************************************************)
(* Theorems about what the catalogs and DataCite show: the register, the   *)
(* lists of parts, and the mirror.                                         *)
(***************************************************************************)
EXTENDS RecordProofs

(***************************************************************************)
(* What the steps of the system do to entries and register.                *)
(***************************************************************************)

(* The catalog whose snapshot is taken, or whose mirror is begun, is the   *)
(* one in progress after the step.                                         *)
LEMMA TakeSnapshotIs ==
  ASSUME TypeOK, TakeSnapshot
  PROVE  /\ UNCHANGED tables
         /\ phase' \in {"sync", "mirror", "idle"}
         /\ phase' # "idle" => Current' \in Catalogs
         /\ phase' = "mirror" => External(Current') /\ todo' = Unsynced(Current')
         /\ \A r \in Records : snapshot'[r] # None =>
              /\ r \in Existing /\ phase' = "sync"
              /\ snapshot'[r] = [model |-> RecordModel(r), timestamp |-> MaxTimestamp(r)]
         /\ phase' = "sync" => \A r \in Existing :
              snapshot'[r] = IF Selected(Current', r)
                             THEN [model |-> RecordModel(r), timestamp |-> MaxTimestamp(r)]
                             ELSE None
<1>1. PICK i \in at .. Len(CatalogOrder) :
        LET selection == Selection(CatalogOrder[i]) IN
        /\ snapshot' = [r \in Records |->
                          IF r \in selection
                          THEN [model |-> RecordModel(r), timestamp |-> MaxTimestamp(r)]
                          ELSE None]
        /\ todo' = IF selection # {} THEN selection
                   ELSE IF External(CatalogOrder[i]) THEN Unsynced(CatalogOrder[i]) ELSE {}
        /\ phase' = IF selection # {} THEN "sync"
                    ELSE IF External(CatalogOrder[i]) THEN "mirror" ELSE "idle"
        /\ at' = IF PassesOn(i) THEN 1 ELSE i
  BY DEF TakeSnapshot
<1> DEFINE c == CatalogOrder[i]
<1>2. UNCHANGED tables
  BY DEF TakeSnapshot
<1>3. PassesOn(i) <=> phase' = "idle"
  BY <1>1 DEF PassesOn
<1>4. phase' # "idle" => Current' = c
  BY <1>1, <1>3 DEF Current
<1>5. c \in Catalogs
  BY PublisherAssumption DEF TypeOK, PublisherTypeOK
<1>6. \A r : r \in Selection(c) <=> r \in Existing /\ Selected(c, r)
  BY DEF Selection
<1>7. Existing \subseteq Records
  BY DEF Existing
<1> HIDE DEF c
<1>8. /\ snapshot' = [r \in Records |->
                        IF r \in Selection(c)
                        THEN [model |-> RecordModel(r), timestamp |-> MaxTimestamp(r)]
                        ELSE None]
      /\ phase' \in {"sync", "mirror", "idle"} /\ (phase' = "sync" <=> Selection(c) # {})
      /\ phase' = "mirror" => External(c) /\ todo' = Unsynced(c)
  BY <1>1 DEF c
<1> QED
  BY <1>2, <1>4, <1>5, <1>6, <1>7, <1>8

(* An entry that is there after a step was there before, or is made by the *)
(* sync loop; the mirror changes its status.                               *)
LEMMA StatusSteps ==
  ASSUME TypeOK, [Next]_vars, NEW c \in Catalogs, NEW r \in Records,
         catalogRecord'[c][r] # None
  PROVE  \/ catalogRecord'[c][r] = catalogRecord[c][r]
         \/ c = Current /\ Publish /\ SyncRecord(r) /\ catalogRecord'[c][r] = EntryFor(c, r)
         \/ c = Current /\ (MirrorRecord(r) \/ MirrorFails(r))
<1>1. CASE ApiStep
  <2>1. PICK w \in Workers : Opens(w) \/ Commit(w) \/ Rollback(w)
    BY <1>1, ApiSteps DEF ApiStep
  <2> QED
    BY <2>1 DEF Opens, Begin, Commit, Rollback, tables
<1>2. CASE Publish
  <2>1. CASE \E s \in Records : SyncRecord(s)
    <3>1. PICK s \in Records : SyncRecord(s)
      BY <2>1
    <3>2. catalogRecord' = [catalogRecord EXCEPT ![Current][s] = EntryFor(Current, s)]
      BY <3>1 DEF SyncRecord
    <3>3. CASE c = Current /\ r = s
      <4>1. catalogRecord'[c][r] = EntryFor(c, r)
        BY <3>2, <3>3 DEF TypeOK, TablesTypeOK
      <4> QED
        BY <1>2, <3>1, <3>3, <4>1
    <3>4. CASE ~(c = Current /\ r = s)
      BY <3>2, <3>4 DEF TypeOK, TablesTypeOK
    <3> QED
      BY <3>3, <3>4
  <2>2. CASE \E s \in Records : MirrorRecord(s) \/ MirrorFails(s)
    <3>1. PICK s \in Records : MirrorRecord(s) \/ MirrorFails(s)
      BY <2>2
    <3>2. PICK new \in Entry :
            catalogRecord' = [catalogRecord EXCEPT ![Current][s] = new]
      BY <3>1, MirrorKeepsContent
    <3>3. (c = Current /\ r = s) \/ catalogRecord'[c][r] = catalogRecord[c][r]
      BY <3>2 DEF TypeOK, TablesTypeOK
    <3> QED
      BY <3>1, <3>3
  <2>3. CASE UNCHANGED catalogRecord
    BY <2>3
  <2> QED
    BY <1>2, <2>1, <2>2, <2>3
       DEF Publish, PublisherNext, PublisherStep, TakeSnapshot, SaveGlobalData,
           SelectUnsynced, MirrorDone, Abort, Crash, Stop, NextDay, tables
<1>3. CASE UNCHANGED vars
  BY <1>3 DEF vars, tables
<1> QED
  BY <1>1, <1>2, <1>3 DEF Next

LEMMA EntrySteps ==
  ASSUME TypeOK, [Next]_vars, NEW c \in Catalogs, NEW r \in Records,
         catalogRecord'[c][r] # None
  PROVE  \/ EntryKept(c, r)
         \/ /\ c = Current /\ Publish /\ SyncRecord(r)
            /\ catalogRecord'[c][r] = EntryFor(c, r)
<1>1. CASE catalogRecord'[c][r] = catalogRecord[c][r]
  BY <1>1 DEF EntryKept, SameContent
<1>2. CASE c = Current /\ (MirrorRecord(r) \/ MirrorFails(r))
  <2>1. PICK new \in Entry :
          /\ SameContent(catalogRecord[c][r], new)
          /\ catalogRecord' = [catalogRecord EXCEPT ![c][r] = new]
    BY <1>2, MirrorKeepsContent
  <2>2. catalogRecord[c][r] # None
    BY <1>2, MirrorKeepsContent
  <2> QED
    BY <2>1, <2>2 DEF EntryKept, TypeOK, TablesTypeOK
<1> QED
  BY <1>1, <1>2, StatusSteps

LEMMA RegisterSteps ==
  ASSUME TypeOK, [Next]_vars, NEW r \in Records
  PROVE  \/ published'[r] = published[r]
         \/ Publish /\ SyncRecord(r) /\ published'[r] = RegisterAfter(Current, r)
<1>1. CASE ApiStep
  <2>1. PICK w \in Workers : Opens(w) \/ Commit(w) \/ Rollback(w)
    BY <1>1, ApiSteps DEF ApiStep
  <2> QED
    BY <2>1 DEF Opens, Begin, Commit, Rollback, tables
<1>2. CASE Publish
  <2>1. CASE \E s \in Records : SyncRecord(s)
    <3>1. PICK s \in Records : SyncRecord(s)
      BY <2>1
    <3>2. published' = [published EXCEPT ![s] = RegisterAfter(Current, s)]
      BY <3>1 DEF SyncRecord
    <3> QED
      BY <1>2, <3>1, <3>2 DEF TypeOK, TablesTypeOK
  <2>2. CASE UNCHANGED published
    BY <2>2
  <2> QED
    BY <1>2, <2>1, <2>2, PublishSteps
<1>3. CASE UNCHANGED vars
  BY <1>3 DEF vars, tables
<1> QED
  BY <1>1, <1>2, <1>3 DEF Next

(***************************************************************************)
(* Nothing is public without its entry in the register.                    *)
(***************************************************************************)

(* A register entry stays, and once it has a DOI it stays as it is.        *)
LEMMA RegisterGrows ==
  ASSUME TypeOK, [Next]_vars, NEW r \in Records, published[r] # None
  PROVE  /\ published'[r] # None
         /\ published[r].doi # None => published'[r] = published[r]
<1>1. CASE published'[r] = published[r]
  BY <1>1
<1>2. CASE SyncRecord(r) /\ published'[r] = RegisterAfter(Current, r)
  <2>1. snapshot[r] \in Shot
    BY <1>2 DEF SyncRecord, TypeOK, PublisherTypeOK
  <2>2. snapshot[r].model.doi \in DOIs \cup {None}
    BY <2>1 DEF Shot, Model
  <2>3. [doi |-> snapshot[r].model.doi] # None
    BY <2>2, NoneAssumption
  <2> QED
    BY <1>2, <2>3 DEF RegisterAfter, PublishedAfter
<1> QED
  BY <1>1, <1>2, RegisterSteps

LEMMA NextPublicIsRegistered ==
  ASSUME TypeOK, PublicIsRegistered, [Next]_vars
  PROVE  PublicIsRegistered'
<1> SUFFICES ASSUME NEW c \in Catalogs, NEW r \in Records,
                    catalogRecord'[c][r] # None, catalogRecord'[c][r].published
             PROVE  /\ published'[r] # None
                    /\ published'[r].doi = None => catalogRecord'[c][r].form.model.doi = None
  BY DEF PublicIsRegistered
<1>1. CASE EntryKept(c, r)
  <2>1. /\ published[r] # None
        /\ published[r].doi = None => catalogRecord'[c][r].form.model.doi = None
    BY <1>1 DEF EntryKept, SameContent, PublicIsRegistered
  <2>2. CASE published[r].doi # None
    BY <2>1, <2>2, RegisterGrows
  <2>3. CASE published[r].doi = None
    BY <2>1, <2>3, RegisterGrows
  <2> QED
    BY <2>2, <2>3
<1>2. CASE c = Current /\ SyncRecord(r) /\ catalogRecord'[c][r] = EntryFor(c, r)
  <2> DEFINE m == snapshot[r].model
  <2>1. CanPublish(c, m) /\ catalogRecord'[c][r].form.model = m
    <3>1. CanPublish(c, m)
      BY <1>2 DEF EntryFor
    <3> QED
      BY <1>2, <3>1 DEF EntryFor, PublishedForm
  <2>2. published'[r] = PublishedAfter(published[r], m)
    BY <1>2, <2>1 DEF SyncRecord, RegisterAfter, TypeOK, TablesTypeOK
  <2>3. m \in Model
    BY <1>2 DEF SyncRecord, TypeOK, PublisherTypeOK, Shot
  <2>4. published'[r] \in [doi : DOIs \cup {None}]
    <3>1. published[r] \in [doi : DOIs \cup {None}] \cup {None}
      BY DEF TypeOK, TablesTypeOK
    <3> QED
      BY <2>2, <2>3, <3>1, PublishedAfterType
  <2>5. published'[r].doi = None => m.doi = None
    BY <2>2 DEF PublishedAfter
  <2> QED
    BY <2>1, <2>4, <2>5, NoneAssumption
<1> QED
  BY <1>1, <1>2, EntrySteps

(* For any number of API processes, whatever a catalog shows is in the     *)
(* register, with its DOI if it has one (published_record).                *)
THEOREM PublicStaysRegistered == Spec => []PublicIsRegistered
<1>1. Init => PublicIsRegistered
  BY DEF Init, TablesInit, PublicIsRegistered
<1>2. TypeOK /\ PublicIsRegistered /\ [Next]_vars => PublicIsRegistered'
  BY NextPublicIsRegistered
<1> QED
  BY <1>1, <1>2, TypeCorrect, PTL DEF Spec

(***************************************************************************)
(* The mirror.                                                             *)
(***************************************************************************)

MirrorsExternal == phase \in {"external", "mirror"} => External(Current)

(* What is still to be mirrored is not marked as synced.                   *)
TodoUnsynced ==
  phase = "mirror" =>
    \A r \in todo : catalogRecord[Current][r] # None => ~catalogRecord[Current][r].synced

(* What the publisher has read of a registered DOI is that DOI.            *)
SnapshotDois ==
  \A r \in Records : snapshot[r] # None /\ published[r] # None /\ published[r].doi # None =>
    snapshot[r].model.doi = published[r].doi

(* DataCite gets what is published under the DOI in the register.          *)
EntryDois ==
  \A c \in Catalogs, r \in Records :
    LET e == catalogRecord[c][r]
    IN  External(c) /\ e # None /\ e.published =>
          /\ published[r] # None
          /\ published[r].doi # None
          /\ e.form.model.doi = published[r].doi

(* What is findable is in the register.                                    *)
FindableRegistered ==
  \A d \in DOIs : datacite[d] # None =>
    \E r \in Records : published[r] # None /\ published[r].doi = d

EntriesHaveRecords ==
  \A c \in Catalogs, r \in Records : catalogRecord[c][r] # None => record[r] # None

(* The entries marked as synced are mirrored, by calls that each concern   *)
(* one registered DOI, or one that is held by no other record.             *)
MirrorInv ==
  /\ MirrorsExternal
  /\ TodoUnsynced
  /\ SnapshotDois
  /\ EntryDois
  /\ FindableRegistered
  /\ EntriesHaveRecords
  /\ MirrorFollows

Held == ConstraintsInv /\ RegisteredDoiIsHeld

LEMMA MirrorInit == ASSUME Init PROVE MirrorInv
BY DEF Init, TablesInit, PublisherInit, MirrorInv, MirrorsExternal, TodoUnsynced,
       SnapshotDois, EntryDois, FindableRegistered, EntriesHaveRecords, MirrorFollows

LEMMA NextEntriesHaveRecords ==
  ASSUME TypeOK, EntriesHaveRecords, [Next]_vars
  PROVE  EntriesHaveRecords'
<1> SUFFICES ASSUME NEW c \in Catalogs, NEW r \in Records, catalogRecord'[c][r] # None
             PROVE  record'[r] # None
  BY DEF EntriesHaveRecords
<1>1. CASE ApiStep
  <2>1. PICK w \in Workers : Opens(w) \/ Commit(w) \/ Rollback(w)
    BY <1>1, ApiSteps DEF ApiStep
  <2>2. CASE Commit(w)
    BY <2>2 DEF Commit
  <2>3. CASE Opens(w) \/ Rollback(w)
    BY <2>3 DEF Opens, Begin, Rollback, tables, EntriesHaveRecords
  <2> QED
    BY <2>1, <2>2, <2>3
<1>2. CASE Publish
  <2>1. UNCHANGED record
    BY <1>2, PublishKeepsRecords
  <2> QED
    BY <2>1, EntrySteps DEF EntryKept, EntriesHaveRecords, SyncRecord, CanSync
<1>3. CASE UNCHANGED vars
  BY <1>3 DEF vars, tables, EntriesHaveRecords
<1> QED
  BY <1>1, <1>2, <1>3 DEF Next

LEMMA NextSnapshotDois ==
  ASSUME TypeOK, SnapshotDois, RegisteredDoiIsHeld, [Next]_vars
  PROVE  SnapshotDois'
<1> SUFFICES ASSUME NEW r \in Records, snapshot'[r] # None, published'[r] # None,
                    published'[r].doi # None
             PROVE  snapshot'[r].model.doi = published'[r].doi
  BY DEF SnapshotDois
<1>1. CASE TakeSnapshot
  <2>1. UNCHANGED published
    BY <1>1 DEF TakeSnapshot, tables
  <2>2. snapshot'[r].model = RecordModel(r)
    BY <1>1 DEF TakeSnapshot
  <2>3. RecordModel(r).doi = record[r].doi
    BY DEF RecordModel
  <2> QED
    BY <2>1, <2>2, <2>3 DEF RegisteredDoiIsHeld
<1>2. CASE ~TakeSnapshot
  <2>1. snapshot'[r] = snapshot[r]
    BY <1>2 DEF Next, ApiStep, Publish, PublisherNext, PublisherStep, SyncRecord,
         SaveGlobalData, SelectUnsynced, MirrorRecord, MirrorFails, MirrorDone,
         Abort, Crash, Stop, NextDay, vars, pubVars
  <2>2. CASE published'[r] = published[r]
    BY <2>1, <2>2 DEF SnapshotDois
  <2>3. CASE published'[r] # published[r] /\ published'[r] = RegisterAfter(Current, r)
    BY <2>1, <2>3 DEF RegisterAfter, PublishedAfter
  <2> QED
    BY <2>2, <2>3, RegisterSteps
<1> QED
  BY <1>1, <1>2

LEMMA NextEntryDois ==
  ASSUME TypeOK, SnapshotDois, EntryDois, [Next]_vars
  PROVE  EntryDois'
<1> SUFFICES ASSUME NEW c \in Catalogs, NEW r \in Records, External(c),
                    catalogRecord'[c][r] # None, catalogRecord'[c][r].published
             PROVE  /\ published'[r] # None
                    /\ published'[r].doi # None
                    /\ catalogRecord'[c][r].form.model.doi = published'[r].doi
  BY DEF EntryDois
<1>1. CASE EntryKept(c, r)
  <2>1. /\ published[r] # None /\ published[r].doi # None
        /\ catalogRecord'[c][r].form.model.doi = published[r].doi
    BY <1>1 DEF EntryKept, SameContent, EntryDois
  <2> QED
    BY <2>1, RegisterGrows
<1>2. CASE c = Current /\ SyncRecord(r) /\ catalogRecord'[c][r] = EntryFor(c, r)
  <2> DEFINE m == snapshot[r].model
  <2>1. CanPublish(c, m)
    BY <1>2 DEF EntryFor
  <2>2. catalogRecord'[c][r].form.model = m
    BY <1>2, <2>1 DEF EntryFor, PublishedForm
  <2>3. m.doi # None
    BY <2>1 DEF CanPublish
  <2>4. published'[r] = PublishedAfter(published[r], m)
    BY <1>2, <2>1 DEF SyncRecord, RegisterAfter, TypeOK, TablesTypeOK
  <2>5. snapshot[r] # None /\ m \in Model
    BY <1>2 DEF SyncRecord, TypeOK, PublisherTypeOK, Shot
  <2>6. [doi |-> m.doi] # None
    BY <2>5, NoneAssumption DEF Model
  <2>7. published[r] # None /\ published[r].doi # None => m.doi = published[r].doi
    BY <2>5 DEF SnapshotDois
  <2> HIDE DEF m
  <2> QED
    BY <2>2, <2>3, <2>4, <2>6, <2>7 DEF PublishedAfter
<1> QED
  BY <1>1, <1>2, EntrySteps

(* A call to DataCite for s, whether its outcome is committed or not.      *)
Calls(s) ==
  /\ phase = "mirror" /\ s \in todo /\ s \in Records
  /\ catalogRecord[Current][s] # None
  /\ datacite' = MirrorAfter(Current, s)
  /\ UNCHANGED <<record, published>>

LEMMA DataciteSteps ==
  ASSUME TypeOK, [Next]_vars
  PROVE  UNCHANGED datacite \/ \E s \in Records : Calls(s)
<1>1. todo \subseteq Records
  BY DEF TypeOK, PublisherTypeOK
<1>2. CASE ApiStep \/ UNCHANGED vars
  BY <1>2 DEF ApiStep, pubVars, vars
<1>3. CASE Publish
  <2>1. CASE \E s \in Records : MirrorRecord(s) \/ MirrorFails(s)
    BY <2>1 DEF MirrorRecord, MirrorFails, Calls
  <2>2. CASE Crash
    BY <1>1, <2>2 DEF Crash, Stop, tables, Calls
  <2> QED
    BY <1>3, <2>1, <2>2
       DEF Publish, PublisherNext, PublisherStep, TakeSnapshot, SyncRecord,
           SaveGlobalData, SelectUnsynced, MirrorDone, Abort, NextDay, tables
<1> QED
  BY <1>2, <1>3 DEF Next

(* Where the platform has what it is to have of the record r.              *)
Follows(e, row, platform) ==
  IF e.published THEN platform[e.form.model.doi] = e.form
  ELSE row.doi # None => platform[row.doi] = None

(* Registered DOIs are held, each by the one record registered with it.    *)
LEMMA OneHolder ==
  ASSUME Held, NEW r \in Records, NEW s \in Records,
         published[r] # None, published[r].doi # None,
         record[s] # None, record[s].doi = published[r].doi
  PROVE  s = r
<1>1. record[r] # None /\ record[r].doi = published[r].doi
  BY DEF Held, ConstraintsInv, KeepsPublished, RegisteredDoiIsHeld
<1> QED
  BY <1>1 DEF Held, ConstraintsInv, WellFormed

LEMMA ExternalIsOne ==
  ASSUME NEW c, NEW d, External(c), External(d)
  PROVE  c = d
BY DEF External

(* A call for s changes the platform at the DOI of s only.                 *)
LEMMA CallConcernsOne ==
  ASSUME Held, MirrorInv, NEW s \in Records, Calls(s)
  PROVE  \E d \in DOIs \cup {None} :
           /\ d = IF catalogRecord[Current][s].published
                  THEN published[s].doi ELSE record[s].doi
           /\ record[s] # None /\ record[s].doi = d
           /\ \A x \in DOIs : x # d => datacite'[x] = datacite[x]
           /\ datacite' \in [DOIs -> Form \cup {None}]
           /\ d # None => datacite'[d] = IF catalogRecord[Current][s].published
                                         THEN catalogRecord[Current][s].form ELSE None
           /\ catalogRecord[Current][s].published => d # None
<1> DEFINE e == catalogRecord[Current][s]
<1>1. TypeOK /\ Current \in Catalogs /\ External(Current) /\ e # None
  BY CurrentIsCatalog DEF Calls, MirrorInv, MirrorsExternal, Held, ConstraintsInv
<1>2. record[s] # None
  BY <1>1 DEF MirrorInv, EntriesHaveRecords
<1>3. record[s] \in Row /\ record[s].doi \in DOIs \cup {None}
  BY <1>1, <1>2 DEF TypeOK, TablesTypeOK, Row
<1>4. datacite \in [DOIs -> Form \cup {None}] /\ datacite' \in [DOIs -> Form \cup {None}]
  BY <1>1, MirrorAfterType DEF TypeOK, PublisherTypeOK, Calls
<1>5. CASE e.published
  <2>1. /\ published[s] # None /\ published[s].doi # None
        /\ e.form.model.doi = published[s].doi
    BY <1>1, <1>5 DEF MirrorInv, EntryDois
  <2>2. record[s].doi = published[s].doi
    BY <2>1 DEF Held, RegisteredDoiIsHeld
  <2>3. datacite' = [datacite EXCEPT ![published[s].doi] = e.form]
    BY <1>5, <2>1 DEF Calls, MirrorAfter
  <2> HIDE DEF e
  <2>4. /\ \A x \in DOIs : x # published[s].doi => datacite'[x] = datacite[x]
        /\ datacite'[published[s].doi] = e.form
    BY <1>3, <1>4, <2>1, <2>2, <2>3
  <2>5. published[s].doi \in DOIs \cup {None}
    BY <1>3, <2>2
  <2> QED
    BY <1>2, <1>4, <1>5, <2>1, <2>2, <2>4, <2>5 DEF e
<1>6. CASE ~e.published
  <2>1. datacite' = IF record[s].doi # None
                    THEN [datacite EXCEPT ![record[s].doi] = None] ELSE datacite
    BY <1>6 DEF Calls, MirrorAfter
  <2>2. /\ \A x \in DOIs : x # record[s].doi => datacite'[x] = datacite[x]
        /\ record[s].doi # None => datacite'[record[s].doi] = None
    BY <1>3, <1>4, <2>1
  <2> QED
    BY <1>2, <1>3, <1>4, <1>6, <2>2 DEF e
<1> QED
  BY <1>5, <1>6

LEMMA NextFindable ==
  ASSUME Held, MirrorInv, [Next]_vars
  PROVE  FindableRegistered'
<1>1. TypeOK
  BY DEF Held, ConstraintsInv
<1> SUFFICES ASSUME NEW d \in DOIs, datacite'[d] # None
             PROVE  \E r \in Records : published'[r] # None /\ published'[r].doi = d
  BY DEF FindableRegistered
<1>2. d # None
  BY TablesAssumption
<1>3. ASSUME NEW r \in Records, published[r] # None, published[r].doi = d
      PROVE  \E q \in Records : published'[q] # None /\ published'[q].doi = d
  BY <1>1, <1>2, <1>3, RegisterGrows
<1>4. CASE datacite'[d] = datacite[d]
  BY <1>3, <1>4 DEF MirrorInv, FindableRegistered
<1>5. CASE datacite'[d] # datacite[d]
  <2>1. PICK s \in Records : Calls(s)
    BY <1>1, <1>5, DataciteSteps
  <2> PICK x \in DOIs \cup {None} :
         /\ x = IF catalogRecord[Current][s].published
                THEN published[s].doi ELSE record[s].doi
         /\ \A y \in DOIs : y # x => datacite'[y] = datacite[y]
         /\ x # None => datacite'[x] = IF catalogRecord[Current][s].published
                                       THEN catalogRecord[Current][s].form ELSE None
    BY <2>1, CallConcernsOne
  <2>2. catalogRecord[Current][s].published /\ d = published[s].doi
    BY <1>2, <1>5
  <2>3. published[s] # None
    BY <1>1, <2>1, <2>2, CurrentIsCatalog
       DEF MirrorInv, EntryDois, Calls, MirrorsExternal
  <2> QED
    BY <1>3, <2>2, <2>3
<1> QED
  BY <1>4, <1>5

LEMMA NextMirrorsExternal ==
  ASSUME TypeOK, MirrorsExternal, [Next]_vars
  PROVE  MirrorsExternal'
<1>1. CASE ApiStep \/ UNCHANGED vars
  BY <1>1 DEF ApiStep, pubVars, vars, MirrorsExternal, Current
<1>2. CASE Publish
  <2>1. CASE TakeSnapshot \/ SaveGlobalData
    BY <2>1, TakeSnapshotIs DEF SaveGlobalData, NextCatalog, MirrorsExternal, Current
  <2>2. CASE phase' \in {"idle", "sync", "global"}
    BY <2>2 DEF MirrorsExternal
  <2>3. CASE phase \in {"external", "mirror"} /\ at' = at
    BY <2>3 DEF MirrorsExternal, Current
  <2>4. CASE NextDay
    BY <2>4 DEF NextDay, MirrorsExternal, Current
  <2> QED
    BY <1>2, <2>1, <2>2, <2>3, <2>4
       DEF Publish, PublisherNext, PublisherStep, SyncRecord, SelectUnsynced,
           MirrorRecord, MirrorFails, MirrorDone, NextCatalog, Abort, Crash, Stop
<1> QED
  BY <1>1, <1>2 DEF Next

LEMMA NextTodoUnsynced ==
  ASSUME TypeOK, TodoUnsynced, [Next]_vars
  PROVE  TodoUnsynced'
<1> SUFFICES ASSUME phase' = "mirror", NEW r \in todo', catalogRecord'[Current'][r] # None
             PROVE  ~catalogRecord'[Current'][r].synced
  BY DEF TodoUnsynced
<1>1. Current \in Catalogs /\ todo \subseteq Records
  BY CurrentIsCatalog DEF TypeOK, PublisherTypeOK
<1>2. CASE SelectUnsynced \/ TakeSnapshot
  <2>1. todo' = Unsynced(Current') /\ catalogRecord' = catalogRecord
    BY <1>2, TakeSnapshotIs DEF SelectUnsynced, Current, tables
  <2> QED
    BY <1>2, <2>1 DEF Unsynced
<1>3. CASE ~SelectUnsynced /\ ~TakeSnapshot
  <2>1. phase = "mirror" /\ at' = at /\ r \in todo
    BY <1>3 DEF Next, ApiStep, Publish, PublisherNext, PublisherStep,
         SyncRecord, SaveGlobalData, MirrorRecord, MirrorFails, MirrorDone,
         NextCatalog, Abort, Crash, Stop, NextDay, vars, pubVars
  <2>2. Current' = Current /\ r \in Records
    BY <1>1, <2>1 DEF Current
  <2>3. catalogRecord'[Current][r] = catalogRecord[Current][r]
    <3>1. ~SyncRecord(r)
      BY <2>1 DEF SyncRecord
    <3>2. ~(MirrorRecord(r) \/ MirrorFails(r))
      BY DEF MirrorRecord, MirrorFails
    <3> QED
      BY <1>1, <2>2, <3>1, <3>2, StatusSteps
  <2> QED
    BY <2>1, <2>2, <2>3 DEF TodoUnsynced
<1> QED
  BY <1>2, <1>3

(* The DOI of a record is findable only if it is registered with it.       *)
LEMMA FindableIsItsOwn ==
  ASSUME Held, MirrorInv, Held', [Next]_vars, NEW r \in Records,
         record'[r] # None, record'[r].doi # None, datacite[record'[r].doi] # None
  PROVE  record[r].doi = record'[r].doi
<1> PICK d : d = record'[r].doi
  OBVIOUS
<1>1. TypeOK /\ TypeOK'
  BY DEF Held, ConstraintsInv
<1>2. d \in DOIs
  <2>1. record'[r] \in Row
    BY <1>1 DEF TypeOK, TablesTypeOK
  <2> QED
    BY <2>1 DEF Row
<1>3. PICK q \in Records : published[q] # None /\ published[q].doi = d
  BY <1>2 DEF MirrorInv, FindableRegistered
<1>4. published'[q] # None /\ published'[q].doi = d
  BY <1>1, <1>3, RegisterGrows
<1>5. record'[q] # None /\ record'[q].doi = d
  BY <1>3, <1>4 DEF Held, ConstraintsInv, KeepsPublished, RegisteredDoiIsHeld
<1>6. q = r
  BY <1>5 DEF Held, ConstraintsInv, WellFormed
<1> QED
  BY <1>3, <1>6 DEF Held, RegisteredDoiIsHeld

LEMMA NextMirrorFollows ==
  ASSUME Held, MirrorInv, Held', [Next]_vars
  PROVE  MirrorFollows'
<1>1. TypeOK /\ TypeOK'
  BY DEF Held, ConstraintsInv
<1> SUFFICES ASSUME NEW c \in Catalogs, NEW r \in Records, External(c),
                    catalogRecord'[c][r] # None, catalogRecord'[c][r].synced
             PROVE  Follows(catalogRecord'[c][r], record'[r], datacite')
  BY DEF MirrorFollows, Follows
<1>2. CASE catalogRecord'[c][r] = catalogRecord[c][r]
  <2> PICK e : e = catalogRecord[c][r]
    OBVIOUS
  <2>1. e # None /\ e.synced /\ Follows(e, record[r], datacite)
    BY <1>2 DEF MirrorInv, MirrorFollows, Follows
  <2>2. record[r] # None /\ record'[r] # None
    BY <1>1, <2>1, NextEntriesHaveRecords DEF MirrorInv, EntriesHaveRecords
  <2>3. CASE UNCHANGED datacite
    <3>1. Follows(e, record'[r], datacite)
      BY <2>1, <2>2, FindableIsItsOwn DEF Follows
    <3> QED
      BY <1>2, <2>3, <3>1 DEF Follows
  <2>4. CASE \E s \in Records : Calls(s)
    <3>1. PICK s \in Records : Calls(s)
      BY <2>4
    <3>2. c = Current
      BY <3>1, ExternalIsOne DEF MirrorInv, MirrorsExternal, Calls
    <3>3. s # r
      BY <2>1, <3>1, <3>2 DEF MirrorInv, TodoUnsynced, Calls
    <3>4. PICK x \in DOIs \cup {None} :
            /\ record[s] # None /\ record[s].doi = x
            /\ \A y \in DOIs : y # x => datacite'[y] = datacite[y]
      BY <3>1, CallConcernsOne
    <3>5. record'[r] = record[r]
      BY <3>1 DEF Calls
    <3>6. CASE e.published
      <4>1. /\ published[r] # None /\ published[r].doi # None
            /\ e.form.model.doi = published[r].doi
        BY <2>1, <3>6 DEF MirrorInv, EntryDois
      <4>2. published[r].doi \in DOIs
        BY <1>1, <4>1 DEF TypeOK, TablesTypeOK
      <4>3. published[r].doi # x
        BY <3>3, <3>4, <4>1, OneHolder
      <4> QED
        BY <1>2, <2>1, <3>4, <3>6, <4>1, <4>2, <4>3 DEF Follows
    <3>7. CASE ~e.published
      <4>1. record[r].doi # None => record[r].doi \in DOIs
        <5>1. record[r] \in Row
          BY <1>1, <2>2 DEF TypeOK, TablesTypeOK
        <5> QED
          BY <5>1 DEF Row
      <4>2. record[r].doi # None => record[r].doi # x
        BY <2>2, <3>3, <3>4 DEF Held, ConstraintsInv, WellFormed
      <4> QED
        BY <1>2, <2>1, <3>4, <3>5, <3>7, <4>1, <4>2 DEF Follows
    <3> QED
      BY <3>6, <3>7
  <2> QED
    BY <1>1, <2>3, <2>4, DataciteSteps
<1>3. CASE SyncRecord(r) /\ catalogRecord'[c][r] = EntryFor(c, r)
  <2>1. EntryFor(c, r).synced = ~External(c)
    BY DEF EntryFor
  <2> QED
    BY <1>3, <2>1
<1>4. CASE c = Current /\ MirrorFails(r)
  <2>1. ~catalogRecord[c][r].synced /\ catalogRecord[c][r] # None
    BY <1>4 DEF MirrorFails, MirrorInv, TodoUnsynced
  <2>2. catalogRecord[c][r] \in Entry
    BY <1>1, <2>1 DEF TypeOK, TablesTypeOK
  <2>3. catalogRecord'[c][r].synced = catalogRecord[c][r].synced
    BY <1>1, <1>4, <2>2 DEF MirrorFails, TypeOK, TablesTypeOK, Entry
  <2> QED
    BY <2>1, <2>3
<1>5. CASE c = Current /\ MirrorRecord(r)
  <2> PICK e : e = catalogRecord[c][r]
    OBVIOUS
  <2>1. Calls(r) /\ e # None
    BY <1>5 DEF MirrorRecord, Calls
  <2>2. SameContent(e, catalogRecord'[c][r])
    <3>1. PICK new \in Entry :
            /\ SameContent(e, new)
            /\ catalogRecord' = [catalogRecord EXCEPT ![Current][r] = new]
      BY <1>1, <1>5, MirrorKeepsContent
    <3> QED
      BY <1>1, <1>5, <3>1 DEF TypeOK, TablesTypeOK
  <2>3. PICK x \in DOIs \cup {None} :
          /\ x = IF e.published THEN published[r].doi ELSE record[r].doi
          /\ x # None => datacite'[x] = IF e.published THEN e.form ELSE None
          /\ e.published => x # None
    BY <1>5, <2>1, CallConcernsOne
  <2>4. e.published => e.form.model.doi = published[r].doi
    BY <2>1 DEF MirrorInv, EntryDois
  <2>5. record'[r] = record[r]
    BY <2>1 DEF Calls
  <2> QED
    BY <2>2, <2>3, <2>4, <2>5 DEF Follows, SameContent
<1> QED
  BY <1>1, <1>2, <1>3, <1>4, <1>5, StatusSteps

LEMMA NextMirror ==
  ASSUME Held, MirrorInv, Held', [Next]_vars
  PROVE  MirrorInv'
<1>1. TypeOK /\ RegisteredDoiIsHeld
  BY DEF Held, ConstraintsInv
<1>2. MirrorsExternal' /\ TodoUnsynced' /\ EntriesHaveRecords'
  BY <1>1, NextMirrorsExternal, NextTodoUnsynced, NextEntriesHaveRecords DEF MirrorInv
<1>3. SnapshotDois' /\ EntryDois'
  BY <1>1, NextSnapshotDois, NextEntryDois DEF MirrorInv
<1> QED
  BY <1>2, <1>3, NextFindable, NextMirrorFollows DEF MirrorInv

(* With any number of API processes, what is marked as synced is at        *)
(* DataCite as it was published, or is not findable there, as long as      *)
(* every record holds the DOI it is registered with: the calls for one     *)
(* record then never concern the DOI of another (sync_external_record).    *)
THEOREM MirrorHolds == Spec /\ []RegisteredDoiIsHeld => []MirrorFollows
<1>1. Init => MirrorInv
  BY MirrorInit
<1>2. Held /\ MirrorInv /\ Held' /\ [Next]_vars => MirrorInv'
  BY NextMirror
<1>3. ConstraintsInv /\ RegisteredDoiIsHeld => Held
  BY DEF Held
<1>4. MirrorInv => MirrorFollows
  BY DEF MirrorInv
<1>5. Init => ConstraintsInv
  BY ConstraintsInit
<1>6. ConstraintsInv /\ [Next]_vars => ConstraintsInv'
  BY ConstraintsKept
<1> QED
  BY <1>1, <1>2, <1>3, <1>4, <1>5, <1>6, PTL DEF Spec

(***************************************************************************)
(* When the DOI in the register is the record's.  The constraints of the   *)
(* database see to it against all requests; the publisher may register a   *)
(* DOI that the record has lost since it was read.                         *)
(***************************************************************************)

(* No record loses its DOI between the snapshot and the end of the loop.   *)
ReadDoisStay ==
  \A r \in Existing :
    snapshot[r] # None /\ record[r].doi # None =>
      record'[r] # None /\ record'[r].doi = record[r].doi

ReadDoisHold ==
  \A r \in Records : snapshot[r] # None /\ snapshot[r].model.doi # None =>
    record[r] # None /\ record[r].doi = snapshot[r].model.doi

LEMMA NextReadDois ==
  ASSUME TypeOK, ReadDoisHold, [Next]_vars, [ReadDoisStay]_vars
  PROVE  ReadDoisHold'
<1> SUFFICES ASSUME NEW r \in Records, snapshot'[r] # None,
                    snapshot'[r].model.doi # None
             PROVE  record'[r] # None /\ record'[r].doi = snapshot'[r].model.doi
  BY DEF ReadDoisHold
<1>1. CASE TakeSnapshot
  <2>1. UNCHANGED record
    BY <1>1 DEF TakeSnapshot, tables
  <2>2. snapshot'[r].model = RecordModel(r) /\ r \in Existing
    <3>1. r \in Existing /\ snapshot'[r] = [model |-> RecordModel(r),
                                           timestamp |-> MaxTimestamp(r)]
      BY <1>1, TakeSnapshotIs, Zenon
    <3> QED
      BY <3>1
  <2>3. RecordModel(r).doi = record[r].doi
    BY DEF RecordModel
  <2> QED
    BY <2>1, <2>2, <2>3 DEF Existing
<1>2. CASE ~TakeSnapshot
  <2>1. snapshot'[r] = snapshot[r]
    BY <1>2 DEF Next, ApiStep, Publish, PublisherNext, PublisherStep, SyncRecord,
         SaveGlobalData, SelectUnsynced, MirrorRecord, MirrorFails, MirrorDone,
         Abort, Crash, Stop, NextDay, vars, pubVars
  <2>2. record[r] # None /\ record[r].doi = snapshot[r].model.doi
    BY <2>1 DEF ReadDoisHold
  <2> QED
    BY <2>1, <2>2 DEF ReadDoisStay, Existing, vars, tables
<1> QED
  BY <1>1, <1>2

LEMMA NextDoisHeld ==
  ASSUME ConstraintsInv, ConstraintsInv', RegisteredDoiIsHeld, ReadDoisHold,
         [Next]_vars
  PROVE  RegisteredDoiIsHeld'
<1>1. TypeOK
  BY DEF ConstraintsInv
<1> SUFFICES ASSUME NEW r \in Records, published'[r] # None, published'[r].doi # None
             PROVE  record'[r].doi = published'[r].doi
  BY DEF RegisteredDoiIsHeld
<1>2. CASE published'[r] = published[r]
  <2>1. record[r].doi = published[r].doi
    BY <1>2 DEF RegisteredDoiIsHeld
  <2>2. KeepsPublication \/ UNCHANGED vars
    BY NextKeepsPublication
  <2> QED
    BY <1>2, <2>1, <2>2 DEF KeepsPublication, vars, tables
<1>3. CASE published'[r] # published[r] /\ Publish /\ SyncRecord(r)
           /\ published'[r] = RegisterAfter(Current, r)
  <2>1. published'[r] = [doi |-> snapshot[r].model.doi]
    BY <1>3 DEF RegisterAfter, PublishedAfter
  <2>2. UNCHANGED record
    BY <1>3, PublishKeepsRecords
  <2>3. CASE snapshot[r] # None
    BY <2>1, <2>2, <2>3 DEF ReadDoisHold
  <2>4. snapshot[r] # None
    BY <1>1, <1>3 DEF SyncRecord, TypeOK
  <2> QED
    BY <2>3, <2>4
<1> QED
  BY <1>1, <1>2, <1>3, RegisterSteps

(* With any number of API processes: as long as no record loses its DOI    *)
(* while the publisher works on what it has read, the DOI in the register  *)
(* is the DOI of the record registered with it (published_record).         *)
THEOREM DoisAreHeld == Spec /\ [][ReadDoisStay]_vars => []RegisteredDoiIsHeld
<1>1. Init => ConstraintsInv /\ ReadDoisHold /\ RegisteredDoiIsHeld
  <2>1. Init => ReadDoisHold /\ RegisteredDoiIsHeld
    BY DEF Init, TablesInit, PublisherInit, ReadDoisHold, RegisteredDoiIsHeld
  <2> QED
    BY <2>1, ConstraintsInit
<1>2. ConstraintsInv /\ ReadDoisHold /\ [Next]_vars /\ [ReadDoisStay]_vars
        => ReadDoisHold'
  BY NextReadDois DEF ConstraintsInv
<1>3. (/\ ConstraintsInv /\ ConstraintsInv' /\ ReadDoisHold /\ RegisteredDoiIsHeld
       /\ [Next]_vars)
        => RegisteredDoiIsHeld'
  BY NextDoisHeld
<1>4. ConstraintsInv /\ [Next]_vars => ConstraintsInv'
  BY ConstraintsKept
<1> QED
  BY <1>1, <1>2, <1>3, <1>4, PTL DEF Spec

(***************************************************************************)
(* The parts that MIMS lists.                                              *)
(***************************************************************************)

Children(r) == {x \in Existing : record[x].parent = r}

(* The children of r are in its collection. *)
Together(r) == \A x \in Children(r) : record[x].collection = record[r].collection

(* What the publisher has seen of the children of r is what they are.      *)
ChildrenSeen(r) ==
  \A x \in Children(r) :
    IF snapshot[x] # None THEN snapshot[x].model = RecordModel(x)
    ELSE catalogRecord[Current][x] # None =>
           catalogRecord[Current][x].published = CanPublish(Current, RecordModel(x))

(* A snapshot as recent as its record is as recent as the children.        *)
ReadTogether ==
  \A r \in Existing :
    snapshot[r] # None /\ snapshot[r].timestamp = MaxTimestamp(r) /\ Together(r) =>
      ChildrenSeen(r)

(* So is a catalog record.                                                 *)
PublicParts(c, r) ==
  {record[x].doi : x \in {y \in Children(r) : CanPublish(c, RecordModel(y))}}

ListsParts(c, r) ==
  LET e == catalogRecord[c][r]
  IN  e # None /\ e.published /\ e.timestamp = MaxTimestamp(r) /\ Together(r) =>
        e.form.parts = PublicParts(c, r)

PartsHold == \A c \in Catalogs \cap {"MIMS"}, r \in Existing : ListsParts(c, r)

(* Snapshots are taken of one catalog at a time.                           *)
SnapshotPhase ==
  \A r \in Records : snapshot[r] # None => phase \in {"sync", "global"}

PartsInv == SnapshotPhase /\ ReadTogether /\ PartsHold

(* A record whose children did not change.                                 *)
ChildrenKept(r) ==
  /\ record[r] # None /\ record'[r] = record[r]
  /\ MaxTimestamp(r)' = MaxTimestamp(r)
  /\ Children(r)' = Children(r)
  /\ \A x \in Children(r) : /\ record'[x].doi = record[x].doi
                            /\ RecordModel(x)' = RecordModel(x)
  /\ Together(r)

(* A commit leaves the children of a record alone, or makes the record     *)
(* later than the request.                                                 *)
LEMMA CommitChildren ==
  ASSUME TypeOK, TypeOK', ParentStamped', NEW w \in Workers, Commit(w),
         Covers(tx[w]), NEW r \in Records, record'[r] # None, Together(r)'
  PROVE  /\ MaxTimestamp(r)' \in Nat
         /\ MaxTimestamp(r)' >= tx[w].at \/ ChildrenKept(r)
<1>1. MaxTimestamp(r)' \in Nat /\ tx[w].at \in Nat
  BY CommitView, StampTypes DEF Commit
<1> SUFFICES ASSUME ~(MaxTimestamp(r)' >= tx[w].at)
             PROVE  ChildrenKept(r)
  BY <1>1
<1>2. /\ record[r] # None /\ record'[r] = record[r]
      /\ MaxTimestamp(r)' = MaxTimestamp(r)
      /\ RecordModel(r)' = RecordModel(r)
  BY CommitView
<1>3. /\ Children(r)' = Children(r)
      /\ \A x \in Children(r) : record'[x].doi = record[x].doi
  <2>1. RecordModel(r).children = [x \in Children(r) |-> record[x].doi]
    BY DEF RecordModel, Children
  <2>2. RecordModel(r)'.children = [x \in Children(r)' |-> record'[x].doi]
    BY DEF RecordModel, Children
  <2> QED
    BY <1>2, <2>1, <2>2
<1>4. ASSUME NEW x \in Children(r)
      PROVE  RecordModel(x)' = RecordModel(x) /\ record'[x] = record[x]
  <2>1. /\ x \in Records /\ record'[x] # None /\ record'[x].parent = r
        /\ record'[x].collection = record'[r].collection
    BY <1>3 DEF Children, Together, Existing
  <2>2. timestamp'[x] <= timestamp'[r]
    BY <2>1, TablesAssumption DEF ParentStamped, Existing, Objects
  <2>3. MaxTimestamp(x)' <= MaxTimestamp(r)'
    <3> PICK c : c = record'[r].collection
      OBVIOUS
    <3> PICK p : p = collection'[c].provider
      OBVIOUS
    <3>1. c \in Collections /\ p \in Providers
      BY DEF TypeOK, TablesTypeOK, Row, CollectionRow
    <3>2. {timestamp'[c], timestamp'[p], timestamp'[r], timestamp'[x]} \subseteq Nat
      BY <2>1, <3>1 DEF TypeOK, TablesTypeOK, Objects
    <3>3. /\ MaxTimestamp(r)' = Greatest(timestamp'[c], timestamp'[p], timestamp'[r])
          /\ MaxTimestamp(x)' = Greatest(timestamp'[c], timestamp'[p], timestamp'[x])
      BY <2>1 DEF MaxTimestamp
    <3> QED
      BY <2>2, <3>2, <3>3 DEF Greatest
  <2>4. MaxTimestamp(x)' \in Nat
    BY <2>1, CommitView
  <2>5. ~(MaxTimestamp(x)' >= tx[w].at)
    BY <1>1, <2>3, <2>4
  <2> QED
    BY <2>1, <2>5, CommitView
<1>5. Together(r)
  BY <1>2, <1>3, <1>4 DEF Together
<1> QED
  BY <1>2, <1>3, <1>4, <1>5 DEF ChildrenKept

LEMMA CommitParts ==
  ASSUME \A v, w \in Workers : v = w, FreshnessInv, TypeOK', ParentStamped',
         PartsInv, NEW w \in Workers, Commit(w), UNCHANGED pubVars
  PROVE  PartsInv'
<1> PICK t : t = tx[w]
  OBVIOUS
<1>1. TypeOK /\ t # None /\ t.at = now /\ Covers(t) /\ t.at \in Nat
  BY StampTypes DEF Commit, FreshnessInv, PendingCovers
<1>2. Current' = Current /\ Current \in Catalogs
  BY <1>1, CurrentIsCatalog DEF Current, pubVars
<1>3. \A c \in Catalogs, x \in Records :
        catalogRecord'[c][x] # None => catalogRecord'[c][x] = catalogRecord[c][x]
  BY DEF Commit
<1>4. SnapshotPhase'
  BY DEF PartsInv, SnapshotPhase, pubVars
<1>5. ASSUME NEW r \in Records, record'[r] # None, Together(r)', NEW ts \in Nat,
             ts < t.at, ts = MaxTimestamp(r)'
      PROVE  ChildrenKept(r) /\ r \in Existing /\ ts = MaxTimestamp(r)
  <2>1. ChildrenKept(r)
    BY <1>1, <1>5, CommitChildren
  <2> QED
    BY <1>5, <2>1 DEF ChildrenKept, Existing
<1>6. ReadTogether'
  <2> SUFFICES ASSUME NEW r \in Records, record'[r] # None, snapshot[r] # None,
                      snapshot[r].timestamp = MaxTimestamp(r)', Together(r)'
               PROVE  ChildrenSeen(r)'
    BY DEF ReadTogether, Existing, pubVars
  <2>1. snapshot[r].timestamp \in Nat /\ snapshot[r].timestamp < t.at
    BY <1>1, StampTypes DEF FreshnessInv, StampsArePast, Past
  <2>2. ChildrenKept(r) /\ r \in Existing /\ snapshot[r].timestamp = MaxTimestamp(r)
    BY <1>5, <2>1
  <2>3. ChildrenSeen(r)
    BY <2>2 DEF PartsInv, ReadTogether, ChildrenKept
  <2>4. \A x \in Children(r) : x \in Records
    BY DEF Children, Existing
  <2> QED
    BY <1>2, <1>3, <2>2, <2>3, <2>4 DEF ChildrenKept, ChildrenSeen, pubVars
<1>7. PartsHold'
  <2> SUFFICES ASSUME NEW c \in Catalogs \cap {"MIMS"}, NEW r \in Records,
                      record'[r] # None, catalogRecord'[c][r] # None,
                      catalogRecord'[c][r].published,
                      catalogRecord'[c][r].timestamp = MaxTimestamp(r)', Together(r)'
               PROVE  catalogRecord'[c][r].form.parts = PublicParts(c, r)'
    BY DEF PartsHold, ListsParts, Existing
  <2> PICK e : e = catalogRecord[c][r]
    OBVIOUS
  <2>1. catalogRecord'[c][r] = e /\ e # None
    BY <1>3
  <2>2. e.timestamp \in Nat /\ e.timestamp < t.at
    BY <1>1, <2>1, StampTypes DEF FreshnessInv, StampsArePast, Past
  <2>3. ChildrenKept(r) /\ r \in Existing /\ e.timestamp = MaxTimestamp(r)
    BY <1>5, <2>1, <2>2
  <2>4. e.form.parts = PublicParts(c, r)
    BY <2>1, <2>3 DEF PartsInv, PartsHold, ListsParts, ChildrenKept
  <2>5. PublicParts(c, r)' = PublicParts(c, r)
    BY <2>3 DEF ChildrenKept, PublicParts
  <2> QED
    BY <2>1, <2>4, <2>5
<1> QED
  BY <1>4, <1>6, <1>7 DEF PartsInv

LEMMA ChildrenUnchanged ==
  ASSUME UNCHANGED read
  PROVE  /\ \A r : Children(r)' = Children(r) /\ (Together(r)' <=> Together(r))
         /\ \A c, r : PublicParts(c, r)' = PublicParts(c, r)
<1>1. /\ Existing' = Existing
      /\ \A r : RecordModel(r)' = RecordModel(r)
  BY ReadUnchanged
<1>2. \A r : Children(r)' = Children(r) /\ (Together(r)' <=> Together(r))
  BY <1>1 DEF Children, Together, read
<1> QED
  BY <1>1, <1>2 DEF PublicParts, read

(* A snapshot taken now shows the children as they are, and a child that   *)
(* is not in it has an entry that does.                                    *)
LEMMA TakeSnapshotSees ==
  ASSUME FreshnessInv, TakeSnapshot, phase' = "sync", NEW r \in Existing
  PROVE  ChildrenSeen(r)'
<1>1. PICK c \in Catalogs : c = Current'
  BY TakeSnapshotIs DEF FreshnessInv
<1>2. UNCHANGED read /\ UNCHANGED catalogRecord
  BY DEF TakeSnapshot, read, tables
<1>3. /\ Existing' = Existing /\ Children(r)' = Children(r)
      /\ \A x : RecordModel(x)' = RecordModel(x)
  BY <1>2, ReadUnchanged, ChildrenUnchanged
<1> SUFFICES ASSUME NEW x \in Children(r)
             PROVE  IF snapshot'[x] # None THEN snapshot'[x].model = RecordModel(x)
                    ELSE catalogRecord[c][x] # None =>
                           catalogRecord[c][x].published = CanPublish(c, RecordModel(x))
  BY <1>1, <1>2, <1>3 DEF ChildrenSeen
<1>4. x \in Existing /\ x \in Records
  BY DEF Children, Existing
<1>5. snapshot'[x] = IF Selected(c, x)
                     THEN [model |-> RecordModel(x), timestamp |-> MaxTimestamp(x)]
                     ELSE None
  BY <1>1, <1>4, TakeSnapshotIs DEF FreshnessInv
<1>6. CASE Selected(c, x)
  <2>1. snapshot'[x] = [model |-> RecordModel(x), timestamp |-> MaxTimestamp(x)]
    BY <1>5, <1>6
  <2>2. snapshot'[x] \in Shot
    BY <1>4, <2>1, RecordModelType, MaxTimestampType DEF FreshnessInv, TypeOK, Shot
  <2> QED
    BY <2>1, <2>2, NoneAssumption
<1>7. CASE ~Selected(c, x)
  <2>1. snapshot'[x] = None
    BY <1>5, <1>7
  <2>2. Fresh(c, x)
    BY <1>4, <1>7, FreshnessInvImplies DEF NotSelectedIsFresh
  <2> QED
    BY <2>1, <2>2 DEF Fresh
<1> QED
  BY <1>6, <1>7

(* The parts of an entry made from a snapshot that holds.                  *)
LEMMA EntryListsParts ==
  ASSUME FreshnessInv, PartsInv, NEW r \in Existing, snapshot[r] # None,
         snapshot[r].timestamp = MaxTimestamp(r), Together(r),
         Current = "MIMS", CanSync(Current, r),
         CanPublish(Current, snapshot[r].model)
  PROVE  EntryFor(Current, r).form.parts = PublicParts(Current, r)
<1> PICK c : c = Current
  OBVIOUS
<1> PICK m : m = RecordModel(r)
  OBVIOUS
<1>1. snapshot[r].model = m
  BY DEF FreshnessInv, SnapshotsHold
<1>2. EntryFor(c, r).form = PublishedForm(c, m)
  BY <1>1 DEF EntryFor
<1>3. PublishedForm(c, m).parts = Parts(c, m)
  BY DEF PublishedForm
<1>4. m.children = [x \in Children(r) |-> record[x].doi]
  BY DEF RecordModel, Children
<1>5. ChildrenSeen(r)
  BY DEF PartsInv, ReadTogether
<1>6. \A x \in Children(r) : snapshot[x] # None \/ catalogRecord[c][x] # None
  BY <1>1, <1>4 DEF CanSync, ChildKnown
<1>7. \A x \in Children(r) : ChildPublished(c, x) = CanPublish(c, RecordModel(x))
  BY <1>5, <1>6 DEF ChildrenSeen, ChildPublished
<1>8. Parts(c, m) = {m.children[x] : x \in {y \in DOMAIN m.children : ChildPublished(c, y)}}
  BY DEF Parts
<1>9. Parts(c, m) = PublicParts(c, r)
  BY <1>4, <1>7, <1>8 DEF PublicParts
<1> QED
  BY <1>2, <1>3, <1>9

LEMMA PublishParts ==
  ASSUME FreshnessInv, PartsInv, UNCHANGED apiVars, UNCHANGED read,
         Publish \/ UNCHANGED vars
  PROVE  PartsInv'
<1>1. TypeOK /\ Current \in Catalogs
  BY CurrentIsCatalog DEF FreshnessInv
<1>2. /\ Existing' = Existing
      /\ \A r : MaxTimestamp(r)' = MaxTimestamp(r)
      /\ \A r : RecordModel(r)' = RecordModel(r)
      /\ \A r : Children(r)' = Children(r) /\ (Together(r)' <=> Together(r))
      /\ \A c, r : PublicParts(c, r)' = PublicParts(c, r)
  BY ReadUnchanged, ChildrenUnchanged
<1>3. [Next]_vars
  BY DEF Next
<1>4. SnapshotPhase'
  <2>1. CASE TakeSnapshot
    BY <1>1, <2>1, TakeSnapshotIs DEF SnapshotPhase
  <2>2. CASE ~TakeSnapshot
    BY <2>2 DEF PartsInv, SnapshotPhase, Publish, PublisherNext, PublisherStep,
         SyncRecord, SaveGlobalData, SelectUnsynced, MirrorRecord, MirrorFails,
         MirrorDone, NextCatalog, Abort, Crash, Stop, NextDay, vars, pubVars
  <2> QED
    BY <2>1, <2>2
<1>5. ASSUME NEW r \in Existing, snapshot'[r] # None,
             snapshot'[r].timestamp = MaxTimestamp(r), Together(r)
      PROVE  ChildrenSeen(r)'
  <2>1. r \in Records
    BY DEF Existing
  <2>2. CASE TakeSnapshot
    <3>1. phase' = "sync"
      BY <1>1, <1>5, <2>1, <2>2, TakeSnapshotIs
    <3> QED
      BY <2>2, <3>1, TakeSnapshotSees
  <2>3. CASE ~TakeSnapshot
    <3>1. UNCHANGED snapshot /\ phase \in {"sync", "global"}
      <4>1. snapshot' = snapshot \/ snapshot' = [q \in Records |-> None]
        BY <2>3 DEF Publish, PublisherNext, PublisherStep, SyncRecord,
             SaveGlobalData, SelectUnsynced, MirrorRecord, MirrorFails, MirrorDone,
             Abort, Crash, Stop, NextDay, vars, pubVars
      <4>2. UNCHANGED snapshot
        BY <1>5, <2>1, <4>1
      <4> QED
        BY <1>5, <2>1, <4>2 DEF PartsInv, SnapshotPhase
    <3>2. UNCHANGED at
      <4>1. ~SaveGlobalData /\ ~Stop
        BY <1>5, <2>1 DEF SaveGlobalData, Stop
      <4> QED
        BY <2>3, <3>1, <4>1 DEF Publish, PublisherNext, PublisherStep, SyncRecord,
             SelectUnsynced, MirrorRecord, MirrorFails, MirrorDone, Abort, Crash,
             NextDay, vars, pubVars
    <3>3. Current' = Current
      BY <3>2 DEF Current
    <3>4. ChildrenSeen(r)
      BY <1>5, <3>1 DEF PartsInv, ReadTogether
    <3>5. ASSUME NEW x \in Children(r), snapshot[x] = None,
                 catalogRecord'[Current][x] # None
          PROVE  /\ catalogRecord[Current][x] # None
                 /\ catalogRecord'[Current][x].published
                      = catalogRecord[Current][x].published
      <4>1. x \in Records
        BY DEF Children, Existing
      <4>2. ~SyncRecord(x)
        BY <1>1, <3>5 DEF SyncRecord, TypeOK
      <4> QED
        BY <1>1, <1>3, <3>5, <4>1, <4>2, EntrySteps DEF EntryKept, SameContent
    <3> QED
      BY <1>2, <3>1, <3>3, <3>4, <3>5 DEF ChildrenSeen
  <2> QED
    BY <2>2, <2>3
<1>6. ReadTogether'
  BY <1>2, <1>5 DEF ReadTogether
<1>7. ASSUME NEW c \in Catalogs \cap {"MIMS"}, NEW r \in Existing,
             catalogRecord'[c][r] # None, catalogRecord'[c][r].published,
             catalogRecord'[c][r].timestamp = MaxTimestamp(r), Together(r)
      PROVE  catalogRecord'[c][r].form.parts = PublicParts(c, r)
  <2>1. r \in Records /\ c \in Catalogs /\ c = "MIMS"
    BY DEF Existing
  <2>2. CASE EntryKept(c, r)
    BY <1>7, <2>2 DEF EntryKept, SameContent, PartsInv, PartsHold, ListsParts
  <2>3. CASE c = Current /\ SyncRecord(r) /\ catalogRecord'[c][r] = EntryFor(c, r)
    <3>1. /\ EntryFor(c, r).published = CanPublish(c, snapshot[r].model)
          /\ EntryFor(c, r).timestamp = snapshot[r].timestamp
      BY DEF EntryFor
    <3>2. snapshot[r] # None /\ CanSync(Current, r)
      BY <1>1, <2>3 DEF SyncRecord, TypeOK
    <3> QED
      BY <1>7, <2>1, <2>3, <3>1, <3>2, EntryListsParts
  <2> QED
    BY <1>1, <1>3, <1>7, <2>1, <2>2, <2>3, EntrySteps
<1>8. PartsHold'
  BY <1>2, <1>7 DEF PartsHold, ListsParts
<1> QED
  BY <1>4, <1>6, <1>8 DEF PartsInv

LEMMA NextParts ==
  ASSUME \A v, w \in Workers : v = w, FreshnessInv, TypeOK', ParentStamped',
         PartsInv, [Next]_vars
  PROVE  PartsInv'
<1>1. CASE ApiStep
  <2>1. PICK w \in Workers : Opens(w) \/ Commit(w) \/ Rollback(w)
    BY <1>1, ApiSteps DEF ApiStep, FreshnessInv
  <2>2. CASE Commit(w)
    BY <1>1, <2>2, CommitParts DEF ApiStep
  <2>3. CASE Opens(w) \/ Rollback(w)
    <3>1. UNCHANGED tables /\ UNCHANGED pubVars
      BY <1>1, <2>3 DEF ApiStep, Opens, Begin, Rollback
    <3>2. UNCHANGED read
      BY <3>1 DEF tables, read
    <3>3. /\ Existing' = Existing
          /\ \A r : MaxTimestamp(r)' = MaxTimestamp(r)
          /\ \A r : RecordModel(r)' = RecordModel(r)
          /\ \A r : Children(r)' = Children(r) /\ (Together(r)' <=> Together(r))
          /\ \A c, r : PublicParts(c, r)' = PublicParts(c, r)
      BY <3>2, ReadUnchanged, ChildrenUnchanged
    <3>4. SnapshotPhase' /\ ReadTogether'
      BY <3>1, <3>3 DEF PartsInv, SnapshotPhase, ReadTogether, ChildrenSeen, Current,
           pubVars, tables
    <3>5. PartsHold'
      BY <3>1, <3>3 DEF PartsInv, PartsHold, ListsParts, tables
    <3> QED
      BY <3>4, <3>5 DEF PartsInv
  <2> QED
    BY <2>1, <2>2, <2>3
<1>2. CASE Publish \/ UNCHANGED vars
  <2>1. UNCHANGED read /\ UNCHANGED apiVars
    BY <1>2 DEF Publish, PublisherNext, PublisherStep, TakeSnapshot, SyncRecord,
         SaveGlobalData, SelectUnsynced, MirrorRecord, MirrorFails, MirrorDone,
         Abort, Crash, Stop, NextDay, tables, read, vars
  <2> QED
    BY <1>2, <2>1, PublishParts
<1> QED
  BY <1>1, <1>2 DEF Next

(* When nothing is due for another look, the entry and the children are    *)
(* as recent as the records.                                               *)
LEMMA PartsInvImplies ==
  ASSUME FreshnessInv, PartsInv
  PROVE  PartsAreListed
<1> SUFFICES ASSUME NEW c \in Catalogs \cap {"MIMS"}, NEW r \in Existing, Together(r),
                    \A x \in Children(r) \cup {r} : ~Selected(c, x),
                    catalogRecord[c][r].published
             PROVE  catalogRecord[c][r].form.parts =
                      {record[x].doi :
                         x \in {y \in Children(r) : catalogRecord[c][y].published}}
  BY DEF PartsAreListed, Children, Together
<1>1. \A x \in Children(r) : catalogRecord[c][x].published = CanPublish(c, RecordModel(x))
  <2>1. \A x \in Children(r) : x \in Existing
    BY DEF Children
  <2> QED
    BY <2>1, FreshnessInvImplies DEF NotSelectedIsFresh, Fresh
<1>2. catalogRecord[c][r] # None /\ ~(catalogRecord[c][r].timestamp < MaxTimestamp(r))
  BY DEF Selected
<1>3. r \in Records /\ MaxTimestamp(r) \in Nat /\ catalogRecord[c][r].timestamp \in Nat
  BY <1>2, MaxTimestampType, StampTypes DEF FreshnessInv, TypeOK, Existing
<1>4. catalogRecord[c][r].timestamp = MaxTimestamp(r)
  BY <1>2, <1>3 DEF FreshnessInv, EntriesHold
<1>5. catalogRecord[c][r].form.parts = PublicParts(c, r)
  BY <1>2, <1>4 DEF PartsInv, PartsHold, ListsParts
<1> QED
  BY <1>1, <1>5 DEF PublicParts

(* With one API process, MIMS lists for a record its published children,   *)
(* once none of them is due for another look (_get_published_children).    *)
THEOREM PartsFollow ==
  ASSUME \A v, w \in Workers : v = w
  PROVE  Spec => []PartsAreListed
<1>1. Init => PartsInv
  BY DEF Init, TablesInit, PublisherInit, PartsInv, SnapshotPhase, ReadTogether,
         PartsHold, ListsParts, Existing
<1>2. FreshnessInv /\ TypeOK' /\ ParentStamped' /\ PartsInv /\ [Next]_vars => PartsInv'
  BY NextParts
<1>3. FreshnessInv /\ PartsInv => PartsAreListed
  BY PartsInvImplies
<1> QED
  BY <1>1, <1>2, <1>3, TypeCorrect, StampsTell, ChangesReachParents, PTL DEF Spec
=============================================================================
