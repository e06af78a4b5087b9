------------------------------ MODULE RecordApi ------------------------------
(***************************************************************************)
(* The API handlers that change records, their tags, and the collections   *)
(* and providers they belong to.  A handler runs in one transaction: it    *)
(* reads committed rows, takes a timestamp and flushes its writes (Handle  *)
(* actions, which leave the writes in tx); the middleware then commits     *)
(* (Commit) unless a constraint of the database refuses, or rolls back.    *)
(* A worker serves one request at a time; Workers are processes.           *)
(***************************************************************************)
EXTENDS OdpTables

CONSTANTS
  Workers,            \* API processes
  Users,              \* ids of the users who tag
  Routes,             \* subset of {"user", "admin"}: the routes requests use
  Bodies,             \* record request bodies that clients send
  RecordTagIns,       \* [tag, data] that clients attach to records
  CollectionTagIns,   \* [tag, data] that clients attach to collections
  CollectionIns,      \* collection request bodies
  ProviderIns,        \* provider request bodies
  MaxClock            \* bound on the number of timestamps handed out

VARIABLES
  now,   \* the last timestamp handed out by datetime.now()
  tx     \* per worker: None, or the writes of the request in progress

apiVars == <<now, tx>>

(* Cardinality of the tags (migrate/systemdata/tags.yml).                  *)
TagCardinality(tag) ==
  CASE tag \in {"Record.QC"} -> "user"
    [] tag \in {"Record.Embargo", "Collection.Infrastructure"} -> "multi"
    [] OTHER -> "one"

ASSUME ApiAssumption ==
  /\ None \notin Workers
  /\ Bodies \subseteq RecordBody
  /\ Routes \subseteq {"user", "admin"}
  /\ Users \subseteq STRING
  /\ RecordTagIns \subseteq [tag : RecordTags, data : STRING]
  /\ CollectionTagIns \subseteq [tag : CollectionTags, data : STRING]
  /\ CollectionIns \subseteq CollectionRow
  /\ ProviderIns \subseteq ProviderRow
  /\ MaxClock \in Nat

(* The writes of a request: a row of one table (base as the handler read   *)
(* it, new as it leaves it; None where there is none) and the objects it   *)
(* stamps.  The key of a tag row is its owner.                             *)
Write(table, key, base, new, stamped) ==
  [at |-> now + 1, table |-> table, key |-> key, base |-> base, new |-> new,
   stamped |-> stamped]

ApiInit == now = 0 /\ tx = [w \in Workers |-> None]

(***************************************************************************)
(* The parent link.                                                        *)
(***************************************************************************)

(* get_parent_id: a reference must name one other record by its DOI, or    *)
(* the request fails; there is no parent without a reference.  The DOI of  *)
(* the metadata is that of the record (RecordModelIn sets it).             *)
ParentIds(body) ==
  IF body.doi = None \/ body.metadata.partOf = {} THEN {None}
  ELSE {p \in Existing : /\ body.metadata.partOf = {record[p].doi}
                         /\ record[p].doi # body.doi}

(* Mutants: touch_parent does not recurse; it is not called.               *)
AncestorsNone(rows, r) == {}

AncestorsDirect(rows, r) ==
  IF rows[r] = None THEN {} ELSE {rows[r].parent} \ {None}

(* The records touch_parent visits from r along the links in rows.         *)
Ancestors(rows, r) ==
  LET ClosedAbove(S) ==
        \A x \in S \cup {r} :
          rows[x] # None /\ rows[x].parent # None => rows[x].parent \in S
  IN  {a \in Records : \A S \in SUBSET Records : ClosedAbove(S) => a \in S}

(* Mutant: touch_parent keeps note of where it was, and accepts a cycle.   *)
TouchEndsAnyhow(rows, r) == TRUE

(* touch_parent recurses for ever (RecursionError) when it meets a cycle.  *)
TouchEnds(rows, r) ==
  \A a \in Ancestors(rows, r) : a \notin Ancestors(rows, a)

(***************************************************************************)
(* Requests.                                                               *)
(***************************************************************************)

Begin(w, t) ==
  /\ tx[w] = None
  /\ now < MaxClock
  /\ now' = now + 1
  /\ tx' = [tx EXCEPT ![w] = t]
  /\ UNCHANGED tables

Frozen(c) == \E t \in tags[c] : t.tag = "Collection.Frozen"

(* Mutant: the flag of the collection is not looked at.                    *)
AdmittedAnyhow(route, c) == TRUE

Admitted(route, c) == route = "admin" \/ ~Frozen(c)

IdentifiersFree(r, body) ==
  \A s \in Existing \ {r} :
    /\ body.doi # None => record[s].doi # body.doi
    /\ body.sid # None => record[s].sid # body.sid

RowOf(body, parent) ==
  [doi |-> body.doi, sid |-> body.sid, collection |-> body.collection,
   metadata |-> body.metadata, parent |-> parent]

(* create_record, admin_create_record: POST, with a new id.                *)
CreateRecord(w, r, body, parent, route) ==
  LET row  == RowOf(body, parent)
      rows == [record EXCEPT ![r] = row]
  IN  /\ record[r] = None
      /\ Admitted(route, body.collection)
      /\ IdentifiersFree(r, body)
      /\ parent \in ParentIds(body)
      /\ TouchEnds(rows, r)
      /\ Begin(w, Write("record", r, None, row, {r} \cup Ancestors(rows, r)))

(* update_record, admin_set_record (which may create): PUT.                *)
SetRecord(w, r, body, parent, route) ==
  LET old    == record[r]
      create == old = None
      row    == RowOf(body, parent)
      rows   == [record EXCEPT ![r] = row]
      left   == IF create \/ old.parent = row.parent THEN {}
                ELSE Ancestors(record, r)
  IN  /\ create => route = "admin"
      /\ Admitted(route, body.collection)
      /\ IdentifiersFree(r, body)
      /\ ~create /\ old.doi # None /\ old.doi # body.doi =>
           \A s \in Records : published[s] # None => published[s].doi # old.doi
      /\ ~create => old # RowOf(body, old.parent)
      /\ parent \in ParentIds(body)
      /\ left = {} \/ TouchEnds(record, r)
      /\ TouchEnds(rows, r)
      /\ Begin(w, Write("record", r, old, row,
                        {r} \cup left \cup Ancestors(rows, r)))

(* delete_record, admin_delete_record.                                     *)
DeleteRecord(w, r, route) ==
  /\ record[r] # None
  /\ Admitted(route, record[r].collection)
  /\ published[r] = None
  /\ TouchEnds(record, r)
  /\ Begin(w, Write("record", r, record[r], None, Ancestors(record, r)))

(* Mutant: every user has an instance, whatever the cardinality.           *)
MatchingOfUser(owner, in, user) ==
  {t \in tags[owner] :
     t.tag = in.tag /\ TagCardinality(in.tag) # "multi" /\ t.user = user}

(* The tag instance an input updates, by the tag's cardinality.            *)
Matching(owner, in, user) ==
  {t \in tags[owner] :
     /\ t.tag = in.tag
     /\ TagCardinality(in.tag) # "multi"
     /\ TagCardinality(in.tag) = "user" => t.user = user}

(* The writes that attach a tag: two matches raise MultipleResultsFound,   *)
(* unchanged data write nothing.                                           *)
AttachTag(w, owner, in, user, stamped) ==
  \E old \in {None} \cup tags[owner] :
    LET row == [id |-> IF old = None THEN now + 1 ELSE old.id,
                tag |-> in.tag, user |-> user, data |-> in.data, ts |-> now + 1]
    IN  /\ Matching(owner, in, user) = IF old = None THEN {} ELSE {old}
        /\ old # None => old.data # in.data
        /\ Begin(w, Write("tag", owner, old, row, stamped))

RemoveTag(w, owner, t, stamped) == Begin(w, Write("tag", owner, t, None, stamped))

TagRecord(w, r, in, user) ==
  /\ record[r] # None
  /\ TouchEnds(record, r)
  /\ AttachTag(w, r, in, user, {r} \cup Ancestors(record, r))

(* untag_record, admin_untag_record: only the admin removes others' tags.  *)
UntagRecord(w, r, t, user, route) ==
  /\ record[r] # None
  /\ route = "admin" \/ t.user = user
  /\ TouchEnds(record, r)
  /\ RemoveTag(w, r, t, {r} \cup Ancestors(record, r))

TagCollection(w, c, in, user) == AttachTag(w, c, in, user, {c})

UntagCollection(w, c, t, user, route) ==
  /\ route = "admin" \/ t.user = user
  /\ RemoveTag(w, c, t, {c})

UpdateCollection(w, c, row) ==
  /\ \A d \in Collections \ {c} : collection[d].key # row.key
  /\ collection[c] # row
  /\ Begin(w, Write("collection", c, collection[c], row, {c}))

UpdateProvider(w, p, row) ==
  /\ \A q \in Providers \ {p} : provider[q].key # row.key
  /\ provider[p] # row
  /\ Begin(w, Write("provider", p, provider[p], row, {p}))

(***************************************************************************)
(* The end of the transaction.                                             *)
(***************************************************************************)

(* The ORM writes the columns that differ from what the handler read.      *)
Column(base, new, current) == IF new # base THEN new ELSE current

MergedRow(t) ==
  IF t.base = None \/ t.new = None THEN t.new
  ELSE LET cur == record[t.key]
       IN  [doi        |-> Column(t.base.doi, t.new.doi, cur.doi),
            sid        |-> Column(t.base.sid, t.new.sid, cur.sid),
            collection |-> Column(t.base.collection, t.new.collection,
                                  cur.collection),
            metadata   |-> Column(t.base.metadata, t.new.metadata, cur.metadata),
            parent     |-> Column(t.base.parent, t.new.parent, cur.parent)]

RowsAfter(t) ==
  IF t.table = "record" THEN [record EXCEPT ![t.key] = MergedRow(t)] ELSE record

TagId(t) == IF t.base = None THEN t.new.id ELSE t.base.id

(* The instance a request writes: an update of one sets its data and its   *)
(* time, which differ, and its user, who may be the same.                  *)
TagWritten(t) ==
  IF t.new = None THEN {}
  ELSE IF t.base = None THEN {t.new}
  ELSE {[t.new EXCEPT !.user = Column(t.base.user, t.new.user, x.user)] :
          x \in {y \in tags[t.key] : y.id = t.base.id}}

(* Deleting a record deletes its tags (ON DELETE CASCADE).                 *)
TagsAfter(t, o) ==
  IF o \in Records /\ RowsAfter(t)[o] = None THEN {}
  ELSE IF t.table # "tag" \/ t.key # o THEN tags[o]
  ELSE {x \in tags[o] : x.id # TagId(t)} \cup TagWritten(t)

CollectionsAfter(t) ==
  IF t.table = "collection"
  THEN [collection EXCEPT
          ![t.key] = [key      |-> Column(t.base.key, t.new.key, @.key),
                      provider |-> Column(t.base.provider, t.new.provider, @.provider)]]
  ELSE collection

ProvidersAfter(t) ==
  IF t.table = "provider"
  THEN [provider EXCEPT ![t.key] = [key |-> Column(t.base.key, t.new.key, @.key)]]
  ELSE provider

(* create_audit_record, create_tag_audit_record: the entry of the request. *)
AuditKey(t) == IF t.table = "tag" THEN TagId(t) ELSE t.key

(* Mutant: the entry of an update is made before the update.               *)
AuditEntryBefore(t) ==
  [command |-> IF t.base = None THEN "insert"
               ELSE IF t.new = None THEN "delete" ELSE "update",
   image   |-> IF t.base = None THEN t.new ELSE t.base]

AuditEntry(t) ==
  [command |-> IF t.base = None THEN "insert"
               ELSE IF t.new = None THEN "delete" ELSE "update",
   image   |-> IF t.new = None THEN t.base ELSE t.new]

(* Mutant: the foreign key on the DOI is missing.                          *)
KeepsPublishedIds(rows) ==
  \A r \in Records : published[r] # None => rows[r] # None

(* Foreign keys of published_record, which restrict deletes and updates.   *)
KeepsPublished(rows) ==
  \A r \in Records : published[r] # None =>
    /\ rows[r] # None
    /\ published[r].doi # None =>
         \E s \in Records : rows[s] # None /\ rows[s].doi = published[r].doi

(* Neither a constraint nor a row that went away in the meantime makes the *)
(* flush fail (IntegrityError, StaleDataError).                            *)
Accepted(t) ==
  LET rows == RowsAfter(t)
  IN  /\ t.table = "record" /\ t.new # None =>
           (t.base = None <=> record[t.key] = None)
      /\ \A r \in t.stamped \cap Records : rows[r] # None
      /\ t.table = "tag" /\ t.base # None /\ t.new # None =>
           \E x \in tags[t.key] : x.id = t.base.id
      /\ WellFormed(rows)
      /\ KeepsPublished(rows)
      /\ DistinctKeys(CollectionsAfter(t))
      /\ DistinctKeys(ProvidersAfter(t))

(* db_middleware: a response below 400 commits.  Deleting a record deletes *)
(* its catalog records (ON DELETE CASCADE).                                *)
Commit(w) ==
  LET t == tx[w]
  IN  /\ t # None
      /\ Accepted(t)
      /\ record' = RowsAfter(t)
      /\ tags' = [o \in Owners |-> TagsAfter(t, o)]
      /\ collection' = CollectionsAfter(t)
      /\ provider' = ProvidersAfter(t)
      /\ timestamp' = [o \in Objects |-> IF o \in t.stamped THEN t.at
                                         ELSE timestamp[o]]
      /\ catalogRecord' = [c \in Catalogs |-> [r \in Records |->
                             IF RowsAfter(t)[r] = None THEN None
                             ELSE catalogRecord[c][r]]]
      /\ audit' = [i \in (DOMAIN audit) \cup {AuditKey(t)} |->
                     IF i = AuditKey(t) THEN AuditEntry(t) ELSE audit[i]]
      /\ tx' = [tx EXCEPT ![w] = None]
      /\ UNCHANGED <<now, published>>

(* A refused flush, an error response or the end of the process.           *)
Rollback(w) ==
  /\ tx[w] # None
  /\ tx' = [tx EXCEPT ![w] = None]
  /\ UNCHANGED <<now, tables>>

ApiNext ==
  \E w \in Workers :
    \/ \E r \in Records, body \in Bodies, route \in Routes :
         \E parent \in ParentIds(body) :
           \/ CreateRecord(w, r, body, parent, route)
           \/ SetRecord(w, r, body, parent, route)
    \/ \E r \in Records, route \in Routes : DeleteRecord(w, r, route)
    \/ \E r \in Records, in \in RecordTagIns, user \in Users :
         TagRecord(w, r, in, user)
    \/ \E r \in Records, user \in Users, route \in Routes :
         \E t \in tags[r] : UntagRecord(w, r, t, user, route)
    \/ \E c \in Collections, in \in CollectionTagIns, user \in Users :
         TagCollection(w, c, in, user)
    \/ \E c \in Collections, user \in Users, route \in Routes :
         \E t \in tags[c] : UntagCollection(w, c, t, user, route)
    \/ \E c \in Collections, row \in CollectionIns : UpdateCollection(w, c, row)
    \/ \E p \in Providers, row \in ProviderIns : UpdateProvider(w, p, row)
    \/ Commit(w)
    \/ Rollback(w)

ApiStart == TablesInit /\ ApiInit

ApiSpec == ApiStart /\ [][ApiNext]_<<tables, apiVars>>

(***************************************************************************)
(* What the API promises, and finds in the database it starts on.          *)
(***************************************************************************)

Acyclic(rows) == \A r \in Records : r \notin Ancestors(rows, r)

(* Two instances of a tag that one owner may have.                         *)
Compatible(s, t) ==
  s.tag = t.tag =>
    \/ TagCardinality(t.tag) = "multi"
    \/ TagCardinality(t.tag) = "user" /\ s.user # t.user

CardinalityKept(instances) ==
  \A s, t \in instances : s # t => Compatible(s, t)

(* Ids are primary keys, and the ids of new tags are new; the audit log    *)
(* tells tags and objects apart.                                           *)
ASSUME StartAssumption ==
  /\ Acyclic(InitialRecord)
  /\ \A o \in Objects : o \notin Nat
  /\ \A o \in Owners : CardinalityKept(InitialTags[o])
  /\ \A o \in Owners : \A t \in InitialTags[o] : t.id \notin 1 .. MaxClock
  /\ \A o, p \in Owners : \A s \in InitialTags[o], t \in InitialTags[p] :
       s.id = t.id => o = p /\ s = t

(* No record is its own parent, directly or through others: touch_parent   *)
(* comes to an end for every record.                                       *)
ParentAcyclic == Acyclic(record)

(* A record is stamped no earlier than its children: whatever happened to  *)
(* a child since was also a change of the record (touch_parent).           *)
ParentStamped ==
  \A r \in Existing :
    record[r].parent # None => timestamp[r] <= timestamp[record[r].parent]

(* At most one instance of a tag per record or collection, or one per user *)
(* and record, as the tag's cardinality says.                              *)
TagCardinalityKept == \A o \in Owners : CardinalityKept(tags[o])

(* No user's request adds a record to a frozen collection, or changes one  *)
(* so that it belongs to a frozen collection; a frozen collection loses no *)
(* record by deletion.                                                     *)
FrozenAdmitsNone ==
  [][\A r \in Records : record'[r] # record[r] /\ "admin" \notin Routes =>
       IF record'[r] = None THEN ~Frozen(record[r].collection)
       ELSE ~Frozen(record'[r].collection)]_<<tables, apiVars>>

(* The audit log tells the present state: the last entry of a record, tag, *)
(* collection or provider shows it as it is, and a record without a row    *)
(* was either never seen or last seen being deleted.                       *)
AuditTells ==
  /\ \A r \in Records :
       IF record[r] = None
       THEN r \in DOMAIN audit => audit[r].command = "delete"
       ELSE /\ r \in DOMAIN audit
            /\ audit[r].command # "delete"
            /\ audit[r].image = record[r]
  /\ \A o \in Owners : \A t \in tags[o] :
       t.ts > 0 => /\ t.id \in DOMAIN audit
                   /\ audit[t.id].command # "delete"
                   /\ audit[t.id].image = t
  /\ \A c \in Collections \cap DOMAIN audit : audit[c].image = collection[c]
  /\ \A p \in Providers \cap DOMAIN audit : audit[p].image = provider[p]
=============================================================================
