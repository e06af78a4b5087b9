------------------------------ MODULE OdpTables ------------------------------
(***************************************************************************)
(* The database tables that the ODP API writes and the catalog publisher   *)
(* reads: committed state only, one row per primary key.  Collections and  *)
(* providers exist throughout; records come and go.                        *)
(***************************************************************************)
EXTENDS Integers, FiniteSets

CONSTANTS
  Records,            \* record ids
  Collections,        \* collection ids
  Providers,          \* provider ids
  DOIs,               \* DOIs, up to case (they are compared with lower())
  SIDs,               \* secondary ids
  Keys,               \* collection and provider keys
  Catalogs,           \* catalog ids
  None,               \* SQL NULL, and the value of a row that does not exist
  InitialRecord,      \* the rows the database starts with (all stamped 0) ...
  InitialTags,        \* ... with the tags attached to records and collections
  InitialCollection,
  InitialProvider

VARIABLES
  record,         \* table record: None or [doi, sid, collection, metadata, parent]
  collection,     \* table collection: [key, provider]
  provider,       \* table provider: [key]
  tags,           \* tables record_tag and collection_tag, as rows of their owner
  timestamp,      \* column timestamp of record, collection and provider
  published,      \* table published_record: None or [doi]
  catalogRecord,  \* table catalog_record, per catalog and record
  audit           \* the last audit entry of each record, collection, provider and tag

tables == <<record, collection, provider, tags, timestamp, published,
            catalogRecord, audit>>

Objects == Records \cup Collections \cup Providers
Owners == Records \cup Collections

(* metadata.partOf stands for the DOIs of the IsPartOf related identifiers. *)
Metadata == [valid : BOOLEAN, partOf : SUBSET DOIs]

(* RecordModelIn: a record has a DOI or a SID (record_doi_sid_check). *)
RecordBody ==
  {b \in [doi : DOIs \cup {None}, sid : SIDs \cup {None},
          collection : Collections, metadata : Metadata] :
     b.doi # None \/ b.sid # None}

Row == [doi : DOIs \cup {None}, sid : SIDs \cup {None},
        collection : Collections, metadata : Metadata,
        parent : Records \cup {None}]

CollectionRow == [key : Keys, provider : Providers]
ProviderRow == [key : Keys]

(* Tags by type (migrate/systemdata/tags.yml): those the code asks for.     *)
RecordTags ==
  {"Record.Migrated", "Record.QC", "Record.Retracted", "Record.Embargo",
   "Record.NotSearchable"}
CollectionTags ==
  {"Collection.Published", "Collection.Harvested", "Collection.Frozen",
   "Collection.Infrastructure", "Collection.NotSearchable"}
TagNames == RecordTags \cup CollectionTags

(* A tag instance; data is abstract, the owner is the table's foreign key.  *)
TagRow == [id : Nat, tag : TagNames, user : STRING, data : STRING, ts : Nat]

(* Unique columns and foreign keys of the table record. *)
WellFormed(rows) ==
  \A r \in {x \in Records : rows[x] # None} :
    /\ \A s \in {x \in Records : rows[x] # None} \ {r} :
         /\ rows[r].doi # None => rows[s].doi # rows[r].doi
         /\ rows[r].sid # None => rows[s].sid # rows[r].sid
    /\ rows[r].parent # None => rows[rows[r].parent] # None

DistinctKeys(rows) ==
  \A x, y \in DOMAIN rows : x # y => rows[x].key # rows[y].key

ASSUME TablesAssumption ==
  /\ Records \cap Collections = {}
  /\ Records \cap Providers = {}
  /\ Collections \cap Providers = {}
  /\ None \notin Objects \cup DOIs \cup SIDs \cup Row
                  \cup CollectionRow \cup ProviderRow
  /\ InitialRecord \in [Records -> Row \cup {None}]
  /\ WellFormed(InitialRecord)
  /\ InitialCollection \in [Collections -> CollectionRow]
  /\ InitialProvider \in [Providers -> ProviderRow]
  /\ InitialTags \in [Owners -> SUBSET TagRow]
  /\ \A o \in Owners : \A t \in InitialTags[o] :
       /\ t.ts = 0
       /\ t.tag \in IF o \in Records THEN RecordTags ELSE CollectionTags

TablesInit ==
  /\ record = InitialRecord
  /\ collection = InitialCollection
  /\ provider = InitialProvider
  /\ tags = InitialTags
  /\ timestamp = [o \in Objects |-> 0]
  /\ published = [r \in Records |-> None]
  /\ catalogRecord = [c \in Catalogs |-> [r \in Records |-> None]]
  /\ audit = [r \in {x \in Records : InitialRecord[x] # None} |->
                [command |-> "insert", image |-> InitialRecord[r]]]

Existing == {r \in Records : record[r] # None}

(* The greatest of the timestamps a record's public form depends on. *)
Greatest(a, b, c) ==
  IF a >= b /\ a >= c THEN a ELSE IF b >= c THEN b ELSE c

MaxTimestamp(r) ==
  LET c == record[r].collection
  IN  Greatest(timestamp[c], timestamp[collection[c].provider], timestamp[r])

(* output_record_model: what the publisher snapshots of a record.          *)
RecordModel(r) ==
  LET row == record[r]
      c   == row.collection
  IN  [doi        |-> row.doi,
       sid        |-> row.sid,
       collection |-> collection[c].key,
       provider   |-> provider[collection[c].provider].key,
       metadata   |-> row.metadata,
       children   |-> [x \in {y \in Existing : record[y].parent = r} |->
                         record[x].doi],
       tags       |-> tags[c] \cup tags[r],
       timestamp  |-> timestamp[r]]
=============================================================================
