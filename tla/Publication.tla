---------------------------- MODULE Publication ----------------------------
(***************************************************************************)
(* The API and the publisher on one database: what the public sees of the  *)
(* records, against what the records are.                                  *)
(***************************************************************************)
EXTENDS RecordApi, Publisher

vars == <<tables, apiVars, pubVars>>

Init == TablesInit /\ ApiInit /\ PublisherInit

ApiStep == ApiNext /\ UNCHANGED pubVars

Publish == PublisherNext /\ UNCHANGED apiVars

Next == ApiStep \/ Publish

Spec == Init /\ [][Next]_vars

(* Cron starts the publisher again and again, and it takes its steps; the  *)
(* API and DataCite owe nothing.                                           *)
FairSpec == Spec /\ WF_vars(PublisherStep /\ UNCHANGED apiVars)

(***************************************************************************)
(* Types.                                                                  *)
(***************************************************************************)

Model == [doi : DOIs \cup {None}, sid : SIDs \cup {None}, collection : Keys,
          provider : Keys, metadata : Metadata,
          children : UNION {[S -> DOIs \cup {None}] : S \in SUBSET Records},
          tags : SUBSET TagRow, timestamp : Nat]

Form == [model : Model, stripped : BOOLEAN, parts : SUBSET (DOIs \cup {None})]

Entry == [published : BOOLEAN, form : Form \cup {None}, searchable : BOOLEAN,
          timestamp : Nat, synced : BOOLEAN, errors : Nat]

Shot == [model : Model, timestamp : Nat]

Writes(table, keys, rows) ==
  [at : Nat, table : {table}, key : keys, base : rows, new : rows,
   stamped : SUBSET Objects]

Request ==
  Writes("record", Records, Row \cup {None})
    \cup Writes("tag", Owners, TagRow \cup {None})
    \cup Writes("collection", Collections, CollectionRow)
    \cup Writes("provider", Providers, ProviderRow)

ASSUME NoneAssumption ==
  None \notin TagRow \cup Form \cup Entry \cup Shot \cup Request
              \cup [doi : DOIs \cup {None}]

TablesTypeOK ==
  /\ record \in [Records -> Row \cup {None}]
  /\ collection \in [Collections -> CollectionRow]
  /\ provider \in [Providers -> ProviderRow]
  /\ tags \in [Owners -> SUBSET TagRow]
  /\ timestamp \in [Objects -> Nat]
  /\ published \in [Records -> [doi : DOIs \cup {None}] \cup {None}]
  /\ catalogRecord \in [Catalogs -> [Records -> Entry \cup {None}]]

ApiTypeOK ==
  /\ now \in 0..MaxClock
  /\ tx \in [Workers -> Request \cup {None}]

PublisherTypeOK ==
  /\ phase \in {"idle", "sync", "global", "external", "mirror"}
  /\ at \in 1..Len(CatalogOrder)
  /\ snapshot \in [Records -> Shot \cup {None}]
  /\ todo \in SUBSET Records
  /\ first \in BOOLEAN
  /\ sitemap \in SUBSET Records
  /\ datacite \in [DOIs -> Form \cup {None}]
  /\ today \in 0..MaxDay
  /\ crashes \in 0..MaxCrashes

(* The tables, the request of each worker and the publisher's state are of *)
(* the shape the code gives them; what the sync loop has still to visit is *)
(* in the snapshot, and a published catalog record has its content.        *)
TypeOK ==
  /\ TablesTypeOK
  /\ ApiTypeOK
  /\ PublisherTypeOK
  /\ phase = "sync" => \A r \in todo : snapshot[r] # None
  /\ \A c \in Catalogs, r \in Records :
       catalogRecord[c][r] # None =>
         (catalogRecord[c][r].published <=> catalogRecord[c][r].form # None)

(***************************************************************************)
(* What the publisher promises.                                            *)
(***************************************************************************)

(* The catalog record of r says what the record's present state calls for. *)
Fresh(c, r) ==
  LET e == catalogRecord[c][r]
      m == RecordModel(r)
  IN  /\ e.published = CanPublish(c, m)
      /\ e.published => /\ e.form.model = m
                        /\ ~e.form.stripped
                        /\ Indexed(c) => e.searchable = Searchable(m.tags)

(* A record that the next run of the publisher would not look at is        *)
(* published, or hidden, as its present state calls for: no change of a    *)
(* record, its tags, its children, its collection or its provider is lost, *)
(* whenever it was stamped and committed relative to the publisher.        *)
NotSelectedIsFresh ==
  \A c \in Catalogs : \A r \in Existing : ~Selected(c, r) => Fresh(c, r)

(* What was ever published keeps its id and its DOI: the register entry    *)
(* stays, a DOI once registered stays the entry's, and a record that holds *)
(* its registered DOI holds it for ever.                                   *)
KeepsPublication ==
  \A r \in Records : published[r] # None =>
    /\ record'[r] # None
    /\ published'[r] # None
    /\ published[r].doi # None =>
         /\ published'[r] = published[r]
         /\ record[r].doi = published[r].doi => record'[r].doi = record[r].doi

PublicationIsPermanent == [][KeepsPublication]_vars

(* Nothing is public without an entry in the register of published ids.    *)
PublicIsRegistered ==
  \A c \in Catalogs, r \in Records :
    catalogRecord[c][r] # None /\ catalogRecord[c][r].published =>
      /\ published[r] # None
      /\ published[r].doi = None => catalogRecord[c][r].form.model.doi = None

(* A record marked as synced is at DataCite in the form it was published,  *)
(* or not findable there if it is not published.                           *)
MirrorFollows ==
  \A c \in Catalogs, r \in Records :
    LET e == catalogRecord[c][r]
    IN  External(c) /\ e # None /\ e.synced =>
          IF e.published THEN datacite[e.form.model.doi] = e.form
          ELSE record[r].doi # None => datacite[record[r].doi] = None

(* The DOI in the register is the DOI of the record registered with it.    *)
RegisteredDoiIsHeld ==
  \A r \in Records :
    published[r] # None /\ published[r].doi # None =>
      record[r].doi = published[r].doi

(* The parts MIMS lists for a record are its published children, once none *)
(* of them is due for another look, if they are in the collection of the   *)
(* record (a change of another one is not a change of the record).         *)
PartsAreListed ==
  \A c \in Catalogs \cap {"MIMS"}, r \in Existing :
    LET children == {x \in Existing : record[x].parent = r}
        e        == catalogRecord[c][r]
    IN  /\ \A x \in children : record[x].collection = record[r].collection
        /\ \A x \in children \cup {r} : ~Selected(c, x)
        /\ e.published
        => e.form.parts = {record[x].doi :
                             x \in {y \in children : catalogRecord[c][y].published}}

(* The table published_record is a register of ids and DOIs.               *)
Register == INSTANCE DoiRegister WITH Ids <- Records, register <- published

ImplementsRegister == Register!RegisterSpec

(* Once requests stop, every catalog comes to show the records as they are. *)
EventuallyFresh ==
  <>[](\A c \in Catalogs : \A r \in Existing :
         catalogRecord[c][r] # None /\ Fresh(c, r))

(* Once calls to DataCite no longer fail, whatever has attempts left gets  *)
(* there, again and again if an embargo has it published by every run: an  *)
(* outage, a crash or an aborted run leaves no entry behind, also none     *)
(* that is to be hidden.                                                   *)
MirrorCatchesUp ==
  <>[][\A r \in Records : ~MirrorFails(r)]_vars =>
    []<>(\A c \in Catalogs, r \in Records :
           LET e == catalogRecord[c][r]
           IN  External(c) /\ e # None => e.synced \/ e.errors >= MaxAttempts)

(* The sitemap comes to list what MIMS shows. *)
SitemapCatchesUp ==
  <>[]("MIMS" \in Catalogs => sitemap = SearchableEntries("MIMS"))

(***************************************************************************)
(* Why no change is lost, with one API process: the inductive invariant.   *)
(***************************************************************************)

(* The parent link of a row, if there is a row. *)
Parent(row) == IF row = None THEN None ELSE row.parent

(* What t is going to change is still as its handler read it, and t stamps *)
(* every record whose model the change shows in.                           *)
Covers(t) ==
  /\ t.table = "record" =>
       /\ t.base = record[t.key]
       /\ t.new # None => t.key \in t.stamped
       /\ {Parent(t.base), Parent(t.new)} \ {None} \subseteq t.stamped
  /\ t.table # "record" => t.key \in t.stamped

PendingCovers ==
  \A w \in Workers : tx[w] # None => tx[w].at = now /\ Covers(tx[w])

(* Whatever is committed was stamped before the pending request was.       *)
Past(ts) == ts <= now /\ \A w \in Workers : tx[w] # None => ts < tx[w].at

StampsArePast ==
  /\ \A o \in Objects : Past(timestamp[o])
  /\ \A r \in Records : snapshot[r] # None => Past(snapshot[r].timestamp)
  /\ \A c \in Catalogs, r \in Records :
       catalogRecord[c][r] # None => Past(catalogRecord[c][r].timestamp)

(* Collections carry collection tags only (the embargo is a record's tag). *)
FitsOwner(t) ==
  t.table = "tag" /\ t.key \in Collections /\ t.new # None =>
    t.new.tag \in CollectionTags

TagsOnOwner ==
  /\ \A c \in Collections : \A t \in tags[c] : t.tag \in CollectionTags
  /\ \A w \in Workers : tx[w] # None => FitsOwner(tx[w])

(* A snapshot as recent as its record is a snapshot of what the record is. *)
SnapshotsHold ==
  \A r \in Existing : snapshot[r] # None =>
    /\ snapshot[r].timestamp <= MaxTimestamp(r)
    /\ snapshot[r].timestamp = MaxTimestamp(r) => snapshot[r].model = RecordModel(r)

(* A catalog record as recent as its record says what the record is.       *)
Shows(c, e, m) ==
  /\ e.published = CanPublish(c, m)
  /\ e.published => /\ e.form.model = m
                    /\ e.form.stripped => Tagged(m, "Record.Embargo")
                    /\ Indexed(c) => e.searchable = Searchable(m.tags)

EntriesHold ==
  \A c \in Catalogs, r \in Existing :
    LET e == catalogRecord[c][r]
    IN  e # None => /\ e.timestamp <= MaxTimestamp(r)
                    /\ e.timestamp = MaxTimestamp(r) => Shows(c, e, RecordModel(r))

(* A request stamps what it changes and no two requests are in progress at *)
(* once, so that a snapshot or a catalog record that does not show the     *)
(* latest change is older than its record, by the timestamps selected on.  *)
FreshnessInv ==
  /\ TypeOK
  /\ PendingCovers
  /\ StampsArePast
  /\ TagsOnOwner
  /\ SnapshotsHold
  /\ EntriesHold
=============================================================================
