------------------------- MODULE PublicationProofs -------------------------
(***************************************************************************)
(* Theorems about Publication, for every set of records, collections,      *)
(* requests and catalogs.                                                  *)
(***************************************************************************)
EXTENDS Publication, TLAPS

(***************************************************************************)
(* What a handler leaves in tx.                                            *)
(***************************************************************************)

(* w begins a request whose writes have the right shape, are stamped later *)
(* than anything before, and stamp what they change.                       *)
Opens(w) ==
  \E t \in Request : Begin(w, t) /\ t.at = now + 1 /\ Covers(t) /\ FitsOwner(t)

LEMMA RequestType ==
  ASSUME TypeOK, NEW base, NEW new, NEW key, NEW stamped \in SUBSET Objects,
         NEW table,
         \/ table = "record" /\ key \in Records /\ {base, new} \subseteq Row \cup {None}
         \/ table = "tag" /\ key \in Owners /\ {base, new} \subseteq TagRow \cup {None}
         \/ /\ table = "collection" /\ key \in Collections
            /\ {base, new} \subseteq CollectionRow
         \/ /\ table = "provider" /\ key \in Providers
            /\ {base, new} \subseteq ProviderRow
  PROVE  Write(table, key, base, new, stamped) \in Request
<1>1. now + 1 \in Nat
  BY ApiAssumption DEF TypeOK, ApiTypeOK
<1> QED
  BY <1>1 DEF Request, Writes, Write

LEMMA RowOfType ==
  ASSUME NEW body \in Bodies, NEW parent \in ParentIds(body)
  PROVE  RowOf(body, parent) \in Row
<1>1. body \in RecordBody
  BY ApiAssumption
<1>2. parent \in Records \cup {None}
  BY DEF ParentIds, Existing
<1> QED
  BY <1>1, <1>2 DEF RowOf, Row, RecordBody

LEMMA AncestorsAreRecords ==
  ASSUME NEW rows, NEW r
  PROVE  Ancestors(rows, r) \subseteq Records
BY DEF Ancestors

(* touch_parent reaches the parent. *)
LEMMA ParentIsAncestor ==
  ASSUME NEW rows, NEW r \in Records, rows[r] # None,
         rows[r].parent \in Records \cup {None}
  PROVE  {Parent(rows[r])} \ {None} \subseteq Ancestors(rows, r)
BY DEF Ancestors, Parent

(* A tag request stamps the owner of the tag. *)
LEMMA TagOpens ==
  ASSUME TypeOK, NEW w \in Workers, NEW owner \in Owners, NEW base, NEW new,
         {base, new} \subseteq TagRow \cup {None},
         new # None /\ owner \in Collections => new.tag \in CollectionTags,
         NEW stamped \in SUBSET Objects, owner \in stamped,
         Begin(w, Write("tag", owner, base, new, stamped))
  PROVE  Opens(w)
<1> DEFINE t == Write("tag", owner, base, new, stamped)
<1>1. t \in Request
  BY RequestType
<1>2. t.at = now + 1 /\ Covers(t) /\ FitsOwner(t)
  BY DEF Write, Covers, FitsOwner
<1> QED
  BY <1>1, <1>2 DEF Opens

LEMMA AttachTagOpens ==
  ASSUME TypeOK, NEW w \in Workers, NEW owner \in Owners,
         NEW in \in [tag : TagNames, data : STRING], NEW user \in STRING,
         owner \in Collections => in.tag \in CollectionTags,
         NEW stamped \in SUBSET Objects, owner \in stamped,
         AttachTag(w, owner, in, user, stamped)
  PROVE  Opens(w)
<1> DEFINE row(old) == [id |-> IF old = None THEN now + 1 ELSE old.id,
                        tag |-> in.tag, user |-> user, data |-> in.data,
                        ts |-> now + 1]
<1>1. PICK old \in {None} \cup tags[owner] :
        Begin(w, Write("tag", owner, old, row(old), stamped))
  BY DEF AttachTag
<1>2. now + 1 \in Nat
  BY ApiAssumption DEF TypeOK, ApiTypeOK
<1>3. old \in TagRow \cup {None}
  BY DEF TypeOK, TablesTypeOK
<1>4. row(old) \in TagRow /\ row(old).tag = in.tag
  BY <1>2, <1>3 DEF TagRow
<1> HIDE DEF row
<1> QED
  BY <1>1, <1>3, <1>4, TagOpens, SMTT(30)

(* A record request stamps the record, if it stays, and its parents.       *)
LEMMA RecordOpens ==
  ASSUME TypeOK, NEW w \in Workers, NEW r \in Records, NEW new \in Row \cup {None},
         NEW stamped \in SUBSET Objects, new # None => r \in stamped,
         {Parent(record[r]), Parent(new)} \ {None} \subseteq stamped,
         Begin(w, Write("record", r, record[r], new, stamped))
  PROVE  Opens(w)
<1> DEFINE t == Write("record", r, record[r], new, stamped)
<1>1. record[r] \in Row \cup {None}
  BY DEF TypeOK, TablesTypeOK
<1>2. t \in Request
  BY <1>1, RequestType
<1>3. t.at = now + 1 /\ Covers(t) /\ FitsOwner(t)
  BY DEF Write, Covers, FitsOwner
<1> QED
  BY <1>2, <1>3 DEF Opens

LEMMA CreateOpens ==
  ASSUME TypeOK, NEW w \in Workers, NEW r \in Records, NEW body \in Bodies,
         NEW route \in Routes, NEW parent \in ParentIds(body),
         CreateRecord(w, r, body, parent, route)
  PROVE  Opens(w)
<1> DEFINE row == RowOf(body, parent)
           rows == [record EXCEPT ![r] = row]
           stamped == {r} \cup Ancestors(rows, r)
<1>1. row \in Row /\ row # None
  BY RowOfType, TablesAssumption
<1>2. rows[r] = row
  BY DEF TypeOK, TablesTypeOK
<1>3. rows[r].parent \in Records \cup {None}
  BY <1>1, <1>2 DEF Row
<1>4. {Parent(row)} \ {None} \subseteq stamped
  BY <1>1, <1>2, <1>3, ParentIsAncestor
<1>5. stamped \in SUBSET Objects /\ r \in stamped
  BY AncestorsAreRecords DEF Objects
<1>6. record[r] = None /\ Begin(w, Write("record", r, record[r], row, stamped))
  BY DEF CreateRecord
<1>7. {Parent(record[r]), Parent(row)} \ {None} \subseteq stamped
  BY <1>4, <1>6 DEF Parent
<1> HIDE DEF row, rows, stamped
<1> QED
  BY <1>1, <1>5, <1>6, <1>7, RecordOpens

LEMMA SetOpens ==
  ASSUME TypeOK, NEW w \in Workers, NEW r \in Records, NEW body \in Bodies,
         NEW route \in Routes, NEW parent \in ParentIds(body),
         SetRecord(w, r, body, parent, route)
  PROVE  Opens(w)
<1> DEFINE old == record[r]
           row == RowOf(body, parent)
           rows == [record EXCEPT ![r] = row]
           left == IF old = None \/ old.parent = row.parent THEN {}
                   ELSE Ancestors(record, r)
           stamped == {r} \cup left \cup Ancestors(rows, r)
<1>1. row \in Row /\ row # None /\ old \in Row \cup {None}
  BY RowOfType, TablesAssumption DEF TypeOK, TablesTypeOK
<1>2. rows[r] = row
  BY DEF TypeOK, TablesTypeOK
<1>3. rows[r].parent \in Records \cup {None}
  BY <1>1, <1>2 DEF Row
<1>4. {Parent(row)} \ {None} \subseteq Ancestors(rows, r)
  BY <1>1, <1>2, <1>3, ParentIsAncestor
<1>5. {Parent(old)} \ {None} \subseteq left \cup Ancestors(rows, r)
  <2>1. CASE old = None
    BY <2>1 DEF Parent
  <2>2. CASE old # None /\ old.parent = row.parent
    BY <1>1, <1>4, <2>2 DEF Parent
  <2>3. CASE old # None /\ old.parent # row.parent
    <3>1. old.parent \in Records \cup {None}
      BY <1>1, <2>3 DEF Row
    <3> QED
      BY <2>3, <3>1, ParentIsAncestor
  <2> QED
    BY <2>1, <2>2, <2>3
<1>6. stamped \in SUBSET Objects /\ r \in stamped
  <2>1. left \subseteq Records
    BY AncestorsAreRecords
  <2> QED
    BY <2>1, AncestorsAreRecords DEF Objects
<1>7. Begin(w, Write("record", r, record[r], row, stamped))
  BY DEF SetRecord
<1>8. {Parent(record[r]), Parent(row)} \ {None} \subseteq stamped
  BY <1>4, <1>5
<1> HIDE DEF row, rows, stamped
<1> QED
  BY <1>1, <1>6, <1>7, <1>8, RecordOpens

LEMMA DeleteOpens ==
  ASSUME TypeOK, NEW w \in Workers, NEW r \in Records, NEW route \in Routes,
         DeleteRecord(w, r, route)
  PROVE  Opens(w)
<1>1. record[r] # None
  BY DEF DeleteRecord
<1>2. record[r].parent \in Records \cup {None}
  BY <1>1 DEF TypeOK, TablesTypeOK, Row
<1>3. {Parent(record[r]), Parent(None)} \ {None} \subseteq Ancestors(record, r)
  BY <1>1, <1>2, ParentIsAncestor DEF Parent
<1>4. Ancestors(record, r) \in SUBSET Objects
  BY AncestorsAreRecords DEF Objects
<1>5. Begin(w, Write("record", r, record[r], None, Ancestors(record, r)))
  BY DEF DeleteRecord
<1> QED
  BY <1>3, <1>4, <1>5, RecordOpens

(* Every step of the API begins a request or ends one.                     *)
LEMMA ApiSteps ==
  ASSUME TypeOK, ApiNext
  PROVE  \E w \in Workers : Opens(w) \/ Commit(w) \/ Rollback(w)
<1>1. PICK w \in Workers :
        \/ \E r \in Records, body \in Bodies, route \in Routes :
             \E parent \in ParentIds(body) :
               \/ CreateRecord(w, r, body, parent, route)
               \/ SetRecord(w, r, body, parent, route)
        \/ \E r \in Records, route \in Routes : DeleteRecord(w, r, route)
        \/ \E r \in Records, in \in RecordTagIns, user \in Users :
             TagRecord(w, r, in, user)
        \/ \E r \in Records, user \in Users, route \in Routes :
             \E t \in tags[r] : UntagRecord(w, r, t, user, route)
        \/ \E c \in Collections, in \in CollectionTagIns, user \in Users :
             TagCollection(w, c, in, user)
        \/ \E c \in Collections, user \in Users, route \in Routes :
             \E t \in tags[c] : UntagCollection(w, c, t, user, route)
        \/ \E c \in Collections, row \in CollectionIns : UpdateCollection(w, c, row)
        \/ \E p \in Providers, row \in ProviderIns : UpdateProvider(w, p, row)
        \/ Commit(w)
        \/ Rollback(w)
  BY DEF ApiNext
<1>2. ASSUME NEW r \in Records, NEW in \in RecordTagIns, NEW user \in Users,
             TagRecord(w, r, in, user)
      PROVE  Opens(w)
  <2>1. {r} \cup Ancestors(record, r) \in SUBSET Objects
    BY AncestorsAreRecords DEF Objects
  <2>2. r \in Owners /\ r \notin Collections
    BY TablesAssumption DEF Owners
  <2>3. in \in [tag : TagNames, data : STRING] /\ user \in STRING
    BY ApiAssumption DEF TagNames
  <2> QED
    BY <1>2, <2>1, <2>2, <2>3, AttachTagOpens DEF TagRecord
<1>3. ASSUME NEW r \in Records, NEW user \in Users, NEW route \in Routes,
             NEW t \in tags[r], UntagRecord(w, r, t, user, route)
      PROVE  Opens(w)
  <2>1. {r} \cup Ancestors(record, r) \in SUBSET Objects /\ r \in Owners
    BY AncestorsAreRecords DEF Objects, Owners
  <2>2. t \in TagRow
    BY <2>1 DEF TypeOK, TablesTypeOK
  <2> QED
    BY <1>3, <2>1, <2>2, TagOpens DEF UntagRecord, RemoveTag
<1>4. ASSUME NEW c \in Collections, NEW in \in CollectionTagIns, NEW user \in Users,
             TagCollection(w, c, in, user)
      PROVE  Opens(w)
  <2>1. {c} \in SUBSET Objects /\ c \in Owners
    BY DEF Objects, Owners
  <2>2. /\ in \in [tag : TagNames, data : STRING] /\ user \in STRING
        /\ in.tag \in CollectionTags
    BY ApiAssumption DEF TagNames
  <2> QED
    BY <1>4, <2>1, <2>2, AttachTagOpens DEF TagCollection
<1>5. ASSUME NEW c \in Collections, NEW user \in Users, NEW route \in Routes,
             NEW t \in tags[c], UntagCollection(w, c, t, user, route)
      PROVE  Opens(w)
  <2>1. {c} \in SUBSET Objects /\ c \in Owners
    BY DEF Objects, Owners
  <2>2. t \in TagRow
    BY <2>1 DEF TypeOK, TablesTypeOK
  <2> QED
    BY <1>5, <2>1, <2>2, TagOpens DEF UntagCollection, RemoveTag
<1>6. ASSUME NEW c \in Collections, NEW row \in CollectionIns,
             UpdateCollection(w, c, row)
      PROVE  Opens(w)
  <2> DEFINE t == Write("collection", c, collection[c], row, {c})
  <2>1. {collection[c], row} \subseteq CollectionRow /\ {c} \in SUBSET Objects
    BY ApiAssumption DEF TypeOK, TablesTypeOK, Objects
  <2>2. t \in Request
    BY <2>1, RequestType
  <2>3. t.at = now + 1 /\ Covers(t) /\ FitsOwner(t)
    BY DEF Write, Covers, FitsOwner
  <2> QED
    BY <1>6, <2>2, <2>3 DEF UpdateCollection, Opens
<1>7. ASSUME NEW p \in Providers, NEW row \in ProviderIns, UpdateProvider(w, p, row)
      PROVE  Opens(w)
  <2> DEFINE t == Write("provider", p, provider[p], row, {p})
  <2>1. {provider[p], row} \subseteq ProviderRow /\ {p} \in SUBSET Objects
    BY ApiAssumption DEF TypeOK, TablesTypeOK, Objects
  <2>2. t \in Request
    BY <2>1, RequestType
  <2>3. t.at = now + 1 /\ Covers(t) /\ FitsOwner(t)
    BY DEF Write, Covers, FitsOwner
  <2> QED
    BY <1>7, <2>2, <2>3 DEF UpdateProvider, Opens
<1> QED
  BY <1>1, <1>2, <1>3, <1>4, <1>5, <1>6, <1>7, CreateOpens, SetOpens, DeleteOpens

(***************************************************************************)
(* Types.                                                                  *)
(***************************************************************************)

LEMMA BeginType ==
  ASSUME TypeOK, NEW w \in Workers, Opens(w), UNCHANGED pubVars
  PROVE  TypeOK'
<1>1. PICK t \in Request : Begin(w, t)
  BY DEF Opens
<1>2. TablesTypeOK' /\ PublisherTypeOK'
  BY <1>1 DEF TypeOK, TablesTypeOK, PublisherTypeOK, Begin, tables, pubVars
<1>3. ApiTypeOK'
  BY <1>1, ApiAssumption DEF TypeOK, ApiTypeOK, Begin
<1> QED
  BY <1>1, <1>2, <1>3 DEF TypeOK, Begin, tables, pubVars

LEMMA RollbackType ==
  ASSUME TypeOK, NEW w \in Workers, Rollback(w), UNCHANGED pubVars
  PROVE  TypeOK'
<1>1. TablesTypeOK' /\ PublisherTypeOK'
  BY DEF TypeOK, TablesTypeOK, PublisherTypeOK, Rollback, tables, pubVars
<1>2. ApiTypeOK'
  BY DEF TypeOK, ApiTypeOK, Rollback
<1> QED
  BY <1>1, <1>2 DEF TypeOK, Rollback, tables, pubVars

(* The rows a request leaves are rows. *)
LEMMA RowsAfterType ==
  ASSUME TypeOK, NEW t \in Request, Accepted(t)
  PROVE  RowsAfter(t) \in [Records -> Row \cup {None}]
<1>1. CASE t.table # "record"
  BY <1>1 DEF RowsAfter, TypeOK, TablesTypeOK
<1>2. CASE t.table = "record"
  <2>1. t.key \in Records /\ {t.base, t.new} \subseteq Row \cup {None}
    BY <1>2 DEF Request, Writes
  <2>2. MergedRow(t) \in Row \cup {None}
    <3>1. CASE t.base = None \/ t.new = None
      BY <2>1, <3>1 DEF MergedRow
    <3>2. CASE t.base # None /\ t.new # None
      <4>1. record[t.key] \in Row
        BY <1>2, <2>1, <3>2 DEF Accepted, TypeOK, TablesTypeOK
      <4>2. t.base \in Row /\ t.new \in Row
        BY <2>1, <3>2
      <4> QED
        BY <3>2, <4>1, <4>2 DEF MergedRow, Column, Row
    <3> QED
      BY <3>1, <3>2
  <2> QED
    BY <1>2, <2>1, <2>2 DEF RowsAfter, TypeOK, TablesTypeOK
<1> QED
  BY <1>1, <1>2

LEMMA CommitType ==
  ASSUME TypeOK, NEW w \in Workers, Commit(w), UNCHANGED pubVars
  PROVE  TypeOK'
<1> DEFINE t == tx[w]
<1>1. t \in Request /\ Accepted(t)
  BY DEF Commit, TypeOK, ApiTypeOK
<1>2. record' \in [Records -> Row \cup {None}]
  BY <1>1, RowsAfterType DEF Commit
<1>3. tags' \in [Owners -> SUBSET TagRow]
  <2>1. ASSUME NEW o \in Owners
        PROVE  TagsAfter(t, o) \subseteq TagRow
    <3>1. tags[o] \subseteq TagRow
      BY DEF TypeOK, TablesTypeOK
    <3>2. t.table = "tag" => t.new \in TagRow \cup {None}
      BY <1>1 DEF Request, Writes
    <3>3. t.table = "tag" => TagWritten(t) \subseteq TagRow
      <4>1. CASE t.table = "tag"
        <5>1. tags[t.key] \subseteq TagRow
          BY <1>1, <4>1 DEF Request, Writes, TypeOK, TablesTypeOK
        <5>2. t.base \in TagRow \cup {None}
          BY <1>1, <4>1 DEF Request, Writes
        <5>3. ASSUME NEW x \in tags[t.key], t.new # None, t.base # None
              PROVE  [t.new EXCEPT !.user = Column(t.base.user, t.new.user, x.user)] \in TagRow
          BY <3>2, <4>1, <5>1, <5>2, <5>3 DEF Column, TagRow
        <5> QED
          BY <3>2, <4>1, <5>3 DEF TagWritten
      <4> QED
        BY <4>1
    <3> QED
      BY <3>1, <3>3 DEF TagsAfter
  <2> QED
    BY <2>1 DEF Commit
<1>4. collection' \in [Collections -> CollectionRow]
  <2>1. CASE t.table = "collection"
    <3>1. t.key \in Collections /\ {t.base, t.new, collection[t.key]} \subseteq CollectionRow
      BY <1>1, <2>1 DEF Request, Writes, TypeOK, TablesTypeOK
    <3>2. [key |-> Column(t.base.key, t.new.key, collection[t.key].key),
           provider |-> Column(t.base.provider, t.new.provider, collection[t.key].provider)]
            \in CollectionRow
      BY <3>1 DEF Column, CollectionRow
    <3> QED
      BY <2>1, <3>1, <3>2 DEF Commit, CollectionsAfter, TypeOK, TablesTypeOK
  <2> QED
    BY <2>1 DEF Commit, CollectionsAfter, TypeOK, TablesTypeOK
<1>5. provider' \in [Providers -> ProviderRow]
  <2>1. CASE t.table = "provider"
    <3>1. t.key \in Providers /\ {t.base, t.new, provider[t.key]} \subseteq ProviderRow
      BY <1>1, <2>1 DEF Request, Writes, TypeOK, TablesTypeOK
    <3>2. [key |-> Column(t.base.key, t.new.key, provider[t.key].key)] \in ProviderRow
      BY <3>1 DEF Column, ProviderRow
    <3> QED
      BY <2>1, <3>1, <3>2 DEF Commit, ProvidersAfter, TypeOK, TablesTypeOK
  <2> QED
    BY <2>1 DEF Commit, ProvidersAfter, TypeOK, TablesTypeOK
<1>6. timestamp' \in [Objects -> Nat]
  <2>1. t.at \in Nat
    BY <1>1 DEF Request, Writes
  <2> QED
    BY <2>1 DEF Commit, TypeOK, TablesTypeOK
<1>7. catalogRecord' \in [Catalogs -> [Records -> Entry \cup {None}]]
  BY DEF Commit, TypeOK, TablesTypeOK
<1>8. TablesTypeOK'
  BY <1>2, <1>3, <1>4, <1>5, <1>6, <1>7 DEF Commit, TypeOK, TablesTypeOK
<1>9. ApiTypeOK' /\ PublisherTypeOK'
  BY DEF Commit, TypeOK, ApiTypeOK, PublisherTypeOK, pubVars
<1>10. \A c \in Catalogs, r \in Records :
         catalogRecord'[c][r] \in {catalogRecord[c][r], None}
  BY DEF Commit
<1> QED
  BY <1>8, <1>9, <1>10 DEF TypeOK, pubVars

LEMMA GreatestIsGreatest ==
  ASSUME NEW a \in Nat, NEW b \in Nat, NEW c \in Nat
  PROVE  /\ Greatest(a, b, c) \in {a, b, c}
         /\ Greatest(a, b, c) >= a /\ Greatest(a, b, c) >= b
         /\ Greatest(a, b, c) >= c
BY DEF Greatest

LEMMA MaxTimestampType ==
  ASSUME TablesTypeOK, NEW r \in Existing
  PROVE  MaxTimestamp(r) \in Nat
<1> DEFINE c == record[r].collection
<1>1. c \in Collections /\ collection[c].provider \in Providers
  BY DEF TablesTypeOK, Existing, Row, CollectionRow
<1>2. timestamp[c] \in Nat /\ timestamp[collection[c].provider] \in Nat
      /\ timestamp[r] \in Nat
  BY <1>1 DEF TablesTypeOK, Existing, Objects
<1> QED
  BY <1>2, GreatestIsGreatest DEF MaxTimestamp

LEMMA RecordModelType ==
  ASSUME TablesTypeOK, NEW r \in Existing
  PROVE  RecordModel(r) \in Model
<1> DEFINE row == record[r]
           c == row.collection
           kids == {y \in Existing : record[y].parent = r}
           children == [x \in kids |-> record[x].doi]
<1>1. row \in Row /\ c \in Collections
  BY DEF TablesTypeOK, Existing, Row
<1>2. collection[c].key \in Keys /\ provider[collection[c].provider].key \in Keys
  BY <1>1 DEF TablesTypeOK, CollectionRow, ProviderRow
<1>3. tags[c] \cup tags[r] \in SUBSET TagRow
  BY <1>1 DEF TablesTypeOK, Existing, Owners
<1>4. timestamp[r] \in Nat
  BY DEF TablesTypeOK, Existing, Objects
<1>5. children \in UNION {[S -> DOIs \cup {None}] : S \in SUBSET Records}
  <2>1. \A x \in kids : record[x].doi \in DOIs \cup {None}
    BY DEF TablesTypeOK, Existing, Row
  <2>2. kids \in SUBSET Records /\ children \in [kids -> DOIs \cup {None}]
    BY <2>1 DEF Existing
  <2> QED
    BY <2>2
<1>6. row.doi \in DOIs \cup {None} /\ row.sid \in SIDs \cup {None}
      /\ row.metadata \in Metadata
  BY <1>1 DEF Row
<1> HIDE DEF kids, children
<1>7. RecordModel(r) =
        [doi |-> row.doi, sid |-> row.sid, collection |-> collection[c].key,
         provider |-> provider[collection[c].provider].key,
         metadata |-> row.metadata, children |-> children,
         tags |-> tags[c] \cup tags[r], timestamp |-> timestamp[r]]
  BY DEF RecordModel, children, kids
<1> QED
  BY <1>2, <1>3, <1>4, <1>5, <1>6, <1>7 DEF Model

LEMMA CurrentIsCatalog ==
  ASSUME TypeOK
  PROVE  Current \in Catalogs
BY PublisherAssumption DEF TypeOK, PublisherTypeOK, Current

LEMMA NextCatalogType ==
  ASSUME TypeOK, NextCatalog
  PROVE  phase' = "idle" /\ at' \in 1..Len(CatalogOrder)
BY PublisherAssumption DEF TypeOK, PublisherTypeOK, NextCatalog

(* The rules are decided either way. *)
LEMMA CanPublishIsBoolean ==
  ASSUME NEW c, NEW m
  PROVE  CanPublish(c, m) \in BOOLEAN
BY DEF CanPublish

LEMMA EntryType ==
  ASSUME TypeOK, phase = "sync", NEW c \in Catalogs, NEW r \in todo
  PROVE  /\ EntryFor(c, r) \in Entry
         /\ EntryFor(c, r).published <=> EntryFor(c, r).form # None
<1> DEFINE m == snapshot[r].model
<1>1. snapshot[r] \in Shot
  BY DEF TypeOK, PublisherTypeOK
<1>2. m \in Model /\ snapshot[r].timestamp \in Nat
  BY <1>1 DEF Shot
<1>3. PublishedForm(c, m) \in Form /\ PublishedForm(c, m) # None
  <2>1. Parts(c, m) \subseteq DOIs \cup {None}
    <3>1. \A x \in DOMAIN m.children : m.children[x] \in DOIs \cup {None}
      BY <1>2 DEF Model
    <3> QED
      BY <3>1 DEF Parts
  <2>2. Embargoed(m, today) \in BOOLEAN
    BY DEF Embargoed
  <2> QED
    BY <1>2, <2>1, <2>2, NoneAssumption DEF PublishedForm, Form
<1>4. CanPublish(c, m) \in BOOLEAN
  BY CanPublishIsBoolean
<1> HIDE DEF m
<1> DEFINE seen == IF first THEN m.tags ELSE tags[record[r].collection] \cup tags[r]
           s == Indexed(c) /\ CanPublish(c, m) /\ Searchable(seen)
           x == ~External(c)
<1>5. s \in BOOLEAN /\ x \in BOOLEAN
  BY DEF Indexed, External
<1>6. EntryFor(c, r) = [published |-> CanPublish(c, m),
                        form |-> IF CanPublish(c, m) THEN PublishedForm(c, m) ELSE None,
                        searchable |-> s, timestamp |-> snapshot[r].timestamp,
                        synced |-> x, errors |-> 0]
  BY DEF EntryFor, m
<1> HIDE DEF s, x
<1> QED
  BY <1>2, <1>3, <1>4, <1>5, <1>6 DEF Entry

LEMMA PublishedAfterType ==
  ASSUME NEW old \in [doi : DOIs \cup {None}] \cup {None}, NEW m \in Model
  PROVE  PublishedAfter(old, m) \in [doi : DOIs \cup {None}]
BY DEF PublishedAfter, Model

LEMMA MirrorAfterType ==
  ASSUME TypeOK, NEW c \in Catalogs, NEW r \in Records, catalogRecord[c][r] # None
  PROVE  MirrorAfter(c, r) \in [DOIs -> Form \cup {None}]
<1>1. catalogRecord[c][r] \in Entry
  BY DEF TypeOK, TablesTypeOK
<1>2. catalogRecord[c][r].published => catalogRecord[c][r].form \in Form
  BY <1>1 DEF TypeOK, Entry
<1> QED
  BY <1>2 DEF MirrorAfter, TypeOK, PublisherTypeOK

LEMMA TakeSnapshotType ==
  ASSUME TypeOK, TakeSnapshot, UNCHANGED apiVars
  PROVE  TypeOK'
<1>1. TablesTypeOK' /\ ApiTypeOK'
  BY DEF TypeOK, TablesTypeOK, ApiTypeOK, TakeSnapshot, tables, apiVars
<1>2. PICK i \in at .. Len(CatalogOrder) :
        LET selection == Selection(CatalogOrder[i]) IN
        /\ snapshot' = [r \in Records |->
                          IF r \in selection
                          THEN [model |-> RecordModel(r), timestamp |-> MaxTimestamp(r)]
                          ELSE None]
        /\ todo' = IF selection # {} THEN selection
                   ELSE IF External(CatalogOrder[i]) THEN Unsynced(CatalogOrder[i]) ELSE {}
        /\ first' = (selection # {})
        /\ phase' = IF selection # {} THEN "sync"
                    ELSE IF External(CatalogOrder[i]) THEN "mirror" ELSE "idle"
        /\ at' = IF PassesOn(i) THEN 1 ELSE i
  BY DEF TakeSnapshot
<1> DEFINE selection == Selection(CatalogOrder[i])
<1>3. selection \subseteq Existing /\ selection \subseteq Records
      /\ Unsynced(CatalogOrder[i]) \subseteq Records
  BY DEF Selection, Existing, Unsynced
<1>4. \A r \in selection :
        [model |-> RecordModel(r), timestamp |-> MaxTimestamp(r)] \in Shot
  BY <1>3, RecordModelType, MaxTimestampType DEF TypeOK, Shot
<1> HIDE DEF selection
<1>5. /\ snapshot' = [r \in Records |->
                        IF r \in selection
                        THEN [model |-> RecordModel(r), timestamp |-> MaxTimestamp(r)]
                        ELSE None]
      /\ todo' \subseteq Records /\ first' \in BOOLEAN
      /\ phase' \in {"sync", "mirror", "idle"} /\ (phase' = "sync" => todo' = selection)
  BY <1>2, <1>3 DEF selection
<1>6. snapshot' \in [Records -> Shot \cup {None}]
  BY <1>4, <1>5
<1>7. phase' = "sync" => \A r \in todo' : snapshot'[r] # None
  BY <1>3, <1>4, <1>5, NoneAssumption
<1>8. at' \in 1 .. Len(CatalogOrder)
  BY <1>2, PublisherAssumption DEF TypeOK, PublisherTypeOK
<1>9. PublisherTypeOK'
  BY <1>5, <1>6, <1>8 DEF TakeSnapshot, TypeOK, PublisherTypeOK
<1>10. UNCHANGED catalogRecord
  BY DEF TakeSnapshot, tables
<1> QED
  BY <1>1, <1>7, <1>9, <1>10 DEF TypeOK

LEMMA SyncRecordType ==
  ASSUME TypeOK, NEW r \in Records, SyncRecord(r), UNCHANGED apiVars
  PROVE  TypeOK'
<1> DEFINE c == Current
           m == snapshot[r].model
<1>1. c \in Catalogs /\ phase = "sync" /\ r \in todo
  BY CurrentIsCatalog DEF SyncRecord
<1>2. /\ EntryFor(c, r) \in Entry
      /\ EntryFor(c, r).published <=> EntryFor(c, r).form # None
  BY <1>1, EntryType
<1>3. catalogRecord' = [catalogRecord EXCEPT ![c][r] = EntryFor(c, r)]
  BY DEF SyncRecord
<1> HIDE DEF c
<1>4. catalogRecord' \in [Catalogs -> [Records -> Entry \cup {None}]]
  BY <1>1, <1>2, <1>3 DEF TypeOK, TablesTypeOK
<1>5. \A d \in Catalogs, s \in Records :
        catalogRecord'[d][s] \in {catalogRecord[d][s], EntryFor(c, r)}
  BY <1>1, <1>3 DEF TypeOK, TablesTypeOK
<1>6. published' \in [Records -> [doi : DOIs \cup {None}] \cup {None}]
  <2>1. snapshot[r] \in Shot
    BY <1>1 DEF TypeOK, PublisherTypeOK
  <2>2. m \in Model
    BY <2>1 DEF Shot
  <2>3. PublishedAfter(published[r], m) \in [doi : DOIs \cup {None}]
    BY <2>2, PublishedAfterType DEF TypeOK, TablesTypeOK
  <2> QED
    BY <2>3 DEF SyncRecord, RegisterAfter, TypeOK, TablesTypeOK
<1>7. TablesTypeOK'
  BY <1>4, <1>6 DEF SyncRecord, TypeOK, TablesTypeOK
<1>8. ApiTypeOK'
  BY DEF TypeOK, ApiTypeOK, apiVars
<1>9. PublisherTypeOK'
  BY DEF SyncRecord, TypeOK, PublisherTypeOK
<1>10. \A s \in todo' : snapshot'[s] # None
  BY DEF SyncRecord, TypeOK
<1>11. \A d \in Catalogs, s \in Records : catalogRecord'[d][s] # None =>
         (catalogRecord'[d][s].published <=> catalogRecord'[d][s].form # None)
  BY <1>2, <1>5 DEF TypeOK
<1> QED
  BY <1>7, <1>8, <1>9, <1>10, <1>11 DEF TypeOK

(* A step that leaves the tables alone and ends the sync loop. *)
LEMMA OtherStepType ==
  ASSUME TypeOK, UNCHANGED <<tables, apiVars>>, PublisherTypeOK', phase' # "sync"
  PROVE  TypeOK'
BY DEF TypeOK, TablesTypeOK, ApiTypeOK, tables, apiVars

LEMMA SaveGlobalDataType ==
  ASSUME TypeOK, SaveGlobalData, UNCHANGED apiVars
  PROVE  TypeOK'
<1>1. phase' \in {"external", "idle"} /\ at' \in 1..Len(CatalogOrder)
  BY NextCatalogType DEF SaveGlobalData, TypeOK, PublisherTypeOK
<1>2. sitemap' \in SUBSET Records
  BY DEF SaveGlobalData, SearchableEntries, TypeOK, PublisherTypeOK
<1>3. PublisherTypeOK'
  BY <1>1, <1>2 DEF SaveGlobalData, TypeOK, PublisherTypeOK
<1> QED
  BY <1>1, <1>3, OtherStepType DEF SaveGlobalData

LEMMA SelectUnsyncedType ==
  ASSUME TypeOK, SelectUnsynced, UNCHANGED apiVars
  PROVE  TypeOK'
<1>1. PublisherTypeOK' /\ phase' = "mirror"
  BY DEF SelectUnsynced, Unsynced, TypeOK, PublisherTypeOK
<1> QED
  BY <1>1, OtherStepType DEF SelectUnsynced

LEMMA MirrorDoneType ==
  ASSUME TypeOK, MirrorDone, UNCHANGED apiVars
  PROVE  TypeOK'
<1>1. phase' = "idle" /\ at' \in 1..Len(CatalogOrder)
  BY NextCatalogType DEF MirrorDone
<1>2. PublisherTypeOK'
  BY <1>1 DEF MirrorDone, TypeOK, PublisherTypeOK
<1> QED
  BY <1>1, <1>2, OtherStepType DEF MirrorDone

(* e and f differ in the state of external synchronization at most. *)
SameContent(e, f) ==
  /\ f.published = e.published /\ f.form = e.form
  /\ f.searchable = e.searchable /\ f.timestamp = e.timestamp

LEMMA MirrorKeepsContent ==
  ASSUME TypeOK, NEW r \in Records, MirrorRecord(r) \/ MirrorFails(r)
  PROVE  /\ catalogRecord[Current][r] # None
         /\ \E new \in Entry :
              /\ SameContent(catalogRecord[Current][r], new)
              /\ catalogRecord' = [catalogRecord EXCEPT ![Current][r] = new]
<1> DEFINE c == Current
           e == catalogRecord[c][r]
<1>1. c \in Catalogs /\ e # None
  BY CurrentIsCatalog DEF MirrorRecord, MirrorFails
<1>2. e \in Entry
  BY <1>1 DEF TypeOK, TablesTypeOK
<1>3. CASE MirrorRecord(r)
  <2> DEFINE new == [e EXCEPT !.synced = TRUE, !.errors = 0]
  <2>1. new \in Entry /\ SameContent(e, new)
    BY <1>2 DEF Entry, SameContent
  <2>2. catalogRecord' = [catalogRecord EXCEPT ![c][r] = new]
    BY <1>1, <1>2, <1>3 DEF MirrorRecord, TypeOK, TablesTypeOK, Entry
  <2> QED
    BY <1>1, <2>1, <2>2
<1>4. CASE MirrorFails(r)
  <2> DEFINE new == [e EXCEPT !.errors = @ + 1]
  <2>1. new \in Entry /\ SameContent(e, new)
    BY <1>2 DEF Entry, SameContent
  <2>2. catalogRecord' = [catalogRecord EXCEPT ![c][r] = new]
    BY <1>1, <1>2, <1>4 DEF MirrorFails, TypeOK, TablesTypeOK, Entry
  <2> QED
    BY <1>1, <2>1, <2>2
<1> QED
  BY <1>3, <1>4

LEMMA MirrorStepType ==
  ASSUME TypeOK, NEW r \in Records, MirrorRecord(r) \/ MirrorFails(r),
         UNCHANGED apiVars
  PROVE  TypeOK'
<1> DEFINE c == Current
           e == catalogRecord[c][r]
<1>1. c \in Catalogs /\ e # None
  BY CurrentIsCatalog, MirrorKeepsContent
<1>2. PICK new \in Entry :
        SameContent(e, new) /\ catalogRecord' = [catalogRecord EXCEPT ![c][r] = new]
  BY MirrorKeepsContent
<1>3. datacite' \in [DOIs -> Form \cup {None}]
  BY <1>1, MirrorAfterType DEF MirrorRecord, MirrorFails, TypeOK, PublisherTypeOK
<1> HIDE DEF c
<1>4. TablesTypeOK'
  BY <1>1, <1>2 DEF MirrorRecord, MirrorFails, TypeOK, TablesTypeOK
<1>5. ApiTypeOK'
  BY DEF TypeOK, ApiTypeOK, apiVars
<1>6. PublisherTypeOK' /\ phase' = "mirror"
  BY <1>3 DEF MirrorRecord, MirrorFails, TypeOK, PublisherTypeOK
<1>7. \A d \in Catalogs, s \in Records : catalogRecord'[d][s] # None =>
         (catalogRecord'[d][s].published <=> catalogRecord'[d][s].form # None)
  BY <1>1, <1>2 DEF TypeOK, TablesTypeOK, SameContent
<1> QED
  BY <1>4, <1>5, <1>6, <1>7 DEF TypeOK

LEMMA StopType ==
  ASSUME TypeOK, Abort \/ Crash, UNCHANGED apiVars
  PROVE  TypeOK'
<1>1. Stop
  BY DEF Abort, Crash
<1>2. datacite' \in [DOIs -> Form \cup {None}]
  BY CurrentIsCatalog, MirrorAfterType DEF Abort, Crash, TypeOK, PublisherTypeOK
<1>3. crashes' \in 0..MaxCrashes
  BY PublisherAssumption DEF Abort, Crash, TypeOK, PublisherTypeOK
<1>4. at' \in 1..Len(CatalogOrder)
  BY <1>1, PublisherAssumption DEF Stop
<1>5. PublisherTypeOK' /\ phase' = "idle"
  BY <1>1, <1>2, <1>3, <1>4 DEF Stop, TypeOK, PublisherTypeOK
<1> QED
  BY <1>1, <1>5, OtherStepType DEF Stop

LEMMA NextDayType ==
  ASSUME TypeOK, NextDay, UNCHANGED apiVars
  PROVE  TypeOK'
<1>1. today' \in 0..MaxDay
  BY PublisherAssumption DEF NextDay, TypeOK, PublisherTypeOK
<1>2. PublisherTypeOK'
  BY <1>1 DEF NextDay, TypeOK, PublisherTypeOK
<1> QED
  BY <1>2 DEF NextDay, TypeOK, TablesTypeOK, ApiTypeOK, tables, apiVars

LEMMA InitType == ASSUME Init PROVE TypeOK
<1>1. TablesTypeOK
  BY TablesAssumption DEF Init, TablesInit, TablesTypeOK, Objects
<1>2. ApiTypeOK
  BY ApiAssumption DEF Init, ApiInit, ApiTypeOK
<1>3. 1 \in 1..Len(CatalogOrder)
  BY PublisherAssumption
<1>4. 0 \in 0..MaxDay /\ 0 \in 0..MaxCrashes
  BY PublisherAssumption
<1>5. PublisherTypeOK
  BY <1>3, <1>4 DEF Init, PublisherInit, PublisherTypeOK
<1> QED
  BY <1>1, <1>2, <1>5 DEF Init, TablesInit, PublisherInit, TypeOK

LEMMA NextType == ASSUME TypeOK, [Next]_vars PROVE TypeOK'
<1>1. CASE ApiStep
  <2>1. PICK w \in Workers : Opens(w) \/ Commit(w) \/ Rollback(w)
    BY <1>1, ApiSteps DEF ApiStep
  <2> QED
    BY <1>1, <2>1, BeginType, CommitType, RollbackType DEF ApiStep
<1>2. CASE Publish
  BY <1>2, TakeSnapshotType, SyncRecordType, SaveGlobalDataType,
     SelectUnsyncedType, MirrorStepType, MirrorDoneType, StopType, NextDayType
     DEF Publish, PublisherNext, PublisherStep
<1>3. CASE UNCHANGED vars
  BY <1>3 DEF vars, tables, apiVars, pubVars, TypeOK, TablesTypeOK, ApiTypeOK,
              PublisherTypeOK
<1> QED
  BY <1>1, <1>2, <1>3 DEF Next

(* The state keeps its shape, whatever the API and the publisher do.       *)
THEOREM TypeCorrect == Spec => []TypeOK
BY InitType, NextType, PTL DEF Spec

(***************************************************************************)
(* Freshness: with one API process, no change is lost.                     *)
(***************************************************************************)

(* What the selection and the snapshot read. *)
read == <<record, collection, provider, tags, timestamp>>

LEMMA ReadUnchanged ==
  ASSUME UNCHANGED read
  PROVE  /\ Existing' = Existing
         /\ \A r : MaxTimestamp(r)' = MaxTimestamp(r)
         /\ \A r : RecordModel(r)' = RecordModel(r)
<1>1. Existing' = Existing
  BY DEF read, Existing
<1> QED
  BY <1>1 DEF read, MaxTimestamp, RecordModel

LEMMA StampTypes ==
  ASSUME TypeOK
  PROVE  /\ now \in Nat
         /\ \A w \in Workers : tx[w] # None => tx[w] \in Request /\ tx[w].at \in Nat
         /\ \A o \in Objects : timestamp[o] \in Nat
         /\ \A r \in Records : snapshot[r] # None => snapshot[r].timestamp \in Nat
         /\ \A c \in Catalogs, r \in Records :
              catalogRecord[c][r] # None => catalogRecord[c][r].timestamp \in Nat
<1>1. now \in Nat
  BY ApiAssumption DEF TypeOK, ApiTypeOK
<1>2. \A w \in Workers : tx[w] # None => tx[w] \in Request /\ tx[w].at \in Nat
  BY DEF TypeOK, ApiTypeOK, Request, Writes
<1>3. \A o \in Objects : timestamp[o] \in Nat
  BY DEF TypeOK, TablesTypeOK
<1>4. \A r \in Records : snapshot[r] # None => snapshot[r].timestamp \in Nat
  BY DEF TypeOK, PublisherTypeOK, Shot
<1>5. \A c \in Catalogs, r \in Records :
        catalogRecord[c][r] # None => catalogRecord[c][r].timestamp \in Nat
  BY DEF TypeOK, TablesTypeOK, Entry
<1> QED
  BY <1>1, <1>2, <1>3, <1>4, <1>5

LEMMA BeginFresh ==
  ASSUME \A v, w \in Workers : v = w,
         FreshnessInv, NEW w \in Workers, Opens(w), UNCHANGED pubVars
  PROVE  FreshnessInv'
<1>1. TypeOK'
  BY BeginType DEF FreshnessInv
<1>2. PICK t \in Request : Begin(w, t) /\ t.at = now + 1 /\ Covers(t) /\ FitsOwner(t)
  BY DEF Opens
<1>3. /\ tx'[w] = t /\ now' = now + 1 /\ UNCHANGED tables
      /\ \A v \in Workers : tx'[v] = t
  BY <1>2 DEF Begin, FreshnessInv, TypeOK, ApiTypeOK
<1>4. PendingCovers'
  BY <1>2, <1>3 DEF PendingCovers, Covers, tables
<1>5. StampsArePast'
  BY <1>2, <1>3, StampTypes DEF FreshnessInv, StampsArePast, Past, tables, pubVars
<1>6. TagsOnOwner'
  BY <1>2, <1>3 DEF FreshnessInv, TagsOnOwner, FitsOwner, tables
<1>7. SnapshotsHold' /\ EntriesHold'
  BY <1>3, ReadUnchanged
     DEF FreshnessInv, SnapshotsHold, EntriesHold, tables, pubVars, read
<1> QED
  BY <1>1, <1>4, <1>5, <1>6, <1>7 DEF FreshnessInv

LEMMA RollbackFresh ==
  ASSUME FreshnessInv, NEW w \in Workers, Rollback(w), UNCHANGED pubVars
  PROVE  FreshnessInv'
<1>1. TypeOK'
  BY RollbackType DEF FreshnessInv
<1>2. /\ UNCHANGED <<now, tables>>
      /\ \A v \in Workers : tx'[v] \in {tx[v], None}
  BY DEF Rollback, FreshnessInv, TypeOK, ApiTypeOK
<1>3. PendingCovers'
  BY <1>2 DEF FreshnessInv, PendingCovers, Covers, tables
<1>4. StampsArePast'
  BY <1>2 DEF FreshnessInv, StampsArePast, Past, tables, pubVars
<1>5. TagsOnOwner'
  BY <1>2 DEF FreshnessInv, TagsOnOwner, FitsOwner, tables
<1>6. SnapshotsHold' /\ EntriesHold'
  BY <1>2, ReadUnchanged
     DEF FreshnessInv, SnapshotsHold, EntriesHold, tables, pubVars, read
<1> QED
  BY <1>1, <1>3, <1>4, <1>5, <1>6 DEF FreshnessInv

(* The ORM writes what the handler meant when nobody interfered. *)
LEMMA MergedIsNew ==
  ASSUME TypeOK, NEW t \in Request, t.table = "record", Covers(t)
  PROVE  MergedRow(t) = t.new
<1>1. t.base \in Row \cup {None} /\ t.new \in Row \cup {None} /\ t.base = record[t.key]
  BY DEF Request, Writes, Covers
<1>2. CASE t.base = None \/ t.new = None
  BY <1>2 DEF MergedRow
<1>3. CASE t.base # None /\ t.new # None
  <2>1. t.base \in Row /\ t.new \in Row
    BY <1>1, <1>3
  <2> QED
    BY <1>1, <1>3, <2>1 DEF MergedRow, Column, Row
<1> QED
  BY <1>2, <1>3

(* A commit leaves a record's model alone, or makes the record later than  *)
(* the request's timestamp.                                                *)
LEMMA CommitView ==
  ASSUME TypeOK, TypeOK', NEW w \in Workers, Commit(w), Covers(tx[w]),
         NEW r \in Records, record'[r] # None
  PROVE  /\ MaxTimestamp(r)' \in Nat
         /\ \/ MaxTimestamp(r)' >= tx[w].at
            \/ /\ record[r] # None /\ record'[r] = record[r]
               /\ MaxTimestamp(r)' = MaxTimestamp(r)
               /\ RecordModel(r)' = RecordModel(r)
<1> DEFINE t == tx[w]
           c == record'[r].collection
           p == collection'[c].provider
<1>1. t \in Request /\ t.at \in Nat /\ Covers(t)
  BY StampTypes DEF Commit
<1>2. c \in Collections /\ p \in Providers
  BY DEF TypeOK, TablesTypeOK, Row, CollectionRow
<1>3. /\ MaxTimestamp(r)' = Greatest(timestamp'[c], timestamp'[p], timestamp'[r])
      /\ {timestamp'[c], timestamp'[p], timestamp'[r]} \subseteq Nat
  BY <1>2 DEF MaxTimestamp, TypeOK, TablesTypeOK, Objects
<1>4. \A o \in Objects : timestamp'[o] = IF o \in t.stamped THEN t.at ELSE timestamp[o]
  BY DEF Commit
<1>5. MaxTimestamp(r)' \in Nat
  BY <1>3, GreatestIsGreatest
<1>6. CASE r \in t.stamped \/ c \in t.stamped \/ p \in t.stamped
  <2>1. t.at \in {timestamp'[c], timestamp'[p], timestamp'[r]}
    BY <1>2, <1>4, <1>6 DEF Objects
  <2> QED
    BY <1>1, <1>3, <2>1, GreatestIsGreatest
<1>7. CASE r \notin t.stamped /\ c \notin t.stamped /\ p \notin t.stamped
  <2>1. record'[r] = record[r]
    <3>1. CASE t.table = "record" /\ t.key = r
      <4>1. record'[r] = t.new
        BY <1>1, <3>1, MergedIsNew DEF Commit, RowsAfter, TypeOK, TablesTypeOK
      <4> QED
        BY <1>1, <1>7, <3>1, <4>1 DEF Covers
    <3>2. CASE ~(t.table = "record" /\ t.key = r)
      BY <3>2 DEF Commit, RowsAfter, TypeOK, TablesTypeOK
    <3> QED
      BY <3>1, <3>2
  <2>2. collection'[c] = collection[c]
    <3>1. ~(t.table = "collection" /\ t.key = c)
      BY <1>1, <1>7 DEF Covers
    <3> QED
      BY <3>1 DEF Commit, CollectionsAfter, TypeOK, TablesTypeOK
  <2>3. provider'[p] = provider[p]
    <3>1. ~(t.table = "provider" /\ t.key = p)
      BY <1>1, <1>7 DEF Covers
    <3> QED
      BY <3>1, SMTT(30) DEF Commit, ProvidersAfter, TypeOK, TablesTypeOK
  <2>4. tags'[c] = tags[c] /\ tags'[r] = tags[r]
    <3>1. ~(t.table = "tag" /\ t.key \in {c, r})
      BY <1>1, <1>7 DEF Covers
    <3>2. c \notin Records /\ c \in Owners /\ r \in Owners
      BY <1>2, TablesAssumption DEF Owners
    <3>3. RowsAfter(t)[r] # None
      BY DEF Commit
    <3> QED
      BY <3>1, <3>2, <3>3 DEF Commit, TagsAfter
  <2>5. /\ timestamp'[c] = timestamp[c] /\ timestamp'[p] = timestamp[p]
        /\ timestamp'[r] = timestamp[r]
    BY <1>2, <1>4, <1>7 DEF Objects
  <2>6. \A y \in Records :
          /\ record'[y] # None /\ record'[y].parent = r
               <=> record[y] # None /\ record[y].parent = r
          /\ record[y] # None /\ record[y].parent = r => record'[y] = record[y]
    <3> SUFFICES ASSUME NEW y \in Records
                 PROVE  /\ record'[y] # None /\ record'[y].parent = r
                             <=> record[y] # None /\ record[y].parent = r
                        /\ record[y] # None /\ record[y].parent = r
                             => record'[y] = record[y]
      OBVIOUS
    <3>1. CASE t.table = "record" /\ t.key = y
      <4>1. record'[y] = t.new /\ record[y] = t.base
        BY <1>1, <3>1, MergedIsNew DEF Covers, Commit, RowsAfter, TypeOK, TablesTypeOK
      <4>2. r # None
        BY TablesAssumption DEF Objects
      <4>3. Parent(t.base) # r /\ Parent(t.new) # r
        BY <1>1, <1>7, <3>1, <4>2 DEF Covers
      <4> QED
        BY <4>1, <4>3 DEF Parent
    <3>2. CASE ~(t.table = "record" /\ t.key = y)
      <4>1. record'[y] = record[y]
        BY <3>2 DEF Commit, RowsAfter, TypeOK, TablesTypeOK
      <4> QED
        BY <4>1
    <3> QED
      BY <3>1, <3>2
  <2>7. MaxTimestamp(r)' = MaxTimestamp(r)
    BY <2>1, <2>2, <2>5 DEF MaxTimestamp
  <2>8. RecordModel(r)' = RecordModel(r)
    <3> DEFINE kids == {y \in Existing : record[y].parent = r}
    <3>1. kids' = kids
      BY <2>6 DEF Existing
    <3>2. \A x \in kids : record'[x].doi = record[x].doi
      BY <2>6 DEF Existing
    <3>3. [x \in kids |-> record[x].doi]' = [x \in kids |-> record[x].doi]
      BY <3>1, <3>2
    <3> QED
      BY <2>1, <2>2, <2>3, <2>4, <2>5, <3>3 DEF RecordModel
  <2> QED
    BY <1>5, <2>1, <2>7, <2>8
<1> QED
  BY <1>6, <1>7

LEMMA CommitFresh ==
  ASSUME \A v, w \in Workers : v = w,
         FreshnessInv, NEW w \in Workers, Commit(w), UNCHANGED pubVars
  PROVE  FreshnessInv'
<1> DEFINE t == tx[w]
<1>1. TypeOK /\ TypeOK'
  BY CommitType DEF FreshnessInv
<1>2. t # None /\ t.at = now /\ Covers(t) /\ t.at \in Nat
  BY <1>1, StampTypes DEF Commit, FreshnessInv, PendingCovers
<1>3. UNCHANGED now /\ \A v \in Workers : tx'[v] = None
  BY <1>1 DEF Commit, TypeOK, ApiTypeOK
<1>4. \A c \in Catalogs, r \in Records :
        catalogRecord'[c][r] # None =>
          record'[r] # None /\ catalogRecord'[c][r] = catalogRecord[c][r]
  BY DEF Commit
<1>5. PendingCovers'
  BY <1>3 DEF PendingCovers
<1>6. StampsArePast'
  <2>1. \A o \in Objects : timestamp'[o] \in {t.at, timestamp[o]}
    BY DEF Commit
  <2> QED
    BY <1>1, <1>2, <1>3, <1>4, <2>1, StampTypes
       DEF FreshnessInv, StampsArePast, Past, pubVars
<1>7. TagsOnOwner'
  <2>1. \A c \in Collections : tags'[c] = TagsAfter(t, c)
    BY DEF Commit, Owners
  <2>2. \A c \in Collections : \A x \in TagsAfter(t, c) :
          \/ x \in tags[c]
          \/ t.table = "tag" /\ t.key = c /\ t.new # None /\ x.tag = t.new.tag
    <3>1. ASSUME t.table = "tag", NEW x \in TagWritten(t)
          PROVE  t.new # None /\ x.tag = t.new.tag
      <4>1. t.new # None
        BY <3>1 DEF TagWritten
      <4>2. t.new \in TagRow
        BY <1>1, <3>1, <4>1 DEF Request, Writes, Commit, TypeOK, ApiTypeOK
      <4> QED
        BY <3>1, <4>1, <4>2 DEF TagWritten, TagRow
    <3> QED
      BY <3>1, TablesAssumption DEF TagsAfter
  <2>3. FitsOwner(t)
    BY <1>2 DEF FreshnessInv, TagsOnOwner
  <2> QED
    BY <1>3, <2>1, <2>2, <2>3 DEF FreshnessInv, TagsOnOwner, FitsOwner
<1>8. ASSUME NEW r \in Records, record'[r] # None, NEW ts \in Nat, ts < t.at
      PROVE  \/ ts < MaxTimestamp(r)'
             \/ /\ r \in Existing
                /\ MaxTimestamp(r)' = MaxTimestamp(r)
                /\ RecordModel(r)' = RecordModel(r)
  BY <1>1, <1>2, <1>8, CommitView DEF Existing
<1>9. SnapshotsHold'
  <2> SUFFICES ASSUME NEW r \in Records, record'[r] # None, snapshot[r] # None
               PROVE  /\ snapshot[r].timestamp <= MaxTimestamp(r)'
                      /\ snapshot[r].timestamp = MaxTimestamp(r)' =>
                           snapshot[r].model = RecordModel(r)'
    BY DEF SnapshotsHold, Existing, pubVars
  <2>1. snapshot[r].timestamp \in Nat /\ snapshot[r].timestamp < t.at
    BY <1>1, <1>2, StampTypes DEF FreshnessInv, StampsArePast, Past
  <2>2. MaxTimestamp(r)' \in Nat
    BY <1>1, <1>2, CommitView
  <2>3. r \in Existing =>
          /\ snapshot[r].timestamp <= MaxTimestamp(r)
          /\ snapshot[r].timestamp = MaxTimestamp(r) =>
               snapshot[r].model = RecordModel(r)
    BY DEF FreshnessInv, SnapshotsHold
  <2> QED
    BY <1>8, <2>1, <2>2, <2>3
<1>10. EntriesHold'
  <2> SUFFICES ASSUME NEW c \in Catalogs, NEW r \in Records, record'[r] # None,
                      catalogRecord'[c][r] # None
               PROVE  LET e == catalogRecord'[c][r]
                      IN  /\ e.timestamp <= MaxTimestamp(r)'
                          /\ e.timestamp = MaxTimestamp(r)' =>
                               Shows(c, e, RecordModel(r)')
    BY DEF EntriesHold, Existing, Shows
  <2> DEFINE e == catalogRecord[c][r]
  <2>1. catalogRecord'[c][r] = e /\ e # None
    BY <1>4
  <2>2. e.timestamp \in Nat /\ e.timestamp < t.at
    BY <1>1, <1>2, <2>1, StampTypes DEF FreshnessInv, StampsArePast, Past
  <2>3. MaxTimestamp(r)' \in Nat
    BY <1>1, <1>2, CommitView
  <2>4. r \in Existing =>
          /\ e.timestamp <= MaxTimestamp(r)
          /\ e.timestamp = MaxTimestamp(r) => Shows(c, e, RecordModel(r))
    BY <2>1 DEF FreshnessInv, EntriesHold
  <2> HIDE DEF e
  <2> QED
    BY <1>8, <2>1, <2>2, <2>3, <2>4
<1> QED
  BY <1>1, <1>5, <1>6, <1>7, <1>9, <1>10 DEF FreshnessInv

LEMMA MaxTimestampIsPast ==
  ASSUME FreshnessInv, NEW r \in Existing
  PROVE  Past(MaxTimestamp(r))
<1> DEFINE c == record[r].collection
           p == collection[c].provider
<1>1. {c, p, r} \subseteq Objects
  BY DEF FreshnessInv, TypeOK, TablesTypeOK, Existing, Objects, Row, CollectionRow
<1>2. Past(timestamp[c]) /\ Past(timestamp[p]) /\ Past(timestamp[r])
  BY <1>1 DEF FreshnessInv, StampsArePast
<1>3. MaxTimestamp(r) \in {timestamp[c], timestamp[p], timestamp[r]}
  BY <1>1, StampTypes, GreatestIsGreatest DEF FreshnessInv, MaxTimestamp
<1> QED
  BY <1>2, <1>3

(* An entry made from a snapshot that holds, holds. *)
LEMMA EntryShows ==
  ASSUME FreshnessInv, NEW c \in Catalogs, NEW r \in Existing,
         snapshot[r] # None, snapshot[r].timestamp = MaxTimestamp(r)
  PROVE  Shows(c, EntryFor(c, r), RecordModel(r))
<1> DEFINE m == RecordModel(r)
           e == EntryFor(c, r)
<1>1. snapshot[r].model = m
  BY DEF FreshnessInv, SnapshotsHold
<1>2. m.tags = tags[record[r].collection] \cup tags[r]
  BY DEF RecordModel
<1>3. e.published = CanPublish(c, m)
  BY <1>1 DEF EntryFor
<1>4. e.searchable = (Indexed(c) /\ CanPublish(c, m) /\ Searchable(m.tags))
  BY <1>1, <1>2 DEF EntryFor
<1>5. CanPublish(c, m) => e.form = PublishedForm(c, m)
  BY <1>1 DEF EntryFor
<1>6. PublishedForm(c, m).model = m
      /\ PublishedForm(c, m).stripped = Embargoed(m, today)
  BY DEF PublishedForm
<1>7. Embargoed(m, today) => Tagged(m, "Record.Embargo")
  BY DEF Embargoed, Tagged
<1>8. Searchable(m.tags) \in BOOLEAN /\ Indexed(c) \in BOOLEAN
  BY DEF Searchable, Indexed
<1> HIDE DEF m, e
<1> QED
  BY <1>3, <1>4, <1>5, <1>6, <1>7, <1>8, CanPublishIsBoolean DEF Shows, m, e

(* What the publisher's steps have in common: they read what the API       *)
(* writes and write only snapshots and entries made from snapshots.        *)
SnapshotKept(r) == snapshot[r] # None /\ snapshot'[r] = snapshot[r]

SnapshotTaken(r) ==
  /\ r \in Existing
  /\ snapshot'[r] = [model |-> RecordModel(r), timestamp |-> MaxTimestamp(r)]

EntryKept(c, r) ==
  catalogRecord[c][r] # None /\ SameContent(catalogRecord[c][r], catalogRecord'[c][r])

EntryMade(c, r) ==
  /\ r \in Existing /\ snapshot[r] # None
  /\ catalogRecord'[c][r] = EntryFor(c, r)

LEMMA PublisherFresh ==
  ASSUME FreshnessInv, TypeOK', UNCHANGED read, UNCHANGED apiVars,
         \A r \in Records : snapshot'[r] # None => SnapshotKept(r) \/ SnapshotTaken(r),
         \A c \in Catalogs, r \in Records :
           catalogRecord'[c][r] # None => EntryKept(c, r) \/ EntryMade(c, r)
  PROVE  FreshnessInv'
<1>1. /\ Existing' = Existing
      /\ \A r : MaxTimestamp(r)' = MaxTimestamp(r)
      /\ \A r : RecordModel(r)' = RecordModel(r)
  BY ReadUnchanged
<1>2. \A ts : Past(ts)' <=> Past(ts)
  BY DEF Past, apiVars
<1>3. PendingCovers'
  BY DEF FreshnessInv, PendingCovers, Covers, read, apiVars
<1>4. TagsOnOwner'
  BY DEF FreshnessInv, TagsOnOwner, FitsOwner, read, apiVars
<1>5. \A r \in Records : snapshot'[r] # None => Past(snapshot'[r].timestamp)
  <2> SUFFICES ASSUME NEW r \in Records, snapshot'[r] # None
               PROVE  Past(snapshot'[r].timestamp)
    OBVIOUS
  <2>1. CASE SnapshotKept(r)
    BY <2>1 DEF SnapshotKept, FreshnessInv, StampsArePast
  <2>2. CASE SnapshotTaken(r)
    BY <2>2, MaxTimestampIsPast DEF SnapshotTaken
  <2> QED
    BY <2>1, <2>2
<1>6. \A c \in Catalogs, r \in Records :
        catalogRecord'[c][r] # None => Past(catalogRecord'[c][r].timestamp)
  <2> SUFFICES ASSUME NEW c \in Catalogs, NEW r \in Records,
                      catalogRecord'[c][r] # None
               PROVE  Past(catalogRecord'[c][r].timestamp)
    OBVIOUS
  <2>1. CASE EntryKept(c, r)
    BY <2>1 DEF EntryKept, SameContent, FreshnessInv, StampsArePast
  <2>2. CASE EntryMade(c, r)
    BY <2>2 DEF EntryMade, EntryFor, FreshnessInv, StampsArePast
  <2> QED
    BY <2>1, <2>2
<1>7. StampsArePast'
  <2>1. \A o \in Objects : Past(timestamp'[o])
    BY DEF FreshnessInv, StampsArePast, read
  <2> QED
    BY <1>2, <1>5, <1>6, <2>1 DEF StampsArePast
<1>8. SnapshotsHold'
  <2> SUFFICES ASSUME NEW r \in Existing, snapshot'[r] # None
               PROVE  /\ snapshot'[r].timestamp <= MaxTimestamp(r)
                      /\ snapshot'[r].timestamp = MaxTimestamp(r) =>
                           snapshot'[r].model = RecordModel(r)
    BY <1>1 DEF SnapshotsHold
  <2>1. r \in Records /\ MaxTimestamp(r) \in Nat
    BY MaxTimestampType DEF FreshnessInv, TypeOK, Existing
  <2>2. CASE SnapshotKept(r)
    BY <2>2 DEF SnapshotKept, FreshnessInv, SnapshotsHold
  <2>3. CASE SnapshotTaken(r)
    BY <2>1, <2>3 DEF SnapshotTaken
  <2> QED
    BY <2>1, <2>2, <2>3
<1>9. EntriesHold'
  <2> SUFFICES ASSUME NEW c \in Catalogs, NEW r \in Existing,
                      catalogRecord'[c][r] # None
               PROVE  /\ catalogRecord'[c][r].timestamp <= MaxTimestamp(r)
                      /\ catalogRecord'[c][r].timestamp = MaxTimestamp(r) =>
                           Shows(c, catalogRecord'[c][r], RecordModel(r))
    BY <1>1 DEF EntriesHold, Shows
  <2>1. r \in Records
    BY DEF Existing
  <2>2. CASE EntryKept(c, r)
    BY <2>2 DEF EntryKept, SameContent, FreshnessInv, EntriesHold, Shows
  <2>3. CASE EntryMade(c, r)
    <3>1. catalogRecord'[c][r].timestamp = snapshot[r].timestamp
      BY <2>3 DEF EntryMade, EntryFor
    <3>2. snapshot[r].timestamp <= MaxTimestamp(r)
      BY <2>3 DEF EntryMade, FreshnessInv, SnapshotsHold
    <3> QED
      BY <2>3, <3>1, <3>2, EntryShows DEF EntryMade
  <2> QED
    BY <2>1, <2>2, <2>3
<1> QED
  BY <1>3, <1>4, <1>7, <1>8, <1>9 DEF FreshnessInv

LEMMA PublishFresh ==
  ASSUME FreshnessInv, Publish
  PROVE  FreshnessInv'
<1>1. TypeOK'
  BY NextType DEF FreshnessInv, Next
<1>2. UNCHANGED read /\ UNCHANGED apiVars
  BY DEF Publish, PublisherNext, PublisherStep, TakeSnapshot, SyncRecord,
         SaveGlobalData, SelectUnsynced, MirrorRecord, MirrorFails, MirrorDone,
         Abort, Crash, Stop, NextDay, tables, read
<1>3. \A r \in Records : snapshot'[r] # None => SnapshotKept(r) \/ SnapshotTaken(r)
  BY DEF Publish, PublisherNext, PublisherStep, TakeSnapshot, Selection, SyncRecord,
         SaveGlobalData, SelectUnsynced, MirrorRecord, MirrorFails, MirrorDone,
         Abort, Crash, Stop, NextDay, SnapshotKept, SnapshotTaken
<1>4. ASSUME NEW c \in Catalogs, NEW r \in Records, catalogRecord'[c][r] # None
      PROVE  EntryKept(c, r) \/ EntryMade(c, r)
  <2>1. CASE \E s \in Records : SyncRecord(s)
    <3>1. PICK s \in Records : SyncRecord(s)
      BY <2>1
    <3>2. catalogRecord' = [catalogRecord EXCEPT ![Current][s] = EntryFor(Current, s)]
      BY <3>1 DEF SyncRecord
    <3>3. CASE c = Current /\ r = s
      <4>1. catalogRecord'[c][r] = EntryFor(c, r)
        BY <3>2, <3>3 DEF FreshnessInv, TypeOK, TablesTypeOK
      <4>2. r \in Existing /\ snapshot[r] # None
        BY <3>1, <3>3 DEF SyncRecord, CanSync, Existing, FreshnessInv, TypeOK
      <4> QED
        BY <4>1, <4>2 DEF EntryMade
    <3>4. CASE ~(c = Current /\ r = s)
      <4>1. catalogRecord'[c][r] = catalogRecord[c][r]
        BY <3>2, <3>4 DEF FreshnessInv, TypeOK, TablesTypeOK
      <4> QED
        BY <1>4, <4>1 DEF EntryKept, SameContent
    <3> QED
      BY <3>3, <3>4
  <2>2. CASE \E s \in Records : MirrorRecord(s) \/ MirrorFails(s)
    <3>1. PICK s \in Records : MirrorRecord(s) \/ MirrorFails(s)
      BY <2>2
    <3>2. PICK new \in Entry :
            /\ SameContent(catalogRecord[Current][s], new)
            /\ catalogRecord' = [catalogRecord EXCEPT ![Current][s] = new]
      BY <3>1, MirrorKeepsContent DEF FreshnessInv
    <3>3. catalogRecord[Current][s] # None
      BY <3>1, MirrorKeepsContent DEF FreshnessInv
    <3>4. CASE c = Current /\ r = s
      <4>1. catalogRecord'[c][r] = new
        BY <3>2, <3>4 DEF FreshnessInv, TypeOK, TablesTypeOK
      <4> QED
        BY <3>2, <3>3, <3>4, <4>1 DEF EntryKept
    <3>5. CASE ~(c = Current /\ r = s)
      <4>1. catalogRecord'[c][r] = catalogRecord[c][r]
        BY <3>2, <3>5 DEF FreshnessInv, TypeOK, TablesTypeOK
      <4> QED
        BY <1>4, <4>1 DEF EntryKept, SameContent
    <3> QED
      BY <3>4, <3>5
  <2>3. CASE UNCHANGED catalogRecord
    BY <1>4, <2>3 DEF EntryKept, SameContent
  <2> QED
    BY <2>1, <2>2, <2>3
       DEF Publish, PublisherNext, PublisherStep, TakeSnapshot, SaveGlobalData,
           SelectUnsynced, MirrorDone, Abort, Crash, Stop, NextDay, tables
<1> QED
  BY <1>1, <1>2, <1>3, <1>4, PublisherFresh

LEMMA InitFresh == ASSUME Init PROVE FreshnessInv
<1>1. TypeOK
  BY InitType
<1>2. PendingCovers /\ StampsArePast
  BY DEF Init, TablesInit, ApiInit, PublisherInit, PendingCovers, StampsArePast, Past
<1>3. TagsOnOwner
  BY TablesAssumption DEF Init, TablesInit, ApiInit, TagsOnOwner, Owners
<1>4. SnapshotsHold /\ EntriesHold
  BY DEF Init, TablesInit, PublisherInit, SnapshotsHold, EntriesHold, Existing
<1> QED
  BY <1>1, <1>2, <1>3, <1>4 DEF FreshnessInv

LEMMA NextFresh ==
  ASSUME \A v, w \in Workers : v = w, FreshnessInv, [Next]_vars
  PROVE  FreshnessInv'
<1>1. CASE ApiStep
  <2>1. PICK w \in Workers : Opens(w) \/ Commit(w) \/ Rollback(w)
    BY <1>1, ApiSteps DEF ApiStep, FreshnessInv
  <2> QED
    BY <1>1, <2>1, BeginFresh, CommitFresh, RollbackFresh DEF ApiStep
<1>2. CASE Publish
  BY <1>2, PublishFresh
<1>3. CASE UNCHANGED vars
  <2>1. TypeOK'
    BY NextType DEF FreshnessInv
  <2> QED
    BY <1>3, <2>1, PublisherFresh
       DEF vars, tables, pubVars, read, SnapshotKept, EntryKept, SameContent
<1> QED
  BY <1>1, <1>2, <1>3 DEF Next

(* An entry at least as late as its record, of a record without embargo    *)
(* tag, is fresh.                                                          *)
LEMMA FreshnessInvImplies == ASSUME FreshnessInv PROVE NotSelectedIsFresh
<1> SUFFICES ASSUME NEW c \in Catalogs, NEW r \in Existing, ~Selected(c, r)
             PROVE  Fresh(c, r)
  BY DEF NotSelectedIsFresh
<1> DEFINE e == catalogRecord[c][r]
           m == RecordModel(r)
<1>1. e # None /\ ~(e.timestamp < MaxTimestamp(r))
      /\ \A t \in tags[r] : t.tag # "Record.Embargo"
  BY DEF Selected
<1>2. r \in Records /\ MaxTimestamp(r) \in Nat /\ e.timestamp \in Nat
  BY <1>1, MaxTimestampType, StampTypes DEF FreshnessInv, TypeOK, Existing
<1>3. e.timestamp = MaxTimestamp(r)
  BY <1>1, <1>2 DEF FreshnessInv, EntriesHold
<1>4. Shows(c, e, m)
  BY <1>1, <1>3 DEF FreshnessInv, EntriesHold
<1>5. ~Tagged(m, "Record.Embargo")
  <2>1. record[r].collection \in Collections
    BY <1>2 DEF FreshnessInv, TypeOK, TablesTypeOK, Existing, Row
  <2>2. \A t \in tags[record[r].collection] : t.tag # "Record.Embargo"
    BY <2>1 DEF FreshnessInv, TagsOnOwner, CollectionTags
  <2>3. m.tags = tags[record[r].collection] \cup tags[r]
    BY DEF RecordModel
  <2> QED
    BY <1>1, <2>2, <2>3 DEF Tagged
<1> QED
  BY <1>4, <1>5 DEF Shows, Fresh

(* With one API process, every snapshot and every catalog record as recent *)
(* as its record, by the timestamps selected on, shows what the record is. *)
THEOREM StampsTell ==
  ASSUME \A v, w \in Workers : v = w
  PROVE  Spec => []FreshnessInv
<1>1. Init => FreshnessInv
  BY InitFresh
<1>2. FreshnessInv /\ [Next]_vars => FreshnessInv'
  BY NextFresh
<1> QED
  BY <1>1, <1>2, PTL DEF Spec

(* With one API process, a record that the publisher would not look at     *)
(* again is published, or hidden, as its present state calls for.          *)
THEOREM Freshness ==
  ASSUME \A v, w \in Workers : v = w
  PROVE  Spec => []NotSelectedIsFresh
<1>1. FreshnessInv => NotSelectedIsFresh
  BY FreshnessInvImplies
<1> QED
  BY <1>1, StampsTell, PTL

(***************************************************************************)
(* The register of published ids and DOIs.                                 *)
(***************************************************************************)

(* The constraints of the database, in every state. *)
ConstraintsInv == TypeOK /\ WellFormed(record) /\ KeepsPublished(record)

(* The publisher writes the register in one action only. *)
LEMMA PublishSteps ==
  ASSUME Publish
  PROVE  \/ \E r \in Records : SyncRecord(r)
         \/ UNCHANGED published
BY DEF Publish, PublisherNext, PublisherStep, TakeSnapshot, SaveGlobalData,
       SelectUnsynced, MirrorRecord, MirrorFails, MirrorDone, Abort, Crash, Stop,
       NextDay, tables

LEMMA PublishKeepsRecords ==
  ASSUME Publish
  PROVE  UNCHANGED record
BY DEF Publish, PublisherNext, PublisherStep, TakeSnapshot, SyncRecord,
       SaveGlobalData, SelectUnsynced, MirrorRecord, MirrorFails, MirrorDone,
       Abort, Crash, Stop, NextDay, tables

(* What a step of the sync loop does to the register. *)
LEMMA SyncRegisters ==
  ASSUME TypeOK, NEW r \in Records, SyncRecord(r)
  PROVE  /\ record[r] # None
         /\ \/ UNCHANGED published
            \/ \E d \in DOIs \cup {None} :
                 /\ published[r] \in {None, [doi |-> None]}
                 /\ published[r] # None => d # None
                 /\ d # None => /\ \E x \in Existing : record[x].doi = d
                                /\ \A x \in Records :
                                     published[x] # None => published[x].doi # d
                 /\ published' = [published EXCEPT ![r] = [doi |-> d]]
<1> DEFINE m == snapshot[r].model
           row == RegisterAfter(Current, r)
<1>1. record[r] # None
  BY DEF SyncRecord, CanSync
<1>2. published' = [published EXCEPT ![r] = row]
  BY DEF SyncRecord
<1>3. CASE row = published[r]
  BY <1>1, <1>2, <1>3 DEF TypeOK, TablesTypeOK
<1>4. CASE row # published[r]
  <2>1. m.doi \in DOIs \cup {None}
    <3>1. snapshot[r] \in Shot
      BY DEF SyncRecord, TypeOK, PublisherTypeOK
    <3> QED
      BY <3>1 DEF Shot, Model
  <2>2. published[r] \in [doi : DOIs \cup {None}] \cup {None}
    BY DEF TypeOK, TablesTypeOK
  <2>3. /\ row = [doi |-> m.doi]
        /\ published[r] = None \/ (published[r].doi = None /\ m.doi # None)
    BY <1>4 DEF RegisterAfter, PublishedAfter
  <2>4. published[r] \in {None, [doi |-> None]}
    BY <2>2, <2>3
  <2>5. m.doi # None => /\ \E x \in Existing : record[x].doi = m.doi
                        /\ \A x \in Records \ {r} :
                             published[x] # None => published[x].doi # m.doi
    BY <1>4, <2>3 DEF SyncRecord, CanSync, RegisterAfter
  <2>6. \A x \in Records : m.doi # None /\ published[x] # None => published[x].doi # m.doi
    BY <2>3, <2>5
  <2>7. published[r] # None => m.doi # None
    BY <2>3
  <2> HIDE DEF m, row
  <2> QED
    BY <1>1, <1>2, <2>1, <2>3, <2>4, <2>5, <2>6, <2>7
<1> QED
  BY <1>3, <1>4

LEMMA ApiKeepsRegister ==
  ASSUME ConstraintsInv, ApiStep
  PROVE  /\ UNCHANGED published
         /\ \/ UNCHANGED record
            \/ \E w \in Workers : tx[w] \in Request /\ Accepted(tx[w])
                                 /\ record' = RowsAfter(tx[w])
<1>1. PICK w \in Workers : Opens(w) \/ Commit(w) \/ Rollback(w)
  BY ApiSteps DEF ApiStep, ConstraintsInv
<1>2. CASE Opens(w) \/ Rollback(w)
  BY <1>2 DEF Opens, Begin, Rollback, tables
<1>3. CASE Commit(w)
  BY <1>3 DEF Commit, ConstraintsInv, TypeOK, ApiTypeOK
<1> QED
  BY <1>1, <1>2, <1>3

LEMMA ConstraintsKept ==
  ASSUME ConstraintsInv, [Next]_vars
  PROVE  ConstraintsInv'
<1>1. TypeOK'
  BY NextType DEF ConstraintsInv
<1>2. CASE ApiStep
  <2>1. UNCHANGED published
    BY <1>2, ApiKeepsRegister
  <2>2. CASE UNCHANGED record
    BY <1>1, <2>1, <2>2 DEF ConstraintsInv, WellFormed, KeepsPublished
  <2>3. CASE \E w \in Workers : Accepted(tx[w]) /\ record' = RowsAfter(tx[w])
    <3>1. PICK w \in Workers : Accepted(tx[w]) /\ record' = RowsAfter(tx[w])
      BY <2>3
    <3>2. WellFormed(record') /\ KeepsPublished(record')
      BY <3>1 DEF Accepted
    <3> QED
      BY <1>1, <2>1, <3>2 DEF ConstraintsInv, WellFormed, KeepsPublished
  <2> QED
    BY <1>2, <2>2, <2>3, ApiKeepsRegister
<1>3. CASE Publish
  <2>1. UNCHANGED record
    BY <1>3, PublishKeepsRecords
  <2>2. KeepsPublished(record)'
    <3>1. CASE UNCHANGED published
      BY <2>1, <3>1 DEF ConstraintsInv, KeepsPublished
    <3>2. CASE \E r \in Records : SyncRecord(r)
      <4>1. PICK r \in Records : SyncRecord(r)
        BY <3>2
      <4> SUFFICES ASSUME ~(UNCHANGED published)
                   PROVE  KeepsPublished(record)'
        BY <3>1
      <4>2. record[r] # None
        BY <4>1, SyncRegisters DEF ConstraintsInv
      <4>3. PICK d \in DOIs \cup {None} :
              /\ d # None => \E x \in Existing : record[x].doi = d
              /\ published' = [published EXCEPT ![r] = [doi |-> d]]
        BY <4>1, SyncRegisters DEF ConstraintsInv
      <4>4. \A s \in Records : published'[s] = IF s = r THEN [doi |-> d] ELSE published[s]
        BY <4>3 DEF ConstraintsInv, TypeOK, TablesTypeOK
      <4> QED
        BY <2>1, <4>2, <4>3, <4>4 DEF ConstraintsInv, KeepsPublished, Existing
    <3> QED
      BY <1>3, <3>1, <3>2, PublishSteps
  <2> QED
    BY <1>1, <2>1, <2>2 DEF ConstraintsInv, WellFormed
<1>4. CASE UNCHANGED vars
  BY <1>1, <1>4 DEF vars, tables, ConstraintsInv, WellFormed, KeepsPublished
<1> QED
  BY <1>2, <1>3, <1>4 DEF Next

LEMMA ConstraintsInit == ASSUME Init PROVE ConstraintsInv
BY InitType, TablesAssumption
   DEF Init, TablesInit, ConstraintsInv, WellFormed, KeepsPublished

LEMMA CommitKeepsDOI ==
  ASSUME ConstraintsInv, NEW t \in Request, Accepted(t), record' = RowsAfter(t),
         NEW r \in Records, published[r] # None, published[r].doi # None,
         record[r].doi = published[r].doi
  PROVE  record'[r].doi = record[r].doi
<1> DEFINE d == published[r].doi
<1>1. record[r] # None /\ record'[r] # None
  BY DEF ConstraintsInv, KeepsPublished, Accepted
<1>2. PICK s \in Records : record'[s] # None /\ record'[s].doi = d
  BY DEF Accepted, KeepsPublished
<1>3. CASE s = r
  BY <1>2, <1>3
<1>4. CASE s # r
  <2>1. CASE record'[s] = record[s]
    BY <1>1, <1>2, <1>4, <2>1 DEF ConstraintsInv, WellFormed
  <2>2. CASE record'[s] # record[s]
    <3>1. t.table = "record" /\ t.key = s
      BY <2>2 DEF RowsAfter, ConstraintsInv, TypeOK, TablesTypeOK
    <3>2. record'[r] = record[r]
      BY <1>4, <3>1 DEF RowsAfter, ConstraintsInv, TypeOK, TablesTypeOK
    <3> QED
      BY <3>2
  <2> QED
    BY <2>1, <2>2
<1> QED
  BY <1>3, <1>4

LEMMA NextKeepsPublication ==
  ASSUME ConstraintsInv, [Next]_vars
  PROVE  [KeepsPublication]_vars
<1>1. CASE ApiStep
  <2> SUFFICES ASSUME NEW r \in Records, published[r] # None
               PROVE  /\ record'[r] # None
                      /\ published'[r] = published[r]
                      /\ published[r].doi # None /\ record[r].doi = published[r].doi =>
                           record'[r].doi = record[r].doi
    BY DEF KeepsPublication
  <2>1. UNCHANGED published
    BY <1>1, ApiKeepsRegister
  <2>2. CASE UNCHANGED record
    BY <2>1, <2>2 DEF ConstraintsInv, KeepsPublished
  <2>3. CASE ~(UNCHANGED record)
    <3>1. PICK w \in Workers : tx[w] \in Request /\ Accepted(tx[w])
                               /\ record' = RowsAfter(tx[w])
      BY <1>1, <2>3, ApiKeepsRegister
    <3>2. record'[r] # None
      BY <3>1 DEF Accepted, KeepsPublished
    <3> QED
      BY <2>1, <3>1, <3>2, CommitKeepsDOI
  <2> QED
    BY <2>2, <2>3
<1>2. CASE Publish
  <2> SUFFICES ASSUME NEW r \in Records, published[r] # None
               PROVE  /\ record'[r] = record[r]
                      /\ published'[r] # None
                      /\ published[r].doi # None => published'[r] = published[r]
    BY DEF KeepsPublication, ConstraintsInv, KeepsPublished
  <2>1. record'[r] = record[r]
    BY <1>2, PublishKeepsRecords
  <2>2. CASE UNCHANGED published
    BY <2>1, <2>2
  <2>3. CASE ~(UNCHANGED published)
    <3>1. PICK s \in Records : SyncRecord(s)
      BY <1>2, <2>3, PublishSteps
    <3>2. PICK d \in DOIs \cup {None} :
            /\ published[s] \in {None, [doi |-> None]}
            /\ published' = [published EXCEPT ![s] = [doi |-> d]]
      BY <2>3, <3>1, SyncRegisters DEF ConstraintsInv
    <3>3. [doi |-> d] # None
      BY NoneAssumption
    <3> QED
      BY <2>1, <3>2, <3>3 DEF ConstraintsInv, TypeOK, TablesTypeOK
  <2> QED
    BY <2>2, <2>3
<1>3. CASE UNCHANGED vars
  BY <1>3
<1> QED
  BY <1>1, <1>2, <1>3 DEF Next

(* What was ever published keeps its id and its DOI, for any number of API *)
(* processes and whenever the publisher crashes.                           *)
THEOREM Permanence == Spec => PublicationIsPermanent
<1>1. Init => ConstraintsInv
  BY ConstraintsInit
<1>2. ConstraintsInv /\ [Next]_vars => ConstraintsInv'
  BY ConstraintsKept
<1>3. ConstraintsInv /\ [Next]_vars => [KeepsPublication]_vars
  BY NextKeepsPublication
<1> QED
  BY <1>1, <1>2, <1>3, PTL DEF Spec, PublicationIsPermanent

LEMMA RegisterStep ==
  ASSUME ConstraintsInv, [Next]_vars
  PROVE  [Register!RegisterNext]_published
<1>1. CASE ApiStep
  BY <1>1, ApiKeepsRegister
<1>2. CASE Publish
  <2>1. CASE UNCHANGED published
    BY <2>1
  <2>2. CASE ~(UNCHANGED published)
    <3>1. PICK r \in Records : SyncRecord(r)
      BY <1>2, <2>2, PublishSteps
    <3>2. PICK d \in DOIs \cup {None} :
            /\ published[r] \in {None, [doi |-> None]}
            /\ published[r] # None => d # None
            /\ d # None => \A x \in Records : published[x] # None => published[x].doi # d
            /\ published' = [published EXCEPT ![r] = [doi |-> d]]
      BY <2>2, <3>1, SyncRegisters DEF ConstraintsInv
    <3>3. d # None => d \in DOIs /\ ~Register!Taken(d)
      BY <3>2 DEF Register!Taken
    <3>4. CASE published[r] = None
      <4>1. Register!Enter(r, d)
        BY <3>2, <3>3, <3>4 DEF Register!Enter
      <4> QED
        BY <4>1 DEF Register!RegisterNext
    <3>5. CASE published[r] # None
      <4>1. d \in DOIs /\ Register!GiveDoi(r, d)
        BY <3>2, <3>3, <3>5 DEF Register!GiveDoi
      <4> QED
        BY <4>1 DEF Register!RegisterNext
    <3> QED
      BY <3>4, <3>5
  <2> QED
    BY <2>1, <2>2
<1>3. CASE UNCHANGED vars
  BY <1>3 DEF vars, tables
<1> QED
  BY <1>1, <1>2, <1>3 DEF Next

(* The table published_record implements the register: ids are entered     *)
(* once, and a DOI is given to one id, once.                               *)
THEOREM RegisterRefinement == Spec => ImplementsRegister
<1>1. Init => ConstraintsInv
  BY ConstraintsInit
<1>2. ConstraintsInv /\ [Next]_vars => ConstraintsInv'
  BY ConstraintsKept
<1>3. Init => Register!RegisterInit
  BY DEF Init, TablesInit, Register!RegisterInit
<1>4. ConstraintsInv /\ [Next]_vars => [Register!RegisterNext]_published
  BY RegisterStep
<1> QED
  BY <1>1, <1>2, <1>3, <1>4, PTL DEF Spec, ImplementsRegister, Register!RegisterSpec
=============================================================================
