---------------------------- MODULE RecordProofs ----------------------------
(***************************************************************************)
(* Theorems about what the API keeps of the records, their tags and the    *)
(* audit log, with one API process, while the publisher runs beside it.    *)
(***************************************************************************)
EXTENDS PublicationProofs

(***************************************************************************)
(* Ancestors.                                                              *)
(***************************************************************************)

(* S holds the parent of each of its members, and of r.                    *)
ClosedAbove(rows, r, S) ==
  \A x \in S \cup {r} :
    rows[x] # None /\ rows[x].parent # None => rows[x].parent \in S

LEMMA AncestorsBy ==
  ASSUME NEW rows, NEW r, NEW a \in Records
  PROVE  a \in Ancestors(rows, r) <=>
           \A S \in SUBSET Records : ClosedAbove(rows, r, S) => a \in S
BY DEF Ancestors, ClosedAbove

(* The ancestors are closed under the parent link.                         *)
LEMMA AncestorsClosed ==
  ASSUME NEW rows \in [Records -> Row \cup {None}], NEW r \in Records
  PROVE  ClosedAbove(rows, r, Ancestors(rows, r))
<1> SUFFICES ASSUME NEW x \in Ancestors(rows, r) \cup {r},
                    rows[x] # None, rows[x].parent # None
             PROVE  rows[x].parent \in Ancestors(rows, r)
  BY DEF ClosedAbove
<1>1. x \in Records
  BY AncestorsAreRecords
<1>2. rows[x].parent \in Records
  BY <1>1 DEF Row
<1>3. ASSUME NEW S \in SUBSET Records, ClosedAbove(rows, r, S)
      PROVE  rows[x].parent \in S
  <2>1. x \in S \cup {r}
    BY <1>1, <1>3, AncestorsBy
  <2> QED
    BY <1>3, <2>1 DEF ClosedAbove
<1> QED
  BY <1>2, <1>3, AncestorsBy

(* A record whose row is replaced closes no cycle if touch_parent comes to *)
(* an end from it.                                                         *)
LEMMA ReplacedAcyclic ==
  ASSUME NEW old \in [Records -> Row \cup {None}], Acyclic(old),
         NEW rows \in [Records -> Row \cup {None}], NEW r \in Records,
         \A x \in Records \ {r} : rows[x] = old[x],
         rows[r] # None => TouchEnds(rows, r)
  PROVE  Acyclic(rows)
<1> SUFFICES ASSUME NEW x \in Records PROVE x \notin Ancestors(rows, x)
  BY DEF Acyclic
<1>1. PICK S \in SUBSET Records : ClosedAbove(old, x, S) /\ x \notin S
  BY AncestorsBy DEF Acyclic
<1>2. CASE r \notin S \cup {x} \/ rows[r] = None
  <2>1. ClosedAbove(rows, x, S)
    BY <1>1, <1>2 DEF ClosedAbove
  <2> QED
    BY <1>1, <2>1, AncestorsBy
<1>3. CASE r \in S \cup {x} /\ rows[r] # None
  <2>1. TouchEnds(rows, r)
    BY <1>3
  <2>2. CASE x \in Ancestors(rows, r)
    BY <2>1, <2>2 DEF TouchEnds
  <2>3. CASE x \notin Ancestors(rows, r)
    <3> DEFINE A == Ancestors(rows, r)
               T == S \cup A
    <3>1. T \in SUBSET Records
      BY AncestorsAreRecords
    <3>2. ClosedAbove(rows, r, A)
      BY AncestorsClosed
    <3> HIDE DEF A
    <3>3. ClosedAbove(rows, x, T)
      BY <1>1, <3>2 DEF ClosedAbove
    <3> QED
      BY <1>1, <2>3, <3>1, <3>3, AncestorsBy DEF A
  <2> QED
    BY <2>2, <2>3
<1> QED
  BY <1>2, <1>3

(***************************************************************************)
(* What a handler leaves in tx, beyond PendingCovers.                      *)
(***************************************************************************)

(* The rows of table record once t is committed, if nobody interfered.     *)
Rewritten(t) ==
  IF t.table = "record" THEN [record EXCEPT ![t.key] = t.new] ELSE record

(* touch_parent came to an end.                                            *)
ClosesNoCycle(t) ==
  t.table = "record" /\ t.new # None => TouchEnds(Rewritten(t), t.key)

(* t stamps the parent of each record that it stamps.                      *)
StampsAbove(t) ==
  \A x \in t.stamped \cap Records :
    LET row == Rewritten(t)[x]
    IN  row # None /\ row.parent # None => row.parent \in t.stamped

(* A tag that is attached has no match but the instance it replaces, which *)
(* keeps its id.                                                           *)
TagsFit(t) ==
  t.table = "tag" =>
    /\ t.base # None => t.base \in tags[t.key]
    /\ t.base = None => t.new # None /\ t.new.id = t.at
    /\ t.base # None /\ t.new # None => t.new.id = t.base.id
    /\ t.new # None =>
         \A s \in tags[t.key] \ {t.base} : Compatible(s, t.new) /\ Compatible(t.new, s)

(* The collection a user's request adds a record to, or leaves it in, is   *)
(* not frozen; nor is one that loses a record.                             *)
RespectsFrozen(t) ==
  "admin" \notin Routes /\ t.table = "record" =>
    ~Frozen((IF t.new = None THEN t.base ELSE t.new).collection)

(* A record is inserted, updated or deleted; a collection or a provider is *)
(* updated, and still has the row its handler read.                        *)
ChangesRow(t) ==
  /\ t.table = "record" => t.base # None \/ t.new # None
  /\ t.table = "collection" => t.base = collection[t.key]
  /\ t.table = "provider" => t.base = provider[t.key]

Fits(t) ==
  /\ ClosesNoCycle(t)
  /\ StampsAbove(t)
  /\ TagsFit(t)
  /\ RespectsFrozen(t)
  /\ ChangesRow(t)

(* w begins a request that fits. *)
BeginsFit(w) == \E t : Begin(w, t) /\ Fits(t)

LEMMA SetFits ==
  ASSUME TypeOK, Acyclic(record), NEW w \in Workers, NEW r \in Records,
         NEW body \in Bodies, NEW route \in Routes, NEW parent \in ParentIds(body),
         SetRecord(w, r, body, parent, route)
  PROVE  BeginsFit(w)
<1> DEFINE old == record[r]
           row == RowOf(body, parent)
           rows == [record EXCEPT ![r] = row]
           left == IF old = None \/ old.parent = row.parent THEN {}
                   ELSE Ancestors(record, r)
           stamped == {r} \cup left \cup Ancestors(rows, r)
           t == Write("record", r, old, row, stamped)
<1>1. row \in Row /\ row # None /\ record \in [Records -> Row \cup {None}]
  BY RowOfType, TablesAssumption DEF TypeOK, TablesTypeOK
<1>2. rows \in [Records -> Row \cup {None}] /\ rows[r] = row
  BY <1>1
<1>3. Begin(w, t) /\ TouchEnds(rows, r) /\ Admitted(route, body.collection)
  BY DEF SetRecord
<1>4. /\ t.table = "record" /\ t.key = r /\ t.new = row /\ t.stamped = stamped
      /\ Rewritten(t) = rows
  BY DEF Write, Rewritten
<1>5. ClosedAbove(rows, r, Ancestors(rows, r))
  BY <1>2, AncestorsClosed
<1>6. ClosedAbove(record, r, Ancestors(record, r))
  BY <1>1, AncestorsClosed
<1>7. row.collection = body.collection
  BY DEF RowOf
<1>8. Ancestors(record, r) \subseteq Records
  BY AncestorsAreRecords
<1>9. ASSUME NEW x \in stamped \cap Records, rows[x] # None, rows[x].parent # None
      PROVE  rows[x].parent \in stamped
  <2>1. CASE x \in {r} \cup Ancestors(rows, r)
    BY <1>5, <1>9, <2>1 DEF ClosedAbove
  <2>2. CASE x # r /\ x \in left
    <3>1. rows[x] = record[x] /\ left = Ancestors(record, r)
      BY <1>1, <2>2
    <3> QED
      BY <1>6, <1>9, <2>2, <3>1 DEF ClosedAbove
  <2> QED
    BY <1>9, <2>1, <2>2
<1> HIDE DEF row, rows, stamped, t
<1>10. ClosesNoCycle(t) /\ TagsFit(t) /\ ChangesRow(t)
  BY <1>1, <1>3, <1>4 DEF ClosesNoCycle, TagsFit, ChangesRow
<1>11. StampsAbove(t)
  BY <1>4, <1>9 DEF StampsAbove
<1>12. RespectsFrozen(t)
  BY <1>1, <1>3, <1>4, <1>7 DEF RespectsFrozen, Admitted
<1> QED
  BY <1>3, <1>10, <1>11, <1>12 DEF BeginsFit, Fits

LEMMA CreateFits ==
  ASSUME TypeOK, NEW w \in Workers, NEW r \in Records,
         NEW body \in Bodies, NEW route \in Routes, NEW parent \in ParentIds(body),
         CreateRecord(w, r, body, parent, route)
  PROVE  BeginsFit(w)
<1> DEFINE row == RowOf(body, parent)
           rows == [record EXCEPT ![r] = row]
           stamped == {r} \cup Ancestors(rows, r)
           t == Write("record", r, None, row, stamped)
<1>1. row \in Row /\ row # None /\ record \in [Records -> Row \cup {None}]
  BY RowOfType, TablesAssumption DEF TypeOK, TablesTypeOK
<1>2. rows \in [Records -> Row \cup {None}] /\ rows[r] = row
  BY <1>1
<1>3. Begin(w, t) /\ TouchEnds(rows, r) /\ Admitted(route, body.collection)
  BY DEF CreateRecord
<1>4. /\ t.table = "record" /\ t.key = r /\ t.new = row /\ t.stamped = stamped
      /\ Rewritten(t) = rows
  BY DEF Write, Rewritten
<1>5. ClosedAbove(rows, r, Ancestors(rows, r))
  BY <1>2, AncestorsClosed
<1>6. row.collection = body.collection
  BY DEF RowOf
<1>7. \A x \in stamped \cap Records :
        rows[x] # None /\ rows[x].parent # None => rows[x].parent \in stamped
  BY <1>5 DEF ClosedAbove
<1> HIDE DEF row, rows, stamped, t
<1>8. ClosesNoCycle(t) /\ TagsFit(t) /\ ChangesRow(t)
  BY <1>1, <1>3, <1>4 DEF ClosesNoCycle, TagsFit, ChangesRow
<1>9. StampsAbove(t)
  BY <1>4, <1>7 DEF StampsAbove
<1>10. RespectsFrozen(t)
  BY <1>1, <1>3, <1>4, <1>6 DEF RespectsFrozen, Admitted
<1> QED
  BY <1>3, <1>8, <1>9, <1>10 DEF BeginsFit, Fits

LEMMA DeleteFits ==
  ASSUME TypeOK, NEW w \in Workers, NEW r \in Records, NEW route \in Routes,
         DeleteRecord(w, r, route)
  PROVE  BeginsFit(w)
<1> DEFINE stamped == Ancestors(record, r)
           t == Write("record", r, record[r], None, stamped)
           rows == [record EXCEPT ![r] = None]
<1>1. record \in [Records -> Row \cup {None}]
  BY DEF TypeOK, TablesTypeOK
<1>2. Begin(w, t) /\ Admitted(route, record[r].collection) /\ record[r] # None
  BY DEF DeleteRecord
<1>3. /\ t.table = "record" /\ t.key = r /\ t.new = None /\ t.base = record[r]
      /\ t.stamped = stamped /\ Rewritten(t) = rows
  BY DEF Write, Rewritten
<1>4. ClosedAbove(record, r, stamped)
  BY <1>1, AncestorsClosed
<1>5. \A x \in stamped \cap Records :
        rows[x] # None /\ rows[x].parent # None => rows[x].parent \in stamped
  BY <1>1, <1>4 DEF ClosedAbove
<1> HIDE DEF rows, stamped, t
<1>6. ClosesNoCycle(t) /\ TagsFit(t) /\ ChangesRow(t)
  BY <1>2, <1>3 DEF ClosesNoCycle, TagsFit, ChangesRow
<1>7. StampsAbove(t)
  BY <1>3, <1>5 DEF StampsAbove
<1>8. RespectsFrozen(t)
  BY <1>2, <1>3 DEF RespectsFrozen, Admitted
<1> QED
  BY <1>2, <1>6, <1>7, <1>8 DEF BeginsFit, Fits

(* A request that leaves the table record alone stamps what touch_parent   *)
(* visits from the record.                                                 *)
LEMMA VisitedIsClosed ==
  ASSUME TypeOK, NEW r \in Records, NEW t,
         t.table # "record", t.stamped = {r} \cup Ancestors(record, r)
  PROVE  StampsAbove(t)
<1>1. ClosedAbove(record, r, Ancestors(record, r))
  BY AncestorsClosed DEF TypeOK, TablesTypeOK
<1> QED
  BY <1>1 DEF StampsAbove, Rewritten, ClosedAbove

(* Collections and providers have no parents.                              *)
LEMMA OthersAreClosed ==
  ASSUME NEW o \in Collections \cup Providers, NEW t, t.stamped = {o}
  PROVE  StampsAbove(t)
BY TablesAssumption DEF StampsAbove

LEMMA AttachFits ==
  ASSUME TypeOK, NEW w \in Workers, NEW owner \in Owners,
         NEW in \in [tag : TagNames, data : STRING], NEW user \in STRING,
         NEW stamped, AttachTag(w, owner, in, user, stamped),
         \A t : t.table = "tag" /\ t.stamped = stamped => StampsAbove(t)
  PROVE  BeginsFit(w)
<1> DEFINE row(old) == [id |-> IF old = None THEN now + 1 ELSE old.id,
                        tag |-> in.tag, user |-> user, data |-> in.data,
                        ts |-> now + 1]
<1>1. PICK old \in {None} \cup tags[owner] :
        /\ Matching(owner, in, user) = IF old = None THEN {} ELSE {old}
        /\ Begin(w, Write("tag", owner, old, row(old), stamped))
  BY DEF AttachTag
<1>2. PICK new : new = row(old)
  OBVIOUS
<1>3. PICK t : t = Write("tag", owner, old, new, stamped)
  OBVIOUS
<1>4. /\ t.table = "tag" /\ t.key = owner /\ t.base = old /\ t.new = new
      /\ t.stamped = stamped /\ t.at = now + 1
  BY <1>3 DEF Write
<1>5. new.id = (IF old = None THEN now + 1 ELSE old.id)
      /\ new.tag = in.tag /\ new.user = user
  BY <1>2
<1>6. new # None
  <2>1. now + 1 \in Nat /\ old \in TagRow \cup {None}
    BY ApiAssumption DEF TypeOK, ApiTypeOK, TablesTypeOK
  <2>2. new \in TagRow
    BY <1>2, <2>1 DEF TagRow
  <2> QED
    BY <2>2, NoneAssumption
<1>7. ASSUME NEW s \in tags[owner] \ {old}, s.tag = in.tag
      PROVE  \/ TagCardinality(in.tag) = "multi"
             \/ TagCardinality(in.tag) = "user" /\ s.user # user
  <2>1. s \notin Matching(owner, in, user)
    BY <1>1
  <2> QED
    BY <1>7, <2>1 DEF Matching
<1>8. \A s \in tags[owner] \ {old} : Compatible(s, new) /\ Compatible(new, s)
  BY <1>5, <1>7 DEF Compatible
<1>9. TagsFit(t)
  <2>1. old # None => old \in tags[owner]
    OBVIOUS
  <2> QED
    BY <1>4, <1>5, <1>6, <1>8, <2>1 DEF TagsFit
<1>10. ClosesNoCycle(t) /\ RespectsFrozen(t) /\ ChangesRow(t) /\ StampsAbove(t)
  BY <1>4 DEF ClosesNoCycle, RespectsFrozen, ChangesRow
<1>11. Begin(w, t)
  BY <1>1, <1>2, <1>3
<1> QED
  BY <1>9, <1>10, <1>11 DEF BeginsFit, Fits

LEMMA RemoveFits ==
  ASSUME TypeOK, NEW w \in Workers, NEW owner \in Owners, NEW x \in tags[owner],
         NEW stamped, RemoveTag(w, owner, x, stamped),
         \A t : t.table = "tag" /\ t.stamped = stamped => StampsAbove(t)
  PROVE  BeginsFit(w)
<1>1. PICK t : t = Write("tag", owner, x, None, stamped)
  OBVIOUS
<1>2. /\ t.table = "tag" /\ t.key = owner /\ t.base = x /\ t.new = None
      /\ t.stamped = stamped
  BY <1>1 DEF Write
<1>3. x # None
  BY NoneAssumption DEF TypeOK, TablesTypeOK
<1>4. TagsFit(t)
  BY <1>2, <1>3 DEF TagsFit
<1>5. ClosesNoCycle(t) /\ RespectsFrozen(t) /\ ChangesRow(t) /\ StampsAbove(t)
  BY <1>2 DEF ClosesNoCycle, RespectsFrozen, ChangesRow
<1>6. Begin(w, t)
  BY <1>1 DEF RemoveTag
<1> QED
  BY <1>4, <1>5, <1>6 DEF BeginsFit, Fits

(* Every step of the API begins a request that fits, or ends one.          *)
LEMMA ApiStepsFit ==
  ASSUME TypeOK, Acyclic(record), ApiNext
  PROVE  \E w \in Workers : BeginsFit(w) \/ Commit(w) \/ Rollback(w)
<1>1. PICK w \in Workers :
        \/ \E r \in Records, body \in Bodies, route \in Routes :
             \E parent \in ParentIds(body) :
               \/ CreateRecord(w, r, body, parent, route)
               \/ SetRecord(w, r, body, parent, route)
        \/ \E r \in Records, route \in Routes : DeleteRecord(w, r, route)
        \/ \E r \in Records, in \in RecordTagIns, user \in Users :
             TagRecord(w, r, in, user)
        \/ \E r \in Records, user \in Users, route \in Routes :
             \E t \in tags[r] : UntagRecord(w, r, t, user, route)
        \/ \E c \in Collections, in \in CollectionTagIns, user \in Users :
             TagCollection(w, c, in, user)
        \/ \E c \in Collections, user \in Users, route \in Routes :
             \E t \in tags[c] : UntagCollection(w, c, t, user, route)
        \/ \E c \in Collections, row \in CollectionIns : UpdateCollection(w, c, row)
        \/ \E p \in Providers, row \in ProviderIns : UpdateProvider(w, p, row)
        \/ Commit(w)
        \/ Rollback(w)
  BY DEF ApiNext
<1>2. ASSUME NEW r \in Records, NEW in \in RecordTagIns, NEW user \in Users,
             TagRecord(w, r, in, user)
      PROVE  BeginsFit(w)
  <2> DEFINE stamped == {r} \cup Ancestors(record, r)
  <2>1. \A t : t.table = "tag" /\ t.stamped = stamped => StampsAbove(t)
    BY VisitedIsClosed
  <2>2. r \in Owners /\ in \in [tag : TagNames, data : STRING] /\ user \in STRING
    BY ApiAssumption DEF Owners, TagNames
  <2> QED
    BY <1>2, <2>1, <2>2, AttachFits DEF TagRecord
<1>3. ASSUME NEW r \in Records, NEW user \in Users, NEW route \in Routes,
             NEW t \in tags[r], UntagRecord(w, r, t, user, route)
      PROVE  BeginsFit(w)
  <2> DEFINE stamped == {r} \cup Ancestors(record, r)
  <2>1. \A x : x.table = "tag" /\ x.stamped = stamped => StampsAbove(x)
    BY VisitedIsClosed
  <2>2. r \in Owners
    BY DEF Owners
  <2> QED
    BY <1>3, <2>1, <2>2, RemoveFits DEF UntagRecord
<1>4. ASSUME NEW c \in Collections, NEW in \in CollectionTagIns, NEW user \in Users,
             TagCollection(w, c, in, user)
      PROVE  BeginsFit(w)
  <2>1. \A t : t.table = "tag" /\ t.stamped = {c} => StampsAbove(t)
    BY OthersAreClosed
  <2>2. c \in Owners /\ in \in [tag : TagNames, data : STRING] /\ user \in STRING
    BY ApiAssumption DEF Owners, TagNames
  <2> QED
    BY <1>4, <2>1, <2>2, AttachFits DEF TagCollection
<1>5. ASSUME NEW c \in Collections, NEW user \in Users, NEW route \in Routes,
             NEW t \in tags[c], UntagCollection(w, c, t, user, route)
      PROVE  BeginsFit(w)
  <2>1. \A x : x.table = "tag" /\ x.stamped = {c} => StampsAbove(x)
    BY OthersAreClosed
  <2>2. c \in Owners
    BY DEF Owners
  <2> QED
    BY <1>5, <2>1, <2>2, RemoveFits DEF UntagCollection
<1>6. ASSUME NEW o \in Collections \cup Providers, NEW base, NEW new,
             NEW table \in {"collection", "provider"},
             base = IF table = "collection" THEN collection[o] ELSE provider[o],
             Begin(w, Write(table, o, base, new, {o}))
      PROVE  BeginsFit(w)
  <2>1. PICK t : t = Write(table, o, base, new, {o})
    OBVIOUS
  <2>2. t.table = table /\ t.stamped = {o} /\ t.key = o /\ t.base = base
    BY <2>1 DEF Write
  <2>3. StampsAbove(t)
    BY <2>2, OthersAreClosed
  <2>4. ClosesNoCycle(t) /\ RespectsFrozen(t) /\ ChangesRow(t) /\ TagsFit(t)
    BY <1>6, <2>2 DEF ClosesNoCycle, RespectsFrozen, ChangesRow, TagsFit
  <2> QED
    BY <1>6, <2>1, <2>3, <2>4 DEF BeginsFit, Fits
<1>7. ASSUME NEW c \in Collections, NEW row \in CollectionIns,
             UpdateCollection(w, c, row)
      PROVE  BeginsFit(w)
  BY <1>6, <1>7 DEF UpdateCollection
<1>8. ASSUME NEW p \in Providers, NEW row \in ProviderIns, UpdateProvider(w, p, row)
      PROVE  BeginsFit(w)
  BY <1>6, <1>8 DEF UpdateProvider
<1> QED
  BY <1>1, <1>2, <1>3, <1>4, <1>5, <1>7, <1>8, CreateFits, SetFits, DeleteFits

(***************************************************************************)
(* The inductive invariant.                                                *)
(***************************************************************************)

PendingFits == \A w \in Workers : tx[w] # None => Fits(tx[w])

(* A tag's id is a primary key; the ids handed out are older than the      *)
(* pending request.                                                        *)
IdsHold ==
  /\ \A o, p \in Owners : \A s \in tags[o], t \in tags[p] :
       s.id = t.id => o = p /\ s = t
  /\ \A o \in Owners : \A t \in tags[o] : t.id \in 1 .. MaxClock => Past(t.id)

(* What the pending request was checked against still holds when it        *)
(* commits, so that the links, stamps, tags and audit entries do.          *)
RecordInv ==
  /\ FreshnessInv
  /\ PendingFits
  /\ IdsHold
  /\ ParentAcyclic
  /\ ParentStamped
  /\ TagCardinalityKept
  /\ AuditTells

LEMMA InitRecord == ASSUME Init PROVE RecordInv
<1>1. FreshnessInv
  BY InitFresh
<1>2. PendingFits
  BY DEF Init, ApiInit, PendingFits
<1>3. IdsHold /\ ParentAcyclic /\ TagCardinalityKept
  BY StartAssumption
     DEF Init, TablesInit, IdsHold, ParentAcyclic, TagCardinalityKept
<1>4. ParentStamped
  <2>1. \A r \in Records : record[r] # None /\ record[r].parent # None =>
          r \in Objects /\ record[r].parent \in Objects
    BY TablesAssumption DEF Init, TablesInit, Row, Objects
  <2> QED
    BY <2>1 DEF Init, TablesInit, ParentStamped, Existing
<1>5. AuditTells
  <2>1. \A c \in Collections \cup Providers : c \notin DOMAIN audit
    BY TablesAssumption DEF Init, TablesInit
  <2>2. \A o \in Owners : \A t \in tags[o] : ~(t.ts > 0)
    BY TablesAssumption DEF Init, TablesInit
  <2> QED
    BY <2>1, <2>2 DEF Init, TablesInit, AuditTells
<1> QED
  BY <1>1, <1>2, <1>3, <1>4, <1>5 DEF RecordInv

(* Where only requests go away, all but freshness stays as it was.         *)
LEMMA RecordKept ==
  ASSUME RecordInv, FreshnessInv',
         UNCHANGED <<record, collection, provider, tags, timestamp, audit, now>>,
         \A w \in Workers : tx'[w] \in {tx[w], None}
  PROVE  RecordInv'
<1>1. PendingFits'
  <2> SUFFICES ASSUME NEW w \in Workers, tx'[w] # None PROVE Fits(tx[w])'
    BY DEF PendingFits
  <2>1. PICK t : t = tx'[w] /\ t = tx[w]
    OBVIOUS
  <2>2. Fits(t)
    BY <2>1 DEF RecordInv, PendingFits
  <2>3. Fits(t)'
    BY <2>2 DEF Fits, ClosesNoCycle, StampsAbove, TagsFit, RespectsFrozen, ChangesRow,
                Rewritten, Frozen
  <2> QED
    BY <2>1, <2>3
<1>2. IdsHold'
  BY DEF RecordInv, IdsHold, Past
<1>3. ParentAcyclic' /\ ParentStamped' /\ TagCardinalityKept' /\ AuditTells'
  BY DEF RecordInv, ParentAcyclic, ParentStamped, TagCardinalityKept, AuditTells, Existing
<1> QED
  BY <1>1, <1>2, <1>3 DEF RecordInv

LEMMA BeginKeeps ==
  ASSUME \A v, w \in Workers : v = w,
         RecordInv, FreshnessInv', NEW w \in Workers, BeginsFit(w)
  PROVE  RecordInv'
<1>1. PICK t : Begin(w, t) /\ Fits(t)
  BY DEF BeginsFit
<1>2. /\ now' = now + 1 /\ UNCHANGED tables
      /\ \A v \in Workers : tx'[v] = t
  BY <1>1 DEF Begin, RecordInv, FreshnessInv, TypeOK, ApiTypeOK
<1>3. PendingFits'
  <2>1. Fits(t)'
    BY <1>1, <1>2 DEF Fits, ClosesNoCycle, StampsAbove, TagsFit, RespectsFrozen,
                      ChangesRow, Rewritten, Frozen, tables
  <2>2. \A v \in Workers : Fits(tx[v])'
    <3> SUFFICES ASSUME NEW v \in Workers PROVE Fits(tx[v])'
      OBVIOUS
    <3>1. PICK x : x = tx'[v]
      OBVIOUS
    <3> QED
      BY <1>2, <2>1, <3>1
  <2> QED
    BY <2>2 DEF PendingFits
<1>4. IdsHold'
  <2>1. now \in Nat
    BY StampTypes DEF RecordInv, FreshnessInv
  <2>2. \A v \in Workers : tx'[v] # None => tx'[v].at = now + 1
    BY <1>2 DEF FreshnessInv, PendingCovers
  <2>3. \A i \in Nat : Past(i) => Past(i)'
    BY <1>2, <2>1, <2>2 DEF Past
  <2> QED
    BY <1>2, <2>3 DEF RecordInv, IdsHold, tables
<1>5. ParentAcyclic' /\ ParentStamped' /\ TagCardinalityKept' /\ AuditTells'
  BY <1>2 DEF RecordInv, ParentAcyclic, ParentStamped, TagCardinalityKept, AuditTells,
              Existing, tables
<1> QED
  BY <1>3, <1>4, <1>5 DEF RecordInv

(***************************************************************************)
(* Commits.                                                                *)
(***************************************************************************)

(* A tag has the id of the request's tag only if the request replaces it.  *)
LEMMA IdIsBase ==
  ASSUME RecordInv, NEW w \in Workers, NEW t, t = tx[w], t # None, t.table = "tag",
         NEW o \in Owners, NEW s \in tags[o], s.id = TagId(t)
  PROVE  o = t.key /\ s = t.base
<1>1. TypeOK /\ t \in Request /\ t.key \in Owners /\ t.at \in Nat /\ now \in Nat
  <2>1. TypeOK /\ t \in Request /\ now \in 0 .. MaxClock
    BY DEF RecordInv, FreshnessInv, TypeOK, ApiTypeOK
  <2> QED
    BY <2>1, ApiAssumption DEF Request, Writes
<1>2. Fits(t) /\ t.at = now
  BY DEF RecordInv, PendingFits, FreshnessInv, PendingCovers
<1>3. CASE t.base # None
  BY <1>1, <1>2, <1>3 DEF Fits, TagsFit, TagId, RecordInv, IdsHold
<1>4. CASE t.base = None
  <2>1. s.id = t.at
    BY <1>2, <1>4 DEF Fits, TagsFit, TagId
  <2>2. timestamp[t.key] \in Nat /\ timestamp[t.key] < t.at
    BY <1>1 DEF TypeOK, TablesTypeOK, RecordInv, FreshnessInv, StampsArePast, Past,
                Objects, Owners
  <2>3. t.at \in 1 .. MaxClock
    BY <1>1, <1>2, <2>2, ApiAssumption DEF TypeOK, ApiTypeOK
  <2>4. t.at < t.at
    BY <2>1, <2>3 DEF RecordInv, IdsHold, Past
  <2> QED
    BY <1>1, <2>4
<1> QED
  BY <1>3, <1>4

(* What Commit makes of the tables, when nobody interfered.                *)
KeptTag(t, o, x) == x \in tags[o] /\ (t.table = "tag" => x.id # TagId(t))

AttachedTag(t, o, x) ==
  t.table = "tag" /\ o = t.key /\ x = t.new /\ x # None /\ x.id = TagId(t)

(* The ORM writes the tag, collection or provider that the handler meant.  *)
LEMMA WrittenIsNew ==
  ASSUME RecordInv, NEW w \in Workers, NEW t, t = tx[w], t # None, t.table = "tag"
  PROVE  TagWritten(t) \subseteq {t.new} \ {None}
<1>1. t \in Request /\ Fits(t)
  BY DEF RecordInv, FreshnessInv, PendingFits, TypeOK, ApiTypeOK
<1>2. CASE t.new = None \/ t.base = None
  BY <1>1, <1>2 DEF TagWritten, Fits, TagsFit
<1>3. CASE t.new # None /\ t.base # None
  <2>1. t.new \in TagRow /\ t.base \in TagRow
    BY <1>1, <1>3 DEF Request, Writes
  <2>2. \A y \in tags[t.key] : y.id = t.base.id => y = t.base
    BY <1>1, <1>3, IdIsBase DEF TagId, Request, Writes
  <2>3. [t.new EXCEPT !.user = Column(t.base.user, t.new.user, t.base.user)] = t.new
    BY <2>1 DEF Column, TagRow
  <2> QED
    BY <1>3, <2>2, <2>3 DEF TagWritten
<1> QED
  BY <1>2, <1>3

LEMMA UpdatedIsNew ==
  ASSUME RecordInv, NEW w \in Workers, NEW t, t = tx[w], t # None
  PROVE  /\ t.table = "collection" => CollectionsAfter(t) = [collection EXCEPT ![t.key] = t.new]
         /\ t.table = "provider" => ProvidersAfter(t) = [provider EXCEPT ![t.key] = t.new]
<1>1. t \in Request /\ ChangesRow(t) /\ TypeOK
  BY DEF RecordInv, FreshnessInv, PendingFits, Fits, TypeOK, ApiTypeOK
<1>2. CASE t.table = "collection"
  <2>1. t.new \in CollectionRow /\ t.base = collection[t.key]
    BY <1>1, <1>2 DEF Request, Writes, ChangesRow
  <2>2. [key |-> Column(t.base.key, t.new.key, collection[t.key].key),
         provider |-> Column(t.base.provider, t.new.provider, collection[t.key].provider)]
          = t.new
    BY <2>1 DEF Column, CollectionRow
  <2> QED
    BY <1>2, <2>2 DEF CollectionsAfter
<1>3. CASE t.table = "provider"
  <2>1. t.new \in ProviderRow /\ t.base = provider[t.key]
    BY <1>1, <1>3 DEF Request, Writes, ChangesRow
  <2>2. [key |-> Column(t.base.key, t.new.key, provider[t.key].key)] = t.new
    BY <2>1 DEF Column, ProviderRow
  <2> QED
    BY <1>3, <2>2 DEF ProvidersAfter
<1> QED
  BY <1>2, <1>3

LEMMA CommitIs ==
  ASSUME RecordInv, FreshnessInv', NEW w \in Workers, Commit(w),
         NEW t, t = tx[w]
  PROVE  /\ t # None /\ t \in Request /\ Fits(t) /\ Covers(t) /\ t.at = now
         /\ record' = Rewritten(t)
         /\ \A o \in Owners : \A x \in tags'[o] : KeptTag(t, o, x) \/ AttachedTag(t, o, x)
         /\ \A o \in Owners : tags'[o] \subseteq TagRow
<1>1. t # None /\ t \in Request /\ TypeOK
  BY DEF Commit, RecordInv, FreshnessInv, TypeOK, ApiTypeOK
<1>2. Fits(t) /\ Covers(t) /\ t.at = now
  BY <1>1 DEF RecordInv, PendingFits, FreshnessInv, PendingCovers
<1>3. record' = Rewritten(t)
  <2>1. record' = RowsAfter(t)
    BY DEF Commit
  <2> QED
    BY <1>1, <1>2, <2>1, MergedIsNew DEF RowsAfter, Rewritten
<1>4. ASSUME NEW o \in Owners, NEW x \in tags'[o]
      PROVE  KeptTag(t, o, x) \/ AttachedTag(t, o, x)
  <2>1. x \in TagsAfter(t, o)
    BY <1>4 DEF Commit
  <2>2. CASE t.table # "tag" \/ t.key # o
    <3>1. x \in tags[o]
      BY <2>1, <2>2 DEF TagsAfter
    <3>2. t.table = "tag" => x.id # TagId(t)
      BY <1>1, <2>2, <3>1, IdIsBase
    <3> QED
      BY <3>1, <3>2 DEF KeptTag
  <2>3. CASE t.table = "tag" /\ t.key = o
    <3>1. x \in {y \in tags[o] : y.id # TagId(t)} \cup ({t.new} \ {None})
      BY <1>1, <1>2, <2>1, <2>3, WrittenIsNew DEF TagsAfter
    <3>2. t.new # None => t.new.id = TagId(t)
      BY <1>2, <2>3 DEF Fits, TagsFit, TagId
    <3> QED
      BY <2>3, <3>1, <3>2 DEF KeptTag, AttachedTag
  <2> QED
    BY <2>2, <2>3
<1>5. \A o \in Owners : tags'[o] \subseteq TagRow
  BY DEF FreshnessInv, TypeOK, TablesTypeOK
<1> QED
  BY <1>1, <1>2, <1>3, <1>4, <1>5

LEMMA CommitTags ==
  ASSUME RecordInv, FreshnessInv', NEW w \in Workers, Commit(w),
         \A v \in Workers : tx'[v] = None
  PROVE  IdsHold' /\ TagCardinalityKept'
<1>1. PICK t : t = tx[w]
  OBVIOUS
<1>2. /\ t # None /\ t \in Request /\ Fits(t) /\ Covers(t) /\ t.at = now
      /\ \A o \in Owners : \A x \in tags'[o] : KeptTag(t, o, x) \/ AttachedTag(t, o, x)
      /\ \A o \in Owners : tags'[o] \subseteq TagRow
  BY <1>1, CommitIs
<1>3. \A o \in Owners : tags[o] \subseteq TagRow
  BY DEF RecordInv, FreshnessInv, TypeOK, TablesTypeOK
<1>4. ASSUME NEW o \in Owners, NEW p \in Owners, NEW x \in tags'[o], NEW y \in tags'[p],
             x.id = y.id
      PROVE  o = p /\ x = y
  <2>1. CASE KeptTag(t, o, x) /\ KeptTag(t, p, y)
    BY <1>4, <2>1 DEF KeptTag, RecordInv, IdsHold
  <2>2. CASE AttachedTag(t, o, x) /\ AttachedTag(t, p, y)
    BY <2>2 DEF AttachedTag
  <2>3. CASE KeptTag(t, o, x) /\ AttachedTag(t, p, y)
    BY <1>4, <2>3 DEF KeptTag, AttachedTag
  <2>4. CASE AttachedTag(t, o, x) /\ KeptTag(t, p, y)
    BY <1>4, <2>4 DEF KeptTag, AttachedTag
  <2> QED
    BY <1>2, <2>1, <2>2, <2>3, <2>4
<1>5. ASSUME NEW o \in Owners, NEW x \in tags'[o], x.id \in 1 .. MaxClock
      PROVE  x.id <= now
  <2>1. CASE KeptTag(t, o, x)
    BY <1>5, <2>1 DEF KeptTag, RecordInv, IdsHold, Past
  <2>2. CASE AttachedTag(t, o, x) /\ t.base = None
    <3>1. x.id = now
      BY <1>2, <2>2 DEF AttachedTag, Fits, TagsFit
    <3>2. now \in Nat
      BY StampTypes DEF RecordInv, FreshnessInv
    <3> QED
      BY <3>1, <3>2
  <2>3. CASE AttachedTag(t, o, x) /\ t.base # None
    <3>1. t.base \in tags[o] /\ x.id = t.base.id
      BY <1>2, <2>3 DEF AttachedTag, Fits, TagsFit
    <3> QED
      BY <1>5, <3>1 DEF RecordInv, IdsHold, Past
  <2> QED
    BY <1>2, <2>1, <2>2, <2>3
<1>6. IdsHold'
  <2>1. UNCHANGED now
    BY DEF Commit
  <2>2. \A i : i <= now => Past(i)'
    BY <2>1 DEF Past
  <2> QED
    BY <1>4, <1>5, <2>2 DEF IdsHold
<1>7. ASSUME NEW o \in Owners, NEW x \in tags'[o], AttachedTag(t, o, x),
             NEW y, KeptTag(t, o, y)
      PROVE  Compatible(x, y) /\ Compatible(y, x)
  <2>1. y \in tags[o] /\ y # None /\ y # t.base
    <3>1. y \in tags[o] /\ y.id # TagId(t)
      BY <1>7 DEF KeptTag, AttachedTag
    <3>2. y # None
      BY <1>3, <3>1, NoneAssumption
    <3> QED
      BY <3>1, <3>2 DEF TagId
  <2> QED
    BY <1>2, <1>7, <2>1 DEF AttachedTag, Fits, TagsFit
<1>8. ASSUME NEW o \in Owners, NEW x \in tags'[o], NEW y \in tags'[o], x # y
      PROVE  Compatible(x, y)
  <2>1. CASE KeptTag(t, o, x) /\ KeptTag(t, o, y)
    BY <1>8, <2>1 DEF KeptTag, RecordInv, TagCardinalityKept, CardinalityKept
  <2>2. CASE AttachedTag(t, o, x) /\ AttachedTag(t, o, y)
    BY <1>8, <2>2 DEF AttachedTag
  <2> QED
    BY <1>2, <1>7, <2>1, <2>2
<1>9. TagCardinalityKept'
  BY <1>8 DEF TagCardinalityKept, CardinalityKept
<1> QED
  BY <1>6, <1>9

LEMMA CommitLinks ==
  ASSUME RecordInv, FreshnessInv', NEW w \in Workers, Commit(w)
  PROVE  ParentAcyclic' /\ ParentStamped'
<1>1. PICK t : t = tx[w]
  OBVIOUS
<1>2. /\ t # None /\ t \in Request /\ Fits(t) /\ Covers(t) /\ t.at = now
      /\ record' = Rewritten(t)
  BY <1>1, CommitIs
<1>3. /\ record \in [Records -> Row \cup {None}] /\ record' \in [Records -> Row \cup {None}]
      /\ timestamp \in [Objects -> Nat] /\ t.at \in Nat
  BY <1>2 DEF RecordInv, FreshnessInv, TypeOK, TablesTypeOK, Request, Writes
<1>4. ParentAcyclic'
  <2>1. CASE t.table # "record"
    BY <1>2, <2>1 DEF Rewritten, RecordInv, ParentAcyclic
  <2>2. CASE t.table = "record"
    <3>1. t.key \in Records
      BY <1>2, <2>2 DEF Request, Writes
    <3>2. record' = [record EXCEPT ![t.key] = t.new]
      BY <1>2, <2>2 DEF Rewritten
    <3>3. record'[t.key] # None => TouchEnds(record', t.key)
      BY <1>2, <1>3, <2>2, <3>1, <3>2 DEF Fits, ClosesNoCycle
    <3>4. \A x \in Records \ {t.key} : record'[x] = record[x]
      BY <1>3, <3>2
    <3>5. Acyclic(record)
      BY DEF RecordInv, ParentAcyclic
    <3>6. Acyclic(record')
      BY <1>3, <3>1, <3>3, <3>4, <3>5, ReplacedAcyclic
    <3> QED
      BY <3>6 DEF ParentAcyclic, Acyclic
  <2> QED
    BY <2>1, <2>2
<1>5. ParentStamped'
  <2> SUFFICES ASSUME NEW r \in Records, record'[r] # None, record'[r].parent # None
               PROVE  timestamp'[r] <= timestamp'[record'[r].parent]
    BY DEF ParentStamped, Existing
  <2>1. PICK p : p = record'[r].parent
    OBVIOUS
  <2>2. p \in Records /\ p \in Objects /\ r \in Objects
    BY <1>3, <2>1 DEF Row, Objects
  <2>3. \A o \in Objects : timestamp'[o] = IF o \in t.stamped THEN t.at ELSE timestamp[o]
    BY <1>1 DEF Commit
  <2>4. CASE r \in t.stamped
    <3>1. p \in t.stamped
      BY <1>2, <2>1, <2>4 DEF Fits, StampsAbove
    <3> QED
      BY <1>3, <2>1, <2>2, <2>3, <2>4, <3>1
  <2>5. CASE r \notin t.stamped
    <3>1. record'[r] = record[r]
      <4>1. ~(t.table = "record" /\ t.key = r /\ t.new # None)
        BY <1>2, <2>5 DEF Covers
      <4> QED
        BY <1>2, <1>3, <4>1 DEF Rewritten
    <3>2. timestamp[r] <= timestamp[p]
      BY <2>1, <3>1 DEF RecordInv, ParentStamped, Existing
    <3>3. timestamp[r] < t.at
      BY <1>1, <1>2, <2>2 DEF RecordInv, FreshnessInv, StampsArePast, Past
    <3> QED
      BY <1>3, <2>1, <2>2, <2>3, <2>5, <3>2, <3>3
  <2> QED
    BY <2>4, <2>5
<1> QED
  BY <1>4, <1>5

LEMMA CommitAudit ==
  ASSUME RecordInv, FreshnessInv', NEW w \in Workers, Commit(w)
  PROVE  AuditTells'
<1>1. PICK t : t = tx[w]
  OBVIOUS
<1>2. /\ t # None /\ t \in Request /\ Fits(t) /\ Covers(t)
      /\ record' = Rewritten(t)
      /\ \A o \in Owners : \A x \in tags'[o] : KeptTag(t, o, x) \/ AttachedTag(t, o, x)
  BY <1>1, CommitIs
<1>3. TypeOK
  BY DEF RecordInv, FreshnessInv
<1>4. PICK k : k = AuditKey(t)
  OBVIOUS
<1>5. /\ DOMAIN audit' = (DOMAIN audit) \cup {k}
      /\ audit'[k] = AuditEntry(t)
      /\ \A i \in (DOMAIN audit) \ {k} : audit'[i] = audit[i]
  BY <1>1, <1>4 DEF Commit
<1>6. t.table = "tag" => k \in Nat
  <2>1. t.table = "tag" => t.base \in TagRow \cup {None} /\ t.new \in TagRow \cup {None}
    BY <1>2 DEF Request, Writes
  <2>2. t.table = "tag" /\ t.base = None => t.new # None
    BY <1>2 DEF Fits, TagsFit
  <2> QED
    BY <1>4, <2>1, <2>2 DEF AuditKey, TagId, TagRow
<1>7. t.table # "tag" => k = t.key /\ k \in Objects
  BY <1>2, <1>4 DEF AuditKey, Request, Writes, Objects
<1>8. \A o \in Objects : o \notin Nat
  BY StartAssumption
<1>9. ASSUME NEW r \in Records
      PROVE  IF record'[r] = None
             THEN r \in DOMAIN audit' => audit'[r].command = "delete"
             ELSE /\ r \in DOMAIN audit'
                  /\ audit'[r].command # "delete"
                  /\ audit'[r].image = record'[r]
  <2>1. CASE k = r
    <3>1. t.table = "record" /\ t.key = r
      BY <1>2, <1>6, <1>7, <1>8, <2>1, TablesAssumption DEF Request, Writes, Objects
    <3>2. record'[r] = t.new
      BY <1>2, <1>3, <3>1 DEF Rewritten, TypeOK, TablesTypeOK
    <3>3. t.base # None \/ t.new # None
      BY <1>2, <3>1 DEF Fits, ChangesRow
    <3> QED
      BY <1>5, <2>1, <3>2, <3>3 DEF AuditEntry
  <2>2. CASE k # r
    <3>1. record'[r] = record[r]
      BY <1>2, <1>3, <1>7, <2>2 DEF Rewritten, TypeOK, TablesTypeOK
    <3> QED
      BY <1>5, <2>2, <3>1 DEF RecordInv, AuditTells
  <2> QED
    BY <2>1, <2>2
<1>10. ASSUME NEW o \in Owners, NEW x \in tags'[o], x.ts > 0
       PROVE  /\ x.id \in DOMAIN audit'
              /\ audit'[x.id].command # "delete"
              /\ audit'[x.id].image = x
  <2>1. CASE KeptTag(t, o, x)
    <3>1. x \in tags[o] /\ x.id \in Nat
      BY <1>3, <2>1 DEF KeptTag, TypeOK, TablesTypeOK, TagRow
    <3>2. x.id # k
      BY <1>4, <1>7, <1>8, <2>1, <3>1 DEF KeptTag, AuditKey
    <3> QED
      BY <1>5, <1>10, <3>1, <3>2 DEF RecordInv, AuditTells
  <2>2. CASE AttachedTag(t, o, x)
    <3>1. x.id = k /\ t.new = x /\ t.new # None
      BY <1>4, <2>2 DEF AttachedTag, AuditKey
    <3> QED
      BY <1>5, <3>1 DEF AuditEntry
  <2> QED
    BY <1>2, <2>1, <2>2
<1>11. ASSUME NEW c \in Collections \cap DOMAIN audit'
       PROVE  audit'[c].image = collection'[c]
  <2>1. collection' = CollectionsAfter(t)
    BY <1>1 DEF Commit
  <2>2. CASE k = c
    <3>1. t.table = "collection" /\ t.key = c
      BY <1>2, <1>6, <1>7, <1>8, <2>2, TablesAssumption DEF Request, Writes, Objects
    <3>2. t.new # None
      BY <1>2, <3>1, TablesAssumption DEF Request, Writes
    <3>3. collection'[c] = t.new
      <4>1. collection' = [collection EXCEPT ![c] = t.new]
        BY <1>1, <1>2, <2>1, <3>1, UpdatedIsNew
      <4> QED
        BY <1>3, <4>1 DEF TypeOK, TablesTypeOK
    <3> QED
      BY <1>5, <2>2, <3>2, <3>3 DEF AuditEntry
  <2>3. CASE k # c
    <3>1. collection'[c] = collection[c]
      BY <1>3, <1>7, <2>1, <2>3 DEF CollectionsAfter, TypeOK, TablesTypeOK
    <3> QED
      BY <1>5, <2>3, <3>1 DEF RecordInv, AuditTells
  <2> QED
    BY <2>2, <2>3
<1>12. ASSUME NEW p \in Providers \cap DOMAIN audit'
       PROVE  audit'[p].image = provider'[p]
  <2>1. provider' = ProvidersAfter(t)
    BY <1>1 DEF Commit
  <2>2. CASE k = p
    <3>1. t.table = "provider" /\ t.key = p
      BY <1>2, <1>6, <1>7, <1>8, <2>2, TablesAssumption DEF Request, Writes, Objects, Owners
    <3>2. t.new # None
      BY <1>2, <3>1, TablesAssumption DEF Request, Writes
    <3>3. provider'[p] = t.new
      <4>1. provider' = [provider EXCEPT ![p] = t.new]
        BY <1>1, <1>2, <2>1, <3>1, UpdatedIsNew
      <4> QED
        BY <1>3, <4>1 DEF TypeOK, TablesTypeOK
    <3> QED
      BY <1>5, <2>2, <3>2, <3>3 DEF AuditEntry
  <2>3. CASE k # p
    <3>1. provider'[p] = provider[p]
      BY <1>3, <1>7, <2>1, <2>3 DEF ProvidersAfter, TypeOK, TablesTypeOK
    <3> QED
      BY <1>5, <2>3, <3>1 DEF RecordInv, AuditTells
  <2> QED
    BY <2>2, <2>3
<1> QED
  BY <1>9, <1>10, <1>11, <1>12 DEF AuditTells

(***************************************************************************)
(* The theorems.                                                           *)
(***************************************************************************)

LEMMA NextRecord ==
  ASSUME \A v, w \in Workers : v = w, RecordInv, [Next]_vars
  PROVE  RecordInv'
<1>1. FreshnessInv'
  BY NextFresh DEF RecordInv
<1>2. CASE ApiStep
  <2>1. PICK w \in Workers : BeginsFit(w) \/ Commit(w) \/ Rollback(w)
    BY <1>2, ApiStepsFit DEF ApiStep, RecordInv, FreshnessInv, ParentAcyclic
  <2>2. CASE BeginsFit(w)
    BY <1>1, <2>2, BeginKeeps
  <2>3. CASE Commit(w)
    <3>1. \A v \in Workers : tx'[v] = None
      BY <2>3 DEF Commit, RecordInv, FreshnessInv, TypeOK, ApiTypeOK
    <3>2. PendingFits'
      BY <3>1 DEF PendingFits
    <3> QED
      BY <1>1, <2>3, <3>1, <3>2, CommitTags, CommitLinks, CommitAudit DEF RecordInv
  <2>4. CASE Rollback(w)
    <3>1. \A v \in Workers : tx'[v] \in {tx[v], None}
      BY <2>4 DEF Rollback, RecordInv, FreshnessInv, TypeOK, ApiTypeOK
    <3>2. UNCHANGED <<record, collection, provider, tags, timestamp, audit, now>>
      BY <2>4 DEF Rollback, tables
    <3> QED
      BY <1>1, <3>1, <3>2, RecordKept
  <2> QED
    BY <2>1, <2>2, <2>3, <2>4
<1>3. CASE Publish \/ UNCHANGED vars
  <2>1. UNCHANGED <<record, collection, provider, tags, timestamp, audit, now, tx>>
    BY <1>3 DEF Publish, PublisherNext, PublisherStep, TakeSnapshot, SyncRecord,
         SaveGlobalData, SelectUnsynced, MirrorRecord, MirrorFails, MirrorDone,
         Abort, Crash, Stop, NextDay, vars, tables, apiVars
  <2> QED
    BY <1>1, <2>1, RecordKept
<1> QED
  BY <1>2, <1>3 DEF Next

(* With one API process, what a request was checked against still holds    *)
(* when it commits: the inductive invariant.                               *)
THEOREM RecordSafety ==
  ASSUME \A v, w \in Workers : v = w
  PROVE  Spec => []RecordInv
<1>1. Init => RecordInv
  BY InitRecord
<1>2. RecordInv /\ [Next]_vars => RecordInv'
  BY NextRecord
<1> QED
  BY <1>1, <1>2, PTL DEF Spec

(* touch_parent comes to an end for every record: no record is its own     *)
(* ancestor, however requests change DOIs and links.                       *)
THEOREM HierarchyIsAcyclic ==
  ASSUME \A v, w \in Workers : v = w
  PROVE  Spec => []ParentAcyclic
<1>1. RecordInv => ParentAcyclic
  BY DEF RecordInv
<1> QED
  BY <1>1, RecordSafety, PTL

(* A record is stamped no earlier than its children (touch_parent).        *)
THEOREM ChangesReachParents ==
  ASSUME \A v, w \in Workers : v = w
  PROVE  Spec => []ParentStamped
<1>1. RecordInv => ParentStamped
  BY DEF RecordInv
<1> QED
  BY <1>1, RecordSafety, PTL

(* No record or collection has more instances of a tag than its            *)
(* cardinality allows, although no constraint of the database says so.     *)
THEOREM CardinalityHolds ==
  ASSUME \A v, w \in Workers : v = w
  PROVE  Spec => []TagCardinalityKept
<1>1. RecordInv => TagCardinalityKept
  BY DEF RecordInv
<1> QED
  BY <1>1, RecordSafety, PTL

(* The last audit entry of a record, tag, collection or provider shows it  *)
(* as it is.                                                               *)
THEOREM RecordAuditTells ==
  ASSUME \A v, w \in Workers : v = w
  PROVE  Spec => []AuditTells
<1>1. RecordInv => AuditTells
  BY DEF RecordInv
<1> QED
  BY <1>1, RecordSafety, PTL

LEMMA NextRespectsFrozen ==
  ASSUME \A v, w \in Workers : v = w, RecordInv, [Next]_vars,
         NEW r \in Records, record'[r] # record[r], "admin" \notin Routes
  PROVE  IF record'[r] = None THEN ~Frozen(record[r].collection)
         ELSE ~Frozen(record'[r].collection)
<1>1. RecordInv'
  BY NextRecord
<1>2. CASE ApiStep
  <2>1. PICK w \in Workers : BeginsFit(w) \/ Commit(w) \/ Rollback(w)
    BY <1>2, ApiStepsFit DEF ApiStep, RecordInv, FreshnessInv, ParentAcyclic
  <2>2. Commit(w)
    BY <2>1 DEF BeginsFit, Begin, Rollback, tables
  <2>3. PICK t : t = tx[w]
    OBVIOUS
  <2>4. Fits(t) /\ Covers(t) /\ record' = Rewritten(t)
    BY <1>1, <2>2, <2>3, CommitIs DEF RecordInv
  <2>5. t.table = "record" /\ t.key = r /\ record'[r] = t.new /\ record[r] = t.base
    BY <2>4 DEF Rewritten, Covers, RecordInv, FreshnessInv, TypeOK, TablesTypeOK
  <2>6. ~Frozen((IF t.new = None THEN t.base ELSE t.new).collection)
    BY <2>4, <2>5 DEF Fits, RespectsFrozen
  <2> QED
    BY <2>5, <2>6
<1>3. CASE Publish
  BY <1>3, PublishKeepsRecords
<1>4. CASE UNCHANGED vars
  BY <1>4 DEF vars, tables
<1> QED
  BY <1>2, <1>3, <1>4 DEF Next

(* No user's request adds a record to a frozen collection, or leaves one   *)
(* in it changed, and none deletes a record of it, also when the flag and  *)
(* the record change in turns.                                             *)
THEOREM FrozenHolds ==
  ASSUME \A v, w \in Workers : v = w
  PROVE  Spec => FrozenAdmitsNone
<1> DEFINE Respects ==
             \A r \in Records : record'[r] # record[r] /\ "admin" \notin Routes =>
               IF record'[r] = None THEN ~Frozen(record[r].collection)
               ELSE ~Frozen(record'[r].collection)
<1>1. RecordInv /\ [Next]_vars => [Respects]_<<tables, apiVars>>
  BY NextRespectsFrozen
<1>2. Spec => [][Respects]_<<tables, apiVars>>
  <2> HIDE DEF Respects
  <2> QED
    BY <1>1, RecordSafety, PTL DEF Spec
<1> QED
  BY <1>2 DEF FrozenAdmitsNone
=============================================================================
