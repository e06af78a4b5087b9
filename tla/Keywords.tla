------------------------------ MODULE Keywords ------------------------------
(***************************************************************************)
(* The hierarchy of keywords (odp/api/routers/keyword.py): suggestions,    *)
(* settings and deletions by several API processes.  A handler reads       *)
(* committed rows and leaves its write in tx; Flush sends it to the        *)
(* database, which checks it against the constraints of the table and      *)
(* locks what it touches; the middleware commits it or rolls it back.      *)
(***************************************************************************)
EXTENDS Integers, FiniteSets

CONSTANTS
  None,
  KeywordIds,
  ProperPrefixes,    \* the ids that an id properly starts with
  Data,
  Statuses,
  SchemaIds,         \* names of schemas that requests give
  Schemas,           \* the schemas of type keyword that are installed
  Admits,            \* per installed schema: the data it declares valid
  InitialKeyword,    \* the vocabularies that migration installs
  Workers,
  Suggestions,       \* bodies of POST requests, with the id of their path
  Settings,          \* bodies of PUT requests, with the id of their path
  MaxRequests        \* bound on the number of requests

VARIABLES
  keyword,           \* table keyword: None or the row, by id
  audit,             \* table keyword_audit: number of entries, by id and command
  tx,                \* per process: None, or the write of its request
  requests           \* how many requests have begun

vars == <<keyword, audit, tx, requests>>

(* typed: child_schema_type is set. *)
KeywordRow ==
  [data : Data, status : Statuses, parent : KeywordIds \cup {None},
   schema : SchemaIds \cup {None}, typed : BOOLEAN]

Commands == {"insert", "update", "delete"}

Live(rows) == {k \in KeywordIds : rows[k] # None}

(* Mutant: sub-keywords become roots when their vocabulary goes away       *)
(* (ON DELETE SET NULL, or no foreign key).                                *)
WellFormedButParents(rows) ==
  \A k \in Live(rows) :
    rows[k].parent = None => rows[k].schema # None

(* The constraints of the table: foreign keys on the parent and the schema *)
(* (which does not bind without a type), ids that start with their         *)
(* parent's, and a schema for every root.                                  *)
WellFormed(rows) ==
  \A k \in Live(rows) :
    /\ rows[k].parent # None =>
         rows[k].parent \in Live(rows) \cap (ProperPrefixes[k] \cup {k})
    /\ rows[k].parent = None => rows[k].schema # None
    /\ rows[k].typed /\ rows[k].schema # None => rows[k].schema \in Schemas

(* An id is a finite string, so there is no infinite chain of prefixes.    *)
ASSUME KeywordAssumption ==
  /\ None \notin KeywordIds \cup SchemaIds
  /\ ProperPrefixes \in [KeywordIds -> SUBSET KeywordIds]
  /\ \A S \in SUBSET KeywordIds \ {{}} : \E k \in S : ProperPrefixes[k] \cap S = {}
  /\ "proposed" \in Statuses
  /\ Schemas \subseteq SchemaIds
  /\ InitialKeyword \in [KeywordIds -> KeywordRow \cup {None}]
  /\ None \notin KeywordRow
  /\ WellFormed(InitialKeyword)
  /\ \A k \in Live(InitialKeyword) : InitialKeyword[k].parent # k
  /\ Suggestions \subseteq [id : KeywordIds, parent : KeywordIds, data : Data]
  /\ Settings \subseteq [id : KeywordIds, parent : KeywordIds, data : Data,
                         status : Statuses, schema : SchemaIds \cup {None}]
  /\ MaxRequests \in Nat

(***************************************************************************)
(* Validation.                                                             *)
(***************************************************************************)

(* get_child_schema: the nearest keyword, upwards from p, that names a     *)
(* schema, or the root where the search ends.                              *)
Governor[p \in KeywordIds] ==
  IF keyword[p].schema # None \/ keyword[p].parent = None THEN p
  ELSE Governor[keyword[p].parent]

(* The schema is looked up by name and type: without a type, none is found. *)
ChildSchema(p) ==
  LET row == keyword[Governor[p]] IN IF row.typed THEN row.schema ELSE None

(* validate_keyword_input; without a schema it fails on None.uri.          *)
ValidInput(in) ==
  /\ in.parent \in ProperPrefixes[in.id]
  /\ keyword[in.parent] # None
  /\ ChildSchema(in.parent) # None
  /\ in.data \in Admits[ChildSchema(in.parent)]

(***************************************************************************)
(* The handlers.  A write turns the row base, as the handler read it, into *)
(* new; None is for no row.  Its stage is "begun" until it is flushed, and *)
(* then "written", or "missed" if it found no row to delete.               *)
(***************************************************************************)

Begin(w, command, k, new) ==
  /\ tx[w] = None
  /\ requests < MaxRequests
  /\ requests' = requests + 1
  /\ tx' = [tx EXCEPT ![w] = [command |-> command, key |-> k,
                              base |-> keyword[k], new |-> new,
                              stage |-> "begun"]]
  /\ UNCHANGED <<keyword, audit>>

SuggestKeyword(w) ==
  \E in \in Suggestions :
    /\ ValidInput(in)
    /\ keyword[in.id] = None
    /\ Begin(w, "insert", in.id,
             [data |-> in.data, status |-> "proposed", parent |-> in.parent,
              schema |-> None, typed |-> FALSE])

(* The parent of a keyword that exists stays as it is, and a request that  *)
(* changes nothing leaves no trace.                                        *)
SetKeyword(w) ==
  \E in \in Settings :
    LET base == keyword[in.id] IN
    /\ ValidInput(in)
    /\ base # None =>
         <<base.data, base.status, base.schema>> # <<in.data, in.status, in.schema>>
    /\ Begin(w, IF base = None THEN "insert" ELSE "update", in.id,
             [data |-> in.data, status |-> in.status,
              parent |-> IF base = None THEN in.parent ELSE base.parent,
              schema |-> in.schema, typed |-> in.schema # None])

DeleteKeyword(w) ==
  \E k \in Live(keyword) : Begin(w, "delete", k, None)

(***************************************************************************)
(* The end of a request.                                                   *)
(***************************************************************************)

Column(base, new, current) == IF new # base THEN new ELSE current

(* The ORM updates the columns that differ from what the handler read.     *)
MergedRow(t) ==
  IF t.base = None \/ t.new = None THEN t.new
  ELSE LET cur == keyword[t.key]
       IN  [data   |-> Column(t.base.data, t.new.data, cur.data),
            status |-> Column(t.base.status, t.new.status, cur.status),
            parent |-> cur.parent,
            schema |-> Column(t.base.schema, t.new.schema, cur.schema),
            typed  |-> Column(t.base.typed, t.new.typed, cur.typed)]

RowsAfter(t) == [keyword EXCEPT ![t.key] = MergedRow(t)]

(* Mutant: only the handlers check, no constraint of the table.            *)
AcceptedUnchecked(t) ==
  /\ t.command = "insert" => keyword[t.key] = None
  /\ t.command = "update" => keyword[t.key] # None

(* An insert of an id that exists and an update of a row that is gone are  *)
(* refused.                                                                *)
Accepted(t) ==
  /\ t.command = "insert" => keyword[t.key] = None
  /\ t.command = "update" => keyword[t.key] # None
  /\ WellFormed(RowsAfter(t))

(* A delete of a row that another request has deleted is not refused (the  *)
(* ORM warns): it deletes nothing.                                         *)
Misses(t) == t.command = "delete" /\ keyword[t.key] = None

(* The foreign key has an insert hold the row of the parent.               *)
InsertsBelow(s, t) == s.command = "insert" /\ t.command = "delete" /\ s.new.parent = t.key

(* Two writes of one row wait for each other, and so do the insert of a    *)
(* keyword and the delete of its parent.                                   *)
Conflicts(s, t) == s.key = t.key \/ InsertsBelow(s, t) \/ InsertsBelow(t, s)

Written(w) == tx[w] # None /\ tx[w].stage = "written"

Flush(w) ==
  LET t == tx[w] IN
  /\ t # None
  /\ t.stage = "begun"
  /\ \A v \in Workers : Written(v) => ~Conflicts(tx[v], t)
  /\ \/ Misses(t) /\ tx' = [tx EXCEPT ![w].stage = "missed"]
     \/ ~Misses(t) /\ Accepted(t) /\ tx' = [tx EXCEPT ![w].stage = "written"]
  /\ UNCHANGED <<keyword, audit, requests>>

WithEntry(t) == [audit EXCEPT ![t.key][t.command] = @ + 1]

(* Row and audit entry become visible together; a delete logs its entry    *)
(* before it finds out whether there is a row.                             *)
Commit(w) ==
  LET t == tx[w] IN
  /\ t # None
  /\ t.stage # "begun"
  /\ keyword' = IF t.stage = "written" THEN RowsAfter(t) ELSE keyword
  /\ audit' = WithEntry(t)
  /\ tx' = [tx EXCEPT ![w] = None]
  /\ UNCHANGED requests

(* Mutant: the audit entry has a transaction of its own.                   *)
RollbackButAudit(w) ==
  /\ tx[w] # None
  /\ tx' = [tx EXCEPT ![w] = None]
  /\ audit' = WithEntry(tx[w])
  /\ UNCHANGED <<keyword, requests>>

(* A refused flush, a deadlock, an error response or the end of the        *)
(* process.                                                                *)
Rollback(w) ==
  /\ tx[w] # None
  /\ tx' = [tx EXCEPT ![w] = None]
  /\ UNCHANGED <<keyword, audit, requests>>

Init ==
  /\ keyword = InitialKeyword
  /\ audit = [k \in KeywordIds |-> [c \in Commands |-> 0]]
  /\ tx = [w \in Workers |-> None]
  /\ requests = 0

Next ==
  \E w \in Workers :
    \/ SuggestKeyword(w) \/ SetKeyword(w) \/ DeleteKeyword(w)
    \/ Flush(w) \/ Commit(w) \/ Rollback(w)

Spec == Init /\ [][Next]_vars

(***************************************************************************)
(* Properties.                                                             *)
(***************************************************************************)

(* An insert goes below a proper prefix, and an update keeps the parent.   *)
WriteOK(t) ==
  /\ t \in [command : Commands, key : KeywordIds,
            base : KeywordRow \cup {None}, new : KeywordRow \cup {None},
            stage : {"begun", "written", "missed"}]
  /\ t.command = "insert" => t.base = None /\ t.new # None /\ t.new.parent \in ProperPrefixes[t.key]
  /\ t.command = "update" => t.base # None /\ t.new # None
  /\ t.command = "delete" => t.new = None
  /\ t.stage = "missed" => t.command = "delete"

(* Rows, requests and audit entries have their shape. *)
TypeOK ==
  /\ keyword \in [KeywordIds -> KeywordRow \cup {None}]
  /\ audit \in [KeywordIds -> [Commands -> Nat]]
  /\ DOMAIN tx = Workers
  /\ \A w \in Workers : tx[w] = None \/ WriteOK(tx[w])
  /\ requests \in 0 .. MaxRequests

(* What a flush was accepted for is still so when it commits, whichever    *)
(* requests commit in between, and no two of them are at odds.             *)
LocksHold ==
  /\ \A w \in Workers : Written(w) => Accepted(tx[w]) /\ ~Misses(tx[w])
  /\ \A v, w \in Workers : Written(v) /\ Written(w) /\ v # w => ~Conflicts(tx[v], tx[w])

(* What the table holds: its constraints, and parents that are proper      *)
(* prefixes, which no constraint says.                                     *)
KeywordInv ==
  /\ TypeOK
  /\ WellFormed(keyword)
  /\ \A k \in Live(keyword) : keyword[k].parent # k
  /\ LocksHold

(* The search for a schema ends, and finds one: from any keyword upwards   *)
(* every parent exists, no set of keywords is closed under "parent", and a *)
(* root names a schema.  get_child_schema and output_keyword_model recurse *)
(* on it, for rows that other processes insert, set and delete meanwhile.  *)
SchemaSearchEnds ==
  /\ \A S \in SUBSET Live(keyword) \ {{}} : \E k \in S : keyword[k].parent \notin S
  /\ \A k \in Live(keyword) :
       IF keyword[k].parent = None THEN keyword[k].schema # None
       ELSE keyword[k].parent \in Live(keyword)

(* The audit log accounts for what became of an id, after concurrent       *)
(* inserts, updates and deletes of it and refused ones: it has an insert   *)
(* for every time the keyword was created, and at least one delete for     *)
(* every time it went.  (There may be more: requests that delete a keyword *)
(* at the same time all log it.  Nor does the last entry tell: that of a   *)
(* delete is numbered and stamped before its request waits for others.)    *)
AuditAccounts ==
  \A k \in KeywordIds :
    LET created == audit[k]["insert"] + IF k \in Live(InitialKeyword) THEN 1 ELSE 0
        present == IF k \in Live(keyword) THEN 1 ELSE 0
    IN  present <= created /\ created - present <= audit[k]["delete"]
=============================================================================
