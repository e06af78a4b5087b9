------------------------------- MODULE Access -------------------------------
(***************************************************************************)
(* Who may do what: roles, clients, providers, packages, collections and   *)
(* users, the API requests that create, update and delete them, the        *)
(* configuration of clients at Hydra, and the permissions that             *)
(* odp/lib/auth.py derives.                                                *)
(*                                                                         *)
(* A handler reads committed rows and leaves its write in tx; Commit       *)
(* applies it, if the constraints of the tables allow.  A request for a    *)
(* client has a step in between: it flushes, which locks the row, and then *)
(* calls Hydra, which no rollback undoes.                                  *)
(***************************************************************************)
EXTENDS Integers, FiniteSets, Folds

CONSTANTS
  None,
  RoleIds, ClientIds, ProviderIds, PackageIds, CollectionIds, UserIds,
  Scopes,
  ByCollection, ByProvider,   \* scopes constrainable by a collection, a provider
  RoleScopes,                 \* scopes of a type that roles may have
  RoleAdmin, ClientAdmin,     \* the scopes odp.role:admin and odp.client:admin
  Occupied,                   \* collections with records, packages with resources
  InitialRows,
  Bodies,                     \* requests: an id and the row to be
  Workers,
  MaxRequests                 \* bound on the number of requests

VARIABLES
  rows,              \* the six tables with their associations
  retired,           \* ids of deleted rows; a UUID is not drawn again
  hydra,             \* per client: None, or the scopes of its configuration
  tx,                \* per API process: None, or the write of its request
  requests           \* how many requests have begun

vars == <<rows, retired, hydra, tx, requests>>

Tables == <<RoleIds, ClientIds, ProviderIds, PackageIds, CollectionIds, UserIds>>

Objects ==
  RoleIds \cup ClientIds \cup ProviderIds \cup PackageIds \cup CollectionIds \cup UserIds

Row(specific, provider, scopes, links) ==
  [specific |-> specific, provider |-> provider, scopes |-> scopes, links |-> links]

RoleRow ==
  [specific : BOOLEAN, provider : {None}, scopes : SUBSET RoleScopes, links : SUBSET CollectionIds]

ClientRow ==
  [specific : BOOLEAN, provider : ProviderIds \cup {None}, scopes : SUBSET Scopes, links : {{}}]

ProviderRow == [specific : {FALSE}, provider : {None}, scopes : {{}}, links : SUBSET UserIds]

PackageRow == [specific : {FALSE}, provider : ProviderIds, scopes : {{}}, links : {{}}]

CollectionRow == [specific : {FALSE}, provider : ProviderIds, scopes : {{}}, links : {{}}]

UserRow == [specific : {FALSE}, provider : {None}, scopes : {{}}, links : SUBSET RoleIds]

RowOf(o) ==
  IF o \in RoleIds THEN RoleRow
  ELSE IF o \in ClientIds THEN ClientRow
  ELSE IF o \in ProviderIds THEN ProviderRow
  ELSE IF o \in PackageIds THEN PackageRow
  ELSE IF o \in CollectionIds THEN CollectionRow
  ELSE UserRow

Live(table) == {o \in Objects : table[o] # None}

(* The foreign keys.                                                       *)
RefsLive(table) ==
  \A o \in Live(table) :
    table[o].links \cup ({table[o].provider} \ {None}) \subseteq Live(table)

ASSUME AccessAssumption ==
  /\ None \notin Objects \cup Scopes
  /\ \A o \in Objects : None \notin RowOf(o)
  /\ \A i, j \in 1 .. 6 : i # j => Tables[i] \cap Tables[j] = {}
  /\ IsFiniteSet(RoleIds)
  /\ "*" \notin CollectionIds \cup ProviderIds \cup {None}
  /\ ByCollection \subseteq Scopes /\ ByProvider \subseteq Scopes
  /\ ByCollection \cap ByProvider = {}
  /\ RoleScopes \subseteq Scopes
  /\ {RoleAdmin, ClientAdmin} \subseteq Scopes
  /\ InitialRows \in [Objects -> (UNION {RowOf(o) : o \in Objects}) \cup {None}]
  /\ \A o \in Live(InitialRows) : InitialRows[o] \in RowOf(o)
  /\ RefsLive(InitialRows)
  /\ \A b \in Bodies : b.id \in Objects /\ b.row \in RowOf(b.id)
  /\ MaxRequests \in Nat

(***************************************************************************)
(* Permissions: the ids of the objects that a scope may be used for, or    *)
(* Any.  Providers of a user are the rows that name the user.              *)
(***************************************************************************)

Any == {"*"}

(* Mutant: a client without a provider is not restricted to one.           *)
ClientPermissionByProvider(c, s) ==
  IF rows[c].provider # None /\ s \in ByProvider THEN {rows[c].provider} ELSE Any

(* get_client_permissions: a deleted provider leaves [None].               *)
ClientPermission(c, s) ==
  IF rows[c].specific /\ s \in ByProvider THEN {rows[c].provider} ELSE Any

ProvidersOf(u) == {p \in ProviderIds \cap Live(rows) : u \in rows[p].links}

RolePermission(r, u, s) ==
  IF s \in ByCollection /\ rows[r].specific THEN rows[r].links
  ELSE IF s \in ByProvider THEN ProvidersOf(u)
  ELSE Any

(* Mutant: the last role decides.                                          *)
LastRole(a, b) == a

Widen(a, b) == IF Any \in {a, b} THEN Any ELSE a \cup b

RolesWith(u, s) == {r \in rows[u].links : s \in rows[r].scopes}

(* The access that the user's roles grant, one after the other.            *)
RolesPermission(u, s) ==
  MapThenFoldSet(Widen, {}, LAMBDA r : RolePermission(r, u, s),
                 LAMBDA S : CHOOSE r \in S : TRUE, RolesWith(u, s))

Intersection(a, b) ==
  IF a = Any THEN b ELSE IF b = Any THEN a ELSE a \cap b

(* get_user_permissions: the scopes and, for each, the permission.         *)
UserPermissions(u, c) ==
  [s \in {x \in rows[c].scopes : RolesWith(u, x) # {}} |->
     Intersection(ClientPermission(c, s), RolesPermission(u, s))]

(* _authorize_request, for a call by user u through client c, or by the    *)
(* client itself if u is None: the permissions of the rows as they are,    *)
(* whatever the token says.                                                *)
Permissions(u, c) ==
  IF u = None THEN [s \in rows[c].scopes |-> ClientPermission(c, s)]
  ELSE UserPermissions(u, c)

Authorized(u, c, s) ==
  /\ u = None \/ u \in Live(rows)
  /\ c \in Live(rows)
  /\ s \in DOMAIN Permissions(u, c)

(* enforce_constraint: objects is a set of ids, or Any.                    *)
Enforce(permission, objects) ==
  permission = Any \/ (objects # Any /\ objects \subseteq permission)

MayUse(u, c, s, objects) ==
  Authorized(u, c, s) /\ Enforce(Permissions(u, c)[s], objects)

(***************************************************************************)
(* The handlers.  A write turns the row base, as the handler read it, into *)
(* new; None is for no row.                                                *)
(***************************************************************************)

Begin(w, o, new) ==
  /\ tx[w] = None
  /\ requests < MaxRequests
  /\ requests' = requests + 1
  /\ tx' = [tx EXCEPT ![w] = [id |-> o, base |-> rows[o], new |-> new, flushed |-> FALSE]]
  /\ UNCHANGED <<rows, retired, hydra>>

(* Roles whose access is limited to collections do not administer roles,   *)
(* nor do clients of one provider administer clients.                      *)
RoleAllowed(row) == ~(row.specific /\ RoleAdmin \in row.scopes)

ClientAllowed(row) == ~(row.specific /\ ClientAdmin \in row.scopes)

CreateRole(w) ==
  \E b \in Bodies :
    b.id \in RoleIds \ Live(rows) /\ RoleAllowed(b.row) /\ Begin(w, b.id, b.row)

UpdateRole(w) ==
  \E b \in Bodies :
    b.id \in RoleIds \cap Live(rows) /\ RoleAllowed(b.row) /\ Begin(w, b.id, b.row)

DeleteRole(w) == \E r \in RoleIds \cap Live(rows) : Begin(w, r, None)

CreateClient(w) ==
  \E b \in Bodies :
    b.id \in ClientIds \ Live(rows) /\ ClientAllowed(b.row) /\ Begin(w, b.id, b.row)

UpdateClient(w) ==
  \E b \in Bodies :
    b.id \in ClientIds \cap Live(rows) /\ ClientAllowed(b.row) /\ Begin(w, b.id, b.row)

DeleteClient(w) == \E c \in ClientIds \cap Live(rows) : Begin(w, c, None)

(* New providers, packages and collections get ids that were never used.   *)
Fresh(o) == o \notin Live(rows) \cup retired /\ \A v \in Workers : tx[v] # None => tx[v].id # o

CreateProvider(w) ==
  \E b \in Bodies : b.id \in ProviderIds /\ Fresh(b.id) /\ Begin(w, b.id, b.row)

(* Here of a provider its users, of a package or collection its provider.  *)
(* An update that changes nothing leaves no trace.                         *)
UpdateProvider(w) ==
  \E b \in Bodies :
    b.id \in ProviderIds \cap Live(rows) /\ b.row # rows[b.id] /\ Begin(w, b.id, b.row)

DeleteProvider(w) == \E p \in ProviderIds \cap Live(rows) : Begin(w, p, None)

CreatePackage(w) ==
  \E b \in Bodies : b.id \in PackageIds /\ Fresh(b.id) /\ Begin(w, b.id, b.row)

UpdatePackage(w) ==
  \E b \in Bodies :
    b.id \in PackageIds \cap Live(rows) /\ b.row # rows[b.id] /\ Begin(w, b.id, b.row)

DeletePackage(w) == \E k \in PackageIds \cap Live(rows) : Begin(w, k, None)

CreateCollection(w) ==
  \E b \in Bodies : b.id \in CollectionIds /\ Fresh(b.id) /\ Begin(w, b.id, b.row)

UpdateCollection(w) ==
  \E b \in Bodies :
    b.id \in CollectionIds \cap Live(rows) /\ b.row # rows[b.id] /\ Begin(w, b.id, b.row)

DeleteCollection(w) == \E c \in CollectionIds \cap Live(rows) : Begin(w, c, None)

UpdateUser(w) ==
  \E b \in Bodies :
    b.id \in UserIds \cap Live(rows) /\ b.row # rows[b.id] /\ Begin(w, b.id, b.row)

DeleteUser(w) == \E u \in UserIds \cap Live(rows) : Begin(w, u, None)

(***************************************************************************)
(* The end of a request.                                                   *)
(***************************************************************************)

Column(base, new, current) == IF new # base THEN new ELSE current

Members(base, new, current) == (current \ (base \ new)) \cup (new \ base)

(* The ORM updates the columns that differ from what the handler read, and *)
(* inserts and deletes the associations that do.                           *)
MergedRow(t) ==
  LET cur == rows[t.id] IN
  Row(Column(t.base.specific, t.new.specific, cur.specific),
      Column(t.base.provider, t.new.provider, cur.provider),
      Members(t.base.scopes, t.new.scopes, cur.scopes),
      Members(t.base.links, t.new.links, cur.links))

(* What goes away with o: the collections of a provider.                   *)
DeletedWith(o) ==
  {o} \cup {c \in CollectionIds \cap Live(rows) : rows[c].provider = o}

(* ON DELETE RESTRICT for what records, resources and packages refer to.   *)
Restricted(o) ==
  \/ DeletedWith(o) \cap Occupied # {}
  \/ \E k \in PackageIds \cap Live(rows) : rows[k].provider = o

(* ON DELETE SET NULL for the provider of a client, and ON DELETE CASCADE  *)
(* for everything else.                                                    *)
RowsWithout(gone) ==
  [o \in Objects |->
     IF o \in gone \/ rows[o] = None THEN None
     ELSE [rows[o] EXCEPT !.links = @ \ gone, !.provider = IF @ \in gone THEN None ELSE @]]

RowsAfter(t) ==
  IF t.new = None THEN RowsWithout(DeletedWith(t.id))
  ELSE IF t.base = None THEN [rows EXCEPT ![t.id] = t.new]
  ELSE IF rows[t.id] = None THEN rows
  ELSE [rows EXCEPT ![t.id] = MergedRow(t)]

(* An update of a row that is gone finds nothing to delete, but cannot     *)
(* change or insert; an association is inserted once.                      *)
UpdateAccepted(t) ==
  LET scopes == t.new.scopes \ t.base.scopes
      links == t.new.links \ t.base.links
  IN  IF rows[t.id] # None
      THEN scopes \cap rows[t.id].scopes = {} /\ links \cap rows[t.id].links = {}
      ELSE /\ scopes \cup links = {}
           /\ t.new.specific = t.base.specific /\ t.new.provider = t.base.provider

(* Mutant: no foreign keys.                                                *)
AcceptedUnchecked(t) ==
  /\ t.base = None => rows[t.id] = None
  /\ t.base # None /\ t.new # None => UpdateAccepted(t)
  /\ t.new = None => ~Restricted(t.id)

Accepted(t) ==
  /\ t.base = None => rows[t.id] = None
  /\ t.base # None /\ t.new # None => UpdateAccepted(t)
  /\ t.new = None => ~Restricted(t.id)
  /\ RefsLive(RowsAfter(t))

(* A write waits for a flushed one of the same row, of the provider that a *)
(* flushed client refers to, or of a client that it sets to NULL.          *)
Conflicts(s, t) ==
  /\ s.base # s.new
  /\ \/ s.id = t.id /\ t.base # t.new
     \/ t.new = None /\ rows[s.id] # None /\ rows[s.id].provider = t.id
     \/ t.new = None /\ s.new # None /\ s.new.provider = t.id

Waits(w) ==
  \E v \in Workers \ {w} : tx[v] # None /\ tx[v].flushed /\ Conflicts(tx[v], tx[w])

(* client.save() or client.delete(), and the call to Hydra.                *)
Flush(w) ==
  LET t == tx[w] IN
  /\ t # None
  /\ t.id \in ClientIds
  /\ ~t.flushed
  /\ ~Waits(w)
  /\ Accepted(t)
  /\ hydra' = [hydra EXCEPT ![t.id] = IF t.new = None THEN None ELSE t.new.scopes]
  /\ tx' = [tx EXCEPT ![w].flushed = TRUE]
  /\ UNCHANGED <<rows, retired, requests>>

Commit(w) ==
  LET t == tx[w] IN
  /\ t # None
  /\ IF t.id \in ClientIds THEN t.flushed ELSE Accepted(t) /\ ~Waits(w)
  /\ rows' = RowsAfter(t)
  /\ retired' = IF t.new = None THEN retired \cup DeletedWith(t.id) ELSE retired
  /\ tx' = [tx EXCEPT ![w] = None]
  /\ UNCHANGED <<hydra, requests>>

(* A refused flush, a failed call of Hydra, an answer of it that does not  *)
(* come, an error response, a commit that fails, the end of the process.   *)
Rollback(w) ==
  /\ tx[w] # None
  /\ tx' = [tx EXCEPT ![w] = None]
  /\ UNCHANGED <<rows, retired, hydra, requests>>

Init ==
  /\ rows = InitialRows
  /\ retired = {}
  /\ hydra = [c \in ClientIds |-> IF InitialRows[c] = None THEN None ELSE InitialRows[c].scopes]
  /\ tx = [w \in Workers |-> None]
  /\ requests = 0

Handle(w) ==
  \/ CreateRole(w) \/ UpdateRole(w) \/ DeleteRole(w)
  \/ CreateClient(w) \/ UpdateClient(w) \/ DeleteClient(w)
  \/ CreateProvider(w) \/ UpdateProvider(w) \/ DeleteProvider(w)
  \/ CreatePackage(w) \/ UpdatePackage(w) \/ DeletePackage(w)
  \/ CreateCollection(w) \/ UpdateCollection(w) \/ DeleteCollection(w)
  \/ UpdateUser(w) \/ DeleteUser(w)

Next == \E w \in Workers : Handle(w) \/ Flush(w) \/ Commit(w) \/ Rollback(w)

Spec == Init /\ [][Next]_vars

(***************************************************************************)
(* Properties.                                                             *)
(***************************************************************************)

WriteOK(t) ==
  /\ t \in [id : Objects, base : RowOf(t.id) \cup {None}, new : RowOf(t.id) \cup {None},
            flushed : BOOLEAN]
  /\ t.base # None \/ t.new # None

(* Rows, configurations and requests have their shape, and no association  *)
(* outlives what it refers to: a role keeps no deleted collection, a user  *)
(* no deleted role, a package no deleted provider, although requests that  *)
(* add them are under way when these are deleted.                          *)
TypeOK ==
  /\ DOMAIN rows = Objects
  /\ \A o \in Objects : rows[o] \in RowOf(o) \cup {None}
  /\ RefsLive(rows)
  /\ retired \subseteq Objects
  /\ hydra \in [ClientIds -> (SUBSET Scopes) \cup {None}]
  /\ DOMAIN tx = Workers
  /\ \A w \in Workers : tx[w] = None \/ WriteOK(tx[w])
  /\ requests \in 0 .. MaxRequests

(* The restrictions as the documentation of the tables gives them: a       *)
(* client's scopes for packages "apply only to objects associated with the *)
(* referenced provider", a role's scopes for records "only to those        *)
(* collections"; users have the packages of their own providers.           *)
ClientGrants(c, s, o) ==
  /\ s \in rows[c].scopes
  /\ rows[c].specific /\ s \in ByProvider => o = rows[c].provider

RoleGrants(r, u, s, o) ==
  /\ s \in rows[r].scopes
  /\ rows[r].specific /\ s \in ByCollection => o \in rows[r].links
  /\ s \in ByProvider => o \in ProviderIds \cap Live(rows) /\ u \in rows[o].links

(* get_user_permissions: "the intersection of the set of client            *)
(* permissions with the cumulative set of permissions granted via the      *)
(* user's roles".  The permission that is computed scope by scope, with    *)
(* '*' and lists and role after role, lets a user use a scope for an       *)
(* object exactly if one of the roles and the client grant it, in every    *)
(* state that edits, deletions and cascades lead to; and an operation that *)
(* needs the scope unconstrained is let through only where every object    *)
(* is granted, also those to come.                                         *)
PermissionsAreMet ==
  \A u \in (UserIds \cap Live(rows)) \cup {None},
     c \in ClientIds \cap Live(rows), s \in Scopes :
    LET granted(o) ==
          /\ ClientGrants(c, s, o)
          /\ u = None \/ \E r \in rows[u].links : RoleGrants(r, u, s, o)
    IN  /\ \A o \in ProviderIds \cup CollectionIds : MayUse(u, c, s, {o}) <=> granted(o)
        /\ MayUse(u, c, s, Any) <=> granted("*")

Deletes(t) == t # None /\ t.new = None

(* The models' note that "provider deletion does not widen any             *)
(* package/resource access granted to the client", for every deletion: a   *)
(* request that deletes a provider, collection, role, user or client, with *)
(* the cascades of the tables, gives no user or client access to anything. *)
DeletionsNeverWiden ==
  [][(\E w \in Workers : Deletes(tx[w]) /\ tx'[w] = None) =>
       \A u \in UserIds \cup {None}, c \in ClientIds, s \in Scopes :
       \A objects \in {{o} : o \in ProviderIds \cup CollectionIds} \cup {Any} :
         MayUse(u, c, s, objects)' => MayUse(u, c, s, objects)]_vars

(* The same note: "we need to delete a client via the API to ensure that   *)
(* configuration is removed from Hydra".                                   *)
DeletionReachesHydra ==
  [][\A c \in ClientIds :
       c \in Live(rows) /\ c \notin Live(rows)' => hydra'[c] = None]_vars
=============================================================================
