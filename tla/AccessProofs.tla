---------------------------- MODULE AccessProofs ----------------------------
(***************************************************************************)
(* Theorems about Access, for every set of roles, clients, providers,      *)
(* packages, collections, users, scopes, requests and processes.           *)
(***************************************************************************)
EXTENDS Access, FiniteSetTheorems, WellFoundedInduction, TLAPS

(* The ids of different tables differ.                                     *)
LEMMA IdsDiffer ==
  /\ RoleIds \cap ClientIds = {} /\ RoleIds \cap ProviderIds = {}
  /\ RoleIds \cap PackageIds = {} /\ RoleIds \cap CollectionIds = {}
  /\ RoleIds \cap UserIds = {} /\ ClientIds \cap ProviderIds = {}
  /\ ClientIds \cap PackageIds = {} /\ ClientIds \cap CollectionIds = {}
  /\ ClientIds \cap UserIds = {} /\ ProviderIds \cap PackageIds = {}
  /\ ProviderIds \cap CollectionIds = {} /\ ProviderIds \cap UserIds = {}
  /\ PackageIds \cap CollectionIds = {} /\ PackageIds \cap UserIds = {}
  /\ CollectionIds \cap UserIds = {}
<1>1. \A i, j \in 1 .. 6 : i # j => Tables[i] \cap Tables[j] = {}
  BY AccessAssumption
<1>2. /\ Tables[1] = RoleIds /\ Tables[2] = ClientIds /\ Tables[3] = ProviderIds
      /\ Tables[4] = PackageIds /\ Tables[5] = CollectionIds /\ Tables[6] = UserIds
  BY DEF Tables
<1>3. \A i, j \in 1 .. 6 : i < j => Tables[i] \cap Tables[j] = {}
  BY <1>1
<1> HIDE DEF Tables
<1> QED
  BY <1>2, <1>3

(* The shape of the rows of each table.                                    *)
LEMMA RowTypes ==
  ASSUME NEW o \in Objects
  PROVE  /\ o \in RoleIds => RowOf(o) = RoleRow
         /\ o \in ClientIds => RowOf(o) = ClientRow
         /\ o \in ProviderIds => RowOf(o) = ProviderRow
         /\ o \in PackageIds => RowOf(o) = PackageRow
         /\ o \in CollectionIds => RowOf(o) = CollectionRow
         /\ o \in UserIds => RowOf(o) = UserRow
         /\ None \notin RowOf(o)
BY IdsDiffer, AccessAssumption DEF RowOf

AnyRow ==
  [specific : BOOLEAN, provider : ProviderIds \cup {None}, scopes : SUBSET Scopes,
   links : SUBSET (CollectionIds \cup UserIds \cup RoleIds)]

LEMMA RowFields ==
  ASSUME NEW o \in Objects, NEW row \in RowOf(o)
  PROVE  /\ row \in AnyRow /\ row # None
         /\ o \in RoleIds => row.links \subseteq CollectionIds
         /\ o \in UserIds => row.links \subseteq RoleIds
         /\ o \notin ClientIds \cup PackageIds \cup CollectionIds => row.provider = None
         /\ o \in ClientIds => row.links = {}
<1>1. row # None /\ RoleScopes \subseteq Scopes
  BY RowTypes, AccessAssumption
<1>2. CASE o \in RoleIds
  <2>1. row \in RoleRow /\ o \notin ClientIds \cup UserIds
    BY <1>2, RowTypes, IdsDiffer
  <2>2. row \in AnyRow /\ row.links \subseteq CollectionIds /\ row.provider = None
    BY <1>1, <2>1 DEF RoleRow, AnyRow
  <2> QED
    BY <1>1, <2>1, <2>2
<1>3. CASE o \in ClientIds
  <2>1. row \in ClientRow /\ o \notin RoleIds \cup UserIds
    BY <1>3, RowTypes, IdsDiffer
  <2>2. row \in AnyRow /\ row.links = {}
    BY <2>1 DEF ClientRow, AnyRow
  <2> QED
    BY <1>1, <1>3, <2>1, <2>2
<1>4. CASE o \in ProviderIds
  <2>1. row \in ProviderRow /\ o \notin RoleIds \cup UserIds \cup ClientIds
    BY <1>4, RowTypes, IdsDiffer
  <2>2. row \in AnyRow /\ row.provider = None
    BY <2>1 DEF ProviderRow, AnyRow
  <2> QED
    BY <1>1, <2>1, <2>2
<1>5. CASE o \in PackageIds
  <2>1. row \in PackageRow /\ o \notin RoleIds \cup UserIds \cup ClientIds
    BY <1>5, RowTypes, IdsDiffer
  <2>2. row \in AnyRow
    BY <2>1 DEF PackageRow, AnyRow
  <2> QED
    BY <1>1, <1>5, <2>1, <2>2
<1>6. CASE o \in CollectionIds
  <2>1. row \in CollectionRow /\ o \notin RoleIds \cup UserIds \cup ClientIds
    BY <1>6, RowTypes, IdsDiffer
  <2>2. row \in AnyRow
    BY <2>1 DEF CollectionRow, AnyRow
  <2> QED
    BY <1>1, <1>6, <2>1, <2>2
<1>7. CASE o \in UserIds
  <2>1. row \in UserRow /\ o \notin RoleIds \cup ClientIds
    BY <1>7, RowTypes, IdsDiffer
  <2>2. row \in AnyRow /\ row.links \subseteq RoleIds /\ row.provider = None
    BY <2>1 DEF UserRow, AnyRow
  <2> QED
    BY <1>1, <2>1, <2>2
<1> QED
  BY <1>2, <1>3, <1>4, <1>5, <1>6, <1>7 DEF Objects

(***************************************************************************)
(* The access that a user's roles grant, in one formula.                   *)
(***************************************************************************)

First(S) == CHOOSE r \in S : TRUE

(* f computes the fold of get_user_permissions for every set of roles.     *)
IsFold(f, u, s) ==
  f = [S \in SUBSET RolesWith(u, s) |->
         IF S = {} THEN {}
         ELSE Widen(RolePermission(First(S), u, s), f[S \ {First(S)}])]

(* Any, if one of the roles has it, or what the roles have together.       *)
Cumulated(S, u, s) ==
  IF \E r \in S : RolePermission(r, u, s) = Any THEN Any
  ELSE UNION {RolePermission(r, u, s) : r \in S}

LEMMA FoldIsFold ==
  ASSUME NEW u, NEW s
  PROVE  RolesPermission(u, s) = (CHOOSE f : IsFold(f, u, s))[RolesWith(u, s)]
BY DEF RolesPermission, MapThenFoldSet, IsFold, First

LEMMA Widens ==
  ASSUME NEW u, NEW s, NEW S, NEW x \in S,
         \A r \in S : RolePermission(r, u, s) = Any \/ "*" \notin RolePermission(r, u, s)
  PROVE  Cumulated(S, u, s) = Widen(RolePermission(x, u, s), Cumulated(S \ {x}, u, s))
<1>1. CASE RolePermission(x, u, s) = Any
  BY <1>1 DEF Widen, Cumulated
<1>2. CASE RolePermission(x, u, s) # Any /\ \E r \in S \ {x} : RolePermission(r, u, s) = Any
  BY <1>2 DEF Widen, Cumulated
<1>3. CASE \A r \in S : RolePermission(r, u, s) # Any
  <2>1. "*" \notin UNION {RolePermission(r, u, s) : r \in S \ {x}}
    BY <1>3
  <2>2. Cumulated(S \ {x}, u, s) = UNION {RolePermission(r, u, s) : r \in S \ {x}}
    BY <1>3 DEF Cumulated
  <2>3. Cumulated(S \ {x}, u, s) # Any
    BY <2>1, <2>2 DEF Any
  <2>4. Widen(RolePermission(x, u, s), Cumulated(S \ {x}, u, s))
          = RolePermission(x, u, s) \cup UNION {RolePermission(r, u, s) : r \in S \ {x}}
    BY <1>3, <2>2, <2>3 DEF Widen
  <2>5. Cumulated(S, u, s) = UNION {RolePermission(r, u, s) : r \in S}
    BY <1>3 DEF Cumulated
  <2> QED
    BY <2>4, <2>5
<1> QED
  BY <1>1, <1>2, <1>3

LEMMA FoldIsUnique ==
  ASSUME NEW u, NEW s, NEW f, NEW g, IsFold(f, u, s), IsFold(g, u, s),
         IsFiniteSet(RolesWith(u, s))
  PROVE  f[RolesWith(u, s)] = g[RolesWith(u, s)]
<1> DEFINE R == RolesWith(u, s)
           T == {S \in SUBSET R : f[S] # g[S]}
<1>1. IsWellFoundedOn(StrictSubsetOrdering(R), SUBSET R)
  BY FS_StrictSubsetOrderingWellFounded, FS_FiniteSubsetsOfFinite
<1>2. SUFFICES ASSUME T # {}
               PROVE  FALSE
  OBVIOUS
<1>3. PICK S \in T : \A Q \in T : <<Q, S>> \notin StrictSubsetOrdering(R)
  BY <1>1, <1>2, WFMin
<1>4. S # {}
  BY <1>3 DEF IsFold
<1>5. First(S) \in S
  BY <1>4 DEF First
<1>6. <<S \ {First(S)}, S>> \in StrictSubsetOrdering(R)
  BY <1>5 DEF StrictSubsetOrdering
<1>7. f[S \ {First(S)}] = g[S \ {First(S)}]
  BY <1>3, <1>6
<1>8. \A h : IsFold(h, u, s) =>
        h[S] = Widen(RolePermission(First(S), u, s), h[S \ {First(S)}])
  BY <1>3, <1>4 DEF IsFold
<1>9. f[S] = g[S]
  BY <1>7, <1>8
<1> QED
  BY <1>3, <1>9

(* The fold over a finite set of roles widens to every role's permission.  *)
LEMMA RolesPermissionIs ==
  ASSUME NEW u, NEW s, IsFiniteSet(RolesWith(u, s)),
         \A r \in RolesWith(u, s) :
           RolePermission(r, u, s) = Any \/ "*" \notin RolePermission(r, u, s)
  PROVE  RolesPermission(u, s) = Cumulated(RolesWith(u, s), u, s)
<1> DEFINE R == RolesWith(u, s)
           g == [S \in SUBSET R |-> Cumulated(S, u, s)]
<1>1. IsFold(g, u, s)
  <2>1. Cumulated({}, u, s) = {}
    BY DEF Cumulated
  <2>2. ASSUME NEW S \in SUBSET R, S # {}
        PROVE  Cumulated(S, u, s)
                 = Widen(RolePermission(First(S), u, s), g[S \ {First(S)}])
    <3>1. First(S) \in S
      BY <2>2 DEF First
    <3> QED
      BY <3>1, Widens
  <2> QED
    BY <2>1, <2>2 DEF IsFold
<1>2. PICK f : f = CHOOSE h : IsFold(h, u, s)
  OBVIOUS
<1>3. IsFold(f, u, s)
  BY <1>1, <1>2
<1>4. f[R] = g[R]
  BY <1>1, <1>3, FoldIsUnique
<1> QED
  BY <1>2, <1>4, FoldIsFold

(***************************************************************************)
(* Permissions are what the roles and the client grant.                    *)
(***************************************************************************)

Granted(u, c, s, o) ==
  /\ ClientGrants(c, s, o)
  /\ u = None \/ \E r \in rows[u].links : RoleGrants(r, u, s, o)

LEMMA Stars ==
  /\ "*" \notin CollectionIds \cup ProviderIds \cup {None}
  /\ \A o \in ProviderIds \cup CollectionIds : o # "*" /\ {o} # Any /\ o # None
  /\ \A S : S \subseteq CollectionIds \cup ProviderIds \cup {None} => S # Any /\ "*" \notin S
  /\ ByCollection \cap ByProvider = {}
<1>1. /\ "*" \notin CollectionIds \cup ProviderIds \cup {None}
      /\ ByCollection \cap ByProvider = {} /\ None \notin Objects
  BY AccessAssumption
<1> QED
  BY <1>1 DEF Any, Objects

LEMMA ClientPermissionIs ==
  ASSUME TypeOK, NEW c \in ClientIds \cap Live(rows), NEW s \in rows[c].scopes
  PROVE  LET p == ClientPermission(c, s)
         IN  /\ \A o \in ProviderIds \cup CollectionIds :
                  p = Any \/ o \in p <=> ClientGrants(c, s, o)
             /\ p = Any <=> ClientGrants(c, s, "*")
             /\ p = Any \/ "*" \notin p
<1>1. rows[c] \in RowOf(c) /\ c \in Objects
  BY DEF TypeOK, Live
<1>2. rows[c].provider \in ProviderIds \cup {None}
  BY <1>1, RowFields DEF AnyRow
<1> QED
  BY <1>2, Stars DEF ClientPermission, ClientGrants, Any

LEMMA RolePermissionIs ==
  ASSUME TypeOK, NEW u \in UserIds \cap Live(rows), NEW s, NEW r \in RolesWith(u, s)
  PROVE  LET p == RolePermission(r, u, s)
         IN  /\ \A o \in ProviderIds \cup CollectionIds :
                  p = Any \/ o \in p <=> RoleGrants(r, u, s, o)
             /\ p = Any <=> RoleGrants(r, u, s, "*")
             /\ p = Any \/ "*" \notin p
<1>1. rows[u] \in RowOf(u) /\ u \in Objects /\ r \in rows[u].links /\ s \in rows[r].scopes
  BY DEF TypeOK, Live, RolesWith
<1>2. r \in RoleIds /\ r \in Objects /\ r \in Live(rows)
  BY <1>1, RowFields DEF TypeOK, RefsLive, Live
<1>3. rows[r] \in RowOf(r)
  BY <1>2 DEF TypeOK, Live
<1>4. rows[r].links \subseteq CollectionIds
  BY <1>2, <1>3, RowFields
<1>5. ProvidersOf(u) \subseteq ProviderIds
  BY DEF ProvidersOf
<1>6. CASE s \in ByCollection /\ rows[r].specific
  <2>1. RolePermission(r, u, s) = rows[r].links /\ s \notin ByProvider
    BY <1>6, Stars DEF RolePermission
  <2> QED
    BY <1>1, <1>4, <1>6, <2>1, Stars DEF RoleGrants
<1>7. CASE ~(s \in ByCollection /\ rows[r].specific) /\ s \in ByProvider
  <2>1. RolePermission(r, u, s) = ProvidersOf(u)
    BY <1>7 DEF RolePermission
  <2> QED
    BY <1>1, <1>5, <1>7, <2>1, Stars DEF RoleGrants, ProvidersOf
<1>8. CASE ~(s \in ByCollection /\ rows[r].specific) /\ s \notin ByProvider
  <2>1. RolePermission(r, u, s) = Any
    BY <1>8 DEF RolePermission
  <2> QED
    BY <1>1, <1>8, <2>1 DEF RoleGrants
<1> QED
  BY <1>6, <1>7, <1>8

LEMMA RolesPermissionGrants ==
  ASSUME TypeOK, NEW u \in UserIds \cap Live(rows), NEW s
  PROVE  LET p == RolesPermission(u, s)
         IN  /\ \A o \in ProviderIds \cup CollectionIds :
                  p = Any \/ o \in p <=> \E r \in rows[u].links : RoleGrants(r, u, s, o)
             /\ p = Any <=> \E r \in rows[u].links : RoleGrants(r, u, s, "*")
             /\ p = Any \/ "*" \notin p
<1> DEFINE R == RolesWith(u, s)
<1>1. IsFiniteSet(R)
  <2>1. rows[u] \in RowOf(u) /\ u \in Objects
    BY DEF TypeOK, Live
  <2>2. R \subseteq RoleIds
    BY <2>1, RowFields DEF RolesWith
  <2> QED
    BY <2>2, AccessAssumption, FS_Subset
<1>2. RolesPermission(u, s) = Cumulated(R, u, s)
  BY <1>1, RolePermissionIs, RolesPermissionIs
<1>3. \A o : (\E r \in rows[u].links : RoleGrants(r, u, s, o)) <=> \E r \in R : RoleGrants(r, u, s, o)
  BY DEF RolesWith, RoleGrants
<1>4. CASE \E r \in R : RolePermission(r, u, s) = Any
  <2>1. RolesPermission(u, s) = Any
    BY <1>2, <1>4 DEF Cumulated
  <2> QED
    BY <1>3, <1>4, <2>1, RolePermissionIs
<1>5. CASE \A r \in R : RolePermission(r, u, s) # Any
  <2>1. PICK p : p = RolesPermission(u, s)
    OBVIOUS
  <2>2. \A o : o \in p <=> \E r \in R : o \in RolePermission(r, u, s)
    BY <1>2, <1>5, <2>1 DEF Cumulated
  <2>3. "*" \notin p
    BY <1>5, <2>2, RolePermissionIs
  <2>4. p # Any
    BY <2>3 DEF Any
  <2>5. \A o \in ProviderIds \cup CollectionIds : o \in p <=> \E r \in R : RoleGrants(r, u, s, o)
    BY <1>5, <2>2, RolePermissionIs
  <2>6. ~\E r \in R : RoleGrants(r, u, s, "*")
    BY <1>5, RolePermissionIs
  <2> QED
    BY <1>3, <2>1, <2>3, <2>4, <2>5, <2>6
<1> QED
  BY <1>4, <1>5

LEMMA MayUseIs ==
  ASSUME TypeOK, NEW u \in (UserIds \cap Live(rows)) \cup {None},
         NEW c \in ClientIds \cap Live(rows), NEW s
  PROVE  /\ \A o \in ProviderIds \cup CollectionIds : MayUse(u, c, s, {o}) <=> Granted(u, c, s, o)
         /\ MayUse(u, c, s, Any) <=> Granted(u, c, s, "*")
<1>1. CASE s \notin rows[c].scopes
  BY <1>1 DEF MayUse, Authorized, Permissions, UserPermissions, Granted, ClientGrants
<1>2. CASE s \in rows[c].scopes /\ u = None
  <2>1. ASSUME NEW objects
        PROVE  MayUse(u, c, s, objects) <=> Enforce(ClientPermission(c, s), objects)
    BY <1>2 DEF MayUse, Authorized, Permissions
  <2> QED
    BY <1>2, <2>1, ClientPermissionIs, Stars DEF Enforce, Granted
<1>3. CASE s \in rows[c].scopes /\ u # None
  <2>1. PICK cp : cp = ClientPermission(c, s)
    OBVIOUS
  <2>2. PICK rp : rp = RolesPermission(u, s)
    OBVIOUS
  <2>3. ASSUME NEW objects
        PROVE  MayUse(u, c, s, objects) <=>
                 RolesWith(u, s) # {} /\ Enforce(Intersection(cp, rp), objects)
    BY <1>3, <2>1, <2>2 DEF MayUse, Authorized, Permissions, UserPermissions
  <2>4. /\ \A o \in ProviderIds \cup CollectionIds : cp = Any \/ o \in cp <=> ClientGrants(c, s, o)
        /\ cp = Any <=> ClientGrants(c, s, "*")
        /\ cp = Any \/ "*" \notin cp
    BY <1>3, <2>1, ClientPermissionIs
  <2>5. /\ \A o \in ProviderIds \cup CollectionIds :
             rp = Any \/ o \in rp <=> \E r \in rows[u].links : RoleGrants(r, u, s, o)
        /\ rp = Any <=> \E r \in rows[u].links : RoleGrants(r, u, s, "*")
        /\ rp = Any \/ "*" \notin rp
    BY <1>3, <2>2, RolesPermissionGrants
  <2>6. \A o : (\E r \in rows[u].links : RoleGrants(r, u, s, o)) => RolesWith(u, s) # {}
    BY DEF RolesWith, RoleGrants
  <2>7. /\ Intersection(cp, rp) = Any <=> cp = Any /\ rp = Any
        /\ \A o : o # "*" =>
             (Intersection(cp, rp) = Any \/ o \in Intersection(cp, rp)
                <=> (cp = Any \/ o \in cp) /\ (rp = Any \/ o \in rp))
    <3>1. CASE cp # Any /\ rp # Any
      BY <2>4, <2>5, <3>1 DEF Intersection, Any
    <3>2. CASE cp = Any \/ rp = Any
      BY <3>2 DEF Intersection
    <3> QED
      BY <3>1, <3>2
  <2>8. ASSUME NEW o \in ProviderIds \cup CollectionIds
        PROVE  MayUse(u, c, s, {o}) <=> Granted(u, c, s, o)
    <3>1. Enforce(Intersection(cp, rp), {o})
            <=> Intersection(cp, rp) = Any \/ o \in Intersection(cp, rp)
      BY Stars DEF Enforce
    <3> QED
      BY <1>3, <2>3, <2>4, <2>5, <2>6, <2>7, <3>1, Stars DEF Granted
  <2>9. MayUse(u, c, s, Any) <=> Granted(u, c, s, "*")
    <3>1. Enforce(Intersection(cp, rp), Any) <=> Intersection(cp, rp) = Any
      BY DEF Enforce
    <3> QED
      BY <1>3, <2>3, <2>4, <2>5, <2>6, <2>7, <3>1 DEF Granted
  <2> QED
    BY <2>8, <2>9
<1> QED
  BY <1>1, <1>2, <1>3

LEMMA MetPermissions ==
  ASSUME TypeOK
  PROVE  PermissionsAreMet
BY MayUseIs DEF PermissionsAreMet, Granted

(***************************************************************************)
(* The inductive invariant.                                                *)
(***************************************************************************)

(* The provider that a flushed client refers to is not deleted.            *)
FlushFits(t) ==
  t.flushed =>
    /\ t.id \in ClientIds
    /\ t.new # None /\ (t.base = None \/ t.new.provider # t.base.provider) =>
         t.new.provider \in Live(rows) \cup {None}

AccessInv == TypeOK /\ \A w \in Workers : tx[w] # None => FlushFits(tx[w])

LEMMA MergedRowTypes ==
  ASSUME NEW t, WriteOK(t), t.base # None, t.new # None, rows[t.id] \in RowOf(t.id)
  PROVE  /\ MergedRow(t) \in RowOf(t.id)
         /\ MergedRow(t).provider \in {t.new.provider, rows[t.id].provider}
         /\ t.new.provider = t.base.provider => MergedRow(t).provider = rows[t.id].provider
<1> DEFINE cur == rows[t.id]
<1>1. t.id \in Objects /\ t.base \in RowOf(t.id) /\ t.new \in RowOf(t.id)
  BY DEF WriteOK
<1>2. PICK row : row = MergedRow(t)
  OBVIOUS
<1>3. row = [specific |-> Column(t.base.specific, t.new.specific, cur.specific),
             provider |-> Column(t.base.provider, t.new.provider, cur.provider),
             scopes   |-> Members(t.base.scopes, t.new.scopes, cur.scopes),
             links    |-> Members(t.base.links, t.new.links, cur.links)]
  BY <1>2 DEF MergedRow, Row
<1>4. row.provider \in {t.new.provider, cur.provider}
      /\ (t.new.provider = t.base.provider => row.provider = cur.provider)
  BY <1>3 DEF Column
<1>5. /\ t.id \in RoleIds => row \in RoleRow
      /\ t.id \in ClientIds => row \in ClientRow
      /\ t.id \in ProviderIds => row \in ProviderRow
      /\ t.id \in PackageIds => row \in PackageRow
      /\ t.id \in CollectionIds => row \in CollectionRow
      /\ t.id \in UserIds => row \in UserRow
  <2> DEFINE Shape(S, P, K, L) ==
               [specific : S, provider : P, scopes : SUBSET K, links : SUBSET L]
  <2>1. ASSUME NEW S, NEW P, NEW K, NEW L, cur \in Shape(S, P, K, L),
               t.base \in Shape(S, P, K, L), t.new \in Shape(S, P, K, L)
        PROVE  row \in Shape(S, P, K, L)
    <3>1. /\ Column(t.base.specific, t.new.specific, cur.specific) \in S
          /\ Column(t.base.provider, t.new.provider, cur.provider) \in P
      BY <2>1 DEF Column
    <3>2. /\ Members(t.base.scopes, t.new.scopes, cur.scopes) \subseteq K
          /\ Members(t.base.links, t.new.links, cur.links) \subseteq L
      BY <2>1 DEF Members
    <3> QED
      BY <1>3, <3>1, <3>2
  <2>2. {{}} = SUBSET {}
    OBVIOUS
  <2>3. /\ RoleRow = Shape(BOOLEAN, {None}, RoleScopes, CollectionIds)
        /\ ClientRow = Shape(BOOLEAN, ProviderIds \cup {None}, Scopes, {})
        /\ ProviderRow = Shape({FALSE}, {None}, {}, UserIds)
        /\ PackageRow = Shape({FALSE}, ProviderIds, {}, {})
        /\ CollectionRow = Shape({FALSE}, ProviderIds, {}, {})
        /\ UserRow = Shape({FALSE}, {None}, {}, RoleIds)
    BY <2>2 DEF RoleRow, ClientRow, ProviderRow, PackageRow, CollectionRow, UserRow
  <2> HIDE DEF Shape
  <2> QED
    BY <1>1, <2>1, <2>3, RowTypes
<1> QED
  BY <1>1, <1>2, <1>4, <1>5, RowTypes DEF Objects

(* A deletion with its cascades leaves typed rows and no dangling ones.    *)
LEMMA WithoutTypes ==
  ASSUME TypeOK, NEW d \in Objects, NEW gone, gone = DeletedWith(d),
         \A k \in PackageIds \cap Live(rows) : rows[k].provider # d,
         NEW after, after = RowsWithout(gone)
  PROVE  /\ DOMAIN after = Objects
         /\ \A o \in Objects : after[o] \in RowOf(o) \cup {None}
         /\ Live(after) = Live(rows) \ gone
         /\ \A o \in Live(after) :
              /\ after[o].specific = rows[o].specific /\ after[o].scopes = rows[o].scopes
              /\ after[o].links = rows[o].links \ gone
              /\ after[o].provider = IF rows[o].provider \in gone THEN None ELSE rows[o].provider
         /\ RefsLive(after)
<1>1. /\ gone \subseteq {d} \cup CollectionIds
      /\ \A c \in CollectionIds : rows[c] # None /\ rows[c].provider = d => c \in gone
  BY DEF DeletedWith, Live, Objects
<1>2. DOMAIN after = Objects
  BY DEF RowsWithout
<1>3. ASSUME NEW o \in Objects, o \in gone \/ rows[o] = None
      PROVE  after[o] = None
  BY <1>3 DEF RowsWithout
<1>4. ASSUME NEW o \in Objects, o \notin gone, rows[o] # None
      PROVE  /\ after[o] \in RowOf(o) /\ after[o] # None
             /\ after[o].specific = rows[o].specific /\ after[o].scopes = rows[o].scopes
             /\ after[o].links = rows[o].links \ gone
             /\ after[o].provider = IF rows[o].provider \in gone THEN None ELSE rows[o].provider
  <2>1. PICK row : row = rows[o] /\ row \in RowOf(o)
    BY <1>4 DEF TypeOK
  <2>2. after[o] = [row EXCEPT !.links = @ \ gone, !.provider = IF @ \in gone THEN None ELSE @]
    BY <1>4, <2>1 DEF RowsWithout
  <2>3. PICK new : new = after[o]
    OBVIOUS
  <2>4. row \in AnyRow
    BY <2>1, RowFields
  <2>5. /\ new.specific = row.specific /\ new.scopes = row.scopes
        /\ new.links = row.links \ gone
        /\ new.provider = IF row.provider \in gone THEN None ELSE row.provider
        /\ new = [specific |-> new.specific, provider |-> new.provider,
                  scopes |-> new.scopes, links |-> new.links]
    BY <2>2, <2>3, <2>4 DEF AnyRow
  <2>6. None \notin ProviderIds \cup CollectionIds
    BY AccessAssumption DEF Objects
  <2>7. new \in RowOf(o)
    <3>1. CASE o \in RoleIds
      <4>1. row \in RoleRow /\ RowOf(o) = RoleRow
        BY <2>1, <3>1, RowTypes
      <4> QED
        BY <2>5, <4>1 DEF RoleRow
    <3>2. CASE o \in ClientIds
      <4>1. row \in ClientRow /\ RowOf(o) = ClientRow
        BY <2>1, <3>2, RowTypes
      <4> QED
        BY <2>5, <4>1 DEF ClientRow
    <3>3. CASE o \in ProviderIds
      <4>1. row \in ProviderRow /\ RowOf(o) = ProviderRow
        BY <2>1, <3>3, RowTypes
      <4> QED
        BY <2>5, <4>1 DEF ProviderRow
    <3>4. CASE o \in UserIds
      <4>1. row \in UserRow /\ RowOf(o) = UserRow
        BY <2>1, <3>4, RowTypes
      <4> QED
        BY <2>5, <4>1 DEF UserRow
    <3>5. CASE o \in PackageIds
      <4>1. row \in PackageRow /\ RowOf(o) = PackageRow
        BY <2>1, <3>5, RowTypes
      <4>2. row.provider \in ProviderIds /\ row.provider # d
        BY <1>4, <2>1, <3>5, <4>1 DEF PackageRow, Live
      <4>3. row.provider \notin gone
        BY <1>1, <4>2, IdsDiffer
      <4> QED
        BY <2>5, <4>1, <4>3 DEF PackageRow
    <3>6. CASE o \in CollectionIds
      <4>1. row \in CollectionRow /\ RowOf(o) = CollectionRow
        BY <2>1, <3>6, RowTypes
      <4>2. row.provider \in ProviderIds /\ row.provider # d
        BY <1>1, <1>4, <2>1, <3>6, <4>1 DEF CollectionRow
      <4>3. row.provider \notin gone
        BY <1>1, <4>2, IdsDiffer
      <4> QED
        BY <2>5, <4>1, <4>3 DEF CollectionRow
    <3> QED
      BY <3>1, <3>2, <3>3, <3>4, <3>5, <3>6 DEF Objects
  <2> QED
    BY <2>1, <2>3, <2>5, <2>7, RowTypes
<1>5. Live(after) = Live(rows) \ gone
  BY <1>3, <1>4 DEF Live
<1>6. RefsLive(after)
  <2>1. ASSUME NEW o \in Live(after)
        PROVE  after[o].links \cup ({after[o].provider} \ {None}) \subseteq Live(rows) \ gone
    <3>1. o \in Objects /\ o \in Live(rows) /\ o \notin gone /\ rows[o] # None
      BY <1>5, <2>1 DEF Live
    <3>2. rows[o].links \cup ({rows[o].provider} \ {None}) \subseteq Live(rows)
      BY <3>1 DEF TypeOK, RefsLive
    <3> QED
      BY <1>4, <3>1, <3>2
  <2> QED
    BY <1>5, <2>1 DEF RefsLive
<1> QED
  BY <1>2, <1>3, <1>4, <1>5, <1>6 DEF Live

(***************************************************************************)
(* The steps keep the invariant.                                           *)
(***************************************************************************)

LEMMA HandlersBegin ==
  ASSUME TypeOK, NEW w \in Workers, Handle(w)
  PROVE  \E o \in Objects : \E new \in RowOf(o) \cup {None} :
           (rows[o] # None \/ new # None) /\ Begin(w, o, new)
<1>1. \A b \in Bodies : b.id \in Objects /\ b.row \in RowOf(b.id) /\ b.row # None
  BY AccessAssumption
<1>2. ASSUME NEW b \in Bodies, Begin(w, b.id, b.row)
      PROVE  \E o \in Objects : \E new \in RowOf(o) \cup {None} :
               (rows[o] # None \/ new # None) /\ Begin(w, o, new)
  BY <1>1, <1>2
<1>3. ASSUME NEW o \in Live(rows), Begin(w, o, None)
      PROVE  \E x \in Objects : \E new \in RowOf(x) \cup {None} :
               (rows[x] # None \/ new # None) /\ Begin(w, x, new)
  BY <1>3 DEF Live
<1> QED
  BY <1>2, <1>3 DEF Handle, CreateRole, UpdateRole, DeleteRole, CreateClient, UpdateClient,
     DeleteClient, CreateProvider, UpdateProvider, DeleteProvider, CreatePackage,
     UpdatePackage, DeletePackage, CreateCollection, UpdateCollection, DeleteCollection,
     UpdateUser, DeleteUser

LEMMA BeginKeeps ==
  ASSUME AccessInv, NEW w \in Workers, Handle(w)
  PROVE  AccessInv'
<1>1. PICK o \in Objects :
        \E new \in RowOf(o) \cup {None} : (rows[o] # None \/ new # None) /\ Begin(w, o, new)
  BY HandlersBegin DEF AccessInv
<1> PICK new \in RowOf(o) \cup {None} : (rows[o] # None \/ new # None) /\ Begin(w, o, new)
  BY <1>1
<1>2. PICK t : t = [id |-> o, base |-> rows[o], new |-> new, flushed |-> FALSE]
  OBVIOUS
<1>3. /\ requests < MaxRequests /\ requests' = requests + 1
      /\ tx' = [tx EXCEPT ![w] = t]
      /\ UNCHANGED <<rows, retired, hydra>>
  BY <1>1, <1>2 DEF Begin
<1>4. t.id = o /\ t.base = rows[o] /\ t.new = new /\ ~t.flushed
  BY <1>2
<1>5. WriteOK(t)
  BY <1>1, <1>2, <1>4 DEF WriteOK, AccessInv, TypeOK
<1>6. /\ DOMAIN tx' = Workers /\ tx'[w] = t
      /\ \A v \in Workers \ {w} : tx'[v] = tx[v]
  BY <1>3 DEF AccessInv, TypeOK
<1>7. requests' \in 0 .. MaxRequests
  BY <1>3, AccessAssumption DEF AccessInv, TypeOK
<1>8. \A v \in Workers : tx'[v] = None \/ WriteOK(tx'[v])
  BY <1>5, <1>6 DEF AccessInv, TypeOK
<1>9. TypeOK'
  BY <1>3, <1>6, <1>7, <1>8 DEF AccessInv, TypeOK, RefsLive, Live, WriteOK
<1>10. \A v \in Workers : tx'[v] # None => FlushFits(tx'[v])
  BY <1>4, <1>6 DEF AccessInv, FlushFits
<1> QED
  BY <1>3, <1>9, <1>10 DEF AccessInv, FlushFits, Live

LEMMA FlushKeeps ==
  ASSUME AccessInv, NEW w \in Workers, Flush(w)
  PROVE  AccessInv'
<1>1. PICK s : s = tx[w]
  OBVIOUS
<1>2. /\ s # None /\ s.id \in ClientIds /\ ~s.flushed /\ Accepted(s) /\ WriteOK(s)
      /\ hydra' = [hydra EXCEPT ![s.id] = IF s.new = None THEN None ELSE s.new.scopes]
      /\ tx' = [tx EXCEPT ![w].flushed = TRUE]
      /\ UNCHANGED <<rows, retired, requests>>
  BY <1>1 DEF Flush, AccessInv, TypeOK
<1>3. PICK r : r = [s EXCEPT !.flushed = TRUE]
  OBVIOUS
<1>4. WriteOK(r) /\ r.id = s.id /\ r.base = s.base /\ r.new = s.new /\ r.flushed
  BY <1>2, <1>3 DEF WriteOK
<1>5. /\ DOMAIN tx' = Workers /\ tx'[w] = r
      /\ \A v \in Workers \ {w} : tx'[v] = tx[v]
  BY <1>1, <1>2, <1>3 DEF AccessInv, TypeOK
<1>6. s.id \in Objects /\ (s.new # None => s.new \in RowOf(s.id) /\ s.new.scopes \subseteq Scopes)
  BY <1>2, RowFields DEF WriteOK, AnyRow
<1>7. TypeOK'
  <2>1. hydra' \in [ClientIds -> (SUBSET Scopes) \cup {None}]
    BY <1>2, <1>6 DEF AccessInv, TypeOK
  <2>2. \A v \in Workers : tx'[v] = None \/ WriteOK(tx'[v])
    BY <1>4, <1>5 DEF AccessInv, TypeOK
  <2>3. RefsLive(rows)'
    BY <1>2 DEF AccessInv, TypeOK, RefsLive, Live
  <2>4. (\A v \in Workers : tx[v] = None \/ WriteOK(tx[v]))'
    BY <2>2 DEF WriteOK
  <2> QED
    BY <1>2, <1>5, <2>1, <2>3, <2>4 DEF AccessInv, TypeOK
<1>8. FlushFits(r)
  <2> SUFFICES ASSUME s.new # None, s.base = None \/ s.new.provider # s.base.provider
               PROVE  s.new.provider \in Live(rows) \cup {None}
    BY <1>2, <1>4 DEF FlushFits
  <2>1. PICK after : after = RowsAfter(s)
    OBVIOUS
  <2>2. RefsLive(after) /\ DOMAIN rows = Objects
    BY <1>2, <2>1 DEF Accepted, AccessInv, TypeOK
  <2>3. s.base # None => rows[s.id] # None
    BY <1>2 DEF Accepted, UpdateAccepted
  <2>4. PICK row : after = [rows EXCEPT ![s.id] = row] /\ row.provider = s.new.provider
                   /\ row # None
    <3>1. CASE s.base = None
      BY <1>6, <2>1, <3>1, RowTypes DEF RowsAfter
    <3>2. CASE s.base # None
      <4>1. after = [rows EXCEPT ![s.id] = MergedRow(s)]
        BY <2>1, <2>3, <3>2 DEF RowsAfter
      <4>2. MergedRow(s).provider = s.new.provider
        BY <3>2 DEF MergedRow, Row, Column
      <4>3. MergedRow(s) \in RowOf(s.id)
        BY <1>2, <1>6, <2>3, <3>2, MergedRowTypes DEF AccessInv, TypeOK
      <4> QED
        BY <1>6, <4>1, <4>2, <4>3, RowTypes
    <3> QED
      BY <3>1, <3>2
  <2>5. after[s.id] = row /\ s.id \in Live(after)
    BY <1>6, <2>2, <2>4 DEF Live
  <2>6. s.new.provider \in Live(after) \cup {None}
    BY <2>2, <2>4, <2>5 DEF RefsLive
  <2>7. s.new.provider \in ProviderIds \cup {None} /\ s.new.provider # s.id
    BY <1>2, <1>6, RowFields, IdsDiffer, AccessAssumption DEF AnyRow
  <2> QED
    BY <1>6, <2>2, <2>4, <2>6, <2>7 DEF Live
<1>9. \A v \in Workers : tx'[v] # None => FlushFits(tx'[v])
  BY <1>5, <1>8 DEF AccessInv
<1> QED
  BY <1>2, <1>7, <1>9 DEF AccessInv, FlushFits, Live

(* A row that is written keeps the tables typed, and takes none away.      *)
LEMMA ReplaceTypes ==
  ASSUME TypeOK, NEW o \in Objects, NEW row \in RowOf(o), NEW after,
         after = [rows EXCEPT ![o] = row],
         \/ RefsLive(after)
         \/ row.links \cup ({row.provider} \ {None}) \subseteq Live(rows)
  PROVE  /\ DOMAIN after = Objects
         /\ \A x \in Objects : after[x] \in RowOf(x) \cup {None}
         /\ RefsLive(after)
         /\ Live(rows) \subseteq Live(after)
<1>1. DOMAIN after = Objects /\ after[o] = row /\ row # None
      /\ \A x \in Objects \ {o} : after[x] = rows[x]
  BY RowTypes DEF TypeOK
<1>2. Live(after) = Live(rows) \cup {o}
  BY <1>1 DEF Live
<1>3. RefsLive(after)
  BY <1>1, <1>2 DEF RefsLive, TypeOK, Live
<1> QED
  BY <1>1, <1>2, <1>3 DEF TypeOK

LEMMA CommitRows ==
  ASSUME AccessInv, NEW w \in Workers, Commit(w), NEW s, s = tx[w]
  PROVE  /\ DOMAIN rows' = Objects
         /\ \A x \in Objects : rows'[x] \in RowOf(x) \cup {None}
         /\ RefsLive(rows)'
         /\ s.new # None => Live(rows) \subseteq Live(rows)'
         /\ s.new = None =>
              /\ s.id \in Objects /\ rows' = RowsWithout(DeletedWith(s.id))
              /\ \A k \in PackageIds \cap Live(rows) : rows[k].provider # s.id
<1>1. /\ s # None /\ WriteOK(s) /\ FlushFits(s) /\ TypeOK
      /\ IF s.id \in ClientIds THEN s.flushed ELSE Accepted(s) /\ ~Waits(w)
      /\ rows' = RowsAfter(s)
  BY DEF Commit, AccessInv, TypeOK
<1>2. /\ s.id \in Objects /\ s.base \in RowOf(s.id) \cup {None}
      /\ s.new \in RowOf(s.id) \cup {None} /\ (s.base # None \/ s.new # None)
  BY <1>1 DEF WriteOK
<1>3. PICK after : after = rows'
  OBVIOUS
<1>4. RefsLive(rows)' <=> RefsLive(after)
  BY <1>3 DEF RefsLive, Live
<1>5. s.id \notin ClientIds => RefsLive(after)
  BY <1>1, <1>3 DEF Accepted
<1>6. Live(rows)' = Live(after)
  BY <1>3 DEF Live
<1>7. CASE s.new = None
  <2>1. \A k \in PackageIds \cap Live(rows) : rows[k].provider # s.id
    <3>1. CASE s.id \in ClientIds
      <4> SUFFICES ASSUME NEW k \in PackageIds \cap Live(rows)
                   PROVE  rows[k].provider # s.id
        OBVIOUS
      <4>1. rows[k] \in PackageRow
        BY <1>1, RowTypes DEF TypeOK, Live
      <4> QED
        BY <3>1, <4>1, IdsDiffer DEF PackageRow
    <3>2. CASE s.id \notin ClientIds
      BY <1>1, <1>7, <3>2 DEF Accepted, Restricted
    <3> QED
      BY <3>1, <3>2
  <2>2. after = RowsWithout(DeletedWith(s.id))
    BY <1>1, <1>3, <1>7 DEF RowsAfter
  <2> QED
    BY <1>1, <1>2, <1>3, <1>4, <1>7, <2>1, <2>2, WithoutTypes
<1>8. CASE s.new # None /\ s.base = None
  <2>1. after = [rows EXCEPT ![s.id] = s.new] /\ s.new \in RowOf(s.id)
    BY <1>1, <1>2, <1>3, <1>8 DEF RowsAfter
  <2>2. s.id \in ClientIds => s.new.links \cup ({s.new.provider} \ {None}) \subseteq Live(rows)
    BY <1>1, <1>2, <1>8, <2>1, RowFields DEF FlushFits
  <2>3. \/ RefsLive(after)
        \/ s.new.links \cup ({s.new.provider} \ {None}) \subseteq Live(rows)
    BY <1>5, <2>2
  <2>4. /\ DOMAIN after = Objects
        /\ \A x \in Objects : after[x] \in RowOf(x) \cup {None}
        /\ RefsLive(after)
        /\ Live(rows) \subseteq Live(after)
    BY <1>1, <1>2, <2>1, <2>3, ReplaceTypes
  <2> QED
    BY <1>3, <1>4, <1>6, <1>8, <2>4
<1>9. CASE s.new # None /\ s.base # None /\ rows[s.id] = None
  <2>1. after = rows
    BY <1>1, <1>3, <1>9 DEF RowsAfter
  <2> QED
    BY <1>1, <1>3, <1>4, <1>6, <1>9, <2>1 DEF TypeOK
<1>10. CASE s.new # None /\ s.base # None /\ rows[s.id] # None
  <2>1. PICK row : row = MergedRow(s)
    OBVIOUS
  <2>2. after = [rows EXCEPT ![s.id] = row]
    BY <1>1, <1>3, <1>10, <2>1 DEF RowsAfter
  <2>3. rows[s.id] \in RowOf(s.id)
    BY <1>1, <1>2, <1>10 DEF TypeOK
  <2>4. /\ row \in RowOf(s.id)
        /\ row.provider \in {s.new.provider, rows[s.id].provider}
        /\ s.new.provider = s.base.provider => row.provider = rows[s.id].provider
    BY <1>1, <1>10, <2>1, <2>3, MergedRowTypes
  <2>5. {rows[s.id].provider} \ {None} \subseteq Live(rows)
    BY <1>1, <1>2, <1>10 DEF TypeOK, RefsLive, Live
  <2>6. s.id \in ClientIds => row.links \cup ({row.provider} \ {None}) \subseteq Live(rows)
    BY <1>1, <1>2, <1>10, <2>4, <2>5, RowFields DEF FlushFits
  <2> QED
    BY <1>1, <1>2, <1>3, <1>4, <1>5, <1>6, <1>10, <2>2, <2>4, <2>6, ReplaceTypes, ZenonT(40)
<1> QED
  BY <1>7, <1>8, <1>9, <1>10

LEMMA CommitKeeps ==
  ASSUME AccessInv, NEW w \in Workers, Commit(w)
  PROVE  AccessInv'
<1>1. PICK s : s = tx[w]
  OBVIOUS
<1>2. /\ s # None /\ WriteOK(s) /\ s.id \in Objects
      /\ IF s.id \in ClientIds THEN s.flushed ELSE Accepted(s) /\ ~Waits(w)
      /\ retired' = IF s.new = None THEN retired \cup DeletedWith(s.id) ELSE retired
      /\ tx' = [tx EXCEPT ![w] = None]
      /\ UNCHANGED <<hydra, requests>>
  BY <1>1 DEF Commit, AccessInv, TypeOK, WriteOK
<1>3. /\ DOMAIN tx' = Workers /\ tx'[w] = None
      /\ \A v \in Workers \ {w} : tx'[v] = tx[v]
  BY <1>2 DEF AccessInv, TypeOK
<1>4. TypeOK'
  <2>1. \A v \in Workers : tx'[v] = None \/ WriteOK(tx'[v])
    BY <1>3 DEF AccessInv, TypeOK
  <2>2. (\A v \in Workers : tx[v] = None \/ WriteOK(tx[v]))'
    BY <2>1 DEF WriteOK
  <2>3. retired' \subseteq Objects
    BY <1>2 DEF AccessInv, TypeOK, DeletedWith, Live
  <2>4. /\ DOMAIN rows' = Objects
        /\ \A x \in Objects : rows'[x] \in RowOf(x) \cup {None}
        /\ RefsLive(rows)'
    BY <1>1, CommitRows
  <2> QED
    BY <1>2, <1>3, <2>2, <2>3, <2>4 DEF AccessInv, TypeOK
<1>5. ASSUME NEW v \in Workers, tx'[v] # None
      PROVE  FlushFits(tx[v])'
  <2>1. PICK x : x = tx'[v] /\ x = tx[v] /\ v # w
    BY <1>3, <1>5
  <2>2. FlushFits(x) /\ WriteOK(x)
    BY <1>5, <2>1 DEF AccessInv, TypeOK
  <2>3. SUFFICES ASSUME x.flushed, x.new # None,
                        x.base = None \/ x.new.provider # x.base.provider
                 PROVE  x.new.provider \in Live(rows)' \cup {None}
    BY <2>1, <2>2 DEF FlushFits
  <2>4. x.new.provider \in Live(rows) \cup {None}
    BY <2>2, <2>3 DEF FlushFits
  <2>5. CASE s.new # None
    BY <1>1, <2>4, <2>5, CommitRows
  <2>6. CASE s.new = None
    <3>1. x.new.provider \in ProviderIds \cup {None} /\ x.id \in ClientIds
      BY <2>2, <2>3, RowFields DEF WriteOK, AnyRow, FlushFits
    <3>2. x.new.provider # s.id
      <4>1. CASE s.id \in ClientIds
        BY <1>2, <3>1, <4>1, IdsDiffer, AccessAssumption
      <4>2. CASE s.id \notin ClientIds
        BY <1>1, <1>2, <2>1, <2>3, <2>6, <4>2, <1>5 DEF Waits, Conflicts
      <4> QED
        BY <4>1, <4>2
    <3>3. PICK gone : gone = DeletedWith(s.id)
      OBVIOUS
    <3>4. PICK after : after = rows' /\ after = RowsWithout(gone)
      BY <1>1, <2>6, <3>3, CommitRows
    <3>5. Live(after) = Live(rows) \ gone
      BY <1>1, <1>2, <2>6, <3>3, <3>4, CommitRows, WithoutTypes DEF AccessInv
    <3>6. Live(rows)' = Live(after)
      BY <3>4 DEF Live
    <3>7. gone \subseteq {s.id} \cup CollectionIds
      BY <3>3 DEF DeletedWith
    <3>8. x.new.provider = None \/ x.new.provider \notin gone
      BY <3>1, <3>2, <3>7, IdsDiffer
    <3> QED
      BY <2>4, <3>5, <3>6, <3>8
  <2> QED
    BY <2>5, <2>6
<1> QED
  BY <1>4, <1>5 DEF AccessInv

LEMMA RollbackKeeps ==
  ASSUME AccessInv, NEW w \in Workers, Rollback(w)
  PROVE  AccessInv'
<1>1. UNCHANGED <<rows, retired, hydra, requests>> /\ tx' = [tx EXCEPT ![w] = None]
  BY DEF Rollback
<1>2. /\ DOMAIN tx' = Workers
      /\ \A v \in Workers : tx'[v] \in {None, tx[v]}
  BY <1>1 DEF AccessInv, TypeOK
<1>3. TypeOK'
  BY <1>1, <1>2 DEF AccessInv, TypeOK, RefsLive, Live, WriteOK
<1> QED
  BY <1>1, <1>2, <1>3 DEF AccessInv, FlushFits, Live

LEMMA AccessInit ==
  ASSUME Init
  PROVE  AccessInv
<1>1. /\ DOMAIN InitialRows = Objects /\ RefsLive(InitialRows) /\ MaxRequests \in Nat
      /\ \A o \in Live(InitialRows) : InitialRows[o] \in RowOf(o)
  BY AccessAssumption
<1>2. \A o \in Objects : InitialRows[o] \in RowOf(o) \cup {None}
  BY <1>1 DEF Live
<1>3. hydra \in [ClientIds -> (SUBSET Scopes) \cup {None}]
  <2>1. ASSUME NEW c \in ClientIds, InitialRows[c] # None
        PROVE  InitialRows[c].scopes \subseteq Scopes
    <3>1. c \in Objects
      BY DEF Objects
    <3> QED
      BY <1>2, <2>1, <3>1, RowFields DEF AnyRow
  <2> QED
    BY <2>1 DEF Init
<1> QED
  BY <1>1, <1>2, <1>3 DEF Init, AccessInv, TypeOK

LEMMA AccessNext ==
  ASSUME AccessInv, [Next]_vars
  PROVE  AccessInv'
<1>1. CASE UNCHANGED vars
  BY <1>1 DEF vars, AccessInv, TypeOK, FlushFits, RefsLive, Live, WriteOK
<1>2. ASSUME NEW w \in Workers, Handle(w) \/ Flush(w) \/ Commit(w) \/ Rollback(w)
      PROVE  AccessInv'
  BY <1>2, BeginKeeps, FlushKeeps, CommitKeeps, RollbackKeeps
<1> QED
  BY <1>1, <1>2 DEF Next

(* The inductive invariant holds at all times.                             *)
THEOREM AccessSafety == Spec => []AccessInv
<1>1. Init => AccessInv
  BY AccessInit
<1>2. AccessInv /\ [Next]_vars => AccessInv'
  BY AccessNext
<1> QED
  BY <1>1, <1>2, PTL DEF Spec

(* Rows are typed, and no association outlives what it refers to.          *)
THEOREM AccessTypes == Spec => []TypeOK
<1>1. AccessInv => TypeOK
  BY DEF AccessInv
<1> QED
  BY <1>1, AccessSafety, PTL

(* In every reachable state the computed permissions let a user use a      *)
(* scope exactly where a role and the client grant it.                     *)
THEOREM PermissionsGrant == Spec => []PermissionsAreMet
<1>1. AccessInv => PermissionsAreMet
  BY MetPermissions DEF AccessInv
<1> QED
  BY <1>1, AccessSafety, PTL

(***************************************************************************)
(* Deletions.                                                              *)
(***************************************************************************)

LEMMA DeletedGrantsLess ==
  ASSUME AccessInv, NEW w \in Workers, Commit(w), Deletes(tx[w]),
         NEW u \in UserIds \cup {None}, NEW c \in ClientIds \cap Live(rows)',
         u = None \/ u \in Live(rows)', NEW s,
         NEW o \in ProviderIds \cup CollectionIds \cup {"*"}, Granted(u, c, s, o)'
  PROVE  c \in Live(rows) /\ (u = None \/ u \in Live(rows)) /\ Granted(u, c, s, o)
<1>1. PICK t : t = tx[w]
  OBVIOUS
<1>2. t.new = None
  BY <1>1 DEF Deletes
<1>3. PICK gone : gone = DeletedWith(t.id)
  OBVIOUS
<1>4. PICK after : after = rows'
  OBVIOUS
<1>5. /\ t.id \in Objects /\ after = RowsWithout(gone)
      /\ \A k \in PackageIds \cap Live(rows) : rows[k].provider # t.id
  BY <1>1, <1>2, <1>3, <1>4, CommitRows
<1>6. /\ Live(after) = Live(rows) \ gone
      /\ \A x \in Live(after) :
           /\ after[x].specific = rows[x].specific /\ after[x].scopes = rows[x].scopes
           /\ after[x].links = rows[x].links \ gone
           /\ after[x].provider = IF rows[x].provider \in gone THEN None ELSE rows[x].provider
      /\ RefsLive(after)
  BY <1>3, <1>5, WithoutTypes DEF AccessInv
<1>7. Live(rows)' = Live(after)
  BY <1>4 DEF Live
<1>8. c \in Live(after) /\ c \in Live(rows) /\ (u = None \/ u \in Live(after) \cap Live(rows))
  BY <1>6, <1>7
<1>9. o # None
  BY AccessAssumption DEF Objects
<1>10. ClientGrants(c, s, o)
  BY <1>4, <1>6, <1>8, <1>9 DEF Granted, ClientGrants
<1>11. ASSUME u # None
       PROVE  \E r \in rows[u].links : RoleGrants(r, u, s, o)
  <2>1. PICK r \in after[u].links : RoleGrants(r, u, s, o)'
    BY <1>4, <1>11 DEF Granted
  <2>2. r \in rows[u].links /\ r \in Live(after)
    BY <1>6, <1>8, <1>11, <2>1 DEF RefsLive
  <2>3. RoleGrants(r, u, s, o)
    BY <1>4, <1>6, <1>7, <2>1, <2>2 DEF RoleGrants
  <2> QED
    BY <2>2, <2>3
<1> QED
  BY <1>8, <1>10, <1>11 DEF Granted

(* No deletion, with its cascades, gives anyone access to anything.        *)
THEOREM DeletionsNarrow == Spec => DeletionsNeverWiden
<1> DEFINE Narrows ==
      (\E w \in Workers : Deletes(tx[w]) /\ tx'[w] = None) =>
        \A u \in UserIds \cup {None}, c \in ClientIds, s \in Scopes :
        \A objects \in {{o} : o \in ProviderIds \cup CollectionIds} \cup {Any} :
          MayUse(u, c, s, objects)' => MayUse(u, c, s, objects)
<1>1. AccessInv /\ PermissionsAreMet /\ PermissionsAreMet' /\ [Next]_vars => [Narrows]_vars
  <2> SUFFICES ASSUME AccessInv, PermissionsAreMet, PermissionsAreMet', Next,
                      NEW w \in Workers, Deletes(tx[w]), tx'[w] = None,
                      NEW u \in UserIds \cup {None}, NEW c \in ClientIds, NEW s \in Scopes,
                      NEW objects \in {{o} : o \in ProviderIds \cup CollectionIds} \cup {Any},
                      MayUse(u, c, s, objects)'
               PROVE  MayUse(u, c, s, objects)
    OBVIOUS
  <2>1. c \in ClientIds \cap Live(rows)' /\ (u = None \/ u \in Live(rows)')
    BY DEF MayUse, Authorized
  <2>2. PICK o \in ProviderIds \cup CollectionIds \cup {"*"} :
          objects = IF o = "*" THEN Any ELSE {o}
    BY Stars DEF Any
  <2>3. Granted(u, c, s, o)'
    <3>1. u \in (UserIds \cap Live(rows)') \cup {None}
      BY <2>1
    <3>2. CASE o = "*"
      <4>1. MayUse(u, c, s, Any)'
        BY <2>2, <3>2 DEF Any
      <4> QED
        BY <2>1, <3>1, <3>2, <4>1 DEF PermissionsAreMet, Granted
    <3>3. CASE o # "*"
      <4>1. MayUse(u, c, s, {o})' /\ o \in ProviderIds \cup CollectionIds
        BY <2>2, <3>3
      <4> QED
        BY <2>1, <3>1, <4>1 DEF PermissionsAreMet, Granted
    <3> QED
      BY <3>2, <3>3
  <2>4. ASSUME c \in Live(rows), u = None \/ u \in Live(rows), Granted(u, c, s, o)
        PROVE  MayUse(u, c, s, objects)
    BY <2>2, <2>4, Stars DEF PermissionsAreMet, Granted
  <2>5. CASE rows' = rows
    BY <2>1, <2>3, <2>4, <2>5 DEF Granted, ClientGrants, RoleGrants, Live
  <2>6. CASE Commit(w)
    BY <2>1, <2>3, <2>4, <2>6, DeletedGrantsLess
  <2>7. ASSUME NEW v \in Workers, Commit(v), v # w
        PROVE  FALSE
    BY <2>7 DEF Commit, Deletes, AccessInv, TypeOK
  <2>8. ASSUME NEW v \in Workers, Handle(v)
        PROVE  rows' = rows
    BY <2>8, HandlersBegin DEF AccessInv, Begin
  <2> QED
    BY <2>5, <2>6, <2>7, <2>8 DEF Next, Flush, Rollback
<1>2. Spec => [][Narrows]_vars
  BY <1>1, AccessSafety, PermissionsGrant, PTL DEF Spec
<1> QED
  BY <1>2 DEF DeletionsNeverWiden
=============================================================================
