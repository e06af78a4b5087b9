--------------------------- MODULE KeywordProofs ---------------------------
(***************************************************************************)
(* Theorems about Keywords, for every set of ids, schemas, requests and    *)
(* processes.                                                              *)
(***************************************************************************)
EXTENDS Keywords, TLAPS

(* What the handlers have in common: one process begins a request with a   *)
(* write of the right shape.                                               *)
Opens(w) ==
  \E t : /\ WriteOK(t)
         /\ t.stage = "begun"
         /\ tx[w] = None
         /\ tx' = [tx EXCEPT ![w] = t]
         /\ requests < MaxRequests
         /\ requests' = requests + 1
         /\ UNCHANGED <<keyword, audit>>

LEMMA BeginOpens ==
  ASSUME KeywordInv, NEW w \in Workers, NEW command \in Commands,
         NEW k \in KeywordIds, NEW new \in KeywordRow \cup {None},
         Begin(w, command, k, new),
         command = "insert" => keyword[k] = None /\ new # None
                               /\ new.parent \in ProperPrefixes[k],
         command = "update" => keyword[k] # None /\ new # None,
         command = "delete" => new = None
  PROVE  Opens(w)
<1> DEFINE t == [command |-> command, key |-> k, base |-> keyword[k], new |-> new,
                 stage |-> "begun"]
<1>1. keyword[k] \in KeywordRow \cup {None}
  BY DEF KeywordInv, TypeOK
<1>2. WriteOK(t)
  BY <1>1, KeywordAssumption DEF WriteOK
<1> QED
  BY <1>2 DEF Begin, Opens

LEMMA SuggestOpens ==
  ASSUME KeywordInv, NEW w \in Workers, SuggestKeyword(w)
  PROVE  Opens(w)
<1>1. PICK in \in Suggestions :
        /\ ValidInput(in)
        /\ keyword[in.id] = None
        /\ Begin(w, "insert", in.id,
                 [data |-> in.data, status |-> "proposed", parent |-> in.parent,
                  schema |-> None, typed |-> FALSE])
  BY DEF SuggestKeyword
<1> DEFINE new == [data |-> in.data, status |-> "proposed", parent |-> in.parent,
                   schema |-> None, typed |-> FALSE]
<1>2. in \in [id : KeywordIds, parent : KeywordIds, data : Data]
  BY KeywordAssumption
<1>3. new \in KeywordRow
  BY <1>2, KeywordAssumption DEF KeywordRow
<1>4. in.parent \in ProperPrefixes[in.id]
  BY <1>1 DEF ValidInput
<1> QED
  BY <1>1, <1>2, <1>3, <1>4, BeginOpens, KeywordAssumption DEF Commands

LEMMA SetOpens ==
  ASSUME KeywordInv, NEW w \in Workers, SetKeyword(w)
  PROVE  Opens(w)
<1> DEFINE New(in) ==
      [data |-> in.data, status |-> in.status,
       parent |-> IF keyword[in.id] = None THEN in.parent ELSE keyword[in.id].parent,
       schema |-> in.schema, typed |-> in.schema # None]
           Command(in) == IF keyword[in.id] = None THEN "insert" ELSE "update"
<1>1. PICK in \in Settings :
        ValidInput(in) /\ Begin(w, Command(in), in.id, New(in))
  BY DEF SetKeyword
<1>2. in \in [id : KeywordIds, parent : KeywordIds, data : Data,
              status : Statuses, schema : SchemaIds \cup {None}]
  BY KeywordAssumption
<1>3. keyword[in.id] \in KeywordRow \cup {None}
  BY <1>2 DEF KeywordInv, TypeOK
<1>4. New(in) \in KeywordRow
  BY <1>2, <1>3 DEF KeywordRow
<1>5. in.parent \in ProperPrefixes[in.id]
  BY <1>1 DEF ValidInput
<1>6. keyword[in.id] = None => New(in).parent \in ProperPrefixes[in.id]
  BY <1>5
<1>7. New(in) # None
  BY <1>4, KeywordAssumption
<1> HIDE DEF New
<1>8. Command(in) \in Commands
  BY DEF Commands
<1> QED
  BY <1>1, <1>2, <1>4, <1>6, <1>7, <1>8, BeginOpens

LEMMA DeleteOpens ==
  ASSUME KeywordInv, NEW w \in Workers, DeleteKeyword(w)
  PROVE  Opens(w)
BY BeginOpens DEF DeleteKeyword, Live, Commands

(***************************************************************************)
(* A commit.                                                               *)
(***************************************************************************)

(* Of an update, the parent is the one the row has by then. *)
LEMMA MergedRowType ==
  ASSUME KeywordInv, NEW t, WriteOK(t), Accepted(t)
  PROVE  /\ MergedRow(t) \in KeywordRow \cup {None}
         /\ (MergedRow(t) = None) <=> (t.command = "delete")
         /\ t.command = "insert" => MergedRow(t).parent \in ProperPrefixes[t.key]
         /\ t.command = "update" => MergedRow(t).parent = keyword[t.key].parent
<1>1. /\ t.key \in KeywordIds
      /\ t.command \in Commands
      /\ t.base \in KeywordRow \cup {None}
      /\ t.new \in KeywordRow \cup {None}
  BY DEF WriteOK
<1>2. CASE t.command = "insert"
  BY <1>1, <1>2 DEF WriteOK, MergedRow
<1>3. CASE t.command = "delete"
  BY <1>1, <1>3 DEF WriteOK, MergedRow
<1>4. CASE t.command = "update"
  <2>1. /\ t.base \in KeywordRow
        /\ t.new \in KeywordRow
        /\ keyword[t.key] \in KeywordRow
        /\ t.base # None /\ t.new # None
    BY <1>1, <1>4 DEF WriteOK, Accepted, KeywordInv, TypeOK
  <2> DEFINE cur == keyword[t.key]
             row == [data   |-> Column(t.base.data, t.new.data, cur.data),
                     status |-> Column(t.base.status, t.new.status, cur.status),
                     parent |-> cur.parent,
                     schema |-> Column(t.base.schema, t.new.schema, cur.schema),
                     typed  |-> Column(t.base.typed, t.new.typed, cur.typed)]
  <2>2. MergedRow(t) = row
    BY <2>1 DEF MergedRow
  <2>3. row \in KeywordRow
    BY <2>1 DEF KeywordRow, Column
  <2> QED
    BY <1>4, <2>2, <2>3, KeywordAssumption
<1> QED
  BY <1>1, <1>2, <1>3, <1>4 DEF Commands

(* A write that was accepted leaves no keyword below one that it deletes.  *)
LEMMA DeletesLeaf ==
  ASSUME KeywordInv, NEW t, WriteOK(t), Accepted(t), t.command = "delete",
         NEW k \in Live(keyword), k # t.key
  PROVE  keyword[k].parent # t.key
<1>1. t.key \in KeywordIds /\ MergedRow(t) = None
  BY MergedRowType DEF WriteOK
<1> DEFINE rows == RowsAfter(t)
<1>2. rows = [keyword EXCEPT ![t.key] = None]
  BY <1>1 DEF RowsAfter
<1>3. rows[k] = keyword[k] /\ rows[t.key] = None /\ k \in KeywordIds
  BY <1>1, <1>2 DEF KeywordInv, TypeOK, Live
<1>4. k \in Live(rows) /\ t.key \notin Live(rows)
  BY <1>3 DEF Live
<1>5. rows[k].parent # None => rows[k].parent \in Live(rows)
  BY <1>4 DEF Accepted, WellFormed
<1> QED
  BY <1>1, <1>3, <1>4, <1>5, KeywordAssumption

(* Of two writes that are not at odds, the commit of one leaves the other  *)
(* acceptable.                                                             *)
LEMMA Independent ==
  ASSUME KeywordInv, NEW s, NEW t, WriteOK(s), WriteOK(t),
         Accepted(s), ~Misses(s), Accepted(t), ~Misses(t),
         ~Conflicts(s, t), keyword' = RowsAfter(s)
  PROVE  Accepted(t)' /\ ~Misses(t)'
<1> DEFINE A == RowsAfter(s)
           B == RowsAfter(t)
           C == [A EXCEPT ![t.key] = MergedRow(t)]
<1>1. /\ s.key \in KeywordIds /\ t.key \in KeywordIds /\ s.key # t.key
      /\ keyword \in [KeywordIds -> KeywordRow \cup {None}]
  BY DEF WriteOK, Conflicts, KeywordInv, TypeOK
<1>2. /\ A = [keyword EXCEPT ![s.key] = MergedRow(s)]
      /\ B = [keyword EXCEPT ![t.key] = MergedRow(t)]
  BY DEF RowsAfter
<1>3. /\ A[t.key] = keyword[t.key]
      /\ B[s.key] = keyword[s.key]
      /\ \A k \in KeywordIds : k # s.key => A[k] = keyword[k]
      /\ \A k \in KeywordIds : k # t.key => B[k] = keyword[k]
      /\ A[s.key] = MergedRow(s)
      /\ B[t.key] = MergedRow(t)
      /\ C[t.key] = MergedRow(t)
      /\ \A k \in KeywordIds : k # t.key => C[k] = A[k]
  BY <1>1, <1>2
<1>4. keyword'[t.key] = keyword[t.key]
  BY <1>3
<1>5. MergedRow(t)' = MergedRow(t)
  BY <1>4 DEF MergedRow
<1>6. RowsAfter(t)' = C
  BY <1>5 DEF RowsAfter
<1> HIDE DEF A, B, C
<1>7. WellFormed(A) /\ WellFormed(B)
  BY DEF Accepted, A, B
<1>8. ASSUME NEW k \in Live(C)
      PROVE  /\ C[k].parent # None =>
                  C[k].parent \in Live(C) \cap (ProperPrefixes[k] \cup {k})
             /\ C[k].parent = None => C[k].schema # None
             /\ C[k].typed /\ C[k].schema # None => C[k].schema \in Schemas
  <2>0. k \in KeywordIds /\ C[k] # None
    BY DEF Live
  <2>1. CASE k = t.key
    <3>1. k \in Live(B) /\ C[k] = B[k]
      BY <1>3, <2>0, <2>1 DEF Live
    <3>2. ASSUME C[k].parent # None PROVE C[k].parent \in Live(C)
      <4>1. C[k].parent \in Live(B)
        BY <1>7, <3>1, <3>2 DEF WellFormed
      <4>2. CASE C[k].parent # s.key
        BY <1>3, <4>1, <4>2 DEF Live
      <4>3. CASE C[k].parent = s.key
        <5>1. t.command # "delete"
          BY <1>3, <2>0, <2>1, MergedRowType
        <5>2. ASSUME t.command = "insert" PROVE s.command # "delete"
          <6>1. MergedRow(t) = t.new
            BY <5>2 DEF MergedRow, WriteOK
          <6> QED
            BY <1>3, <2>1, <4>3, <5>2, <6>1 DEF Conflicts, InsertsBelow
        <5>3. ASSUME t.command = "update" PROVE s.command # "delete"
          <6>1. keyword[t.key].parent = s.key
            BY <1>3, <2>1, <4>3, <5>3, MergedRowType
          <6>2. t.key \in Live(keyword)
            BY <1>1, <5>3 DEF Accepted, Live
          <6> QED
            BY <1>1, <6>1, <6>2, DeletesLeaf
        <5>4. s.command # "delete"
          BY <5>1, <5>2, <5>3 DEF WriteOK, Commands
        <5>5. A[s.key] # None
          BY <1>3, <5>4, MergedRowType
        <5> QED
          BY <1>1, <1>3, <4>3, <5>5 DEF Live
      <4> QED
        BY <4>2, <4>3
    <3> QED
      BY <1>7, <3>1, <3>2 DEF WellFormed
  <2>2. CASE k # t.key
    <3>1. k \in Live(A) /\ C[k] = A[k]
      BY <1>3, <2>0, <2>2 DEF Live
    <3>2. ASSUME C[k].parent # None PROVE C[k].parent \in Live(C)
      <4>1. C[k].parent \in Live(A)
        BY <1>7, <3>1, <3>2 DEF WellFormed
      <4>2. CASE C[k].parent # t.key
        BY <1>3, <4>1, <4>2 DEF Live
      <4>3. CASE C[k].parent = t.key
        <5>1. ASSUME k = s.key, s.command = "insert" PROVE t.command # "delete"
          <6>1. MergedRow(s) = s.new
            BY <5>1 DEF MergedRow, WriteOK
          <6> QED
            BY <1>3, <3>1, <4>3, <5>1, <6>1 DEF Conflicts, InsertsBelow
        <5>2. ASSUME ~(k = s.key /\ s.command = "insert") PROVE t.command # "delete"
          <6>1. k = s.key => s.command = "update"
            BY <1>3, <3>1, <2>0, <5>2, MergedRowType DEF WriteOK, Commands
          <6>2. k \in Live(keyword) /\ keyword[k].parent = t.key
            BY <1>1, <1>3, <2>0, <3>1, <4>3, <6>1, MergedRowType DEF Accepted, Live
          <6> QED
            BY <2>2, <6>2, DeletesLeaf
        <5>3. C[t.key] # None
          BY <1>3, <5>1, <5>2, MergedRowType
        <5> QED
          BY <1>1, <4>3, <5>3 DEF Live
      <4> QED
        BY <4>2, <4>3
    <3> QED
      BY <1>7, <3>1, <3>2 DEF WellFormed
  <2> QED
    BY <2>1, <2>2
<1>9. WellFormed(C)
  BY <1>8 DEF WellFormed
<1>10. WellFormed(RowsAfter(t))'
  BY <1>6, <1>9 DEF WellFormed, Live
<1> QED
  BY <1>4, <1>10 DEF Accepted, Misses

(* The table after a commit keeps its constraints, and no keyword becomes  *)
(* its own parent.                                                         *)
LEMMA CommitFits ==
  ASSUME KeywordInv, NEW t, WriteOK(t), Accepted(t), keyword' = RowsAfter(t)
  PROVE  /\ keyword' \in [KeywordIds -> KeywordRow \cup {None}]
         /\ WellFormed(keyword')
         /\ \A k \in Live(keyword') : keyword'[k].parent # k
<1>1. t.key \in KeywordIds /\ t.command \in Commands
  BY DEF WriteOK
<1>2. keyword' = [keyword EXCEPT ![t.key] = MergedRow(t)]
  BY DEF RowsAfter
<1>3. keyword \in [KeywordIds -> KeywordRow \cup {None}]
  BY DEF KeywordInv, TypeOK
<1>4. MergedRow(t) \in KeywordRow \cup {None}
  BY MergedRowType
<1>5. keyword' \in [KeywordIds -> KeywordRow \cup {None}]
  BY <1>2, <1>3, <1>4
<1>6. WellFormed(keyword')
  BY DEF Accepted
<1>7. ASSUME NEW k \in Live(keyword')
      PROVE  keyword'[k].parent # k
  <2>1. k \in KeywordIds
    BY DEF Live
  <2>2. CASE k # t.key
    <3>1. keyword'[k] = keyword[k]
      BY <1>2, <1>3, <2>1, <2>2
    <3> QED
      BY <3>1, <1>7 DEF KeywordInv, Live
  <2>3. CASE k = t.key
    <3>1. keyword'[k] = MergedRow(t)
      BY <1>2, <1>3, <2>1, <2>3
    <3>2. t.command # "delete"
      BY <1>1, <3>1, <1>7, MergedRowType DEF Live
    <3>3. CASE t.command = "insert"
      <4>1. MergedRow(t).parent \in ProperPrefixes[k]
        BY <1>1, <2>3, <3>3, MergedRowType
      <4>2. k \notin ProperPrefixes[k]
        BY <2>1, KeywordAssumption
      <4> QED
        BY <3>1, <4>1, <4>2
    <3>4. CASE t.command = "update"
      <4>1. MergedRow(t).parent = keyword[k].parent
        BY <1>1, <2>3, <3>4, MergedRowType
      <4>2. k \in Live(keyword)
        BY <1>1, <2>1, <2>3, <3>4 DEF Accepted, Live
      <4> QED
        BY <3>1, <4>1, <4>2 DEF KeywordInv
    <3> QED
      BY <1>1, <3>2, <3>3, <3>4 DEF Commands
  <2> QED
    BY <2>2, <2>3
<1> QED
  BY <1>5, <1>6, <1>7

LEMMA CommitKeeps ==
  ASSUME KeywordInv, NEW w \in Workers, Commit(w)
  PROVE  KeywordInv'
<1> DEFINE t == tx[w]
<1>1. WriteOK(t) /\ t.key \in KeywordIds /\ t.command \in Commands
  BY DEF Commit, KeywordInv, TypeOK, WriteOK
<1>2. \A v \in Workers : tx'[v] # None => v # w /\ tx'[v] = tx[v]
  BY DEF Commit, KeywordInv, TypeOK
<1>3. audit' \in [KeywordIds -> [Commands -> Nat]]
  <2>1. audit' = [audit EXCEPT ![t.key] = [audit[t.key] EXCEPT ![t.command] = @ + 1]]
    BY DEF Commit, WithEntry
  <2>2. audit[t.key] \in [Commands -> Nat] /\ audit \in [KeywordIds -> [Commands -> Nat]]
    BY <1>1 DEF KeywordInv, TypeOK
  <2>3. [audit[t.key] EXCEPT ![t.command] = @ + 1] \in [Commands -> Nat]
    BY <1>1, <2>2
  <2> QED
    BY <1>1, <2>1, <2>2, <2>3
<1>4. /\ DOMAIN tx' = Workers
      /\ \A v \in Workers : tx'[v] = None \/ WriteOK(tx'[v])
      /\ requests' \in 0 .. MaxRequests
  BY DEF Commit, KeywordInv, TypeOK
<1>5. /\ keyword' \in [KeywordIds -> KeywordRow \cup {None}]
      /\ WellFormed(keyword')
      /\ \A k \in Live(keyword') : keyword'[k].parent # k
  <2>1. CASE t.stage = "written"
    <3>1. Accepted(t) /\ keyword' = RowsAfter(t)
      BY <2>1 DEF Commit, KeywordInv, LocksHold, Written
    <3> QED
      BY <1>1, <3>1, CommitFits
  <2>2. CASE t.stage # "written"
    <3>1. keyword' = keyword
      BY <2>2 DEF Commit
    <3> QED
      BY <3>1 DEF KeywordInv, TypeOK
  <2> QED
    BY <2>1, <2>2
<1>6. ASSUME NEW v \in Workers, Written(v)'
      PROVE  Accepted(tx[v])' /\ ~Misses(tx[v])'
  <2> DEFINE u == tx[v]
  <2>1. v # w /\ tx'[v] = u /\ Written(v)
    BY <1>2, <1>6 DEF Written
  <2>2. WriteOK(u) /\ Accepted(u) /\ ~Misses(u)
    BY <2>1 DEF KeywordInv, TypeOK, LocksHold, Written
  <2>3. CASE t.stage = "written"
    <3>1. Written(w)
      BY <2>3 DEF Written, Commit
    <3>2. Accepted(t) /\ ~Misses(t) /\ ~Conflicts(t, u)
      BY <2>1, <3>1 DEF KeywordInv, LocksHold
    <3>3. keyword' = RowsAfter(t)
      BY <2>3 DEF Commit
    <3> HIDE DEF t, u
    <3>4. \A x : x = u => Accepted(x)' /\ ~Misses(x)'
      BY <1>1, <2>2, <3>2, <3>3, Independent
    <3> USE DEF u
    <3> QED
      BY <2>1, <3>4 DEF Accepted, Misses, WellFormed, RowsAfter, MergedRow, Live
  <2>4. CASE t.stage # "written"
    <3>1. keyword' = keyword
      BY <2>4 DEF Commit
    <3> QED
      BY <2>1, <2>2, <3>1 DEF Accepted, Misses, WellFormed, RowsAfter, MergedRow, Live
  <2> QED
    BY <2>3, <2>4
<1>7. ASSUME NEW v \in Workers, NEW u \in Workers, Written(v)', Written(u)', v # u
      PROVE  ~Conflicts(tx[v], tx[u])'
  <2>1. tx'[v] = tx[v] /\ tx'[u] = tx[u] /\ Written(v) /\ Written(u)
    BY <1>2, <1>7 DEF Written
  <2> QED
    BY <1>7, <2>1 DEF KeywordInv, LocksHold, Conflicts, InsertsBelow
<1>8. TypeOK'
  BY <1>3, <1>4, <1>5 DEF TypeOK, WriteOK
<1>9. LocksHold'
  BY <1>6, <1>7 DEF LocksHold
<1> QED
  BY <1>5, <1>8, <1>9 DEF KeywordInv, Live, WellFormed

(* Whether a write fits depends on the table alone. *)
LEMMA SameRows ==
  ASSUME UNCHANGED keyword
  PROVE  \A x : Accepted(x) /\ ~Misses(x) => Accepted(x)' /\ ~Misses(x)'
<1> TAKE x
<1>1. RowsAfter(x)' = RowsAfter(x)
  BY DEF RowsAfter, MergedRow
<1>2. WellFormed(RowsAfter(x))' <=> WellFormed(RowsAfter(x))
  BY <1>1 DEF WellFormed, Live
<1> QED
  BY <1>2 DEF Accepted, Misses

(* Steps that leave the table alone and put only such requests into tx as  *)
(* the invariant allows.                                                   *)
LEMMA QuietKeeps ==
  ASSUME KeywordInv, NEW w \in Workers, UNCHANGED keyword,
         audit' \in [KeywordIds -> [Commands -> Nat]],
         requests' \in 0 .. MaxRequests,
         NEW t, t = None \/ WriteOK(t), tx' = [tx EXCEPT ![w] = t],
         t # None /\ t.stage = "written" =>
           /\ Accepted(t) /\ ~Misses(t)
           /\ \A v \in Workers : v # w /\ Written(v) => ~Conflicts(tx[v], t)
  PROVE  KeywordInv'
<1>1. /\ DOMAIN tx' = Workers
      /\ tx'[w] = t
      /\ \A v \in Workers : v # w => tx'[v] = tx[v]
  BY DEF KeywordInv, TypeOK
<1>2. TypeOK'
  BY <1>1 DEF KeywordInv, TypeOK, WriteOK
<1>3. ASSUME NEW v \in Workers, Written(v)'
      PROVE  Accepted(tx[v])' /\ ~Misses(tx[v])'
  <2>1. Accepted(tx'[v]) /\ ~Misses(tx'[v])
    BY <1>1, <1>3 DEF Written, KeywordInv, LocksHold
  <2>2. \A x : Accepted(x) /\ ~Misses(x) => Accepted(x)' /\ ~Misses(x)'
    BY SameRows
  <2>3. ASSUME NEW x, x = tx'[v]
        PROVE  Accepted(x)' /\ ~Misses(x)'
    BY <2>1, <2>2, <2>3
  <2> QED
    BY <2>3 DEF Accepted, Misses, WellFormed, RowsAfter, MergedRow, Live
<1>4. ASSUME NEW v \in Workers, NEW u \in Workers, Written(v)', Written(u)', v # u
      PROVE  ~Conflicts(tx[v], tx[u])'
  <2>1. ~Conflicts(tx'[v], tx'[u])
    BY <1>1, <1>4 DEF Written, KeywordInv, LocksHold, Conflicts
  <2> QED
    BY <2>1 DEF Conflicts, InsertsBelow
<1>5. LocksHold'
  BY <1>3, <1>4 DEF LocksHold
<1> QED
  BY <1>2, <1>5 DEF KeywordInv, WellFormed, Live

LEMMA OpensKeeps ==
  ASSUME KeywordInv, NEW w \in Workers, Opens(w)
  PROVE  KeywordInv'
<1>1. PICK t : /\ WriteOK(t)
               /\ t.stage = "begun"
               /\ tx' = [tx EXCEPT ![w] = t]
               /\ requests < MaxRequests
               /\ requests' = requests + 1
               /\ UNCHANGED <<keyword, audit>>
  BY DEF Opens
<1>2. requests' \in 0 .. MaxRequests
  BY <1>1, KeywordAssumption DEF KeywordInv, TypeOK
<1>3. audit' \in [KeywordIds -> [Commands -> Nat]]
  BY <1>1 DEF KeywordInv, TypeOK
<1> QED
  BY <1>1, <1>2, <1>3, QuietKeeps

LEMMA FlushKeeps ==
  ASSUME KeywordInv, NEW w \in Workers, Flush(w)
  PROVE  KeywordInv'
<1> DEFINE t(stage) == [tx[w] EXCEPT !.stage = stage]
<1>1. WriteOK(tx[w]) /\ tx[w].stage = "begun"
  BY DEF Flush, KeywordInv, TypeOK
<1>2. /\ audit' \in [KeywordIds -> [Commands -> Nat]]
      /\ requests' \in 0 .. MaxRequests
      /\ UNCHANGED keyword
  BY DEF Flush, KeywordInv, TypeOK
<1>3. CASE Misses(tx[w]) /\ tx' = [tx EXCEPT ![w] = t("missed")]
  <2>1. WriteOK(t("missed")) /\ t("missed").stage # "written"
    BY <1>1, <1>3 DEF WriteOK, Misses
  <2> QED
    BY <1>2, <1>3, <2>1, QuietKeeps
<1>4. CASE /\ ~Misses(tx[w]) /\ Accepted(tx[w])
           /\ tx' = [tx EXCEPT ![w] = t("written")]
  <2>1. WriteOK(t("written"))
    BY <1>1 DEF WriteOK
  <2>2. /\ t("written").command = tx[w].command
        /\ t("written").key = tx[w].key
        /\ t("written").base = tx[w].base
        /\ t("written").new = tx[w].new
    BY <1>1 DEF WriteOK
  <2>3. Accepted(t("written")) /\ ~Misses(t("written"))
    BY <1>4, <2>2 DEF Accepted, Misses, RowsAfter, MergedRow
  <2>4. \A v \in Workers : v # w /\ Written(v) => ~Conflicts(tx[v], t("written"))
    BY <2>2 DEF Flush, Conflicts, InsertsBelow
  <2> QED
    BY <1>2, <1>4, <2>1, <2>3, <2>4, QuietKeeps
<1> QED
  BY <1>3, <1>4 DEF Flush

LEMMA RollbackKeeps ==
  ASSUME KeywordInv, NEW w \in Workers, Rollback(w)
  PROVE  KeywordInv'
BY QuietKeeps DEF Rollback, KeywordInv, TypeOK

LEMMA KeywordInit == Init => KeywordInv
<1> SUFFICES ASSUME Init PROVE KeywordInv
  OBVIOUS
<1>1. TypeOK
  BY KeywordAssumption DEF Init, TypeOK
<1>2. LocksHold
  BY DEF Init, LocksHold, Written
<1> QED
  BY <1>1, <1>2, KeywordAssumption DEF Init, KeywordInv

LEMMA KeywordNext == KeywordInv /\ [Next]_vars => KeywordInv'
<1> SUFFICES ASSUME KeywordInv, [Next]_vars PROVE KeywordInv'
  OBVIOUS
<1>1. CASE UNCHANGED vars
  <2>1. TypeOK'
    BY <1>1 DEF vars, KeywordInv, TypeOK, WriteOK
  <2>2. ASSUME NEW v \in Workers, Written(v)'
        PROVE  Accepted(tx[v])' /\ ~Misses(tx[v])'
    <3>1. Accepted(tx'[v]) /\ ~Misses(tx'[v])
      BY <1>1, <2>2 DEF vars, KeywordInv, LocksHold, Written
    <3>2. ASSUME NEW x, x = tx'[v]
          PROVE  Accepted(x)' /\ ~Misses(x)'
      BY <1>1, <3>1, <3>2, SameRows DEF vars
    <3> QED
      BY <3>2 DEF Accepted, Misses, WellFormed, RowsAfter, MergedRow, Live
  <2>3. \A v, w \in Workers :
          Written(v)' /\ Written(w)' /\ v # w => ~Conflicts(tx[v], tx[w])'
    BY <1>1 DEF vars, KeywordInv, LocksHold, Written, Conflicts, InsertsBelow
  <2>4. LocksHold'
    BY <2>2, <2>3 DEF LocksHold
  <2> QED
    BY <1>1, <2>1, <2>4 DEF vars, KeywordInv, WellFormed, Live
<1>2. ASSUME NEW w \in Workers,
             SuggestKeyword(w) \/ SetKeyword(w) \/ DeleteKeyword(w)
      PROVE  KeywordInv'
  BY <1>2, SuggestOpens, SetOpens, DeleteOpens, OpensKeeps
<1>3. ASSUME NEW w \in Workers, Flush(w) \/ Commit(w) \/ Rollback(w)
      PROVE  KeywordInv'
  BY <1>3, FlushKeeps, CommitKeeps, RollbackKeeps
<1> QED
  BY <1>1, <1>2, <1>3 DEF Next

(***************************************************************************)
(* Theorems.                                                               *)
(***************************************************************************)

(* Rows and requests keep their shape, the constraints hold, and no        *)
(* keyword is its own parent, for any number of processes.                 *)
THEOREM HierarchyHolds == Spec => []KeywordInv
BY KeywordInit, KeywordNext, PTL DEF Spec

(* A set of keywords has one, with the fewest prefixes in the set, whose   *)
(* parent is not in it.                                                    *)
LEMMA InvSearchEnds == KeywordInv => SchemaSearchEnds
<1> SUFFICES ASSUME KeywordInv PROVE SchemaSearchEnds
  OBVIOUS
<1>1. ASSUME NEW k \in Live(keyword)
      PROVE  keyword[k].parent = None
             \/ keyword[k].parent \in Live(keyword) \cap ProperPrefixes[k]
  BY <1>1 DEF KeywordInv, WellFormed
<1>2. ASSUME NEW S \in SUBSET Live(keyword) \ {{}}
      PROVE  \E k \in S : keyword[k].parent \notin S
  <2>1. S \in SUBSET KeywordIds \ {{}}
    BY DEF Live
  <2>2. PICK k \in S : ProperPrefixes[k] \cap S = {}
    BY <2>1, KeywordAssumption
  <2>3. None \notin S
    BY <2>1, KeywordAssumption
  <2> QED
    BY <1>1, <2>2, <2>3
<1> QED
  BY <1>1, <1>2 DEF SchemaSearchEnds, KeywordInv, WellFormed

(* get_child_schema always ends at a keyword that names a schema.          *)
THEOREM SearchEnds == Spec => []SchemaSearchEnds
BY HierarchyHolds, InvSearchEnds, PTL

LEMMA AuditNext == KeywordInv /\ AuditAccounts /\ [Next]_vars => AuditAccounts'
<1> SUFFICES ASSUME KeywordInv, AuditAccounts, [Next]_vars PROVE AuditAccounts'
  OBVIOUS
<1>1. CASE UNCHANGED <<keyword, audit>>
  BY <1>1 DEF AuditAccounts, Live
<1>2. ASSUME NEW w \in Workers, Commit(w)
      PROVE  AuditAccounts'
  <2> DEFINE t == tx[w]
             present(rows, k) == IF k \in Live(rows) THEN 1 ELSE 0
  <2>1. WriteOK(t) /\ t.key \in KeywordIds /\ t.command \in Commands
    BY <1>2 DEF Commit, KeywordInv, TypeOK, WriteOK
  <2>2. /\ audit \in [KeywordIds -> [Commands -> Nat]]
        /\ audit' = [audit EXCEPT ![t.key] = [audit[t.key] EXCEPT ![t.command] = @ + 1]]
        /\ DOMAIN keyword = KeywordIds
    BY <1>2 DEF Commit, WithEntry, KeywordInv, TypeOK
  <2>3. ASSUME NEW k \in KeywordIds
        PROVE  LET created == audit'[k]["insert"] + present(InitialKeyword, k)
               IN  /\ present(keyword', k) <= created
                   /\ created - present(keyword', k) <= audit'[k]["delete"]
    <3>0. /\ audit[k]["insert"] \in Nat /\ audit[k]["delete"] \in Nat
          /\ present(keyword, k) <= audit[k]["insert"] + present(InitialKeyword, k)
          /\ audit[k]["insert"] + present(InitialKeyword, k) - present(keyword, k)
               <= audit[k]["delete"]
      BY <2>2 DEF AuditAccounts, Commands
    <3>1. CASE k # t.key
      <4>1. audit'[k] = audit[k]
        BY <2>2, <3>1
      <4>2. keyword'[k] = keyword[k]
        BY <1>2, <2>2, <3>1 DEF Commit, RowsAfter
      <4>3. present(keyword', k) = present(keyword, k)
        BY <4>2 DEF Live
      <4> QED
        BY <3>0, <4>1, <4>3
    <3>2. CASE k = t.key /\ t.stage = "written"
      <4>1. Accepted(t) /\ ~Misses(t) /\ keyword' = RowsAfter(t)
        BY <1>2, <3>2 DEF Commit, KeywordInv, LocksHold, Written
      <4>2. keyword'[k] = MergedRow(t)
        BY <2>2, <3>2, <4>1 DEF RowsAfter
      <4>3. present(keyword', k) = IF t.command = "delete" THEN 0 ELSE 1
        BY <2>1, <4>1, <4>2, MergedRowType DEF Live
      <4>4. present(keyword, k) = IF t.command = "insert" THEN 0 ELSE 1
        BY <2>1, <3>2, <4>1 DEF Live, Accepted, Misses, Commands
      <4>5. /\ audit'[k]["insert"] = audit[k]["insert"] + IF t.command = "insert" THEN 1 ELSE 0
            /\ audit'[k]["delete"] = audit[k]["delete"] + IF t.command = "delete" THEN 1 ELSE 0
        BY <2>1, <2>2, <3>0, <3>2 DEF Commands
      <4> HIDE DEF present
      <4>6. present(InitialKeyword, k) \in {0, 1}
        BY DEF present
      <4> QED
        BY <2>1, <3>0, <4>3, <4>4, <4>5, <4>6 DEF Commands
    <3>3. CASE k = t.key /\ t.stage # "written"
      <4>1. keyword' = keyword /\ t.command = "delete"
        BY <1>2, <2>1, <3>3 DEF Commit, WriteOK
      <4>2. /\ audit'[k]["insert"] = audit[k]["insert"]
            /\ audit'[k]["delete"] = audit[k]["delete"] + 1
        BY <2>1, <2>2, <3>0, <3>3, <4>1 DEF Commands
      <4> HIDE DEF present
      <4>3. present(InitialKeyword, k) \in {0, 1} /\ present(keyword, k) \in {0, 1}
        BY DEF present
      <4> QED
        BY <3>0, <4>1, <4>2, <4>3
    <3> QED
      BY <3>1, <3>2, <3>3
  <2> QED
    BY <2>3 DEF AuditAccounts, Live
<1> QED
  BY <1>1, <1>2 DEF Next, SuggestKeyword, SetKeyword, DeleteKeyword, Begin, Flush, Rollback, vars

(* Every time a keyword came or went has its entry in the audit log, for   *)
(* any number of processes.                                                *)
THEOREM AuditComplete == Spec => []AuditAccounts
<1>1. Init => AuditAccounts
  BY KeywordAssumption DEF Init, AuditAccounts, Commands, Live
<1> QED
  BY <1>1, HierarchyHolds, AuditNext, PTL DEF Spec
=============================================================================
