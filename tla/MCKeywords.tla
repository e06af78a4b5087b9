----------------------------- MODULE MCKeywords -----------------------------
(***************************************************************************)
(* Small instances of Keywords for TLC.  Ids are sequences of path parts:  *)
(* a root, a vocabulary below it, and two keywords below that.             *)
(***************************************************************************)
EXTENDS Keywords, SequencesExt

Root == <<"a">>
Sub == <<"a", "b">>
Leaf == <<"a", "b", "c">>
Other == <<"a", "d">>

MCIds == {Root, Sub, Leaf, Other}
MCProperPrefixes == [k \in MCIds |-> {p \in MCIds : IsStrictPrefix(p, k)}]

(* s1 is the schema of the root; s2 admits other data; s3 is not installed. *)
MCAdmits == [s \in {"s1", "s2"} |-> IF s = "s1" THEN {"x", "y"} ELSE {"y", "z"}]

Row(data, parent, schema) ==
  [data |-> data, status |-> "approved", parent |-> parent, schema |-> schema,
   typed |-> schema # None]

MCInitial ==
  [k \in MCIds |-> IF k = Root THEN Row("x", None, "s1")
                   ELSE IF k = Sub THEN Row("x", Root, "s2") ELSE None]

Suggestion(k, p, data) == [id |-> k, parent |-> p, data |-> data]
MCSuggestions ==
  {Suggestion(Leaf, Sub, "z"), Suggestion(Leaf, Root, "x"), Suggestion(Sub, Root, "x"),
   Suggestion(Leaf, Sub, "x"), Suggestion(Sub, Sub, "y"), Suggestion(Other, Root, "y")}

Setting(k, p, data, schema) ==
  [id |-> k, parent |-> p, data |-> data, status |-> "approved", schema |-> schema]
MCSettings ==
  {Setting(Sub, Root, "x", None), Setting(Sub, Root, "y", "s1"),
   Setting(Sub, Root, "y", "s3"), Setting(Leaf, Sub, "y", None),
   Setting(Leaf, Root, "x", "s2"), Setting(Other, Root, "x", None)}
=============================================================================
