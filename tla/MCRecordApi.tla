---------------------------- MODULE MCRecordApi ----------------------------
(***************************************************************************)
(* Small instances of RecordApi for TLC: what the API keeps on its own.    *)
(***************************************************************************)
EXTENDS RecordApi

CONSTANTS r1, r2, r3, c1, c2, p1, d1, d2, d3, s1

Body(doi, sid, c, partOf) ==
  [doi |-> doi, sid |-> sid, collection |-> c,
   metadata |-> [valid |-> TRUE, partOf |-> partOf]]

Seed(doi, c) ==
  [doi |-> doi, sid |-> None, collection |-> c,
   metadata |-> [valid |-> TRUE, partOf |-> {}], parent |-> None]

TagIn(tag, data) == [tag |-> tag, data |-> data]

MCCollection ==
  [c \in Collections |-> [key |-> IF c = c1 THEN "k1" ELSE "k2", provider |-> p1]]
MCProvider == [p \in Providers |-> [key |-> "k1"]]
NoTags == [o \in Records \cup Collections |-> {}]

(* Three records without links; each can become part of any other.         *)
ThreeRecords ==
  [r \in Records |-> Seed(CASE r = r1 -> d1 [] r = r2 -> d2 [] r = r3 -> d3, c1)]
TreeBodies ==
  {Body(d, None, c1, S) : d \in DOIs, S \in {T \in SUBSET DOIs : Cardinality(T) < 2}}

(* r3 is part of r2, which is part of r1.                                  *)
Chain ==
  [ThreeRecords EXCEPT ![r2].parent = r1, ![r2].metadata.partOf = {d1},
                       ![r3].parent = r2, ![r3].metadata.partOf = {d2}]
ChainBodies ==
  {Body(d1, None, c1, {}), Body(d1, None, c1, {d3}), Body(d2, None, c1, {}),
   Body(d3, None, c1, {d1}), Body(d3, s1, c1, {d2}), Body(d3, None, c2, {d2}),
   Body(None, s1, c1, {})}

(* One record and two collections, the second one frozen.                  *)
OneRecord == [r \in Records |-> Seed(d1, c1)]
FrozenTags ==
  [o \in Records \cup Collections |->
     IF o = c2 THEN {[id |-> 100, tag |-> "Collection.Frozen", user |-> "u1",
                      data |-> "yes", ts |-> 0]}
     ELSE {}]
MoveBodies == {Body(d1, None, c1, {}), Body(d1, s1, c1, {}), Body(d1, None, c2, {}),
               Body(None, s1, c2, {})}
SomeRecordTags == {TagIn("Record.QC", "pass"), TagIn("Record.QC", "fail"),
               TagIn("Record.Retracted", "yes"), TagIn("Record.Embargo", "day0")}
SomeCollectionTags == {TagIn("Collection.Frozen", "yes")}
CollectionUpdates == {[key |-> "k1", provider |-> p1], [key |-> "k3", provider |-> p1]}
ProviderUpdates == {[key |-> "k2"]}
=============================================================================
