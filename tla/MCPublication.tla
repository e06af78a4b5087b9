--------------------------- MODULE MCPublication ---------------------------
(***************************************************************************)
(* Small instances of Publication for TLC: the rows the database starts    *)
(* with and the requests clients send.                                     *)
(***************************************************************************)
EXTENDS Publication

CONSTANTS r1, r2, c1, c2, p1, d1, d2, s2

Tag(i, tag, data) ==
  [id |-> 100 + i, tag |-> tag, user |-> "u1", data |-> data, ts |-> 0]

Meta(valid, partOf) == [valid |-> valid, partOf |-> partOf]

Body(doi, sid, valid, partOf) ==
  [doi |-> doi, sid |-> sid, collection |-> c1, metadata |-> Meta(valid, partOf)]

Seed(doi, sid, valid, parent) ==
  [doi |-> doi, sid |-> sid, collection |-> c1,
   metadata |-> Meta(valid, {}), parent |-> parent]

TagIn(tag, data) == [tag |-> tag, data |-> data]

MCCollection ==
  [c \in Collections |-> [key |-> IF c = c1 THEN "k1" ELSE "k2", provider |-> p1]]
MCProvider == [p \in {p1} |-> [key |-> "k1"]]

MCEmbargoDays == [d \in {"day0", "day1"} |-> IF d = "day0" THEN {0} ELSE {1}]

(* Two records with DOIs in a published, harvested collection.             *)
TwoRecords == [r \in {r1, r2} |-> IF r = r1 THEN Seed(d1, None, TRUE, None)
                                  ELSE Seed(d2, None, TRUE, None)]
HarvestedTags ==
  [o \in {r1, r2, c1} |->
     IF o = c1 THEN {Tag(1, "Collection.Published", "yes"),
                     Tag(2, "Collection.Harvested", "yes"),
                     Tag(3, "Collection.Infrastructure", "MIMS")}
     ELSE {}]

(* A second collection, published and harvested as well.                   *)
TwoCollections ==
  [c \in {c1, c2} |-> [key |-> IF c = c1 THEN "k1" ELSE "k3", provider |-> p1]]
BothHarvestedTags ==
  [o \in {r1, r2, c1, c2} |->
     IF o = c2 THEN {[t EXCEPT !.id = @ + 10] : t \in HarvestedTags[c1]}
     ELSE HarvestedTags[o]]

(* r1 turns invalid, r2 becomes part of r1, in its collection or in the    *)
(* other one, r2 gets its DOI late, and back.                              *)
PartBodies ==
  {Body(d1, None, FALSE, {}), Body(d2, None, TRUE, {d1}), Body(None, s2, TRUE, {}),
   [Body(d2, None, TRUE, {d1}) EXCEPT !.collection = c2]}
SomeRecordTags == {TagIn("Record.Retracted", "yes"), TagIn("Record.NotSearchable", "yes")}
SomeCollectionTags == {TagIn("Collection.NotSearchable", "yes")}
CollectionUpdates == {[key |-> "k2", provider |-> p1]}
ProviderUpdates == {[key |-> "k2"]}

OrderMims == <<"MIMS">>
OrderDataCite == <<"DATACITE">>

OrderSaeon == <<"SAEON">>
OrderBoth == <<"SAEON", "MIMS">>

(* One record, whose DOI and validity change.                              *)
OneRecord == [r \in {r1} |-> Seed(d1, None, TRUE, None)]
OneRecordTags == [o \in {r1, c1} |-> HarvestedTags[o]]
DoiBodies == {Body(d1, None, FALSE, {}), Body(d1, None, TRUE, {}),
              Body(d2, None, TRUE, {}), Body(None, s2, TRUE, {})}

(* One record under quality control, with every tag the rules look at.     *)
ControlledTags ==
  [o \in {r1, c1} |->
     IF o = c1 THEN {Tag(1, "Collection.Published", "yes")}
     ELSE {Tag(2, "Record.QC", "pass")}]
RuleTags == {TagIn("Record.QC", "pass"), TagIn("Record.QC", "fail"),
             TagIn("Record.Migrated", "published"), TagIn("Record.Migrated", "hidden"),
             TagIn("Record.Retracted", "yes"), TagIn("Record.Embargo", "day0")}
HarvestTags == {TagIn("Collection.Harvested", "yes")}

(* Two records that swap their DOIs.                                       *)
SwapRecords == [TwoRecords EXCEPT ![r2].metadata.valid = FALSE]
SwapBodies == {Body(d1, None, TRUE, {}), Body(None, s2, TRUE, {})}
=============================================================================
