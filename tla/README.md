# A formal model of the ODP server

The ODP server keeps the metadata records of the South African Environmental
Observation Network's Open Data Platform. Curators create, link, tag and delete
records through an HTTP API; twice a day a publisher, started by cron, works out
which records the public may see, writes them to the catalogs SAEON, MIMS and
DataCite, and mirrors the last one to DataCite's own service. The API and the
publisher share nothing but a PostgreSQL database. An identity service signs
users up and in, and every request to the API is authorized by the permissions
of a client and of the user's roles. This project models these parts, and the
hierarchy of keywords that records draw on, in TLA+, checks small instances with
TLC, and proves with TLAPS, for all instances, every safety property that the
passing runs check: 27 theorems on publication, records, keywords, accounts,
permissions and sessions.

## Inventory

| part | state it keeps | operations | what is hard, and what makes it right |
|---|---|---|---|
| Database (`odp/db`) | `record`, `collection`, `provider`, `record_tag`, `collection_tag`, `published_record`, `catalog_record`, audit tables; keywords, packages, resources, accounts, roles, clients | constraints: unique identifiers, foreign keys that restrict or cascade | rows read in one statement are stale in the next; a constraint is what decides between two transactions |
| Record API (`api/routers/record.py`) | writes the record tables | create, update, set, delete, tag, untag, on user and admin routes | each change stamps the record and all its ancestors; looks before it writes; parent links stay a forest; tags keep their cardinality; published records keep id and DOI; the audit log tells the truth |
| Collection and provider API | `collection`, `collection_tag`, `provider` | create, update, delete, tag, untag, propose a DOI | a collection's tags decide on the publication of all of its records; what a deletion takes along, and what it leaves permitted |
| Session and middleware (`db/__init__.py`, `api/main.py`) | one session per thread | commit below 400, else roll back | a request is all or nothing; requests of one process share the thread, hence the session |
| Publication rules (`evaluate_record`, embargoes) | none | functions of the record's API model | a record is public exactly if quality control, migration, retraction and the catalog say so |
| Publisher (`odp/catalog`) | its snapshot, the catalog records, the register of published ids, the sitemap, DataCite | select, snapshot, synchronize, save global data, mirror | a transaction per record while the API goes on writing; crashes; failed calls; no change may be lost |
| Catalog API | none | queries | read-only |
| Package API | `package`, `package_tag` | create, update, delete, tag, untag | a package belongs to a provider, whose deletion it restricts, and the permissions of clients and users for it go by that provider |
| Resources, archives | `resource`, files on a remote server | upload, unpack | files and rows are written one after the other |
| Keyword API (`api/routers/keyword.py`) | `keyword`, `keyword_audit` | suggest, set, delete | the schema that validates a keyword is found by recursion over parents that other requests insert, set and delete; data fit the vocabulary they are in; an audit entry is written before it is known whether the row is |
| Vocabulary API | `vocabulary_term` | create, update, delete a term | a row and its audit entry |
| Role and user API | `role`, `user` and their associations | create, update, delete | deletions cascade into the associations of other rows while requests that add to these are under way |
| Client API | `client`; Hydra's registry of clients | create, update, delete | a client is written to two systems, one of which knows no rollback |
| Authorization (`api/lib/auth.py`, `lib/auth.py`) | none | permissions from roles, scopes, client and user | a user gets exactly what both the client and a role grant, after any edits and deletions |
| Identity service (`odp/identity`) | `user`, `identity_audit`; tokens in e-mails and browsers; Hydra's sessions | signup, verify, log in, also by Google, reset, log out | a long protocol of links that never expire and may be lost, in any order, while administrators edit and delete accounts; no session without a verified address; a login may itself write the password's hash |

How they interact: the API's handlers run in a transaction that the middleware
ends; the publisher reads the API's committed rows in one `REPEATABLE READ`
transaction (its snapshot) and then writes `catalog_record` and
`published_record` in a transaction per record. The foreign keys of
`published_record` in turn restrict what the API may delete or rename. The
publisher is told of a change by nothing but a timestamp, which is why the
stamps, taken in a handler and visible at its commit, are the centre of the
model. The identity service and the user API write the same rows of accounts,
each in transactions of its own; the rest of what decides on permissions is
written by the API, and read by it at the start of every request.

## Modules

| module | models | state and actions |
|---|---|---|
| `OdpTables` | the tables (`db/models/*.py`) and `output_record_model` | one variable per table, keyed by primary key; `timestamp` is the column of records, collections and providers; `audit` is the last entry per object. `MaxTimestamp` and `RecordModel` are what the publisher reads of a record |
| `RecordApi` | `record.py`, and of `collection.py` and `provider.py` the operations that publication depends on | a handler is `CreateRecord`, `SetRecord`, `DeleteRecord`, `TagRecord`, `UntagRecord`, `TagCollection`, `UntagCollection`, `UpdateCollection` or `UpdateProvider`; it reads the committed tables and leaves its writes in `tx[w]`. The middleware is `Commit` (if the database accepts) or `Rollback` |
| `Evaluation` | `evaluate_record` of the three catalogs, `_process_embargoes`, searchability | pure operators on the model of a record |
| `Publisher` | `odp/catalog` | `TakeSnapshot` (`_select_records`, `_create_snapshot`, for the first catalog that has changes), `SyncRecord` (`_sync_catalog_record`), `SaveGlobalData`, `SelectUnsynced`, `MirrorRecord`, `MirrorFails`, `MirrorDone`, `Abort` (an exception ends the run), `Crash`, `NextDay` |
| `Publication` | API and publisher on one database | the composition `ApiStep \/ Publish`, the types, the properties and the inductive invariant |
| `DoiRegister` | what `published_record` is for, in the abstract | ids are entered once and never leave; a DOI belongs to one id |
| `PublicationProofs` | | theorems: types, freshness, the register |
| `RecordProofs` | | theorems: parent links, stamps, tags, frozen collections, the audit log |
| `CatalogProofs` | | theorems: what catalogs and DataCite show, against register and records |
| `Keywords` | `keyword.py` | `keyword` and `audit` (the number of entries per command) by id; handlers are `SuggestKeyword`, `SetKeyword` and `DeleteKeyword`, `Flush` sends a write to the database with its locks, the middleware is `Commit` and `Rollback` |
| `KeywordProofs` | | theorems on keywords |
| `Accounts` | `identity/lib.py`, the views of `odp/identity`, and `user.py` | `user`, `audit` (the log of the identity service and of edits), `tokens` (every signed link or redirect that left the service), `sessions` (whom Hydra remembers), `vouched` (what Google has verified); an action per view; a request goes through `Flush` (the write and its locks, then the mail) and `Commit` or `Rollback` |
| `AccountProofs` | | theorems on accounts, and the refinement of `AccountLife` |
| `AccountLife` | what the service promises of an account, in the abstract | created once, verified once, deleted for good; logins of verified accounts only |
| `Access` | `role.py`, `client.py`, `user.py`, and of `provider.py`, `collection.py` and `package.py` what permissions depend on; `odp/lib/auth.py`, `Authorize` | `rows` (six tables with their associations), `hydra`; a handler for create, update and delete of each; `Flush` is the call to Hydra; `Permissions`, `Enforce` and `MayUse` are the functions that authorize a request |
| `AccessProofs` | | theorems on permissions and deletions |
| `RequestSession` | `db_middleware` and the session of one process | `Succeed`, `Refuse`, `FailFlush` and `Raise` are what a handler does to the shared session, `Commit` and `Rollback` the middleware |
| `SessionProofs` | | a theorem on the requests that share the session of a process |
| `MC...` | | instances: the rows the database starts with and the requests clients send |

Definitions whose comment begins with "Mutant" are deliberately wrong variants
of the definition that follows them. They are used nowhere in the model; put in
place of that definition, each makes the property it was written for fail.

### Choices of abstraction

- *One transaction per request.* A worker reads, computes and flushes in one
  step and commits in a second one; between the two any other worker and the
  publisher may act. Reads of one handler are thus taken at one instant. The
  second step merges the columns the handler changed into the row as it is by
  then (`MergedRow`), as the ORM's UPDATE does, and is refused when a row has
  gone or a constraint is violated. In `RecordApi`, row locks, which only delay
  a flush, are left out: `Commit` decides what the later of two writers finds.
  In `Keywords`, `Accounts` and `Access` the flush is a step of its own, in which
  a write is checked and takes its locks (`Conflicts`).
- *A worker serves one request at a time.* `Workers` are processes, each with
  at most one request in its session. Requests of one process share a session;
  `RequestSession` models that by itself, without the rows, and run `Shared`
  shows what it does to the assumption; the theorem on sessions says what is left
  of it. The other modules describe a deployment whose
  processes handle one request at a time.
- *Timestamps* are the values of a strictly increasing counter, bounded by
  `MaxClock`, the bound on the number of requests of a run. The initial rows
  are stamped 0.
- *Data.* Metadata are reduced to validity (its `validity` column) and the DOIs
  of its IsPartOf identifiers; a tag's data is an opaque string, of which the
  rules compare "pass", "published" and "MIMS", and an embargo's data stands for
  a set of days (`EmbargoDays`). The columns `name` and `doi_key` of
  collections and providers go into `key`, whose changes stamp like theirs; DOIs
  are values up to case, as the code compares them. The schema of a record
  decides how its metadata are validated and translated, and is left out with
  the validation.
- *Permissions* decide whether a handler runs at all; every request the models
  make is permitted, and `Routes` says whether it comes by the user's or the
  admin's route, which differ in what they check.
- *Collections and providers* exist throughout in the modules on publication:
  their rows change, and the set of them does not. `Access` has them created and
  deleted.
- *The publisher's* transactions other than its first one are short and are one
  step each. The first transaction is still open while the first record is
  synchronized, so that a concurrent change of what it writes or locks makes it
  fail (`first`, in `CanSync`); and where a catalog has no changes it is still
  open for the selection of the next one, so `TakeSnapshot` passes such catalogs
  in the same step (`PassesOn`). The transaction in which the unsynced records are
  selected is also that of the first call to DataCite. The model has the call in a
  step of its own, which reads the same: only the publisher writes what is read
  there, but for the DOI of a record to be withdrawn, which is registered where it
  is findable, and then cannot change. What a published form derives from the model
  (abstracts, keywords, facets, full text) is determined by it, so the form
  holds the model itself, whether an embargo stripped it, and the list of parts.
- *Keywords.* Ids are values with a relation "properly starts with"
  (`ProperPrefixes`), of which the model assumes that no chain of prefixes is
  endless; a schema is the set of data it declares valid (`Admits`); `typed`
  says whether `child_schema_type` is set, since the schema is looked up by id
  and type. `WellFormed` is the constraints of the table. A DELETE waits for
  another one of its row, finds none after it (`Misses`) and commits its audit
  entry none the less, since that was flushed before. The audit log is a number
  of entries per id and command: the columns that would order them are filled
  before a request waits for others, so their order is not that of the commits.
- *Accounts.* A view is one handler, from the form to the redirect: it reads at
  one instant, and Hydra's answer, which the view waits for, comes between
  `Flush` and the end of the request, where a failure is a `Rollback`. A login
  challenge stands for the browser's place in Hydra's workflow; it does not bind
  a token to a person, so tokens carry the scope (the salt they are signed with)
  and the subject only, and any token may be used by whoever holds it, at any
  later time. Mail leaves before the commit and may be lost. `known` says
  whether the client that the user logs in to still exists. A user's name and
  picture are `renamed`. Ids are UUIDs (`FreshIds`). Two writes of one row, of
  one assignment of a role, or of one new address, wait for each other from the
  flush on (`Conflicts`); a change of roles alone does not touch the row of the
  user. `outdated` says that a hash was made with earlier parameters, which a
  login with the right password replaces (`Checked`), also when it fails for
  another reason; such a request writes the hash of the password that it has
  checked, whatever the column holds by then (`hashes`).
- *Access.* A row of any of the six tables has the same four fields: whether it
  is `specific` (`collection_specific` of a role, `provider_specific` of a
  client), its provider, its scopes, and its links (collections of a role, users
  of a provider, roles of a user). Titles, keys, secrets and the other settings
  of a client at Hydra are left out. `Occupied` are the collections and packages
  that other tables refer to. Of the requests only a client's has a step between
  handler and commit, since only it calls another system; the locks of that step
  are in `Conflicts`, and others' flushes are part of their commit. Scopes that
  the user is asked to consent to are all granted: authorization looks at the
  rows as they are and not at the token's scopes.

## Runs

| run | asks | expects |
|---|---|---|
| `Records` | parent links, stamps of ancestors, tag cardinality, frozen collections, audit, with one API process | pass, 106 243 states |
| `Mims` | types, the inductive invariant, freshness, register, parts, permanence, the refinement and eventual freshness of the catalogs SAEON and MIMS | pass, 182 728 states |
| `DataCite` | the mirror, with failing calls and a crash; that the mirror catches up; freshness under the tags that the rules look at, over two days | pass, 190 472 states |
| `Vocabularies` | the hierarchy of keywords and its audit log, with two API processes | pass, 50 050 states |
| `Accounts` | one account per address, verification by the owner, sessions, audit, concurrent edits and logins, the refinement of `AccountLife` | pass, 399 091 states |
| `Access` | permissions against their documentation, and what deletions and cascades leave permitted | pass, 88 355 states |
| `Cycle` | what `touch_parent` promises of a record's ancestors | violation |
| `Lost`, `Swap`, `Sitemap` | what the publisher's documents promise | violation |
| `Orphan` | what the client model promises of deleted clients | violation |
| `Shared` | what every test of the API takes for granted of an answer | violation |

**Records.** A chain of three records (the least that tells "the parent" from
"all ancestors"), two collections of which one is frozen, two users (the least
for a tag that is single per user), and three requests in a row. The requests
include links that would close a cycle, moves into the frozen collection, a
change of DOI to a secondary id, deletion and re-creation. `ParentAcyclic` and
`ParentStamped` speak of every chain that can come about; `AuditTells` holds of
rolled-back requests as well. The API stops when the timestamps are used up,
hence `CHECK_DEADLOCK FALSE`.

**Mims.** Two records in two collections, that become parent and child, in one
collection or across them, lose and regain a DOI and turn invalid; retracted and
not-searchable tags; changes of the collections, their tags and their provider;
all at any moment of publisher runs, one of which may crash. A run publishes the
SAEON catalog and then the MIMS catalog: it may be aborted in the first and never
get to the second, a first catalog without changes shares its transaction with the
second, and both enter records in the one register. Two requests are
enough for each request to fall into another phase of a run, and for one to undo
or follow up the other. `NotSelectedIsFresh` is the promise of the publishing
method: a record that the next run would pass over is published as it is.
`PartsAreListed` is about records whose children are in the same collection.
Without that condition this run refutes it: an untagged collection hides a child
whose parent is in another one, and the parent is neither stamped nor selected,
and goes on listing the child. `EventuallyFresh` shows that no abort or crash
keeps the publisher from bringing both catalogs up to date for good.

**DataCite.** One record under quality control that changes DOI, loses it and
changes validity, two users who pass and fail it, migration, retraction and
embargo tags, a collection that becomes harvested, a change of date; two
requests, one crash, calls that fail with or without effect, two attempts.
`MirrorFollows` relates a row marked as synced to the platform. Freshness is
checked here as well, since a migrated tag may lapse and an embargo end without
any stamp. `MirrorCatchesUp` says that an outage leaves nothing behind: once
calls no longer fail, whatever has attempts left gets to the platform, entries
that are to be withdrawn from it included. It asks for "again and again" and not
"for ever", because a record under embargo is published anew by every run.

**Vocabularies.** A root, a vocabulary with its own schema below it, and two ids
for keywords below these; two processes, four requests: one more than it takes
to delete a vocabulary, create it again and insert below it. The requests
include parents that are no prefix, data that no schema admits, and a schema
that is not installed. `SchemaSearchEnds` is what the recursion in
`get_child_schema` relies on; it holds because the foreign key restricts
deletions and because the validation asks for a proper prefix, which the
constraint of the table does not. `AuditAccounts` counts: as many creations as
inserts in the log, and a deletion for every disappearance, whatever was refused,
rolled back, or deleted what was gone. No more can be said of the log: with two
processes the last entry of a keyword that is gone may be an update, and that of
one that is there a deletion. Requests are bounded, hence `CHECK_DEADLOCK FALSE`.

**Accounts.** A staff member's verified account, whose password was hashed with
earlier parameters, and ids for two more of which
one can have the second address: the least with which an address is given up by
a deletion and taken by a new account. Two requests at a time and four
altogether: enough to sign up, verify, reset and log in, to edit or delete in
the middle of any of these, and to create one account twice; one of the passwords
may not be used for the second address. Tokens are never taken back, so every
link is tried at every later moment, mail arrives or does not, and a request may
be rolled back after its mail was sent. `VerifiedByOwner` relates an account's
flag to a link that reached its address; run with the salts of two views made
equal, it fails, which is what `encode_token` guards against. An account may be
deleted while a login is under way, and the session is then kept by Hydra;
`AccountLife` allows it, and the pages that such a session leads to look the user
up again. TLC uses that workers, and ids without an account, are alike
(`Alike`); no property distinguishes them. Requests are bounded, hence
`CHECK_DEADLOCK FALSE`. `EditsAndLoginsMerge` says where a password can change at
all: in an account whose owner has used a reset link. It does not say to which
one (see the list below).

**Access.** A user with a role for one collection, a client of one provider,
two ids for each of roles, providers and collections and one package; four
requests, two at a time. The requests widen, narrow and move each of them, and
delete anything: a provider with its collections, while another request links a
role to one of these, moves the client or the package to the provider, or adds
a role to the user. `PermissionsAreMet` compares, in every state that comes
about, the computation in `odp/lib/auth.py` (scope by scope, with `*`, lists of
ids and a fold over the roles) with the restrictions as the columns are
documented; the comparison is of two formulations, one from the code and one from
the documentation of the tables. `DeletionsNeverWiden` is the reason why
`provider_specific` is a column although a client without a provider could be
taken for one without restriction. Requests are bounded, hence
`CHECK_DEADLOCK FALSE`, as in `Orphan`, and in `Shared`, whose two requests end.

### Disagreements with the documents

| run | what TLC finds |
|---|---|
| `Cycle` | two processes link two records to each other; neither sees the other's link, no constraint forbids it, and `touch_parent` then never ends for either |
| `Lost` | two processes stamp in one order and commit in the other with a publisher run in between: the earlier stamp is behind the catalog's for ever |
| `Swap` | a record gives its DOI to another one between snapshot and synchronization: the register names a DOI its record does not hold |
| `Sitemap` | the publisher dies after its last record and before the global data: the next run finds nothing to do and leaves the sitemap as it was |
| `Orphan` | a client is removed from Hydra before its row is; an update under way that changes no column waits for nothing and configures it there again, and the configuration stays when the row goes |
| `Shared` | of two requests in one process, one has succeeded and waits for its commit; the other is refused, and its rollback takes the first one's writes along; the first is answered with success |

`Cycle`, `Lost` and `Orphan` need two API processes; gunicorn is among the
requirements. With one process the properties of the first two hold (runs
`Records`, `Mims` and `DataCite`), which is also how the theorem on freshness is
stated.

Other states that the models reach and a reader may not expect, without a run
of their own: two processes find no instance of a tag and both insert one
(`TagCardinalityKept` holds with one process); a record is moved out of a frozen
collection and changed on the way, as the flag is looked up on the collection of
the request (`FrozenAdmitsNone` is about records that come in); a PUT request that
names an ancestor of a keyword's parent has the data validated with that
ancestor's schema and stored below the parent; two updates of a client, one of
which makes it specific to a provider while the other gives it
`odp.client:admin`, are each allowed and merge into a client with both; one process
clears the schema of a keyword while another replaces it, each writes the columns
that differ from what it read, and the row names a schema without a type, which
`get_child_schema` does not find, so that every request below that keyword fails;
a login has checked the old password and found its hash outdated while the user
resets the password, its new hash of the old password is written over the reset,
and the old password opens the account again.

### Fairness

`FairSpec` adds weak fairness of one thing, the publisher's own steps: cron
starts it again and again, and a running process takes its steps. Nothing is
assumed of the API, whose clients may stop at any time and whose process may
leave a request without an answer, nor of DataCite: failing calls, crashes and
the change of date are not in the fair action. Crashes and requests are bounded
(`MaxCrashes`, `MaxClock`), so `EventuallyFresh` is about what happens once they
stop. `MirrorCatchesUp` is conditional on what no fairness can give: that calls
stop failing (`<>[][~MirrorFails]`); an entry that has used up its attempts is
excepted, as the code does not try it again. A violation of `SitemapCatchesUp` is therefore not the publisher standing
still: it runs for ever and never renews the sitemap.

### Bounds

`MaxClock` (requests), `MaxCrashes`, `MaxDay`, `MaxAttempts` and the finite sets
of the instances are the only bounds; the first three are guards of `Begin`,
`Crash` and `NextDay`. `MaxRequests` bounds the requests of `Keywords`,
`Accounts` and `Access`, in their `Begin`.

## Proofs

The proofs assume of the constants what the assumptions in the modules say:
disjoint sets of ids, initial rows that satisfy the constraints, `None` not a
row (`TablesAssumption`, `NoneAssumption`, `AccountAssumption`,
`AccessAssumption`, ...); that the database starts without a cycle of parents
and with tags within their cardinality, whose ids are unique and are not those
that new tags get (`StartAssumption`); that there are finitely many roles
(`AccessAssumption`, for the fold over a user's roles); that no chain of prefixes
is endless (`KeywordAssumption`). TLC evaluates them in every run. For the rest the
theorems hold for any ids, rules, requests, bounds and number of processes,
except where "one worker" is written: there the hypothesis is that `Workers` has
at most one element, and a run (`Cycle`, `Lost`) or the list above shows what
two processes do.

| theorem | statement |
|---|---|
| `PublicationProofs!TypeCorrect` | `Spec => []TypeOK` |
| `PublicationProofs!StampsTell` | one worker: `Spec => []FreshnessInv` |
| `PublicationProofs!Freshness` | one worker: `Spec => []NotSelectedIsFresh` |
| `PublicationProofs!Permanence` | `Spec => PublicationIsPermanent` |
| `PublicationProofs!RegisterRefinement` | `Spec => ImplementsRegister` |
| `RecordProofs!HierarchyIsAcyclic` | one worker: `Spec => []ParentAcyclic` |
| `RecordProofs!ChangesReachParents` | one worker: `Spec => []ParentStamped` |
| `RecordProofs!CardinalityHolds` | one worker: `Spec => []TagCardinalityKept` |
| `RecordProofs!RecordAuditTells` | one worker: `Spec => []AuditTells` |
| `RecordProofs!FrozenHolds` | one worker: `Spec => FrozenAdmitsNone` |
| `CatalogProofs!PublicStaysRegistered` | `Spec => []PublicIsRegistered` |
| `CatalogProofs!PartsFollow` | one worker: `Spec => []PartsAreListed` |
| `CatalogProofs!DoisAreHeld` | `Spec /\ [][ReadDoisStay]_vars => []RegisteredDoiIsHeld` |
| `CatalogProofs!MirrorHolds` | `Spec /\ []RegisteredDoiIsHeld => []MirrorFollows` |
| `KeywordProofs!HierarchyHolds` | `Spec => []KeywordInv` |
| `KeywordProofs!SearchEnds` | `Spec => []SchemaSearchEnds` |
| `KeywordProofs!AuditComplete` | `Spec => []AuditAccounts` |
| `AccountProofs!AccountTypes` | `Spec => []TypeOK` |
| `AccountProofs!VerificationIsTheOwners` | `Spec => []VerifiedByOwner` |
| `AccountProofs!SessionsStayVerified` | `Spec => []SessionsAreVerified` |
| `AccountProofs!IdentityAuditTells` | `Spec => []AuditTells` |
| `AccountProofs!EditsMerge` | `Spec => EditsAndLoginsMerge` |
| `AccountProofs!LifeRefinement` | `Spec => ImplementsAccountLife` |
| `AccessProofs!AccessTypes` | `Spec => []TypeOK` |
| `AccessProofs!PermissionsGrant` | `Spec => []PermissionsAreMet` |
| `AccessProofs!DeletionsNarrow` | `Spec => DeletionsNeverWiden` |
| `SessionProofs!OnlyFailuresCost` | `Spec => []LostByFailure` |

**Shape of the handlers.** The lemmas `CreateOpens` to `DeleteOpens` and
`ApiSteps` reduce the nine handlers to one action, `Opens(w)`: worker `w` begins
a request with well-formed writes that are stamped later than anything before,
and that stamp whatever they change (`Covers`, `FitsOwner`). Everything after
that argues about `Opens`, `Commit` and `Rollback`.

**Freshness.** `NotSelectedIsFresh` is not inductive: it says nothing of a
snapshot taken before a change, or of a request about to commit. `FreshnessInv`
adds what it lacks:

- `PendingCovers`: what the pending request changes is still as its handler
  read it, and it stamps every record in whose model the change shows: the
  record and its old and new parent, or the owner of the tag, or the collection
  or provider. This is where one worker is needed: a second one could commit in
  between.
- `StampsArePast`: everything committed, in the snapshot or in a catalog record
  is stamped earlier than the pending request. This too is false for two
  workers, and run `Lost` shows how.
- `TagsOnOwner`: a collection has collection tags only, so that an embargo is
  always found among the record's own tags.
- `SnapshotsHold` and `EntriesHold`: a snapshot, or a catalog record, whose
  timestamp is the record's is a picture of the record as it is now.

A commit keeps `SnapshotsHold` because it either leaves a record's model alone
or makes the record later than every stamp there is (`CommitView`);
`SyncRecord` carries it from the snapshot to the entry, and the not-searchable
tags, which are read after the snapshot, agree with it whenever the timestamps
do. An entry under embargo may show a stripped form, and the same tag has it
selected again. TLC checks `FreshnessInv` in run `Mims`.

**Permanence and the register.** `ConstraintsInv` (types, unique identifiers,
and the foreign keys of `published_record`) is inductive for any number of
workers, since `Commit` is refused otherwise and `SyncRecord` is guarded by the
same constraints. The only action that writes the register is `SyncRecord`, and
`PublishedAfter` either enters an id, or gives a DOI to an entry without one,
or leaves it alone; these are the steps of `DoiRegister`.

**Records.** `RecordInv` adds to `FreshnessInv` what the pending request was
checked against (`PendingFits`):

- `ClosesNoCycle`: `touch_parent` came to an end from the record with its new
  row. A cycle that the commit closed would lead through that record
  (`ReplacedAcyclic`), and it would not have ended.
- `StampsAbove`: with a record, the request stamps its parent in the rows as
  they will be. Whatever the commit leaves unstamped keeps its parent, and stamps
  of the commit are later than all others: hence `ParentStamped`.
- `TagsFit`: a tag that is attached has no instance it would clash with but the
  one it replaces. `IdsHold` (tag ids are unique, new ones are stamps) is what
  makes the commit replace that instance and no other, and keeps the audit
  entries of tags apart from those of anything else.
- `RespectsFrozen` and `ChangesRow`: the collection was not frozen, and the
  request inserts, updates or deletes.

`Ancestors` is defined as the least set closed under the parent link, so that
what would be an induction over chains is an argument about closed sets
(`AncestorsBy`, `AncestorsClosed`).

**Catalogs.** `PublicIsRegistered` is inductive. `PartsInv` relates two rows that
no transaction relates, a record's entry and its children: a snapshot as recent
as its record sees the children as they are, in the snapshot or in their entries
(`ReadTogether`), and so does an entry (`PartsHold`). A commit that changes a
child in the record's collection makes the record later than the request
(`CommitChildren`): it stamps the collection or the provider, which are the
record's, or the child, and by `ParentStamped` the record is no earlier. A child
that the snapshot leaves out is one that was not selected, so its entry is fresh
(`FreshnessInvImplies`).

**The mirror.** `MirrorFollows` says that a status in the database is right about
another system. Its proof has to exclude that a call for one record changes what
another record's call achieved. `MirrorInv` says that all entries of the external
catalog are published under the DOI in the register (`EntryDois`), that whatever
is findable is registered (`FindableRegistered`), and that what is still to be
mirrored is not marked as synced (`TodoUnsynced`). If registered DOIs are held,
a call then concerns the DOI of its record only (`CallConcernsOne`), and a DOI
that a request gives to a record is not findable unless it was its own
(`FindableIsItsOwn`). The hypothesis `[]RegisteredDoiIsHeld` is needed, since run
`Swap` refutes it; `DoisAreHeld` says where the fault is: all requests together
cannot separate a registered DOI from its record, because the foreign key and the
unique index refuse the commit, and the publisher does so only if a record loses
the DOI that is in the snapshot (`ReadDoisStay`) before the loop comes to it.

**Keywords.** `KeywordInv` is inductive: it holds the constraints of the table,
that no keyword is its own parent, of a pending write, that an insert goes below
a proper prefix (`WriteOK`), and of a flushed one, that it would still be accepted
(`LocksHold`): writes that do not conflict do not depend on each other
(`Independent`). An update takes the parent from the row as it
is by then (`MergedRowType`), whatever the handler read. `SchemaSearchEnds`
follows from it: in a set of keywords, the one with no prefix in the set has a
parent outside (`InvSearchEnds`). `AuditAccounts` is kept because a flushed insert
commits where there is no row, an update or a delete where there is one, and a
missed delete only adds an entry; `LocksHold` says so at each commit. That the recursive function itself computes
the nearest schema for every hierarchy is an induction, and left to TLC.

**Accounts.** `AccountInv` joins the properties with what holds of a request
between handler, flush and commit (`RequestFits`): the log entries it will make
are of the creation or deletion that it is, a row that it will write as verified
has an address that was vouched for, an update leaves the address alone and
changes the password only by a reset link (or writes a new hash of the one it has
read), and whoever it signs in is verified
already or by its own write. These are about rows that other processes may
change meanwhile, and stay true because addresses never change, verification is
never taken back, and what a flush was accepted for cannot change before its
commit (`LocksHold`). The same facts make each step one of `AccountLife`, or a
stutter. `EditsMerge` is about the columns: the merge of a commit takes from the
request what its handler assigned, and the row's current value of the rest.

**Access.** The state part is small: no association outlives what it refers to,
whatever is deleted while a request is under way (`AccessInv`; a flushed client
holds its provider). What takes work is the computation of permissions, a fold
over roles of unions of "any" and sets of ids. The fold is shown to grant an
object if and only if some role does. The installed provers cannot instantiate an
induction theorem, so `FoldIsUnique` argues by a minimal counterexample: strict
inclusion is well founded on the subsets of a finite set, and a smallest set of
roles on which two functions that satisfy the fold's equation differ cannot exist;
`RolesPermissionIs` then shows that the closed form `Cumulated` satisfies the
equation. `DeletionsNarrow` follows: a deletion removes rows, and
links of rows that stay, and never the flag that makes a role or a client
specific.

**Sessions.** `SessionInv` says of a request whose handler has succeeded that its
rows are in the session or in the table, or that another request has failed. A
commit moves all of the session to the table; the steps that empty the session
otherwise are those of a request that fails, and it stays failed
(`FailureStays`, `FailureCosts`). Nothing is assumed of how many requests are
under way. That every success is committed is false, as run `Shared` shows.

**Not proved, only model-checked:** liveness under fairness (`EventuallyFresh`,
`MirrorCatchesUp`), which is outside what the prover handles, and that recursive
functions compute what they should for every input (`ChildSchema`). What the
violation runs refute is false in general; what is left of it is proved under the
hypotheses above.

## Not modelled

- Resources and archives: rows of `resource` are written by `upload_file` only,
  and in this version it fails before it writes one (it gives `Resource` a column
  that the table does not have, and uses a name that it does not import); the
  rest reads.
- Terms of flat vocabularies (`vocabulary.py`) and tags of packages: a row and its
  audit entry per request, in the pattern of keywords without parents and of
  record tags.
- Of the identity service the consent page, which changes nothing here, and the
  profile page, for which no token is ever issued; of authorization the lookup
  of the scope of a tag, an archive or a vocabulary, and the introspection of the
  token at Hydra.
- The catalog API and the status, scope, tag, schema and token endpoints, which
  only read; queries of all others.
- Metadata validation and translation, the work of an external JSON schema
  library, and migration, which runs once per deployment.
- Publisher runs that overlap, and clocks that stand still or go back.

## Plan

1. Done: all modules above, their runs, and a proof of every safety property of
   the passing runs.
2. Proofs that would say more: which parts of `RecordInv` survive a second API
   process (the types, the constraints and the register do; acyclicity, stamps
   and tag cardinality do not, as runs `Cycle` and `Lost` and the README tell);
   `NotSelectedIsFresh` with several processes under the hypothesis that they
   commit in the order of their stamps, as `MirrorHolds` and `DoisAreHeld` are
   stated under a hypothesis on what the environment does.
3. Variants of what there is: two publishers (with the publisher's state per
   process), equal timestamps, and how long an embargo's wrong form stays public.
4. Terms of vocabularies and tags of packages.
