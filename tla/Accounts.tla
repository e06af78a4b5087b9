------------------------------ MODULE Accounts ------------------------------
(***************************************************************************)
(* User accounts: the identity service (odp/identity), which signs users   *)
(* up and in for Hydra and verifies their e-mail addresses, and the user   *)
(* API, which edits and deletes accounts.                                  *)
(*                                                                         *)
(* A handler reads committed rows and leaves its write, its audit entries, *)
(* the mail it sends and its answer in tx.  Flush sends the write to the   *)
(* database, where it locks its row, and then the mail; Commit makes the   *)
(* request's effects permanent and lets the browser have the answer, which *)
(* for a login that Hydra was told to accept is a session.                 *)
(***************************************************************************)
EXTENDS Integers, FiniteSets

CONSTANTS
  None,
  Ids,               \* user ids
  Emails,
  StaffEmails,       \* addresses in SAEON_EMAIL_DOMAINS
  Passwords,
  Strong,            \* passwords with enough characters of each kind
  Resembles,         \* per address: passwords that repeat a piece of it
  Roles, StaffRole, PublicRole,
  InitialUser,       \* accounts of the initial state
  Edits,             \* bodies of PUT requests of the user API
  Workers,           \* processes and threads that handle requests
  MaxRequests        \* bound on the number of requests

VARIABLES
  user,              \* table user: None or the row, by id
  audit,             \* table identity_audit, as a set of entries
  tokens,            \* signed tokens that left the service; they never expire
  vouched,           \* addresses that Google, or the past, has verified
  sessions,          \* users that Hydra remembers in some browser
  tx,                \* per worker: None, or the request it handles
  requests           \* how many requests have begun

vars == <<user, audit, tokens, vouched, sessions, tx, requests>>

(* outdated: the hash of the password was made with earlier parameters.    *)
UserRow ==
  [email : Emails, password : Passwords \cup {None}, outdated : BOOLEAN,
   active : BOOLEAN, verified : BOOLEAN, roles : SUBSET Roles]

AuditEntry ==
  [command : {"signup", "login", "verify_email", "change_password", "edit", "delete"},
   completed : BOOLEAN, id : Ids \cup {None}]

MailedScopes == {"account.verify_email", "account.reset_password"}
ResendScopes == {"login.verify", "signup.verify"}
CompleteScopes == {"account.verify_email_complete", "account.reset_password_complete"}

Token(scope, subject) == [scope |-> scope, subject |-> subject]

TokenSet ==
  {Token("login", None), Token("google.authorized", None)}
  \cup [scope : MailedScopes \cup ResendScopes, subject : Emails]
  \cup [scope : CompleteScopes, subject : Ids]

Live(rows) == {u \in Ids : rows[u] # None}

UniqueEmails(rows) ==
  \A u, v \in Live(rows) : rows[u].email = rows[v].email => u = v

ASSUME AccountAssumption ==
  /\ None \notin Ids \cup Passwords \cup UserRow
  /\ StaffEmails \subseteq Emails
  /\ Strong \subseteq Passwords
  /\ Resembles \in [Emails -> SUBSET Passwords]
  /\ {StaffRole, PublicRole} \subseteq Roles
  /\ InitialUser \in [Ids -> UserRow \cup {None}]
  /\ UniqueEmails(InitialUser)
  /\ Edits \subseteq [active : BOOLEAN, roles : SUBSET Roles]
  /\ MaxRequests \in Nat

(***************************************************************************)
(* What the handlers check and write (odp/identity/lib.py).  A known       *)
(* client is one that is still in the database.                            *)
(***************************************************************************)

Holder(email) == {u \in Live(user) : user[u].email = email}

Complex(email, password) == password \in Strong \ Resembles[email]

(* Mutant: the page that ends a password reset trusts the link.            *)
MayContinueUnverified(u, known) ==
  known /\ user[u] # None /\ user[u].active

MayContinue(u, known) ==
  known /\ user[u] # None /\ user[u].active /\ user[u].verified

MayForget(u, known) == known /\ user[u].active

MayReset(email, password, known) ==
  known /\ Holder(email) # {} /\ Complex(email, password)

MayVerify(email, known) == known /\ Holder(email) # {}

MayLogInByGoogle(u, known) == known /\ user[u].active

DefaultRole(email) == IF email \in StaffEmails THEN StaffRole ELSE PublicRole

MayCreate(email, password, known) ==
  /\ known
  /\ Holder(email) = {}
  /\ password # None => Complex(email, password)

NewUser(email, password) ==
  [email |-> email, password |-> password, outdated |-> FALSE, active |-> TRUE,
   verified |-> FALSE, roles |-> {DefaultRole(email)}]

WithVerified(row) == [row EXCEPT !.verified = TRUE]

WithPassword(row, password) == [row EXCEPT !.password = password, !.outdated = FALSE]

(* Mutant: an id is drawn from those that no account has.                  *)
UnusedIds ==
  {u \in Ids : /\ user[u] = None
               /\ \A w \in Workers : tx[w] # None => tx[w].id # u}

(* Ids are UUIDs: one that was ever used is not drawn again.               *)
FreshIds ==
  {u \in Ids : /\ user[u] = None
               /\ \A a \in audit : a.id # u
               /\ \A w \in Workers : tx[w] # None => tx[w].id # u}

Entry(command, completed, id) ==
  [command |-> command, completed |-> completed, id |-> id]

(* An entry for an address that no account has names no id.                *)
FailureOf(command, ids) ==
  {Entry(command, FALSE, u) : u \in IF ids = {} THEN {None} ELSE ids}

(* A link for an address, which decode_token takes back for its scope.     *)
VerificationLink(email) == Token("account.verify_email", email)

ResetLink(email) == Token("account.reset_password", email)

(* Mutant: the tokens that name an address are signed with one salt.       *)
SubjectsOfAny(scope) ==
  LET alike == IF scope \in ResendScopes \cup MailedScopes
               THEN ResendScopes \cup MailedScopes ELSE {scope}
  IN  {t.subject : t \in {x \in tokens : x.scope \in alike}}

Subjects(scope) == {t.subject : t \in {x \in tokens : x.scope = scope}}

(***************************************************************************)
(* The handlers.  The write of a request turns the row base of user id, as *)
(* the handler read it, into new; None is for no row.  One that hashes     *)
(* writes a hash of the password of new, which differs from any other.     *)
(***************************************************************************)

Nothing ==
  [id |-> None, base |-> None, new |-> None, writes |-> FALSE, hashes |-> FALSE, entries |-> {},
   mail |-> {}, reply |-> {}, session |-> {}, flushed |-> FALSE]

(* A request without a write that locks and without mail has nothing to    *)
(* wait for.                                                               *)
Begin(w, r) ==
  /\ tx[w] = None
  /\ requests < MaxRequests
  /\ requests' = requests + 1
  /\ tx' = [tx EXCEPT ![w] = [r EXCEPT !.flushed = ~r.writes /\ r.mail = {}]]
  /\ UNCHANGED <<user, audit, tokens, sessions>>

Fail(w, command, ids) ==
  Begin(w, [Nothing EXCEPT !.entries = FailureOf(command, ids)])

Admit(w, u) ==
  Begin(w, [Nothing EXCEPT !.entries = {Entry("login", TRUE, u)}, !.session = {u}])

(* Hydra sends a browser to the service.                                   *)
StartLogin ==
  /\ tokens' = tokens \cup {Token("login", None)}
  /\ UNCHANGED <<user, audit, vouched, sessions, tx, requests>>

(* The right password is hashed again where the hash is outdated, whether  *)
(* or not the user may log in.                                             *)
Checked(u, entries, mail, reply, session) ==
  LET rehash == user[u].outdated IN
  [id |-> IF rehash THEN u ELSE None,
   base |-> IF rehash THEN user[u] ELSE None,
   new |-> IF rehash THEN WithPassword(user[u], user[u].password) ELSE None,
   writes |-> rehash, hashes |-> rehash, entries |-> entries,
   mail |-> mail, reply |-> reply, session |-> session, flushed |-> FALSE]

(* The right password of an unverified account gets the user a new link.   *)
LogIn(w) ==
  \E email \in Emails, password \in Passwords, known \in BOOLEAN :
    LET us == {u \in Holder(email) : known /\ user[u].password = password}
        failures == FailureOf("login", us)
    IN
    /\ Subjects("login") # {}
    /\ UNCHANGED vouched
    /\ \/ us = {} /\ Fail(w, "login", Holder(email))
       \/ \E u \in us :
            \/ ~user[u].active /\ Begin(w, Checked(u, failures, {}, {}, {}))
            \/ /\ user[u].active /\ ~user[u].verified
               /\ Begin(w, Checked(u, failures, {VerificationLink(email)},
                                   {Token("login.verify", email)}, {}))
            \/ /\ user[u].active /\ user[u].verified
               /\ Begin(w, Checked(u, {Entry("login", TRUE, u)}, {}, {}, {u}))

Continue(w, u) ==
  \E known \in BOOLEAN :
    /\ UNCHANGED vouched
    /\ IF MayContinue(u, known) THEN Admit(w, u) ELSE Fail(w, "login", {u})

(* Hydra tells that the user has a session.                                *)
AutoLogIn(w) == Subjects("login") # {} /\ \E u \in sessions : Continue(w, u)

VerifyEmailComplete(w) ==
  \E u \in Subjects("account.verify_email_complete") : Continue(w, u)

ResetPasswordComplete(w) ==
  \E u \in Subjects("account.reset_password_complete") : Continue(w, u)

ForgotPassword(w) ==
  \E email \in Emails, known \in BOOLEAN :
    LET us == {u \in Holder(email) : MayForget(u, known)} IN
    /\ Subjects("login") # {}
    /\ UNCHANGED vouched
    /\ IF us = {} THEN Fail(w, "change_password", Holder(email))
       ELSE Begin(w, [Nothing EXCEPT !.mail = {ResetLink(email)}])

ResetPassword(w) ==
  \E email \in Subjects("account.reset_password"), password \in Passwords, known \in BOOLEAN :
    /\ UNCHANGED vouched
    /\ IF ~MayReset(email, password, known) THEN Fail(w, "change_password", Holder(email))
       ELSE \E u \in Holder(email) :
              Begin(w, [Nothing EXCEPT
                          !.id = u, !.base = user[u], !.new = WithPassword(user[u], password),
                          !.writes = TRUE, !.hashes = TRUE,
                          !.entries = {Entry("change_password", TRUE, u)},
                          !.reply = {Token("account.reset_password_complete", u)}])

VerifyEmail(w) ==
  \E email \in Subjects("account.verify_email"), known \in BOOLEAN :
    /\ UNCHANGED vouched
    /\ IF ~MayVerify(email, known) THEN Fail(w, "verify_email", Holder(email))
       ELSE \E u \in Holder(email) :
              Begin(w, [Nothing EXCEPT
                          !.id = u, !.base = user[u], !.new = WithVerified(user[u]),
                          !.writes = ~user[u].verified,
                          !.entries = {Entry("verify_email", TRUE, u)},
                          !.reply = {Token("account.verify_email_complete", u)}])

Resend(w, scope) ==
  /\ UNCHANGED vouched
  /\ \E email \in Subjects(scope) :
       Begin(w, [Nothing EXCEPT !.mail = {VerificationLink(email)}])

LoginVerify(w) == Resend(w, "login.verify")

SignupVerify(w) == Resend(w, "signup.verify")

SignUp(w) ==
  \E email \in Emails, password \in Passwords, known \in BOOLEAN :
    /\ Subjects("login") # {}
    /\ UNCHANGED vouched
    /\ IF ~MayCreate(email, password, known) THEN Fail(w, "signup", Holder(email))
       ELSE \E u \in FreshIds :
              Begin(w, [Nothing EXCEPT
                          !.id = u, !.new = NewUser(email, password), !.writes = TRUE,
                          !.entries = {Entry("signup", TRUE, u)},
                          !.mail = {VerificationLink(email)},
                          !.reply = {Token("signup.verify", email)}])

Authorize ==
  /\ Subjects("login") # {}
  /\ tokens' = tokens \cup {Token("google.authorized", None)}
  /\ UNCHANGED <<user, audit, vouched, sessions, tx, requests>>

(* The callback with an address that Google has verified; renamed: the     *)
(* user's profile differs, so that the row is written in any case.         *)
Authorized(w) ==
  \E email \in Emails, known, renamed \in BOOLEAN :
    /\ Subjects("google.authorized") # {}
    /\ vouched' = vouched \cup {email}
    /\ \/ /\ MayCreate(email, None, known)
          /\ \E u \in FreshIds :
               Begin(w, [Nothing EXCEPT
                           !.id = u, !.new = WithVerified(NewUser(email, None)), !.writes = TRUE,
                           !.entries = {Entry("signup", TRUE, u)} \cup FailureOf("login", {}),
                           !.session = {u}])
       \/ \E u \in Holder(email) :
            /\ MayLogInByGoogle(u, known)
            /\ Begin(w, [Nothing EXCEPT
                           !.id = u, !.base = user[u], !.new = WithVerified(user[u]),
                           !.writes = renamed \/ ~user[u].verified,
                           !.entries = {Entry("login", TRUE, u)}, !.session = {u}])
       \/ /\ ~known \/ \E u \in Holder(email) : ~user[u].active
          /\ Fail(w, "login", Holder(email))

LogOut ==
  \E u \in sessions :
    /\ sessions' = sessions \ {u}
    /\ UNCHANGED <<user, audit, tokens, vouched, tx, requests>>

(* The user API.  An edit that changes nothing leaves no trace.            *)
UpdateUser(w) ==
  \E u \in Live(user), in \in Edits :
    LET new == [user[u] EXCEPT !.active = in.active, !.roles = in.roles] IN
    /\ new # user[u]
    /\ UNCHANGED vouched
    /\ Begin(w, [Nothing EXCEPT !.id = u, !.base = user[u], !.new = new, !.writes = TRUE,
                                !.entries = {Entry("edit", TRUE, u)}])

DeleteUser(w) ==
  \E u \in Live(user) :
    /\ UNCHANGED vouched
    /\ Begin(w, [Nothing EXCEPT !.id = u, !.base = user[u], !.writes = TRUE,
                                !.entries = {Entry("delete", TRUE, u)}])

(***************************************************************************)
(* The end of a request.                                                   *)
(***************************************************************************)

Column(base, new, current) == IF new # base THEN new ELSE current

(* Mutant: a request writes its row back as it read it.                    *)
WholeRow(t) == t.new

(* The ORM updates the columns that differ from what the handler read, and *)
(* inserts and deletes the assignments of roles that do.                   *)
MergedRow(t) ==
  IF t.base = None \/ t.new = None THEN t.new
  ELSE IF user[t.id] = None THEN None
  ELSE LET cur == user[t.id]
       IN  [email    |-> cur.email,
            password |-> IF t.hashes THEN t.new.password ELSE cur.password,
            outdated |-> IF t.hashes THEN t.new.outdated ELSE cur.outdated,
            active   |-> Column(t.base.active, t.new.active, cur.active),
            verified |-> Column(t.base.verified, t.new.verified, cur.verified),
            roles    |-> (cur.roles \ (t.base.roles \ t.new.roles))
                           \cup (t.new.roles \ t.base.roles)]

RowsAfter(t) == IF t.writes THEN [user EXCEPT ![t.id] = MergedRow(t)] ELSE user

NewRoles(t) == t.new.roles \ t.base.roles

(* The assignments of roles that a write inserts or deletes; a delete of   *)
(* the user takes all of them along.                                       *)
Reassigned(t) ==
  IF t.base = None \/ t.new = None THEN Roles
  ELSE NewRoles(t) \cup (t.base.roles \ t.new.roles)

(* An edit of roles leaves the row itself alone.                           *)
OnlyRoles(t) ==
  /\ t.base # None /\ t.new # None
  /\ Reassigned(t) # {}
  /\ t.base.active = t.new.active

(* Two writes of one row, or of one assignment, or two new rows with one   *)
(* address, wait for each other.                                           *)
Conflicts(s, t) ==
  /\ s.writes /\ t.writes
  /\ \/ /\ s.id = t.id
        /\ OnlyRoles(s) \/ OnlyRoles(t) => Reassigned(s) \cap Reassigned(t) # {}
     \/ s.base = None /\ t.base = None /\ s.new.email = t.new.email

(* Mutant: the address is not unique in the table.                         *)
AcceptedTwice(t) ==
  t.writes /\ t.base # None /\ t.new # None =>
    IF user[t.id] = None THEN OnlyRoles(t) /\ NewRoles(t) = {}
    ELSE NewRoles(t) \cap user[t.id].roles = {}

(* An address is unique, and so is an assignment of a role, which needs    *)
(* its user.  An update needs its row; a delete, of the row or of          *)
(* assignments, does not.                                                  *)
Accepted(t) ==
  t.writes =>
    /\ t.base = None => Holder(t.new.email) = {}
    /\ t.base # None /\ t.new # None =>
         IF user[t.id] = None THEN OnlyRoles(t) /\ NewRoles(t) = {}
         ELSE NewRoles(t) \cap user[t.id].roles = {}

(* Mail is sent before the commit, and may be lost.                        *)
Flush(w) ==
  LET t == tx[w] IN
  /\ t # None
  /\ ~t.flushed
  /\ \A v \in Workers \ {w} : tx[v] # None /\ tx[v].flushed => ~Conflicts(tx[v], t)
  /\ Accepted(t)
  /\ tx' = [tx EXCEPT ![w].flushed = TRUE]
  /\ \E arrived \in SUBSET t.mail : tokens' = tokens \cup arrived
  /\ UNCHANGED <<user, audit, vouched, sessions, requests>>

Commit(w) ==
  LET t == tx[w] IN
  /\ t # None
  /\ t.flushed
  /\ user' = RowsAfter(t)
  /\ audit' = audit \cup t.entries
  /\ tokens' = tokens \cup t.reply
  /\ sessions' = sessions \cup t.session
  /\ tx' = [tx EXCEPT ![w] = None]
  /\ UNCHANGED <<vouched, requests>>

(* Mutant: the audit log has a transaction of its own.                     *)
RollbackButAudit(w) ==
  /\ tx[w] # None
  /\ audit' = audit \cup tx[w].entries
  /\ tx' = [tx EXCEPT ![w] = None]
  /\ UNCHANGED <<user, tokens, vouched, sessions, requests>>

(* A refused flush, an answer of Hydra that fails or does not come, any    *)
(* other exception or error response, or the end of the process.           *)
Rollback(w) ==
  /\ tx[w] # None
  /\ tx' = [tx EXCEPT ![w] = None]
  /\ UNCHANGED <<user, audit, tokens, vouched, sessions, requests>>

Init ==
  /\ user = InitialUser
  /\ audit = {}
  /\ tokens = {}
  /\ vouched = {InitialUser[u].email : u \in {v \in Live(InitialUser) : InitialUser[v].verified}}
  /\ sessions = {}
  /\ tx = [w \in Workers |-> None]
  /\ requests = 0

Handle(w) ==
  \/ LogIn(w) \/ AutoLogIn(w) \/ ForgotPassword(w) \/ ResetPassword(w)
  \/ ResetPasswordComplete(w) \/ VerifyEmail(w) \/ VerifyEmailComplete(w)
  \/ LoginVerify(w) \/ SignupVerify(w) \/ SignUp(w) \/ Authorized(w)
  \/ UpdateUser(w) \/ DeleteUser(w)

Next ==
  \/ StartLogin \/ Authorize \/ LogOut
  \/ \E w \in Workers : Handle(w) \/ Flush(w) \/ Commit(w) \/ Rollback(w)

Spec == Init /\ [][Next]_vars

(***************************************************************************)
(* Properties.                                                             *)
(***************************************************************************)

WriteOK(t) ==
  /\ t \in [id : Ids \cup {None}, base : UserRow \cup {None}, new : UserRow \cup {None},
            writes : BOOLEAN, hashes : BOOLEAN, entries : SUBSET AuditEntry, mail : SUBSET TokenSet,
            reply : SUBSET TokenSet, session : SUBSET Ids, flushed : BOOLEAN]
  /\ t.writes => t.id # None /\ (t.base # None \/ t.new # None)

(* Rows, entries, tokens and requests have their shape, and an address has *)
(* one account: of two requests that create it, or a request and a lost    *)
(* answer's retry, the table admits one.                                   *)
TypeOK ==
  /\ user \in [Ids -> UserRow \cup {None}]
  /\ UniqueEmails(user)
  /\ audit \subseteq AuditEntry
  /\ tokens \subseteq TokenSet
  /\ vouched \subseteq Emails
  /\ sessions \subseteq Ids
  /\ DOMAIN tx = Workers
  /\ \A w \in Workers : tx[w] = None \/ WriteOK(tx[w])
  /\ requests \in 0 .. MaxRequests

(* encode_token: "prevent them from copying a password reset token and     *)
(* passing it to the email verification view".  The address of a verified  *)
(* account has been verified by a link that reached it, or by Google,      *)
(* whatever mail was lost and whichever tokens the browser was given.      *)
VerifiedByOwner ==
  \A u \in Live(user) :
    user[u].verified =>
      \/ user[u].email \in vouched
      \/ VerificationLink(user[u].email) \in tokens

(* Whoever Hydra remembers has a verified address, also when the account   *)
(* was created, reset, edited or deleted while the login was under way.    *)
SessionsAreVerified ==
  \A u \in sessions : user[u] # None => user[u].verified

(* The audit log tells which accounts exist, after rollbacks, refused      *)
(* requests and concurrent ones, and that every session's login was        *)
(* completed.                                                              *)
AuditTells ==
  /\ \A u \in Ids :
       u \in Live(user) <=>
         /\ u \in Live(InitialUser) \/ Entry("signup", TRUE, u) \in audit
         /\ Entry("delete", TRUE, u) \notin audit
  /\ \A u \in sessions :
       Entry("login", TRUE, u) \in audit \/ Entry("signup", TRUE, u) \in audit

(* test_update_user: "the user update API can only modify `active` and     *)
(* `role_ids`; everything else must stay the same", and nothing else       *)
(* modifies these: a deactivation survives a login that was under way, and *)
(* an edit keeps the verification and the password that the user set       *)
(* meanwhile.  A password changes only in an account whose owner was       *)
(* mailed a link and has used it.  (But not always to the one that the     *)
(* owner chose: a login that hashes the password anew may have read it     *)
(* before a reset and commit after it.)                                    *)
EditsAndLoginsMerge ==
  [][\A u \in Live(user) \cap Live(user)' :
       /\ <<user[u].active, user[u].roles>> # <<user'[u].active, user'[u].roles>> =>
            \E w \in Workers :
              tx[w] # None /\ tx'[w] = None /\ Entry("edit", TRUE, u) \in tx[w].entries
       /\ user[u].verified => user'[u].verified
       /\ user[u].password # user'[u].password =>
            /\ ResetLink(user[u].email) \in tokens
            /\ Entry("change_password", TRUE, u) \in audit'
       /\ user[u].email = user'[u].email]_vars

Status(rows, entries) ==
  [u \in Ids |->
     IF rows[u] # None THEN IF rows[u].verified THEN "verified" ELSE "unverified"
     ELSE IF Entry("delete", TRUE, u) \in entries THEN "gone" ELSE "none"]

Life == INSTANCE AccountLife WITH
  status <- Status(user, audit), InitialStatus <- Status(InitialUser, {})

(* With its transactions, mails and interleavings the service implements   *)
(* AccountLife: among others, no request under way brings a deleted        *)
(* account back, and no page of the workflow lets an unverified user in.   *)
ImplementsAccountLife == Life!Spec
=============================================================================
