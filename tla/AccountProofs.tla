---------------------------- MODULE AccountProofs ----------------------------
(***************************************************************************)
(* Theorems about Accounts, for every set of users, addresses, passwords,  *)
(* edits and processes.                                                    *)
(***************************************************************************)
EXTENDS Accounts, TLAPS

(***************************************************************************)
(* The inductive invariant.                                                *)
(***************************************************************************)

(* There was an account u at some time; ids are not used again.            *)
Ever(u) == u \in Live(InitialUser) \/ Entry("signup", TRUE, u) \in audit

Vouched(email) == email \in vouched \/ VerificationLink(email) \in tokens

Inserts(t) == t.writes /\ t.base = None
Updates(t) == t.writes /\ t.base # None /\ t.new # None
Removes(t) == t.writes /\ t.base # None /\ t.new = None

(* A request logs the creation, or the deletion, that it is.               *)
EntriesFit(t) ==
  \A u \in Ids :
    /\ Entry("signup", TRUE, u) \in t.entries <=> Inserts(t) /\ t.id = u
    /\ Entry("delete", TRUE, u) \in t.entries <=> Removes(t) /\ t.id = u

(* An update changes no address, takes no verification back, and changes   *)
(* what only an edit, or only a reset link, allows to change.  Its row, if *)
(* it is still there, has the address it had and is as verified; a login   *)
(* may put an earlier password back, but then a reset came in between.     *)
UpdateFits(t) ==
  /\ t.new.email = t.base.email
  /\ t.base.verified => t.new.verified
  /\ t.new.active # t.base.active \/ t.new.roles # t.base.roles =>
       Entry("edit", TRUE, t.id) \in t.entries
  /\ t.new.password # t.base.password =>
       /\ ResetLink(t.base.email) \in tokens
       /\ Entry("change_password", TRUE, t.id) \in t.entries
  /\ user[t.id] # None =>
       /\ user[t.id].email = t.base.email
       /\ t.base.verified => user[t.id].verified
       /\ user[t.id].password # t.base.password =>
            /\ ResetLink(t.base.email) \in tokens
            /\ Entry("change_password", TRUE, t.id) \in audit

WriteFits(t) ==
  /\ Inserts(t) => ~Ever(t.id)
  /\ t.writes /\ t.base # None => Ever(t.id)
  /\ t.writes /\ t.new # None /\ t.new.verified => Vouched(t.new.email)
  /\ Updates(t) => UpdateFits(t)

(* Whoever a request is going to sign in is verified, or is by its write.  *)
SessionFits(t) ==
  \A u \in t.session :
    /\ {Entry("login", TRUE, u), Entry("signup", TRUE, u)} \cap t.entries # {}
    /\ \/ t.writes /\ t.id = u /\ t.new # None /\ t.new.verified
       \/ Ever(u) /\ (user[u] # None => user[u].verified)

(* A request signs in one user, the one whose row it writes if it writes   *)
(* any, and creates a verified account only where it does.                 *)
LoginFits(t) ==
  /\ \A u \in t.session :
       /\ t.session = {u}
       /\ t.writes => t.id = u /\ t.new # None /\ t.new.verified
  /\ Inserts(t) /\ t.session = {} => ~t.new.verified

RequestFits(t) == EntriesFit(t) /\ WriteFits(t) /\ SessionFits(t) /\ LoginFits(t)

(* What a flush was let through for remains so until its commit, and no    *)
(* two requests create one account.                                        *)
LocksHold ==
  /\ \A w \in Workers : tx[w] # None /\ tx[w].flushed => Accepted(tx[w])
  /\ \A v, w \in Workers :
       v # w /\ tx[v] # None /\ tx[w] # None =>
         /\ tx[v].flushed /\ tx[w].flushed => ~Conflicts(tx[v], tx[w])
         /\ Inserts(tx[v]) => tx[w].id # tx[v].id

(* Deletions and sessions are of accounts that were there.                 *)
TracesFit ==
  /\ \A u \in Ids : Entry("delete", TRUE, u) \in audit => Ever(u)
  /\ \A u \in sessions : Ever(u)

AccountInv ==
  /\ TypeOK
  /\ VerifiedByOwner
  /\ SessionsAreVerified
  /\ AuditTells
  /\ TracesFit
  /\ LocksHold
  /\ \A w \in Workers : tx[w] # None => RequestFits(tx[w])

(***************************************************************************)
(* The beginning of a request.                                             *)
(***************************************************************************)

(* What the handlers have in common.                                       *)
Opens(w) ==
  /\ tx[w] = None
  /\ \E t : /\ WriteOK(t)
            /\ EntriesFit(t) /\ SessionFits(t) /\ LoginFits(t) /\ WriteFits(t)'
            /\ t.flushed => ~t.writes
            /\ \A v \in Workers : tx[v] # None /\ (Inserts(t) \/ Inserts(tx[v])) =>
                 tx[v].id # t.id
            /\ tx' = [tx EXCEPT ![w] = t]
  /\ requests < MaxRequests
  /\ requests' = requests + 1
  /\ vouched \subseteq vouched' /\ vouched' \subseteq Emails
  /\ UNCHANGED <<user, audit, tokens, sessions>>

LEMMA LiveIsEver ==
  ASSUME AccountInv, NEW u \in Live(user)
  PROVE  Ever(u)
BY DEF AccountInv, AuditTells, Ever, Live

LEMMA FreshIsNew ==
  ASSUME AccountInv, NEW u \in FreshIds
  PROVE  /\ u \in Ids /\ user[u] = None /\ ~Ever(u)
         /\ \A w \in Workers : tx[w] # None => tx[w].id # u
<1>1. u \in Ids /\ user[u] = None /\ \A a \in audit : a.id # u
  BY DEF FreshIds
<1>2. Entry("delete", TRUE, u).id = u
  BY DEF Entry
<1>3. ~Ever(u)
  BY <1>1, <1>2 DEF AccountInv, AuditTells, Ever, Live
<1> QED
  BY <1>1, <1>3 DEF FreshIds

LEMMA BeginOpens ==
  ASSUME AccountInv, NEW w \in Workers, NEW t, WriteOK(t), EntriesFit(t), SessionFits(t),
         LoginFits(t), WriteFits(t)', Begin(w, t),
         \A v \in Workers : tx[v] # None /\ Inserts(t) => tx[v].id # t.id,
         Inserts(t) \/ t.id = None \/ Ever(t.id),
         vouched \subseteq vouched', vouched' \subseteq Emails
  PROVE  Opens(w)
<1> DEFINE s == [t EXCEPT !.flushed = ~t.writes /\ t.mail = {}]
<1>1. /\ WriteOK(s)
      /\ s.id = t.id /\ s.base = t.base /\ s.new = t.new /\ s.writes = t.writes
      /\ s.entries = t.entries /\ s.session = t.session
      /\ s.flushed => ~s.writes
  BY DEF WriteOK
<1>2. EntriesFit(s)
  BY <1>1 DEF EntriesFit, Inserts, Removes
<1>3. SessionFits(s) /\ LoginFits(s)
  BY <1>1 DEF SessionFits, LoginFits, Inserts
<1>4. WriteFits(s)'
  BY <1>1 DEF WriteFits, Inserts, Updates, UpdateFits
<1>5. ASSUME NEW v \in Workers, tx[v] # None, Inserts(s) \/ Inserts(tx[v])
      PROVE  tx[v].id # s.id
  <2>1. CASE Inserts(s)
    BY <1>1, <1>5, <2>1 DEF Inserts
  <2>2. CASE Inserts(tx[v])
    <3>1. ~Ever(tx[v].id) /\ tx[v].id \in Ids
      BY <1>5, <2>2, AccountAssumption
         DEF AccountInv, RequestFits, WriteFits, Inserts, TypeOK, WriteOK
    <3>2. None \notin Ids
      BY AccountAssumption
    <3> QED
      BY <1>1, <1>5, <3>1, <3>2 DEF Inserts
  <2> QED
    BY <1>5, <2>1, <2>2
<1> QED
  BY <1>1, <1>2, <1>3, <1>4, <1>5 DEF Begin, Opens

LEMMA TokenTypes ==
  /\ \A email \in Emails : {VerificationLink(email), ResetLink(email)} \subseteq TokenSet
  /\ \A scope \in ResendScopes, email \in Emails : Token(scope, email) \in TokenSet
  /\ \A scope \in CompleteScopes, u \in Ids : Token(scope, u) \in TokenSet
BY DEF VerificationLink, ResetLink, Token, TokenSet, MailedScopes, ResendScopes, CompleteScopes

LEMMA SubjectTypes ==
  ASSUME TypeOK
  PROVE  /\ \A scope \in MailedScopes \cup ResendScopes : Subjects(scope) \subseteq Emails
         /\ \A scope \in CompleteScopes : Subjects(scope) \subseteq Ids
         /\ \A scope : \A email \in Subjects(scope) : Token(scope, email) \in tokens
<1>1. ASSUME NEW scope, NEW x \in Subjects(scope)
      PROVE  Token(scope, x) \in tokens /\ Token(scope, x) \in TokenSet
  <2>1. PICK t \in tokens : t.scope = scope /\ t.subject = x
    BY DEF Subjects
  <2>2. t \in TokenSet
    BY DEF TypeOK
  <2>3. t = [scope |-> scope, subject |-> x]
    BY <2>1, <2>2 DEF TokenSet, Token
  <2> QED
    BY <2>2, <2>3 DEF Token
<1>2. ASSUME NEW scope \in MailedScopes \cup ResendScopes, NEW x \in Subjects(scope)
      PROVE  x \in Emails
  BY <1>1, <1>2 DEF Token, TokenSet, MailedScopes, ResendScopes, CompleteScopes
<1>3. ASSUME NEW scope \in CompleteScopes, NEW x \in Subjects(scope)
      PROVE  x \in Ids
  BY <1>1, <1>3 DEF Token, TokenSet, MailedScopes, ResendScopes, CompleteScopes
<1> QED
  BY <1>1, <1>2, <1>3

LEMMA VouchedStays ==
  ASSUME TypeOK, UNCHANGED vouched
  PROVE  vouched \subseteq vouched' /\ vouched' \subseteq Emails
BY DEF TypeOK

(* A request that does not write to the table of users.                    *)
LEMMA ReadOnlyOpens ==
  ASSUME AccountInv, NEW w \in Workers, NEW t, WriteOK(t), Begin(w, t),
         vouched \subseteq vouched', vouched' \subseteq Emails,
         ~t.writes, t.id = None \/ t.id \in Live(user),
         \A a \in t.entries : a.completed => a.command \notin {"signup", "delete"},
         \A u \in t.session : /\ Entry("login", TRUE, u) \in t.entries
                              /\ u \in Live(user) /\ user[u].verified
                              /\ t.session = {u}
  PROVE  Opens(w)
<1>1. EntriesFit(t)
  BY DEF EntriesFit, Entry, Inserts, Removes
<1>2. SessionFits(t) /\ LoginFits(t)
  BY LiveIsEver DEF SessionFits, LoginFits, Inserts
<1>3. WriteFits(t)'
  BY DEF WriteFits, Inserts, Updates
<1>4. ~Inserts(t) /\ (t.id = None \/ Ever(t.id))
  BY LiveIsEver DEF Inserts
<1> QED
  BY <1>1, <1>2, <1>3, <1>4, BeginOpens

LEMMA FailureTypes ==
  ASSUME NEW ids \in SUBSET Ids,
         NEW command \in {"signup", "login", "verify_email", "change_password"},
         NEW a \in FailureOf(command, ids)
  PROVE  a \in AuditEntry /\ ~a.completed
<1>1. PICK u \in Ids \cup {None} : a = Entry(command, FALSE, u)
  BY DEF FailureOf
<1> QED
  BY <1>1 DEF Entry, AuditEntry

LEMMA FailOpens ==
  ASSUME AccountInv, NEW w \in Workers, NEW ids \in SUBSET Ids, UNCHANGED vouched,
         NEW command \in {"signup", "login", "verify_email", "change_password"},
         Fail(w, command, ids)
  PROVE  Opens(w)
<1> DEFINE entries == FailureOf(command, ids)
           t == [Nothing EXCEPT !.entries = entries]
<1>1. \A a \in entries : a \in AuditEntry /\ ~a.completed
  BY FailureTypes
<1>2. Begin(w, t)
  BY DEF Fail
<1> HIDE DEF entries
<1>3. WriteOK(t)
  BY <1>1 DEF Nothing, WriteOK
<1>4. t.id = None /\ ~t.writes /\ t.entries = entries /\ t.session = {}
  BY DEF Nothing
<1> HIDE DEF t
<1> QED
  BY <1>1, <1>2, <1>3, <1>4, ReadOnlyOpens, VouchedStays DEF AccountInv

LEMMA AdmitOpens ==
  ASSUME AccountInv, NEW w \in Workers, NEW u \in Ids, user[u] # None, user[u].verified,
         UNCHANGED vouched, Admit(w, u)
  PROVE  Opens(w)
<1> DEFINE entry == Entry("login", TRUE, u)
           t == [Nothing EXCEPT !.entries = {entry}, !.session = {u}]
<1>1. entry \in AuditEntry /\ entry.command = "login"
  BY DEF Entry, AuditEntry
<1>2. Begin(w, t)
  BY DEF Admit
<1>3. \A v \in {u} : entry = Entry("login", TRUE, v)
  OBVIOUS
<1> HIDE DEF entry
<1>4. WriteOK(t)
  BY <1>1 DEF Nothing, WriteOK
<1>5. t.id = None /\ ~t.writes /\ t.entries = {entry} /\ t.session = {u}
  BY DEF Nothing
<1>6. u \in Live(user)
  BY DEF Live
<1> HIDE DEF t
<1> QED
  BY <1>1, <1>2, <1>3, <1>4, <1>5, <1>6, ReadOnlyOpens, VouchedStays DEF AccountInv

(***************************************************************************)
(* Each handler begins such a request.                                     *)
(***************************************************************************)

LEMMA HolderIsLive ==
  \A email : \A u \in Holder(email) :
    u \in Ids /\ u \in Live(user) /\ user[u] # None /\ user[u].email = email
BY DEF Holder, Live

LEMMA HolderTypes ==
  ASSUME NEW email
  PROVE  Holder(email) \in SUBSET Ids
BY DEF Holder, Live


(* A request that may update the row that it read.                         *)
LEMMA UpdateOpens ==
  ASSUME AccountInv, NEW w \in Workers, NEW u \in Live(user), NEW t, WriteOK(t), Begin(w, t),
         NEW command \in {"login", "verify_email", "change_password", "edit"},
         NEW completed \in BOOLEAN,
         t.id = u, t.base = user[u], t.new # None,
         t.entries = {Entry(command, completed, u)},
         t.new.email = t.base.email, t.base.verified => t.new.verified,
         t.new.active # t.base.active \/ t.new.roles # t.base.roles => command = "edit" /\ completed,
         t.new.password # t.base.password =>
           command = "change_password" /\ completed /\ ResetLink(t.base.email) \in tokens,
         t.new.verified => user[u].verified \/ Vouched(t.new.email)',
         t.session # {} => /\ t.session = {u} /\ t.new.verified
                           /\ command = "login" /\ completed
                           /\ t.writes \/ user[u].verified,
         vouched \subseteq vouched', vouched' \subseteq Emails
  PROVE  Opens(w)
<1>1. u \in Ids /\ user[u] # None /\ Ever(u)
  BY LiveIsEver DEF Live
<1>2. EntriesFit(t)
  BY <1>1 DEF EntriesFit, Entry, Inserts, Removes
<1>3. SessionFits(t) /\ LoginFits(t)
  BY <1>1 DEF SessionFits, LoginFits, Inserts
<1>4. UNCHANGED <<user, audit, tokens>>
  BY DEF Begin
<1>5. user[u].verified => Vouched(user[u].email)'
  BY <1>1, <1>4 DEF AccountInv, VerifiedByOwner, Vouched, Live
<1>6. Ever(u)'
  BY <1>1, <1>4 DEF Ever
<1>7. UpdateFits(t)'
  BY <1>1, <1>4 DEF UpdateFits
<1>8. WriteFits(t)'
  BY <1>1, <1>4, <1>5, <1>6, <1>7 DEF WriteFits, Inserts, Updates
<1> QED
  BY <1>1, <1>2, <1>3, <1>8, BeginOpens DEF Inserts

(* The row that a handler writes.                                          *)
LEMMA RowTypes ==
  ASSUME TypeOK, NEW u \in Ids, user[u] # None
  PROVE  /\ user[u] \in UserRow
         /\ \A password \in Passwords :
              /\ WithPassword(user[u], password) \in UserRow
              /\ WithPassword(user[u], password).email = user[u].email
              /\ WithPassword(user[u], password).active = user[u].active
              /\ WithPassword(user[u], password).roles = user[u].roles
              /\ WithPassword(user[u], password).verified = user[u].verified
              /\ WithPassword(user[u], password).password = password
         /\ WithVerified(user[u]) \in UserRow
         /\ WithVerified(user[u]).email = user[u].email
         /\ WithVerified(user[u]).active = user[u].active
         /\ WithVerified(user[u]).roles = user[u].roles
         /\ WithVerified(user[u]).password = user[u].password
         /\ WithVerified(user[u]).verified
<1>1. user[u] \in UserRow
  BY DEF TypeOK
<1> QED
  BY <1>1 DEF UserRow, WithPassword, WithVerified

(* What a login leaves in its request.                                     *)
LEMMA CheckedFields ==
  ASSUME AccountInv, NEW u \in Live(user), user[u].password \in Passwords,
         NEW entries \in SUBSET AuditEntry, NEW mail \in SUBSET TokenSet,
         NEW reply \in SUBSET TokenSet, NEW session \in SUBSET Ids, NEW t,
         t = Checked(u, entries, mail, reply, session)
  PROVE  /\ WriteOK(t)
         /\ t.entries = entries /\ t.session = session
         /\ IF user[u].outdated
            THEN /\ t.writes /\ t.id = u /\ t.base = user[u]
                 /\ t.new = WithPassword(user[u], user[u].password)
            ELSE ~t.writes /\ t.id = None
<1> DEFINE row == WithPassword(user[u], user[u].password)
<1>1. u \in Ids /\ u # None /\ user[u] # None
  BY AccountAssumption DEF Live
<1>2. user[u] \in UserRow /\ row \in UserRow
  BY <1>1, RowTypes DEF AccountInv
<1> HIDE DEF row
<1>3. CASE user[u].outdated
  <2>1. t = [id |-> u, base |-> user[u], new |-> row, writes |-> TRUE, hashes |-> TRUE,
             entries |-> entries, mail |-> mail, reply |-> reply, session |-> session,
             flushed |-> FALSE]
    BY <1>2, <1>3 DEF Checked, row, UserRow
  <2> QED
    BY <1>1, <1>2, <1>3, <2>1 DEF WriteOK, row
<1>4. CASE ~user[u].outdated
  <2>1. t = [id |-> None, base |-> None, new |-> None, writes |-> FALSE, hashes |-> FALSE,
             entries |-> entries, mail |-> mail, reply |-> reply, session |-> session,
             flushed |-> FALSE]
    BY <1>2, <1>4 DEF Checked, UserRow
  <2> QED
    BY <1>4, <2>1 DEF WriteOK
<1> QED
  BY <1>3, <1>4

(* A login, with its new hash where the one in the row is outdated.        *)
LEMMA CheckedOpens ==
  ASSUME AccountInv, NEW w \in Workers, NEW u \in Live(user), user[u].password \in Passwords,
         NEW completed \in BOOLEAN, NEW mail \in SUBSET TokenSet, NEW reply \in SUBSET TokenSet,
         NEW session \in SUBSET {u}, session # {} => user[u].verified /\ completed,
         Begin(w, Checked(u, {Entry("login", completed, u)}, mail, reply, session)),
         UNCHANGED vouched
  PROVE  Opens(w)
<1> DEFINE entry == Entry("login", completed, u)
           new == WithPassword(user[u], user[u].password)
           t == Checked(u, {entry}, mail, reply, session)
<1>1. u \in Ids /\ u # None /\ user[u] # None
  BY AccountAssumption DEF Live
<1>2. entry \in AuditEntry /\ entry.completed = completed /\ entry.command = "login"
  BY <1>1 DEF Entry, AuditEntry
<1>3. /\ user[u] \in UserRow /\ new \in UserRow
      /\ new.email = user[u].email /\ new.active = user[u].active
      /\ new.roles = user[u].roles /\ new.verified = user[u].verified
      /\ new.password = user[u].password
  BY <1>1, RowTypes DEF AccountInv
<1>4. new # None
  BY <1>3, AccountAssumption
<1>5. vouched \subseteq vouched' /\ vouched' \subseteq Emails
  BY VouchedStays DEF AccountInv
<1>6. /\ entry = Entry("login", completed, u) /\ Begin(w, t)
      /\ t = Checked(u, {entry}, mail, reply, session)
  OBVIOUS
<1>7. /\ WriteOK(t) /\ t.entries = {entry}
      /\ t.session # {} => t.session = {u} /\ user[u].verified /\ completed
      /\ IF user[u].outdated
         THEN t.writes /\ t.id = u /\ t.base = user[u] /\ t.new = new
         ELSE ~t.writes /\ t.id = None
  <2>1. {entry} \in SUBSET AuditEntry /\ session \in SUBSET Ids
    BY <1>1, <1>2
  <2>2. session = {} \/ session = {u}
    OBVIOUS
  <2> HIDE DEF entry, new, t
  <2>3. /\ WriteOK(t) /\ t.entries = {entry} /\ t.session = session
        /\ IF user[u].outdated
           THEN /\ t.writes /\ t.id = u /\ t.base = user[u]
                /\ t.new = WithPassword(user[u], user[u].password)
           ELSE ~t.writes /\ t.id = None
    BY <1>6, <2>1, CheckedFields
  <2> QED
    BY <2>2, <2>3 DEF new
<1> HIDE DEF entry, new, t
<1>8. CASE user[u].outdated
  <2>1. /\ t.entries = {Entry("login", completed, u)} /\ t.new # None
        /\ t.id = u /\ t.base = user[u]
        /\ t.new.email = t.base.email /\ (t.base.verified => t.new.verified)
        /\ t.new.active = t.base.active /\ t.new.roles = t.base.roles
        /\ t.new.password = t.base.password
        /\ t.new.verified => user[u].verified
        /\ t.session # {} => t.session = {u} /\ t.new.verified /\ completed /\ t.writes
    BY <1>3, <1>4, <1>6, <1>7, <1>8
  <2>2. /\ "login" \in {"login", "verify_email", "change_password", "edit"}
        /\ WriteOK(t) /\ Begin(w, t)
        /\ t.new.active # t.base.active \/ t.new.roles # t.base.roles =>
             "login" = "edit" /\ completed
        /\ t.new.password # t.base.password =>
             "login" = "change_password" /\ completed /\ ResetLink(t.base.email) \in tokens
        /\ t.new.verified => user[u].verified \/ Vouched(t.new.email)'
        /\ t.session # {} => /\ t.session = {u} /\ t.new.verified
                             /\ "login" = "login" /\ completed
                             /\ t.writes \/ user[u].verified
    BY <1>6, <1>7, <2>1
  <2> QED
    BY <1>5, <2>1, <2>2, UpdateOpens, SMTT(30)
<1>9. CASE ~user[u].outdated
  <2>1. \A a \in t.entries : a.completed => a.command \notin {"signup", "delete"}
    BY <1>2, <1>7
  <2>2. \A v \in t.session : /\ Entry("login", TRUE, v) \in t.entries
                             /\ v \in Live(user) /\ user[v].verified
                             /\ t.session = {v}
    BY <1>6, <1>7
  <2> QED
    BY <1>5, <1>6, <1>7, <1>9, <2>1, <2>2, ReadOnlyOpens
<1> QED
  BY <1>8, <1>9

LEMMA LogInOpens ==
  ASSUME AccountInv, NEW w \in Workers, LogIn(w)
  PROVE  Opens(w)
<1> DEFINE us(email, password, known) ==
      {u \in Holder(email) : known /\ user[u].password = password}
<1>1. PICK email \in Emails, password \in Passwords, known \in BOOLEAN :
        /\ UNCHANGED vouched
        /\ \/ Fail(w, "login", Holder(email))
           \/ \E u \in us(email, password, known) :
                LET failures == FailureOf("login", us(email, password, known)) IN
                \/ Begin(w, Checked(u, failures, {}, {}, {}))
                \/ Begin(w, Checked(u, failures, {VerificationLink(email)},
                                    {Token("login.verify", email)}, {}))
                \/ /\ user[u].verified
                   /\ Begin(w, Checked(u, {Entry("login", TRUE, u)}, {}, {}, {u}))
  BY ZenonT(40) DEF LogIn
<1>2. CASE Fail(w, "login", Holder(email))
  BY <1>1, <1>2, HolderTypes, FailOpens
<1>3. CASE \E u \in us(email, password, known) :
             LET failures == FailureOf("login", us(email, password, known)) IN
             \/ Begin(w, Checked(u, failures, {}, {}, {}))
             \/ Begin(w, Checked(u, failures, {VerificationLink(email)},
                                 {Token("login.verify", email)}, {}))
             \/ /\ user[u].verified
                /\ Begin(w, Checked(u, {Entry("login", TRUE, u)}, {}, {}, {u}))
  <2> DEFINE link == VerificationLink(email)
             again == Token("login.verify", email)
  <2>1. PICK u \in us(email, password, known) :
          LET failures == FailureOf("login", us(email, password, known)) IN
          \/ Begin(w, Checked(u, failures, {}, {}, {}))
          \/ Begin(w, Checked(u, failures, {link}, {again}, {}))
          \/ /\ user[u].verified
             /\ Begin(w, Checked(u, {Entry("login", TRUE, u)}, {}, {}, {u}))
    BY <1>3
  <2>2. /\ u \in Live(user) /\ user[u].password \in Passwords
        /\ \A v \in us(email, password, known) : v = u
    BY HolderIsLive DEF AccountInv, TypeOK, UniqueEmails
  <2>3. us(email, password, known) = {u}
    BY <2>2
  <2>4. FailureOf("login", us(email, password, known)) = {Entry("login", FALSE, u)}
    BY <2>3 DEF FailureOf
  <2>5. link \in TokenSet /\ again \in TokenSet
    BY TokenTypes DEF ResendScopes
  <2> HIDE DEF link, again, us
  <2>6. \/ Begin(w, Checked(u, {Entry("login", FALSE, u)}, {}, {}, {}))
        \/ Begin(w, Checked(u, {Entry("login", FALSE, u)}, {link}, {again}, {}))
        \/ /\ user[u].verified
           /\ Begin(w, Checked(u, {Entry("login", TRUE, u)}, {}, {}, {u}))
    BY <2>1, <2>4
  <2>7. /\ {link} \in SUBSET TokenSet /\ {again} \in SUBSET TokenSet
        /\ {} \in SUBSET TokenSet /\ {} \in SUBSET {u} /\ {u} \in SUBSET {u}
    BY <2>5
  <2>8. CASE Begin(w, Checked(u, {Entry("login", FALSE, u)}, {}, {}, {}))
    BY <1>1, <2>2, <2>7, <2>8, CheckedOpens
  <2>9. CASE Begin(w, Checked(u, {Entry("login", FALSE, u)}, {link}, {again}, {}))
    BY <1>1, <2>2, <2>7, <2>9, CheckedOpens
  <2>10. CASE /\ user[u].verified
              /\ Begin(w, Checked(u, {Entry("login", TRUE, u)}, {}, {}, {u}))
    BY <1>1, <2>2, <2>7, <2>10, CheckedOpens
  <2> QED
    BY <2>6, <2>8, <2>9, <2>10
<1> QED
  BY <1>1, <1>2, <1>3

LEMMA ContinueOpens ==
  ASSUME AccountInv, NEW w \in Workers, NEW u \in Ids, Continue(w, u)
  PROVE  Opens(w)
<1>1. UNCHANGED vouched
  BY DEF Continue
<1>2. CASE Fail(w, "login", {u})
  BY <1>1, <1>2, FailOpens
<1>3. CASE Admit(w, u) /\ user[u] # None /\ user[u].verified
  BY <1>1, <1>3, AdmitOpens
<1> QED
  BY <1>2, <1>3 DEF Continue, MayContinue

LEMMA ContinuingOpens ==
  ASSUME AccountInv, NEW w \in Workers,
         AutoLogIn(w) \/ VerifyEmailComplete(w) \/ ResetPasswordComplete(w)
  PROVE  Opens(w)
<1>1. sessions \subseteq Ids
  BY DEF AccountInv, TypeOK
<1>2. \A scope \in CompleteScopes : Subjects(scope) \subseteq Ids
  BY SubjectTypes DEF AccountInv
<1> QED
  BY <1>1, <1>2, ContinueOpens
     DEF AutoLogIn, VerifyEmailComplete, ResetPasswordComplete, CompleteScopes

LEMMA MailOpens ==
  ASSUME AccountInv, NEW w \in Workers, NEW link \in TokenSet, UNCHANGED vouched,
         Begin(w, [Nothing EXCEPT !.mail = {link}])
  PROVE  Opens(w)
<1> DEFINE t == [Nothing EXCEPT !.mail = {link}]
<1>1. WriteOK(t)
  BY DEF Nothing, WriteOK
<1>2. t.id = None /\ ~t.writes /\ t.entries = {} /\ t.session = {}
  BY DEF Nothing
<1>3. Begin(w, t)
  OBVIOUS
<1> HIDE DEF t
<1> QED
  BY <1>1, <1>2, <1>3, ReadOnlyOpens, VouchedStays DEF AccountInv

LEMMA ForgotPasswordOpens ==
  ASSUME AccountInv, NEW w \in Workers, ForgotPassword(w)
  PROVE  Opens(w)
<1>1. PICK email \in Emails :
        /\ UNCHANGED vouched
        /\ \/ Fail(w, "change_password", Holder(email))
           \/ Begin(w, [Nothing EXCEPT !.mail = {ResetLink(email)}])
  BY DEF ForgotPassword
<1>2. ResetLink(email) \in TokenSet
  BY TokenTypes
<1> QED
  BY <1>1, <1>2, HolderTypes, FailOpens, MailOpens

LEMMA ResendOpens ==
  ASSUME AccountInv, NEW w \in Workers, LoginVerify(w) \/ SignupVerify(w)
  PROVE  Opens(w)
<1>1. PICK scope \in ResendScopes : Resend(w, scope)
  BY DEF LoginVerify, SignupVerify, ResendScopes
<1>2. PICK email \in Subjects(scope) :
        UNCHANGED vouched /\ Begin(w, [Nothing EXCEPT !.mail = {VerificationLink(email)}])
  BY <1>1 DEF Resend
<1>3. VerificationLink(email) \in TokenSet
  BY <1>2, SubjectTypes, TokenTypes DEF AccountInv
<1> QED
  BY <1>2, <1>3, MailOpens

LEMMA ResetPasswordOpens ==
  ASSUME AccountInv, NEW w \in Workers, ResetPassword(w)
  PROVE  Opens(w)
<1>1. PICK email \in Subjects("account.reset_password"), password \in Passwords :
        /\ UNCHANGED vouched
        /\ \/ Fail(w, "change_password", Holder(email))
           \/ \E u \in Holder(email) :
                Begin(w, [Nothing EXCEPT
                            !.id = u, !.base = user[u], !.new = WithPassword(user[u], password),
                            !.writes = TRUE, !.hashes = TRUE,
                            !.entries = {Entry("change_password", TRUE, u)},
                            !.reply = {Token("account.reset_password_complete", u)}])
  BY DEF ResetPassword
<1>2. CASE Fail(w, "change_password", Holder(email))
  BY <1>1, <1>2, HolderTypes, FailOpens
<1>3. ASSUME NEW u \in Holder(email),
             Begin(w, [Nothing EXCEPT
                         !.id = u, !.base = user[u], !.new = WithPassword(user[u], password),
                         !.writes = TRUE, !.hashes = TRUE,
                         !.entries = {Entry("change_password", TRUE, u)},
                         !.reply = {Token("account.reset_password_complete", u)}])
      PROVE  Opens(w)
  <2> DEFINE entry == Entry("change_password", TRUE, u)
             answer == Token("account.reset_password_complete", u)
             new == WithPassword(user[u], password)
             t == [Nothing EXCEPT !.id = u, !.base = user[u], !.new = new,
                                  !.writes = TRUE, !.hashes = TRUE,
                                  !.entries = {entry}, !.reply = {answer}]
  <2>1. /\ u \in Ids /\ u # None
        /\ u \in Live(user) /\ user[u] # None /\ user[u].email = email
    BY <1>3, HolderIsLive, AccountAssumption
  <2>2. answer \in TokenSet /\ entry \in AuditEntry
    BY <2>1, TokenTypes DEF CompleteScopes, Entry, AuditEntry
  <2>3. /\ user[u] \in UserRow /\ new \in UserRow
        /\ new.email = user[u].email /\ new.active = user[u].active
        /\ new.roles = user[u].roles /\ new.verified = user[u].verified
    BY <2>1, RowTypes DEF AccountInv
  <2>4. ResetLink(email) \in tokens
    BY SubjectTypes DEF AccountInv, ResetLink
  <2>5. Begin(w, t)
    BY <1>3
  <2>6. vouched \subseteq Emails
    BY DEF AccountInv, TypeOK
  <2>7. new # None
    BY <2>3, AccountAssumption
  <2>8. entry = Entry("change_password", TRUE, u)
    OBVIOUS
  <2> HIDE DEF entry, answer, new
  <2>9. WriteOK(t)
    BY <2>1, <2>2, <2>3 DEF Nothing, WriteOK
  <2>10. /\ t.id = u /\ t.base = user[u] /\ t.new = new /\ t.entries = {entry}
         /\ t.session = {}
    BY DEF Nothing
  <2> HIDE DEF t
  <2> QED
    BY <1>1, <2>1, <2>3, <2>4, <2>5, <2>6, <2>7, <2>8, <2>9, <2>10, UpdateOpens
<1> QED
  BY <1>1, <1>2, <1>3

LEMMA VerifyEmailOpens ==
  ASSUME AccountInv, NEW w \in Workers, VerifyEmail(w)
  PROVE  Opens(w)
<1>1. PICK email \in Subjects("account.verify_email") :
        /\ UNCHANGED vouched
        /\ \/ Fail(w, "verify_email", Holder(email))
           \/ \E u \in Holder(email) :
                Begin(w, [Nothing EXCEPT
                            !.id = u, !.base = user[u], !.new = WithVerified(user[u]),
                            !.writes = ~user[u].verified,
                            !.entries = {Entry("verify_email", TRUE, u)},
                            !.reply = {Token("account.verify_email_complete", u)}])
  BY DEF VerifyEmail
<1>2. CASE Fail(w, "verify_email", Holder(email))
  BY <1>1, <1>2, HolderTypes, FailOpens
<1>3. ASSUME NEW u \in Holder(email),
             Begin(w, [Nothing EXCEPT
                         !.id = u, !.base = user[u], !.new = WithVerified(user[u]),
                         !.writes = ~user[u].verified,
                         !.entries = {Entry("verify_email", TRUE, u)},
                         !.reply = {Token("account.verify_email_complete", u)}])
      PROVE  Opens(w)
  <2> DEFINE entry == Entry("verify_email", TRUE, u)
             answer == Token("account.verify_email_complete", u)
             new == WithVerified(user[u])
             t == [Nothing EXCEPT !.id = u, !.base = user[u], !.new = new,
                                  !.writes = ~user[u].verified,
                                  !.entries = {entry}, !.reply = {answer}]
  <2>1. /\ u \in Ids /\ u # None
        /\ u \in Live(user) /\ user[u] # None /\ user[u].email = email
    BY <1>3, HolderIsLive, AccountAssumption
  <2>2. answer \in TokenSet /\ entry \in AuditEntry
    BY <2>1, TokenTypes DEF CompleteScopes, Entry, AuditEntry
  <2>3. /\ user[u] \in UserRow /\ new \in UserRow
        /\ new.email = user[u].email /\ new.active = user[u].active
        /\ new.roles = user[u].roles /\ new.password = user[u].password /\ new.verified
    BY <2>1, RowTypes DEF AccountInv
  <2>4. VerificationLink(email) \in tokens /\ UNCHANGED tokens
    BY <1>3, SubjectTypes DEF AccountInv, VerificationLink, Begin
  <2>5. Begin(w, t)
    BY <1>3
  <2>6. vouched \subseteq Emails
    BY DEF AccountInv, TypeOK
  <2>7. new # None
    BY <2>3, AccountAssumption
  <2>8. entry = Entry("verify_email", TRUE, u)
    OBVIOUS
  <2>9. Vouched(email)'
    BY <2>4 DEF Vouched
  <2> HIDE DEF entry, answer, new
  <2>10. WriteOK(t)
    BY <2>1, <2>2, <2>3 DEF Nothing, WriteOK, UserRow
  <2>11. /\ t.id = u /\ t.base = user[u] /\ t.new = new /\ t.entries = {entry}
         /\ t.session = {}
    BY DEF Nothing
  <2> HIDE DEF t
  <2> QED
    BY <1>1, <2>1, <2>3, <2>5, <2>6, <2>7, <2>8, <2>9, <2>10, <2>11, UpdateOpens, ZenonT(40)
<1> QED
  BY <1>1, <1>2, <1>3

LEMMA UpdateUserOpens ==
  ASSUME AccountInv, NEW w \in Workers, UpdateUser(w)
  PROVE  Opens(w)
<1>1. PICK u \in Live(user), in \in Edits :
        /\ UNCHANGED vouched
        /\ Begin(w, [Nothing EXCEPT
                       !.id = u, !.base = user[u],
                       !.new = [user[u] EXCEPT !.active = in.active, !.roles = in.roles],
                       !.writes = TRUE, !.entries = {Entry("edit", TRUE, u)}])
  BY DEF UpdateUser
<1> DEFINE entry == Entry("edit", TRUE, u)
           new == [user[u] EXCEPT !.active = in.active, !.roles = in.roles]
           t == [Nothing EXCEPT !.id = u, !.base = user[u], !.new = new,
                                !.writes = TRUE, !.entries = {entry}]
<1>2. u \in Ids /\ u # None /\ user[u] # None
  BY AccountAssumption DEF Live
<1>3. user[u] \in UserRow
  BY <1>2, RowTypes DEF AccountInv
<1>4. in \in [active : BOOLEAN, roles : SUBSET Roles]
  BY AccountAssumption
<1>5. /\ new \in UserRow /\ new.email = user[u].email
      /\ new.verified = user[u].verified /\ new.password = user[u].password
  BY <1>3, <1>4 DEF UserRow
<1>6. entry \in AuditEntry
  BY <1>2 DEF Entry, AuditEntry
<1>7. new # None
  BY <1>5, AccountAssumption
<1>8. entry = Entry("edit", TRUE, u)
  OBVIOUS
<1>9. vouched \subseteq Emails
  BY DEF AccountInv, TypeOK
<1>10. Begin(w, t)
  BY <1>1
<1> HIDE DEF entry, new
<1>11. WriteOK(t)
  BY <1>2, <1>3, <1>5, <1>6 DEF Nothing, WriteOK
<1>12. /\ t.id = u /\ t.base = user[u] /\ t.new = new /\ t.entries = {entry}
       /\ t.session = {}
  BY DEF Nothing
<1> HIDE DEF t
<1> QED
  BY <1>1, <1>5, <1>7, <1>8, <1>9, <1>10, <1>11, <1>12, UpdateOpens

LEMMA DeleteUserOpens ==
  ASSUME AccountInv, NEW w \in Workers, DeleteUser(w)
  PROVE  Opens(w)
<1>1. PICK u \in Live(user) :
        /\ UNCHANGED vouched
        /\ Begin(w, [Nothing EXCEPT !.id = u, !.base = user[u], !.writes = TRUE,
                                    !.entries = {Entry("delete", TRUE, u)}])
  BY DEF DeleteUser
<1> DEFINE entry == Entry("delete", TRUE, u)
<1>2. u \in Ids /\ u # None /\ user[u] # None
  BY AccountAssumption DEF Live
<1>3. user[u] \in UserRow
  BY <1>2, RowTypes DEF AccountInv
<1>4. entry \in AuditEntry
  BY <1>2 DEF Entry, AuditEntry
<1>5. \A v \in Ids : /\ Entry("delete", TRUE, v) = entry <=> v = u
                     /\ Entry("signup", TRUE, v) # entry
  BY DEF Entry
<1>6. PICK t : /\ t = [Nothing EXCEPT !.id = u, !.base = user[u], !.writes = TRUE,
                                       !.entries = {entry}]
               /\ Begin(w, t)
  BY <1>1
<1> HIDE DEF entry
<1>7. WriteOK(t)
  BY <1>2, <1>3, <1>4, <1>6 DEF Nothing, WriteOK
<1>8. /\ t.id = u /\ t.base = user[u] /\ t.new = None /\ t.writes /\ t.entries = {entry}
      /\ t.session = {}
  BY <1>6 DEF Nothing
<1>9. EntriesFit(t)
  BY <1>2, <1>5, <1>8 DEF EntriesFit, Inserts, Removes
<1>10. SessionFits(t) /\ LoginFits(t)
  BY <1>2, <1>8 DEF SessionFits, LoginFits, Inserts
<1>11. Ever(u) /\ Ever(u)'
  BY <1>6, LiveIsEver DEF Begin, Ever
<1>12. WriteFits(t)'
  BY <1>2, <1>8, <1>11 DEF WriteFits, Inserts, Updates
<1>13. ~Inserts(t)
  BY <1>2, <1>8 DEF Inserts
<1>14. vouched \subseteq Emails
  BY DEF AccountInv, TypeOK
<1> QED
  BY <1>1, <1>6, <1>7, <1>8, <1>9, <1>10, <1>11, <1>12, <1>13, <1>14, BeginOpens

(* A request that creates an account.                                      *)
LEMMA InsertOpens ==
  ASSUME AccountInv, NEW w \in Workers, NEW u \in FreshIds, NEW t, WriteOK(t), Begin(w, t),
         t.id = u, t.base = None, t.new # None, t.writes,
         Entry("signup", TRUE, u) \in t.entries,
         \A a \in t.entries : a = Entry("signup", TRUE, u) \/ ~a.completed,
         t.new.verified => Vouched(t.new.email)',
         IF t.session = {} THEN ~t.new.verified ELSE t.session = {u} /\ t.new.verified,
         vouched \subseteq vouched', vouched' \subseteq Emails
  PROVE  Opens(w)
<1>1. /\ u \in Ids /\ ~Ever(u)
      /\ \A v \in Workers : tx[v] # None => tx[v].id # u
  BY FreshIsNew
<1>2. EntriesFit(t)
  BY <1>1 DEF EntriesFit, Entry, Inserts, Removes
<1>3. SessionFits(t) /\ LoginFits(t)
  BY <1>1 DEF SessionFits, LoginFits, Inserts
<1>4. ~Ever(u)'
  BY <1>1 DEF Begin, Ever
<1>5. WriteFits(t)'
  BY <1>1, <1>4 DEF WriteFits, Inserts, Updates
<1> QED
  BY <1>1, <1>2, <1>3, <1>5, BeginOpens DEF Inserts

LEMMA NewUserTypes ==
  ASSUME NEW email \in Emails, NEW password \in Passwords \cup {None}
  PROVE  /\ NewUser(email, password) \in UserRow
         /\ ~NewUser(email, password).verified
         /\ NewUser(email, password).email = email
         /\ WithVerified(NewUser(email, password)) \in UserRow
         /\ WithVerified(NewUser(email, password)).email = email
<1>1. {DefaultRole(email)} \subseteq Roles
  BY AccountAssumption DEF DefaultRole
<1> QED
  BY <1>1 DEF NewUser, UserRow, WithVerified

LEMMA SignUpOpens ==
  ASSUME AccountInv, NEW w \in Workers, SignUp(w)
  PROVE  Opens(w)
<1>1. PICK email \in Emails, password \in Passwords :
        /\ UNCHANGED vouched
        /\ \/ Fail(w, "signup", Holder(email))
           \/ \E u \in FreshIds :
                Begin(w, [Nothing EXCEPT
                            !.id = u, !.new = NewUser(email, password), !.writes = TRUE,
                            !.entries = {Entry("signup", TRUE, u)},
                            !.mail = {VerificationLink(email)},
                            !.reply = {Token("signup.verify", email)}])
  BY DEF SignUp
<1>2. CASE Fail(w, "signup", Holder(email))
  BY <1>1, <1>2, HolderTypes, FailOpens
<1>3. ASSUME NEW u \in FreshIds,
             Begin(w, [Nothing EXCEPT
                         !.id = u, !.new = NewUser(email, password), !.writes = TRUE,
                         !.entries = {Entry("signup", TRUE, u)},
                         !.mail = {VerificationLink(email)},
                         !.reply = {Token("signup.verify", email)}])
      PROVE  Opens(w)
  <2> DEFINE entry == Entry("signup", TRUE, u)
             link == VerificationLink(email)
             again == Token("signup.verify", email)
             new == NewUser(email, password)
  <2>1. u \in Ids /\ u # None
    BY <1>3, FreshIsNew, AccountAssumption
  <2>2. link \in TokenSet /\ again \in TokenSet
    BY TokenTypes DEF ResendScopes
  <2>3. entry \in AuditEntry
    BY <2>1 DEF Entry, AuditEntry
  <2>4. new \in UserRow /\ ~new.verified
    BY NewUserTypes
  <2>5. new # None
    BY <2>4, AccountAssumption
  <2>6. PICK t : /\ t = [Nothing EXCEPT
                           !.id = u, !.new = new, !.writes = TRUE, !.entries = {entry},
                           !.mail = {link}, !.reply = {again}]
                 /\ Begin(w, t)
    BY <1>3
  <2>7. entry = Entry("signup", TRUE, u)
    OBVIOUS
  <2>8. vouched \subseteq Emails
    BY DEF AccountInv, TypeOK
  <2> HIDE DEF entry, link, again, new
  <2>9. WriteOK(t)
    BY <2>1, <2>2, <2>3, <2>4, <2>5, <2>6 DEF Nothing, WriteOK
  <2>10. /\ t.id = u /\ t.base = None /\ t.new = new /\ t.writes /\ t.entries = {entry}
         /\ t.session = {}
    BY <2>6 DEF Nothing
  <2> QED
    BY <1>1, <1>3, <2>4, <2>5, <2>6, <2>7, <2>8, <2>9, <2>10, InsertOpens
<1> QED
  BY <1>1, <1>2, <1>3

LEMMA AuthorizedOpens ==
  ASSUME AccountInv, NEW w \in Workers, Authorized(w)
  PROVE  Opens(w)
<1>1. PICK email \in Emails, renamed \in BOOLEAN :
        /\ vouched' = vouched \cup {email}
        /\ \/ \E u \in FreshIds :
                Begin(w, [Nothing EXCEPT
                            !.id = u, !.new = WithVerified(NewUser(email, None)),
                            !.writes = TRUE,
                            !.entries = {Entry("signup", TRUE, u)} \cup FailureOf("login", {}),
                            !.session = {u}])
           \/ \E u \in Holder(email) :
                Begin(w, [Nothing EXCEPT
                            !.id = u, !.base = user[u], !.new = WithVerified(user[u]),
                            !.writes = renamed \/ ~user[u].verified,
                            !.entries = {Entry("login", TRUE, u)}, !.session = {u}])
           \/ Fail(w, "login", Holder(email))
  BY ZenonT(40) DEF Authorized
<1>2. /\ vouched \subseteq vouched' /\ vouched' \subseteq Emails /\ Vouched(email)'
  BY <1>1 DEF AccountInv, TypeOK, Vouched
<1>3. ASSUME NEW u \in FreshIds,
             Begin(w, [Nothing EXCEPT
                         !.id = u, !.new = WithVerified(NewUser(email, None)),
                         !.writes = TRUE,
                         !.entries = {Entry("signup", TRUE, u)} \cup FailureOf("login", {}),
                         !.session = {u}])
      PROVE  Opens(w)
  <2> DEFINE entry == Entry("signup", TRUE, u)
             failures == FailureOf("login", {})
             new == WithVerified(NewUser(email, None))
  <2>1. u \in Ids /\ u # None
    BY <1>3, FreshIsNew, AccountAssumption
  <2>2. \A a \in failures : a \in AuditEntry /\ ~a.completed
    BY FailureTypes
  <2>3. entry \in AuditEntry
    BY <2>1 DEF Entry, AuditEntry
  <2>4. new \in UserRow /\ new.email = email
    BY NewUserTypes
  <2>5. new # None /\ new.verified
    BY <2>4, AccountAssumption DEF UserRow, WithVerified, NewUser
  <2>6. PICK t : /\ t = [Nothing EXCEPT
                           !.id = u, !.new = new, !.writes = TRUE,
                           !.entries = {entry} \cup failures, !.session = {u}]
                 /\ Begin(w, t)
    BY <1>3
  <2>7. entry = Entry("signup", TRUE, u)
    OBVIOUS
  <2> HIDE DEF entry, failures, new
  <2>8. WriteOK(t)
    BY <2>1, <2>2, <2>3, <2>4, <2>5, <2>6 DEF Nothing, WriteOK
  <2>9. /\ t.id = u /\ t.base = None /\ t.new = new /\ t.writes
        /\ t.entries = {entry} \cup failures /\ t.session = {u}
    BY <2>6 DEF Nothing
  <2>10. /\ Entry("signup", TRUE, u) \in t.entries
         /\ \A a \in t.entries : a = Entry("signup", TRUE, u) \/ ~a.completed
    BY <2>2, <2>7, <2>9
  <2>11. Vouched(t.new.email)'
    BY <1>2, <2>4, <2>9
  <2>12. t.new # None /\ t.session = {u} /\ t.new.verified
    BY <2>5, <2>9
  <2> QED
    BY <1>2, <1>3, <2>6, <2>8, <2>9, <2>10, <2>11, <2>12, InsertOpens
<1>4. ASSUME NEW u \in Holder(email),
             Begin(w, [Nothing EXCEPT
                         !.id = u, !.base = user[u], !.new = WithVerified(user[u]),
                         !.writes = renamed \/ ~user[u].verified,
                         !.entries = {Entry("login", TRUE, u)}, !.session = {u}])
      PROVE  Opens(w)
  <2> DEFINE entry == Entry("login", TRUE, u)
             new == WithVerified(user[u])
             writes == renamed \/ ~user[u].verified
  <2>1. /\ u \in Ids /\ u # None
        /\ u \in Live(user) /\ user[u] # None /\ user[u].email = email
    BY <1>4, HolderIsLive, AccountAssumption
  <2>2. entry \in AuditEntry
    BY <2>1 DEF Entry, AuditEntry
  <2>3. /\ user[u] \in UserRow /\ new \in UserRow
        /\ new.email = user[u].email /\ new.active = user[u].active
        /\ new.roles = user[u].roles /\ new.password = user[u].password /\ new.verified
    BY <2>1, RowTypes DEF AccountInv
  <2>4. new # None
    BY <2>3, AccountAssumption
  <2>5. PICK t : /\ t = [Nothing EXCEPT !.id = u, !.base = user[u], !.new = new,
                                        !.writes = writes,
                                        !.entries = {entry}, !.session = {u}]
                 /\ Begin(w, t)
    BY <1>4
  <2>6. entry = Entry("login", TRUE, u)
    OBVIOUS
  <2>7. writes \/ user[u].verified
    OBVIOUS
  <2> HIDE DEF entry, new
  <2>8. WriteOK(t)
    BY <2>1, <2>2, <2>3, <2>5 DEF Nothing, WriteOK, UserRow
  <2>9. /\ t.id = u /\ t.base = user[u] /\ t.new = new /\ t.entries = {entry}
        /\ t.session = {u} /\ t.writes = writes
    BY <2>5 DEF Nothing
  <2> HIDE DEF writes
  <2>10. Vouched(t.new.email)'
    BY <1>2, <2>1, <2>3, <2>9
  <2>11. t.new # None /\ t.new.verified /\ (t.writes \/ user[u].verified)
    BY <2>3, <2>4, <2>7, <2>9
  <2>12. /\ t.new.email = t.base.email /\ t.new.active = t.base.active
         /\ t.new.roles = t.base.roles /\ t.new.password = t.base.password
    BY <2>3, <2>9
  <2>13. t.entries = {Entry("login", TRUE, u)} /\ t.session = {u}
    BY <2>6, <2>9
  <2>14. t.id = u /\ t.base = user[u] /\ Begin(w, t) /\ WriteOK(t) /\ u \in Live(user)
    BY <2>1, <2>5, <2>8, <2>9
  <2> QED
    BY <1>2, <2>10, <2>11, <2>12, <2>13, <2>14, UpdateOpens
<1>5. CASE Fail(w, "login", Holder(email))
  <2> DEFINE entries == FailureOf("login", Holder(email))
  <2>1. \A a \in entries : a \in AuditEntry /\ ~a.completed
    BY FailureTypes, HolderTypes
  <2>2. PICK t : t = [Nothing EXCEPT !.entries = entries] /\ Begin(w, t)
    BY <1>5 DEF Fail
  <2> HIDE DEF entries
  <2>3. WriteOK(t)
    BY <2>1, <2>2 DEF Nothing, WriteOK
  <2>4. t.id = None /\ ~t.writes /\ t.entries = entries /\ t.session = {}
    BY <2>2 DEF Nothing
  <2> QED
    BY <1>2, <2>1, <2>2, <2>3, <2>4, ReadOnlyOpens
<1> QED
  BY <1>1, <1>3, <1>4, <1>5

LEMMA HandlersOpen ==
  ASSUME AccountInv, NEW w \in Workers, Handle(w)
  PROVE  Opens(w)
BY LogInOpens, ContinuingOpens, ForgotPasswordOpens, ResetPasswordOpens, VerifyEmailOpens,
   ResendOpens, SignUpOpens, AuthorizedOpens, UpdateUserOpens, DeleteUserOpens DEF Handle

(***************************************************************************)
(* The steps keep the invariant.                                           *)
(***************************************************************************)

(* What a request counts on survives more mail and more addresses.         *)
LEMMA RequestKept ==
  ASSUME NEW t, RequestFits(t), UNCHANGED <<user, audit>>,
         tokens \subseteq tokens', vouched \subseteq vouched'
  PROVE  RequestFits(t)'
<1>1. EntriesFit(t)'
  BY DEF RequestFits, EntriesFit, Inserts, Removes
<1>2. SessionFits(t)' /\ LoginFits(t)'
  BY DEF RequestFits, SessionFits, LoginFits, Inserts, Ever
<1>3. UpdateFits(t) => UpdateFits(t)'
  BY DEF UpdateFits
<1>4. WriteFits(t)'
  BY <1>3 DEF RequestFits, WriteFits, Ever, Vouched, Inserts, Updates
<1> QED
  BY <1>1, <1>2, <1>4 DEF RequestFits

(* The same for the accounts and their log.                                *)
LEMMA AccountsKept ==
  ASSUME AccountInv, UNCHANGED <<user, audit>>, sessions' \subseteq sessions,
         tokens \subseteq tokens', vouched \subseteq vouched'
  PROVE  VerifiedByOwner' /\ SessionsAreVerified' /\ AuditTells' /\ TracesFit'
<1>1. VerifiedByOwner'
  BY DEF AccountInv, VerifiedByOwner, Live
<1>2. SessionsAreVerified'
  BY DEF AccountInv, SessionsAreVerified
<1>3. AuditTells'
  BY DEF AccountInv, AuditTells, Live
<1>4. TracesFit'
  BY DEF AccountInv, TracesFit, Ever
<1> QED
  BY <1>1, <1>2, <1>3, <1>4

LEMMA OpensKeeps ==
  ASSUME AccountInv, NEW w \in Workers, Opens(w)
  PROVE  AccountInv'
<1>1. PICK t : /\ WriteOK(t)
               /\ EntriesFit(t) /\ SessionFits(t) /\ LoginFits(t) /\ WriteFits(t)'
               /\ t.flushed => ~t.writes
               /\ \A v \in Workers : tx[v] # None /\ (Inserts(t) \/ Inserts(tx[v])) =>
                    tx[v].id # t.id
               /\ tx' = [tx EXCEPT ![w] = t]
  BY DEF Opens
<1>2. /\ tx[w] = None
      /\ requests < MaxRequests /\ requests' = requests + 1
      /\ vouched \subseteq vouched' /\ vouched' \subseteq Emails
      /\ UNCHANGED <<user, audit, tokens, sessions>>
  BY DEF Opens
<1>3. /\ DOMAIN tx' = Workers /\ tx'[w] = t
      /\ \A v \in Workers \ {w} : tx'[v] = tx[v]
  BY <1>1 DEF AccountInv, TypeOK
<1>4. TypeOK'
  <2>1. requests' \in 0 .. MaxRequests
    BY <1>2, AccountAssumption DEF AccountInv, TypeOK
  <2>2. \A v \in Workers : tx'[v] = None \/ WriteOK(tx'[v])
    BY <1>1, <1>3 DEF AccountInv, TypeOK
  <2> QED
    BY <1>2, <1>3, <2>1, <2>2 DEF AccountInv, TypeOK, UniqueEmails, Live, WriteOK
<1>5. VerifiedByOwner' /\ SessionsAreVerified' /\ AuditTells' /\ TracesFit'
  BY <1>2, AccountsKept
<1>6. LocksHold'
  <2>1. ASSUME NEW s, Accepted(s)
        PROVE  Accepted(s)'
    BY <1>2, <2>1 DEF Accepted, Holder, Live
  <2>2. Accepted(t)' \/ ~t.flushed
    BY <1>1 DEF Accepted
  <2>3. ASSUME NEW s
        PROVE  /\ t.flushed => ~Conflicts(s, t) /\ ~Conflicts(t, s)
    BY <1>1 DEF Conflicts
  <2>4. ASSUME NEW v \in Workers, tx'[v] # None, tx'[v].flushed
        PROVE  Accepted(tx[v])'
    <3>1. PICK s : s = tx'[v]
      OBVIOUS
    <3>2. Accepted(s)'
      BY <1>3, <2>1, <2>2, <2>4, <3>1 DEF AccountInv, LocksHold
    <3> QED
      BY <3>1, <3>2
  <2>5. ASSUME NEW v \in Workers, NEW x \in Workers, v # x, tx'[v] # None, tx'[x] # None
        PROVE  /\ tx'[v].flushed /\ tx'[x].flushed => ~Conflicts(tx'[v], tx'[x])
               /\ Inserts(tx'[v]) => tx'[x].id # tx'[v].id
    <3>1. CASE v # w /\ x # w
      BY <1>3, <2>5, <3>1 DEF AccountInv, LocksHold
    <3>2. CASE v = w
      BY <1>1, <1>3, <2>3, <2>5, <3>2
    <3>3. CASE x = w
      BY <1>1, <1>3, <2>3, <2>5, <3>3
    <3> QED
      BY <3>1, <3>2, <3>3
  <2> QED
    BY <2>4, <2>5 DEF LocksHold, Conflicts, Inserts
<1>7. ASSUME NEW v \in Workers, tx'[v] # None
      PROVE  RequestFits(tx[v])'
  <2>1. CASE v = w
    <3>1. SessionFits(t)' /\ LoginFits(t)' /\ EntriesFit(t)'
      BY <1>1, <1>2 DEF SessionFits, LoginFits, EntriesFit, Ever, Inserts, Removes
    <3>2. RequestFits(t)'
      BY <1>1, <3>1 DEF RequestFits
    <3> QED
      BY <1>3, <2>1, <3>2 DEF RequestFits
  <2>2. CASE v # w
    <3>1. PICK s : s = tx[v] /\ s = tx'[v]
      BY <1>3, <2>2
    <3>2. RequestFits(s)'
      BY <1>2, <1>7, <3>1, RequestKept DEF AccountInv
    <3> QED
      BY <3>1, <3>2
  <2> QED
    BY <2>1, <2>2
<1> QED
  BY <1>4, <1>5, <1>6, <1>7 DEF AccountInv

(* A request is what it asks for, whether it is flushed or not.            *)
LEMMA SameRequest ==
  ASSUME NEW s, NEW r, RequestFits(s)',
         r.id = s.id, r.base = s.base, r.new = s.new, r.writes = s.writes,
         r.entries = s.entries, r.session = s.session
  PROVE  RequestFits(r)'
<1>1. EntriesFit(r)'
  BY DEF RequestFits, EntriesFit, Inserts, Removes
<1>2. SessionFits(r)' /\ LoginFits(r)'
  BY DEF RequestFits, SessionFits, LoginFits, Inserts
<1>3. WriteFits(r)'
  BY DEF RequestFits, WriteFits, Inserts, Updates, UpdateFits
<1> QED
  BY <1>1, <1>2, <1>3 DEF RequestFits

(* Nor does it matter to what conflicts with it, in either order.          *)
LEMMA ConflictsAlike ==
  ASSUME NEW x, NEW s, NEW r,
         r.id = s.id, r.base = s.base, r.new = s.new, r.writes = s.writes
  PROVE  /\ Conflicts(x, r) <=> Conflicts(x, s)
         /\ Conflicts(r, x) <=> Conflicts(x, s)
<1>1. OnlyRoles(r) = OnlyRoles(s) /\ Reassigned(r) = Reassigned(s)
  BY DEF OnlyRoles, Reassigned, NewRoles
<1> QED
  BY <1>1 DEF Conflicts

(* A flush lets mail out, so that tokens grow, and locks the row.          *)
LEMMA FlushKeeps ==
  ASSUME AccountInv, NEW w \in Workers, Flush(w)
  PROVE  AccountInv'
<1>1. PICK s : s = tx[w]
  OBVIOUS
<1>2. /\ s # None /\ ~s.flushed /\ Accepted(s)
      /\ \A v \in Workers \ {w} : tx[v] # None /\ tx[v].flushed => ~Conflicts(tx[v], s)
      /\ tx' = [tx EXCEPT ![w].flushed = TRUE]
      /\ UNCHANGED <<user, audit, vouched, sessions, requests>>
  BY <1>1 DEF Flush
<1>3. tokens \subseteq tokens' /\ tokens' \subseteq tokens \cup s.mail
  BY <1>1 DEF Flush
<1>4. WriteOK(s) /\ RequestFits(s)
  BY <1>1, <1>2 DEF AccountInv, TypeOK
<1>5. PICK r : r = [s EXCEPT !.flushed = TRUE]
  OBVIOUS
<1>6. /\ WriteOK(r)
      /\ r.id = s.id /\ r.base = s.base /\ r.new = s.new /\ r.writes = s.writes
      /\ r.entries = s.entries /\ r.session = s.session /\ r.flushed
  BY <1>4, <1>5 DEF WriteOK
<1>7. /\ DOMAIN tx' = Workers /\ tx'[w] = r
      /\ \A v \in Workers \ {w} : tx'[v] = tx[v]
  BY <1>1, <1>2, <1>5 DEF AccountInv, TypeOK
<1>8. TypeOK'
  <2>1. \A v \in Workers : tx'[v] = None \/ WriteOK(tx'[v])
    BY <1>6, <1>7 DEF AccountInv, TypeOK
  <2>2. tokens' \subseteq TokenSet
    BY <1>3, <1>4 DEF AccountInv, TypeOK, WriteOK
  <2>3. (\A v \in Workers : tx[v] = None \/ WriteOK(tx[v]))'
    BY <2>1 DEF WriteOK
  <2>4. UniqueEmails(user)'
    BY <1>2 DEF AccountInv, TypeOK, UniqueEmails, Live
  <2> QED
    BY <1>2, <1>7, <2>2, <2>3, <2>4 DEF AccountInv, TypeOK
<1>9. VerifiedByOwner' /\ SessionsAreVerified' /\ AuditTells' /\ TracesFit'
  BY <1>2, <1>3, AccountsKept
<1>10. LocksHold'
  <2>1. ASSUME NEW x, Accepted(x)
        PROVE  Accepted(x)'
    BY <1>2, <2>1 DEF Accepted, Holder, Live
  <2>2. Accepted(r)
    BY <1>2, <1>6 DEF Accepted, OnlyRoles, NewRoles, Reassigned
  <2>3. ASSUME NEW v \in Workers, tx'[v] # None, tx'[v].flushed
        PROVE  Accepted(tx[v])'
    <3>1. PICK x : x = tx'[v]
      OBVIOUS
    <3>2. Accepted(x)'
      BY <1>7, <2>1, <2>2, <2>3, <3>1 DEF AccountInv, LocksHold
    <3> QED
      BY <3>1, <3>2
  <2>4. ASSUME NEW v \in Workers, NEW x \in Workers, v # x, tx'[v] # None, tx'[x] # None
        PROVE  /\ tx'[v].flushed /\ tx'[x].flushed => ~Conflicts(tx'[v], tx'[x])
               /\ Inserts(tx'[v]) => tx'[x].id # tx'[v].id
    <3>1. CASE v # w /\ x # w
      BY <1>7, <2>4, <3>1 DEF AccountInv, LocksHold
    <3>2. CASE v = w
      <4>1. tx[x] = tx'[x] /\ tx'[v] = r /\ tx[v] = s
        BY <1>1, <1>7, <2>4, <3>2
      <4>2. tx[x].flushed => ~Conflicts(r, tx[x])
        <5>1. Conflicts(r, tx[x]) <=> Conflicts(tx[x], s)
          BY <1>6, ConflictsAlike
        <5> QED
          BY <1>2, <2>4, <3>2, <4>1, <5>1
      <4>3. Inserts(r) => tx[x].id # r.id
        BY <1>2, <1>6, <2>4, <4>1, ZenonT(40) DEF AccountInv, LocksHold, Inserts
      <4> QED
        BY <4>1, <4>2, <4>3
    <3>3. CASE x = w
      <4>1. tx[v] = tx'[v] /\ tx'[x] = r /\ tx[x] = s
        BY <1>1, <1>7, <2>4, <3>3
      <4>2. tx[v].flushed => ~Conflicts(tx[v], r)
        <5>1. Conflicts(tx[v], r) <=> Conflicts(tx[v], s)
          BY <1>6, ConflictsAlike
        <5> QED
          BY <1>2, <2>4, <3>3, <4>1, <5>1
      <4>3. Inserts(tx[v]) => r.id # tx[v].id
        BY <1>2, <1>6, <2>4, <4>1 DEF AccountInv, LocksHold
      <4> QED
        BY <4>1, <4>2, <4>3
    <3> QED
      BY <3>1, <3>2, <3>3
  <2> QED
    BY <2>3, <2>4 DEF LocksHold, Conflicts, Inserts
<1>11. ASSUME NEW v \in Workers, tx'[v] # None
       PROVE  RequestFits(tx[v])'
  <2>1. PICK x : x = tx'[v]
    OBVIOUS
  <2>2. CASE v = w
    <3>1. RequestFits(s)'
      BY <1>2, <1>3, <1>4, RequestKept
    <3>2. RequestFits(x)'
      BY <1>6, <1>7, <2>1, <2>2, <3>1, SameRequest
    <3> QED
      BY <2>1, <3>2
  <2>3. CASE v # w
    <3>1. RequestFits(x)'
      BY <1>2, <1>3, <1>7, <1>11, <2>1, <2>3, RequestKept DEF AccountInv
    <3> QED
      BY <2>1, <3>1
  <2> QED
    BY <2>2, <2>3
<1> QED
  BY <1>8, <1>9, <1>10, <1>11 DEF AccountInv

(* The row that a commit leaves: a merged one is as verified as the row    *)
(* that was there and as the write, and differs where the write differs,   *)
(* or where a password is put back.                                        *)
LEMMA MergedRowFits ==
  ASSUME TypeOK, NEW s, WriteOK(s), Updates(s), UpdateFits(s), user[s.id] # None
  PROVE  LET cur == user[s.id]
             row == MergedRow(s)
         IN  /\ s.id \in Ids
             /\ row \in UserRow
             /\ row.email = cur.email /\ row.email = s.new.email
             /\ cur.verified => row.verified
             /\ s.new.verified => row.verified
             /\ row.verified => cur.verified \/ s.new.verified
             /\ row.active # cur.active => s.new.active # s.base.active
             /\ row.roles # cur.roles => s.new.roles # s.base.roles
             /\ row.password # cur.password =>
                  s.new.password # s.base.password \/ cur.password # s.base.password
             /\ row.roles = (cur.roles \ (s.base.roles \ s.new.roles)) \cup NewRoles(s)
<1> DEFINE cur == user[s.id]
           row == MergedRow(s)
<1>1. s.id \in Ids /\ cur # None
  BY DEF Updates, WriteOK
<1>2. cur \in UserRow /\ s.base \in UserRow /\ s.new \in UserRow
  BY <1>1 DEF TypeOK, WriteOK, Updates
<1>3. row = [email    |-> cur.email,
             password |-> IF s.hashes THEN s.new.password ELSE cur.password,
             outdated |-> IF s.hashes THEN s.new.outdated ELSE cur.outdated,
             active   |-> Column(s.base.active, s.new.active, cur.active),
             verified |-> Column(s.base.verified, s.new.verified, cur.verified),
             roles    |-> (cur.roles \ (s.base.roles \ s.new.roles))
                            \cup (s.new.roles \ s.base.roles)]
  BY <1>1 DEF MergedRow, Updates
<1>4. cur.email = s.base.email /\ s.new.email = s.base.email
  BY <1>1 DEF UpdateFits
<1>5. /\ s.base.verified => s.new.verified
      /\ s.base.verified => cur.verified
  BY <1>1 DEF UpdateFits
<1>6. row \in UserRow
  BY <1>2, <1>3 DEF UserRow, Column
<1>7. /\ cur.verified \in BOOLEAN /\ s.base.verified \in BOOLEAN /\ s.new.verified \in BOOLEAN
  BY <1>2 DEF UserRow
<1>8. row.verified = Column(s.base.verified, s.new.verified, cur.verified)
  BY <1>3
<1>9. /\ cur.verified => row.verified
      /\ s.new.verified => row.verified
      /\ row.verified => cur.verified \/ s.new.verified
  BY <1>5, <1>7, <1>8 DEF Column
<1>10. /\ row.active # cur.active => s.new.active # s.base.active
       /\ row.password # cur.password =>
            s.new.password # s.base.password \/ cur.password # s.base.password
  BY <1>3 DEF Column
<1>11. /\ s.new.roles = s.base.roles => row.roles = cur.roles
       /\ row.roles = (cur.roles \ (s.base.roles \ s.new.roles)) \cup NewRoles(s)
  BY <1>3 DEF NewRoles
<1> QED
  BY <1>1, <1>3, <1>4, <1>6, <1>9, <1>10, <1>11

LEMMA CommitRows ==
  ASSUME AccountInv, NEW w \in Workers, Commit(w), NEW s, s = tx[w]
  PROVE  /\ user' \in [Ids -> UserRow \cup {None}]
         /\ s.writes => s.id \in Ids
         /\ \A u \in Ids : ~s.writes \/ u # s.id => user'[u] = user[u]
         /\ Inserts(s) => /\ user[s.id] = None /\ ~Ever(s.id) /\ Holder(s.new.email) = {}
                          /\ s.new # None /\ user'[s.id] = s.new
         /\ Removes(s) => user'[s.id] = None
         /\ Updates(s) => /\ user'[s.id] = MergedRow(s)
                          /\ user[s.id] = None => user'[s.id] = None
<1>1. /\ s # None /\ WriteOK(s) /\ RequestFits(s) /\ Accepted(s)
      /\ user' = RowsAfter(s)
  BY DEF Commit, AccountInv, TypeOK, LocksHold
<1>2. s.writes => s.id \in Ids /\ (s.base # None \/ s.new # None)
  BY <1>1 DEF WriteOK
<1>3. user \in [Ids -> UserRow \cup {None}] /\ TypeOK
  BY DEF AccountInv, TypeOK
<1>4. s.writes => user' = [user EXCEPT ![s.id] = MergedRow(s)]
  BY <1>1 DEF RowsAfter
<1>5. ~s.writes => user' = user
  BY <1>1 DEF RowsAfter
<1>6. CASE ~s.writes
  BY <1>3, <1>5, <1>6 DEF Inserts, Removes, Updates
<1>7. CASE s.writes
  <2>1. \A u \in Ids : user'[u] = IF u = s.id THEN MergedRow(s) ELSE user[u]
    BY <1>3, <1>4, <1>7
  <2>2. CASE Inserts(s)
    <3>1. MergedRow(s) = s.new /\ s.new # None /\ s.new \in UserRow
      BY <1>1, <1>2, <2>2 DEF MergedRow, Inserts, WriteOK
    <3>2. ~Ever(s.id) /\ Holder(s.new.email) = {}
      BY <1>1, <2>2 DEF RequestFits, WriteFits, Accepted, Inserts
    <3>3. user[s.id] = None
      BY <1>2, <1>7, <3>2, LiveIsEver DEF Live
    <3> QED
      BY <1>2, <1>3, <1>4, <1>7, <2>1, <2>2, <3>1, <3>2, <3>3 DEF Inserts, Removes, Updates
  <2>3. CASE Removes(s)
    <3>1. MergedRow(s) = None
      BY <2>3 DEF MergedRow, Removes
    <3> QED
      BY <1>2, <1>3, <1>4, <1>7, <2>1, <2>3, <3>1 DEF Inserts, Removes, Updates
  <2>4. CASE Updates(s)
    <3>1. UpdateFits(s)
      BY <1>1, <2>4 DEF RequestFits, WriteFits
    <3>2. /\ user[s.id] = None => MergedRow(s) = None
          /\ MergedRow(s) \in UserRow \cup {None}
      BY <1>1, <1>3, <2>4, <3>1, MergedRowFits DEF MergedRow, Updates
    <3> QED
      BY <1>2, <1>3, <1>4, <1>7, <2>1, <2>4, <3>2 DEF Inserts, Removes, Updates
  <2> QED
    BY <1>7, <2>2, <2>3, <2>4 DEF Inserts, Removes, Updates
<1> QED
  BY <1>6, <1>7

(* What a commit does to any account.                                      *)
LEMMA CommitMoves ==
  ASSUME AccountInv, NEW w \in Workers, Commit(w), NEW s, s = tx[w], NEW u \in Ids
  PROVE  /\ user[u] # None /\ user'[u] # None =>
              /\ user'[u].email = user[u].email
              /\ user[u].verified => user'[u].verified
         /\ user[u] = None /\ user'[u] # None =>
              Inserts(s) /\ s.id = u /\ ~Ever(u) /\ user'[u] = s.new
         /\ user[u] # None /\ user'[u] = None => Removes(s) /\ s.id = u
         /\ user'[u] # None /\ user'[u].verified =>
              \/ user[u] # None /\ user[u].verified
              \/ /\ s.writes /\ s.new # None /\ s.new.verified
                 /\ s.new.email = user'[u].email
         /\ s.writes /\ s.id = u /\ s.new # None /\ s.new.verified /\ user'[u] # None =>
              user'[u].verified
<1>1. s # None /\ WriteOK(s) /\ RequestFits(s) /\ Accepted(s) /\ TypeOK
  BY DEF Commit, AccountInv, TypeOK, LocksHold
<1>2. CASE ~s.writes \/ u # s.id
  <2>1. user'[u] = user[u] /\ (~s.writes \/ s.id # u)
    BY <1>2, CommitRows
  <2> QED
    BY <2>1
<1>3. CASE s.writes /\ u = s.id
  <2>1. CASE Inserts(s)
    <3>1. user[u] = None /\ ~Ever(u) /\ s.new # None /\ user'[u] = s.new
      BY <1>3, <2>1, CommitRows
    <3> QED
      BY <1>3, <2>1, <3>1
  <2>2. CASE Removes(s)
    <3>1. user'[u] = None /\ s.new = None
      BY <1>3, <2>2, CommitRows DEF Removes
    <3> QED
      BY <1>3, <2>2, <3>1
  <2>3. CASE Updates(s)
    <3>1. user'[u] = MergedRow(s) /\ (user[u] = None => user'[u] = None)
      BY <1>3, <2>3, CommitRows
    <3>2. UpdateFits(s) /\ s.new # None
      BY <1>1, <2>3 DEF RequestFits, WriteFits, Updates
    <3>3. CASE user[u] = None
      BY <3>1, <3>3
    <3>4. CASE user[u] # None
      <4>1. LET row == MergedRow(s)
            IN  /\ row \in UserRow
                /\ row.email = user[u].email /\ row.email = s.new.email
                /\ user[u].verified => row.verified
                /\ s.new.verified => row.verified
                /\ row.verified => user[u].verified \/ s.new.verified
        BY <1>1, <1>3, <2>3, <3>2, <3>4, MergedRowFits
      <4>2. MergedRow(s) # None
        BY <4>1, AccountAssumption
      <4>3. PICK row : row = MergedRow(s)
        OBVIOUS
      <4>4. /\ user'[u] = row /\ row # None
            /\ row.email = user[u].email /\ row.email = s.new.email
            /\ user[u].verified => row.verified
            /\ s.new.verified => row.verified
            /\ row.verified => user[u].verified \/ s.new.verified
        BY <3>1, <4>1, <4>2, <4>3
      <4> QED
        BY <1>3, <3>2, <3>4, <4>4
    <3> QED
      BY <3>3, <3>4
  <2> QED
    BY <1>1, <1>3, <2>1, <2>2, <2>3 DEF Inserts, Removes, Updates
<1> QED
  BY <1>2, <1>3

(* It changes a password, or puts one back, after a reset only.            *)
LEMMA CommitPasswords ==
  ASSUME AccountInv, NEW w \in Workers, Commit(w), NEW s, s = tx[w], NEW u \in Ids,
         user[u] # None, user'[u] # None, user'[u].password # user[u].password
  PROVE  ResetLink(user[u].email) \in tokens /\ Entry("change_password", TRUE, u) \in audit'
<1>1. /\ s # None /\ WriteOK(s) /\ RequestFits(s) /\ TypeOK /\ audit' = audit \cup s.entries
  BY DEF Commit, AccountInv, TypeOK
<1>2. s.writes /\ s.id = u
  BY CommitRows
<1>3. Updates(s) /\ user'[u] = MergedRow(s)
  BY <1>1, <1>2, CommitRows DEF Inserts, Removes, Updates, WriteOK
<1>4. UpdateFits(s)
  BY <1>1, <1>3 DEF RequestFits, WriteFits
<1>5. PICK row : row = MergedRow(s)
  OBVIOUS
<1>6. row.password # user[u].password =>
        s.new.password # s.base.password \/ user[u].password # s.base.password
  BY <1>1, <1>2, <1>3, <1>4, <1>5, MergedRowFits
<1> QED
  BY <1>1, <1>2, <1>3, <1>4, <1>5, <1>6 DEF UpdateFits

(* What a commit adds to the log.                                          *)
LEMMA CommitLogs ==
  ASSUME AccountInv, NEW w \in Workers, Commit(w), NEW s, s = tx[w], NEW u \in Ids
  PROVE  /\ Entry("signup", TRUE, u) \in audit' <=>
              Entry("signup", TRUE, u) \in audit \/ (Inserts(s) /\ s.id = u)
         /\ Entry("delete", TRUE, u) \in audit' <=>
              Entry("delete", TRUE, u) \in audit \/ (Removes(s) /\ s.id = u)
         /\ Ever(u)' <=> Ever(u) \/ (Inserts(s) /\ s.id = u)
         /\ Removes(s) /\ s.id = u => Ever(u)
<1>1. /\ s # None /\ EntriesFit(s) /\ WriteFits(s) /\ audit' = audit \cup s.entries
  BY DEF Commit, AccountInv, RequestFits
<1>2. /\ Entry("signup", TRUE, u) \in s.entries <=> Inserts(s) /\ s.id = u
      /\ Entry("delete", TRUE, u) \in s.entries <=> Removes(s) /\ s.id = u
  BY <1>1 DEF EntriesFit
<1>3. Removes(s) /\ s.id = u => Ever(u)
  BY <1>1 DEF WriteFits, Removes
<1> QED
  BY <1>1, <1>2, <1>3 DEF Ever

(* A commit may take the verification of no account that ever was back.    *)
LEMMA CommitVerifies ==
  ASSUME AccountInv, NEW w \in Workers, Commit(w), NEW u \in Ids, Ever(u),
         user[u] # None => user[u].verified, user'[u] # None
  PROVE  user'[u].verified
<1>1. PICK s : s = tx[w]
  OBVIOUS
<1> QED
  BY <1>1, CommitMoves

LEMMA CommitKeepsAccounts ==
  ASSUME AccountInv, NEW w \in Workers, Commit(w)
  PROVE  VerifiedByOwner' /\ SessionsAreVerified' /\ AuditTells' /\ TracesFit'
<1>1. PICK s : s = tx[w]
  OBVIOUS
<1>2. /\ s # None /\ WriteOK(s) /\ RequestFits(s)
      /\ audit' = audit \cup s.entries /\ tokens' = tokens \cup s.reply
      /\ sessions' = sessions \cup s.session /\ vouched' = vouched
  BY <1>1 DEF Commit, AccountInv, TypeOK
<1>3. ASSUME NEW u \in s.session
      PROVE  /\ u \in Ids
             /\ Entry("login", TRUE, u) \in s.entries \/ Entry("signup", TRUE, u) \in s.entries
             /\ \/ s.writes /\ s.id = u /\ s.new # None /\ s.new.verified
                \/ Ever(u) /\ (user[u] # None => user[u].verified)
  BY <1>2 DEF RequestFits, SessionFits, WriteOK
<1>4. sessions \subseteq Ids
  BY DEF AccountInv, TypeOK
<1>5. VerifiedByOwner'
  <2>1. ASSUME NEW u \in Ids, user'[u] # None, user'[u].verified
        PROVE  Vouched(user[u].email)'
    <3>1. CASE user[u] # None /\ user[u].verified
      <4>1. user'[u].email = user[u].email
        BY <1>1, <2>1, <3>1, CommitMoves
      <4>2. Vouched(user[u].email)
        BY <3>1 DEF AccountInv, VerifiedByOwner, Vouched, Live
      <4> QED
        BY <1>2, <4>1, <4>2 DEF Vouched
    <3>2. CASE s.writes /\ s.new # None /\ s.new.verified /\ s.new.email = user'[u].email
      <4>1. Vouched(s.new.email)
        BY <1>2, <3>2 DEF RequestFits, WriteFits
      <4> QED
        BY <1>2, <3>2, <4>1 DEF Vouched
    <3> QED
      BY <1>1, <2>1, <3>1, <3>2, CommitMoves
  <2> QED
    BY <2>1 DEF VerifiedByOwner, Vouched, Live
<1>6. SessionsAreVerified'
  <2>1. ASSUME NEW u \in sessions', user'[u] # None
        PROVE  user'[u].verified
    <3>1. u \in Ids
      BY <1>2, <1>3, <1>4, <2>1
    <3>2. CASE u \in sessions
      BY <2>1, <3>1, <3>2, CommitVerifies DEF AccountInv, SessionsAreVerified, TracesFit
    <3>3. CASE u \in s.session /\ s.writes /\ s.id = u /\ s.new # None /\ s.new.verified
      BY <1>1, <2>1, <3>1, <3>3, CommitMoves
    <3>4. CASE Ever(u) /\ (user[u] # None => user[u].verified)
      BY <2>1, <3>1, <3>4, CommitVerifies
    <3> QED
      BY <1>2, <1>3, <2>1, <3>2, <3>3, <3>4
  <2> QED
    BY <2>1 DEF SessionsAreVerified
<1>7. AuditTells'
  <2>1. ASSUME NEW u \in Ids
        PROVE  user'[u] # None <=>
                 Ever(u)' /\ Entry("delete", TRUE, u) \notin audit'
    <3>1. user[u] # None <=> Ever(u) /\ Entry("delete", TRUE, u) \notin audit
      BY DEF AccountInv, AuditTells, Ever, Live
    <3>2. CASE Inserts(s) /\ s.id = u
      <4>1. user'[u] # None /\ ~Ever(u) /\ ~Removes(s)
        BY <1>1, <3>2, CommitRows DEF Inserts, Removes
      <4>2. Entry("delete", TRUE, u) \notin audit
        BY <4>1 DEF AccountInv, TracesFit
      <4> QED
        BY <1>1, <3>2, <4>1, <4>2, CommitLogs
    <3>3. CASE Removes(s) /\ s.id = u
      <4>1. user'[u] = None
        BY <1>1, <3>3, CommitRows
      <4> QED
        BY <1>1, <3>3, <4>1, CommitLogs
    <3>4. CASE ~(Inserts(s) /\ s.id = u) /\ ~(Removes(s) /\ s.id = u)
      <4>1. user'[u] # None <=> user[u] # None
        BY <1>1, <3>4, CommitMoves
      <4> QED
        BY <1>1, <3>1, <3>4, <4>1, CommitLogs
    <3> QED
      BY <3>2, <3>3, <3>4
  <2>2. ASSUME NEW u \in sessions'
        PROVE  Entry("login", TRUE, u) \in audit' \/ Entry("signup", TRUE, u) \in audit'
    BY <1>2, <1>3, <2>2 DEF AccountInv, AuditTells
  <2> QED
    BY <2>1, <2>2 DEF AuditTells, Ever, Live
<1>8. TracesFit'
  <2>1. ASSUME NEW u \in Ids, Entry("delete", TRUE, u) \in audit'
        PROVE  Ever(u)'
    <3>1. CASE Entry("delete", TRUE, u) \in audit
      BY <1>1, <3>1, CommitLogs DEF AccountInv, TracesFit
    <3>2. CASE Removes(s) /\ s.id = u
      BY <1>1, <3>2, CommitLogs
    <3> QED
      BY <1>1, <2>1, <3>1, <3>2, CommitLogs
  <2>2. ASSUME NEW u \in sessions'
        PROVE  Ever(u)'
    <3>1. u \in Ids
      BY <1>2, <1>3, <1>4, <2>2
    <3>2. CASE Ever(u)
      BY <1>1, <3>1, <3>2, CommitLogs
    <3>3. CASE s.writes /\ s.id = u
      <4>1. CASE s.base = None
        BY <1>1, <3>1, <3>3, <4>1, CommitLogs DEF Inserts
      <4>2. CASE s.base # None
        <5>1. Ever(u)
          BY <1>2, <3>3, <4>2 DEF RequestFits, WriteFits
        <5> QED
          BY <3>2, <5>1
      <4> QED
        BY <4>1, <4>2
    <3> QED
      BY <1>2, <1>3, <2>2, <3>2, <3>3 DEF AccountInv, TracesFit
  <2> QED
    BY <2>1, <2>2 DEF TracesFit
<1> QED
  BY <1>5, <1>6, <1>7, <1>8

(* A commit takes nothing away from the requests that are still under way. *)
LEMMA CommitKeepsRequest ==
  ASSUME AccountInv, NEW w \in Workers, Commit(w), NEW v \in Workers \ {w},
         NEW x, x = tx[v], x # None
  PROVE  RequestFits(x)'
<1>1. PICK s : s = tx[w]
  OBVIOUS
<1>2. /\ s # None /\ WriteOK(s) /\ WriteOK(x) /\ RequestFits(x)
      /\ Inserts(s) => x.id # s.id
      /\ audit' = audit \cup s.entries /\ tokens' = tokens \cup s.reply /\ vouched' = vouched
  BY <1>1 DEF Commit, AccountInv, TypeOK, LocksHold
<1>3. EntriesFit(x)'
  BY <1>2 DEF RequestFits, EntriesFit, Inserts, Removes
<1>4. ASSUME NEW u, Ever(u)
      PROVE  Ever(u)'
  BY <1>2, <1>4 DEF Ever
<1>5. SessionFits(x)'
  <2>1. ASSUME NEW u \in x.session
        PROVE  /\ {Entry("login", TRUE, u), Entry("signup", TRUE, u)} \cap x.entries # {}
               /\ \/ x.writes /\ x.id = u /\ x.new # None /\ x.new.verified
                  \/ Ever(u)' /\ (user'[u] # None => user'[u].verified)
    <3>1. u \in Ids
      BY <1>2, <2>1 DEF WriteOK
    <3>2. CASE Ever(u) /\ (user[u] # None => user[u].verified)
      BY <1>2, <1>4, <2>1, <3>1, <3>2, CommitVerifies DEF RequestFits, SessionFits
    <3> QED
      BY <1>2, <2>1, <3>2 DEF RequestFits, SessionFits
  <2> QED
    BY <2>1 DEF SessionFits
<1>8. LoginFits(x)'
  BY <1>2 DEF RequestFits, LoginFits, Inserts
<1>6. ASSUME Updates(x)
      PROVE  UpdateFits(x)'
  <2>1. UpdateFits(x) /\ Ever(x.id) /\ x.id \in Ids
    BY <1>2, <1>6 DEF RequestFits, WriteFits, Updates, WriteOK
  <2>2. ASSUME user'[x.id] # None
        PROVE  /\ user'[x.id].email = x.base.email
               /\ x.base.verified => user'[x.id].verified
               /\ user'[x.id].password # x.base.password =>
                    /\ ResetLink(x.base.email) \in tokens'
                    /\ Entry("change_password", TRUE, x.id) \in audit'
    <3>1. user[x.id] # None
      BY <1>1, <2>1, <2>2, CommitMoves
    <3>2. /\ user'[x.id].email = user[x.id].email
          /\ user[x.id].verified => user'[x.id].verified
      BY <1>1, <2>1, <2>2, <3>1, CommitMoves
    <3>3. user'[x.id].password # user[x.id].password =>
            /\ ResetLink(x.base.email) \in tokens
            /\ Entry("change_password", TRUE, x.id) \in audit'
      BY <1>1, <2>1, <2>2, <3>1, CommitPasswords DEF UpdateFits
    <3> QED
      BY <1>2, <2>1, <3>1, <3>2, <3>3 DEF UpdateFits
  <2> QED
    BY <1>2, <2>1, <2>2 DEF UpdateFits
<1>7. WriteFits(x)'
  <2>1. ASSUME Inserts(x)
        PROVE  ~Ever(x.id)'
    <3>1. x.id \in Ids /\ ~Ever(x.id)
      BY <1>2, <2>1 DEF RequestFits, WriteFits, Inserts, WriteOK
    <3> QED
      BY <1>1, <1>2, <3>1, CommitLogs
  <2>2. x.writes /\ x.base # None => Ever(x.id)'
    BY <1>2, <1>4 DEF RequestFits, WriteFits
  <2>3. x.writes /\ x.new # None /\ x.new.verified => Vouched(x.new.email)'
    BY <1>2 DEF RequestFits, WriteFits, Vouched
  <2> QED
    BY <1>6, <2>1, <2>2, <2>3 DEF WriteFits, Inserts, Updates
<1> QED
  BY <1>3, <1>5, <1>7, <1>8 DEF RequestFits

LEMMA CommitKeepsLocks ==
  ASSUME AccountInv, NEW w \in Workers, Commit(w), NEW v \in Workers \ {w},
         NEW x, x = tx[v], x # None, x.flushed
  PROVE  Accepted(x)'
<1>1. PICK s : s = tx[w]
  OBVIOUS
<1>2. /\ s # None /\ s.flushed /\ WriteOK(s) /\ WriteOK(x) /\ Accepted(x) /\ ~Conflicts(s, x)
  BY <1>1 DEF Commit, AccountInv, TypeOK, LocksHold
<1>3. SUFFICES ASSUME x.writes
               PROVE  Accepted(x)'
  BY DEF Accepted
<1>4. x.base = None /\ Inserts(s) => s.new.email # x.new.email
  BY <1>2, <1>3 DEF Conflicts, Inserts
<1>5. ASSUME x.base = None
      PROVE  \A u \in Ids : user'[u] # None => user'[u].email # x.new.email
  <2>1. Holder(x.new.email) = {} /\ x.new # None
    BY <1>2, <1>3, <1>5 DEF Accepted, WriteOK
  <2>2. ASSUME NEW u \in Ids, user'[u] # None
        PROVE  user'[u].email # x.new.email
    <3>1. CASE user[u] # None
      BY <1>1, <2>1, <2>2, <3>1, CommitMoves DEF Holder, Live
    <3>2. CASE user[u] = None
      <4>1. Inserts(s) /\ user'[u] = s.new /\ s.writes /\ s.new # None
        BY <1>1, <2>2, <3>2, CommitMoves DEF Inserts
      <4> QED
        BY <1>4, <1>5, <2>1, <4>1
    <3> QED
      BY <3>1, <3>2
  <2> QED
    BY <2>2
<1>6. ASSUME x.base # None, x.new # None
      PROVE  IF user'[x.id] = None THEN OnlyRoles(x) /\ NewRoles(x) = {}
             ELSE NewRoles(x) \cap user'[x.id].roles = {}
  <2>1. /\ x.id \in Ids
        /\ IF user[x.id] = None THEN OnlyRoles(x) /\ NewRoles(x) = {}
           ELSE NewRoles(x) \cap user[x.id].roles = {}
    BY <1>2, <1>3, <1>6 DEF WriteOK, Accepted
  <2>2. CASE ~s.writes \/ s.id # x.id
    <3>1. user'[x.id] = user[x.id]
      BY <1>1, <2>1, <2>2, CommitRows
    <3> QED
      BY <2>1, <3>1
  <2>3. CASE s.writes /\ s.id = x.id
    <3>1. /\ OnlyRoles(s) \/ OnlyRoles(x)
          /\ Reassigned(s) \cap Reassigned(x) = {}
      BY <1>2, <1>3, <2>3 DEF Conflicts
    <3>2. Reassigned(x) \subseteq Roles
      BY <1>2, <1>6 DEF Reassigned, NewRoles, WriteOK, UserRow
    <3>3. Updates(s)
      <4>1. ~Inserts(s)
        BY <1>1, <1>2, <2>3 DEF AccountInv, LocksHold
      <4>2. ~Removes(s)
        BY <3>1, <3>2 DEF Removes, OnlyRoles, Reassigned
      <4> QED
        BY <1>2, <2>3, <4>1, <4>2 DEF Inserts, Removes, Updates, WriteOK
    <3>4. user'[x.id] = MergedRow(s) /\ (user[x.id] = None => user'[x.id] = None)
      BY <1>1, <2>3, <3>3, CommitRows
    <3>5. CASE user[x.id] = None
      BY <2>1, <3>4, <3>5
    <3>6. CASE user[x.id] # None
      <4>1. UpdateFits(s) /\ TypeOK
        BY <1>1, <1>2, <3>3 DEF AccountInv, RequestFits, WriteFits
      <4>2. /\ MergedRow(s) \in UserRow
            /\ MergedRow(s).roles =
                 (user[x.id].roles \ (s.base.roles \ s.new.roles)) \cup NewRoles(s)
        BY <1>2, <2>3, <3>3, <3>6, <4>1, MergedRowFits
      <4>3. MergedRow(s) # None
        BY <4>2, AccountAssumption
      <4>4. NewRoles(s) \cap NewRoles(x) = {}
        BY <1>6, <3>1, <3>3 DEF Reassigned, Updates
      <4> QED
        BY <2>1, <3>4, <3>6, <4>2, <4>3, <4>4
    <3> QED
      BY <3>5, <3>6
  <2> QED
    BY <2>2, <2>3
<1>7. OnlyRoles(x)' = OnlyRoles(x) /\ NewRoles(x)' = NewRoles(x)
  BY DEF OnlyRoles, NewRoles, Reassigned
<1> QED
  BY <1>5, <1>6, <1>7 DEF Accepted, Holder, Live

LEMMA CommitKeeps ==
  ASSUME AccountInv, NEW w \in Workers, Commit(w)
  PROVE  AccountInv'
<1>1. PICK s : s = tx[w]
  OBVIOUS
<1>2. /\ s # None /\ WriteOK(s)
      /\ audit' = audit \cup s.entries /\ tokens' = tokens \cup s.reply
      /\ sessions' = sessions \cup s.session /\ UNCHANGED <<vouched, requests>>
      /\ tx' = [tx EXCEPT ![w] = None]
  BY <1>1 DEF Commit, AccountInv, TypeOK
<1>3. /\ DOMAIN tx' = Workers /\ tx'[w] = None
      /\ \A v \in Workers \ {w} : tx'[v] = tx[v]
  BY <1>2 DEF AccountInv, TypeOK
<1>4. TypeOK'
  <2>1. user' \in [Ids -> UserRow \cup {None}]
    BY <1>1, CommitRows
  <2>2. ASSUME NEW u \in Ids, NEW v \in Ids, user'[u] # None, user'[v] # None,
               user'[u].email = user'[v].email, u # v
        PROVE  FALSE
    <3>1. CASE user[u] # None /\ user[v] # None
      BY <1>1, <2>2, <3>1, CommitMoves DEF AccountInv, TypeOK, UniqueEmails, Live
    <3>2. CASE user[u] = None
      <4>1. Inserts(s) /\ s.id = u /\ user'[u] = s.new /\ Holder(s.new.email) = {}
        BY <1>1, <2>2, <3>2, CommitMoves, CommitRows
      <4>2. user[v] # None
        BY <1>1, <2>2, <4>1, CommitMoves
      <4> QED
        BY <1>1, <2>2, <4>1, <4>2, CommitMoves DEF Holder, Live
    <3>3. CASE user[v] = None
      <4>1. Inserts(s) /\ s.id = v /\ user'[v] = s.new /\ Holder(s.new.email) = {}
        BY <1>1, <2>2, <3>3, CommitMoves, CommitRows
      <4>2. user[u] # None
        BY <1>1, <2>2, <4>1, CommitMoves
      <4> QED
        BY <1>1, <2>2, <4>1, <4>2, CommitMoves DEF Holder, Live
    <3> QED
      BY <3>1, <3>2, <3>3
  <2>3. UniqueEmails(user)'
    BY <2>2 DEF UniqueEmails, Live
  <2>4. audit' \subseteq AuditEntry /\ tokens' \subseteq TokenSet /\ sessions' \subseteq Ids
    BY <1>2 DEF AccountInv, TypeOK, WriteOK
  <2>5. \A v \in Workers : tx'[v] = None \/ WriteOK(tx'[v])
    BY <1>3 DEF AccountInv, TypeOK
  <2> QED
    BY <1>2, <1>3, <2>1, <2>3, <2>4, <2>5 DEF AccountInv, TypeOK, WriteOK
<1>5. VerifiedByOwner' /\ SessionsAreVerified' /\ AuditTells' /\ TracesFit'
  BY CommitKeepsAccounts
<1>6. ASSUME NEW v \in Workers, tx'[v] # None
      PROVE  RequestFits(tx[v])' /\ (tx'[v].flushed => Accepted(tx[v])')
  <2>1. PICK x : x = tx'[v] /\ x = tx[v] /\ v # w
    BY <1>3, <1>6
  <2>2. RequestFits(x)' /\ (x.flushed => Accepted(x)')
    BY <1>6, <2>1, CommitKeepsRequest, CommitKeepsLocks
  <2> QED
    BY <2>1, <2>2
<1>7. LocksHold'
  <2>1. ASSUME NEW v \in Workers, NEW x \in Workers, v # x, tx'[v] # None, tx'[x] # None
        PROVE  /\ tx'[v].flushed /\ tx'[x].flushed => ~Conflicts(tx'[v], tx'[x])
               /\ Inserts(tx'[v]) => tx'[x].id # tx'[v].id
    BY <1>3, <2>1 DEF AccountInv, LocksHold
  <2> QED
    BY <1>6, <2>1 DEF LocksHold, Conflicts, Inserts
<1> QED
  BY <1>4, <1>5, <1>6, <1>7 DEF AccountInv

LEMMA RollbackKeeps ==
  ASSUME AccountInv, NEW w \in Workers, Rollback(w)
  PROVE  AccountInv'
<1>1. /\ UNCHANGED <<user, audit, tokens, vouched, sessions, requests>>
      /\ tx' = [tx EXCEPT ![w] = None]
  BY DEF Rollback
<1>2. /\ DOMAIN tx' = Workers /\ tx'[w] = None
      /\ \A v \in Workers \ {w} : tx'[v] = tx[v]
  BY <1>1 DEF AccountInv, TypeOK
<1>3. TypeOK'
  <2>1. \A v \in Workers : tx'[v] = None \/ WriteOK(tx'[v])
    BY <1>2 DEF AccountInv, TypeOK
  <2> QED
    BY <1>1, <1>2, <2>1 DEF AccountInv, TypeOK, UniqueEmails, Live, WriteOK
<1>4. VerifiedByOwner' /\ SessionsAreVerified' /\ AuditTells' /\ TracesFit'
  BY <1>1, AccountsKept
<1>5. ASSUME NEW v \in Workers, tx'[v] # None
      PROVE  RequestFits(tx[v])' /\ (tx'[v].flushed => Accepted(tx[v])')
  <2>1. PICK x : x = tx'[v] /\ x = tx[v] /\ v # w
    BY <1>2, <1>5
  <2>2. RequestFits(x) /\ (x.flushed => Accepted(x))
    BY <1>5, <2>1 DEF AccountInv, LocksHold
  <2>3. RequestFits(x)'
    BY <1>1, <2>2, RequestKept
  <2>4. x.flushed => Accepted(x)'
    BY <1>1, <2>2 DEF Accepted, Holder, Live
  <2> QED
    BY <2>1, <2>3, <2>4
<1>6. LocksHold'
  <2>1. ASSUME NEW v \in Workers, NEW x \in Workers, v # x, tx'[v] # None, tx'[x] # None
        PROVE  /\ tx'[v].flushed /\ tx'[x].flushed => ~Conflicts(tx'[v], tx'[x])
               /\ Inserts(tx'[v]) => tx'[x].id # tx'[v].id
    BY <1>2, <2>1 DEF AccountInv, LocksHold
  <2> QED
    BY <1>5, <2>1 DEF LocksHold, Conflicts, Inserts
<1> QED
  BY <1>3, <1>4, <1>5, <1>6 DEF AccountInv

(* A step that only adds tokens, or ends sessions.                         *)
LEMMA BrowserKeeps ==
  ASSUME AccountInv, UNCHANGED <<user, audit, vouched, tx, requests>>,
         tokens \subseteq tokens', tokens' \subseteq TokenSet, sessions' \subseteq sessions
  PROVE  AccountInv'
<1>1. TypeOK'
  BY DEF AccountInv, TypeOK, UniqueEmails, Live, WriteOK
<1>2. VerifiedByOwner' /\ SessionsAreVerified' /\ AuditTells' /\ TracesFit'
  BY AccountsKept
<1>3. ASSUME NEW v \in Workers, tx'[v] # None
      PROVE  RequestFits(tx[v])'
  <2>1. PICK x : x = tx[v]
    OBVIOUS
  <2>2. RequestFits(x)'
    BY <1>3, <2>1, RequestKept DEF AccountInv
  <2> QED
    BY <2>1, <2>2
<1>4. LocksHold'
  BY DEF AccountInv, LocksHold, Conflicts, Inserts, Accepted, Holder, Live
<1> QED
  BY <1>1, <1>2, <1>3, <1>4 DEF AccountInv

LEMMA AccountInit ==
  ASSUME Init
  PROVE  AccountInv
<1>1. /\ user \in [Ids -> UserRow \cup {None}] /\ UniqueEmails(user)
      /\ user = InitialUser /\ 0 \in 0 .. MaxRequests
  BY AccountAssumption DEF Init
<1>2. vouched \subseteq Emails
  BY <1>1 DEF Init, Live, UserRow
<1>3. TypeOK
  BY <1>1, <1>2 DEF Init, TypeOK
<1>4. VerifiedByOwner
  BY DEF Init, VerifiedByOwner, Live
<1>5. SessionsAreVerified /\ AuditTells /\ TracesFit /\ LocksHold
  BY DEF Init, SessionsAreVerified, AuditTells, TracesFit, LocksHold
<1>6. \A w \in Workers : tx[w] = None
  BY DEF Init
<1> QED
  BY <1>3, <1>4, <1>5, <1>6 DEF AccountInv

LEMMA AccountNext ==
  ASSUME AccountInv, [Next]_vars
  PROVE  AccountInv'
<1>1. CASE StartLogin \/ Authorize
  <2>1. {Token("login", None), Token("google.authorized", None)} \subseteq TokenSet
    BY DEF TokenSet
  <2> QED
    BY <1>1, <2>1, BrowserKeeps DEF StartLogin, Authorize, AccountInv, TypeOK
<1>2. CASE LogOut
  <2>1. tokens \subseteq TokenSet
    BY DEF AccountInv, TypeOK
  <2> QED
    BY <1>2, <2>1, BrowserKeeps DEF LogOut
<1>3. CASE UNCHANGED vars
  <2>1. tokens \subseteq TokenSet
    BY DEF AccountInv, TypeOK
  <2> QED
    BY <1>3, <2>1, BrowserKeeps DEF vars
<1>4. ASSUME NEW w \in Workers, Handle(w) \/ Flush(w) \/ Commit(w) \/ Rollback(w)
      PROVE  AccountInv'
  BY <1>4, HandlersOpen, OpensKeeps, FlushKeeps, CommitKeeps, RollbackKeeps
<1> QED
  BY <1>1, <1>2, <1>3, <1>4 DEF Next

(* The inductive invariant holds at all times.                             *)
THEOREM AccountSafety == Spec => []AccountInv
<1>1. Init => AccountInv
  BY AccountInit
<1>2. AccountInv /\ [Next]_vars => AccountInv'
  BY AccountNext
<1> QED
  BY <1>1, <1>2, PTL DEF Spec

(* Rows, log, tokens and requests keep their types, and an address has one *)
(* account, whichever requests the processes interleave.                   *)
THEOREM AccountTypes == Spec => []TypeOK
<1>1. AccountInv => TypeOK
  BY DEF AccountInv
<1> QED
  BY <1>1, AccountSafety, PTL

(* A verified account's address was verified by a mailed link or Google.   *)
THEOREM VerificationIsTheOwners == Spec => []VerifiedByOwner
<1>1. AccountInv => VerifiedByOwner
  BY DEF AccountInv
<1> QED
  BY <1>1, AccountSafety, PTL

(* Nobody with an unverified address has a session.                        *)
THEOREM SessionsStayVerified == Spec => []SessionsAreVerified
<1>1. AccountInv => SessionsAreVerified
  BY DEF AccountInv
<1> QED
  BY <1>1, AccountSafety, PTL

(* The identity audit log tells which accounts exist and who logged in.    *)
THEOREM IdentityAuditTells == Spec => []AuditTells
<1>1. AccountInv => AuditTells
  BY DEF AccountInv
<1> QED
  BY <1>1, AccountSafety, PTL

(***************************************************************************)
(* What a step may do.                                                     *)
(***************************************************************************)

LEMMA OnlyCommitsWrite ==
  ASSUME AccountInv, [Next]_vars
  PROVE  \/ \E w \in Workers : Commit(w)
         \/ UNCHANGED <<user, audit>> /\ sessions' \subseteq sessions
<1>1. ASSUME NEW w \in Workers, Handle(w)
      PROVE  UNCHANGED <<user, audit, sessions>>
  BY <1>1, HandlersOpen DEF Opens
<1> QED
  BY <1>1 DEF Next, vars, StartLogin, Authorize, LogOut, Flush, Rollback

LEMMA CommitEdits ==
  ASSUME AccountInv, NEW w \in Workers, Commit(w), NEW s, s = tx[w],
         NEW u \in Ids, user[u] # None, user'[u] # None, user'[u] # user[u]
  PROVE  /\ tx[w] # None /\ tx'[w] = None /\ audit' = audit \cup s.entries
         /\ user'[u].email = user[u].email
         /\ user[u].verified => user'[u].verified
         /\ user'[u].active # user[u].active \/ user'[u].roles # user[u].roles =>
              Entry("edit", TRUE, u) \in s.entries
         /\ user'[u].password # user[u].password =>
              /\ ResetLink(user[u].email) \in tokens
              /\ Entry("change_password", TRUE, u) \in audit'
<1>1. /\ s # None /\ WriteOK(s) /\ RequestFits(s) /\ Accepted(s) /\ TypeOK
      /\ audit' = audit \cup s.entries /\ tx' = [tx EXCEPT ![w] = None]
      /\ DOMAIN tx = Workers
  BY DEF Commit, AccountInv, TypeOK, LocksHold
<1>2. s.writes /\ s.id = u
  BY CommitRows
<1>3. Updates(s)
  BY <1>1, <1>2, CommitRows DEF Inserts, Removes, Updates, WriteOK
<1>4. UpdateFits(s) /\ user'[u] = MergedRow(s)
  BY <1>1, <1>2, <1>3, CommitRows DEF RequestFits, WriteFits
<1>5. PICK row : row = MergedRow(s)
  OBVIOUS
<1>6. /\ row.email = user[u].email
      /\ user[u].verified => row.verified
      /\ row.active # user[u].active => s.new.active # s.base.active
      /\ row.roles # user[u].roles => s.new.roles # s.base.roles
  BY <1>1, <1>2, <1>3, <1>4, <1>5, MergedRowFits
<1>7. tx'[w] = None
  BY <1>1
<1> QED
  BY <1>1, <1>2, <1>4, <1>5, <1>6, <1>7, CommitPasswords DEF UpdateFits

(* Only an edit of the user API modifies the roles and the activity of an  *)
(* account, only a mailed reset link its password, nothing its address,    *)
(* and nothing takes a verification back.                                  *)
THEOREM EditsMerge == Spec => EditsAndLoginsMerge
<1> DEFINE Merges ==
      \A u \in Live(user) \cap Live(user)' :
        /\ <<user[u].active, user[u].roles>> # <<user'[u].active, user'[u].roles>> =>
             \E w \in Workers :
               tx[w] # None /\ tx'[w] = None /\ Entry("edit", TRUE, u) \in tx[w].entries
        /\ user[u].verified => user'[u].verified
        /\ user[u].password # user'[u].password =>
             /\ ResetLink(user[u].email) \in tokens
             /\ Entry("change_password", TRUE, u) \in audit'
        /\ user[u].email = user'[u].email
<1>1. AccountInv /\ [Next]_vars => Merges
  <2> SUFFICES ASSUME AccountInv, [Next]_vars, NEW u \in Live(user) \cap Live(user)'
               PROVE  Merges!(u)
    OBVIOUS
  <2>1. u \in Ids /\ user[u] # None /\ user'[u] # None
    BY DEF Live
  <2>2. CASE user'[u] = user[u]
    BY <2>2
  <2>3. CASE user'[u] # user[u]
    <3>1. PICK w \in Workers : Commit(w)
      BY <2>3, OnlyCommitsWrite
    <3>2. PICK s : s = tx[w]
      OBVIOUS
    <3> QED
      BY <2>1, <2>3, <3>1, <3>2, CommitEdits
  <2> QED
    BY <2>2, <2>3
<1>2. AccountInv /\ [Next]_vars => [Merges]_vars
  BY <1>1
<1>3. Spec => [][Merges]_vars
  BY <1>2, AccountSafety, PTL DEF Spec
<1> QED
  BY <1>3 DEF EditsAndLoginsMerge

(***************************************************************************)
(* The refinement of AccountLife.                                          *)
(***************************************************************************)

LEMMA CommitLives ==
  ASSUME AccountInv, NEW w \in Workers, Commit(w)
  PROVE  [Life!Next]_<<Status(user, audit), sessions>>
<1>1. PICK s : s = tx[w]
  OBVIOUS
<1>2. /\ s # None /\ WriteOK(s) /\ RequestFits(s)
      /\ audit' = audit \cup s.entries /\ sessions' = sessions \cup s.session
  BY <1>1 DEF Commit, AccountInv, TypeOK
<1>3. PICK st : st = Status(user, audit)
  OBVIOUS
<1>4. PICK st2 : st2 = Status(user, audit)'
  OBVIOUS
<1>5. DOMAIN st = Ids /\ DOMAIN st2 = Ids
      /\ st = [v \in Ids |-> st[v]] /\ st2 = [v \in Ids |-> st2[v]]
  BY <1>3, <1>4 DEF Status
<1>6. \A u \in Ids :
        /\ user[u] # None /\ user[u].verified => st[u] = "verified"
        /\ user[u] # None /\ ~user[u].verified => st[u] = "unverified"
        /\ user[u] = None /\ Entry("delete", TRUE, u) \in audit => st[u] = "gone"
        /\ user[u] = None /\ Entry("delete", TRUE, u) \notin audit => st[u] = "none"
  BY <1>3 DEF Status
<1>7. \A u \in Ids :
        /\ user'[u] # None /\ user'[u].verified => st2[u] = "verified"
        /\ user'[u] # None /\ ~user'[u].verified => st2[u] = "unverified"
        /\ user'[u] = None /\ Entry("delete", TRUE, u) \in audit' => st2[u] = "gone"
        /\ user'[u] = None /\ Entry("delete", TRUE, u) \notin audit' => st2[u] = "none"
  BY <1>4 DEF Status
<1>8. \A u \in Ids : Ever(u) /\ user[u] = None => Entry("delete", TRUE, u) \in audit
  BY DEF AccountInv, AuditTells, Ever, Live
<1>9. \A u \in Ids : Entry("delete", TRUE, u) \in audit => Ever(u)
  BY DEF AccountInv, TracesFit
<1>10. \A u \in Ids : ~s.writes \/ u # s.id => st2[u] = st[u]
  <2> SUFFICES ASSUME NEW u \in Ids, ~s.writes \/ u # s.id
               PROVE  st2[u] = st[u]
    OBVIOUS
  <2>1. user'[u] = user[u]
    BY <1>1, CommitRows
  <2>2. Entry("delete", TRUE, u) \in audit' <=> Entry("delete", TRUE, u) \in audit
    BY <1>1, CommitLogs DEF Removes
  <2> QED
    BY <1>6, <1>7, <2>1, <2>2
<1>11. ~s.writes => st2 = st
  BY <1>5, <1>10
<1>12. s.writes => s.id \in Ids /\ st2 = [st EXCEPT ![s.id] = st2[s.id]]
                   /\ (st2[s.id] = st[s.id] => st2 = st)
  BY <1>1, <1>5, <1>10, CommitRows
<1>13. ASSUME Inserts(s)
       PROVE  /\ st[s.id] = "none"
              /\ st2[s.id] = IF s.new.verified THEN "verified" ELSE "unverified"
  <2>1. s.id \in Ids /\ user[s.id] = None /\ ~Ever(s.id) /\ s.new # None /\ user'[s.id] = s.new
    BY <1>1, <1>13, CommitRows DEF Inserts
  <2> QED
    BY <1>6, <1>7, <1>9, <2>1
<1>14. ASSUME Removes(s)
       PROVE  st[s.id] \in {"unverified", "verified", "gone"} /\ st2[s.id] = "gone"
  <2>1. s.id \in Ids /\ user'[s.id] = None /\ Ever(s.id)
        /\ Entry("delete", TRUE, s.id) \in audit'
    BY <1>1, <1>14, CommitRows, CommitLogs DEF Removes
  <2> QED
    BY <1>6, <1>7, <1>8, <2>1
<1>15. ASSUME Updates(s)
       PROVE  \/ st[s.id] = "gone" /\ st2[s.id] = "gone"
              \/ /\ st[s.id] \in {"unverified", "verified"}
                 /\ st2[s.id] \in {st[s.id], "verified"}
                 /\ s.new.verified => st2[s.id] = "verified"
  <2>1. /\ s.id \in Ids /\ s.writes /\ s.new # None /\ s.base # None /\ ~Removes(s)
        /\ Ever(s.id)
        /\ user[s.id] = None => user'[s.id] = None
    BY <1>1, <1>2, <1>15, CommitRows DEF Updates, Removes, RequestFits, WriteFits
  <2> SUFFICES ASSUME user[s.id] # None
               PROVE  /\ st[s.id] \in {"unverified", "verified"}
                      /\ st2[s.id] \in {st[s.id], "verified"}
                      /\ s.new.verified => st2[s.id] = "verified"
    BY <1>2, <1>6, <1>7, <1>8, <2>1
  <2>2. user'[s.id] # None
    BY <1>1, <2>1, CommitMoves
  <2>3. /\ user[s.id].verified => user'[s.id].verified
        /\ s.new.verified => user'[s.id].verified
    BY <1>1, <2>1, <2>2, CommitMoves
  <2> QED
    BY <1>6, <1>7, <2>1, <2>2, <2>3
<1>16. s.writes => Inserts(s) \/ Removes(s) \/ Updates(s)
  BY <1>2 DEF WriteOK, Inserts, Removes, Updates
<1>17. CASE s.session = {}
  <2>1. sessions' = sessions
    BY <1>2, <1>17
  <2>2. CASE st2 = st
    BY <1>3, <1>4, <2>1, <2>2
  <2>3. CASE Inserts(s)
    <3>1. ~s.new.verified
      BY <1>2, <1>17, <2>3 DEF RequestFits, LoginFits
    <3>2. s.id \in Ids /\ Life!SignUp(s.id)
      BY <1>3, <1>4, <1>12, <1>13, <2>1, <2>3, <3>1 DEF Life!SignUp, Inserts
    <3> QED
      BY <3>2 DEF Life!Next
  <2>4. CASE Removes(s) /\ st2 # st
    <3>1. s.id \in Ids /\ Life!Delete(s.id)
      BY <1>3, <1>4, <1>12, <1>14, <2>1, <2>4 DEF Life!Delete, Removes
    <3> QED
      BY <3>1 DEF Life!Next
  <2>5. CASE Updates(s) /\ st2 # st
    <3>1. s.id \in Ids /\ Life!Verify(s.id)
      BY <1>3, <1>4, <1>12, <1>15, <2>1, <2>5 DEF Life!Verify, Updates
    <3> QED
      BY <3>1 DEF Life!Next
  <2> QED
    BY <1>11, <1>16, <2>2, <2>3, <2>4, <2>5
<1>18. ASSUME NEW u \in s.session
       PROVE  Life!Next
  <2>1. u \in Ids /\ sessions' = sessions \cup {u}
        /\ (s.writes => s.id = u /\ s.new # None /\ s.new.verified)
    BY <1>2, <1>18 DEF RequestFits, LoginFits, WriteOK
  <2>2. CASE ~s.writes
    <3>1. Ever(u) /\ (user[u] # None => user[u].verified)
      BY <1>2, <1>18, <2>2 DEF RequestFits, SessionFits
    <3>2. st[u] \in {"verified", "gone"}
      BY <1>6, <1>8, <2>1, <3>1
    <3>3. Life!LogIn(u)
      BY <1>3, <1>4, <1>11, <2>1, <2>2, <3>2 DEF Life!LogIn
    <3> QED
      BY <2>1, <3>3 DEF Life!Next
  <2>3. CASE s.writes /\ st[u] = "verified"
    <3>1. st2 = st
      BY <1>12, <1>13, <1>14, <1>15, <1>16, <2>1, <2>3 DEF Removes
    <3>2. Life!LogIn(u)
      BY <1>3, <1>4, <2>1, <2>3, <3>1 DEF Life!LogIn
    <3> QED
      BY <2>1, <3>2 DEF Life!Next
  <2>5. CASE s.writes /\ st[u] = "gone"
    <3>1. st2 = st
      BY <1>12, <1>13, <1>14, <1>15, <1>16, <2>1, <2>5 DEF Removes
    <3>2. Life!LogIn(u)
      BY <1>3, <1>4, <2>1, <2>5, <3>1 DEF Life!LogIn
    <3> QED
      BY <2>1, <3>2 DEF Life!Next
  <2>4. CASE s.writes /\ st[u] # "verified" /\ st[u] # "gone"
    <3>1. st[u] \in {"none", "unverified"} /\ st2[u] = "verified"
      BY <1>13, <1>14, <1>15, <1>16, <2>1, <2>4 DEF Removes
    <3>2. Life!LogInByGoogle(u)
      BY <1>3, <1>4, <1>12, <2>1, <2>4, <3>1 DEF Life!LogInByGoogle
    <3> QED
      BY <2>1, <3>2 DEF Life!Next
  <2> QED
    BY <2>2, <2>3, <2>4, <2>5
<1> QED
  BY <1>17, <1>18

LEMMA LifeStep ==
  ASSUME AccountInv, [Next]_vars
  PROVE  [Life!Next]_<<Status(user, audit), sessions>>
<1>1. CASE \E w \in Workers : Commit(w)
  BY <1>1, CommitLives
<1>2. CASE LogOut
  <2>1. PICK u \in sessions : sessions' = sessions \ {u} /\ UNCHANGED <<user, audit>>
    BY <1>2 DEF LogOut
  <2>2. u \in Ids /\ Life!LogOut(u)
    BY <2>1 DEF Life!LogOut, AccountInv, TypeOK
  <2> QED
    BY <2>2 DEF Life!Next
<1>3. CASE UNCHANGED <<user, audit, sessions>>
  BY <1>3
<1>4. ASSUME NEW w \in Workers, Handle(w)
      PROVE  UNCHANGED <<user, audit, sessions>>
  BY <1>4, HandlersOpen DEF Opens
<1> QED
  BY <1>1, <1>2, <1>3, <1>4 DEF Next, vars, StartLogin, Authorize, Flush, Rollback

(* The service implements AccountLife: an account is created once,         *)
(* verified once, stays deleted, and only verified users log in.           *)
THEOREM LifeRefinement == Spec => ImplementsAccountLife
<1>1. Init => Life!Init
  BY DEF Init, Life!Init
<1>2. AccountInv /\ [Next]_vars => [Life!Next]_Life!vars
  BY LifeStep DEF Life!vars
<1> QED
  BY <1>1, <1>2, AccountSafety, PTL DEF Spec, ImplementsAccountLife, Life!Spec
=============================================================================
