------------------------------ MODULE WebSessions ------------------------------
(***************************************************************************)
(* The sessions of the two web interfaces and what is done with them: the  *)
(* dictionaries of app/security/user_session.py and ui_session.py, the     *)
(* /user and /ui routes that log in and out, show a document, record a     *)
(* consent and upload a document, and the administrator's change of a      *)
(* user's password (app/api/users.py).                                     *)
(*                                                                         *)
(* Every route runs in a thread of its own.  Nothing holds a lock from the *)
(* password check to the new session, from the commit of a new password to *)
(* the end of the sessions opened with the old one, or from the lookup of  *)
(* a session to the use of the object it returned; each of these is two    *)
(* steps here.  A browser keeps one cookie per interface (their paths keep *)
(* them apart) and the CSRF token of the page it loaded last, which may    *)
(* belong to a session the cookie has since left.                          *)
(*                                                                         *)
(* A session stands for its token, its id and its CSRF token at once, a    *)
(* password for its number in the order a user's passwords were set.  A    *)
(* rejected login only records an event (AuditChain) and is not a step.    *)
(***************************************************************************)
EXTENDS Naturals, FiniteSets

CONSTANTS
  Accounts,       \* the users who can log in, and the administrator
  Administrator,  \* whoever knows admin_api_key, fixed for the process
  Browsers,
  Sessions,       \* tokens, in no order: token_urlsafe(32)
  Documents,
  Owner,          \* Document.user_id
  Workers,        \* threads of the ASGI server
  Ttl,            \* USER_SESSION_TTL_SECONDS = UI_SESSION_TTL_SECONDS
  MaxTime,        \* bound of the clock
  MaxPasswords,   \* bound of how often passwords are set
  Renewed,        \* bound: the users whose password is set again
  None

Users == Accounts \ {Administrator}

Realms == {"user", "ui"}

RealmOf(a) == IF a = Administrator THEN "ui" ELSE "user"

ASSUME SessionsAssumption ==
  /\ Administrator \in Accounts
  /\ Owner \in [Documents -> Users]
  /\ Ttl \in Nat \ {0}
  /\ MaxTime \in Nat
  /\ MaxPasswords \in Nat \ {0}
  /\ Renewed \subseteq Users
  /\ None \notin Accounts \cup Browsers \cup Sessions \cup Documents

\* UserSession and UiSession.  password and raced are history: which password
\* the login checked, and whether another was set before the session began.
SessionObject == [account: Accounts, expires: Nat, viewed: SUBSET Documents,
                  password: 1 .. MaxPasswords, raced: BOOLEAN]

Ops == {"idle", "login", "created", "logout", "revoke", "view", "send",
        "request", "upload"}

Job == [op: Ops, browser: Browsers \cup {None}, account: Accounts \cup {None},
        session: Sessions \cup {None}, page: Sessions \cup {None},
        document: Documents \cup {None}, password: 0 .. MaxPasswords,
        time: Nat]

\* What was done: in which session, found at which time, from a page of which
\* session, with which document.
Act == [session: Sessions, page: Sessions, document: Documents, time: Nat]

VARIABLES
  now,
  password,  \* User.password_hash
  store,     \* the keys of _sessions
  issued,    \* the session objects: they outlive their key in a running job
  cookie,    \* what each browser sends to each interface
  page,      \* the session whose CSRF token each browser's page sends
  uploaded,  \* rows of documents
  active,    \* documents with a request that has not ended
  consents,  \* requests recorded, as acts
  uploads,   \* documents assigned, as acts
  job,
  opened,    \* history: documents sent to their reader, per session
  broken,    \* history: documents whose answer broke off, per session
  cut        \* history: users whose new password was set by a call that
             \* failed before it ended their sessions

rows == <<password, uploaded, active, consents, uploads>>
memory == <<store, issued>>
browsers == <<cookie, page>>
history == <<opened, broken, cut>>
vars == <<now, rows, memory, browsers, job, history>>

NoSession == [account |-> None]

Idle == [op |-> "idle", browser |-> None, account |-> None, session |-> None,
         page |-> None, document |-> None, password |-> 0, time |-> 0]

TypeOK ==
  /\ now \in 0 .. MaxTime
  /\ password \in [Users -> 1 .. MaxPasswords]
  /\ store \subseteq Sessions
  /\ issued \in [Sessions -> SessionObject \cup {NoSession}]
  /\ \A s \in store : issued[s] \in SessionObject
  /\ cookie \in [Browsers -> [Realms -> Sessions \cup {None}]]
  /\ page \in [Browsers -> [Realms -> Sessions \cup {None}]]
  /\ uploaded \subseteq Documents
  /\ active \subseteq uploaded
  /\ consents \subseteq Act
  /\ uploads \subseteq Act
  /\ job \in [Workers -> Job]
  /\ opened \subseteq Sessions \X Documents
  /\ broken \subseteq Sessions \X Documents
  /\ cut \subseteq Users

\* A process that starts over a database: it has users and documents already.
Init ==
  /\ now = 0
  /\ password = [u \in Users |-> 1]
  /\ store = {}
  /\ issued = [s \in Sessions |-> NoSession]
  /\ cookie = [b \in Browsers |-> [r \in Realms |-> None]]
  /\ page = [b \in Browsers |-> [r \in Realms |-> None]]
  /\ uploaded \in SUBSET Documents
  /\ active = {}
  /\ consents = {}
  /\ uploads = {}
  /\ job = [w \in Workers |-> Idle]
  /\ opened = {}
  /\ broken = {}
  /\ cut = {}

-----------------------------------------------------------------------------
(* The dictionaries.  Create and get drop every expired session first.     *)

\* _cleanup_expired_sessions.
Unexpired == {s \in store : now < issued[s].expires}

\* get_user_session, get_ui_session.
Found(s) == s \in Unexpired

\* Mutation: any CSRF token the server ever gave is accepted.
CsrfOfAnySession(b, r, s) == page[b][r] # None

\* require_user_csrf, require_ui_csrf: the header is the one of the session
\* the cookie names.
Csrf(b, r, s) == page[b][r] = s

PasswordOf(a) == IF a = Administrator THEN 1 ELSE password[a]

NewSession(a, p) ==
  [account |-> a, expires |-> now + Ttl, viewed |-> {}, password |-> p,
   raced |-> p # PasswordOf(a)]

Start(w, j) ==
  /\ job[w] = Idle
  /\ job' = [job EXCEPT ![w] = j]

Finish(w) == job' = [job EXCEPT ![w] = Idle]

\* The realm's routes take the session their cookie names.
Takes(b, r, s) ==
  /\ s = cookie[b][r]
  /\ s # None
  /\ Found(s)
  /\ store' = Unexpired

-----------------------------------------------------------------------------
(* Login and logout.                                                       *)

\* POST /login up to verify_password: the row is read, the right password
\* is checked against the hash of that moment.
Login(w, b, a) ==
  /\ Start(w, [Idle EXCEPT !.op = "login", !.browser = b, !.account = a,
                           !.session = cookie[b][RealmOf(a)],
                           !.password = PasswordOf(a)])
  /\ UNCHANGED <<now, rows, memory, browsers, history>>

\* The session of the cookie the request came with is replaced by a new one,
\* before the event of the login is committed.
CreateSession(w, s) ==
  LET j == job[w] IN
    /\ j.op = "login"
    /\ issued[s] = NoSession
    /\ now + Ttl <= MaxTime
    /\ issued' = [issued EXCEPT ![s] = NewSession(j.account, j.password)]
    /\ store' = (Unexpired \ {j.session}) \cup {s}
    /\ job' = [job EXCEPT ![w] = [j EXCEPT !.op = "created", !.session = s]]
    /\ UNCHANGED <<now, rows, browsers, history>>

\* The event is committed and the answer sets the cookie.
LoggedIn(w) ==
  LET j == job[w]  r == RealmOf(j.account) IN
    /\ j.op = "created"
    /\ cookie' = [cookie EXCEPT ![j.browser][r] = j.session]
    /\ Finish(w)
    /\ UNCHANGED <<now, rows, memory, page, history>>

\* POST /logout, with the CSRF token of the session it ends.
Logout(w, b, r) ==
  \E s \in Sessions :
    /\ s = cookie[b][r]
    /\ Found(s)
    /\ Csrf(b, r, s)
    /\ Start(w, [Idle EXCEPT !.op = "logout", !.browser = b,
                             !.account = issued[s].account, !.session = s])
    /\ store' = Unexpired \ {s}
    /\ UNCHANGED <<now, rows, issued, browsers, history>>

\* The answer clears the cookie, whatever the browser holds by now.
LoggedOut(w) ==
  LET j == job[w]  r == RealmOf(j.account) IN
    /\ j.op = "logout"
    /\ cookie' = [cookie EXCEPT ![j.browser][r] = None]
    /\ page' = [page EXCEPT ![j.browser][r] = None]
    /\ Finish(w)
    /\ UNCHANGED <<now, rows, memory, history>>

\* GET /api/session, when the page is loaded: it learns the CSRF token of
\* the session it has now, or the script goes to the login page.
LoadPage(b, r) ==
  /\ page' = [page EXCEPT ![b][r] =
                IF Found(cookie[b][r]) THEN cookie[b][r] ELSE None]
  /\ store' = IF cookie[b][r] = None THEN store ELSE Unexpired
  /\ UNCHANGED <<now, rows, issued, cookie, job, history>>

-----------------------------------------------------------------------------
(* PUT /api/v1/users/{id}/credentials.                                     *)

SetPassword(w, u) ==
  /\ u \in Renewed
  /\ password[u] < MaxPasswords
  /\ Start(w, [Idle EXCEPT !.op = "revoke", !.account = u])
  /\ password' = [password EXCEPT ![u] = @ + 1]
  /\ UNCHANGED <<now, memory, browsers, uploaded, active, consents, uploads,
                 history>>

\* Mutation: the loop is left after the first session it drops.
FirstSessionOf(u) ==
  LET mine == {s \in store : issued[s].account = u} IN
    IF mine = {} THEN {} ELSE {CHOOSE s \in mine : TRUE}

SessionsOf(u) == {s \in store : issued[s].account = u}

\* delete_user_sessions_for_user.
EndSessions(w) ==
  /\ job[w].op = "revoke"
  /\ store' = store \ SessionsOf(job[w].account)
  /\ cut' = cut \ {job[w].account}
  /\ Finish(w)
  /\ UNCHANGED <<now, rows, issued, browsers, opened, broken>>

\* The commit succeeded, but its answer or the refresh that follows did not:
\* 500, and the sessions stay.
PasswordInDoubt(w) ==
  /\ job[w].op = "revoke"
  /\ cut' = cut \cup {job[w].account}
  /\ Finish(w)
  /\ UNCHANGED <<now, rows, memory, browsers, opened, broken>>

-----------------------------------------------------------------------------
(* Documents, as their owner and as the administrator see them.            *)

\* GET /user/documents/{id}/view: the owner's document and its file.
ViewDocument(w, b, d) ==
  \E s \in Sessions :
    /\ Takes(b, "user", s)
    /\ d \in uploaded
    /\ Owner[d] = issued[s].account
    /\ Start(w, [Idle EXCEPT !.op = "view", !.session = s, !.document = d])
    /\ UNCHANGED <<now, rows, issued, browsers, history>>

\* Mutation: the session is stored again with its mark.
MarkViewedInStore(w) ==
  LET j == job[w] IN
    /\ j.op = "view"
    /\ issued' = [issued EXCEPT ![j.session].viewed = @ \cup {j.document}]
    /\ store' = store \cup {j.session}
    /\ job' = [job EXCEPT ![w] = [j EXCEPT !.op = "send"]]
    /\ UNCHANGED <<now, rows, browsers, history>>

\* mark_document_viewed, on the object: its key may be gone.
MarkViewed(w) ==
  LET j == job[w] IN
    /\ j.op = "view"
    /\ issued' = [issued EXCEPT ![j.session].viewed = @ \cup {j.document}]
    /\ job' = [job EXCEPT ![w] = [j EXCEPT !.op = "send"]]
    /\ UNCHANGED <<now, rows, store, browsers, history>>

\* DOCUMENT_VIEWED is recorded, or not: its failure is only logged.  The file
\* is sent, or the answer breaks off: a lost connection, a file that is gone.
SendDocument(w) ==
  /\ job[w].op = "send"
  /\ LET v == <<job[w].session, job[w].document>> IN
       \/ opened' = opened \cup {v} /\ UNCHANGED broken
       \/ broken' = broken \cup {v} /\ UNCHANGED opened
  /\ Finish(w)
  /\ UNCHANGED <<now, rows, memory, browsers, cut>>

\* with_for_update on the document.
LockFree(d) == \A w \in Workers :
                 ~(job[w].op = "request" /\ job[w].document = d)

\* Mutation: the view counts for every session of the user.
HasViewedOnce(s, d) ==
  \E t \in Sessions : /\ issued[t].account = issued[s].account
                     /\ d \in issued[t].viewed

\* has_viewed_document.
HasViewed(s, d) == d \in issued[s].viewed

\* POST /user/api/signature-requests: the owner's document, locked; viewed in
\* this session; without a request under way.
RequestSignature(w, b, d) ==
  \E s \in Sessions :
    /\ Takes(b, "user", s)
    /\ Csrf(b, "user", s)
    /\ d \in uploaded \ active
    /\ Owner[d] = issued[s].account
    /\ LockFree(d)
    /\ HasViewed(s, d)
    /\ Start(w, [Idle EXCEPT !.op = "request", !.session = s,
                             !.page = page[b]["user"], !.document = d,
                             !.time = now])
    /\ UNCHANGED <<now, rows, issued, browsers, history>>

ActOf(j) == [session |-> j.session, page |-> j.page,
             document |-> j.document, time |-> j.time]

\* create_signature_request, CONSENT_RECORDED and the commit.
RecordConsent(w) ==
  LET j == job[w] IN
    /\ j.op = "request"
    /\ consents' = consents \cup {ActOf(j)}
    /\ active' = active \cup {j.document}
    /\ Finish(w)
    /\ UNCHANGED <<now, password, uploaded, uploads, memory, browsers,
                   history>>

\* The request was signed, refused or expired (SignatureQueue).
RequestEnds(d) ==
  /\ d \in active
  /\ active' = active \ {d}
  /\ UNCHANGED <<now, password, uploaded, consents, uploads, memory, browsers,
                 job, history>>

\* POST /ui/api/documents/upload, the administrator's: the file is received
\* and stored, then the row is committed (SignedEvidence has the files).
Upload(w, b, d) ==
  \E s \in Sessions :
    /\ Takes(b, "ui", s)
    /\ Csrf(b, "ui", s)
    /\ d \notin uploaded
    /\ \A v \in Workers : job[v].op = "upload" => job[v].document # d
    /\ Start(w, [Idle EXCEPT !.op = "upload", !.session = s,
                             !.page = page[b]["ui"], !.document = d,
                             !.time = now])
    /\ UNCHANGED <<now, rows, issued, browsers, history>>

Assign(w) ==
  LET j == job[w] IN
    /\ j.op = "upload"
    /\ uploads' = uploads \cup {ActOf(j)}
    /\ uploaded' = uploaded \cup {j.document}
    /\ Finish(w)
    /\ UNCHANGED <<now, password, active, consents, memory, browsers, history>>

-----------------------------------------------------------------------------
(* Failures and time.                                                      *)

\* A wrong password (the hash changed is one), a commit that fails, an answer
\* that is lost: what the dictionaries hold by then stays.
Fails(w) ==
  /\ job[w].op \in {"login", "created", "logout", "request", "upload"}
  /\ Finish(w)
  /\ UNCHANGED <<now, rows, memory, browsers, history>>

Undelivered == {<<job[w].session, job[w].document>> :
                  w \in {v \in Workers : job[v].op = "send"}}

\* The process restarts: memory and running calls are gone, cookies are not.
Restart ==
  /\ store' = {}
  /\ job' = [w \in Workers |-> Idle]
  /\ broken' = broken \cup Undelivered
  /\ UNCHANGED <<now, rows, issued, browsers, opened, cut>>

Tick ==
  /\ now < MaxTime
  /\ now' = now + 1
  /\ UNCHANGED <<rows, memory, browsers, job, history>>

Step(w) ==
  \/ \E b \in Browsers, a \in Accounts : Login(w, b, a)
  \/ \E s \in Sessions : CreateSession(w, s)
  \/ LoggedIn(w)
  \/ \E b \in Browsers, r \in Realms : Logout(w, b, r)
  \/ LoggedOut(w)
  \/ \E u \in Users : SetPassword(w, u)
  \/ EndSessions(w)
  \/ PasswordInDoubt(w)
  \/ \E b \in Browsers, d \in Documents : ViewDocument(w, b, d)
  \/ MarkViewed(w)
  \/ SendDocument(w)
  \/ \E b \in Browsers, d \in Documents : RequestSignature(w, b, d)
  \/ RecordConsent(w)
  \/ \E b \in Browsers, d \in Documents : Upload(w, b, d)
  \/ Assign(w)
  \/ Fails(w)

Next ==
  \/ \E w \in Workers : Step(w)
  \/ \E b \in Browsers, r \in Realms : LoadPage(b, r)
  \/ \E d \in Documents : RequestEnds(d)
  \/ Restart
  \/ Tick

Spec == Init /\ [][Next]_vars

-----------------------------------------------------------------------------
(* Properties.                                                             *)

\* A consent is recorded only in a session in which that very document was
\* sent to its reader before, or whose sending is under way or broke off:
\* the mark is made before the file leaves, on a session object that may be
\* out of the dictionary, and must not reach another session of the user.
ConsentHasAView ==
  \A c \in consents :
    <<c.session, c.document>> \in opened \cup broken \cup Undelivered

\* What a session does, its own page asked for: a page left open while the
\* browser's cookie moved to another user (or to a newer login) cannot
\* consent or upload with that user's session, only the document's owner
\* consents, and only the administrator uploads.
ActsOfThePage ==
  /\ \A c \in consents : /\ issued[c.page].account = Owner[c.document]
                         /\ issued[c.session].account = Owner[c.document]
  /\ \A c \in uploads : /\ issued[c.page].account = Administrator
                        /\ issued[c.session].account = Administrator

\* The deadline of a session is absolute: being used does not prolong it, so
\* nothing is begun in it later than Ttl after its login.
NothingAfterTheDeadline ==
  \A c \in consents \cup uploads : c.time < issued[c.session].expires

\* A session opened with a password that has been replaced is in use only
\* while the call that replaced it has still to end the user's sessions,
\* after that call failed in between, or because the new password was set
\* between the password check of the login and its new session, which
\* delete_user_sessions_for_user then could not find.
StaleOnlyByRace ==
  \A s \in store :
    LET r == issued[s] IN
      \/ r.password = PasswordOf(r.account)
      \/ r.raced
      \/ r.account \in cut
      \/ \E w \in Workers : job[w].op = "revoke" /\ job[w].account = r.account

\* A session that ended, by logout, by a new login in the same browser, by a
\* new password, by its deadline or by a restart, is never found again.
EndedForGood ==
  [][\A s \in Sessions :
       issued[s] # NoSession /\ s \notin store => s \notin store']_vars
===============================================================================
