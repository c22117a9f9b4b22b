--------------------------- MODULE SignatureQueue ---------------------------
(***************************************************************************)
(* The signature-request queue of the RemoteSignLab server: the rows of    *)
(* signature_requests, authentication_sessions and document_signatures,    *)
(* the signed PDFs under storage/signed, and the HTTP handlers that move    *)
(* them (app/services/signature_request_service.py, app/api/auth.py,       *)
(* app/api/signing.py, app/api/device_signature_requests.py and the        *)
(* signature-request routes of app/user_web/routes.py).                    *)
(*                                                                         *)
(* A handler whose transaction is short and takes its locks in one         *)
(* statement is one action.  A handler that holds a row lock, a document   *)
(* lock or the device's advisory lock across several statements, across    *)
(* the HSM and PAdES calls or across two transactions is a job of a        *)
(* worker: it starts, and it ends in a later action.                       *)
(*                                                                         *)
(* The terminal is not modelled here: any device may call any handler at   *)
(* any time, in any order and any number of times, so what holds here      *)
(* holds whatever the network and the firmware do.  A call the code        *)
(* refuses without touching these tables is a stuttering step.             *)
(***************************************************************************)
EXTENDS Naturals, FiniteSets

CONSTANTS
  Requests,      \* ids of signature_requests, in the order of created_at
  Sessions,      \* ids of authentication_sessions
  Signatures,    \* ids of document_signatures (uuid4, also in the file name)
  Devices,       \* ACTIVE devices
  Users,         \* users with a credential on the devices
  Documents,
  Owner,         \* Document.user_id
  Withdrawable,  \* users and documents that may stop passing the checks
  Workers,       \* threads of the server that run handlers
  RequestTtl,    \* SIGNATURE_REQUEST_TTL_SECONDS
  ChallengeTtl,  \* CHALLENGE_TTL_SECONDS
  SigningTtl,    \* SIGNING_AUTHORIZATION_TTL_SECONDS
  MaxTime,       \* bound of the clock
  None           \* SQL NULL

ASSUME QueueAssumption ==
  /\ Requests \subseteq Nat
  /\ Owner \in [Documents -> Users]
  /\ Withdrawable \subseteq Users \cup Documents
  /\ {RequestTtl, ChallengeTtl, SigningTtl, MaxTime} \subseteq Nat
  /\ None \notin Sessions
  /\ None \notin Signatures
  /\ None \notin Devices
  /\ None \notin Documents

TermsRow == [user: Users, device: Devices, document: Documents, expires: Nat]
SessionRow == [user: Users, device: Devices, document: Documents, expires: Nat]
SignatureRow == [session: Sessions, user: Users, device: Devices,
                 document: Documents]

\* NULL is not a row.
ASSUME RowAssumption == None \notin TermsRow \cup SessionRow \cup SignatureRow

VARIABLES
  now,          \* the clock every handler reads
  status,       \* SignatureRequest.status, "NONE" before the row exists
  terms,        \* what the row says from its creation on
  sessionOf,    \* SignatureRequest.authentication_session_id
  signatureOf,  \* SignatureRequest.signature_id
  phase,        \* AuthenticationSession: none, open, verified_at, used_at set
  session,      \* AuthenticationSession: user, device, document, expires_at
  verifiedAt,   \* AuthenticationSession.verified_at, from phase VERIFIED on
  signature,    \* rows of document_signatures
  files,        \* ids whose final PDF is in storage/signed
  withdrawn,    \* users and documents that no longer pass the checks
  job           \* what each worker is in the middle of

rows == <<status, terms, sessionOf, signatureOf>>
auth == <<phase, session, verifiedAt>>
store == <<signature, files>>
vars == <<now, rows, auth, store, withdrawn, job>>

-----------------------------------------------------------------------------
(* Rows and their types *)

Statuses == {"NONE", "PENDING", "CLAIMED", "AUTHENTICATING", "AUTHENTICATED",
             "SIGNED", "FAILED", "EXPIRED"}
Expirable == {"PENDING", "CLAIMED"}
InFlight == {"CLAIMED", "AUTHENTICATING", "AUTHENTICATED"}
Active == {"PENDING"} \cup InFlight
Terminal == {"SIGNED", "FAILED", "EXPIRED"}

Phases == {"NONE", "OPEN", "VERIFIED", "USED"}

JobKinds == {"idle", "creating", "claiming", "polling", "signing",
             "published", "rejected"}

Job == [kind: JobKinds,
        locked: SUBSET Requests,          \* rows held FOR UPDATE
        device: Devices \cup {None},      \* its advisory queue lock
        document: Documents \cup {None},  \* its row held FOR UPDATE
        session: Sessions \cup {None},
        signature: Signatures \cup {None},
        at: Nat]                          \* the time a claim read

NoJob == [kind |-> "idle", locked |-> {}, device |-> None, document |-> None,
          session |-> None, signature |-> None, at |-> 0]

Idle(w) == job[w].kind = "idle"
Start(w, j) == Idle(w) /\ job' = [job EXCEPT ![w] = j]
End(w) == job' = [job EXCEPT ![w] = NoJob]

\* Mutation: a statement without FOR UPDATE sees no lock.
LockedNever(r) == r \notin Requests

Locked(r) == \E w \in Workers : r \in job[w].locked

\* A request row that another worker holds makes SELECT ... FOR UPDATE wait.
Free(R) == \A r \in R : ~Locked(r)

-----------------------------------------------------------------------------
(* The checks of the queue service *)

Due(r) == status[r] \in Expirable /\ terms[r].expires <= now

\* The row a session is attached to, as WHERE authentication_session_id = s
\* finds it.
RequestsOf(s) == {r \in Requests : sessionOf[r] = s}

\* Mutation: the user of the session is not compared.
AuthorizedAnyUser(r, s, expected) ==
  /\ status[r] = expected
  /\ terms[r].expires > now
  /\ terms[r].device = session[s].device
  /\ terms[r].document = session[s].document

\* signature_request_is_authorized_for_session; the hash and the decision are
\* those of the document, and consent is recorded when the row is created.
Authorized(r, s, expected) ==
  /\ status[r] = expected
  /\ terms[r].expires > now
  /\ terms[r].user = session[s].user
  /\ terms[r].device = session[s].device
  /\ terms[r].document = session[s].document

\* Mutation: whatever the row has become since, it fails.
AfterFailureBlind(r, failable) ==
  IF Due(r) THEN "EXPIRED" ELSE "FAILED"

\* The status a row is left in by the mark_..._failed functions: an overdue
\* row expires instead, and only the statuses in failable fail.
AfterFailure(r, failable) ==
  CASE Due(r) -> "EXPIRED"
    [] ~Due(r) /\ status[r] \in failable -> "FAILED"
    [] OTHER -> status[r]

-----------------------------------------------------------------------------
Init ==
  /\ now = 0
  /\ status = [r \in Requests |-> "NONE"]
  /\ terms = [r \in Requests |-> None]
  /\ sessionOf = [r \in Requests |-> None]
  /\ signatureOf = [r \in Requests |-> None]
  /\ phase = [s \in Sessions |-> "NONE"]
  /\ session = [s \in Sessions |-> None]
  /\ verifiedAt = [s \in Sessions |-> 0]
  /\ signature = [g \in Signatures |-> None]
  /\ files = {}
  /\ withdrawn = {}
  /\ job = [w \in Workers |-> NoJob]

-----------------------------------------------------------------------------
(* The user's browser: create a request, follow its status *)

ActiveOn(doc) == {r \in Requests : status[r] \in Active
                                   /\ terms[r].document = doc}

\* Mutation: the document is read without FOR UPDATE.
DocumentUnguarded(doc) == doc \in Documents

\* No worker holds the document's row.
DocumentFree(doc) == \A v \in Workers : job[v].document # doc

\* The document row is taken FOR UPDATE, then any active request on it (an
\* overdue one included: nothing here expires it) refuses the call.
CreateStart(w, doc) ==
  /\ DocumentFree(doc)
  /\ ActiveOn(doc) = {}
  /\ Start(w, [NoJob EXCEPT !.kind = "creating", !.document = doc])
  /\ UNCHANGED <<now, rows, auth, store, withdrawn>>

\* The row is inserted with its consent and committed.  The device is the one
\* the settings name at that moment.  Its rank r in the queue is created_at,
\* the start of the transaction, so it may appear in front of rows that were
\* committed earlier.
CreateFinish(w, r, d) ==
  /\ job[w].kind = "creating"
  /\ status[r] = "NONE"
  /\ status' = [status EXCEPT ![r] = "PENDING"]
  /\ terms' = [terms EXCEPT ![r] =
                 [user |-> Owner[job[w].document], device |-> d,
                  document |-> job[w].document, expires |-> now + RequestTtl]]
  /\ End(w)
  /\ UNCHANGED <<now, sessionOf, signatureOf, auth, store, withdrawn>>

\* GET /api/signature-requests/{id} takes the row FOR UPDATE ...
PollLock(w, r) ==
  /\ status[r] # "NONE"
  /\ Free({r})
  /\ Start(w, [NoJob EXCEPT !.kind = "polling", !.locked = {r}])
  /\ UNCHANGED <<now, rows, auth, store, withdrawn>>

\* ... and commits, after it has expired the row if that was due.
PollCommit(w) ==
  /\ job[w].kind = "polling"
  /\ status' = [r \in Requests |-> IF r \in job[w].locked /\ Due(r)
                                     THEN "EXPIRED" ELSE status[r]]
  /\ End(w)
  /\ UNCHANGED <<now, terms, sessionOf, signatureOf, auth, store, withdrawn>>

-----------------------------------------------------------------------------
(* GET /next: claim_next_signature_request *)

\* Mutation: a request that was delivered is not expired any more.
DueOnPending(d, t) == {r \in Requests : /\ status[r] = "PENDING"
                                        /\ terms[r].expires <= t
                                        /\ terms[r].device = d /\ ~Locked(r)}

\* expire_signature_requests: the overdue rows of the device at time t,
\* passing over the locked ones.
DueOn(d, t) == {r \in Requests : /\ status[r] \in Expirable
                                 /\ terms[r].expires <= t
                                 /\ terms[r].device = d /\ ~Locked(r)}

InFlightOn(d) == {r \in Requests : status[r] \in InFlight
                                   /\ terms[r].device = d}

\* PENDING rows a claim may take: not overdue at the time it read, and not
\* locked, for SKIP LOCKED passes over a row another handler holds.
Candidates(d, t) ==
  {r \in Requests : /\ status[r] = "PENDING"
                    /\ terms[r].device = d
                    /\ terms[r].expires > t
                    /\ ~Locked(r)}

\* Mutation: no advisory lock.
QueueUnguarded(d) == d \in Devices

\* No worker holds the advisory lock of the device's queue.
QueueFree(d) == \A v \in Workers : job[v].device # d

\* The time was read before the advisory lock was waited for, so it may be
\* old.  The unlocked rows overdue at that time are marked EXPIRED (visible
\* at commit), and no other row is in flight.
ClaimStart(w, d, t) ==
  LET due == DueOn(d, t) IN
  /\ t <= now
  /\ QueueFree(d)
  /\ InFlightOn(d) \subseteq due
  /\ Start(w, [NoJob EXCEPT !.kind = "claiming", !.device = d,
                            !.locked = due, !.at = t])
  /\ UNCHANGED <<now, rows, auth, store, withdrawn>>

\* The oldest candidate, if there is one, is CLAIMED; the commit shows it and
\* the expirations.
ClaimFinish(w) ==
  LET j == job[w]
      oldest == {r \in Candidates(j.device, j.at) :
                   \A q \in Candidates(j.device, j.at) : r <= q}
  IN
  /\ j.kind = "claiming"
  /\ status' = [r \in Requests |->
                  CASE r \in j.locked -> "EXPIRED"
                    [] r \notin j.locked /\ r \in oldest -> "CLAIMED"
                    [] OTHER -> status[r]]
  /\ End(w)
  /\ UNCHANGED <<now, terms, sessionOf, signatureOf, auth, store, withdrawn>>

\* A device whose earlier request is still in flight gets 204; the rows that
\* were due are expired all the same.
ClaimRefused(d, t) ==
  /\ t <= now
  /\ QueueFree(d)
  /\ ~(InFlightOn(d) \subseteq DueOn(d, t))
  /\ Free(InFlightOn(d) \ DueOn(d, t))
  /\ status' = [r \in Requests |-> IF r \in DueOn(d, t) THEN "EXPIRED"
                                                     ELSE status[r]]
  /\ UNCHANGED <<now, terms, sessionOf, signatureOf, auth, store, withdrawn,
                 job>>

-----------------------------------------------------------------------------
(* POST /challenge *)

\* attach_authentication_session's WHERE: the CLAIMED row of this device and
\* document that has no session.  The user of the session is not compared.
Attachable(d, doc) == {r \in Requests : /\ status[r] = "CLAIMED"
                                        /\ terms[r].device = d
                                        /\ terms[r].document = doc
                                        /\ sessionOf[r] = None}

\* A card known on the device opens a session, attached to the CLAIMED row
\* when there is one.  A due row expires, and the session stays unattached.
Challenge(d, u, doc, s) ==
  /\ phase[s] = "NONE"
  /\ {u, doc} \cap withdrawn = {}
  /\ Free(Attachable(d, doc))
  /\ phase' = [phase EXCEPT ![s] = "OPEN"]
  /\ session' = [session EXCEPT ![s] =
                   [user |-> u, device |-> d, document |-> doc,
                    expires |-> now + ChallengeTtl]]
  /\ status' = [r \in Requests |->
                  CASE r \in Attachable(d, doc) /\ Due(r) -> "EXPIRED"
                    [] r \in Attachable(d, doc) /\ ~Due(r) -> "AUTHENTICATING"
                    [] OTHER -> status[r]]
  /\ sessionOf' = [r \in Requests |->
                     IF r \in Attachable(d, doc) /\ ~Due(r)
                       THEN s ELSE sessionOf[r]]
  /\ UNCHANGED <<now, terms, signatureOf, verifiedAt, store, withdrawn, job>>

-----------------------------------------------------------------------------
(* POST /complete *)

\* SELECT ... FOR UPDATE on the session waits for a worker that signs with it.
SessionFree(s) ==
  \A w \in Workers : job[w].kind \in {"signing", "published"}
                       => job[w].session # s

\* The card and the finger are a credential of the session's user, who is
\* still ACTIVE, and the document row is the one the session was opened for.
CredentialHolds(s, finger) ==
  /\ finger = session[s].user
  /\ {session[s].user, session[s].document} \cap withdrawn = {}

IsAuthorized(s, expected) ==
  \E r \in RequestsOf(s) : Authorized(r, s, expected)

Complete(s, finger) ==
  /\ phase[s] = "OPEN"
  /\ session[s].expires > now
  /\ SessionFree(s)
  /\ Free(RequestsOf(s))
  /\ CredentialHolds(s, finger)
  /\ IsAuthorized(s, "AUTHENTICATING")
  /\ phase' = [phase EXCEPT ![s] = "VERIFIED"]
  /\ verifiedAt' = [verifiedAt EXCEPT ![s] = now]
  /\ status' = [r \in Requests |->
                  IF r \in RequestsOf(s) /\ status[r] = "AUTHENTICATING"
                    THEN "AUTHENTICATED" ELSE status[r]]
  /\ UNCHANGED <<now, terms, sessionOf, signatureOf, session, store,
                 withdrawn, job>>

\* The refusals that end the request.  The challenge's age is looked at
\* first, so a late duplicate of a completed call is one of them; so is the
\* wrong finger, at the first attempt.
CompleteIsFatal(s, finger) ==
  \/ session[s].expires <= now
  \/ /\ phase[s] = "OPEN"
     /\ \/ ~CredentialHolds(s, finger)
        \/ Free(RequestsOf(s)) /\ ~IsAuthorized(s, "AUTHENTICATING")

\* reject_complete: roll back, dropping every lock; the failure is recorded
\* by PersistFailure, in a transaction of its own.
CompleteReject(w, s, finger) ==
  /\ phase[s] # "NONE"
  /\ SessionFree(s)
  /\ CompleteIsFatal(s, finger)
  /\ Start(w, [NoJob EXCEPT !.kind = "rejected", !.session = s])
  /\ UNCHANGED <<now, rows, auth, store, withdrawn>>

PersistFailure(w) ==
  LET R == RequestsOf(job[w].session) IN
  /\ job[w].kind = "rejected"
  /\ Free(R)
  /\ status' = [r \in Requests |->
                  IF r \in R
                    THEN AfterFailure(r, {"AUTHENTICATING", "AUTHENTICATED"})
                    ELSE status[r]]
  /\ End(w)
  /\ UNCHANGED <<now, terms, sessionOf, signatureOf, auth, store, withdrawn>>

-----------------------------------------------------------------------------
(* POST /sign *)

SigningDeadline(s) == verifiedAt[s] + SigningTtl

\* No signature row names the session, and used_at is not set.
Unconsumed(s) ==
  /\ phase[s] = "VERIFIED"
  /\ \A g \in Signatures : signature[g] # None => signature[g].session # s

\* The document row is the one the session was opened for.  The user's status
\* and the credential are not looked at again.
DocumentHolds(s) == session[s].document \notin withdrawn

\* Mutation: session and request are read without FOR UPDATE.
SignStartUnlocked(w, s) ==
  /\ phase[s] # "NONE"
  /\ IsAuthorized(s, "AUTHENTICATED")
  /\ Unconsumed(s)
  /\ now <= SigningDeadline(s)
  /\ DocumentHolds(s)
  /\ Start(w, [NoJob EXCEPT !.kind = "signing", !.session = s])
  /\ UNCHANGED <<now, rows, auth, store, withdrawn>>

\* Session and request are locked and every check passes; the locks are kept
\* while the HSM and the PAdES service work.
SignStart(w, s) ==
  /\ phase[s] # "NONE"
  /\ SessionFree(s)
  /\ Free(RequestsOf(s))
  /\ IsAuthorized(s, "AUTHENTICATED")
  /\ Unconsumed(s)
  /\ now <= SigningDeadline(s)
  /\ DocumentHolds(s)
  /\ Start(w, [NoJob EXCEPT !.kind = "signing", !.locked = RequestsOf(s),
                            !.session = s])
  /\ UNCHANGED <<now, rows, auth, store, withdrawn>>

\* intact: the stored PDF could be read and has the hash of the session.
SignIsFatal(s, intact) ==
  \/ ~IsAuthorized(s, "AUTHENTICATED")
  \/ /\ Unconsumed(s)
     /\ \/ now > SigningDeadline(s)
        \/ ~DocumentHolds(s)
        \/ ~intact

SignReject(w, s, intact) ==
  /\ phase[s] # "NONE"
  /\ SessionFree(s)
  /\ Free(RequestsOf(s))
  /\ SignIsFatal(s, intact)
  /\ Start(w, [NoJob EXCEPT !.kind = "rejected", !.session = s])
  /\ UNCHANGED <<now, rows, auth, store, withdrawn>>

FreshSignature(g) ==
  /\ g \notin files
  /\ signature[g] = None
  /\ \A w \in Workers : job[w].signature # g

\* The signed PDF is renamed to its final path before any row is written.
Publish(w, g) ==
  /\ job[w].kind = "signing"
  /\ FreshSignature(g)
  /\ files' = files \cup {g}
  /\ job' = [job EXCEPT ![w].kind = "published", ![w].signature = g]
  /\ UNCHANGED <<now, rows, auth, signature, withdrawn>>

\* An error while the rows are written removes the PDF and rolls back.
RecordFails(w) ==
  /\ job[w].kind = "published"
  /\ files' = files \ {job[w].signature}
  /\ End(w)
  /\ UNCHANGED <<now, rows, auth, signature, withdrawn>>

\* PostgreSQL applies the commit: the signature row, the SIGNED request and
\* the consumed session.  The PDF is left alone whether or not the handler
\* hears of the commit.
CommitSignature(w) ==
  LET s == job[w].session
      g == job[w].signature
  IN
  /\ job[w].kind = "published"
  /\ signature' = [signature EXCEPT ![g] =
                     [session |-> s, user |-> session[s].user,
                      device |-> session[s].device,
                      document |-> session[s].document]]
  /\ status' = [r \in Requests |->
                  IF r \in RequestsOf(s) /\ status[r] = "AUTHENTICATED"
                    THEN "SIGNED" ELSE status[r]]
  /\ signatureOf' = [r \in Requests |->
                       IF r \in RequestsOf(s) /\ status[r] = "AUTHENTICATED"
                         THEN g ELSE signatureOf[r]]
  /\ phase' = [phase EXCEPT ![s] = "USED"]
  /\ End(w)
  /\ UNCHANGED <<now, terms, sessionOf, session, verifiedAt, files, withdrawn>>

\* A job ends without its commit: the HSM or the PAdES service fails, a
\* statement or the commit fails, or the process dies.  Its locks go; a PDF
\* that is already published stays.
Rollback(w) ==
  /\ ~Idle(w)
  /\ End(w)
  /\ UNCHANGED <<now, rows, auth, store, withdrawn>>

-----------------------------------------------------------------------------
(* POST /{id}/status: the device gives a request up *)

ReportFailure(r, d) ==
  /\ status[r] # "NONE"
  /\ terms[r].device = d
  /\ Free({r})
  /\ status' = [status EXCEPT ![r] = AfterFailure(r, InFlight)]
  /\ UNCHANGED <<now, terms, sessionOf, signatureOf, auth, store, withdrawn,
                 job>>

-----------------------------------------------------------------------------
(* The environment *)

\* A user is disabled or loses the credential, a document row is changed.
Withdraw(x) ==
  /\ x \notin withdrawn
  /\ withdrawn' = withdrawn \cup {x}
  /\ UNCHANGED <<now, rows, auth, store, job>>

Tick ==
  /\ now < MaxTime
  /\ now' = now + 1
  /\ UNCHANGED <<rows, auth, store, withdrawn, job>>

-----------------------------------------------------------------------------
WorkerStep(w) ==
  \/ \E doc \in Documents : CreateStart(w, doc)
  \/ \E r \in Requests, d \in Devices : CreateFinish(w, r, d)
  \/ \E r \in Requests : PollLock(w, r)
  \/ PollCommit(w)
  \/ \E d \in Devices, t \in 0 .. now : ClaimStart(w, d, t)
  \/ ClaimFinish(w)
  \/ \E s \in Sessions, finger \in Users \cup {None} : CompleteReject(w, s, finger)
  \/ PersistFailure(w)
  \/ \E s \in Sessions : SignStart(w, s)
  \/ \E s \in Sessions, intact \in BOOLEAN : SignReject(w, s, intact)
  \/ \E g \in Signatures : Publish(w, g)
  \/ RecordFails(w)
  \/ CommitSignature(w)
  \/ Rollback(w)

Next ==
  \/ \E w \in Workers : WorkerStep(w)
  \/ \E d \in Devices, t \in 0 .. now : ClaimRefused(d, t)
  \/ \E d \in Devices, u \in Users, doc \in Documents, s \in Sessions :
       Challenge(d, u, doc, s)
  \/ \E s \in Sessions, finger \in Users : Complete(s, finger)
  \/ \E r \in Requests, d \in Devices : ReportFailure(r, d)
  \/ \E x \in Withdrawable : Withdraw(x)
  \/ Tick

Spec == Init /\ [][Next]_vars

-----------------------------------------------------------------------------
(* What the queue promises *)

TypeOK ==
  /\ now \in Nat
  /\ status \in [Requests -> Statuses]
  /\ terms \in [Requests -> TermsRow \cup {None}]
  /\ sessionOf \in [Requests -> Sessions \cup {None}]
  /\ signatureOf \in [Requests -> Signatures \cup {None}]
  /\ phase \in [Sessions -> Phases]
  /\ session \in [Sessions -> SessionRow \cup {None}]
  /\ verifiedAt \in [Sessions -> Nat]
  /\ signature \in [Signatures -> SignatureRow \cup {None}]
  /\ files \subseteq Signatures
  /\ withdrawn \subseteq Withdrawable
  /\ job \in [Workers -> Job]

\* A terminal shows one document at a time: of the requests of one device at
\* most one has been delivered and is not finished, however many claims run
\* at once (the advisory lock of claim_next_signature_request).
OneInFlightPerDevice ==
  \A r, q \in Requests :
    (r # q /\ {status[r], status[q]} \subseteq InFlight)
      => terms[r].device # terms[q].device

\* A user who clicks twice, or in two tabs, gets one request: a document has
\* at most one active request (the document lock of
\* create_user_signature_request).
OneActivePerDocument ==
  \A r, q \in Requests :
    (r # q /\ {status[r], status[q]} \subseteq Active)
      => terms[r].document # terms[q].document

\* Every row of document_signatures belongs to one SIGNED request, whose
\* user, device and document it carries, and to a consumed session of that
\* request: whatever calls arrive, no signature exists without the consent
\* of its own user on its own document.
SignatureIsConsented ==
  \A g \in Signatures : signature[g] # None =>
    \E r \in Requests :
      /\ status[r] = "SIGNED" /\ signatureOf[r] = g
      /\ sessionOf[r] = signature[g].session
      /\ phase[signature[g].session] = "USED"
      /\ signature[g].user = terms[r].user
      /\ signature[g].device = terms[r].device
      /\ signature[g].document = terms[r].document

\* One strong authentication is worth one signature, and a SIGNED request
\* names a signature made with its own session.
OneSignaturePerSession ==
  /\ \A g, h \in Signatures :
       (g # h /\ signature[g] # None /\ signature[h] # None)
         => signature[g].session # signature[h].session
  /\ \A r \in Requests : status[r] = "SIGNED" =>
       \E g \in Signatures : /\ signatureOf[r] = g
                             /\ signature[g] # None
                             /\ signature[g].session = sessionOf[r]

\* A committed signature row never points to a missing PDF, whatever fails
\* and wherever the handler dies (the publication order of sign_document).
PublishedBeforeCommit ==
  \A g \in Signatures : signature[g] # None => g \in files

\* A finished request never changes again: a rejection that is recorded after
\* its own rollback, or a device report that comes late, finds SIGNED,
\* FAILED and EXPIRED as they are.
TerminalIsFinal ==
  [][\A r \in Requests : status[r] \in Terminal =>
       UNCHANGED <<status[r], terms[r], sessionOf[r], signatureOf[r]>>]_vars

-----------------------------------------------------------------------------
(* Why the promises hold: the parts of the inductive invariant *)

\* A row that exists has its columns, and a job has what its kind needs.
Shape ==
  /\ \A r \in Requests : status[r] # "NONE" <=> terms[r] # None
  /\ \A s \in Sessions : phase[s] # "NONE" => session[s] # None
  /\ \A w \in Workers :
       /\ job[w].kind = "creating" => job[w].document # None
       /\ job[w].kind = "claiming" => job[w].device # None
       /\ job[w].kind \in {"signing", "published", "rejected"} =>
            job[w].session # None /\ phase[job[w].session] # "NONE"
       /\ job[w].kind = "published" => job[w].signature # None

\* Row, document and advisory locks are exclusive.
LocksExclusive ==
  \A v, w \in Workers : v # w =>
    /\ job[v].locked \cap job[w].locked = {}
    /\ job[v].document # None => job[v].document # job[w].document
    /\ job[v].device # None => job[v].device # job[w].device

\* While a claim holds its device's queue, the only requests in flight there
\* are the overdue ones it is expiring.
ClaimHoldsQueue ==
  \A w \in Workers : job[w].kind = "claiming" =>
    /\ \A r \in job[w].locked : Due(r) /\ terms[r].device = job[w].device
    /\ InFlightOn(job[w].device) \subseteq job[w].locked

\* While a creation holds its document, nothing is active on it.
CreateHoldsDocument ==
  \A w \in Workers : job[w].kind = "creating" => ActiveOn(job[w].document) = {}

\* A session belongs to the one request it was attached to, made for its
\* device and document; it is verified by its own user and used up by the
\* signature.
SessionBinding ==
  /\ \A r \in Requests :
       /\ status[r] \in {"NONE", "PENDING", "CLAIMED"} => sessionOf[r] = None
       /\ status[r] \in {"AUTHENTICATING", "AUTHENTICATED", "SIGNED"}
            => sessionOf[r] # None
       /\ sessionOf[r] # None =>
            /\ phase[sessionOf[r]] # "NONE"
            /\ terms[r].device = session[sessionOf[r]].device
            /\ terms[r].document = session[sessionOf[r]].document
       /\ status[r] \in {"AUTHENTICATED", "SIGNED"} =>
            terms[r].user = session[sessionOf[r]].user
       /\ status[r] = "AUTHENTICATED" => phase[sessionOf[r]] = "VERIFIED"
  /\ \A r, q \in Requests :
       (r # q /\ sessionOf[r] # None) => sessionOf[r] # sessionOf[q]

\* While the HSM works, the request it works for stays AUTHENTICATED and its
\* session unused: the locks of sign_document keep everybody else out.
SigningHoldsRequest ==
  /\ \A w \in Workers : job[w].kind \in {"signing", "published"} =>
       \E r \in Requests :
         /\ job[w].locked = {r}
         /\ sessionOf[r] = job[w].session
         /\ status[r] = "AUTHENTICATED"
         /\ Unconsumed(job[w].session)
  /\ \A w \in Workers : job[w].kind = "published" =>
       job[w].signature \in files /\ signature[job[w].signature] = None
  /\ \A v, w \in Workers :
       (v # w /\ job[v].signature # None)
         => job[v].signature # job[w].signature

QueueInv == TypeOK /\ Shape /\ LocksExclusive /\ ClaimHoldsQueue
              /\ OneInFlightPerDevice /\ CreateHoldsDocument
              /\ SessionBinding /\ SigningHoldsRequest

-----------------------------------------------------------------------------
(* The queue implements the contract *)

StageOf(r) ==
  CASE status[r] = "NONE" -> "absent"
    [] status[r] = "PENDING" -> "waiting"
    [] status[r] \in {"CLAIMED", "AUTHENTICATING"} -> "presented"
    [] status[r] = "AUTHENTICATED" -> "proved"
    [] status[r] = "SIGNED" -> "signed"
    [] OTHER -> "closed"

\* The signatures whose session is the one attached to the request.
IssuedFor(r) == {g \in Signatures : /\ signature[g] # None
                                    /\ signature[g].session = sessionOf[r]}

Contract == INSTANCE SigningContract WITH
              stage <- [r \in Requests |-> StageOf(r)],
              desk <- [d \in Devices |-> InFlightOn(d)],
              receipt <- [r \in Requests |-> IssuedFor(r)]

\* Sessions, locks, separate rollback and failure transactions and the HSM
\* call in the middle notwithstanding, the handlers do nothing but what the
\* contract allows.
ImplementsContract == Contract!Spec

-----------------------------------------------------------------------------
(* Progress *)

\* The clock goes on; a handler that is running ends, and one that is called
\* again and again does not fail for ever; and the terminal keeps asking for
\* the next request (the loop of the firmware polls every few seconds).
Fairness ==
  /\ WF_vars(Tick)
  /\ \A w \in Workers : WF_vars(Rollback(w))
  /\ \A r \in Requests :
       SF_vars(\E w \in Workers : r \in job[w].locked /\ PollCommit(w))
  /\ \A d \in Devices :
       /\ SF_vars(\E w \in Workers : ClaimStart(w, d, now))
       /\ SF_vars(\E w \in Workers : job[w].device = d /\ ClaimFinish(w))
       /\ SF_vars(ClaimRefused(d, now))

FairSpec == Spec /\ Fairness

\* No request waits for ever, nor does a delivery whose answer was lost hold
\* one: a request nobody has begun to authenticate is taken up or expires
\* (for the requests whose deadline the bounded clock reaches), even behind
\* an in-flight request that never ends.
WaitingEnds ==
  \A r \in Requests :
    (status[r] \in Expirable /\ terms[r].expires <= MaxTime)
      ~> (status[r] \notin Expirable)

=============================================================================
