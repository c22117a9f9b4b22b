# A verification project for RemoteSignLab

RemoteSignLab signs PDF documents remotely. A user asks for a signature in the
web interface, identifies himself on an ESP32 terminal with an RFID card and a
finger, and the server signs with SoftHSM and publishes a PAdES file. This
directory holds TLA+ modules that model the server's state machines, TLC
configurations that check them on small instances, and TLAPS proofs.
`PROJECT.json` lists the runs, the mutants, the theorems, the hazards and, for
every definition that models code, the source lines it stands for.

- `tlc -workers 2 -config <X>.cfg <MC module>` runs a model;
- `tlapm <Module>Proofs.tla` checks the proofs.

## 1. The system

### Components, their state and their operations

| Component | State | Operations that change it | Modelled in |
|---|---|---|---|
| Signature request queue (`services/signature_request_service.py`) | `signature_requests`: status, deadline, attached session, signature | create, claim, attach, authenticate, sign, fail (by request, by session), expire | `SignatureQueue` |
| Strong authentication API (`api/auth.py`) | `authentication_sessions`: open, verified_at, used_at, expires_at | `/challenge`, `/complete` | `SignatureQueue` |
| Signing API (`api/signing.py`) | `document_signatures`, `storage/signed` | `/sign` | `SignatureQueue` |
| Device queue API (`api/device_signature_requests.py`) | none of its own | `/next`, `/{id}/status` | `SignatureQueue` |
| Signature requests of the user web API (`user_web/routes.py`) | none of its own | submit, poll the status | `SignatureQueue` |
| Nonce store (`security/nonce_store.py`, `security/device_auth.py`) | `used_nonces` | timestamp check, cleanup, consumption | `NonceStore` |
| Audit chain (`services/audit_service.py`) | `security_audit_events`, the advisory lock | add in the business transaction, record in an independent one, verify | `AuditChain` |
| Rate limiter (`security/rate_limit.py`) | counts failures in the audit log | none of its own: the calls it turns away are counted too | `RateLimit` |
| Terminal firmware (`firmware/remotesign_lab.ino`) | a workflow state in RAM | poll, card, challenge, finger, complete, sign, report | `DeviceWorkflow` |
| User and admin sessions (`security/user_session.py`, `ui_session.py`, the `/user` and `/ui` routes) | in-memory sessions, viewed documents | login, view, submit, upload, logout, expiry | `WebSessions` |
| Devices, users, credentials (`api/devices.py`, `api/users.py`) | `devices`, `users` | create, enrol, set a password | `Enrolment`; the end of the sessions in `WebSessions` |
| Document storage (`services/document_service.py`) | file and row of a document | upload | `SignedEvidence` |
| Signature verification (`api/signatures.py`) | none | none, it reads | `SignedEvidence` |
| HSM, PAdES, TSA (`services/hsm_service.py`, `pades_service.py`) | key and certificate files, temporary PDFs | sign, validate, publish | `SignedEvidence`, `SignatureBox`; the cryptography is taken as correct |
| Locks of all handlers (document, session, request, queue, old nonces, audit chain) | PostgreSQL's | taken and released by every call | `LockOrder` |
| Admin pages of the audit log, migrations, scripts | none | none | not modelled |

### Interactions

1. The browser creates a request (PENDING) and polls its status. Both calls lock
   a row: the document when creating, the request when polling, which may expire
   it.
2. The terminal polls `/next`. The claim takes an advisory lock of the device,
   expires what is overdue (passing over rows that others hold), and delivers
   the oldest PENDING request it can lock if nothing is in flight (CLAIMED).
3. `/challenge` opens a session and attaches it to the CLAIMED request of the
   device and document (AUTHENTICATING); `/complete` checks card, finger and
   deadlines and marks the request AUTHENTICATED.
4. `/sign` locks session and request, checks everything again, calls the HSM,
   builds the PDF under a temporary name, renames it to its final name, and
   commits signature, request (SIGNED) and session (used) together.
5. A refusal rolls the handler's transaction back, then fails the request in a
   second transaction and writes the audit event in a third.
6. Every signed call of a terminal consumes a nonce inside its own transaction,
   and every audited step appends to one global hash chain under one lock.

### What makes it hard

Threads of the server and PostgreSQL transactions interleave at every statement
and hold locks across HSM and time-stamping calls. A refusal takes three
transactions. Answers of `/next` get lost, calls are duplicated, delayed and
reordered; the terminal reboots and forgets its workflow; the server dies between
the publication of a file and the commit of its row. Deadlines are checked only
when somebody looks, with a time that was read before a wait. `hazards` in
`PROJECT.json` lists them line by line, with the properties that cover them.

### What makes each component correct

- Queue: one request in flight per terminal; one active request per document;
  finished requests never change; a waiting request leaves the queue.
- Authentication and signing: a signature belongs to a SIGNED request of its own
  user, device and document; one authentication is worth one signature; a
  committed row never names a missing file.
- Nonce store: a signed call takes effect once; no nonce is forgotten too early.
- Audit chain: the committed log always verifies and grows only at its end; a
  refusal that is being recorded does not wait for itself.
- Rate limiter: the attempts that reach the checks stay bounded; who stays shut out
  is known exactly.
- Firmware: what the screen shows is what is signed, what is announced as signed is
  signed, a request is forgotten only when it is finished or the report of its
  failure is refused, and exactly which requests a mishap leaves stuck.
- Sessions: a consent needs a view in its own session; a page acts for the user who
  loaded it; an expired or closed session does nothing; a new password ends the old
  sessions.
- Documents and signatures: a row has its files; what was signed verifies, and what
  verifies is whole.
- Locks: the handlers wait for each other in rings that PostgreSQL sees and breaks,
  but for those through the refusal of a replayed call, at no cost for a signature or
  a failure record.
- Devices and users: names stay distinct; the secret that was handed out is the
  stored one.

## 2. The modules

| Module | What it is |
|---|---|
| `SigningContract` | the abstract specification: what the service promises, without sessions, locks, deadlines or threads |
| `SignatureQueue` | queue, sessions, signatures, files and the handlers that move them |
| `MCSignatureQueue` | its instances: `MCQueueSafety`, `MCQueueProgress` |
| `NonceStore`, `MCNonceStore`, `NonceStoreProofs` | replay protection |
| `AuditChain`, `MCAuditChain`, `AuditChainProofs` | the audit log; instances `MCAuditChain`, `MCAuditHistory` |
| `DeviceWorkflow`, `MCDeviceWorkflow` | the terminal and its HTTP calls, on top of `SignatureQueue` |
| `DeviceWorkflowProofs` | the proofs of the queue (its inductive invariant, its safety theorems, the refinement of `SigningContract`) and, on top of them, those of the terminal |
| `WebSessions`, `MCWebSessions`, `WebSessionsProofs` | the two web interfaces |
| `SignedEvidence`, `MCSignedEvidence`, `SignedEvidenceProofs` | files, certificates, signatures, verification; instances `MCSignedEvidence`, `MCTsaFailure` |
| `RateLimit`, `MCRateLimit`, `RateLimitProofs` | the limiter over the audit trail |
| `LockOrder`, `MCLockOrder`, `LockOrderProofs` | the locks of all handlers |
| `Enrolment`, `MCEnrolment`, `EnrolmentProofs` | accounts, devices and their secrets |
| `SignatureBox` | where the visible signature is drawn; used by `SignedEvidence`, its theorem is in `SignedEvidenceProofs` |

`DeviceWorkflow` extends `SignatureQueue`: each step of the server is a step of the
queue together with what the call hears of it. The other modules share no
variables; each takes the part of the same handlers its properties are about.

Operators whose comment begins with "Mutation:" are plausible bugs of a mapped
definition. The specification never uses them; a run with the definition replaced
by the mutation shows that a property depends on that piece of code.

### SignatureQueue

`status`, `terms`, `sessionOf` and `signatureOf` are the columns of
`signature_requests`, `phase`, `session` and `verifiedAt` those of
`authentication_sessions`, `signature` the rows of `document_signatures`, `files`
the final PDFs. `job[w]` is the transaction server thread `w` is in: its kind, and
the request rows, the document row and the device's queue it has locked.

| Code | Actions |
|---|---|
| `create_user_signature_request`, `create_signature_request` | `CreateStart` locks the document and finds nothing active, `CreateFinish` inserts |
| `claim_next_signature_request`, `claim_next_request` | `ClaimStart` takes the queue and expires what it can lock, `ClaimFinish` delivers; `ClaimRefused` is a claim that finds a request in flight |
| `get_user_signature_request`, `user_signature_request_status` | `PollLock`, `PollCommit` |
| `create_authentication_challenge` | `Challenge` |
| `complete_authentication` | `Complete`, `CompleteReject` |
| `sign_document` | `SignStart` (locks and checks), `Publish` (HSM, PAdES, rename), `CommitSignature`, `RecordFails`, `SignReject`, `Rollback` |
| `mark_signature_request_failed_by_session` after a rollback | `PersistFailure`, the second half of both rejects |
| `report_request_status` | `ReportFailure` |
| restart of the server, lost connection, deadlock victim | `Rollback` |
| administrator (external) | `Withdraw` |

A claim uses a time `t` it read before it waited for the queue, so `t` is any
time up to `now`. A request may be created with an id below existing ones:
`created_at` is the start of the creating transaction. A lock that another thread
holds makes an action wait (a guard) or, with SKIP LOCKED, makes it pass over the
row. A refusal that changes nothing in these tables is a stuttering step.

Abstracted: the consent shown by a viewed document, HMAC, nonces, rate limits and
audit events (other modules), PDF and HSM contents, hashes (a document may become
unfit, `Withdraw`, and `/sign` then refuses). The attach takes `LIMIT 1` of the
rows that match, of which `OneInFlightPerDevice` leaves one. The hook that keeps
the API running on an unmigrated schema is left out, and
`get_owned_signature_request`, which nobody calls.

### NonceStore

A message is all that its HMAC covers: device, path, timestamp and nonce. `Verify`
is the timestamp check, `Purge` and `Insert` are the statements of
`consume_nonce`, `Refuse` a nonce that is found, `Commit` and `Abort` the end of
the handler's transaction. Rows that another transaction is deleting or inserting
make `Purge`, `Insert` and `Refuse` wait, as PostgreSQL does for a DELETE and a
unique index under READ COMMITTED. `stamp` is chosen at the start for every
message: the clock of a device may be anywhere. `executed` counts the calls whose
transaction committed. A refused or failed call releases its nonce with its
transaction, so it may be repeated; what is promised is that its effects are
committed once.

### AuditChain

`previous[e]` is the event whose hash is in `previous_hash`, `at[e]` is
`created_at`. `Write` is `write_audit_event`: the advisory lock, the latest
sealed event among those the transaction can see, the stamp, the link. `Add` runs
it in the business transaction, `Record` in the independent one of
`record_audit_event`; `Reject` is the rollback between the two. `Readings` are
what the clock may show, in any order, so it may be set back at any moment.
`ValidChain` and `HistoricalCounted` are what `verify_audit_chain` returns; its
loop is stated as a condition on each event and its predecessor. A rolled back
identifier may be used again, which only keeps the instance small. Left out:
taxonomy, sanitisation, listing and export, the process lock (a fallback for
SQLite tests), and rewriting of rows by a database administrator, which
`docs/audit.md` excludes.

### DeviceWorkflow

`workflowState[d]` is the firmware's state, `memory[d]` its request, card, finger
and session, `call[c]` an HTTP call under way with what it was sent, the server
thread that runs it and its answer, `awaited[d]` the call the terminal waits for.
`shown` and `mislaid` are history.

| Code | Actions |
|---|---|
| the five states of `processWorkflow` that call | `Poll`, `Send`, `Receive` with `AfterCall` (one line per HTTP code and state) |
| `http.setTimeout`, a connection that breaks, a body cut off | `GiveUp`, `Vanish`, `Garbled` |
| card and finger readers, `TimeOut` and end of a workflow | `ReadCard`, `ReadFinger`, `TimeOut`, `Finish` |
| power cycle | `Reboot` |
| `/next`, `/challenge`, `/complete`, `/sign`, `/status` with their answers | `Serve`, which joins `NextStart`, `NextFinish`, `NextNothing`, `Challenge...`, `Complete...`, `Sign...`, `Reports...` |
| a call refused before its subject is looked at: clock, signature, nonce, device not active (401, 403) | `Unauthorized` |
| a failed HSM, database or process, 429 | `Unavailable` |

A call that was given up stays in the network and may be served at any later time,
once; retries are new calls with new nonces (that a copy has no effect is
`NonceStore`). An answer nobody waits for is lost (`Unheeded`, `Reply`). A fault is
counted; a call that is merely slow, or refused, is not: the server may refuse any
call at any time. The firmware repeats no refused `/challenge`, `/complete` or
`/sign`. It reports the failure instead, and when that report is refused it drops a
request that is still in flight (`Refused`, `Dropped`): such requests are `mislaid`, like those claimed by a `/next`
that was given up. A report `calculateHMAC` cannot sign ends in the same way. WiFi, the
clock and the sensors' registers only decide whether a call or a reading succeeds.

### WebSessions

`store` holds the sessions in the dictionaries, `issued[s]` the objects, which live
on after they left the store; `cookie` and `page` are what a browser has per
interface: the cookie, and the session whose CSRF token its page carries.
`job[w]` is the route a thread runs. A login is `Login`, `CreateSession`,
`LoggedIn`, because the password hash is slow and nothing is locked; a change of
password is `SetPassword` (its commit), `EndSessions` or `PasswordInDoubt`; the
document page is `ViewDocument`, `MarkViewed`, `SendDocument`; a submission is
`RequestSignature`, `RecordConsent`; an upload is `Upload`, `Assign`. `Fails` ends a
route anywhere, `Restart` empties the dictionaries (the code's comment wants it so).
A session stands for its token, its id and its CSRF token; tokens are never drawn
twice.

### SignedEvidence

`docFile` and `docRow` are a document's file and row, `pdf` and `temps` the signed
and temporary files, `row` the rows of `document_signatures`, `material` the key and
certificates the server has, `profile` its configuration, `job` the `/sign` call in
progress, which the session and request locks make the only one of its document.
The actions are the steps of `sign_document` and `sign_pdf`: `HashDocument`,
`HsmSign`, `PadesSign`, `Publish`, `Commit`, each with its failures
(`HsmFails`, `PadesFails`, `PublishFails`, `RecordFails`, `CommitInDoubt`), and
`StoreDocument`, `UploadCommit`, `UploadFails` of an upload. `Restart`,
`ReplaceMaterial`, `RewriteDocument` and `DamagePdf` happen behind the server's
back and are counted by `MaxChanges`; a signature during which one happened is
`disturbed`. A PDF is the content it extends, the certificate and key of its
signature and its timestamp. `VerifiesAsValid` is the verdict of `/verify`:
`HashHolds`, `DetachedHolds` and `PadesHolds`, in terms of what is configured now.
Errors and negative verdicts are not told apart.

### RateLimit

`log[k]` are the failures of a device and address, each with its time and whether
the limiter had let the call through. `Ask` counts, in its own step; `Refused`,
`Served`, `Blocked` (a failure too) and `Unrecorded` end the call. `on` are the
terminals that call again within `Every` of the last answer, which the guards of
`Tick` state. Threads count before they record, as in the code.

### LockOrder

A handler has a main transaction and a recorder's. `wants[t]` and `held[t]` are the
locks it asks for and has, `job[h].at` where it is. `Acquire` grants, `Step` does
what the handler does once it has its locks, `Break` is PostgreSQL failing one
member of a ring of waiting transactions. `SELECT ... FOR UPDATE` takes a row
alone; a row inserted with a foreign key shares the row it names (`FOR KEY SHARE`
conflicts with `FOR UPDATE` only). The handlers are `Create`/`FindExisting`,
`Claim`/`ExpireRows`/`ScanInFlight`/`ClaimPending`, `Challenge`/`Attach`,
`Authorize` with `Crypto` and `Publish` (`/complete` and `/sign`), `Report`, `Poll`,
`View`, and `Refuse`, `Fail`, `Denial` for a refusal. One authentication session per
request, one call per handler.

`consume_nonce` deletes old rows of `used_nonces` and keeps them locked to the end of
its transaction: one lock, `Purged`, stands for them, for two calls that both find some
both delete the oldest. `/next`, `/challenge` and `/status` ask for it before anything
else, `/complete` and `/sign` after their session and request (`Authorized`). A
replayed nonce (`Replayed`) is refused after a rollback by `/complete` and `/sign`; the
other three record the refusal in place, with the old nonces they deleted
(`DenyInPlace`).

Left out: the row of the device, which is written last; the order in which PostgreSQL
serves waiters; and a copy of a call that waits until its original has stored the
nonce, which holds no more than old nonces then, so the properties say of the rings
it closes what they say of the others.

### Enrolment

`CreateUser`, `UpdateUser`, `CreateDevice`, `Enroll` read and decide, the `Commit...`
actions write under the unique constraints, `Answer` hands the secret over,
`AnswerLost` and `Dies` do not. `Fold` is strip and lower (or upper) case: two
spellings may be one name. `Revoke` is an operator in the database, the only way a
device is revoked. `raced` marks the devices two writers wrote at once, `lost` those
whose answer did not arrive.

### SignatureBox

A pure function, which `SignedEvidence` asks whether a page has room for the signature
(`PageHasRoom`): `PageBoxValue` inherits a box through the page tree,
`VisibleSignatureBox` is `_visible_signature_box`, in hundredths of a point (margins in
1/2500 point, so that 4 % of a side is a whole number). The rounding of floating
point is left out.

## 3. What is checked

| Run | Instance | What it shows |
|---|---|---|
| `queue_safety` | 2 users, 2 documents, 1 terminal, 2 requests, 2 sessions, 2 signature ids, 2 threads, clock to 1 | the inductive invariant; one request in flight, one active per document, one signature per session; a signature is its own user's consent, although a card of another user may open the session; finished is final; the refinement of `SigningContract` |
| `queue_progress` | 1 user, 2 documents, one of which may become unfit, fair | a waiting request is taken up or expires |
| `nonce_store` | 2 messages, 2 threads, Skew 1, Ttl 1, Retention 2, Wait 1, clock to 6 | one execution per message, no nonce forgotten early (a part of `NonceInv`) |
| `audit_chain` | 4 events, one of them historical, 2 threads, 3 clock readings, fair | the log verifies at every moment and grows at its end; recording a refusal ends |
| `audit_history` (violation) | a historical event stamped later than the clock shows | see below |
| `signed_evidence` | 1 document, uploaded or still to come, 2 signatures, of which one may be historical, 3 contents with pages of their own, 2 keys, 3 certificates, 2 TSAs, 2 changes behind the server's back | types and a row has its files (`EvidenceInv`), orphans, one content, verification both ways, the owner's download |
| `tsa_failure` (violation) | the same | see below |
| `web_sessions` | 2 users and the administrator, 1 browser, 1 document, 2 sessions, 2 threads, 2 passwords of one user, Ttl 1, clock to 1 | consent after a view, the page's own user, which sessions survive a new password, ended for good |
| `rate_limit` | 1 key, 2 threads, window 4, limit 2, `Every` 2, clock to 10, 5 failures | attempts are bounded; a full window stays full |
| `device_workflow` | 1 terminal, 1 request, 2 sessions, 2 signature ids, 2 calls under way, 2 threads, 1 fault, 1 power cycle, fair | the inductive invariant, any call being refused; signed is shown, announced is signed, forgotten is finished but for a refused report, deserted takes a mishap; the terminal comes back to its queue |
| `lock_order` | any 3 calls at once, 3 requests of 2 documents, each document with an open request at the start, one of them PENDING and one CLAIMED or AUTHENTICATED, 1 deadline passing | the inductive invariant of what each handler holds and wants at each label, with nothing waiting after the HSM; a deadlock holds the chain or old nonces, is seen but for the refusal of a replayed call, and is cheap |
| `enrolment` | 2 accounts, 3 spellings of 2 names, 2 devices, 1 identifier, 3 secrets, 2 threads | the inductive invariant; names, secrets and revocation under races and crashes |

Bounds. Two requests are what a conflict in the queue takes (two in flight, two
active, one passing over another), two threads what an interleaving of two
handlers takes; a handler that waits is a guard and needs no third thread. Two
sessions and two signature ids let a second challenge, a second signing job and a
duplicate meet the first. The clock passes every deadline of the instance (time to
live 1, 0 for signing, clock to 1, a deadline being over at its own instant), so each check is met
before and at its deadline; in `queue_progress` only requests whose deadline the clock reaches are
claimed to end. In `nonce_store` the limits satisfy
`2 * Skew + Wait <= Ttl + Retention` with equality, and the clock goes past the
deadline and the retention of a row. In `device_workflow` two calls let an abandoned call meet a new
one, two sessions a challenge meet a late one; the clock of 1 passes every deadline.
Sessions are used in order (the `CONSTRAINT` of the configuration): a session is never
unused again and all are alike, so this renames them and leaves no behaviour out.
With one fault the two sessions suffice for every failed challenge to be tried again; with
more faults the instance runs out of sessions, and `TerminalComesBack` with it.
A second request would add the late `/next` that takes another request than the
terminal holds: `Deserters` and `Factored` are proved for any number of them. In
`rate_limit` the clock goes through two windows and the
failures through two limits, and `MaxFailures * Every = Window` is the tightest case of
the assumption. In `web_sessions` two sessions are what a second login in the same
browser takes, and what a change of password must both end; the clock reaches the
deadline, `Renewed` leaves the password of the second user alone. In
`signed_evidence` two changes are enough to replace the key and one file, or a file
twice during one signature; the three pages are one with an inherited box, a strip 4
points high with swapped corners that takes a squeezed signature, and one that is
refused. In `lock_order` three handlers make the rings the properties are about, those through
old nonces and the one PostgreSQL does not see included (without its exception
`DeadlocksAreSeen` fails in this instance, and so does `DeadlocksHoldChainOrNonces`
with the chain alone). Each document has an open
request at the start, the state in which most handlers contend; `Starts` names the
statuses the requests begin with, CLAIMED for the handlers up to `/challenge`,
AUTHENTICATED for `/sign`; the others are reached from these, and a document without
an open request when its request ends; one
deadline passes meanwhile (`MaxDue`), so that a due row and a waiting one meet. The theorems lift these bounds: every
invariant and every action property of a passing run is proved for all instances.

`CHECK_DEADLOCK FALSE` is in the configurations whose instance really stops:
the clock or the identifiers run out (`MCNonceStore`, `MCRateLimit`, `MCWebSessions`,
`MCDeviceWorkflow`, `MCSignedEvidence`, `MCTsaFailure`), or each handler has made its
one call (`MCLockOrder`). The deadlocks of the handlers themselves are properties of
`LockOrder`.

### Fairness

`queue_progress` (`FairSpec` of `SignatureQueue`): time passes; a handler that is
running ends, if need be by a rollback (the server's timeouts and PostgreSQL's
deadlock detection end it); and the calls of a terminal that keeps polling
(`/next` every few seconds, in the firmware's loop) are not refused a lock for
ever, nor fail for ever once they got it. Those are strong fairness conditions per
device, because the guard (lock free) comes and goes; PostgreSQL queues waiters
in order. Nothing is assumed of the user, the browser, `/challenge`, `/complete`
or `/sign`. So the property says that a request nobody takes care of ends, and
says nothing of an AUTHENTICATING or AUTHENTICATED one: the code never expires
those, and a terminal that reboots there leaves its queue blocked. The tests
require that these two statuses do not expire
(`tests/test_device_signature_queue.py:829`).

`audit_chain` (`FairSpec` of `AuditChain`): a handler's transaction ends, and a
waiter of the advisory lock, which PostgreSQL queues in order, gets it if it is
released again and again. Recording may also give up, but fairness does not rely on
it, except when the instance has no event left.

`device_workflow` (`FairDeviceSpec`): the firmware's loop runs (`Poll`, `Send`,
`Receive`, `TimeOut`, `Finish`), a call that arrived is served or lost (strongly fair per
call, because rows it needs may be locked again and again), browser handlers end, and
faults are finitely many. Refusals need no bound: a refused
`/next` leaves the terminal at its queue, any other refused call ends the workflow, at
once or after its report. Nobody has to present a card or a finger, and no
terminal has to be restarted.

### Disagreements found

- `HistoryRecognised`. `docs/audit.md:137` counts the unsealed historical events,
  but `_now_after` looks only at the latest *sealed* event. If the application's
  clock is behind the database's stamp of a historical event when the chain is
  started, the first sealed event sorts before it, and `verify_audit_chain` calls
  the log invalid from then on. Once the clock is past the history this cannot
  happen: `HistoryIsPast` is the hypothesis of the theorems about the chain.
- `TsaFailureIsNamed`. `tests/test_audit_hardening.py:646-658` and `docs/audit.md:83` say
  that a `/sign` refused for an unavailable TSA is audited as
  `TSA_TIMESTAMP_FAILED`/`TSA_UNAVAILABLE`. `sign_document` (998) looks for "tsa" or
  "timestamp" in the message of the error, but `sign_pdf` has replaced it by "PAdES
  generation failed": only a TSA that is not configured is named.

### What else the models show

Nothing in the repository promises otherwise, so they are no disagreements; the
properties name each of them as the exception it is.

- *Order of delivery.* The claim selects with SKIP LOCKED
  (`signature_request_service.py:246`): while the owner's status poll holds the oldest
  PENDING row, a younger request is delivered first. "The next FIFO item" in the
  comment at 229-231 is FIFO among the rows that are free.
- *Rate limit.* A terminal retries a temporary error every few seconds, and a
  blocked call is a failure of the window. If all its calls are refused for about half a
  minute, it fills the window and stays shut out until it is silent for 300
  seconds, long after the cause is gone (`ShutWhileOn`).
- *Desertion.* A request in AUTHENTICATING or AUTHENTICATED that no terminal holds
  is never finished and blocks its queue. It takes a power cycle, a `/next` that the
  server runs after the terminal gave it up, or a report of a failure that the server
  refuses with 401 or 403 (`DesertedByMishap`). The last needs no crash: a clock that
  is two minutes off, or a device that was revoked meanwhile, is refused the call and
  then the report of its failure, and `reportRequestFailure` takes both for
  definitive (`remotesign_lab.ino:1311`).
- *Announcements.* A success on the screen is always true. A failure is not: when the
  answer of a `/sign` that succeeded is lost, the retry is refused and the terminal
  announces a failure for a document that is signed; it forgets the request, which is
  finished, so `ForgottenIsFinished` holds.
- *Deadlocks.* Some happen: creating a request (document, then chain) against
  any event that names the document (chain, then a share of the document); a claim
  that expires a row (chain, then the row in flight) against `/challenge`, `/complete`
  or `/sign`; the record of a refusal against a duplicate; `/next` or `/status` (old
  nonces, then a row) against `/complete` or `/sign` (the row, then old nonces). PostgreSQL
  fails one side: a 500 that may be repeated, or the event of a refusal that is lost.
- *A deadlock PostgreSQL does not see.* The refusal of a replayed `/next`, `/status` or
  `/challenge` is recorded while its transaction is open and keeps the old nonces it
  deleted (`auth.py:576-592`, `device_signature_requests.py:203-218`;
  `record_audit_event` is meant for the time "after business rollback",
  `audit_service.py:689`). Its recorder waits for the chain; the chain's holder, a claim that
  expired a row, waits for the row of a `/complete` or `/sign`; and that one waits for
  the old nonces. The thread's wait for its recorder is outside the database, so
  the three wait until one of the connections is lost. `DeadlocksAreSeen` names this as its one
  exception.
- *Sessions.* A login that checked the old password before it was changed survives
  the change, and so do all sessions if the change is committed but its answer fails
  (`StaleOnlyByRace`).
- *Enrolment.* Two concurrent `/enroll` calls are both answered 200 with different
  secrets; if the answer is lost nobody has the secret and `/enroll` answers 409 for
  ever (`GivenIsStored`, `SecretInHand`).
- *Visible signature.* The second refusal of `_visible_signature_box` (no room between the
  margins) can never happen; the first, a side under four points, is the only one.

## 4. What is proved

For every value of the constants that satisfies the ASSUMEs:

| Theorem | Statement |
|---|---|
| `QueueInvariant`, `TypeCorrect` | `[]QueueInv`, `[]TypeOK` |
| `OneInFlight`, `OneActive` | one request in flight per terminal, one active per document |
| `Consented`, `OneSignature`, `Published` | the promises about signatures and files |
| `TerminalFinal` | finished requests never change (an action property) |
| `Implementation` | `Spec => Contract!Spec` |
| `NonceInvariant`, `NoReplay`, `Remembered` | the nonce store |
| `AuditInvariant`, `ChainAlwaysVerifies`, `LogGrowsAtItsEnd` | the audit chain, if `HistoryIsPast` |
| `DeviceInvariant`, `DeviceTypeCorrect` | `[]DeviceInv`, `[]DeviceTypeOK` |
| `DeviceRefinesQueue` | `DeviceSpec => Spec`: the theorems of the queue, and its refinement, hold with the terminal attached |
| `Factored`, `SuccessTrue`, `Deserters`, `Forgotten` | the four promises of the terminal, the last two with the exceptions they name |
| `SessionInvariant`, `TypeCorrect` (`WebSessionsProofs`) | `[]SessionInv`, `[]TypeOK` |
| `Viewed`, `OwnPage`, `InTime`, `Ended`, `Stale` | the five promises of the sessions |
| `TypeCorrect`, `Bounded`, `ShutOut` (`RateLimitProofs`) | the rate limiter, if `LimitAssumption` |
| `EvidenceInvariant` | `[]EvidenceInv` |
| `Orphans`, `OneContent`, `Verifies`, `Whole`, `LastSignature` | the five promises of `SignedEvidence` about files, rows and `/verify` |
| `BoxFits`, `DrawnOnThePage` | the visible signature, for every box; every stored PDF has one inside its page |
| `LockInvariant` | `[]LockInv` |
| `DeadlocksChain`, `DeadlocksSeen` | every ring of waits holds the chain or old nonces, and PostgreSQL sees one in it or it goes through a refusal that keeps old nonces |
| `FailureStored` | the failure of a refused request is no deadlock victim (an action property) |
| `EnrolmentInvariant` | `[]EnrolmentInv` |
| `Secret`, `Given`, `Revoked` | the three promises of the enrolment |

**Queue.** `OneInFlightPerDevice` is not inductive: a claim delivers in
a later action than it checks, and relies on its lock in between. `QueueInv` adds that locks are exclusive
(`LocksExclusive`); that while a claim holds its queue the requests in flight there
are the overdue ones it is expiring (`ClaimHoldsQueue`); that while a creation
holds its document nothing is active on it (`CreateHoldsDocument`); that a session
belongs to one request of its device and document and, from AUTHENTICATED on, of
its user (`SessionBinding`); and that during the HSM and PAdES calls the request
stays AUTHENTICATED and the session unused (`SigningHoldsRequest`). There is one
lemma per part and one step per action. The other promises follow by a second,
short induction under `QueueInv`. The refinement maps statuses to stages, requests
in flight to the terminal's desk and the signature rows of the attached session to
receipts, and shows for each action which step of the contract, or none, it is.

**Nonce store.** The proof needs `RetentionAssumption`,
`2 * Skew + Wait <= Ttl + Retention`. With the code's 120, 120 and 600 seconds it
says that a handler reaches its nonce within 480 seconds of its timestamp check;
the truncation of `time.time()` to seconds is far inside that slack. The heart is
`InsertFirst`: while a copy of an executed message can still reach the store, its
row is there (`RememberedWhileRecent`) and too young for any cleanup
(`RowsOutlive`, `PurgesOld`).

**Audit chain.** The invariant says that one thread has all uncommitted events
(`LockHeld`), that they come after the committed ones (`PendingLast`), and that the
chain is valid with them (`RowsChained`); so a rollback cuts an end off
(`ChainPrefix`) and an append adds one (`ChainExtend`). These are lemmas about two
functions and a set, independent of the state machine.

**Terminal.** `DeviceInv` adds to `QueueInv` that what the terminal remembers, what a
call was sent and what an answer says is true of the server's tables, now and
later (`Truthful`): all of it is about facts that only grow, so one lemma
(`LearnedKept`) carries it over every step. With it, a verified session was shown to
its user (`VerifiedShown`), and a request in flight is held by the terminal, by a
call it waits for, or is a mishap (`InFlightIsHeld`): `Receive` adds to `mislaid` the
request of a refused report in the step in which the terminal forgets it. The proof goes by what the
firmware does (`FirmwareMoves`) and what the server answers (`ServerMoves`); a step
of either is a step of the queue or leaves its variables alone
(`DeviceStepIsQueueStep`), which is `DeviceRefinesQueue`.

**Sessions.** `SessionInv` says that a running call knows true facts of the session it
found (`JobsInv`), that a cookie names a session of its interface (`CookiesInv`), that a
mark has been sent or is being sent (`ViewsInv`), and that every act was in
time and by its page's user (`ActsInv`). A session object never changes its account,
deadline or password once issued (`SessionsKept`). `Stale` is a second induction under
it: who writes a password is the only one to make a session stale, and ends it or
leaves the mark of the exception.

**Rate limit.** The number of attempts in the window plus the calls that the limiter
let through and that still run is less than limit plus threads (`AttemptsInv`), since
every call past the limiter saw fewer than the limit. For `ShutOut`: the last
`MaxFailures` failures follow each other within `Every`, so all of them are in the window
because `MaxFailures * Every <= Window`, and the next failure is no later
(`OneMore`). With the firmware's 13 seconds and the code's 10 and 300 this holds.

**Evidence.** That a row names files which exist is not inductive: the row is written
from what the call holds in memory, several steps after the files. `EvidenceInv` adds what
the call under way knows (`JobInv`: its hash is that of the document's row, its temporary
PDF exists exactly between generation and publication, its name is no other call's, the
PDF and the detached signature are of one content and one key unless the signature was
disturbed), what an upload has left (`UploadsInv`: a file, no row yet), what every row
says of its PDF (`RowsInv`), and who may own a PDF without a row (`OrphansOnlyInDoubt`).
There is one lemma per part; the other promises are consequences of the invariant.
`DrawnOnThePage` joins it to `BoxFits`: a call that wrote a PDF found room on the page,
and from room on the page the rectangle follows.

**Locks.** `LockInv` says of each handler which locks it may hold and want at each
label. A transaction may have deleted old nonces; it takes one lock first (a document, the
queue, a session or a row), then at most one row of a request, then (`/complete` and
`/sign`) old nonces, then the chain; after the chain it asks for a row, or
for a share of the document its event names. Hence a transaction that holds something,
and neither the chain nor old nonces, wants only the chain, or only old nonces, or a
row of which it holds none yet (`Orders`), and
this settles rings of any length. Suppose nobody in a ring holds the chain or old
nonces. Then nobody in it waits for either, so all of them want rows; but whoever is waited
for holds a row, and would want nothing but the chain or old nonces. So somebody holds one
of the two (`DeadlocksChain`). A handler waits for its recorder with no lock at all, or with
the old nonces of a replayed call, which is the exception. Otherwise nobody waits for
its main transaction: cutting those off leaves a ring of transactions
(`DeadlocksSeen`). The transaction that fails a refused request begins with its only
lock and holds nothing while it waits; PostgreSQL breaks a ring at one of its members,
and a transaction that holds nothing is in no minimal one (`FailureStored`).

**Enrolment.** The names in the tables are distinct because of the unique constraints, but
that they are distinct up to case needs `AccountsInv`: what a call read, folded and decided to
write is folded, and has an address if it has a password. `DevicesInv` says the same of a
device that is being created or enrolled. The other properties need `EnrolsAlone`: on a
device where no two writers raced, one call is enrolling, the device is still pending, and
the secret that call will answer with is the stored one.

**Assumptions on the constants.** Besides those named above, `None` is no row, status, kind,
name or identifier, identifiers of signatures are numbers (their order is the order of
`created_at`), folding a name twice is folding it once, every certificate has a key and an
issuer, every request of `LockOrder` has a document, and it starts with one open request
per document and one in flight at most, which the queue's theorems promise. TLC evaluates all of them.

**Visible signature.** Two facts about rounding inward (`Rounding`) and the margin
(at most 4 % of the smaller side, `MarginIsSmall`) give room between the margins.

The types of each module, `PublishedBeforeCommit`, `RememberedWhileRecent`,
`NothingAfterTheDeadline`, `BoxFits` and `DrawnOnThePage` are theorems without a place of
their own in a run: where the run checks an inductive invariant, they are its parts or
follow from it.

Only model-checked: the liveness properties `WaitingEnds`, `RefusalAnswered`
and `TerminalComesBack`, because fairness and ENABLED are out of the prover's reach. The
two disagreements are counterexamples and need no proof.

## 5. What is not modelled

- The cryptography: HMAC, RSA, CMS, ASN.1, the structure of a PDF and the text of its
  visible signature. A signature is the key that made it and what it is over.
- The taxonomy and the sanitisation of audit events: functions of the event alone,
  whose limits (depth 5, 50 items) no caller comes near.
- Lists, filters and the export of the audit pages, document lists and single reads: they
  change nothing.
- The comparison of origins at login, size and suffix checks of an upload, the format
  of a nonce: they only refuse.
- WiFi, clock synchronisation and the sensors' registers of the firmware.
- The device's row lock, PostgreSQL's queue of waiters and the connection pool, whose
  exhaustion is listed as a hazard.
- The second check nobody promises: a user disabled between `/complete` and `/sign`.
- Migrations, scripts, configuration; the schema's constraints are modelled through
  `app/models.py`. The audit row's foreign keys are ON DELETE SET NULL and
  covered by the hash, but no code deletes the rows they name.

What could come next: `RateLimit` joined to
`DeviceWorkflow`, so that a 429 comes from the limiter instead of a fault;
several terminals and requests in `device_workflow`.
