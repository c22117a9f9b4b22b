------------------------------ MODULE LockOrder ------------------------------
(***************************************************************************)
(* The locks the handlers take in PostgreSQL, the order they take them in, *)
(* and the deadlocks this makes possible.  A handler works in one          *)
(* transaction; a refusal, a view and a download are recorded in a         *)
(* transaction of their own (record_audit_event), while the handler waits  *)
(* for it.                                                                 *)
(*                                                                         *)
(* Six kinds of lock are taken: a document row by the handler that creates *)
(* a request for it; a request row by every handler that moves it; a       *)
(* session row by /complete and /sign; the lock of the device queue by     *)
(* /next; the lock of the audit chain by whoever appends an event; the     *)
(* rows of used nonces past their retention by every call of a terminal,   *)
(* which deletes them before it stores its own nonce.                      *)
(* SELECT ... FOR UPDATE takes a row alone ("update"), and so does DELETE. *)
(* A row inserted with a foreign key shares the row it names ("share"),    *)
(* which only "update" excludes: a session and an audit event share their  *)
(* document, a refusal its session too.  A transaction keeps its locks to  *)
(* its end.                                                                *)
(*                                                                         *)
(* One lock stands for the rows of old nonces: two calls that both delete  *)
(* some both delete the oldest one.  A copy of a call that waits until its *)
(* original has stored the nonce (NonceStore) is left out: it holds no     *)
(* more than old nonces then, for a copy of /complete or /sign is kept     *)
(* waiting by the session row.                                             *)
(*                                                                         *)
(* PostgreSQL breaks a cycle of waiting transactions by failing one of     *)
(* them.  It cannot see that a handler waits for its own recorder.         *)
(*                                                                         *)
(* Users and devices are never locked for update.  The device row, written *)
(* when a handler ends, is left out: whoever has written it waits for      *)
(* nothing more.  A lock goes to any transaction it does not conflict      *)
(* with; the queue PostgreSQL keeps of the waiting ones is left out.       *)
(***************************************************************************)
EXTENDS Naturals, FiniteSets

CONSTANTS
  Requests,    \* signature requests, one authentication session each
  DocumentOf,  \* the document of a request
  Handlers,    \* calls served at the same time
  Starts,      \* bound: the statuses of the requests at the start
  MaxDue,      \* bound: how many deadlines pass meanwhile
  None

ASSUME LockAssumption ==
  /\ MaxDue \in Nat
  /\ None \notin Requests
  /\ Requests \subseteq DOMAIN DocumentOf

Expirable == {"PENDING", "CLAIMED"}
InFlight == {"CLAIMED", "AUTHENTICATING", "AUTHENTICATED"}
Open == {"PENDING"} \cup InFlight
Statuses == Open \cup {"absent", "SIGNED", "FAILED", "EXPIRED"}

Kinds == {"create", "claim", "challenge", "complete", "sign",
          "report", "poll", "view"}

\* None is no status and no kind of call.
ASSUME LockNameAssumption == None \notin Statuses \cup Kinds

\* OneActivePerDocument and OneInFlightPerDevice of SignatureQueue.
ASSUME LockStartAssumption ==
  \A s \in Starts :
    /\ s \in [Requests -> {"absent"} \cup Open]
    /\ \A q, r \in Requests :
         q # r => /\ {s[q], s[r]} \subseteq Open
                      => DocumentOf[q] # DocumentOf[r]
                  /\ ~ {s[q], s[r]} \subseteq InFlight

\* What a handler is about to do once it has the locks it asked for.
Labels == {"idle", "document", "existing", "queue", "expired", "scan",
           "inflight", "pending", "session", "attach", "authorize",
           "row", "nonce", "append", "insert", "crypto", "publish", "fail",
           "denied", "denial", "ended"}

Tx == Handlers \X {"main", "recorder"}
Main(h) == <<h, "main">>
Recorder(h) == <<h, "recorder">>

Locks == {"document"} \X {DocumentOf[r] : r \in Requests}
         \cup {"session", "request"} \X Requests
         \cup {"queue", "nonces", "chain"} \X {None}
Document(r) == <<"document", DocumentOf[r]>>
Session(r) == <<"session", r>>
Row(r) == <<"request", r>>
Device == <<"queue", None>>   \* pg_advisory_xact_lock(device)
Purged == <<"nonces", None>>  \* the old rows of used_nonces
Audit == <<"chain", None>>    \* pg_advisory_xact_lock(AUDIT_CHAIN_LOCK_KEY)

Update(l) == <<l, "update">>
Share(l) == <<l, "share">>
Wishes == Locks \X {"update", "share"}

VARIABLES
  status,    \* committed status of each request
  due,       \* requests whose expires_at has passed
  attached,  \* requests with an authentication session
  job,       \* what each handler does, and what it has written
  held,      \* the locks of each transaction
  wants      \* the locks each transaction waits for

vars == <<status, due, attached, job, held, wants>>

NoWrites == [r \in Requests |-> None]

NoJob == [kind |-> None, at |-> "idle", req |-> None, row |-> None,
          wrote |-> NoWrites]

\* req: the request the handler is about; row: the row it asks for;
\* wrote: the new statuses that are not committed.
Job == [kind: Kinds \cup {None}, at: Labels,
        req: Requests \cup {None}, row: Requests \cup {None},
        wrote: [Requests -> Statuses \cup {None}]]

TypeOK ==
  /\ status \in [Requests -> Statuses]
  /\ due \subseteq Requests
  /\ attached \subseteq Requests
  /\ job \in [Handlers -> Job]
  /\ held \in [Tx -> SUBSET Wishes]
  /\ wants \in [Tx -> SUBSET Wishes]

Init ==
  /\ status \in Starts
  /\ due = {}
  /\ attached = {r \in Requests :
                   status[r] \in {"AUTHENTICATING", "AUTHENTICATED"}}
  /\ job = [h \in Handlers |-> NoJob]
  /\ held = [t \in Tx |-> {}]
  /\ wants = [t \in Tx |-> {}]

-----------------------------------------------------------------------------
(* Locks.                                                                  *)

Excludes(w, v) == w[1] = v[1] /\ "update" \in {w[2], v[2]}

\* t waits for a lock that u holds.
Waits(t, u) ==
  /\ t # u
  /\ \E w \in wants[t], v \in held[u] : Excludes(w, v)

Free(t, w) == \A u \in Tx \ {t} : \A v \in held[u] : ~ Excludes(w, v)

\* PostgreSQL grants a lock that excludes no other.
Acquire(t) ==
  /\ \E w \in wants[t] :
       /\ Free(t, w)
       /\ wants' = [wants EXCEPT ![t] = @ \ {w}]
       /\ held' = [held EXCEPT ![t] = @ \cup {w}]
  /\ UNCHANGED <<status, due, attached, job>>

\* What t asks for and does not hold yet.
Missing(t, asked) == {w \in asked : {w, Update(w[1])} \cap held[t] = {}}

\* Every transaction of C waits for another one of C.
Waiting(C) == C # {} /\ \A t \in C : \E u \in C : Waits(t, u)

Asking == {t \in Tx : wants[t] # {}}

\* A ring of waiting transactions holds no smaller one.
Ring(C) == Waiting(C) /\ \A D \in SUBSET C : Waiting(D) => D = C

-----------------------------------------------------------------------------
(* The transaction of a handler.                                           *)

Has(h, kind, label) ==
  job[h].kind = kind /\ job[h].at = label /\ wants[Main(h)] = {}

\* What a call that has ended was about is forgotten.
At(h, label) == IF label = "ended" THEN [NoJob EXCEPT !.at = "ended"]
                                   ELSE [job[h] EXCEPT !.at = label]

AtRow(h, label, q) == [job[h] EXCEPT !.at = label, !.row = q]

Wrote(h, rows, s) ==
  [q \in Requests |-> IF q \in rows THEN s ELSE job[h].wrote[q]]

\* The handler goes on to a statement that needs the locks asked for.
Go(h, j, asked) ==
  /\ job' = [job EXCEPT ![h] = j]
  /\ wants' = [wants EXCEPT ![Main(h)] = Missing(Main(h), asked)]
  /\ UNCHANGED <<status, due, attached, held>>

\* The rows get a new status, and add_audit_event asks for the chain.
Event(h, rows, s) ==
  Go(h, [job[h] EXCEPT !.at = "append", !.wrote = Wrote(h, rows, s)],
     {Update(Audit)})

\* Mutation: SIGNATURE_STARTED names no document.
AppendUnnamed(h) ==
  /\ job[h].at = "append"
  /\ wants[Main(h)] = {}
  /\ Go(h, At(h, "insert"),
        IF job[h].kind = "sign" THEN {} ELSE {Share(Document(job[h].req))})

\* The insertion of the event shares the document it names.
Append(h) ==
  /\ job[h].at = "append"
  /\ wants[Main(h)] = {}
  /\ Go(h, At(h, "insert"), {Share(Document(job[h].req))})

\* commit(), or the end of a transaction that has written nothing; the
\* recorder may follow.
Commit(h, wrote, label, denial) ==
  /\ status' = [q \in Requests |-> IF wrote[q] = None THEN status[q]
                                   ELSE wrote[q]]
  /\ attached' = attached \cup {q \in Requests : wrote[q] = "AUTHENTICATING"}
  /\ held' = [held EXCEPT ![Main(h)] = {}]
  /\ job' = [job EXCEPT ![h] = [At(h, label) EXCEPT !.wrote = NoWrites]]
  /\ wants' = [wants EXCEPT ![Recorder(h)] = denial]
  /\ UNCHANGED due

End(h) == Commit(h, job[h].wrote, "ended", {})

Inserted(h) ==
  /\ job[h].at = "insert"
  /\ job[h].kind # "sign"
  /\ wants[Main(h)] = {}
  /\ End(h)

-----------------------------------------------------------------------------
(* record_audit_event, in the second transaction of a handler.             *)

\* The refusal leaves the transaction of the handler open.  (Mutation of Deny:
\* /complete and /sign do so too.)
DenyInPlace(h, label, mine, denial) ==
  /\ job' = [job EXCEPT ![h] = [At(h, label) EXCEPT !.wrote = NoWrites]]
  /\ wants' = [wants EXCEPT ![Main(h)] = Missing(Main(h), mine),
                            ![Recorder(h)] = denial]
  /\ UNCHANGED <<status, due, attached, held>>

\* database.rollback(), and what the refusal asks for next.
Deny(h, label, mine, denial) ==
  /\ held' = [held EXCEPT ![Main(h)] = {}]
  /\ job' = [job EXCEPT ![h] = [At(h, label) EXCEPT !.wrote = NoWrites]]
  /\ wants' = [wants EXCEPT ![Main(h)] = mine, ![Recorder(h)] = denial]
  /\ UNCHANGED <<status, due, attached>>

\* reject_complete, reject_sign.
Refuse(h, terminal) ==
  IF terminal THEN Deny(h, "fail", {Update(Row(job[h].req))}, {})
              ELSE Deny(h, "denied", {}, {Update(Audit)})

\* Mutation: an authenticated request is not failed.
FailAuthenticating(h) ==
  LET r == job[h].req
      rows == IF status[r] = "AUTHENTICATING" THEN {r} ELSE {}
  IN
  /\ job[h].at = "fail"
  /\ wants[Main(h)] = {}
  /\ Commit(h, Wrote(h, rows, "FAILED"), "denied", {Update(Audit)})

\* persist_terminal_signature_request_failure.
Fail(h) ==
  LET r == job[h].req
      rows == IF status[r] \in {"AUTHENTICATING", "AUTHENTICATED"}
                THEN {r} ELSE {}
  IN
  /\ job[h].at = "fail"
  /\ wants[Main(h)] = {}
  /\ Commit(h, Wrote(h, rows, "FAILED"), "denied", {Update(Audit)})

\* The rows the recorded event names.
Named(kind, r) ==
  CASE kind \in {"claim", "report"}   -> {}
    [] kind \in {"view", "challenge"} -> {Share(Document(r))}
    [] OTHER -> {Share(Document(r)), Share(Session(r))}

Denial(h) ==
  /\ job[h].at = "denied"
  /\ wants[Recorder(h)] = {}
  /\ job' = [job EXCEPT ![h] = At(h, "denial")]
  /\ wants' = [wants EXCEPT ![Recorder(h)] = Named(job[h].kind, job[h].req)]
  /\ UNCHANGED <<status, due, attached, held>>

\* The handler answers, and get_db closes its transaction.
Recorded(h) ==
  /\ job[h].at = "denial"
  /\ wants[Recorder(h)] = {}
  /\ held' = [held EXCEPT ![Recorder(h)] = {}, ![Main(h)] = {}]
  /\ job' = [job EXCEPT ![h] = At(h, "ended")]
  /\ UNCHANGED <<status, due, attached, wants>>

-----------------------------------------------------------------------------
(* The portal.                                                             *)

Start(h, kind, r, label, asked) ==
  /\ job[h] = NoJob
  /\ Go(h, [NoJob EXCEPT !.kind = kind, !.at = label, !.req = r, !.row = r],
        asked)

\* create_user_signature_request locks the document.
Create(h, r) ==
  /\ status[r] = "absent"
  /\ Start(h, "create", r, "document", {Update(Document(r))})

OnDocument(r, statuses) ==
  {q \in Requests : DocumentOf[q] = DocumentOf[r] /\ status[q] \in statuses}

\* Then it locks the open request of the document, if there is one.
FindExisting(h) ==
  LET r == job[h].req IN
  /\ Has(h, "create", "document")
  /\ \/ /\ OnDocument(r, Open) = {}
        /\ IF status[r] = "absent" THEN Event(h, {r}, "PENDING") ELSE End(h)
     \/ \E q \in OnDocument(r, Open) :
          Go(h, AtRow(h, "existing", q), {Update(Row(q))})

\* It is still open: 409.  It was closed while the handler waited: the row
\* is not in the result any more.
Existing(h) ==
  /\ Has(h, "create", "existing")
  /\ IF status[job[h].row] \in Open \/ status[job[h].req] # "absent"
       THEN End(h)
       ELSE Event(h, {job[h].req}, "PENDING")

\* get_owned_signature_request, get_user_signature_request.
Poll(h, r) ==
  /\ status[r] # "absent"
  /\ Start(h, "poll", r, "row", {Update(Row(r))})

Polled(h) ==
  LET r == job[h].req IN
  /\ Has(h, "poll", "row")
  /\ IF status[r] \in Expirable /\ r \in due THEN Event(h, {r}, "EXPIRED")
                                             ELSE End(h)

\* DOCUMENT_VIEWED, SIGNED_DOCUMENT_DOWNLOADED: nothing is locked before.
View(h, r) ==
  /\ job[h] = NoJob
  /\ job' = [job EXCEPT ![h] = [NoJob EXCEPT !.kind = "view", !.at = "denied",
                                            !.req = r, !.row = r]]
  /\ wants' = [wants EXCEPT ![Recorder(h)] = {Update(Audit)}]
  /\ UNCHANGED <<status, due, attached, held>>

-----------------------------------------------------------------------------
(* The terminal.                                                           *)

\* cleanup_old_nonces finds old rows to delete, or none.
Purges == {{}, {Update(Purged)}}

\* /next, /challenge and /status begin with the nonce.
StartNonce(h, kind, r) ==
  \E purge \in Purges : Start(h, kind, r, "nonce", purge)

Claim(h) == StartNonce(h, "claim", None)

Challenge(h, r) ==
  /\ status[r] \notin {"absent", "PENDING"}
  /\ StartNonce(h, "challenge", r)

Report(h, r) ==
  /\ status[r] \notin {"absent", "PENDING"}
  /\ StartNonce(h, "report", r)

\* The nonce was used before.  /complete and /sign roll back; the others keep
\* the old nonces they have deleted while the refusal is recorded.
Replayed(h) ==
  /\ job[h].at = "nonce"
  /\ wants[Main(h)] = {}
  /\ IF job[h].kind \in {"complete", "sign"}
       THEN Refuse(h, FALSE)
       ELSE DenyInPlace(h, "denied", {}, {Update(Audit)})

\* It is stored, and the work begins: claim_next_signature_request takes the
\* lock of the device's queue, create_challenge inserts the session, which
\* shares the document, and mark_signature_request_failed locks the request.
\* /complete and /sign have their locks: STRONG_AUTH_COMPLETED with the new
\* status, SIGNATURE_STARTED.
Consume(h) ==
  LET r == job[h].req IN
  \/ Has(h, "claim", "nonce") /\ Go(h, At(h, "queue"), {Update(Device)})
  \/ /\ Has(h, "challenge", "nonce")
     /\ Go(h, At(h, "session"), {Share(Document(r))})
  \/ Has(h, "report", "nonce") /\ Go(h, At(h, "row"), {Update(Row(r))})
  \/ Has(h, "complete", "nonce") /\ Event(h, {r}, "AUTHENTICATED")
  \/ Has(h, "sign", "nonce") /\ Event(h, {}, "AUTHENTICATED")

Unlocked(h, q) == Free(Main(h), Update(Row(q)))

\* The statement takes the free rows of S and skips the locked ones.
Take(h, S, j, asked) ==
  /\ held' = [held EXCEPT ![Main(h)] = @ \cup {Update(Row(q)) : q \in S}]
  /\ job' = [job EXCEPT ![h] = j]
  /\ wants' = [wants EXCEPT ![Main(h)] = asked]
  /\ UNCHANGED <<status, due, attached>>

\* expire_signature_requests: a row and the event of its expiry.
ExpireRows(h) ==
  LET S == {q \in due : status[q] \in Expirable /\ Unlocked(h, q)} IN
  /\ Has(h, "claim", "queue")
  /\ Take(h, S, [At(h, "expired") EXCEPT !.wrote = Wrote(h, S, "EXPIRED")],
          IF S = {} THEN {} ELSE {Update(Audit)})

ExpireEvents(h) ==
  /\ Has(h, "claim", "expired")
  /\ Go(h, At(h, "scan"),
        {Share(Document(q)) : q \in {p \in Requests :
                                      job[h].wrote[p] = "EXPIRED"}})

\* The request in flight is locked, whoever holds it now.
ScanInFlight(h) ==
  LET F == {q \in Requests :
              status[q] \in InFlight /\ job[h].wrote[q] = None} IN
  /\ Has(h, "claim", "scan")
  /\ \/ F = {} /\ Go(h, At(h, "pending"), {})
     \/ \E q \in F : Go(h, AtRow(h, "inflight", q), {Update(Row(q))})

FoundInFlight(h) ==
  /\ Has(h, "claim", "inflight")
  /\ IF status[job[h].row] \in InFlight THEN End(h)
                                        ELSE Go(h, At(h, "pending"), {})

\* The next request, locked ones skipped, and SIGNATURE_REQUEST_CLAIMED.
ClaimPending(h) ==
  LET P == {q \in Requests \ due : status[q] = "PENDING" /\ Unlocked(h, q)} IN
  /\ Has(h, "claim", "pending")
  /\ \/ P = {} /\ End(h)
     \/ \E q \in P :
          Take(h, {q}, [job[h] EXCEPT !.at = "append", !.req = q,
                                      !.wrote = Wrote(h, {q}, "CLAIMED")],
               Missing(Main(h), {Update(Audit)}))

\* attach_authentication_session.
Attach(h) ==
  LET C == OnDocument(job[h].req, {"CLAIMED"}) IN
  /\ Has(h, "challenge", "session")
  /\ \/ C = {} /\ Event(h, {}, None)
     \/ \E q \in C : Go(h, AtRow(h, "attach", q), {Update(Row(q))})

Attached(h) ==
  LET q == job[h].row IN
  /\ Has(h, "challenge", "attach")
  /\ Event(h, IF status[q] = "CLAIMED" THEN {q} ELSE {},
           IF q \in due THEN "EXPIRED" ELSE "AUTHENTICATING")

\* Mutation: /sign checks the request before it locks the session.
StartRowFirst(h, kind, r) ==
  /\ r \in attached
  /\ Start(h, kind, r, "session",
           IF kind = "sign" THEN {Update(Row(r))} ELSE {Update(Session(r))})

\* complete_authentication, sign_document: the session, then its request.
StartSession(h, kind, r) ==
  /\ r \in attached
  /\ Start(h, kind, r, "session", {Update(Session(r))})

Authorize(h) ==
  /\ job[h].kind \in {"complete", "sign"}
  /\ Has(h, job[h].kind, "session")
  /\ \/ \E terminal \in BOOLEAN : Refuse(h, terminal)
     \/ Go(h, At(h, "authorize"),
           {Update(Session(job[h].req)), Update(Row(job[h].req))})

\* The nonce follows the authorization.
Authorized(h) ==
  LET r == job[h].req
      complete == job[h].kind = "complete"
  IN
  /\ job[h].kind \in {"complete", "sign"}
  /\ Has(h, job[h].kind, "authorize")
  /\ IF r \in due \/ status[r] # (IF complete THEN "AUTHENTICATING"
                                             ELSE "AUTHENTICATED")
       THEN Refuse(h, TRUE)
       ELSE \E purge \in Purges : Go(h, At(h, "nonce"), purge)

\* SIGNATURE_STARTED is inserted: the HSM, the TSA and the PDF follow.
Started(h) ==
  /\ Has(h, "sign", "insert")
  /\ Go(h, At(h, "crypto"), {})

\* The signature row, the status of the request and four events.
Crypto(h) ==
  LET r == job[h].req IN
  /\ Has(h, "sign", "crypto")
  /\ \/ Refuse(h, FALSE)
     \/ Go(h, [At(h, "publish") EXCEPT !.wrote = Wrote(h, {r}, "SIGNED")],
           {Share(Document(r)), Share(Session(r)), Update(Row(r)),
            Update(Audit)})

Publish(h) ==
  /\ Has(h, "sign", "publish")
  /\ End(h)

\* mark_signature_request_failed, and SIGNATURE_REQUEST_FAILED.
Reported(h) ==
  LET r == job[h].req IN
  /\ Has(h, "report", "row")
  /\ IF status[r] = "SIGNED" THEN End(h)
     ELSE IF status[r] \in Expirable /\ r \in due THEN Event(h, {r}, "EXPIRED")
     ELSE Event(h, IF status[r] \in InFlight THEN {r} ELSE {}, "FAILED")

-----------------------------------------------------------------------------
(* PostgreSQL, time, and the whole.                                        *)

\* deadlock_timeout: one transaction of a ring fails.  Its handler answers
\* 500, except that a failure which cannot be stored is recorded all the
\* same, and a record which cannot be stored is given up.
Break(h) ==
  /\ \E C \in SUBSET Asking : Ring(C) /\ C \cap {Main(h), Recorder(h)} # {}
  /\ IF job[h].at = "fail"
       THEN Deny(h, "denied", {}, {Update(Audit)})
       ELSE /\ held' = [held EXCEPT ![Main(h)] = {}, ![Recorder(h)] = {}]
            /\ wants' = [wants EXCEPT ![Main(h)] = {}, ![Recorder(h)] = {}]
            /\ job' = [job EXCEPT ![h] = [At(h, "ended") EXCEPT
                                           !.wrote = NoWrites]]
            /\ UNCHANGED <<status, due, attached>>

\* expires_at passes.
Pass(r) ==
  /\ status[r] \in Open
  /\ Cardinality(due) < MaxDue
  /\ due' = due \cup {r}
  /\ UNCHANGED <<status, attached, job, held, wants>>

Begin(h) ==
  \/ Claim(h)
  \/ \E r \in Requests :
       \/ Create(h, r) \/ Poll(h, r) \/ View(h, r)
       \/ Challenge(h, r) \/ Report(h, r)
       \/ StartSession(h, "complete", r) \/ StartSession(h, "sign", r)

Step(h) ==
  \/ FindExisting(h) \/ Existing(h) \/ Polled(h)
  \/ ExpireRows(h) \/ ExpireEvents(h) \/ ScanInFlight(h)
  \/ FoundInFlight(h) \/ ClaimPending(h)
  \/ Attach(h) \/ Attached(h) \/ Authorize(h) \/ Authorized(h)
  \/ Replayed(h) \/ Consume(h)
  \/ Started(h) \/ Crypto(h) \/ Publish(h) \/ Reported(h)
  \/ Append(h) \/ Inserted(h) \/ Fail(h) \/ Denial(h) \/ Recorded(h)

Next ==
  \/ \E h \in Handlers : Begin(h) \/ Step(h) \/ Break(h)
  \/ \E t \in Tx : Acquire(t)
  \/ \E r \in Requests : Pass(r)

Spec == Init /\ [][Next]_vars

-----------------------------------------------------------------------------
(* Properties.                                                             *)

\* The handlers take their locks in one order: a row that starts a piece of
\* work (document, session, queue), then the request, then the chain.  Only
\* two things are asked for out of order: the rows an event shares, by who
\* holds the chain, and old nonces, which /next, /status and /challenge delete
\* first and /complete and /sign last.  So a deadlock has the one transaction
\* in it that holds the chain, or the one that deletes old nonces.
DeadlocksHoldChainOrNonces ==
  \A C \in SUBSET Asking :
    Ring(C) => \E t \in C : {Update(Audit), Update(Purged)} \cap held[t] # {}

\* The handler waits for its recorder outside the database.
Awaits(t, u) ==
  \/ Waits(t, u)
  \/ \E h \in Handlers : /\ t = Main(h) /\ u = Recorder(h)
                         /\ job[h].at \in {"denied", "denial"}

\* Transactions that wait for each other, the wait for a recorder included,
\* do so in a ring PostgreSQL sees: the rollback of a refusal leaves nothing
\* its own recorder could wait for.  The exception is a replayed /next,
\* /status or /challenge, which is recorded without a rollback: the old nonces
\* it has deleted may keep a /complete or /sign from going on whose request
\* the holder of the chain is waiting for.
DeadlocksAreSeen ==
  LET Awaiting == {p \in Tx \X Tx : Awaits(p[1], p[2])} IN
  \A C \in SUBSET {p[1] : p \in Awaiting} :
    C # {} /\ (\A t \in C : \E u \in C : <<t, u>> \in Awaiting)
      => \/ \E D \in SUBSET C : Waiting(D)
         \/ \E h \in Handlers : /\ Main(h) \in C
                               /\ job[h].at \in {"denied", "denial"}
                               /\ Update(Purged) \in held[Main(h)]

\* Once /sign has asked the HSM for a signature it waits for no lock any
\* more: what it stores afterwards needs only what it holds, so no deadlock
\* costs a signature that has been made.
NoWaitAfterCrypto ==
  \A h \in Handlers :
    job[h].at \in {"crypto", "publish"} => wants[Main(h)] = {}

\* The labels of a call.
LabelsOf(kind) ==
  CASE kind = "create"    -> {"document", "existing", "append", "insert"}
    [] kind = "claim"     -> {"nonce", "queue", "expired", "scan", "inflight",
                              "pending", "append", "insert", "denied",
                              "denial"}
    [] kind = "challenge" -> {"nonce", "session", "attach", "append",
                              "insert", "denied", "denial"}
    [] kind = "complete"  -> {"session", "authorize", "nonce", "append",
                              "insert", "fail", "denied", "denial"}
    [] kind = "sign"      -> {"session", "authorize", "nonce", "append",
                              "insert", "crypto", "publish", "fail",
                              "denied", "denial"}
    [] kind = "report"    -> {"nonce", "row", "append", "insert", "denied",
                              "denial"}
    [] kind = "view"      -> {"denied", "denial"}
    [] OTHER              -> {"row", "append", "insert"}

\* A job is about a request of its own where its call names one, and has found
\* the row it asks for.
JobOK(j) ==
  j.at \notin {"idle", "ended"} =>
    /\ j.kind \in Kinds /\ j.at \in LabelsOf(j.kind)
    /\ j.req \in Requests \/ (j.kind = "claim"
                             /\ j.at \notin {"append", "insert"})
    /\ j.at \in {"existing", "inflight", "attach"} => j.row \in Requests
    /\ j.at \in {"queue", "fail"} => j.wrote = NoWrites
    /\ j.kind = "claim" /\ j.at = "nonce" => j.wrote = NoWrites

\* The first lock of a transaction.
FirstLock(j) ==
  CASE j.at = "document" -> Update(Document(j.req))
    [] j.at = "queue" -> Update(Device)
    [] j.at = "session" /\ j.kind = "challenge" -> Share(Document(j.req))
    [] j.at = "session" /\ j.kind # "challenge" -> Update(Session(j.req))
    [] OTHER -> Update(Row(j.req))

\* The row a transaction asks for while it holds its first lock.
SecondRow(j) == IF j.at = "authorize" THEN j.req ELSE j.row

\* The chain and the old nonces are never shared.
Alone(H) == {Share(Audit), Share(Purged)} \cap H = {}

NoRowIn(H) == \A r \in Requests : {Update(Row(r)), Share(Row(r))} \cap H = {}

\* A transaction of job j that holds H and wants W may have deleted old nonces,
\* locks something to begin with, then at most one row of a request, then
\* (/complete and /sign) old nonces, then the chain; what it asks for
\* afterwards it shares with its events, or holds already.
MainOK(j, H, W) ==
  /\ j.at \in {"idle", "ended"} => H = {} /\ W = {}
  /\ j.at \in {"denied", "denial"} => H \subseteq {Update(Purged)} /\ W = {}
  /\ j.at = "nonce" =>
       /\ W \subseteq {Update(Purged)}
       /\ j.kind \notin {"complete", "sign"} => H \subseteq {Update(Purged)}
  /\ j.at \in {"document", "queue", "session", "row"} =>
       \/ (H \subseteq {Update(Purged)} /\ W = {FirstLock(j)})
       \/ (H \ {Update(Purged)} = {FirstLock(j)} /\ W = {})
  /\ j.at = "fail" =>
       \/ (H = {} /\ W = {FirstLock(j)})
       \/ (H = {FirstLock(j)} /\ W = {})
  /\ j.at \in {"existing", "inflight", "attach", "authorize"} =>
       \/ W = {}
       \/ /\ W = {Update(Row(SecondRow(j)))}
          /\ Update(Audit) \in H \/ NoRowIn(H)
  /\ j.at = "expired" =>
       \/ (W = {} /\ Update(Audit) \in H)
       \/ W = {Update(Audit)}
       \/ (W = {} /\ NoRowIn(H) /\ j.wrote = NoWrites)
  /\ j.at = "scan" => Update(Audit) \in H \/ (NoRowIn(H) /\ W = {})
  /\ j.at \in {"pending", "crypto", "publish"} => W = {}
  /\ j.at = "append" =>
       (W = {} /\ Update(Audit) \in H) \/ W = {Update(Audit)}
  /\ j.at \in {"insert", "crypto", "publish"} => Update(Audit) \in H
  /\ j.at = "insert" => W \subseteq {Share(Document(j.req))}
  /\ j.kind = "sign" /\ j.at \in {"authorize", "nonce", "append", "insert",
                                  "crypto"} =>
       {Update(Session(j.req)), Update(Row(j.req))} \subseteq H \cup W
  /\ j.kind = "sign" /\ j.at \in {"insert", "crypto"} =>
       {Share(Document(j.req)), Update(Document(j.req))} \cap (H \cup W) # {}
  /\ Alone(H \cup W)

\* A recorder begins with the chain.
RecorderOK(j, H, W) ==
  /\ j.at \notin {"denied", "denial"} => H = {} /\ W = {}
  /\ j.at = "denied" => \/ (H = {} /\ W = {Update(Audit)})
                        \/ (H = {Update(Audit)} /\ W = {})
  /\ j.at = "denial" => Update(Audit) \in H
  /\ Alone(H \cup W)

HandlerInv(h) ==
  /\ JobOK(job[h])
  /\ MainOK(job[h], held[Main(h)], wants[Main(h)])
  /\ RecorderOK(job[h], held[Recorder(h)], wants[Recorder(h)])

\* No crypto call waits, every lock and job has its type, and every handler
\* holds and wants what its label says: preserved by every step.
LockInv == /\ TypeOK /\ NoWaitAfterCrypto
           /\ \A h \in Handlers : HandlerInv(h)

\* The transaction that fails a refused request is never the victim of a
\* deadlock: persist_terminal_signature_request_failure would swallow it and
\* leave the request in flight.
FailuresAreStored ==
  [][\A h \in Handlers :
       job[h].at = "fail" /\ job'[h].at = "denied"
         => status'[job[h].req] \notin {"AUTHENTICATING",
                                        "AUTHENTICATED"}]_vars

=============================================================================
