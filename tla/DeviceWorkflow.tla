---------------------------- MODULE DeviceWorkflow ----------------------------
(***************************************************************************)
(* The terminal (firmware/remotesign_lab) at work on the queue: the state  *)
(* machine of processWorkflow, the HTTP calls it makes, and the handlers   *)
(* of SignatureQueue that serve them.  Every step of the server is a step  *)
(* of SignatureQueue together with what the call hears of it, so the       *)
(* queue's theorems hold here; what is new is that calls come from the     *)
(* firmware, one at a time, and that their answers matter.                 *)
(*                                                                         *)
(* The network and the server may fail: a call or its answer is lost, the  *)
(* terminal stops waiting (http.setTimeout) while the server goes on, the  *)
(* server answers with a temporary error, a body cannot be read, and the   *)
(* terminal may lose its power.  A call that was given up may reach the    *)
(* server at any later time.  The server may refuse any call before it     *)
(* looks at its subject: the clock of the terminal is off, the signature   *)
(* or the nonce is not accepted, the device is not active.                 *)
(***************************************************************************)
EXTENDS SignatureQueue, Integers

CONSTANTS
  Calls,       \* ids of HTTP calls; their number bounds the calls under way
  Done,        \* a body that says authenticated, or signed, and nothing else
  MaxFaults,   \* bound of the failures of network and server
  MaxReboots   \* bound of the power cycles

ASSUME DeviceAssumption ==
  /\ {MaxFaults, MaxReboots} \subseteq Nat
  /\ None \notin Calls \cup Workers \cup Users \cup Requests
  /\ Done \notin Requests \cup Sessions \cup {None}

WorkflowStates == {"IDLE", "POLL_NEXT", "WAIT_RFID", "CHALLENGE",
                   "WAIT_FINGERPRINT", "COMPLETE_AUTH", "SIGN_DOCUMENT",
                   "REPORT_FAILED", "SUCCESS"}

\* The states in which a call is made.
Calling == {"POLL_NEXT", "CHALLENGE", "COMPLETE_AUTH", "SIGN_DOCUMENT",
            "REPORT_FAILED"}

VARIABLES
  workflowState,
  memory,   \* currentRequest, currentRfidUid, currentFingerprintId and
            \* currentSessionId
  call,     \* the HTTP calls under way
  awaited,  \* the call the terminal waits for
  shown,    \* history: what a terminal displayed when a finger was read
  mislaid,  \* history: requests claimed by a call that nobody waited for,
            \* or dropped by a terminal whose report was refused
  faults,   \* failures so far
  reboots   \* power cycles so far

device == <<workflowState, memory, awaited, shown, reboots>>
allVars == <<vars, workflowState, memory, call, awaited, shown, mislaid,
             faults, reboots>>

Memory == [request: Requests \cup {None}, card: Users \cup {None},
           finger: Users \cup {None}, session: Sessions \cup {None}]

Cleared == [request |-> None, card |-> None, finger |-> None,
            session |-> None]

\* What a body may hold: the request claimed, the session opened, or Done for
\* {"authenticated": true} and {"signed": true}; None is no body, or one that
\* cannot be parsed.
Bodies == Requests \cup Sessions \cup {Done, None}

\* A call carries what the terminal remembers; worker runs it when its handler
\* has several steps; code is the HTTP status of the answer.
Pending == 0

Call == [op: Calling, device: Devices, sent: Memory,
         worker: Workers \cup {None}, code: {Pending, 200, 204, 403, 429, 503},
         body: Bodies]

NoCall == [code |-> Pending, worker |-> None]

Displayed(d) == terms[memory[d].request].document

Factors == [device: Devices, session: Sessions, card: Users \cup {None},
            finger: Users \cup {None}, document: Documents]

DeviceTypeOK ==
  /\ workflowState \in [Devices -> WorkflowStates]
  /\ memory \in [Devices -> Memory]
  /\ \A d \in Devices :
       /\ workflowState[d] \notin {"IDLE", "POLL_NEXT"} =>
            memory[d].request # None
       /\ workflowState[d] \in {"WAIT_FINGERPRINT", "COMPLETE_AUTH",
                               "SIGN_DOCUMENT", "SUCCESS"} =>
            memory[d].session # None
  /\ call \in [Calls -> Call \cup {NoCall}]
  /\ awaited \in [Devices -> Calls \cup {None}]
  /\ shown \subseteq Factors
  /\ mislaid \subseteq Requests
  /\ faults \in 0 .. MaxFaults
  /\ reboots \in 0 .. MaxReboots

DeviceInit ==
  /\ Init
  /\ workflowState = [d \in Devices |-> "IDLE"]
  /\ memory = [d \in Devices |-> Cleared]
  /\ call = [c \in Calls |-> NoCall]
  /\ awaited = [d \in Devices |-> None]
  /\ shown = {}
  /\ mislaid = {}
  /\ faults = 0
  /\ reboots = 0

-----------------------------------------------------------------------------
(* The firmware: processWorkflow                                           *)

Awaited(c) == \E d \in Devices : awaited[d] = c

Enter(d, state, m) ==
  /\ workflowState' = [workflowState EXCEPT ![d] = state]
  /\ memory' = [memory EXCEPT ![d] = m]

Fault == faults < MaxFaults /\ faults' = faults + 1

Poll(d) ==
  /\ workflowState[d] = "IDLE"
  /\ Enter(d, "POLL_NEXT", Cleared)
  /\ UNCHANGED <<vars, call, awaited, shown, mislaid, faults, reboots>>

Send(d, c) ==
  /\ workflowState[d] \in Calling
  /\ awaited[d] = None
  /\ call[c] = NoCall
  /\ call' = [call EXCEPT ![c] =
                [op |-> workflowState[d], device |-> d, sent |-> memory[d],
                 worker |-> None, code |-> Pending, body |-> None]]
  /\ awaited' = [awaited EXCEPT ![d] = c]
  /\ UNCHANGED <<vars, workflowState, memory, shown, mislaid, faults, reboots>>

\* The HTTP clients; a code below 0 is a network error.

\* Mutation: network errors are left out.
isTemporaryOfServer(code) == code \in {408, 425, 429} \/ code >= 500

isTemporaryHttpStatus(code) ==
  code < 0 \/ code \in {408, 425, 429} \/ code >= 500

Failed(code) ==
  IF isTemporaryHttpStatus(code) THEN "TEMPORARY_ERROR" ELSE "DEFINITIVE_ERROR"

fetchNextSignatureRequest(code, body) ==
  CASE code = 200 /\ body \in Requests -> "REQUEST_AVAILABLE"
    [] code = 204 -> "NO_REQUEST"
    [] OTHER -> "RETRY_LATER"

\* Mutation: the fields of the answer are not checked.
requestChallengeUnchecked(code, body) ==
  IF code = 200 THEN "SUCCESS" ELSE Failed(code)

requestChallenge(code, body) ==
  CASE code = 200 /\ body \in Sessions -> "SUCCESS"
    [] code = 200 /\ body \notin Sessions -> "DEFINITIVE_ERROR"
    [] OTHER -> Failed(code)

completeAuthentication(code, body) ==
  CASE code = 200 /\ body = Done -> "SUCCESS"
    [] code = 200 /\ body # Done -> "DEFINITIVE_ERROR"
    [] OTHER -> Failed(code)

\* Mutation: the refusal of a retry is taken for "signed already".
signDocumentOptimistic(code, body) ==
  IF code = 200 \/ ~isTemporaryHttpStatus(code) THEN "SUCCESS"
                                              ELSE "TEMPORARY_ERROR"

signDocument(code, body) ==
  CASE code = 200 /\ body = Done -> "SUCCESS"
    [] code = 200 /\ body # Done -> "DEFINITIVE_ERROR"
    [] OTHER -> Failed(code)

\* The body is not read.
reportRequestFailure(code) == IF code = 200 THEN "SUCCESS" ELSE Failed(code)

\* What CHALLENGE, COMPLETE_AUTH and SIGN_DOCUMENT do with their result: a
\* temporary error keeps the state, and the call is repeated without a limit.
Proceed(d, result, next, m) ==
  \/ result = "SUCCESS" /\ Enter(d, next, m)
  \/ result = "TEMPORARY_ERROR" /\ UNCHANGED <<workflowState, memory>>
  \/ result = "DEFINITIVE_ERROR" /\ Enter(d, "REPORT_FAILED", memory[d])

\* The cases of processWorkflow that make a call, after the call.
AfterCall(d, code, body) ==
  LET m == memory[d] IN
  CASE workflowState[d] = "POLL_NEXT" ->
         IF fetchNextSignatureRequest(code, body) = "REQUEST_AVAILABLE"
           THEN Enter(d, "WAIT_RFID", [Cleared EXCEPT !.request = body])
           ELSE Enter(d, "IDLE", Cleared)
    [] workflowState[d] = "CHALLENGE" ->
         Proceed(d, requestChallenge(code, body), "WAIT_FINGERPRINT",
                 [m EXCEPT !.session = body])
    [] workflowState[d] = "COMPLETE_AUTH" ->
         Proceed(d, completeAuthentication(code, body), "SIGN_DOCUMENT", m)
    [] workflowState[d] = "SIGN_DOCUMENT" ->
         Proceed(d, signDocument(code, body), "SUCCESS", m)
    [] workflowState[d] = "REPORT_FAILED" ->
         IF reportRequestFailure(code) = "TEMPORARY_ERROR"
           THEN UNCHANGED <<workflowState, memory>>
           ELSE Enter(d, "IDLE", Cleared)

\* The server has refused to take the report of a failure (401, 403).
Refused(c) ==
  call[c] # NoCall /\ call[c].op = "REPORT_FAILED" /\ call[c].code = 403

\* The request of a report that was refused.
Dropped(c) == {r \in Requests : Refused(c) /\ call[c].sent.request = r}

\* The answer arrives; the call is over.
Receive(d) ==
  LET c == awaited[d] IN
  /\ c # None
  /\ call[c].code # Pending
  /\ AfterCall(d, call[c].code, call[c].body)
  /\ awaited' = [awaited EXCEPT ![d] = None]
  /\ call' = [call EXCEPT ![c] = NoCall]
  /\ mislaid' = mislaid \cup Dropped(c)
  /\ UNCHANGED <<vars, shown, faults, reboots>>

\* The requests that a claim on behalf of this call has taken.
Taken(c) == {r \in Requests : call[c] # NoCall /\ call[c].op = "POLL_NEXT"
                              /\ call[c].body = r}

\* The body of a 200 cannot be read.
Garbled(d) ==
  LET c == awaited[d] IN
  /\ c # None
  /\ call[c].code = 200
  /\ Fault
  /\ AfterCall(d, 200, None)
  /\ awaited' = [awaited EXCEPT ![d] = None]
  /\ call' = [call EXCEPT ![c] = NoCall]
  /\ mislaid' = mislaid \cup Taken(c)
  /\ UNCHANGED <<vars, shown, reboots>>

\* Nobody waits for c any more: an answer on its way is lost, a call that is
\* not answered lives on.
Unheeded(c) == IF c # None /\ call[c].code # Pending
                 THEN [call EXCEPT ![c] = NoCall]
                 ELSE call

\* No answer in time, or no connection.
GiveUp(d) ==
  LET c == awaited[d] IN
  /\ c # None
  /\ Fault
  /\ AfterCall(d, -1, None)
  /\ awaited' = [awaited EXCEPT ![d] = None]
  /\ call' = Unheeded(c)
  /\ mislaid' = mislaid \cup Taken(c)
  /\ UNCHANGED <<vars, shown, reboots>>

\* A call nobody waits for never reached the server.
Vanish(c) ==
  /\ call[c] # NoCall
  /\ call[c].worker = None
  /\ ~Awaited(c)
  /\ call' = [call EXCEPT ![c] = NoCall]
  /\ UNCHANGED <<vars, device, mislaid, faults>>

\* None is a card, or a finger, that no user of the device has.
ReadCard(d, u) ==
  /\ workflowState[d] = "WAIT_RFID"
  /\ Enter(d, "CHALLENGE", [memory[d] EXCEPT !.card = u])
  /\ UNCHANGED <<vars, call, awaited, shown, mislaid, faults, reboots>>

ReadFinger(d, u) ==
  /\ workflowState[d] = "WAIT_FINGERPRINT"
  /\ Enter(d, "COMPLETE_AUTH", [memory[d] EXCEPT !.finger = u])
  /\ shown' = shown \cup {[device |-> d, session |-> memory[d].session,
                           card |-> memory[d].card, finger |-> u,
                           document |-> Displayed(d)]}
  /\ UNCHANGED <<vars, call, awaited, mislaid, faults, reboots>>

\* Mutation: a timeout clears the workflow without a report.
TimeOutQuietly(d) ==
  /\ workflowState[d] \in {"WAIT_RFID", "WAIT_FINGERPRINT"}
  /\ Enter(d, "IDLE", Cleared)
  /\ UNCHANGED <<vars, call, awaited, shown, mislaid, faults, reboots>>

\* RFID_TIMEOUT, FINGERPRINT_TIMEOUT: beginDefinitiveFailure.
TimeOut(d) ==
  /\ workflowState[d] \in {"WAIT_RFID", "WAIT_FINGERPRINT"}
  /\ Enter(d, "REPORT_FAILED", memory[d])
  /\ UNCHANGED <<vars, call, awaited, shown, mislaid, faults, reboots>>

Finish(d) ==
  /\ workflowState[d] = "SUCCESS"
  /\ Enter(d, "IDLE", Cleared)
  /\ UNCHANGED <<vars, call, awaited, shown, mislaid, faults, reboots>>

\* Nothing is kept in the terminal across a reboot.
Reboot(d) ==
  /\ reboots < MaxReboots
  /\ reboots' = reboots + 1
  /\ Enter(d, "IDLE", Cleared)
  /\ awaited' = [awaited EXCEPT ![d] = None]
  /\ mislaid' = IF awaited[d] = None THEN mislaid
                ELSE mislaid \cup Taken(awaited[d])
  /\ call' = Unheeded(awaited[d])
  /\ UNCHANGED <<vars, shown, faults>>

-----------------------------------------------------------------------------
(* The server: the handlers of SignatureQueue on behalf of a call          *)

\* A call the server may take up, or that one of its workers is running.
Arrived(c, op) ==
  /\ call[c] # NoCall
  /\ call[c].op = op
  /\ call[c].worker = None
  /\ call[c].code = Pending

Running(c, kinds) ==
  /\ call[c].worker # None
  /\ job[call[c].worker].kind \in kinds

Accept(c, w) ==
  /\ call' = [call EXCEPT ![c].worker = w]
  /\ UNCHANGED <<device, mislaid, faults>>

\* An answer nobody waits for is lost.
Reply(c, code, body) ==
  call' = [call EXCEPT ![c] =
             IF Awaited(c) THEN [@ EXCEPT !.worker = None, !.code = code,
                                          !.body = body]
                           ELSE NoCall]

Respond(c, code, body) ==
  /\ Reply(c, code, body)
  /\ UNCHANGED <<device, mislaid, faults>>

\* _authenticate_device, and the first checks of /challenge, /complete and
\* /sign: 401 or 403, and nothing has changed but the audit trail.
Unauthorized(c) ==
  /\ \E op \in Calling : Arrived(c, op)
  /\ Respond(c, 403, None)
  /\ UNCHANGED vars

\* POST /next.
NextStart(c, w) ==
  /\ Arrived(c, "POLL_NEXT")
  /\ ClaimStart(w, call[c].device, now)
  /\ Accept(c, w)

NextFinish(c) ==
  /\ Running(c, {"claiming"})
  /\ ClaimFinish(call[c].worker)
  /\ LET claimed == {r \in Requests : status[r] # "CLAIMED"
                                      /\ status'[r] = "CLAIMED"}
     IN /\ \/ claimed = {} /\ Reply(c, 204, None)
           \/ \E r \in claimed : Reply(c, 200, r)
        /\ mislaid' = IF Awaited(c) THEN mislaid ELSE mislaid \cup claimed
  /\ UNCHANGED <<device, faults>>

NextNothing(c) ==
  /\ Arrived(c, "POLL_NEXT")
  /\ ClaimRefused(call[c].device, now)
  /\ Respond(c, 204, None)

\* POST /challenge: the card, for the document of the request displayed.
DocumentOf(c) == terms[call[c].sent.request].document

ChallengeOpens(c, s) ==
  /\ Arrived(c, "CHALLENGE")
  /\ call[c].sent.card # None
  /\ Challenge(call[c].device, call[c].sent.card, DocumentOf(c), s)
  /\ Respond(c, 200, s)

ChallengeRefused(c) ==
  /\ Arrived(c, "CHALLENGE")
  /\ \/ call[c].sent.card = None
     \/ {call[c].sent.card, DocumentOf(c)} \cap withdrawn # {}
  /\ Respond(c, 403, None)
  /\ UNCHANGED vars

\* POST /complete.
\* Mutation: the credential of the card stands for the finger.
CompletesByCard(c) ==
  /\ Arrived(c, "COMPLETE_AUTH")
  /\ Complete(call[c].sent.session, call[c].sent.card)
  /\ Respond(c, 200, Done)

Completes(c) ==
  /\ Arrived(c, "COMPLETE_AUTH")
  /\ Complete(call[c].sent.session, call[c].sent.finger)
  /\ Respond(c, 200, Done)

CompleteFatal(c, w) ==
  /\ Arrived(c, "COMPLETE_AUTH")
  /\ CompleteReject(w, call[c].sent.session, call[c].sent.finger)
  /\ Accept(c, w)

\* The session was verified or used before: the request is left alone.
CompleteRepeated(c) ==
  LET s == call[c].sent.session IN
  /\ Arrived(c, "COMPLETE_AUTH")
  /\ SessionFree(s)
  /\ phase[s] # "OPEN"
  /\ ~CompleteIsFatal(s, call[c].sent.finger)
  /\ Respond(c, 403, None)
  /\ UNCHANGED vars

\* POST /sign.
SignBegins(c, w) ==
  /\ Arrived(c, "SIGN_DOCUMENT")
  /\ SignStart(w, call[c].sent.session)
  /\ Accept(c, w)

SignPublishes(c, g) ==
  /\ Running(c, {"signing"})
  /\ Publish(call[c].worker, g)
  /\ UNCHANGED <<device, call, mislaid, faults>>

\* The commit's own outcome may not reach the handler, which then fails.
SignCommits(c) ==
  /\ Running(c, {"published"})
  /\ CommitSignature(call[c].worker)
  /\ \/ Reply(c, 200, Done) /\ UNCHANGED faults
     \/ Reply(c, 503, None) /\ Fault
  /\ UNCHANGED <<device, mislaid>>

SignFatal(c, w, intact) ==
  /\ Arrived(c, "SIGN_DOCUMENT")
  /\ SignReject(w, call[c].sent.session, intact)
  /\ Accept(c, w)

\* The rejection is answered whether or not the failure could be stored.  A
\* document that cannot be read is a 500, which the terminal takes for a
\* temporary error.
Rejected(c) ==
  /\ Running(c, {"rejected"})
  /\ \/ /\ PersistFailure(call[c].worker)
        /\ Reply(c, 403, None)
        /\ UNCHANGED faults
     \/ /\ Rollback(call[c].worker)
        /\ Reply(c, 403, None)
        /\ Fault
     \/ /\ call[c].op = "SIGN_DOCUMENT"
        /\ PersistFailure(call[c].worker)
        /\ Reply(c, 503, None)
        /\ Fault
  /\ UNCHANGED <<device, mislaid>>

\* Mutation: only a request that can still fail takes a report.
ReportsInFlight(c) ==
  /\ Arrived(c, "REPORT_FAILED")
  /\ status[call[c].sent.request] \in InFlight
  /\ ReportFailure(call[c].sent.request, call[c].device)
  /\ Respond(c, 200, Done)

\* POST /{id}/status once the device is authenticated (Unauthorized); 404 and
\* 409 end the report like 200.
Reports(c) ==
  /\ Arrived(c, "REPORT_FAILED")
  /\ ReportFailure(call[c].sent.request, call[c].device)
  /\ Respond(c, 200, Done)

\* 503: the database, the HSM, the PAdES service or the process fails.  429:
\* the terminal has exceeded its limit (RateLimit).
Unavailable(c) ==
  /\ Fault
  /\ \/ /\ \E op \in Calling : Arrived(c, op)
        /\ Reply(c, 429, None)
        /\ UNCHANGED vars
     \/ /\ Running(c, {"claiming", "signing", "published"})
        /\ Rollback(call[c].worker)
        /\ Reply(c, 503, None)
     \/ /\ Running(c, {"published"})
        /\ RecordFails(call[c].worker)
        /\ Reply(c, 503, None)
  /\ UNCHANGED <<device, mislaid>>

\* What the server does with a call when nothing fails.
Serve(c) ==
  \/ \E w \in Workers : \/ NextStart(c, w)
                        \/ CompleteFatal(c, w)
                        \/ SignBegins(c, w)
                        \/ SignFatal(c, w, TRUE)
  \/ NextFinish(c)
  \/ NextNothing(c)
  \/ \E s \in Sessions : ChallengeOpens(c, s)
  \/ ChallengeRefused(c)
  \/ Completes(c)
  \/ CompleteRepeated(c)
  \/ \E g \in Signatures : SignPublishes(c, g)
  \/ SignCommits(c)
  \/ Rejected(c)
  \/ Reports(c)

\* The PDF of the document is gone or not the one that was assigned.
Damaged(c) == \E w \in Workers : SignFatal(c, w, FALSE)

\* The user's browser, and what else happens to the rows.
BrowserCalls(w) ==
  \/ \E doc \in Documents : CreateStart(w, doc)
  \/ \E r \in Requests : PollLock(w, r)

BrowserEnds(w) ==
  \/ \E r \in Requests, d \in Devices : CreateFinish(w, r, d)
  \/ PollCommit(w)
  \/ job[w].kind \in {"creating", "polling"} /\ Rollback(w)

Environment == Tick \/ \E x \in Withdrawable : Withdraw(x)

Unheard == UNCHANGED <<device, call, mislaid, faults>>

-----------------------------------------------------------------------------
Firmware(d) ==
  \/ Poll(d)
  \/ \E c \in Calls : Send(d, c)
  \/ Receive(d)
  \/ Garbled(d)
  \/ GiveUp(d)
  \/ \E u \in Users \cup {None} : ReadCard(d, u) \/ ReadFinger(d, u)
  \/ TimeOut(d)
  \/ Finish(d)
  \/ Reboot(d)

DeviceNext ==
  \/ \E d \in Devices : Firmware(d)
  \/ \E c \in Calls : \/ Vanish(c)
                      \/ Serve(c)
                      \/ Damaged(c)
                      \/ Unauthorized(c)
                      \/ Unavailable(c)
  \/ \E w \in Workers : (BrowserCalls(w) \/ BrowserEnds(w)) /\ Unheard
  \/ Environment /\ Unheard

DeviceSpec == DeviceInit /\ [][DeviceNext]_allVars

-----------------------------------------------------------------------------
(* Properties *)

\* Nothing is signed that its signer was not shown: for every signature there
\* was a terminal that displayed the document when the finger of its user was
\* read, after the user's card, for the session the signature consumed.
SignedWithFactors ==
  \A g \in Signatures : signature[g] # None =>
    [device |-> signature[g].device, session |-> signature[g].session,
     card |-> signature[g].user, finger |-> signature[g].user,
     document |-> signature[g].document] \in shown

\* DOCUMENT SIGNED is displayed only when it is: the row is committed, for
\* the session, the document and the user in front of the terminal.
SuccessIsSigned ==
  \A d \in Devices : workflowState[d] = "SUCCESS" =>
    \E g \in Signatures :
      /\ signature[g] # None
      /\ signature[g].session = memory[d].session
      /\ signature[g].document = Displayed(d)
      /\ signature[g].user = memory[d].card
      /\ memory[d].finger = memory[d].card

\* The terminal forgets a request only when it is finished on the server,
\* whatever answers were lost on the way and whichever other call was refused.
\* There are two exceptions: a power cycle, and a report of the failure that
\* the server refused to take (clock, signature, nonce, device not active),
\* which the terminal does not repeat.
ForgottenIsFinished ==
  [][\A d \in Devices :
       (/\ memory[d].request # None
        /\ memory'[d].request # memory[d].request
        /\ reboots' = reboots
        /\ ~(awaited[d] # None /\ Refused(awaited[d])))
         => status[memory[d].request] \in Terminal]_allVars

\* A request that somebody has begun to authenticate does not expire.  When
\* no terminal holds it, it keeps its device's queue closed until an operator
\* steps in; it takes a power cycle, a /next that the server ran after the
\* terminal had given it up, or a refused report of the failure to get there.
Deserted(r) ==
  /\ status[r] \in {"AUTHENTICATING", "AUTHENTICATED"}
  /\ \A d \in Devices : memory[d].request # r
  /\ \A c \in Calls : ~(Awaited(c) /\ call[c].body = r)

DesertedByMishap ==
  \A r \in Requests : Deserted(r) => reboots > 0 \/ r \in mislaid

-----------------------------------------------------------------------------
(* Why they hold: the parts of the inductive invariant                     *)

\* A terminal that waits is in a state that calls, and waits for the answer
\* to what it knows.
TerminalShape ==
  \A d \in Devices :
    /\ workflowState[d] \in {"IDLE", "POLL_NEXT"} => memory[d] = Cleared
    /\ workflowState[d] = "WAIT_RFID" => memory[d].session = None
    /\ awaited[d] # None =>
         /\ workflowState[d] \in Calling
         /\ call[awaited[d]] # NoCall
         /\ call[awaited[d]].op = workflowState[d]
         /\ call[awaited[d]].device = d
         /\ call[awaited[d]].sent = memory[d]

\* The kinds of job a call is run by.
Runs(op) == CASE op = "POLL_NEXT" -> {"claiming"}
              [] op = "COMPLETE_AUTH" -> {"rejected"}
              [] op = "SIGN_DOCUMENT" -> {"signing", "published", "rejected"}
              [] OTHER -> {}

\* A call that is run is run for its session; an answer has the body its
\* operation gives.
Shaped(c) ==
  call[c] # NoCall =>
    /\ call[c].op # "POLL_NEXT" => call[c].sent.request # None
    /\ call[c].op \in {"COMPLETE_AUTH", "SIGN_DOCUMENT"} =>
         call[c].sent.session # None
    /\ call[c].worker # None =>
         /\ call[c].code = Pending
         /\ job[call[c].worker].kind \in Runs(call[c].op)
         /\ call[c].op = "SIGN_DOCUMENT" =>
              job[call[c].worker].session = call[c].sent.session
    /\ call[c].op = "POLL_NEXT" =>
         (call[c].code = 200) = (call[c].body # None)
    /\ call[c].op = "POLL_NEXT" /\ call[c].code = 200 =>
         call[c].body \in Requests
    /\ call[c].op = "CHALLENGE" /\ call[c].code = 200 =>
         call[c].body \in Sessions
    /\ call[c].op = "REPORT_FAILED" => call[c].code \in {Pending, 200, 403, 429}

CallShape ==
  /\ \A c \in Calls : Shaped(c)
  /\ \A b, c \in Calls :
       b # c /\ call[c].worker # None => call[b].worker # call[c].worker

Delivered(r) == status[r] \notin {"NONE", "PENDING"}

\* The session is the one the server opened for the card read, at this
\* terminal, and for the document displayed.
Opened(d, m) ==
  /\ phase[m.session] # "NONE"
  /\ session[m.session].user = m.card
  /\ session[m.session].device = d
  /\ session[m.session].document = terms[m.request].document

FactorsOf(d, m) ==
  [device |-> d, session |-> m.session, card |-> m.card, finger |-> m.finger,
   document |-> terms[m.request].document]

Signed(m) ==
  /\ status[m.request] \in Terminal
  /\ \E g \in Signatures :
       /\ signature[g] # None
       /\ signature[g].session = m.session
       /\ signature[g].document = terms[m.request].document
       /\ signature[g].user = m.card

\* What is true when a terminal is in a state, whatever happened since.
Learned(state, d, m) ==
  /\ m.request # None => Delivered(m.request)
  /\ m.session # None => m.request # None /\ Opened(d, m)
  /\ state \in {"COMPLETE_AUTH", "SIGN_DOCUMENT", "SUCCESS"} =>
       FactorsOf(d, m) \in shown
  /\ state \in {"SIGN_DOCUMENT", "SUCCESS"} => m.finger = m.card
  /\ state = "SUCCESS" => Signed(m)

\* What is true when an operation has been answered 200.
Told(op, d, m, body) ==
  CASE op = "POLL_NEXT" -> Delivered(body)
    [] op = "CHALLENGE" -> Opened(d, [m EXCEPT !.session = body])
    [] op = "COMPLETE_AUTH" -> m.finger = m.card
    [] op = "SIGN_DOCUMENT" -> Signed(m)
    [] op = "REPORT_FAILED" -> status[m.request] \in Terminal

\* The terminals know, the calls carry and the answers say the truth.
Truthful ==
  /\ \A d \in Devices : Learned(workflowState[d], d, memory[d])
  /\ \A c \in Calls : call[c] # NoCall =>
       /\ Learned(call[c].op, call[c].device, call[c].sent)
       /\ call[c].code = 200 =>
            Told(call[c].op, call[c].device, call[c].sent, call[c].body)

\* A session is verified only after its terminal has read its user's finger.
VerifiedShown ==
  \A s \in Sessions : phase[s] \in {"VERIFIED", "USED"} =>
    [device |-> session[s].device, session |-> s, card |-> session[s].user,
     finger |-> session[s].user, document |-> session[s].document] \in shown

\* A request in flight is in somebody's hands.
Held(r) ==
  \/ \E d \in Devices : memory[d].request = r
  \/ \E c \in Calls : /\ Awaited(c)
                      /\ call[c].op = "POLL_NEXT"
                      /\ call[c].body = r

InFlightIsHeld ==
  \A r \in Requests : status[r] \in InFlight =>
    Held(r) \/ reboots > 0 \/ r \in mislaid

DeviceInv == DeviceTypeOK /\ TerminalShape /\ CallShape /\ Truthful
               /\ VerifiedShown /\ InFlightIsHeld

-----------------------------------------------------------------------------
(* Progress *)

\* The loop of the firmware runs and its waits time out; a call is served in
\* the end, though the rows it waits for are locked now and then; a browser's
\* handler ends.  The faults are finitely many: an outage ends.
DeviceFairness ==
  /\ \A d \in Devices :
       /\ WF_allVars(Poll(d))
       /\ WF_allVars(\E c \in Calls : Send(d, c))
       /\ WF_allVars(Receive(d))
       /\ WF_allVars(TimeOut(d))
       /\ WF_allVars(Finish(d))
  /\ \A c \in Calls : SF_allVars(Serve(c)) /\ WF_allVars(Vanish(c))
  /\ \A w \in Workers : WF_allVars(BrowserEnds(w) /\ Unheard)

FairDeviceSpec == DeviceSpec /\ DeviceFairness

\* The terminal comes back to the queue: no challenge, completion, signature
\* or report is retried for ever once the faults have stopped.
TerminalComesBack ==
  \A d \in Devices : workflowState[d] # "IDLE" ~> workflowState[d] = "IDLE"
===============================================================================
