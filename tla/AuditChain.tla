----------------------------- MODULE AuditChain -----------------------------
(***************************************************************************)
(* The security audit log of app/services/audit_service.py: a hash chain   *)
(* of events, written inside the business transactions of the handlers     *)
(* (add_audit_event) and, after a refusal, in independent transactions     *)
(* (record_audit_event).                                                   *)
(*                                                                         *)
(* An appending transaction takes a PostgreSQL advisory lock that it keeps *)
(* until it ends, reads the latest sealed event, and stamps its own after  *)
(* it.  The events' hashes are abstracted to the events' identities        *)
(* (SHA-256 is injective for this model), so previous_hash is the event    *)
(* that precedes in the chain.  A thread runs at most one of the two       *)
(* transactions with a pending event at a time: "pending" and "holder" are *)
(* kept per thread, and "step" tells which transaction it is.              *)
(***************************************************************************)
EXTENDS Naturals

CONSTANTS
  Events,        \* identifiers of events, ordered as UUIDs are
  Historical,    \* events written before the chain existed
  Workers,       \* threads of the server
  Readings,      \* what datetime.now may return, in any order: clocks are set
  HistoryTimes,  \* created_at of the historical events, from the database's clock
  Genesis,       \* AUDIT_CHAIN_GENESIS_HASH
  None

ASSUME AuditAssumption ==
  /\ Events \subseteq Nat /\ Historical \subseteq Events
  /\ Readings \subseteq Nat /\ HistoryTimes \subseteq Nat
  /\ Genesis \notin Events /\ None \notin Events /\ Genesis # None
  /\ None \notin Workers

\* The operating condition of the upgrade that started the chain: the
\* application's clock is past everything the database's clock had stamped.
HistoryIsPast == \A t \in HistoryTimes, c \in Readings : t < c

VARIABLES
  at,         \* created_at of each event
  previous,   \* previous_hash of each event; None while it has no hash
  committed,  \* rows of security_audit_events
  pending,    \* events flushed and not yet committed, by thread
  holder,     \* thread whose transaction holds the advisory lock, or None
  step        \* what each thread is doing

vars == <<at, previous, committed, pending, holder, step>>

Steps == {"idle", "business", "denied", "recording"}

Init ==
  /\ at \in [Events -> HistoryTimes \cup {0}]
  /\ \A e \in Events \ Historical : at[e] = 0
  /\ \A e \in Historical : at[e] \in HistoryTimes
  /\ previous = [e \in Events |-> None]
  /\ committed = Historical
  /\ pending = [w \in Workers |-> {}]
  /\ holder = None
  /\ step = [w \in Workers |-> "idle"]

-----------------------------------------------------------------------------
(* Order and visibility of the events *)

Sealed(e) == previous[e] # None

\* ORDER BY created_at, id
Earlier(e, f) == at[e] < at[f] \/ (at[e] = at[f] /\ e < f)

\* Mutation: events are added to the session and not flushed, so a query of
\* the same transaction does not return them.
VisibleCommitted(w) == committed

\* READ COMMITTED: committed rows, and those of the transaction itself.
Visible(w) == committed \cup pending[w]

\* _latest_chained_event: the last of the sealed events in S.
IsLatest(p, S) ==
  \/ p = Genesis /\ \A e \in S : ~Sealed(e)
  \/ p \in S /\ Sealed(p) /\ \A e \in S : (Sealed(e) /\ e # p) => Earlier(e, p)

\* Mutation: created_at is the time read from the clock.
NowAfterVerbatim(p, c) == c

\* _now_after: the clock, unless it is not past the preceding event.
NowAfter(p, c) == IF p \in Events /\ c <= at[p] THEN at[p] + 1 ELSE c

-----------------------------------------------------------------------------
(* write_audit_event *)

\* Mutation: no advisory lock.
LockFreeAlways(w) == TRUE

\* pg_advisory_xact_lock, which a transaction may take again.
LockFree(w) == holder \in {None, w}

Write(w, e, p, c) ==
  /\ e \notin committed /\ \A v \in Workers : e \notin pending[v]
  /\ LockFree(w)
  /\ IsLatest(p, Visible(w))
  /\ at' = [at EXCEPT ![e] = NowAfter(p, c)]
  /\ previous' = [previous EXCEPT ![e] = p]
  /\ pending' = [pending EXCEPT ![w] = @ \cup {e}]
  /\ holder' = w
  /\ UNCHANGED committed

\* The end of a transaction of thread w, with and without its events.
CommitEvents(w) ==
  /\ committed' = committed \cup pending[w]
  /\ pending' = [pending EXCEPT ![w] = {}]
  /\ holder' = IF holder = w THEN None ELSE holder
  /\ UNCHANGED <<at, previous>>

DropEvents(w) ==
  /\ at' = [e \in Events |-> IF e \in pending[w] THEN 0 ELSE at[e]]
  /\ previous' = [e \in Events |-> IF e \in pending[w] THEN None ELSE previous[e]]
  /\ pending' = [pending EXCEPT ![w] = {}]
  /\ holder' = IF holder = w THEN None ELSE holder
  /\ UNCHANGED committed

-----------------------------------------------------------------------------
(* The handlers, as far as the log sees them *)

Goto(w, from, to) == step[w] = from /\ step' = [step EXCEPT ![w] = to]

Begin(w) == Goto(w, "idle", "business")
              /\ UNCHANGED <<at, previous, committed, pending, holder>>

\* add_audit_event
Add(w, e, p, c) ==
  /\ step[w] = "business"
  /\ Write(w, e, p, c)
  /\ UNCHANGED step

Commit(w) == Goto(w, "business", "idle") /\ CommitEvents(w)

\* An exception, or a handler that ends without a commit.
Rollback(w) == Goto(w, "business", "idle") /\ DropEvents(w)

\* Mutation: the refusal is recorded while the business transaction is open.
RejectOpen(w) == Goto(w, "business", "denied")
                   /\ UNCHANGED <<at, previous, committed, pending, holder>>

\* reject_sign, reject_complete and the refusals that precede any event: the
\* business transaction is rolled back (or has written nothing), then the
\* refusal is recorded.
Reject(w) == Goto(w, "business", "denied") /\ DropEvents(w)

\* record_audit_event: its transaction is another one than the thread's
\* business transaction, and would wait for a lock that that one holds.
Record(w, e, p, c) ==
  /\ holder = None
  /\ Goto(w, "denied", "recording")
  /\ Write(w, e, p, c)

RecordCommit(w) == Goto(w, "recording", "idle") /\ CommitEvents(w)

\* The event cannot be written or committed: a line in the server's log.
RecordFails(w) ==
  \/ Goto(w, "recording", "idle") /\ DropEvents(w)
  \/ /\ Goto(w, "denied", "idle")
     /\ UNCHANGED <<at, previous, committed, pending, holder>>

\* The server is restarted; PostgreSQL rolls back what was open.
Crash ==
  /\ at' = [e \in Events |-> IF e \in committed THEN at[e] ELSE 0]
  /\ previous' = [e \in Events |-> IF e \in committed THEN previous[e] ELSE None]
  /\ pending' = [w \in Workers |-> {}]
  /\ holder' = None
  /\ step' = [w \in Workers |-> "idle"]
  /\ UNCHANGED committed

Next ==
  \/ \E w \in Workers, e \in Events, p \in Events \cup {Genesis}, c \in Readings :
       Add(w, e, p, c) \/ Record(w, e, p, c)
  \/ \E w \in Workers : \/ Begin(w) \/ Commit(w) \/ Rollback(w) \/ Reject(w)
                        \/ RecordCommit(w) \/ RecordFails(w)
  \/ Crash

Spec == Init /\ [][Next]_vars

\* A handler ends, one way or another.  The advisory lock is granted in the
\* order of the requests, so a transaction that waits for it gets it if it is
\* released again and again.
Recorded(w) ==
  \/ step[w] = "denied" /\ Events \subseteq committed /\ RecordFails(w)
  \/ \E e \in Events, p \in Events \cup {Genesis}, c \in Readings :
       Record(w, e, p, c)

Fairness ==
  \A w \in Workers :
    /\ WF_vars(Commit(w) \/ Rollback(w) \/ Reject(w))
    /\ SF_vars(Recorded(w))
    /\ WF_vars(RecordCommit(w) \/ (RecordFails(w) /\ step[w] = "recording"))

FairSpec == Spec /\ Fairness

-----------------------------------------------------------------------------
(* verify_audit_chain *)

\* The event whose hash the verification expects in e: the preceding sealed
\* event of the table.
Expected(e, S, p) ==
  \/ p = Genesis /\ \A f \in S : Sealed(f) => ~Earlier(f, e)
  \/ /\ p \in S /\ Sealed(p) /\ Earlier(p, e)
     /\ \A f \in S : (Sealed(f) /\ Earlier(f, e) /\ f # p) => Earlier(f, p)

\* An event is in its place: an unsealed one before all sealed ones, a sealed
\* one with the hash of its predecessor.
Holds(e, S) ==
  IF Sealed(e) THEN Expected(e, S, previous[e])
               ELSE \A f \in S : Sealed(f) => Earlier(e, f)

\* "valid"
ValidChain(S) == \A e \in S : Holds(e, S)

\* "historical_unsealed_events": what is counted until the chain starts.
HistoricalCounted(S) ==
  {e \in S : ~Sealed(e) /\ \A f \in S : Sealed(f) => Earlier(e, f)}

-----------------------------------------------------------------------------
(* What the log promises *)

TypeOK ==
  /\ at \in [Events -> Nat]
  /\ previous \in [Events -> Events \cup {Genesis, None}]
  /\ committed \subseteq Events
  /\ pending \in [Workers -> SUBSET Events]
  /\ holder \in Workers \cup {None}
  /\ step \in [Workers -> Steps]

\* The integrity page calls the log valid at every moment, whatever writers
\* run at once, roll back or crash, and however the clock is set back
\* (docs/audit.md: the lock prevents two concurrent writes from reusing the
\* same previous_hash).
ChainVerifies == ValidChain(committed)

\* The log only grows, and only at its end: what an earlier page or
\* verification showed, later ones show unchanged and before anything new.
AppendOnly ==
  [][/\ committed \subseteq committed'
     /\ \A e \in committed : at'[e] = at[e] /\ previous'[e] = previous[e]
     /\ \A e \in committed, f \in committed' \ committed :
          at'[e] < at'[f] \/ (at'[e] = at'[f] /\ e < f)]_vars

\* A refused client gets its answer: the recording of the refusal never waits
\* for the refused transaction itself.
RefusalAnswered ==
  \A w \in Workers : step[w] = "denied" ~> step[w] = "idle"

\* Events from before the chain are recognised as such (docs/audit.md:
\* historical_unsealed_events counts the unsealed historical events).
HistoryRecognised == Historical \subseteq HistoricalCounted(committed)

-----------------------------------------------------------------------------
(* Why: the parts of the inductive invariant *)

Rows == committed \cup UNION {pending[w] : w \in Workers}

\* Only the holder of the lock has uncommitted events, and an idle thread or
\* one that is about to record holds nothing.
LockHeld ==
  /\ \A w \in Workers : pending[w] # {} => holder = w
  /\ \A w \in Workers : step[w] \in {"idle", "denied"} => holder # w

\* Uncommitted events are sealed and come after the committed ones.
PendingLast ==
  \A w \in Workers : \A e \in pending[w] :
    Sealed(e) /\ e \notin committed /\ \A f \in committed : Earlier(f, e)

\* The chain is valid with the uncommitted events too.
RowsChained == ValidChain(Rows)

\* The events without a hash are the historical ones.
HistoryKept == \A e \in committed : ~Sealed(e) => at[e] \in HistoryTimes

AuditInv == TypeOK /\ LockHeld /\ PendingLast /\ RowsChained /\ HistoryKept

=============================================================================
