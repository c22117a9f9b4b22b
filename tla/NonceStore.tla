----------------------------- MODULE NonceStore -----------------------------
(***************************************************************************)
(* Replay protection of the device API: the timestamp check of             *)
(* app/security/device_auth.py and the used_nonces table of                *)
(* app/security/nonce_store.py.                                            *)
(*                                                                         *)
(* A handler verifies the HMAC and the timestamp, may then wait for row    *)
(* locks, and consumes the nonce inside its business transaction: it       *)
(* deletes old rows, inserts its own, and commits both with its effects.   *)
(* A message stands for everything the HMAC covers, so a copy of it has    *)
(* the same device, timestamp and nonce.                                   *)
(***************************************************************************)
EXTENDS Naturals

CONSTANTS
  Messages,   \* signed messages, each with a (device, nonce) of its own
  Workers,    \* threads of the server
  Skew,       \* MAX_CLOCK_SKEW_SECONDS
  Ttl,        \* NONCE_TTL_SECONDS
  Retention,  \* NONCE_RETENTION_SECONDS
  Wait,       \* longest time from the timestamp check to the nonce insert
  MaxTime,    \* bound of the clock
  None

ASSUME NonceAssumption ==
  /\ {Skew, Ttl, Retention, Wait, MaxTime} \subseteq Nat
  /\ None \notin Messages

\* The operating condition of the store: with the values of the code (120,
\* 120 and 600 seconds), a handler has eight minutes to get to its nonce.
ASSUME RetentionAssumption == 2 * Skew + Wait <= Ttl + Retention

VARIABLES
  now,       \* the server's clock
  stamp,     \* X-Timestamp of each message, from its device's clock
  stored,    \* messages whose nonce has a committed row in used_nonces
  expires,   \* UsedNonce.expires_at of those rows
  call,      \* the handler each worker runs
  executed   \* how many calls with the message have committed

vars == <<now, stamp, stored, expires, call, executed>>

CallKinds == {"idle", "verified", "purged", "inserted"}

Call == [kind: CallKinds,
         message: Messages \cup {None},
         verified: Nat,             \* when the timestamp was checked
         purged: SUBSET Messages,   \* rows deleted, not yet committed
         expires: Nat]              \* of the row inserted, not yet committed

NoCall == [kind |-> "idle", message |-> None, verified |-> 0, purged |-> {},
           expires |-> 0]

\* A device's clock may be anywhere, so a message may be stamped with any
\* time the server will see.
Init ==
  /\ now = 0
  /\ stamp \in [Messages -> 0 .. MaxTime]
  /\ stored = {}
  /\ expires = [m \in Messages |-> 0]
  /\ call = [w \in Workers |-> NoCall]
  /\ executed = [m \in Messages |-> 0]

-----------------------------------------------------------------------------
(* verify_device_hmac *)

\* Mutation: the difference is taken without abs.
RecentUnlessOld(m) == now <= stamp[m] + Skew

\* abs(current_time - timestamp) <= MAX_CLOCK_SKEW_SECONDS
Recent(m) == stamp[m] <= now + Skew /\ now <= stamp[m] + Skew

Verify(w, m) ==
  /\ call[w].kind = "idle"
  /\ Recent(m)
  /\ call' = [call EXCEPT ![w] = [NoCall EXCEPT !.kind = "verified",
                                                !.message = m,
                                                !.verified = now]]
  /\ UNCHANGED <<now, stamp, stored, expires, executed>>

-----------------------------------------------------------------------------
(* consume_nonce *)

\* WHERE expires_at < t - NONCE_RETENTION_SECONDS
Old(t) == {m \in stored : expires[m] + Retention < t}

Others(w) == {v \in Workers : v # w}

\* cleanup_old_nonces: t is the time it read before it waited for rows that
\* another transaction is deleting.
Purge(w, t) ==
  /\ call[w].kind = "verified"
  /\ call[w].verified <= t /\ t <= now
  /\ \A v \in Others(w) : call[v].purged \cap Old(t) = {}
  /\ call' = [call EXCEPT ![w].kind = "purged", ![w].purged = Old(t)]
  /\ UNCHANGED <<now, stamp, stored, expires, executed>>

\* Mutation: a SELECT before the INSERT instead of the constraint.
NonceFreeUnserialized(w, m) == m \notin stored \ call[w].purged

\* UNIQUE(device_id, nonce): no committed row, and no other transaction is
\* inserting or deleting one (the insert waits for that transaction).
NonceFree(w, m) ==
  /\ m \notin stored \ call[w].purged
  /\ \A v \in Others(w) :
       ~(call[v].kind = "inserted" /\ call[v].message = m)

\* The row of the nonce is inserted with a deadline counted from t, read
\* before the insert waited.
Insert(w, t) ==
  /\ call[w].kind = "purged"
  /\ call[w].verified <= t /\ t <= now
  /\ NonceFree(w, call[w].message)
  /\ call' = [call EXCEPT ![w].kind = "inserted", ![w].expires = t + Ttl]
  /\ UNCHANGED <<now, stamp, stored, expires, executed>>

\* The nonce is there: False is returned, the handler refuses the call and
\* its transaction, cleanup included, is rolled back.
Refuse(w) ==
  LET m == call[w].message IN
  /\ call[w].kind = "purged"
  /\ m \in stored \ call[w].purged
  /\ \A v \in Others(w) : m \notin call[v].purged
  /\ call' = [call EXCEPT ![w] = NoCall]
  /\ UNCHANGED <<now, stamp, stored, expires, executed>>

-----------------------------------------------------------------------------
(* The end of the business transaction *)

Commit(w) ==
  LET m == call[w].message IN
  /\ call[w].kind = "inserted"
  /\ stored' = (stored \ call[w].purged) \cup {m}
  /\ expires' = [expires EXCEPT ![m] = call[w].expires]
  /\ executed' = [executed EXCEPT ![m] = @ + 1]
  /\ call' = [call EXCEPT ![w] = NoCall]
  /\ UNCHANGED <<now, stamp>>

\* A later check fails, the HSM fails, the commit fails or the server is
\* restarted: the transaction is rolled back and the nonce with it.
Abort(w) ==
  /\ call[w].kind # "idle"
  /\ call' = [call EXCEPT ![w] = NoCall]
  /\ UNCHANGED <<now, stamp, stored, expires, executed>>

-----------------------------------------------------------------------------
\* Time passes, but no handler is kept from its nonce for longer than Wait.
Tick ==
  /\ now < MaxTime
  /\ \A w \in Workers : call[w].kind \in {"verified", "purged"}
                          => now < call[w].verified + Wait
  /\ now' = now + 1
  /\ UNCHANGED <<stamp, stored, expires, call, executed>>

Next ==
  \/ \E w \in Workers, m \in Messages : Verify(w, m)
  \/ \E w \in Workers, t \in 0 .. now : Purge(w, t)
  \/ \E w \in Workers, t \in 0 .. now : Insert(w, t)
  \/ \E w \in Workers : Refuse(w) \/ Commit(w) \/ Abort(w)
  \/ Tick

Spec == Init /\ [][Next]_vars

-----------------------------------------------------------------------------
(* What the store promises *)

TypeOK ==
  /\ now \in Nat
  /\ stamp \in [Messages -> Nat]
  /\ stored \subseteq Messages
  /\ expires \in [Messages -> Nat]
  /\ call \in [Workers -> Call]
  /\ executed \in [Messages -> Nat]

\* A signed message takes effect once, however often it is sent, at whatever
\* moment, with other calls in progress and the server restarted in between
\* (README.md: used nonces are persisted to prevent replay).
ExecutedOnce == \A m \in Messages : executed[m] <= 1

\* No nonce is forgotten while a copy of its message can still pass the
\* timestamp check and reach the store: cleanup, which any call on any device
\* runs, comes too late to open the door.
RememberedWhileRecent ==
  \A m \in Messages :
    (executed[m] > 0 /\ now <= stamp[m] + Skew + Wait) => m \in stored

-----------------------------------------------------------------------------
(* Why: the parts of the inductive invariant *)

\* A row belongs to an executed message, and outlives it.
RowsOutlive ==
  \A m \in stored : executed[m] > 0 /\ stamp[m] + Ttl <= expires[m] + Skew

\* What is being deleted is old, and nobody else deletes it.
PurgesOld ==
  /\ \A w \in Workers : \A m \in call[w].purged :
       m \in stored /\ expires[m] + Retention < now
  /\ \A v, w \in Workers : v # w => call[v].purged \cap call[w].purged = {}

\* What a call knows of its message.
CallsRecent ==
  \A w \in Workers : call[w].kind # "idle" =>
    /\ call[w].message # None
    /\ call[w].verified <= now
    /\ stamp[call[w].message] <= call[w].verified + Skew
    /\ call[w].verified <= stamp[call[w].message] + Skew
    /\ call[w].kind \in {"verified", "purged"} => now <= call[w].verified + Wait
    /\ call[w].kind = "inserted" =>
         call[w].verified + Ttl <= call[w].expires

\* A nonce that is being inserted belongs to a message that has not been
\* executed and that nobody else is inserting.
InsertedFresh ==
  /\ \A w \in Workers : call[w].kind = "inserted" =>
       executed[call[w].message] = 0
  /\ \A v, w \in Workers :
       (v # w /\ call[v].kind = "inserted" /\ call[w].kind = "inserted")
         => call[v].message # call[w].message

NonceInv == TypeOK /\ RowsOutlive /\ PurgesOld /\ CallsRecent /\ InsertedFresh
              /\ RememberedWhileRecent /\ ExecutedOnce

=============================================================================
