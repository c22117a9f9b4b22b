-------------------------- MODULE NonceStoreProofs --------------------------
(***************************************************************************)
(* Proofs about NonceStore, for any number of messages and threads and any *)
(* limits that satisfy RetentionAssumption.                                *)
(***************************************************************************)
EXTENDS NonceStore, TLAPS

LEMMA NoCallType == NoCall \in Call
  BY DEF NoCall, Call, CallKinds

LEMMA NonceInit == Init => NonceInv
<1> SUFFICES ASSUME Init PROVE NonceInv
  OBVIOUS
<1>1. TypeOK
  <2>1. stamp \in [Messages -> Nat]
    <3>1. 0 .. MaxTime \subseteq Nat
      BY NonceAssumption
    <3> QED
      BY <3>1 DEF Init
  <2> QED
    BY <2>1, NoCallType DEF Init, TypeOK
<1>2. RowsOutlive /\ RememberedWhileRecent /\ ExecutedOnce
  BY DEF Init, RowsOutlive, RememberedWhileRecent, ExecutedOnce
<1>3. \A w \in Workers : call[w].kind = "idle" /\ call[w].purged = {}
  BY DEF Init, NoCall
<1>4. PurgesOld /\ CallsRecent /\ InsertedFresh
  BY <1>3 DEF PurgesOld, CallsRecent, InsertedFresh
<1> QED
  BY <1>1, <1>2, <1>4 DEF NonceInv

\* The types of the store and of the calls.
LEMMA NonceTypeStep == TypeOK /\ CallsRecent /\ [Next]_vars => TypeOK'
<1> SUFFICES ASSUME TypeOK, CallsRecent, [Next]_vars PROVE TypeOK'
  OBVIOUS
<1> USE NonceAssumption, NoCallType
<1>1. ASSUME NEW w \in Workers, NEW m \in Messages, Verify(w, m)
      PROVE  TypeOK'
  BY <1>1 DEF TypeOK, Verify, NoCall, Call, CallKinds
<1>2. ASSUME NEW w \in Workers, NEW t \in 0 .. now, Purge(w, t)
      PROVE  TypeOK'
  <2>1. Old(t) \in SUBSET Messages
    BY DEF TypeOK, Old
  <2> QED
    BY <1>2, <2>1 DEF TypeOK, Purge, Call, CallKinds
<1>3. ASSUME NEW w \in Workers, NEW t \in 0 .. now, Insert(w, t)
      PROVE  TypeOK'
  <2>1. t + Ttl \in Nat
    BY DEF TypeOK
  <2> QED
    BY <1>3, <2>1 DEF TypeOK, Insert, Call, CallKinds
<1>4. ASSUME NEW w \in Workers, Refuse(w) \/ Abort(w) PROVE TypeOK'
  BY <1>4 DEF TypeOK, Refuse, Abort
<1>5. ASSUME NEW w \in Workers, Commit(w) PROVE TypeOK'
  <2>1. call[w].message \in Messages /\ call[w].expires \in Nat
    BY <1>5 DEF TypeOK, CallsRecent, Commit, Call
  <2> QED
    BY <1>5, <2>1 DEF TypeOK, Commit
<1>6. CASE Tick
  BY <1>6 DEF TypeOK, Tick
<1>7. CASE UNCHANGED vars
  BY <1>7 DEF TypeOK, vars
<1> QED
  BY <1>1, <1>2, <1>3, <1>4, <1>5, <1>6, <1>7 DEF Next

\* What a commit knows: its message, and the deadline of its row.
LEMMA CommitFacts ==
  ASSUME NonceInv, NEW w \in Workers, Commit(w)
  PROVE  \E m \in Messages :
           /\ m = call[w].message
           /\ executed[m] = 0
           /\ stored' = (stored \ call[w].purged) \cup {m}
           /\ expires'[m] = call[w].expires
           /\ executed'[m] = 1
           /\ stamp[m] + Ttl <= call[w].expires + Skew
           /\ \A n \in Messages : n # m => /\ expires'[n] = expires[n]
                                           /\ executed'[n] = executed[n]
           /\ call'[w] = NoCall
           /\ \A v \in Workers : v # w => call'[v] = call[v]
           /\ now' = now /\ stamp' = stamp
<1> USE NonceAssumption
<1>1. PICK m \in Messages : m = call[w].message
  BY DEF NonceInv, TypeOK, CallsRecent, Commit, Call
<1>2. executed[m] = 0
  BY <1>1 DEF NonceInv, InsertedFresh, Commit
<1>3. stamp[m] + Ttl <= call[w].expires + Skew
  <2>1. /\ stamp[m] <= call[w].verified + Skew
        /\ call[w].verified + Ttl <= call[w].expires
    BY <1>1 DEF NonceInv, CallsRecent, Commit
  <2>2. /\ stamp[m] \in Nat /\ call[w].verified \in Nat
        /\ call[w].expires \in Nat
    BY DEF NonceInv, TypeOK, Call
  <2> QED
    BY <2>1, <2>2
<1>4. /\ stored' = (stored \ call[w].purged) \cup {m}
      /\ expires' = [expires EXCEPT ![m] = call[w].expires]
      /\ executed' = [executed EXCEPT ![m] = @ + 1]
      /\ call' = [call EXCEPT ![w] = NoCall]
      /\ now' = now /\ stamp' = stamp
  BY <1>1 DEF Commit
<1>5. /\ expires'[m] = call[w].expires /\ executed'[m] = 1
      /\ \A n \in Messages : n # m => /\ expires'[n] = expires[n]
                                      /\ executed'[n] = executed[n]
      /\ call'[w] = NoCall
      /\ \A v \in Workers : v # w => call'[v] = call[v]
  BY <1>2, <1>4 DEF NonceInv, TypeOK
<1> QED
  BY <1>1, <1>2, <1>3, <1>4, <1>5

\* Only Commit changes the rows of the table.
LEMMA TableKept ==
  ASSUME Next, \A w \in Workers : ~Commit(w)
  PROVE  UNCHANGED <<stamp, stored, expires, executed>>
  BY DEF Next, Verify, Purge, Insert, Refuse, Abort, Tick

LEMMA RowsStep == NonceInv /\ [Next]_vars => RowsOutlive'
<1> SUFFICES ASSUME NonceInv, [Next]_vars PROVE RowsOutlive'
  OBVIOUS
<1>1. ASSUME NEW w \in Workers, Commit(w) PROVE RowsOutlive'
  <2>1. PICK m \in Messages :
          /\ stored' = (stored \ call[w].purged) \cup {m}
          /\ expires'[m] = call[w].expires /\ executed'[m] = 1
          /\ stamp[m] + Ttl <= call[w].expires + Skew
          /\ \A n \in Messages : n # m => /\ expires'[n] = expires[n]
                                          /\ executed'[n] = executed[n]
          /\ stamp' = stamp
    BY <1>1, CommitFacts
  <2>2. \A n \in stored : /\ n \in Messages /\ executed[n] > 0
                          /\ stamp[n] + Ttl <= expires[n] + Skew
    BY DEF NonceInv, TypeOK, RowsOutlive
  <2>3. ASSUME NEW n \in stored'
        PROVE  executed'[n] > 0 /\ stamp'[n] + Ttl <= expires'[n] + Skew
    <3>1. CASE n = m
      BY <2>1, <3>1
    <3>2. CASE n # m
      BY <2>1, <2>2, <3>2
    <3> QED
      BY <3>1, <3>2
  <2> QED
    BY <2>3 DEF RowsOutlive
<1>2. CASE UNCHANGED <<stamp, stored, expires, executed>>
  BY <1>2 DEF NonceInv, RowsOutlive
<1> QED
  BY <1>1, <1>2, TableKept DEF vars

\* A row that a cleanup deletes stays old: it is not renewed while the
\* cleanup is uncommitted, for its message has been executed before.
LEMMA PurgesStep == NonceInv /\ [Next]_vars => PurgesOld'
<1> SUFFICES ASSUME NonceInv, [Next]_vars PROVE PurgesOld'
  OBVIOUS
<1> USE NonceAssumption
<1> DEFINE Deleted(w) == \A m \in call[w].purged :
                           m \in stored /\ expires[m] + Retention < now
<1>1. ASSUME NEW w \in Workers, NEW m \in Messages, Verify(w, m)
      PROVE  PurgesOld'
  BY <1>1 DEF NonceInv, TypeOK, PurgesOld, Verify, NoCall
<1>2. ASSUME NEW w \in Workers, NEW t \in 0 .. now, Purge(w, t)
      PROVE  PurgesOld'
  <2>1. /\ call'[w].purged = Old(t)
        /\ \A v \in Workers : v # w => /\ call'[v] = call[v]
                                       /\ call[v].purged \cap Old(t) = {}
        /\ now' = now /\ stored' = stored /\ expires' = expires /\ t <= now
    BY <1>2 DEF NonceInv, TypeOK, Purge, Others
  <2>2. \A m \in Old(t) : expires[m] + Retention < now
    <3>1. ASSUME NEW m \in Old(t) PROVE expires[m] + Retention < now
      <4>1. m \in Messages /\ expires[m] + Retention < t
        BY DEF Old, NonceInv, TypeOK
      <4>2. expires[m] \in Nat /\ now \in Nat
        BY <4>1 DEF NonceInv, TypeOK
      <4> QED
        BY <2>1, <4>1, <4>2
    <3> QED
      BY <3>1
  <2>3. ASSUME NEW v \in Workers PROVE Deleted(v)'
    <3>1. CASE v = w
      <4>1. Old(t) \subseteq stored
        BY DEF Old
      <4>2. ASSUME NEW m \in call'[v].purged
            PROVE  m \in stored' /\ expires'[m] + Retention < now'
        <5>1. m \in Old(t)
          BY <2>1, <3>1, <4>2
        <5> QED
          BY <2>1, <2>2, <4>1, <5>1
      <4> QED
        BY <4>2
    <3>2. CASE v # w
      BY <2>1, <3>2 DEF NonceInv, PurgesOld
    <3> QED
      BY <3>1, <3>2
  <2>4. ASSUME NEW u \in Workers, NEW v \in Workers, u # v
        PROVE  call'[u].purged \cap call'[v].purged = {}
    BY <2>1, <2>4 DEF NonceInv, PurgesOld
  <2> QED
    BY <2>3, <2>4 DEF PurgesOld
<1>3. ASSUME NEW w \in Workers, NEW t \in 0 .. now, Insert(w, t)
      PROVE  PurgesOld'
  <2>1. /\ \A v \in Workers : call'[v].purged = call[v].purged
        /\ now' = now /\ stored' = stored /\ expires' = expires
    BY <1>3 DEF NonceInv, TypeOK, Insert, Call
  <2> QED
    BY <2>1 DEF NonceInv, PurgesOld
<1>4. ASSUME NEW w \in Workers, Refuse(w) \/ Abort(w) PROVE PurgesOld'
  BY <1>4 DEF NonceInv, TypeOK, PurgesOld, Refuse, Abort, NoCall
<1>5. ASSUME NEW w \in Workers, Commit(w) PROVE PurgesOld'
  <2>1. PICK m \in Messages :
          /\ m = call[w].message /\ executed[m] = 0
          /\ stored' = (stored \ call[w].purged) \cup {m}
          /\ \A n \in Messages : n # m => expires'[n] = expires[n]
          /\ call'[w] = NoCall
          /\ \A v \in Workers : v # w => call'[v] = call[v]
          /\ now' = now
    BY <1>5, CommitFacts
  <2>2. \A v \in Workers : v # w =>
          call[v].purged \subseteq Messages /\ m \notin call[v].purged
    BY <2>1 DEF NonceInv, RowsOutlive, PurgesOld, TypeOK, Call
  <2>3. ASSUME NEW v \in Workers PROVE Deleted(v)'
    <3>1. CASE v = w
      BY <2>1, <3>1 DEF NoCall
    <3>2. CASE v # w
      <4>1. \A n \in call[v].purged :
              /\ n \in Messages /\ n # m /\ n \notin call[w].purged
              /\ n \in stored /\ expires[n] + Retention < now
        BY <2>2, <3>2 DEF NonceInv, PurgesOld
      <4> QED
        BY <2>1, <3>2, <4>1
    <3> QED
      BY <3>1, <3>2
  <2>4. ASSUME NEW u \in Workers, NEW v \in Workers, u # v
        PROVE  call'[u].purged \cap call'[v].purged = {}
    BY <2>1, <2>4 DEF NonceInv, PurgesOld, NoCall
  <2> QED
    BY <2>3, <2>4 DEF PurgesOld
<1>6. CASE Tick
  BY <1>6 DEF NonceInv, TypeOK, PurgesOld, Call, Tick
<1>7. CASE UNCHANGED vars
  BY <1>7 DEF NonceInv, PurgesOld, vars
<1> QED
  BY <1>1, <1>2, <1>3, <1>4, <1>5, <1>6, <1>7 DEF Next

\* A call carries a message that was recent when its timestamp was checked,
\* and reaches the store within Wait.
LEMMA CallsStep == NonceInv /\ [Next]_vars => CallsRecent'
<1> SUFFICES ASSUME NonceInv, [Next]_vars PROVE CallsRecent'
  OBVIOUS
<1> USE NonceAssumption
<1>1. ASSUME NEW w \in Workers, NEW m \in Messages, Verify(w, m)
      PROVE  CallsRecent'
  BY <1>1 DEF NonceInv, TypeOK, CallsRecent, Verify, Recent, NoCall
<1>2. ASSUME NEW w \in Workers, NEW t \in 0 .. now, Purge(w, t)
      PROVE  CallsRecent'
  BY <1>2 DEF NonceInv, TypeOK, CallsRecent, Purge, Call
<1>3. ASSUME NEW w \in Workers, NEW t \in 0 .. now, Insert(w, t)
      PROVE  CallsRecent'
  <2>1. t + Ttl \in Nat /\ call[w].verified + Ttl <= t + Ttl
    BY <1>3 DEF NonceInv, TypeOK, Insert, Call
  <2> QED
    BY <1>3, <2>1 DEF NonceInv, TypeOK, CallsRecent, Insert, Call
<1>4. ASSUME NEW w \in Workers, Refuse(w) \/ Abort(w) PROVE CallsRecent'
  BY <1>4 DEF NonceInv, TypeOK, CallsRecent, Refuse, Abort, NoCall
<1>5. ASSUME NEW w \in Workers, Commit(w) PROVE CallsRecent'
  BY <1>5 DEF NonceInv, TypeOK, CallsRecent, Commit, NoCall
<1>6. CASE Tick
  <2>1. ASSUME NEW w \in Workers, call[w].kind \in {"verified", "purged"}
        PROVE  now + 1 <= call[w].verified + Wait
    BY <1>6, <2>1 DEF NonceInv, TypeOK, Call, Tick
  <2> QED
    BY <1>6, <2>1 DEF NonceInv, TypeOK, CallsRecent, Call, Tick
<1>7. CASE UNCHANGED vars
  BY <1>7 DEF NonceInv, CallsRecent, vars
<1> QED
  BY <1>1, <1>2, <1>3, <1>4, <1>5, <1>6, <1>7 DEF Next

\* The heart of the argument: a message that has been executed cannot be
\* inserted again.  While a copy of it can still reach the store its row is
\* there, and too young for any cleanup.
LEMMA InsertFirst ==
  ASSUME NonceInv, NEW w \in Workers, NEW t \in 0 .. now, Insert(w, t)
  PROVE  executed[call[w].message] = 0
<1> USE NonceAssumption
<1>1. PICK m \in Messages : m = call[w].message
  BY DEF NonceInv, TypeOK, CallsRecent, Insert, Call
<1>2. now <= stamp[m] + Skew + Wait /\ stamp[m] \in Nat /\ now \in Nat
  <2>1. /\ call[w].verified <= stamp[m] + Skew
        /\ now <= call[w].verified + Wait
    BY <1>1 DEF NonceInv, CallsRecent, Insert
  <2>2. /\ call[w].verified \in Nat /\ stamp[m] \in Nat /\ now \in Nat
    BY DEF NonceInv, TypeOK, Call
  <2> QED
    BY <2>1, <2>2
<1>3. SUFFICES ASSUME executed[m] > 0 PROVE FALSE
  BY <1>1 DEF NonceInv, TypeOK
<1>4. m \in stored
  BY <1>2, <1>3 DEF NonceInv, RememberedWhileRecent
<1>5. m \in call[w].purged
  BY <1>1, <1>4 DEF Insert, NonceFree
<1>6. expires[m] + Retention < now /\ stamp[m] + Ttl <= expires[m] + Skew
  BY <1>4, <1>5 DEF NonceInv, PurgesOld, RowsOutlive
<1>7. expires[m] \in Nat
  BY DEF NonceInv, TypeOK
<1> QED
  BY <1>2, <1>6, <1>7, RetentionAssumption

LEMMA InsertedStep == NonceInv /\ [Next]_vars => InsertedFresh'
<1> SUFFICES ASSUME NonceInv, [Next]_vars PROVE InsertedFresh'
  OBVIOUS
<1>1. ASSUME NEW w \in Workers, NEW m \in Messages, Verify(w, m)
      PROVE  InsertedFresh'
  BY <1>1 DEF NonceInv, TypeOK, InsertedFresh, Verify, NoCall
<1>2. ASSUME NEW w \in Workers, NEW t \in 0 .. now, Purge(w, t)
      PROVE  InsertedFresh'
  BY <1>2 DEF NonceInv, TypeOK, InsertedFresh, Purge, Call
<1>3. ASSUME NEW w \in Workers, NEW t \in 0 .. now, Insert(w, t)
      PROVE  InsertedFresh'
  <2>1. executed[call[w].message] = 0
    BY <1>3, InsertFirst
  <2>2. \A v \in Workers : v # w =>
          ~(call[v].kind = "inserted" /\ call[v].message = call[w].message)
    BY <1>3 DEF Insert, NonceFree, Others
  <2>3. /\ call'[w].kind = "inserted" /\ call'[w].message = call[w].message
        /\ \A v \in Workers : v # w => call'[v] = call[v]
        /\ executed' = executed
    BY <1>3 DEF NonceInv, TypeOK, Insert, Call
  <2>4. ASSUME NEW v \in Workers, call'[v].kind = "inserted"
        PROVE  executed'[call'[v].message] = 0
    BY <2>1, <2>3, <2>4 DEF NonceInv, InsertedFresh
  <2>5. ASSUME NEW u \in Workers, NEW v \in Workers, u # v,
               call'[u].kind = "inserted", call'[v].kind = "inserted"
        PROVE  call'[u].message # call'[v].message
    BY <2>2, <2>3, <2>5 DEF NonceInv, InsertedFresh
  <2> QED
    BY <2>4, <2>5 DEF InsertedFresh
<1>4. ASSUME NEW w \in Workers, Refuse(w) \/ Abort(w) PROVE InsertedFresh'
  BY <1>4 DEF NonceInv, TypeOK, InsertedFresh, Refuse, Abort, NoCall
<1>5. ASSUME NEW w \in Workers, Commit(w) PROVE InsertedFresh'
  <2>1. PICK m \in Messages :
          /\ m = call[w].message
          /\ \A n \in Messages : n # m => executed'[n] = executed[n]
          /\ call'[w] = NoCall
          /\ \A v \in Workers : v # w => call'[v] = call[v]
    BY <1>5, CommitFacts
  <2>2. \A v \in Workers : call'[v].kind = "inserted" =>
          /\ v # w /\ call[v].kind = "inserted" /\ call'[v] = call[v]
          /\ call[v].message # m /\ call[v].message \in Messages
    BY <2>1, <1>5 DEF NoCall, NonceInv, TypeOK, CallsRecent, Call,
       InsertedFresh, Commit
  <2> QED
    BY <2>1, <2>2 DEF NonceInv, InsertedFresh
<1>6. CASE Tick
  BY <1>6 DEF NonceInv, InsertedFresh, Tick
<1>7. CASE UNCHANGED vars
  BY <1>7 DEF NonceInv, InsertedFresh, vars
<1> QED
  BY <1>1, <1>2, <1>3, <1>4, <1>5, <1>6, <1>7 DEF Next

\* A commit stores the row of its own message and takes away only rows that
\* are too old to matter.
LEMMA RememberedStep == NonceInv /\ [Next]_vars => RememberedWhileRecent'
<1> SUFFICES ASSUME NonceInv, [Next]_vars PROVE RememberedWhileRecent'
  OBVIOUS
<1> USE NonceAssumption
<1>1. ASSUME NEW w \in Workers, Commit(w) PROVE RememberedWhileRecent'
  <2>1. PICK m \in Messages :
          /\ stored' = (stored \ call[w].purged) \cup {m}
          /\ \A n \in Messages : n # m => executed'[n] = executed[n]
          /\ now' = now /\ stamp' = stamp
    BY <1>1, CommitFacts
  <2>2. ASSUME NEW n \in Messages, n # m, executed'[n] > 0,
               now' <= stamp'[n] + Skew + Wait
        PROVE  n \in stored'
    <3>1. n \in stored /\ now <= stamp[n] + Skew + Wait
      BY <2>1, <2>2 DEF NonceInv, RememberedWhileRecent
    <3>2. SUFFICES ASSUME n \in call[w].purged PROVE FALSE
      BY <2>1, <3>1
    <3>3. expires[n] + Retention < now /\ stamp[n] + Ttl <= expires[n] + Skew
      BY <3>1, <3>2 DEF NonceInv, PurgesOld, RowsOutlive
    <3>4. expires[n] \in Nat /\ stamp[n] \in Nat /\ now \in Nat
      BY DEF NonceInv, TypeOK
    <3> QED
      BY <3>1, <3>3, <3>4, RetentionAssumption
  <2> QED
    BY <2>1, <2>2 DEF RememberedWhileRecent
<1>2. CASE UNCHANGED <<stamp, stored, expires, executed>> /\ now' \in {now, now + 1}
  BY <1>2 DEF NonceInv, TypeOK, RememberedWhileRecent
<1>3. now' = now \/ Tick \/ \E w \in Workers : Commit(w)
  BY DEF Next, vars, Verify, Purge, Insert, Refuse, Abort
<1> QED
  BY <1>1, <1>2, <1>3, TableKept DEF vars, Tick

LEMMA OnceStep == NonceInv /\ [Next]_vars => ExecutedOnce'
<1> SUFFICES ASSUME NonceInv, [Next]_vars PROVE ExecutedOnce'
  OBVIOUS
<1>1. ASSUME NEW w \in Workers, Commit(w) PROVE ExecutedOnce'
  <2>1. PICK m \in Messages :
          /\ executed'[m] = 1
          /\ \A n \in Messages : n # m => executed'[n] = executed[n]
    BY <1>1, CommitFacts
  <2> QED
    BY <2>1 DEF NonceInv, ExecutedOnce
<1>2. CASE UNCHANGED executed
  BY <1>2 DEF NonceInv, ExecutedOnce
<1> QED
  BY <1>1, <1>2, TableKept DEF vars

-----------------------------------------------------------------------------
(* The theorems *)

\* The inductive invariant of the nonce store.
THEOREM NonceInvariant == Spec => []NonceInv
<1>1. NonceInv /\ [Next]_vars => NonceInv'
  <2> SUFFICES ASSUME NonceInv, [Next]_vars PROVE NonceInv'
    OBVIOUS
  <2>1. TypeOK'
    BY NonceTypeStep DEF NonceInv
  <2> QED
    BY <2>1, RowsStep, PurgesStep, CallsStep, InsertedStep, RememberedStep,
       OnceStep DEF NonceInv
<1> QED
  BY NonceInit, <1>1, PTL DEF Spec

\* With a retention that covers twice the clock skew and the wait, a signed
\* message is executed at most once: README.md's promise that persisted
\* nonces prevent replay across restarts.
THEOREM NoReplay == Spec => []ExecutedOnce
<1>1. NonceInv => ExecutedOnce
  BY DEF NonceInv
<1> QED
  BY <1>1, NonceInvariant, PTL

\* cleanup_old_nonces never deletes the nonce of a message whose copies could
\* still be accepted.
THEOREM Remembered == Spec => []RememberedWhileRecent
<1>1. NonceInv => RememberedWhileRecent
  BY DEF NonceInv
<1> QED
  BY <1>1, NonceInvariant, PTL

=============================================================================
