-------------------------- MODULE AuditChainProofs --------------------------
(***************************************************************************)
(* Proofs about AuditChain, for any number of events and threads and any   *)
(* clock.  The chain is first looked at as a fact about two functions, the *)
(* events' times and links, and a set of events.                           *)
(***************************************************************************)
EXTENDS AuditChain, TLAPS

\* Earlier, Expected, Holds and ValidChain for times a and links v.
Before(a, e, f) == a[e] < a[f] \/ (a[e] = a[f] /\ e < f)

Follows(a, v, e, S, p) ==
  \/ p = Genesis /\ \A f \in S : v[f] # None => ~Before(a, f, e)
  \/ /\ p \in S /\ v[p] # None /\ Before(a, p, e)
     /\ \A f \in S : (v[f] # None /\ Before(a, f, e) /\ f # p) => Before(a, f, p)

Fits(a, v, e, S) ==
  IF v[e] # None THEN Follows(a, v, e, S, v[e])
                 ELSE \A f \in S : v[f] # None => Before(a, e, f)

Chain(a, v, S) == \A e \in S : Fits(a, v, e, S)

LEMMA ChainIsValid == \A S : ValidChain(S) <=> Chain(at, previous, S)
  BY DEF ValidChain, Holds, Expected, Sealed, Earlier, Chain, Fits, Follows,
     Before

LEMMA BeforeIsAsymmetric ==
  ASSUME NEW a \in [Events -> Nat], NEW e \in Events, NEW f \in Events,
         Before(a, e, f)
  PROVE  ~Before(a, f, e)
<1>1. e \in Nat /\ f \in Nat /\ a[e] \in Nat /\ a[f] \in Nat
  BY AuditAssumption
<1> QED
  BY <1>1 DEF Before

\* A chain whose last events are dropped is a chain.
LEMMA ChainPrefix ==
  ASSUME NEW a \in [Events -> Nat], NEW v, NEW S \in SUBSET Events,
         NEW P \in SUBSET Events,
         \A x \in P : v[x] # None /\ \A y \in S : Before(a, y, x),
         Chain(a, v, S \cup P)
  PROVE  Chain(a, v, S)
<1> SUFFICES ASSUME NEW e \in S PROVE Fits(a, v, e, S)
  BY DEF Chain
<1>1. Fits(a, v, e, S \cup P)
  BY DEF Chain
<1>2. \A x \in P : ~Before(a, x, e)
  BY BeforeIsAsymmetric
<1>3. CASE v[e] = None
  BY <1>1, <1>3 DEF Fits
<1>4. CASE v[e] # None
  <2>1. Follows(a, v, e, S \cup P, v[e])
    BY <1>1, <1>4 DEF Fits
  <2>2. Follows(a, v, e, S, v[e])
    BY <1>2, <2>1 DEF Follows
  <2> QED
    BY <1>4, <2>2 DEF Fits
<1> QED
  BY <1>3, <1>4

\* Whether a set is a chain depends on its own events only.
LEMMA ChainAgree ==
  ASSUME NEW a, NEW v, NEW b, NEW u, NEW S \in SUBSET Events,
         \A x \in S : b[x] = a[x] /\ u[x] = v[x],
         Chain(a, v, S)
  PROVE  Chain(b, u, S)
<1> SUFFICES ASSUME NEW e \in S PROVE Fits(b, u, e, S)
  BY DEF Chain
<1>1. Fits(a, v, e, S)
  BY DEF Chain
<1>2. \A x, y \in S : Before(b, x, y) <=> Before(a, x, y)
  BY DEF Before
<1>3. CASE v[e] = None
  BY <1>1, <1>2, <1>3 DEF Fits
<1>4. CASE v[e] # None
  <2>1. Follows(a, v, e, S, v[e])
    BY <1>1, <1>4 DEF Fits
  <2>2. Follows(b, u, e, S, v[e])
    BY <1>2, <2>1 DEF Follows
  <2> QED
    BY <1>4, <2>2 DEF Fits
<1> QED
  BY <1>3, <1>4

\* A chain stays one when an event stamped after all others is linked to its
\* last sealed event.
LEMMA ChainExtend ==
  ASSUME NEW a \in [Events -> Nat], NEW v, NEW b \in [Events -> Nat], NEW u,
         NEW S \in SUBSET Events, NEW e \in Events \ S, NEW p,
         \A x \in S : b[x] = a[x] /\ u[x] = v[x],
         u[e] = p, p # None,
         \/ p = Genesis /\ \A x \in S : v[x] = None
         \/ /\ p \in S /\ v[p] # None
            /\ \A x \in S : (v[x] # None /\ x # p) => Before(a, x, p),
         \A x \in S : a[x] < b[e],
         Chain(a, v, S)
  PROVE  Chain(b, u, S \cup {e})
<1>1. Chain(b, u, S)
  BY ChainAgree
<1>2. \A x \in S : Before(b, x, e) /\ ~Before(b, e, x)
  <2>1. ASSUME NEW x \in S PROVE Before(b, x, e)
    BY DEF Before
  <2> QED
    BY <2>1, BeforeIsAsymmetric
<1>3. ~Before(b, e, e)
  <2>1. b[e] \in Nat /\ e \in Nat
    BY AuditAssumption
  <2> QED
    BY <2>1 DEF Before
<1>4. ASSUME NEW x \in S PROVE Fits(b, u, x, S \cup {e})
  <2>1. Fits(b, u, x, S)
    BY <1>1 DEF Chain
  <2>2. CASE u[x] = None
    BY <1>2, <2>1, <2>2 DEF Fits
  <2>3. CASE u[x] # None
    <3>1. Follows(b, u, x, S, u[x])
      BY <2>1, <2>3 DEF Fits
    <3>2. Follows(b, u, x, S \cup {e}, u[x])
      BY <1>2, <3>1 DEF Follows
    <3> QED
      BY <2>3, <3>2 DEF Fits
  <2> QED
    BY <2>2, <2>3
<1>5. Fits(b, u, e, S \cup {e})
  <2>1. \A x, y \in S : Before(b, x, y) <=> Before(a, x, y)
    BY DEF Before
  <2>2. Follows(b, u, e, S \cup {e}, p)
    <3>1. CASE p = Genesis /\ \A x \in S : v[x] = None
      BY <1>3, <3>1 DEF Follows
    <3>2. CASE /\ p \in S /\ v[p] # None
               /\ \A x \in S : (v[x] # None /\ x # p) => Before(a, x, p)
      BY <1>2, <1>3, <2>1, <3>2 DEF Follows
    <3> QED
      BY <3>1, <3>2
  <2> QED
    BY <2>2 DEF Fits
<1> QED
  BY <1>4, <1>5 DEF Chain

-----------------------------------------------------------------------------
(* The steps *)

LEMMA AuditInit == Init => AuditInv
<1> SUFFICES ASSUME Init PROVE AuditInv
  OBVIOUS
<1> USE AuditAssumption
<1>1. TypeOK
  <2>1. at \in [Events -> Nat]
    <3>1. HistoryTimes \cup {0} \subseteq Nat
      OBVIOUS
    <3> QED
      BY <3>1 DEF Init
  <2> QED
    BY <2>1 DEF Init, TypeOK, Steps
<1>2. LockHeld /\ PendingLast /\ HistoryKept
  BY DEF Init, LockHeld, PendingLast, HistoryKept, Sealed
<1>3. RowsChained
  <2>1. \A e \in Rows : ~Sealed(e)
    BY DEF Init, Rows, Sealed
  <2> QED
    BY <2>1 DEF RowsChained, ValidChain, Holds
<1> QED
  BY <1>1, <1>2, <1>3 DEF AuditInv

\* While one thread holds the lock, or nobody does, the rows are the
\* committed ones and its own.
LEMMA OwnRows ==
  ASSUME LockHeld, NEW w \in Workers, holder \in {None, w}
  PROVE  /\ Rows = committed \cup pending[w]
         /\ \A v \in Workers : v # w => pending[v] = {}
<1>1. \A v \in Workers : v # w => pending[v] = {}
  BY AuditAssumption DEF LockHeld
<1> QED
  BY <1>1 DEF Rows

\* Without the uncommitted events the chain is valid too.
LEMMA CommittedChain ==
  ASSUME AuditInv
  PROVE  Chain(at, previous, committed)
<1>1. CASE \E w \in Workers : holder = w
  <2>1. PICK w \in Workers : holder = w
    BY <1>1
  <2>2. Rows = committed \cup pending[w]
    BY <2>1, OwnRows DEF AuditInv
  <2>3. Chain(at, previous, committed \cup pending[w])
    BY <2>2, ChainIsValid DEF AuditInv, RowsChained
  <2>4. /\ at \in [Events -> Nat] /\ committed \in SUBSET Events
        /\ pending[w] \in SUBSET Events
    BY DEF AuditInv, TypeOK
  <2>5. \A x \in pending[w] :
          previous[x] # None /\ \A y \in committed : Before(at, y, x)
    BY DEF AuditInv, PendingLast, Sealed, Earlier, Before
  <2> QED
    BY <2>3, <2>4, <2>5, ChainPrefix
<1>2. CASE ~\E w \in Workers : holder = w
  <2>1. Rows = committed
    BY <1>2 DEF AuditInv, LockHeld, Rows
  <2> QED
    BY <2>1, ChainIsValid DEF AuditInv, RowsChained
<1> QED
  BY <1>1, <1>2

\* What a Write does: the event comes after everything in the table.
LEMMA WriteFacts ==
  ASSUME HistoryIsPast, AuditInv, NEW w \in Workers, NEW e \in Events,
         NEW p \in Events \cup {Genesis}, NEW c \in Readings, Write(w, e, p, c)
  PROVE  /\ Rows = committed \cup pending[w] /\ e \notin Rows
         /\ \A v \in Workers : v # w => pending[v] = {} /\ pending'[v] = {}
         /\ Rows' = Rows \cup {e} /\ Rows \subseteq Events
         /\ pending'[w] = pending[w] \cup {e} /\ holder' = w
         /\ committed' = committed
         /\ at' \in [Events -> Nat] /\ previous'[e] = p /\ p # None
         /\ \A f \in Events \ {e} : at'[f] = at[f] /\ previous'[f] = previous[f]
         /\ \A f \in Rows : at[f] < at'[e]
<1> USE AuditAssumption
<1>1. holder \in {None, w}
  BY DEF Write, LockFree
<1>2. /\ Rows = committed \cup pending[w]
      /\ \A v \in Workers : v # w => pending[v] = {}
  BY <1>1, OwnRows DEF AuditInv
<1>3. e \notin Rows /\ Rows \subseteq Events
  BY <1>2 DEF Write, AuditInv, TypeOK
<1>4. /\ pending'[w] = pending[w] \cup {e}
      /\ \A v \in Workers : v # w => pending'[v] = pending[v]
      /\ holder' = w /\ committed' = committed
  BY DEF Write, AuditInv, TypeOK
<1>5. Rows' = Rows \cup {e}
  BY <1>2, <1>4 DEF Rows
<1>6. /\ previous'[e] = p /\ p # None /\ at'[e] = NowAfter(p, c)
      /\ \A f \in Events \ {e} : at'[f] = at[f] /\ previous'[f] = previous[f]
  BY DEF Write, AuditInv, TypeOK
<1>7. NowAfter(p, c) \in Nat /\ NowAfter(p, c) >= c
      /\ (p \in Events => at[p] < NowAfter(p, c))
  <2>1. c \in Nat /\ (p \in Events => at[p] \in Nat)
    BY DEF AuditInv, TypeOK
  <2> QED
    BY <2>1 DEF NowAfter
<1>8. at' \in [Events -> Nat]
  BY <1>7 DEF Write, AuditInv, TypeOK
<1>9. ASSUME NEW f \in Rows PROVE at[f] < NowAfter(p, c)
  <2>1. IsLatest(p, Rows)
    BY <1>2 DEF Write, Visible
  <2>2. f \in Events /\ at[f] \in Nat /\ c \in Nat
    BY <1>3 DEF AuditInv, TypeOK
  <2>3. CASE p \in Rows /\ Sealed(p)
    <3>1. f = p \/ Earlier(f, p)
      <4>1. CASE Sealed(f)
        BY <2>1, <2>3, <4>1, <1>3 DEF IsLatest
      <4>2. CASE ~Sealed(f)
        BY <2>3, <4>2 DEF AuditInv, RowsChained, ValidChain, Holds
      <4> QED
        BY <4>1, <4>2
    <3>2. p \in Events /\ at[p] \in Nat /\ at[f] <= at[p]
      BY <1>3, <2>2, <2>3, <3>1 DEF Earlier, AuditInv, TypeOK
    <3> QED
      BY <1>7, <2>2, <3>2
  <2>4. CASE \A x \in Rows : ~Sealed(x)
    <3>1. f \in committed /\ ~Sealed(f)
      BY <1>2, <2>4 DEF AuditInv, PendingLast
    <3>2. at[f] < c
      BY <3>1 DEF AuditInv, HistoryKept, HistoryIsPast
    <3> QED
      BY <1>7, <2>2, <3>2
  <2> QED
    BY <2>1, <2>3, <2>4 DEF IsLatest
<1> QED
  BY <1>2, <1>3, <1>4, <1>5, <1>6, <1>8, <1>9

\* Writing an event keeps every part of the invariant but the one that
\* depends on the thread's step.
LEMMA WriteStep ==
  ASSUME HistoryIsPast, AuditInv, NEW w \in Workers, NEW e \in Events,
         NEW p \in Events \cup {Genesis}, NEW c \in Readings, Write(w, e, p, c)
  PROVE  PendingLast' /\ RowsChained' /\ HistoryKept'
<1> USE AuditAssumption
<1>1. /\ Rows = committed \cup pending[w] /\ e \notin Rows
      /\ \A v \in Workers : v # w => pending[v] = {} /\ pending'[v] = {}
      /\ Rows' = Rows \cup {e} /\ Rows \subseteq Events
      /\ pending'[w] = pending[w] \cup {e}
      /\ committed' = committed
      /\ at' \in [Events -> Nat] /\ previous'[e] = p /\ p # None
      /\ \A f \in Events \ {e} : at'[f] = at[f] /\ previous'[f] = previous[f]
      /\ \A f \in Rows : at[f] < at'[e]
  BY WriteFacts
<1>2. \A f \in Rows : at'[f] = at[f] /\ previous'[f] = previous[f]
  BY <1>1
<1>3. RowsChained'
  <2>1. at \in [Events -> Nat]
    BY DEF AuditInv, TypeOK
  <2>2. Chain(at, previous, Rows)
    BY ChainIsValid DEF AuditInv, RowsChained
  <2>3. \/ p = Genesis /\ \A x \in Rows : previous[x] = None
        \/ /\ p \in Rows /\ previous[p] # None
           /\ \A x \in Rows : (previous[x] # None /\ x # p) => Before(at, x, p)
    BY <1>1 DEF Write, Visible, IsLatest, Sealed, Earlier, Before
  <2>4. Chain(at', previous', Rows \cup {e})
    BY <1>1, <1>2, <2>1, <2>2, <2>3, ChainExtend
  <2>5. ValidChain(Rows)' <=> Chain(at', previous', Rows')
    BY DEF ValidChain, Holds, Expected, Sealed, Earlier, Chain, Fits, Follows,
       Before
  <2> QED
    BY <1>1, <2>4, <2>5 DEF RowsChained
<1>4. PendingLast'
  <2>1. ASSUME NEW v \in Workers, NEW x \in pending'[v]
        PROVE  /\ previous'[x] # None /\ x \notin committed
               /\ \A f \in committed : \/ at'[f] < at'[x]
                                       \/ at'[f] = at'[x] /\ f < x
    <3>1. v = w
      BY <1>1, <2>1
    <3>2. CASE x = e
      BY <1>1, <1>2, <3>2
    <3>3. CASE x \in pending[w]
      BY <1>1, <1>2, <3>3 DEF AuditInv, PendingLast, Sealed, Earlier
    <3> QED
      BY <1>1, <2>1, <3>1, <3>2, <3>3
  <2> QED
    BY <1>1, <2>1 DEF PendingLast, Sealed, Earlier
<1>5. HistoryKept'
  BY <1>1, <1>2 DEF AuditInv, HistoryKept, Sealed
<1> QED
  BY <1>3, <1>4, <1>5

\* Committing keeps the rows.
LEMMA CommitStep ==
  ASSUME AuditInv, NEW w \in Workers, CommitEvents(w)
  PROVE  PendingLast' /\ RowsChained' /\ HistoryKept'
<1>1. /\ committed' = committed \cup pending[w] /\ pending'[w] = {}
      /\ \A v \in Workers : v # w => pending'[v] = pending[v]
      /\ at' = at /\ previous' = previous
  BY DEF CommitEvents, AuditInv, TypeOK
<1>2. Rows' = Rows
  BY <1>1 DEF Rows
<1>3. RowsChained'
  <2>1. ValidChain(Rows)' <=> Chain(at', previous', Rows')
    BY DEF ValidChain, Holds, Expected, Sealed, Earlier, Chain, Fits, Follows,
       Before
  <2> QED
    BY <1>1, <1>2, <2>1, ChainIsValid DEF AuditInv, RowsChained
<1>4. PendingLast'
  <2>1. CASE pending[w] = {}
    BY <1>1, <2>1 DEF AuditInv, PendingLast, Sealed, Earlier
  <2>2. CASE pending[w] # {}
    <3>1. \A v \in Workers : v # w => pending[v] = {}
      BY <2>2 DEF AuditInv, LockHeld
    <3>2. \A v \in Workers : pending'[v] = {}
      BY <1>1, <3>1
    <3> QED
      BY <3>2 DEF PendingLast
  <2> QED
    BY <2>1, <2>2
<1>5. HistoryKept'
  BY <1>1 DEF AuditInv, PendingLast, HistoryKept, Sealed
<1> QED
  BY <1>3, <1>4, <1>5

\* When uncommitted events disappear, all of them do, for one thread has them
\* all.
LEMMA DropStep ==
  ASSUME AuditInv, committed' = committed,
         \A e \in committed : at'[e] = at[e] /\ previous'[e] = previous[e],
         \A v \in Workers : pending'[v] = {}
  PROVE  PendingLast' /\ RowsChained' /\ HistoryKept'
<1>1. Rows' = committed
  BY DEF Rows
<1>2. RowsChained'
  <2>1. ValidChain(Rows)' <=> Chain(at', previous', Rows')
    BY DEF ValidChain, Holds, Expected, Sealed, Earlier, Chain, Fits, Follows,
       Before
  <2>2. committed \in SUBSET Events
    BY DEF AuditInv, TypeOK
  <2>3. Chain(at', previous', committed)
    BY <2>2, CommittedChain, ChainAgree
  <2> QED
    BY <1>1, <2>1, <2>3 DEF RowsChained
<1>3. PendingLast'
  BY DEF PendingLast
<1>4. HistoryKept'
  BY DEF AuditInv, HistoryKept, Sealed
<1> QED
  BY <1>2, <1>3, <1>4

LEMMA RollbackStep ==
  ASSUME AuditInv, NEW w \in Workers, DropEvents(w)
  PROVE  PendingLast' /\ RowsChained' /\ HistoryKept'
<1>1. CASE pending[w] = {}
  <2>1. at' = at /\ previous' = previous /\ committed' = committed
        /\ pending' = pending
    BY <1>1 DEF DropEvents, AuditInv, TypeOK
  <2>2. Rows' = Rows
    BY <2>1 DEF Rows
  <2>3. ValidChain(Rows)' <=> Chain(at', previous', Rows')
    BY DEF ValidChain, Holds, Expected, Sealed, Earlier, Chain, Fits, Follows,
       Before
  <2>4. RowsChained'
    BY <2>1, <2>2, <2>3, ChainIsValid DEF AuditInv, RowsChained
  <2> QED
    BY <2>1, <2>4 DEF AuditInv, PendingLast, HistoryKept, Sealed, Earlier
<1>2. CASE pending[w] # {}
  <2>1. \A v \in Workers : pending'[v] = {}
    BY <1>2 DEF DropEvents, AuditInv, LockHeld, TypeOK
  <2>2. \A e \in committed : at'[e] = at[e] /\ previous'[e] = previous[e]
    BY DEF DropEvents, AuditInv, PendingLast, TypeOK
  <2>3. committed' = committed
    BY DEF DropEvents
  <2> QED
    BY <2>1, <2>2, <2>3, DropStep
<1> QED
  BY <1>1, <1>2

LEMMA AuditTypeStep == AuditInv /\ [Next]_vars => TypeOK'
<1> SUFFICES ASSUME AuditInv, [Next]_vars PROVE TypeOK'
  OBVIOUS
<1> USE AuditAssumption DEF AuditInv, TypeOK, Steps
<1>1. ASSUME NEW w \in Workers, NEW e \in Events,
             NEW p \in Events \cup {Genesis}, NEW c \in Readings, Write(w, e, p, c)
      PROVE  /\ at' \in [Events -> Nat]
             /\ previous' \in [Events -> Events \cup {Genesis, None}]
             /\ committed' \subseteq Events
             /\ pending' \in [Workers -> SUBSET Events]
             /\ holder' \in Workers \cup {None}
  <2>1. NowAfter(p, c) \in Nat
    BY DEF NowAfter
  <2> QED
    BY <1>1, <2>1 DEF Write
<1>2. ASSUME NEW w \in Workers, CommitEvents(w) \/ DropEvents(w)
      PROVE  /\ at' \in [Events -> Nat]
             /\ previous' \in [Events -> Events \cup {Genesis, None}]
             /\ committed' \subseteq Events
             /\ pending' \in [Workers -> SUBSET Events]
             /\ holder' \in Workers \cup {None}
  <2>1. pending[w] \in SUBSET Events
    OBVIOUS
  <2>2. CASE CommitEvents(w)
    BY <2>1, <2>2 DEF CommitEvents
  <2>3. CASE DropEvents(w)
    <3>1. at' \in [Events -> Nat]
      BY <2>3 DEF DropEvents
    <3>2. previous' \in [Events -> Events \cup {Genesis, None}]
      BY <2>3 DEF DropEvents
    <3> QED
      BY <2>3, <3>1, <3>2 DEF DropEvents
  <2> QED
    BY <1>2, <2>2, <2>3
<1>3. ASSUME NEW w \in Workers, NEW e \in Events,
             NEW p \in Events \cup {Genesis}, NEW c \in Readings,
             Add(w, e, p, c) \/ Record(w, e, p, c)
      PROVE  TypeOK'
  BY <1>1, <1>3 DEF Add, Record, Goto
<1>4. ASSUME NEW w \in Workers,
             \/ Begin(w) \/ Commit(w) \/ Rollback(w) \/ Reject(w)
             \/ RecordCommit(w) \/ RecordFails(w)
      PROVE  TypeOK'
  BY <1>2, <1>4 DEF Begin, Commit, Rollback, Reject, RecordCommit, RecordFails,
     Goto
<1>5. CASE Crash
  BY <1>5 DEF Crash
<1>6. CASE UNCHANGED vars
  BY <1>6 DEF vars
<1> QED
  BY <1>3, <1>4, <1>5, <1>6 DEF Next

LEMMA LockStep == AuditInv /\ [Next]_vars => LockHeld'
<1> SUFFICES ASSUME AuditInv, [Next]_vars PROVE LockHeld'
  OBVIOUS
<1> USE AuditAssumption
<1>1. ASSUME NEW w \in Workers, NEW e \in Events,
             NEW p \in Events \cup {Genesis}, NEW c \in Readings,
             Add(w, e, p, c) \/ Record(w, e, p, c)
      PROVE  LockHeld'
  <2>1. holder \in {None, w}
    BY <1>1 DEF Add, Record, Write, LockFree
  <2>2. \A v \in Workers : v # w => pending[v] = {}
    BY <2>1, OwnRows DEF AuditInv
  <2>3. /\ holder' = w /\ step'[w] \in {"business", "recording"}
        /\ \A v \in Workers : v # w => pending'[v] = pending[v]
    BY <1>1 DEF Add, Record, Write, Goto, AuditInv, TypeOK
  <2> QED
    BY <2>2, <2>3 DEF LockHeld
<1>2. ASSUME NEW w \in Workers, step[w] \in {"business", "recording"},
             CommitEvents(w) \/ DropEvents(w),
             \A v \in Workers : v # w => step'[v] = step[v]
      PROVE  LockHeld'
  <2>1. /\ pending'[w] = {} /\ holder' = IF holder = w THEN None ELSE holder
        /\ \A v \in Workers : v # w => pending'[v] = pending[v]
    BY <1>2 DEF CommitEvents, DropEvents, AuditInv, TypeOK
  <2> QED
    BY <1>2, <2>1 DEF AuditInv, LockHeld
<1>3. ASSUME NEW w \in Workers, Commit(w) \/ Rollback(w) \/ Reject(w)
                                  \/ RecordCommit(w)
      PROVE  LockHeld'
  BY <1>2, <1>3 DEF Commit, Rollback, Reject, RecordCommit, Goto, AuditInv,
     TypeOK
<1>4. ASSUME NEW w \in Workers, Begin(w) PROVE LockHeld'
  BY <1>4 DEF Begin, Goto, AuditInv, LockHeld, TypeOK
<1>5. ASSUME NEW w \in Workers, RecordFails(w) PROVE LockHeld'
  <2>1. CASE step[w] = "recording"
    BY <1>2, <1>5, <2>1 DEF RecordFails, Goto, AuditInv, TypeOK
  <2>2. CASE step[w] = "denied"
    BY <1>5, <2>2 DEF RecordFails, Goto, AuditInv, LockHeld, TypeOK
  <2> QED
    BY <1>5, <2>1, <2>2 DEF RecordFails, Goto
<1>6. CASE Crash
  BY <1>6 DEF Crash, LockHeld
<1>7. CASE UNCHANGED vars
  BY <1>7 DEF vars, AuditInv, LockHeld
<1> QED
  BY <1>1, <1>3, <1>4, <1>5, <1>6, <1>7 DEF Next

LEMMA RowsStep ==
  ASSUME HistoryIsPast, AuditInv, [Next]_vars
  PROVE  PendingLast' /\ RowsChained' /\ HistoryKept'
<1>1. ASSUME NEW w \in Workers, NEW e \in Events,
             NEW p \in Events \cup {Genesis}, NEW c \in Readings,
             Add(w, e, p, c) \/ Record(w, e, p, c)
      PROVE  PendingLast' /\ RowsChained' /\ HistoryKept'
  BY <1>1, WriteStep DEF Add, Record
<1>2. ASSUME NEW w \in Workers, Commit(w) \/ RecordCommit(w)
      PROVE  PendingLast' /\ RowsChained' /\ HistoryKept'
  BY <1>2, CommitStep DEF Commit, RecordCommit
<1>3. CASE Crash
  <2>1. \A e \in committed : at'[e] = at[e] /\ previous'[e] = previous[e]
    BY <1>3 DEF Crash, AuditInv, TypeOK
  <2> QED
    BY <1>3, <2>1, DropStep DEF Crash
<1>4. CASE UNCHANGED <<at, previous, committed, pending>>
  <2>1. ValidChain(Rows)' <=> Chain(at', previous', Rows')
    BY DEF ValidChain, Holds, Expected, Sealed, Earlier, Chain, Fits, Follows,
       Before
  <2>2. Rows' = Rows
    BY <1>4 DEF Rows
  <2> QED
    BY <1>4, <2>1, <2>2, ChainIsValid
    DEF AuditInv, RowsChained, PendingLast, HistoryKept, Sealed, Earlier
<1>5. ASSUME NEW w \in Workers,
             Begin(w) \/ Rollback(w) \/ Reject(w) \/ RecordFails(w)
      PROVE  PendingLast' /\ RowsChained' /\ HistoryKept'
  BY <1>4, <1>5, RollbackStep DEF Begin, Rollback, Reject, RecordFails
<1> QED
  BY <1>1, <1>2, <1>3, <1>4, <1>5 DEF Next, vars

-----------------------------------------------------------------------------
(* The theorems *)

\* The inductive invariant of the audit chain.
THEOREM AuditInvariant ==
  ASSUME HistoryIsPast
  PROVE  Spec => []AuditInv
<1>1. ASSUME AuditInv, [Next]_vars PROVE AuditInv'
  BY <1>1, AuditTypeStep, LockStep, RowsStep DEF AuditInv
<1> QED
  BY AuditInit, <1>1, PTL DEF Spec

\* However many writers run, fail and crash, and whatever their clocks show,
\* the integrity page finds the committed log valid.
THEOREM ChainAlwaysVerifies ==
  ASSUME HistoryIsPast
  PROVE  Spec => []ChainVerifies
<1>1. AuditInv => ChainVerifies
  BY CommittedChain, ChainIsValid DEF ChainVerifies
<1> QED
  BY <1>1, AuditInvariant, PTL

\* Committed events never change, and new ones come after all of them.
THEOREM LogGrowsAtItsEnd ==
  ASSUME HistoryIsPast
  PROVE  Spec => AppendOnly
<1> DEFINE Grows ==
      /\ committed \subseteq committed'
      /\ \A e \in committed : at'[e] = at[e] /\ previous'[e] = previous[e]
      /\ \A e \in committed, f \in committed' \ committed :
           at'[e] < at'[f] \/ (at'[e] = at'[f] /\ e < f)
<1>1. ASSUME AuditInv, [Next]_vars PROVE [Grows]_vars
  <2>1. ASSUME NEW w \in Workers, NEW e \in Events,
               NEW p \in Events \cup {Genesis}, NEW c \in Readings,
               Write(w, e, p, c)
        PROVE  Grows
    BY <1>1, <2>1 DEF Write, AuditInv, TypeOK
  <2>2. ASSUME NEW w \in Workers, CommitEvents(w) PROVE Grows
    BY <1>1, <2>2 DEF CommitEvents, AuditInv, PendingLast, Earlier
  <2>3. ASSUME NEW w \in Workers, DropEvents(w) PROVE Grows
    BY <1>1, <2>3 DEF DropEvents, AuditInv, PendingLast, TypeOK
  <2>4. CASE Crash
    BY <1>1, <2>4 DEF Crash, AuditInv, TypeOK
  <2>5. CASE UNCHANGED <<at, previous, committed>>
    BY <2>5
  <2> QED
    BY <1>1, <2>1, <2>2, <2>3, <2>4, <2>5 DEF Next, vars, Add, Record, Begin,
       Commit, Rollback, Reject, RecordCommit, RecordFails
<1> QED
  BY <1>1, AuditInvariant, PTL DEF Spec, AppendOnly

=============================================================================
