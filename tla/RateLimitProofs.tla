--------------------------- MODULE RateLimitProofs ---------------------------
(***************************************************************************)
(* Proofs about RateLimit, for any window, limit, retry interval and       *)
(* number of threads: the attempts a key is allowed are bounded in spite   *)
(* of the calls that run at once, and a terminal that was shut out stays   *)
(* shut out for as long as it is on.                                       *)
(***************************************************************************)
EXTENDS RateLimit, FiniteSetTheorems, TLAPS

LEMMA CallType ==
  ASSUME TypeOK, NEW w \in Workers, job[w].verdict \in Verdicts
  PROVE  job[w] # NoCall /\ job[w] \in Call /\ job[w].key \in Keys
<1>1. job[w] # NoCall
  BY DEF NoCall, Verdicts
<1> QED
  BY <1>1 DEF TypeOK, Call

LEMMA TypeStep == TypeOK /\ [Next]_vars => TypeOK'
<1> SUFFICES ASSUME TypeOK, [Next]_vars PROVE TypeOK'
  OBVIOUS
<1> USE LimitAssumption
<1>1. ASSUME NEW w \in Workers, NEW k \in Keys, Ask(w, k) PROVE TypeOK'
  BY <1>1 DEF Ask, TypeOK, Call, Verdicts
<1>2. ASSUME NEW w \in Workers, job[w] # NoCall, Answer(w)
      PROVE  /\ job' \in [Workers -> Call \cup {NoCall}]
             /\ answered' \in [Keys -> Nat] /\ job[w].key \in Keys
  BY <1>2 DEF Answer, TypeOK, Call
<1>3. ASSUME NEW k \in Keys, NEW b \in BOOLEAN, Record(k, b)
      PROVE  log' \in [Keys -> Seq(Failure)]
  <2>1. [at |-> now, admitted |-> b] \in Failure
    BY DEF TypeOK, Failure
  <2> QED
    BY <1>3, <2>1 DEF Record, TypeOK
<1>4. ASSUME NEW w \in Workers, Blocked(w) PROVE TypeOK'
  BY <1>2, <1>3, <1>4, CallType DEF Blocked, TypeOK, Verdicts
<1>5. ASSUME NEW w \in Workers, Refused(w) PROVE TypeOK'
  BY <1>2, <1>3, <1>5, CallType DEF Refused, TypeOK, Verdicts
<1>6. ASSUME NEW w \in Workers, Served(w) PROVE TypeOK'
  BY <1>2, <1>6, CallType DEF Served, TypeOK, Verdicts
<1>7. ASSUME NEW w \in Workers, Unrecorded(w) PROVE TypeOK'
  BY <1>2, <1>7 DEF Unrecorded, TypeOK
<1>8. ASSUME NEW k \in Keys, Switch(k) PROVE TypeOK'
  BY <1>8 DEF Switch, TypeOK
<1>9. CASE Tick
  BY <1>9 DEF Tick, TypeOK
<1>10. CASE UNCHANGED vars
  BY <1>10 DEF vars, TypeOK
<1> QED
  BY <1>1, <1>4, <1>5, <1>6, <1>7, <1>8, <1>9, <1>10 DEF Next

\* The clock, the trail and the calls have their types in every behaviour.
THEOREM TypeCorrect == Spec => []TypeOK
<1>1. Init => TypeOK
  BY DEF Init, TypeOK
<1> QED
  BY <1>1, TypeStep, PTL DEF Spec

-----------------------------------------------------------------------------
(* Attempts                                                                *)

Attempts(k) == {i \in Counted(k) : log[k][i].admitted}

\* The calls that are past the limiter and may still fail.
UnderWay(k) == {w \in Workers : job[w].verdict = "admitted" /\ job[w].key = k}

\* Together they stay below the limit and the number of threads.
AttemptsInv ==
  \A k \in Keys \ Addressless :
    Cardinality(Attempts(k)) + Cardinality(UnderWay(k))
      < MaxFailures + Cardinality(Workers)

LEMMA Times ==
  ASSUME TypeOK, NEW k \in Keys
  PROVE  /\ log[k] \in Seq(Failure) /\ Len(log[k]) \in Nat
         /\ \A i \in 1 .. Len(log[k]) : log[k][i].at \in Nat
<1>1. PICK q : q = log[k]
  OBVIOUS
<1>2. q \in Seq(Failure)
  BY <1>1 DEF TypeOK
<1>3. \A i \in 1 .. Len(q) : q[i] \in Failure
  BY <1>2
<1> QED
  BY <1>1, <1>2, <1>3 DEF Failure

LEMMA Finite ==
  ASSUME TypeOK, NEW k \in Keys
  PROVE  /\ IsFiniteSet(Counted(k)) /\ IsFiniteSet(Attempts(k))
         /\ IsFiniteSet(UnderWay(k))
         /\ Cardinality(Attempts(k)) \in Nat
         /\ Cardinality(UnderWay(k)) \in Nat
         /\ Cardinality(Workers) \in Nat
         /\ Cardinality(Attempts(k)) <= Cardinality(Counted(k))
         /\ Cardinality(UnderWay(k)) <= Cardinality(Workers)
         /\ Cardinality(Counted(k)) \in Nat
<1>1. Len(log[k]) \in Nat
  BY DEF TypeOK
<1>2. IsFiniteSet(1 .. Len(log[k]))
  BY <1>1, FS_Interval
<1>3. Counted(k) \subseteq 1 .. Len(log[k])
  BY DEF Counted
<1>4. IsFiniteSet(Counted(k))
  BY <1>2, <1>3, FS_Subset
<1>5. Attempts(k) \subseteq Counted(k) /\ UnderWay(k) \subseteq Workers
  BY DEF Attempts, UnderWay
<1> QED
  BY <1>4, <1>5, FS_Subset, FS_CardinalityType, LimitAssumption

\* Time only takes attempts out of the window.
LEMMA AttemptsLeave ==
  ASSUME TypeOK, NEW k \in Keys, log'[k] = log[k], now' \in Nat, now <= now'
  PROVE  Attempts(k)' \subseteq Attempts(k)
<1>1. \A i \in 1 .. Len(log[k]) : log[k][i].at \in Nat
  BY Times
<1>2. \A i \in 1 .. Len(log[k]) : InWindow(log[k][i])' => InWindow(log[k][i])
  BY <1>1, LimitAssumption DEF InWindow, TypeOK
<1> QED
  BY <1>2 DEF Attempts, Counted

\* A failure that was admitted is one more.
LEMMA AttemptsCome ==
  ASSUME TypeOK, NEW k \in Keys, NEW b \in BOOLEAN, Record(k, b), now' = now
  PROVE  /\ Attempts(k)' \subseteq
              IF b THEN Attempts(k) \cup {Len(log[k]) + 1} ELSE Attempts(k)
         /\ \A j \in Keys \ {k} : log'[j] = log[j]
<1>1. PICK q, e : q = log[k] /\ e = [at |-> now, admitted |-> b]
  OBVIOUS
<1>2. q \in Seq(Failure) /\ e \in Failure /\ e.admitted = b
  BY <1>1 DEF TypeOK, Failure
<1>3. log'[k] = Append(q, e) /\ \A j \in Keys \ {k} : log'[j] = log[j]
  BY <1>1 DEF Record, TypeOK
<1>4. /\ Len(Append(q, e)) = Len(q) + 1
      /\ \A i \in 1 .. Len(q) : Append(q, e)[i] = q[i]
      /\ Append(q, e)[Len(q) + 1] = e
  BY <1>2
<1>5. ASSUME NEW i \in Attempts(k)', i # Len(q) + 1
      PROVE  i \in Attempts(k)
  <2>1. i \in 1 .. Len(q)
    BY <1>2, <1>3, <1>4, <1>5 DEF Attempts, Counted
  <2>2. log'[k][i] = log[k][i]
    BY <1>1, <1>3, <1>4, <2>1
  <2>3. log'[k][i].admitted /\ log'[k][i].at + Window >= now'
    BY DEF Attempts, Counted, InWindow
  <2>4. log[k][i].admitted /\ log[k][i].at + Window >= now
    BY <2>2, <2>3
  <2> QED
    BY <1>1, <2>1, <2>4 DEF Attempts, Counted, InWindow
<1>6. ASSUME Len(q) + 1 \in Attempts(k)' PROVE b = TRUE
  <2>1. log'[k][Len(q) + 1].admitted
    BY <1>6 DEF Attempts
  <2>2. e.admitted
    BY <1>3, <1>4, <2>1
  <2> QED
    BY <1>2, <2>2
<1>7. CASE b = TRUE
  <2>1. Attempts(k)' \subseteq Attempts(k) \cup {Len(q) + 1}
    BY <1>5
  <2> QED
    BY <1>1, <1>3, <1>7, <2>1
<1>8. CASE b = FALSE
  <2>1. Attempts(k)' \subseteq Attempts(k)
    BY <1>5, <1>6, <1>8
  <2> QED
    BY <1>3, <1>8, <2>1
<1> QED
  BY <1>7, <1>8

\* What a step may do to the attempts and the calls under way of a key.
Fewer(k) == /\ Attempts(k)' \subseteq Attempts(k)
            /\ UnderWay(k)' \subseteq UnderWay(k)

LEMMA FewerIsLess ==
  ASSUME TypeOK, AttemptsInv, NEW k \in Keys \ Addressless, Fewer(k)
  PROVE  (Cardinality(Attempts(k)) + Cardinality(UnderWay(k))
            < MaxFailures + Cardinality(Workers))'
<1>1. PICK a, u, b, v : /\ a = Attempts(k) /\ u = UnderWay(k)
                        /\ b = Attempts(k)' /\ v = UnderWay(k)'
  OBVIOUS
<1>2. b \subseteq a /\ v \subseteq u
  BY <1>1 DEF Fewer
<1>3. /\ Cardinality(a) + Cardinality(u) < MaxFailures + Cardinality(Workers)
      /\ IsFiniteSet(a) /\ IsFiniteSet(u)
  BY <1>1, Finite DEF AttemptsInv
<1>4. /\ Cardinality(b) <= Cardinality(a) /\ Cardinality(v) <= Cardinality(u)
      /\ IsFiniteSet(b) /\ IsFiniteSet(v)
  BY <1>2, <1>3, FS_Subset
<1>5. /\ Cardinality(a) \in Nat /\ Cardinality(b) \in Nat
      /\ Cardinality(u) \in Nat /\ Cardinality(v) \in Nat
      /\ Cardinality(Workers) \in Nat /\ MaxFailures \in Nat
  BY <1>3, <1>4, FS_CardinalityType, LimitAssumption
<1>6. Cardinality(b) + Cardinality(v) < MaxFailures + Cardinality(Workers)
  BY <1>3, <1>4, <1>5
<1> QED
  BY <1>1, <1>6

LEMMA AttemptsStep == TypeOK /\ AttemptsInv /\ [Next]_vars => AttemptsInv'
<1> SUFFICES ASSUME TypeOK, AttemptsInv, [Next]_vars,
                    NEW k \in Keys \ Addressless
             PROVE  (Cardinality(Attempts(k)) + Cardinality(UnderWay(k))
                       < MaxFailures + Cardinality(Workers))'
  BY DEF AttemptsInv
<1> USE LimitAssumption
<1> DEFINE Goal == (Cardinality(Attempts(k)) + Cardinality(UnderWay(k))
                      < MaxFailures + Cardinality(Workers))'
<1>a. now \in Nat /\ job \in [Workers -> Call \cup {NoCall}]
  BY DEF TypeOK
<1>b. ASSUME NEW w \in Workers, Answer(w)
      PROVE  /\ UnderWay(k)' \subseteq UnderWay(k)
             /\ w \notin UnderWay(k)'
  BY <1>a, <1>b DEF Answer, UnderWay, NoCall
<1>c. ASSUME NEW w \in Workers, NEW b \in BOOLEAN, Record(job[w].key, b),
             job[w].key \in Keys, now' = now, job[w].key # k \/ ~b
      PROVE  Attempts(k)' \subseteq Attempts(k)
  <2>1. CASE job[w].key = k
    BY <1>c, <2>1, AttemptsCome
  <2>2. CASE job[w].key # k
    <3>1. log'[k] = log[k]
      BY <1>c, <2>2, AttemptsCome
    <3> QED
      BY <1>a, <1>c, <3>1, AttemptsLeave
  <2> QED
    BY <2>1, <2>2
<1>1. ASSUME NEW w \in Workers, NEW j \in Keys, Ask(w, j) PROVE Goal
  <2>1. Attempts(k)' = Attempts(k) /\ log' = log /\ now' = now
    BY <1>1 DEF Ask, Attempts, Counted, InWindow
  <2>2. CASE j = k /\ ~Limited(k)
    <3>1. PICK a, v : a = Attempts(k) /\ v = UnderWay(k)'
      OBVIOUS
    <3>2. Cardinality(a) \in Nat /\ Cardinality(a) < MaxFailures
      BY <2>2, <3>1, Finite DEF Limited
    <3>3. v \subseteq Workers
      BY <3>1 DEF UnderWay
    <3>4. /\ Cardinality(v) \in Nat /\ Cardinality(Workers) \in Nat
          /\ Cardinality(v) <= Cardinality(Workers)
      BY <3>3, FS_Subset, FS_CardinalityType
    <3>5. Cardinality(a) + Cardinality(v) < MaxFailures + Cardinality(Workers)
      BY <3>2, <3>4
    <3> QED
      BY <2>1, <3>1, <3>5
  <2>3. CASE ~(j = k /\ ~Limited(k))
    <3>1. job' = [job EXCEPT ![w] =
                    [key |-> j, verdict |-> IF Limited(j) THEN "blocked"
                                                          ELSE "admitted"]]
      BY <1>1 DEF Ask
    <3>2. UnderWay(k)' \subseteq UnderWay(k)
      BY <1>a, <2>3, <3>1 DEF UnderWay
    <3> QED
      BY <2>1, <3>2, FewerIsLess DEF Fewer
  <2> QED
    BY <2>2, <2>3
<1>2. ASSUME NEW w \in Workers, Blocked(w) PROVE Goal
  <2>1. /\ Record(job[w].key, FALSE) /\ Answer(w) /\ now' = now
        /\ job[w].key \in Keys
    BY <1>2, CallType DEF Blocked, Verdicts
  <2>2. Attempts(k)' \subseteq Attempts(k)
    BY <1>c, <2>1
  <2> QED
    BY <1>b, <2>1, <2>2, FewerIsLess DEF Fewer
<1>3. ASSUME NEW w \in Workers, Refused(w) PROVE Goal
  <2>1. /\ Record(job[w].key, TRUE) /\ Answer(w) /\ now' = now
        /\ job[w].key \in Keys /\ job[w].verdict = "admitted"
    BY <1>3, CallType DEF Refused, Verdicts
  <2>2. CASE job[w].key # k
    <3>1. Attempts(k)' \subseteq Attempts(k)
      BY <1>c, <2>1, <2>2
    <3> QED
      BY <1>b, <2>1, <3>1, FewerIsLess DEF Fewer
  <2>3. CASE job[w].key = k
    <3>1. PICK a, u, b, v : /\ a = Attempts(k) /\ u = UnderWay(k)
                            /\ b = Attempts(k)' /\ v = UnderWay(k)'
      OBVIOUS
    <3>2. /\ b \subseteq a \cup {Len(log[k]) + 1}
          /\ v \subseteq u \ {w} /\ w \in u
      BY <1>b, <2>1, <2>3, <3>1, AttemptsCome DEF UnderWay
    <3>3. /\ Cardinality(a) + Cardinality(u)
               < MaxFailures + Cardinality(Workers)
          /\ IsFiniteSet(a) /\ IsFiniteSet(u)
      BY <3>1, Finite DEF AttemptsInv
    <3>4. PICK c, x : c = a \cup {Len(log[k]) + 1} /\ x = u \ {w}
      OBVIOUS
    <3>5. IsFiniteSet(c) /\ Cardinality(c) <= Cardinality(a) + 1
      <4>1. Cardinality(a) \in Nat
        BY <3>3, FS_CardinalityType
      <4>2. /\ IsFiniteSet(c)
            /\ \/ Cardinality(c) = Cardinality(a)
               \/ Cardinality(c) = Cardinality(a) + 1
        BY <3>3, <3>4, FS_AddElement
      <4> QED
        BY <4>1, <4>2
    <3>8. IsFiniteSet(x) /\ Cardinality(x) = Cardinality(u) - 1
      BY <3>2, <3>3, <3>4, FS_RemoveElement
    <3>9. /\ Cardinality(b) <= Cardinality(c) /\ IsFiniteSet(b)
          /\ Cardinality(v) <= Cardinality(x) /\ IsFiniteSet(v)
      BY <3>2, <3>4, <3>5, <3>8, FS_Subset
    <3>10. /\ Cardinality(a) \in Nat /\ Cardinality(b) \in Nat
           /\ Cardinality(c) \in Nat /\ Cardinality(x) \in Nat
           /\ Cardinality(u) \in Nat /\ Cardinality(v) \in Nat
      BY <3>3, <3>5, <3>8, <3>9, FS_CardinalityType
    <3>6. Cardinality(Workers) \in Nat
      BY FS_CardinalityType
    <3>7. Cardinality(b) + Cardinality(v) < MaxFailures + Cardinality(Workers)
      BY <3>3, <3>5, <3>6, <3>8, <3>9, <3>10
    <3> QED
      BY <3>1, <3>7
  <2> QED
    BY <2>2, <2>3
<1>4. ASSUME NEW w \in Workers, Served(w) \/ Unrecorded(w) PROVE Goal
  <2>1. Answer(w) /\ now' = now /\ log' = log
    BY <1>4 DEF Served, Unrecorded
  <2> QED
    BY <1>a, <1>b, <2>1, AttemptsLeave, FewerIsLess DEF Fewer
<1>5. CASE (\E j \in Keys : Switch(j)) \/ Tick \/ UNCHANGED vars
  <2>1. job' = job /\ log' = log /\ now' \in Nat /\ now <= now'
    BY <1>5, <1>a DEF Switch, Tick, vars
  <2>2. UnderWay(k)' = UnderWay(k)
    BY <2>1 DEF UnderWay
  <2> QED
    BY <2>1, <2>2, AttemptsLeave, FewerIsLess DEF Fewer
<1> QED
  BY <1>1, <1>2, <1>3, <1>4, <1>5 DEF Next

\* However the calls of a key interleave, the failures within a window that
\* the limiter let through stay below the limit and the number of threads.
THEOREM Bounded == Spec => []AttemptsAreBounded
<1>1. Init => AttemptsInv
  <2> SUFFICES ASSUME Init, NEW k \in Keys
               PROVE  Cardinality(Attempts(k)) + Cardinality(UnderWay(k))
                        < MaxFailures + Cardinality(Workers)
    BY DEF AttemptsInv
  <2>1. Attempts(k) = {} /\ UnderWay(k) = {}
    BY DEF Init, Attempts, Counted, UnderWay, NoCall
  <2>2. Cardinality({}) = 0 /\ Cardinality(Workers) \in Nat
    BY FS_EmptySet, FS_CardinalityType, LimitAssumption
  <2> QED
    BY <2>1, <2>2, LimitAssumption
<1>2. TypeOK /\ AttemptsInv => AttemptsAreBounded
  <2> SUFFICES ASSUME TypeOK, AttemptsInv, NEW k \in Keys \ Addressless
               PROVE  Cardinality(Attempts(k))
                        < MaxFailures + Cardinality(Workers)
    BY DEF AttemptsAreBounded, Attempts
  <2> QED
    BY Finite, LimitAssumption DEF AttemptsInv
<1> QED
  BY <1>1, <1>2, AttemptsStep, TypeCorrect, PTL DEF Spec

-----------------------------------------------------------------------------
(* A terminal that is shut out                                             *)

LEMMA Product ==
  ASSUME NEW a \in Nat, NEW b \in Nat, NEW c \in Nat, a <= b
  PROVE  a * c \in Nat /\ b * c \in Nat /\ a * c <= b * c
<1>1. PICK x \in Nat : b = a + x
  <2>1. b - a \in Nat /\ b = a + (b - a)
    OBVIOUS
  <2> QED
    BY <2>1
<1>2. b * c = a * c + x * c
  BY <1>1
<1>3. a * c \in Nat /\ x * c \in Nat
  OBVIOUS
<1> QED
  BY <1>2, <1>3

LEMMA Close ==
  ASSUME NEW x \in Nat, NEW m \in Nat, NEW c \in Nat, x + 1 <= m,
         NEW a \in Nat, NEW b \in Nat, NEW t \in Nat,
         b <= a + x * c, t <= b + c
  PROVE  t <= a + (x + 1) * c /\ t <= a + m * c
<1>1. /\ x * c \in Nat /\ (x + 1) * c \in Nat /\ m * c \in Nat
      /\ (x + 1) * c <= m * c
  BY Product
<1>2. (x + 1) * c = x * c + c
  OBVIOUS
<1>3. PICK y, z, v : y = x * c /\ z = m * c /\ v = (x + 1) * c
  OBVIOUS
<1>4. /\ y \in Nat /\ z \in Nat /\ v \in Nat /\ v <= z /\ v = y + c
      /\ b <= a + y
  BY <1>1, <1>2, <1>3
<1>5. t <= a + v /\ t <= a + z
  BY <1>4
<1> QED
  BY <1>3, <1>5

\* The failures the limiter looks at are in the window.
LEMMA ShutIsLimited ==
  \A k \in Keys : TypeOK /\ Shut(k) => Limited(k)
<1> SUFFICES ASSUME NEW k \in Keys, TypeOK, Shut(k) PROVE Limited(k)
  OBVIOUS
<1> USE LimitAssumption
<1>1. PICK q, n : q = log[k] /\ n = Len(q)
  OBVIOUS
<1>2. PICK l : l = (n - MaxFailures + 1) .. n
  OBVIOUS
<1>3. /\ n \in Nat /\ \A i \in 1 .. n : q[i].at \in Nat
      /\ now \in Nat /\ n >= MaxFailures /\ k \notin Addressless
      /\ now <= q[n].at + Every
      /\ \A i, j \in l : i <= j => q[j].at <= q[i].at + (j - i) * Every
  BY <1>1, <1>2, Times DEF TypeOK, Shut
<1>4. ASSUME NEW i \in l PROVE i \in Counted(k)
  <2>1. PICK x : x = n - i
    OBVIOUS
  <2>2. /\ i \in 1 .. n /\ n \in 1 .. n /\ n \in l /\ i <= n
        /\ x \in Nat /\ x + 1 <= MaxFailures
    BY <1>2, <1>3, <2>1
  <2>3. q[n].at <= q[i].at + x * Every
    BY <1>3, <2>1, <2>2
  <2>4. now <= q[i].at + MaxFailures * Every
    BY <1>3, <2>2, <2>3, Close
  <2>5. MaxFailures * Every \in Nat
    BY Product
  <2>6. q[i].at + Window >= now
    BY <1>3, <2>2, <2>4, <2>5
  <2> QED
    BY <1>1, <2>2, <2>6 DEF Counted, InWindow
<1>5. IsFiniteSet(l) /\ Cardinality(l) = MaxFailures
  <2>1. Cardinality(l) = n - (n - MaxFailures + 1) + 1 /\ IsFiniteSet(l)
    BY <1>2, <1>3, FS_Interval
  <2> QED
    BY <1>3, <2>1
<1>6. Cardinality(l) <= Cardinality(Counted(k))
  BY <1>4, Finite, FS_Subset
<1> QED
  BY <1>3, <1>5, <1>6, Finite DEF Limited

\* The last m of the first n failures of q follow one another within c.
Spaced(q, n, m, c) == \A i, j \in (n - m + 1) .. n :
                        i <= j => q[j].at <= q[i].at + (j - i) * c

\* One failure more, not later than Every after the last.
LEMMA OneMore ==
  ASSUME NEW q \in Seq(Failure), NEW e \in Failure, NEW n \in Nat, n = Len(q),
         NEW m \in Nat \ {0}, NEW c \in Nat, n >= m,
         Spaced(q, n, m, c), e.at <= q[n].at + c
  PROVE  Spaced(Append(q, e), n + 1, m, c)
<1> SUFFICES ASSUME NEW i \in (n + 1 - m + 1) .. (n + 1),
                    NEW j \in (n + 1 - m + 1) .. (n + 1), i <= j
             PROVE  Append(q, e)[j].at <= Append(q, e)[i].at + (j - i) * c
  BY DEF Spaced
<1> USE DEF Spaced
<1>1. /\ \A p \in 1 .. n : Append(q, e)[p] = q[p] /\ q[p].at \in Nat
      /\ Append(q, e)[n + 1] = e /\ e.at \in Nat
  <2>1. \A p \in 1 .. n : q[p] \in Failure /\ Append(q, e)[p] = q[p]
    OBVIOUS
  <2>2. Append(q, e)[n + 1] = e
    OBVIOUS
  <2> QED
    BY <2>1, <2>2 DEF Failure
<1>2. i \in 1 .. n + 1 /\ j \in 1 .. n + 1 /\ i \in Nat /\ j \in Nat
  OBVIOUS
<1>3. CASE j \in 1 .. n
  <2>1. /\ i \in 1 .. n
        /\ i \in (n - m + 1) .. n /\ j \in (n - m + 1) .. n
    BY <1>2, <1>3
  <2>2. q[j].at <= q[i].at + (j - i) * c
    BY <2>1
  <2> QED
    BY <1>1, <1>3, <2>1, <2>2
<1>4. CASE j = n + 1 /\ i \in 1 .. n
  <2>1. PICK x : x = n - i
    OBVIOUS
  <2>2. /\ x \in Nat /\ x + 1 <= m /\ x + 1 = j - i
        /\ i \in (n - m + 1) .. n /\ n \in (n - m + 1) .. n /\ i <= n
        /\ n \in 1 .. n
    BY <1>4, <2>1
  <2>3. q[n].at <= q[i].at + x * c
    BY <2>1, <2>2
  <2>5. PICK a, b, t : a = q[i].at /\ b = q[n].at /\ t = e.at
    OBVIOUS
  <2>6. a \in Nat /\ b \in Nat /\ t \in Nat /\ b <= a + x * c /\ t <= b + c
    BY <1>1, <1>4, <2>2, <2>3, <2>5
  <2>7. t <= a + (x + 1) * c
    BY <2>2, <2>6, Close
  <2>4. e.at <= q[i].at + (x + 1) * c
    BY <2>5, <2>7
  <2> QED
    BY <1>1, <1>4, <2>2, <2>4
<1>5. CASE i = n + 1
  <2>2. j = n + 1 /\ j - i = 0
    BY <1>2, <1>5
  <2>3. 0 * c = 0
    OBVIOUS
  <2>1. j = n + 1 /\ (j - i) * c = 0
    BY <2>2, <2>3
  <2> QED
    BY <1>1, <1>5, <2>1
<1> QED
  BY <1>2, <1>3, <1>4, <1>5

LEMMA ShutStep ==
  ASSUME TypeOK, Next, NEW k \in on \cap on', Shut(k),
         ~(\E w \in Workers : Unrecorded(w) /\ job[w].key = k)
  PROVE  Shut(k)'
<1> USE LimitAssumption
<1> DEFINE n == Len(log[k])
<1>1. /\ k \in Keys /\ n \in Nat /\ log[k] \in Seq(Failure) /\ now \in Nat
      /\ MaxFailures \in Nat /\ MaxFailures >= 1 /\ Every \in Nat
      /\ job \in [Workers -> Call \cup {NoCall}] /\ answered \in [Keys -> Nat]
  BY DEF TypeOK
<1>2. /\ k \notin Addressless /\ n >= MaxFailures
      /\ \A i, j \in (n - MaxFailures + 1) .. n :
           i <= j => log[k][j].at <= log[k][i].at + (j - i) * Every
      /\ answered[k] = log[k][n].at
      /\ now <= answered[k] + Every
      /\ \A w \in Workers : job[w] # NoCall /\ job[w].key = k =>
           job[w].verdict = "blocked"
  BY DEF Shut
<1>3. ASSUME log'[k] = log[k], answered'[k] = answered[k],
             now' <= answered[k] + Every,
             \A w \in Workers : job'[w] # NoCall /\ job'[w].key = k =>
               job'[w].verdict = "blocked"
      PROVE  Shut(k)'
  BY <1>2, <1>3 DEF Shut
<1>4. ASSUME NEW w \in Workers, Answer(w)
      PROVE  /\ \A v \in Workers : job'[v] # NoCall /\ job'[v].key = k =>
                  job'[v].verdict = "blocked"
             /\ job[w].key # k => answered'[k] = answered[k]
             /\ job[w].key = k => answered'[k] = now
  BY <1>1, <1>2, <1>4 DEF Answer
<1>5. ASSUME NEW w \in Workers, NEW j \in Keys, Ask(w, j) PROVE Shut(k)'
  <2>1. Limited(k)
    BY <1>1, ShutIsLimited
  <2>2. ASSUME NEW v \in Workers, job'[v] # NoCall, job'[v].key = k
        PROVE  job'[v].verdict = "blocked"
    <3>1. CASE v = w
      BY <1>1, <1>5, <2>1, <2>2, <3>1 DEF Ask
    <3>2. CASE v # w
      BY <1>1, <1>2, <1>5, <2>2, <3>2 DEF Ask
    <3> QED
      BY <3>1, <3>2
  <2> QED
    BY <1>2, <1>3, <1>5, <2>2 DEF Ask
<1>6. ASSUME NEW w \in Workers, Blocked(w) PROVE Shut(k)'
  <2>1. Answer(w) /\ now' = now /\ Record(job[w].key, FALSE)
    BY <1>6 DEF Blocked
  <2>2. CASE job[w].key # k
    <3>1. log'[k] = log[k]
      BY <1>1, <2>1, <2>2 DEF Record, TypeOK
    <3> QED
      BY <1>2, <1>3, <1>4, <2>1, <2>2, <3>1
  <2>3. CASE job[w].key = k
    <3>1. PICK q, e, l : /\ q = log[k] /\ l = Len(q)
                         /\ e = [at |-> now, admitted |-> FALSE]
      OBVIOUS
    <3>2. /\ q \in Seq(Failure) /\ e \in Failure /\ e.at = now
          /\ l \in Nat /\ l >= MaxFailures /\ now <= q[l].at + Every
          /\ \A i, j \in (l - MaxFailures + 1) .. l :
               i <= j => q[j].at <= q[i].at + (j - i) * Every
      BY <1>1, <1>2, <3>1 DEF Failure
    <3>3. log'[k] = Append(q, e)
      BY <1>1, <2>1, <2>3, <3>1 DEF Record, TypeOK
    <3>4. PICK r, o : r = log'[k] /\ o = l + 1
      OBVIOUS
    <3>8. Spaced(r, o, MaxFailures, Every)
      <4>1. Spaced(q, l, MaxFailures, Every)
        BY <3>1, <3>2 DEF Spaced
      <4>2. /\ MaxFailures \in Nat \ {0} /\ Every \in Nat
            /\ e.at <= q[l].at + Every /\ l = Len(q)
        BY <3>1, <3>2
      <4>3. Spaced(Append(q, e), l + 1, MaxFailures, Every)
        BY <3>2, <4>1, <4>2, OneMore
      <4> QED
        BY <3>3, <3>4, <4>3
    <3>5. Len(log'[k]) = l + 1 /\ log'[k][l + 1].at = now
      BY <3>1, <3>2, <3>3
    <3>6. /\ answered'[k] = now /\ l + 1 >= MaxFailures
          /\ now' <= answered'[k] + Every
      BY <1>1, <1>4, <2>1, <2>3, <3>2
    <3>7. \A v \in Workers : job'[v] # NoCall /\ job'[v].key = k =>
            job'[v].verdict = "blocked"
      BY <1>4, <2>1
    <3>9. Len(r) = o /\ r[o].at = now /\ o >= MaxFailures
      BY <3>4, <3>5, <3>6
    <3> QED
      BY <1>2, <3>4, <3>6, <3>7, <3>8, <3>9 DEF Shut, Spaced
  <2> QED
    BY <2>2, <2>3
<1>7. ASSUME NEW w \in Workers, Refused(w) \/ Served(w) PROVE Shut(k)'
  <2>1. /\ Answer(w) /\ now' = now /\ job[w].verdict = "admitted"
        /\ \/ log' = log
           \/ Record(job[w].key, TRUE)
    BY <1>7 DEF Refused, Served
  <2>2. job[w].key # k
    BY <1>2, <2>1 DEF NoCall
  <2>3. log'[k] = log[k]
    BY <1>1, <2>1, <2>2 DEF Record, TypeOK
  <2> QED
    BY <1>2, <1>3, <1>4, <2>1, <2>2, <2>3
<1>8. ASSUME NEW w \in Workers, Unrecorded(w) PROVE Shut(k)'
  <2>1. Answer(w) /\ now' = now /\ log' = log /\ job[w].key # k
    BY <1>8 DEF Unrecorded
  <2> QED
    BY <1>2, <1>3, <1>4, <2>1
<1>9. ASSUME NEW j \in Keys, Switch(j) PROVE Shut(k)'
  <2>1. j # k
    BY <1>9 DEF Switch
  <2> QED
    BY <1>1, <1>2, <1>3, <1>9, <2>1 DEF Switch
<1>10. CASE Tick
  <2>1. now' <= answered[k] + Every
    BY <1>1, <1>10 DEF Tick
  <2> QED
    BY <1>2, <1>3, <1>10, <2>1 DEF Tick
<1> QED
  BY <1>5, <1>6, <1>7, <1>8, <1>9, <1>10 DEF Next

\* A terminal that was shut out stays so for as long as it is on, each of its
\* retries is turned away, and only an event that is not stored lets one in.
THEOREM ShutOut == Spec => ShutWhileOn
<1> DEFINE Kept == \A k \in on \cap on' :
                     Shut(k) /\ ~(\E w \in Workers :
                                    Unrecorded(w) /\ job[w].key = k)
                       => Shut(k)' /\ Limited(k)'
           Lim == \A k \in Keys : TypeOK /\ Shut(k) => Limited(k)
<1>1. Lim
  BY ShutIsLimited
<1>2. TypeOK /\ TypeOK' /\ Lim' /\ [Next]_vars => [Kept]_vars
  <2> SUFFICES ASSUME TypeOK, TypeOK', Lim', Next PROVE Kept
    OBVIOUS
  <2> SUFFICES ASSUME NEW k \in on \cap on', Shut(k),
                      ~(\E w \in Workers : Unrecorded(w) /\ job[w].key = k)
               PROVE  Shut(k)' /\ Limited(k)'
    OBVIOUS
  <2>1. Shut(k)'
    BY ShutStep
  <2>2. k \in Keys
    BY DEF TypeOK
  <2> QED
    BY <2>1, <2>2
<1> HIDE DEF Lim
<1> QED
  BY <1>1, <1>2, TypeCorrect, PTL DEF Spec, ShutWhileOn
=============================================================================
