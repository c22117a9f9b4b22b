------------------------- MODULE DeviceWorkflowProofs -------------------------
(***************************************************************************)
(* Proofs about SignatureQueue and DeviceWorkflow, for every set of        *)
(* requests, sessions, devices, documents, users and workers, every choice *)
(* of the lifetimes, and any number of terminals, calls and faults.        *)
(*                                                                         *)
(* First the queue alone, with SignatureQueue's Spec.  QueueInv is         *)
(* inductive: each of its parts is kept by every step from the parts named *)
(* in its lemma, and each promise follows from QueueInv, alone or together *)
(* with itself.  The handlers implement SigningContract.                   *)
(*                                                                         *)
(* Then the terminals and the server together.  Every step of theirs is a  *)
(* step of SignatureQueue, so what was proved of the queue holds here.     *)
(* What the terminals know is followed through their calls and the         *)
(* answers: DeviceInv is inductive, and the promises about what was        *)
(* displayed, read and signed follow from it.                              *)
(***************************************************************************)
EXTENDS DeviceWorkflow, TLAPS

-----------------------------------------------------------------------------
(* Types and shapes *)

\* The record of a worker with nothing to do is a job.
LEMMA NoJobType == NoJob \in Job
  BY QueueAssumption DEF NoJob, Job, JobKinds

\* Whatever the mark_..._failed functions leave in a row is a status.
LEMMA AfterFailureType ==
  ASSUME TypeOK, NEW r \in Requests, NEW failable
  PROVE  AfterFailure(r, failable) \in Statuses
  BY DEF AfterFailure, TypeOK, Statuses

\* Every handler keeps the types of the columns and of its own locals.
LEMMA TypeStep == TypeOK /\ Shape /\ [Next]_vars => TypeOK'
<1> SUFFICES ASSUME TypeOK, Shape, [Next]_vars PROVE TypeOK'
  OBVIOUS
<1> USE QueueAssumption, NoJobType
<1>1. ASSUME NEW w \in Workers, NEW doc \in Documents, CreateStart(w, doc)
      PROVE  TypeOK'
  BY <1>1 DEF TypeOK, CreateStart, Start, NoJob, Job, JobKinds, rows, auth,
         store
<1>2. ASSUME NEW w \in Workers, NEW r \in Requests, NEW d \in Devices,
             CreateFinish(w, r, d)
      PROVE  TypeOK'
  BY <1>2, RowAssumption DEF TypeOK, CreateFinish, End, Statuses, auth, store,
         Shape, Job, TermsRow
<1>3. ASSUME NEW w \in Workers, NEW r \in Requests, PollLock(w, r)
      PROVE  TypeOK'
  <2>1. [NoJob EXCEPT !.kind = "polling", !.locked = {r}] \in Job
    BY DEF NoJob, Job, JobKinds
  <2> QED
    BY <1>3, <2>1 DEF TypeOK, PollLock, Start, rows, auth, store
<1>4. ASSUME NEW w \in Workers, PollCommit(w) PROVE TypeOK'
  BY <1>4 DEF TypeOK, PollCommit, End, Statuses, auth, store
<1>5. ASSUME NEW w \in Workers, NEW d \in Devices, NEW t \in 0 .. now,
             ClaimStart(w, d, t)
      PROVE  TypeOK'
  <2>1. t \in Nat /\ DueOn(d, t) \in SUBSET Requests
    BY <1>5 DEF TypeOK, DueOn
  <2> QED
    BY <1>5, <2>1 DEF TypeOK, ClaimStart, Start, NoJob, Job, JobKinds, rows,
       auth, store
<1>6. ASSUME NEW w \in Workers, ClaimFinish(w) PROVE TypeOK'
  BY <1>6 DEF TypeOK, ClaimFinish, End, Statuses, auth, store
<1>7. ASSUME NEW d \in Devices, NEW t \in 0 .. now, ClaimRefused(d, t) PROVE TypeOK'
  BY <1>7 DEF TypeOK, ClaimRefused, Statuses, auth, store
<1>8. ASSUME NEW d \in Devices, NEW u \in Users, NEW doc \in Documents,
             NEW s \in Sessions,
             Challenge(d, u, doc, s)
      PROVE  TypeOK'
  BY <1>8 DEF TypeOK, Challenge, Statuses, Phases, SessionRow, store
<1>9. ASSUME NEW s \in Sessions, NEW finger \in Users, Complete(s, finger)
      PROVE  TypeOK'
  BY <1>9 DEF TypeOK, Complete, Statuses, Phases, store
<1>10. ASSUME NEW w \in Workers, NEW s \in Sessions,
             NEW finger \in Users \cup {None},
             CompleteReject(w, s, finger)
      PROVE  TypeOK'
  BY <1>10 DEF TypeOK, CompleteReject, Start, NoJob, Job, JobKinds, rows,
         auth, store
<1>11. ASSUME NEW w \in Workers, PersistFailure(w) PROVE TypeOK'
  BY <1>11, AfterFailureType DEF TypeOK, PersistFailure, End, Statuses, auth,
         store
<1>12. ASSUME NEW w \in Workers, NEW s \in Sessions, SignStart(w, s)
      PROVE  TypeOK'
  BY <1>12 DEF TypeOK, SignStart, Start, NoJob, Job, JobKinds, rows, auth,
         store, RequestsOf
<1>13. ASSUME NEW w \in Workers, NEW s \in Sessions, NEW intact \in BOOLEAN,
             SignReject(w, s, intact)
      PROVE  TypeOK'
  BY <1>13 DEF TypeOK, SignReject, Start, NoJob, Job, JobKinds, rows, auth,
         store
<1>14. ASSUME NEW w \in Workers, NEW g \in Signatures, Publish(w, g)
      PROVE  TypeOK'
  <2>1. job[w] \in Job
    BY DEF TypeOK
  <2>2. [job[w] EXCEPT !.kind = "published", !.signature = g] \in Job
    BY <2>1 DEF Job, JobKinds
  <2>3. job' = [job EXCEPT ![w] = [job[w] EXCEPT !.kind = "published",
                                                 !.signature = g]]
    BY <1>14 DEF Publish, TypeOK
  <2>4. job' \in [Workers -> Job]
    BY <2>2, <2>3 DEF TypeOK
  <2> QED
    BY <1>14, <2>4 DEF TypeOK, Publish, rows, auth
<1>15. ASSUME NEW w \in Workers, RecordFails(w) PROVE TypeOK'
  BY <1>15 DEF TypeOK, RecordFails, End, Job, rows, auth
<1>16. ASSUME NEW w \in Workers, CommitSignature(w) PROVE TypeOK'
  BY <1>16, RowAssumption DEF TypeOK, CommitSignature, End, Statuses, Phases,
         SignatureRow, SessionRow, Job, Shape
<1>17. ASSUME NEW w \in Workers, Rollback(w) PROVE TypeOK'
  BY <1>17 DEF TypeOK, Rollback, End, rows, auth, store
<1>18. ASSUME NEW r \in Requests, NEW d \in Devices, ReportFailure(r, d)
      PROVE  TypeOK'
  BY <1>18, AfterFailureType DEF TypeOK, ReportFailure, Statuses, auth,
         store
<1>19. ASSUME NEW x \in Withdrawable, Withdraw(x) PROVE TypeOK'
  BY <1>19 DEF TypeOK, Withdraw, rows, auth, store
<1>20. CASE Tick
  BY <1>20 DEF TypeOK, rows, auth, store, Tick
<1>21. CASE UNCHANGED vars
  BY <1>21 DEF TypeOK, vars, rows, auth, store
<1>22. QED
  BY <1>1, <1>2, <1>3, <1>4, <1>5, <1>6, <1>7, <1>8, <1>9, <1>10, <1>11,
     <1>12, <1>13, <1>14, <1>15, <1>16, <1>17, <1>18, <1>19, <1>20, <1>21
  DEF Next, WorkerStep

\* Rows that exist keep their columns, and a job has what its kind needs.
LEMMA ShapeStep == TypeOK /\ Shape /\ ClaimHoldsQueue /\ [Next]_vars => Shape'
<1> SUFFICES ASSUME TypeOK, Shape, ClaimHoldsQueue, [Next]_vars
             PROVE  Shape'
  OBVIOUS
<1> USE QueueAssumption, RowAssumption, NoJobType
<1>1. ASSUME NEW w \in Workers, NEW doc \in Documents, CreateStart(w, doc)
      PROVE  Shape'
  BY <1>1 DEF TypeOK, Shape, Start, NoJob, rows, auth, store, CreateStart
<1>2. ASSUME NEW w \in Workers, NEW r \in Requests, NEW d \in Devices,
             CreateFinish(w, r, d)
      PROVE  Shape'
  BY <1>2 DEF TypeOK, Shape, End, NoJob, auth, store, CreateFinish, TermsRow,
         Statuses, Job
<1>3. ASSUME NEW w \in Workers, NEW r \in Requests, PollLock(w, r)
      PROVE  Shape'
  BY <1>3 DEF TypeOK, Shape, Start, NoJob, rows, auth, store, PollLock
<1>4. ASSUME NEW w \in Workers, PollCommit(w) PROVE Shape'
  BY <1>4 DEF TypeOK, Shape, End, NoJob, auth, store, PollCommit,
         Due, Expirable
<1>5. ASSUME NEW w \in Workers, NEW d \in Devices, NEW t \in 0 .. now,
             ClaimStart(w, d, t)
      PROVE  Shape'
  BY <1>5 DEF TypeOK, Shape, Start, NoJob, rows, auth, store, ClaimStart
<1>6. ASSUME NEW w \in Workers, ClaimFinish(w) PROVE Shape'
  BY <1>6 DEF TypeOK, Shape, End, NoJob, auth, store, ClaimFinish, Due,
         Expirable, Candidates, ClaimHoldsQueue
<1>7. ASSUME NEW d \in Devices, NEW t \in 0 .. now, ClaimRefused(d, t) PROVE Shape'
  BY <1>7 DEF TypeOK, Shape, auth, store, ClaimRefused, Due, Expirable, DueOn
<1>8. ASSUME NEW d \in Devices, NEW u \in Users, NEW doc \in Documents,
             NEW s \in Sessions,
             Challenge(d, u, doc, s)
      PROVE  Shape'
  BY <1>8 DEF TypeOK, Shape, NoJob, store, Challenge,
         SessionRow, Attachable, Due
<1>9. ASSUME NEW s \in Sessions, NEW finger \in Users, Complete(s, finger)
      PROVE  Shape'
  BY <1>9 DEF TypeOK, Shape, NoJob, store, Complete
<1>10. ASSUME NEW w \in Workers, NEW s \in Sessions,
             NEW finger \in Users \cup {None},
             CompleteReject(w, s, finger)
      PROVE  Shape'
  BY <1>10 DEF TypeOK, Shape, Start, NoJob, rows, auth, store, CompleteReject
<1>11. ASSUME NEW w \in Workers, PersistFailure(w) PROVE Shape'
  BY <1>11 DEF TypeOK, Shape, End, NoJob, auth, store, PersistFailure,
         AfterFailure, Statuses, RequestsOf, Due, Expirable
<1>12. ASSUME NEW w \in Workers, NEW s \in Sessions, SignStart(w, s)
      PROVE  Shape'
  BY <1>12 DEF TypeOK, Shape, Start, NoJob, rows, auth, store, SignStart
<1>13. ASSUME NEW w \in Workers, NEW s \in Sessions, NEW intact \in BOOLEAN,
             SignReject(w, s, intact)
      PROVE  Shape'
  BY <1>13 DEF TypeOK, Shape, Start, NoJob, rows, auth, store, SignReject
<1>14. ASSUME NEW w \in Workers, NEW g \in Signatures, Publish(w, g)
      PROVE  Shape'
  BY <1>14 DEF TypeOK, Shape, NoJob, rows, auth, Publish
<1>15. ASSUME NEW w \in Workers, RecordFails(w) PROVE Shape'
  BY <1>15 DEF TypeOK, Shape, End, NoJob, rows, auth, RecordFails
<1>16. ASSUME NEW w \in Workers, CommitSignature(w) PROVE Shape'
  BY <1>16 DEF TypeOK, Shape, End, NoJob, CommitSignature
<1>17. ASSUME NEW w \in Workers, Rollback(w) PROVE Shape'
  BY <1>17 DEF TypeOK, Shape, End, NoJob, rows, auth, store, Rollback
<1>18. ASSUME NEW r \in Requests, NEW d \in Devices, ReportFailure(r, d)
      PROVE  Shape'
  BY <1>18 DEF TypeOK, Shape, auth, store, ReportFailure, AfterFailure,
         Statuses
<1>19. ASSUME NEW x \in Withdrawable, Withdraw(x) PROVE Shape'
  BY <1>19 DEF TypeOK, Shape, NoJob, rows, auth, store, Withdraw
<1>20. CASE Tick
  BY <1>20 DEF TypeOK, Shape, NoJob, rows, auth, store, Tick
<1>21. CASE UNCHANGED vars
  BY <1>21 DEF TypeOK, Shape, NoJob, rows, auth, store, vars
<1>22. QED
  BY <1>1, <1>2, <1>3, <1>4, <1>5, <1>6, <1>7, <1>8, <1>9, <1>10, <1>11,
     <1>12, <1>13, <1>14, <1>15, <1>16, <1>17, <1>18, <1>19, <1>20, <1>21
  DEF Next, WorkerStep

-----------------------------------------------------------------------------
(* Locks *)

\* No two workers ever hold the same row, document or device queue: each
\* action that takes a lock waits until it is free.
LEMMA LocksStep == TypeOK /\ LocksExclusive /\ [Next]_vars => LocksExclusive'
<1> SUFFICES ASSUME TypeOK, LocksExclusive, [Next]_vars
             PROVE  LocksExclusive'
  OBVIOUS
<1> USE QueueAssumption
<1>1. ASSUME NEW w \in Workers, NEW doc \in Documents, CreateStart(w, doc)
      PROVE  LocksExclusive'
  BY <1>1 DEF TypeOK, LocksExclusive, Start, NoJob, Job, CreateStart,
         DocumentFree
<1>2. ASSUME NEW w \in Workers, NEW r \in Requests, PollLock(w, r)
      PROVE  LocksExclusive'
  BY <1>2 DEF TypeOK, LocksExclusive, Start, NoJob, Job, PollLock, Free, Locked
<1>3. ASSUME NEW w \in Workers, NEW d \in Devices, NEW t \in 0 .. now,
             ClaimStart(w, d, t)
      PROVE  LocksExclusive'
  BY <1>3 DEF TypeOK, LocksExclusive, Start, NoJob, Job, ClaimStart, QueueFree,
         DueOn, Locked
<1>4. ASSUME NEW w \in Workers, NEW s \in Sessions, SignStart(w, s)
      PROVE  LocksExclusive'
  BY <1>4 DEF TypeOK, LocksExclusive, Start, NoJob, Job, SignStart, Free,
         Locked
<1>5. ASSUME NEW w \in Workers, NEW s \in Sessions,
             Start(w, [NoJob EXCEPT !.kind = "rejected", !.session = s])
      PROVE  LocksExclusive'
  BY <1>5 DEF TypeOK, LocksExclusive, Start, NoJob, Job
<1>6. ASSUME NEW w \in Workers, NEW g \in Signatures, Publish(w, g)
      PROVE  LocksExclusive'
  BY <1>6 DEF TypeOK, LocksExclusive, Job, Publish
<1>7. ASSUME NEW w \in Workers, End(w)
      PROVE  LocksExclusive'
  BY <1>7 DEF TypeOK, LocksExclusive, End, NoJob, Job
<1>8. CASE UNCHANGED job
  BY <1>8 DEF LocksExclusive
<1> QED
  BY <1>1, <1>2, <1>3, <1>4, <1>5, <1>6, <1>7, <1>8
  DEF Next, WorkerStep, vars, CreateFinish, PollCommit, ClaimFinish,
      ClaimRefused, Challenge, Complete, CompleteReject, PersistFailure,
      SignReject, RecordFails, CommitSignature, Rollback, ReportFailure,
      Withdraw, Tick

\* What ClaimHoldsQueue says of one worker.
ClaimHeld(w) ==
  job[w].kind = "claiming" =>
    /\ \A r \in job[w].locked : Due(r) /\ terms[r].device = job[w].device
    /\ InFlightOn(job[w].device) \subseteq job[w].locked

\* A claim in progress is undisturbed by a step that leaves its locked rows
\* alone and puts no row of its device in flight.
LEMMA ClaimKept ==
  ASSUME TypeOK, Shape, ClaimHoldsQueue, NEW w \in Workers,
         job'[w] = job[w], now' \in Nat, now <= now', terms' = terms,
         \A r \in job[w].locked : status'[r] = status[r],
         job[w].kind = "claiming" =>
           \A r \in Requests :
             (status'[r] \in InFlight /\ terms[r].device = job[w].device)
               => status[r] \in InFlight
  PROVE  ClaimHeld(w)'
<1> SUFFICES ASSUME job[w].kind = "claiming"
             PROVE  /\ \A r \in job[w].locked :
                         Due(r)' /\ terms[r].device = job[w].device
                    /\ InFlightOn(job[w].device)' \subseteq job[w].locked
  BY DEF ClaimHeld, InFlightOn
<1>1. ASSUME NEW r \in job[w].locked
      PROVE  Due(r)' /\ terms[r].device = job[w].device
  <2>1. r \in Requests /\ Due(r) /\ terms[r].device = job[w].device
    BY DEF ClaimHoldsQueue, TypeOK, Job
  <2>2. terms[r].expires \in Nat
    BY <2>1 DEF Due, Expirable, Shape, TypeOK, TermsRow
  <2> QED
    BY <2>1, <2>2 DEF Due, TypeOK
<1>2. InFlightOn(job[w].device)' \subseteq job[w].locked
  BY DEF ClaimHoldsQueue, InFlightOn
<1> QED
  BY <1>1, <1>2

\* The commit of sign_document finds exactly the request its worker locked,
\* and a signature row that does not exist yet.
LEMMA SignedRequest ==
  ASSUME TypeOK, Shape, SessionBinding, SigningHoldsRequest,
         NEW w \in Workers, CommitSignature(w)
  PROVE  \E r \in Requests :
           /\ job[w].locked = {r}
           /\ sessionOf[r] = job[w].session
           /\ status[r] = "AUTHENTICATED"
           /\ status' = [status EXCEPT ![r] = "SIGNED"]
           /\ signatureOf' = [signatureOf EXCEPT ![r] = job[w].signature]
<1>1. PICK r \in Requests : /\ job[w].locked = {r}
                            /\ sessionOf[r] = job[w].session
                            /\ status[r] = "AUTHENTICATED"
  BY DEF SigningHoldsRequest, CommitSignature
<1>2. job[w].session # None
  BY DEF Shape, CommitSignature
<1>3. RequestsOf(job[w].session) = {r}
  BY <1>1, <1>2 DEF RequestsOf, SessionBinding
<1> QED
  BY <1>1, <1>3 DEF CommitSignature, TypeOK

\* The row it inserts, and the session it consumes.
LEMMA SignatureInserted ==
  ASSUME TypeOK, Shape, SigningHoldsRequest,
         NEW w \in Workers, CommitSignature(w)
  PROVE  LET s == job[w].session
             g == job[w].signature
         IN  /\ s \in Sessions /\ g \in Signatures
             /\ Unconsumed(s) /\ signature[g] = None /\ g \in files
             /\ signature'[g] = [session |-> s, user |-> session[s].user,
                                 device |-> session[s].device,
                                 document |-> session[s].document]
             /\ signature'[g] # None /\ signature'[g].session = s
             /\ \A h \in Signatures : h # g => signature'[h] = signature[h]
             /\ phase' = [phase EXCEPT ![s] = "USED"]
<1> DEFINE s == job[w].session
           g == job[w].signature
<1>1. /\ s \in Sessions /\ g \in Signatures
      /\ Unconsumed(s) /\ signature[g] = None /\ g \in files
  BY DEF SigningHoldsRequest, CommitSignature, Shape, TypeOK, Job
<1>2. session[s] \in SessionRow
  BY <1>1 DEF Shape, Unconsumed, TypeOK
<1>3. signature'[g] = [session |-> s, user |-> session[s].user,
                       device |-> session[s].device,
                       document |-> session[s].document]
  BY <1>1 DEF CommitSignature, TypeOK
<1>4. signature'[g] \in SignatureRow /\ signature'[g].session = s
  BY <1>1, <1>2, <1>3 DEF SessionRow, SignatureRow
<1>5. signature'[g] # None
  BY <1>4, RowAssumption
<1>6. \A h \in Signatures : h # g => signature'[h] = signature[h]
  BY DEF CommitSignature, TypeOK
<1> QED
  BY <1>1, <1>3, <1>4, <1>5, <1>6 DEF CommitSignature

\* The device's queue is the claim's alone: the rows it expires are locked by
\* it, and every other row that enters flight on the device does so in a
\* claim.
LEMMA ClaimStep ==
  TypeOK /\ Shape /\ LocksExclusive /\ ClaimHoldsQueue /\
  SigningHoldsRequest /\ SessionBinding /\ [Next]_vars => ClaimHoldsQueue'
<1> SUFFICES ASSUME TypeOK, Shape, LocksExclusive, ClaimHoldsQueue,
                    SigningHoldsRequest, SessionBinding, [Next]_vars
             PROVE  ClaimHoldsQueue'
  OBVIOUS
<1> USE QueueAssumption, RowAssumption, NoJobType
<1>1. ASSUME NEW w \in Workers, NEW doc \in Documents, CreateStart(w, doc)
      PROVE  ClaimHoldsQueue'
  BY <1>1 DEF TypeOK, ClaimHoldsQueue, Start, NoJob, InFlightOn, Due, rows,
         auth, store, CreateStart
<1>2. ASSUME NEW w \in Workers, NEW r \in Requests, NEW d \in Devices,
             CreateFinish(w, r, d)
      PROVE  ClaimHoldsQueue'
  BY <1>2 DEF TypeOK, ClaimHoldsQueue, End, NoJob, InFlightOn, Due, auth,
         store, CreateFinish, Shape, Statuses, Expirable, InFlight
<1>3. ASSUME NEW w \in Workers, NEW r \in Requests, PollLock(w, r)
      PROVE  ClaimHoldsQueue'
  BY <1>3 DEF TypeOK, ClaimHoldsQueue, Start, NoJob, InFlightOn, Due, rows,
         auth, store, PollLock
<1>4. ASSUME NEW w \in Workers, PollCommit(w) PROVE ClaimHoldsQueue'
  <2> SUFFICES ASSUME NEW v \in Workers PROVE ClaimHeld(v)'
    BY DEF ClaimHeld, ClaimHoldsQueue
  <2>1. CASE v = w
    BY <1>4, <2>1 DEF PollCommit, End, NoJob, TypeOK, ClaimHeld
  <2>2. CASE v # w
    <3>1. job'[v] = job[v] /\ now' = now /\ terms' = terms
      BY <1>4, <2>2 DEF PollCommit, End, TypeOK
    <3>2. \A r \in job[v].locked : status'[r] = status[r]
      BY <1>4, <2>2 DEF TypeOK, Job, LocksExclusive, PollCommit
    <3>3. job[v].kind = "claiming" =>
            \A r \in Requests :
              (status'[r] \in InFlight /\ terms[r].device = job[v].device)
                => status[r] \in InFlight
      BY <1>4, <2>2 DEF TypeOK, InFlight, PollCommit
    <3> QED
      BY <3>1, <3>2, <3>3, ClaimKept DEF TypeOK
  <2> QED
    BY <2>1, <2>2
<1>5. ASSUME NEW w \in Workers, NEW d \in Devices, NEW t \in 0 .. now,
             ClaimStart(w, d, t)
      PROVE  ClaimHoldsQueue'
  <2>1. \A r \in DueOn(d, t) : Due(r) /\ terms[r].device = d
    <3>1. ASSUME NEW r \in DueOn(d, t) PROVE Due(r) /\ terms[r].device = d
      <4>1. terms[r] # None
        BY DEF Shape, DueOn, Expirable
      <4>2. terms[r].expires \in Nat
        BY <4>1 DEF TypeOK, DueOn, TermsRow
      <4> QED
        BY <1>5, <4>2 DEF Due, DueOn, TypeOK
    <3> QED
      BY <3>1
  <2>2. \A r \in Requests : Due(r)' <=> Due(r)
    BY <1>5 DEF ClaimStart, Due, rows
  <2>3. /\ InFlightOn(d) \subseteq DueOn(d, t)
        /\ \A e \in Devices : InFlightOn(e)' = InFlightOn(e)
    BY <1>5 DEF ClaimStart, InFlightOn, rows
  <2>4. /\ job'[w].device = d /\ job'[w].locked = DueOn(d, t)
        /\ DueOn(d, t) \in SUBSET Requests
        /\ \A v \in Workers : v # w => job'[v] = job[v]
        /\ terms' = terms
    BY <1>5 DEF ClaimStart, Start, NoJob, TypeOK, rows, DueOn
  <2>5. ASSUME NEW v \in Workers, job'[v].kind = "claiming"
        PROVE  /\ \A r \in job'[v].locked : /\ Due(r)'
                                            /\ terms'[r].device = job'[v].device
               /\ InFlightOn(job[v].device)' \subseteq job'[v].locked
    <3>1. CASE v = w
      BY <2>1, <2>2, <2>3, <2>4, <3>1
    <3>2. CASE v # w
      <4>1. job[v].kind = "claiming" /\ job'[v] = job[v]
        BY <2>4, <2>5, <3>2
      <4>2. job[v].locked \in SUBSET Requests /\ job[v].device \in Devices
        BY <4>1 DEF TypeOK, Job, Shape
      <4>3. /\ \A r \in job[v].locked : Due(r) /\ terms[r].device = job[v].device
            /\ InFlightOn(job[v].device) \subseteq job[v].locked
        BY <4>1 DEF ClaimHoldsQueue
      <4> QED
        BY <2>2, <2>3, <2>4, <4>1, <4>2, <4>3
    <3> QED
      BY <3>1, <3>2
  <2> QED
    BY <2>5 DEF ClaimHoldsQueue
<1>6. ASSUME NEW w \in Workers, ClaimFinish(w) PROVE ClaimHoldsQueue'
  <2> SUFFICES ASSUME NEW v \in Workers PROVE ClaimHeld(v)'
    BY DEF ClaimHeld, ClaimHoldsQueue
  <2>1. CASE v = w
    BY <1>6, <2>1 DEF ClaimFinish, End, NoJob, TypeOK, ClaimHeld
  <2>2. CASE v # w
    <3>1. job'[v] = job[v] /\ now' = now /\ terms' = terms
      BY <1>6, <2>2 DEF ClaimFinish, End, TypeOK
    <3>2. \A r \in job[v].locked : status'[r] = status[r]
      BY <1>6, <2>2 DEF TypeOK, Job, LocksExclusive, Candidates, Locked,
             ClaimFinish
    <3>3. job[v].kind = "claiming" =>
            \A r \in Requests :
              (status'[r] \in InFlight /\ terms[r].device = job[v].device)
                => status[r] \in InFlight
      BY <1>6, <2>2 DEF TypeOK, InFlight, LocksExclusive, Candidates, Shape,
             ClaimFinish
    <3> QED
      BY <3>1, <3>2, <3>3, ClaimKept DEF TypeOK
  <2> QED
    BY <2>1, <2>2
<1>7. ASSUME NEW d \in Devices, NEW t \in 0 .. now, ClaimRefused(d, t) PROVE ClaimHoldsQueue'
  <2> SUFFICES ASSUME NEW v \in Workers PROVE ClaimHeld(v)'
    BY DEF ClaimHeld, ClaimHoldsQueue
  <2>1. job'[v] = job[v] /\ now' = now /\ terms' = terms
    BY <1>7 DEF ClaimRefused
  <2>2. \A r \in job[v].locked : status'[r] = status[r]
    BY <1>7 DEF TypeOK, Job, DueOn, Locked, ClaimRefused
  <2>3. \A r \in Requests : status'[r] \in InFlight => status[r] \in InFlight
    BY <1>7 DEF TypeOK, InFlight, ClaimRefused
  <2>4. now' \in Nat /\ now <= now'
    BY <2>1 DEF TypeOK
  <2> QED
    BY <2>1, <2>2, <2>3, <2>4, ClaimKept
<1>8. ASSUME NEW d \in Devices, NEW u \in Users, NEW doc \in Documents,
             NEW s \in Sessions,
             Challenge(d, u, doc, s)
      PROVE  ClaimHoldsQueue'
  <2> SUFFICES ASSUME NEW v \in Workers PROVE ClaimHeld(v)'
    BY DEF ClaimHeld, ClaimHoldsQueue
  <2>1. job'[v] = job[v] /\ now' = now /\ terms' = terms
    BY <1>8 DEF Challenge
  <2>2. \A r \in job[v].locked : status'[r] = status[r]
    BY <1>8 DEF TypeOK, Job, Free, Locked, Challenge
  <2>3. \A r \in Requests : status'[r] \in InFlight => status[r] \in InFlight
    BY <1>8 DEF TypeOK, InFlight, Attachable, Challenge
  <2>4. now' \in Nat /\ now <= now'
    BY <2>1 DEF TypeOK
  <2> QED
    BY <2>1, <2>2, <2>3, <2>4, ClaimKept
<1>9. ASSUME NEW s \in Sessions, NEW finger \in Users, Complete(s, finger)
      PROVE  ClaimHoldsQueue'
  <2> SUFFICES ASSUME NEW v \in Workers PROVE ClaimHeld(v)'
    BY DEF ClaimHeld, ClaimHoldsQueue
  <2>1. job'[v] = job[v] /\ now' = now /\ terms' = terms
    BY <1>9 DEF Complete
  <2>2. \A r \in job[v].locked : status'[r] = status[r]
    BY <1>9 DEF TypeOK, Job, Free, Locked, Complete
  <2>3. \A r \in Requests : status'[r] \in InFlight => status[r] \in InFlight
    BY <1>9 DEF TypeOK, InFlight, Complete
  <2>4. now' \in Nat /\ now <= now'
    BY <2>1 DEF TypeOK
  <2> QED
    BY <2>1, <2>2, <2>3, <2>4, ClaimKept
<1>10. ASSUME NEW w \in Workers, NEW s \in Sessions,
             NEW finger \in Users \cup {None},
             CompleteReject(w, s, finger)
      PROVE  ClaimHoldsQueue'
  BY <1>10 DEF TypeOK, ClaimHoldsQueue, Start, NoJob, InFlightOn, Due, rows,
         auth, store, CompleteReject
<1>11. ASSUME NEW w \in Workers, PersistFailure(w) PROVE ClaimHoldsQueue'
  <2> SUFFICES ASSUME NEW v \in Workers PROVE ClaimHeld(v)'
    BY DEF ClaimHeld, ClaimHoldsQueue
  <2>1. CASE v = w
    BY <1>11, <2>1 DEF PersistFailure, End, NoJob, TypeOK, ClaimHeld
  <2>2. CASE v # w
    <3>1. job'[v] = job[v] /\ now' = now /\ terms' = terms
      BY <1>11, <2>2 DEF PersistFailure, End, TypeOK
    <3>2. \A r \in job[v].locked : status'[r] = status[r]
      BY <1>11, <2>2 DEF TypeOK, Job, Free, Locked, PersistFailure
    <3>3. job[v].kind = "claiming" =>
            \A r \in Requests :
              (status'[r] \in InFlight /\ terms[r].device = job[v].device)
                => status[r] \in InFlight
      BY <1>11, <2>2 DEF TypeOK, InFlight, AfterFailure, PersistFailure
    <3> QED
      BY <3>1, <3>2, <3>3, ClaimKept DEF TypeOK
  <2> QED
    BY <2>1, <2>2
<1>12. ASSUME NEW w \in Workers, NEW s \in Sessions, SignStart(w, s)
      PROVE  ClaimHoldsQueue'
  BY <1>12 DEF TypeOK, ClaimHoldsQueue, Start, NoJob, InFlightOn, Due, rows,
         auth, store, SignStart
<1>13. ASSUME NEW w \in Workers, NEW s \in Sessions, NEW intact \in BOOLEAN,
             SignReject(w, s, intact)
      PROVE  ClaimHoldsQueue'
  BY <1>13 DEF TypeOK, ClaimHoldsQueue, Start, NoJob, InFlightOn, Due, rows,
         auth, store, SignReject
<1>14. ASSUME NEW w \in Workers, NEW g \in Signatures, Publish(w, g)
      PROVE  ClaimHoldsQueue'
  BY <1>14 DEF TypeOK, ClaimHoldsQueue, InFlightOn, Due, rows, auth, Publish
<1>15. ASSUME NEW w \in Workers, RecordFails(w) PROVE ClaimHoldsQueue'
  BY <1>15 DEF TypeOK, ClaimHoldsQueue, End, NoJob, InFlightOn, Due, rows,
         auth, RecordFails
<1>16. ASSUME NEW w \in Workers, CommitSignature(w) PROVE ClaimHoldsQueue'
  <2> SUFFICES ASSUME NEW v \in Workers PROVE ClaimHeld(v)'
    BY DEF ClaimHeld, ClaimHoldsQueue
  <2>1. CASE v = w
    BY <1>16, <2>1 DEF CommitSignature, End, NoJob, TypeOK, ClaimHeld
  <2>2. CASE v # w
    <3>1. job'[v] = job[v] /\ now' = now /\ terms' = terms
      BY <1>16, <2>2 DEF CommitSignature, End, TypeOK
    <3>2. \A r \in job[v].locked : status'[r] = status[r]
      BY <1>16, <2>2, SignedRequest DEF TypeOK, Job, LocksExclusive
    <3>3. job[v].kind = "claiming" =>
            \A r \in Requests :
              (status'[r] \in InFlight /\ terms[r].device = job[v].device)
                => status[r] \in InFlight
      BY <1>16, <2>2 DEF TypeOK, InFlight, CommitSignature
    <3> QED
      BY <3>1, <3>2, <3>3, ClaimKept DEF TypeOK
  <2> QED
    BY <2>1, <2>2
<1>17. ASSUME NEW w \in Workers, Rollback(w) PROVE ClaimHoldsQueue'
  BY <1>17 DEF TypeOK, ClaimHoldsQueue, End, NoJob, InFlightOn, Due, rows,
         auth, store, Rollback
<1>18. ASSUME NEW r \in Requests, NEW d \in Devices, ReportFailure(r, d)
      PROVE  ClaimHoldsQueue'
  <2> SUFFICES ASSUME NEW v \in Workers PROVE ClaimHeld(v)'
    BY DEF ClaimHeld, ClaimHoldsQueue
  <2>1. job'[v] = job[v] /\ now' = now /\ terms' = terms
    BY <1>18 DEF ReportFailure
  <2>2. \A q \in job[v].locked : status'[q] = status[q]
    BY <1>18 DEF TypeOK, Job, Free, Locked, ReportFailure
  <2>3. \A q \in Requests : status'[q] \in InFlight => status[q] \in InFlight
    BY <1>18 DEF TypeOK, InFlight, AfterFailure, ReportFailure
  <2>4. now' \in Nat /\ now <= now'
    BY <2>1 DEF TypeOK
  <2> QED
    BY <2>1, <2>2, <2>3, <2>4, ClaimKept
<1>19. ASSUME NEW x \in Withdrawable, Withdraw(x) PROVE ClaimHoldsQueue'
  BY <1>19 DEF TypeOK, ClaimHoldsQueue, InFlightOn, Due, rows, auth, store,
         Withdraw
<1>20. CASE Tick
  <2> SUFFICES ASSUME NEW v \in Workers PROVE ClaimHeld(v)'
    BY DEF ClaimHeld, ClaimHoldsQueue
  <2>1. now' \in Nat /\ now <= now'
    BY <1>20 DEF Tick, TypeOK
  <2> QED
    BY <1>20, <2>1, ClaimKept DEF Tick, rows
<1>21. CASE UNCHANGED vars
  BY <1>21 DEF TypeOK, ClaimHoldsQueue, InFlightOn, Due, rows, auth, store,
         vars
<1>22. QED
  BY <1>1, <1>2, <1>3, <1>4, <1>5, <1>6, <1>7, <1>8, <1>9, <1>10, <1>11,
     <1>12, <1>13, <1>14, <1>15, <1>16, <1>17, <1>18, <1>19, <1>20, <1>21
  DEF Next, WorkerStep

\* While a worker creates a request, its document lock keeps the document
\* without an active one.
LEMMA CreateStep ==
  TypeOK /\ Shape /\ LocksExclusive /\ CreateHoldsDocument /\ [Next]_vars =>
  CreateHoldsDocument'
<1> SUFFICES ASSUME TypeOK, Shape, LocksExclusive, CreateHoldsDocument,
                    [Next]_vars
             PROVE  CreateHoldsDocument'
  OBVIOUS
<1> USE QueueAssumption, RowAssumption, NoJobType
<1>1. ASSUME NEW w \in Workers, NEW doc \in Documents, CreateStart(w, doc)
      PROVE  CreateHoldsDocument'
  BY <1>1 DEF TypeOK, CreateHoldsDocument, Start, NoJob, ActiveOn, rows, auth,
         store, CreateStart
<1>2. ASSUME NEW w \in Workers, NEW r \in Requests, NEW d \in Devices,
             CreateFinish(w, r, d)
      PROVE  CreateHoldsDocument'
  BY <1>2 DEF TypeOK, CreateHoldsDocument, End, NoJob, ActiveOn, auth, store,
         CreateFinish, Shape, LocksExclusive, Statuses, InFlight, Active
<1>3. ASSUME NEW w \in Workers, NEW r \in Requests, PollLock(w, r)
      PROVE  CreateHoldsDocument'
  BY <1>3 DEF TypeOK, CreateHoldsDocument, Start, NoJob, ActiveOn, rows, auth,
         store, PollLock
<1>4. ASSUME NEW w \in Workers, PollCommit(w) PROVE CreateHoldsDocument'
  BY <1>4 DEF TypeOK, CreateHoldsDocument, End, NoJob, ActiveOn, auth, store,
         PollCommit, Statuses, InFlight, Active
<1>5. ASSUME NEW w \in Workers, NEW d \in Devices, NEW t \in 0 .. now,
             ClaimStart(w, d, t)
      PROVE  CreateHoldsDocument'
  BY <1>5 DEF TypeOK, CreateHoldsDocument, Start, NoJob, ActiveOn, rows, auth,
         store, ClaimStart
<1>6. ASSUME NEW w \in Workers, ClaimFinish(w) PROVE CreateHoldsDocument'
  BY <1>6 DEF TypeOK, CreateHoldsDocument, End, NoJob, ActiveOn, auth, store,
         ClaimFinish, Candidates, Statuses, InFlight, Active
<1>7. ASSUME NEW d \in Devices, NEW t \in 0 .. now, ClaimRefused(d, t) PROVE CreateHoldsDocument'
  BY <1>7 DEF TypeOK, CreateHoldsDocument, ActiveOn, auth, store,
         ClaimRefused, DueOn, Statuses, InFlight, Active
<1>8. ASSUME NEW d \in Devices, NEW u \in Users, NEW doc \in Documents,
             NEW s \in Sessions,
             Challenge(d, u, doc, s)
      PROVE  CreateHoldsDocument'
  BY <1>8 DEF TypeOK, CreateHoldsDocument, ActiveOn, store, Challenge,
         Attachable, Statuses, InFlight, Active
<1>9. ASSUME NEW s \in Sessions, NEW finger \in Users, Complete(s, finger)
      PROVE  CreateHoldsDocument'
  BY <1>9 DEF TypeOK, CreateHoldsDocument, ActiveOn, store, Complete,
         RequestsOf, Statuses, InFlight, Active
<1>10. ASSUME NEW w \in Workers, NEW s \in Sessions,
             NEW finger \in Users \cup {None},
             CompleteReject(w, s, finger)
      PROVE  CreateHoldsDocument'
  BY <1>10 DEF TypeOK, CreateHoldsDocument, Start, NoJob, ActiveOn, rows,
         auth, store, CompleteReject
<1>11. ASSUME NEW w \in Workers, PersistFailure(w) PROVE CreateHoldsDocument'
  BY <1>11 DEF TypeOK, CreateHoldsDocument, End, NoJob, ActiveOn, auth, store,
         PersistFailure, RequestsOf, AfterFailure, Statuses, InFlight, Active
<1>12. ASSUME NEW w \in Workers, NEW s \in Sessions, SignStart(w, s)
      PROVE  CreateHoldsDocument'
  BY <1>12 DEF TypeOK, CreateHoldsDocument, Start, NoJob, ActiveOn, rows,
         auth, store, SignStart
<1>13. ASSUME NEW w \in Workers, NEW s \in Sessions, NEW intact \in BOOLEAN,
             SignReject(w, s, intact)
      PROVE  CreateHoldsDocument'
  BY <1>13 DEF TypeOK, CreateHoldsDocument, Start, NoJob, ActiveOn, rows,
         auth, store, SignReject
<1>14. ASSUME NEW w \in Workers, NEW g \in Signatures, Publish(w, g)
      PROVE  CreateHoldsDocument'
  BY <1>14 DEF TypeOK, CreateHoldsDocument, ActiveOn, rows, auth, Publish
<1>15. ASSUME NEW w \in Workers, RecordFails(w) PROVE CreateHoldsDocument'
  BY <1>15 DEF TypeOK, CreateHoldsDocument, End, NoJob, ActiveOn, rows, auth,
         RecordFails
<1>16. ASSUME NEW w \in Workers, CommitSignature(w)
      PROVE  CreateHoldsDocument'
  BY <1>16 DEF TypeOK, CreateHoldsDocument, End, NoJob, ActiveOn,
         CommitSignature, RequestsOf, Statuses, InFlight, Active
<1>17. ASSUME NEW w \in Workers, Rollback(w) PROVE CreateHoldsDocument'
  BY <1>17 DEF TypeOK, CreateHoldsDocument, End, NoJob, ActiveOn, rows, auth,
         store, Rollback
<1>18. ASSUME NEW r \in Requests, NEW d \in Devices, ReportFailure(r, d)
      PROVE  CreateHoldsDocument'
  BY <1>18 DEF TypeOK, CreateHoldsDocument, ActiveOn, auth, store,
         ReportFailure, AfterFailure, Statuses, InFlight, Active
<1>19. ASSUME NEW x \in Withdrawable, Withdraw(x) PROVE CreateHoldsDocument'
  BY <1>19 DEF TypeOK, CreateHoldsDocument, ActiveOn, rows, auth, store,
         Withdraw
<1>20. CASE Tick
  BY <1>20 DEF TypeOK, CreateHoldsDocument, ActiveOn, rows, auth, store, Tick
<1>21. CASE UNCHANGED vars
  BY <1>21 DEF TypeOK, CreateHoldsDocument, ActiveOn, rows, auth, store, vars
<1>22. QED
  BY <1>1, <1>2, <1>3, <1>4, <1>5, <1>6, <1>7, <1>8, <1>9, <1>10, <1>11,
     <1>12, <1>13, <1>14, <1>15, <1>16, <1>17, <1>18, <1>19, <1>20, <1>21
  DEF Next, WorkerStep

-----------------------------------------------------------------------------
(* Rows: only nine actions change them *)

\* Every other action leaves requests, sessions and signatures alone.
LEMMA RowStep ==
  ASSUME [Next]_vars
  PROVE  \/ \E w \in Workers, r \in Requests, d \in Devices :
              CreateFinish(w, r, d)
         \/ \E w \in Workers : PollCommit(w) \/ ClaimFinish(w)
                               \/ PersistFailure(w) \/ CommitSignature(w)
         \/ \E d \in Devices, t \in 0 .. now : ClaimRefused(d, t)
         \/ \E d \in Devices, u \in Users, doc \in Documents, s \in Sessions :
              Challenge(d, u, doc, s)
         \/ \E s \in Sessions, finger \in Users : Complete(s, finger)
         \/ \E r \in Requests, d \in Devices : ReportFailure(r, d)
         \/ UNCHANGED <<rows, auth, signature>>
<1>1. ASSUME NEW w \in Workers, NEW doc \in Documents, CreateStart(w, doc)
      PROVE  UNCHANGED <<rows, auth, signature>>
  BY <1>1 DEF CreateStart, store
<1>2. ASSUME NEW w \in Workers, NEW r \in Requests, PollLock(w, r)
      PROVE  UNCHANGED <<rows, auth, signature>>
  BY <1>2 DEF PollLock, store
<1>3. ASSUME NEW w \in Workers, NEW d \in Devices, NEW t \in 0 .. now,
             ClaimStart(w, d, t)
      PROVE  UNCHANGED <<rows, auth, signature>>
  BY <1>3 DEF ClaimStart, store
<1>4. ASSUME NEW w \in Workers, NEW s \in Sessions,
             \/ \E finger \in Users \cup {None} : CompleteReject(w, s, finger)
             \/ SignStart(w, s)
             \/ \E intact \in BOOLEAN : SignReject(w, s, intact)
      PROVE  UNCHANGED <<rows, auth, signature>>
  BY <1>4 DEF CompleteReject, SignStart, SignReject, store
<1>5. ASSUME NEW w \in Workers,
             \/ \E g \in Signatures : Publish(w, g)
             \/ RecordFails(w)
             \/ Rollback(w)
      PROVE  UNCHANGED <<rows, auth, signature>>
  BY <1>5 DEF Publish, RecordFails, Rollback, store
<1>6. ASSUME Tick \/ \E x \in Withdrawable : Withdraw(x)
      PROVE  UNCHANGED <<rows, auth, signature>>
  BY <1>6 DEF Tick, Withdraw, store
<1>7. CASE UNCHANGED vars
  BY <1>7 DEF vars, store
<1> QED
  BY <1>1, <1>2, <1>3, <1>4, <1>5, <1>6, <1>7 DEF Next, WorkerStep

\* At most one request of a device is in flight: the only step that puts one
\* there is the end of a claim, which holds the queue.
LEMMA OneInFlightStep == TypeOK /\ Shape /\ LocksExclusive /\ ClaimHoldsQueue
    /\ OneInFlightPerDevice /\ [Next]_vars => OneInFlightPerDevice'
<1> SUFFICES ASSUME TypeOK, Shape, LocksExclusive, ClaimHoldsQueue,
                    OneInFlightPerDevice, [Next]_vars
             PROVE  OneInFlightPerDevice'
  OBVIOUS
<1> USE QueueAssumption, RowAssumption, NoJobType
<1>1. ASSUME NEW w \in Workers, NEW r \in Requests, NEW d \in Devices,
             CreateFinish(w, r, d)
      PROVE  OneInFlightPerDevice'
  <2>1. \A q \in Requests : status'[q] \in InFlight =>
          status'[q] = status[q] /\ terms'[q] = terms[q]
    BY <1>1 DEF CreateFinish, TypeOK, InFlight
  <2>2. ASSUME NEW p \in Requests, NEW q \in Requests, p # q,
               {status'[p], status'[q]} \subseteq InFlight
        PROVE  terms'[p].device # terms'[q].device
    <3>1. status'[p] \in InFlight /\ status'[q] \in InFlight
      BY <2>2
    <3>2. /\ status'[p] = status[p] /\ terms'[p] = terms[p]
          /\ status'[q] = status[q] /\ terms'[q] = terms[q]
      BY <2>1, <3>1
    <3> QED
      BY <2>2, <3>2 DEF OneInFlightPerDevice
  <2> QED
    BY <2>2 DEF OneInFlightPerDevice
<1>2. ASSUME NEW w \in Workers, PollCommit(w) PROVE OneInFlightPerDevice'
  BY <1>2 DEF OneInFlightPerDevice, TypeOK, InFlight, PollCommit
<1>3. ASSUME NEW w \in Workers, ClaimFinish(w) PROVE OneInFlightPerDevice'
  <2> DEFINE held == job[w].locked
             d == job[w].device
  <2>1. /\ d \in Devices /\ terms' = terms
        /\ InFlightOn(d) \subseteq held
        /\ \A r \in held : status'[r] \notin InFlight
        /\ \A r \in Requests : status'[r] \in InFlight => status[r] \in InFlight
                                 \/ status'[r] = "CLAIMED"
    BY <1>3 DEF ClaimFinish, ClaimHoldsQueue, Shape, TypeOK, Job, InFlight
  <2>2. PICK oldest \in SUBSET Requests :
          /\ \A r \in oldest : terms[r].device = d
          /\ \A r, q \in oldest : r = q
          /\ \A r \in Requests : status'[r] \in InFlight
               => r \in oldest \/ (status[r] \in InFlight /\ r \notin held)
    <3> DEFINE C == Candidates(d, job[w].at)
               O == {r \in C : \A q \in C : r <= q}
    <3>1. O \in SUBSET Requests /\ \A r \in O : terms[r].device = d
      BY DEF Candidates
    <3>2. ASSUME NEW r \in O, NEW q \in O PROVE r = q
      <4>1. r <= q /\ q <= r
        OBVIOUS
      <4>2. r \in Nat /\ q \in Nat
        BY <3>1
      <4> QED
        BY <4>1, <4>2
    <3>3. \A r \in Requests : status'[r] \in InFlight
            => r \in O \/ (status[r] \in InFlight /\ r \notin held)
      BY <1>3 DEF ClaimFinish, InFlight
    <3> QED
      BY <3>1, <3>2, <3>3
  <2>3. ASSUME NEW r \in Requests, NEW q \in Requests, r # q,
               status'[r] \in InFlight, status'[q] \in InFlight,
               terms[r].device = terms[q].device
        PROVE  FALSE
    <3>1. CASE r \in oldest
      BY <2>1, <2>2, <2>3, <3>1 DEF InFlightOn
    <3>2. CASE q \in oldest
      BY <2>1, <2>2, <2>3, <3>2 DEF InFlightOn
    <3>3. CASE r \notin oldest /\ q \notin oldest
      BY <2>2, <2>3, <3>3 DEF OneInFlightPerDevice
    <3> QED
      BY <3>1, <3>2, <3>3
  <2> QED
    BY <2>1, <2>3 DEF OneInFlightPerDevice
<1>4. ASSUME NEW d \in Devices, NEW t \in 0 .. now, ClaimRefused(d, t) PROVE OneInFlightPerDevice'
  BY <1>4 DEF OneInFlightPerDevice, TypeOK, InFlight, ClaimRefused
<1>5. ASSUME NEW d \in Devices, NEW u \in Users, NEW doc \in Documents,
             NEW s \in Sessions,
             Challenge(d, u, doc, s)
      PROVE  OneInFlightPerDevice'
  BY <1>5 DEF OneInFlightPerDevice, TypeOK, InFlight, Challenge,
         Attachable
<1>6. ASSUME NEW s \in Sessions, NEW finger \in Users, Complete(s, finger)
      PROVE  OneInFlightPerDevice'
  BY <1>6 DEF OneInFlightPerDevice, TypeOK, InFlight, Complete
<1>7. ASSUME NEW w \in Workers, PersistFailure(w) PROVE OneInFlightPerDevice'
  BY <1>7 DEF OneInFlightPerDevice, TypeOK, InFlight, PersistFailure,
         AfterFailure
<1>8. ASSUME NEW w \in Workers, CommitSignature(w)
      PROVE  OneInFlightPerDevice'
  BY <1>8 DEF OneInFlightPerDevice, TypeOK, InFlight, CommitSignature
<1>9. ASSUME NEW r \in Requests, NEW d \in Devices, ReportFailure(r, d)
      PROVE  OneInFlightPerDevice'
  BY <1>9 DEF OneInFlightPerDevice, TypeOK, InFlight, ReportFailure,
         AfterFailure
<1>10. CASE UNCHANGED <<rows, auth, signature>>
  BY <1>10 DEF OneInFlightPerDevice, TypeOK, InFlight, rows
<1> QED
  BY RowStep, <1>1, <1>2, <1>3, <1>4, <1>5, <1>6, <1>7, <1>8, <1>9, <1>10

\* What SessionBinding says of one request.
SessionMatches(r) ==
  /\ status[r] \in {"NONE", "PENDING", "CLAIMED"} => sessionOf[r] = None
  /\ status[r] \in {"AUTHENTICATING", "AUTHENTICATED", "SIGNED"}
       => sessionOf[r] # None
  /\ sessionOf[r] # None =>
       /\ phase[sessionOf[r]] # "NONE"
       /\ terms[r].device = session[sessionOf[r]].device
       /\ terms[r].document = session[sessionOf[r]].document
  /\ status[r] \in {"AUTHENTICATED", "SIGNED"} =>
       terms[r].user = session[sessionOf[r]].user
  /\ status[r] = "AUTHENTICATED" => phase[sessionOf[r]] = "VERIFIED"

\* A session is attached to one request and verified by that request's own
\* user. Attaching relies on OneInFlightPerDevice: two CLAIMED requests of
\* one device and document could otherwise get the same session.
LEMMA BindingStep == TypeOK /\ Shape /\ ClaimHoldsQueue /\ OneInFlightPerDevice
    /\ SessionBinding /\ SigningHoldsRequest /\ [Next]_vars => SessionBinding'
<1> SUFFICES ASSUME TypeOK, Shape, ClaimHoldsQueue,
                    OneInFlightPerDevice, SessionBinding,
                    SigningHoldsRequest, [Next]_vars PROVE SessionBinding'
  OBVIOUS
<1> USE QueueAssumption, RowAssumption, NoJobType
<1>1. ASSUME NEW w \in Workers, NEW r \in Requests, NEW d \in Devices,
             CreateFinish(w, r, d)
      PROVE  SessionBinding'
  <2>1. sessionOf[r] = None /\ status'[r] = "PENDING"
    BY <1>1 DEF CreateFinish, TypeOK, SessionBinding
  <2>2. \A q \in Requests : q # r => status'[q] = status[q] /\ terms'[q] = terms[q]
    BY <1>1 DEF CreateFinish, TypeOK
  <2>3. UNCHANGED <<sessionOf, phase, session>>
    BY <1>1 DEF CreateFinish, auth
  <2>4. ASSUME NEW q \in Requests PROVE SessionMatches(q)'
    <3>1. CASE q = r
      BY <2>1, <2>3, <3>1 DEF SessionMatches
    <3>2. CASE q # r
      BY <2>2, <2>3, <3>2 DEF SessionMatches, SessionBinding
    <3> QED
      BY <3>1, <3>2
  <2>5. ASSUME NEW p \in Requests, NEW q \in Requests, p # q,
               sessionOf'[p] # None
        PROVE  sessionOf'[p] # sessionOf'[q]
    BY <2>3, <2>5 DEF SessionBinding
  <2> QED
    BY <2>4, <2>5 DEF SessionBinding, SessionMatches
<1>2. ASSUME NEW w \in Workers, PollCommit(w) PROVE SessionBinding'
  BY <1>2 DEF TypeOK, SessionBinding, auth, store, PollCommit, Statuses,
         Expirable, Due
<1>3. ASSUME NEW w \in Workers, ClaimFinish(w) PROVE SessionBinding'
  BY <1>3 DEF TypeOK, SessionBinding, auth, store, ClaimFinish,
         Candidates, ClaimHoldsQueue, Statuses, Expirable, Due
<1>4. ASSUME NEW d \in Devices, NEW t \in 0 .. now, ClaimRefused(d, t) PROVE SessionBinding'
  BY <1>4 DEF TypeOK, SessionBinding, auth, store, ClaimRefused, DueOn,
         Statuses, Expirable, Due
<1>5. ASSUME NEW d \in Devices, NEW u \in Users, NEW doc \in Documents,
             NEW s \in Sessions,
             Challenge(d, u, doc, s)
      PROVE  SessionBinding'
  <2> DEFINE A == {r \in Attachable(d, doc) : ~Due(r)}
  <2>1. \A r \in Requests :
          /\ sessionOf'[r] = IF r \in A THEN s ELSE sessionOf[r]
          /\ r \in A => status'[r] = "AUTHENTICATING"
          /\ r \notin A => status'[r] = status[r] \/ status'[r] = "EXPIRED"
    BY <1>5 DEF Challenge, Attachable, TypeOK
  <2>2. \A r \in A : /\ r \in Requests /\ status[r] = "CLAIMED"
                     /\ terms[r].device = d /\ terms[r].document = doc
    BY DEF Attachable
  <2>3. \A r, q \in A : r = q
    BY <2>2 DEF OneInFlightPerDevice, InFlight
  <2>4. \A r \in Requests : sessionOf[r] # s
    BY <1>5 DEF Challenge, SessionBinding
  <2>5. /\ phase'[s] = "OPEN"
        /\ session'[s].device = d /\ session'[s].document = doc
        /\ \A z \in Sessions : z # s => /\ phase'[z] = phase[z]
                                        /\ session'[z] = session[z]
        /\ terms' = terms
    BY <1>5 DEF Challenge, TypeOK
  <2>6. \A r \in Requests : sessionOf[r] \in Sessions \cup {None}
    BY DEF TypeOK
  <2> HIDE DEF A
  <2>7. ASSUME NEW r \in Requests PROVE SessionMatches(r)'
    <3>1. CASE r \in A
      <4>1. /\ status'[r] = "AUTHENTICATING" /\ sessionOf'[r] = s /\ s # None
            /\ terms[r].device = d /\ terms[r].document = doc
        BY <2>1, <2>2, <3>1
      <4> QED
        BY <2>5, <4>1 DEF SessionMatches
    <3>2. CASE r \notin A
      BY <2>1, <2>4, <2>5, <2>6, <3>2 DEF SessionBinding, SessionMatches
    <3> QED
      BY <3>1, <3>2
  <2>8. ASSUME NEW p \in Requests, NEW q \in Requests, p # q,
               sessionOf'[p] # None
        PROVE  sessionOf'[p] # sessionOf'[q]
    <3>1. CASE p \in A \/ q \in A
      BY <2>1, <2>3, <2>4, <2>8, <3>1
    <3>2. CASE p \notin A /\ q \notin A
      <4>1. sessionOf'[p] = sessionOf[p] /\ sessionOf'[q] = sessionOf[q]
        BY <2>1, <3>2
      <4> QED
        BY <2>8, <4>1 DEF SessionBinding
    <3> QED
      BY <3>1, <3>2
  <2> QED
    BY <2>7, <2>8 DEF SessionBinding, SessionMatches
<1>6. ASSUME NEW s \in Sessions, NEW finger \in Users, Complete(s, finger)
      PROVE  SessionBinding'
  BY <1>6 DEF TypeOK, SessionBinding, store, Complete, RequestsOf,
         IsAuthorized, Authorized, Statuses, Expirable, Due
<1>7. ASSUME NEW w \in Workers, PersistFailure(w) PROVE SessionBinding'
  BY <1>7 DEF TypeOK, SessionBinding, auth, store, PersistFailure,
         RequestsOf, AfterFailure, Statuses, Expirable, Due
<1>8. ASSUME NEW w \in Workers, CommitSignature(w) PROVE SessionBinding'
  BY <1>8 DEF TypeOK, SessionBinding, CommitSignature,
         RequestsOf, Shape, SigningHoldsRequest, Statuses, Expirable, Due
<1>9. ASSUME NEW r \in Requests, NEW d \in Devices, ReportFailure(r, d)
      PROVE  SessionBinding'
  BY <1>9 DEF TypeOK, SessionBinding, auth, store, ReportFailure,
         AfterFailure, Statuses, Expirable, Due
<1>10. CASE UNCHANGED <<rows, auth, signature>>
  BY <1>10 DEF TypeOK, SessionBinding, rows, auth, store
<1> QED
  BY RowStep, <1>1, <1>2, <1>3, <1>4, <1>5, <1>6, <1>7, <1>8, <1>9, <1>10

\* Nothing a signing worker relies on changes when another job ends without
\* touching sessions, signatures or AUTHENTICATED requests.
LEMMA SigningKept ==
  ASSUME SigningHoldsRequest, NEW w \in Workers, job'[w] = NoJob,
         \A v \in Workers : v # w => job'[v] = job[v],
         \A q \in Requests : status[q] = "AUTHENTICATED" => status'[q] = status[q],
         UNCHANGED <<sessionOf, phase, signature, files>>
  PROVE  SigningHoldsRequest'
<1>1. ASSUME NEW v \in Workers, job'[v].kind \in {"signing", "published"}
      PROVE  \E r \in Requests : /\ job'[v].locked = {r}
                                 /\ sessionOf'[r] = job'[v].session
                                 /\ status'[r] = "AUTHENTICATED"
                                 /\ Unconsumed(job[v].session)'
  <2>1. v # w /\ job'[v] = job[v]
    BY <1>1 DEF NoJob
  <2> QED
    BY <1>1, <2>1 DEF SigningHoldsRequest, Unconsumed
<1>2. ASSUME NEW v \in Workers, job'[v].kind = "published"
      PROVE  /\ job'[v].signature \in files'
             /\ signature'[job'[v].signature] = None
  <2>1. v # w /\ job'[v] = job[v]
    BY <1>2 DEF NoJob
  <2> QED
    BY <1>2, <2>1 DEF SigningHoldsRequest
<1>3. ASSUME NEW u \in Workers, NEW v \in Workers, u # v,
             job'[u].signature # None
      PROVE  job'[u].signature # job'[v].signature
  BY <1>3 DEF SigningHoldsRequest, NoJob
<1> QED
  BY <1>1, <1>2, <1>3 DEF SigningHoldsRequest

\* The request a worker signs for stays AUTHENTICATED, and its session
\* unused, until that worker ends.
LEMMA SigningStep ==
  TypeOK /\ Shape /\ LocksExclusive /\ SessionBinding /\ ClaimHoldsQueue /\
  SigningHoldsRequest /\ [Next]_vars => SigningHoldsRequest'
<1> SUFFICES ASSUME TypeOK, Shape, LocksExclusive, SessionBinding,
                    ClaimHoldsQueue, SigningHoldsRequest, [Next]_vars
             PROVE  SigningHoldsRequest'
  OBVIOUS
<1> USE QueueAssumption, RowAssumption, NoJobType
<1>1. ASSUME NEW w \in Workers, NEW doc \in Documents, CreateStart(w, doc)
      PROVE  SigningHoldsRequest'
  BY <1>1 DEF TypeOK, SigningHoldsRequest, Unconsumed, Start, NoJob, rows,
         auth, store, CreateStart
<1>2. ASSUME NEW w \in Workers, NEW r \in Requests, NEW d \in Devices,
             CreateFinish(w, r, d)
      PROVE  SigningHoldsRequest'
  <2>1. /\ \A v \in Workers : v # w => job'[v] = job[v]
        /\ job'[w] = NoJob
    BY <1>2 DEF CreateFinish, End, TypeOK
  <2>2. \A q \in Requests :
          status[q] = "AUTHENTICATED" => status'[q] = status[q]
    BY <1>2 DEF CreateFinish, TypeOK
  <2> QED
    BY <1>2, <2>1, <2>2, SigningKept DEF CreateFinish, auth, store
<1>3. ASSUME NEW w \in Workers, NEW r \in Requests, PollLock(w, r)
      PROVE  SigningHoldsRequest'
  BY <1>3 DEF TypeOK, SigningHoldsRequest, Unconsumed, Start, NoJob, rows,
         auth, store, PollLock
<1>4. ASSUME NEW w \in Workers, PollCommit(w) PROVE SigningHoldsRequest'
  <2>1. /\ \A v \in Workers : v # w => job'[v] = job[v]
        /\ job'[w] = NoJob
    BY <1>4 DEF PollCommit, End, TypeOK
  <2>2. \A r \in Requests :
          status[r] = "AUTHENTICATED" => status'[r] = status[r]
    BY <1>4 DEF PollCommit, TypeOK, Due, Expirable
  <2> QED
    BY <1>4, <2>1, <2>2, SigningKept DEF PollCommit, auth, store
<1>5. ASSUME NEW w \in Workers, NEW d \in Devices, NEW t \in 0 .. now,
             ClaimStart(w, d, t)
      PROVE  SigningHoldsRequest'
  BY <1>5 DEF TypeOK, SigningHoldsRequest, Unconsumed, Start, NoJob, rows,
         auth, store, ClaimStart
<1>6. ASSUME NEW w \in Workers, ClaimFinish(w) PROVE SigningHoldsRequest'
  <2>1. /\ \A v \in Workers : v # w => job'[v] = job[v]
        /\ job'[w] = NoJob
    BY <1>6 DEF ClaimFinish, End, TypeOK
  <2>2. \A r \in Requests :
          status[r] = "AUTHENTICATED" => status'[r] = status[r]
    BY <1>6 DEF ClaimFinish, Candidates, ClaimHoldsQueue, Due, Expirable
  <2> QED
    BY <1>6, <2>1, <2>2, SigningKept DEF ClaimFinish, auth, store
<1>7. ASSUME NEW d \in Devices, NEW t \in 0 .. now, ClaimRefused(d, t) PROVE SigningHoldsRequest'
  BY <1>7 DEF TypeOK, SigningHoldsRequest, Unconsumed, NoJob, auth, store,
         ClaimRefused, DueOn, Statuses, Due, Expirable
<1>8. ASSUME NEW d \in Devices, NEW u \in Users, NEW doc \in Documents,
             NEW s \in Sessions,
             Challenge(d, u, doc, s)
      PROVE  SigningHoldsRequest'
  BY <1>8 DEF TypeOK, SigningHoldsRequest, Unconsumed, store, Challenge,
         Attachable, Statuses, Due, Expirable
<1>9. ASSUME NEW s \in Sessions, NEW finger \in Users, Complete(s, finger)
      PROVE  SigningHoldsRequest'
  BY <1>9 DEF TypeOK, SigningHoldsRequest, Unconsumed, store, Complete,
         RequestsOf, Statuses
<1>10. ASSUME NEW w \in Workers, NEW s \in Sessions,
             NEW finger \in Users \cup {None},
             CompleteReject(w, s, finger)
      PROVE  SigningHoldsRequest'
  BY <1>10 DEF TypeOK, SigningHoldsRequest, Unconsumed, Start, NoJob, rows,
         auth, store, CompleteReject
<1>11. ASSUME NEW w \in Workers, PersistFailure(w) PROVE SigningHoldsRequest'
  BY <1>11 DEF TypeOK, SigningHoldsRequest, Unconsumed, End, NoJob, auth,
         store, PersistFailure, RequestsOf, Free, Locked, Statuses
<1>12. ASSUME NEW w \in Workers, NEW s \in Sessions, SignStart(w, s)
      PROVE  SigningHoldsRequest'
  <2>1. /\ job[w].kind = "idle"
        /\ job' = [job EXCEPT ![w] = [NoJob EXCEPT !.kind = "signing",
                                     !.locked = RequestsOf(s), !.session = s]]
        /\ UNCHANGED <<rows, auth, store>>
    BY <1>12 DEF SignStart, Start, Idle
  <2>2. PICK r \in RequestsOf(s) : status[r] = "AUTHENTICATED"
    BY <1>12 DEF SignStart, IsAuthorized, Authorized
  <2>3. RequestsOf(s) = {r} /\ sessionOf[r] = s /\ r \in Requests
    <3>1. sessionOf[r] = s /\ r \in Requests /\ s # None
      BY DEF RequestsOf
    <3>2. \A q \in RequestsOf(s) : q = r
      BY <3>1 DEF RequestsOf, SessionBinding
    <3> QED
      BY <3>1, <3>2
  <2>4. Unconsumed(s)
    BY <1>12 DEF SignStart
  <2>5. /\ job'[w].kind = "signing" /\ job'[w].locked = {r}
        /\ job'[w].session = s /\ job'[w].signature = None
        /\ \A v \in Workers : v # w => job'[v] = job[v]
    BY <2>1, <2>3 DEF NoJob, TypeOK
  <2> QED
    BY <2>1, <2>2, <2>3, <2>4, <2>5
    DEF SigningHoldsRequest, Unconsumed, rows, auth, store
<1>13. ASSUME NEW w \in Workers, NEW s \in Sessions, NEW intact \in BOOLEAN,
             SignReject(w, s, intact)
      PROVE  SigningHoldsRequest'
  BY <1>13 DEF TypeOK, SigningHoldsRequest, Unconsumed, Start, NoJob, rows,
         auth, store, SignReject
<1>14. ASSUME NEW w \in Workers, NEW g \in Signatures, Publish(w, g)
      PROVE  SigningHoldsRequest'
  BY <1>14 DEF TypeOK, SigningHoldsRequest, Unconsumed, rows, auth, Publish,
         FreshSignature, Job, Shape, Statuses
<1>15. ASSUME NEW w \in Workers, RecordFails(w) PROVE SigningHoldsRequest'
  BY <1>15 DEF TypeOK, SigningHoldsRequest, Unconsumed, End, NoJob, rows,
         auth, RecordFails, Shape, Job, Statuses
<1>16. ASSUME NEW w \in Workers, CommitSignature(w)
      PROVE  SigningHoldsRequest'
  <2>1. /\ \A v \in Workers : v # w => job'[v] = job[v]
        /\ job'[w] = NoJob
    BY <1>16 DEF CommitSignature, End, TypeOK
  <2>2. ASSUME NEW v \in Workers, v # w,
               job[v].kind \in {"signing", "published"}
        PROVE  \E r \in Requests :
                 /\ job[v].locked = {r}
                 /\ sessionOf'[r] = job[v].session
                 /\ status'[r] = "AUTHENTICATED"
                 /\ Unconsumed(job[v].session)'
    <3>1. PICK r \in Requests :
            /\ job[v].locked = {r}
            /\ sessionOf[r] = job[v].session
            /\ status[r] = "AUTHENTICATED"
            /\ Unconsumed(job[v].session)
      BY <2>2 DEF SigningHoldsRequest
    <3>2. PICK q \in Requests : /\ job[w].locked = {q}
                                /\ sessionOf[q] = job[w].session
                                /\ status' = [status EXCEPT ![q] = "SIGNED"]
      BY <1>16, SignedRequest
    <3>3. r # q
      BY <2>2, <3>1, <3>2 DEF LocksExclusive
    <3>4. job[w].session \in Sessions /\ job[v].session \in Sessions
      <4>1. job[w].session \in Sessions
        BY <1>16, SignatureInserted
      <4>2. job[v] \in Job /\ job[v].session # None
        BY <2>2 DEF Shape, TypeOK
      <4> QED
        BY <4>1, <4>2 DEF Job
    <3>5. job[v].session # job[w].session
      BY <3>1, <3>2, <3>3, <3>4 DEF SessionBinding
    <3>6. status'[r] = status[r] /\ sessionOf' = sessionOf
      BY <1>16, <3>2, <3>3 DEF CommitSignature, TypeOK
    <3>7. phase'[job[v].session] = phase[job[v].session]
      BY <1>16, <3>4, <3>5, SignatureInserted DEF TypeOK
    <3>8. \A g \in Signatures : \/ signature'[g] = signature[g]
                                \/ signature'[g].session = job[w].session
      BY <1>16, SignatureInserted
    <3>9. Unconsumed(job[v].session)'
      BY <2>1, <2>2, <3>1, <3>5, <3>7, <3>8 DEF Unconsumed
    <3> QED
      BY <3>1, <3>6, <3>9
  <2>3. ASSUME NEW v \in Workers, v # w, job[v].kind = "published"
        PROVE  /\ job[v].signature \in files'
               /\ signature'[job[v].signature] = None
    <3>1. job[v].signature \in files /\ signature[job[v].signature] = None
      BY <2>3 DEF SigningHoldsRequest
    <3>2. job[v].signature # job[w].signature
      BY <2>3 DEF SigningHoldsRequest, Shape
    <3> QED
      BY <1>16, <2>1, <3>1, <3>2 DEF CommitSignature, TypeOK
  <2> QED
    BY <2>1, <2>2, <2>3 DEF SigningHoldsRequest, NoJob, Unconsumed
<1>17. ASSUME NEW w \in Workers, Rollback(w) PROVE SigningHoldsRequest'
  <2>1. /\ \A v \in Workers : v # w => job'[v] = job[v]
        /\ job'[w] = NoJob
    BY <1>17 DEF Rollback, End, TypeOK
  <2> QED
    BY <1>17, <2>1, SigningKept DEF Rollback, rows, auth, store
<1>18. ASSUME NEW r \in Requests, NEW d \in Devices, ReportFailure(r, d)
      PROVE  SigningHoldsRequest'
  BY <1>18 DEF TypeOK, SigningHoldsRequest, Unconsumed, auth, store,
         ReportFailure, AfterFailure, Free, Locked, Statuses, Due, Expirable
<1>19. ASSUME NEW x \in Withdrawable, Withdraw(x) PROVE SigningHoldsRequest'
  BY <1>19 DEF TypeOK, SigningHoldsRequest, Unconsumed, rows, auth, store,
         Withdraw
<1>20. CASE Tick
  BY <1>20 DEF TypeOK, SigningHoldsRequest, Unconsumed, rows, auth, store,
         Tick
<1>21. CASE UNCHANGED vars
  BY <1>21 DEF TypeOK, SigningHoldsRequest, Unconsumed, rows, auth, store,
         vars
<1>22. QED
  BY <1>1, <1>2, <1>3, <1>4, <1>5, <1>6, <1>7, <1>8, <1>9, <1>10, <1>11,
     <1>12, <1>13, <1>14, <1>15, <1>16, <1>17, <1>18, <1>19, <1>20, <1>21
  DEF Next, WorkerStep

-----------------------------------------------------------------------------
(* The promises, one step at a time *)

\* Only a creation makes a request active, and it holds its document.
LEMMA OneActiveStep ==
  QueueInv /\ OneActivePerDocument /\ [Next]_vars => OneActivePerDocument'
<1> SUFFICES ASSUME QueueInv, OneActivePerDocument, [Next]_vars
             PROVE  OneActivePerDocument'
  OBVIOUS
<1> USE QueueAssumption, RowAssumption, NoJobType
<1>1. ASSUME NEW w \in Workers, NEW r \in Requests, NEW d \in Devices,
             CreateFinish(w, r, d)
      PROVE  OneActivePerDocument'
  BY <1>1 DEF OneActivePerDocument, QueueInv, TypeOK, Active, InFlight,
         CreateFinish, Shape, CreateHoldsDocument, ActiveOn, Job
<1>2. ASSUME NEW w \in Workers, PollCommit(w) PROVE OneActivePerDocument'
  BY <1>2 DEF OneActivePerDocument, QueueInv, TypeOK, Active, InFlight,
         PollCommit
<1>3. ASSUME NEW w \in Workers, ClaimFinish(w) PROVE OneActivePerDocument'
  BY <1>3 DEF OneActivePerDocument, QueueInv, TypeOK, Active, InFlight,
         ClaimFinish, Candidates
<1>4. ASSUME NEW d \in Devices, NEW t \in 0 .. now, ClaimRefused(d, t) PROVE OneActivePerDocument'
  BY <1>4 DEF OneActivePerDocument, QueueInv, TypeOK, Active, InFlight,
         ClaimRefused
<1>5. ASSUME NEW d \in Devices, NEW u \in Users, NEW doc \in Documents,
             NEW s \in Sessions,
             Challenge(d, u, doc, s)
      PROVE  OneActivePerDocument'
  BY <1>5 DEF OneActivePerDocument, QueueInv, TypeOK, Active, InFlight,
         Challenge, Attachable
<1>6. ASSUME NEW s \in Sessions, NEW finger \in Users, Complete(s, finger)
      PROVE  OneActivePerDocument'
  BY <1>6 DEF OneActivePerDocument, QueueInv, TypeOK, Active, InFlight,
         Complete
<1>7. ASSUME NEW w \in Workers, PersistFailure(w) PROVE OneActivePerDocument'
  BY <1>7 DEF OneActivePerDocument, QueueInv, TypeOK, Active, InFlight,
         PersistFailure, AfterFailure
<1>8. ASSUME NEW w \in Workers, CommitSignature(w)
      PROVE  OneActivePerDocument'
  BY <1>8 DEF OneActivePerDocument, QueueInv, TypeOK, Active, InFlight,
         CommitSignature
<1>9. ASSUME NEW r \in Requests, NEW d \in Devices, ReportFailure(r, d)
      PROVE  OneActivePerDocument'
  BY <1>9 DEF OneActivePerDocument, QueueInv, TypeOK, Active, InFlight,
         ReportFailure, AfterFailure
<1>10. CASE UNCHANGED <<rows, auth, signature>>
  BY <1>10 DEF OneActivePerDocument, QueueInv, TypeOK, Active, InFlight, rows
<1> QED
  BY RowStep, <1>1, <1>2, <1>3, <1>4, <1>5, <1>6, <1>7, <1>8, <1>9, <1>10

\* What TerminalIsFinal says of one step.
TerminalKept ==
  \A r \in Requests : status[r] \in Terminal =>
    UNCHANGED <<status[r], terms[r], sessionOf[r], signatureOf[r]>>

\* No action changes a row whose status is SIGNED, FAILED or EXPIRED.
LEMMA TerminalStep == QueueInv /\ [Next]_vars => TerminalKept
<1> SUFFICES ASSUME QueueInv, [Next]_vars PROVE TerminalKept
  OBVIOUS
<1> USE QueueAssumption, RowAssumption, NoJobType
<1>1. ASSUME NEW w \in Workers, NEW r \in Requests, NEW d \in Devices,
             CreateFinish(w, r, d)
      PROVE  TerminalKept
  BY <1>1 DEF TerminalKept, QueueInv, TypeOK, Terminal, auth, store,
         CreateFinish
<1>2. ASSUME NEW w \in Workers, PollCommit(w) PROVE TerminalKept
  BY <1>2 DEF TerminalKept, QueueInv, TypeOK, Terminal, auth, store,
         PollCommit, Due, Expirable
<1>3. ASSUME NEW w \in Workers, ClaimFinish(w) PROVE TerminalKept
  BY <1>3 DEF TerminalKept, QueueInv, TypeOK, Terminal, auth, store,
         ClaimFinish, Candidates, ClaimHoldsQueue, Due, Expirable
<1>4. ASSUME NEW d \in Devices, NEW t \in 0 .. now, ClaimRefused(d, t) PROVE TerminalKept
  BY <1>4 DEF TerminalKept, QueueInv, TypeOK, Terminal, auth, store,
         ClaimRefused, DueOn, Due, Expirable
<1>5. ASSUME NEW d \in Devices, NEW u \in Users, NEW doc \in Documents,
             NEW s \in Sessions,
             Challenge(d, u, doc, s)
      PROVE  TerminalKept
  BY <1>5 DEF TerminalKept, QueueInv, TypeOK, Terminal, store, Challenge,
         Attachable, Due, Expirable
<1>6. ASSUME NEW s \in Sessions, NEW finger \in Users, Complete(s, finger)
      PROVE  TerminalKept
  BY <1>6 DEF TerminalKept, QueueInv, TypeOK, Terminal, store, Complete
<1>7. ASSUME NEW w \in Workers, PersistFailure(w) PROVE TerminalKept
  BY <1>7 DEF TerminalKept, QueueInv, TypeOK, Terminal, auth, store,
         PersistFailure, AfterFailure, Due, Expirable
<1>8. ASSUME NEW w \in Workers, CommitSignature(w) PROVE TerminalKept
  BY <1>8 DEF TerminalKept, QueueInv, TypeOK, Terminal, CommitSignature
<1>9. ASSUME NEW r \in Requests, NEW d \in Devices, ReportFailure(r, d)
      PROVE  TerminalKept
  BY <1>9 DEF TerminalKept, QueueInv, TypeOK, Terminal, auth, store,
         ReportFailure, AfterFailure, InFlight, Due, Expirable
<1>10. CASE UNCHANGED <<rows, auth, signature>>
  BY <1>10 DEF TerminalKept, QueueInv, TypeOK, Terminal, rows, auth, store
<1> QED
  BY RowStep, <1>1, <1>2, <1>3, <1>4, <1>5, <1>6, <1>7, <1>8, <1>9, <1>10

\* Only the commit of sign_document inserts a signature or makes a request
\* SIGNED, and a consumed session stays consumed.
LEMMA SignatureTable ==
  ASSUME TypeOK, [Next]_vars
  PROVE  /\ \A s \in Sessions : phase[s] = "USED" => phase'[s] = "USED"
         /\ \/ \E w \in Workers : CommitSignature(w)
            \/ /\ signature' = signature
               /\ \A r \in Requests : status'[r] = "SIGNED" => status[r] = "SIGNED"
<1> DEFINE Used == \A s \in Sessions : phase[s] = "USED" => phase'[s] = "USED"
           Quiet == /\ signature' = signature
                    /\ \A r \in Requests :
                         status'[r] = "SIGNED" => status[r] = "SIGNED"
<1>1. ASSUME NEW w \in Workers, NEW r \in Requests, NEW d \in Devices,
             CreateFinish(w, r, d)
      PROVE  Used /\ Quiet
  BY <1>1 DEF CreateFinish, TypeOK, auth, store
<1>2. ASSUME NEW w \in Workers, PollCommit(w) \/ ClaimFinish(w)
      PROVE  Used /\ Quiet
  BY <1>2 DEF PollCommit, ClaimFinish, auth, store
<1>3. ASSUME NEW w \in Workers, PersistFailure(w) PROVE Used /\ Quiet
  BY <1>3 DEF PersistFailure, AfterFailure, auth, store
<1>4. ASSUME NEW d \in Devices, NEW t \in 0 .. now, ClaimRefused(d, t) PROVE Used /\ Quiet
  BY <1>4 DEF ClaimRefused, auth, store
<1>5. ASSUME NEW d \in Devices, NEW u \in Users, NEW doc \in Documents,
             NEW s \in Sessions, Challenge(d, u, doc, s)
      PROVE  Used /\ Quiet
  BY <1>5 DEF Challenge, TypeOK, store
<1>6. ASSUME NEW s \in Sessions, NEW finger \in Users, Complete(s, finger)
      PROVE  Used /\ Quiet
  BY <1>6 DEF Complete, TypeOK, store
<1>7. ASSUME NEW r \in Requests, NEW d \in Devices, ReportFailure(r, d)
      PROVE  Used /\ Quiet
  BY <1>7 DEF ReportFailure, AfterFailure, TypeOK, auth, store
<1>8. ASSUME NEW w \in Workers, CommitSignature(w) PROVE Used
  BY <1>8 DEF CommitSignature, TypeOK
<1>9. CASE UNCHANGED <<rows, auth, signature>>
  BY <1>9 DEF rows, auth
<1> QED
  BY RowStep, <1>1, <1>2, <1>3, <1>4, <1>5, <1>6, <1>7, <1>8, <1>9

\* A signature row is inserted together with the SIGNED status of the request
\* its session is attached to, and nothing undoes that.
LEMMA ConsentedStep ==
  QueueInv /\ SignatureIsConsented /\ [Next]_vars => SignatureIsConsented'
<1> SUFFICES ASSUME QueueInv, SignatureIsConsented, [Next]_vars,
                    NEW g \in Signatures, signature'[g] # None
             PROVE  \E r \in Requests :
                      /\ status'[r] = "SIGNED" /\ signatureOf'[r] = g
                      /\ sessionOf'[r] = signature'[g].session
                      /\ phase'[signature'[g].session] = "USED"
                      /\ signature'[g].user = terms'[r].user
                      /\ signature'[g].device = terms'[r].device
                      /\ signature'[g].document = terms'[r].document
  BY DEF SignatureIsConsented
<1>1. CASE signature[g] # None /\ signature'[g] = signature[g]
  <2>1. PICK r \in Requests :
          /\ status[r] = "SIGNED" /\ signatureOf[r] = g
          /\ sessionOf[r] = signature[g].session
          /\ phase[signature[g].session] = "USED"
          /\ signature[g].user = terms[r].user
          /\ signature[g].device = terms[r].device
          /\ signature[g].document = terms[r].document
    BY <1>1 DEF SignatureIsConsented
  <2>2. signature[g].session \in Sessions
    BY <1>1 DEF QueueInv, TypeOK, SignatureRow
  <2>3. UNCHANGED <<status[r], terms[r], sessionOf[r], signatureOf[r]>>
    BY <2>1, TerminalStep DEF TerminalKept, Terminal
  <2>4. phase'[signature[g].session] = "USED"
    BY <2>1, <2>2, SignatureTable DEF QueueInv
  <2> QED
    BY <1>1, <2>1, <2>3, <2>4
<1>2. ASSUME NEW w \in Workers, CommitSignature(w), g = job[w].signature
      PROVE  \E r \in Requests :
               /\ status'[r] = "SIGNED" /\ signatureOf'[r] = g
               /\ sessionOf'[r] = signature'[g].session
               /\ phase'[signature'[g].session] = "USED"
               /\ signature'[g].user = terms'[r].user
               /\ signature'[g].device = terms'[r].device
               /\ signature'[g].document = terms'[r].document
  <2> DEFINE s == job[w].session
  <2>1. PICK r \in Requests :
          /\ sessionOf[r] = s /\ status[r] = "AUTHENTICATED"
          /\ status' = [status EXCEPT ![r] = "SIGNED"]
          /\ signatureOf' = [signatureOf EXCEPT ![r] = g]
    BY <1>2, SignedRequest DEF QueueInv
  <2>2. /\ s \in Sessions /\ phase' = [phase EXCEPT ![s] = "USED"]
        /\ signature'[g] = [session |-> s, user |-> session[s].user,
                            device |-> session[s].device,
                            document |-> session[s].document]
    BY <1>2, SignatureInserted DEF QueueInv
  <2>3. /\ terms[r].user = session[s].user
        /\ terms[r].device = session[s].device
        /\ terms[r].document = session[s].document
    BY <2>1, <2>2, QueueAssumption DEF QueueInv, SessionBinding
  <2>4. sessionOf' = sessionOf /\ terms' = terms
    BY <1>2 DEF CommitSignature
  <2> QED
    BY <2>1, <2>2, <2>3, <2>4 DEF QueueInv, TypeOK
<1>3. ASSUME NEW w \in Workers, CommitSignature(w), g # job[w].signature
      PROVE  signature'[g] = signature[g]
  BY <1>3, SignatureInserted DEF QueueInv
<1> QED
  BY SignatureTable, <1>1, <1>2, <1>3 DEF QueueInv

\* The session a signature is made with is unused, so no other row names it.
LEMMA OneSignatureStep ==
  QueueInv /\ OneSignaturePerSession /\ [Next]_vars => OneSignaturePerSession'
<1> SUFFICES ASSUME QueueInv, OneSignaturePerSession, [Next]_vars
             PROVE  OneSignaturePerSession'
  OBVIOUS
<1>1. \A r \in Requests : status[r] = "SIGNED" =>
        UNCHANGED <<status[r], sessionOf[r], signatureOf[r]>>
  BY TerminalStep DEF TerminalKept, Terminal
<1>2. CASE /\ signature' = signature
           /\ \A r \in Requests : status'[r] = "SIGNED" => status[r] = "SIGNED"
  BY <1>1, <1>2 DEF OneSignaturePerSession
<1>3. ASSUME NEW w \in Workers, CommitSignature(w)
      PROVE  OneSignaturePerSession'
  <2> DEFINE s == job[w].session
             g == job[w].signature
  <2>1. PICK r \in Requests :
          /\ sessionOf[r] = s
          /\ status' = [status EXCEPT ![r] = "SIGNED"]
          /\ signatureOf' = [signatureOf EXCEPT ![r] = g]
    BY <1>3, SignedRequest DEF QueueInv
  <2>2. /\ g \in Signatures /\ Unconsumed(s)
        /\ signature'[g].session = s /\ signature'[g] # None
        /\ \A h \in Signatures : h # g => signature'[h] = signature[h]
    BY <1>3, SignatureInserted DEF QueueInv
  <2>3. ASSUME NEW h \in Signatures, NEW k \in Signatures, h # k,
               signature'[h] # None, signature'[k] # None
        PROVE  signature'[h].session # signature'[k].session
    BY <2>2, <2>3 DEF OneSignaturePerSession, Unconsumed
  <2>4. ASSUME NEW q \in Requests, status'[q] = "SIGNED"
        PROVE  \E h \in Signatures : /\ signatureOf'[q] = h
                                     /\ signature'[h] # None
                                     /\ signature'[h].session = sessionOf'[q]
    <3>1. sessionOf' = sessionOf
      BY <1>3 DEF CommitSignature
    <3>2. CASE q = r
      BY <2>1, <2>2, <3>1, <3>2 DEF QueueInv, TypeOK
    <3>3. CASE q # r
      <4>1. status[q] = "SIGNED" /\ signatureOf'[q] = signatureOf[q]
        BY <2>1, <2>4, <3>3 DEF QueueInv, TypeOK
      <4>2. PICK h \in Signatures : /\ signatureOf[q] = h
                                    /\ signature[h] # None
                                    /\ signature[h].session = sessionOf[q]
        BY <4>1 DEF OneSignaturePerSession
      <4>3. h # g
        BY <1>3, <4>2, SignatureInserted DEF QueueInv
      <4> QED
        BY <2>2, <3>1, <4>1, <4>2, <4>3
    <3> QED
      BY <3>2, <3>3
  <2> QED
    BY <2>3, <2>4 DEF OneSignaturePerSession
<1> QED
  BY SignatureTable, <1>2, <1>3 DEF QueueInv

\* The PDF is on disk before its row is committed, and is only removed by the
\* worker whose row was rolled back.
LEMMA PublishedStep ==
  QueueInv /\ PublishedBeforeCommit /\ [Next]_vars => PublishedBeforeCommit'
<1> SUFFICES ASSUME QueueInv, PublishedBeforeCommit, [Next]_vars
             PROVE  PublishedBeforeCommit'
  OBVIOUS
<1>1. ASSUME NEW w \in Workers, RecordFails(w) PROVE PublishedBeforeCommit'
  BY <1>1 DEF PublishedBeforeCommit, QueueInv, SigningHoldsRequest,
         RecordFails
<1>2. ASSUME NEW w \in Workers, CommitSignature(w) PROVE PublishedBeforeCommit'
  BY <1>2 DEF PublishedBeforeCommit, QueueInv, TypeOK, SigningHoldsRequest,
         CommitSignature
<1>3. ASSUME NEW w \in Workers, NEW g \in Signatures, Publish(w, g)
      PROVE  PublishedBeforeCommit'
  BY <1>3 DEF PublishedBeforeCommit, Publish
<1>4. CASE UNCHANGED store
  BY <1>4 DEF PublishedBeforeCommit, store
<1> QED
  <2>1. \/ \E w \in Workers : RecordFails(w) \/ CommitSignature(w)
        \/ \E w \in Workers, g \in Signatures : Publish(w, g)
        \/ UNCHANGED store
    BY DEF Next, WorkerStep, vars, CreateStart, CreateFinish, PollLock,
       PollCommit, ClaimStart, ClaimFinish, ClaimRefused, Challenge, Complete,
       CompleteReject, PersistFailure, SignStart, SignReject, Rollback,
       ReportFailure, Withdraw, Tick
  <2> QED
    BY <1>1, <1>2, <1>3, <1>4, <2>1

-----------------------------------------------------------------------------
(* Theorems *)

\* Empty tables satisfy the invariant.
LEMMA QueueInit == Init => QueueInv
<1> SUFFICES ASSUME Init PROVE QueueInv
  OBVIOUS
<1> USE QueueAssumption, RowAssumption, NoJobType
<1>1. TypeOK
  BY DEF Init, TypeOK, Statuses, Phases
<1>2. Shape /\ LocksExclusive /\ OneInFlightPerDevice
  BY DEF Init, Shape, NoJob, LocksExclusive, OneInFlightPerDevice, InFlight
<1>3. ClaimHoldsQueue /\ CreateHoldsDocument /\ SessionBinding
  BY DEF Init, NoJob, ClaimHoldsQueue, CreateHoldsDocument, SessionBinding
<1>4. SigningHoldsRequest
  BY DEF Init, NoJob, SigningHoldsRequest
<1> QED
  BY <1>1, <1>2, <1>3, <1>4 DEF QueueInv

\* QueueInv is inductive.
LEMMA QueueStep == QueueInv /\ [Next]_vars => QueueInv'
  BY TypeStep, ShapeStep, LocksStep, ClaimStep, OneInFlightStep, CreateStep,
     BindingStep, SigningStep
  DEF QueueInv

\* The inductive invariant holds in every behaviour.
THEOREM QueueInvariant == Spec => []QueueInv
<1>1. Init => QueueInv
  BY QueueInit
<1>2. QueueInv /\ [Next]_vars => QueueInv'
  BY QueueStep
<1> QED
  BY <1>1, <1>2, PTL DEF Spec

\* The columns have their types in every behaviour.
THEOREM TypeCorrect == Spec => []TypeOK
<1>1. QueueInv => TypeOK
  BY DEF QueueInv
<1> QED
  BY <1>1, QueueInvariant, PTL

\* A terminal never has two requests in flight, however claims interleave.
THEOREM OneInFlight == Spec => []OneInFlightPerDevice
<1>1. QueueInv => OneInFlightPerDevice
  BY DEF QueueInv
<1> QED
  BY <1>1, QueueInvariant, PTL

\* A document never has two active requests, however creations interleave.
THEOREM OneActive == Spec => []OneActivePerDocument
<1>1. Init => OneActivePerDocument
  BY DEF Init, OneActivePerDocument, Active, InFlight
<1>2. QueueInv /\ OneActivePerDocument /\ [Next]_vars => OneActivePerDocument'
  BY OneActiveStep
<1> QED
  BY <1>1, <1>2, QueueInvariant, PTL DEF Spec

\* No signature row exists without the SIGNED request, the consent and the
\* strong authentication of its own user.
THEOREM Consented == Spec => []SignatureIsConsented
<1>1. Init => SignatureIsConsented
  BY DEF Init, SignatureIsConsented
<1>2. QueueInv /\ SignatureIsConsented /\ [Next]_vars => SignatureIsConsented'
  BY ConsentedStep
<1> QED
  BY <1>1, <1>2, QueueInvariant, PTL DEF Spec

\* No session is used for two signatures, and SIGNED requests name theirs.
THEOREM OneSignature == Spec => []OneSignaturePerSession
<1>1. Init => OneSignaturePerSession
  BY DEF Init, OneSignaturePerSession
<1>2. QueueInv /\ OneSignaturePerSession /\ [Next]_vars
        => OneSignaturePerSession'
  BY OneSignatureStep
<1> QED
  BY <1>1, <1>2, QueueInvariant, PTL DEF Spec

\* No signature row ever points to a missing PDF.
THEOREM Published == Spec => []PublishedBeforeCommit
<1>1. Init => PublishedBeforeCommit
  BY DEF Init, PublishedBeforeCommit
<1>2. QueueInv /\ PublishedBeforeCommit /\ [Next]_vars
        => PublishedBeforeCommit'
  BY PublishedStep
<1> QED
  BY <1>1, <1>2, QueueInvariant, PTL DEF Spec

\* A finished request never changes, whatever comes late.
THEOREM TerminalFinal == Spec => TerminalIsFinal
<1>1. QueueInv /\ [Next]_vars => [TerminalKept]_vars
  BY TerminalStep
<1> QED
  BY <1>1, QueueInvariant, PTL DEF Spec, TerminalIsFinal, TerminalKept

-----------------------------------------------------------------------------
(* The handlers implement SigningContract: under the mapping of            *)
(* SignatureQueue every step is a step of the contract or leaves its       *)
(* variables alone.  Only the nine row-changing actions need an argument.  *)


-----------------------------------------------------------------------------
(* The mapped variables *)

\* An unfinished request is open in the contract.
LEMMA OpenStage ==
  ASSUME NEW r \in Requests, status[r] \in Active
  PROVE  StageOf(r) \in Contract!Open
  BY DEF StageOf, Active, InFlight, Contract!Open

\* Expiring or failing a set of open requests, and nothing else that the
\* contract can see, is Close.
LEMMA CloseStep ==
  ASSUME NEW C \in SUBSET Requests,
         \A r \in C : status[r] \in Active /\ status'[r] \in {"FAILED", "EXPIRED"},
         \A r \in Requests \ C :
           /\ StageOf(r)' = StageOf(r)
           /\ status'[r] \in InFlight <=> status[r] \in InFlight,
         terms' = terms,
         \A r \in Requests : IssuedFor(r)' = IssuedFor(r)
  PROVE  Contract!Next
<1>1. \A r \in C : StageOf(r) \in Contract!Open
  BY OpenStage
<1>2. \A r \in C : StageOf(r)' = "closed" /\ status'[r] \notin InFlight
  BY DEF StageOf, InFlight
<1>3. \A d \in Devices : InFlightOn(d)' = InFlightOn(d) \ C
  BY <1>2 DEF InFlightOn
<1>4. Contract!Close(C)
  BY <1>1, <1>2, <1>3 DEF Contract!Close
<1> QED
  BY <1>4 DEF Contract!Next

\* Signatures issued for a request depend on its session and the table only.
LEMMA IssuedKept ==
  ASSUME UNCHANGED <<sessionOf, signature>>
  PROVE  \A r \in Requests : IssuedFor(r)' = IssuedFor(r)
  BY DEF IssuedFor

-----------------------------------------------------------------------------
(* The row-changing actions *)

\* A request that is inserted is asked for.
LEMMA CreateMaps ==
  ASSUME QueueInv, NEW w \in Workers, NEW r \in Requests, NEW d \in Devices,
         CreateFinish(w, r, d)
  PROVE  Contract!Next
<1>1. /\ status[r] = "NONE" /\ status'[r] = "PENDING"
      /\ \A q \in Requests : q # r => /\ status'[q] = status[q]
                                      /\ terms'[q] = terms[q]
  BY DEF CreateFinish, QueueInv, TypeOK
<1>2. StageOf(r) = "absent" /\ StageOf(r)' = "waiting"
  BY <1>1 DEF StageOf
<1>3. \A q \in Requests : q # r => StageOf(q)' = StageOf(q)
  BY <1>1 DEF StageOf
<1>4. \A e \in Devices : InFlightOn(e)' = InFlightOn(e)
  BY <1>1 DEF InFlightOn, InFlight
<1>5. \A q \in Requests : IssuedFor(q)' = IssuedFor(q)
  BY IssuedKept DEF CreateFinish, store
<1>6. Contract!Ask(r)
  BY <1>2, <1>3, <1>4, <1>5 DEF Contract!Ask
<1> QED
  BY <1>6 DEF Contract!Next

\* The end of a claim presents the request it claims, if any, and closes the
\* overdue ones it had locked.
LEMMA ClaimMaps ==
  ASSUME QueueInv, NEW w \in Workers, ClaimFinish(w)
  PROVE  Contract!Next
<1>0. PICK d \in Devices : d = job[w].device
  BY DEF ClaimFinish, QueueInv, TypeOK, Shape, Job
<1> DEFINE C == job[w].locked
           K == Candidates(d, job[w].at)
           O == {r \in K : \A q \in K : r <= q}
<1>1. /\ C \in SUBSET Requests /\ terms' = terms
      /\ \A r \in C : /\ Due(r) /\ status'[r] = "EXPIRED"
                      /\ terms[r].device = d
      /\ InFlightOn(d) \subseteq C
      /\ \A r \in O : r \in Requests /\ r \notin C
      /\ \A r \in O : /\ status[r] = "PENDING" /\ status'[r] = "CLAIMED"
                      /\ terms[r].device = d
      /\ \A r \in Requests : (r \notin C /\ r \notin O) => status'[r] = status[r]
  <2>1. C \in SUBSET Requests
    BY DEF QueueInv, TypeOK, Job
  <2>2. /\ \A r \in C : Due(r) /\ terms[r].device = d
        /\ InFlightOn(d) \subseteq C
    BY <1>0 DEF ClaimFinish, QueueInv, ClaimHoldsQueue
  <2>3. \A r \in O : /\ r \in Requests /\ r \notin C
                     /\ status[r] = "PENDING" /\ terms[r].device = d
    BY DEF Candidates, Locked
  <2>4. /\ terms' = terms
        /\ status' = [r \in Requests |->
                        CASE r \in C -> "EXPIRED"
                          [] r \notin C /\ r \in O -> "CLAIMED"
                          [] OTHER -> status[r]]
    BY <1>0 DEF ClaimFinish
  <2> HIDE DEF C, O
  <2>5. /\ \A r \in C : status'[r] = "EXPIRED"
        /\ \A r \in O : status'[r] = "CLAIMED"
        /\ \A r \in Requests : (r \notin C /\ r \notin O) => status'[r] = status[r]
    BY <2>1, <2>3, <2>4
  <2> QED
    BY <2>1, <2>2, <2>3, <2>4, <2>5
<1>2. \A r, q \in O : r = q
  <2> SUFFICES ASSUME NEW r \in O, NEW q \in O PROVE r = q
    OBVIOUS
  <2>1. r <= q /\ q <= r
    OBVIOUS
  <2>2. r \in Nat /\ q \in Nat
    BY QueueAssumption DEF Candidates
  <2> QED
    BY <2>1, <2>2
<1>3. \A r \in Requests : IssuedFor(r)' = IssuedFor(r)
  BY IssuedKept DEF ClaimFinish, store
<1> HIDE DEF C, O
<1>4. \A r \in C : /\ r \in Requests /\ status[r] \in Active
                   /\ StageOf(r) \in Contract!Open
                   /\ StageOf(r)' = "closed" /\ status'[r] \notin InFlight
  <2>1. \A r \in C : r \in Requests /\ status[r] \in Active
    BY <1>1 DEF Due, Expirable, Active, InFlight
  <2> QED
    BY <1>1, <2>1, OpenStage DEF StageOf, InFlight
<1>5. CASE O = {}
  <2>1. \A r \in Requests \ C : status'[r] = status[r]
    BY <1>1, <1>5
  <2>2. \A r \in Requests \ C : StageOf(r)' = StageOf(r)
    BY <2>1 DEF StageOf
  <2> QED
    BY <1>1, <1>3, <1>4, <2>1, <2>2, CloseStep
<1>6. ASSUME NEW r \in O
      PROVE  Contract!Next
  <2>1. StageOf(r) = "waiting" /\ StageOf(r)' = "presented"
    BY <1>1, <1>6 DEF StageOf
  <2>2. \A q \in Requests : (q \notin C /\ q # r) =>
          StageOf(q)' = StageOf(q) /\ status'[q] = status[q]
    BY <1>1, <1>2, <1>6 DEF StageOf
  <2>3. InFlightOn(d)' = {r}
    <3>1. r \in InFlightOn(d)'
      BY <1>1, <1>6 DEF InFlightOn, InFlight
    <3>2. \A q \in InFlightOn(d)' : q = r
      BY <1>1, <1>4, <2>2 DEF InFlightOn
    <3> QED
      BY <3>1, <3>2
  <2>4. \A e \in Devices : e # d => InFlightOn(e)' = InFlightOn(e) \ C
    BY <1>1, <1>4, <2>2 DEF InFlightOn
  <2>5. r \in Requests /\ r \notin C /\ C \in SUBSET Requests
    BY <1>1, <1>6
  <2>6. InFlightOn(d) \subseteq C
    BY <1>1
  <2>7. Contract!Present(d, r, C)
    BY <1>3, <1>4, <2>1, <2>2, <2>3, <2>4, <2>5, <2>6 DEF Contract!Present
  <2> QED
    BY <2>5, <2>7 DEF Contract!Next
<1> QED
  BY <1>5, <1>6

\* A challenge leaves the presented request presented, or closes it when it
\* is overdue; the fresh session has no signature.
LEMMA ChallengeMaps ==
  ASSUME QueueInv, SignatureIsConsented, NEW d \in Devices, NEW u \in Users,
         NEW doc \in Documents, NEW s \in Sessions, Challenge(d, u, doc, s)
  PROVE  Contract!Next
<1> DEFINE C == {r \in Attachable(d, doc) : Due(r)}
           A == {r \in Attachable(d, doc) : ~Due(r)}
<1>1. /\ \A r \in C : status[r] = "CLAIMED" /\ status'[r] = "EXPIRED"
      /\ \A r \in A : /\ status[r] = "CLAIMED"
                      /\ status'[r] = "AUTHENTICATING"
                      /\ sessionOf[r] = None /\ sessionOf'[r] = s
      /\ \A r \in Requests : r \notin A => sessionOf'[r] = sessionOf[r]
      /\ \A r \in Requests : (r \notin A /\ r \notin C) => status'[r] = status[r]
      /\ C \in SUBSET Requests /\ terms' = terms /\ signature' = signature
  BY DEF Challenge, Attachable, store
<1> HIDE DEF A, C
<1>2. \A g \in Signatures : signature[g] # None =>
        signature[g].session # None /\ signature[g].session # s
  <2>1. ASSUME NEW g \in Signatures, signature[g] # None
        PROVE  signature[g].session # None /\ signature[g].session # s
    <3>1. signature[g].session \in Sessions
      BY <2>1 DEF QueueInv, TypeOK, SignatureRow
    <3>2. phase[signature[g].session] = "USED" /\ phase[s] = "NONE"
      BY <2>1 DEF SignatureIsConsented, Challenge
    <3> QED
      BY <3>1, <3>2, QueueAssumption
  <2> QED
    BY <2>1
<1>3. \A r \in Requests : IssuedFor(r)' = IssuedFor(r)
  <2>1. ASSUME NEW r \in Requests PROVE IssuedFor(r)' = IssuedFor(r)
    <3>1. CASE r \in A
      BY <1>1, <1>2, <3>1 DEF IssuedFor
    <3>2. CASE r \notin A
      BY <1>1, <3>2 DEF IssuedFor
    <3> QED
      BY <3>1, <3>2
  <2> QED
    BY <2>1
<1>4. \A r \in C : status[r] \in Active /\ status'[r] \in {"FAILED", "EXPIRED"}
  BY <1>1 DEF Active, InFlight
<1>5. \A r \in Requests \ C : /\ StageOf(r)' = StageOf(r)
                              /\ status'[r] \in InFlight <=> status[r] \in InFlight
  BY <1>1 DEF StageOf, InFlight
<1> QED
  BY <1>1, <1>3, <1>4, <1>5, CloseStep

\* A completed authentication proves the one request its session is for.
LEMMA CompleteMaps ==
  ASSUME QueueInv, NEW s \in Sessions, NEW finger \in Users, Complete(s, finger)
  PROVE  Contract!Next
<1>1. PICK r \in Requests : sessionOf[r] = s /\ status[r] = "AUTHENTICATING"
  BY DEF Complete, IsAuthorized, Authorized, RequestsOf
<1>2. \A q \in Requests : q # r => sessionOf[q] # s
  BY <1>1, QueueAssumption DEF QueueInv, SessionBinding
<1>3. /\ status'[r] = "AUTHENTICATED"
      /\ \A q \in Requests : q # r => status'[q] = status[q]
      /\ terms' = terms
  BY <1>1, <1>2 DEF Complete, RequestsOf
<1>4. StageOf(r) = "presented" /\ StageOf(r)' = "proved"
  BY <1>1, <1>3 DEF StageOf
<1>5. \A q \in Requests : q # r => StageOf(q)' = StageOf(q)
  BY <1>3 DEF StageOf
<1>6. \A d \in Devices : InFlightOn(d)' = InFlightOn(d)
  BY <1>1, <1>3 DEF InFlightOn, InFlight
<1>7. \A q \in Requests : IssuedFor(q)' = IssuedFor(q)
  BY IssuedKept DEF Complete, store
<1>8. Contract!Prove(r)
  BY <1>4, <1>5, <1>6, <1>7 DEF Contract!Prove
<1> QED
  BY <1>8 DEF Contract!Next

\* The commit of sign_document issues its signature for the proved request.
LEMMA CommitMaps ==
  ASSUME QueueInv, NEW w \in Workers, CommitSignature(w)
  PROVE  Contract!Next
<1>1. PICK s \in Sessions, g \in Signatures :
        /\ s = job[w].session /\ g = job[w].signature
        /\ Unconsumed(s) /\ signature[g] = None
        /\ signature'[g] # None /\ signature'[g].session = s
        /\ \A h \in Signatures : h # g => signature'[h] = signature[h]
  BY SignatureInserted DEF QueueInv
<1>2. PICK r \in Requests :
        /\ sessionOf[r] = s /\ status[r] = "AUTHENTICATED"
        /\ status' = [status EXCEPT ![r] = "SIGNED"]
  BY <1>1, SignedRequest DEF QueueInv
<1>3. /\ status'[r] = "SIGNED"
      /\ \A q \in Requests : q # r => status'[q] = status[q]
      /\ terms' = terms /\ sessionOf' = sessionOf
  BY <1>2 DEF CommitSignature, QueueInv, TypeOK
<1>4. \A q \in Requests : q # r => sessionOf[q] # s
  BY <1>2, QueueAssumption DEF QueueInv, SessionBinding
<1>5. StageOf(r) = "proved" /\ StageOf(r)' = "signed"
  BY <1>2, <1>3 DEF StageOf
<1>6. \A q \in Requests : q # r => StageOf(q)' = StageOf(q)
  BY <1>3 DEF StageOf
<1>7. \A d \in Devices : InFlightOn(d)' = InFlightOn(d) \ {r}
  BY <1>3 DEF InFlightOn, InFlight
<1>8. IssuedFor(r) = {} /\ IssuedFor(r)' = {g}
  <2>1. IssuedFor(r) = {}
    BY <1>1, <1>2 DEF IssuedFor, Unconsumed
  <2>2. \A h \in Signatures : h # g =>
          (signature'[h] # None => signature'[h].session # s)
    BY <1>1 DEF Unconsumed
  <2> QED
    BY <1>1, <1>2, <1>3, <2>1, <2>2 DEF IssuedFor
<1>9. \A q \in Requests : q # r => IssuedFor(q)' = IssuedFor(q)
  BY <1>1, <1>3, <1>4 DEF IssuedFor
<1>10. \A q \in Requests : g \notin IssuedFor(q)
  BY <1>1 DEF IssuedFor
<1>11. Contract!Issue(r, g)
  BY <1>5, <1>6, <1>7, <1>8, <1>9, <1>10 DEF Contract!Issue
<1> QED
  BY <1>11 DEF Contract!Next

\* The other row-changing actions expire or fail requests that are not
\* finished.
LEMMA CloseMaps ==
  ASSUME QueueInv,
         \/ \E w \in Workers : PollCommit(w) \/ PersistFailure(w)
         \/ \E d \in Devices, t \in 0 .. now : ClaimRefused(d, t)
         \/ \E r \in Requests, d \in Devices : ReportFailure(r, d)
  PROVE  Contract!Next
<1> DEFINE C == {r \in Requests : status'[r] # status[r]}
<1>1. \A r \in C : status[r] \in Active /\ status'[r] \in {"FAILED", "EXPIRED"}
  <2>1. ASSUME NEW w \in Workers, PollCommit(w) \/ PersistFailure(w),
               NEW r \in C
        PROVE  status[r] \in Active /\ status'[r] \in {"FAILED", "EXPIRED"}
    BY <2>1 DEF PollCommit, PersistFailure, AfterFailure, Due, Expirable,
                Active, InFlight
  <2>2. ASSUME NEW d \in Devices, NEW t \in 0 .. now, ClaimRefused(d, t), NEW r \in C
        PROVE  status[r] \in Active /\ status'[r] \in {"FAILED", "EXPIRED"}
    BY <2>2 DEF ClaimRefused, DueOn, Due, Expirable, Active, InFlight
  <2>3. ASSUME NEW q \in Requests, NEW d \in Devices, ReportFailure(q, d),
               NEW r \in C
        PROVE  status[r] \in Active /\ status'[r] \in {"FAILED", "EXPIRED"}
    BY <2>3 DEF ReportFailure, AfterFailure, Due, Expirable, Active, InFlight,
                QueueInv, TypeOK
  <2> QED
    BY <2>1, <2>2, <2>3
<1>2. \A r \in Requests \ C : /\ StageOf(r)' = StageOf(r)
                              /\ status'[r] \in InFlight <=> status[r] \in InFlight
  BY DEF StageOf
<1>3. UNCHANGED <<terms, sessionOf, signature>>
  BY DEF PollCommit, PersistFailure, ClaimRefused, ReportFailure, store
<1>4. \A r \in Requests : IssuedFor(r)' = IssuedFor(r)
  BY <1>3, IssuedKept
<1>5. C \in SUBSET Requests
  OBVIOUS
<1> HIDE DEF C
<1> QED
  BY <1>1, <1>2, <1>3, <1>4, <1>5, CloseStep

-----------------------------------------------------------------------------
(* The refinement *)

\* Every step of the handlers is a step of the contract, or a stutter.
LEMMA ContractStep ==
  QueueInv /\ SignatureIsConsented /\ [Next]_vars
    => [Contract!Next]_(Contract!contractVars)
<1> SUFFICES ASSUME QueueInv, SignatureIsConsented, [Next]_vars
             PROVE  Contract!Next \/ UNCHANGED Contract!contractVars
  OBVIOUS
<1>1. CASE UNCHANGED <<rows, auth, signature>>
  <2>1. /\ \A r \in Requests : StageOf(r)' = StageOf(r)
        /\ \A d \in Devices : InFlightOn(d)' = InFlightOn(d)
        /\ \A r \in Requests : IssuedFor(r)' = IssuedFor(r)
    BY <1>1, IssuedKept DEF StageOf, InFlightOn, rows
  <2> QED
    BY <2>1 DEF Contract!contractVars
<1> QED
  BY <1>1, RowStep, CreateMaps, ClaimMaps, ChallengeMaps, CompleteMaps,
     CommitMaps, CloseMaps

\* The code implements the contract: for any number of requests, devices and
\* server threads, the only way to a signature is to wait, be presented alone
\* on a terminal, be proved by a fingerprint and be signed once.
THEOREM Implementation == Spec => ImplementsContract
<1>1. Init => Contract!Init
  BY DEF Init, Contract!Init, StageOf, InFlightOn, InFlight, IssuedFor
<1>2. QueueInv /\ SignatureIsConsented /\ [Next]_vars
        => [Contract!Next]_(Contract!contractVars)
  BY ContractStep
<1> QED
  BY <1>1, <1>2, QueueInvariant, Consented, PTL
  DEF Spec, ImplementsContract, Contract!Spec

-----------------------------------------------------------------------------
(* The composition is a queue                                              *)

\* The terminal touches nothing of the server.
LEMMA FirmwareIsOutside ==
  ASSUME NEW d \in Devices, Firmware(d)
  PROVE  UNCHANGED vars
  BY DEF Firmware, Poll, Send, Receive, Garbled, GiveUp, ReadCard, ReadFinger,
     TimeOut, Finish, Reboot

\* A call that exists has its fields.
LEMMA CallType ==
  ASSUME DeviceTypeOK, NEW c \in Calls, call[c] # NoCall
  PROVE  /\ call[c] \in Call
         /\ call[c].op \in Calling
         /\ call[c].device \in Devices
         /\ call[c].sent \in Memory
         /\ call[c].worker \in Workers \cup {None}
         /\ call[c].code \in {Pending, 200, 204, 403, 429, 503}
         /\ call[c].body \in Bodies
<1>1. call[c] \in Call
  BY DEF DeviceTypeOK
<1> QED
  BY <1>1 DEF Call

\* A call that is run has a worker of its own; nothing else has one.
LEMMA RunningType ==
  ASSUME DeviceTypeOK, NEW c \in Calls, NEW kinds, Running(c, kinds)
  PROVE  call[c] # NoCall /\ call[c].worker \in Workers
<1>1. call[c] # NoCall
  BY DEF Running, NoCall
<1> QED
  BY <1>1, CallType DEF Running

\* What the server does with a call is a step of the queue.
LEMMA ServeStep ==
  ASSUME QueueInv, DeviceInv, NEW c \in Calls, Serve(c) \/ Damaged(c)
  PROVE  [Next]_vars
<1> USE QueueAssumption, DeviceAssumption
<1>a. DeviceTypeOK /\ CallShape /\ TypeOK /\ Shape
  BY DEF DeviceInv, QueueInv
<1>1. ASSUME NEW w \in Workers, NextStart(c, w) PROVE [Next]_vars
  <2>1. call[c].device \in Devices /\ now \in 0 .. now
    BY <1>1, <1>a, CallType DEF NextStart, Arrived, TypeOK
  <2> QED
    BY <1>1, <2>1 DEF NextStart, Next, WorkerStep
<1>2. ASSUME NextFinish(c) PROVE [Next]_vars
  <2>1. call[c].worker \in Workers
    BY <1>2, <1>a, RunningType DEF NextFinish
  <2> QED
    BY <1>2, <2>1 DEF NextFinish, Next, WorkerStep
<1>3. ASSUME NextNothing(c) PROVE [Next]_vars
  <2>1. call[c].device \in Devices /\ now \in 0 .. now
    BY <1>3, <1>a, CallType DEF NextNothing, Arrived, TypeOK
  <2> QED
    BY <1>3, <2>1 DEF NextNothing, Next
<1>4. ASSUME NEW s \in Sessions, ChallengeOpens(c, s) PROVE [Next]_vars
  <2>1. /\ call[c].device \in Devices
        /\ call[c].sent \in Memory
        /\ call[c].sent.request # None
    BY <1>4, <1>a, CallType DEF ChallengeOpens, Arrived, CallShape, Shaped
  <2>2. call[c].sent.card \in Users /\ call[c].sent.request \in Requests
    BY <2>1, <1>4 DEF ChallengeOpens, Memory
  <2>3. status[call[c].sent.request] # "NONE"
    BY <1>4, <2>1 DEF ChallengeOpens, Arrived, DeviceInv, Truthful, Learned,
       Delivered
  <2>4. DocumentOf(c) \in Documents
    BY <2>2, <2>3, <1>a DEF DocumentOf, Shape, TypeOK, TermsRow
  <2> QED
    BY <1>4, <2>1, <2>2, <2>4 DEF ChallengeOpens, Next
<1>5. ASSUME ChallengeRefused(c) \/ CompleteRepeated(c) PROVE [Next]_vars
  BY <1>5 DEF ChallengeRefused, CompleteRepeated
<1>6. ASSUME Completes(c) PROVE [Next]_vars
  <2>1. call[c].sent \in Memory /\ call[c].sent.session # None
    BY <1>6, <1>a, CallType DEF Completes, Arrived, CallShape, Shaped
  <2>2. call[c].sent.session \in Sessions
    BY <2>1 DEF Memory
  <2>3. session[call[c].sent.session] \in SessionRow
    BY <1>6, <2>2, <1>a DEF Completes, Complete, Shape, TypeOK
  <2>4. call[c].sent.finger \in Users
    BY <1>6, <2>3 DEF Completes, Complete, CredentialHolds, SessionRow
  <2> QED
    BY <1>6, <2>2, <2>4 DEF Completes, Next
<1>7. ASSUME NEW w \in Workers, CompleteFatal(c, w) PROVE [Next]_vars
  <2>1. call[c].sent \in Memory /\ call[c].sent.session # None
    BY <1>7, <1>a, CallType DEF CompleteFatal, Arrived, CallShape, Shaped
  <2>2. /\ call[c].sent.session \in Sessions
        /\ call[c].sent.finger \in Users \cup {None}
    BY <2>1 DEF Memory
  <2> QED
    BY <1>7, <2>2 DEF CompleteFatal, Next, WorkerStep
<1>8. ASSUME NEW w \in Workers, NEW intact \in BOOLEAN,
             SignBegins(c, w) \/ SignFatal(c, w, intact)
      PROVE  [Next]_vars
  <2>1. call[c].sent \in Memory /\ call[c].sent.session # None
    BY <1>8, <1>a, CallType DEF SignBegins, SignFatal, Arrived, CallShape, Shaped
  <2>2. call[c].sent.session \in Sessions
    BY <2>1 DEF Memory
  <2> QED
    BY <1>8, <2>2 DEF SignBegins, SignFatal, Next, WorkerStep
<1>9. ASSUME NEW g \in Signatures, SignPublishes(c, g) PROVE [Next]_vars
  <2>1. call[c].worker \in Workers
    BY <1>9, <1>a, RunningType DEF SignPublishes
  <2> QED
    BY <1>9, <2>1 DEF SignPublishes, Next, WorkerStep
<1>10. ASSUME SignCommits(c) PROVE [Next]_vars
  <2>1. call[c].worker \in Workers
    BY <1>10, <1>a, RunningType DEF SignCommits
  <2> QED
    BY <1>10, <2>1 DEF SignCommits, Next, WorkerStep
<1>11. ASSUME Rejected(c) PROVE [Next]_vars
  <2>1. call[c].worker \in Workers
    BY <1>11, <1>a, RunningType DEF Rejected
  <2> QED
    BY <1>11, <2>1 DEF Rejected, Next, WorkerStep
<1>12. ASSUME Reports(c) PROVE [Next]_vars
  <2>1. /\ call[c].device \in Devices
        /\ call[c].sent \in Memory
        /\ call[c].sent.request # None
    BY <1>12, <1>a, CallType DEF Reports, Arrived, CallShape, Shaped
  <2>2. call[c].sent.request \in Requests
    BY <2>1 DEF Memory
  <2> QED
    BY <1>12, <2>1, <2>2 DEF Reports, Next
<1> QED
  BY <1>1, <1>2, <1>3, <1>4, <1>5, <1>6, <1>7, <1>8, <1>9, <1>10, <1>11,
     <1>12
  DEF Serve, Damaged

\* So is every step of the composition.
LEMMA DeviceStepIsQueueStep ==
  ASSUME QueueInv, DeviceInv, [DeviceNext]_allVars
  PROVE  [Next]_vars
<1>a. DeviceTypeOK
  BY DEF DeviceInv
<1>1. ASSUME NEW d \in Devices, Firmware(d) PROVE [Next]_vars
  BY <1>1, FirmwareIsOutside
<1>2. ASSUME NEW c \in Calls, Vanish(c) PROVE [Next]_vars
  BY <1>2 DEF Vanish
<1>3. ASSUME NEW c \in Calls, Serve(c) \/ Damaged(c) PROVE [Next]_vars
  BY <1>3, ServeStep
<1>8. ASSUME NEW c \in Calls, Unauthorized(c) PROVE [Next]_vars
  BY <1>8 DEF Unauthorized
<1>4. ASSUME NEW c \in Calls, Unavailable(c) PROVE [Next]_vars
  <2>1. CASE UNCHANGED vars
    BY <2>1
  <2>2. CASE \/ /\ Running(c, {"claiming", "signing", "published"})
                /\ Rollback(call[c].worker)
             \/ /\ Running(c, {"published"})
                /\ RecordFails(call[c].worker)
    <3>1. call[c].worker \in Workers
      BY <2>2, <1>a, RunningType
    <3> QED
      BY <2>2, <3>1 DEF Next, WorkerStep
  <2> QED
    BY <1>4, <2>1, <2>2 DEF Unavailable
<1>5. ASSUME NEW w \in Workers, BrowserCalls(w) \/ BrowserEnds(w)
      PROVE  [Next]_vars
  BY <1>5 DEF BrowserCalls, BrowserEnds, Next, WorkerStep
<1>6. ASSUME Environment PROVE [Next]_vars
  BY <1>6 DEF Environment, Next
<1>7. CASE UNCHANGED allVars
  BY <1>7 DEF allVars
<1> QED
  BY <1>1, <1>2, <1>3, <1>4, <1>5, <1>6, <1>7, <1>8 DEF DeviceNext

-----------------------------------------------------------------------------
(* What the server never takes back                                        *)

\* Rows keep their columns, and what has been delivered, finished, opened or
\* signed stays so.
Grow ==
  /\ \A r \in Requests :
       /\ status[r] # "NONE" => terms'[r] = terms[r]
       /\ status[r] \notin {"NONE", "PENDING"} =>
            status'[r] \notin {"NONE", "PENDING"}
       /\ status[r] \in Terminal => status'[r] \in Terminal
  /\ \A s \in Sessions : phase[s] # "NONE" =>
       phase'[s] # "NONE" /\ session'[s] = session[s]
  /\ \A g \in Signatures : signature[g] # None => signature'[g] = signature[g]

LEMMA GrowStep ==
  ASSUME QueueInv, [Next]_vars
  PROVE  Grow
<1> USE QueueAssumption, RowAssumption
<1>a. /\ TypeOK /\ Shape /\ SigningHoldsRequest
      /\ \A r \in Requests : status[r] \in Terminal => status'[r] = status[r]
  BY TerminalStep DEF QueueInv, TerminalKept
<1>1. ASSUME NEW w \in Workers, NEW r \in Requests, NEW d \in Devices,
             CreateFinish(w, r, d)
      PROVE  Grow
  BY <1>1, <1>a DEF Grow, CreateFinish, TypeOK, auth, store
<1>2. ASSUME NEW w \in Workers, PollCommit(w) \/ ClaimFinish(w)
      PROVE  Grow
  BY <1>2, <1>a DEF Grow, PollCommit, ClaimFinish, TypeOK, auth, store
<1>3. ASSUME NEW w \in Workers, PersistFailure(w) PROVE Grow
  BY <1>3, <1>a DEF Grow, PersistFailure, AfterFailure, TypeOK, auth, store
<1>4. ASSUME NEW d \in Devices, NEW t \in 0 .. now, ClaimRefused(d, t)
      PROVE  Grow
  BY <1>4, <1>a DEF Grow, ClaimRefused, TypeOK, auth, store
<1>5. ASSUME NEW d \in Devices, NEW u \in Users, NEW doc \in Documents,
             NEW s \in Sessions, Challenge(d, u, doc, s)
      PROVE  Grow
  BY <1>5, <1>a DEF Grow, Challenge, TypeOK, store
<1>6. ASSUME NEW s \in Sessions, NEW finger \in Users, Complete(s, finger)
      PROVE  Grow
  BY <1>6, <1>a DEF Grow, Complete, TypeOK, store
<1>7. ASSUME NEW r \in Requests, NEW d \in Devices, ReportFailure(r, d)
      PROVE  Grow
  BY <1>7, <1>a DEF Grow, ReportFailure, AfterFailure, TypeOK, auth, store
<1>8. ASSUME NEW w \in Workers, CommitSignature(w) PROVE Grow
  <2>1. signature[job[w].signature] = None
    BY <1>8, <1>a DEF CommitSignature, SigningHoldsRequest
  <2> QED
    BY <1>8, <2>1, <1>a DEF Grow, CommitSignature, TypeOK
<1>9. CASE UNCHANGED <<rows, auth, signature>>
  BY <1>9, <1>a DEF Grow, rows, auth
<1> QED
  BY RowStep, <1>1, <1>2, <1>3, <1>4, <1>5, <1>6, <1>7, <1>8, <1>9

\* What a terminal has learned stays true.
LEMMA LearnedKept ==
  ASSUME Grow, TypeOK, shown \subseteq shown', NEW state, NEW d,
         NEW m \in Memory, state \notin {"IDLE", "POLL_NEXT"} => m.request # None,
         Learned(state, d, m)
  PROVE  Learned(state, d, m)'
<1>1. m.request # None => m.request \in Requests
  BY DEF Memory
<1>2. m.session # None => m.session \in Sessions
  BY DEF Memory
<1>3. m.request # None => Delivered(m.request)' /\ terms'[m.request] = terms[m.request]
  BY <1>1 DEF Learned, Delivered, Grow
<1>4. m.session # None => m.request # None /\ Opened(d, m)'
  BY <1>1, <1>2, <1>3 DEF Learned, Opened, Grow
<1>5. state \in {"COMPLETE_AUTH", "SIGN_DOCUMENT", "SUCCESS"} =>
        (FactorsOf(d, m) \in shown)'
  BY <1>3 DEF Learned, FactorsOf
<1>6. state = "SUCCESS" => Signed(m)'
  BY <1>1, <1>3 DEF Learned, Signed, Grow
<1> QED
  BY <1>3, <1>4, <1>5, <1>6 DEF Learned

\* So does what an answer says.
LEMMA ToldKept ==
  ASSUME Grow, TypeOK, NEW op \in Calling, NEW d, NEW m \in Memory, NEW body,
         op # "POLL_NEXT" => m.request # None /\ Delivered(m.request),
         op = "POLL_NEXT" => body \in Requests,
         op = "CHALLENGE" => body \in Sessions,
         Told(op, d, m, body)
  PROVE  Told(op, d, m, body)'
<1>1. op # "POLL_NEXT" =>
        m.request \in Requests /\ terms'[m.request] = terms[m.request]
  BY DEF Memory, Delivered, Grow
<1>2. CASE op = "POLL_NEXT"
  BY <1>2 DEF Told, Delivered, Grow
<1>3. CASE op = "CHALLENGE"
  <2>1. /\ [m EXCEPT !.session = body].session = body
        /\ [m EXCEPT !.session = body].request = m.request
        /\ [m EXCEPT !.session = body].card = m.card
    BY DEF Memory
  <2> QED
    BY <1>1, <1>3, <2>1 DEF Told, Opened, Grow
<1>4. CASE op = "COMPLETE_AUTH"
  BY <1>4 DEF Told
<1>5. CASE op = "SIGN_DOCUMENT"
  BY <1>1, <1>5 DEF Told, Signed, Grow
<1>6. CASE op = "REPORT_FAILED"
  BY <1>1, <1>6 DEF Told, Grow
<1> QED
  BY <1>2, <1>3, <1>4, <1>5, <1>6 DEF Calling

-----------------------------------------------------------------------------
(* What one step does to a terminal                                        *)

\* What the memory of a terminal in this state holds.
Fits(state, m) ==
  /\ state \in {"IDLE", "POLL_NEXT"} => m = Cleared
  /\ state \notin {"IDLE", "POLL_NEXT"} => m.request # None
  /\ state \in {"WAIT_FINGERPRINT", "COMPLETE_AUTH", "SIGN_DOCUMENT",
                "SUCCESS"} => m.session # None
  /\ state = "WAIT_RFID" => m.session = None

LEMMA TerminalFits ==
  ASSUME DeviceInv, NEW d \in Devices
  PROVE  /\ workflowState[d] \in WorkflowStates
         /\ memory[d] \in Memory
         /\ Fits(workflowState[d], memory[d])
         /\ Learned(workflowState[d], d, memory[d])
  BY DEF DeviceInv, DeviceTypeOK, TerminalShape, Truthful, Fits

LEMMA ClearedFits ==
  /\ Cleared \in Memory
  /\ Cleared.request = None /\ Cleared.session = None
  BY DEF Cleared, Memory

\* The terminal has heard that the report of its request is refused.
LetGo(d) ==
  /\ awaited[d] # None
  /\ Refused(awaited[d])
  /\ memory[d].request \in mislaid'

\* The terminal d enters the state with m in its memory: they fit, what it
\* then believes is true, and the request it forgets is finished.
Move(d, state, m) ==
  /\ state \in WorkflowStates
  /\ m \in Memory
  /\ Enter(d, state, m)
  /\ Fits(state, m)
  /\ Learned(state, d, m)'
  /\ memory[d].request \notin {None, m.request} =>
       status[memory[d].request] \in Terminal \/ reboots' # reboots \/ LetGo(d)

\* Nothing is believed by a terminal without request.
LEMMA NothingLearned ==
  ASSUME NEW d, NEW state \in {"IDLE", "POLL_NEXT"}
  PROVE  Learned(state, d, Cleared)' /\ Fits(state, Cleared)
  BY ClearedFits DEF Learned, Fits

\* To stay in its state is a move, if the server forgets nothing.
LEMMA StayIsMove ==
  ASSUME QueueInv, DeviceInv, Grow, shown \subseteq shown',
         NEW d \in Devices, UNCHANGED <<workflowState, memory>>
  PROVE  \E state, m : m = memory[d] /\ Move(d, state, m)
<1>1. TypeOK /\ DeviceTypeOK
  BY DEF QueueInv, DeviceInv
<1>2. PICK state, m : state = workflowState[d] /\ m = memory[d]
  OBVIOUS
<1>3. /\ state \in WorkflowStates /\ m \in Memory
      /\ Fits(state, m) /\ Learned(state, d, m)
  BY <1>2, TerminalFits
<1>4. Learned(state, d, m)'
  BY <1>1, <1>3, LearnedKept DEF Fits
<1>5. Enter(d, state, m)
  BY <1>1, <1>2 DEF Enter, DeviceTypeOK
<1>6. Move(d, state, m)
  BY <1>2, <1>3, <1>4, <1>5 DEF Move
<1> QED
  BY <1>2, <1>6

\* What a call that is awaited carries is what its terminal knows.
LEMMA AwaitedCall ==
  ASSUME DeviceInv, NEW d \in Devices, awaited[d] # None
  PROVE  LET c == awaited[d] IN
         /\ c \in Calls /\ call[c] # NoCall
         /\ workflowState[d] \in Calling
         /\ call[c].op = workflowState[d]
         /\ call[c].device = d
         /\ call[c].sent = memory[d]
         /\ call[c].code = 200 =>
              Told(workflowState[d], d, memory[d], call[c].body)
<1>1. awaited[d] \in Calls
  BY DEF DeviceInv, DeviceTypeOK
<1> QED
  BY <1>1 DEF DeviceInv, TerminalShape, Truthful

\* Whatever the terminal hears, and if it hears nothing, it makes a move; an
\* answer of /next with a request is kept.
LEMMA AfterCallMoves ==
  ASSUME QueueInv, DeviceInv, NEW d \in Devices, awaited[d] # None,
         NEW code, NEW body,
         \/ code = -1 /\ body = None
         \/ /\ call[awaited[d]].code = code /\ code # Pending
            /\ body = call[awaited[d]].body
         \/ call[awaited[d]].code = 200 /\ code = 200 /\ body = None,
         code = 403 => Dropped(awaited[d]) \subseteq mislaid',
         UNCHANGED <<vars, shown>>, AfterCall(d, code, body)
  PROVE  \E state, m :
           /\ Move(d, state, m)
           /\ workflowState[d] = "POLL_NEXT" /\ code = 200 /\ body # None
                => m.request = body
<1> USE QueueAssumption, DeviceAssumption
<1> DEFINE c == awaited[d]
           Kept(m) == workflowState[d] = "POLL_NEXT" /\ code = 200 /\ body # None
                        => m.request = body
<1>a. DeviceTypeOK /\ TypeOK /\ CallShape /\ Grow
  BY DEF DeviceInv, QueueInv, Grow, vars, rows, auth, store
<1>b. /\ c \in Calls /\ call[c] # NoCall
      /\ workflowState[d] \in Calling
      /\ call[c].op = workflowState[d] /\ call[c].sent = memory[d]
      /\ call[c].code = 200 =>
           Told(workflowState[d], d, memory[d], call[c].body)
  BY AwaitedCall
<1>c. /\ workflowState[d] \in WorkflowStates /\ memory[d] \in Memory
      /\ Fits(workflowState[d], memory[d])
      /\ Learned(workflowState[d], d, memory[d])
  BY TerminalFits
<1>d. ASSUME UNCHANGED <<workflowState, memory>>, workflowState[d] # "POLL_NEXT"
      PROVE  \E state, m : Move(d, state, m) /\ Kept(m)
  BY <1>a, <1>d, StayIsMove
<1>e. ASSUME NEW state \in WorkflowStates, NEW m \in Memory,
             Enter(d, state, m), Fits(state, m), Learned(state, d, m)',
             memory[d].request \in {None, m.request}
               \/ status[memory[d].request] \in Terminal
               \/ LetGo(d),
             Kept(m)
      PROVE  \E st, mem : Move(d, st, mem) /\ Kept(mem)
  BY <1>e DEF Move
<1>f. UNCHANGED <<status, terms, phase, session, signature, shown>>
  BY DEF vars, rows, auth, store
<1>g. ASSUME Enter(d, "REPORT_FAILED", memory[d]), workflowState[d] # "POLL_NEXT"
      PROVE  \E state, m : Move(d, state, m) /\ Kept(m)
  <2>1. PICK mem : mem = memory[d]
    OBVIOUS
  <2>2. Fits("REPORT_FAILED", mem) /\ "REPORT_FAILED" \in WorkflowStates
    BY <1>g, <1>b, <1>c, <2>1 DEF Fits, WorkflowStates, Calling
  <2>3. Learned("REPORT_FAILED", d, mem)
    BY <1>c, <2>1 DEF Learned
  <2>4. Learned("REPORT_FAILED", d, mem)'
    BY <1>a, <1>c, <2>1, <2>2, <2>3, LearnedKept DEF Fits
  <2> QED
    BY <1>e, <1>g, <1>c, <2>1, <2>2, <2>4
<1>1. CASE workflowState[d] = "POLL_NEXT"
  <2>1. memory[d].request = None
    BY <1>1, <1>c, ClearedFits DEF Fits
  <2>2. CASE code = 200 /\ body \in Requests
    <3> DEFINE m == [Cleared EXCEPT !.request = body]
    <3>1. m \in Memory /\ m.request = body /\ m.session = None
      BY <2>2 DEF Cleared, Memory
    <3>2. Enter(d, "WAIT_RFID", m)
      BY <1>1, <2>2 DEF AfterCall, fetchNextSignatureRequest
    <3>3. Delivered(body)
      BY <1>1, <1>b, <2>2 DEF Told
    <3>4. PICK mem : mem = m
      OBVIOUS
    <3>5. Learned("WAIT_RFID", d, mem)'
      BY <3>1, <3>3, <3>4, <1>f DEF Learned, Delivered
    <3>6. Fits("WAIT_RFID", mem) /\ "WAIT_RFID" \in WorkflowStates
      BY <2>2, <3>1, <3>4 DEF Fits, WorkflowStates
    <3> QED
      BY <1>e, <2>1, <3>1, <3>2, <3>4, <3>5, <3>6
  <2>3. CASE ~(code = 200 /\ body \in Requests)
    <3>1. Enter(d, "IDLE", Cleared)
      BY <1>1, <2>3 DEF AfterCall, fetchNextSignatureRequest
    <3>2. code = 200 => body = None
      BY <1>1, <1>a, <1>b, <2>3 DEF CallShape, Shaped
    <3>3. "IDLE" \in WorkflowStates
      BY DEF WorkflowStates
    <3> QED
      BY <1>e, <2>1, <3>1, <3>2, <3>3, ClearedFits, NothingLearned
  <2> QED
    BY <2>2, <2>3
<1>2. CASE workflowState[d] = "CHALLENGE"
  <2>1. CASE code = 200 /\ body \in Sessions
    <3> DEFINE m == [memory[d] EXCEPT !.session = body]
    <3>1. /\ m \in Memory /\ m.request = memory[d].request
          /\ m.session = body
      BY <1>c, <2>1 DEF Memory
    <3>2. Enter(d, "WAIT_FINGERPRINT", m)
      BY <1>2, <2>1 DEF AfterCall, requestChallenge, Proceed
    <3>3. Opened(d, m) /\ m.request # None /\ Delivered(m.request)
      BY <1>2, <1>b, <1>c, <2>1, <3>1 DEF Told, Learned, Fits
    <3>4. PICK mem : mem = m
      OBVIOUS
    <3>5. Learned("WAIT_FINGERPRINT", d, mem)'
      BY <3>1, <3>3, <3>4, <1>f DEF Learned, Delivered, Opened
    <3>6. Fits("WAIT_FINGERPRINT", mem) /\ "WAIT_FINGERPRINT" \in WorkflowStates
      BY <2>1, <3>1, <3>3, <3>4 DEF Fits, WorkflowStates
    <3> QED
      BY <1>e, <1>2, <3>1, <3>2, <3>4, <3>5, <3>6
  <2>2. CASE ~(code = 200 /\ body \in Sessions)
    <3>1. \/ UNCHANGED <<workflowState, memory>>
          \/ Enter(d, "REPORT_FAILED", memory[d])
      BY <1>2, <2>2 DEF AfterCall, requestChallenge, Proceed, Failed
    <3> QED
      BY <1>2, <3>1, <1>d, <1>g
  <2> QED
    BY <2>1, <2>2
<1>3. CASE workflowState[d] = "COMPLETE_AUTH"
  <2>1. CASE code = 200 /\ body = Done
    <3>1. Enter(d, "SIGN_DOCUMENT", memory[d])
      BY <1>3, <2>1 DEF AfterCall, completeAuthentication, Proceed
    <3>2. PICK mem : mem = memory[d]
      OBVIOUS
    <3>3. mem.finger = mem.card
      BY <1>3, <1>b, <2>1, <3>2 DEF Told
    <3>4. Learned("SIGN_DOCUMENT", d, mem)
      BY <1>3, <1>c, <3>2, <3>3 DEF Learned
    <3>5. Fits("SIGN_DOCUMENT", mem) /\ "SIGN_DOCUMENT" \in WorkflowStates
      BY <1>3, <1>c, <3>2 DEF Fits, WorkflowStates
    <3>6. Learned("SIGN_DOCUMENT", d, mem)'
      BY <1>a, <1>c, <3>2, <3>4, <3>5, LearnedKept DEF Fits
    <3> QED
      BY <1>e, <1>3, <1>c, <3>1, <3>2, <3>5, <3>6
  <2>2. CASE ~(code = 200 /\ body = Done)
    <3>1. \/ UNCHANGED <<workflowState, memory>>
          \/ Enter(d, "REPORT_FAILED", memory[d])
      BY <1>3, <2>2 DEF AfterCall, completeAuthentication, Proceed, Failed
    <3> QED
      BY <1>3, <3>1, <1>d, <1>g
  <2> QED
    BY <2>1, <2>2
<1>4. CASE workflowState[d] = "SIGN_DOCUMENT"
  <2>1. CASE code = 200 /\ body = Done
    <3>1. Enter(d, "SUCCESS", memory[d])
      BY <1>4, <2>1 DEF AfterCall, signDocument, Proceed
    <3>2. PICK mem : mem = memory[d]
      OBVIOUS
    <3>3. Signed(mem)
      BY <1>4, <1>b, <2>1, <3>2 DEF Told
    <3>4. Learned("SUCCESS", d, mem)
      BY <1>4, <1>c, <3>2, <3>3 DEF Learned
    <3>5. Fits("SUCCESS", mem) /\ "SUCCESS" \in WorkflowStates
      BY <1>4, <1>c, <3>2 DEF Fits, WorkflowStates
    <3>6. Learned("SUCCESS", d, mem)'
      BY <1>a, <1>c, <3>2, <3>4, <3>5, LearnedKept DEF Fits
    <3> QED
      BY <1>e, <1>4, <1>c, <3>1, <3>2, <3>5, <3>6
  <2>2. CASE ~(code = 200 /\ body = Done)
    <3>1. \/ UNCHANGED <<workflowState, memory>>
          \/ Enter(d, "REPORT_FAILED", memory[d])
      BY <1>4, <2>2 DEF AfterCall, signDocument, Proceed, Failed
    <3> QED
      BY <1>4, <3>1, <1>d, <1>g
  <2> QED
    BY <2>1, <2>2
<1>5. CASE workflowState[d] = "REPORT_FAILED"
  <2>1. CASE code = 200
    <3>1. Enter(d, "IDLE", Cleared)
      BY <1>5, <2>1 DEF AfterCall, reportRequestFailure
    <3>2. status[memory[d].request] \in Terminal
      BY <1>5, <1>b, <2>1 DEF Told
    <3>3. "IDLE" \in WorkflowStates
      BY DEF WorkflowStates
    <3> QED
      BY <1>e, <1>5, <3>1, <3>2, <3>3, ClearedFits, NothingLearned
  <2>3. CASE code = 403
    <3>1. Enter(d, "IDLE", Cleared)
      BY <1>5, <2>3 DEF AfterCall, reportRequestFailure, Failed,
         isTemporaryHttpStatus
    <3>2. Refused(c) /\ memory[d].request \in Requests
      BY <1>5, <1>b, <1>c, <2>3 DEF Refused, Fits, Memory
    <3>3. memory[d].request \in Dropped(c)
      BY <1>b, <3>2 DEF Dropped
    <3>4. LetGo(d)
      BY <2>3, <3>2, <3>3 DEF LetGo
    <3>5. "IDLE" \in WorkflowStates
      BY DEF WorkflowStates
    <3> QED
      BY <1>e, <1>5, <3>1, <3>4, <3>5, ClearedFits, NothingLearned
  <2>2. CASE code \notin {200, 403}
    <3>1. code \in {-1, 429}
      BY <1>5, <1>a, <1>b, <2>2 DEF CallShape, Shaped
    <3>2. reportRequestFailure(code) = "TEMPORARY_ERROR"
      BY <3>1 DEF reportRequestFailure, Failed, isTemporaryHttpStatus
    <3>3. UNCHANGED <<workflowState, memory>>
      BY <1>5, <3>2 DEF AfterCall
    <3> QED
      BY <1>d, <1>5, <3>3
  <2> QED
    BY <2>1, <2>2, <2>3
<1> QED
  BY <1>1, <1>2, <1>3, <1>4, <1>5, <1>b DEF Calling

\* A terminal that was waiting waits no more; if its call had brought a
\* request, it has it, or the request is known to be mislaid.
Over(d, m) ==
  /\ awaited' = [awaited EXCEPT ![d] = None]
  /\ \/ UNCHANGED call
     \/ awaited[d] # None /\ call' = [call EXCEPT ![awaited[d]] = NoCall]
  /\ mislaid \subseteq mislaid'
  /\ awaited[d] # None =>
       \A r \in Taken(awaited[d]) :
         m.request = r \/ r \in mislaid' \/ reboots' > 0

Local(d) == awaited[d] = None /\ UNCHANGED <<call, awaited, mislaid>>

\* What a step of the firmware may be.
LEMMA FirmwareMoves ==
  ASSUME QueueInv, DeviceInv, NEW d \in Devices, Firmware(d)
  PROVE  /\ shown \subseteq shown' /\ reboots \in 0 .. reboots'
         /\ \E state, m :
              /\ Move(d, state, m)
              /\ \/ Local(d)
                 \/ Over(d, m)
                 \/ state \in Calling /\ \E c \in Calls : Send(d, c)
<1> USE QueueAssumption, DeviceAssumption
<1>a. DeviceTypeOK /\ TypeOK /\ CallShape /\ Grow
  BY FirmwareIsOutside
  DEF DeviceInv, QueueInv, Grow, vars, rows, auth, store
<1>b. UNCHANGED <<status, terms, phase, session, signature>>
  BY FirmwareIsOutside DEF vars, rows, auth, store
<1>c. /\ workflowState[d] \in WorkflowStates /\ memory[d] \in Memory
      /\ Fits(workflowState[d], memory[d])
      /\ Learned(workflowState[d], d, memory[d])
  BY TerminalFits
<1>d. awaited[d] # None => workflowState[d] \in Calling
  BY AwaitedCall
<1>e. reboots \in Nat
  BY <1>a DEF DeviceTypeOK
<1> DEFINE Goal == /\ shown \subseteq shown' /\ reboots \in 0 .. reboots'
                   /\ \E state, m :
                        /\ Move(d, state, m)
                        /\ \/ Local(d)
                           \/ Over(d, m)
                           \/ state \in Calling /\ \E c \in Calls : Send(d, c)
<1>f. ASSUME NEW state \in WorkflowStates, NEW m \in Memory,
             Enter(d, state, m), Fits(state, m), Learned(state, d, m)',
             memory[d].request \in {None, m.request}
               \/ status[memory[d].request] \in Terminal
               \/ reboots' # reboots,
             Local(d) \/ Over(d, m)
                 \/ (state \in Calling /\ \E c \in Calls : Send(d, c))
      PROVE  \E st, mem :
               /\ Move(d, st, mem)
               /\ \/ Local(d)
                  \/ Over(d, mem)
                  \/ st \in Calling /\ \E c \in Calls : Send(d, c)
  BY <1>f DEF Move
<1>1. CASE Poll(d)
  <2>1. Local(d)
    BY <1>1, <1>d DEF Poll, Local, Calling
  <2>2. memory[d].request = None
    BY <1>1, <1>c, ClearedFits DEF Poll, Fits
  <2>3. "POLL_NEXT" \in WorkflowStates
    BY DEF WorkflowStates
  <2> QED
    BY <1>1, <1>e, <1>f, <2>1, <2>2, <2>3, ClearedFits, NothingLearned DEF Poll
<1>2. ASSUME NEW c \in Calls, Send(d, c) PROVE Goal
  <2>1. UNCHANGED <<workflowState, memory, shown, reboots>>
        /\ workflowState[d] \in Calling
    BY <1>2 DEF Send
  <2>2. PICK st, mem : st = workflowState[d] /\ mem = memory[d]
    OBVIOUS
  <2>3. Learned(st, d, mem)'
    BY <1>a, <1>c, <2>1, <2>2, LearnedKept DEF Fits
  <2>4. Enter(d, st, mem)
    BY <1>a, <2>1, <2>2 DEF Enter, DeviceTypeOK
  <2> QED
    BY <1>2, <1>c, <1>e, <1>f, <2>1, <2>2, <2>3, <2>4
<1>3. CASE Receive(d) \/ Garbled(d) \/ GiveUp(d)
  <2>1. /\ awaited[d] # None
        /\ UNCHANGED <<vars, shown, reboots>>
        /\ awaited' = [awaited EXCEPT ![d] = None]
        /\ call' \in {call, [call EXCEPT ![awaited[d]] = NoCall]}
    BY <1>3 DEF Receive, Garbled, GiveUp, Unheeded
  <2>2. PICK code, body :
          /\ \/ code = -1 /\ body = None
             \/ /\ call[awaited[d]].code = code /\ code # Pending
                /\ body = call[awaited[d]].body
             \/ call[awaited[d]].code = 200 /\ code = 200 /\ body = None
          /\ AfterCall(d, code, body)
          /\ \/ Taken(awaited[d]) \subseteq mislaid' /\ mislaid \subseteq mislaid'
             \/ /\ call[awaited[d]].code = code /\ mislaid \subseteq mislaid'
                /\ body = call[awaited[d]].body
          /\ code = 403 => Dropped(awaited[d]) \subseteq mislaid'
    <3>1. CASE Receive(d)
      BY <3>1 DEF Receive
    <3>2. CASE Garbled(d)
      BY <3>2 DEF Garbled
    <3>3. CASE GiveUp(d)
      BY <3>3 DEF GiveUp
    <3> QED
      BY <1>3, <3>1, <3>2, <3>3
  <2>3. PICK state, m : /\ Move(d, state, m)
                        /\ workflowState[d] = "POLL_NEXT" /\ code = 200 /\ body # None
                             => m.request = body
    BY <2>1, <2>2, AfterCallMoves
  <2>4. ASSUME NEW r \in Taken(awaited[d])
        PROVE  m.request = r \/ r \in mislaid'
    <3>1. /\ r \in Requests /\ call[awaited[d]].op = "POLL_NEXT"
          /\ call[awaited[d]].body = r /\ call[awaited[d]] # NoCall
      BY DEF Taken
    <3>2. /\ awaited[d] \in Calls /\ workflowState[d] = "POLL_NEXT"
      BY <2>1, <3>1, AwaitedCall
    <3>3. r # None
      BY <3>1
    <3>4. call[awaited[d]].code = 200
      BY <1>a, <3>1, <3>2, <3>3 DEF CallShape, Shaped
    <3> QED
      BY <2>2, <2>3, <3>1, <3>2, <3>3, <3>4
  <2>5. Over(d, m)
    BY <2>1, <2>2, <2>4 DEF Over
  <2> QED
    BY <2>1, <2>3, <2>5, <1>e
<1>4. ASSUME NEW u \in Users \cup {None}, ReadCard(d, u) PROVE Goal
  <2> DEFINE m == [memory[d] EXCEPT !.card = u]
  <2>1. /\ m \in Memory /\ m.request = memory[d].request
        /\ m.session = memory[d].session /\ m.card = u
    BY <1>c DEF Memory
  <2>2. /\ Local(d) /\ Enter(d, "CHALLENGE", m) /\ workflowState[d] = "WAIT_RFID"
        /\ UNCHANGED <<shown, reboots>>
    BY <1>4, <1>d DEF ReadCard, Local, Calling
  <2>3. PICK mem : mem = m
    OBVIOUS
  <2> HIDE DEF m
  <2>4. Fits("CHALLENGE", mem) /\ "CHALLENGE" \in WorkflowStates
    BY <1>c, <2>1, <2>2, <2>3 DEF Fits, WorkflowStates
  <2>5. Learned("CHALLENGE", d, mem)'
    BY <1>b, <1>c, <2>1, <2>2, <2>3 DEF Fits, Learned, Delivered
  <2> QED
    BY <1>e, <1>f, <2>1, <2>2, <2>3, <2>4, <2>5
<1>5. ASSUME NEW u \in Users \cup {None}, ReadFinger(d, u) PROVE Goal
  <2> DEFINE m == [memory[d] EXCEPT !.finger = u]
  <2>1. /\ m \in Memory /\ m.request = memory[d].request
        /\ m.session = memory[d].session /\ m.card = memory[d].card
        /\ m.finger = u
    BY <1>c DEF Memory
  <2>2. /\ Local(d) /\ Enter(d, "COMPLETE_AUTH", m)
        /\ workflowState[d] = "WAIT_FINGERPRINT"
        /\ UNCHANGED reboots /\ shown \subseteq shown'
        /\ [device |-> d, session |-> memory[d].session,
            card |-> memory[d].card, finger |-> u,
            document |-> terms[memory[d].request].document] \in shown'
    BY <1>5, <1>d DEF ReadFinger, Local, Calling, Displayed
  <2>3. PICK mem : mem = m
    OBVIOUS
  <2> HIDE DEF m
  <2>4. Fits("COMPLETE_AUTH", mem) /\ "COMPLETE_AUTH" \in WorkflowStates
    BY <1>c, <2>1, <2>2, <2>3 DEF Fits, WorkflowStates
  <2>5. (FactorsOf(d, mem) \in shown)'
    BY <1>b, <2>1, <2>2, <2>3 DEF FactorsOf
  <2>6. Learned("COMPLETE_AUTH", d, mem)'
    BY <1>b, <1>c, <2>1, <2>2, <2>3, <2>5 DEF Learned, Delivered, Opened
  <2> QED
    BY <1>e, <1>f, <2>1, <2>2, <2>3, <2>4, <2>6
<1>6. CASE TimeOut(d)
  <2>1. /\ Local(d) /\ UNCHANGED <<shown, reboots>>
        /\ workflowState[d] \in {"WAIT_RFID", "WAIT_FINGERPRINT"}
    BY <1>6, <1>d DEF TimeOut, Local, Calling
  <2>2. PICK mem : mem = memory[d]
    OBVIOUS
  <2>3. Enter(d, "REPORT_FAILED", mem)
    BY <1>6, <2>2 DEF TimeOut
  <2>4. Fits("REPORT_FAILED", mem) /\ "REPORT_FAILED" \in WorkflowStates
    BY <1>c, <2>1, <2>2 DEF Fits, WorkflowStates
  <2>5. Learned("REPORT_FAILED", d, mem)
    BY <1>c, <2>2 DEF Learned
  <2>6. Learned("REPORT_FAILED", d, mem)'
    BY <1>a, <1>c, <2>1, <2>2, <2>4, <2>5, LearnedKept DEF Fits
  <2> QED
    BY <1>c, <1>e, <1>f, <2>1, <2>2, <2>3, <2>4, <2>6
<1>7. CASE Finish(d)
  <2>1. /\ Local(d) /\ UNCHANGED <<shown, reboots>>
        /\ workflowState[d] = "SUCCESS" /\ Enter(d, "IDLE", Cleared)
    BY <1>7, <1>d DEF Finish, Local, Calling
  <2>2. status[memory[d].request] \in Terminal
    BY <1>c, <2>1 DEF Learned, Signed
  <2>3. "IDLE" \in WorkflowStates
    BY DEF WorkflowStates
  <2> QED
    BY <1>e, <1>f, <2>1, <2>2, <2>3, ClearedFits, NothingLearned
<1>8. CASE Reboot(d)
  <2>1. /\ UNCHANGED shown /\ Enter(d, "IDLE", Cleared)
        /\ reboots' = reboots + 1
    BY <1>8 DEF Reboot
  <2>2. Over(d, Cleared)
    BY <1>8, <1>e DEF Reboot, Over, Unheeded
  <2>3. "IDLE" \in WorkflowStates
    BY DEF WorkflowStates
  <2> QED
    BY <1>e, <1>f, <2>1, <2>2, <2>3, ClearedFits, NothingLearned
<1> QED
  BY <1>1, <1>2, <1>3, <1>4, <1>5, <1>6, <1>7, <1>8 DEF Firmware

-----------------------------------------------------------------------------
(* What one step does to a call                                            *)

\* Only the worker w goes on.
OthersKeepTheirJob(w) == \A v \in Workers : v # w => job'[v] = job[v]

\* A worker takes the call up, for the session it carries.
TakenUp(c, op, m, w) ==
  /\ Accept(c, w)
  /\ call[c].worker = None /\ call[c].code = Pending
  /\ job[w].kind = "idle"
  /\ job'[w].kind \in Runs(op)
  /\ op = "SIGN_DOCUMENT" => job'[w].session = m.session
  /\ OthersKeepTheirJob(w)

\* Its worker goes on with it.
GoneOn(c, op) ==
  /\ UNCHANGED <<device, call, mislaid, faults>>
  /\ call[c].worker \in Workers
  /\ job'[call[c].worker].kind \in Runs(op)
  /\ job'[call[c].worker].session = job[call[c].worker].session
  /\ OthersKeepTheirJob(call[c].worker)

\* It is answered, and the answer is true.
Answers(c, op, d, m, code, body) ==
  /\ Reply(c, code, body)
  /\ call[c].code = Pending
  /\ OthersKeepTheirJob(call[c].worker)
  /\ code \in {200, 204, 403, 429, 503}
  /\ body \in Bodies
  /\ op = "POLL_NEXT" => /\ (code = 200) = (body # None)
                         /\ code = 200 => body \in Requests
  /\ op = "CHALLENGE" /\ code = 200 => body \in Sessions
  /\ op = "REPORT_FAILED" => code \in {200, 403, 429}
  /\ code = 200 => Told(op, d, m, body)'

\* One of the three is what the server does with a call.
ServedBy(c, op, d, m) ==
  \/ \E w \in Workers : TakenUp(c, op, m, w)
  \/ GoneOn(c, op)
  \/ \E code, body : Answers(c, op, d, m, code, body)

LEMMA NextServed ==
  ASSUME QueueInv, DeviceInv, NEW c \in Calls, NEW op, NEW d, NEW m,
         call[c] # NoCall,
         op = call[c].op, d = call[c].device, m = call[c].sent,
         \/ \E w \in Workers : NextStart(c, w)
         \/ NextFinish(c)
         \/ NextNothing(c)
  PROVE  ServedBy(c, op, d, m) /\ UNCHANGED device
<1> USE QueueAssumption, DeviceAssumption
<1>a. DeviceTypeOK /\ TypeOK /\ CallShape
  BY DEF DeviceInv, QueueInv
<1>b. None \in Bodies /\ Requests \subseteq Bodies
  BY DEF Bodies
<1>1. ASSUME NEW w \in Workers, NextStart(c, w)
      PROVE  ServedBy(c, op, d, m) /\ UNCHANGED device
  <2>1. op = "POLL_NEXT" /\ call[c].worker = None /\ call[c].code = Pending
    BY <1>1 DEF NextStart, Arrived
  <2>2. job[w].kind = "idle" /\ job'[w].kind = "claiming" /\ OthersKeepTheirJob(w)
    BY <1>1, <1>a DEF NextStart, ClaimStart, Start, Idle, NoJob, TypeOK,
       OthersKeepTheirJob
  <2>3. TakenUp(c, op, m, w)
    BY <1>1, <2>1, <2>2 DEF NextStart, TakenUp, Runs
  <2> QED
    BY <1>1, <2>3 DEF ServedBy, NextStart, Accept
<1>2. ASSUME NextFinish(c) PROVE ServedBy(c, op, d, m) /\ UNCHANGED device
  <2>1. call[c].worker \in Workers /\ call[c].worker # None
    BY <1>2, <1>a, RunningType DEF NextFinish, Running
  <2>2. call[c].code = Pending /\ op = "POLL_NEXT"
    <3>1. /\ job[call[c].worker].kind = "claiming" /\ call[c].code = Pending
          /\ job[call[c].worker].kind \in Runs(op)
      BY <1>2, <2>1, <1>a DEF NextFinish, Running, CallShape, Shaped
    <3>2. op \in Calling
      BY <1>a, CallType
    <3> QED
      BY <3>1, <3>2 DEF Runs, Calling
  <2>3. OthersKeepTheirJob(call[c].worker)
    BY <1>2, <1>a, <2>1 DEF NextFinish, ClaimFinish, End, TypeOK,
       OthersKeepTheirJob
  <2>4. PICK code, body :
          /\ Reply(c, code, body)
          /\ \/ code = 204 /\ body = None
             \/ code = 200 /\ body \in Requests /\ status'[body] = "CLAIMED"
    BY <1>2 DEF NextFinish
  <2>5. code = 200 => Told(op, d, m, body)'
    BY <2>2, <2>4 DEF Told, Delivered
  <2>6. /\ (code = 200) = (body # None)
        /\ code \in {200, 204} /\ body \in Bodies
        /\ code = 200 => body \in Requests
    <3>1. CASE code = 204 /\ body = None
      BY <1>b, <3>1
    <3>2. CASE code = 200 /\ body \in Requests
      BY <1>b, <3>2
    <3> QED
      BY <2>4, <3>1, <3>2
  <2>7. Answers(c, op, d, m, code, body)
    BY <2>2, <2>3, <2>4, <2>5, <2>6 DEF Answers
  <2> QED
    BY <1>2, <2>7 DEF ServedBy, NextFinish
<1>3. ASSUME NextNothing(c) PROVE ServedBy(c, op, d, m) /\ UNCHANGED device
  <2>1. Answers(c, op, d, m, 204, None)
    BY <1>3, <1>b
    DEF NextNothing, Answers, Respond, Arrived, ClaimRefused,
        OthersKeepTheirJob
  <2> QED
    BY <1>3, <2>1 DEF ServedBy, NextNothing, Respond
<1> QED
  BY <1>1, <1>2, <1>3

LEMMA ChallengeServed ==
  ASSUME QueueInv, DeviceInv, NEW c \in Calls, NEW op, NEW d, NEW m,
         call[c] # NoCall,
         op = call[c].op, d = call[c].device, m = call[c].sent,
         \/ \E s \in Sessions : ChallengeOpens(c, s)
         \/ ChallengeRefused(c)
  PROVE  ServedBy(c, op, d, m) /\ UNCHANGED device
<1> USE QueueAssumption, DeviceAssumption
<1>a. DeviceTypeOK /\ TypeOK /\ CallShape
  BY DEF DeviceInv, QueueInv
<1>b. None \in Bodies /\ Sessions \subseteq Bodies /\ m \in Memory
  BY <1>a, CallType DEF Bodies
<1>1. ASSUME NEW s \in Sessions, ChallengeOpens(c, s)
      PROVE  ServedBy(c, op, d, m) /\ UNCHANGED device
  <2>1. op = "CHALLENGE" /\ call[c].code = Pending /\ Reply(c, 200, s)
        /\ Challenge(d, m.card, terms[m.request].document, s)
    BY <1>1 DEF ChallengeOpens, Arrived, Respond, DocumentOf
  <2>2. OthersKeepTheirJob(call[c].worker)
    BY <2>1 DEF Challenge, OthersKeepTheirJob
  <2>3. [m EXCEPT !.session = s].session = s
        /\ [m EXCEPT !.session = s].request = m.request
        /\ [m EXCEPT !.session = s].card = m.card
    BY <1>b DEF Memory
  <2>4. /\ phase'[s] = "OPEN" /\ terms' = terms
        /\ session'[s] = [user |-> m.card, device |-> d,
                          document |-> terms[m.request].document,
                          expires |-> now + ChallengeTtl]
    BY <2>1, <1>a DEF Challenge, TypeOK
  <2>5. Told(op, d, m, s)'
    BY <2>1, <2>3, <2>4 DEF Told, Opened
  <2>6. Answers(c, op, d, m, 200, s)
    BY <1>b, <2>1, <2>2, <2>5 DEF Answers
  <2> QED
    BY <1>1, <2>6 DEF ServedBy, ChallengeOpens, Respond
<1>2. ASSUME ChallengeRefused(c)
      PROVE  ServedBy(c, op, d, m) /\ UNCHANGED device
  <2>1. Answers(c, op, d, m, 403, None)
    BY <1>2, <1>b
    DEF ChallengeRefused, Answers, Respond, Arrived, vars, OthersKeepTheirJob
  <2> QED
    BY <1>2, <2>1 DEF ServedBy, ChallengeRefused, Respond
<1> QED
  BY <1>1, <1>2

\* What is known of a call that is run.
LEMMA RunningCall ==
  ASSUME DeviceInv, NEW c \in Calls, NEW kinds, Running(c, kinds)
  PROVE  /\ call[c] # NoCall /\ call[c].worker \in Workers
         /\ call[c].code = Pending
         /\ job[call[c].worker].kind \in kinds
         /\ job[call[c].worker].kind \in Runs(call[c].op)
         /\ call[c].op \in {"POLL_NEXT", "COMPLETE_AUTH", "SIGN_DOCUMENT"}
         /\ call[c].op = "SIGN_DOCUMENT" =>
              job[call[c].worker].session = call[c].sent.session
<1>1. call[c] # NoCall /\ call[c].worker \in Workers
  BY RunningType DEF DeviceInv
<1>2. /\ call[c].code = Pending
      /\ job[call[c].worker].kind \in Runs(call[c].op)
      /\ call[c].op = "SIGN_DOCUMENT" =>
           job[call[c].worker].session = call[c].sent.session
  BY <1>1 DEF DeviceInv, CallShape, Shaped, Running
<1>3. call[c].op \in Calling
  BY <1>1, CallType DEF DeviceInv
<1> QED
  BY <1>1, <1>2, <1>3 DEF Running, Runs, Calling

\* A refusal says nothing.
LEMMA RefusalAnswers ==
  ASSUME DeviceInv, NEW c \in Calls, NEW op, NEW d, NEW m,
         NEW code \in {403, 503}, Reply(c, code, None),
         call[c].code = Pending, OthersKeepTheirJob(call[c].worker),
         op # "REPORT_FAILED"
  PROVE  ServedBy(c, op, d, m)
  BY DEF Answers, ServedBy, Bodies

LEMMA RejectedServed ==
  ASSUME QueueInv, DeviceInv, NEW c \in Calls, NEW op, NEW d, NEW m,
         op = call[c].op, d = call[c].device, m = call[c].sent,
         Rejected(c)
  PROVE  ServedBy(c, op, d, m) /\ UNCHANGED device
<1> USE QueueAssumption, DeviceAssumption
<1>1. /\ call[c].worker \in Workers /\ call[c].code = Pending
      /\ op # "REPORT_FAILED"
  BY RunningCall DEF Rejected
<1>2. OthersKeepTheirJob(call[c].worker)
  BY <1>1 DEF Rejected, PersistFailure, Rollback, End, QueueInv, TypeOK,
     OthersKeepTheirJob
<1>3. Reply(c, 403, None) \/ Reply(c, 503, None)
  BY DEF Rejected
<1>4. ServedBy(c, op, d, m)
  BY <1>1, <1>2, <1>3, RefusalAnswers
<1> QED
  BY <1>4 DEF Rejected

LEMMA CompleteServed ==
  ASSUME QueueInv, DeviceInv, NEW c \in Calls, NEW op, NEW d, NEW m,
         call[c] # NoCall,
         op = call[c].op, d = call[c].device, m = call[c].sent,
         \/ \E w \in Workers : CompleteFatal(c, w)
         \/ Completes(c)
         \/ CompleteRepeated(c)
  PROVE  ServedBy(c, op, d, m) /\ UNCHANGED device
<1> USE QueueAssumption, DeviceAssumption
<1>a. DeviceTypeOK /\ TypeOK /\ CallShape /\ Learned(op, d, m)
  BY DEF DeviceInv, QueueInv, Truthful
<1>b. Done \in Bodies /\ m \in Memory
  BY <1>a, CallType DEF Bodies
<1>1. ASSUME NEW w \in Workers, CompleteFatal(c, w)
      PROVE  ServedBy(c, op, d, m) /\ UNCHANGED device
  <2>1. op = "COMPLETE_AUTH" /\ call[c].worker = None /\ call[c].code = Pending
    BY <1>1 DEF CompleteFatal, Arrived
  <2>2. job[w].kind = "idle" /\ job'[w].kind = "rejected" /\ OthersKeepTheirJob(w)
    BY <1>1, <1>a DEF CompleteFatal, CompleteReject, Start, Idle, NoJob, TypeOK,
       OthersKeepTheirJob
  <2>3. TakenUp(c, op, m, w)
    BY <1>1, <2>1, <2>2 DEF CompleteFatal, TakenUp, Runs
  <2> QED
    BY <1>1, <2>3 DEF ServedBy, CompleteFatal, Accept
<1>2. ASSUME Completes(c) PROVE ServedBy(c, op, d, m) /\ UNCHANGED device
  <2>1. /\ op = "COMPLETE_AUTH" /\ call[c].code = Pending
        /\ Reply(c, 200, Done) /\ Complete(m.session, m.finger)
        /\ m.session # None
    BY <1>2, <1>a DEF Completes, Arrived, Respond, CallShape, Shaped
  <2>2. m.finger = m.card
    BY <2>1, <1>a DEF Complete, CredentialHolds, Learned, Opened
  <2>3. Told(op, d, m, Done)'
    BY <2>1, <2>2 DEF Told
  <2>4. OthersKeepTheirJob(call[c].worker)
    BY <2>1 DEF Complete, OthersKeepTheirJob
  <2>5. Answers(c, op, d, m, 200, Done)
    BY <1>b, <2>1, <2>3, <2>4 DEF Answers
  <2> QED
    BY <1>2, <2>5 DEF ServedBy, Completes, Respond
<1>3. ASSUME CompleteRepeated(c)
      PROVE  ServedBy(c, op, d, m) /\ UNCHANGED device
  <2>1. /\ op = "COMPLETE_AUTH" /\ call[c].code = Pending
        /\ Reply(c, 403, None) /\ OthersKeepTheirJob(call[c].worker)
    BY <1>3 DEF CompleteRepeated, Arrived, Respond, vars, OthersKeepTheirJob
  <2>2. ServedBy(c, op, d, m)
    BY <2>1, RefusalAnswers
  <2> QED
    BY <1>3, <2>2 DEF CompleteRepeated, Respond
<1> QED
  BY <1>1, <1>2, <1>3

\* When the signature of a session is committed, the request its terminal
\* displays is finished: it is the one that is signed, or it has given way to
\* that one, for a document has one active request.
LEMMA SignCommitsTold ==
  ASSUME QueueInv, OneActivePerDocument, DeviceInv, NEW c \in Calls,
         NEW d, NEW m, "SIGN_DOCUMENT" = call[c].op, d = call[c].device,
         m = call[c].sent, SignCommits(c)
  PROVE  Signed(m)'
<1> USE QueueAssumption, RowAssumption, DeviceAssumption
<1> DEFINE w == call[c].worker
           g == job[w].signature
<1>a. /\ DeviceTypeOK /\ TypeOK /\ CallShape /\ Shape /\ SessionBinding
      /\ SigningHoldsRequest
  BY DEF DeviceInv, QueueInv
<1>1. /\ call[c] # NoCall /\ w \in Workers /\ job[w].kind = "published"
      /\ job[w].session = m.session
  BY RunningCall DEF SignCommits
<1>2. /\ m \in Memory /\ m.request # None /\ m.session # None
      /\ Learned("SIGN_DOCUMENT", d, m)
  BY <1>a, <1>1, CallType DEF CallShape, Shaped, DeviceInv, Truthful
<1>3. /\ m.request \in Requests /\ m.session \in Sessions
      /\ status[m.request] \notin {"NONE", "PENDING"}
      /\ session[m.session].user = m.card
      /\ session[m.session].document = terms[m.request].document
  BY <1>2 DEF Memory, Learned, Delivered, Opened
<1>4. CommitSignature(w)
  BY DEF SignCommits
<1>5. g \in Signatures
  BY <1>a, <1>1, <1>4, SignatureInserted
<1>6. /\ signature'[g] = [session |-> m.session, user |-> m.card,
                         device |-> session[m.session].device,
                         document |-> terms[m.request].document]
      /\ terms' = terms
  BY <1>a, <1>1, <1>3, <1>4, <1>5 DEF CommitSignature, TypeOK
<1>7. signature'[g] # None
  <2>1. session[m.session] # None
    BY <1>2, <1>3, <1>a DEF Shape, Learned, Opened
  <2>2. session[m.session] \in SessionRow
    BY <1>3, <1>a, <2>1 DEF TypeOK
  <2>3. signature'[g] \in SignatureRow
    BY <1>3, <1>6, <2>2 DEF SignatureRow, SessionRow
  <2> QED
    BY <2>3
<1>8. PICK r \in Requests : /\ sessionOf[r] = m.session
                            /\ status[r] = "AUTHENTICATED"
  BY <1>a, <1>1 DEF SigningHoldsRequest
<1>9. terms[r].document = terms[m.request].document
  BY <1>a, <1>3, <1>8 DEF SessionBinding
<1>10. status'[m.request] \in Terminal
  <2>1. CASE m.request = r
    BY <1>a, <1>1, <1>4, <1>8, <2>1
    DEF CommitSignature, RequestsOf, TypeOK, Terminal
  <2>2. CASE m.request # r
    <3>1. status[m.request] \notin Active
      BY <1>3, <1>8, <1>9, <2>2 DEF OneActivePerDocument, Active, InFlight
    <3>2. status[m.request] \in Terminal
      BY <1>a, <1>3, <3>1 DEF Active, InFlight, Terminal, TypeOK, Statuses
    <3> QED
      BY <1>3, <1>4, <3>2 DEF CommitSignature, Terminal
  <2> QED
    BY <2>1, <2>2
<1> HIDE DEF g
<1> QED
  BY <1>5, <1>6, <1>7, <1>10 DEF Signed

SignSteps(c) ==
  \/ \E w \in Workers : \/ SignBegins(c, w)
                        \/ \E intact \in BOOLEAN : SignFatal(c, w, intact)
  \/ \E g \in Signatures : SignPublishes(c, g)
  \/ SignCommits(c)

LEMMA SignServed ==
  ASSUME QueueInv, OneActivePerDocument, DeviceInv, NEW c \in Calls,
         NEW op, NEW d, NEW m, call[c] # NoCall,
         op = call[c].op, d = call[c].device, m = call[c].sent, SignSteps(c)
  PROVE  ServedBy(c, op, d, m) /\ UNCHANGED device
<1> USE QueueAssumption, DeviceAssumption
<1>a. DeviceTypeOK /\ TypeOK
  BY DEF DeviceInv, QueueInv
<1>1. ASSUME NEW w \in Workers, NEW intact \in BOOLEAN,
             SignBegins(c, w) \/ SignFatal(c, w, intact)
      PROVE  ServedBy(c, op, d, m) /\ UNCHANGED device
  <2>1. /\ op = "SIGN_DOCUMENT" /\ call[c].worker = None
        /\ call[c].code = Pending /\ Accept(c, w)
    BY <1>1 DEF SignBegins, SignFatal, Arrived
  <2>2. /\ job[w].kind = "idle" /\ job'[w].kind \in {"signing", "rejected"}
        /\ job'[w].session = m.session /\ OthersKeepTheirJob(w)
    <3>1. CASE SignBegins(c, w)
      BY <3>1, <1>a DEF SignBegins, SignStart, Start, Idle, NoJob, TypeOK,
         OthersKeepTheirJob
    <3>2. CASE SignFatal(c, w, intact)
      BY <3>2, <1>a DEF SignFatal, SignReject, Start, Idle, NoJob, TypeOK,
         OthersKeepTheirJob
    <3> QED
      BY <1>1, <3>1, <3>2
  <2>3. TakenUp(c, op, m, w)
    BY <2>1, <2>2 DEF TakenUp, Runs
  <2> QED
    BY <2>1, <2>3 DEF ServedBy, Accept
<1>2. ASSUME NEW g \in Signatures, SignPublishes(c, g)
      PROVE  ServedBy(c, op, d, m) /\ UNCHANGED device
  <2>1. /\ call[c].worker \in Workers
        /\ "signing" \in Runs(op)
        /\ op \in {"POLL_NEXT", "COMPLETE_AUTH", "SIGN_DOCUMENT"}
    BY <1>2, RunningCall DEF SignPublishes
  <2>2. op = "SIGN_DOCUMENT"
    BY <2>1 DEF Runs
  <2>3. /\ job'[call[c].worker].kind = "published"
        /\ job'[call[c].worker].session = job[call[c].worker].session
        /\ OthersKeepTheirJob(call[c].worker)
    BY <1>2, <1>a, <2>1
    DEF SignPublishes, Publish, TypeOK, Job, OthersKeepTheirJob
  <2>4. GoneOn(c, op)
    BY <1>2, <2>1, <2>2, <2>3 DEF GoneOn, SignPublishes, Runs
  <2> QED
    BY <2>4 DEF ServedBy, GoneOn
<1>3. ASSUME SignCommits(c) PROVE ServedBy(c, op, d, m) /\ UNCHANGED device
  <2>1. /\ call[c].worker \in Workers /\ call[c].code = Pending
        /\ "published" \in Runs(op)
        /\ op \in {"POLL_NEXT", "COMPLETE_AUTH", "SIGN_DOCUMENT"}
    BY <1>3, RunningCall DEF SignCommits
  <2>2. op = "SIGN_DOCUMENT"
    BY <2>1 DEF Runs
  <2>3. OthersKeepTheirJob(call[c].worker)
    BY <1>3, <1>a, <2>1 DEF SignCommits, CommitSignature, End, TypeOK,
       OthersKeepTheirJob
  <2>4. Told(op, d, m, Done)'
    BY <1>3, <2>2, SignCommitsTold DEF Told
  <2>5. CASE Reply(c, 200, Done)
    <3>1. Answers(c, op, d, m, 200, Done)
      BY <2>1, <2>2, <2>3, <2>4, <2>5 DEF Answers, Bodies
    <3> QED
      BY <1>3, <3>1 DEF ServedBy, SignCommits
  <2>6. CASE Reply(c, 503, None)
    BY <1>3, <2>1, <2>2, <2>3, <2>6, RefusalAnswers DEF SignCommits
  <2> QED
    BY <1>3, <2>5, <2>6 DEF SignCommits
<1> QED
  BY <1>1, <1>2, <1>3 DEF SignSteps

LEMMA ReportServed ==
  ASSUME QueueInv, DeviceInv, NEW c \in Calls, NEW op, NEW d, NEW m,
         call[c] # NoCall,
         op = call[c].op, d = call[c].device, m = call[c].sent, Reports(c)
  PROVE  ServedBy(c, op, d, m) /\ UNCHANGED device
<1> USE QueueAssumption, DeviceAssumption
<1>a. DeviceTypeOK /\ TypeOK /\ CallShape /\ Learned(op, d, m) /\ m \in Memory
  BY CallType DEF DeviceInv, QueueInv, Truthful
<1>1. /\ op = "REPORT_FAILED" /\ call[c].code = Pending
      /\ Reply(c, 200, Done) /\ ReportFailure(m.request, d)
      /\ m.request # None
  BY <1>a DEF Reports, Arrived, Respond, CallShape, Shaped
<1>2. m.request \in Requests /\ status[m.request] \notin {"NONE", "PENDING"}
  BY <1>a, <1>1 DEF Memory, Learned, Delivered
<1>3. status'[m.request] \in Terminal
  BY <1>a, <1>1, <1>2 DEF ReportFailure, AfterFailure, Due, Expirable,
     InFlight, Terminal, TypeOK, Statuses
<1>4. Told(op, d, m, Done)'
  BY <1>1, <1>3 DEF Told
<1>5. Answers(c, op, d, m, 200, Done)
  BY <1>1, <1>4 DEF Answers, Bodies, ReportFailure, OthersKeepTheirJob
<1> QED
  BY <1>5 DEF ServedBy, Reports, Respond

LEMMA UnauthorizedServed ==
  ASSUME NEW c \in Calls, NEW op, NEW d, NEW m,
         op = call[c].op, d = call[c].device, m = call[c].sent, Unauthorized(c)
  PROVE  ServedBy(c, op, d, m) /\ UNCHANGED device
<1>1. Answers(c, op, d, m, 403, None)
  BY DEF Unauthorized, Respond, Answers, Bodies, Arrived, vars,
     OthersKeepTheirJob
<1> QED
  BY <1>1 DEF ServedBy, Unauthorized, Respond

LEMMA UnavailableServed ==
  ASSUME QueueInv, DeviceInv, NEW c \in Calls, NEW op, NEW d, NEW m,
         op = call[c].op, d = call[c].device, m = call[c].sent, Unavailable(c)
  PROVE  ServedBy(c, op, d, m) /\ UNCHANGED device
<1> USE QueueAssumption, DeviceAssumption
<1>a. TypeOK
  BY DEF QueueInv
<1>1. CASE /\ \E o \in Calling : Arrived(c, o)
           /\ Reply(c, 429, None)
           /\ UNCHANGED vars
  <2>1. Answers(c, op, d, m, 429, None)
    BY <1>1 DEF Answers, Bodies, Arrived, vars, OthersKeepTheirJob
  <2> QED
    BY <2>1 DEF ServedBy, Unavailable
<1>2. CASE \/ /\ Running(c, {"claiming", "signing", "published"})
              /\ Rollback(call[c].worker)
              /\ Reply(c, 503, None)
           \/ /\ Running(c, {"published"})
              /\ RecordFails(call[c].worker)
              /\ Reply(c, 503, None)
  <2>1. /\ call[c].worker \in Workers /\ call[c].code = Pending
        /\ op # "REPORT_FAILED"
    BY <1>2, RunningCall
  <2>2. OthersKeepTheirJob(call[c].worker)
    BY <1>2, <1>a, <2>1 DEF Rollback, RecordFails, End, TypeOK,
       OthersKeepTheirJob
  <2>3. ServedBy(c, op, d, m)
    BY <1>2, <2>1, <2>2, RefusalAnswers
  <2> QED
    BY <2>3 DEF Unavailable
<1> QED
  BY <1>1, <1>2 DEF Unavailable

\* Together: whatever the server does with a call.
LEMMA ServerMoves ==
  ASSUME QueueInv, OneActivePerDocument, DeviceInv, NEW c \in Calls,
         Serve(c) \/ Damaged(c) \/ Unauthorized(c) \/ Unavailable(c)
  PROVE  /\ call[c] # NoCall
         /\ UNCHANGED device
         /\ \E op, d, m :
              /\ op = call[c].op /\ d = call[c].device /\ m = call[c].sent
              /\ ServedBy(c, op, d, m)
<1>1. call[c] # NoCall
  <2>1. ASSUME NEW op, Arrived(c, op) PROVE call[c] # NoCall
    BY <2>1 DEF Arrived
  <2>2. ASSUME NEW kinds, Running(c, kinds) PROVE call[c] # NoCall
    BY <2>2 DEF Running, NoCall
  <2>3. CASE Serve(c)
    BY <2>1, <2>2, <2>3
    DEF Serve, NextStart, NextFinish, NextNothing, ChallengeOpens,
        ChallengeRefused, Completes, CompleteFatal, CompleteRepeated,
        SignBegins, SignPublishes, SignCommits, SignFatal, Rejected, Reports
  <2>4. CASE Damaged(c)
    BY <2>1, <2>4 DEF Damaged, SignFatal
  <2>5. CASE Unavailable(c) \/ Unauthorized(c)
    BY <2>1, <2>2, <2>5 DEF Unavailable, Unauthorized
  <2> QED
    BY <2>3, <2>4, <2>5
<1>2. PICK op, d, m : op = call[c].op /\ d = call[c].device /\ m = call[c].sent
  OBVIOUS
<1>3. CASE Serve(c)
  <2>1. CASE (\E w \in Workers : NextStart(c, w)) \/ NextFinish(c) \/ NextNothing(c)
    BY <1>1, <1>2, <2>1, NextServed
  <2>2. CASE (\E s \in Sessions : ChallengeOpens(c, s)) \/ ChallengeRefused(c)
    BY <1>1, <1>2, <2>2, ChallengeServed
  <2>3. CASE \/ \E w \in Workers : CompleteFatal(c, w)
             \/ Completes(c)
             \/ CompleteRepeated(c)
    BY <1>1, <1>2, <2>3, CompleteServed
  <2>4. CASE \/ \E w \in Workers : SignBegins(c, w) \/ SignFatal(c, w, TRUE)
             \/ \E g \in Signatures : SignPublishes(c, g)
             \/ SignCommits(c)
    <3>1. SignSteps(c)
      BY <2>4 DEF SignSteps
    <3> QED
      BY <1>1, <1>2, <3>1, SignServed
  <2>5. CASE Rejected(c)
    BY <1>1, <1>2, <2>5, RejectedServed
  <2>6. CASE Reports(c)
    BY <1>1, <1>2, <2>6, ReportServed
  <2> QED
    BY <1>3, <2>1, <2>2, <2>3, <2>4, <2>5, <2>6 DEF Serve
<1>4. CASE Damaged(c)
  <2>1. SignSteps(c)
    BY <1>4 DEF Damaged, SignSteps
  <2> QED
    BY <1>1, <1>2, <2>1, SignServed
<1>5. CASE Unavailable(c)
  BY <1>1, <1>2, <1>5, UnavailableServed
<1>6. CASE Unauthorized(c)
  BY <1>1, <1>2, <1>6, UnauthorizedServed
<1> QED
  BY <1>1, <1>2, <1>3, <1>4, <1>5, <1>6

-----------------------------------------------------------------------------
(* The types                                                               *)

LEMMA NoCallIsNoCall == NoCall \notin Call
<1> SUFFICES ASSUME NoCall \in Call PROVE FALSE
  OBVIOUS
<1>1. "op" \in DOMAIN NoCall
  BY DEF Call
<1>2. DOMAIN NoCall = {"code", "worker"}
  BY DEF NoCall
<1> QED
  BY <1>1, <1>2

\* A reply that nobody waits for leaves no call.
LEMMA ReplyLost ==
  ASSUME DeviceTypeOK, NEW c \in Calls, NEW code, NEW body,
         Reply(c, code, body), ~Awaited(c)
  PROVE  /\ call' \in [Calls -> Call \cup {NoCall}]
         /\ call'[c] = NoCall
         /\ \A b \in Calls : b # c => call'[b] = call[b]
  BY DEF Reply, DeviceTypeOK

\* The record a reply leaves.
LEMMA ReplyFacts ==
  ASSUME DeviceTypeOK, NEW c \in Calls, call[c] # NoCall, Awaited(c),
         NEW code \in {200, 204, 403, 429, 503}, NEW body \in Bodies,
         Reply(c, code, body)
  PROVE  /\ call' \in [Calls -> Call \cup {NoCall}]
         /\ call'[c] # NoCall
         /\ call'[c].op = call[c].op
         /\ call'[c].device = call[c].device
         /\ call'[c].sent = call[c].sent
         /\ call'[c].worker = None
         /\ call'[c].code = code
         /\ call'[c].body = body
         /\ \A b \in Calls : b # c => call'[b] = call[b]
<1>1. call[c] \in Call /\ call \in [Calls -> Call \cup {NoCall}]
  BY CallType DEF DeviceTypeOK
<1>2. call' = [call EXCEPT ![c] = [call[c] EXCEPT !.worker = None, !.code = code,
                                                  !.body = body]]
  BY <1>1 DEF Reply
<1>3. [call[c] EXCEPT !.worker = None, !.code = code, !.body = body] \in Call
  <2> DEFINE i == [call[c] EXCEPT !.worker = None]
             j == [i EXCEPT !.code = code]
             k == [j EXCEPT !.body = body]
  <2>1. i \in Call
    BY <1>1 DEF Call
  <2> HIDE DEF i
  <2>2. j \in Call
    BY <2>1 DEF Call
  <2> HIDE DEF j
  <2>3. k \in Call
    BY <2>2 DEF Call
  <2> QED
    BY <2>3 DEF i, j
<1>4. call'[c] = [call[c] EXCEPT !.worker = None, !.code = code, !.body = body]
  BY <1>1, <1>2
<1>5. call' \in [Calls -> Call \cup {NoCall}] /\ call'[c] # NoCall
  BY <1>1, <1>2, <1>3, <1>4, NoCallIsNoCall
<1>6. /\ call'[c].op = call[c].op
      /\ call'[c].device = call[c].device
      /\ call'[c].sent = call[c].sent
      /\ call'[c].worker = None
      /\ call'[c].code = code
      /\ call'[c].body = body
  BY <1>1, <1>4 DEF Call
<1> QED
  BY <1>1, <1>2, <1>5, <1>6

\* The record a worker leaves that takes the call up.
LEMMA AcceptFacts ==
  ASSUME DeviceTypeOK, NEW c \in Calls, call[c] # NoCall, NEW w \in Workers,
         Accept(c, w)
  PROVE  /\ call' \in [Calls -> Call \cup {NoCall}]
         /\ call'[c] # NoCall
         /\ call'[c].op = call[c].op
         /\ call'[c].device = call[c].device
         /\ call'[c].sent = call[c].sent
         /\ call'[c].worker = w
         /\ call'[c].code = call[c].code
         /\ call'[c].body = call[c].body
         /\ \A b \in Calls : b # c => call'[b] = call[b]
<1>1. call[c] \in Call /\ call \in [Calls -> Call \cup {NoCall}]
  BY CallType DEF DeviceTypeOK
<1>2. call' = [call EXCEPT ![c] = [call[c] EXCEPT !.worker = w]]
  BY <1>1 DEF Accept
<1>3. [call[c] EXCEPT !.worker = w] \in Call
  BY <1>1 DEF Call
<1>4. call'[c] = [call[c] EXCEPT !.worker = w]
  BY <1>1, <1>2
<1>5. call' \in [Calls -> Call \cup {NoCall}] /\ call'[c] # NoCall
  BY <1>1, <1>2, <1>3, <1>4, NoCallIsNoCall
<1>6. /\ call'[c].op = call[c].op
      /\ call'[c].device = call[c].device
      /\ call'[c].sent = call[c].sent
      /\ call'[c].worker = w
      /\ call'[c].code = call[c].code
      /\ call'[c].body = call[c].body
  BY <1>1, <1>4 DEF Call
<1> QED
  BY <1>1, <1>2, <1>5, <1>6

\* The record a terminal sends.
LEMMA SendFacts ==
  ASSUME DeviceTypeOK, NEW d \in Devices, NEW c \in Calls, Send(d, c)
  PROVE  /\ call' \in [Calls -> Call \cup {NoCall}]
         /\ call'[c] # NoCall
         /\ call'[c].op = workflowState[d]
         /\ call'[c].device = d
         /\ call'[c].sent = memory[d]
         /\ call'[c].worker = None
         /\ call'[c].code = Pending
         /\ call'[c].body = None
         /\ \A b \in Calls : b # c => call'[b] = call[b]
         /\ awaited[d] = None /\ awaited' = [awaited EXCEPT ![d] = c]
         /\ call[c] = NoCall
         /\ workflowState[d] \in Calling
<1> DEFINE k == [op |-> workflowState[d], device |-> d, sent |-> memory[d],
                 worker |-> None, code |-> Pending, body |-> None]
<1>1. call \in [Calls -> Call \cup {NoCall}] /\ memory[d] \in Memory
  BY DEF DeviceTypeOK
<1>2. call' = [call EXCEPT ![c] = k] /\ workflowState[d] \in Calling
  BY DEF Send
<1>3. k \in Call
  BY <1>1, <1>2 DEF Call, Bodies
<1>4. call' \in [Calls -> Call \cup {NoCall}] /\ call'[c] # NoCall
  BY <1>1, <1>2, <1>3, NoCallIsNoCall
<1> QED
  BY <1>1, <1>2, <1>4 DEF Send

\* The histories and the counters of a step of the firmware.
LEMMA FirmwareCounts ==
  ASSUME QueueInv, DeviceInv, NEW d \in Devices, Firmware(d)
  PROVE  /\ shown' \subseteq Factors /\ mislaid' \subseteq Requests
         /\ mislaid \subseteq mislaid'
         /\ faults' \in 0 .. MaxFaults /\ reboots' \in 0 .. MaxReboots
<1> USE QueueAssumption, DeviceAssumption
<1>a. DeviceTypeOK /\ TypeOK /\ Shape
  BY DEF DeviceInv, QueueInv
<1>b. \A c : Taken(c) \subseteq Requests /\ Dropped(c) \subseteq Requests
  BY DEF Taken, Dropped
<1>c. /\ shown \subseteq Factors /\ mislaid \subseteq Requests
      /\ faults \in 0 .. MaxFaults /\ reboots \in 0 .. MaxReboots
      /\ MaxFaults \in Nat /\ MaxReboots \in Nat
  BY <1>a DEF DeviceTypeOK
<1>1. ASSUME \/ Poll(d)
             \/ \E c \in Calls : Send(d, c)
             \/ \E u \in Users \cup {None} : ReadCard(d, u)
             \/ TimeOut(d)
             \/ Finish(d)
      PROVE  UNCHANGED <<shown, mislaid, faults, reboots>>
  BY <1>1 DEF Poll, Send, ReadCard, TimeOut, Finish
<1>5. CASE Receive(d)
  <2>1. /\ UNCHANGED <<shown, faults, reboots>>
        /\ mislaid' = mislaid \cup Dropped(awaited[d])
    BY <1>5 DEF Receive
  <2> QED
    BY <2>1, <1>b, <1>c
<1>2. CASE Garbled(d) \/ GiveUp(d)
  <2>1. /\ UNCHANGED <<shown, reboots>>
        /\ mislaid' = mislaid \cup Taken(awaited[d])
        /\ faults < MaxFaults /\ faults' = faults + 1
    BY <1>2 DEF Garbled, GiveUp, Fault
  <2>2. faults' \in 0 .. MaxFaults
    BY <2>1, <1>c
  <2>3. mislaid' \subseteq Requests /\ mislaid \subseteq mislaid'
    BY <2>1, <1>b, <1>c
  <2> QED
    BY <2>1, <2>2, <2>3, <1>c
<1>3. CASE Reboot(d)
  <2>1. /\ UNCHANGED <<shown, faults>>
        /\ mislaid' \in {mislaid, mislaid \cup Taken(awaited[d])}
        /\ reboots < MaxReboots /\ reboots' = reboots + 1
    BY <1>3 DEF Reboot
  <2> QED
    BY <2>1, <1>b, <1>c
<1>4. ASSUME NEW u \in Users \cup {None}, ReadFinger(d, u)
      PROVE  /\ shown' \subseteq Factors /\ mislaid' = mislaid
             /\ faults' = faults /\ reboots' = reboots
  <2>1. /\ memory[d] \in Memory /\ Fits("WAIT_FINGERPRINT", memory[d])
        /\ Learned("WAIT_FINGERPRINT", d, memory[d])
    BY <1>4, TerminalFits DEF ReadFinger
  <2>2. /\ memory[d].request \in Requests /\ memory[d].session \in Sessions
        /\ memory[d].card \in Users \cup {None}
    BY <2>1 DEF Fits, Memory
  <2>3. status[memory[d].request] # "NONE"
    BY <2>1, <2>2 DEF Learned, Delivered
  <2>4. Displayed(d) \in Documents
    <3>2. /\ terms \in [Requests -> TermsRow \cup {None}]
          /\ terms[memory[d].request] # None
      BY <1>a, <2>2, <2>3 DEF Shape, TypeOK
    <3>1. terms[memory[d].request] \in TermsRow
      BY <2>2, <3>2
    <3> QED
      BY <3>1 DEF Displayed, TermsRow
  <2>5. [device |-> d, session |-> memory[d].session, card |-> memory[d].card,
         finger |-> u, document |-> Displayed(d)] \in Factors
    BY <2>2, <2>4 DEF Factors
  <2> QED
    BY <1>4, <1>a, <2>5 DEF ReadFinger, DeviceTypeOK
<1> QED
  BY <1>1, <1>2, <1>3, <1>4, <1>5, <1>c DEF Firmware

\* What the server counts.
LEMMA ServerCounts ==
  ASSUME DeviceTypeOK, NEW c \in Calls, Serve(c) \/ Damaged(c) \/ Unauthorized(c) \/ Unavailable(c)
  PROVE  /\ mislaid' \subseteq Requests /\ mislaid \subseteq mislaid'
         /\ faults' \in 0 .. MaxFaults
<1> USE DeviceAssumption DEF DeviceTypeOK
<1>1. ASSUME NEW w \in Workers,
             \/ NextStart(c, w)
             \/ CompleteFatal(c, w)
             \/ SignBegins(c, w)
             \/ \E intact \in BOOLEAN : SignFatal(c, w, intact)
      PROVE  UNCHANGED <<mislaid, faults>>
  BY <1>1 DEF NextStart, CompleteFatal, SignBegins, SignFatal, Accept
<1>2. ASSUME \/ NextNothing(c)
             \/ Unauthorized(c)
             \/ \E s \in Sessions : ChallengeOpens(c, s)
             \/ ChallengeRefused(c)
             \/ Completes(c)
             \/ CompleteRepeated(c)
             \/ \E g \in Signatures : SignPublishes(c, g)
             \/ Reports(c)
      PROVE  UNCHANGED <<mislaid, faults>>
  BY <1>2 DEF NextNothing, Unauthorized, ChallengeOpens, ChallengeRefused, Completes,
     CompleteRepeated, SignPublishes, Reports, Respond
<1>3. CASE NextFinish(c)
  BY <1>3 DEF NextFinish
<1>4. CASE SignCommits(c) \/ Rejected(c) \/ Unavailable(c)
  BY <1>4 DEF SignCommits, Rejected, Unavailable, Fault
<1> QED
  BY <1>1, <1>2, <1>3, <1>4 DEF Serve, Damaged

\* What a call is after the server's step.
LEMMA ServedFacts ==
  ASSUME DeviceTypeOK, NEW c \in Calls, call[c] # NoCall, NEW op, NEW d, NEW m,
         ServedBy(c, op, d, m)
  PROVE  /\ call' \in [Calls -> Call \cup {NoCall}]
         /\ \/ ~Awaited(c) /\ call'[c] = NoCall
            \/ /\ call'[c] # NoCall
               /\ call'[c].op = call[c].op
               /\ call'[c].device = call[c].device
               /\ call'[c].sent = call[c].sent
         /\ \A b \in Calls : b # c => call'[b] = call[b]
<1>1. CASE \E w \in Workers : TakenUp(c, op, m, w)
  BY <1>1, AcceptFacts DEF TakenUp
<1>2. CASE GoneOn(c, op)
  BY <1>2 DEF GoneOn, DeviceTypeOK
<1>3. CASE \E code, body : Answers(c, op, d, m, code, body)
  BY <1>3, ReplyFacts, ReplyLost DEF Answers
<1> QED
  BY <1>1, <1>2, <1>3 DEF ServedBy

\* Steps of the browsers and the environment are no business of terminals,
\* calls and the workers that run calls.
Elsewhere ==
  /\ UNCHANGED <<device, call, mislaid, faults>>
  /\ \A w \in Workers : job[w].kind \notin {"idle", "creating", "polling"} =>
       job'[w] = job[w]

LEMMA ElsewhereSteps ==
  ASSUME TypeOK,
         \/ \E w \in Workers : (BrowserCalls(w) \/ BrowserEnds(w)) /\ Unheard
         \/ Environment /\ Unheard
         \/ UNCHANGED allVars
  PROVE  Elsewhere
<1>1. ASSUME NEW w \in Workers, BrowserCalls(w), Unheard PROVE Elsewhere
  BY <1>1 DEF BrowserCalls, Unheard, Elsewhere, CreateStart, PollLock, Start,
     Idle, TypeOK
<1>2. ASSUME NEW w \in Workers, BrowserEnds(w), Unheard PROVE Elsewhere
  BY <1>2 DEF BrowserEnds, Unheard, Elsewhere, CreateFinish, PollCommit,
     Rollback, End, TypeOK
<1>3. CASE Environment /\ Unheard
  BY <1>3 DEF Environment, Unheard, Elsewhere, Tick, Withdraw
<1>4. CASE UNCHANGED allVars
  BY <1>4 DEF allVars, vars, device, Elsewhere
<1> QED
  BY <1>1, <1>2, <1>3, <1>4

\* The four kinds of step.
LEMMA DeviceCases ==
  ASSUME TypeOK, [DeviceNext]_allVars
  PROVE  \/ \E d \in Devices : Firmware(d)
         \/ \E c \in Calls : Serve(c) \/ Damaged(c) \/ Unauthorized(c) \/ Unavailable(c)
         \/ \E c \in Calls : Vanish(c)
         \/ Elsewhere
  BY ElsewhereSteps DEF DeviceNext

LEMMA DeviceTypeStep ==
  ASSUME QueueInv, OneActivePerDocument, DeviceInv, [DeviceNext]_allVars
  PROVE  DeviceTypeOK'
<1> USE QueueAssumption, DeviceAssumption
<1>a. DeviceTypeOK /\ TypeOK
  BY DEF DeviceInv, QueueInv
<1>1. ASSUME NEW d \in Devices, Firmware(d) PROVE DeviceTypeOK'
  <2>1. PICK state, m :
          /\ Move(d, state, m)
          /\ \/ Local(d)
             \/ Over(d, m)
             \/ state \in Calling /\ \E c \in Calls : Send(d, c)
    BY <1>1, FirmwareMoves
  <2>2. /\ workflowState' = [workflowState EXCEPT ![d] = state]
        /\ memory' = [memory EXCEPT ![d] = m]
        /\ state \in WorkflowStates /\ m \in Memory /\ Fits(state, m)
    BY <2>1 DEF Move, Enter
  <2>3. /\ workflowState' \in [Devices -> WorkflowStates]
        /\ memory' \in [Devices -> Memory]
    BY <1>a, <2>2 DEF DeviceTypeOK
  <2>4. ASSUME NEW e \in Devices
        PROVE  /\ workflowState'[e] \notin {"IDLE", "POLL_NEXT"} =>
                    memory'[e].request # None
               /\ workflowState'[e] \in {"WAIT_FINGERPRINT", "COMPLETE_AUTH",
                                       "SIGN_DOCUMENT", "SUCCESS"} =>
                    memory'[e].session # None
    BY <1>a, <2>2 DEF DeviceTypeOK, Fits
  <2>5. /\ call' \in [Calls -> Call \cup {NoCall}]
        /\ awaited' \in [Devices -> Calls \cup {None}]
    <3>1. CASE Local(d)
      BY <1>a, <3>1 DEF Local, DeviceTypeOK
    <3>2. CASE Over(d, m)
      BY <1>a, <3>2 DEF Over, DeviceTypeOK
    <3>3. ASSUME NEW c \in Calls, Send(d, c)
          PROVE  /\ call' \in [Calls -> Call \cup {NoCall}]
                 /\ awaited' \in [Devices -> Calls \cup {None}]
      BY <1>a, <3>3, SendFacts DEF DeviceTypeOK
    <3> QED
      BY <2>1, <3>1, <3>2, <3>3
  <2> QED
    BY <1>1, <2>3, <2>4, <2>5, FirmwareCounts DEF DeviceTypeOK
<1>2. ASSUME NEW c \in Calls, Serve(c) \/ Damaged(c) \/ Unauthorized(c) \/ Unavailable(c)
      PROVE  DeviceTypeOK'
  <2>1. call' \in [Calls -> Call \cup {NoCall}] /\ UNCHANGED device
    BY <1>2, <1>a, ServerMoves, ServedFacts
  <2> QED
    BY <1>2, <1>a, <2>1, ServerCounts DEF DeviceTypeOK, device
<1>3. ASSUME NEW c \in Calls, Vanish(c) PROVE DeviceTypeOK'
  BY <1>3, <1>a DEF Vanish, DeviceTypeOK, device
<1>4. CASE Elsewhere
  BY <1>4, <1>a DEF Elsewhere, DeviceTypeOK, device
<1> QED
  BY <1>a, <1>1, <1>2, <1>3, <1>4, DeviceCases

-----------------------------------------------------------------------------
(* The parts of DeviceInv, step by step                                    *)

LEMMA TerminalShapeStep ==
  ASSUME QueueInv, OneActivePerDocument, DeviceInv, [DeviceNext]_allVars
  PROVE  TerminalShape'
<1> USE QueueAssumption, DeviceAssumption
<1>a. DeviceTypeOK /\ TypeOK /\ TerminalShape
  BY DEF DeviceInv, QueueInv
<1> DEFINE Waits(e) ==
             awaited[e] # None =>
               /\ workflowState[e] \in Calling
               /\ call[awaited[e]] # NoCall
               /\ call[awaited[e]].op = workflowState[e]
               /\ call[awaited[e]].device = e
               /\ call[awaited[e]].sent = memory[e]
<1>b. \A e \in Devices : Waits(e) /\ awaited[e] \in Calls \cup {None}
  BY <1>a DEF TerminalShape, DeviceTypeOK
<1>1. ASSUME NEW d \in Devices, Firmware(d) PROVE TerminalShape'
  <2>1. PICK state, m :
          /\ Move(d, state, m)
          /\ \/ Local(d)
             \/ Over(d, m)
             \/ state \in Calling /\ \E c \in Calls : Send(d, c)
    BY <1>1, FirmwareMoves
  <2>2. /\ workflowState' = [workflowState EXCEPT ![d] = state]
        /\ memory' = [memory EXCEPT ![d] = m]
        /\ Fits(state, m)
    BY <2>1 DEF Move, Enter
  <2>3. /\ workflowState \in [Devices -> WorkflowStates]
        /\ memory \in [Devices -> Memory]
        /\ awaited \in [Devices -> Calls \cup {None}]
        /\ call \in [Calls -> Call \cup {NoCall}]
    BY <1>a DEF DeviceTypeOK
  <2>4. ASSUME NEW e \in Devices PROVE Waits(e)'
    <3>1. CASE Local(d)
      BY <1>b, <2>2, <2>3, <3>1 DEF Local
    <3>2. CASE Over(d, m)
      <4>1. CASE e = d
        BY <2>3, <3>2, <4>1 DEF Over
      <4>2. CASE e # d
        <5>1. /\ awaited'[e] = awaited[e]
              /\ workflowState'[e] = workflowState[e]
              /\ memory'[e] = memory[e]
          BY <2>2, <2>3, <3>2, <4>2 DEF Over
        <5>2. awaited[e] # None => awaited[e] # awaited[d]
          BY <1>b, <4>2
        <5>3. awaited[e] # None => call'[awaited[e]] = call[awaited[e]]
          BY <1>b, <2>3, <3>2, <5>2 DEF Over
        <5> QED
          BY <1>b, <5>1, <5>3
      <4> QED
        BY <4>1, <4>2
    <3>3. ASSUME NEW c \in Calls, Send(d, c) PROVE Waits(e)'
      <4>1. CASE e = d
        <5>1. awaited'[d] = c /\ UNCHANGED <<workflowState, memory>>
          BY <1>a, <2>3, <3>3, SendFacts DEF Send
        <5> QED
          BY <1>a, <3>3, <4>1, <5>1, SendFacts
      <4>2. CASE e # d
        <5>1. /\ awaited'[e] = awaited[e]
              /\ workflowState'[e] = workflowState[e]
              /\ memory'[e] = memory[e]
          BY <1>a, <2>2, <2>3, <3>3, <4>2, SendFacts
        <5>2. awaited[e] # None => call'[awaited[e]] = call[awaited[e]]
          BY <1>a, <1>b, <3>3, SendFacts
        <5> QED
          BY <1>b, <5>1, <5>2
      <4> QED
        BY <4>1, <4>2
    <3> QED
      BY <2>1, <3>1, <3>2, <3>3
  <2>5. ASSUME NEW e \in Devices
        PROVE  /\ workflowState'[e] \in {"IDLE", "POLL_NEXT"} =>
                    memory'[e] = Cleared
               /\ workflowState'[e] = "WAIT_RFID" => memory'[e].session = None
    BY <1>a, <2>2, <2>3 DEF TerminalShape, Fits
  <2> QED
    BY <2>4, <2>5 DEF TerminalShape
<1>2. ASSUME NEW c \in Calls, Serve(c) \/ Damaged(c) \/ Unauthorized(c) \/ Unavailable(c)
      PROVE  TerminalShape'
  <2>1. /\ UNCHANGED device
        /\ Awaited(c) => /\ call'[c] # NoCall
                         /\ call'[c].op = call[c].op
                         /\ call'[c].device = call[c].device
                         /\ call'[c].sent = call[c].sent
        /\ \A b \in Calls : b # c => call'[b] = call[b]
    BY <1>2, <1>a, ServerMoves, ServedFacts
  <2>2. ASSUME NEW e \in Devices PROVE Waits(e)'
    BY <1>b, <2>1 DEF device, Awaited
  <2> QED
    BY <1>a, <2>1, <2>2 DEF TerminalShape, device
<1>3. ASSUME NEW c \in Calls, Vanish(c) PROVE TerminalShape'
  <2>1. /\ UNCHANGED device
        /\ \A e \in Devices : awaited[e] # c
        /\ \A b \in Calls : b # c => call'[b] = call[b]
    BY <1>3, <1>a DEF Vanish, Awaited, DeviceTypeOK
  <2>2. ASSUME NEW e \in Devices PROVE Waits(e)'
    BY <1>b, <2>1 DEF device
  <2> QED
    BY <1>a, <2>1, <2>2 DEF TerminalShape, device
<1>4. CASE Elsewhere
  BY <1>4, <1>a DEF Elsewhere, TerminalShape, device
<1> QED
  BY <1>a, <1>1, <1>2, <1>3, <1>4, DeviceCases

\* A call that is left alone, and whose worker is, keeps its shape.
LEMMA ShapedKept ==
  ASSUME NEW c \in Calls, Shaped(c), call'[c] = call[c],
         call[c].worker # None => job'[call[c].worker] = job[call[c].worker]
  PROVE  Shaped(c)'
  BY DEF Shaped

Alone == \A b, c \in Calls :
           b # c /\ call[c].worker # None => call[b].worker # call[c].worker

LEMMA CallShapeStep ==
  ASSUME QueueInv, OneActivePerDocument, DeviceInv, [DeviceNext]_allVars
  PROVE  CallShape'
<1> USE QueueAssumption, DeviceAssumption
<1>a. /\ DeviceTypeOK /\ TypeOK /\ CallShape
      /\ call \in [Calls -> Call \cup {NoCall}]
      /\ \A c \in Calls : call[c].worker \in Workers \cup {None}
  <2>1. DeviceTypeOK /\ TypeOK /\ CallShape
    BY DEF DeviceInv, QueueInv
  <2>2. NoCall.worker = None
    BY DEF NoCall
  <2> QED
    BY <2>1, <2>2, CallType DEF DeviceTypeOK
<1>b. (\A c \in Calls : Shaped(c)) /\ Alone
  BY <1>a DEF CallShape, Alone
<1>c. (\A c \in Calls : Shaped(c)') /\ Alone' => CallShape'
  BY DEF CallShape, Alone
<1>d. NoCall.worker = None
  BY DEF NoCall
<1>1. ASSUME NEW d \in Devices, Firmware(d)
      PROVE  (\A c \in Calls : Shaped(c)') /\ Alone'
  <2>1. job' = job
    BY <1>1, FirmwareIsOutside DEF vars
  <2>2. PICK state, m :
          /\ Move(d, state, m)
          /\ \/ Local(d)
             \/ Over(d, m)
             \/ state \in Calling /\ \E c \in Calls : Send(d, c)
    BY <1>1, FirmwareMoves
  <2>3. CASE Local(d)
    BY <1>b, <2>1, <2>3, ShapedKept DEF Local, Alone
  <2>4. CASE Over(d, m)
    <3>1. \A c \in Calls : call'[c] \in {call[c], NoCall}
      BY <1>a, <2>4 DEF Over
    <3>2. Alone'
      BY <1>b, <1>d, <3>1 DEF Alone
    <3>3. ASSUME NEW c \in Calls PROVE Shaped(c)'
      BY <1>b, <2>1, <3>1, ShapedKept DEF Shaped
    <3> QED
      BY <3>2, <3>3
  <2>5. ASSUME NEW c \in Calls, Send(d, c)
        PROVE  (\A b \in Calls : Shaped(b)') /\ Alone'
    <3>1. /\ call'[c].op = workflowState[d]
          /\ call'[c].sent = memory[d]
          /\ call'[c].worker = None
          /\ call'[c].code = Pending
          /\ call'[c].body = None
          /\ \A b \in Calls : b # c => call'[b] = call[b]
          /\ workflowState[d] \in Calling
      BY <1>a, <2>5, SendFacts
    <3>2. Alone'
      BY <1>b, <3>1 DEF Alone
    <3>3. Shaped(c)'
      BY <3>1, TerminalFits DEF Shaped, Fits, Pending, Calling
    <3>4. ASSUME NEW b \in Calls, b # c PROVE Shaped(b)'
      BY <1>b, <2>1, <3>1, <3>4, ShapedKept
    <3> QED
      BY <3>2, <3>3, <3>4
  <2> QED
    BY <2>2, <2>3, <2>4, <2>5
<1>2. ASSUME NEW c \in Calls, Serve(c) \/ Damaged(c) \/ Unauthorized(c) \/ Unavailable(c)
      PROVE  (\A b \in Calls : Shaped(b)') /\ Alone'
  <2>1. PICK op, d, m :
          /\ op = call[c].op /\ d = call[c].device /\ m = call[c].sent
          /\ ServedBy(c, op, d, m)
    BY <1>2, ServerMoves
  <2>2. /\ call[c] # NoCall /\ op \in Calling
        /\ \/ ~Awaited(c) /\ call'[c] = NoCall
           \/ call'[c].op = op /\ call'[c].device = d /\ call'[c].sent = m
        /\ \A b \in Calls : b # c => call'[b] = call[b]
    BY <1>2, <1>a, <2>1, ServerMoves, ServedFacts, CallType
  <2>3. /\ op # "POLL_NEXT" => m.request # None
        /\ op \in {"COMPLETE_AUTH", "SIGN_DOCUMENT"} => m.session # None
    BY <1>b, <2>1, <2>2 DEF Shaped
  <2>4. ASSUME NEW w \in Workers, TakenUp(c, op, m, w)
        PROVE  (\A b \in Calls : Shaped(b)') /\ Alone'
    <3>1. /\ call'[c].worker = w /\ call'[c].code = Pending
          /\ call'[c].body = call[c].body /\ call'[c] # NoCall
      BY <1>a, <2>2, <2>4, AcceptFacts DEF TakenUp
    <3>2. ASSUME NEW b \in Calls, b # c
          PROVE  /\ call[b].worker # w /\ Shaped(b)'
                 /\ call'[b].worker # w
      <4>1. call[b].worker # w
        BY <1>b, <1>d, <2>4 DEF Shaped, TakenUp, Runs
      <4>2. call[b].worker # None => job'[call[b].worker] = job[call[b].worker]
        BY <1>a, <2>4, <4>1 DEF TakenUp, OthersKeepTheirJob
      <4> QED
        BY <1>b, <2>2, <3>2, <4>1, <4>2, ShapedKept
    <3>3. Shaped(c)'
      BY <1>b, <2>1, <2>2, <2>3, <2>4, <3>1 DEF Shaped, TakenUp, Pending
    <3>4. Alone'
      BY <1>b, <2>2, <3>1, <3>2 DEF Alone
    <3> QED
      BY <3>2, <3>3, <3>4
  <2>5. CASE GoneOn(c, op)
    <3>1. call' = call
      BY <2>5 DEF GoneOn
    <3>2. Alone'
      BY <1>b, <3>1 DEF Alone
    <3>3. Shaped(c)'
      BY <1>b, <2>1, <2>2, <2>5, <3>1 DEF Shaped, GoneOn
    <3>4. ASSUME NEW b \in Calls, b # c PROVE Shaped(b)'
      <4>1. call[b].worker # None => job'[call[b].worker] = job[call[b].worker]
        BY <1>a, <1>b, <2>5, <3>4 DEF GoneOn, OthersKeepTheirJob, Alone
      <4> QED
        BY <1>b, <3>1, <4>1, ShapedKept
    <3> QED
      BY <3>2, <3>3, <3>4
  <2>6. ASSUME NEW code, NEW body, Answers(c, op, d, m, code, body)
        PROVE  (\A b \in Calls : Shaped(b)') /\ Alone'
    <3>1. \/ call'[c] = NoCall
          \/ /\ call'[c].worker = None /\ call'[c].code = code
             /\ call'[c].body = body /\ call'[c] # NoCall
      BY <1>a, <2>2, <2>6, ReplyFacts, ReplyLost DEF Answers
    <3>2. Alone'
      BY <1>b, <1>d, <2>2, <3>1 DEF Alone
    <3>3. Shaped(c)'
      <4>1. CASE call'[c] = NoCall
        BY <4>1 DEF Shaped
      <4>2. CASE call'[c] # NoCall
        BY <2>1, <2>2, <2>3, <2>6, <3>1, <4>2 DEF Shaped, Answers
      <4> QED
        BY <4>1, <4>2
    <3>4. ASSUME NEW b \in Calls, b # c PROVE Shaped(b)'
      <4>1. call[b].worker # None => job'[call[b].worker] = job[call[b].worker]
        BY <1>a, <1>b, <2>6, <3>4 DEF Answers, OthersKeepTheirJob, Alone
      <4> QED
        BY <1>b, <2>2, <3>4, <4>1, ShapedKept
    <3> QED
      BY <3>2, <3>3, <3>4
  <2> QED
    BY <2>1, <2>4, <2>5, <2>6 DEF ServedBy
<1>3. ASSUME NEW c \in Calls, Vanish(c)
      PROVE  (\A b \in Calls : Shaped(b)') /\ Alone'
  <2>1. /\ job' = job
        /\ \A b \in Calls : call'[b] \in {call[b], NoCall}
    BY <1>3, <1>a DEF Vanish, vars
  <2>2. Alone'
    BY <1>b, <1>d, <2>1 DEF Alone
  <2>3. ASSUME NEW b \in Calls PROVE Shaped(b)'
    BY <1>b, <2>1, ShapedKept DEF Shaped
  <2> QED
    BY <2>2, <2>3
<1>4. ASSUME Elsewhere PROVE (\A b \in Calls : Shaped(b)') /\ Alone'
  <2>1. call' = call
    BY <1>4 DEF Elsewhere
  <2>2. ASSUME NEW b \in Calls PROVE Shaped(b)'
    <3>1. call[b].worker # None => job'[call[b].worker] = job[call[b].worker]
      BY <1>a, <1>b, <1>4, <1>d DEF Shaped, Elsewhere, Runs
    <3> QED
      BY <1>b, <2>1, <3>1, ShapedKept
  <2> QED
    BY <1>b, <2>1, <2>2 DEF Alone
<1> QED
  BY <1>a, <1>c, <1>1, <1>2, <1>3, <1>4, DeviceCases

-----------------------------------------------------------------------------
(* What terminals know and answers say stays true                          *)

CallTrue(c) ==
  call[c] # NoCall =>
    /\ Learned(call[c].op, call[c].device, call[c].sent)
    /\ call[c].code = 200 =>
         Told(call[c].op, call[c].device, call[c].sent, call[c].body)

LEMMA CallTrueKept ==
  ASSUME Grow, TypeOK, DeviceTypeOK, shown \subseteq shown', NEW c \in Calls,
         Shaped(c), CallTrue(c), call'[c] = call[c]
  PROVE  CallTrue(c)'
<1>1. CASE call[c] = NoCall
  BY <1>1 DEF CallTrue, NoCall
<1>2. CASE call[c] # NoCall
  <2>1. PICK op, d, m, body : /\ op = call[c].op /\ d = call[c].device
                              /\ m = call[c].sent /\ body = call[c].body
    OBVIOUS
  <2>2. op \in Calling /\ m \in Memory /\ Learned(op, d, m)
    BY <1>2, <2>1, CallType DEF CallTrue
  <2>3. op # "POLL_NEXT" => m.request # None /\ Delivered(m.request)
    BY <1>2, <2>1, <2>2 DEF Shaped, Learned
  <2>4. Learned(op, d, m)'
    BY <2>2, <2>3, LearnedKept
  <2>5. call[c].code = 200 => Told(op, d, m, body)'
    BY <1>2, <2>1, <2>2, <2>3, ToldKept DEF Shaped, CallTrue
  <2> QED
    BY <2>1, <2>4, <2>5 DEF CallTrue
<1> QED
  BY <1>1, <1>2

LEMMA TerminalTrueKept ==
  ASSUME Grow, TypeOK, DeviceInv, shown \subseteq shown', NEW e \in Devices,
         workflowState'[e] = workflowState[e], memory'[e] = memory[e]
  PROVE  Learned(workflowState[e], e, memory[e])'
<1>1. PICK state, m : state = workflowState[e] /\ m = memory[e]
  OBVIOUS
<1>2. m \in Memory /\ Fits(state, m) /\ Learned(state, e, m)
  BY <1>1, TerminalFits
<1>3. Learned(state, e, m)'
  BY <1>2, LearnedKept DEF Fits
<1> QED
  BY <1>1, <1>3

LEMMA TruthfulStep ==
  ASSUME QueueInv, OneActivePerDocument, DeviceInv, [DeviceNext]_allVars
  PROVE  Truthful'
<1>a. /\ DeviceTypeOK /\ TypeOK /\ Grow
      /\ \A c \in Calls : Shaped(c) /\ CallTrue(c)
  BY DeviceStepIsQueueStep, GrowStep
  DEF DeviceInv, QueueInv, CallShape, Truthful, CallTrue
<1>b. ASSUME \A e \in Devices : Learned(workflowState[e], e, memory[e])',
             \A c \in Calls : CallTrue(c)'
      PROVE  Truthful'
  BY <1>b DEF Truthful, CallTrue
<1>c. ASSUME UNCHANGED device
      PROVE  \A e \in Devices : Learned(workflowState[e], e, memory[e])'
  BY <1>a, <1>c, TerminalTrueKept DEF device
<1>d. ASSUME NEW c \in Calls, call'[c] = NoCall PROVE CallTrue(c)'
  BY <1>d DEF CallTrue, NoCall
<1>1. ASSUME NEW d \in Devices, Firmware(d) PROVE Truthful'
  <2>1. PICK state, m :
          /\ Move(d, state, m) /\ shown \subseteq shown'
          /\ \/ Local(d)
             \/ Over(d, m)
             \/ state \in Calling /\ \E c \in Calls : Send(d, c)
    BY <1>1, FirmwareMoves
  <2>2. /\ workflowState' = [workflowState EXCEPT ![d] = state]
        /\ memory' = [memory EXCEPT ![d] = m]
        /\ Learned(state, d, m)'
    BY <2>1 DEF Move, Enter
  <2>3. workflowState'[d] = state /\ memory'[d] = m
    BY <1>a, <2>2 DEF DeviceTypeOK
  <2>4. ASSUME NEW e \in Devices
        PROVE  Learned(workflowState[e], e, memory[e])'
    <3>1. CASE e = d
      BY <2>2, <2>3, <3>1
    <3>2. CASE e # d
      BY <1>a, <2>1, <2>2, <3>2, TerminalTrueKept DEF DeviceTypeOK
    <3> QED
      BY <3>1, <3>2
  <2>5. ASSUME NEW b \in Calls PROVE CallTrue(b)'
    <3>1. CASE Local(d)
      BY <1>a, <2>1, <3>1, CallTrueKept DEF Local
    <3>2. CASE Over(d, m)
      <4>1. call'[b] \in {call[b], NoCall}
        BY <1>a, <3>2 DEF Over, DeviceTypeOK
      <4> QED
        BY <1>a, <1>d, <2>1, <4>1, CallTrueKept
    <3>3. ASSUME NEW c \in Calls, Send(d, c) PROVE CallTrue(b)'
      <4>1. CASE b = c
        <5>1. /\ call'[c].op = workflowState[d] /\ call'[c].device = d
              /\ call'[c].sent = memory[d] /\ call'[c].code # 200
          BY <1>a, <3>3, SendFacts DEF Pending
        <5>2. workflowState[d] = state /\ memory[d] = m
          BY <2>3, <3>3 DEF Send
        <5> QED
          BY <2>2, <4>1, <5>1, <5>2 DEF CallTrue
      <4>2. CASE b # c
        BY <1>a, <2>1, <3>3, <4>2, SendFacts, CallTrueKept
      <4> QED
        BY <4>1, <4>2
    <3> QED
      BY <2>1, <3>1, <3>2, <3>3
  <2> QED
    BY <1>b, <2>4, <2>5
<1>2. ASSUME NEW c \in Calls, Serve(c) \/ Damaged(c) \/ Unauthorized(c) \/ Unavailable(c)
      PROVE  Truthful'
  <2>1. PICK op, d, m :
          /\ op = call[c].op /\ d = call[c].device /\ m = call[c].sent
          /\ ServedBy(c, op, d, m) /\ UNCHANGED device
    BY <1>2, ServerMoves
  <2>2. /\ call[c] # NoCall
        /\ \/ call'[c] = NoCall
           \/ call'[c].op = op /\ call'[c].device = d /\ call'[c].sent = m
        /\ \A b \in Calls : b # c => call'[b] = call[b]
    BY <1>2, <1>a, <2>1, ServerMoves, ServedFacts
  <2>3. shown' = shown
    BY <2>1 DEF device
  <2>4. op \in Calling /\ m \in Memory /\ Learned(op, d, m)
    BY <1>a, <2>1, <2>2, CallType DEF CallTrue
  <2>5. op # "POLL_NEXT" => m.request # None
    BY <1>a, <2>1, <2>2 DEF Shaped
  <2>6. Learned(op, d, m)'
    BY <1>a, <2>3, <2>4, <2>5, LearnedKept DEF Calling
  <2>7. CallTrue(c)'
    <3>4. CASE call'[c] = NoCall
      BY <1>d, <3>4
    <3>1. ASSUME NEW w \in Workers, TakenUp(c, op, m, w) PROVE CallTrue(c)'
      <4>1. call'[c].code # 200
        BY <1>a, <2>2, <3>1, AcceptFacts DEF TakenUp, Pending
      <4> QED
        BY <1>d, <2>2, <2>6, <4>1 DEF CallTrue
    <3>2. CASE GoneOn(c, op)
      BY <1>a, <2>3, <3>2, CallTrueKept DEF GoneOn
    <3>3. ASSUME NEW code, NEW body, Answers(c, op, d, m, code, body)
          PROVE  CallTrue(c)'
      <4>1. \/ call'[c] = NoCall
            \/ call'[c].code = code /\ call'[c].body = body
        BY <1>a, <2>2, <3>3, ReplyFacts, ReplyLost DEF Answers
      <4>2. code = 200 => Told(op, d, m, body)'
        BY <3>3 DEF Answers
      <4> QED
        BY <1>d, <2>2, <2>6, <4>1, <4>2 DEF CallTrue
    <3> QED
      BY <2>1, <3>1, <3>2, <3>3 DEF ServedBy
  <2>8. ASSUME NEW b \in Calls, b # c PROVE CallTrue(b)'
    BY <1>a, <2>2, <2>3, <2>8, CallTrueKept
  <2> QED
    BY <1>b, <1>c, <2>1, <2>7, <2>8
<1>3. ASSUME NEW c \in Calls, Vanish(c) PROVE Truthful'
  <2>1. UNCHANGED device /\ \A b \in Calls : call'[b] \in {call[b], NoCall}
    BY <1>3, <1>a DEF Vanish, DeviceTypeOK
  <2>2. shown' = shown
    BY <2>1 DEF device
  <2>3. \A b \in Calls : CallTrue(b)'
    BY <1>a, <1>d, <2>1, <2>2, CallTrueKept
  <2> QED
    BY <1>b, <1>c, <2>1, <2>3
<1>4. CASE Elsewhere
  <2>1. UNCHANGED <<device, call>> /\ shown' = shown
    BY <1>4 DEF Elsewhere, device
  <2>2. \A b \in Calls : CallTrue(b)'
    BY <1>a, <2>1, CallTrueKept
  <2> QED
    BY <1>b, <1>c, <2>1, <2>2
<1> QED
  BY <1>a, <1>1, <1>2, <1>3, <1>4, DeviceCases

-----------------------------------------------------------------------------
(* Who verifies a session, and who puts a request in flight                *)

\* No session becomes verified, and no request comes in flight.
Quiet ==
  /\ \A s \in Sessions : phase'[s] \in {"VERIFIED", "USED"} =>
       phase[s] \in {"VERIFIED", "USED"}
  /\ \A r \in Requests : status'[r] \in InFlight => status[r] \in InFlight

LEMMA QuietRows ==
  ASSUME UNCHANGED <<rows, auth>> PROVE Quiet
  BY DEF Quiet, rows, auth

LEMMA QuietSteps ==
  ASSUME QueueInv,
         \/ \E w \in Workers, r \in Requests, d \in Devices :
              CreateFinish(w, r, d)
         \/ \E w \in Workers : \/ PollCommit(w)
                               \/ PersistFailure(w)
                               \/ CommitSignature(w)
                               \/ Rollback(w)
         \/ \E d \in Devices, t \in 0 .. now : ClaimRefused(d, t)
         \/ \E d, u, doc : \E s \in Sessions : Challenge(d, u, doc, s)
         \/ \E r \in Requests, d \in Devices : ReportFailure(r, d)
  PROVE  Quiet
<1> USE QueueAssumption, RowAssumption DEF Quiet, InFlight
<1>a. TypeOK /\ SessionBinding /\ SigningHoldsRequest
  BY DEF QueueInv
<1>1. ASSUME NEW w \in Workers, NEW r \in Requests, NEW d \in Devices,
             CreateFinish(w, r, d)
      PROVE  Quiet
  BY <1>1, <1>a DEF CreateFinish, TypeOK, auth
<1>2. ASSUME NEW w \in Workers, PollCommit(w) PROVE Quiet
  BY <1>2, <1>a DEF PollCommit, TypeOK, auth
<1>3. ASSUME NEW w \in Workers, PersistFailure(w) PROVE Quiet
  BY <1>3, <1>a DEF PersistFailure, AfterFailure, TypeOK, auth
<1>4. ASSUME NEW w \in Workers, CommitSignature(w) PROVE Quiet
  <2>1. phase[job[w].session] = "VERIFIED"
    BY <1>4, <1>a DEF CommitSignature, SigningHoldsRequest, SessionBinding,
       Unconsumed
  <2> QED
    BY <1>4, <1>a, <2>1 DEF CommitSignature, TypeOK
<1>5. ASSUME NEW w \in Workers, Rollback(w) PROVE Quiet
  BY <1>5 DEF Rollback, rows, auth
<1>6. ASSUME NEW d \in Devices, NEW t \in 0 .. now, ClaimRefused(d, t)
      PROVE  Quiet
  BY <1>6, <1>a DEF ClaimRefused, TypeOK, auth
<1>7. ASSUME NEW d, NEW u, NEW doc, NEW s \in Sessions, Challenge(d, u, doc, s)
      PROVE  Quiet
  BY <1>7, <1>a DEF Challenge, Attachable, TypeOK
<1>8. ASSUME NEW r \in Requests, NEW d \in Devices, ReportFailure(r, d)
      PROVE  Quiet
  BY <1>8, <1>a DEF ReportFailure, AfterFailure, TypeOK, auth
<1> QED
  BY <1>1, <1>2, <1>3, <1>4, <1>5, <1>6, <1>7, <1>8

LEMMA ServerQuiet ==
  ASSUME QueueInv, DeviceInv, NEW c \in Calls,
         Serve(c) \/ Damaged(c) \/ Unauthorized(c) \/ Unavailable(c)
  PROVE  NextFinish(c) \/ Completes(c) \/ Quiet
<1> USE QueueAssumption, DeviceAssumption
<1>a. DeviceTypeOK /\ TypeOK /\ CallShape
  BY DEF DeviceInv, QueueInv
<1>1. ASSUME NEW w \in Workers,
             \/ NextStart(c, w)
             \/ CompleteFatal(c, w)
             \/ SignBegins(c, w)
             \/ \E intact \in BOOLEAN : SignFatal(c, w, intact)
      PROVE  Quiet
  <2>1. UNCHANGED <<rows, auth>>
    BY <1>1 DEF NextStart, CompleteFatal, SignBegins, SignFatal, ClaimStart,
       CompleteReject, SignStart, SignReject
  <2> QED
    BY <2>1, QuietRows
<1>2. CASE NextNothing(c)
  <2>1. ClaimRefused(call[c].device, now) /\ call[c].device \in Devices
        /\ now \in 0 .. now
    BY <1>2, <1>a, CallType DEF NextNothing, Arrived, TypeOK
  <2> QED
    BY <2>1, QuietSteps
<1>3. ASSUME NEW s \in Sessions, ChallengeOpens(c, s) PROVE Quiet
  BY <1>3, QuietSteps DEF ChallengeOpens
<1>4. CASE ChallengeRefused(c) \/ CompleteRepeated(c) \/ Unauthorized(c)
  BY <1>4, QuietRows DEF ChallengeRefused, CompleteRepeated, Unauthorized, vars
<1>5. ASSUME NEW g \in Signatures, SignPublishes(c, g) PROVE Quiet
  BY <1>5, QuietRows DEF SignPublishes, Publish
<1>6. CASE SignCommits(c)
  <2>1. call[c].worker \in Workers
    BY <1>6, <1>a, RunningType DEF SignCommits
  <2> QED
    BY <1>6, <2>1, QuietSteps DEF SignCommits
<1>7. CASE Rejected(c)
  <2>1. call[c].worker \in Workers
    BY <1>7, <1>a, RunningType DEF Rejected
  <2> QED
    BY <1>7, <2>1, QuietSteps DEF Rejected
<1>8. CASE Reports(c)
  <2>1. /\ call[c].device \in Devices
        /\ call[c].sent \in Memory
        /\ call[c].sent.request # None
    BY <1>8, <1>a, CallType DEF Reports, Arrived, CallShape, Shaped
  <2>2. call[c].sent.request \in Requests
    BY <2>1 DEF Memory
  <2> QED
    BY <1>8, <2>1, <2>2, QuietSteps DEF Reports
<1>9. CASE Unavailable(c)
  <2>1. CASE UNCHANGED vars
    BY <2>1, QuietRows DEF vars
  <2>2. CASE \/ /\ Running(c, {"claiming", "signing", "published"})
                /\ Rollback(call[c].worker)
             \/ /\ Running(c, {"published"})
                /\ RecordFails(call[c].worker)
    BY <2>2, QuietRows DEF Rollback, RecordFails
  <2> QED
    BY <1>9, <2>1, <2>2 DEF Unavailable
<1> QED
  BY <1>1, <1>2, <1>3, <1>4, <1>5, <1>6, <1>7, <1>8, <1>9 DEF Serve, Damaged

LEMMA OthersQuiet ==
  ASSUME QueueInv,
         \/ \E d \in Devices : Firmware(d)
         \/ \E c \in Calls : Vanish(c)
         \/ \E w \in Workers : BrowserCalls(w) \/ BrowserEnds(w)
         \/ Environment
         \/ UNCHANGED allVars
  PROVE  Quiet
<1>1. CASE \/ \E d \in Devices : Firmware(d)
           \/ \E c \in Calls : Vanish(c)
           \/ UNCHANGED allVars
  BY <1>1, FirmwareIsOutside, QuietRows DEF Vanish, vars, allVars
<1>2. ASSUME NEW w \in Workers, BrowserCalls(w) PROVE Quiet
  BY <1>2, QuietRows DEF BrowserCalls, CreateStart, PollLock
<1>3. ASSUME NEW w \in Workers, BrowserEnds(w) PROVE Quiet
  BY <1>3, QuietSteps DEF BrowserEnds
<1>4. CASE Environment
  BY <1>4, QuietRows DEF Environment, Tick, Withdraw
<1> QED
  BY <1>1, <1>2, <1>3, <1>4

\* The exceptions are the completion and the claim.
LEMMA Noisy ==
  ASSUME QueueInv, DeviceInv, [DeviceNext]_allVars
  PROVE  Quiet \/ \E c \in Calls : NextFinish(c) \/ Completes(c)
  BY ServerQuiet, OthersQuiet DEF DeviceNext

\* A completion follows a finger that was read before what it verifies.
LEMMA CompletesShown ==
  ASSUME QueueInv, DeviceInv, NEW c \in Calls, Completes(c)
  PROVE  LET s == call[c].sent.session IN
         /\ s \in Sessions /\ phase[s] # "NONE"
         /\ [device |-> session[s].device, session |-> s,
             card |-> session[s].user, finger |-> session[s].user,
             document |-> session[s].document] \in shown
         /\ \A t \in Sessions \ {s} : phase'[t] = phase[t]
<1>a. DeviceTypeOK /\ TypeOK /\ CallShape /\ Truthful
  BY DEF DeviceInv, QueueInv
<1>1. PICK d, m : d = call[c].device /\ m = call[c].sent
  OBVIOUS
<1>2. /\ call[c] # NoCall /\ call[c].op = "COMPLETE_AUTH"
      /\ Complete(m.session, m.finger)
  BY <1>1 DEF Completes, Arrived
<1>3. /\ m.session # None /\ m \in Memory
      /\ Learned("COMPLETE_AUTH", d, m)
  BY <1>a, <1>1, <1>2, CallType DEF CallShape, Shaped, Truthful
<1>4. m.session \in Sessions
  BY <1>3 DEF Memory
<1>5. Opened(d, m) /\ FactorsOf(d, m) \in shown
  BY <1>3 DEF Learned
<1>6. m.finger = m.card
  BY <1>2, <1>5 DEF Complete, CredentialHolds, Opened
<1>7. phase' = [phase EXCEPT ![m.session] = "VERIFIED"]
  BY <1>2 DEF Complete
<1> QED
  BY <1>a, <1>1, <1>4, <1>5, <1>6, <1>7 DEF Opened, FactorsOf, TypeOK

\* The history of what was shown only grows.
LEMMA ShownGrows ==
  ASSUME QueueInv, OneActivePerDocument, DeviceInv, [DeviceNext]_allVars
  PROVE  shown \subseteq shown'
<1>a. TypeOK
  BY DEF QueueInv
<1>1. ASSUME NEW d \in Devices, Firmware(d) PROVE shown \subseteq shown'
  BY <1>1, FirmwareMoves
<1>2. ASSUME NEW c \in Calls, Serve(c) \/ Damaged(c) \/ Unauthorized(c) \/ Unavailable(c)
      PROVE  shown \subseteq shown'
  BY <1>2, ServerMoves DEF device
<1>3. ASSUME NEW c \in Calls, Vanish(c) PROVE shown \subseteq shown'
  BY <1>3 DEF Vanish, device
<1>4. CASE Elsewhere
  BY <1>4 DEF Elsewhere, device
<1> QED
  BY <1>a, <1>1, <1>2, <1>3, <1>4, DeviceCases

LEMMA VerifiedShownStep ==
  ASSUME QueueInv, OneActivePerDocument, DeviceInv, [DeviceNext]_allVars
  PROVE  VerifiedShown'
<1> USE QueueAssumption, DeviceAssumption
<1>a. /\ TypeOK /\ DeviceTypeOK /\ VerifiedShown /\ Grow
  BY DeviceStepIsQueueStep, GrowStep DEF QueueInv, DeviceInv
<1>1. shown \subseteq shown'
  BY ShownGrows
<1> DEFINE Factor(s) ==
             [device |-> session[s].device, session |-> s,
              card |-> session[s].user, finger |-> session[s].user,
              document |-> session[s].document]
<1>2. ASSUME NEW s \in Sessions, phase[s] # "NONE", Factor(s) \in shown
      PROVE  Factor(s)' \in shown'
  <2>1. session'[s] = session[s]
    BY <1>a, <1>2 DEF Grow
  <2> QED
    BY <1>1, <1>2, <2>1
<1>3. ASSUME NEW s \in Sessions, phase'[s] \in {"VERIFIED", "USED"}
      PROVE  Factor(s)' \in shown'
  <2>1. CASE phase[s] \in {"VERIFIED", "USED"}
    BY <1>a, <1>2, <2>1 DEF VerifiedShown
  <2>2. CASE phase[s] \notin {"VERIFIED", "USED"}
    <3>1. PICK c \in Calls : NextFinish(c) \/ Completes(c)
      BY <1>3, <2>2, Noisy DEF Quiet
    <3>2. ~NextFinish(c)
      BY <1>3, <2>2 DEF NextFinish, ClaimFinish, auth
    <3>3. s = call[c].sent.session
      BY <1>3, <2>2, <3>1, <3>2, CompletesShown
    <3> QED
      BY <1>2, <3>1, <3>2, <3>3, CompletesShown
  <2> QED
    BY <2>1, <2>2
<1> QED
  BY <1>3 DEF VerifiedShown

-----------------------------------------------------------------------------
(* A request in flight stays in somebody's hands                           *)

\* A claim gives its call the one request that it puts in flight.
LEMMA ClaimIsHanded ==
  ASSUME QueueInv, DeviceInv, NEW c \in Calls, NextFinish(c),
         NEW r \in Requests, status'[r] \in InFlight, status[r] \notin InFlight
  PROVE  /\ ~Awaited(c) => r \in mislaid'
         /\ Awaited(c) => call'[c].op = "POLL_NEXT" /\ call'[c].body = r
         /\ awaited' = awaited
<1> USE QueueAssumption, DeviceAssumption
<1>a. DeviceTypeOK /\ TypeOK /\ CallShape
  BY DEF QueueInv, DeviceInv
<1> DEFINE claimed == {q \in Requests : status[q] # "CLAIMED"
                                        /\ status'[q] = "CLAIMED"}
<1>1. /\ UNCHANGED device
      /\ \/ claimed = {} /\ Reply(c, 204, None)
         \/ \E q \in claimed : Reply(c, 200, q)
      /\ mislaid' = IF Awaited(c) THEN mislaid ELSE mislaid \cup claimed
      /\ ClaimFinish(call[c].worker)
  BY DEF NextFinish
<1>2. ASSUME NEW q \in Requests, status'[q] # status[q]
      PROVE  status'[q] \in {"CLAIMED", "EXPIRED"}
  BY <1>1, <1>2 DEF ClaimFinish
<1>3. r \in claimed
  BY <1>2 DEF InFlight
<1>4. ASSUME NEW p \in claimed, NEW q \in claimed PROVE p = q
  <2>1. PICK C : C = Candidates(job[call[c].worker].device,
                                job[call[c].worker].at)
    OBVIOUS
  <2>2. \A x \in claimed : x \in C /\ \A y \in C : x <= y
    BY <1>1, <2>1 DEF ClaimFinish
  <2>3. p \in Nat /\ q \in Nat
    OBVIOUS
  <2>4. p <= q /\ q <= p
    BY <2>2
  <2> QED
    BY <2>3, <2>4
<1>5. Reply(c, 200, r)
  BY <1>1, <1>3, <1>4
<1>6. call[c] # NoCall /\ call[c].op = "POLL_NEXT"
  <2>1. call[c] # NoCall /\ call[c].worker # None /\ call[c].op \in Calling
        /\ job[call[c].worker].kind = "claiming"
    <3>1. call[c] # NoCall /\ call[c].worker \in Workers
      BY <1>a, RunningType DEF NextFinish
    <3>2. call[c].op \in Calling
      BY <1>a, <3>1, CallType
    <3> QED
      BY <3>1, <3>2 DEF NextFinish, Running
  <2>2. "claiming" \in Runs(call[c].op)
    BY <1>a, <2>1 DEF CallShape, Shaped
  <2> QED
    BY <2>1, <2>2 DEF Runs, Calling
<1>7. Awaited(c) => call'[c].op = "POLL_NEXT" /\ call'[c].body = r
  BY <1>a, <1>5, <1>6, ReplyFacts DEF Bodies
<1> QED
  BY <1>1, <1>3, <1>7 DEF device

LEMMA InFlightIsHeldStep ==
  ASSUME QueueInv, OneActivePerDocument, DeviceInv, [DeviceNext]_allVars
  PROVE  InFlightIsHeld'
<1> USE QueueAssumption, DeviceAssumption
<1>a. /\ TypeOK /\ DeviceTypeOK /\ InFlightIsHeld
      /\ memory \in [Devices -> Memory] /\ reboots \in Nat
      /\ workflowState \in [Devices -> WorkflowStates]
      /\ awaited \in [Devices -> Calls \cup {None}]
      /\ call \in [Calls -> Call \cup {NoCall}]
  BY DEF QueueInv, DeviceInv, DeviceTypeOK
<1>b. ASSUME NEW e \in Devices, awaited[e] # None
      PROVE  awaited[e] \in Calls /\ call[awaited[e]] # NoCall
             /\ call[awaited[e]].device = e
  BY <1>b, AwaitedCall
<1>1. ASSUME NEW d \in Devices, Firmware(d) PROVE InFlightIsHeld'
  <2>1. PICK state, m :
          /\ Move(d, state, m)
          /\ \/ Local(d)
             \/ Over(d, m)
             \/ state \in Calling /\ \E c \in Calls : Send(d, c)
    BY <1>1, FirmwareMoves
  <2>2. /\ status' = status /\ mislaid \subseteq mislaid'
        /\ reboots' \in Nat /\ reboots <= reboots'
        /\ memory' = [memory EXCEPT ![d] = m]
        /\ m \in Memory
    <3>1. reboots \in 0 .. reboots' /\ reboots' \in 0 .. MaxReboots
      BY <1>1, FirmwareMoves, FirmwareCounts
    <3> QED
      BY <1>1, <1>a, <2>1, <3>1, FirmwareCounts, FirmwareIsOutside
      DEF Move, Enter, vars, rows
  <2>3. ASSUME NEW r \in Requests, status[r] \in InFlight, reboots' = 0,
               r \notin mislaid'
        PROVE  Held(r)'
    <3>0. reboots = 0
      BY <1>a, <2>2, <2>3
    <3>4. r \notin mislaid /\ ~(reboots > 0)
      BY <2>2, <2>3, <3>0
    <3>5. Held(r) \/ reboots > 0 \/ r \in mislaid
      BY <1>a, <2>3 DEF InFlightIsHeld
    <3>1. Held(r) /\ reboots' = reboots
      BY <2>3, <3>0, <3>4, <3>5
    <3>2. CASE \E e \in Devices : memory[e].request = r
      <4>1. PICK e \in Devices : memory[e].request = r
        BY <3>2
      <4>2. CASE e = d
        <5>1. status[r] \notin Terminal /\ r # None
          BY <2>3 DEF InFlight, Terminal
        <5>2. m.request = r
          BY <2>1, <2>3, <3>1, <4>1, <4>2, <5>1 DEF Move, LetGo
        <5> QED
          BY <1>a, <2>2, <5>2 DEF Held
      <4>3. CASE e # d
        BY <1>a, <2>2, <4>1, <4>3 DEF Held
      <4> QED
        BY <4>2, <4>3
    <3>3. ASSUME NEW c \in Calls, Awaited(c), call[c].op = "POLL_NEXT",
                 call[c].body = r
          PROVE  Held(r)'
      <4>1. PICK e \in Devices : awaited[e] = c
        BY <3>3 DEF Awaited
      <4>2. call[c] # NoCall /\ call[c].device = e
        BY <1>b, <4>1
      <4>3. ASSUME awaited'[e] = c, call'[c] = call[c] PROVE Held(r)'
        BY <3>3, <4>3 DEF Held, Awaited
      <4>4. CASE Local(d)
        BY <4>1, <4>3, <4>4 DEF Local
      <4>5. CASE Over(d, m)
        <5>1. CASE e = d
          <6>1. r \in Taken(awaited[d])
            BY <3>3, <4>1, <4>2, <5>1 DEF Taken
          <6>2. m.request = r
            BY <2>3, <4>1, <4>5, <5>1, <6>1 DEF Over
          <6> QED
            BY <1>a, <2>2, <6>2 DEF Held
        <5>2. CASE e # d
          <6>1. awaited[d] # c
            BY <1>b, <4>1, <4>2, <5>2
          <6> QED
            BY <1>a, <4>1, <4>3, <4>5, <5>2, <6>1 DEF Over
        <5> QED
          BY <5>1, <5>2
      <4>6. ASSUME NEW b \in Calls, Send(d, b) PROVE Held(r)'
        <5>1. /\ awaited[d] = None /\ awaited' = [awaited EXCEPT ![d] = b]
              /\ call[b] = NoCall
              /\ \A x \in Calls : x # b => call'[x] = call[x]
          BY <1>a, <4>6, SendFacts
        <5>2. e # d /\ c # b
          BY <4>1, <4>2, <5>1
        <5> QED
          BY <1>a, <4>1, <4>3, <5>1, <5>2
      <4> QED
        BY <2>1, <4>4, <4>5, <4>6
    <3> QED
      BY <3>1, <3>2, <3>3 DEF Held
  <2> QED
    BY <2>2, <2>3 DEF InFlightIsHeld
<1>c. ASSUME UNCHANGED device, mislaid \subseteq mislaid',
             \A b \in Calls : call[b] # NoCall /\ Awaited(b)
                              /\ call[b].op = "POLL_NEXT"
                              /\ call[b].body # None =>
                /\ call'[b].op = call[b].op
                /\ call'[b].body = call[b].body,
             NEW r \in Requests, status[r] \in InFlight
      PROVE  Held(r)' \/ reboots' > 0 \/ r \in mislaid'
  <2>1. Held(r) => Held(r)'
    <3>1. CASE \E e \in Devices : memory[e].request = r
      BY <1>c, <3>1 DEF Held, device
    <3>2. ASSUME NEW b \in Calls, Awaited(b), call[b].op = "POLL_NEXT",
                 call[b].body = r
          PROVE  Held(r)'
      <4>1. call[b] # NoCall /\ r # None
        BY <1>b, <3>2 DEF Awaited
      <4>2. call'[b].op = "POLL_NEXT" /\ call'[b].body = r
        BY <1>c, <3>2, <4>1
      <4>3. Awaited(b)'
        BY <1>c, <3>2 DEF Awaited, device
      <4> QED
        BY <4>2, <4>3 DEF Held
    <3> QED
      BY <3>1, <3>2 DEF Held
  <2> QED
    BY <1>a, <1>c, <2>1 DEF InFlightIsHeld, device
<1>2. ASSUME NEW c \in Calls, Serve(c) \/ Damaged(c) \/ Unauthorized(c) \/ Unavailable(c)
      PROVE  InFlightIsHeld'
  <2>1. PICK op, d, m :
          /\ op = call[c].op /\ d = call[c].device /\ m = call[c].sent
          /\ ServedBy(c, op, d, m) /\ UNCHANGED device
    BY <1>2, ServerMoves
  <2>2. /\ call[c] # NoCall /\ mislaid \subseteq mislaid'
        /\ Awaited(c) => call'[c].op = op
        /\ \A b \in Calls : b # c => call'[b] = call[b]
        /\ Shaped(c)
    BY <1>2, <1>a, <2>1, ServerMoves, ServedFacts, ServerCounts
    DEF DeviceInv, CallShape
  <2>3. op = "POLL_NEXT" /\ call[c].body # None => call'[c].body = call[c].body
    <3>1. op = "POLL_NEXT" /\ call[c].body # None => call[c].code # Pending
      BY <2>1, <2>2 DEF Shaped, Pending
    <3>2. CASE \E w \in Workers : TakenUp(c, op, m, w)
      BY <3>1, <3>2 DEF TakenUp
    <3>3. CASE GoneOn(c, op)
      BY <3>3 DEF GoneOn
    <3>4. CASE \E code, body : Answers(c, op, d, m, code, body)
      BY <3>1, <3>4 DEF Answers
    <3> QED
      BY <2>1, <3>2, <3>3, <3>4 DEF ServedBy
  <2>4. ASSUME NEW b \in Calls, Awaited(b), call[b].op = "POLL_NEXT",
               call[b].body # None
        PROVE  call'[b].op = call[b].op /\ call'[b].body = call[b].body
    BY <2>1, <2>2, <2>3, <2>4
  <2>5. ASSUME NEW r \in Requests, status'[r] \in InFlight
        PROVE  Held(r)' \/ reboots' > 0 \/ r \in mislaid'
    <3>1. CASE status[r] \in InFlight
      BY <1>c, <2>1, <2>2, <2>4, <3>1
    <3>2. CASE status[r] \notin InFlight
      <4>1. NextFinish(c)
        <5>1. NextFinish(c) \/ Completes(c)
          BY <1>2, <2>5, <3>2, ServerQuiet DEF Quiet
        <5>2. ~Completes(c)
          BY <2>5, <3>2, <1>a DEF Completes, Complete, InFlight, TypeOK
        <5> QED
          BY <5>1, <5>2
      <4>2. /\ ~Awaited(c) => r \in mislaid'
            /\ Awaited(c) => call'[c].op = "POLL_NEXT" /\ call'[c].body = r
            /\ awaited' = awaited
        BY <2>5, <3>2, <4>1, ClaimIsHanded
      <4>3. Awaited(c) => Held(r)'
        BY <4>2 DEF Awaited, Held
      <4> QED
        BY <4>2, <4>3
    <3> QED
      BY <3>1, <3>2
  <2> QED
    BY <2>5 DEF InFlightIsHeld
<1>3. ASSUME NEW c \in Calls, Vanish(c) PROVE InFlightIsHeld'
  <2>1. /\ UNCHANGED <<device, mislaid, status>> /\ ~Awaited(c)
        /\ \A b \in Calls : b # c => call'[b] = call[b]
    BY <1>3, <1>a DEF Vanish, vars, rows
  <2>2. ASSUME NEW r \in Requests, status[r] \in InFlight
        PROVE  Held(r)' \/ reboots' > 0 \/ r \in mislaid'
    BY <1>c, <2>1, <2>2
  <2> QED
    BY <2>1, <2>2 DEF InFlightIsHeld
<1>4. ASSUME Elsewhere, Quiet PROVE InFlightIsHeld'
  <2>1. UNCHANGED <<device, mislaid, call>>
    BY <1>4 DEF Elsewhere
  <2>2. ASSUME NEW r \in Requests, status'[r] \in InFlight
        PROVE  Held(r)' \/ reboots' > 0 \/ r \in mislaid'
    BY <1>c, <1>4, <2>1, <2>2 DEF Quiet
  <2> QED
    BY <2>2 DEF InFlightIsHeld
<1>5. \/ \E d \in Devices : Firmware(d)
      \/ \E c \in Calls : Serve(c) \/ Damaged(c) \/ Unauthorized(c) \/ Unavailable(c)
      \/ \E c \in Calls : Vanish(c)
      \/ Elsewhere /\ Quiet
  BY <1>a, ElsewhereSteps, OthersQuiet DEF DeviceNext
<1> QED
  BY <1>1, <1>2, <1>3, <1>4, <1>5

-----------------------------------------------------------------------------
(* Theorems                                                                *)

LEMMA DeviceInvInit == DeviceInit => DeviceInv
<1> SUFFICES ASSUME DeviceInit PROVE DeviceInv
  OBVIOUS
<1> USE QueueAssumption, DeviceAssumption
<1>1. DeviceTypeOK
  BY ClearedFits DEF DeviceInit, DeviceTypeOK, WorkflowStates
<1>2. TerminalShape
  BY ClearedFits DEF DeviceInit, TerminalShape
<1>3. CallShape
  BY DEF DeviceInit, CallShape, Shaped, NoCall
<1>4. Truthful
  BY ClearedFits DEF DeviceInit, Truthful, Learned
<1>5. VerifiedShown /\ InFlightIsHeld
  BY DEF DeviceInit, Init, VerifiedShown, InFlightIsHeld, InFlight
<1> QED
  BY <1>1, <1>2, <1>3, <1>4, <1>5 DEF DeviceInv

LEMMA DeviceInvStep ==
  QueueInv /\ OneActivePerDocument /\ DeviceInv /\ [DeviceNext]_allVars
    => QueueInv' /\ OneActivePerDocument' /\ DeviceInv'
<1> SUFFICES ASSUME QueueInv, OneActivePerDocument, DeviceInv,
                    [DeviceNext]_allVars
             PROVE  QueueInv' /\ OneActivePerDocument' /\ DeviceInv'
  OBVIOUS
<1>1. [Next]_vars
  BY DeviceStepIsQueueStep
<1>2. QueueInv' /\ OneActivePerDocument'
  BY <1>1, QueueStep, OneActiveStep
<1>3. DeviceInv'
  BY DeviceTypeStep, TerminalShapeStep, CallShapeStep, TruthfulStep,
     VerifiedShownStep, InFlightIsHeldStep
  DEF DeviceInv
<1> QED
  BY <1>2, <1>3

\* The inductive invariant of the queue and that of the terminals hold in
\* every behaviour of the two together.
THEOREM DeviceInvariant ==
  DeviceSpec => [](QueueInv /\ OneActivePerDocument /\ DeviceInv)
<1>1. DeviceInit => QueueInv /\ OneActivePerDocument /\ DeviceInv
  BY QueueInit, DeviceInvInit
  DEF DeviceInit, Init, OneActivePerDocument, Active, InFlight
<1> QED
  BY <1>1, DeviceInvStep, PTL DEF DeviceSpec

\* The terminals and the network do to the rows what SignatureQueue allows
\* and nothing else: what is proved of the queue holds of the system.
THEOREM DeviceRefinesQueue == DeviceSpec => Spec
<1>1. DeviceInit => Init
  BY DEF DeviceInit
<1>2. QueueInv /\ OneActivePerDocument /\ DeviceInv /\ [DeviceNext]_allVars
        => [Next]_vars
  BY DeviceStepIsQueueStep
<1> QED
  BY <1>1, <1>2, DeviceInvariant, PTL DEF DeviceSpec, Spec

\* Terminals, calls and histories have their types in every behaviour.
THEOREM DeviceTypeCorrect == DeviceSpec => []DeviceTypeOK
<1>1. DeviceInv => DeviceTypeOK
  BY DEF DeviceInv
<1> QED
  BY <1>1, DeviceInvariant, PTL

\* The signature a step commits was shown to its signer.
LEMMA FactorsStep ==
  QueueInv /\ OneActivePerDocument /\ DeviceInv /\ SignedWithFactors
    /\ [DeviceNext]_allVars => SignedWithFactors'
<1> SUFFICES ASSUME QueueInv, OneActivePerDocument, DeviceInv,
                    SignedWithFactors, [DeviceNext]_allVars
             PROVE  SignedWithFactors'
  OBVIOUS
<1> USE QueueAssumption, RowAssumption, DeviceAssumption
<1>a. TypeOK /\ Shape /\ SigningHoldsRequest /\ VerifiedShown
  BY DEF QueueInv, DeviceInv
<1>1. [Next]_vars
  BY DeviceStepIsQueueStep
<1>2. shown \subseteq shown'
  BY ShownGrows
<1>3. ASSUME NEW w \in Workers, CommitSignature(w) PROVE SignedWithFactors'
  <2> DEFINE s == job[w].session
             h == job[w].signature
  <2>1. s \in Sessions /\ Unconsumed(s)
    BY <1>3, <1>a, SignatureInserted
  <2>2. phase[s] = "VERIFIED"
    BY <2>1 DEF Unconsumed
  <2>3. [device |-> session[s].device, session |-> s,
         card |-> session[s].user, finger |-> session[s].user,
         document |-> session[s].document] \in shown'
    BY <1>a, <1>2, <2>1, <2>2 DEF VerifiedShown
  <2>4. signature' = [signature EXCEPT ![h] =
                        [session |-> s, user |-> session[s].user,
                         device |-> session[s].device,
                         document |-> session[s].document]]
    BY <1>3 DEF CommitSignature
  <2> HIDE DEF s, h
  <2>5. ASSUME NEW g \in Signatures, signature'[g] # None
        PROVE  [device |-> signature'[g].device,
                session |-> signature'[g].session,
                card |-> signature'[g].user, finger |-> signature'[g].user,
                document |-> signature'[g].document] \in shown'
    <3>1. CASE g = h
      <4>1. /\ signature'[g].device = session[s].device
            /\ signature'[g].session = s
            /\ signature'[g].user = session[s].user
            /\ signature'[g].document = session[s].document
        BY <1>a, <2>4, <3>1 DEF TypeOK
      <4> QED
        BY <2>3, <4>1
    <3>2. CASE g # h
      <4>1. signature'[g] = signature[g]
        BY <1>a, <2>4, <3>2 DEF TypeOK
      <4> QED
        BY <1>2, <2>5, <4>1 DEF SignedWithFactors
    <3> QED
      BY <3>1, <3>2
  <2> QED
    BY <2>5 DEF SignedWithFactors
<1>4. CASE signature' = signature
  BY <1>2, <1>4 DEF SignedWithFactors
<1> QED
  BY <1>a, <1>1, <1>3, <1>4, SignatureTable

\* Every signature was shown to its signer, who gave card and finger for it.
THEOREM Factored == DeviceSpec => []SignedWithFactors
<1>1. DeviceInit => SignedWithFactors
  BY DEF DeviceInit, Init, SignedWithFactors
<1> QED
  BY <1>1, FactorsStep, DeviceInvariant, PTL DEF DeviceSpec

\* DOCUMENT SIGNED is displayed only over a committed signature.
THEOREM SuccessTrue == DeviceSpec => []SuccessIsSigned
<1>1. DeviceInv => SuccessIsSigned
  BY DEF DeviceInv, Truthful, Learned, Signed, SuccessIsSigned, Displayed
<1> QED
  BY <1>1, DeviceInvariant, PTL

\* Only a power cycle, a claim that nobody heard or a refused report of the
\* failure deserts a request.
THEOREM Deserters == DeviceSpec => []DesertedByMishap
<1>1. DeviceInv => DesertedByMishap
  BY DEF DeviceInv, InFlightIsHeld, InFlight, Held, DesertedByMishap, Deserted
<1> QED
  BY <1>1, DeviceInvariant, PTL

\* A terminal that keeps its power, and whose report is not refused, forgets
\* only what is finished.
Forgetting ==
  \A d \in Devices :
    (/\ memory[d].request # None
     /\ memory'[d].request # memory[d].request
     /\ reboots' = reboots
     /\ ~(awaited[d] # None /\ Refused(awaited[d])))
      => status[memory[d].request] \in Terminal

LEMMA ForgettingStep ==
  ASSUME QueueInv, OneActivePerDocument, DeviceInv, [DeviceNext]_allVars
  PROVE  Forgetting
<1>a. DeviceTypeOK /\ TypeOK
  BY DEF DeviceInv, QueueInv
<1>1. ASSUME NEW d \in Devices, Firmware(d) PROVE Forgetting
  <2>1. PICK state, m : Move(d, state, m)
    BY <1>1, FirmwareMoves
  <2>2. memory' = [memory EXCEPT ![d] = m]
    BY <2>1 DEF Move, Enter
  <2> QED
    BY <1>a, <2>1, <2>2 DEF Forgetting, Move, LetGo, DeviceTypeOK
<1>2. ASSUME NEW c \in Calls, Serve(c) \/ Damaged(c) \/ Unauthorized(c) \/ Unavailable(c)
      PROVE  Forgetting
  BY <1>2, ServerMoves DEF device, Forgetting
<1>3. ASSUME NEW c \in Calls, Vanish(c) PROVE Forgetting
  BY <1>3 DEF Vanish, device, Forgetting
<1>4. CASE Elsewhere
  BY <1>4 DEF Elsewhere, device, Forgetting
<1> QED
  BY <1>a, <1>1, <1>2, <1>3, <1>4, DeviceCases

\* A request leaves a terminal that keeps its power, and whose report of a
\* failure is not refused, only when it is finished.
THEOREM Forgotten == DeviceSpec => ForgottenIsFinished
<1>1. QueueInv /\ OneActivePerDocument /\ DeviceInv /\ [DeviceNext]_allVars
        => [Forgetting]_allVars
  BY ForgettingStep
<1> QED
  BY <1>1, DeviceInvariant, PTL
  DEF DeviceSpec, ForgottenIsFinished, Forgetting
=============================================================================
