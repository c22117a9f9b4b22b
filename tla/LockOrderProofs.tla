--------------------------- MODULE LockOrderProofs ---------------------------
(***************************************************************************)
(* The locks of the handlers, for any number of handlers, requests and     *)
(* documents: every ring of waiting transactions holds the lock of the     *)
(* audit chain or old nonces, a deadlock PostgreSQL does not see goes      *)
(* through a refusal that holds old nonces, and neither an HSM signature   *)
(* nor the failure of a request is ever lost to one.                       *)
(***************************************************************************)
EXTENDS LockOrder, TLAPS

USE LockAssumption, LockNameAssumption

-----------------------------------------------------------------------------
(* Names                                                                   *)

\* A handler's two transactions are two, and nobody else's.
LEMMA TxNames ==
  /\ \A h \in Handlers : Main(h) \in Tx /\ Recorder(h) \in Tx
  /\ \A g, h \in Handlers : /\ Main(g) # Recorder(h)
                            /\ Main(g) = Main(h) => g = h
                            /\ Recorder(g) = Recorder(h) => g = h
  /\ \A t \in Tx : \E h \in Handlers : t = Main(h) \/ t = Recorder(h)
BY DEF Main, Recorder, Tx

LEMMA LockNames ==
  /\ Audit \in Locks /\ Device \in Locks /\ Purged \in Locks
  /\ \A r \in Requests : {Document(r), Session(r), Row(r)} \subseteq Locks
  /\ Audit # Device /\ Purged \notin {Audit, Device}
  /\ \A r \in Requests :
       {Audit, Purged} \cap {Document(r), Session(r), Row(r)} = {}
  /\ \A q, r \in Requests : Row(r) \notin {Document(q), Session(q), Device}
BY DEF Audit, Device, Purged, Document, Session, Row, Locks

LEMMA WishNames ==
  /\ \A l \in Locks : Update(l) \in Wishes /\ Share(l) \in Wishes
  /\ \A l : Update(l)[1] = l /\ Share(l)[1] = l
  /\ \A l, m : /\ Update(l) = Update(m) => l = m
               /\ Share(l) = Share(m) => l = m
               /\ Update(l) # Share(m)
  /\ \A w \in Wishes : w = Update(w[1]) \/ w = Share(w[1])
BY DEF Update, Share, Wishes

\* No lock but a row's is a row's.
LEMMA RowNames ==
  ASSUME NEW l \in Locks \ {Row(q) : q \in Requests},
         NEW H \in SUBSET {Update(Purged), Update(l), Share(l)}
  PROVE  NoRowIn(H)
<1>1. \A r \in Requests : Row(r) \notin {Purged, l}
  BY LockNames
<1>2. \A v \in H : v[1] \in {Purged, l}
  BY WishNames
<1>3. \A r \in Requests : /\ Update(Row(r))[1] = Row(r)
                         /\ Share(Row(r))[1] = Row(r)
  BY WishNames
<1> QED
  BY <1>1, <1>2, <1>3 DEF NoRowIn

\* The first lock of a transaction is not that of the old nonces.
LEMMA FirstNames == \A j : FirstLock(j) # Update(Purged)
BY DEF FirstLock, Update, Share, Document, Session, Row, Device, Purged

\* Nobody shares the chain or old nonces.
LEMMA AloneNames ==
  /\ Alone({}) /\ Alone({Update(Audit)}) /\ Alone({Update(Purged)})
  /\ Alone({Update(Device)})
  /\ \A r \in Requests :
       /\ Alone({Update(Document(r))}) /\ Alone({Share(Document(r))})
       /\ Alone({Update(Session(r))}) /\ Alone({Share(Session(r))})
       /\ Alone({Update(Row(r))})
  /\ \A G, H : Alone(G) /\ Alone(H) => Alone(G \cup H)
  /\ \A G, H : Alone(H) /\ G \subseteq H => Alone(G)
BY LockNames, WishNames DEF Alone

LEMMA AloneShares ==
  ASSUME NEW S, \A w \in S : \E r \in Requests :
                              w \in {Share(Document(r)), Share(Session(r))}
  PROVE  Alone(S)
<1>1. \A r \in Requests :
        {Share(Document(r)), Share(Session(r))}
          \cap {Share(Audit), Share(Purged)} = {}
  BY LockNames, WishNames
<1> QED
  BY <1>1 DEF Alone

LEMMA JobType ==
  /\ NoJob \in Job /\ NoWrites \in [Requests -> Statuses \cup {None}]
  /\ \A q \in Requests : NoWrites[q] = None
BY DEF NoJob, Job, NoWrites, Labels

\* At, AtRow and Wrote give jobs.
LEMMA NextJob ==
  ASSUME TypeOK, NEW h \in Handlers
  PROVE  /\ job[h] \in Job
         /\ \A label \in Labels : At(h, label) \in Job
                                  /\ At(h, label).at = label
         /\ \A label \in Labels \ {"ended"} : 
              /\ At(h, label).kind = job[h].kind /\ At(h, label).req = job[h].req
              /\ At(h, label).row = job[h].row
              /\ At(h, label).wrote = job[h].wrote
         /\ \A label \in Labels, q \in Requests :
              /\ AtRow(h, label, q) \in Job
              /\ AtRow(h, label, q).at = label /\ AtRow(h, label, q).row = q
              /\ AtRow(h, label, q).kind = job[h].kind
              /\ AtRow(h, label, q).req = job[h].req
              /\ AtRow(h, label, q).wrote = job[h].wrote
         /\ \A rows \in SUBSET Requests, s \in Statuses :
              Wrote(h, rows, s) \in [Requests -> Statuses \cup {None}]
         /\ \A s : Wrote(h, {}, s) = job[h].wrote
<1>1. job[h] \in Job
  BY DEF TypeOK
<1>2. ASSUME NEW label \in Labels
      PROVE  /\ At(h, label) \in Job /\ At(h, label).at = label
             /\ label # "ended" =>
                  /\ At(h, label).kind = job[h].kind
                  /\ At(h, label).req = job[h].req
                  /\ At(h, label).row = job[h].row
                  /\ At(h, label).wrote = job[h].wrote
  <2>1. CASE label = "ended"
    BY <2>1, JobType DEF At, Job, NoJob
  <2>2. CASE label # "ended"
    BY <2>2, <1>1 DEF At, Job
  <2> QED
    BY <2>1, <2>2
<1>3. ASSUME NEW label \in Labels, NEW q \in Requests
      PROVE  /\ AtRow(h, label, q) \in Job
             /\ AtRow(h, label, q).at = label /\ AtRow(h, label, q).row = q
             /\ AtRow(h, label, q).kind = job[h].kind
             /\ AtRow(h, label, q).req = job[h].req
             /\ AtRow(h, label, q).wrote = job[h].wrote
  BY <1>1 DEF AtRow, Job
<1>4. job[h].wrote \in [Requests -> Statuses \cup {None}]
  BY <1>1 DEF Job
<1>5. ASSUME NEW rows \in SUBSET Requests, NEW s \in Statuses
      PROVE  Wrote(h, rows, s) \in [Requests -> Statuses \cup {None}]
  BY <1>4 DEF Wrote
<1>6. \A s : Wrote(h, {}, s) = job[h].wrote
  BY <1>4 DEF Wrote
<1> QED
  BY <1>1, <1>2, <1>3, <1>5, <1>6

-----------------------------------------------------------------------------
(* What a step of one handler leaves alone, and what it has to keep        *)

\* A step that is not one of handler g.
Same(g) ==
  /\ job'[g] = job[g]
  /\ held'[Main(g)] = held[Main(g)] /\ held'[Recorder(g)] = held[Recorder(g)]
  /\ wants'[Main(g)] = wants[Main(g)]
  /\ wants'[Recorder(g)] = wants[Recorder(g)]

LEMMA OneHandler ==
  ASSUME LockInv, TypeOK', NEW h \in Handlers,
         \A g \in Handlers \ {h} : Same(g), HandlerInv(h)'
  PROVE  LockInv'
<1>1. \A g \in Handlers : HandlerInv(g)'
  BY DEF LockInv, HandlerInv, Same
<1>2. NoWaitAfterCrypto'
  BY <1>1 DEF NoWaitAfterCrypto, HandlerInv, MainOK
<1> QED
  BY <1>1, <1>2 DEF LockInv

Ordinary(j) == j.at \notin {"denied", "denial"}

\* Between two refusals nothing is asked of the recorder.
LEMMA NoRecorder ==
  ASSUME LockInv, NEW h \in Handlers, Ordinary(job[h])
  PROVE  held[Recorder(h)] = {} /\ wants[Recorder(h)] = {}
BY DEF LockInv, HandlerInv, RecorderOK, Ordinary

LEMMA Typed ==
  ASSUME LockInv
  PROVE  /\ job \in [Handlers -> Job]
         /\ held \in [Tx -> SUBSET Wishes] /\ wants \in [Tx -> SUBSET Wishes]
         /\ status \in [Requests -> Statuses]
         /\ due \subseteq Requests /\ attached \subseteq Requests
BY DEF LockInv, TypeOK

\* The next statement of a handler.
LEMMA GoStep ==
  ASSUME LockInv, NEW h \in Handlers, NEW j \in Job,
         NEW asked \in SUBSET Wishes, Go(h, j, asked),
         Ordinary(job[h]), Ordinary(j), JobOK(j),
         MainOK(j, held[Main(h)], Missing(Main(h), asked))
  PROVE  LockInv'
<1>1. /\ job' = [job EXCEPT ![h] = j] /\ held' = held
      /\ wants' = [wants EXCEPT ![Main(h)] = Missing(Main(h), asked)]
      /\ UNCHANGED <<status, due, attached>>
  BY DEF Go
<1>2. Missing(Main(h), asked) \subseteq Wishes
  BY DEF Missing
<1>3. TypeOK'
  BY <1>1, <1>2, Typed, TxNames DEF TypeOK
<1>4. \A g \in Handlers \ {h} : Same(g)
  BY <1>1, Typed, TxNames DEF Same
<1>5. /\ job'[h] = j /\ held'[Main(h)] = held[Main(h)]
      /\ wants'[Main(h)] = Missing(Main(h), asked)
      /\ held'[Recorder(h)] = {} /\ wants'[Recorder(h)] = {}
  BY <1>1, Typed, TxNames, NoRecorder
<1>6. RecorderOK(j, {}, {})
  BY AloneNames DEF RecorderOK, Ordinary
<1> QED
  BY <1>3, <1>4, <1>5, <1>6, OneHandler DEF HandlerInv

\* A statement that locks what it finds free.
LEMMA TakeStep ==
  ASSUME LockInv, NEW h \in Handlers, NEW S \in SUBSET Requests,
         NEW j \in Job, NEW asked \in SUBSET Wishes, Take(h, S, j, asked),
         Ordinary(job[h]), Ordinary(j), JobOK(j),
         MainOK(j, held[Main(h)] \cup {Update(Row(q)) : q \in S}, asked)
  PROVE  LockInv'
<1> DEFINE H == held[Main(h)] \cup {Update(Row(q)) : q \in S}
<1>1. /\ job' = [job EXCEPT ![h] = j]
      /\ held' = [held EXCEPT ![Main(h)] = H]
      /\ wants' = [wants EXCEPT ![Main(h)] = asked]
      /\ UNCHANGED <<status, due, attached>>
  BY DEF Take
<1>2. H \subseteq Wishes
  <2>1. \A q \in S : Update(Row(q)) \in Wishes
    BY LockNames, WishNames
  <2> QED
    BY <2>1, Typed, TxNames
<1> HIDE DEF H
<1>3. TypeOK'
  BY <1>1, <1>2, Typed, TxNames DEF TypeOK
<1>4. \A g \in Handlers \ {h} : Same(g)
  BY <1>1, Typed, TxNames DEF Same
<1>5. /\ job'[h] = j /\ held'[Main(h)] = H /\ wants'[Main(h)] = asked
      /\ held'[Recorder(h)] = {} /\ wants'[Recorder(h)] = {}
  BY <1>1, Typed, TxNames, NoRecorder
<1>6. RecorderOK(j, {}, {})
  BY AloneNames DEF RecorderOK, Ordinary
<1>7. MainOK(j, H, asked)
  BY DEF H
<1> QED
  BY <1>3, <1>4, <1>5, <1>6, <1>7, OneHandler DEF HandlerInv

\* What a handler does next when its transaction is over.
After(h, label) == [At(h, label) EXCEPT !.wrote = NoWrites]

LEMMA AfterJob ==
  ASSUME LockInv, NEW h \in Handlers, NEW label \in Labels
  PROVE  /\ After(h, label) \in Job /\ After(h, label).at = label
         /\ After(h, label).wrote = NoWrites
         /\ label # "ended" => /\ After(h, label).kind = job[h].kind
                               /\ After(h, label).req = job[h].req
<1>1. TypeOK
  BY DEF LockInv
<1>2. At(h, label) \in Job /\ At(h, label).at = label
  BY <1>1, NextJob
<1>3. label # "ended" => /\ At(h, label).kind = job[h].kind
                         /\ At(h, label).req = job[h].req
  BY <1>1, NextJob
<1> QED
  BY <1>2, <1>3, JobType DEF After, Job

\* The end of a call, or the refusal that follows the failure of a request.
LEMMA CommitStep ==
  ASSUME LockInv, NEW h \in Handlers,
         NEW wrote \in [Requests -> Statuses \cup {None}],
         NEW label \in {"ended", "denied"}, NEW denial,
         Commit(h, wrote, label, denial),
         Ordinary(job[h]), wants[Main(h)] = {},
         label = "ended" => denial = {},
         label = "denied" => /\ job[h].kind \in {"complete", "sign"}
                             /\ job[h].req \in Requests
                             /\ denial = {Update(Audit)}
  PROVE  LockInv'
<1>1. /\ job' = [job EXCEPT ![h] = After(h, label)]
      /\ held' = [held EXCEPT ![Main(h)] = {}]
      /\ wants' = [wants EXCEPT ![Recorder(h)] = denial]
      /\ due' = due
      /\ attached' = attached \cup {q \in Requests :
                                      wrote[q] = "AUTHENTICATING"}
      /\ status' = [q \in Requests |-> IF wrote[q] = None THEN status[q]
                                       ELSE wrote[q]]
  BY DEF Commit, After
<1>2. label \in Labels
  BY DEF Labels
<1>3. /\ After(h, label) \in Job /\ After(h, label).at = label
      /\ label # "ended" => /\ After(h, label).kind = job[h].kind
                            /\ After(h, label).req = job[h].req
  BY <1>2, AfterJob
<1>4. denial \subseteq Wishes
  BY LockNames, WishNames
<1>5. status' \in [Requests -> Statuses]
  BY <1>1, Typed
<1>6. TypeOK'
  BY <1>1, <1>3, <1>4, <1>5, Typed, TxNames DEF TypeOK
<1>7. \A g \in Handlers \ {h} : Same(g)
  BY <1>1, Typed, TxNames DEF Same
<1>8. /\ job'[h] = After(h, label)
      /\ held'[Main(h)] = {} /\ wants'[Main(h)] = {}
      /\ held'[Recorder(h)] = {} /\ wants'[Recorder(h)] = denial
  BY <1>1, Typed, TxNames, NoRecorder
<1>9. JobOK(After(h, label))
  BY <1>3 DEF JobOK, Kinds, LabelsOf
<1>10. MainOK(After(h, label), {}, {})
  BY <1>3, AloneNames DEF MainOK
<1>11. RecorderOK(After(h, label), {}, denial)
  BY <1>3, AloneNames DEF RecorderOK
<1> QED
  BY <1>6, <1>7, <1>8, <1>9, <1>10, <1>11, OneHandler DEF HandlerInv

\* The rollback of a refusal.
LEMMA DenyStep ==
  ASSUME LockInv, NEW h \in Handlers,
         NEW label \in {"fail", "denied"}, NEW mine, NEW denial,
         Deny(h, label, mine, denial), Ordinary(job[h]),
         job[h].kind \in {"complete", "sign"}, job[h].req \in Requests,
         label = "fail" => /\ mine = {Update(Row(job[h].req))}
                           /\ denial = {},
         label = "denied" => mine = {} /\ denial = {Update(Audit)}
  PROVE  LockInv'
<1>1. /\ job' = [job EXCEPT ![h] = After(h, label)]
      /\ held' = [held EXCEPT ![Main(h)] = {}]
      /\ wants' = [wants EXCEPT ![Main(h)] = mine, ![Recorder(h)] = denial]
      /\ UNCHANGED <<status, due, attached>>
  BY DEF Deny, After
<1>2. label \in Labels /\ label # "ended"
  BY DEF Labels
<1>3. /\ After(h, label) \in Job /\ After(h, label).at = label
      /\ After(h, label).wrote = NoWrites
      /\ After(h, label).kind = job[h].kind
      /\ After(h, label).req = job[h].req
  BY <1>2, AfterJob
<1>4. denial \subseteq Wishes /\ mine \subseteq Wishes
  BY LockNames, WishNames
<1>6. TypeOK'
  BY <1>1, <1>3, <1>4, Typed, TxNames DEF TypeOK
<1>7. \A g \in Handlers \ {h} : Same(g)
  BY <1>1, Typed, TxNames DEF Same
<1>8. /\ job'[h] = After(h, label)
      /\ held'[Main(h)] = {} /\ wants'[Main(h)] = mine
      /\ held'[Recorder(h)] = {} /\ wants'[Recorder(h)] = denial
  BY <1>1, Typed, TxNames, NoRecorder
<1>9. JobOK(After(h, label))
  BY <1>3 DEF JobOK, Kinds, LabelsOf
<1>10. MainOK(After(h, label), {}, mine)
  BY <1>3, AloneNames DEF MainOK, FirstLock
<1>11. RecorderOK(After(h, label), {}, denial)
  BY <1>3, AloneNames DEF RecorderOK
<1> QED
  BY <1>6, <1>7, <1>8, <1>9, <1>10, <1>11, OneHandler DEF HandlerInv

\* A refusal without a rollback: the handler keeps the old nonces it has
\* deleted.
LEMMA InPlaceStep ==
  ASSUME LockInv, NEW h \in Handlers,
         DenyInPlace(h, "denied", {}, {Update(Audit)}),
         wants[Main(h)] = {}, job[h].at = "nonce",
         job[h].kind \in {"claim", "challenge", "report"}
  PROVE  LockInv'
<1>1. /\ job' = [job EXCEPT ![h] = After(h, "denied")] /\ held' = held
      /\ wants' = [wants EXCEPT ![Main(h)] = Missing(Main(h), {}),
                                ![Recorder(h)] = {Update(Audit)}]
      /\ UNCHANGED <<status, due, attached>>
  BY DEF DenyInPlace, After
<1>2. "denied" \in Labels /\ "denied" # "ended"
  BY DEF Labels
<1>3. /\ After(h, "denied") \in Job /\ After(h, "denied").at = "denied"
      /\ After(h, "denied").wrote = NoWrites
      /\ After(h, "denied").kind = job[h].kind
      /\ After(h, "denied").req = job[h].req
  BY <1>2, AfterJob
<1>4. {Update(Audit)} \subseteq Wishes /\ Missing(Main(h), {}) = {}
  BY LockNames, WishNames DEF Missing
<1>5. TypeOK'
  BY <1>1, <1>3, <1>4, Typed, TxNames DEF TypeOK
<1>6. \A g \in Handlers \ {h} : Same(g)
  BY <1>1, Typed, TxNames DEF Same
<1>7. Ordinary(job[h])
  BY DEF Ordinary
<1>8. /\ job'[h] = After(h, "denied")
      /\ held'[Main(h)] = held[Main(h)] /\ wants'[Main(h)] = {}
      /\ held'[Recorder(h)] = {} /\ wants'[Recorder(h)] = {Update(Audit)}
  BY <1>1, <1>4, <1>7, Typed, TxNames, NoRecorder
<1>9. JobOK(job[h]) /\ MainOK(job[h], held[Main(h)], {})
  BY DEF LockInv, HandlerInv
<1>10. JobOK(After(h, "denied"))
  BY <1>3, <1>9 DEF JobOK, Kinds, LabelsOf
<1>11. MainOK(After(h, "denied"), held[Main(h)], {})
  <2>1. held[Main(h)] \subseteq {Update(Purged)} /\ Alone(held[Main(h)] \cup {})
    BY <1>9 DEF MainOK
  <2> QED
    BY <1>3, <2>1 DEF MainOK
<1>12. RecorderOK(After(h, "denied"), {}, {Update(Audit)})
  BY <1>3, AloneNames DEF RecorderOK
<1> QED
  BY <1>5, <1>6, <1>8, <1>10, <1>11, <1>12, OneHandler DEF HandlerInv

\* The rows get a new status, and the event asks for the chain.
LEMMA EventStep ==
  ASSUME LockInv, NEW h \in Handlers, NEW rows \in SUBSET Requests, NEW s,
         s \in Statuses \/ rows = {}, Event(h, rows, s),
         Ordinary(job[h]), wants[Main(h)] = {},
         job[h].kind \in Kinds \ {"view"}, job[h].req \in Requests,
         job[h].kind = "sign" =>
           {Update(Session(job[h].req)), Update(Row(job[h].req))}
             \subseteq held[Main(h)]
  PROVE  LockInv'
<1> DEFINE j == [job[h] EXCEPT !.at = "append", !.wrote = Wrote(h, rows, s)]
           W == Missing(Main(h), {Update(Audit)})
<1>1. TypeOK /\ MainOK(job[h], held[Main(h)], wants[Main(h)])
  BY DEF LockInv, HandlerInv
<1>2. job[h] \in Job /\ Wrote(h, rows, s) \in [Requests -> Statuses \cup {None}]
  <2>1. job[h] \in Job /\ job[h].wrote \in [Requests -> Statuses \cup {None}]
    BY <1>1, NextJob DEF Job
  <2>2. CASE rows = {}
    BY <2>1, <2>2, <1>1, NextJob
  <2>3. CASE s \in Statuses
    BY <2>1, <2>3, <1>1, NextJob
  <2> QED
    BY <2>2, <2>3
<1>3. /\ j \in Job /\ j.at = "append"
      /\ j.kind = job[h].kind /\ j.req = job[h].req
  BY <1>2 DEF Job, Labels
<1>4. {Update(Audit)} \subseteq Wishes
  BY LockNames, WishNames
<1>5. (W = {} /\ Update(Audit) \in held[Main(h)]) \/ W = {Update(Audit)}
  BY WishNames DEF Missing
<1>6. Go(h, j, {Update(Audit)})
  BY DEF Event
<1> HIDE DEF j, W
<1>7. JobOK(j) /\ Ordinary(j)
  BY <1>3 DEF JobOK, Kinds, LabelsOf, Ordinary
<1>8. Alone(held[Main(h)] \cup W)
  BY <1>1, <1>5, AloneNames DEF MainOK
<1>9. MainOK(j, held[Main(h)], W)
  BY <1>3, <1>5, <1>8 DEF MainOK
<1>10. MainOK(j, held[Main(h)], Missing(Main(h), {Update(Audit)}))
  BY <1>9 DEF W
<1> QED
  BY <1>3, <1>4, <1>6, <1>7, <1>10, GoStep

LEMMA EndStep ==
  ASSUME LockInv, NEW h \in Handlers, End(h), Ordinary(job[h]),
         wants[Main(h)] = {}
  PROVE  LockInv'
<1>1. job[h].wrote \in [Requests -> Statuses \cup {None}]
  BY Typed DEF Job
<1> QED
  BY <1>1, CommitStep DEF End

LEMMA RefuseStep ==
  ASSUME LockInv, NEW h \in Handlers, NEW terminal \in BOOLEAN,
         Refuse(h, terminal), Ordinary(job[h]),
         job[h].kind \in {"complete", "sign"}, job[h].req \in Requests
  PROVE  LockInv'
<1>1. CASE terminal
  <2>1. Deny(h, "fail", {Update(Row(job[h].req))}, {})
    BY <1>1 DEF Refuse
  <2> QED
    BY <2>1, DenyStep
<1>2. CASE ~ terminal
  <2>1. Deny(h, "denied", {}, {Update(Audit)})
    BY <1>2 DEF Refuse
  <2> QED
    BY <2>1, DenyStep
<1> QED
  BY <1>1, <1>2

\* A call asks for its first lock.
LEMMA StartStep ==
  ASSUME LockInv, NEW h \in Handlers, NEW kind \in Kinds,
         NEW r \in Requests \cup {None}, NEW label \in LabelsOf(kind),
         NEW asked, Start(h, kind, r, label, asked),
         label \in {"document", "nonce", "session", "row"},
         r \in Requests \/ kind = "claim",
         IF label = "nonce"
           THEN kind \notin {"complete", "sign"} /\ asked \in Purges
           ELSE /\ kind # "claim"
                /\ asked = {FirstLock([NoJob EXCEPT !.kind = kind, !.at = label,
                                                   !.req = r, !.row = r])}
  PROVE  LockInv'
<1> DEFINE j == [NoJob EXCEPT !.kind = kind, !.at = label,
                              !.req = r, !.row = r]
<1>1. /\ j \in Job /\ j.kind = kind /\ j.at = label /\ j.req = r
      /\ j.wrote = NoWrites
  <2>1. label \in Labels
    BY DEF Labels
  <2>2. NoJob \in Job /\ NoJob.wrote = NoWrites
    BY JobType DEF NoJob
  <2> QED
    BY <2>1, <2>2 DEF Job
<1>2. job[h].at = "idle" /\ Go(h, j, asked)
  BY DEF Start, NoJob
<1>3. MainOK(job[h], held[Main(h)], wants[Main(h)]) /\ Ordinary(job[h])
  BY <1>2 DEF LockInv, HandlerInv, Ordinary
<1>4. held[Main(h)] = {}
  BY <1>2, <1>3 DEF MainOK
<1>5. Missing(Main(h), asked) = asked
  BY <1>4 DEF Missing
<1>6. label # "nonce" => asked = {FirstLock(j)}
  OBVIOUS
<1> HIDE DEF j
<1>7. JobOK(j) /\ Ordinary(j)
  BY <1>1 DEF JobOK, LabelsOf, Ordinary
<1>8. asked \in SUBSET Wishes /\ MainOK(j, {}, asked)
  <2>1. CASE label = "nonce"
    <3>1. asked = {} \/ asked = {Update(Purged)}
      BY <2>1 DEF Purges
    <3>2. asked \in SUBSET Wishes /\ Alone({} \cup asked)
      BY <3>1, LockNames, WishNames, AloneNames
    <3> QED
      BY <2>1, <3>1, <3>2, <1>1 DEF MainOK
  <2>2. CASE label # "nonce"
    <3>1. FirstLock(j) \in Wishes /\ Alone({FirstLock(j)})
      BY <2>2, <1>1, LockNames, WishNames, AloneNames DEF FirstLock, LabelsOf
    <3>2. asked \in SUBSET Wishes /\ Alone({} \cup asked)
      BY <2>2, <3>1, <1>6
    <3> QED
      BY <2>2, <3>2, <1>1, <1>6 DEF MainOK
  <2> QED
    BY <2>1, <2>2
<1> QED
  BY <1>1, <1>2, <1>3, <1>4, <1>5, <1>7, <1>8, GoStep

-----------------------------------------------------------------------------
(* The first states and the first statement of each call                   *)

LEMMA InitLocks == Init => LockInv
<1> SUFFICES ASSUME Init
             PROVE  LockInv
  OBVIOUS
<1>1. TypeOK
  BY JobType, LockStartAssumption DEF Init, TypeOK, Open, InFlight, Statuses
<1>2. \A h \in Handlers :
        /\ job[h] = NoJob
        /\ held[Main(h)] = {} /\ wants[Main(h)] = {}
        /\ held[Recorder(h)] = {} /\ wants[Recorder(h)] = {}
  BY TxNames DEF Init
<1>3. \A h \in Handlers : HandlerInv(h)
  BY <1>2, AloneNames DEF HandlerInv, NoJob, JobOK, MainOK, RecorderOK
<1>4. NoWaitAfterCrypto
  BY <1>2 DEF NoWaitAfterCrypto
<1> QED
  BY <1>1, <1>3, <1>4 DEF LockInv

LEMMA ViewStep ==
  ASSUME LockInv, NEW h \in Handlers, NEW r \in Requests, View(h, r)
  PROVE  LockInv'
<1> DEFINE j == [NoJob EXCEPT !.kind = "view", !.at = "denied",
                              !.req = r, !.row = r]
<1>1. j \in Job /\ j.kind = "view" /\ j.at = "denied" /\ j.req = r
  <2>1. "view" \in Kinds /\ "denied" \in Labels
    BY DEF Labels, Kinds
  <2> QED
    BY <2>1, JobType DEF Job
<1>2. /\ job[h] = NoJob /\ job' = [job EXCEPT ![h] = j] /\ held' = held
      /\ wants' = [wants EXCEPT ![Recorder(h)] = {Update(Audit)}]
      /\ UNCHANGED <<status, due, attached>>
  BY DEF View
<1> HIDE DEF j
<1>3. /\ held[Main(h)] = {} /\ wants[Main(h)] = {}
      /\ held[Recorder(h)] = {}
  <2>1. job[h].at = "idle"
    BY <1>2 DEF NoJob
  <2>2. /\ MainOK(job[h], held[Main(h)], wants[Main(h)])
        /\ RecorderOK(job[h], held[Recorder(h)], wants[Recorder(h)])
    BY DEF LockInv, HandlerInv
  <2> QED
    BY <2>1, <2>2 DEF MainOK, RecorderOK
<1>4. {Update(Audit)} \subseteq Wishes
  BY LockNames, WishNames
<1>5. TypeOK'
  BY <1>1, <1>2, <1>4, Typed, TxNames DEF TypeOK
<1>6. \A g \in Handlers \ {h} : Same(g)
  BY <1>2, Typed, TxNames DEF Same
<1>7. /\ job'[h] = j
      /\ held'[Main(h)] = {} /\ wants'[Main(h)] = {}
      /\ held'[Recorder(h)] = {} /\ wants'[Recorder(h)] = {Update(Audit)}
  BY <1>2, <1>3, Typed, TxNames
<1>8. JobOK(j) /\ MainOK(j, {}, {})
  BY <1>1, AloneNames DEF JobOK, Kinds, LabelsOf, MainOK
<1>9. RecorderOK(j, {}, {Update(Audit)})
  BY <1>1, AloneNames DEF RecorderOK
<1> QED
  BY <1>5, <1>6, <1>7, <1>8, <1>9, OneHandler DEF HandlerInv

LEMMA BeginStep ==
  ASSUME LockInv, NEW h \in Handlers, Begin(h)
  PROVE  LockInv'
<1>1. ASSUME NEW kind \in {"claim", "challenge", "report"},
             NEW r \in Requests \cup {None}, r \in Requests \/ kind = "claim",
             StartNonce(h, kind, r)
      PROVE  LockInv'
  <2>1. PICK purge \in Purges : Start(h, kind, r, "nonce", purge)
    BY <1>1 DEF StartNonce
  <2>2. kind \in Kinds /\ "nonce" \in LabelsOf(kind)
    BY DEF Kinds, LabelsOf
  <2> QED
    BY <1>1, <2>1, <2>2, StartStep
<1>2. ASSUME NEW r \in Requests, Create(h, r)
      PROVE  LockInv'
  BY <1>2, StartStep DEF Create, Kinds, LabelsOf, FirstLock, NoJob
<1>3. ASSUME NEW r \in Requests, Poll(h, r)
      PROVE  LockInv'
  BY <1>3, StartStep DEF Poll, Kinds, LabelsOf, FirstLock, NoJob
<1>4. Claim(h) => LockInv'
  BY <1>1 DEF Claim
<1>5. \A r \in Requests : Challenge(h, r) \/ Report(h, r) => LockInv'
  BY <1>1 DEF Challenge, Report
<1>6. ASSUME NEW r \in Requests, NEW kind \in {"complete", "sign"},
             StartSession(h, kind, r)
      PROVE  LockInv'
  <2>1. Start(h, kind, r, "session", {Update(Session(r))})
    BY <1>6 DEF StartSession
  <2>2. kind \in Kinds /\ "session" \in LabelsOf(kind)
    BY DEF Kinds, LabelsOf
  <2>3. FirstLock([NoJob EXCEPT !.kind = kind, !.at = "session",
                                !.req = r, !.row = r]) = Update(Session(r))
    BY DEF FirstLock, NoJob
  <2> QED
    BY <2>1, <2>2, <2>3, StartStep
<1> QED
  BY <1>2, <1>3, <1>4, <1>5, <1>6, ViewStep DEF Begin

-----------------------------------------------------------------------------
(* The portal                                                              *)

\* What a handler's label says of it.
LEMMA Said ==
  ASSUME LockInv, NEW h \in Handlers
  PROVE  /\ TypeOK /\ job[h] \in Job
         /\ job[h].at \in Labels /\ job[h].kind \in Kinds \cup {None}
         /\ job[h].wrote \in [Requests -> Statuses \cup {None}]
         /\ held[Main(h)] \subseteq Wishes /\ wants[Main(h)] \subseteq Wishes
         /\ JobOK(job[h]) /\ MainOK(job[h], held[Main(h)], wants[Main(h)])
         /\ RecorderOK(job[h], held[Recorder(h)], wants[Recorder(h)])
BY TxNames DEF LockInv, HandlerInv, TypeOK, Job

\* A transaction that has its first lock may hold old nonces besides.
LEMMA HoldsFirst ==
  ASSUME LockInv, NEW h \in Handlers, wants[Main(h)] = {},
         job[h].at \in {"document", "queue", "session", "row"}
  PROVE  /\ held[Main(h)] \ {Update(Purged)} = {FirstLock(job[h])}
         /\ held[Main(h)] \subseteq {Update(Purged), FirstLock(job[h])}
<1>1. held[Main(h)] \ {Update(Purged)} = {FirstLock(job[h])}
  BY Said DEF MainOK
<1> QED
  BY <1>1

\* The handler asks for the row it has found.
LEMMA AskRow ==
  ASSUME LockInv, NEW h \in Handlers, NEW q \in Requests,
         NEW label \in {"existing", "inflight", "attach"},
         label \in LabelsOf(job[h].kind), job[h].kind \in Kinds,
         job[h].req \in Requests \/ job[h].kind = "claim",
         Go(h, AtRow(h, label, q), {Update(Row(q))}), Ordinary(job[h]),
         Update(Audit) \in held[Main(h)] \/ NoRowIn(held[Main(h)])
  PROVE  LockInv'
<1> DEFINE j == AtRow(h, label, q)
           W == Missing(Main(h), {Update(Row(q))})
<1>1. TypeOK /\ label \in Labels
  BY Said DEF Labels
<1>2. /\ j \in Job /\ j.at = label /\ j.row = q
      /\ j.kind = job[h].kind /\ j.req = job[h].req
  BY <1>1, NextJob
<1>3. W \subseteq {Update(Row(q))} /\ {Update(Row(q))} \subseteq Wishes
  BY LockNames, WishNames DEF Missing
<1> HIDE DEF j, W
<1>4. JobOK(j) /\ Ordinary(j)
  BY <1>2 DEF JobOK, Ordinary
<1>5. SecondRow(j) = q
  BY <1>2 DEF SecondRow
<1>6. Alone(held[Main(h)] \cup W)
  <2>1. Alone(held[Main(h)] \cup wants[Main(h)])
    BY Said DEF MainOK
  <2>2. Alone(W)
    BY <1>3, AloneNames
  <2> QED
    BY <2>1, <2>2, AloneNames
<1>7. MainOK(j, held[Main(h)], W)
  BY <1>2, <1>3, <1>5, <1>6 DEF MainOK, LabelsOf
<1>8. MainOK(j, held[Main(h)], Missing(Main(h), {Update(Row(q))}))
  BY <1>7 DEF W
<1>9. Go(h, j, {Update(Row(q))})
  BY DEF j
<1> QED
  BY <1>2, <1>3, <1>4, <1>8, <1>9, GoStep

LEMMA PortalStep ==
  ASSUME LockInv, NEW h \in Handlers,
         FindExisting(h) \/ Existing(h) \/ Polled(h)
  PROVE  LockInv'
<1> DEFINE r == job[h].req
<1>1. /\ wants[Main(h)] = {} /\ Ordinary(job[h])
      /\ job[h].at \in {"document", "existing", "row"}
      /\ job[h].kind \in {"create", "poll"}
  BY DEF FindExisting, Existing, Polled, Has, Ordinary
<1>2. r \in Requests
  BY <1>1, Said DEF JobOK
<1>3. End(h) => LockInv'
  BY <1>1, EndStep
<1>4. ASSUME NEW rows \in SUBSET Requests, NEW s \in Statuses,
             Event(h, rows, s)
      PROVE  LockInv'
  BY <1>1, <1>2, <1>4, EventStep DEF Kinds
<1>5. {"PENDING", "EXPIRED"} \subseteq Statuses
  BY DEF Statuses, Open
<1>6. CASE FindExisting(h)
  <2>1. job[h].kind = "create" /\ job[h].at = "document"
    BY <1>6 DEF FindExisting, Has
  <2>2. held[Main(h)] \subseteq {Update(Purged), Update(Document(r))}
    BY <2>1, <1>1, HoldsFirst DEF FirstLock
  <2>3. ASSUME NEW q \in Requests,
               Go(h, AtRow(h, "existing", q), {Update(Row(q))})
        PROVE  LockInv'
    <3>1. NoRowIn(held[Main(h)])
      BY <2>2, <1>2, LockNames, RowNames
    <3>2. "existing" \in LabelsOf(job[h].kind) /\ job[h].kind \in Kinds
      BY <2>1 DEF LabelsOf, Kinds
    <3> QED
      BY <3>1, <3>2, <2>3, <1>1, <1>2, AskRow
  <2> QED
    BY <1>2, <1>3, <1>4, <1>5, <1>6, <2>3 DEF FindExisting, OnDocument
<1>7. CASE Existing(h)
  BY <1>2, <1>3, <1>4, <1>5, <1>7 DEF Existing
<1>8. CASE Polled(h)
  BY <1>2, <1>3, <1>4, <1>5, <1>8 DEF Polled
<1> QED
  BY <1>6, <1>7, <1>8

-----------------------------------------------------------------------------
(* The device's queue                                                      *)

LEMMA ExpireStep ==
  ASSUME LockInv, NEW h \in Handlers, ExpireRows(h)
  PROVE  LockInv'
<1> DEFINE S == {q \in due : status[q] \in Expirable /\ Unlocked(h, q)}
           j == [At(h, "expired") EXCEPT !.wrote = Wrote(h, S, "EXPIRED")]
           asked == IF S = {} THEN {} ELSE {Update(Audit)}
           H == held[Main(h)] \cup {Update(Row(q)) : q \in S}
<1>1. /\ job[h].kind = "claim" /\ job[h].at = "queue" /\ wants[Main(h)] = {}
      /\ Take(h, S, j, asked)
  BY DEF ExpireRows, Has
<1>2. /\ held[Main(h)] \subseteq {Update(Purged), Update(Device)}
      /\ job[h].wrote = NoWrites /\ Ordinary(job[h])
      /\ Alone(held[Main(h)] \cup wants[Main(h)])
  <2>1. held[Main(h)] \subseteq {Update(Purged), Update(Device)}
    BY <1>1, HoldsFirst DEF FirstLock
  <2>2. Alone(held[Main(h)] \cup wants[Main(h)])
    BY Said DEF MainOK
  <2> QED
    BY <2>1, <2>2, <1>1, Said DEF JobOK, Ordinary
<1>3. S \in SUBSET Requests
  BY Typed
<1>4. asked = {} \/ asked = {Update(Audit)}
  OBVIOUS
<1>5. S = {} => Wrote(h, S, "EXPIRED") = NoWrites /\ asked = {}
  <2>1. S = {} => asked = {}
    OBVIOUS
  <2> HIDE DEF S, asked
  <2> QED
    BY <2>1, <1>2, Said, NextJob
<1>6. S # {} => asked = {Update(Audit)}
  OBVIOUS
<1>7. Alone(H) /\ (S = {} => NoRowIn(H))
  <2>1. Alone({Update(Row(q)) : q \in S})
    BY <1>3, LockNames, WishNames DEF Alone
  <2>2. S = {} => H = held[Main(h)]
    OBVIOUS
  <2>3. NoRowIn(held[Main(h)])
    BY <1>2, LockNames, RowNames
  <2> QED
    BY <2>1, <2>2, <2>3, <1>2, AloneNames
<1>8. /\ j \in Job /\ j.at = "expired" /\ j.kind = "claim"
      /\ j.wrote = Wrote(h, S, "EXPIRED")
  <2>1. "expired" \in Labels /\ "EXPIRED" \in Statuses
    BY DEF Labels, Statuses
  <2>2. /\ At(h, "expired") \in Job /\ At(h, "expired").at = "expired"
        /\ At(h, "expired").kind = "claim"
    BY <2>1, <1>1, Said, NextJob
  <2>3. Wrote(h, S, "EXPIRED") \in [Requests -> Statuses \cup {None}]
    BY <2>1, <1>3, Said, NextJob
  <2> QED
    BY <2>2, <2>3 DEF Job
<1>9. asked \in SUBSET Wishes /\ Alone(H \cup asked)
  BY <1>4, <1>7, LockNames, WishNames, AloneNames
<1> HIDE DEF S, j, asked, H
<1>10. JobOK(j) /\ Ordinary(j)
  BY <1>8 DEF JobOK, Kinds, LabelsOf, Ordinary
<1>11. MainOK(j, H, asked)
  BY <1>5, <1>6, <1>7, <1>8, <1>9 DEF MainOK
<1>12. MainOK(j, held[Main(h)] \cup {Update(Row(q)) : q \in S}, asked)
  BY <1>11 DEF H
<1> QED
  BY <1>1, <1>2, <1>3, <1>8, <1>9, <1>10, <1>12, TakeStep

LEMMA ClaimStep ==
  ASSUME LockInv, NEW h \in Handlers, ClaimPending(h)
  PROVE  LockInv'
<1>1. /\ job[h].kind = "claim" /\ job[h].at = "pending" /\ wants[Main(h)] = {}
      /\ Ordinary(job[h])
  BY DEF ClaimPending, Has, Ordinary
<1>2. CASE End(h)
  BY <1>1, <1>2, EndStep
<1>3. ASSUME NEW q \in Requests,
             Take(h, {q}, [job[h] EXCEPT !.at = "append", !.req = q,
                                         !.wrote = Wrote(h, {q}, "CLAIMED")],
                  Missing(Main(h), {Update(Audit)}))
      PROVE  LockInv'
  <2> DEFINE j == [job[h] EXCEPT !.at = "append", !.req = q,
                                 !.wrote = Wrote(h, {q}, "CLAIMED")]
             W == Missing(Main(h), {Update(Audit)})
             H == held[Main(h)] \cup {Update(Row(p)) : p \in {q}}
  <2>1. Wrote(h, {q}, "CLAIMED") \in [Requests -> Statuses \cup {None}]
    BY Said, NextJob DEF Statuses, Open, InFlight
  <2>2. /\ j \in Job /\ j.at = "append" /\ j.kind = "claim" /\ j.req = q
    BY <2>1, <1>1, Said DEF Job, Labels
  <2>3. (W = {} /\ Update(Audit) \in held[Main(h)]) \/ W = {Update(Audit)}
    BY WishNames DEF Missing
  <2>4. Take(h, {q}, j, W)
    BY <1>3
  <2>5. held[Main(h)] \subseteq H /\ Alone(H)
    <3>1. Alone(held[Main(h)] \cup wants[Main(h)])
      BY Said DEF MainOK
    <3>2. H = held[Main(h)] \cup {Update(Row(q))}
      OBVIOUS
    <3> QED
      BY <3>1, <3>2, AloneNames
  <2> HIDE DEF j, W, H
  <2>6. W \in SUBSET Wishes /\ Alone(H \cup W)
    BY <2>3, <2>5, LockNames, WishNames, AloneNames
  <2>7. JobOK(j) /\ Ordinary(j)
    BY <2>2 DEF JobOK, Kinds, LabelsOf, Ordinary
  <2>8. MainOK(j, H, W)
    BY <2>2, <2>3, <2>5, <2>6 DEF MainOK
  <2>9. MainOK(j, held[Main(h)] \cup {Update(Row(p)) : p \in {q}}, W)
    BY <2>8 DEF H
  <2> QED
    BY <2>2, <2>6, <2>4, <2>7, <2>9, <1>1, TakeStep
<1> QED
  BY <1>2, <1>3 DEF ClaimPending

\* A statement that locks no row, without a change to what is written.
LEMMA AtStep ==
  ASSUME LockInv, NEW h \in Handlers, NEW label \in Labels \ {"ended"},
         NEW asked \in SUBSET Wishes, Go(h, At(h, label), asked),
         Ordinary(job[h]), label \notin {"denied", "denial", "queue", "fail", "idle"},
         label \in LabelsOf(job[h].kind), job[h].kind \in Kinds,
         label \notin {"existing", "inflight", "attach"},
         label = "nonce" => job[h].kind # "claim",
         \/ job[h].req \in Requests
         \/ job[h].kind = "claim" /\ label \notin {"append", "insert"},
         \A j \in Job :
           j.at = label /\ j.kind = job[h].kind /\ j.req = job[h].req
             => MainOK(j, held[Main(h)], Missing(Main(h), asked))
  PROVE  LockInv'
<1> DEFINE j == At(h, label)
<1>1. j \in Job /\ j.at = label /\ j.kind = job[h].kind /\ j.req = job[h].req
  BY Said, NextJob
<1>2. Go(h, j, asked)
  OBVIOUS
<1> HIDE DEF j
<1>3. JobOK(j) /\ Ordinary(j)
  BY <1>1 DEF JobOK, Ordinary
<1> QED
  BY <1>1, <1>2, <1>3, GoStep

LEMMA ScanStep ==
  ASSUME LockInv, NEW h \in Handlers,
         ExpireEvents(h) \/ ScanInFlight(h) \/ FoundInFlight(h)
  PROVE  LockInv'
<1>1. /\ wants[Main(h)] = {} /\ Ordinary(job[h]) /\ job[h].kind = "claim"
      /\ job[h].kind \in Kinds
      /\ {"scan", "pending", "inflight"} \subseteq LabelsOf(job[h].kind)
      /\ Alone(held[Main(h)] \cup wants[Main(h)])
  BY Said DEF ExpireEvents, ScanInFlight, FoundInFlight, Has, Ordinary,
              LabelsOf, Kinds, MainOK
<1>2. ASSUME Go(h, At(h, "pending"), {})
      PROVE  LockInv'
  <2>1. Missing(Main(h), {}) = {}
    BY DEF Missing
  <2>2. \A j \in Job : j.at = "pending" /\ j.kind = "claim"
                         => MainOK(j, held[Main(h)], Missing(Main(h), {}))
    BY <1>1, <2>1 DEF MainOK
  <2> QED
    BY <1>1, <1>2, <2>2, AtStep DEF Labels
<1>3. CASE ExpireEvents(h)
  <2> DEFINE asked == {Share(Document(q)) : q \in
                         {p \in Requests : job[h].wrote[p] = "EXPIRED"}}
             W == Missing(Main(h), asked)
  <2>1. Go(h, At(h, "scan"), asked) /\ job[h].at = "expired"
    BY <1>3 DEF ExpireEvents, Has
  <2>2. asked \subseteq Wishes /\ Alone(asked)
    BY LockNames, WishNames, AloneShares
  <2>3. W \subseteq asked /\ Alone(held[Main(h)] \cup W)
    <3>1. W \subseteq asked
      BY DEF Missing
    <3>2. Alone(W) /\ Alone(held[Main(h)])
      BY <3>1, <2>2, <1>1, AloneNames
    <3> QED
      BY <3>1, <3>2, AloneNames
  <2>4. Update(Audit) \in held[Main(h)]
          \/ (NoRowIn(held[Main(h)]) /\ job[h].wrote = NoWrites)
    BY <2>1, <1>1, Said DEF MainOK
  <2>5. job[h].wrote = NoWrites => asked = {}
    <3>1. None # "EXPIRED"
      BY DEF Statuses
    <3> QED
      BY <3>1, JobType
  <2> HIDE DEF asked, W
  <2>6. \A j \in Job : j.at = "scan" /\ j.kind = "claim"
                         => MainOK(j, held[Main(h)], W)
    BY <1>1, <2>2, <2>3, <2>4, <2>5 DEF MainOK
  <2>7. \A j \in Job : j.at = "scan" /\ j.kind = "claim"
                         => MainOK(j, held[Main(h)], Missing(Main(h), asked))
    BY <2>6 DEF W
  <2> QED
    BY <1>1, <2>1, <2>2, <2>7, AtStep DEF Labels
<1>4. CASE ScanInFlight(h)
  <2>1. job[h].at = "scan"
    BY <1>4 DEF ScanInFlight, Has
  <2>2. Update(Audit) \in held[Main(h)] \/ NoRowIn(held[Main(h)])
    BY <2>1, <1>1, Said DEF MainOK
  <2>3. ASSUME NEW q \in Requests,
               Go(h, AtRow(h, "inflight", q), {Update(Row(q))})
        PROVE  LockInv'
    BY <1>1, <2>2, <2>3, AskRow
  <2> QED
    BY <1>2, <1>4, <2>3 DEF ScanInFlight
<1>5. CASE FoundInFlight(h)
  <2>1. End(h) => LockInv'
    BY <1>1, EndStep
  <2> QED
    BY <1>2, <1>5, <2>1 DEF FoundInFlight
<1> QED
  BY <1>3, <1>4, <1>5

-----------------------------------------------------------------------------
(* The terminal                                                            *)

LEMMA ChallengeStep ==
  ASSUME LockInv, NEW h \in Handlers, Attach(h) \/ Attached(h)
  PROVE  LockInv'
<1>1. /\ wants[Main(h)] = {} /\ Ordinary(job[h]) /\ job[h].kind = "challenge"
      /\ job[h].kind \in Kinds \ {"view"} /\ job[h].req \in Requests
      /\ "attach" \in LabelsOf(job[h].kind)
  BY Said DEF Attach, Attached, Has, Ordinary, LabelsOf, Kinds, JobOK
<1>2. ASSUME NEW rows \in SUBSET Requests, NEW s,
             s \in Statuses \/ rows = {}, Event(h, rows, s)
      PROVE  LockInv'
  BY <1>1, <1>2, EventStep
<1>3. CASE Attach(h)
  <2>1. job[h].at = "session"
    BY <1>3 DEF Attach, Has
  <2>2. held[Main(h)] \subseteq {Update(Purged), Share(Document(job[h].req))}
    BY <2>1, <1>1, HoldsFirst DEF FirstLock
  <2>3. NoRowIn(held[Main(h)])
    BY <2>2, <1>1, LockNames, RowNames
  <2>4. ASSUME NEW q \in Requests,
               Go(h, AtRow(h, "attach", q), {Update(Row(q))})
        PROVE  LockInv'
    BY <1>1, <2>3, <2>4, AskRow
  <2> QED
    BY <1>2, <1>3, <2>4 DEF Attach, OnDocument
<1>4. CASE Attached(h)
  <2>1. job[h].row \in Requests
    BY <1>4, Said DEF Attached, Has, JobOK
  <2>2. {"EXPIRED", "AUTHENTICATING"} \subseteq Statuses
    BY DEF Statuses, Open, InFlight
  <2> QED
    BY <1>2, <1>4, <2>1, <2>2 DEF Attached
<1> QED
  BY <1>3, <1>4

\* The session, then its request.
LEMMA AuthorizeStep ==
  ASSUME LockInv, NEW h \in Handlers, Authorize(h)
  PROVE  LockInv'
<1> DEFINE r == job[h].req
           asked == {Update(Session(r)), Update(Row(r))}
           W == Missing(Main(h), asked)
<1>1. /\ wants[Main(h)] = {} /\ Ordinary(job[h]) /\ job[h].at = "session"
      /\ job[h].kind \in {"complete", "sign"} /\ job[h].kind \in Kinds
      /\ "authorize" \in LabelsOf(job[h].kind) /\ "authorize" \in Labels
  BY DEF Authorize, Has, Ordinary, LabelsOf, Kinds, Labels
<1>2. r \in Requests
  BY <1>1, Said DEF JobOK
<1>3. held[Main(h)] \ {Update(Purged)} = {Update(Session(r))}
  BY <1>1, HoldsFirst DEF FirstLock
<1>4. asked \subseteq Wishes
  BY <1>2, LockNames, WishNames
<1>5. W = {Update(Row(r))}
  <2>1. Update(Row(r)) \notin {Update(Session(r)), Update(Purged)}
    BY <1>2, LockNames, WishNames
  <2>2. Update(Session(r)) \in held[Main(h)]
    BY <1>3
  <2>3. {Update(Row(r)), Update(Update(Row(r))[1])} \cap held[Main(h)] = {}
    BY <2>1, <1>3, WishNames
  <2> QED
    BY <2>2, <2>3 DEF Missing
<1>6. NoRowIn(held[Main(h)]) /\ Alone(held[Main(h)] \cup W)
  <2>1. held[Main(h)] \subseteq {Update(Purged), Update(Session(r))}
    BY <1>3
  <2>2. NoRowIn(held[Main(h)])
    BY <1>2, <2>1, LockNames, RowNames
  <2>3. Alone({Update(Purged)}) /\ Alone({Update(Session(r))}) /\ Alone(W)
    BY <1>2, <1>5, AloneNames
  <2> QED
    BY <2>1, <2>2, <2>3 DEF Alone
<1>7. \A j \in Job :
        j.at = "authorize" /\ j.kind = job[h].kind /\ j.req = r
          => MainOK(j, held[Main(h)], W)
  BY <1>3, <1>5, <1>6 DEF MainOK, SecondRow
<1>8. CASE \E terminal \in BOOLEAN : Refuse(h, terminal)
  BY <1>1, <1>2, <1>8, RefuseStep
<1>9. CASE Go(h, At(h, "authorize"), asked)
  <2> HIDE DEF asked
  <2> QED
    BY <1>1, <1>2, <1>4, <1>7, <1>9, AtStep
<1> QED
  BY <1>8, <1>9 DEF Authorize

\* /complete and /sign once both rows are locked.
LEMMA AuthorizedStep ==
  ASSUME LockInv, NEW h \in Handlers, Authorized(h)
  PROVE  LockInv'
<1> DEFINE r == job[h].req
<1>1. /\ wants[Main(h)] = {} /\ Ordinary(job[h]) /\ job[h].at = "authorize"
      /\ job[h].kind \in {"complete", "sign"}
      /\ job[h].kind \in Kinds \ {"view"}
  BY DEF Authorized, Has, Ordinary, Kinds
<1>2. r \in Requests
  BY <1>1, Said DEF JobOK
<1>3. job[h].kind = "sign" =>
        {Update(Session(r)), Update(Row(r))} \subseteq held[Main(h)]
  BY <1>1, Said DEF MainOK
<1>4. ASSUME NEW terminal \in BOOLEAN, Refuse(h, terminal)
      PROVE  LockInv'
  BY <1>1, <1>2, <1>4, RefuseStep
<1>5. ASSUME NEW purge \in Purges, Go(h, At(h, "nonce"), purge)
      PROVE  LockInv'
  <2> DEFINE W == Missing(Main(h), purge)
  <2>1. /\ purge = {} \/ purge = {Update(Purged)}
        /\ purge \in SUBSET Wishes
    BY LockNames, WishNames DEF Purges
  <2>2. W \subseteq {Update(Purged)}
    BY <2>1 DEF Missing
  <2> HIDE DEF W
  <2>3. Alone(held[Main(h)] \cup W)
    <3>1. Alone(held[Main(h)] \cup wants[Main(h)])
      BY Said DEF MainOK
    <3>2. Alone(held[Main(h)]) /\ Alone(W)
      BY <3>1, <2>2, AloneNames
    <3> QED
      BY <3>2, AloneNames
  <2>4. \A j \in Job : j.at = "nonce" /\ j.kind = job[h].kind /\ j.req = r
                         => MainOK(j, held[Main(h)], W)
    BY <1>1, <1>3, <2>2, <2>3 DEF MainOK
  <2>5. "nonce" \in LabelsOf(job[h].kind) /\ "nonce" \in Labels
    BY <1>1 DEF LabelsOf, Labels
  <2> QED
    BY <1>1, <1>2, <1>5, <2>1, <2>4, <2>5, AtStep DEF W
<1> QED
  BY <1>4, <1>5 DEF Authorized

\* The nonce of a call is stored, and its work begins; or it was used before.
LEMMA NonceStep ==
  ASSUME LockInv, NEW h \in Handlers, Consume(h) \/ Replayed(h)
  PROVE  LockInv'
<1> DEFINE r == job[h].req
<1>1. /\ wants[Main(h)] = {} /\ Ordinary(job[h]) /\ job[h].at = "nonce"
      /\ job[h].kind \in {"claim", "challenge", "report", "complete", "sign"}
      /\ job[h].kind \in Kinds \ {"view"}
  BY Said DEF Consume, Replayed, Has, Ordinary, JobOK, LabelsOf, Kinds
<1>2. /\ job[h].kind # "claim" => r \in Requests
      /\ job[h].kind = "claim" => job[h].wrote = NoWrites
  BY <1>1, Said DEF JobOK
<1>3. ASSUME NEW label \in {"queue", "session", "row"}, NEW l \in Locks,
             NEW w \in {Update(l), Share(l)}, l \notin {Purged, Audit},
             Go(h, At(h, label), {w}), label \in LabelsOf(job[h].kind),
             job[h].kind \notin {"complete", "sign"},
             label = "queue" <=> job[h].kind = "claim",
             \A j \in Job :
               j.at = label /\ j.kind = job[h].kind /\ j.req = r
                 => FirstLock(j) = w
      PROVE  LockInv'
  <2> DEFINE j == At(h, label)
  <2>1. /\ j \in Job /\ j.at = label /\ j.kind = job[h].kind /\ j.req = r
        /\ j.wrote = job[h].wrote
    BY Said, NextJob DEF Labels
  <2>2. Go(h, j, {w})
    BY <1>3
  <2> HIDE DEF j
  <2>3. held[Main(h)] \subseteq {Update(Purged)}
    BY <1>1, <1>3, Said DEF MainOK
  <2>4. /\ {w} \in SUBSET Wishes /\ w[1] = l
        /\ w # Update(Purged) /\ Update(l) # Update(Purged)
    BY <1>3, WishNames
  <2>5. Missing(Main(h), {w}) = {w}
    BY <2>3, <2>4 DEF Missing
  <2>6. Alone(held[Main(h)] \cup {w})
    <3>1. w \notin {Share(Audit), Share(Purged)}
      BY <1>3, <2>4, WishNames
    <3>2. Alone({w})
      BY <3>1 DEF Alone
    <3> QED
      BY <3>2, <2>3, AloneNames
  <2>7. FirstLock(j) = w
    BY <1>3, <2>1
  <2>8. JobOK(j) /\ Ordinary(j)
    <3>1. j.kind \in Kinds /\ j.at \in LabelsOf(j.kind)
      BY <1>1, <1>3, <2>1
    <3>2. /\ j.kind # "claim" => j.req \in Requests
          /\ j.at = "queue" => j.wrote = NoWrites
      BY <1>2, <1>3, <2>1
    <3>3. j.at \in {"queue", "session", "row"}
      BY <1>3, <2>1
    <3> QED
      BY <3>1, <3>2, <3>3 DEF JobOK, Ordinary
  <2>9. MainOK(j, held[Main(h)], {w})
    BY <1>3, <2>1, <2>3, <2>6, <2>7 DEF MainOK
  <2> QED
    BY <1>1, <2>1, <2>2, <2>4, <2>5, <2>8, <2>9, GoStep
<1>4. ASSUME NEW rows \in SUBSET Requests, Event(h, rows, "AUTHENTICATED"),
             r \in Requests
      PROVE  LockInv'
  <2>1. "AUTHENTICATED" \in Statuses
    BY DEF Statuses, Open, InFlight
  <2>2. job[h].kind = "sign" =>
          {Update(Session(r)), Update(Row(r))} \subseteq held[Main(h)]
    BY <1>1, Said DEF MainOK
  <2> QED
    BY <1>1, <1>4, <2>1, <2>2, EventStep
<1>5. CASE Consume(h)
  <2>1. CASE Has(h, "claim", "nonce") /\ Go(h, At(h, "queue"), {Update(Device)})
    BY <2>1, <1>3, LockNames DEF Has, LabelsOf, FirstLock
  <2>2. CASE /\ Has(h, "challenge", "nonce")
             /\ Go(h, At(h, "session"), {Share(Document(r))})
    <3>1. job[h].kind = "challenge" /\ r \in Requests
      BY <2>2, <1>2 DEF Has
    <3>2. "session" \in LabelsOf(job[h].kind)
      BY <3>1 DEF LabelsOf
    <3>3. \A j \in Job : j.at = "session" /\ j.kind = job[h].kind /\ j.req = r
                           => FirstLock(j) = Share(Document(r))
      BY <3>1 DEF FirstLock
    <3> QED
      BY <2>2, <3>1, <3>2, <3>3, <1>3, LockNames
  <2>3. CASE Has(h, "report", "nonce") /\ Go(h, At(h, "row"), {Update(Row(r))})
    <3>1. job[h].kind = "report" /\ r \in Requests
      BY <2>3, <1>2 DEF Has
    <3>2. "row" \in LabelsOf(job[h].kind)
      BY <3>1 DEF LabelsOf
    <3>3. \A j \in Job : j.at = "row" /\ j.kind = job[h].kind /\ j.req = r
                           => FirstLock(j) = Update(Row(r))
      BY DEF FirstLock
    <3> QED
      BY <2>3, <3>1, <3>2, <3>3, <1>3, LockNames
  <2>4. CASE \/ Has(h, "complete", "nonce") /\ Event(h, {r}, "AUTHENTICATED")
             \/ Has(h, "sign", "nonce") /\ Event(h, {}, "AUTHENTICATED")
    BY <2>4, <1>2, <1>4 DEF Has
  <2> QED
    BY <1>5, <2>1, <2>2, <2>3, <2>4 DEF Consume
<1>6. CASE Replayed(h)
  <2>1. CASE job[h].kind \in {"complete", "sign"}
    BY <2>1, <1>1, <1>2, <1>6, RefuseStep DEF Replayed
  <2>2. CASE job[h].kind \notin {"complete", "sign"}
    BY <2>2, <1>1, <1>6, InPlaceStep DEF Replayed
  <2> QED
    BY <2>1, <2>2
<1> QED
  BY <1>5, <1>6

\* /sign before, during and after the call of the HSM.
LEMMA SignStep ==
  ASSUME LockInv, NEW h \in Handlers, Started(h) \/ Crypto(h) \/ Publish(h)
  PROVE  LockInv'
<1> DEFINE r == job[h].req
           H == held[Main(h)]
<1>1. /\ wants[Main(h)] = {} /\ Ordinary(job[h]) /\ job[h].kind = "sign"
      /\ job[h].kind \in Kinds /\ "crypto" \in LabelsOf(job[h].kind)
      /\ "crypto" \in Labels
  BY DEF Started, Crypto, Publish, Has, Ordinary, Kinds, LabelsOf, Labels
<1>2. r \in Requests /\ Alone(H \cup {})
  BY <1>1, Said DEF Started, Crypto, Publish, Has, JobOK, MainOK
<1>3. CASE Started(h)
  <2>1. Go(h, At(h, "crypto"), {}) /\ job[h].at = "insert"
    BY <1>3 DEF Started, Has
  <2>2. Missing(Main(h), {}) = {}
    BY DEF Missing
  <2>3. /\ Update(Audit) \in H
        /\ {Update(Session(r)), Update(Row(r))} \subseteq H
        /\ {Share(Document(r)), Update(Document(r))} \cap H # {}
    BY <2>1, <1>1, Said DEF MainOK
  <2>4. \A j \in Job : j.at = "crypto" /\ j.kind = job[h].kind /\ j.req = r
                         => MainOK(j, H, Missing(Main(h), {}))
    BY <2>2, <2>3, <1>2 DEF MainOK
  <2> QED
    BY <1>1, <1>2, <2>1, <2>4, AtStep
<1>4. CASE Crypto(h)
  <2> DEFINE j == [At(h, "publish") EXCEPT !.wrote = Wrote(h, {r}, "SIGNED")]
             asked == {Share(Document(r)), Share(Session(r)), Update(Row(r)),
                       Update(Audit)}
  <2>1. job[h].at = "crypto" /\ (Refuse(h, FALSE) \/ Go(h, j, asked))
    BY <1>4 DEF Crypto, Has
  <2>2. /\ Update(Audit) \in H
        /\ {Update(Session(r)), Update(Row(r))} \subseteq H
        /\ {Share(Document(r)), Update(Document(r))} \cap H # {}
    BY <2>1, <1>1, Said DEF MainOK
  <2>3. Missing(Main(h), asked) = {}
    <3>1. \A w \in asked : {w, Update(w[1])} \cap H # {}
      BY <2>2, WishNames
    <3> HIDE DEF asked
    <3> QED
      BY <3>1 DEF Missing
  <2>4. asked \subseteq Wishes
    BY <1>2, LockNames, WishNames
  <2>5. /\ j \in Job /\ j.at = "publish" /\ j.kind = "sign" /\ j.req = r
    <3>1. "publish" \in Labels /\ "SIGNED" \in Statuses
      BY DEF Labels, Statuses
    <3>2. /\ At(h, "publish") \in Job /\ At(h, "publish").at = "publish"
          /\ At(h, "publish").kind = "sign" /\ At(h, "publish").req = r
      BY <3>1, <1>1, Said, NextJob
    <3>3. Wrote(h, {r}, "SIGNED") \in [Requests -> Statuses \cup {None}]
      BY <3>1, <1>2, Said, NextJob
    <3> QED
      BY <3>2, <3>3 DEF Job
  <2> HIDE DEF j, asked
  <2>6. JobOK(j) /\ Ordinary(j)
    BY <2>5, <1>2 DEF JobOK, Kinds, LabelsOf, Ordinary
  <2>7. MainOK(j, H, Missing(Main(h), asked))
    BY <2>2, <2>3, <2>5, <1>2 DEF MainOK
  <2>8. Refuse(h, FALSE) => LockInv'
    BY <1>1, <1>2, RefuseStep
  <2> QED
    BY <1>1, <2>1, <2>4, <2>5, <2>6, <2>7, <2>8, GoStep
<1>5. CASE Publish(h)
  BY <1>1, <1>5, EndStep DEF Publish
<1> QED
  BY <1>3, <1>4, <1>5

LEMMA ReportStep ==
  ASSUME LockInv, NEW h \in Handlers, Reported(h)
  PROVE  LockInv'
<1>1. /\ wants[Main(h)] = {} /\ Ordinary(job[h]) /\ job[h].kind = "report"
      /\ job[h].kind \in Kinds \ {"view"} /\ job[h].req \in Requests
  BY Said DEF Reported, Has, Ordinary, Kinds, JobOK
<1>2. ASSUME NEW rows \in SUBSET Requests, NEW s \in Statuses,
             Event(h, rows, s)
      PROVE  LockInv'
  BY <1>1, <1>2, EventStep
<1>3. {"EXPIRED", "FAILED"} \subseteq Statuses
  BY DEF Statuses
<1>4. End(h) => LockInv'
  BY <1>1, EndStep
<1> QED
  BY <1>1, <1>2, <1>3, <1>4 DEF Reported

\* An event is appended, and its transaction ends.
LEMMA AppendStep ==
  ASSUME LockInv, NEW h \in Handlers, Append(h) \/ Inserted(h)
  PROVE  LockInv'
<1> DEFINE r == job[h].req
           H == held[Main(h)]
<1>1. /\ wants[Main(h)] = {} /\ Ordinary(job[h])
      /\ job[h].at \in {"append", "insert"}
  BY DEF Append, Inserted, Ordinary
<1>2. r \in Requests /\ job[h].kind \in Kinds /\ job[h].kind # "view"
  BY <1>1, Said DEF JobOK, LabelsOf
<1>3. CASE Append(h)
  <2> DEFINE asked == {Share(Document(r))}
             W == Missing(Main(h), asked)
  <2>1. Go(h, At(h, "insert"), asked) /\ job[h].at = "append"
    BY <1>3 DEF Append
  <2>2. /\ Update(Audit) \in H /\ Alone(H \cup {})
        /\ job[h].kind = "sign" =>
             {Update(Session(r)), Update(Row(r))} \subseteq H
    BY <2>1, <1>1, Said, WishNames DEF MainOK
  <2>3. /\ W \subseteq {Share(Document(r))}
        /\ {Share(Document(r)), Update(Document(r))} \cap (H \cup W) # {}
    BY WishNames DEF Missing
  <2>4. asked \in SUBSET Wishes /\ Alone(H \cup W)
    <3>1. Alone(H) /\ Alone(W)
      BY <1>2, <2>2, <2>3, AloneNames
    <3>2. Alone(H \cup W)
      BY <3>1, AloneNames
    <3>3. asked \in SUBSET Wishes
      BY <1>2, LockNames, WishNames
    <3> QED
      BY <3>2, <3>3
  <2> HIDE DEF asked, W
  <2>5. /\ At(h, "insert") \in Job /\ At(h, "insert").at = "insert"
        /\ At(h, "insert").kind = job[h].kind /\ At(h, "insert").req = r
    BY Said, NextJob DEF Labels
  <2>6. JobOK(At(h, "insert")) /\ Ordinary(At(h, "insert"))
    BY <2>5, <1>2 DEF JobOK, Ordinary, Kinds, LabelsOf
  <2>7. MainOK(At(h, "insert"), H, W)
    BY <2>2, <2>3, <2>4, <2>5 DEF MainOK
  <2> QED
    BY <1>1, <2>1, <2>4, <2>5, <2>6, <2>7, GoStep DEF W
<1>4. CASE Inserted(h)
  BY <1>1, <1>4, EndStep DEF Inserted
<1> QED
  BY <1>3, <1>4

-----------------------------------------------------------------------------
(* Refusals                                                                *)

LEMMA FailStep ==
  ASSUME LockInv, NEW h \in Handlers, Fail(h)
  PROVE  LockInv'
<1>1. wants[Main(h)] = {} /\ Ordinary(job[h]) /\ job[h].at = "fail"
  BY DEF Fail, Ordinary
<1>2. job[h].kind \in {"complete", "sign"} /\ job[h].req \in Requests
  BY <1>1, Said DEF JobOK, Kinds, LabelsOf
<1>3. ASSUME NEW rows \in SUBSET Requests,
             Commit(h, Wrote(h, rows, "FAILED"), "denied", {Update(Audit)})
      PROVE  LockInv'
  <2>1. Wrote(h, rows, "FAILED") \in [Requests -> Statuses \cup {None}]
    BY Said, NextJob DEF Statuses
  <2> QED
    BY <1>1, <1>2, <1>3, <2>1, CommitStep
<1> QED
  BY <1>2, <1>3 DEF Fail

\* The recorder goes on: the event, and the end of its transaction.
LEMMA RecorderStep ==
  ASSUME LockInv, NEW h \in Handlers, Denial(h) \/ Recorded(h)
  PROVE  LockInv'
<1> DEFINE r == job[h].req
<1>1. /\ job[h].at \in {"denied", "denial"} /\ wants[Recorder(h)] = {}
      /\ wants[Main(h)] = {} /\ job[h].kind \in Kinds
      /\ r \in Requests \/ job[h].kind = "claim"
  BY Said DEF Denial, Recorded, MainOK, JobOK
<1>3. CASE Denial(h)
  <2> DEFINE asked == Named(job[h].kind, r)
  <2>1. /\ job[h].at = "denied" /\ held' = held
        /\ job' = [job EXCEPT ![h] = At(h, "denial")]
        /\ wants' = [wants EXCEPT ![Recorder(h)] = asked]
        /\ UNCHANGED <<status, due, attached>>
    BY <1>3 DEF Denial
  <2>2. \/ asked = {}
        \/ /\ r \in Requests
           /\ asked \subseteq {Share(Document(r)), Share(Session(r))}
    BY <1>1 DEF Named
  <2> HIDE DEF asked
  <2>3. asked \subseteq Wishes /\ Alone(asked)
    BY <2>2, LockNames, WishNames, AloneNames, AloneShares
  <2>4. /\ At(h, "denial") \in Job /\ At(h, "denial").at = "denial"
        /\ At(h, "denial").kind = job[h].kind /\ At(h, "denial").req = r
    BY Said, NextJob DEF Labels
  <2>5. TypeOK'
    BY <2>1, <2>3, <2>4, Typed, TxNames DEF TypeOK
  <2>6. \A g \in Handlers \ {h} : Same(g)
    BY <2>1, Typed, TxNames DEF Same
  <2>7. /\ job'[h] = At(h, "denial")
        /\ held'[Main(h)] = held[Main(h)] /\ wants'[Main(h)] = {}
        /\ held'[Recorder(h)] = held[Recorder(h)]
        /\ wants'[Recorder(h)] = asked
    BY <2>1, <1>1, Typed, TxNames
  <2>8. JobOK(At(h, "denial"))
    <3>1. "denied" \in LabelsOf(job[h].kind)
      BY <2>1, Said DEF JobOK
    <3>2. "denial" \in LabelsOf(job[h].kind)
      BY <3>1, <1>1 DEF LabelsOf, Kinds
    <3> QED
      BY <2>4, <3>2, <1>1 DEF JobOK
  <2>9. MainOK(At(h, "denial"), held[Main(h)], {})
    <3>1. /\ held[Main(h)] \subseteq {Update(Purged)}
          /\ Alone(held[Main(h)] \cup {})
      BY <2>1, <1>1, Said DEF MainOK
    <3> QED
      BY <2>4, <3>1 DEF MainOK
  <2>10. held[Recorder(h)] = {Update(Audit)}
    BY <2>1, <1>1, Said DEF RecorderOK
  <2>11. RecorderOK(At(h, "denial"), held[Recorder(h)], asked)
    BY <2>3, <2>4, <2>10, AloneNames DEF RecorderOK
  <2> QED
    BY <2>5, <2>6, <2>7, <2>8, <2>9, <2>11, OneHandler DEF HandlerInv
<1>4. CASE Recorded(h)
  <2>1. /\ held' = [held EXCEPT ![Recorder(h)] = {}, ![Main(h)] = {}]
        /\ wants' = wants
        /\ job' = [job EXCEPT ![h] = At(h, "ended")]
        /\ UNCHANGED <<status, due, attached>>
    BY <1>4 DEF Recorded
  <2>2. At(h, "ended") \in Job /\ At(h, "ended").at = "ended"
    BY Said, NextJob DEF Labels
  <2>3. TypeOK'
    BY <2>1, <2>2, Typed, TxNames DEF TypeOK
  <2>4. \A g \in Handlers \ {h} : Same(g)
    BY <2>1, Typed, TxNames DEF Same
  <2>5. /\ job'[h] = At(h, "ended")
        /\ held'[Main(h)] = {} /\ wants'[Main(h)] = {}
        /\ held'[Recorder(h)] = {} /\ wants'[Recorder(h)] = {}
    BY <2>1, <1>1, Typed, TxNames
  <2>6. JobOK(At(h, "ended")) /\ MainOK(At(h, "ended"), {}, {})
        /\ RecorderOK(At(h, "ended"), {}, {})
    BY <2>2, AloneNames DEF JobOK, MainOK, RecorderOK
  <2> QED
    BY <2>3, <2>4, <2>5, <2>6, OneHandler DEF HandlerInv
<1> QED
  BY <1>3, <1>4

-----------------------------------------------------------------------------
(* PostgreSQL                                                              *)

\* A lock the transaction has waited for.
LEMMA MainAcquires ==
  ASSUME NEW j, NEW H, NEW W, NEW w \in W, MainOK(j, H, W)
  PROVE  MainOK(j, H \cup {w}, W \ {w})
<1> DEFINE G == H \cup {w}
           V == W \ {w}
<1>1. G \cup V = H \cup W /\ H \subseteq G /\ V \subseteq W /\ w \in G
  OBVIOUS
<1>2. \A x : W = {x} => V = {} /\ w = x
  OBVIOUS
<1>3. \A x : H = {} /\ W = {x} => G = {x}
  OBVIOUS
<1>4. W # {}
  OBVIOUS
<1> HIDE DEF G, V
<1>5. j.at \notin {"idle", "ended", "denied", "denial", "pending",
                   "crypto", "publish"}
  BY <1>4 DEF MainOK
<1>6. j.at = "fail" => G = {FirstLock(j)} /\ V = {}
  <2>1. j.at = "fail" => H = {} /\ W = {FirstLock(j)}
    BY <1>4 DEF MainOK
  <2> QED
    BY <2>1, <1>2, <1>3
<1>13. j.at \in {"document", "queue", "session", "row"} =>
         V = {} /\ G \ {Update(Purged)} = {FirstLock(j)}
  <2>1. j.at \in {"document", "queue", "session", "row"} =>
          H \subseteq {Update(Purged)} /\ W = {FirstLock(j)}
    BY <1>4 DEF MainOK
  <2>2. FirstLock(j) # Update(Purged)
    BY FirstNames
  <2> QED
    BY <2>1, <2>2, <1>1, <1>2
<1>14. j.at = "nonce" =>
         /\ V \subseteq {Update(Purged)}
         /\ j.kind \notin {"complete", "sign"} => G \subseteq {Update(Purged)}
  <2>1. j.at = "nonce" =>
          /\ W \subseteq {Update(Purged)}
          /\ j.kind \notin {"complete", "sign"} => H \subseteq {Update(Purged)}
    BY DEF MainOK
  <2> QED
    BY <2>1 DEF G, V
<1>7. j.at \in {"existing", "inflight", "attach", "authorize"} => V = {}
  <2>1. j.at \in {"existing", "inflight", "attach", "authorize"} =>
          W = {Update(Row(SecondRow(j)))}
    BY <1>4 DEF MainOK
  <2> QED
    BY <2>1, <1>2
<1>8. j.at \in {"expired", "append"} => V = {} /\ Update(Audit) \in G
  <2>1. j.at \in {"expired", "append"} => W = {Update(Audit)}
    BY <1>4 DEF MainOK
  <2> QED
    BY <2>1, <1>1, <1>2
<1>9. j.at \in {"scan", "insert"} => Update(Audit) \in G
  <2>1. j.at \in {"scan", "insert"} => Update(Audit) \in H
    BY <1>4 DEF MainOK
  <2> QED
    BY <2>1, <1>1
<1>10. j.at = "insert" => V \subseteq {Share(Document(j.req))}
  <2>1. j.at = "insert" => W \subseteq {Share(Document(j.req))}
    BY DEF MainOK
  <2> QED
    BY <2>1, <1>1
<1>11. /\ j.kind = "sign" /\ j.at \in {"authorize", "nonce", "append",
                                       "insert", "crypto"} =>
            {Update(Session(j.req)), Update(Row(j.req))} \subseteq G \cup V
       /\ j.kind = "sign" /\ j.at \in {"insert", "crypto"} =>
            {Share(Document(j.req)), Update(Document(j.req))}
              \cap (G \cup V) # {}
       /\ Alone(G \cup V)
  BY <1>1 DEF MainOK
<1>12. MainOK(j, G, V)
  BY <1>5, <1>6, <1>7, <1>8, <1>9, <1>10, <1>11, <1>13, <1>14 DEF MainOK
<1> QED
  BY <1>12 DEF G, V

LEMMA AcquireStep ==
  ASSUME LockInv, NEW t \in Tx, Acquire(t)
  PROVE  LockInv'
<1>1. PICK w \in wants[t] :
        /\ wants' = [wants EXCEPT ![t] = @ \ {w}]
        /\ held' = [held EXCEPT ![t] = @ \cup {w}]
  BY DEF Acquire
<1>2. job' = job /\ UNCHANGED <<status, due, attached>>
  BY DEF Acquire
<1>3. TypeOK'
  BY <1>1, <1>2, Typed DEF TypeOK
<1>4. PICK h \in Handlers : t = Main(h) \/ t = Recorder(h)
  BY TxNames
<1>5. \A g \in Handlers \ {h} : Same(g)
  BY <1>1, <1>2, <1>4, Typed, TxNames DEF Same
<1>6. CASE t = Main(h)
  <2>1. /\ held'[Main(h)] = held[Main(h)] \cup {w}
        /\ wants'[Main(h)] = wants[Main(h)] \ {w}
        /\ held'[Recorder(h)] = held[Recorder(h)]
        /\ wants'[Recorder(h)] = wants[Recorder(h)]
    BY <1>1, <1>6, Typed, TxNames
  <2>2. MainOK(job[h], held[Main(h)] \cup {w}, wants[Main(h)] \ {w})
    BY <1>6, Said, MainAcquires
  <2>3. HandlerInv(h)'
    BY <2>1, <2>2, <1>2, Said DEF HandlerInv
  <2> QED
    BY <1>3, <1>5, <2>3, OneHandler
<1>7. CASE t = Recorder(h)
  <2>1. /\ held'[Recorder(h)] = held[Recorder(h)] \cup {w}
        /\ wants'[Recorder(h)] = wants[Recorder(h)] \ {w}
        /\ held'[Main(h)] = held[Main(h)] /\ wants'[Main(h)] = wants[Main(h)]
    BY <1>1, <1>7, Typed, TxNames
  <2>2. RecorderOK(job[h], held[Recorder(h)], wants[Recorder(h)])
    BY Said
  <2>3. w \in wants[Recorder(h)]
    BY <1>7
  <2>4. RecorderOK(job[h], held[Recorder(h)] \cup {w},
                   wants[Recorder(h)] \ {w})
    <3>1. (held[Recorder(h)] \cup {w}) \cup (wants[Recorder(h)] \ {w})
             = held[Recorder(h)] \cup wants[Recorder(h)]
      BY <2>3
    <3> QED
      BY <2>2, <2>3, <3>1 DEF RecorderOK
  <2>5. HandlerInv(h)'
    BY <2>1, <2>4, <1>2, Said DEF HandlerInv
  <2> QED
    BY <1>3, <1>5, <2>5, OneHandler
<1> QED
  BY <1>4, <1>6, <1>7

\* The victim of a deadlock gives up, or records the refusal all the same.
LEMMA BreakStep ==
  ASSUME LockInv, NEW h \in Handlers, Break(h)
  PROVE  LockInv'
<1>1. CASE job[h].at = "fail"
  <2>1. Deny(h, "denied", {}, {Update(Audit)})
    BY <1>1 DEF Break
  <2>2. job[h].kind \in {"complete", "sign"} /\ job[h].req \in Requests
    BY <1>1, Said DEF JobOK, Kinds, LabelsOf
  <2> QED
    BY <1>1, <2>1, <2>2, DenyStep DEF Ordinary
<1>2. CASE job[h].at # "fail"
  <2>1. /\ held' = [held EXCEPT ![Main(h)] = {}, ![Recorder(h)] = {}]
        /\ wants' = [wants EXCEPT ![Main(h)] = {}, ![Recorder(h)] = {}]
        /\ job' = [job EXCEPT ![h] = After(h, "ended")]
        /\ UNCHANGED <<status, due, attached>>
    BY <1>2 DEF Break, After
  <2>2. After(h, "ended") \in Job /\ After(h, "ended").at = "ended"
    BY AfterJob DEF Labels
  <2>3. TypeOK'
    BY <2>1, <2>2, Typed, TxNames DEF TypeOK
  <2>4. \A g \in Handlers \ {h} : Same(g)
    BY <2>1, Typed, TxNames DEF Same
  <2>5. /\ job'[h] = After(h, "ended")
        /\ held'[Main(h)] = {} /\ wants'[Main(h)] = {}
        /\ held'[Recorder(h)] = {} /\ wants'[Recorder(h)] = {}
    BY <2>1, Typed, TxNames
  <2>6. /\ JobOK(After(h, "ended")) /\ MainOK(After(h, "ended"), {}, {})
        /\ RecorderOK(After(h, "ended"), {}, {})
    BY <2>2, AloneNames DEF JobOK, MainOK, RecorderOK
  <2> QED
    BY <2>3, <2>4, <2>5, <2>6, OneHandler DEF HandlerInv
<1> QED
  BY <1>1, <1>2

-----------------------------------------------------------------------------
(* The inductive invariant                                                 *)

LEMMA LockStep ==
  ASSUME LockInv, [Next]_vars
  PROVE  LockInv'
<1>1. ASSUME NEW h \in Handlers, Step(h)
      PROVE  LockInv'
  <2>1. CASE FindExisting(h) \/ Existing(h) \/ Polled(h)
    BY <2>1, PortalStep
  <2>2. CASE ExpireRows(h)
    BY <2>2, ExpireStep
  <2>3. CASE ExpireEvents(h) \/ ScanInFlight(h) \/ FoundInFlight(h)
    BY <2>3, ScanStep
  <2>4. CASE ClaimPending(h)
    BY <2>4, ClaimStep
  <2>5. CASE Attach(h) \/ Attached(h)
    BY <2>5, ChallengeStep
  <2>6. CASE Authorize(h)
    BY <2>6, AuthorizeStep
  <2>7. CASE Authorized(h)
    BY <2>7, AuthorizedStep
  <2>8. CASE Started(h) \/ Crypto(h) \/ Publish(h)
    BY <2>8, SignStep
  <2>9. CASE Reported(h)
    BY <2>9, ReportStep
  <2>10. CASE Append(h) \/ Inserted(h)
    BY <2>10, AppendStep
  <2>11. CASE Fail(h)
    BY <2>11, FailStep
  <2>12. CASE Denial(h) \/ Recorded(h)
    BY <2>12, RecorderStep
  <2>13. CASE Consume(h) \/ Replayed(h)
    BY <2>13, NonceStep
  <2> QED
    BY <1>1, <2>1, <2>2, <2>3, <2>4, <2>5, <2>6, <2>7, <2>8, <2>9, <2>10,
       <2>11, <2>12, <2>13 DEF Step
<1>2. ASSUME NEW r \in Requests, Pass(r)
      PROVE  LockInv'
  <2>1. /\ due' = due \cup {r}
        /\ UNCHANGED <<status, attached, job, held, wants>>
    BY <1>2 DEF Pass
  <2>2. TypeOK'
    BY <2>1, Typed DEF TypeOK
  <2> QED
    BY <2>1, <2>2 DEF LockInv, NoWaitAfterCrypto, HandlerInv
<1>3. CASE UNCHANGED vars
  BY <1>3 DEF vars, LockInv, TypeOK, NoWaitAfterCrypto, HandlerInv
<1> QED
  BY <1>1, <1>2, <1>3, BeginStep, BreakStep, AcquireStep DEF Next

\* Every handler holds and wants what its label says, and none waits for a
\* lock between the call of the HSM and the end of /sign.
THEOREM LockInvariant == Spec => []LockInv
<1>1. Init => LockInv
  BY InitLocks
<1>2. LockInv /\ [Next]_vars => LockInv'
  BY LockStep
<1> QED
  BY <1>1, <1>2, PTL DEF Spec

-----------------------------------------------------------------------------
(* Deadlocks                                                               *)

\* A transaction holds the chain or old nonces, holds nothing, wants only the
\* chain, wants only old nonces, or wants the row of a request and holds no
\* such row.
LEMMA Orders ==
  ASSUME LockInv, NEW t \in Tx
  PROVE  /\ Alone(held[t])
         /\ \/ {Update(Audit), Update(Purged)} \cap held[t] # {}
            \/ held[t] = {}
            \/ wants[t] \subseteq {Update(Audit)}
            \/ wants[t] \subseteq {Update(Purged)}
            \/ /\ wants[t] \subseteq {Update(Row(q)) : q \in Requests}
               /\ NoRowIn(held[t])
<1>1. PICK h \in Handlers : t = Main(h) \/ t = Recorder(h)
  BY TxNames
<1>2. CASE t = Main(h)
  <2> DEFINE j == job[h]
             H == held[t]
             W == wants[t]
  <2>1. JobOK(j) /\ MainOK(j, H, W) /\ j.at \in Labels
    BY <1>2, Said
  <2> HIDE DEF j, H, W
  <2>2. Alone(H)
    BY <2>1, AloneNames DEF MainOK
  <2>3. CASE j.at \in {"idle", "ended", "denied", "denial", "document",
                       "queue", "session", "row", "fail"}
    <3>1. H \subseteq {Update(Purged)} \/ W = {}
      BY <2>1, <2>3 DEF MainOK
    <3> QED
      BY <3>1, <2>2 DEF H, W
  <2>4. CASE j.at \in {"existing", "inflight", "attach", "authorize"}
    <3>1. SecondRow(j) \in Requests
      BY <2>1, <2>4 DEF JobOK, SecondRow, LabelsOf
    <3>2. \/ W = {}
          \/ W = {Update(Row(SecondRow(j)))} /\ Update(Audit) \in H
          \/ W = {Update(Row(SecondRow(j)))} /\ NoRowIn(H)
      BY <2>1, <2>4 DEF MainOK
    <3> QED
      BY <3>1, <3>2, <2>2 DEF H, W
  <2>5. CASE j.at \in {"expired", "scan", "pending", "append", "insert",
                       "crypto", "publish"}
    <3>1. Update(Audit) \in H \/ W \subseteq {Update(Audit)}
      BY <2>1, <2>5 DEF MainOK
    <3> QED
      BY <3>1, <2>2 DEF H, W
  <2>6. CASE j.at = "nonce"
    <3>1. W \subseteq {Update(Purged)}
      BY <2>1, <2>6 DEF MainOK
    <3> QED
      BY <3>1, <2>2 DEF H, W
  <2> QED
    BY <2>1, <2>3, <2>4, <2>5, <2>6 DEF Labels
<1>3. CASE t = Recorder(h)
  <2>1. RecorderOK(job[h], held[t], wants[t])
    BY <1>3, Said
  <2>2. Alone(held[t])
    BY <2>1, AloneNames DEF RecorderOK
  <2> QED
    BY <2>1, <2>2 DEF RecorderOK
<1> QED
  BY <1>1, <1>2, <1>3

\* What a transaction waits for is held.
LEMMA WaitNames ==
  ASSUME LockInv, NEW t \in Tx, NEW u \in Tx, Waits(t, u)
  PROVE  /\ t # u /\ wants[t] # {} /\ held[u] # {}
         /\ \A l \in {Audit, Purged} :
              wants[t] \subseteq {Update(l)} => Update(l) \in held[u]
         /\ wants[t] \subseteq {Update(Row(q)) : q \in Requests} =>
              ~ NoRowIn(held[u])
<1>1. PICK w \in wants[t], v \in held[u] : w[1] = v[1]
  BY DEF Waits, Excludes
<1>2. v = Update(w[1]) \/ v = Share(w[1])
  BY <1>1, Typed, WishNames
<1>3. \A l : wants[t] \subseteq {Update(l)} => w[1] = l
  BY <1>1, WishNames
<1>4. \A l \in {Audit, Purged} : Share(l) \notin held[u]
  BY Orders DEF Alone
<1>5. ASSUME wants[t] \subseteq {Update(Row(q)) : q \in Requests}
      PROVE  \E q \in Requests : w[1] = Row(q)
  BY <1>1, <1>5, WishNames
<1> QED
  BY <1>1, <1>2, <1>3, <1>4, <1>5 DEF Waits, NoRowIn

LEMMA ChainInDeadlock ==
  ASSUME LockInv, NEW C \in SUBSET Tx, Waiting(C)
  PROVE  \E t \in C : {Update(Audit), Update(Purged)} \cap held[t] # {}
<1> SUFFICES ASSUME \A t \in C :
                      /\ Update(Audit) \notin held[t]
                      /\ Update(Purged) \notin held[t]
             PROVE  FALSE
  OBVIOUS
<1>1. \A t \in C : \E u \in C : Waits(t, u)
  BY DEF Waiting
<1>2. \A t \in C : /\ ~ (wants[t] \subseteq {Update(Audit)})
                   /\ ~ (wants[t] \subseteq {Update(Purged)})
  BY <1>1, WaitNames
<1>3. PICK t \in C : TRUE
  BY DEF Waiting
<1>4. PICK u \in C : Waits(t, u)
  BY <1>1
<1>5. held[u] # {}
  BY <1>4, WaitNames
<1>6. wants[u] \subseteq {Update(Row(q)) : q \in Requests}
  BY <1>2, <1>5, Orders
<1>7. PICK v \in C : Waits(u, v)
  BY <1>1
<1>8. held[v] # {} /\ ~ NoRowIn(held[v])
  BY <1>6, <1>7, WaitNames
<1> QED
  BY <1>2, <1>8, Orders

\* Every ring of waiting transactions holds the lock of the audit chain or
\* that of old nonces.
THEOREM DeadlocksChain == Spec => []DeadlocksHoldChainOrNonces
<1>1. LockInv => DeadlocksHoldChainOrNonces
  BY ChainInDeadlock DEF DeadlocksHoldChainOrNonces, Ring, Asking
<1> QED
  BY <1>1, LockInvariant, PTL

\* Every ring of waits, those for a recorder included, has one in it that
\* PostgreSQL sees, or goes through a refusal that keeps old nonces while it
\* is recorded.
THEOREM DeadlocksSeen == Spec => []DeadlocksAreSeen
<1>1. ASSUME LockInv
      PROVE  DeadlocksAreSeen
  <2> DEFINE Awaiting == {p \in Tx \X Tx : Awaits(p[1], p[2])}
             Refusing(h) == job[h].at \in {"denied", "denial"}
             Away == {Main(h) : h \in {g \in Handlers : Refusing(g)}}
  <2> SUFFICES ASSUME NEW C \in SUBSET {p[1] : p \in Awaiting}, C # {},
                      \A t \in C : \E u \in C : <<t, u>> \in Awaiting,
                      \A h \in Handlers :
                        ~ (/\ Main(h) \in C
                           /\ job[h].at \in {"denied", "denial"}
                           /\ Update(Purged) \in held[Main(h)])
               PROVE  \E D \in SUBSET C : Waiting(D)
    BY DEF DeadlocksAreSeen
  <2>1. \A t \in C : \E u \in C : t \in Tx /\ u \in Tx /\ Awaits(t, u)
    OBVIOUS
  <2>2. \A u \in Away \cap C : held[u] = {}
    <3>1. \A h \in Handlers :
            Refusing(h) => held[Main(h)] \subseteq {Update(Purged)}
      BY <1>1, Said DEF MainOK
    <3> QED
      BY <3>1
  <2>3. \A h \in Handlers : /\ Refusing(h) => Main(h) \in Away
                           /\ Recorder(h) \notin Away
    BY TxNames
  <2> HIDE DEF Awaiting, Away
  <2>4. ASSUME NEW t \in C, NEW u \in C, t \in Tx, u \in Tx, Awaits(t, u)
        PROVE  u \notin Away /\ (t \notin Away => Waits(t, u))
    <3>1. CASE Waits(t, u)
      BY <1>1, <2>4, <3>1, <2>2, WaitNames
    <3>2. CASE \E h \in Handlers : /\ t = Main(h) /\ u = Recorder(h)
                                   /\ Refusing(h)
      BY <3>2, <2>3
    <3> QED
      BY <2>4, <3>1, <3>2 DEF Awaits
  <2>5. C \ Away # {}
    BY <2>1, <2>4
  <2>6. \A t \in C \ Away : \E u \in C \ Away : Waits(t, u)
    BY <2>1, <2>4
  <2> QED
    BY <2>5, <2>6 DEF Waiting
<1> QED
  BY <1>1, LockInvariant, PTL

-----------------------------------------------------------------------------
(* The failure of a refused request                                        *)

\* A transaction that holds nothing is in no ring.
LEMMA NoVictim ==
  ASSUME LockInv, NEW C \in SUBSET Asking, Ring(C),
         NEW h \in Handlers, job[h].at = "fail"
  PROVE  C \cap {Main(h), Recorder(h)} = {}
<1>1. \A t \in C : t \in Tx /\ wants[t] # {}
  BY DEF Asking
<1>2. Recorder(h) \notin C
  BY <1>1, NoRecorder DEF Ordinary
<1>3. ASSUME Main(h) \in C
      PROVE  FALSE
  <2> DEFINE D == C \ {Main(h)}
  <2>1. held[Main(h)] = {}
    BY <1>1, <1>3, Said DEF MainOK
  <2>2. \A t \in C : \E u \in D : Waits(t, u)
    <3>1. \A t \in C : \E u \in C : Waits(t, u)
      BY DEF Ring, Waiting
    <3> QED
      BY <3>1, <2>1, <1>1, WaitNames
  <2>3. Waiting(D)
    BY <2>2, <1>3 DEF Waiting
  <2>4. D = C
    BY <2>3 DEF Ring
  <2> QED
    BY <2>4, <1>3
<1> QED
  BY <1>2, <1>3

\* A step of one handler changes no other handler's job.
LEMMA OwnJob ==
  ASSUME NEW g \in Handlers, Begin(g) \/ Step(g) \/ Break(g)
  PROVE  \E j : job' = [job EXCEPT ![g] = j]
<1>1. ASSUME NEW j, NEW asked, Go(g, j, asked)
      PROVE  job' = [job EXCEPT ![g] = j]
  BY <1>1 DEF Go
<1>2. ASSUME NEW wrote, NEW label, NEW denial,
             Commit(g, wrote, label, denial)
      PROVE  \E j : job' = [job EXCEPT ![g] = j]
  BY <1>2 DEF Commit
<1>3. End(g) => \E j : job' = [job EXCEPT ![g] = j]
  BY <1>2 DEF End
<1>4. ASSUME NEW label, NEW mine, NEW denial, Deny(g, label, mine, denial)
      PROVE  \E j : job' = [job EXCEPT ![g] = j]
  BY <1>4 DEF Deny
<1>5. ASSUME NEW terminal, Refuse(g, terminal)
      PROVE  \E j : job' = [job EXCEPT ![g] = j]
  BY <1>4, <1>5 DEF Refuse
<1>6. ASSUME NEW rows, NEW s, Event(g, rows, s)
      PROVE  \E j : job' = [job EXCEPT ![g] = j]
  BY <1>1, <1>6 DEF Event
<1>7. ASSUME NEW S, NEW j, NEW asked, Take(g, S, j, asked)
      PROVE  job' = [job EXCEPT ![g] = j]
  BY <1>7 DEF Take
<1>8. CASE Begin(g)
  BY <1>1, <1>8 DEF Begin, Claim, Create, Poll, View, Challenge, Report,
                    StartNonce, StartSession, Start
<1>9. CASE FindExisting(g) \/ Existing(g) \/ Polled(g)
  BY <1>1, <1>3, <1>6, <1>9 DEF FindExisting, Existing, Polled
<1>10. CASE \/ ExpireRows(g) \/ ExpireEvents(g) \/ ScanInFlight(g)
            \/ FoundInFlight(g) \/ ClaimPending(g)
  BY <1>1, <1>3, <1>7, <1>10
     DEF ExpireRows, ExpireEvents, ScanInFlight, FoundInFlight, ClaimPending
<1>11. CASE Attach(g) \/ Attached(g) \/ Authorize(g) \/ Authorized(g)
  BY <1>1, <1>5, <1>6, <1>11 DEF Attach, Attached, Authorize, Authorized
<1>12. CASE Started(g) \/ Crypto(g) \/ Publish(g) \/ Reported(g)
  BY <1>1, <1>3, <1>5, <1>6, <1>12 DEF Started, Crypto, Publish, Reported
<1>13. CASE Append(g) \/ Inserted(g) \/ Fail(g) \/ Denial(g) \/ Recorded(g)
  BY <1>1, <1>2, <1>3, <1>13 DEF Append, Inserted, Fail, Denial, Recorded
<1>14. CASE Consume(g) \/ Replayed(g)
  BY <1>1, <1>5, <1>6, <1>14 DEF Consume, Replayed, DenyInPlace
<1>15. CASE Break(g)
  BY <1>4, <1>15 DEF Break
<1> QED
  BY <1>8, <1>9, <1>10, <1>11, <1>12, <1>13, <1>14, <1>15 DEF Step

\* What the failure of a request leaves it in.
LEMMA Stored ==
  ASSUME LockInv, NEW h \in Handlers, Fail(h)
  PROVE  status'[job[h].req] \notin {"AUTHENTICATING", "AUTHENTICATED"}
<1> DEFINE r == job[h].req
           rows == IF status[r] \in {"AUTHENTICATING", "AUTHENTICATED"}
                     THEN {r} ELSE {}
           wrote == Wrote(h, rows, "FAILED")
<1>1. /\ job[h].at = "fail"
      /\ status' = [q \in Requests |-> IF wrote[q] = None THEN status[q]
                                       ELSE wrote[q]]
  BY DEF Fail, Commit
<1>2. r \in Requests /\ job[h].wrote = NoWrites
  BY <1>1, Said DEF JobOK, LabelsOf
<1>3. wrote[r] = IF r \in rows THEN "FAILED" ELSE None
  BY <1>2, JobType DEF Wrote
<1>4. None # "FAILED"
  BY DEF Statuses
<1> HIDE DEF wrote
<1> QED
  BY <1>1, <1>2, <1>3, <1>4

\* A refused request that has to be failed is failed: no deadlock takes the
\* transaction that stores it.
THEOREM FailureStored == Spec => FailuresAreStored
<1>1. ASSUME LockInv, [Next]_vars, NEW h \in Handlers,
             job[h].at = "fail", job'[h].at = "denied"
      PROVE  status'[job[h].req] \notin {"AUTHENTICATING", "AUTHENTICATED"}
  <2>1. ASSUME NEW g \in Handlers \ {h}, Begin(g) \/ Step(g) \/ Break(g)
        PROVE  FALSE
    <3>1. PICK j : job' = [job EXCEPT ![g] = j]
      BY <2>1, OwnJob
    <3>2. job'[h] = job[h]
      BY <1>1, <2>1, <3>1, Typed
    <3> QED
      BY <3>2, <1>1
  <2>2. CASE Begin(h)
    <3>1. job[h] = NoJob
      BY <2>2 DEF Begin, Claim, Create, Poll, View, Challenge, Report,
                  StartNonce, StartSession, Start
    <3> QED
      BY <3>1, <1>1 DEF NoJob
  <2>3. CASE Step(h)
    <3>1. Fail(h)
      BY <1>1, <2>3 DEF Step, FindExisting, Existing, Polled, ExpireRows,
           ExpireEvents, ScanInFlight, FoundInFlight, ClaimPending, Attach,
           Attached, Authorize, Authorized, Consume, Replayed, Started,
           Crypto, Publish, Reported, Append, Inserted, Denial, Recorded, Has
    <3> QED
      BY <1>1, <3>1, Stored
  <2>4. CASE Break(h)
    BY <1>1, <2>4, NoVictim DEF Break
  <2>5. ASSUME job' = job
        PROVE  FALSE
    BY <1>1, <2>5
  <2>6. (\E t \in Tx : Acquire(t)) \/ (\E r \in Requests : Pass(r))
          \/ UNCHANGED vars => job' = job
    BY DEF Acquire, Pass, vars
  <2> QED
    BY <1>1, <2>1, <2>2, <2>3, <2>4, <2>5, <2>6 DEF Next
<1>2. LockInv /\ [Next]_vars =>
        [\A h \in Handlers :
           job[h].at = "fail" /\ job'[h].at = "denied"
             => status'[job[h].req] \notin {"AUTHENTICATING",
                                            "AUTHENTICATED"}]_vars
  BY <1>1
<1> QED
  BY <1>2, LockInvariant, PTL DEF FailuresAreStored, Spec
==============================================================================
