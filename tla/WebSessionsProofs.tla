-------------------------- MODULE WebSessionsProofs --------------------------
(***************************************************************************)
(* Proofs about WebSessions, for any number of accounts, browsers,         *)
(* sessions, documents and threads, and any time to live: what a consent   *)
(* and an upload need, and when a session is over.                         *)
(***************************************************************************)
EXTENDS WebSessions, TLAPS

USE SessionsAssumption

Issued(s) == issued[s] # NoSession

\* What is sent, or is on its way, or broke off.
Sent == opened \cup broken \cup Undelivered

\* What a running call knows of the session it found or made.
Good(j) ==
  /\ j.op \in {"login", "created", "logout"} =>
       j.browser \in Browsers /\ j.account \in Accounts
  /\ j.op = "login" => j.password \in 1 .. MaxPasswords
  /\ j.op = "revoke" => j.account \in Users
  /\ j.op \in {"created", "view", "send", "request", "upload"} =>
       j.session \in Sessions /\ Issued(j.session)
  /\ j.op \in {"view", "send", "request", "upload"} => j.document \in Documents
  /\ j.op = "created" => issued[j.session].account = j.account
  /\ j.op \in {"request", "upload"} =>
       j.page = j.session /\ j.time < issued[j.session].expires
  /\ j.op = "request" => /\ j.document \in uploaded
                         /\ j.document \in issued[j.session].viewed
                         /\ issued[j.session].account = Owner[j.document]
  /\ j.op = "upload" => issued[j.session].account = Administrator

JobsInv == \A w \in Workers : Good(job[w])

\* A cookie names a session of its interface.
CookiesInv == \A b \in Browsers, r \in Realms :
  cookie[b][r] # None => /\ Issued(cookie[b][r])
                         /\ issued[cookie[b][r]].account = Administrator
                              <=> r = "ui"

ViewsInv == \A s \in Sessions : Issued(s) =>
  \A d \in issued[s].viewed : <<s, d>> \in Sent

ActsInv ==
  /\ \A c \in consents : /\ c.page = c.session /\ Issued(c.session)
                         /\ c.document \in issued[c.session].viewed
                         /\ issued[c.session].account = Owner[c.document]
                         /\ c.time < issued[c.session].expires
  /\ \A c \in uploads : /\ c.page = c.session /\ Issued(c.session)
                        /\ issued[c.session].account = Administrator
                        /\ c.time < issued[c.session].expires

SessionInv == TypeOK /\ JobsInv /\ CookiesInv /\ ViewsInv /\ ActsInv

-----------------------------------------------------------------------------
(* Types                                                                   *)

LEMMA IdleIsGood == Idle \in Job /\ Good(Idle)
BY DEF Idle, Job, Ops, Good

LEMMA AnObject ==
  ASSUME TypeOK, NEW s \in Sessions, Issued(s)
  PROVE  issued[s] \in SessionObject
BY DEF TypeOK, Issued

LEMMA TheNew ==
  ASSUME TypeOK, NEW a \in Accounts, NEW p \in 1 .. MaxPasswords
  PROVE  /\ NewSession(a, p) \in SessionObject /\ NewSession(a, p) # NoSession
         /\ PasswordOf(a) \in 1 .. MaxPasswords
<1>1. now \in Nat /\ Ttl \in Nat /\ now + Ttl \in Nat
  BY DEF TypeOK
<1>2. NewSession(a, p) \in SessionObject
  BY <1>1 DEF NewSession, SessionObject
<1>3. NewSession(a, p) # NoSession
  BY DEF NewSession, NoSession
<1>4. PasswordOf(a) \in 1 .. MaxPasswords
  BY DEF PasswordOf, TypeOK, Users
<1> QED
  BY <1>2, <1>3, <1>4

\* A call that starts.
LEMMA Starting ==
  ASSUME NEW w \in Workers, NEW j \in Job, job \in [Workers -> Job],
         Start(w, j)
  PROVE  /\ job' \in [Workers -> Job] /\ job[w] = Idle /\ job'[w] = j
         /\ \A v \in Workers \ {w} : job'[v] = job[v]
BY DEF Start

LEMMA Finishing ==
  ASSUME NEW w \in Workers, job \in [Workers -> Job], Finish(w)
  PROVE  /\ job' \in [Workers -> Job] /\ job'[w] = Idle
         /\ \A v \in Workers \ {w} : job'[v] = job[v]
BY IdleIsGood DEF Finish

LEMMA TypeStep == TypeOK /\ JobsInv /\ [Next]_vars => TypeOK'
<1> SUFFICES ASSUME TypeOK, JobsInv, [Next]_vars PROVE TypeOK'
  OBVIOUS
<1> USE DEF rows, memory, browsers, history
<1>t. /\ job \in [Workers -> Job] /\ now \in Nat
      /\ Unexpired \subseteq store /\ store \subseteq Sessions
      /\ issued \in [Sessions -> SessionObject \cup {NoSession}]
      /\ cookie \in [Browsers -> [Realms -> Sessions \cup {None}]]
      /\ \A a : RealmOf(a) \in Realms
  BY DEF TypeOK, Unexpired, RealmOf, Realms
<1>z. 0 \in 0 .. MaxPasswords /\ 0 \in Nat /\ Users \subseteq Accounts
  BY DEF Users
<1>e. \A w \in Workers : Finish(w) => job' \in [Workers -> Job]
  BY <1>t, Finishing
<1>b. ASSUME NEW w \in Workers, NEW j \in Job, Start(w, j)
      PROVE  job' \in [Workers -> Job]
  BY <1>b, <1>t, Starting
<1>1. ASSUME NEW w \in Workers, NEW b \in Browsers, NEW a \in Accounts,
             Login(w, b, a)
      PROVE  TypeOK'
  <2>1. PICK j : /\ j = [Idle EXCEPT !.op = "login", !.browser = b,
                                     !.account = a,
                                     !.session = cookie[b][RealmOf(a)],
                                     !.password = PasswordOf(a)]
                 /\ Start(w, j)
    BY <1>1 DEF Login
  <2>2. cookie[b][RealmOf(a)] \in Sessions \cup {None}
    BY <1>t
  <2>3. PasswordOf(a) \in 0 .. MaxPasswords
    BY DEF PasswordOf, TypeOK, Users
  <2>4. j \in Job
    BY <2>1, <2>2, <2>3 DEF Idle, Job, Ops
  <2> QED
    BY <1>1, <1>b, <2>1, <2>4 DEF Login, TypeOK
<1>2. ASSUME NEW w \in Workers, NEW s \in Sessions, CreateSession(w, s)
      PROVE  TypeOK'
  <2>1. PICK j : j = job[w]
    OBVIOUS
  <2>2. j.op = "login" /\ j \in Job /\ Good(j)
    BY <1>2, <1>t, <2>1 DEF CreateSession, JobsInv
  <2>3. j.account \in Accounts /\ j.password \in 1 .. MaxPasswords
    BY <2>2 DEF Good
  <2>4. PICK o : o = NewSession(j.account, j.password)
    OBVIOUS
  <2>5. o \in SessionObject /\ o # NoSession
    BY <2>3, <2>4, TheNew
  <2>6. /\ issued' = [issued EXCEPT ![s] = o]
        /\ store' = (Unexpired \ {j.session}) \cup {s}
    BY <1>2, <2>1, <2>4 DEF CreateSession
  <2>7. /\ issued' \in [Sessions -> SessionObject \cup {NoSession}]
        /\ \A t \in store' : issued'[t] \in SessionObject
        /\ store' \subseteq Sessions
    BY <1>t, <2>5, <2>6 DEF TypeOK
  <2>8. [j EXCEPT !.op = "created", !.session = s] \in Job
    BY <2>2 DEF Job, Ops
  <2>9. job' \in [Workers -> Job]
    BY <1>2, <1>t, <2>1, <2>8 DEF CreateSession
  <2> QED
    BY <1>2, <2>7, <2>9 DEF CreateSession, TypeOK
<1>3. ASSUME NEW w \in Workers, LoggedIn(w) PROVE TypeOK'
  <2>1. PICK j, r : j = job[w] /\ r = RealmOf(j.account)
    OBVIOUS
  <2>2. j.session \in Sessions /\ r \in Realms
    BY <1>3, <1>t, <2>1 DEF LoggedIn, JobsInv, Good
  <2>3. cookie' = [cookie EXCEPT ![j.browser][r] = j.session]
    BY <1>3, <2>1 DEF LoggedIn
  <2>4. cookie' \in [Browsers -> [Realms -> Sessions \cup {None}]]
    BY <1>t, <2>2, <2>3
  <2> QED
    BY <1>3, <1>e, <2>4 DEF LoggedIn, TypeOK
<1>4. ASSUME NEW w \in Workers, NEW b \in Browsers, NEW r \in Realms,
             Logout(w, b, r)
      PROVE  TypeOK'
  <2>1. PICK s \in Sessions :
          /\ Found(s) /\ store' = Unexpired \ {s}
          /\ Start(w, [Idle EXCEPT !.op = "logout", !.browser = b,
                           !.account = issued[s].account, !.session = s])
          /\ UNCHANGED <<now, rows, issued, browsers, history>>
    BY <1>4 DEF Logout
  <2>2. issued[s].account \in Accounts
    BY <2>1 DEF Found, Unexpired, TypeOK, SessionObject
  <2>3. [Idle EXCEPT !.op = "logout", !.browser = b,
                     !.account = issued[s].account, !.session = s] \in Job
    BY <1>z, <2>2 DEF Idle, Job, Ops
  <2> QED
    BY <1>b, <1>t, <2>1, <2>3 DEF TypeOK
<1>5. ASSUME NEW w \in Workers, LoggedOut(w) PROVE TypeOK'
  <2>1. PICK j, r : j = job[w] /\ r = RealmOf(j.account)
    OBVIOUS
  <2>2. /\ cookie' = [cookie EXCEPT ![j.browser][r] = None]
        /\ page' = [page EXCEPT ![j.browser][r] = None]
    BY <1>5, <2>1 DEF LoggedOut
  <2>3. /\ cookie' \in [Browsers -> [Realms -> Sessions \cup {None}]]
        /\ page' \in [Browsers -> [Realms -> Sessions \cup {None}]]
    BY <1>t, <2>1, <2>2 DEF TypeOK
  <2> QED
    BY <1>5, <1>e, <2>3 DEF LoggedOut, TypeOK
<1>6. ASSUME NEW b \in Browsers, NEW r \in Realms, LoadPage(b, r)
      PROVE  TypeOK'
  <2>1. PICK v : v = IF Found(cookie[b][r]) THEN cookie[b][r] ELSE None
    OBVIOUS
  <2>2. v \in Sessions \cup {None} /\ page' = [page EXCEPT ![b][r] = v]
    BY <1>6, <1>t, <2>1 DEF LoadPage
  <2>3. page' \in [Browsers -> [Realms -> Sessions \cup {None}]]
    BY <2>2 DEF TypeOK
  <2>4. store' \subseteq store
    BY <1>6, <1>t DEF LoadPage
  <2> QED
    BY <1>6, <2>3, <2>4 DEF LoadPage, TypeOK
<1>7. ASSUME NEW w \in Workers, NEW u \in Users, SetPassword(w, u)
      PROVE  TypeOK'
  <2>1. [Idle EXCEPT !.op = "revoke", !.account = u] \in Job
    BY <1>z DEF Idle, Job, Ops
  <2>2. password' \in [Users -> 1 .. MaxPasswords]
    BY <1>7 DEF SetPassword, TypeOK
  <2> QED
    BY <1>7, <1>b, <2>1, <2>2 DEF SetPassword, TypeOK
<1>8. ASSUME NEW w \in Workers, EndSessions(w) PROVE TypeOK'
  BY <1>8, <1>e DEF EndSessions, TypeOK
<1>9. ASSUME NEW w \in Workers, PasswordInDoubt(w) PROVE TypeOK'
  BY <1>9, <1>e DEF PasswordInDoubt, TypeOK, JobsInv, Good
<1>10. ASSUME NEW w \in Workers, NEW b \in Browsers, NEW d \in Documents,
              ViewDocument(w, b, d)
       PROVE  TypeOK'
  <2>1. PICK s \in Sessions :
          /\ store' = Unexpired
          /\ Start(w, [Idle EXCEPT !.op = "view", !.session = s,
                                   !.document = d])
          /\ UNCHANGED <<now, rows, issued, browsers, history>>
    BY <1>10 DEF ViewDocument, Takes
  <2>2. [Idle EXCEPT !.op = "view", !.session = s, !.document = d] \in Job
    BY <1>z DEF Idle, Job, Ops
  <2> QED
    BY <1>b, <1>t, <2>1, <2>2 DEF TypeOK
<1>11. ASSUME NEW w \in Workers, MarkViewed(w) PROVE TypeOK'
  <2>1. PICK j : j = job[w]
    OBVIOUS
  <2>2. j \in Job /\ j.op = "view" /\ Good(j)
    BY <1>11, <1>t, <2>1 DEF MarkViewed, JobsInv
  <2>3. /\ j.session \in Sessions /\ Issued(j.session)
        /\ j.document \in Documents
    BY <2>2 DEF Good
  <2>4. issued[j.session] \in SessionObject
    BY <2>3, AnObject
  <2>5. PICK o : o = [issued[j.session] EXCEPT !.viewed = @ \cup {j.document}]
    OBVIOUS
  <2>6. o \in SessionObject
    BY <2>3, <2>4, <2>5 DEF SessionObject
  <2>7. issued' = [issued EXCEPT ![j.session] = o]
    BY <1>11, <2>1, <2>5 DEF MarkViewed
  <2>8. /\ issued' \in [Sessions -> SessionObject \cup {NoSession}]
        /\ \A t \in store : issued'[t] \in SessionObject
    BY <1>t, <2>6, <2>7 DEF TypeOK
  <2>9. [j EXCEPT !.op = "send"] \in Job
    BY <2>2 DEF Job, Ops
  <2>10. job' \in [Workers -> Job]
    BY <1>11, <1>t, <2>1, <2>9 DEF MarkViewed
  <2> QED
    BY <1>11, <2>8, <2>10 DEF MarkViewed, TypeOK
<1>12. ASSUME NEW w \in Workers, SendDocument(w) PROVE TypeOK'
  <2>1. <<job[w].session, job[w].document>> \in Sessions \X Documents
    BY <1>12 DEF SendDocument, JobsInv, Good
  <2> QED
    BY <1>12, <1>e, <2>1 DEF SendDocument, TypeOK
<1>13. ASSUME NEW w \in Workers, NEW b \in Browsers, NEW d \in Documents,
              RequestSignature(w, b, d)
       PROVE  TypeOK'
  <2>1. PICK s \in Sessions :
          /\ store' = Unexpired
          /\ Start(w, [Idle EXCEPT !.op = "request", !.session = s,
                                   !.page = page[b]["user"], !.document = d,
                                   !.time = now])
          /\ UNCHANGED <<now, rows, issued, browsers, history>>
    BY <1>13 DEF RequestSignature, Takes
  <2>2. page[b]["user"] \in Sessions \cup {None}
    BY DEF TypeOK, Realms
  <2>3. [Idle EXCEPT !.op = "request", !.session = s,
                     !.page = page[b]["user"], !.document = d,
                     !.time = now] \in Job
    BY <1>t, <1>z, <2>2 DEF Idle, Job, Ops
  <2> QED
    BY <1>b, <1>t, <2>1, <2>3 DEF TypeOK
<1>14. ASSUME NEW w \in Workers, NEW b \in Browsers, NEW d \in Documents,
              Upload(w, b, d)
       PROVE  TypeOK'
  <2>1. PICK s \in Sessions :
          /\ store' = Unexpired
          /\ Start(w, [Idle EXCEPT !.op = "upload", !.session = s,
                                   !.page = page[b]["ui"], !.document = d,
                                   !.time = now])
          /\ UNCHANGED <<now, rows, issued, browsers, history>>
    BY <1>14 DEF Upload, Takes
  <2>2. page[b]["ui"] \in Sessions \cup {None}
    BY DEF TypeOK, Realms
  <2>3. [Idle EXCEPT !.op = "upload", !.session = s,
                     !.page = page[b]["ui"], !.document = d,
                     !.time = now] \in Job
    BY <1>t, <1>z, <2>2 DEF Idle, Job, Ops
  <2> QED
    BY <1>b, <1>t, <2>1, <2>3 DEF TypeOK
<1>15. ASSUME NEW w \in Workers, job[w].op \in {"request", "upload"}
       PROVE  ActOf(job[w]) \in Act
  <2>1. PICK j : j = job[w]
    OBVIOUS
  <2>2. j \in Job /\ Good(j) /\ j.op \in {"request", "upload"}
    BY <1>15, <1>t, <2>1 DEF JobsInv
  <2>3. /\ j.session \in Sessions /\ j.page \in Sessions
        /\ j.document \in Documents /\ j.time \in Nat
    BY <2>2 DEF Good, Job
  <2> QED
    BY <2>1, <2>3 DEF ActOf, Act
<1>16. ASSUME NEW w \in Workers, RecordConsent(w) PROVE TypeOK'
  <2>1. job[w].document \in uploaded /\ ActOf(job[w]) \in Act
    BY <1>15, <1>16 DEF RecordConsent, JobsInv, Good
  <2> QED
    BY <1>16, <1>e, <2>1 DEF RecordConsent, TypeOK
<1>17. ASSUME NEW w \in Workers, Assign(w) PROVE TypeOK'
  <2>1. job[w].document \in Documents /\ ActOf(job[w]) \in Act
    BY <1>15, <1>17 DEF Assign, JobsInv, Good
  <2> QED
    BY <1>17, <1>e, <2>1 DEF Assign, TypeOK
<1>18. ASSUME NEW w \in Workers, Fails(w) PROVE TypeOK'
  BY <1>18, <1>e DEF Fails, TypeOK
<1>19. ASSUME NEW d \in Documents, RequestEnds(d) PROVE TypeOK'
  BY <1>19 DEF RequestEnds, TypeOK
<1>20. CASE Restart
  <2>1. Undelivered \subseteq Sessions \X Documents
    BY DEF Undelivered, JobsInv, Good
  <2> QED
    BY <1>20, <2>1, IdleIsGood DEF Restart, TypeOK
<1>21. CASE Tick
  BY <1>21 DEF Tick, TypeOK
<1>22. CASE UNCHANGED vars
  BY <1>22 DEF vars, TypeOK
<1> QED
  BY <1>1, <1>2, <1>3, <1>4, <1>5, <1>6, <1>7, <1>8, <1>9, <1>10, <1>11,
     <1>12, <1>13, <1>14, <1>16, <1>17, <1>18, <1>19, <1>20, <1>21, <1>22
     DEF Next, Step

-----------------------------------------------------------------------------
(* What does not change                                                    *)

\* Which actions write what.
LEMMA Writers ==
  ASSUME [Next]_vars
  PROVE  /\ \/ issued' = issued
            \/ \E w \in Workers :
                 MarkViewed(w) \/ \E t \in Sessions : CreateSession(w, t)
         /\ \/ uploaded' = uploaded
            \/ \E w \in Workers : Assign(w)
         /\ \/ cookie' = cookie
            \/ \E w \in Workers : LoggedIn(w) \/ LoggedOut(w)
         /\ \/ consents' = consents
            \/ \E w \in Workers : RecordConsent(w)
         /\ \/ uploads' = uploads
            \/ \E w \in Workers : Assign(w)
         /\ \/ password' = password
            \/ \E w \in Workers : \E u \in Users : SetPassword(w, u)
         /\ \/ cut' = cut
            \/ \E w \in Workers : EndSessions(w) \/ PasswordInDoubt(w)
<1> USE DEF rows, memory, browsers, history
<1>1. ASSUME NEW w \in Workers, Step(w)
      PROVE  \/ issued' = issued
             \/ MarkViewed(w) \/ \E t \in Sessions : CreateSession(w, t)
  BY <1>1 DEF Step, Login, LoggedIn, Logout, LoggedOut, SetPassword,
     EndSessions, PasswordInDoubt, ViewDocument, SendDocument,
     RequestSignature, RecordConsent, Upload, Assign, Fails
<1>2. ASSUME NEW w \in Workers, Step(w)
      PROVE  \/ uploaded' = uploaded
             \/ Assign(w)
  BY <1>2 DEF Step, Login, CreateSession, LoggedIn, Logout, LoggedOut,
     SetPassword, EndSessions, PasswordInDoubt, ViewDocument, MarkViewed,
     SendDocument, RequestSignature, RecordConsent, Upload, Fails
<1>3. ASSUME NEW w \in Workers, Step(w)
      PROVE  \/ cookie' = cookie
             \/ LoggedIn(w) \/ LoggedOut(w)
  BY <1>3 DEF Step, Login, CreateSession, Logout, SetPassword, EndSessions,
     PasswordInDoubt, ViewDocument, MarkViewed, SendDocument,
     RequestSignature, RecordConsent, Upload, Assign, Fails
<1>4. ASSUME NEW w \in Workers, Step(w)
      PROVE  \/ consents' = consents
             \/ RecordConsent(w)
  BY <1>4 DEF Step, Login, CreateSession, LoggedIn, Logout, LoggedOut,
     SetPassword, EndSessions, PasswordInDoubt, ViewDocument, MarkViewed,
     SendDocument, RequestSignature, Upload, Assign, Fails
<1>5. ASSUME NEW w \in Workers, Step(w)
      PROVE  \/ uploads' = uploads
             \/ Assign(w)
  BY <1>5 DEF Step, Login, CreateSession, LoggedIn, Logout, LoggedOut,
     SetPassword, EndSessions, PasswordInDoubt, ViewDocument, MarkViewed,
     SendDocument, RequestSignature, RecordConsent, Upload, Fails
<1>6. ASSUME NEW w \in Workers, Step(w)
      PROVE  \/ password' = password
             \/ \E u \in Users : SetPassword(w, u)
  BY <1>6 DEF Step, Login, CreateSession, LoggedIn, Logout, LoggedOut,
     EndSessions, PasswordInDoubt, ViewDocument, MarkViewed, SendDocument,
     RequestSignature, RecordConsent, Upload, Assign, Fails
<1>7. ASSUME NEW w \in Workers, Step(w)
      PROVE  \/ cut' = cut
             \/ EndSessions(w) \/ PasswordInDoubt(w)
  BY <1>7 DEF Step, Login, CreateSession, LoggedIn, Logout, LoggedOut,
     SetPassword, ViewDocument, MarkViewed, SendDocument, RequestSignature,
     RecordConsent, Upload, Assign, Fails
<1>8. CASE ~ \E w \in Workers : Step(w)
  BY <1>8 DEF Next, vars, LoadPage, RequestEnds, Restart, Tick
<1> QED
  BY <1>1, <1>2, <1>3, <1>4, <1>5, <1>6, <1>7, <1>8

\* A session that was begun keeps its account, its deadline and the password
\* it was opened with; its marks only grow.
Kept(s) ==
  /\ issued'[s] # NoSession
  /\ issued'[s].account = issued[s].account
  /\ issued'[s].expires = issued[s].expires
  /\ issued'[s].password = issued[s].password
  /\ issued'[s].raced = issued[s].raced
  /\ issued[s].viewed \subseteq issued'[s].viewed

LEMMA SessionsKept ==
  ASSUME TypeOK, JobsInv, [Next]_vars, NEW s \in Sessions, Issued(s)
  PROVE  Kept(s)
<1> USE DEF rows, memory, browsers, history
<1>0. /\ issued[s] \in SessionObject /\ issued[s] # NoSession
      /\ issued \in [Sessions -> SessionObject \cup {NoSession}]
  BY DEF TypeOK, Issued
<1>1. CASE issued' = issued
  BY <1>0, <1>1 DEF Kept
<1>2. ASSUME NEW w \in Workers, NEW t \in Sessions, CreateSession(w, t)
      PROVE  Kept(s)
  <2>1. issued'[s] = issued[s]
    BY <1>0, <1>2 DEF CreateSession
  <2> QED
    BY <1>0, <2>1 DEF Kept
<1>3. ASSUME NEW w \in Workers, MarkViewed(w) PROVE Kept(s)
  <2>1. PICK j : j = job[w]
    OBVIOUS
  <2>2. j.session \in Sessions /\ Issued(j.session)
    BY <1>3, <2>1 DEF MarkViewed, JobsInv, Good
  <2>3. PICK o, n : /\ o = issued[j.session]
                    /\ n = [o EXCEPT !.viewed = @ \cup {j.document}]
    OBVIOUS
  <2>4. o \in SessionObject
    BY <2>2, <2>3, AnObject
  <2>5. /\ n # NoSession /\ n.account = o.account /\ n.expires = o.expires
        /\ n.password = o.password /\ n.raced = o.raced
        /\ o.viewed \subseteq n.viewed
    BY <2>3, <2>4 DEF SessionObject, NoSession
  <2>6. issued' = [issued EXCEPT ![j.session] = n]
    BY <1>3, <2>1, <2>3 DEF MarkViewed
  <2>7. CASE s = j.session
    BY <1>0, <2>3, <2>5, <2>6, <2>7 DEF Kept
  <2>8. CASE s # j.session
    BY <1>0, <2>6, <2>8 DEF Kept
  <2> QED
    BY <2>7, <2>8
<1>4. \/ issued' = issued
      \/ \E w \in Workers : MarkViewed(w)
                            \/ \E t \in Sessions : CreateSession(w, t)
  BY Writers
<1> QED
  BY <1>1, <1>2, <1>3, <1>4

\* A call goes on, ends, or begins.
LEMMA CallsMove ==
  ASSUME TypeOK, JobsInv, [Next]_vars, NEW w \in Workers
  PROVE  \/ job'[w] = job[w]
         \/ job'[w] = Idle /\ job[w].op # "send"
         \/ SendDocument(w)
         \/ Restart
         \/ job[w] = Idle
         \/ \E s \in Sessions : CreateSession(w, s)
         \/ MarkViewed(w)
<1> USE DEF rows, memory, browsers, history
<1>0. job \in [Workers -> Job]
  BY DEF TypeOK
<1>1. ASSUME NEW v \in Workers, NEW j, Start(v, j), v # w
      PROVE  job'[w] = job[w]
  BY <1>0, <1>1 DEF Start
<1>2. ASSUME NEW v \in Workers, Finish(v)
      PROVE  job'[w] = IF v = w THEN Idle ELSE job[w]
  BY <1>0, <1>2 DEF Finish
<1>3. ASSUME NEW v \in Workers, Step(v), v = w
      PROVE  \/ job'[w] = Idle /\ job[w].op # "send"
             \/ SendDocument(w) \/ job[w] = Idle
             \/ \E s \in Sessions : CreateSession(w, s)
             \/ MarkViewed(w)
  BY <1>0, <1>2, <1>3 DEF Step, Login, LoggedIn, Logout, LoggedOut,
     SetPassword, EndSessions, PasswordInDoubt, ViewDocument, Start,
     RequestSignature, RecordConsent, Upload, Assign, Fails
<1>4. ASSUME NEW v \in Workers, Step(v), v # w PROVE job'[w] = job[w]
  BY <1>0, <1>1, <1>2, <1>4 DEF Step, Login, CreateSession, LoggedIn, Logout,
     LoggedOut, SetPassword, EndSessions, PasswordInDoubt, ViewDocument,
     MarkViewed, SendDocument, RequestSignature, RecordConsent, Upload,
     Assign, Fails
<1>5. CASE UNCHANGED job
  BY <1>5
<1>6. \/ \E v \in Workers : Step(v)
      \/ Restart
      \/ UNCHANGED job
  BY DEF Next, vars, LoadPage, RequestEnds, Tick
<1> QED
  BY <1>3, <1>4, <1>5, <1>6

LEMMA SentKept ==
  ASSUME TypeOK, JobsInv, [Next]_vars
  PROVE  Sent \subseteq Sent'
<1> USE DEF rows, memory, browsers, history
<1>1. opened \subseteq opened' /\ broken \subseteq broken'
  <2>1. ASSUME NEW w \in Workers, SendDocument(w)
        PROVE  opened \subseteq opened' /\ broken \subseteq broken'
    BY <2>1 DEF SendDocument
  <2>2. ASSUME NEW w \in Workers, Step(w)
        PROVE  SendDocument(w) \/ (opened' = opened /\ broken' = broken)
    BY <2>2 DEF Step, Login, CreateSession, LoggedIn, Logout, LoggedOut,
       SetPassword, EndSessions, PasswordInDoubt, ViewDocument, MarkViewed,
       RequestSignature, RecordConsent, Upload, Assign, Fails
  <2>3. CASE ~ \E w \in Workers : Step(w)
    BY <2>3 DEF Next, vars, LoadPage, RequestEnds, Restart, Tick
  <2> QED
    BY <2>1, <2>2, <2>3
<1>2. ASSUME NEW w \in Workers, job[w].op = "send"
      PROVE  <<job[w].session, job[w].document>> \in Sent'
  <2>1. CASE job'[w] = job[w]
    BY <1>2, <2>1 DEF Sent, Undelivered
  <2>2. CASE SendDocument(w)
    BY <2>2 DEF SendDocument, Sent
  <2>3. CASE Restart
    BY <1>2, <2>3 DEF Restart, Sent, Undelivered
  <2>4. CASE job[w] = Idle
    BY <1>2, <2>4 DEF Idle
  <2> QED
    BY <1>2, <2>1, <2>2, <2>3, <2>4, CallsMove DEF CreateSession, MarkViewed
<1> QED
  BY <1>1, <1>2 DEF Sent, Undelivered

-----------------------------------------------------------------------------
(* The invariant                                                           *)

\* What a call knew of its session stays true while it runs.
LEMMA GoodKept ==
  ASSUME TypeOK, JobsInv, [Next]_vars, NEW w \in Workers, NEW j, j = job[w]
  PROVE  Good(j)'
<1>1. Good(j) /\ j \in Job
  BY DEF JobsInv, TypeOK
<1>2. uploaded \subseteq uploaded'
  BY Writers DEF Assign
<1>3. ASSUME j.op \in {"created", "view", "send", "request", "upload"}
      PROVE  Kept(j.session)
  BY <1>1, <1>3, SessionsKept DEF Good
<1>4. j.op \in {"created", "view", "send", "request", "upload"} =>
        j.session \in Sessions /\ Issued(j.session)'
  BY <1>1, <1>3 DEF Good, Kept, Issued
<1>5. j.op = "created" => issued'[j.session].account = j.account
  BY <1>1, <1>3 DEF Good, Kept
<1>6. j.op \in {"request", "upload"} =>
        j.page = j.session /\ j.time < issued'[j.session].expires
  BY <1>1, <1>3 DEF Good, Kept
<1>7. j.op = "request" => /\ j.document \in uploaded'
                          /\ j.document \in issued'[j.session].viewed
                          /\ issued'[j.session].account = Owner[j.document]
  BY <1>1, <1>2, <1>3 DEF Good, Kept
<1>8. j.op = "upload" => issued'[j.session].account = Administrator
  BY <1>1, <1>3 DEF Good, Kept
<1> QED
  BY <1>1, <1>4, <1>5, <1>6, <1>7, <1>8 DEF Good

\* The session a route takes.
LEMMA Taken ==
  ASSUME TypeOK, CookiesInv, NEW b \in Browsers, NEW r \in Realms,
         NEW s \in Sessions, Found(s), s = cookie[b][r]
  PROVE  /\ Issued(s) /\ issued[s] \in SessionObject
         /\ RealmOf(issued[s].account) = r
         /\ now < issued[s].expires
<1>1. s # None
  OBVIOUS
<1>2. Issued(s) /\ RealmOf(issued[s].account) = r
  BY <1>1 DEF CookiesInv, Realms, RealmOf
<1>3. now < issued[s].expires
  BY DEF Found, Unexpired
<1> QED
  BY <1>2, <1>3, AnObject

LEMMA JobsStep ==
  TypeOK /\ JobsInv /\ CookiesInv /\ [Next]_vars => JobsInv'
<1> SUFFICES ASSUME TypeOK, JobsInv, CookiesInv, [Next]_vars, NEW w \in Workers
             PROVE  Good(job[w])'
  BY DEF JobsInv
<1> USE DEF rows, memory, browsers, history
<1>0. job \in [Workers -> Job]
  BY DEF TypeOK
<1>1. CASE job'[w] = job[w]
  <2>1. PICK j : j = job[w]
    OBVIOUS
  <2>2. Good(j)'
    BY <2>1, GoodKept
  <2> QED
    BY <1>1, <2>1, <2>2
<1>2. CASE job'[w] = Idle
  BY <1>2 DEF Good, Idle
<1>3. ASSUME NEW s \in Sessions, CreateSession(w, s) PROVE Good(job[w])'
  <2>1. PICK j, n : /\ j = job[w]
                    /\ n = [j EXCEPT !.op = "created", !.session = s]
    OBVIOUS
  <2>2. j \in Job /\ j.op = "login" /\ Good(j)
    BY <1>0, <1>3, <2>1 DEF CreateSession, JobsInv
  <2>3. j.account \in Accounts /\ j.browser \in Browsers
    BY <2>2 DEF Good
  <2>4. PICK o : o = NewSession(j.account, j.password)
    OBVIOUS
  <2>5. o.account = j.account /\ o # NoSession
    BY <2>2, <2>4, TheNew DEF Good, NewSession
  <2>6. issued'[s] = o /\ job'[w] = n
    BY <1>0, <1>3, <2>1, <2>4 DEF CreateSession, TypeOK
  <2>7. /\ n.op = "created" /\ n.session = s /\ n.account = j.account
        /\ n.browser = j.browser
    BY <2>1, <2>2 DEF Job
  <2> QED
    BY <2>3, <2>5, <2>6, <2>7 DEF Good, Issued
<1>4. CASE MarkViewed(w)
  <2>1. PICK j, n : j = job[w] /\ n = [j EXCEPT !.op = "send"]
    OBVIOUS
  <2>2. j \in Job /\ j.op = "view" /\ Good(j)'
    BY <1>0, <1>4, <2>1, GoodKept DEF MarkViewed
  <2>3. /\ job'[w] = n /\ n.op = "send" /\ n.session = j.session
        /\ n.document = j.document
    BY <1>0, <1>4, <2>1, <2>2 DEF MarkViewed, Job
  <2> QED
    BY <2>2, <2>3 DEF Good
<1>5. ASSUME NEW b \in Browsers, NEW a \in Accounts, Login(w, b, a)
      PROVE  Good(job[w])'
  <2>1. PICK j : j = job'[w]
    OBVIOUS
  <2>2. /\ j.op = "login" /\ j.browser = b /\ j.account = a
        /\ j.password = PasswordOf(a)
    BY <1>0, <1>5, <2>1 DEF Login, Start, Idle
  <2>3. PasswordOf(a) \in 1 .. MaxPasswords
    BY DEF PasswordOf, TypeOK, Users
  <2> QED
    BY <2>1, <2>2, <2>3 DEF Good
<1>6. ASSUME NEW b \in Browsers, NEW r \in Realms, Logout(w, b, r)
      PROVE  Good(job[w])'
  <2>1. PICK s \in Sessions :
          /\ Found(s) /\ s = cookie[b][r]
          /\ Start(w, [Idle EXCEPT !.op = "logout", !.browser = b,
                           !.account = issued[s].account, !.session = s])
    BY <1>6 DEF Logout
  <2>2. PICK j : j = job'[w]
    OBVIOUS
  <2>3. j.op = "logout" /\ j.browser = b /\ j.account = issued[s].account
    BY <1>0, <2>1, <2>2 DEF Start, Idle
  <2>4. j.account \in Accounts
    BY <2>1, <2>3, Taken DEF SessionObject
  <2> QED
    BY <2>2, <2>3, <2>4 DEF Good
<1>7. ASSUME NEW u \in Users, SetPassword(w, u) PROVE Good(job[w])'
  <2>1. PICK j : j = job'[w]
    OBVIOUS
  <2>2. j.op = "revoke" /\ j.account = u
    BY <1>0, <1>7, <2>1 DEF SetPassword, Start, Idle
  <2> QED
    BY <2>1, <2>2 DEF Good
<1>8. ASSUME NEW b \in Browsers, NEW d \in Documents, ViewDocument(w, b, d)
      PROVE  Good(job[w])'
  <2>1. PICK s \in Sessions :
          /\ Found(s) /\ s = cookie[b]["user"] /\ issued' = issued
          /\ Start(w, [Idle EXCEPT !.op = "view", !.session = s,
                                   !.document = d])
    BY <1>8 DEF ViewDocument, Takes
  <2>2. PICK j : j = job'[w]
    OBVIOUS
  <2>3. j.op = "view" /\ j.session = s /\ j.document = d
    BY <1>0, <2>1, <2>2 DEF Start, Idle
  <2>4. Issued(s)'
    BY <2>1, Taken DEF Realms, Issued
  <2> QED
    BY <2>2, <2>3, <2>4 DEF Good
<1>9. ASSUME NEW b \in Browsers, NEW d \in Documents,
             RequestSignature(w, b, d)
      PROVE  Good(job[w])'
  <2>1. PICK s \in Sessions :
          /\ Found(s) /\ s = cookie[b]["user"] /\ issued' = issued
          /\ Csrf(b, "user", s) /\ HasViewed(s, d)
          /\ d \in uploaded /\ uploaded' = uploaded
          /\ Owner[d] = issued[s].account
          /\ Start(w, [Idle EXCEPT !.op = "request", !.session = s,
                                   !.page = page[b]["user"], !.document = d,
                                   !.time = now])
    BY <1>9 DEF RequestSignature, Takes
  <2>2. PICK j : j = job'[w]
    OBVIOUS
  <2>3. /\ j.op = "request" /\ j.session = s /\ j.document = d
        /\ j.page = s /\ j.time = now
    BY <1>0, <2>1, <2>2 DEF Start, Idle, Csrf
  <2>4. Issued(s)' /\ now < issued[s].expires
    BY <2>1, Taken DEF Realms, Issued
  <2> QED
    BY <2>1, <2>2, <2>3, <2>4 DEF Good, HasViewed
<1>10. ASSUME NEW b \in Browsers, NEW d \in Documents, Upload(w, b, d)
       PROVE  Good(job[w])'
  <2>1. PICK s \in Sessions :
          /\ Found(s) /\ s = cookie[b]["ui"] /\ issued' = issued
          /\ Csrf(b, "ui", s)
          /\ Start(w, [Idle EXCEPT !.op = "upload", !.session = s,
                                   !.page = page[b]["ui"], !.document = d,
                                   !.time = now])
    BY <1>10 DEF Upload, Takes
  <2>2. PICK j : j = job'[w]
    OBVIOUS
  <2>3. /\ j.op = "upload" /\ j.session = s /\ j.document = d
        /\ j.page = s /\ j.time = now
    BY <1>0, <2>1, <2>2 DEF Start, Idle, Csrf
  <2>4. /\ Issued(s)' /\ now < issued[s].expires
        /\ issued[s].account = Administrator
    BY <2>1, Taken DEF Realms, Issued, RealmOf
  <2> QED
    BY <2>1, <2>2, <2>3, <2>4 DEF Good
<1>11. CASE job[w] = Idle /\ job'[w] # job[w]
  <2>1. ASSUME NEW v \in Workers, Step(v), v # w PROVE FALSE
    BY <1>0, <1>11, <2>1 DEF Step, Login, CreateSession, LoggedIn, Logout,
       LoggedOut, SetPassword, EndSessions, PasswordInDoubt, ViewDocument,
       MarkViewed, SendDocument, RequestSignature, RecordConsent, Upload,
       Assign, Fails, Start, Finish
  <2>2. \E v \in Workers : Step(v)
    BY <1>11 DEF Next, vars, LoadPage, RequestEnds, Tick, Restart
  <2>3. Step(w)
    BY <2>1, <2>2
  <2>4. job'[w] = Idle \/ Good(job[w])'
    BY <1>0, <1>3, <1>4, <1>5, <1>6, <1>7, <1>8, <1>9, <1>10, <2>3 DEF Step,
       LoggedIn, LoggedOut, EndSessions, PasswordInDoubt, SendDocument,
       RecordConsent, Assign, Fails, Finish
  <2> QED
    BY <1>2, <2>4
<1>12. ASSUME SendDocument(w) \/ Restart PROVE job'[w] = Idle
  BY <1>0, <1>12 DEF SendDocument, Restart, Finish
<1> QED
  BY <1>1, <1>2, <1>3, <1>4, <1>11, <1>12, CallsMove

LEMMA CookiesStep ==
  TypeOK /\ JobsInv /\ CookiesInv /\ [Next]_vars => CookiesInv'
<1> SUFFICES ASSUME TypeOK, JobsInv, CookiesInv, [Next]_vars,
                    NEW b \in Browsers, NEW r \in Realms,
                    NEW s, s = cookie'[b][r], s # None
             PROVE  /\ Issued(s)'
                    /\ issued'[s].account = Administrator <=> r = "ui"
  BY DEF CookiesInv, Issued
<1> USE DEF rows, memory, browsers, history
<1>0. cookie \in [Browsers -> [Realms -> Sessions \cup {None}]]
  BY DEF TypeOK
<1>1. CASE s = cookie[b][r]
  <2>1. /\ s \in Sessions /\ Issued(s)
        /\ issued[s].account = Administrator <=> r = "ui"
    BY <1>0, <1>1 DEF CookiesInv
  <2>2. Kept(s)
    BY <2>1, SessionsKept
  <2> QED
    BY <2>1, <2>2 DEF Kept, Issued
<1>2. ASSUME NEW w \in Workers, LoggedIn(w), s # cookie[b][r]
      PROVE  /\ Issued(s)'
             /\ issued'[s].account = Administrator <=> r = "ui"
  <2>1. PICK j, q : j = job[w] /\ q = RealmOf(j.account)
    OBVIOUS
  <2>2. Good(j) /\ j.op = "created"
    BY <1>2, <2>1 DEF LoggedIn, JobsInv
  <2>3. /\ j.session \in Sessions /\ Issued(j.session)
        /\ issued[j.session].account = j.account
    BY <2>2 DEF Good
  <2>4. /\ cookie' = [cookie EXCEPT ![j.browser][q] = j.session]
        /\ issued' = issued
    BY <1>2, <2>1 DEF LoggedIn
  <2>5. r = q /\ s = j.session
    BY <1>0, <1>2, <2>4
  <2> QED
    BY <2>1, <2>3, <2>4, <2>5 DEF Issued, RealmOf
<1>3. ASSUME NEW w \in Workers, LoggedOut(w)
      PROVE  s = cookie[b][r]
  <2>1. PICK j, q : j = job[w] /\ q = RealmOf(j.account)
    OBVIOUS
  <2>2. cookie' = [cookie EXCEPT ![j.browser][q] = None]
    BY <1>3, <2>1 DEF LoggedOut
  <2> QED
    BY <1>0, <2>2
<1>4. \/ cookie' = cookie
      \/ \E w \in Workers : LoggedIn(w) \/ LoggedOut(w)
  BY Writers
<1> QED
  BY <1>1, <1>2, <1>3, <1>4

LEMMA ViewsStep == TypeOK /\ JobsInv /\ ViewsInv /\ [Next]_vars => ViewsInv'
<1> SUFFICES ASSUME TypeOK, JobsInv, ViewsInv, [Next]_vars,
                    NEW s \in Sessions, issued'[s] # NoSession,
                    NEW d \in issued'[s].viewed
             PROVE  <<s, d>> \in Sent'
  BY DEF ViewsInv, Issued
<1> USE DEF rows, memory, browsers, history
<1>0. /\ issued \in [Sessions -> SessionObject \cup {NoSession}]
      /\ job \in [Workers -> Job]
  BY DEF TypeOK
<1>1. CASE issued'[s] = issued[s]
  BY <1>1, SentKept DEF ViewsInv, Issued
<1>2. ASSUME NEW w \in Workers, NEW t \in Sessions, CreateSession(w, t)
      PROVE  issued'[s] = issued[s]
  <2>1. PICK j : j = job[w]
    OBVIOUS
  <2>2. issued' = [issued EXCEPT ![t] = NewSession(j.account, j.password)]
    BY <1>2, <2>1 DEF CreateSession
  <2>3. NewSession(j.account, j.password).viewed = {}
    BY DEF NewSession
  <2> QED
    BY <1>0, <2>2, <2>3
<1>3. ASSUME NEW w \in Workers, MarkViewed(w), issued'[s] # issued[s]
      PROVE  <<s, d>> \in Sent'
  <2>1. PICK j, n : j = job[w] /\ n = [j EXCEPT !.op = "send"]
    OBVIOUS
  <2>2. j \in Job /\ Good(j) /\ j.op = "view"
    BY <1>0, <1>3, <2>1 DEF MarkViewed, JobsInv
  <2>3. PICK o : o = issued[j.session]
    OBVIOUS
  <2>4. o \in SessionObject /\ Issued(j.session) /\ j.session \in Sessions
    BY <2>2, <2>3, AnObject DEF Good
  <2>5. issued' = [issued EXCEPT ![j.session] =
                     [o EXCEPT !.viewed = @ \cup {j.document}]]
    BY <1>3, <2>1, <2>3 DEF MarkViewed
  <2>6. s = j.session /\ issued'[s].viewed = o.viewed \cup {j.document}
    BY <1>0, <1>3, <2>4, <2>5 DEF SessionObject
  <2>7. CASE d \in o.viewed
    BY <2>3, <2>4, <2>6, <2>7, SentKept DEF ViewsInv
  <2>8. CASE d = j.document
    <3>1. /\ job'[w] = n /\ n.op = "send" /\ n.session = j.session
          /\ n.document = j.document
      BY <1>0, <1>3, <2>1, <2>2 DEF MarkViewed, Job
    <3>2. <<n.session, n.document>> \in Undelivered'
      BY <3>1 DEF Undelivered
    <3> QED
      BY <2>6, <2>8, <3>1, <3>2 DEF Sent
  <2> QED
    BY <2>6, <2>7, <2>8
<1>4. \/ issued' = issued
      \/ \E w \in Workers : MarkViewed(w)
                            \/ \E t \in Sessions : CreateSession(w, t)
  BY Writers
<1> QED
  BY <1>1, <1>2, <1>3, <1>4

LEMMA ActsStep == TypeOK /\ JobsInv /\ ActsInv /\ [Next]_vars => ActsInv'
<1> SUFFICES ASSUME TypeOK, JobsInv, ActsInv, [Next]_vars PROVE ActsInv'
  OBVIOUS
<1> USE DEF rows, memory, browsers, history
<1>1. \A c \in consents \cup uploads : c \in Act
  BY DEF TypeOK
<1>2. ASSUME NEW c \in consents \cup uploads PROVE Kept(c.session)
  BY <1>1, SessionsKept DEF ActsInv, Act
<1>3. ASSUME NEW w \in Workers, job[w].op \in {"request", "upload"},
             NEW c, c = ActOf(job[w]), issued' = issued
      PROVE  /\ c.page = c.session /\ Issued(c.session)'
             /\ c.time < issued'[c.session].expires
             /\ job[w].op = "request" =>
                  /\ c.document \in issued'[c.session].viewed
                  /\ issued'[c.session].account = Owner[c.document]
             /\ job[w].op = "upload" =>
                  issued'[c.session].account = Administrator
  BY <1>3 DEF ActOf, JobsInv, Good, Issued
<1>4. ASSUME NEW c \in consents'
      PROVE  /\ c.page = c.session /\ Issued(c.session)'
             /\ c.document \in issued'[c.session].viewed
             /\ issued'[c.session].account = Owner[c.document]
             /\ c.time < issued'[c.session].expires
  <2>1. CASE c \in consents
    BY <1>2, <2>1 DEF ActsInv, Kept, Issued
  <2>2. ASSUME NEW w \in Workers, RecordConsent(w), c \notin consents
        PROVE  /\ c = ActOf(job[w]) /\ issued' = issued
               /\ job[w].op = "request"
    BY <1>4, <2>2 DEF RecordConsent
  <2>3. consents' = consents \/ \E w \in Workers : RecordConsent(w)
    BY Writers
  <2> QED
    BY <1>3, <1>4, <2>1, <2>2, <2>3
<1>5. ASSUME NEW c \in uploads'
      PROVE  /\ c.page = c.session /\ Issued(c.session)'
             /\ issued'[c.session].account = Administrator
             /\ c.time < issued'[c.session].expires
  <2>1. CASE c \in uploads
    BY <1>2, <2>1 DEF ActsInv, Kept, Issued
  <2>2. ASSUME NEW w \in Workers, Assign(w), c \notin uploads
        PROVE  /\ c = ActOf(job[w]) /\ issued' = issued
               /\ job[w].op = "upload"
    BY <1>5, <2>2 DEF Assign
  <2>3. uploads' = uploads \/ \E w \in Workers : Assign(w)
    BY Writers
  <2> QED
    BY <1>3, <1>5, <2>1, <2>2, <2>3
<1> QED
  BY <1>4, <1>5 DEF ActsInv

\* The invariant holds in every behaviour.
THEOREM SessionInvariant == Spec => []SessionInv
<1>1. Init => SessionInv
  <2> SUFFICES ASSUME Init PROVE SessionInv
    OBVIOUS
  <2>1. TypeOK
    BY IdleIsGood DEF Init, TypeOK
  <2>2. JobsInv
    BY IdleIsGood DEF Init, JobsInv
  <2>3. CookiesInv /\ ViewsInv /\ ActsInv
    BY DEF Init, CookiesInv, ViewsInv, ActsInv, Issued
  <2> QED
    BY <2>1, <2>2, <2>3 DEF SessionInv
<1>2. SessionInv /\ [Next]_vars => SessionInv'
  BY TypeStep, JobsStep, CookiesStep, ViewsStep, ActsStep DEF SessionInv
<1> QED
  BY <1>1, <1>2, PTL DEF Spec

-----------------------------------------------------------------------------
(* The properties                                                          *)

\* The sessions, the browsers, the rows and the calls have their types.
THEOREM TypeCorrect == Spec => []TypeOK
<1>1. SessionInv => TypeOK
  BY DEF SessionInv
<1> QED
  BY <1>1, SessionInvariant, PTL

\* A consent needs a document that was sent, in that session.
THEOREM Viewed == Spec => []ConsentHasAView
<1>1. SessionInv => ConsentHasAView
  <2> SUFFICES ASSUME SessionInv, NEW c \in consents
               PROVE  <<c.session, c.document>> \in Sent
    BY DEF ConsentHasAView, Sent
  <2>1. c \in Act
    BY DEF SessionInv, TypeOK
  <2> QED
    BY <2>1 DEF SessionInv, ActsInv, ViewsInv, Act
<1> QED
  BY <1>1, SessionInvariant, PTL

\* A page acts for the user who loaded it, and for nobody else.
THEOREM OwnPage == Spec => []ActsOfThePage
<1>1. SessionInv => ActsOfThePage
  BY DEF SessionInv, ActsInv, ActsOfThePage
<1> QED
  BY <1>1, SessionInvariant, PTL

\* Nothing is begun in a session that is past its deadline.
THEOREM InTime == Spec => []NothingAfterTheDeadline
<1>1. SessionInv => NothingAfterTheDeadline
  BY DEF SessionInv, ActsInv, NothingAfterTheDeadline
<1> QED
  BY <1>1, SessionInvariant, PTL

\* Only a login adds to the dictionary.
LEMMA StoreShrinks ==
  ASSUME TypeOK, [Next]_vars
  PROVE  \/ store' \subseteq store
         \/ \E w \in Workers, t \in Sessions : CreateSession(w, t)
<1> USE DEF memory, Unexpired
<1>1. ASSUME NEW w \in Workers, NEW b \in Browsers, NEW r \in Realms,
             Logout(w, b, r)
      PROVE  store' \subseteq store
  BY <1>1 DEF Logout
<1>2. ASSUME NEW w \in Workers, NEW b \in Browsers, NEW d \in Documents,
             \/ ViewDocument(w, b, d)
             \/ RequestSignature(w, b, d)
             \/ Upload(w, b, d)
      PROVE  store' \subseteq store
  BY <1>2 DEF ViewDocument, RequestSignature, Upload, Takes
<1>3. ASSUME NEW w \in Workers, EndSessions(w)
      PROVE  store' \subseteq store
  BY <1>3 DEF EndSessions
<1>4. ASSUME NEW w \in Workers, Step(w)
      PROVE  store' \subseteq store \/ \E t \in Sessions : CreateSession(w, t)
  BY <1>1, <1>2, <1>3, <1>4 DEF Step, Login, LoggedIn, LoggedOut, SetPassword,
     PasswordInDoubt, MarkViewed, SendDocument, RecordConsent, Assign, Fails
<1>5. ASSUME NEW b \in Browsers, NEW r \in Realms, LoadPage(b, r)
      PROVE  store' \subseteq store
  BY <1>5 DEF LoadPage
<1>6. CASE Restart
  BY <1>6 DEF Restart
<1> QED
  BY <1>4, <1>5, <1>6 DEF Next, vars, RequestEnds, Tick

\* What ended is over.
THEOREM Ended == Spec => EndedForGood
<1>1. TypeOK /\ [Next]_vars =>
        [\A s \in Sessions :
           issued[s] # NoSession /\ s \notin store => s \notin store']_vars
  <2> SUFFICES ASSUME TypeOK, Next, NEW s \in Sessions,
                      issued[s] # NoSession, s \notin store
               PROVE  s \notin store'
    OBVIOUS
  <2>1. ASSUME NEW w \in Workers, NEW t \in Sessions, CreateSession(w, t)
        PROVE  s \notin store'
    BY <2>1 DEF CreateSession, Unexpired
  <2>2. store' \subseteq store
        \/ \E w \in Workers, t \in Sessions : CreateSession(w, t)
    BY StoreShrinks
  <2> QED
    BY <2>1, <2>2
<1> QED
  BY <1>1, TypeCorrect, PTL DEF Spec, EndedForGood

\* The user's sessions are still to be ended.
Revoking(a) == \E w \in Workers : job[w].op = "revoke" /\ job[w].account = a

\* A call that sets a password goes on to end the user's sessions.
LEMMA PasswordKept ==
  ASSUME TypeOK, [Next]_vars, NEW a \in Accounts
  PROVE  PasswordOf(a)' = PasswordOf(a) \/ Revoking(a)'
<1> USE DEF rows, memory, browsers, history
<1>0. password \in [Users -> 1 .. MaxPasswords] /\ job \in [Workers -> Job]
  BY DEF TypeOK
<1>1. ASSUME NEW w \in Workers, NEW u \in Users, SetPassword(w, u)
      PROVE  PasswordOf(a)' = PasswordOf(a) \/ Revoking(a)'
  <2>1. CASE a = u
    <3>1. job'[w].op = "revoke" /\ job'[w].account = u
      BY <1>0, <1>1 DEF SetPassword, Start, Idle
    <3> QED
      BY <2>1, <3>1 DEF Revoking
  <2>2. CASE a # u
    <3>1. a # Administrator => password'[a] = password[a]
      BY <1>0, <1>1, <2>2 DEF SetPassword, Users
    <3> QED
      BY <3>1 DEF PasswordOf
  <2> QED
    BY <2>1, <2>2
<1>2. password' = password \/ \E w \in Workers, u \in Users : SetPassword(w, u)
  BY Writers
<1>3. password' = password => PasswordOf(a)' = PasswordOf(a)
  BY DEF PasswordOf
<1> QED
  BY <1>1, <1>2, <1>3

\* They are ended, or the call fails in between.
LEMMA RevokingKept ==
  ASSUME TypeOK, JobsInv, [Next]_vars, NEW s \in Sessions,
         NEW a, a = issued[s].account, a \in cut \/ Revoking(a)
  PROVE  a \in cut' \/ Revoking(a)' \/ s \notin store'
<1> USE DEF rows, memory, browsers, history
<1>0. job \in [Workers -> Job]
  BY DEF TypeOK
<1>1. ASSUME NEW w \in Workers, EndSessions(w)
      PROVE  a \in cut' \/ Revoking(a)' \/ s \notin store'
  <2>1. CASE job[w].account = a
    BY <1>1, <2>1 DEF EndSessions, SessionsOf
  <2>2. CASE a \in cut /\ job[w].account # a
    BY <1>1, <2>2 DEF EndSessions
  <2>3. CASE Revoking(a) /\ job[w].account # a
    <3>1. PICK v \in Workers : job[v].op = "revoke" /\ job[v].account = a
      BY <2>3 DEF Revoking
    <3>2. job'[v] = job[v]
      BY <1>0, <1>1, <2>3, <3>1 DEF EndSessions, Finish
    <3> QED
      BY <3>1, <3>2 DEF Revoking
  <2> QED
    BY <2>1, <2>2, <2>3
<1>2. CASE a \in cut /\ \A w \in Workers : ~ EndSessions(w)
  BY <1>2, Writers DEF PasswordInDoubt
<1>3. CASE Revoking(a) /\ \A w \in Workers : ~ EndSessions(w)
  <2>1. PICK v \in Workers : job[v].op = "revoke" /\ job[v].account = a
    BY <1>3 DEF Revoking
  <2>2. CASE job'[v] = job[v]
    BY <2>1, <2>2 DEF Revoking
  <2>3. CASE PasswordInDoubt(v)
    BY <2>1, <2>3 DEF PasswordInDoubt
  <2>4. CASE Restart
    BY <2>4 DEF Restart
  <2>5. job'[v] = job[v] \/ PasswordInDoubt(v) \/ Restart
    <3>1. ASSUME NEW w \in Workers, Step(w), w # v PROVE job'[v] = job[v]
      BY <1>0, <3>1 DEF Step, Login, CreateSession, LoggedIn, Logout,
         LoggedOut, SetPassword, EndSessions, PasswordInDoubt, ViewDocument,
         MarkViewed, SendDocument, RequestSignature, RecordConsent, Upload,
         Assign, Fails, Start, Finish
    <3>2. CASE Step(v)
      <4>1. job[v] # Idle
        BY <2>1 DEF Idle
      <4>2. \/ LoggedIn(v) \/ LoggedOut(v) \/ PasswordInDoubt(v)
            \/ MarkViewed(v) \/ SendDocument(v) \/ RecordConsent(v)
            \/ Assign(v) \/ Fails(v) \/ \E t \in Sessions : CreateSession(v, t)
        BY <1>3, <3>2, <4>1 DEF Step, Login, Logout, SetPassword,
           ViewDocument, RequestSignature, Upload, Start
      <4> QED
        BY <2>1, <4>2 DEF LoggedIn, LoggedOut, MarkViewed, SendDocument,
           RecordConsent, Assign, Fails, CreateSession
    <3> QED
      BY <3>1, <3>2 DEF Next, vars, LoadPage, RequestEnds, Tick
  <2> QED
    BY <2>2, <2>3, <2>4, <2>5
<1> QED
  BY <1>1, <1>2, <1>3

\* A session opened with an old password is in use only by the races and the
\* failures that StaleOnlyByRace names.
THEOREM Stale == Spec => []StaleOnlyByRace
<1>1. Init => StaleOnlyByRace
  BY DEF Init, StaleOnlyByRace
<1>2. SessionInv /\ StaleOnlyByRace /\ [Next]_vars => StaleOnlyByRace'
  <2> SUFFICES ASSUME SessionInv, StaleOnlyByRace, [Next]_vars,
                      NEW s \in store', NEW a, a = issued'[s].account
               PROVE  \/ issued'[s].password = PasswordOf(a)'
                      \/ issued'[s].raced
                      \/ a \in cut'
                      \/ Revoking(a)'
    BY DEF StaleOnlyByRace, Revoking
  <2> USE DEF rows, memory, browsers, history
  <2>0. TypeOK /\ JobsInv /\ job \in [Workers -> Job]
    BY DEF SessionInv, TypeOK
  <2>1. ASSUME NEW w \in Workers, NEW t \in Sessions, CreateSession(w, t),
               s = t
        PROVE  issued'[s].password = PasswordOf(a)' \/ issued'[s].raced
    <3>1. PICK j : j = job[w]
      OBVIOUS
    <3>2. /\ issued'[s] = NewSession(j.account, j.password)
          /\ password' = password
      BY <2>0, <2>1, <3>1 DEF CreateSession, TypeOK
    <3>3. /\ a = j.account /\ issued'[s].password = j.password
          /\ issued'[s].raced = (j.password # PasswordOf(a))
      BY <3>2 DEF NewSession
    <3>4. PasswordOf(a)' = PasswordOf(a)
      BY <3>2 DEF PasswordOf
    <3> QED
      BY <3>3, <3>4
  <2>2. CASE ~ \E w \in Workers, t \in Sessions :
                  CreateSession(w, t) /\ s = t
    <3>1. s \in store
      <4>1. ASSUME NEW w \in Workers, NEW t \in Sessions,
                   CreateSession(w, t)
            PROVE  s \in store
        <5>1. s # t /\ s \in store'
          BY <2>2, <4>1
        <5> QED
          BY <4>1, <5>1 DEF CreateSession, Unexpired
      <4> QED
        BY <2>0, <4>1, StoreShrinks
    <3>2. /\ s \in Sessions /\ Kept(s) /\ a = issued[s].account
          /\ a \in Accounts
      BY <2>0, <3>1, SessionsKept
         DEF Kept, Issued, TypeOK, SessionObject, NoSession
    <3>3. \/ issued[s].password = PasswordOf(a)
          \/ issued[s].raced
          \/ a \in cut
          \/ Revoking(a)
      BY <3>1, <3>2 DEF StaleOnlyByRace, Revoking
    <3>4. issued[s].password = PasswordOf(a) =>
            issued'[s].password = PasswordOf(a)' \/ Revoking(a)'
      BY <2>0, <3>2, PasswordKept DEF Kept
    <3>5. issued[s].raced => issued'[s].raced
      BY <3>2 DEF Kept
    <3>6. a \in cut \/ Revoking(a) =>
            a \in cut' \/ Revoking(a)' \/ s \notin store'
      BY <2>0, <3>2, RevokingKept
    <3> QED
      BY <3>3, <3>4, <3>5, <3>6
  <2> QED
    BY <2>1, <2>2
<1> QED
  BY <1>1, <1>2, SessionInvariant, PTL DEF Spec

=============================================================================
