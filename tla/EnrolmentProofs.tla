--------------------------- MODULE EnrolmentProofs ---------------------------
(***************************************************************************)
(* Proofs about Enrolment, for any number of accounts, devices, secrets    *)
(* and calls at once.  EnrolmentInv is inductive: it says of every call    *)
(* what it has decided to write, since that is written whatever the rows   *)
(* are by then.  What becomes of a secret follows from it.                 *)
(***************************************************************************)
EXTENDS Enrolment, TLAPS

USE EnrolmentAssumption

-----------------------------------------------------------------------------
(* Calls                                                                   *)

UserOps == {"create_user", "update_user"}
EnrolOps == {"enroll", "enrolled"}

\* The fields of a call.
LEMMA JobFields ==
  ASSUME NEW j \in Job
  PROVE  /\ j.op \in {"none", "create_device"} \cup UserOps \cup EnrolOps
         /\ j.op = "none" <=> j = NoJob
         /\ j.op \in UserOps => j.id \in Users /\ j.row \in Account
         /\ j.op = "create_device" => j.id \in Devices /\ j.row \in Device
         /\ j.op \in EnrolOps => j.id \in Devices /\ j.secret \in Secrets
BY DEF Job, NoJob, UserOps, EnrolOps

LEMMA Types ==
  ASSUME EnrolmentInv
  PROVE  /\ TypeOK /\ NoJob \in Job /\ NoJob.op = "none"
         /\ user \in [Users -> Account \cup {None}]
         /\ device \in [Devices -> Device \cup {None}]
         /\ given \in [Devices -> SUBSET Secrets]
         /\ job \in [Workers -> Job]
BY DEF EnrolmentInv, TypeOK, Job, NoJob

LEMMA InitEnrolment == Init => EnrolmentInv
<1> SUFFICES ASSUME Init
             PROVE  EnrolmentInv
  OBVIOUS
<1>1. NoJob \in Job /\ NoJob.op = "none"
  BY DEF Job, NoJob
<1>2. TypeOK
  BY <1>1 DEF Init, TypeOK
<1>3. \A w \in Workers : job[w] = NoJob /\ job[w].op = "none"
  BY <1>1 DEF Init
<1>4. /\ \A u \in Users : user[u] = None
      /\ \A d \in Devices : device[d] = None /\ given[d] = {}
  BY DEF Init
<1> QED
  BY <1>2, <1>3, <1>4 DEF EnrolmentInv, AccountsAreDistinct,
     CredentialsTogether, AccountsInv, DevicesInv, EnrolsAlone

-----------------------------------------------------------------------------
(* Accounts                                                                *)

\* A call that has decided on an account.
LEMMA UserStep ==
  ASSUME EnrolmentInv, NEW w \in Workers, NEW j \in Job, j.op \in UserOps,
         Folded(j.row), (j.row.email # None) = j.row.password,
         Begin(w, j), UNCHANGED <<user, device, drawn, given, lost, raced>>
  PROVE  EnrolmentInv'
<1>1. job[w] = NoJob /\ job' = [job EXCEPT ![w] = j]
  BY DEF Begin
<1>2. job'[w] = j /\ \A v \in Workers \ {w} : job'[v] = job[v]
  BY <1>1, Types
<1>3. TypeOK'
  BY <1>1, Types DEF TypeOK
<1>4. AccountsAreDistinct' /\ CredentialsTogether'
  BY DEF EnrolmentInv, AccountsAreDistinct, CredentialsTogether
<1>5. AccountsInv'
  BY <1>2 DEF EnrolmentInv, AccountsInv, Folded
<1>6. DevicesInv'
  BY <1>2 DEF EnrolmentInv, DevicesInv, UserOps
<1>7. EnrolsAlone'
  <2>1. \A d : Enrolling(d)' = Enrolling(d)
    BY <1>1, <1>2, Types DEF Enrolling, UserOps
  <2> QED
    BY <1>2, <2>1 DEF EnrolmentInv, EnrolsAlone, UserOps
<1> QED
  BY <1>3, <1>4, <1>5, <1>6, <1>7 DEF EnrolmentInv

\* A call that ends without a change to the rows.
LEMMA DoneStep ==
  ASSUME EnrolmentInv, NEW w \in Workers, Done(w),
         UNCHANGED <<user, device, drawn, raced>>, lost' \subseteq Devices,
         given' \in [Devices -> SUBSET Secrets],
         \A d \in Devices : given'[d] # {} => device[d] # None
  PROVE  EnrolmentInv'
<1>1. /\ job' = [job EXCEPT ![w] = NoJob] /\ job'[w] = NoJob
      /\ \A v \in Workers \ {w} : job'[v] = job[v]
  BY Types DEF Done
<1>2. TypeOK'
  BY <1>1, Types DEF TypeOK
<1>3. AccountsAreDistinct' /\ CredentialsTogether'
  BY DEF EnrolmentInv, AccountsAreDistinct, CredentialsTogether
<1>4. AccountsInv'
  BY <1>1, Types DEF EnrolmentInv, AccountsInv, Folded
<1>5. DevicesInv'
  BY <1>1, Types DEF EnrolmentInv, DevicesInv
<1>6. EnrolsAlone'
  <2>1. \A d : Enrolling(d)' = Enrolling(d) \ {w}
    BY <1>1, Types DEF Enrolling
  <2> QED
    BY <1>1, <2>1 DEF EnrolmentInv, EnrolsAlone
<1> QED
  BY <1>2, <1>3, <1>4, <1>5, <1>6 DEF EnrolmentInv

\* The constraints of the table users keep stored names and addresses apart.
LEMMA CommitUserStep ==
  ASSUME EnrolmentInv, NEW w \in Workers, CommitUser(w)
  PROVE  EnrolmentInv'
<1> DEFINE j == job[w]
<1>1. /\ j \in Job /\ j.op \in UserOps /\ Done(w)
      /\ UNCHANGED <<device, drawn, given, lost, raced>>
  BY Types DEF CommitUser, UserOps
<1>2. j.id \in Users /\ j.row \in Account
  BY <1>1, JobFields
<1>3. CASE ~ Unique(j.id, j.row)
  <2>1. user' = user
    BY <1>3 DEF CommitUser
  <2>2. \A d \in Devices : given[d] # {} => device[d] # None
    BY DEF EnrolmentInv, DevicesInv
  <2> QED
    BY <1>1, <2>1, <2>2, Types, DoneStep DEF TypeOK
<1>4. CASE Unique(j.id, j.row)
  <2>1. /\ user' = [user EXCEPT ![j.id] = j.row]
        /\ user'[j.id] = j.row
        /\ \A u \in Users \ {j.id} : user'[u] = user[u]
    BY <1>2, <1>4, Types DEF CommitUser
  <2>2. /\ job' = [job EXCEPT ![w] = NoJob] /\ job'[w] = NoJob
        /\ \A v \in Workers \ {w} : job'[v] = job[v]
    BY <1>1, Types DEF Done
  <2>3. TypeOK'
    BY <1>1, <1>2, <2>1, <2>2, Types DEF TypeOK
  <2>4. Folded(j.row) /\ (j.row.email # None) = j.row.password
    BY <1>1 DEF EnrolmentInv, AccountsInv, UserOps
  <2>5. CredentialsTogether'
    BY <2>1, <2>4 DEF EnrolmentInv, CredentialsTogether
  <2>6. AccountsInv'
    BY <2>1, <2>2, <2>4, Types DEF EnrolmentInv, AccountsInv, Folded
  <2>7. AccountsAreDistinct'
    <3>1. \A u, v \in Users :
            u # v /\ None \notin {user'[u], user'[v]} =>
              /\ Fold[user'[u].name] # Fold[user'[v].name]
              /\ user'[u].email # None /\ user'[v].email # None
                   => Fold[user'[u].email] # Fold[user'[v].email]
      <4>1. \A u \in Users : user'[u] # None => Folded(user'[u])
        BY <2>6 DEF AccountsInv, Folded
      <4>2. \A u \in Users \ {j.id} :
              user'[u] # None => /\ user'[u].name # j.row.name
                                 /\ j.row.email # None
                                      => user'[u].email # j.row.email
        BY <1>4, <2>1 DEF Unique
      <4>3. ASSUME NEW u \in Users, NEW v \in Users, u # v,
                   user'[u] # None, user'[v] # None
            PROVE  /\ Fold[user'[u].name] # Fold[user'[v].name]
                   /\ user'[u].email # None /\ user'[v].email # None
                        => Fold[user'[u].email] # Fold[user'[v].email]
        <5>1. CASE j.id \in {u, v}
          BY <5>1, <4>1, <4>2, <4>3, <2>1 DEF Folded
        <5>2. CASE j.id \notin {u, v}
          BY <5>2, <4>3, <2>1 DEF EnrolmentInv, AccountsAreDistinct
        <5> QED
          BY <5>1, <5>2
      <4> QED
        BY <4>3
    <3> QED
      BY <3>1, <1>1 DEF EnrolmentInv, AccountsAreDistinct
  <2>8. DevicesInv'
    BY <1>1, <2>2, Types DEF EnrolmentInv, DevicesInv
  <2>9. EnrolsAlone'
    <3>1. \A d : Enrolling(d)' = Enrolling(d) \ {w}
      BY <2>2, Types DEF Enrolling
    <3> QED
      BY <1>1, <2>2, <3>1 DEF EnrolmentInv, EnrolsAlone
  <2> QED
    BY <2>3, <2>5, <2>6, <2>7, <2>8, <2>9 DEF EnrolmentInv
<1> QED
  BY <1>3, <1>4

LEMMA CreateUserStep ==
  ASSUME EnrolmentInv, NEW w \in Workers, NEW u \in Users, CreateUser(w, u)
  PROVE  EnrolmentInv'
<1>1. PICK s \in Spellings, e \in Spellings \cup {None} :
        /\ Begin(w, [op |-> "create_user", id |-> u,
                     row |-> [name |-> Normalized(s),
                              email |-> IF e = None THEN None
                                                    ELSE Normalized(e),
                              password |-> e # None]])
        /\ UNCHANGED <<user, device, drawn, given, lost, raced>>
  BY DEF CreateUser
<1> DEFINE row == [name |-> Normalized(s),
                   email |-> IF e = None THEN None ELSE Normalized(e),
                   password |-> e # None]
           j == [op |-> "create_user", id |-> u, row |-> row]
<1>2. /\ row \in Account /\ Folded(row)
      /\ (row.email # None) = row.password
  BY DEF Account, Folded, Normalized
<1>3. Begin(w, j)
  BY <1>1
<1> HIDE DEF row
<1>4. j \in Job /\ j.op \in UserOps /\ j.row = row
  BY <1>2 DEF Job, UserOps
<1> HIDE DEF j
<1> QED
  BY <1>1, <1>2, <1>3, <1>4, UserStep

LEMMA UpdateUserStep ==
  ASSUME EnrolmentInv, NEW w \in Workers, NEW u \in Users, UpdateUser(w, u)
  PROVE  EnrolmentInv'
<1>1. PICK e \in Spellings :
        /\ user[u] # None
        /\ Begin(w, [op |-> "update_user", id |-> u,
                     row |-> [user[u] EXCEPT !.email = Normalized(e),
                                             !.password = TRUE]])
        /\ UNCHANGED <<user, device, drawn, given, lost, raced>>
  BY DEF UpdateUser
<1> DEFINE row == [user[u] EXCEPT !.email = Normalized(e), !.password = TRUE]
           j == [op |-> "update_user", id |-> u, row |-> row]
<1>2. user[u] \in Account /\ Folded(user[u])
  BY <1>1, Types DEF EnrolmentInv, AccountsInv
<1>3. /\ row \in Account /\ row.name = user[u].name
      /\ row.email = Normalized(e) /\ row.password = TRUE
  BY <1>2 DEF Account, Normalized
<1>4. Folded(row) /\ (row.email # None) = row.password
  <2>1. Folded(row)
    BY <1>2, <1>3 DEF Folded, Normalized
  <2>2. row.email # None
    BY <1>3 DEF Normalized
  <2> QED
    BY <2>1, <2>2, <1>3
<1>5. Begin(w, j)
  BY <1>1
<1> HIDE DEF row
<1>6. j \in Job /\ j.op \in UserOps /\ j.row = row
  BY <1>3 DEF Job, UserOps
<1> HIDE DEF j
<1> QED
  BY <1>1, <1>4, <1>5, <1>6, UserStep

-----------------------------------------------------------------------------
(* Devices                                                                 *)

\* A step that leaves the accounts and what is to be written of them alone.
LEMMA SameAccounts ==
  ASSUME EnrolmentInv, user' = user,
         \A w \in Workers : job'[w].op \in UserOps => job'[w] = job[w],
         \A c, d \in Devices :
           c # d /\ None \notin {device'[c], device'[d]}
             => device'[c].uid # device'[d].uid
  PROVE  AccountsAreDistinct' /\ CredentialsTogether' /\ AccountsInv'
BY DEF EnrolmentInv, AccountsAreDistinct, CredentialsTogether, AccountsInv,
       Folded, UserOps

LEMMA CreateDeviceStep ==
  ASSUME EnrolmentInv, NEW w \in Workers, NEW d \in Devices, CreateDevice(w, d)
  PROVE  EnrolmentInv'
<1>1. PICK uid \in Uids, u \in Users :
        Begin(w, [op |-> "create_device", id |-> d,
                  row |-> [uid |-> uid, owner |-> u, status |-> "PENDING",
                           secret |-> None]])
  BY DEF CreateDevice
<1>2. /\ device[d] = None /\ Fresh(d)
      /\ UNCHANGED <<user, device, drawn, given, lost, raced>>
  BY DEF CreateDevice
<1> DEFINE row == [uid |-> uid, owner |-> u, status |-> "PENDING",
                   secret |-> None]
           j == [op |-> "create_device", id |-> d, row |-> row]
<1>3. row \in Device /\ row.status = "PENDING" /\ row.secret = None
  BY DEF Device, Status
<1>4. job[w] = NoJob /\ job' = [job EXCEPT ![w] = j]
  BY <1>1 DEF Begin
<1> HIDE DEF row
<1>5. j \in Job /\ j.op = "create_device" /\ j.id = d /\ j.row = row
  BY <1>3 DEF Job
<1> HIDE DEF j
<1>6. job'[w] = j /\ \A v \in Workers \ {w} : job'[v] = job[v]
  BY <1>4, Types
<1>7. TypeOK'
  BY <1>2, <1>4, <1>5, Types DEF TypeOK
<1>8. AccountsAreDistinct' /\ CredentialsTogether' /\ AccountsInv'
  <2>1. \A v \in Workers : job'[v].op \in UserOps => job'[v] = job[v]
    BY <1>5, <1>6 DEF UserOps
  <2> QED
    BY <2>1, <1>2, SameAccounts DEF EnrolmentInv, AccountsAreDistinct
<1>9. \A v \in Workers \ {w} : job[v].op = "create_device" => job[v].id # d
  BY <1>2, Types DEF Fresh
<1>10. DevicesInv'
  BY <1>2, <1>3, <1>5, <1>6, <1>9 DEF EnrolmentInv, DevicesInv
<1>11. EnrolsAlone'
  <2>1. \A c : Enrolling(c)' = Enrolling(c)
    BY <1>4, <1>5, <1>6, Types DEF Enrolling
  <2> QED
    BY <1>2, <1>5, <1>6, <2>1 DEF EnrolmentInv, EnrolsAlone
<1> QED
  BY <1>7, <1>8, <1>10, <1>11 DEF EnrolmentInv

LEMMA CommitDeviceStep ==
  ASSUME EnrolmentInv, NEW w \in Workers, CommitDevice(w)
  PROVE  EnrolmentInv'
<1> DEFINE j == job[w]
<1>1. /\ j \in Job /\ j.op = "create_device" /\ Done(w)
      /\ UNCHANGED <<user, drawn, given, lost, raced>>
  BY Types DEF CommitDevice
<1>2. /\ j.id \in Devices /\ j.row \in Device
      /\ device[j.id] = None /\ j.row.status = "PENDING"
      /\ j.row.secret = None
      /\ \A v \in Workers \ {w} :
           job[v].op = "create_device" => job[v].id # j.id
  BY <1>1, JobFields DEF EnrolmentInv, DevicesInv
<1>3. CASE Known(j.row.uid)
  <2>1. device' = device
    BY <1>3 DEF CommitDevice
  <2>2. \A d \in Devices : given[d] # {} => device[d] # None
    BY DEF EnrolmentInv, DevicesInv
  <2> QED
    BY <1>1, <2>1, <2>2, Types, DoneStep DEF TypeOK
<1>4. CASE ~ Known(j.row.uid)
  <2>1. /\ device' = [device EXCEPT ![j.id] = j.row]
        /\ device'[j.id] = j.row
        /\ \A d \in Devices \ {j.id} : device'[d] = device[d]
    BY <1>2, <1>4, Types DEF CommitDevice
  <2>2. /\ job' = [job EXCEPT ![w] = NoJob] /\ job'[w] = NoJob
        /\ \A v \in Workers \ {w} : job'[v] = job[v]
    BY <1>1, Types DEF Done
  <2>3. TypeOK'
    BY <1>1, <1>2, <2>1, <2>2, Types DEF TypeOK
  <2>4. AccountsAreDistinct' /\ CredentialsTogether' /\ AccountsInv'
    <3>1. \A v \in Workers : job'[v].op \in UserOps => job'[v] = job[v]
      BY <2>2, Types DEF UserOps
    <3>2. \A c, d \in Devices :
            c # d /\ None \notin {device'[c], device'[d]}
              => device'[c].uid # device'[d].uid
      BY <1>4, <2>1 DEF Known, EnrolmentInv, AccountsAreDistinct
    <3> QED
      BY <3>1, <3>2, <1>1, SameAccounts
  <2>5. \A v \in Workers : job'[v].op \in EnrolOps => job[v].id # j.id
    BY <1>1, <1>2, <2>2, Types DEF EnrolmentInv, DevicesInv, EnrolOps
  <2>6. DevicesInv'
    <3>1. \A v \in Workers \ {w} :
            job[v].op \in EnrolOps => device'[job[v].id] # None
      BY <2>1, <2>2, <2>5, Types, JobFields DEF EnrolmentInv, DevicesInv, EnrolOps
    <3> QED
      BY <1>1, <1>2, <2>1, <2>2, <3>1, Types
         DEF EnrolmentInv, DevicesInv, EnrolOps
  <2>7. EnrolsAlone'
    <3>1. \A d : Enrolling(d)' = Enrolling(d) \ {w}
      BY <2>2, Types DEF Enrolling
    <3>2. \A v \in Workers \ {w} : job[v].op \in EnrolOps =>
            job[v].id \in Devices /\ device'[job[v].id] = device[job[v].id]
      BY <2>1, <2>2, <2>5, Types, JobFields
    <3> QED
      BY <1>1, <2>2, <3>1, <3>2 DEF EnrolmentInv, EnrolsAlone, EnrolOps
  <2> QED
    BY <2>3, <2>4, <2>6, <2>7 DEF EnrolmentInv
<1> QED
  BY <1>3, <1>4

-----------------------------------------------------------------------------
(* Enrolment                                                               *)

\* A call decides to enrol a pending device with a secret of its own.
LEMMA EnrollStep ==
  ASSUME EnrolmentInv, NEW w \in Workers, NEW d \in Devices, Enroll(w, d)
  PROVE  EnrolmentInv'
<1>1. PICK s \in Secrets \ drawn :
        /\ drawn' = drawn \cup {s}
        /\ Begin(w, [op |-> "enroll", id |-> d, secret |-> s])
  BY DEF Enroll, Draw
<1>2. /\ device[d] # None /\ device[d].status = "PENDING"
      /\ raced' = IF Enrolling(d) = {} THEN raced ELSE raced \cup {d}
      /\ UNCHANGED <<user, device, given, lost>>
  BY DEF Enroll, Draw
<1> DEFINE j == [op |-> "enroll", id |-> d, secret |-> s]
<1>3. job[w] = NoJob /\ job' = [job EXCEPT ![w] = j]
  BY <1>1 DEF Begin
<1>4. j \in Job /\ j.op = "enroll" /\ j.id = d
  BY DEF Job
<1> HIDE DEF j
<1>5. job'[w] = j /\ \A v \in Workers \ {w} : job'[v] = job[v]
  BY <1>3, Types
<1>6. TypeOK'
  BY <1>1, <1>2, <1>3, <1>4, Types DEF TypeOK
<1>7. AccountsAreDistinct' /\ CredentialsTogether' /\ AccountsInv'
  <2>1. \A v \in Workers : job'[v].op \in UserOps => job'[v] = job[v]
    BY <1>4, <1>5 DEF UserOps
  <2> QED
    BY <2>1, <1>2, SameAccounts DEF EnrolmentInv, AccountsAreDistinct
<1>8. DevicesInv'
  BY <1>2, <1>4, <1>5 DEF EnrolmentInv, DevicesInv
<1>9. EnrolsAlone'
  <2>1. /\ Enrolling(d)' = Enrolling(d) \cup {w}
        /\ \A c : c # d => Enrolling(c)' = Enrolling(c)
    BY <1>3, <1>4, <1>5, Types DEF Enrolling
  <2>2. \A v \in Workers : job[v].op = "enroll" => v \in Enrolling(job[v].id)
    BY DEF Enrolling
  <2>3. raced \subseteq raced' /\ (d \notin raced' => Enrolling(d) = {})
    BY <1>2
  <2>4. CASE d \in raced'
    BY <1>2, <1>4, <1>5, <2>1, <2>3, <2>4 DEF EnrolmentInv, EnrolsAlone
  <2>5. CASE d \notin raced'
    <3>1. \A v \in Workers \ {w} : job[v].op = "enroll" => job[v].id # d
      BY <2>2, <2>3, <2>5
    <3>2. Enrolling(d)' = {w}
      BY <2>1, <2>3, <2>5
    <3> QED
      BY <1>2, <1>4, <1>5, <2>1, <2>3, <3>1, <3>2
         DEF EnrolmentInv, EnrolsAlone
  <2> QED
    BY <2>4, <2>5
<1> QED
  BY <1>6, <1>7, <1>8, <1>9 DEF EnrolmentInv

\* What the commit of an enrolment writes.
LEMMA CommitEnrolmentEffect ==
  ASSUME EnrolmentInv, NEW w \in Workers, CommitEnrolment(w)
  PROVE  /\ job[w] \in Job /\ job[w].op = "enroll"
         /\ job[w].id \in Devices /\ job[w].secret \in Secrets
         /\ device[job[w].id] \in Device
         /\ device' \in [Devices -> Device \cup {None}]
         /\ device'[job[w].id] \in Device
         /\ device'[job[w].id].uid = device[job[w].id].uid
         /\ device'[job[w].id].status = "ACTIVE"
         /\ device'[job[w].id].secret = job[w].secret
         /\ \A d \in Devices \ {job[w].id} : device'[d] = device[d]
         /\ job' \in [Workers -> Job]
         /\ job'[w].op = "enrolled" /\ job'[w].id = job[w].id
         /\ job'[w].secret = job[w].secret
         /\ \A v \in Workers \ {w} : job'[v] = job[v]
<1> DEFINE j == job[w]
           d == job[w].id
           row == [device[d] EXCEPT !.status = "ACTIVE", !.secret = j.secret]
           next == [j EXCEPT !.op = "enrolled"]
<1>1. j \in Job /\ j.op = "enroll"
  BY Types DEF CommitEnrolment
<1>2. d \in Devices /\ j.secret \in Secrets
  BY <1>1, JobFields DEF EnrolOps
<1>3. device[d] \in Device
  BY <1>1, <1>2, Types DEF EnrolmentInv, DevicesInv
<1>4. /\ row \in Device /\ row.uid = device[d].uid
      /\ row.status = "ACTIVE" /\ row.secret = j.secret
  BY <1>2, <1>3 DEF Device, Status
<1>5. device' = [device EXCEPT ![d] = row]
  BY <1>2, Types DEF CommitEnrolment
<1>6. /\ next \in Job /\ next.op = "enrolled"
      /\ next.id = d /\ next.secret = j.secret
  BY <1>1, <1>2 DEF Job, NoJob
<1>7. job' = [job EXCEPT ![w] = next]
  BY DEF CommitEnrolment
<1> HIDE DEF row, next
<1> QED
  BY <1>1, <1>2, <1>3, <1>4, <1>5, <1>6, <1>7, Types

LEMMA CommitEnrolmentStep ==
  ASSUME EnrolmentInv, NEW w \in Workers, CommitEnrolment(w)
  PROVE  EnrolmentInv'
<1> DEFINE d == job[w].id
<1>1. UNCHANGED <<user, drawn, given, lost, raced>>
  BY DEF CommitEnrolment
<1>2. TypeOK'
  BY <1>1, CommitEnrolmentEffect, Types DEF TypeOK
<1>3. device[d] # None
  BY CommitEnrolmentEffect DEF EnrolmentInv, DevicesInv
<1>4. AccountsAreDistinct' /\ CredentialsTogether' /\ AccountsInv'
  <2>1. \A v \in Workers : job'[v].op \in UserOps => job'[v] = job[v]
    BY CommitEnrolmentEffect DEF UserOps
  <2>2. \A b, c \in Devices :
          b # c /\ None \notin {device'[b], device'[c]}
            => device'[b].uid # device'[c].uid
    BY <1>3, CommitEnrolmentEffect DEF EnrolmentInv, AccountsAreDistinct
  <2> QED
    BY <2>1, <2>2, <1>1, SameAccounts
<1>5. device'[d] # None
  BY CommitEnrolmentEffect, EnrolmentRowAssumption
<1>6. DevicesInv'
  <2>1. \A v \in Workers :
          /\ job'[v].op = "create_device" => job'[v] = job[v] /\ v # w
          /\ job'[v].op \in EnrolOps =>
               job[v].op \in EnrolOps /\ job'[v].id = job[v].id
    BY CommitEnrolmentEffect DEF EnrolOps
  <2>2. \A c \in Devices : device'[c] # None <=> device[c] # None
    BY <1>3, <1>5, CommitEnrolmentEffect
  <2>3. \A v \in Workers :
          job[v].op \in {"create_device"} \cup EnrolOps => job[v].id \in Devices
    BY Types, JobFields
  <2>4. \A c \in Devices : device'[c] # None /\ device'[c].status = "PENDING"
                             => device'[c] = device[c]
    BY CommitEnrolmentEffect
  <2> QED
    BY <1>1, <2>1, <2>2, <2>3, <2>4 DEF EnrolmentInv, DevicesInv, EnrolOps
<1>7. EnrolsAlone'
  <2>1. \A c : Enrolling(c)' = Enrolling(c) \ {w}
    BY CommitEnrolmentEffect DEF Enrolling
  <2>2. ASSUME NEW v \in Workers \ {w}, job[v] # NoJob, job[v].id = d,
               d \notin raced
        PROVE  job[v].op \notin EnrolOps
    <3>1. device[d].status = "PENDING" /\ Enrolling(d) = {w}
      BY <2>2, CommitEnrolmentEffect, JobFields
         DEF EnrolmentInv, EnrolsAlone, EnrolOps
    <3>2. device[d].secret = None
      BY <3>1, <1>3, CommitEnrolmentEffect DEF EnrolmentInv, DevicesInv
    <3>3. job[v].op # "enroll"
      BY <2>2, <3>1 DEF Enrolling
    <3>4. job[v].op # "enrolled"
      BY <2>2, <3>2, Types, JobFields DEF EnrolmentInv, EnrolsAlone, EnrolOps
    <3> QED
      BY <3>3, <3>4 DEF EnrolOps
  <2>3. ASSUME NEW v \in Workers \ {w}, job[v] # NoJob, job[v].id # d,
               job[v].id \notin raced, job[v].op \in EnrolOps
        PROVE  /\ device'[job[v].id] = device[job[v].id]
               /\ Enrolling(job[v].id)' = Enrolling(job[v].id)
    <3>1. job[v].id \in Devices
      BY <2>3, Types, JobFields
    <3>2. w \notin Enrolling(job[v].id)
      BY <2>3 DEF Enrolling
    <3> QED
      BY <3>1, <3>2, <2>1, <2>3, CommitEnrolmentEffect
  <2> QED
    BY <1>1, <2>2, <2>3, CommitEnrolmentEffect
       DEF EnrolmentInv, EnrolsAlone, EnrolOps
<1> QED
  BY <1>2, <1>4, <1>6, <1>7 DEF EnrolmentInv

\* A device is revoked in the database.
LEMMA RevokeEffect ==
  ASSUME EnrolmentInv, NEW d \in Devices, Revoke(d)
  PROVE  /\ device[d] \in Device /\ device[d] # None
         /\ device' \in [Devices -> Device \cup {None}]
         /\ device'[d] \in Device /\ device'[d].status = "REVOKED"
         /\ device'[d].uid = device[d].uid
         /\ device'[d].secret = device[d].secret
         /\ \A c \in Devices \ {d} : device'[c] = device[c]
         /\ raced' = IF Enrolling(d) = {} THEN raced ELSE raced \cup {d}
         /\ UNCHANGED <<user, drawn, given, lost, job>>
<1> DEFINE row == [device[d] EXCEPT !.status = "REVOKED"]
<1>1. device[d] # None /\ device[d] \in Device
  BY Types DEF Revoke
<1>2. /\ row \in Device /\ row.uid = device[d].uid
      /\ row.status = "REVOKED" /\ row.secret = device[d].secret
  BY <1>1 DEF Device, Status
<1>3. device' = [device EXCEPT ![d] = row]
  BY DEF Revoke
<1> HIDE DEF row
<1>4. /\ raced' = IF Enrolling(d) = {} THEN raced ELSE raced \cup {d}
      /\ UNCHANGED <<user, drawn, given, lost, job>>
  BY DEF Revoke
<1> QED
  BY <1>1, <1>2, <1>3, <1>4, Types

LEMMA RevokeStep ==
  ASSUME EnrolmentInv, NEW d \in Devices, Revoke(d)
  PROVE  EnrolmentInv'
<1>1. TypeOK'
  BY RevokeEffect, Types DEF TypeOK
<1>2. AccountsAreDistinct' /\ CredentialsTogether' /\ AccountsInv'
  <2>1. \A b, c \in Devices :
          b # c /\ None \notin {device'[b], device'[c]}
            => device'[b].uid # device'[c].uid
    BY RevokeEffect DEF EnrolmentInv, AccountsAreDistinct
  <2> QED
    BY <2>1, RevokeEffect, SameAccounts
<1>3. device'[d] # None
  BY RevokeEffect, EnrolmentRowAssumption
<1>4. DevicesInv'
  <2>1. \A c \in Devices : device'[c] # None <=> device[c] # None
    BY <1>3, RevokeEffect
  <2>2. \A v \in Workers :
          job[v].op \in {"create_device"} \cup EnrolOps => job[v].id \in Devices
    BY Types, JobFields
  <2>3. \A c \in Devices : device'[c] # None /\ device'[c].status = "PENDING"
                             => device'[c] = device[c]
    BY RevokeEffect
  <2> QED
    BY <2>1, <2>2, <2>3, RevokeEffect DEF EnrolmentInv, DevicesInv, EnrolOps
<1>5. EnrolsAlone'
  <2>1. \A c : Enrolling(c)' = Enrolling(c)
    BY RevokeEffect DEF Enrolling
  <2>2. \A v \in Workers : job[v].op = "enroll" => v \in Enrolling(job[v].id)
    BY DEF Enrolling
  <2>3. raced \subseteq raced' /\ (d \notin raced' => Enrolling(d) = {})
    BY RevokeEffect
  <2>4. \A v \in Workers : job[v].op \in EnrolOps => job[v].id \in Devices
    BY Types, JobFields
  <2> QED
    BY <2>1, <2>2, <2>3, <2>4, RevokeEffect
       DEF EnrolmentInv, EnrolsAlone, EnrolOps
<1> QED
  BY <1>1, <1>2, <1>4, <1>5 DEF EnrolmentInv

\* The ends of a call that leave no row different.
LEMMA EndStep ==
  ASSUME EnrolmentInv, NEW w \in Workers,
         Answer(w) \/ AnswerLost(w) \/ Dies(w)
  PROVE  EnrolmentInv'
<1>1. \A d \in Devices : given[d] # {} => device[d] # None
  BY DEF EnrolmentInv, DevicesInv
<1>2. lost \subseteq Devices
  BY Types DEF TypeOK
<1>3. job[w].op = "enrolled" =>
        /\ job[w].id \in Devices /\ job[w].secret \in Secrets
        /\ device[job[w].id] # None
  BY Types, JobFields DEF EnrolmentInv, DevicesInv, EnrolOps
<1>4. CASE Answer(w)
  <2>1. /\ given' = [given EXCEPT ![job[w].id] = @ \cup {job[w].secret}]
        /\ job[w].op = "enrolled"
    BY <1>4 DEF Answer
  <2>2. /\ given' \in [Devices -> SUBSET Secrets]
        /\ \A d \in Devices : given'[d] # {} => device[d] # None
    BY <2>1, <1>1, <1>3, Types
  <2> QED
    BY <1>2, <1>4, <2>2, DoneStep DEF Answer
<1>5. CASE AnswerLost(w)
  BY <1>1, <1>2, <1>3, <1>5, Types, DoneStep DEF AnswerLost
<1>6. CASE Dies(w)
  BY <1>1, <1>2, <1>6, Types, DoneStep DEF Dies
<1> QED
  BY <1>4, <1>5, <1>6

-----------------------------------------------------------------------------
(* The inductive invariant                                                 *)

LEMMA EnrolmentStep ==
  ASSUME EnrolmentInv, [Next]_vars
  PROVE  EnrolmentInv'
<1>1. CASE UNCHANGED vars
  BY <1>1 DEF vars, EnrolmentInv, TypeOK, AccountsAreDistinct,
     CredentialsTogether, AccountsInv, Folded, DevicesInv, EnrolsAlone,
     Enrolling
<1> QED
  BY <1>1, CreateUserStep, UpdateUserStep, CommitUserStep, CreateDeviceStep,
     CommitDeviceStep, EnrollStep, CommitEnrolmentStep, EndStep, RevokeStep
     DEF Next

\* Names, addresses and identifiers stay apart, credentials stay together, and
\* a call that enrols a device alone enrols a pending one, whatever ran at
\* once.
THEOREM EnrolmentInvariant == Spec => []EnrolmentInv
<1>1. Init => EnrolmentInv
  BY InitEnrolment
<1>2. EnrolmentInv /\ [Next]_vars => EnrolmentInv'
  BY EnrolmentStep
<1> QED
  BY <1>1, <1>2, PTL DEF Spec

-----------------------------------------------------------------------------
(* The secrets                                                             *)

\* What a step keeps that neither commits an enrolment nor answers one.
Quiet ==
  /\ given' = given /\ lost' = lost /\ raced \subseteq raced'
  /\ \A d \in Devices :
       device[d] # None =>
         /\ device'[d].secret = device[d].secret
         /\ device'[d].status \in {device[d].status, "REVOKED"}
  /\ \A d \in Devices :
       device[d] = None /\ device'[d] # None => device'[d].secret = None
  /\ \A w \in Workers : job[w].op = "enrolled" => job'[w] = job[w]

LEMMA QuietStep ==
  ASSUME EnrolmentInv, [Next]_vars,
         \A w \in Workers : ~ CommitEnrolment(w) /\ ~ Answer(w)
                            /\ ~ AnswerLost(w)
  PROVE  Quiet
<1>1. ASSUME NEW w \in Workers, NEW j, job[w].op # "enrolled",
             job' = [job EXCEPT ![w] = j]
      PROVE  \A v \in Workers : job[v].op = "enrolled" => job'[v] = job[v]
  BY <1>1, Types
<1>2. ASSUME NEW w \in Workers, NEW j, Begin(w, j)
      PROVE  \A v \in Workers : job[v].op = "enrolled" => job'[v] = job[v]
  BY <1>1, <1>2, Types DEF Begin
<1>3. ASSUME NEW w \in Workers, CommitUser(w) \/ CommitDevice(w) \/ Dies(w)
      PROVE  \A v \in Workers : job[v].op = "enrolled" => job'[v] = job[v]
  BY <1>1, <1>3 DEF CommitUser, CommitDevice, Dies, Done
<1>4. ASSUME NEW w \in Workers, NEW u \in Users,
             CreateUser(w, u) \/ UpdateUser(w, u)
      PROVE  Quiet
  <2>1. \A v \in Workers : job[v].op = "enrolled" => job'[v] = job[v]
    BY <1>2, <1>4 DEF CreateUser, UpdateUser
  <2>2. UNCHANGED <<device, given, lost, raced>>
    BY <1>4 DEF CreateUser, UpdateUser
  <2> QED
    BY <2>1, <2>2 DEF Quiet
<1>5. ASSUME NEW w \in Workers, NEW d \in Devices,
             CreateDevice(w, d) \/ Enroll(w, d)
      PROVE  Quiet
  <2>1. \A v \in Workers : job[v].op = "enrolled" => job'[v] = job[v]
    BY <1>2, <1>5 DEF CreateDevice, Enroll, Draw
  <2>2. UNCHANGED <<device, given, lost>> /\ raced \subseteq raced'
    BY <1>5 DEF CreateDevice, Enroll, Draw
  <2> QED
    BY <2>1, <2>2 DEF Quiet
<1>6. ASSUME NEW w \in Workers, CommitUser(w) \/ Dies(w)
      PROVE  Quiet
  <2>1. UNCHANGED <<device, given, lost, raced>>
    BY <1>6 DEF CommitUser, Dies
  <2> QED
    BY <2>1, <1>3, <1>6 DEF Quiet
<1>7. ASSUME NEW w \in Workers, CommitDevice(w)
      PROVE  Quiet
  <2> DEFINE j == job[w]
  <2>1. /\ UNCHANGED <<given, lost, raced>>
        /\ device' = device \/ device' = [device EXCEPT ![j.id] = j.row]
    BY <1>7 DEF CommitDevice
  <2>2. device[j.id] = None /\ j.row.secret = None
    BY <1>7 DEF CommitDevice, EnrolmentInv, DevicesInv
  <2>3. \A d \in Devices : device[d] # None => device'[d] = device[d]
    BY <2>1, <2>2, Types
  <2>4. \A d \in Devices :
          device[d] = None /\ device'[d] # None => device'[d].secret = None
    BY <2>1, <2>2, Types
  <2> QED
    BY <2>1, <2>3, <2>4, <1>3, <1>7 DEF Quiet
<1>8. ASSUME NEW d \in Devices, Revoke(d)
      PROVE  Quiet
  BY <1>8, RevokeEffect DEF Quiet
<1>9. CASE UNCHANGED vars
  BY <1>9 DEF vars, Quiet
<1> QED
  BY <1>4, <1>5, <1>6, <1>7, <1>8, <1>9 DEF Next

\* An answer leaves every row as it is.
LEMMA AnswerEffect ==
  ASSUME EnrolmentInv, NEW w \in Workers, Answer(w) \/ AnswerLost(w)
  PROVE  /\ job[w].op = "enrolled"
         /\ job[w].id \in Devices /\ job[w].secret \in Secrets
         /\ device' = device /\ raced' = raced
         /\ \A v \in Workers \ {w} : job'[v] = job[v]
         /\ \A d \in Devices : given[d] \subseteq given'[d]
         /\ \A d \in Devices \ {job[w].id} : given'[d] = given[d]
         /\ Answer(w) => /\ lost' = lost
                         /\ given'[job[w].id] =
                              given[job[w].id] \cup {job[w].secret}
         /\ AnswerLost(w) => given' = given /\ lost' = lost \cup {job[w].id}
<1>1. job[w].op = "enrolled"
  BY DEF Answer, AnswerLost
<1>2. job[w].id \in Devices /\ job[w].secret \in Secrets
  BY <1>1, Types, JobFields DEF EnrolOps
<1>3. CASE Answer(w)
  BY <1>1, <1>2, <1>3, Types DEF Answer, Done, AnswerLost
<1>4. CASE AnswerLost(w)
  BY <1>1, <1>2, <1>4, Types DEF Answer, Done, AnswerLost
<1>5. Answer(w) => lost' = lost
  BY DEF Answer
<1>6. Answer(w) => given'[job[w].id] = given[job[w].id] \cup {job[w].secret}
  BY <1>2, Types DEF Answer
<1>7. AnswerLost(w) => given' = given /\ lost' = lost \cup {job[w].id}
  BY DEF AnswerLost
<1> QED
  BY <1>1, <1>2, <1>3, <1>4, <1>5, <1>6, <1>7

\* A secret the server has stored is in somebody's hands, or on its way there,
\* unless the one answer that showed it was lost.
THEOREM Secret == Spec => []SecretInHand
<1>1. Init => SecretInHand
  BY DEF Init, SecretInHand
<1>2. ASSUME EnrolmentInv, SecretInHand, [Next]_vars
      PROVE  SecretInHand'
  <2>1. CASE \A w \in Workers : ~ CommitEnrolment(w) /\ ~ Answer(w)
                                /\ ~ AnswerLost(w)
    <3>1. Quiet
      BY <1>2, <2>1, QuietStep
    <3> QED
      BY <1>2, <3>1 DEF Quiet, SecretInHand
  <2>2. ASSUME NEW w \in Workers, CommitEnrolment(w)
        PROVE  SecretInHand'
    <3>1. UNCHANGED <<given, lost>>
      BY <2>2 DEF CommitEnrolment
    <3>2. ASSUME NEW d \in Devices \ {job[w].id}, d \notin lost,
                 device[d] # None, device[d].secret # None,
                 device[d].secret \notin given[d]
          PROVE  \E v \in Workers : /\ job'[v].op = "enrolled"
                                    /\ job'[v].id = d
                                    /\ job'[v].secret = device[d].secret
      <4>1. PICK v \in Workers : /\ job[v].op = "enrolled"
                                 /\ job[v].id = d
                                 /\ job[v].secret = device[d].secret
        BY <1>2, <3>2 DEF SecretInHand
      <4>2. job'[v] = job[v]
        BY <1>2, <2>2, <4>1, CommitEnrolmentEffect
      <4> QED
        BY <4>1, <4>2
    <3> QED
      BY <1>2, <2>2, <3>1, <3>2, CommitEnrolmentEffect DEF SecretInHand
  <2>3. ASSUME NEW w \in Workers, Answer(w) \/ AnswerLost(w)
        PROVE  SecretInHand'
    <3>1. ASSUME NEW d \in Devices, d \notin lost',
                 device'[d] # None, device'[d].secret # None,
                 device'[d].secret \notin given'[d]
          PROVE  \E v \in Workers : /\ job'[v].op = "enrolled"
                                    /\ job'[v].id = d
                                    /\ job'[v].secret = device'[d].secret
      <4>1. device'[d] = device[d] /\ d \notin lost
            /\ device[d].secret \notin given[d]
        BY <1>2, <2>3, <3>1, AnswerEffect
      <4>2. PICK v \in Workers : /\ job[v].op = "enrolled"
                                 /\ job[v].id = d
                                 /\ job[v].secret = device[d].secret
        BY <1>2, <3>1, <4>1 DEF SecretInHand
      <4>3. v # w
        BY <1>2, <2>3, <3>1, <4>1, <4>2, AnswerEffect
      <4> QED
        BY <1>2, <2>3, <4>1, <4>2, <4>3, AnswerEffect
    <3> QED
      BY <3>1 DEF SecretInHand
  <2> QED
    BY <2>1, <2>2, <2>3
<1> QED
  BY <1>1, <1>2, EnrolmentInvariant, PTL DEF Spec

\* A secret an administrator was given is the one the server checks, unless
\* two enrolments of the device ran at once.
THEOREM Given == Spec => []GivenIsStored
<1>1. Init => GivenIsStored
  BY DEF Init, GivenIsStored
<1>2. ASSUME EnrolmentInv, GivenIsStored, [Next]_vars
      PROVE  GivenIsStored'
  <2>1. CASE \A w \in Workers : ~ CommitEnrolment(w) /\ ~ Answer(w)
                                /\ ~ AnswerLost(w)
    <3>1. Quiet
      BY <1>2, <2>1, QuietStep
    <3>2. \A d \in Devices : given[d] # {} => device[d] # None
      BY <1>2 DEF EnrolmentInv, DevicesInv
    <3> QED
      BY <1>2, <3>1, <3>2 DEF Quiet, GivenIsStored
  <2>2. ASSUME NEW w \in Workers, CommitEnrolment(w)
        PROVE  GivenIsStored'
    <3> DEFINE d == job[w].id
    <3>1. UNCHANGED <<given, raced>>
      BY <2>2 DEF CommitEnrolment
    <3>2. d \notin raced => given[d] = {}
      <4>1. d \notin raced => device[d].status = "PENDING"
        BY <1>2, <2>2, CommitEnrolmentEffect, JobFields
           DEF EnrolmentInv, EnrolsAlone
      <4>2. d \notin raced => device[d].secret = None
        BY <1>2, <2>2, <4>1, CommitEnrolmentEffect, EnrolmentRowAssumption
           DEF EnrolmentInv, DevicesInv
      <4>3. given[d] \subseteq Secrets
        BY <1>2, <2>2, Types, CommitEnrolmentEffect
      <4> QED
        BY <1>2, <2>2, <4>2, <4>3, CommitEnrolmentEffect DEF GivenIsStored
    <3> QED
      BY <1>2, <2>2, <3>1, <3>2, CommitEnrolmentEffect DEF GivenIsStored
  <2>3. ASSUME NEW w \in Workers, Answer(w) \/ AnswerLost(w)
        PROVE  GivenIsStored'
    <3>1. job[w].id \notin raced => device[job[w].id].secret = job[w].secret
      BY <1>2, <2>3, AnswerEffect, JobFields, Types
         DEF EnrolmentInv, EnrolsAlone
    <3> QED
      BY <1>2, <2>3, <3>1, AnswerEffect DEF GivenIsStored
  <2> QED
    BY <2>1, <2>2, <2>3
<1> QED
  BY <1>1, <1>2, EnrolmentInvariant, PTL DEF Spec

\* A revoked device stays revoked, unless it was revoked while it was being
\* enrolled.
THEOREM Revoked == Spec => RevokedStays
<1>1. ASSUME EnrolmentInv, [Next]_vars, NEW d \in Devices,
             device[d] # None, device[d].status = "REVOKED", d \notin raced
      PROVE  device'[d].status = "REVOKED"
  <2>1. CASE \A w \in Workers : ~ CommitEnrolment(w) /\ ~ Answer(w)
                                /\ ~ AnswerLost(w)
    BY <1>1, <2>1, QuietStep DEF Quiet
  <2>2. ASSUME NEW w \in Workers, CommitEnrolment(w)
        PROVE  device'[d].status = "REVOKED"
    <3>1. job[w].id # d
      BY <1>1, <2>2, CommitEnrolmentEffect, JobFields
         DEF EnrolmentInv, EnrolsAlone
    <3> QED
      BY <1>1, <2>2, <3>1, CommitEnrolmentEffect
  <2>3. ASSUME NEW w \in Workers, Answer(w) \/ AnswerLost(w)
        PROVE  device'[d].status = "REVOKED"
    BY <1>1, <2>3, AnswerEffect
  <2> QED
    BY <2>1, <2>2, <2>3
<1>2. EnrolmentInv /\ [Next]_vars =>
        [\A d \in Devices :
           /\ device[d] # None /\ device[d].status = "REVOKED"
           /\ d \notin raced
           => device'[d].status = "REVOKED"]_vars
  BY <1>1
<1> QED
  BY <1>2, EnrolmentInvariant, PTL DEF RevokedStays, Spec
==============================================================================
