------------------------------ MODULE Enrolment ------------------------------
(***************************************************************************)
(* The administrator's accounts and devices (app/api/users.py and          *)
(* app/api/devices.py).  Each handler reads, decides, and writes when it   *)
(* commits; nothing is locked in between, so two calls that run at once    *)
(* may decide on the same reading.  Unique names, addresses and device     *)
(* identifiers are constraints of the database and fail the later commit;  *)
(* the secret of a device is not protected by any.                         *)
(*                                                                         *)
(* A spelling is a name as it is typed; names are stored folded (strip,    *)
(* and lower or upper case).  The secret of a device leaves the server     *)
(* once, in the answer of its enrolment.                                   *)
(***************************************************************************)
EXTENDS FiniteSets

CONSTANTS
  Users,      \* ids of user rows
  Spellings,  \* user names and addresses as typed
  Fold,       \* the stored form of a spelling
  Devices,    \* ids of device rows
  Uids,       \* device identifiers, folded
  Secrets,    \* secrets.token_hex(32): never drawn twice
  Workers,    \* threads of the ASGI server
  None

ASSUME EnrolmentAssumption ==
  /\ Fold \in [Spellings -> Spellings]
  /\ \A s \in Spellings : Fold[Fold[s]] = Fold[s]
  /\ None \notin Users \cup Spellings \cup Devices \cup Uids \cup Secrets

Account == [name: Spellings, email: Spellings \cup {None}, password: BOOLEAN]

\* DeviceStatus.
Status == {"PENDING", "ACTIVE", "REVOKED"}

Device == [uid: Uids, owner: Users, status: Status,
           secret: Secrets \cup {None}]

\* No row is None.
ASSUME EnrolmentRowAssumption == None \notin Account \cup Device

VARIABLES
  user,     \* committed accounts
  device,   \* committed devices
  drawn,    \* secrets drawn so far
  given,    \* the secrets an administrator was given for a device
  lost,     \* devices an answer with a secret was lost for
  raced,    \* devices written by two calls, or a call and the database's
            \* administrator, at once
  job

vars == <<user, device, drawn, given, lost, raced, job>>

NoJob == [op |-> "none"]

Job ==
  {NoJob}
  \cup [op: {"create_user", "update_user"}, id: Users, row: Account]
  \cup [op: {"create_device"}, id: Devices, row: Device]
  \cup [op: {"enroll", "enrolled"}, id: Devices, secret: Secrets]

TypeOK ==
  /\ user \in [Users -> Account \cup {None}]
  /\ device \in [Devices -> Device \cup {None}]
  /\ drawn \subseteq Secrets
  /\ given \in [Devices -> SUBSET Secrets]
  /\ lost \subseteq Devices
  /\ raced \subseteq Devices
  /\ job \in [Workers -> Job]

Init ==
  /\ user = [u \in Users |-> None]
  /\ device = [d \in Devices |-> None]
  /\ drawn = {}
  /\ given = [d \in Devices |-> {}]
  /\ lost = {}
  /\ raced = {}
  /\ job = [w \in Workers |-> NoJob]

\* uuid4: an id no row and no other call has.
Fresh(id) == id \notin {job[w].id : w \in {v \in Workers : job[v] # NoJob}}

Begin(w, j) == job[w] = NoJob /\ job' = [job EXCEPT ![w] = j]

Done(w) == job' = [job EXCEPT ![w] = NoJob]

-----------------------------------------------------------------------------
(* Accounts.                                                               *)

\* Mutation: the name is stored as it is typed.
Typed(s) == s

\* strip() and lower(), normalize_email.
Normalized(s) == Fold[s]

Named(name) == \E u \in Users : user[u] # None /\ user[u].name = name

Addressed(email, others) ==
  \E u \in others : user[u] # None /\ user[u].email = email

\* create_user: address and password come together, name and address are
\* free.
CreateUser(w, u) ==
  \E s \in Spellings, e \in Spellings \cup {None} :
    LET email == IF e = None THEN None ELSE Normalized(e) IN
    /\ user[u] = None /\ Fresh(u)
    /\ ~ Named(Normalized(s))
    /\ email # None => ~ Addressed(email, Users)
    /\ Begin(w, [op |-> "create_user", id |-> u,
                 row |-> [name |-> Normalized(s), email |-> email,
                          password |-> e # None]])
    /\ UNCHANGED <<user, device, drawn, given, lost, raced>>

\* update_user_credentials: only the address and the password are written.
UpdateUser(w, u) ==
  \E e \in Spellings :
    /\ user[u] # None
    /\ ~ Addressed(Normalized(e), Users \ {u})
    /\ Begin(w, [op |-> "update_user", id |-> u,
                 row |-> [user[u] EXCEPT !.email = Normalized(e),
                                         !.password = TRUE]])
    /\ UNCHANGED <<user, device, drawn, given, lost, raced>>

\* The unique constraints of the table users.
Unique(u, row) ==
  \A v \in Users \ {u} :
    user[v] # None => /\ user[v].name # row.name
                      /\ row.email # None => user[v].email # row.email

\* The commit; an IntegrityError is answered 409.
CommitUser(w) ==
  LET j == job[w] IN
  /\ j.op \in {"create_user", "update_user"}
  /\ user' = IF Unique(j.id, j.row) THEN [user EXCEPT ![j.id] = j.row]
                                    ELSE user
  /\ Done(w)
  /\ UNCHANGED <<device, drawn, given, lost, raced>>

-----------------------------------------------------------------------------
(* Devices.                                                                *)

Known(uid) == \E d \in Devices : device[d] # None /\ device[d].uid = uid

\* create_device; every account is ACTIVE, since no route changes that.
CreateDevice(w, d) ==
  \E uid \in Uids, u \in Users :
    /\ device[d] = None /\ Fresh(d)
    /\ user[u] # None
    /\ ~ Known(uid)
    /\ Begin(w, [op |-> "create_device", id |-> d,
                 row |-> [uid |-> uid, owner |-> u, status |-> "PENDING",
                          secret |-> None]])
    /\ UNCHANGED <<user, device, drawn, given, lost, raced>>

CommitDevice(w) ==
  LET j == job[w] IN
  /\ j.op = "create_device"
  /\ device' = IF Known(j.row.uid) THEN device
                                   ELSE [device EXCEPT ![j.id] = j.row]
  /\ Done(w)
  /\ UNCHANGED <<user, drawn, given, lost, raced>>

Enrolling(d) == {v \in Workers : job[v].op = "enroll" /\ job[v].id = d}

Draw(w, d) ==
  /\ \E s \in Secrets \ drawn :
       /\ drawn' = drawn \cup {s}
       /\ Begin(w, [op |-> "enroll", id |-> d, secret |-> s])
  /\ raced' = IF Enrolling(d) = {} THEN raced ELSE raced \cup {d}
  /\ UNCHANGED <<user, device, given, lost>>

\* Mutation: an enrolled device may be enrolled again.
EnrollAgain(w, d) ==
  /\ device[d] # None
  /\ device[d].status # "REVOKED"
  /\ Draw(w, d)

\* Mutation: a revoked device may be enrolled.
EnrollRevoked(w, d) ==
  /\ device[d] # None
  /\ device[d].status # "ACTIVE"
  /\ Draw(w, d)

\* enroll_device: neither revoked nor enrolled, and a fresh secret.
Enroll(w, d) ==
  /\ device[d] # None
  /\ device[d].status = "PENDING"
  /\ Draw(w, d)

\* The commit writes what the handler decided, whatever the row is by now.
CommitEnrolment(w) ==
  LET j == job[w] IN
  /\ j.op = "enroll"
  /\ device' = [device EXCEPT ![j.id].status = "ACTIVE",
                              ![j.id].secret = j.secret]
  /\ job' = [job EXCEPT ![w] = [j EXCEPT !.op = "enrolled"]]
  /\ UNCHANGED <<user, drawn, given, lost, raced>>

\* Mutation: the answer draws a secret of its own.
AnswerFresh(w) ==
  LET j == job[w] IN
  /\ j.op = "enrolled"
  /\ \E s \in Secrets \ drawn :
       /\ given' = [given EXCEPT ![j.id] = @ \cup {s}]
       /\ drawn' = drawn \cup {s}
  /\ Done(w)
  /\ UNCHANGED <<user, device, lost, raced>>

\* The answer shows the secret the handler has drawn.
Answer(w) ==
  LET j == job[w] IN
  /\ j.op = "enrolled"
  /\ given' = [given EXCEPT ![j.id] = @ \cup {j.secret}]
  /\ Done(w)
  /\ UNCHANGED <<user, device, drawn, lost, raced>>

\* The process or the connection dies after the commit.
AnswerLost(w) ==
  LET j == job[w] IN
  /\ j.op = "enrolled"
  /\ lost' = lost \cup {j.id}
  /\ Done(w)
  /\ UNCHANGED <<user, device, drawn, given, raced>>

\* Before the commit nothing is left behind.
Dies(w) ==
  /\ job[w].op \notin {"none", "enrolled"}
  /\ Done(w)
  /\ UNCHANGED <<user, device, drawn, given, lost, raced>>

\* No route revokes a device: its row is changed in the database.
Revoke(d) ==
  /\ device[d] # None
  /\ device' = [device EXCEPT ![d].status = "REVOKED"]
  /\ raced' = IF Enrolling(d) = {} THEN raced ELSE raced \cup {d}
  /\ UNCHANGED <<user, drawn, given, lost, job>>

Next ==
  \/ \E w \in Workers :
       \/ \E u \in Users : CreateUser(w, u) \/ UpdateUser(w, u)
       \/ \E d \in Devices : CreateDevice(w, d) \/ Enroll(w, d)
       \/ CommitUser(w) \/ CommitDevice(w) \/ CommitEnrolment(w)
       \/ Answer(w) \/ AnswerLost(w) \/ Dies(w)
  \/ \E d \in Devices : Revoke(d)

Spec == Init /\ [][Next]_vars

-----------------------------------------------------------------------------
(* Properties.                                                             *)

\* No two accounts differ in the spelling of their name or address only,
\* and no two devices have one identifier, whatever calls ran at once.
AccountsAreDistinct ==
  /\ \A c, d \in Devices :
       c # d /\ None \notin {device[c], device[d]}
         => device[c].uid # device[d].uid
  /\ \A u, v \in Users :
       u # v /\ None \notin {user[u], user[v]} =>
         /\ Fold[user[u].name] # Fold[user[v].name]
         /\ user[u].email # None /\ user[v].email # None
              => Fold[user[u].email] # Fold[user[v].email]

\* create_user and update_user_credentials never leave an address without a
\* password or a password without an address.
CredentialsTogether ==
  \A u \in Users :
    user[u] # None => (user[u].email # None) = user[u].password

\* A name and an address as they are stored.
Folded(row) ==
  /\ Fold[row.name] = row.name
  /\ row.email # None => Fold[row.email] = row.email

\* Every account, and every account a call is about to write, is folded, and
\* what a call is about to write has an address if it has a password.
AccountsInv ==
  /\ \A u \in Users : user[u] # None => Folded(user[u])
  /\ \A w \in Workers :
       job[w].op \in {"create_user", "update_user"} =>
         /\ Folded(job[w].row)
         /\ (job[w].row.email # None) = job[w].row.password

\* A row is created once and stays; until it is enrolled it has no secret.
DevicesInv ==
  /\ \A w \in Workers :
       job[w].op = "create_device" =>
         /\ device[job[w].id] = None
         /\ job[w].row.status = "PENDING" /\ job[w].row.secret = None
         /\ \A v \in Workers \ {w} :
              job[v].op = "create_device" => job[v].id # job[w].id
  /\ \A w \in Workers :
       job[w].op \in {"enroll", "enrolled"} => device[job[w].id] # None
  /\ \A d \in Devices :
       /\ given[d] # {} => device[d] # None
       /\ device[d] # None /\ device[d].status = "PENDING"
            => device[d].secret = None

\* Where nothing raced, one call enrols a device that is still pending, and
\* the secret it answers with is the one that is stored.
EnrolsAlone ==
  \A w \in Workers : job[w] # NoJob /\ job[w].id \notin raced =>
    /\ job[w].op = "enroll" =>
         /\ device[job[w].id].status = "PENDING"
         /\ Enrolling(job[w].id) = {w}
    /\ job[w].op = "enrolled" => device[job[w].id].secret = job[w].secret

\* What must hold of the rows after every commit, whoever raced, and of what
\* the calls in between have decided to write.
EnrolmentInv ==
  /\ TypeOK
  /\ AccountsAreDistinct /\ CredentialsTogether /\ AccountsInv
  /\ DevicesInv /\ EnrolsAlone

\* The secret of an enrolled device is in somebody's hands, or on its way,
\* unless an answer was lost: then nobody knows it, and /enroll refuses to
\* make another one.
SecretInHand ==
  \A d \in Devices :
    device[d] # None /\ device[d].secret # None /\ d \notin lost =>
      \/ device[d].secret \in given[d]
      \/ \E w \in Workers :
           /\ job[w].op = "enrolled"
           /\ job[w].id = d
           /\ job[w].secret = device[d].secret

\* A secret that was given to an administrator stays the one the server
\* checks, unless two enrolments of the device ran at once: both are
\* answered 200, and the earlier answer is worthless.
GivenIsStored ==
  \A d \in Devices \ raced : \A s \in given[d] : device[d].secret = s

\* A revoked device does not come back, unless it was revoked while it was
\* being enrolled.
RevokedStays ==
  [][\A d \in Devices :
       /\ device[d] # None /\ device[d].status = "REVOKED"
       /\ d \notin raced
       => device'[d].status = "REVOKED"]_vars

=============================================================================
