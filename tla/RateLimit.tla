------------------------------ MODULE RateLimit ------------------------------
(***************************************************************************)
(* The rate limit of the device routes (app/security/rate_limit.py and the *)
(* first checks of /next, /status, /challenge, /complete and /sign).  The  *)
(* limiter keeps nothing of its own: it counts the failures of a device    *)
(* and address in the audit trail, and the calls it turns away are         *)
(* failures in that trail too.                                             *)
(*                                                                         *)
(* A key is a device together with the address it calls from.  Nothing is  *)
(* locked between the count and the event of the same call, so calls that  *)
(* run at once do not see each other.                                      *)
(*                                                                         *)
(* The terminal calls again and again while it is on: POLL_INTERVAL_MS     *)
(* after an answer of /next, RETRY_INTERVAL_MS after a temporary error,    *)
(* and 429 is one.  Every bounds the time from one answer to the next,     *)
(* network timeout included.                                               *)
(***************************************************************************)
EXTENDS Naturals, Sequences, FiniteSets

CONSTANTS
  Keys,         \* a device and the address it calls from
  Addressless,  \* keys whose request has no client address
  Workers,      \* threads of the ASGI server
  Window,       \* RATE_LIMIT_WINDOW_SECONDS
  MaxFailures,  \* RATE_LIMIT_MAX_FAILURES
  Every,        \* longest time between two answers to a terminal that is on
  MaxTime,      \* bound of the clock
  MaxEvents     \* bound of the failures of one key

\* The last conjunct: 10 answers, 13 seconds apart at most, are in a window
\* of 300 seconds.
ASSUME LimitAssumption ==
  /\ Addressless \subseteq Keys
  /\ IsFiniteSet(Workers)
  /\ {Window, MaxTime, MaxEvents} \subseteq Nat
  /\ MaxFailures \in Nat \ {0}
  /\ Every \in Nat \ {0}
  /\ MaxFailures * Every <= Window

\* A failure in the audit trail: when, and whether the limiter let the call
\* through to the check that refused it.
Failure == [at: Nat, admitted: BOOLEAN]

Verdicts == {"admitted", "blocked"}

VARIABLES
  now,
  log,       \* failures of each key, oldest first
  job,       \* calls between the limiter and their answer
  on,        \* keys whose terminal is on
  answered   \* when the last call of a key was answered

vars == <<now, log, job, on, answered>>

Call == [key: Keys, verdict: Verdicts]

NoCall == [verdict |-> "none"]

TypeOK ==
  /\ now \in Nat
  /\ log \in [Keys -> Seq(Failure)]
  /\ job \in [Workers -> Call \cup {NoCall}]
  /\ on \subseteq Keys
  /\ answered \in [Keys -> Nat]

Init ==
  /\ now = 0
  /\ log = [k \in Keys |-> <<>>]
  /\ job = [w \in Workers |-> NoCall]
  /\ on = {}
  /\ answered = [k \in Keys |-> 0]

-----------------------------------------------------------------------------
(* The limiter.                                                            *)

\* created_at >= since
InWindow(e) == e.at + Window >= now

Counted(k) == {i \in 1 .. Len(log[k]) : InWindow(log[k][i])}

\* Mutation: one failure more is allowed.
LimitedLate(k) ==
  k \notin Addressless /\ Cardinality(Counted(k)) > MaxFailures

\* Mutation: the calls that were turned away are not counted.
LimitedByAttempts(k) ==
  /\ k \notin Addressless
  /\ Cardinality({i \in Counted(k) : log[k][i].admitted}) >= MaxFailures

\* is_rate_limited.
Limited(k) == k \notin Addressless /\ Cardinality(Counted(k)) >= MaxFailures

-----------------------------------------------------------------------------
(* A call.                                                                 *)

\* The device is known; the limiter is asked before anything else.
Ask(w, k) ==
  /\ job[w] = NoCall
  /\ k \in on
  /\ Len(log[k]) < MaxEvents
  /\ job' = [job EXCEPT ![w] =
               [key |-> k,
                verdict |-> IF Limited(k) THEN "blocked" ELSE "admitted"]]
  /\ UNCHANGED <<now, log, on, answered>>

Answer(w) ==
  /\ job' = [job EXCEPT ![w] = NoCall]
  /\ answered' = [answered EXCEPT ![job[w].key] = now]

Record(k, admitted) ==
  log' = [log EXCEPT ![k] = Append(@, [at |-> now, admitted |-> admitted])]

\* RATE_LIMIT_BLOCKED is recorded; 429.
Blocked(w) ==
  /\ job[w].verdict = "blocked"
  /\ Record(job[w].key, FALSE)
  /\ Answer(w)
  /\ UNCHANGED <<now, on>>

\* One of the later checks refuses, the HSM or the TSA fails, or the terminal
\* reports a failure of its own: every one of them is a FAILURE or DENIED
\* event of the device and its address.
Refused(w) ==
  /\ job[w].verdict = "admitted"
  /\ Record(job[w].key, TRUE)
  /\ Answer(w)
  /\ UNCHANGED <<now, on>>

\* The call succeeds; nothing that counts is recorded.
Served(w) ==
  /\ job[w].verdict = "admitted"
  /\ Answer(w)
  /\ UNCHANGED <<now, log, on>>

\* record_audit_event gives up: the failure is answered all the same.
Unrecorded(w) ==
  /\ job[w] # NoCall
  /\ Answer(w)
  /\ UNCHANGED <<now, log, on>>

\* The terminal is switched on or off, or moves to another address.
Switch(k) ==
  /\ \A w \in Workers : job[w] # NoCall => job[w].key # k
  /\ on' = IF k \in on THEN on \ {k} ELSE on \cup {k}
  /\ answered' = [answered EXCEPT ![k] = now]
  /\ UNCHANGED <<now, log, job>>

\* A terminal that is on does not stay silent for longer than Every.
Tick ==
  /\ now < MaxTime
  /\ \A k \in on : now < answered[k] + Every
  /\ now' = now + 1
  /\ UNCHANGED <<log, job, on, answered>>

Next ==
  \/ \E w \in Workers : \/ \E k \in Keys : Ask(w, k)
                        \/ Blocked(w)
                        \/ Refused(w)
                        \/ Served(w)
                        \/ Unrecorded(w)
  \/ \E k \in Keys : Switch(k)
  \/ Tick

Spec == Init /\ [][Next]_vars

-----------------------------------------------------------------------------
(* Properties.                                                             *)

\* What the limit is for: the attempts that reach the checks and fail, within
\* any window.  The count is read before the attempts that run at the same
\* time have failed, so the maximum is exceeded, but by no more than there
\* are calls at once.
AttemptsAreBounded ==
  \A k \in Keys \ Addressless :
    Cardinality({i \in Counted(k) : log[k][i].admitted})
      < MaxFailures + Cardinality(Workers)

\* The terminal is shut out: the failures the limiter looks at followed each
\* other as closely as the terminal calls, and none of its calls is past the
\* limiter.
Shut(k) ==
  LET n == Len(log[k]) IN
    /\ k \notin Addressless
    /\ n >= MaxFailures
    /\ \A i, j \in (n - MaxFailures + 1) .. n :
         i <= j => log[k][j].at <= log[k][i].at + (j - i) * Every
    /\ answered[k] = log[k][n].at
    /\ now <= answered[k] + Every
    /\ \A w \in Workers :
         job[w] # NoCall /\ job[w].key = k => job[w].verdict = "blocked"

\* A terminal whose calls kept failing for as long as it takes to fill the
\* window (the HSM or the TSA is out of order for half a minute) is shut out
\* for as long as it is on: each retry is turned away and keeps the window
\* full.  Only silence, or an event that could not be stored, opens it.
ShutWhileOn ==
  [][\A k \in on \cap on' :
       Shut(k) /\ ~(\E w \in Workers : Unrecorded(w) /\ job[w].key = k)
         => Shut(k)' /\ Limited(k)']_vars
===============================================================================
