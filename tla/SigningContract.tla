-------------------------- MODULE SigningContract --------------------------
(***************************************************************************)
(* What the signing service promises, with no sessions, locks, deadlines   *)
(* or server threads: a request waits, is presented on one terminal, is    *)
(* proved by a fingerprint and signed, or it is closed; a terminal         *)
(* presents one request at a time; and the only step that issues a         *)
(* signature is the one that completes a proved request.                   *)
(***************************************************************************)
CONSTANTS Requests, Devices, Signatures

VARIABLES
  stage,    \* where each request stands
  desk,     \* the requests each terminal is busy with
  receipt   \* the signatures issued for each request

contractVars == <<stage, desk, receipt>>

Stages == {"absent", "waiting", "presented", "proved", "signed", "closed"}
Open == {"waiting", "presented", "proved"}

Init ==
  /\ stage = [r \in Requests |-> "absent"]
  /\ desk = [d \in Devices |-> {}]
  /\ receipt = [r \in Requests |-> {}]

Ask(r) ==
  /\ stage[r] = "absent"
  /\ stage' = [stage EXCEPT ![r] = "waiting"]
  /\ UNCHANGED <<desk, receipt>>

\* Open requests are given up: they expired, or they failed.
Close(C) ==
  /\ \A r \in C : stage[r] \in Open
  /\ stage' = [r \in Requests |-> IF r \in C THEN "closed" ELSE stage[r]]
  /\ desk' = [d \in Devices |-> desk[d] \ C]
  /\ UNCHANGED receipt

\* A terminal with nothing else to do is shown a waiting request; overdue
\* requests may be closed in the same step.
Present(d, r, C) ==
  /\ \A q \in C : stage[q] \in Open
  /\ stage[r] = "waiting" /\ r \notin C
  /\ desk[d] \subseteq C
  /\ stage' = [q \in Requests |-> IF q \in C THEN "closed"
                                  ELSE IF q = r THEN "presented"
                                  ELSE stage[q]]
  /\ desk' = [e \in Devices |-> IF e = d THEN {r} ELSE desk[e] \ C]
  /\ UNCHANGED receipt

Prove(r) ==
  /\ stage[r] = "presented"
  /\ stage' = [stage EXCEPT ![r] = "proved"]
  /\ UNCHANGED <<desk, receipt>>

Issue(r, g) ==
  /\ stage[r] = "proved"
  /\ receipt[r] = {}
  /\ \A q \in Requests : g \notin receipt[q]
  /\ stage' = [stage EXCEPT ![r] = "signed"]
  /\ receipt' = [receipt EXCEPT ![r] = {g}]
  /\ desk' = [d \in Devices |-> desk[d] \ {r}]

Next ==
  \/ \E r \in Requests : Ask(r) \/ Prove(r)
  \/ \E C \in SUBSET Requests : Close(C)
  \/ \E d \in Devices, r \in Requests, C \in SUBSET Requests : Present(d, r, C)
  \/ \E r \in Requests, g \in Signatures : Issue(r, g)

Spec == Init /\ [][Next]_contractVars

=============================================================================
