----------------------------- MODULE FencedJob -----------------------------
(***************************************************************************)
(* What the ingestion queue promises about one job: a lock service that    *)
(* hands out increasing fencing tokens.  Whoever was handed a token may    *)
(* believe in it for ever, but only the newest token returns or settles    *)
(* the job, and a settled job is settled once.                             *)
(***************************************************************************)
EXTENDS Naturals

VARIABLES
  state,    \* "absent", "waiting", "held" or "settled"
  token,    \* the newest token handed out, 0 before the first
  holders,  \* tokens some process still believes in
  outcome   \* how the job was settled, "none" before

fenced == <<state, token, holders, outcome>>

Init == state = "absent" /\ token = 0 /\ holders = {} /\ outcome = "none"

Add == state = "absent" /\ state' = "waiting" /\ UNCHANGED <<token, holders, outcome>>

\* A waiting job, or a held one whose lease is over, goes to a new holder.
Grant ==
  /\ state \in {"waiting", "held"}
  /\ state' = "held"
  /\ token' = token + 1
  /\ holders' = holders \cup {token + 1}
  /\ UNCHANGED outcome

\* The newest holder gives the job back, for a retry or because it stops.
Return ==
  /\ state = "held" /\ token \in holders
  /\ state' = "waiting"
  /\ holders' = holders \ {token}
  /\ UNCHANGED <<token, outcome>>

\* The newest holder settles the job.
Settle(o) ==
  /\ state = "held" /\ token \in holders
  /\ state' = "settled" /\ outcome' = o
  /\ holders' = holders \ {token}
  /\ UNCHANGED token

\* The queue itself gives the job up: the last lease ran out, or a caller
\* cancelled it.  No holder ever succeeds this way.
GiveUp(o) ==
  /\ state = "held"
  /\ state' = "settled" /\ outcome' = o
  /\ UNCHANGED <<token, holders>>

\* A holder dies or learns that it is stale.
Forget(t) ==
  /\ t \in holders
  /\ holders' = holders \ {t}
  /\ UNCHANGED <<state, token, outcome>>

Next ==
  \/ Add \/ Grant \/ Return
  \/ Settle("succeeded") \/ Settle("failed")
  \/ GiveUp("failed") \/ GiveUp("cancelled")
  \/ \E t \in holders : Forget(t)

Spec == Init /\ [][Next]_fenced
=============================================================================
