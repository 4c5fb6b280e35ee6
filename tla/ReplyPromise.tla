---------------------------- MODULE ReplyPromise ----------------------------
(***************************************************************************)
(* What the reply path promises an operator, without queues, workers or    *)
(* storage: a reply is claimed once, may cross to the provider once, is    *)
(* mailed at most once, and is told at most one outcome, which is true.    *)
(* A reply that was told an outcome is closed: nothing is mailed later.    *)
(***************************************************************************)
CONSTANT Replies

VARIABLES
  phase,    \* how far the reply may go
  sent,     \* whether the e-mail went out
  told      \* the outcome the system reports

promise == <<phase, sent, told>>

Init ==
  /\ phase = [r \in Replies |-> "unclaimed"]
  /\ sent  = [r \in Replies |-> FALSE]
  /\ told  = [r \in Replies |-> "nothing"]

Claim(r) ==
  /\ phase[r] = "unclaimed"
  /\ phase' = [phase EXCEPT ![r] = "unsent"]
  /\ UNCHANGED <<sent, told>>

Cross(r) ==
  /\ phase[r] = "unsent"
  /\ phase' = [phase EXCEPT ![r] = "crossed"]
  /\ UNCHANGED <<sent, told>>

Mail(r) ==
  /\ phase[r] = "crossed" /\ ~sent[r]
  /\ sent' = [sent EXCEPT ![r] = TRUE]
  /\ UNCHANGED <<phase, told>>

\* An acceptance is reported only of a mailed reply, a failure only of one that
\* was not mailed; recovery_required says that the outcome is not known.
Tell(r) ==
  /\ phase[r] \in {"unsent", "crossed"}
  /\ \E outcome \in {"provider_accepted", "failed", "recovery_required"} :
       /\ outcome = "provider_accepted" => sent[r]
       /\ outcome = "failed" => ~sent[r]
       /\ told' = [told EXCEPT ![r] = outcome]
  /\ phase' = [phase EXCEPT ![r] = "closed"]
  /\ UNCHANGED sent

Next == \E r \in Replies : Claim(r) \/ Cross(r) \/ Mail(r) \/ Tell(r)

Spec == Init /\ [][Next]_promise
=============================================================================
