--------------------------- MODULE InboundPromise ---------------------------
(***************************************************************************)
(* What the inbound path promises about one message of a correspondent,    *)
(* without invocations, batches, spool, queue or policy changes.  The      *)
(* message becomes a relay generation with the operators of one policy.    *)
(* As long as nobody was claimed the generation may be given up; from then *)
(* on it is the one.  An operator is claimed once, mailed at most once and *)
(* with the reply token of that generation, and settled once, as accepted  *)
(* only after the e-mail.  The status of the message is never better than  *)
(* what was mailed.                                                        *)
(***************************************************************************)
EXTENDS Naturals

CONSTANTS Deliveries, Operators, Policies, OperatorsOf, None

VARIABLES
  relay,      \* the generation of the message, or None
  recipient,  \* how far each operator has got
  status,     \* what the system says of the message as a whole
  mailed      \* e-mails to an operator with a generation's reply token

promise == <<relay, recipient, status, mailed>>

Init ==
  /\ relay = None /\ status = "none"
  /\ recipient = [o \in Operators |-> "none"]
  /\ mailed = [g \in Deliveries |-> [o \in Operators |-> 0]]

Begin(g, p) ==
  /\ relay = None /\ relay' = g
  /\ recipient' = [o \in Operators |-> IF o \in OperatorsOf[p] THEN "pending" ELSE "none"]
  /\ status' = "pending"
  /\ UNCHANGED mailed

GiveUp ==
  /\ \A o \in Operators : recipient[o] \in {"none", "pending"}
  /\ relay # None /\ relay' = None
  /\ recipient' = [o \in Operators |-> "none"]
  /\ status' = "none"
  /\ UNCHANGED mailed

Claim(o) ==
  /\ recipient[o] = "pending"
  /\ recipient' = [recipient EXCEPT ![o] = "sending"]
  /\ UNCHANGED <<relay, status, mailed>>

Mail(o) ==
  /\ recipient[o] = "sending" /\ \A g \in Deliveries : mailed[g][o] = 0
  /\ mailed' = [mailed EXCEPT ![relay][o] = 1]
  /\ UNCHANGED <<relay, recipient, status>>

Settle(o) ==
  /\ recipient[o] = "sending"
  /\ \E outcome \in {"provider_accepted", "recovery_required"} :
       /\ outcome = "provider_accepted" => mailed[relay][o] = 1
       /\ recipient' = [recipient EXCEPT ![o] = outcome]
  /\ UNCHANGED <<relay, status, mailed>>

\* An accepted message has reached everybody, a partial delivery somebody.
Report ==
  LET concerned == {o \in Operators : recipient[o] # "none"}
      reached   == {o \in concerned : mailed[relay][o] = 1} IN
  /\ relay # None
  /\ status' \in {"provider_accepted", "partial_delivery", "recovery_required"}
  /\ status' = "provider_accepted" => reached = concerned
  /\ status' \in {"provider_accepted", "partial_delivery"} => reached # {}
  /\ UNCHANGED <<relay, recipient, mailed>>

Next ==
  \/ \E g \in Deliveries, p \in Policies : Begin(g, p)
  \/ GiveUp
  \/ \E o \in Operators : Claim(o) \/ Mail(o) \/ Settle(o)
  \/ Report

Spec == Init /\ [][Next]_promise
=============================================================================
