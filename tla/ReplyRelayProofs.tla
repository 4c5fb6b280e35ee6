-------------------------- MODULE ReplyRelayProofs --------------------------
(***************************************************************************)
(* Proofs about ReplyRelay, for every number of messages, deliveries and   *)
(* concurrent consumers, every policy history and every bound.             *)
(*                                                                         *)
(* MailedAtMostOnce is not inductive: a second e-mail is prevented by what *)
(* each invocation carries from one statement to the next and by who may   *)
(* be between the boundary and the provider.  Inv says so part by part,    *)
(* each as weak as the next one needs it.                                  *)
(***************************************************************************)
EXTENDS ReplyRelay, TLAPS

\* Consumer c stands between the boundary statement and the provider, for m.
Calling(c, m) == cpc[c] = "call" /\ Current(c) = m

\* Attempt, admission and claim columns are written by one statement.
ClaimsBound ==
  \A m \in Messages :
    /\ attempt[m] = "none" <=> admission[m] = "none"
    /\ attempt[m] = "none" <=> claim[m] = NoClaim
    /\ attempt[m] # "none" => claim[m] \in Claims /\ MessageOf[claim[m].by] = m

\* A router invocation binds a well-formed claim and enqueues at most one job,
\* after its message was claimed.
RouterBound ==
  \A h \in Deliveries :
    /\ hpc[h] \in {"spool", "claim"} => hview[h].claim \in Claims
    /\ hpc[h] \in {"dispatch", "enqueue", "journal"} => attempt[MessageOf[h]] # "none"
    /\ hpc[h] \in HandlerActive \ {"journal"} => job[h] = "none" /\ tries[h] = 0
    /\ job[h] # "none" => attempt[MessageOf[h]] # "none"
    /\ job[h] = "queued" => tries[h] < MaxTries

\* A busy consumer holds a queued job and the configuration it started with, a
\* recorded outcome where it needs one, and from the boundary on a policy that
\* binds its adapter.
Carries(c) ==
  cpc[c] # "idle" =>
    /\ cview[c].job \in Deliveries /\ job[cview[c].job] # "none"
    /\ cview[c].mode \in Modes
    /\ cpc[c] = "resume" => cview[c].outcome \in Outcomes \cup {"none"}
    /\ cpc[c] \in {"close", "record", "projectAttempt", "projectAdmission"} =>
         cview[c].outcome \in Outcomes
    /\ cpc[c] \in {"boundary", "call"} =>
         cview[c].policy \in Policies /\ cview[c].mode = Adapter[cview[c].policy]
    /\ cpc[c] = "call" => cview[c].policy = claim[Current(c)].policy

ConsumerBound == \A c \in Consumers : Carries(c)

\* Before the boundary nothing was mailed and nobody may call; a Cloudflare
\* claim has one caller, who is the first; a Resend caller's key is remembered.
BoundaryHeld ==
  \A m \in Messages :
    /\ admission[m] \in {"none", "claimed"} =>
         /\ mailed[m] = 0 /\ stage[m] \in {"fresh", "late"}
         /\ \A c \in Consumers : ~Calling(c, m)
    /\ \A c \in Consumers : Calling(c, m) /\ cview[c].mode = CF =>
         mailed[m] = 0 /\ \A d \in Consumers : Calling(d, m) => d = c
    /\ \A c \in Consumers : Calling(c, m) /\ cview[c].mode = RS => stage[m] # "forgotten"
    /\ mailed[m] \in {0, 1}

\* Only the adapter that the claim's policy binds was called.
ProviderHeld ==
  \A m \in Messages :
    called[m] # {} => attempt[m] # "none" /\ called[m] = {Adapter[claim[m].policy]}

Inv == TypeOK /\ ClaimsBound /\ RouterBound /\ ConsumerBound /\ BoundaryHeld /\ ProviderHeld

----------------------------------------------------------------------------
(* TypeOK.                                                                 *)

\* What an invocation's locals may be updated with.
LEMMA HandlerViewTyped ==
  /\ NoHandling \in HandlerView
  /\ \A new \in Claims \cup {NoClaim} :
       Handling(new, TRUE) \in HandlerView /\ Handling(new, FALSE) \in HandlerView
PROOF BY DEF NoHandling, Handling, HandlerView

LEMMA ConsumerViewTyped ==
  /\ NoView \in ConsumerView
  /\ \A h \in Deliveries, p \in Modes, o \in Outcomes \cup {"none"} :
       [job |-> h, mode |-> p, policy |-> None, outcome |-> o, again |-> FALSE] \in ConsumerView
  /\ \A v \in ConsumerView, o \in Outcomes \cup {"none", "retry"} :
       [v EXCEPT !.outcome = o] \in ConsumerView
  /\ \A v \in ConsumerView, p \in Policies : [v EXCEPT !.policy = p] \in ConsumerView
  /\ \A v \in ConsumerView : [v EXCEPT !.outcome = "failed", !.again = TRUE] \in ConsumerView
PROOF BY DEF NoView, ConsumerView, Outcomes

LEMMA ChosenTyped ==
  ASSUME TypeOK, NEW h \in Deliveries
  PROVE  Chosen(h) \in Claims
PROOF BY DEF TypeOK, Chosen, Claims

LEMMA InsertTyped ==
  ASSUME TypeOK, NEW new \in Claims, InsertClaim(new)
  PROVE  /\ attempt' \in [Messages -> AttemptStatus]
         /\ admission' \in [Messages -> AdmissionStatus]
         /\ claim' \in [Messages -> Claims \cup {NoClaim}]
         /\ spoolKey' \in [Messages -> Deliveries \cup {None}]
         /\ canary' \in Policies \cup {None}
PROOF
  <1>1. new.by \in Deliveries  BY DEF Claims
  <1>2. QED
    BY <1>1 DEF TypeOK, InsertClaim, AttemptStatus, AdmissionStatus, Pending

LEMMA RouterTyped ==
  ASSUME Inv, NEW h \in Deliveries, Router(h)
  PROVE  TypeOK'
PROOF
  <1> USE DEF Inv, TypeOK, rows, ledger, bucket, queue, gates, router, consumer, history,
              HandlerPc, HandlerActive
  <1>1. CASE Lookup(h)       BY <1>1, HandlerViewTyped DEF Lookup, Goto, End
  <1>2. CASE Admit(h)
    <2>1. hview' \in [Deliveries -> HandlerView]
      <3>1. Handling(Chosen(h), TRUE) \in HandlerView  BY HandlerViewTyped, ChosenTyped
      <3>2. CASE hview' = [hview EXCEPT ![h] = Handling(Chosen(h), TRUE)]  BY <3>1, <3>2
      <3>3. CASE End(h, "refused")  BY <3>3, HandlerViewTyped DEF End
      <3>4. QED BY <1>2, <3>2, <3>3 DEF Admit
    <2>2. QED BY <1>2, <2>1 DEF Admit, End
  <1>3. CASE SpoolReply(h)   BY <1>3, HandlerViewTyped DEF SpoolReply, Goto, End
  <1>4. CASE ClaimReply(h)
    <2> DEFINE new == hview[h].claim
    <2>1. new \in Claims  BY <1>4 DEF ClaimReply, RouterBound
    <2>2. hpc' \in [Deliveries -> HandlerPc]  BY <1>4 DEF ClaimReply
    <2>3. hview' \in [Deliveries -> HandlerView]
      <3>1. PICK certain \in BOOLEAN :
              hview' = [hview EXCEPT ![h] = Handling(NoClaim, certain)]  BY <1>4 DEF ClaimReply
      <3>2. QED BY <3>1, HandlerViewTyped
    <2>4. inflight' \subseteq Claims  BY <1>4, <2>1 DEF ClaimReply
    <2>5. InsertClaim(new) \/ UNCHANGED <<rows, canary>>  BY <1>4 DEF ClaimReply
    <2>6. UNCHANGED <<ledger, bucket, queue, policy, live, quarantined, activations, mode,
                      stage, changes, consumer, history>>  BY <1>4 DEF ClaimReply
    <2>7. QED BY <2>1, <2>2, <2>3, <2>4, <2>5, <2>6, InsertTyped
  <1>5. CASE Readback(h)     BY <1>5, HandlerViewTyped DEF Readback, Goto, End
  <1>6. CASE Dispatch(h)     BY <1>6, HandlerViewTyped DEF Dispatch, Goto, End
  <1>7. CASE Enqueue(h)      BY <1>7, HandlerViewTyped DEF Enqueue, Goto, End
  <1>8. CASE Journal(h)      BY <1>8, HandlerViewTyped DEF Journal, End, AttemptStatus, Pending
  <1>9. CASE RouterCrash(h)  BY <1>9, HandlerViewTyped DEF RouterCrash, End
  <1>10. QED BY <1>1, <1>2, <1>3, <1>4, <1>5, <1>6, <1>7, <1>8, <1>9 DEF Router

\* A provider answer names an outcome or asks for a retry.
LEMMA AnswersTyped ==
  ASSUME NEW adapter, NEW answer \in Answers(adapter)
  PROVE  answer[1] \in {"provider_accepted", "failed", "recovery_required", "retry"}
PROOF BY DEF Answers

\* A busy consumer works on a message that was claimed.
LEMMA CurrentBound ==
  ASSUME ConsumerBound, RouterBound, NEW c \in Consumers, cpc[c] # "idle"
  PROVE  Current(c) \in Messages /\ attempt[Current(c)] # "none"
PROOF BY RelayConstants DEF ConsumerBound, Carries, RouterBound, Current, RelayConstants

\* The three ways an invocation's locals change after Take.
LEMMA StepWithTyped ==
  ASSUME TypeOK, NEW c \in Consumers, NEW label \in ConsumerPc,
         NEW outcome \in Outcomes \cup {"none", "retry"}, StepWith(c, label, outcome)
  PROVE  cpc' \in [Consumers -> ConsumerPc] /\ cview' \in [Consumers -> ConsumerView]
PROOF
  <1>1. [cview[c] EXCEPT !.outcome = outcome] \in ConsumerView
    BY ConsumerViewTyped DEF TypeOK
  <1>2. QED BY <1>1 DEF TypeOK, StepWith

LEMMA EndTyped ==
  ASSUME TypeOK, NEW c \in Consumers, EndInvocation(c)
  PROVE  cpc' \in [Consumers -> ConsumerPc] /\ cview' \in [Consumers -> ConsumerView]
PROOF BY ConsumerViewTyped DEF TypeOK, EndInvocation, ConsumerPc

LEMMA RedeliverTyped ==
  ASSUME TypeOK, NEW c \in Consumers, Redeliver(c)
  PROVE  /\ cpc' \in [Consumers -> ConsumerPc] /\ cview' \in [Consumers -> ConsumerView]
         /\ job' \in [Deliveries -> {"none", "queued", "leased", "acked", "dead"}]
         /\ UNCHANGED tries
PROOF BY EndTyped DEF TypeOK, Redeliver

LEMMA ConsumerTyped ==
  ASSUME Inv, NEW c \in Consumers, Consumer(c)
  PROVE  TypeOK'
PROOF
  <1> USE DEF Inv, TypeOK, rows, ledger, bucket, queue, gates, router, consumer, history,
              Step, ConsumerPc, ConsumerActive
  <1>1. CASE Take(c)
    <2>1. PICK h \in Deliveries :
            /\ job[h] = "queued"
            /\ job'   = [job EXCEPT ![h] = "leased"]
            /\ tries' = [tries EXCEPT ![h] = @ + 1]
            /\ cview' = [cview EXCEPT ![c] = Taken(h)]
      BY <1>1 DEF Take
    <2>2. Taken(h) \in ConsumerView  BY RelayConstants, ConsumerViewTyped DEF Taken, RelayConstants
    <2>3. tries[h] < MaxTries  BY <2>1 DEF RouterBound
    <2>4. tries' \in [Deliveries -> 0..MaxTries]  BY <2>1, <2>3, RelayConstants DEF RelayConstants
    <2>5. QED BY <1>1, <2>1, <2>2, <2>4 DEF Take
  <1>2. CASE Resume(c)  BY <1>2 DEF Resume, ResumePoint
  <1>3. CASE Check(c)
    <2>1. CASE StepWith(c, "close", "failed")
      BY <1>3, <2>1, StepWithTyped DEF Check, Outcomes
    <2>2. CASE StepWith(c, "close", "recovery_required")
      BY <1>3, <2>2, StepWithTyped DEF Check, Outcomes
    <2>3. CASE cview' = [cview EXCEPT ![c].policy = policy] /\ Step(c, "authorize")
      <3>1. [cview[c] EXCEPT !.policy = policy] \in ConsumerView  BY ConsumerViewTyped
      <3>2. QED BY <1>3, <2>3, <3>1 DEF Check
    <2>4. QED BY <1>3, <2>1, <2>2, <2>3 DEF Check
  <1>4. CASE CloseAttempt(c)  BY <1>4 DEF CloseAttempt, ConsumerBound, Carries, AttemptStatus
  <1>5. CASE Authorize(c)  BY <1>5, RedeliverTyped DEF Authorize, AttemptStatus, Pending
  <1>6. CASE RecordIntent(c)  BY <1>6 DEF RecordIntent, ConsumerBound, Carries
  <1>7. CASE Duplicate(c)
    <2>1. terminal[Current(c)] \in Outcomes \cup {"none"}  BY <1>7, CurrentBound DEF Duplicate
    <2>2. CASE StepWith(c, "projectAttempt", terminal[Current(c)])
      BY <1>7, <2>1, <2>2, StepWithTyped DEF Duplicate
    <2>3. CASE StepWith(c, "record", "recovery_required")
      BY <1>7, <2>3, StepWithTyped DEF Duplicate, Outcomes
    <2>4. CASE Step(c, "verify") /\ UNCHANGED cview  BY <1>7, <2>4 DEF Duplicate
    <2>5. QED BY <1>7, <2>2, <2>3, <2>4 DEF Duplicate
  <1>8. CASE Verify(c)  BY <1>8 DEF Verify
  <1>9. CASE ClaimBoundary(c)  BY <1>9 DEF ClaimBoundary, AdmissionStatus
  <1>10. CASE CloseUnsent(c)
    BY <1>10, StepWithTyped DEF CloseUnsent, AdmissionStatus, Outcomes
  <1>11. CASE CallProvider(c)
    <2>1. cview[c].mode \in {CF, RS}
      BY <1>11, RelayConstants DEF CallProvider, ConsumerBound, Carries, RelayConstants
    <2>2. PICK answer \in Answers(cview[c].mode) :
            /\ mailed' = IF answer[2] /\ Sends(Current(c), cview[c].mode)
                         THEN [mailed EXCEPT ![Current(c)] = @ + 1] ELSE mailed
            /\ StepWith(c, IF answer[1] = "retry" THEN "retry" ELSE "record", answer[1])
      BY <1>11 DEF CallProvider
    <2>3. answer[1] \in Outcomes \cup {"none", "retry"}  BY AnswersTyped DEF Outcomes
    <2>4. cpc' \in [Consumers -> ConsumerPc] /\ cview' \in [Consumers -> ConsumerView]
      BY <2>2, <2>3, StepWithTyped
    <2>5. mailed' \in [Messages -> Nat]
      <3>1. mailed' = mailed \/ mailed' = [mailed EXCEPT ![Current(c)] = @ + 1]  BY <2>2
      <3>2. QED BY <3>1
    <2>6. called' \in [Messages -> SUBSET {CF, RS}]  BY <1>11, <2>1, CurrentBound DEF CallProvider
    <2>7. QED BY <1>11, <2>4, <2>5, <2>6 DEF CallProvider
  <1>12. CASE RetryOrExhaust(c)
    <2>1. [cview[c] EXCEPT !.outcome = "failed", !.again = TRUE] \in ConsumerView
      BY ConsumerViewTyped
    <2>2. CASE TriesLeft(cview[c].job)  BY <1>12, <2>2, RedeliverTyped DEF RetryOrExhaust
    <2>3. CASE ~TriesLeft(cview[c].job)
      <3>1. cview' = [cview EXCEPT ![c] = [cview[c] EXCEPT !.outcome = "failed", !.again = TRUE]]
        BY <1>12, <2>3 DEF RetryOrExhaust
      <3>2. QED BY <1>12, <2>1, <2>3, <3>1 DEF RetryOrExhaust
    <2>4. QED BY <2>2, <2>3
  <1>13. CASE RecordTerminal(c)
    <2>1. cview[c].outcome \in Outcomes /\ Current(c) \in Messages
      BY <1>13, CurrentBound DEF RecordTerminal, ConsumerBound, Carries
    <2>2. terminal' \in [Messages -> Outcomes \cup {"none"}]  BY <1>13, <2>1 DEF RecordTerminal
    <2>3. cpc' \in [Consumers -> ConsumerPc] /\ cview' \in [Consumers -> ConsumerView]
      BY <1>13, <2>1, <2>2, StepWithTyped DEF RecordTerminal
    <2>4. QED BY <1>13, <2>2, <2>3 DEF RecordTerminal
  <1>14. CASE ProjectAttempt(c)
    BY <1>14, RedeliverTyped DEF ProjectAttempt, ConsumerBound, Carries, AttemptStatus
  <1>15. CASE ProjectAdmission(c)
    BY <1>15 DEF ProjectAdmission, ConsumerBound, Carries, AdmissionStatus
  <1>16. CASE CleanSpool(c)  BY <1>16 DEF CleanSpool
  <1>17. CASE ForgetSpoolKey(c)  BY <1>17 DEF ForgetSpoolKey
  <1>18. CASE Finish(c)  BY <1>18, RedeliverTyped, EndTyped DEF Finish
  <1>19. CASE ConsumerCrash(c)  BY <1>19, RedeliverTyped DEF ConsumerCrash
  <1>20. QED
    BY <1>1, <1>2, <1>3, <1>4, <1>5, <1>6, <1>7, <1>8, <1>9, <1>10, <1>11, <1>12, <1>13,
       <1>14, <1>15, <1>16, <1>17, <1>18, <1>19 DEF Consumer, Work

LEMMA LateCommitTyped ==
  ASSUME Inv, LateCommit
  PROVE  TypeOK'
PROOF
  <1>1. PICK new \in inflight : InsertClaim(new) /\ inflight' = inflight \ {new}
    BY DEF LateCommit
  <1>2. new \in Claims  BY DEF Inv, TypeOK
  <1>3. QED
    BY <1>1, <1>2, InsertTyped
    DEF Inv, TypeOK, LateCommit, ledger, bucket, queue, consumer, history

LEMMA EnvironmentTyped ==
  ASSUME Inv, Environment
  PROVE  TypeOK'
PROOF
  <1> USE RelayConstants DEF RelayConstants, Inv, TypeOK, EnvFrame, Change, rows, ledger,
                             bucket, queue, router, consumer, history
  <1>1. CASE ActivatePolicy    BY <1>1 DEF ActivatePolicy
  <1>2. CASE ToggleQuarantine  BY <1>2 DEF ToggleQuarantine
  <1>3. CASE CloseRelay
    <2>1. live' \in BOOLEAN /\ UNCHANGED <<bucket, policy, quarantined, activations, canary, mode, stage>>
      BY <1>3 DEF CloseRelay
    <2>2. changes' \in 0..MaxChanges /\ EnvFrame  BY <1>3 DEF CloseRelay
    <2>3. QED BY <2>1, <2>2
  <1>4. CASE RevokeActivation  BY <1>4 DEF RevokeActivation
  <1>5. CASE Redeploy          BY <1>5 DEF Redeploy
  <1>6. CASE LapseSpool
    <2>1. spool' \subseteq Deliveries /\ lapsed' \subseteq Deliveries  BY <1>6 DEF LapseSpool
    <2>2. QED BY <1>6, <2>1 DEF LapseSpool
  <1>7. ASSUME NEW m \in Messages, Age(m) PROVE TypeOK'  BY <1>7 DEF Age, Stages
  <1>8. QED BY <1>1, <1>2, <1>3, <1>4, <1>5, <1>6, <1>7 DEF Environment

----------------------------------------------------------------------------
(* The rows.  A step either binds one free message, or keeps every claim.  *)

Inserted == \E new \in Claims : InsertClaim(new)

ClaimsKept ==
  /\ claim' = claim
  /\ \A m \in Messages : attempt'[m] = "none" <=> attempt[m] = "none"
  /\ \A m \in Messages : admission'[m] = "none" <=> admission[m] = "none"

LEMMA RouterKeepsClaims ==
  ASSUME Inv, NEW h \in Deliveries, Router(h)
  PROVE  Inserted \/ ClaimsKept
PROOF
  <1> USE DEF Inv, rows, Inserted, ClaimsKept
  <1>1. CASE ClaimReply(h)
    <2>1. hview[h].claim \in Claims  BY <1>1 DEF ClaimReply, RouterBound
    <2>2. QED BY <1>1, <2>1 DEF ClaimReply
  <1>2. CASE Journal(h)  BY <1>2 DEF Journal, TypeOK
  <1>3. CASE ~ClaimReply(h) /\ ~Journal(h)
    BY <1>3 DEF Router, Lookup, Admit, SpoolReply, Readback, Dispatch, Enqueue, RouterCrash
  <1>4. QED BY <1>1, <1>2, <1>3

LEMMA LateCommitKeepsClaims ==
  ASSUME Inv, LateCommit
  PROVE  Inserted
PROOF BY DEF Inv, TypeOK, LateCommit, Inserted

LEMMA ConsumerKeepsClaims ==
  ASSUME Inv, NEW c \in Consumers, Consumer(c)
  PROVE  ClaimsKept
PROOF
  <1> USE DEF Inv, TypeOK, rows, ClaimsKept
  <1>1. CASE CloseAttempt(c)
    BY <1>1, CurrentBound DEF CloseAttempt, ConsumerBound, Carries, Outcomes, StillUnsent, Pending
  <1>2. CASE Authorize(c)  BY <1>2, CurrentBound DEF Authorize
  <1>3. CASE ClaimBoundary(c)
    BY <1>3, CurrentBound DEF ClaimBoundary, BoundaryOpen, Crossable
  <1>4. CASE CloseUnsent(c)  BY <1>4 DEF CloseUnsent
  <1>5. CASE ProjectAttempt(c)
    BY <1>5, CurrentBound DEF ProjectAttempt, ConsumerBound, Carries, Outcomes
  <1>6. CASE ProjectAdmission(c)
    BY <1>6, CurrentBound DEF ProjectAdmission, ConsumerBound, Carries, Outcomes
  <1>7. CASE UNCHANGED <<attempt, admission, claim>>  BY <1>7
  <1>8. QED
    BY <1>1, <1>2, <1>3, <1>4, <1>5, <1>6, <1>7
    DEF Consumer, Work, Take, Resume, Check, RecordIntent, Duplicate, Verify, CallProvider,
        RetryOrExhaust, RecordTerminal, CleanSpool, ForgetSpoolKey, Finish, ConsumerCrash

LEMMA EnvironmentKeepsClaims ==
  ASSUME Environment
  PROVE  UNCHANGED <<rows, ledger, queue, router, consumer, history>>
PROOF
  BY DEF Environment, EnvFrame, Change, ActivatePolicy, ToggleQuarantine, CloseRelay,
         RevokeActivation, Redeploy, LapseSpool, Age

\* What the other parts need of the rows: a claimed message keeps its claim.
LEMMA RowsStep ==
  ASSUME Inv, Inserted \/ ClaimsKept
  PROVE  /\ ClaimsBound'
         /\ \A m \in Messages : attempt[m] # "none" =>
              attempt'[m] # "none" /\ claim'[m] = claim[m]
PROOF
  <1> USE DEF Inv, TypeOK, ClaimsBound
  <1>1. CASE Inserted
    <2>1. PICK new \in Claims : InsertClaim(new)  BY <1>1 DEF Inserted
    <2>2. new.by \in Deliveries /\ new # NoClaim  BY DEF Claims, NoClaim
    <2>3. QED BY <2>1, <2>2, RelayConstants DEF InsertClaim, InsertAllowed, RelayConstants
  <1>2. CASE ClaimsKept  BY <1>2 DEF ClaimsKept
  <1>3. QED BY <1>1, <1>2

----------------------------------------------------------------------------
(* The router's part.  Rows only get claimed; only Enqueue starts a job.    *)

LEMMA RouterKeepsRouterBound ==
  ASSUME Inv, NEW h \in Deliveries, Router(h)
  PROVE  RouterBound'
PROOF
  <1> USE DEF Inv, TypeOK, RouterBound, HandlerActive, queue, rows
  <1>1. \A m \in Messages : attempt[m] # "none" => attempt'[m] # "none"
    BY RouterKeepsClaims, RowsStep
  <1>2. \A d \in Deliveries : MessageOf[d] \in Messages  BY RelayConstants DEF RelayConstants
  <1> USE <1>1, <1>2
  <1>3. CASE Lookup(h)  BY <1>3 DEF Lookup, Goto, End, ExactRedelivery
  <1>4. CASE Admit(h)
    <2>1. CASE hpc' = [hpc EXCEPT ![h] = "spool"] /\ hview' = [hview EXCEPT ![h] = Handling(Chosen(h), TRUE)]
      <3>1. hview'[h].claim \in Claims  BY <2>1, ChosenTyped DEF Handling
      <3>2. QED BY <1>4, <2>1, <3>1 DEF Admit
    <2>2. CASE End(h, "refused")  BY <1>4, <2>2 DEF Admit, End
    <2>3. QED BY <1>4, <2>1, <2>2 DEF Admit
  <1>5. CASE SpoolReply(h)  BY <1>5 DEF SpoolReply, Goto, End
  <1>6. CASE ClaimReply(h)
    <2>1. hpc' = [hpc EXCEPT ![h] = "readback"] /\ UNCHANGED queue  BY <1>6 DEF ClaimReply
    <2>2. \A d \in Deliveries : d # h => hview'[d] = hview[d]  BY <1>6 DEF ClaimReply
    <2>3. QED BY <1>6, <2>1, <2>2 DEF ClaimReply
  <1>7. CASE Readback(h)  BY <1>7 DEF Readback, Goto, End, ExactRedelivery
  <1>8. CASE Dispatch(h)  BY <1>8 DEF Dispatch, Goto, End
  <1>9. CASE Enqueue(h)   BY <1>9, RelayConstants DEF Enqueue, Goto, End, RelayConstants
  <1>10. CASE Journal(h)  BY <1>10 DEF Journal, End
  <1>11. CASE RouterCrash(h)  BY <1>11 DEF RouterCrash, End
  <1>12. QED
    BY <1>3, <1>4, <1>5, <1>6, <1>7, <1>8, <1>9, <1>10, <1>11 DEF Router

LEMMA ConsumerKeepsRouterBound ==
  ASSUME Inv, NEW c \in Consumers, Consumer(c)
  PROVE  RouterBound'
PROOF
  <1> USE DEF Inv, TypeOK, RouterBound, HandlerActive, queue, router
  <1>1. \A m \in Messages : attempt[m] # "none" => attempt'[m] # "none"
    BY ConsumerKeepsClaims, RowsStep
  <1>2. \A d \in Deliveries : MessageOf[d] \in Messages  BY RelayConstants DEF RelayConstants
  <1>3. UNCHANGED router
    BY DEF Consumer, Work, Take, Resume, Check, CloseAttempt, Authorize, RecordIntent,
           Duplicate, Verify, ClaimBoundary, CloseUnsent, CallProvider, RetryOrExhaust,
           RecordTerminal, ProjectAttempt, ProjectAdmission, CleanSpool, ForgetSpoolKey,
           Finish, ConsumerCrash
  <1>4. CASE Take(c)  BY <1>1, <1>2, <1>3, <1>4 DEF Take
  <1>5. CASE cpc[c] # "idle" /\ Redeliver(c)
    BY <1>1, <1>2, <1>3, <1>5 DEF Redeliver, TriesLeft, ConsumerBound, Carries
  <1>6. CASE Finish(c) /\ job' = [job EXCEPT ![cview[c].job] = "acked"]
    BY <1>1, <1>2, <1>3, <1>6 DEF Finish, ConsumerBound, Carries, Redeliver
  <1>7. CASE UNCHANGED queue  BY <1>1, <1>2, <1>3, <1>7
  <1>8. QED
    BY <1>4, <1>5, <1>6, <1>7
    DEF Consumer, Work, Resume, Check, CloseAttempt, Authorize, RecordIntent, Duplicate,
        Verify, ClaimBoundary, CloseUnsent, CallProvider, RetryOrExhaust, RecordTerminal,
        ProjectAttempt, ProjectAdmission, CleanSpool, ForgetSpoolKey, Finish, ConsumerCrash,
        ConsumerActive

----------------------------------------------------------------------------
(* The consumers' part.                                                    *)

\* A consumer's bindings survive the steps of all others.
LEMMA CarriesFrame ==
  ASSUME Inv, NEW c \in Consumers, cpc'[c] = cpc[c], cview'[c] = cview[c],
         \A h \in Deliveries : job[h] # "none" => job'[h] # "none",
         \A m \in Messages : attempt[m] # "none" => claim'[m] = claim[m]
  PROVE  Carries(c)'
PROOF
  <1>1. CASE cpc[c] = "idle"  BY <1>1 DEF Carries
  <1>2. CASE cpc[c] # "idle"
    <2>1. Current(c) \in Messages /\ attempt[Current(c)] # "none"  BY <1>2, CurrentBound DEF Inv
    <2>2. claim'[Current(c)] = claim[Current(c)]  BY <2>1
    <2>3. QED BY <1>2, <2>2 DEF Inv, ConsumerBound, Carries, Current
  <1>3. QED BY <1>1, <1>2

LEMMA RouterKeepsConsumerBound ==
  ASSUME Inv, NEW h \in Deliveries, Router(h)
  PROVE  ConsumerBound'
PROOF
  <1>1. UNCHANGED consumer
    BY DEF Router, Lookup, Admit, SpoolReply, ClaimReply, Readback, Dispatch, Enqueue,
           Journal, RouterCrash
  <1>2. \A d \in Deliveries : job[d] # "none" => job'[d] # "none"
    BY DEF Inv, TypeOK, Router, Lookup, Admit, SpoolReply, ClaimReply, Readback, Dispatch,
           Enqueue, Journal, RouterCrash, queue
  <1>3. \A m \in Messages : attempt[m] # "none" => claim'[m] = claim[m]
    BY RouterKeepsClaims, RowsStep
  <1>4. QED BY <1>1, <1>2, <1>3, CarriesFrame DEF consumer, ConsumerBound

LEMMA ConsumerKeepsConsumerBound ==
  ASSUME Inv, NEW c \in Consumers, Consumer(c)
  PROVE  ConsumerBound'
PROOF
  <1> USE DEF Inv, TypeOK, Carries, ConsumerActive, Outcomes, rows, queue, Step, StepWith
  <1>1. \A m \in Messages : attempt[m] # "none" => claim'[m] = claim[m]
    BY ConsumerKeepsClaims, RowsStep
  <1>2. \A h \in Deliveries : job[h] # "none" => job'[h] # "none"
    BY DEF Consumer, Work, Take, Resume, Check, CloseAttempt, Authorize, RecordIntent,
           Duplicate, Verify, ClaimBoundary, CloseUnsent, CallProvider, RetryOrExhaust,
           RecordTerminal, ProjectAttempt, ProjectAdmission, CleanSpool, ForgetSpoolKey,
           Finish, ConsumerCrash, Redeliver
  <1>3. \A d \in Consumers : d # c => cpc'[d] = cpc[d] /\ cview'[d] = cview[d]
    BY DEF Consumer, Work, Take, Resume, Check, CloseAttempt, Authorize, RecordIntent,
           Duplicate, Verify, ClaimBoundary, CloseUnsent, CallProvider, RetryOrExhaust,
           RecordTerminal, ProjectAttempt, ProjectAdmission, CleanSpool, ForgetSpoolKey,
           Finish, ConsumerCrash, Redeliver, EndInvocation
  <1>4. Carries(c)'
    <2>1. Carries(c)  BY DEF ConsumerBound
    <2>2. CASE EndInvocation(c)  BY <2>2 DEF EndInvocation
    <2>3. CASE Redeliver(c)  BY <2>2, <2>3 DEF Redeliver
    <2>4. CASE Take(c)
      <3>1. PICK h \in Deliveries :
              job' = [job EXCEPT ![h] = "leased"] /\ cview' = [cview EXCEPT ![c] = Taken(h)]
        BY <2>4 DEF Take
      <3>2. cview'[c].job = h /\ cview'[c].mode = mode /\ cview'[c].outcome = terminal[MessageOf[h]]
        BY <3>1 DEF Taken
      <3>3. MessageOf[h] \in Messages  BY RelayConstants DEF RelayConstants
      <3>4. QED BY <2>4, <3>1, <3>2, <3>3 DEF Take
    <2>5. CASE Resume(c)  BY <2>1, <2>5 DEF Resume, ResumePoint
    <2>6. CASE Check(c)
      <3>1. CASE StepWith(c, "close", "failed")  BY <2>1, <2>6, <3>1 DEF Check
      <3>2. CASE StepWith(c, "close", "recovery_required")  BY <2>1, <2>6, <3>2 DEF Check
      <3>3. CASE cview' = [cview EXCEPT ![c].policy = policy] /\ Step(c, "authorize")
        BY <2>1, <2>6, <3>3 DEF Check
      <3>4. QED BY <2>6, <3>1, <3>2, <3>3 DEF Check
    <2>7. CASE CloseAttempt(c)  BY <2>1, <2>7 DEF CloseAttempt
    <2>8. CASE Authorize(c)  BY <2>1, <2>3, <2>8 DEF Authorize
    <2>9. CASE RecordIntent(c)  BY <2>1, <2>9 DEF RecordIntent
    <2>10. CASE Duplicate(c)
      <3>1. CASE terminal[Current(c)] # "none" /\ StepWith(c, "projectAttempt", terminal[Current(c)])
        BY <2>1, <2>10, <3>1, CurrentBound DEF Duplicate
      <3>2. CASE Step(c, "verify") /\ UNCHANGED cview  BY <2>1, <2>10, <3>2 DEF Duplicate
      <3>3. CASE StepWith(c, "record", "recovery_required")  BY <2>1, <2>10, <3>3 DEF Duplicate
      <3>4. QED BY <2>10, <3>1, <3>2, <3>3 DEF Duplicate
    <2>11. CASE Verify(c)  BY <2>1, <2>11 DEF Verify, TransactionAuthorized
    <2>12. CASE ClaimBoundary(c)
      BY <2>1, <2>12, <1>1, CurrentBound DEF ClaimBoundary, BoundaryOpen, Current
    <2>13. CASE CloseUnsent(c)
      <3>1. CASE StepWith(c, "record", "failed")  BY <2>1, <2>13, <3>1 DEF CloseUnsent
      <3>2. CASE Step(c, "done") /\ UNCHANGED cview  BY <2>1, <2>13, <3>2 DEF CloseUnsent
      <3>3. QED BY <2>13, <3>1, <3>2 DEF CloseUnsent
    <2>14. CASE CallProvider(c)  BY <2>1, <2>14, AnswersTyped DEF CallProvider
    <2>15. CASE RetryOrExhaust(c)
      <3>1. CASE TriesLeft(cview[c].job)  BY <2>3, <2>15, <3>1 DEF RetryOrExhaust
      <3>2. CASE ~TriesLeft(cview[c].job)
        <4>1. cview'[c] = [cview[c] EXCEPT !.outcome = "failed", !.again = TRUE]
          BY <2>15, <3>2 DEF RetryOrExhaust
        <4>2. cpc'[c] = "record" /\ job' = job  BY <2>15, <3>2 DEF RetryOrExhaust
        <4>3. cview[c] \in ConsumerView  OBVIOUS
        <4>4. /\ cview'[c].job = cview[c].job /\ cview'[c].mode = cview[c].mode
              /\ cview'[c].outcome = "failed"
          BY <4>1, <4>3 DEF ConsumerView
        <4>5. QED BY <2>1, <2>15, <4>2, <4>4 DEF RetryOrExhaust
      <3>3. QED BY <3>1, <3>2
    <2>16. CASE RecordTerminal(c)  BY <2>1, <2>16, CurrentBound DEF RecordTerminal
    <2>17. CASE ProjectAttempt(c)  BY <2>1, <2>3, <2>17 DEF ProjectAttempt
    <2>18. CASE ProjectAdmission(c)  BY <2>1, <2>18 DEF ProjectAdmission
    <2>19. CASE CleanSpool(c)  BY <2>1, <2>19 DEF CleanSpool
    <2>20. CASE ForgetSpoolKey(c)  BY <2>1, <2>20 DEF ForgetSpoolKey
    <2>21. CASE Finish(c)  BY <2>2, <2>3, <2>21 DEF Finish
    <2>22. CASE ConsumerCrash(c)  BY <2>3, <2>22 DEF ConsumerCrash
    <2>23. QED
      BY <2>4, <2>5, <2>6, <2>7, <2>8, <2>9, <2>10, <2>11, <2>12, <2>13, <2>14, <2>15,
         <2>16, <2>17, <2>18, <2>19, <2>20, <2>21, <2>22 DEF Consumer, Work
  <1>5. \A d \in Consumers : d # c => Carries(d)'
    BY <1>1, <1>2, <1>3, CarriesFrame
  <1>6. QED BY <1>4, <1>5 DEF ConsumerBound

----------------------------------------------------------------------------
(* The boundary.                                                           *)

\* A step that calls nobody in, reopens no claim and lets nothing age keeps it.
LEMMA BoundaryFrame ==
  ASSUME BoundaryHeld, mailed' = mailed, stage' = stage,
         \A m \in Messages :
           admission'[m] \in {"none", "claimed"} => admission[m] \in {"none", "claimed"},
         \A c \in Consumers, m \in Messages :
           Calling(c, m)' => Calling(c, m) /\ cview'[c].mode = cview[c].mode
  PROVE  BoundaryHeld'
PROOF BY DEF BoundaryHeld

LEMMA RouterHoldsBoundary ==
  ASSUME Inv, (\E h \in Deliveries : Router(h)) \/ LateCommit
  PROVE  BoundaryHeld'
PROOF
  <1>1. UNCHANGED <<mailed, stage, cpc, cview>>
    BY DEF Router, Lookup, Admit, SpoolReply, ClaimReply, Readback, Dispatch, Enqueue,
           Journal, RouterCrash, LateCommit, gates, consumer, history
  <1>2. Inserted \/ UNCHANGED admission
    BY DEF Inv, TypeOK, RouterBound, Router, Lookup, Admit, SpoolReply, ClaimReply, Readback,
           Dispatch, Enqueue, Journal, RouterCrash, LateCommit, rows, Inserted
  <1>3. \A m \in Messages :
          admission'[m] \in {"none", "claimed"} => admission[m] \in {"none", "claimed"}
    <2>1. CASE Inserted
      <3>1. PICK new \in Claims : InsertClaim(new)  BY <2>1 DEF Inserted
      <3>2. QED
        BY <3>1, RelayConstants
        DEF Inv, TypeOK, ClaimsBound, InsertClaim, InsertAllowed, Claims, RelayConstants
    <2>2. QED BY <1>2, <2>1
  <1>4. QED BY <1>1, <1>3, BoundaryFrame DEF Inv, Calling, Current

LEMMA ConsumerHoldsBoundary ==
  ASSUME Inv, NEW c \in Consumers, Consumer(c)
  PROVE  BoundaryHeld'
PROOF
  <1> USE DEF Inv, TypeOK
  <1>1. \A d \in Consumers : d # c => cpc'[d] = cpc[d] /\ cview'[d] = cview[d]
    BY DEF Consumer, Work, Take, Resume, Check, CloseAttempt, Authorize, RecordIntent,
           Duplicate, Verify, ClaimBoundary, CloseUnsent, CallProvider, RetryOrExhaust,
           RecordTerminal, ProjectAttempt, ProjectAdmission, CleanSpool, ForgetSpoolKey,
           Finish, ConsumerCrash, Redeliver, EndInvocation, Step, StepWith
  <1>2. stage' = stage
    BY DEF Consumer, Work, Take, Resume, Check, CloseAttempt, Authorize, RecordIntent,
           Duplicate, Verify, ClaimBoundary, CloseUnsent, CallProvider, RetryOrExhaust,
           RecordTerminal, ProjectAttempt, ProjectAdmission, CleanSpool, ForgetSpoolKey,
           Finish, ConsumerCrash, gates
  <1>3. CASE ClaimBoundary(c)
    <2> DEFINE k == Current(c)
    <2>1. k \in Messages /\ attempt[k] # "none"  BY <1>3, CurrentBound DEF ClaimBoundary
    <2>2. mailed' = mailed /\ cview' = cview  BY <1>3 DEF ClaimBoundary, history
    <2>3. CASE BoundaryOpen(c) /\ Step(c, "call") /\ admission' = [admission EXCEPT ![k] = "sending"]
      <3>1. cview[c].mode = Adapter[claim[k].policy]
        BY <1>3, <2>3 DEF ClaimBoundary, BoundaryOpen, ConsumerBound, Carries
      <3>2. \/ admission[k] = "claimed"
            \/ admission[k] = "sending" /\ cview[c].mode = RS /\ stage[k] \in {"fresh", "late"}
        BY <2>3 DEF BoundaryOpen, Crossable
      <3>3. \A m \in Messages : m # k => admission'[m] = admission[m] /\ (Calling(c, m)' <=> FALSE)
        BY <2>2, <2>3 DEF Calling, Current
      <3>4. admission'[k] = "sending" /\ Calling(c, k)'  BY <2>1, <2>2, <2>3 DEF Calling, Current, Step
      <3>5. \A d \in Consumers, m \in Messages : d # c => (Calling(d, m)' <=> Calling(d, m))
        BY <1>1 DEF Calling, Current
      <3>6. CASE admission[k] = "claimed"
        <4>1. /\ mailed[k] = 0 /\ stage[k] \in {"fresh", "late"}
              /\ \A d \in Consumers : ~Calling(d, k)
          BY <2>1, <3>6 DEF BoundaryHeld
        <4>2. QED
          BY <1>1, <1>2, <2>2, <3>3, <3>4, <3>5, <4>1 DEF BoundaryHeld
      <3>7. CASE admission[k] = "sending" /\ cview[c].mode = RS /\ stage[k] \in {"fresh", "late"}
        <4>1. \A d \in Consumers : Calling(d, k) => cview[d].mode = cview[c].mode
          BY <3>1 DEF ConsumerBound, Carries, Calling
        <4>2. CF # RS  BY DEF CF, RS
        <4>3. QED
          BY <1>1, <1>2, <2>1, <2>2, <3>3, <3>4, <3>5, <3>7, <4>1, <4>2 DEF BoundaryHeld
      <3>8. QED BY <3>2, <3>6, <3>7
    <2>4. CASE admission' = admission /\ cpc'[c] # "call"
      <3>1. \A d \in Consumers, m \in Messages :
              Calling(d, m)' => Calling(d, m) /\ cview'[d].mode = cview[d].mode
        BY <1>1, <2>2, <2>4 DEF Calling, Current
      <3>2. QED BY <1>2, <2>2, <2>4, <3>1, BoundaryFrame
    <2>5. QED BY <1>3, <2>3, <2>4 DEF ClaimBoundary, Step
  <1>4. CASE CallProvider(c)
    <2>1. PICK k \in Messages : k = Current(c) /\ Calling(c, k)
      BY <1>4, CurrentBound DEF CallProvider, Calling
    <2>2. PICK answer \in Answers(cview[c].mode) :
            /\ mailed' = IF answer[2] /\ Sends(k, cview[c].mode)
                         THEN [mailed EXCEPT ![k] = @ + 1] ELSE mailed
            /\ StepWith(c, IF answer[1] = "retry" THEN "retry" ELSE "record", answer[1])
      BY <1>4, <2>1 DEF CallProvider
    <2>3. admission' = admission /\ cpc'[c] # "call"
      BY <1>4, <2>2 DEF CallProvider, StepWith, rows
    <2>4. \A d \in Consumers, m \in Messages :
            Calling(d, m)' => Calling(d, m) /\ cview'[d].mode = cview[d].mode /\ d # c
      BY <1>1, <2>3 DEF Calling, Current
    <2>5. cview[c].mode \in {CF, RS}
      BY <1>4, RelayConstants DEF CallProvider, ConsumerBound, Carries, RelayConstants
    <2>6. mailed'[k] = mailed[k] \/ (mailed[k] = 0 /\ mailed'[k] = 1)
      <3>1. CASE cview[c].mode = CF  BY <2>1, <2>2, <3>1 DEF BoundaryHeld
      <3>2. CASE cview[c].mode = RS
        <4>1. stage[k] # "forgotten"  BY <2>1, <3>2 DEF BoundaryHeld
        <4>2. QED BY <2>1, <2>2, <3>2, <4>1 DEF Sends
      <3>3. QED BY <2>5, <3>1, <3>2
    <2>7. \A m \in Messages : m # k => mailed'[m] = mailed[m]  BY <2>2
    <2>8. ASSUME NEW d \in Consumers, Calling(d, k)'
          PROVE  cview'[d].mode # CF
      <3>1. Calling(d, k) /\ cview'[d].mode = cview[d].mode /\ d # c  BY <2>1, <2>4, <2>8
      <3>2. cview[d].mode = CF => \A e \in Consumers : Calling(e, k) => e = d
        BY <2>1, <3>1 DEF BoundaryHeld
      <3>3. QED BY <2>1, <3>1, <3>2
    <2>9. admission[k] \notin {"none", "claimed"}  BY <2>1 DEF BoundaryHeld
    <2>10. ASSUME NEW d \in Consumers, Calling(d, k)', cview'[d].mode = RS
           PROVE  stage'[k] # "forgotten"
      BY <1>2, <2>1, <2>4, <2>10 DEF BoundaryHeld
    <2>11. mailed'[k] \in {0, 1}  BY <2>1, <2>6 DEF BoundaryHeld
    <2>12. ASSUME NEW m \in Messages, m # k
           PROVE  /\ admission'[m] = admission[m] /\ mailed'[m] = mailed[m] /\ stage'[m] = stage[m]
                  /\ \A d \in Consumers :
                       Calling(d, m)' => Calling(d, m) /\ cview'[d].mode = cview[d].mode
      BY <1>2, <2>3, <2>4, <2>7, <2>12
    <2>13. ASSUME NEW m \in Messages
           PROVE  /\ admission'[m] \in {"none", "claimed"} =>
                       /\ mailed'[m] = 0 /\ stage'[m] \in {"fresh", "late"}
                       /\ \A d \in Consumers : ~Calling(d, m)'
                  /\ \A d \in Consumers : Calling(d, m)' /\ cview'[d].mode = CF =>
                       mailed'[m] = 0 /\ \A e \in Consumers : Calling(e, m)' => e = d
                  /\ \A d \in Consumers : Calling(d, m)' /\ cview'[d].mode = RS =>
                       stage'[m] # "forgotten"
                  /\ mailed'[m] \in {0, 1}
      <3>1. CASE m = k  BY <2>3, <2>8, <2>9, <2>10, <2>11, <3>1
      <3>2. CASE m # k  BY <2>12, <3>2 DEF BoundaryHeld
      <3>3. QED BY <3>1, <3>2
    <2>14. QED BY <2>13 DEF BoundaryHeld
  <1>5. CASE ~ClaimBoundary(c) /\ ~CallProvider(c)
    <2>1. mailed' = mailed
      BY <1>5 DEF Consumer, Work, Take, Resume, Check, CloseAttempt, Authorize, RecordIntent,
           Duplicate, Verify, CloseUnsent, RetryOrExhaust, RecordTerminal, ProjectAttempt,
           ProjectAdmission, CleanSpool, ForgetSpoolKey, Finish, ConsumerCrash, history
    <2>2. cpc'[c] # "call"
      BY <1>5 DEF Consumer, Work, Take, Resume, ResumePoint, Check, CloseAttempt, Authorize,
           RecordIntent, Duplicate, Verify, CloseUnsent, RetryOrExhaust, RecordTerminal,
           ProjectAttempt, ProjectAdmission, CleanSpool, ForgetSpoolKey, Finish,
           ConsumerCrash, Redeliver, EndInvocation, Step, StepWith
    <2>3. \A m \in Messages :
            admission'[m] \in {"none", "claimed"} => admission[m] \in {"none", "claimed"}
      <3>1. CASE CloseUnsent(c)  BY <3>1 DEF CloseUnsent
      <3>2. CASE ProjectAdmission(c)
        BY <3>2 DEF ProjectAdmission, ConsumerBound, Carries, Outcomes
      <3>3. CASE UNCHANGED admission  BY <3>3
      <3>4. QED
        BY <1>5, <3>1, <3>2, <3>3
        DEF Consumer, Work, Take, Resume, Check, CloseAttempt, Authorize, RecordIntent,
            Duplicate, Verify, RetryOrExhaust, RecordTerminal, ProjectAttempt, CleanSpool,
            ForgetSpoolKey, Finish, ConsumerCrash, rows
    <2>4. \A d \in Consumers, m \in Messages :
            Calling(d, m)' => Calling(d, m) /\ cview'[d].mode = cview[d].mode
      BY <1>1, <2>2 DEF Calling, Current
    <2>5. QED BY <1>2, <2>1, <2>3, <2>4, BoundaryFrame
  <1>6. QED BY <1>3, <1>4, <1>5

LEMMA EnvironmentHoldsBoundary ==
  ASSUME Inv, Environment
  PROVE  BoundaryHeld'
PROOF
  <1> USE DEF Inv, TypeOK
  <1>1. UNCHANGED <<admission, mailed, cpc, cview, claim, job>>
    BY EnvironmentKeepsClaims DEF rows, queue, consumer, history
  <1>2. CASE UNCHANGED stage
    BY <1>1, <1>2, BoundaryFrame DEF Calling, Current
  <1>3. ASSUME NEW m \in Messages, Age(m)  PROVE BoundaryHeld'
    <2>1. claim[m] # NoClaim  BY <1>3 DEF Age, NoClaim
    <2>2. admission[m] # "none"  BY <2>1 DEF ClaimsBound
    <2>3. \A k \in Messages : k # m => stage'[k] = stage[k]  BY <1>3 DEF Age
    <2>4. admission[m] = "claimed" => stage'[m] \in {"fresh", "late"}
      BY <1>3 DEF Age, BoundaryHeld
    <2>5. stage'[m] = "forgotten" => \A c \in Consumers : ~Calling(c, m)
      BY <1>3 DEF Age, BoundaryInUse, Calling
    <2>6. \A c \in Consumers, k \in Messages : Calling(c, k)' <=> Calling(c, k)
      BY <1>1 DEF Calling, Current
    <2>7. QED BY <1>1, <2>2, <2>3, <2>4, <2>5, <2>6 DEF BoundaryHeld
  <1>4. QED
    BY <1>2, <1>3 DEF Environment, ActivatePolicy, ToggleQuarantine, CloseRelay,
                      RevokeActivation, Redeploy, LapseSpool

----------------------------------------------------------------------------
(* The provider.                                                           *)

LEMMA ProviderFrame ==
  ASSUME ProviderHeld, called' = called, TypeOK,
         \A m \in Messages : attempt[m] # "none" => attempt'[m] # "none" /\ claim'[m] = claim[m]
  PROVE  ProviderHeld'
PROOF BY DEF ProviderHeld

LEMMA ConsumerHoldsProvider ==
  ASSUME Inv, NEW c \in Consumers, Consumer(c)
  PROVE  ProviderHeld'
PROOF
  <1>1. \A m \in Messages : attempt[m] # "none" => attempt'[m] # "none" /\ claim'[m] = claim[m]
    BY ConsumerKeepsClaims, RowsStep
  <1>2. CASE CallProvider(c)
    <2>1. PICK k \in Messages : k = Current(c) /\ attempt[k] # "none"
      BY <1>2, CurrentBound DEF CallProvider, Inv
    <2>2. cview[c].mode = Adapter[claim[k].policy]
      BY <1>2, <2>1 DEF CallProvider, Inv, ConsumerBound, Carries
    <2>3. called' = [called EXCEPT ![k] = @ \cup {cview[c].mode}]  BY <1>2, <2>1 DEF CallProvider
    <2>4. called'[k] = {Adapter[claim[k].policy]}
      BY <2>1, <2>2, <2>3 DEF Inv, TypeOK, ProviderHeld
    <2>5. \A m \in Messages : m # k => called'[m] = called[m]  BY <2>3 DEF Inv, TypeOK
    <2>6. QED BY <1>1, <2>1, <2>4, <2>5 DEF Inv, ProviderHeld
  <1>3. CASE ~CallProvider(c)
    <2>1. called' = called
      BY <1>3 DEF Consumer, Work, Take, Resume, Check, CloseAttempt, Authorize, RecordIntent,
           Duplicate, Verify, ClaimBoundary, CloseUnsent, RetryOrExhaust, RecordTerminal,
           ProjectAttempt, ProjectAdmission, CleanSpool, ForgetSpoolKey, Finish,
           ConsumerCrash, history
    <2>2. QED BY <1>1, <2>1, ProviderFrame DEF Inv
  <1>4. QED BY <1>2, <1>3

----------------------------------------------------------------------------
(* The theorems.                                                           *)

LEMMA InitHolds == Init => Inv
PROOF
  <1> SUFFICES ASSUME Init PROVE Inv
    OBVIOUS
  <1> USE RelayConstants DEF RelayConstants, Init
  <1>1. TypeOK
    <2>1. policy \in Policies /\ canary \in Policies \cup {None} /\ activations \subseteq Policies
      OBVIOUS
    <2>2. cview \in [Consumers -> ConsumerView] /\ hview \in [Deliveries -> HandlerView]
      BY HandlerViewTyped, ConsumerViewTyped
    <2>3. cpc \in [Consumers -> ConsumerPc] /\ hpc \in [Deliveries -> HandlerPc]
      BY DEF ConsumerPc, HandlerPc, HandlerActive
    <2>4. live \in BOOLEAN /\ quarantined \in BOOLEAN  OBVIOUS
    <2>5. mailed \in [Messages -> Nat] /\ called \in [Messages -> SUBSET {CF, RS}]  OBVIOUS
    <2>6. QED
      BY <2>1, <2>2, <2>3, <2>4, <2>5 DEF TypeOK, AttemptStatus, AdmissionStatus, Stages
  <1>2. ClaimsBound  BY DEF ClaimsBound
  <1>3. RouterBound  BY DEF RouterBound, HandlerActive
  <1>4. ConsumerBound  BY DEF ConsumerBound, Carries
  <1>5. BoundaryHeld  BY DEF BoundaryHeld, Calling
  <1>6. ProviderHeld  BY DEF ProviderHeld
  <1>7. QED BY <1>1, <1>2, <1>3, <1>4, <1>5, <1>6 DEF Inv

LEMMA StepHolds == Inv /\ [Next]_vars => Inv'
PROOF
  <1> SUFFICES ASSUME Inv, [Next]_vars PROVE Inv'
    OBVIOUS
  <1>1. ASSUME NEW h \in Deliveries, Router(h) PROVE Inv'
    <2>1. called' = called
      BY <1>1 DEF Router, Lookup, Admit, SpoolReply, ClaimReply, Readback, Dispatch, Enqueue,
                  Journal, RouterCrash, history
    <2>2. ProviderHeld'  BY <1>1, <2>1, RouterKeepsClaims, RowsStep, ProviderFrame DEF Inv
    <2>3. QED
      BY <1>1, <2>2, RouterTyped, RouterKeepsClaims, RowsStep, RouterKeepsRouterBound,
         RouterKeepsConsumerBound, RouterHoldsBoundary DEF Inv
  <1>2. CASE LateCommit
    <2>1. /\ ClaimsBound'
          /\ \A m \in Messages : attempt[m] # "none" => attempt'[m] # "none" /\ claim'[m] = claim[m]
      BY <1>2, LateCommitKeepsClaims, RowsStep
    <2>2. UNCHANGED <<job, tries, hpc, hview, cpc, cview>>
      BY <1>2 DEF LateCommit, queue, consumer
    <2>3. RouterBound'
      BY <2>1, <2>2, RelayConstants DEF Inv, RouterBound, RelayConstants
    <2>4. ConsumerBound'  BY <2>1, <2>2, CarriesFrame DEF ConsumerBound
    <2>5. ProviderHeld'  BY <1>2, <2>1, ProviderFrame DEF Inv, LateCommit, history
    <2>6. QED BY <1>2, <2>1, <2>3, <2>4, <2>5, LateCommitTyped, RouterHoldsBoundary DEF Inv
  <1>3. ASSUME NEW c \in Consumers, Consumer(c) PROVE Inv'
    BY <1>3, ConsumerTyped, ConsumerKeepsClaims, RowsStep, ConsumerKeepsRouterBound,
       ConsumerKeepsConsumerBound, ConsumerHoldsBoundary, ConsumerHoldsProvider DEF Inv
  <1>4. CASE Environment
    <2>1. UNCHANGED <<rows, ledger, queue, router, consumer, history>>
      BY <1>4, EnvironmentKeepsClaims
    <2>2. ClaimsBound' /\ RouterBound' /\ ConsumerBound' /\ ProviderHeld'
      BY <2>1 DEF Inv, ClaimsBound, RouterBound, ConsumerBound, Carries, Current, ProviderHeld,
                  rows, queue, router, consumer, history
    <2>3. QED BY <1>4, <2>2, EnvironmentTyped, EnvironmentHoldsBoundary DEF Inv
  <1>5. CASE UNCHANGED vars
    BY <1>5 DEF Inv, TypeOK, ClaimsBound, RouterBound, ConsumerBound, Carries, BoundaryHeld,
                ProviderHeld, Calling, Current, vars, rows, ledger, bucket, queue, gates, router,
                consumer, history
  <1>6. QED BY <1>1, <1>2, <1>3, <1>4, <1>5 DEF Next

LEMMA Invariance == Spec => []Inv
PROOF BY InitHolds, StepHolds, PTL DEF Spec

\* Every state the reply path reaches has its type: in particular no job is
\* delivered more often than the Queue allows, and every projected outcome is
\* one of the three terminal ones.
THEOREM TypeCorrect == Spec => []TypeOK
PROOF
  <1>1. Inv => TypeOK  BY DEF Inv
  <1>2. QED BY <1>1, Invariance, PTL

\* One operator reply leads to at most one e-mail, for any number of concurrent
\* consumers, duplicate deliveries, crashes, redeployments and policy changes:
\* the boundary statement admits one Cloudflare caller ever, and admits Resend
\* callers only while the idempotency key is remembered.
THEOREM AtMostOneEmail == Spec => []MailedAtMostOnce
PROOF
  <1>1. Inv => MailedAtMostOnce  BY DEF Inv, BoundaryHeld, MailedAtMostOnce
  <1>2. QED BY <1>1, Invariance, PTL

\* A reply is never carried from one provider to another: redeployment and policy
\* changes can only stop it, because the boundary statement and the transaction
\* check both compare with the adapter of the claim.
THEOREM OneProvider == Spec => []OneProviderPerReply
PROOF
  <1>1. Inv => OneProviderPerReply  BY DEF Inv, ProviderHeld, OneProviderPerReply
  <1>2. QED BY <1>1, Invariance, PTL

=============================================================================
