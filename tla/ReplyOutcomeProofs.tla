------------------------- MODULE ReplyOutcomeProofs --------------------------
(***************************************************************************)
(* What the reply path leaves on record, for every number of messages,     *)
(* deliveries and concurrent consumers: outcomes are final, an acceptance  *)
(* is true, an unsent reply keeps its bytes and its job, a canary is used  *)
(* once.  Outcome extends the invariant Inv of ReplyRelayProofs by what    *)
(* each router and consumer invocation knows of the records it finishes.   *)
(* The second part adds the deployed single consumer: failures are true    *)
(* and the path implements ReplyPromise.                                   *)
(***************************************************************************)
EXTENDS ReplyRelayProofs, FiniteSetTheorems

\* One step of the reply path on its three records, its claim and its e-mail.
Advances(m) ==
  /\ attempt[m] # "none" => attempt'[m] # "none" /\ claim'[m] = claim[m]
  /\ attempt[m] \in Outcomes => attempt'[m] = attempt[m]
  /\ admission[m] \in Outcomes => admission'[m] = admission[m]
  /\ terminal[m] \in Outcomes => terminal'[m] = terminal[m]
  /\ admission[m] \notin {"none", "claimed"} => admission'[m] \notin {"none", "claimed"}
  /\ mailed[m] = 1 => mailed'[m] = 1

\* A canary that is still offered was never consumed, and one message did.
CanaryHeld ==
  /\ \A m \in Messages : claim[m].kind = "canary" => canary = None
  /\ \A m, k \in Messages : claim[m].kind = "canary" /\ claim[k].kind = "canary" => m = k

\* The delivery has not reached its claim statement.
Unclaiming(h) == hpc[h] \in {"lookup", "admit", "spool", "claim"}

\* The bytes of a delivery stay until its claim statement is known not to have
\* bound them, and those of a bound claim until its e-mail was accepted.
SpoolHeld ==
  /\ \A h \in Deliveries : hpc[h] \in {"spool", "claim"} => hview[h].claim.by = h
  /\ \A h \in Deliveries : hpc[h] = "claim" => h \in spool \cup lapsed
  /\ \A m \in Messages : attempt[m] # "none" => ~Unclaiming(claim[m].by)
  /\ \A new \in inflight :
       /\ ~Unclaiming(new.by)
       /\ hpc[new.by] = "readback" => ~hview[new.by].certain
       /\ attempt[MessageOf[new.by]] = "none" => new.by \in spool \cup lapsed
  /\ \A m \in Messages : attempt[m] \notin {"none", "provider_accepted"} =>
       claim[m].by \in spool \cup lapsed /\ spoolKey[m] = claim[m].by

\* A delivery is dispatched and answered for its own bytes only.
DurableHeld ==
  \A h \in Deliveries :
    /\ hpc[h] \in {"dispatch", "enqueue", "journal", "accepted", "resumed"} => ExactRedelivery(h)
    /\ hpc[h] \in {"journal", "accepted"} => job[h] # "none"

\* What an invocation knows when it cleans up, acknowledges or accepts.
Finishes(c) ==
  /\ cpc[c] = "projectAdmission" => attempt[Current(c)] = cview[c].outcome
  /\ cpc[c] \in {"clean", "forget"} => attempt[Current(c)] = "provider_accepted"
  /\ cpc[c] = "done" => admission[Current(c)] # "claimed" \/ attempt[Current(c)] \in Outcomes
  /\ cpc[c] # "idle" /\ cview[c].outcome = "provider_accepted" => mailed[Current(c)] = 1

FinishHeld == \A c \in Consumers : Finishes(c)

Outcome ==
  /\ Inv /\ CanaryHeld /\ SpoolHeld /\ DurableHeld /\ FinishHeld
  /\ UnsentNeverDropped /\ AcceptedWasMailed

----------------------------------------------------------------------------
(* The records.                                                            *)

\* The statement that binds a claim finds no row, and writes no other row.
LEMMA InsertedRow ==
  ASSUME Inv, NEW new \in Claims, InsertClaim(new)
  PROVE  /\ MessageOf[new.by] \in Messages /\ attempt[MessageOf[new.by]] = "none"
         /\ attempt'[MessageOf[new.by]] = "receiving"
         /\ admission'[MessageOf[new.by]] = "claimed"
         /\ claim'[MessageOf[new.by]] = new
         /\ spoolKey'[MessageOf[new.by]] = new.by
         /\ \A m \in Messages : m # MessageOf[new.by] =>
              /\ attempt'[m] = attempt[m] /\ admission'[m] = admission[m]
              /\ claim'[m] = claim[m] /\ spoolKey'[m] = spoolKey[m]
PROOF
  <1>1. MessageOf[new.by] \in Messages  BY RelayConstants DEF RelayConstants, Claims
  <1>2. QED BY <1>1 DEF Inv, TypeOK, InsertClaim, InsertAllowed

\* The router writes no outcome and starts no e-mail.
LEMMA RouterRecords ==
  ASSUME Inv, (\E h \in Deliveries : Router(h)) \/ LateCommit
  PROVE  /\ UNCHANGED <<terminal, intent, mailed, cpc, cview>>
         /\ Inserted \/ UNCHANGED <<admission, claim, spoolKey, canary>>
         /\ \A m \in Messages :
              \/ attempt'[m] = attempt[m]
              \/ attempt[m] = "none" /\ attempt'[m] = "receiving"
              \/ attempt[m] = "receiving" /\ attempt'[m] = "queued"
PROOF
  <1>1. UNCHANGED <<terminal, intent, mailed, cpc, cview>>
    BY DEF Router, Lookup, Admit, SpoolReply, ClaimReply, Readback, Dispatch, Enqueue,
           Journal, RouterCrash, LateCommit, ledger, consumer, history
  <1>2. CASE Inserted
    <2>1. PICK new \in Claims : InsertClaim(new)  BY <1>2 DEF Inserted
    <2>2. QED BY <1>1, <1>2, <2>1, InsertedRow
  <1>3. CASE ~Inserted
    <2>1. UNCHANGED <<admission, claim, spoolKey, canary>>
      BY <1>3 DEF Inv, TypeOK, RouterBound, Router, Lookup, Admit, SpoolReply, ClaimReply,
           Readback, Dispatch, Enqueue, Journal, RouterCrash, LateCommit, rows, gates, Inserted
    <2>2. \A m \in Messages :
            attempt'[m] = attempt[m] \/ (attempt[m] = "receiving" /\ attempt'[m] = "queued")
      <3>1. CASE \E h \in Deliveries : Journal(h)  BY <3>1 DEF Journal, Inv, TypeOK
      <3>2. CASE UNCHANGED attempt  BY <3>2
      <3>3. QED
        BY <1>3, <3>1, <3>2
        DEF Inv, TypeOK, RouterBound, Router, Lookup, Admit, SpoolReply, ClaimReply,
            Readback, Dispatch, Enqueue, RouterCrash, LateCommit, rows, Inserted
    <2>3. QED BY <1>1, <2>1, <2>2
  <1>4. QED BY <1>2, <1>3

LEMMA RouterAdvances ==
  ASSUME Inv, (\E h \in Deliveries : Router(h)) \/ LateCommit
  PROVE  \A m \in Messages : Advances(m)
PROOF
  <1>1. \A m \in Messages : attempt[m] # "none" => attempt'[m] # "none" /\ claim'[m] = claim[m]
    BY RouterKeepsClaims, LateCommitKeepsClaims, RowsStep
  <1>2. \A m \in Messages : admission[m] # "none" => admission'[m] = admission[m]
    <2>1. CASE Inserted
      <3>1. PICK new \in Claims : InsertClaim(new)  BY <2>1 DEF Inserted
      <3>2. QED BY <3>1, InsertedRow DEF Inv, ClaimsBound
    <2>2. CASE UNCHANGED admission  BY <2>2
    <2>3. QED BY <2>1, <2>2, RouterRecords
  <1>3. QED BY <1>1, <1>2, RouterRecords DEF Advances, Outcomes, Pending

\* Of the consumer's statements, one writes each record, under its own guard.
LEMMA ConsumerAttempts ==
  ASSUME Inv, NEW c \in Consumers, Consumer(c), NEW m \in Messages, attempt[m] \in Outcomes
  PROVE  attempt'[m] = attempt[m]
PROOF
  <1> USE DEF Inv, TypeOK, rows
  <1>1. CASE CloseAttempt(c)  BY <1>1 DEF CloseAttempt, StillUnsent, Pending, Outcomes
  <1>2. CASE Authorize(c)  BY <1>2 DEF Authorize, TerminalTrigger, Outcomes
  <1>3. CASE ProjectAttempt(c)  BY <1>3 DEF ProjectAttempt, TerminalTrigger
  <1>4. CASE UNCHANGED attempt  BY <1>4
  <1>5. QED
    BY <1>1, <1>2, <1>3, <1>4
    DEF Consumer, Work, Take, Resume, Check, RecordIntent, Duplicate, Verify, ClaimBoundary,
        CloseUnsent, CallProvider, RetryOrExhaust, RecordTerminal, ProjectAdmission,
        CleanSpool, ForgetSpoolKey, Finish, ConsumerCrash

LEMMA ConsumerAdmissions ==
  ASSUME Inv, NEW c \in Consumers, Consumer(c), NEW m \in Messages,
         admission[m] \notin {"none", "claimed"}
  PROVE  /\ admission'[m] \notin {"none", "claimed"}
         /\ admission[m] \in Outcomes => admission'[m] = admission[m]
PROOF
  <1> USE DEF Inv, TypeOK, rows
  <1>1. CASE ClaimBoundary(c)  BY <1>1 DEF ClaimBoundary, BoundaryOpen, Crossable, Outcomes
  <1>2. CASE CloseUnsent(c)  BY <1>2 DEF CloseUnsent, Outcomes
  <1>3. CASE ProjectAdmission(c)
    BY <1>3 DEF ProjectAdmission, ConsumerBound, Carries, Outcomes
  <1>4. CASE UNCHANGED admission  BY <1>4
  <1>5. QED
    BY <1>1, <1>2, <1>3, <1>4
    DEF Consumer, Work, Take, Resume, Check, CloseAttempt, Authorize, RecordIntent, Duplicate,
        Verify, CallProvider, RetryOrExhaust, RecordTerminal, ProjectAttempt, CleanSpool,
        ForgetSpoolKey, Finish, ConsumerCrash

LEMMA ConsumerAdvances ==
  ASSUME Inv, NEW c \in Consumers, Consumer(c)
  PROVE  \A m \in Messages : Advances(m)
PROOF
  <1>1. \A m \in Messages : attempt[m] # "none" => attempt'[m] # "none" /\ claim'[m] = claim[m]
    BY ConsumerKeepsClaims, RowsStep
  <1>2. \A m \in Messages : terminal[m] \in Outcomes => terminal'[m] = terminal[m]
    <2>1. CASE RecordTerminal(c)  BY <2>1 DEF RecordTerminal, Inv, TypeOK, Outcomes
    <2>2. CASE UNCHANGED terminal  BY <2>2
    <2>3. QED
      BY <2>1, <2>2
      DEF Consumer, Work, Take, Resume, Check, CloseAttempt, Authorize, RecordIntent,
          Duplicate, Verify, ClaimBoundary, CloseUnsent, CallProvider, RetryOrExhaust,
          ProjectAttempt, ProjectAdmission, CleanSpool, ForgetSpoolKey, Finish,
          ConsumerCrash, ledger
  <1>3. \A m \in Messages : mailed[m] = 1 => mailed'[m] = 1
    <2>1. CASE CallProvider(c)
      <3>1. mailed' = mailed \/ mailed' = [mailed EXCEPT ![Current(c)] = @ + 1]
        BY <2>1 DEF CallProvider
      <3>2. \A m \in Messages : mailed'[m] \in {0, 1}
        BY ConsumerHoldsBoundary DEF BoundaryHeld
      <3>3. QED BY <3>1, <3>2 DEF Inv, TypeOK
    <2>2. CASE UNCHANGED mailed  BY <2>2
    <2>3. QED
      BY <2>1, <2>2
      DEF Consumer, Work, Take, Resume, Check, CloseAttempt, Authorize, RecordIntent,
          Duplicate, Verify, ClaimBoundary, CloseUnsent, RetryOrExhaust, RecordTerminal,
          ProjectAttempt, ProjectAdmission, CleanSpool, ForgetSpoolKey, Finish,
          ConsumerCrash, history
  <1>4. QED
    BY <1>1, <1>2, <1>3, ConsumerAttempts, ConsumerAdmissions DEF Advances, Outcomes

\* A recorded outcome is never taken back, whichever invocations race for it.
LEMMA RecordsAdvance ==
  ASSUME Inv, [Next]_vars
  PROVE  \A m \in Messages : Advances(m)
PROOF
  <1>1. CASE Environment
    BY <1>1, EnvironmentKeepsClaims DEF Advances, rows, ledger, history
  <1>2. CASE UNCHANGED vars  BY <1>2 DEF Advances, vars, rows, ledger, history
  <1>3. QED BY <1>1, <1>2, RouterAdvances, ConsumerAdvances DEF Next

\* One invocation's step leaves the locals of all others, and no job is lost.
LEMMA OtherInvocations ==
  ASSUME Inv, NEW c \in Consumers, Consumer(c)
  PROVE  /\ UNCHANGED <<router, claim>>
         /\ \A d \in Consumers : d # c => cpc'[d] = cpc[d] /\ cview'[d] = cview[d]
         /\ \A h \in Deliveries : job[h] # "none" => job'[h] # "none"
PROOF
  <1>1. claim' = claim  BY ConsumerKeepsClaims DEF ClaimsKept
  <1>2. UNCHANGED router
    BY DEF Consumer, Work, Take, Resume, Check, CloseAttempt, Authorize, RecordIntent,
           Duplicate, Verify, ClaimBoundary, CloseUnsent, CallProvider, RetryOrExhaust,
           RecordTerminal, ProjectAttempt, ProjectAdmission, CleanSpool, ForgetSpoolKey,
           Finish, ConsumerCrash
  <1>3. \A d \in Consumers : d # c => cpc'[d] = cpc[d] /\ cview'[d] = cview[d]
    BY DEF Inv, TypeOK, Consumer, Work, Take, Resume, Check, CloseAttempt, Authorize,
           RecordIntent, Duplicate, Verify, ClaimBoundary, CloseUnsent, CallProvider,
           RetryOrExhaust, RecordTerminal, ProjectAttempt, ProjectAdmission, CleanSpool,
           ForgetSpoolKey, Finish, ConsumerCrash, Redeliver, EndInvocation, Step, StepWith
  <1>4. \A h \in Deliveries : job[h] # "none" => job'[h] # "none"
    BY DEF Inv, TypeOK, queue, Consumer, Work, Take, Resume, Check, CloseAttempt, Authorize,
           RecordIntent, Duplicate, Verify, ClaimBoundary, CloseUnsent, CallProvider,
           RetryOrExhaust, RecordTerminal, ProjectAttempt, ProjectAdmission, CleanSpool,
           ForgetSpoolKey, Finish, ConsumerCrash, Redeliver
  <1>5. QED BY <1>1, <1>2, <1>3, <1>4

----------------------------------------------------------------------------
(* The canary.                                                             *)

LEMMA CanaryKept ==
  ASSUME Inv, CanaryHeld, [Next]_vars
  PROVE  CanaryHeld'
PROOF
  <1>1. CASE Inserted
    <2>1. PICK new \in Claims : InsertClaim(new)  BY <1>1 DEF Inserted
    <2>2. new.kind = "canary" => canary # None
      BY <2>1, RelayConstants DEF InsertClaim, InsertAllowed, Claims, RelayConstants
    <2>3. new.kind = "canary" => canary' = None  BY <2>1 DEF InsertClaim
    <2>4. new.kind # "canary" => canary' = canary  BY <2>1 DEF InsertClaim
    <2>5. QED BY <2>1, <2>2, <2>3, <2>4, InsertedRow DEF CanaryHeld
  <1>2. CASE UNCHANGED <<claim, canary>>  BY <1>2 DEF CanaryHeld
  <1>3. ASSUME NEW c \in Consumers, Consumer(c)  PROVE UNCHANGED <<claim, canary>>
    <2>1. UNCHANGED canary
      BY <1>3 DEF Consumer, Work, Take, Resume, Check, CloseAttempt, Authorize, RecordIntent,
           Duplicate, Verify, ClaimBoundary, CloseUnsent, CallProvider, RetryOrExhaust,
           RecordTerminal, ProjectAttempt, ProjectAdmission, CleanSpool, ForgetSpoolKey,
           Finish, ConsumerCrash, gates
    <2>2. QED BY <1>3, <2>1, OtherInvocations
  <1>4. CASE Environment
    <2>1. UNCHANGED canary
      BY <1>4 DEF Environment, ActivatePolicy, ToggleQuarantine, CloseRelay, RevokeActivation,
           Redeploy, LapseSpool, Age
    <2>2. QED BY <1>2, <1>4, <2>1, EnvironmentKeepsClaims DEF rows
  <1>5. CASE UNCHANGED vars  BY <1>2, <1>5 DEF vars, rows, gates
  <1>6. QED BY <1>1, <1>2, <1>3, <1>4, <1>5, RouterRecords DEF Next

LEMMA HeldOnce ==
  ASSUME CanaryHeld
  PROVE  CanaryConsumedOnce
PROOF
  <1> DEFINE S == {m \in Messages : claim[m].kind = "canary"}
  <1>1. CASE S = {}  BY <1>1, FS_EmptySet DEF CanaryConsumedOnce
  <1>2. CASE S # {}
    <2>1. PICK m \in Messages : claim[m].kind = "canary"  BY <1>2
    <2>2. S = {m} /\ canary = None  BY <2>1 DEF CanaryHeld
    <2>3. Cardinality(S) = 1  BY <2>2, FS_Singleton
    <2>4. QED BY <2>2, <2>3 DEF CanaryConsumedOnce
  <1>3. QED BY <1>1, <1>2

----------------------------------------------------------------------------
(* Durable deliveries.                                                     *)

\* A claim that holds a delivery's bytes goes on holding them.
LEMMA ExactStays ==
  ASSUME Inv, [Next]_vars, NEW h \in Deliveries, ExactRedelivery(h)
  PROVE  ExactRedelivery(h)'
PROOF
  <1>1. MessageOf[h] \in Messages  BY RelayConstants DEF RelayConstants
  <1>2. QED BY <1>1, RecordsAdvance DEF Advances, ExactRedelivery

LEMMA DurableKept ==
  ASSUME Inv, DurableHeld, [Next]_vars
  PROVE  DurableHeld'
PROOF
  <1> USE DEF Inv, TypeOK
  <1>1. ASSUME NEW h \in Deliveries, Router(h)
        PROVE  DurableHeld'
    <2>1. \A d \in Deliveries : d # h => hpc'[d] = hpc[d]
      BY <1>1 DEF Router, Lookup, Admit, SpoolReply, ClaimReply, Readback, Dispatch, Enqueue,
           Journal, RouterCrash, Goto, End
    <2>2. \A d \in Deliveries : job[d] # "none" => job'[d] # "none"
      BY <1>1 DEF Router, Lookup, Admit, SpoolReply, ClaimReply, Readback, Dispatch, Enqueue,
           Journal, RouterCrash, queue
    <2>3. hpc'[h] \in {"dispatch", "enqueue", "journal", "accepted", "resumed"} =>
            ExactRedelivery(h)
      BY <1>1 DEF Router, Lookup, Admit, SpoolReply, ClaimReply, Readback, Dispatch, Enqueue,
           Journal, RouterCrash, Goto, End, DurableHeld
    <2>4. hpc'[h] \in {"journal", "accepted"} => job'[h] # "none"
      <3>1. CASE Enqueue(h)  BY <3>1 DEF Enqueue, Goto, End
      <3>2. CASE Journal(h)  BY <3>2, <2>2 DEF Journal, End, DurableHeld
      <3>3. CASE Dispatch(h)
        <4>1. hpc'[h] \in {"enqueue", "refused", "resumed"}  BY <3>3 DEF Dispatch, Goto, End
        <4>2. QED BY <4>1
      <3>4. CASE ~Enqueue(h) /\ ~Journal(h) /\ ~Dispatch(h)
        BY <1>1, <3>4 DEF Router, Lookup, Admit, SpoolReply, ClaimReply, Readback, RouterCrash,
             Goto, End
      <3>5. QED BY <3>1, <3>2, <3>3, <3>4
    <2>5. QED BY <1>1, <2>1, <2>2, <2>3, <2>4, ExactStays DEF DurableHeld, Next
  <1>2. ASSUME UNCHANGED hpc, \A d \in Deliveries : job[d] # "none" => job'[d] # "none"
        PROVE  DurableHeld'
    BY <1>2, ExactStays DEF DurableHeld
  <1>3. CASE LateCommit  BY <1>2, <1>3 DEF LateCommit, queue
  <1>4. ASSUME NEW c \in Consumers, Consumer(c) PROVE DurableHeld'
    BY <1>2, <1>4, OtherInvocations DEF router
  <1>5. CASE Environment  BY <1>2, <1>5, EnvironmentKeepsClaims DEF router, queue
  <1>6. CASE UNCHANGED vars  BY <1>2, <1>6 DEF vars, router, queue
  <1>7. QED BY <1>1, <1>3, <1>4, <1>5, <1>6 DEF Next

----------------------------------------------------------------------------
(* The spool.                                                              *)

\* A step of delivery h that deletes nothing from the spool and binds nothing.
LEMMA SpoolFrame ==
  ASSUME Inv, SpoolHeld, NEW h \in Deliveries,
         UNCHANGED <<inflight, claim, spoolKey, lapsed>>, spool \subseteq spool',
         \A m \in Messages :
           attempt'[m] = attempt[m] \/ {attempt[m], attempt'[m]} \subseteq Pending,
         \A d \in Deliveries : d # h => hpc'[d] = hpc[d] /\ hview'[d] = hview[d],
         hpc'[h] \in {"spool", "claim"} => hview'[h].claim.by = h,
         hpc'[h] = "claim" => h \in spool' \cup lapsed',
         hpc'[h] # "readback", Unclaiming(h)' => Unclaiming(h)
  PROVE  SpoolHeld'
PROOF
  <1>1. \A m \in Messages : attempt'[m] = "none" => attempt[m] = "none"  BY DEF Pending
  <1>2. \A m \in Messages : attempt'[m] \notin {"none", "provider_accepted"} =>
          attempt[m] \notin {"none", "provider_accepted"}
    BY DEF Pending
  <1>3. \A new \in inflight : new.by \in Deliveries /\ MessageOf[new.by] \in Messages
    BY RelayConstants DEF Inv, TypeOK, Claims, RelayConstants
  <1>4. \A d \in Deliveries : hpc'[d] \in {"spool", "claim"} => hview'[d].claim.by = d
    BY DEF SpoolHeld
  <1>5. \A d \in Deliveries : hpc'[d] = "claim" => d \in spool' \cup lapsed'
    BY DEF SpoolHeld
  <1>6. \A new \in inflight' :
          /\ ~Unclaiming(new.by)'
          /\ hpc'[new.by] = "readback" => ~hview'[new.by].certain
          /\ attempt'[MessageOf[new.by]] = "none" => new.by \in spool' \cup lapsed'
    BY <1>1, <1>3 DEF SpoolHeld, Unclaiming
  <1>7. \A m \in Messages : attempt'[m] \notin {"none", "provider_accepted"} =>
          claim'[m].by \in spool' \cup lapsed' /\ spoolKey'[m] = claim'[m].by
    BY <1>2 DEF SpoolHeld
  <1>8. \A m \in Messages : attempt'[m] # "none" => ~Unclaiming(claim[m].by)'
    <2>1. ASSUME NEW m \in Messages, attempt'[m] # "none"  PROVE ~Unclaiming(claim[m].by)'
      <3>1. attempt[m] # "none" /\ claim[m].by \in Deliveries
        BY <2>1 DEF Pending, Inv, ClaimsBound, Claims
      <3>2. ~Unclaiming(claim[m].by)  BY <3>1 DEF SpoolHeld
      <3>3. QED BY <3>1, <3>2 DEF Unclaiming
    <2>2. QED BY <2>1
  <1>9. QED BY <1>4, <1>5, <1>6, <1>7, <1>8 DEF SpoolHeld, Unclaiming

\* Binding a claim whose bytes are in the spool.
LEMMA InsertKeepsSpool ==
  ASSUME Inv, SpoolHeld, NEW new \in Claims, InsertClaim(new),
         new.by \in spool \cup lapsed, UNCHANGED bucket
  PROVE  \A m \in Messages : attempt'[m] \notin {"none", "provider_accepted"} =>
           claim'[m].by \in spool' \cup lapsed' /\ spoolKey'[m] = claim'[m].by
PROOF BY InsertedRow DEF SpoolHeld, bucket

LEMMA ClaimKeepsSpool ==
  ASSUME Inv, SpoolHeld, NEW h \in Deliveries, ClaimReply(h)
  PROVE  SpoolHeld'
PROOF
  <1> USE DEF Inv, TypeOK
  <1> DEFINE new == hview[h].claim
  <1>1. /\ new \in Claims /\ new.by = h /\ h \in spool \cup lapsed
        /\ \A old \in inflight : old.by # h
    BY DEF ClaimReply, RouterBound, SpoolHeld, Unclaiming
  <1>2. PICK certain \in BOOLEAN :
          /\ hview' = [hview EXCEPT ![h] = Handling(NoClaim, certain)]
          /\ inflight' = inflight \/ (inflight' = inflight \cup {new} /\ ~certain)
    BY DEF ClaimReply
  <1>3. hpc' = [hpc EXCEPT ![h] = "readback"] /\ UNCHANGED bucket  BY DEF ClaimReply
  <1>4. \A d \in Deliveries : d # h => hview'[d] = hview[d]  BY <1>2
  <1>5. hview'[h].certain = certain  BY <1>2 DEF Handling
  <1>6. InsertClaim(new) \/ UNCHANGED rows  BY DEF ClaimReply
  <1>7. \A m \in Messages : attempt'[m] = "none" => attempt[m] = "none"
    BY <1>1, <1>6, InsertedRow DEF rows
  <1>8. \A old \in inflight : old.by \in Deliveries /\ MessageOf[old.by] \in Messages
    BY RelayConstants DEF Claims, RelayConstants
  <1>14. ~Unclaiming(h)' /\ \A d \in Deliveries : ~Unclaiming(d) => ~Unclaiming(d)'
    BY <1>3 DEF Unclaiming
  <1>9. \A d \in Deliveries : hpc'[d] \in {"spool", "claim"} => hview'[d].claim.by = d
    BY <1>3, <1>4 DEF SpoolHeld
  <1>10. \A d \in Deliveries : hpc'[d] = "claim" => d \in spool' \cup lapsed'
    BY <1>3 DEF SpoolHeld, bucket
  <1>11. ASSUME NEW old \in inflight'
         PROVE  /\ ~Unclaiming(old.by)'
                /\ hpc'[old.by] = "readback" => ~hview'[old.by].certain
                /\ attempt'[MessageOf[old.by]] = "none" => old.by \in spool' \cup lapsed'
    <2>1. CASE old \in inflight
      BY <1>1, <1>3, <1>4, <1>7, <1>8, <1>14, <2>1 DEF SpoolHeld, bucket
    <2>2. CASE old = new /\ ~certain  BY <1>1, <1>3, <1>5, <1>14, <2>2 DEF bucket
    <2>3. QED BY <1>2, <1>11, <2>1, <2>2
  <1>12. \A m \in Messages : attempt'[m] \notin {"none", "provider_accepted"} =>
          claim'[m].by \in spool' \cup lapsed' /\ spoolKey'[m] = claim'[m].by
    <2>1. CASE InsertClaim(new)  BY <1>1, <1>3, <2>1, InsertKeepsSpool
    <2>2. CASE UNCHANGED rows  BY <1>3, <2>2 DEF rows, bucket, SpoolHeld
    <2>3. QED BY <1>6, <2>1, <2>2
  <1>15. ASSUME NEW m \in Messages, attempt'[m] # "none"  PROVE ~Unclaiming(claim[m].by)'
    <2>1. CASE InsertClaim(new) /\ m = MessageOf[h]  BY <1>1, <1>14, <2>1, InsertedRow
    <2>2. CASE attempt'[m] = attempt[m] /\ claim'[m] = claim[m]
      <3>1. claim[m].by \in Deliveries /\ ~Unclaiming(claim[m].by)
        BY <1>15, <2>2 DEF SpoolHeld, ClaimsBound, Claims
      <3>2. QED BY <1>14, <2>2, <3>1
    <2>3. QED BY <1>1, <1>6, <2>1, <2>2, InsertedRow DEF rows
  <1>13. QED BY <1>9, <1>10, <1>11, <1>12, <1>15 DEF SpoolHeld

\* The candidate that a readback deletes is nobody's claim, now or later.
LEMMA ReadbackKeepsSpool ==
  ASSUME Inv, SpoolHeld, NEW h \in Deliveries, Readback(h)
  PROVE  SpoolHeld'
PROOF
  <1> USE DEF Inv, TypeOK
  <1>1. UNCHANGED <<rows, lapsed, inflight>>  BY DEF Readback
  <1>2. \A d \in Deliveries : d # h => hpc'[d] = hpc[d] /\ hview'[d] = hview[d]
    BY DEF Readback, Goto, End
  <1>3. hpc'[h] \in {"dispatch", "refused"}  BY DEF Readback, Goto, End
  <1>7. \A d \in Deliveries : ~Unclaiming(d) => ~Unclaiming(d)'
    BY <1>2, <1>3 DEF Unclaiming
  <1>8. \A m \in Messages : attempt'[m] # "none" => ~Unclaiming(claim[m].by)'
    <2>1. \A m \in Messages : attempt[m] # "none" => claim[m].by \in Deliveries
      BY DEF ClaimsBound, Claims
    <2>2. QED BY <1>1, <1>7, <2>1 DEF SpoolHeld, rows
  <1>4. CASE spool' = spool
    BY <1>1, <1>2, <1>3, <1>4, SpoolFrame DEF rows, Unclaiming
  <1>5. CASE spool' # spool
    <2>1. spool' = spool \ {h} /\ CandidateLost(h) /\ hpc[h] = "readback"
      BY <1>5 DEF Readback
    <2>2. \A new \in inflight : new.by \in Deliveries /\ MessageOf[new.by] \in Messages
      BY RelayConstants DEF Claims, RelayConstants
    <2>3. \A d \in Deliveries : hpc'[d] \in {"spool", "claim"} => hview'[d].claim.by = d
      BY <1>2, <1>3 DEF SpoolHeld
    <2>4. \A d \in Deliveries : hpc'[d] = "claim" => d \in spool' \cup lapsed'
      BY <1>1, <1>2, <1>3, <2>1 DEF SpoolHeld
    <2>5. ASSUME NEW new \in inflight, attempt[MessageOf[new.by]] = "none"
          PROVE  new.by # h
      BY <2>1, <2>5 DEF SpoolHeld, CandidateLost, ExactRedelivery
    <2>6. ASSUME NEW m \in Messages, attempt[m] \notin {"none", "provider_accepted"}
          PROVE  claim[m].by # h
      BY <2>1, <2>6 DEF SpoolHeld, CandidateLost, ExactRedelivery, ClaimsBound
    <2>7. \A new \in inflight' :
            /\ ~Unclaiming(new.by)'
            /\ hpc'[new.by] = "readback" => ~hview'[new.by].certain
            /\ attempt'[MessageOf[new.by]] = "none" => new.by \in spool' \cup lapsed'
      BY <1>1, <1>2, <1>3, <1>7, <2>1, <2>2, <2>5 DEF SpoolHeld, rows
    <2>8. \A m \in Messages : attempt'[m] \notin {"none", "provider_accepted"} =>
            claim'[m].by \in spool' \cup lapsed' /\ spoolKey'[m] = claim'[m].by
      BY <1>1, <2>1, <2>6 DEF SpoolHeld, rows
    <2>9. QED BY <1>8, <2>3, <2>4, <2>7, <2>8 DEF SpoolHeld
  <1>6. QED BY <1>4, <1>5

LEMMA RouterKeepsSpool ==
  ASSUME Inv, SpoolHeld, NEW h \in Deliveries, Router(h)
  PROVE  SpoolHeld'
PROOF
  <1> USE DEF Inv, TypeOK, rows, bucket, Unclaiming
  <1>1. CASE Lookup(h)      BY <1>1, SpoolFrame DEF Lookup, Goto, End
  <1>2. CASE Admit(h)
    <2>1. CASE hpc' = [hpc EXCEPT ![h] = "spool"] /\ hview' = [hview EXCEPT ![h] = Handling(Chosen(h), TRUE)]
      <3>1. hview'[h].claim.by = h  BY <2>1 DEF Handling, Chosen
      <3>2. QED BY <1>2, <2>1, <3>1, SpoolFrame DEF Admit
    <2>2. CASE End(h, "refused")  BY <1>2, <2>2, SpoolFrame DEF Admit, End
    <2>3. QED BY <1>2, <2>1, <2>2 DEF Admit
  <1>3. CASE SpoolReply(h)
    <2>1. UNCHANGED rows /\ UNCHANGED <<lapsed, inflight>> /\ spool \subseteq spool'
      BY <1>3 DEF SpoolReply
    <2>2. CASE spool' = spool \cup {h} /\ Goto(h, "claim")
      BY <1>3, <2>1, <2>2, SpoolFrame DEF SpoolReply, Goto, SpoolHeld
    <2>3. CASE End(h, "refused")  BY <1>3, <2>1, <2>3, SpoolFrame DEF SpoolReply, End
    <2>4. QED BY <1>3, <2>2, <2>3 DEF SpoolReply
  <1>4. CASE ClaimReply(h)  BY <1>4, ClaimKeepsSpool
  <1>5. CASE Readback(h)    BY <1>5, ReadbackKeepsSpool
  <1>6. CASE Dispatch(h)    BY <1>6, SpoolFrame DEF Dispatch, Goto, End
  <1>7. CASE Enqueue(h)     BY <1>7, SpoolFrame DEF Enqueue, Goto, End
  <1>8. CASE Journal(h)     BY <1>8, SpoolFrame DEF Journal, End, Pending
  <1>9. CASE RouterCrash(h) BY <1>9, SpoolFrame DEF RouterCrash, End
  <1>10. QED BY <1>1, <1>2, <1>3, <1>4, <1>5, <1>6, <1>7, <1>8, <1>9 DEF Router

LEMMA LateCommitKeepsSpool ==
  ASSUME Inv, SpoolHeld, LateCommit
  PROVE  SpoolHeld'
PROOF
  <1>1. PICK new \in inflight : InsertClaim(new) /\ inflight' = inflight \ {new}
    BY DEF LateCommit
  <1>2. new \in Claims  BY DEF Inv, TypeOK
  <1>3. UNCHANGED <<bucket, hpc, hview>>  BY DEF LateCommit
  <1>4. new.by \in spool \cup lapsed  BY <1>1, <1>2, InsertedRow DEF SpoolHeld
  <1>5. \A m \in Messages : attempt'[m] \notin {"none", "provider_accepted"} =>
          claim'[m].by \in spool' \cup lapsed' /\ spoolKey'[m] = claim'[m].by
    BY <1>1, <1>2, <1>3, <1>4, InsertKeepsSpool
  <1>6. \A m \in Messages : attempt'[m] = "none" => attempt[m] = "none"
    BY <1>1, <1>2, InsertedRow
  <1>7. \A old \in inflight : MessageOf[old.by] \in Messages
    BY RelayConstants DEF Inv, TypeOK, Claims, RelayConstants
  <1>8. \A m \in Messages : attempt'[m] # "none" => ~Unclaiming(claim[m].by)'
    BY <1>1, <1>2, <1>3, InsertedRow DEF SpoolHeld, Unclaiming
  <1>9. QED BY <1>1, <1>3, <1>5, <1>6, <1>7, <1>8 DEF SpoolHeld, bucket, Unclaiming

\* Only a reply that was accepted is cleaned up.
LEMMA ConsumerKeepsSpool ==
  ASSUME Inv, SpoolHeld, FinishHeld, NEW c \in Consumers, Consumer(c)
  PROVE  SpoolHeld'
PROOF
  <1> USE DEF Inv, TypeOK
  <1>1. UNCHANGED <<router, claim>>  BY OtherInvocations
  <1>2. \A m \in Messages : attempt'[m] = "none" <=> attempt[m] = "none"
    BY ConsumerKeepsClaims DEF ClaimsKept
  <1>3. \A m \in Messages : attempt[m] = "provider_accepted" => attempt'[m] = attempt[m]
    BY ConsumerAdvances DEF Advances, Outcomes
  <1>4. \A new \in inflight : MessageOf[new.by] \in Messages
    BY RelayConstants DEF Claims, RelayConstants
  <1>5. lapsed' = lapsed
    BY DEF Consumer, Work, Take, Resume, Check, CloseAttempt, Authorize, RecordIntent,
           Duplicate, Verify, ClaimBoundary, CloseUnsent, CallProvider, RetryOrExhaust,
           RecordTerminal, ProjectAttempt, ProjectAdmission, CleanSpool, ForgetSpoolKey,
           Finish, ConsumerCrash, bucket
  <1>6. ASSUME UNCHANGED <<spool, spoolKey>>  PROVE SpoolHeld'
    BY <1>1, <1>2, <1>3, <1>4, <1>5, <1>6 DEF SpoolHeld, router, Unclaiming
  <1>7. CASE CleanSpool(c)
    <2> DEFINE k == Current(c)
    <2>1. /\ k \in Messages /\ attempt[k] = "provider_accepted"
          /\ spool' = spool \ {claim[k].by} /\ UNCHANGED rows
      BY <1>7, CurrentBound DEF CleanSpool, FinishHeld, Finishes
    <2>2. \A h \in Deliveries : h = claim[k].by => MessageOf[h] = k
      BY <2>1 DEF ClaimsBound
    <2>3. hpc' = hpc /\ hview' = hview /\ inflight' = inflight  BY <1>1 DEF router
    <2>4. \A h \in Deliveries : hpc'[h] = "claim" => h \in spool' \cup lapsed'
      BY <1>5, <2>1, <2>3 DEF SpoolHeld, Unclaiming
    <2>5. \A new \in inflight : attempt'[MessageOf[new.by]] = "none" => new.by \in spool' \cup lapsed'
      BY <1>2, <1>4, <1>5, <2>1 DEF SpoolHeld, ClaimsBound
    <2>6. \A m \in Messages : attempt'[m] \notin {"none", "provider_accepted"} =>
            claim'[m].by \in spool' \cup lapsed' /\ spoolKey'[m] = claim'[m].by
      BY <1>1, <1>5, <2>1 DEF SpoolHeld, ClaimsBound, rows
    <2>7. QED BY <1>1, <1>2, <2>3, <2>4, <2>5, <2>6 DEF SpoolHeld, Unclaiming
  <1>8. CASE ForgetSpoolKey(c)
    <2>1. attempt[Current(c)] = "provider_accepted"
      BY <1>8 DEF ForgetSpoolKey, FinishHeld, Finishes
    <2>2. spool' = spool /\ spoolKey' = [spoolKey EXCEPT ![Current(c)] = None] /\ attempt' = attempt
      BY <1>8 DEF ForgetSpoolKey, bucket
    <2>3. QED BY <1>1, <1>4, <1>5, <2>1, <2>2 DEF SpoolHeld, router, Unclaiming
  <1>9. QED
    BY <1>6, <1>7, <1>8
    DEF Consumer, Work, Take, Resume, Check, CloseAttempt, Authorize, RecordIntent,
        Duplicate, Verify, ClaimBoundary, CloseUnsent, CallProvider, RetryOrExhaust,
        RecordTerminal, ProjectAttempt, ProjectAdmission, Finish, ConsumerCrash, bucket, rows

----------------------------------------------------------------------------
(* What an invocation finishes.                                            *)

\* What an invocation knows of the records outlives the steps of all others.
LEMMA FinishFrame ==
  ASSUME Inv, [Next]_vars, NEW c \in Consumers, Finishes(c),
         cpc'[c] = cpc[c], cview'[c] = cview[c]
  PROVE  Finishes(c)'
PROOF
  <1>1. CASE cpc[c] = "idle"  BY <1>1 DEF Finishes
  <1>2. CASE cpc[c] # "idle"
    <2>1. Current(c) \in Messages /\ attempt[Current(c)] # "none" /\ Current(c)' = Current(c)
      BY <1>2, CurrentBound DEF Inv, Current
    <2>2. Advances(Current(c)) /\ admission[Current(c)] # "none"
      BY <2>1, RecordsAdvance DEF Inv, ClaimsBound
    <2>3. cpc[c] = "projectAdmission" => cview[c].outcome \in Outcomes
      BY DEF Inv, ConsumerBound, Carries
    <2>4. QED BY <2>1, <2>2, <2>3 DEF Finishes, Advances, Outcomes
  <1>3. QED BY <1>1, <1>2

\* An accepted answer is an e-mail sent.
LEMMA AnswerIsTrue ==
  ASSUME Inv, NEW c \in Consumers, CallProvider(c), cview'[c].outcome = "provider_accepted"
  PROVE  mailed'[Current(c)] = 1
PROOF
  <1> USE DEF Inv, TypeOK
  <1>1. Current(c) \in Messages /\ cpc[c] = "call"  BY CurrentBound DEF CallProvider
  <1>2. PICK answer \in Answers(cview[c].mode) :
          /\ mailed' = IF answer[2] /\ Sends(Current(c), cview[c].mode)
                       THEN [mailed EXCEPT ![Current(c)] = @ + 1] ELSE mailed
          /\ StepWith(c, IF answer[1] = "retry" THEN "retry" ELSE "record", answer[1])
    BY DEF CallProvider
  <1>3. cview[c] \in ConsumerView  OBVIOUS
  <1>4. cview'[c].outcome = answer[1]  BY <1>2, <1>3 DEF StepWith, ConsumerView
  <1>5. answer[2] = TRUE  BY <1>4 DEF Answers
  <1>6. mailed'[Current(c)] \in {0, 1} /\ mailed[Current(c)] \in {0, 1}
    BY <1>1, ConsumerHoldsBoundary DEF Consumer, Work, BoundaryHeld
  <1>7. CASE Sends(Current(c), cview[c].mode)  BY <1>1, <1>2, <1>5, <1>6, <1>7
  <1>8. CASE ~Sends(Current(c), cview[c].mode)  BY <1>1, <1>2, <1>6, <1>8 DEF Sends
  <1>9. QED BY <1>7, <1>8

LEMMA FinishKept ==
  ASSUME Outcome, NEW c \in Consumers, Consumer(c)
  PROVE  Finishes(c)'
PROOF
  <1> USE DEF Outcome, Inv, TypeOK, Finishes, rows, ledger, history, Step, StepWith
  <1>1. Finishes(c)  BY DEF FinishHeld
  <1>2. cpc[c] # "idle" => /\ Current(c) \in Messages /\ attempt[Current(c)] # "none"
                           /\ admission[Current(c)] # "none"
    BY CurrentBound DEF ClaimsBound
  <1>3. cview[c] \in ConsumerView  OBVIOUS
  <1>4. \A label, outcome : StepWith(c, label, outcome) =>
          cpc'[c] = label /\ cview'[c].outcome = outcome /\ Current(c)' = Current(c)
    BY <1>3 DEF ConsumerView, Current
  <1>5. \A label : Step(c, label) /\ UNCHANGED cview =>
          cpc'[c] = label /\ cview'[c].outcome = cview[c].outcome /\ Current(c)' = Current(c)
    BY DEF Current
  <1>6. CASE EndInvocation(c)  BY <1>6 DEF EndInvocation
  <1>7. CASE Redeliver(c)  BY <1>6, <1>7 DEF Redeliver
  <1>8. CASE Take(c)
    <2>1. PICK h \in Deliveries : cview' = [cview EXCEPT ![c] = Taken(h)]  BY <1>8 DEF Take
    <2>2. cview'[c].outcome = terminal[MessageOf[h]] /\ Current(c)' = MessageOf[h]
      BY <2>1 DEF Taken, Current
    <2>3. MessageOf[h] \in Messages  BY RelayConstants DEF RelayConstants
    <2>4. cpc'[c] = "resume" /\ UNCHANGED mailed  BY <1>8 DEF Take
    <2>5. QED BY <2>2, <2>3, <2>4 DEF AcceptedWasMailed
  <1>9. CASE Resume(c)
    BY <1>1, <1>2, <1>5, <1>9 DEF Resume, ResumePoint
  <1>10. CASE Check(c)
    <2>1. CASE StepWith(c, "close", "failed")  BY <1>4, <2>1
    <2>4. CASE StepWith(c, "close", "recovery_required")  BY <1>4, <2>4
    <2>2. CASE cview' = [cview EXCEPT ![c].policy = policy] /\ Step(c, "authorize")
      <3>1. cview'[c].outcome = cview[c].outcome /\ Current(c)' = Current(c)
        BY <1>3, <2>2 DEF ConsumerView, Current
      <3>2. cpc[c] = "check" /\ cpc'[c] = "authorize" /\ UNCHANGED mailed
        BY <1>10, <2>2 DEF Check
      <3>3. QED BY <1>1, <3>1, <3>2
    <2>3. QED BY <1>10, <2>1, <2>2, <2>4 DEF Check
  <1>11. CASE CloseAttempt(c)
    <2>1. cpc[c] = "close" /\ cpc'[c] = "done" /\ UNCHANGED <<cview, admission, mailed>>
      BY <1>11 DEF CloseAttempt
    <2>2. admission[Current(c)] # "claimed" \/ attempt'[Current(c)] \in Outcomes
      BY <1>2, <1>11 DEF CloseAttempt, StillUnsent, ConsumerBound, Carries, AttemptStatus
    <2>3. QED BY <1>1, <2>1, <2>2 DEF Current
  <1>12. CASE Authorize(c)
    <2>1. CASE Step(c, "intent") /\ UNCHANGED cview
      BY <1>1, <1>5, <1>12, <2>1 DEF Authorize
    <2>2. QED BY <1>7, <1>12, <2>1 DEF Authorize
  <1>13. CASE RecordIntent(c)  BY <1>1, <1>5, <1>13 DEF RecordIntent
  <1>14. CASE Duplicate(c)
    <2>1. UNCHANGED mailed /\ cpc[c] = "duplicate"  BY <1>14 DEF Duplicate
    <2>2. CASE StepWith(c, "projectAttempt", terminal[Current(c)])
      BY <1>2, <1>4, <2>1, <2>2 DEF AcceptedWasMailed
    <2>3. CASE StepWith(c, "record", "recovery_required")  BY <1>4, <2>1, <2>3
    <2>4. CASE Step(c, "verify") /\ UNCHANGED cview  BY <1>1, <1>5, <2>1, <2>4
    <2>5. QED BY <1>14, <2>2, <2>3, <2>4 DEF Duplicate
  <1>15. CASE Verify(c)  BY <1>1, <1>5, <1>15 DEF Verify
  <1>16. CASE ClaimBoundary(c)
    <2>1. UNCHANGED <<mailed, cview>> /\ cpc[c] = "boundary"  BY <1>16 DEF ClaimBoundary
    <2>2. cpc'[c] \in {"call", "unsent"} \/
            (cpc'[c] = "done" /\ admission'[Current(c)] = admission[Current(c)]
               /\ admission[Current(c)] # "claimed")
      BY <1>16 DEF ClaimBoundary
    <2>3. QED BY <1>1, <2>1, <2>2 DEF Current
  <1>17. CASE CloseUnsent(c)
    <2>1. UNCHANGED mailed /\ cpc[c] = "unsent"  BY <1>17 DEF CloseUnsent
    <2>2. CASE StepWith(c, "record", "failed")  BY <1>4, <2>1, <2>2
    <2>3. CASE Step(c, "done") /\ UNCHANGED cview /\ admission[Current(c)] # "claimed" /\ UNCHANGED admission
      BY <1>1, <1>5, <2>1, <2>3
    <2>4. QED BY <1>17, <2>2, <2>3 DEF CloseUnsent
  <1>18. CASE CallProvider(c)
    <2>1. PICK answer :
            StepWith(c, IF answer[1] = "retry" THEN "retry" ELSE "record", answer[1])
      BY <1>18 DEF CallProvider
    <2>2. cpc'[c] \in {"retry", "record"} /\ Current(c)' = Current(c)  BY <1>4, <2>1
    <2>3. QED BY <1>18, <2>2, AnswerIsTrue
  <1>19. CASE RetryOrExhaust(c)
    <2>1. CASE TriesLeft(cview[c].job)  BY <1>7, <1>19, <2>1 DEF RetryOrExhaust
    <2>2. CASE ~TriesLeft(cview[c].job)
      <3>1. cview' = [cview EXCEPT ![c] = [cview[c] EXCEPT !.outcome = "failed", !.again = TRUE]]
        BY <1>19, <2>2 DEF RetryOrExhaust
      <3>2. cview'[c].outcome = "failed"  BY <1>3, <3>1 DEF ConsumerView
      <3>3. cpc'[c] = "record"  BY <1>19, <2>2 DEF RetryOrExhaust
      <3>4. QED BY <3>2, <3>3
    <2>3. QED BY <2>1, <2>2
  <1>20. CASE RecordTerminal(c)
    <2>1. /\ cpc[c] = "record" /\ UNCHANGED mailed
          /\ terminal' = IF terminal[Current(c)] = "none"
                         THEN [terminal EXCEPT ![Current(c)] = cview[c].outcome] ELSE terminal
          /\ StepWith(c, "projectAttempt", terminal'[Current(c)])
      BY <1>20 DEF RecordTerminal
    <2>2. terminal'[Current(c)] \in {terminal[Current(c)], cview[c].outcome}  BY <1>2, <2>1
    <2>3. QED BY <1>1, <1>2, <1>4, <2>1, <2>2 DEF AcceptedWasMailed
  <1>21. CASE ProjectAttempt(c)
    <2>1. CASE attempt' = [attempt EXCEPT ![Current(c)] = cview[c].outcome]
                 /\ Step(c, "projectAdmission") /\ UNCHANGED cview
      BY <1>1, <1>2, <1>5, <1>21, <2>1 DEF ProjectAttempt
    <2>2. QED BY <1>7, <1>21, <2>1 DEF ProjectAttempt
  <1>22. CASE ProjectAdmission(c)
    BY <1>1, <1>5, <1>22 DEF ProjectAdmission, ConsumerBound, Carries
  <1>23. CASE CleanSpool(c)  BY <1>1, <1>5, <1>23 DEF CleanSpool
  <1>24. CASE ForgetSpoolKey(c)
    BY <1>1, <1>5, <1>24 DEF ForgetSpoolKey, Outcomes
  <1>25. CASE Finish(c)  BY <1>6, <1>7, <1>25 DEF Finish
  <1>26. CASE ConsumerCrash(c)  BY <1>7, <1>26 DEF ConsumerCrash
  <1>27. QED
    BY <1>8, <1>9, <1>10, <1>11, <1>12, <1>13, <1>14, <1>15, <1>16, <1>17, <1>18, <1>19,
       <1>20, <1>21, <1>22, <1>23, <1>24, <1>25, <1>26 DEF Consumer, Work

----------------------------------------------------------------------------
(* The queue and the provider's acceptance.                                *)

\* Only an invocation that is done acknowledges its job.
LEMMA UnsentKept ==
  ASSUME Outcome, [Next]_vars
  PROVE  UnsentNeverDropped'
PROOF
  <1> USE DEF Outcome, Inv, TypeOK
  <1> SUFFICES ASSUME NEW h \in Deliveries, job'[h] = "acked",
                      admission'[MessageOf[h]] = "claimed"
               PROVE  attempt'[MessageOf[h]] \in Outcomes
    BY DEF UnsentNeverDropped
  <1> DEFINE m == MessageOf[h]
  <1>1. m \in Messages  BY RelayConstants DEF RelayConstants
  <1>2. Advances(m)  BY <1>1, RecordsAdvance
  <1>3. CASE job[h] = "acked"
    <2>1. attempt[m] # "none"  BY <1>3 DEF RouterBound
    <2>2. admission[m] = "claimed"  BY <1>1, <1>2, <2>1 DEF Advances, ClaimsBound
    <2>3. QED BY <1>2, <1>3, <2>2 DEF UnsentNeverDropped, Advances
  <1>4. CASE job[h] # "acked"
    <2>1. PICK c \in Consumers : Finish(c) /\ cview[c].job = h
      <3>1. \E c \in Consumers : Consumer(c)
        BY <1>4, EnvironmentKeepsClaims
        DEF Next, vars, Router, Lookup, Admit, SpoolReply, ClaimReply, Readback, Dispatch,
            Enqueue, Journal, RouterCrash, LateCommit, queue
      <3>2. PICK c \in Consumers : Consumer(c)  BY <3>1
      <3>3. Finish(c) /\ cview[c].job = h
        BY <1>4, <3>2
        DEF Consumer, Work, Take, Resume, Check, CloseAttempt, Authorize, RecordIntent,
            Duplicate, Verify, ClaimBoundary, CloseUnsent, CallProvider, RetryOrExhaust,
            RecordTerminal, ProjectAttempt, ProjectAdmission, CleanSpool, ForgetSpoolKey,
            Finish, ConsumerCrash, Redeliver, queue
      <3>4. QED BY <3>3
    <2>2. cpc[c] = "done" /\ Current(c) = m /\ UNCHANGED <<admission, attempt>>
      BY <2>1 DEF Finish, rows, Current
    <2>3. QED BY <2>2 DEF FinishHeld, Finishes
  <1>5. QED BY <1>3, <1>4

\* Each record of an acceptance is written by an invocation that knows of it.
LEMMA AcceptedKept ==
  ASSUME Outcome, [Next]_vars
  PROVE  AcceptedWasMailed'
PROOF
  <1> USE DEF Outcome, Inv, TypeOK
  <1> SUFFICES ASSUME NEW m \in Messages,
                      "provider_accepted" \in {attempt'[m], admission'[m], terminal'[m]}
               PROVE  mailed'[m] = 1
    BY DEF AcceptedWasMailed
  <1>1. Advances(m)  BY RecordsAdvance
  <1>2. CASE "provider_accepted" \in {attempt[m], admission[m], terminal[m]}
    BY <1>1, <1>2 DEF AcceptedWasMailed, Advances
  <1>3. CASE "provider_accepted" \notin {attempt[m], admission[m], terminal[m]}
    <2>1. \E c \in Consumers : Consumer(c)
      <3>1. CASE (\E h \in Deliveries : Router(h)) \/ LateCommit
        <4>1. admission'[m] = admission[m] \/ admission'[m] = "claimed"
          BY <3>1, RouterRecords, InsertedRow DEF Inserted
        <4>2. QED BY <1>3, <3>1, <4>1, RouterRecords DEF Pending
      <3>2. CASE Environment  BY <1>3, <3>2, EnvironmentKeepsClaims DEF rows, ledger
      <3>3. CASE UNCHANGED vars  BY <1>3, <3>3 DEF vars, rows, ledger
      <3>4. QED BY <3>1, <3>2, <3>3 DEF Next
    <2>2. PICK c \in Consumers : Consumer(c)  BY <2>1
    <2>3. cpc[c] # "idle" /\ Current(c) = m /\ cview[c].outcome = "provider_accepted"
      <3>1. CASE RecordTerminal(c)
        BY <1>3, <3>1, CurrentBound DEF RecordTerminal, rows
      <3>2. CASE ProjectAttempt(c)  BY <1>3, <3>2 DEF ProjectAttempt, ledger
      <3>3. CASE ProjectAdmission(c)  BY <1>3, <3>3 DEF ProjectAdmission, ledger
      <3>4. CASE CloseAttempt(c)  BY <1>3, <3>4 DEF CloseAttempt, ledger
      <3>5. CASE ~RecordTerminal(c) /\ ~ProjectAttempt(c) /\ ~ProjectAdmission(c) /\ ~CloseAttempt(c)
        BY <1>3, <2>2, <3>5
        DEF Consumer, Work, Take, Resume, Check, Authorize, RecordIntent, Duplicate, Verify,
            ClaimBoundary, CloseUnsent, CallProvider, RetryOrExhaust, CleanSpool,
            ForgetSpoolKey, Finish, ConsumerCrash, rows, ledger
      <3>6. QED BY <3>1, <3>2, <3>3, <3>4, <3>5
    <2>4. mailed[m] = 1  BY <2>3 DEF FinishHeld, Finishes
    <2>5. QED BY <1>1, <2>4 DEF Advances
  <1>4. QED BY <1>2, <1>3

----------------------------------------------------------------------------
(* The theorems.                                                           *)

LEMMA OutcomeInit == Init => Outcome
PROOF
  <1> SUFFICES ASSUME Init PROVE Outcome
    OBVIOUS
  <1>1. Inv  BY InitHolds
  <1>2. CanaryHeld  BY DEF Init, CanaryHeld, NoClaim
  <1>3. SpoolHeld  BY DEF Init, SpoolHeld
  <1>4. DurableHeld  BY DEF Init, DurableHeld
  <1>5. FinishHeld  BY DEF Init, FinishHeld, Finishes
  <1>6. UnsentNeverDropped  BY DEF Init, UnsentNeverDropped
  <1>7. AcceptedWasMailed  BY DEF Init, AcceptedWasMailed
  <1>8. QED BY <1>1, <1>2, <1>3, <1>4, <1>5, <1>6, <1>7 DEF Outcome

LEMMA OutcomeStep == Outcome /\ [Next]_vars => Outcome'
PROOF
  <1> SUFFICES ASSUME Outcome, [Next]_vars PROVE Outcome'
    OBVIOUS
  <1> USE DEF Outcome
  <1>1. Inv' /\ CanaryHeld' /\ DurableHeld' /\ UnsentNeverDropped' /\ AcceptedWasMailed'
    BY StepHolds, CanaryKept, DurableKept, UnsentKept, AcceptedKept
  <1>2. ASSUME NEW c \in Consumers, Consumer(c)
        PROVE  SpoolHeld' /\ FinishHeld'
    <2>1. SpoolHeld'  BY <1>2, ConsumerKeepsSpool
    <2>2. \A d \in Consumers : d # c => Finishes(d)'
      BY <1>2, OtherInvocations, FinishFrame DEF FinishHeld
    <2>3. QED BY <1>2, <2>1, <2>2, FinishKept DEF FinishHeld
  <1>3. ASSUME UNCHANGED <<cpc, cview>>
        PROVE  FinishHeld'
    BY <1>3, FinishFrame DEF FinishHeld
  <1>4. CASE (\E h \in Deliveries : Router(h)) \/ LateCommit
    BY <1>1, <1>3, <1>4, RouterKeepsSpool, LateCommitKeepsSpool, RouterRecords
  <1>5. CASE Environment
    <2>1. UNCHANGED <<rows, router>> /\ spool' \cup lapsed' = spool \cup lapsed
      BY <1>5, EnvironmentKeepsClaims
      DEF Environment, ActivatePolicy, ToggleQuarantine, CloseRelay, RevokeActivation,
          Redeploy, LapseSpool, Age, bucket
    <2>2. SpoolHeld'  BY <2>1 DEF SpoolHeld, Unclaiming, rows, router
    <2>3. QED BY <1>1, <1>3, <1>5, <2>2, EnvironmentKeepsClaims DEF consumer
  <1>6. CASE UNCHANGED vars
    <2>1. SpoolHeld'  BY <1>6 DEF SpoolHeld, Unclaiming, vars, rows, router, bucket
    <2>2. QED BY <1>1, <1>3, <1>6, <2>1 DEF vars, consumer
  <1>7. QED BY <1>1, <1>2, <1>4, <1>5, <1>6 DEF Next

LEMMA OutcomeInvariance == Spec => []Outcome
PROOF BY OutcomeInit, OutcomeStep, PTL DEF Spec

\* No record of an outcome is reopened or changed, whichever invocations race,
\* crash and repeat each other's statements: each statement is guarded by the
\* record it writes, or aborted by the trigger on terminal attempts.
THEOREM OutcomesAreFinal == Spec => OutcomesFinal
PROOF
  <1>1. Inv /\ [Next]_vars =>
          [\A m \in Messages :
             /\ attempt[m] \in Outcomes => attempt'[m] = attempt[m]
             /\ admission[m] \in Outcomes => admission'[m] = admission[m]
             /\ terminal[m] \in Outcomes => terminal'[m] = terminal[m]]_vars
    BY RecordsAdvance DEF Advances
  <1>2. QED BY <1>1, Invariance, PTL DEF Spec, OutcomesFinal

\* Each of the three records of an acceptance is true, for both providers and
\* any number of consumers: it is written by an invocation that saw the answer,
\* or from a record that such an invocation left.
THEOREM AcceptanceIsTrue == Spec => []AcceptedWasMailed
PROOF
  <1>1. Outcome => AcceptedWasMailed  BY DEF Outcome
  <1>2. QED BY <1>1, OutcomeInvariance, PTL

\* The code never deletes the bytes of a claim that was not accepted, although
\* routers delete their candidates and claims commit after their statement failed.
THEOREM BytesAreKept == Spec => []SpoolRetained
PROOF
  <1>1. Outcome => SpoolRetained  BY DEF Outcome, SpoolHeld, SpoolRetained
  <1>2. QED BY <1>1, OutcomeInvariance, PTL

\* An SMTP transaction that was not rejected leaves a durable claim of its bytes.
THEOREM AcceptanceIsDurable == Spec => []AcceptedIsDurable
PROOF
  <1>1. Outcome => AcceptedIsDurable
    BY DEF Outcome, DurableHeld, ExactRedelivery, AcceptedIsDurable
  <1>2. QED BY <1>1, OutcomeInvariance, PTL

\* A canary admission authorizes one reply, also when claims of it are in flight.
THEOREM CanaryOnce == Spec => []CanaryConsumedOnce
PROOF
  <1>1. Outcome => CanaryConsumedOnce  BY HeldOnce DEF Outcome
  <1>2. QED BY <1>1, OutcomeInvariance, PTL

\* No job is acknowledged while its claim still waits to be sent, for any
\* number of consumers that hold jobs of the same reply.
THEOREM UnsentIsKept == Spec => []UnsentNeverDropped
PROOF
  <1>1. Outcome => UnsentNeverDropped  BY DEF Outcome
  <1>2. QED BY <1>1, OutcomeInvariance, PTL

----------------------------------------------------------------------------
(* The promise of the reply path, proved for the deployed consumer:        *)
(* wrangler.mail-outbound.toml sets max_concurrency = 1.  With one         *)
(* invocation at a time a recorded failure of Cloudflare's adapter is true *)
(* and, when every policy binds that adapter, the reply path implements    *)
(* ReplyPromise, for every number of messages, deliveries, policies and    *)
(* changes.  Lone adds to Outcome what a lone invocation may rely on: the  *)
(* records it read are changed by nobody else until it writes them.        *)


\* The queue's consumer has at most one invocation at a time.
OneConsumer == \A c, d \in Consumers : c = d

\* Every policy binds its identities to Cloudflare's adapter.
CloudflareOnly == \A p \in Policies : Adapter[p] = CF

\* Message m was claimed for Cloudflare's adapter.
ByCloudflare(m) == attempt[m] # "none" /\ Adapter[claim[m].policy] = CF

\* The three records of a Cloudflare message never disagree, and a failure they
\* report is true.  An attempt is closed before the boundary without the others.
RecordsAgree(m) ==
  ByCloudflare(m) =>
    /\ terminal[m] # "none" => admission[m] \in {"sending", terminal[m]}
    /\ attempt[m] \in Outcomes =>
         \/ attempt[m] = terminal[m]
         \/ /\ terminal[m] = "none" /\ admission[m] = "claimed"
            /\ attempt[m] # "provider_accepted"
    /\ admission[m] \in Outcomes =>
         \/ admission[m] = terminal[m]
         \/ terminal[m] = "none" /\ admission[m] = "failed" /\ mailed[m] = 0
    /\ terminal[m] = "failed" => mailed[m] = 0

BeforeBoundary == {"authorize", "intent", "duplicate", "verify", "boundary", "unsent"}
Authorized     == {"intent", "duplicate", "verify", "boundary", "unsent", "call"}
Unreported     == BeforeBoundary \cup {"check", "close", "call", "record"}

\* What the lone invocation relies on while it works on a Cloudflare message.
WorksAlone(c) ==
  LET m == Current(c) IN
  cpc[c] # "idle" /\ ByCloudflare(m) =>
    /\ cpc[c] \in Unreported => attempt[m] \notin Outcomes /\ terminal[m] = "none"
    /\ cpc[c] = "resume" => cview[c].outcome = terminal[m]
    /\ cpc[c] \in BeforeBoundary => admission[m] = "claimed"
    /\ cpc[c] \in Authorized => attempt[m] = "authorized"
    /\ cpc[c] = "call" => admission[m] = "sending"
    /\ cpc[c] # "retry"
    /\ cpc[c] = "close" => cview[c].outcome \in {"failed", "recovery_required"}
    /\ cpc[c] = "record" =>
         /\ admission[m] = "sending" \/ (admission[m] = "failed" /\ cview[c].outcome = "failed")
         /\ cview[c].outcome = "failed" => mailed[m] = 0
    /\ cpc[c] \in {"projectAttempt", "projectAdmission"} => terminal[m] = cview[c].outcome

LoneHeld ==
  /\ \A m \in Messages : attempt[m] = "none" => terminal[m] = "none"
  /\ \A m \in Messages : RecordsAgree(m)
  /\ \A c \in Consumers : WorksAlone(c)

Lone == Outcome /\ LoneHeld

----------------------------------------------------------------------------
(* The invariant.                                                          *)

\* The router binds rows and moves unsent attempts; it reports nothing.
LEMMA RouterKeepsLone ==
  ASSUME Lone, (\E h \in Deliveries : Router(h)) \/ LateCommit
  PROVE  LoneHeld'
PROOF
  <1> USE DEF Lone, Outcome, Inv, TypeOK
  <1>1. \A m \in Messages : Advances(m)  BY RouterAdvances
  <1>2. UNCHANGED <<terminal, mailed, cpc, cview>>  BY RouterRecords
  <1>3. \A m \in Messages :
          \/ attempt[m] = "none" /\ admission'[m] \in {"none", "claimed"}
          \/ attempt[m] # "none" /\ admission'[m] = admission[m] /\ claim'[m] = claim[m]
    <2>1. CASE Inserted
      <3>1. PICK new \in Claims : InsertClaim(new)  BY <2>1 DEF Inserted
      <3>2. QED BY <3>1, InsertedRow DEF ClaimsBound
    <2>2. CASE UNCHANGED <<admission, claim>>  BY <2>2 DEF ClaimsBound
    <2>3. QED BY <2>1, <2>2, RouterRecords
  <1>4. \A m \in Messages :
          \/ attempt'[m] = attempt[m]
          \/ attempt[m] = "none" /\ attempt'[m] = "receiving"
          \/ attempt[m] = "receiving" /\ attempt'[m] = "queued"
    BY RouterRecords
  <1>5. \A m \in Messages : attempt'[m] = "none" => terminal'[m] = "none"
    BY <1>2, <1>4 DEF LoneHeld
  <1>6. ASSUME NEW m \in Messages  PROVE RecordsAgree(m)'
    <2>1. RecordsAgree(m)  BY DEF LoneHeld
    <2>2. CASE attempt[m] = "none"
      <3>1. terminal'[m] = "none" /\ attempt'[m] \notin Outcomes /\ admission'[m] \notin Outcomes
        BY <1>2, <1>3, <1>4, <2>2 DEF LoneHeld, Outcomes
      <3>2. QED BY <3>1 DEF RecordsAgree
    <2>3. CASE attempt[m] # "none"
      BY <1>2, <1>3, <1>4, <2>1, <2>3 DEF RecordsAgree, ByCloudflare, Outcomes
    <2>4. QED BY <2>2, <2>3
  <1>7. ASSUME NEW c \in Consumers  PROVE WorksAlone(c)'
    <2>1. WorksAlone(c) /\ cpc'[c] = cpc[c] /\ cview'[c] = cview[c] /\ Current(c)' = Current(c)
      BY <1>2 DEF LoneHeld, Current
    <2>2. CASE cpc[c] = "idle"  BY <2>1, <2>2 DEF WorksAlone
    <2>3. CASE cpc[c] # "idle"
      <3>1. Current(c) \in Messages /\ attempt[Current(c)] # "none"  BY <2>3, CurrentBound
      <3>2. /\ admission'[Current(c)] = admission[Current(c)]
            /\ claim'[Current(c)] = claim[Current(c)]
            /\ terminal'[Current(c)] = terminal[Current(c)]
            /\ mailed'[Current(c)] = mailed[Current(c)]
            /\ \/ attempt'[Current(c)] = attempt[Current(c)]
               \/ attempt[Current(c)] = "receiving" /\ attempt'[Current(c)] = "queued"
        BY <1>2, <1>3, <1>4, <3>1
      <3>3. QED BY <2>1, <2>3, <3>1, <3>2 DEF WorksAlone, ByCloudflare, Outcomes
    <2>4. QED BY <2>2, <2>3
  <1>8. QED BY <1>5, <1>6, <1>7 DEF LoneHeld

\* A step that writes none of the records keeps what they say.
LEMMA RecordsFrame ==
  ASSUME LoneHeld, UNCHANGED <<attempt, admission, terminal, claim, mailed>>
  PROVE  /\ \A m \in Messages : attempt'[m] = "none" => terminal'[m] = "none"
         /\ \A m \in Messages : RecordsAgree(m)'
PROOF BY DEF LoneHeld, RecordsAgree, ByCloudflare

\* An invocation at work stays with its message, and changes no other record.
LEMMA OneMessage ==
  ASSUME Inv, NEW c \in Consumers, Consumer(c), cpc[c] # "idle"
  PROVE  /\ cpc'[c] = "idle" \/ Current(c)' = Current(c)
         /\ \A m \in Messages : m # Current(c) =>
              /\ attempt'[m] = attempt[m] /\ admission'[m] = admission[m]
              /\ terminal'[m] = terminal[m] /\ mailed'[m] = mailed[m]
PROOF
  <1> USE DEF Inv, TypeOK, Consumer, Work, Take, Resume, Check, CloseAttempt, Authorize,
              RecordIntent, Duplicate, Verify, ClaimBoundary, CloseUnsent, CallProvider,
              RetryOrExhaust, RecordTerminal, ProjectAttempt, ProjectAdmission, CleanSpool,
              ForgetSpoolKey, Finish, ConsumerCrash, rows, ledger, history
  <1>1. cview[c] \in ConsumerView  OBVIOUS
  <1>2. cpc'[c] = "idle" \/ Current(c)' = Current(c)
    <2>1. CASE UNCHANGED cview  BY <2>1 DEF Current
    <2>2. CASE EndInvocation(c)  BY <2>2 DEF EndInvocation
    <2>3. CASE \E label, outcome : StepWith(c, label, outcome)
      <3>1. PICK outcome : cview' = [cview EXCEPT ![c].outcome = outcome]  BY <2>3 DEF StepWith
      <3>2. QED BY <1>1, <3>1 DEF ConsumerView, Current
    <2>4. CASE cview' = [cview EXCEPT ![c].policy = policy]
      BY <1>1, <2>4 DEF ConsumerView, Current
    <2>5. CASE cview' = [cview EXCEPT ![c] = [@ EXCEPT !.outcome = "failed", !.again = TRUE]]
      BY <1>1, <2>5 DEF ConsumerView, Current
    <2>6. QED BY <2>1, <2>2, <2>3, <2>4, <2>5 DEF Redeliver
  <1>3. \A m \in Messages : m # Current(c) =>
          attempt'[m] = attempt[m] /\ admission'[m] = admission[m]
    OBVIOUS
  <1>4. \A m \in Messages : m # Current(c) =>
          terminal'[m] = terminal[m] /\ mailed'[m] = mailed[m]
    OBVIOUS
  <1>5. QED BY <1>2, <1>3, <1>4

\* Each step of the lone invocation finds the records as it left them.
LEMMA WorkKeepsLone ==
  ASSUME Lone, NEW c \in Consumers, Consumer(c), cpc[c] # "idle",
         ByCloudflare(Current(c)), cpc'[c] # "idle"
  PROVE  RecordsAgree(Current(c))' /\ WorksAlone(c)'
PROOF
  <1> DEFINE k == Current(c)
  <1> USE DEF Lone, Outcome, Inv, TypeOK, rows, ledger, history, Step, StepWith
  <1>1. /\ k \in Messages /\ attempt[k] # "none" /\ admission[k] # "none"
        /\ WorksAlone(c) /\ RecordsAgree(k) /\ claim'[k] = claim[k] /\ Current(c)' = k
        /\ attempt'[k] # "none"
    BY CurrentBound, OneMessage, ConsumerAdvances DEF ClaimsBound, LoneHeld, Advances
  <1>2. ByCloudflare(k)' /\ Adapter[claim[k].policy] = CF  BY <1>1 DEF ByCloudflare
  <1>3. cview[c] \in ConsumerView  OBVIOUS
  <1>4. \A label, outcome : StepWith(c, label, outcome) =>
          cpc'[c] = label /\ cview'[c].outcome = outcome
    BY <1>3 DEF ConsumerView
  <1>5. ASSUME UNCHANGED <<attempt, admission, terminal, mailed>>  PROVE RecordsAgree(k)'
    BY <1>1, <1>2, <1>5 DEF RecordsAgree
  <1>6. /\ cpc'[c] \in Unreported => attempt'[k] \notin Outcomes /\ terminal'[k] = "none"
        /\ cpc'[c] = "resume" => cview'[c].outcome = terminal'[k]
        /\ cpc'[c] \in BeforeBoundary => admission'[k] = "claimed"
        /\ cpc'[c] \in Authorized => attempt'[k] = "authorized"
        /\ cpc'[c] = "call" => admission'[k] = "sending"
        /\ cpc'[c] # "retry"
        /\ cpc'[c] = "close" => cview'[c].outcome \in {"failed", "recovery_required"}
        /\ cpc'[c] = "record" =>
             /\ admission'[k] = "sending" \/ (admission'[k] = "failed" /\ cview'[c].outcome = "failed")
             /\ cview'[c].outcome = "failed" => mailed'[k] = 0
        /\ cpc'[c] \in {"projectAttempt", "projectAdmission"} => terminal'[k] = cview'[c].outcome
        => WorksAlone(c)'
    BY <1>1, <1>2 DEF WorksAlone
  <1> USE DEF Unreported, BeforeBoundary, Authorized
  <1>7. CASE Resume(c)
    BY <1>1, <1>2, <1>5, <1>6, <1>7 DEF Resume, ResumePoint, WorksAlone
  <1>8. CASE Check(c)
    <2>1. cpc[c] = "check" /\ UNCHANGED <<attempt, admission, terminal, mailed>>  BY <1>8 DEF Check
    <2>2. attempt[k] \notin Outcomes /\ terminal[k] = "none"  BY <1>1, <1>2, <2>1 DEF WorksAlone
    <2>3. CASE StepWith(c, "close", "failed")
      BY <1>4, <1>5, <1>6, <2>1, <2>2, <2>3
    <2>4. CASE StepWith(c, "close", "recovery_required")
      BY <1>4, <1>5, <1>6, <2>1, <2>2, <2>4
    <2>5. CASE ReplyCheckPasses(c) /\ Step(c, "authorize")
      <3>1. admission[k] = "claimed"  BY <1>2, <2>5, CF # RS DEF ReplyCheckPasses, Crossable, CF, RS
      <3>2. QED BY <1>5, <1>6, <2>1, <2>2, <2>5, <3>1
    <2>6. QED BY <1>8, <2>3, <2>4, <2>5 DEF Check
  <1>9. CASE CloseAttempt(c)
    <2>1. /\ cpc[c] = "close" /\ cpc'[c] = "done"
          /\ UNCHANGED <<admission, terminal, mailed>>
          /\ attempt' = IF StillUnsent(k) THEN [attempt EXCEPT ![k] = cview[c].outcome] ELSE attempt
      BY <1>9 DEF CloseAttempt
    <2>2. terminal[k] = "none" /\ cview[c].outcome \in {"failed", "recovery_required"}
      BY <1>1, <1>2, <2>1 DEF WorksAlone
    <2>3. CASE StillUnsent(k)
      BY <1>1, <1>2, <1>6, <2>1, <2>2, <2>3 DEF StillUnsent, RecordsAgree, Outcomes
    <2>4. CASE ~StillUnsent(k)  BY <1>5, <1>6, <2>1, <2>4
    <2>5. QED BY <2>3, <2>4
  <1>10. CASE Authorize(c)
    <2>1. cpc[c] = "authorize" /\ UNCHANGED <<admission, terminal, mailed>>  BY <1>10 DEF Authorize
    <2>2. terminal[k] = "none" /\ admission[k] = "claimed"  BY <1>1, <1>2, <2>1 DEF WorksAlone
    <2>3. attempt' = [attempt EXCEPT ![k] = "authorized"] /\ Step(c, "intent")
      BY <1>10 DEF Authorize, Redeliver, EndInvocation
    <2>4. QED BY <1>1, <1>2, <1>6, <2>1, <2>2, <2>3 DEF RecordsAgree, Outcomes
  <1>11. CASE RecordIntent(c)
    BY <1>1, <1>2, <1>5, <1>6, <1>11 DEF RecordIntent, WorksAlone
  <1>12. CASE Duplicate(c)
    <2>1. cpc[c] = "duplicate" /\ UNCHANGED <<attempt, admission, terminal, mailed>>
      BY <1>12 DEF Duplicate
    <2>2. KnownUnsent(k) /\ terminal[k] = "none" /\ attempt[k] \notin Outcomes
      BY <1>1, <1>2, <2>1 DEF WorksAlone, KnownUnsent
    <2>3. Step(c, "verify")  BY <1>12, <2>2 DEF Duplicate
    <2>4. QED BY <1>5, <1>6, <2>1, <2>2, <2>3 DEF KnownUnsent
  <1>13. CASE Verify(c)
    BY <1>1, <1>2, <1>5, <1>6, <1>13 DEF Verify, WorksAlone
  <1>14. CASE ClaimBoundary(c)
    <2>1. cpc[c] = "boundary" /\ UNCHANGED <<attempt, terminal, mailed>>  BY <1>14 DEF ClaimBoundary
    <2>2. /\ terminal[k] = "none" /\ attempt[k] \notin Outcomes
          /\ attempt[k] = "authorized" /\ admission[k] = "claimed"
      BY <1>1, <1>2, <2>1 DEF WorksAlone
    <2>3. CASE admission' = [admission EXCEPT ![k] = "sending"] /\ Step(c, "call")
      BY <1>1, <1>2, <1>6, <2>1, <2>2, <2>3 DEF RecordsAgree, Outcomes
    <2>4. CASE UNCHANGED admission /\ Step(c, "unsent")
      BY <1>5, <1>6, <2>1, <2>2, <2>4
    <2>5. QED BY <1>14, <2>2, <2>3, <2>4 DEF ClaimBoundary
  <1>15. CASE CloseUnsent(c)
    <2>1. cpc[c] = "unsent" /\ UNCHANGED <<attempt, terminal, mailed>>  BY <1>15 DEF CloseUnsent
    <2>2. /\ terminal[k] = "none" /\ attempt[k] \notin Outcomes /\ admission[k] = "claimed"
          /\ mailed[k] = 0
      BY <1>1, <1>2, <2>1 DEF WorksAlone, BoundaryHeld
    <2>3. admission' = [admission EXCEPT ![k] = "failed"] /\ StepWith(c, "record", "failed")
      BY <1>15, <2>2 DEF CloseUnsent
    <2>4. cpc'[c] = "record" /\ cview'[c].outcome = "failed" /\ admission'[k] = "failed"
      BY <1>1, <1>4, <2>3
    <2>5. QED BY <1>1, <1>2, <1>6, <2>1, <2>2, <2>4 DEF RecordsAgree
  <1>16. CASE CallProvider(c)
    <2>1. cpc[c] = "call" /\ UNCHANGED <<attempt, admission, terminal>>  BY <1>16 DEF CallProvider
    <2>2. /\ terminal[k] = "none" /\ attempt[k] = "authorized" /\ admission[k] = "sending"
      BY <1>1, <1>2, <2>1 DEF WorksAlone
    <2>3. cview[c].mode = CF /\ mailed[k] = 0
      BY <1>1, <1>2, <2>1 DEF ConsumerBound, Carries, BoundaryHeld, Calling
    <2>4. PICK answer \in Answers(cview[c].mode) :
            /\ mailed' = IF answer[2] /\ Sends(k, cview[c].mode)
                         THEN [mailed EXCEPT ![k] = @ + 1] ELSE mailed
            /\ StepWith(c, IF answer[1] = "retry" THEN "retry" ELSE "record", answer[1])
      BY <1>16 DEF CallProvider
    <2>5. answer[1] # "retry" /\ (answer[1] = "failed" => ~answer[2])  BY <2>3, <2>4 DEF Answers
    <2>6. cpc'[c] = "record" /\ cview'[c].outcome = answer[1]  BY <1>4, <2>4, <2>5
    <2>7. answer[1] = "failed" => mailed'[k] = 0  BY <2>3, <2>4, <2>5
    <2>8. QED BY <1>1, <1>2, <1>6, <2>1, <2>2, <2>6, <2>7 DEF RecordsAgree, Outcomes
  <1>17. CASE RetryOrExhaust(c)
    BY <1>1, <1>2, <1>17 DEF RetryOrExhaust, WorksAlone
  <1>18. CASE RecordTerminal(c)
    <2>1. cpc[c] = "record" /\ UNCHANGED <<attempt, admission, mailed>>  BY <1>18 DEF RecordTerminal
    <2>2. /\ terminal[k] = "none" /\ attempt[k] \notin Outcomes
          /\ admission[k] = "sending" \/ (admission[k] = "failed" /\ cview[c].outcome = "failed")
          /\ cview[c].outcome = "failed" => mailed[k] = 0
          /\ cview[c].outcome \in Outcomes
      BY <1>1, <1>2, <2>1 DEF WorksAlone, ConsumerBound, Carries
    <2>3. /\ terminal'[k] = cview[c].outcome
          /\ cpc'[c] = "projectAttempt" /\ cview'[c].outcome = terminal'[k]
      BY <1>1, <1>4, <1>18, <2>2 DEF RecordTerminal
    <2>4. QED BY <1>1, <1>2, <1>6, <2>1, <2>2, <2>3 DEF RecordsAgree, Outcomes
  <1>19. CASE ProjectAttempt(c)
    <2>1. /\ cpc[c] = "projectAttempt" /\ UNCHANGED <<admission, terminal, mailed, cview>>
          /\ attempt' = [attempt EXCEPT ![k] = cview[c].outcome] /\ Step(c, "projectAdmission")
      BY <1>19 DEF ProjectAttempt, Redeliver, EndInvocation
    <2>2. terminal[k] = cview[c].outcome /\ cview[c].outcome \in Outcomes
      BY <1>1, <1>2, <2>1 DEF WorksAlone, ConsumerBound, Carries
    <2>3. attempt'[k] = terminal'[k] /\ terminal'[k] # "none"  BY <1>1, <2>1, <2>2 DEF Outcomes
    <2>4. QED BY <1>1, <1>2, <1>6, <2>1, <2>2, <2>3 DEF RecordsAgree, Outcomes
  <1>20. CASE ProjectAdmission(c)
    <2>1. cpc[c] = "projectAdmission" /\ UNCHANGED <<attempt, terminal, mailed, cview>>
      BY <1>20 DEF ProjectAdmission
    <2>2. terminal[k] = cview[c].outcome /\ cview[c].outcome \in Outcomes
      BY <1>1, <1>2, <2>1 DEF WorksAlone, ConsumerBound, Carries
    <2>3. cpc'[c] \in {"clean", "done"}  BY <1>20 DEF ProjectAdmission
    <2>4. admission'[k] = IF admission[k] \in {"claimed", "sending"} THEN cview[c].outcome ELSE admission[k]
      BY <1>1, <1>20 DEF ProjectAdmission
    <2>5. QED BY <1>1, <1>2, <1>6, <2>1, <2>2, <2>3, <2>4 DEF RecordsAgree, Outcomes
  <1>21. CASE CleanSpool(c)      BY <1>5, <1>6, <1>21 DEF CleanSpool
  <1>22. CASE ForgetSpoolKey(c)  BY <1>5, <1>6, <1>22 DEF ForgetSpoolKey
  <1>23. CASE Finish(c) \/ ConsumerCrash(c) \/ Take(c)
    BY <1>23 DEF Finish, ConsumerCrash, Redeliver, EndInvocation, Take
  <1>24. QED
    BY <1>7, <1>8, <1>9, <1>10, <1>11, <1>12, <1>13, <1>14, <1>15, <1>16, <1>17, <1>18,
       <1>19, <1>20, <1>21, <1>22, <1>23 DEF Consumer, Work

LEMMA ConsumerKeepsLone ==
  ASSUME Lone, OneConsumer, NEW c \in Consumers, Consumer(c)
  PROVE  LoneHeld'
PROOF
  <1> USE DEF Lone, Outcome
  <1>1. claim' = claim /\ \A m \in Messages : Advances(m)
    BY OtherInvocations, ConsumerAdvances
  <1>2. \A m \in Messages : attempt'[m] = "none" <=> attempt[m] = "none"
    BY ConsumerKeepsClaims DEF ClaimsKept
  <1>3. CASE cpc[c] = "idle"
    <2>1. PICK h \in Deliveries : cview' = [cview EXCEPT ![c] = Taken(h)]
      BY <1>3 DEF Consumer, Take, Work, Resume, Check, CloseAttempt, Authorize,
           RecordIntent, Duplicate, Verify, ClaimBoundary, CloseUnsent, CallProvider,
           RetryOrExhaust, RecordTerminal, ProjectAttempt, ProjectAdmission, CleanSpool,
           ForgetSpoolKey, Finish, ConsumerCrash, ConsumerActive
    <2>2. Take(c)
      BY <1>3 DEF Consumer, Work, Resume, Check, CloseAttempt, Authorize,
           RecordIntent, Duplicate, Verify, ClaimBoundary, CloseUnsent, CallProvider,
           RetryOrExhaust, RecordTerminal, ProjectAttempt, ProjectAdmission, CleanSpool,
           ForgetSpoolKey, Finish, ConsumerCrash, ConsumerActive
    <2>3. cpc'[c] = "resume" /\ UNCHANGED <<rows, ledger, history>>
      BY <2>2 DEF Take, Step, Inv, TypeOK
    <2>4. cview'[c].outcome = terminal[MessageOf[h]] /\ Current(c)' = MessageOf[h]
      BY <2>1 DEF Taken, Current, Inv, TypeOK
    <2>5. WorksAlone(c)'
      BY <2>3, <2>4 DEF WorksAlone, Unreported, BeforeBoundary, Authorized, ledger
    <2>6. QED BY <2>3, <2>5, RecordsFrame DEF LoneHeld, OneConsumer, rows, ledger, history
  <1>4. CASE cpc[c] # "idle"
    <2>1. PICK k \in Messages : k = Current(c) /\ attempt[k] # "none"
      BY <1>4, CurrentBound DEF Inv
    <2>2. \A m \in Messages : m # k => RecordsAgree(m)'
      BY <1>1, <1>4, <2>1, OneMessage DEF LoneHeld, RecordsAgree, ByCloudflare
    <2>3. \A m \in Messages : attempt'[m] = "none" => terminal'[m] = "none"
      BY <1>2, <1>4, <2>1, OneMessage DEF LoneHeld
    <2>4. ByCloudflare(k)' <=> ByCloudflare(k)
      BY <1>1, <1>2, <2>1 DEF ByCloudflare
    <2>5. cpc'[c] = "idle" \/ Current(c)' = k  BY <1>4, <2>1, OneMessage
    <2>6. CASE ~ByCloudflare(k)
      <3>1. RecordsAgree(k)' /\ WorksAlone(c)'
        BY <1>1, <2>4, <2>5, <2>6 DEF RecordsAgree, WorksAlone, ByCloudflare
      <3>2. QED BY <2>2, <2>3, <3>1 DEF LoneHeld, OneConsumer
    <2>7. CASE ByCloudflare(k) /\ cpc'[c] # "idle"
      BY <1>4, <2>1, <2>2, <2>3, <2>5, <2>7, WorkKeepsLone DEF LoneHeld, OneConsumer
    <2>8. CASE cpc'[c] = "idle"
      <3>1. UNCHANGED <<attempt, admission, terminal, mailed>>
        BY <1>4, <2>8 DEF Consumer, Take, Work, Resume, ResumePoint, Check, CloseAttempt, Authorize,
             RecordIntent, Duplicate, Verify, ClaimBoundary, CloseUnsent, CallProvider,
             RetryOrExhaust, RecordTerminal, ProjectAttempt, ProjectAdmission, CleanSpool,
             ForgetSpoolKey, Finish, ConsumerCrash, Step, StepWith, rows, ledger, history,
             Inv, TypeOK
      <3>2. WorksAlone(c)'  BY <2>8 DEF WorksAlone
      <3>3. QED BY <1>1, <3>1, <3>2, RecordsFrame DEF LoneHeld, OneConsumer
    <2>9. QED BY <2>6, <2>7, <2>8
  <1>5. QED BY <1>3, <1>4

LEMMA LoneInit == Init => Lone
PROOF
  <1> SUFFICES ASSUME Init PROVE LoneHeld
    BY OutcomeInit DEF Lone
  <1>1. QED BY DEF Init, LoneHeld, RecordsAgree, WorksAlone, ByCloudflare

LEMMA LoneStep == OneConsumer /\ Lone /\ [Next]_vars => Lone'
PROOF
  <1> SUFFICES ASSUME OneConsumer, Lone, [Next]_vars PROVE LoneHeld'
    BY OutcomeStep DEF Lone
  <1>1. ASSUME UNCHANGED <<rows, ledger, history, consumer>>  PROVE LoneHeld'
    <2>1. UNCHANGED <<attempt, admission, terminal, claim, mailed>>
      BY <1>1 DEF rows, ledger, history
    <2>2. \A c \in Consumers : WorksAlone(c)'
      BY <1>1, <2>1 DEF Lone, LoneHeld, WorksAlone, ByCloudflare, Current, consumer
    <2>3. QED BY <2>1, <2>2, RecordsFrame DEF Lone, LoneHeld
  <1>2. CASE (\E h \in Deliveries : Router(h)) \/ LateCommit  BY <1>2, RouterKeepsLone
  <1>3. CASE \E c \in Consumers : Consumer(c)  BY <1>3, ConsumerKeepsLone
  <1>4. CASE Environment
    BY <1>1, <1>4, EnvironmentKeepsClaims
  <1>5. CASE UNCHANGED vars  BY <1>1, <1>5 DEF vars
  <1>6. QED BY <1>2, <1>3, <1>4, <1>5 DEF Next

LEMMA LoneInvariance == OneConsumer => (Spec => []Lone)
PROOF
  <1> SUFFICES ASSUME OneConsumer PROVE Spec => []Lone
    OBVIOUS
  <1>1. Lone /\ [Next]_vars => Lone'  BY LoneStep
  <1>2. QED BY <1>1, LoneInit, PTL DEF Spec

\* With the deployed single consumer a failure recorded of a Cloudflare reply
\* is true: nothing was mailed and nothing is about to be.  (Two consumers can
\* break it, and so can a Resend reply whose tries ran out.)
THEOREM FailureIsTrue == OneConsumer => (Spec => []FailedWasNotMailed)
PROOF
  <1> SUFFICES ASSUME OneConsumer PROVE Spec => []FailedWasNotMailed
    OBVIOUS
  <1>1. ASSUME Lone, NEW m \in Messages, Adapter[claim[m].policy] = CF,
               "failed" \in {attempt[m], admission[m], terminal[m]}
        PROVE  mailed[m] = 0 /\ \A c \in Consumers : cpc[c] = "call" => Current(c) # m
    <2> USE DEF Lone, Outcome, Inv
    <2>1. ByCloudflare(m)  BY <1>1 DEF ByCloudflare, ClaimsBound, LoneHeld
    <2>2. \A c \in Consumers : cpc[c] = "call" => Current(c) # m
      BY <1>1, <2>1 DEF LoneHeld, WorksAlone, Unreported, Authorized, Outcomes
    <2>3. mailed[m] = 0
      BY <1>1, <2>1 DEF LoneHeld, RecordsAgree, Outcomes, BoundaryHeld
    <2>4. QED BY <2>2, <2>3
  <1>2. Lone => FailedWasNotMailed  BY <1>1 DEF FailedWasNotMailed
  <1>3. QED BY <1>2, LoneInvariance, PTL

----------------------------------------------------------------------------
(* The refinement.                                                         *)

\* What records that agree report: the ledger first, then the attempt.
ToldAt(a, d, t) ==
  IF t # "none" THEN t
  ELSE IF a \in Outcomes THEN a ELSE IF d \in Outcomes THEN d ELSE "nothing"

\* The definition of Told, of the set of reported outcomes.
ReportOf(reported) ==
  IF reported = {} THEN "nothing"
  ELSE IF Cardinality(reported) > 1 THEN "conflicting" ELSE CHOOSE o \in reported : TRUE

LEMMA OneReport ==
  ASSUME NEW a, NEW d, NEW t \in Outcomes \cup {"none"},
         t # "none" /\ a \in Outcomes => a = t,
         t # "none" /\ d \in Outcomes => d = t,
         t = "none" /\ a \in Outcomes /\ d \in Outcomes => a = d
  PROVE  ReportOf({a, d, t} \cap Outcomes) = ToldAt(a, d, t)
PROOF
  <1> DEFINE reported == {a, d, t} \cap Outcomes
  <1>1. CASE reported = {}
    <2>1. t = "none" /\ a \notin Outcomes /\ d \notin Outcomes  BY <1>1 DEF Outcomes
    <2>2. QED BY <1>1, <2>1 DEF ToldAt, ReportOf
  <1>2. CASE reported # {}
    <2>1. ToldAt(a, d, t) \in reported /\ \A o \in reported : o = ToldAt(a, d, t)
      BY <1>2 DEF ToldAt, Outcomes
    <2>2. reported = {ToldAt(a, d, t)}  BY <2>1
    <2>3. Cardinality(reported) = 1  BY <2>2, FS_Singleton
    <2>4. (CHOOSE o \in reported : TRUE) \in reported  BY <1>2
    <2>5. QED BY <1>2, <2>1, <2>3, <2>4 DEF ReportOf
  <1>3. QED BY <1>1, <1>2

\* Before and after every step of the lone invocation the records agree.
LEMMA ToldNow ==
  ASSUME CloudflareOnly, Lone, Lone', NEW m \in Messages
  PROVE  /\ Told(m) = ToldAt(attempt[m], admission[m], terminal[m])
         /\ Told(m)' = ToldAt(attempt'[m], admission'[m], terminal'[m])
PROOF
  <1> USE DEF Lone, Outcome, Inv
  <1>1. terminal[m] \in Outcomes \cup {"none"} /\ terminal'[m] \in Outcomes \cup {"none"}
    BY DEF TypeOK
  <1>2. attempt[m] # "none" => ByCloudflare(m)
    BY DEF ByCloudflare, CloudflareOnly, ClaimsBound, Claims
  <1>3. attempt'[m] # "none" => ByCloudflare(m)'
    BY DEF ByCloudflare, CloudflareOnly, ClaimsBound, Claims
  <1>4. Told(m) = ToldAt(attempt[m], admission[m], terminal[m])
    <2>1. /\ terminal[m] # "none" /\ attempt[m] \in Outcomes => attempt[m] = terminal[m]
          /\ terminal[m] # "none" /\ admission[m] \in Outcomes => admission[m] = terminal[m]
          /\ terminal[m] = "none" /\ attempt[m] \in Outcomes /\ admission[m] \in Outcomes =>
               attempt[m] = admission[m]
      BY <1>1, <1>2 DEF LoneHeld, RecordsAgree, Outcomes
    <2>2. Told(m) = ReportOf({attempt[m], admission[m], terminal[m]} \cap Outcomes)
      BY DEF Told, ReportOf
    <2>3. QED BY <1>1, <2>1, <2>2, OneReport
  <1>5. Told(m)' = ToldAt(attempt'[m], admission'[m], terminal'[m])
    <2>1. /\ terminal'[m] # "none" /\ attempt'[m] \in Outcomes => attempt'[m] = terminal'[m]
          /\ terminal'[m] # "none" /\ admission'[m] \in Outcomes => admission'[m] = terminal'[m]
          /\ terminal'[m] = "none" /\ attempt'[m] \in Outcomes /\ admission'[m] \in Outcomes =>
               attempt'[m] = admission'[m]
      BY <1>1, <1>3 DEF LoneHeld, RecordsAgree, Outcomes
    <2>2. Told(m)' = ReportOf({attempt'[m], admission'[m], terminal'[m]} \cap Outcomes)
      BY DEF Told, ReportOf
    <2>3. QED BY <1>1, <2>1, <2>2, OneReport
  <1>6. QED BY <1>4, <1>5

\* A step that the promise does not see at message m.
Unseen(m) == admission'[m] = admission[m] /\ Told(m)' = Told(m) /\ mailed'[m] = mailed[m]

\* Only a call of the provider mails, on a message whose outcome nobody told.
LEMMA OneMail ==
  ASSUME CloudflareOnly, Lone, Lone', [Next]_vars, NEW m \in Messages, mailed'[m] # mailed[m]
  PROVE  /\ admission'[m] = "sending" /\ admission[m] = "sending"
         /\ Told(m) = "nothing" /\ Told(m)' = "nothing"
         /\ mailed[m] = 0 /\ mailed'[m] = 1
PROOF
  <1> USE DEF Lone, Outcome, Inv
  <1>1. PICK c \in Consumers : CallProvider(c)
    BY EnvironmentKeepsClaims, RouterRecords
    DEF Next, vars, Consumer, Work, Take, Resume, Check, CloseAttempt, Authorize,
        RecordIntent, Duplicate, Verify, ClaimBoundary, CloseUnsent, RetryOrExhaust,
        RecordTerminal, ProjectAttempt, ProjectAdmission, CleanSpool, ForgetSpoolKey,
        Finish, ConsumerCrash, history
  <1>2. UNCHANGED <<rows, ledger>> /\ cpc[c] = "call"  BY <1>1 DEF CallProvider
  <1>3. m = Current(c)  BY <1>1, <1>2, OneMessage DEF Consumer, Work
  <1>4. ByCloudflare(m)
    BY <1>2, <1>3, CurrentBound DEF ByCloudflare, CloudflareOnly, ClaimsBound, Claims
  <1>5. terminal[m] = "none" /\ attempt[m] = "authorized" /\ admission[m] = "sending"
    BY <1>2, <1>3, <1>4 DEF LoneHeld, WorksAlone, Unreported, Authorized
  <1>6. Told(m) = "nothing" /\ Told(m)' = "nothing"
    BY <1>2, <1>5, ToldNow DEF ToldAt, Outcomes, rows, ledger
  <1>7. mailed[m] = 0
    BY <1>2, <1>3, <1>4 DEF BoundaryHeld, Calling, ConsumerBound, Carries, ByCloudflare
  <1>8. mailed'[m] \in {0, 1}  BY DEF BoundaryHeld
  <1>9. QED BY <1>2, <1>5, <1>6, <1>7, <1>8 DEF rows

\* A step concerns at most one message.
LEMMA OneSeen ==
  ASSUME CloudflareOnly, Lone, Lone', [Next]_vars
  PROVE  \/ \A k \in Messages : Unseen(k)
         \/ \E m \in Messages : \A k \in Messages : k # m => Unseen(k)
PROOF
  <1> USE DEF Lone, Outcome
  <1>1. ASSUME NEW k \in Messages, mailed'[k] = mailed[k], admission'[k] = admission[k],
               terminal'[k] = terminal[k],
               attempt'[k] = attempt[k] \/ {attempt[k], attempt'[k]} \subseteq {"none"} \cup Pending
        PROVE  Unseen(k)
    BY <1>1, ToldNow DEF Unseen, ToldAt, Outcomes, Pending
  <1>2. CASE (\E h \in Deliveries : Router(h)) \/ LateCommit
    <2>1. \A k \in Messages : attempt'[k] = attempt[k] \/ {attempt[k], attempt'[k]} \subseteq {"none"} \cup Pending
      BY <1>2, RouterRecords DEF Pending
    <2>2. UNCHANGED <<terminal, mailed>>  BY <1>2, RouterRecords
    <2>3. CASE Inserted
      <3>1. PICK new \in Claims : InsertClaim(new)  BY <2>3 DEF Inserted
      <3>2. MessageOf[new.by] \in Messages
            /\ \A k \in Messages : k # MessageOf[new.by] => admission'[k] = admission[k]
        BY <3>1, InsertedRow
      <3>3. QED BY <1>1, <2>1, <2>2, <3>2
    <2>4. CASE UNCHANGED admission  BY <1>1, <2>1, <2>2, <2>4
    <2>5. QED BY <1>2, <2>3, <2>4, RouterRecords
  <1>3. ASSUME UNCHANGED <<rows, ledger, history>>  PROVE \A k \in Messages : Unseen(k)
    BY <1>1, <1>3 DEF rows, ledger, history
  <1>4. ASSUME NEW c \in Consumers, Consumer(c)
        PROVE  \/ \A k \in Messages : Unseen(k)
               \/ \E m \in Messages : \A k \in Messages : k # m => Unseen(k)
    <2>1. CASE cpc[c] = "idle"
      BY <1>3, <1>4, <2>1
      DEF Consumer, Take, Work, Resume, Check, CloseAttempt, Authorize, RecordIntent,
          Duplicate, Verify, ClaimBoundary, CloseUnsent, CallProvider, RetryOrExhaust,
          RecordTerminal, ProjectAttempt, ProjectAdmission, CleanSpool, ForgetSpoolKey,
          Finish, ConsumerCrash, ConsumerActive
    <2>2. CASE cpc[c] # "idle"
      <3>1. Current(c) \in Messages  BY <2>2, CurrentBound DEF Inv
      <3>2. QED BY <1>1, <1>4, <2>2, <3>1, OneMessage
    <2>3. QED BY <2>1, <2>2
  <1>5. CASE Environment  BY <1>3, <1>5, EnvironmentKeepsClaims
  <1>6. CASE UNCHANGED vars  BY <1>3, <1>6 DEF vars
  <1>7. QED BY <1>2, <1>4, <1>5, <1>6 DEF Next

\* A message is claimed before anything else is written of it.
LEMMA ClaimedFirst ==
  ASSUME Lone, Lone', [Next]_vars, NEW m \in Messages, admission[m] = "none"
  PROVE  /\ attempt'[m] \in {"none", "receiving"} /\ terminal'[m] = "none"
         /\ admission'[m] \in {"none", "claimed"}
PROOF
  <1> USE DEF Lone, Outcome, Inv
  <1>1. attempt[m] = "none" /\ terminal[m] = "none"  BY DEF ClaimsBound, LoneHeld
  <1>2. CASE (\E h \in Deliveries : Router(h)) \/ LateCommit
    <2>1. admission'[m] \in {"none", "claimed"}
      BY <1>2, RouterRecords, InsertedRow DEF Inserted
    <2>2. QED BY <1>1, <1>2, <2>1, RouterRecords
  <1>3. CASE UNCHANGED <<rows, ledger>>  BY <1>1, <1>3 DEF rows, ledger
  <1>4. ASSUME NEW c \in Consumers, Consumer(c)
        PROVE  UNCHANGED <<rows, ledger>> \/
                 (attempt'[m] = attempt[m] /\ admission'[m] = admission[m] /\ terminal'[m] = terminal[m])
    <2>1. CASE cpc[c] = "idle"
      BY <1>4, <2>1
      DEF Consumer, Take, Work, Resume, Check, CloseAttempt, Authorize, RecordIntent,
          Duplicate, Verify, ClaimBoundary, CloseUnsent, CallProvider, RetryOrExhaust,
          RecordTerminal, ProjectAttempt, ProjectAdmission, CleanSpool, ForgetSpoolKey,
          Finish, ConsumerCrash, ConsumerActive
    <2>2. CASE cpc[c] # "idle"
      <3>1. Current(c) # m  BY <1>1, <2>2, CurrentBound
      <3>2. QED BY <1>4, <2>2, <3>1, OneMessage
    <2>3. QED BY <2>1, <2>2
  <1>5. CASE Environment  BY <1>3, <1>5, EnvironmentKeepsClaims
  <1>6. CASE UNCHANGED vars  BY <1>3, <1>6 DEF vars
  <1>7. QED BY <1>1, <1>2, <1>3, <1>4, <1>5, <1>6 DEF Next

\* What a step can do that the promise sees at message m.
LEMMA Seen ==
  ASSUME OneConsumer, CloudflareOnly, Lone, Lone', [Next]_vars, NEW m \in Messages
  PROVE  \/ Unseen(m)
         \/ /\ mailed[m] = 0 /\ mailed'[m] = 1 /\ Told(m) = "nothing" /\ Told(m)' = "nothing"
            /\ admission[m] = "sending" /\ admission'[m] = "sending"
         \/ /\ admission[m] = "none" /\ admission'[m] = "claimed" /\ mailed'[m] = mailed[m]
            /\ Told(m) = "nothing" /\ Told(m)' = "nothing"
         \/ /\ admission[m] = "claimed" /\ admission'[m] = "sending" /\ mailed'[m] = mailed[m]
            /\ Told(m) = "nothing" /\ Told(m)' = "nothing"
         \/ /\ admission[m] \in {"claimed", "sending"} /\ admission'[m] # "none"
            /\ mailed'[m] = mailed[m] /\ Told(m) = "nothing" /\ Told(m)' \in Outcomes
            /\ Told(m)' = "provider_accepted" => mailed[m] = 1
            /\ Told(m)' = "failed" => mailed[m] = 0
         \/ /\ admission[m] # "none" /\ admission'[m] # "none" /\ mailed'[m] = mailed[m]
            /\ Told(m) # "nothing" /\ Told(m)' = Told(m)
PROOF
  <1> USE DEF Lone, Outcome, Inv
  <1>1. /\ admission[m] \in AdmissionStatus /\ admission'[m] \in AdmissionStatus
        /\ terminal[m] \in Outcomes \cup {"none"} /\ terminal'[m] \in Outcomes \cup {"none"}
    BY DEF TypeOK
  <1>2. /\ Told(m) = ToldAt(attempt[m], admission[m], terminal[m])
        /\ Told(m)' = ToldAt(attempt'[m], admission'[m], terminal'[m])
    BY ToldNow
  <1>3. CASE mailed'[m] # mailed[m]  BY <1>3, OneMail
  <1>4. CASE mailed'[m] = mailed[m] /\ admission[m] = "none"
    <2>1. attempt[m] = "none" /\ terminal[m] = "none"  BY <1>4 DEF ClaimsBound, LoneHeld
    <2>2. QED BY <1>2, <1>4, <2>1, ClaimedFirst DEF Unseen, ToldAt, Outcomes
  <1>5. CASE mailed'[m] = mailed[m] /\ admission[m] # "none"
    <2>1. attempt[m] # "none" /\ attempt'[m] # "none" /\ Advances(m) /\ admission'[m] # "none"
      BY <1>5, RecordsAdvance DEF ClaimsBound, Advances
    <2>2. ByCloudflare(m)'  BY <2>1 DEF ByCloudflare, CloudflareOnly, ClaimsBound, Claims
    <2>3. RecordsAgree(m)'  BY DEF LoneHeld
    <2>4. CASE Told(m) # "nothing"
      <3>1. Told(m)' = Told(m)
        BY <1>1, <1>2, <2>1, <2>2, <2>3, <2>4 DEF ToldAt, Advances, RecordsAgree, Outcomes
      <3>2. QED BY <1>5, <2>1, <2>4, <3>1
    <2>5. CASE Told(m) = "nothing" /\ Told(m)' # "nothing"
      <3>1. admission[m] \in {"claimed", "sending"}
        BY <1>1, <1>2, <1>5, <2>5 DEF ToldAt, AdmissionStatus, Outcomes
      <3>2. Told(m)' \in {attempt'[m], admission'[m], terminal'[m]} /\ Told(m)' \in Outcomes
        BY <1>1, <1>2, <2>5 DEF ToldAt, Outcomes
      <3>3. Told(m)' = "provider_accepted" => mailed[m] = 1
        BY <1>5, <3>2 DEF AcceptedWasMailed
      <3>4. Told(m)' = "failed" => mailed[m] = 0
        BY <1>5, <2>2, <2>3, <3>2 DEF RecordsAgree, BoundaryHeld, Outcomes
      <3>5. QED BY <1>5, <2>1, <2>5, <3>1, <3>2, <3>3, <3>4
    <2>6. CASE Told(m) = "nothing" /\ Told(m)' = "nothing"
      <3>1. admission[m] \in {"claimed", "sending"} /\ admission'[m] \in {"claimed", "sending"}
        BY <1>1, <1>2, <1>5, <2>1, <2>6 DEF ToldAt, AdmissionStatus, Outcomes
      <3>2. QED BY <1>5, <2>1, <2>6, <3>1 DEF Unseen, Advances
    <2>7. QED BY <2>4, <2>5, <2>6
  <1>6. QED BY <1>3, <1>4, <1>5

\* The variables of the promise, as Promise is instantiated.
mappedPhase == [m \in Messages |-> Phase(m)]
mappedSent  == [m \in Messages |-> mailed[m] > 0]
mappedTold  == [m \in Messages |-> Told(m)]

\* What no message shows leaves the mapped variables alone.
LEMMA UnseenMaps ==
  ASSUME \A k \in Messages : Unseen(k)
  PROVE  UNCHANGED <<mappedPhase, mappedSent, mappedTold>>
PROOF
  <1>1. \A k \in Messages : Phase(k)' = Phase(k)  BY DEF Phase, Unseen
  <1>2. QED BY <1>1 DEF mappedPhase, mappedSent, mappedTold, Unseen

\* A step that concerns one message changes the mapped variables there.
LEMMA OneMaps ==
  ASSUME NEW m \in Messages, \A k \in Messages : k # m => Unseen(k)
  PROVE  /\ mappedPhase' = [mappedPhase EXCEPT ![m] = Phase(m)']
         /\ mappedTold' = [mappedTold EXCEPT ![m] = Told(m)']
         /\ mappedSent' = [mappedSent EXCEPT ![m] = (mailed'[m] > 0)]
         /\ mappedPhase[m] = Phase(m) /\ mappedTold[m] = Told(m)
         /\ mappedSent[m] = (mailed[m] > 0)
         /\ Phase(m)' = Phase(m) => UNCHANGED mappedPhase
         /\ Told(m)' = Told(m) => UNCHANGED mappedTold
         /\ mailed'[m] = mailed[m] => UNCHANGED mappedSent
PROOF
  <1>1. \A k \in Messages : k # m => Phase(k)' = Phase(k)  BY DEF Phase, Unseen
  <1>2. /\ mappedPhase' = [mappedPhase EXCEPT ![m] = Phase(m)']
        /\ mappedPhase[m] = Phase(m)
        /\ Phase(m)' = Phase(m) => UNCHANGED mappedPhase
    BY <1>1 DEF mappedPhase
  <1>3. /\ mappedTold' = [mappedTold EXCEPT ![m] = Told(m)']
        /\ mappedTold[m] = Told(m)
        /\ Told(m)' = Told(m) => UNCHANGED mappedTold
    BY DEF mappedTold, Unseen
  <1>4. /\ mappedSent' = [mappedSent EXCEPT ![m] = (mailed'[m] > 0)]
        /\ mappedSent[m] = (mailed[m] > 0)
        /\ mailed'[m] = mailed[m] => UNCHANGED mappedSent
    BY DEF mappedSent, Unseen
  <1>5. QED BY <1>2, <1>3, <1>4

\* Every step of the lone consumer's reply path is one of the promise, or none.
LEMMA StepMaps ==
  ASSUME OneConsumer, CloudflareOnly, Lone, Lone', [Next]_vars
  PROVE  [Promise!Next]_(Promise!promise)
PROOF
  <1> USE DEF mappedPhase, mappedSent, mappedTold
  <1>1. UNCHANGED <<mappedPhase, mappedSent, mappedTold>> => UNCHANGED Promise!promise
    BY DEF Promise!promise
  <1>2. \A r \in Messages :
          /\ /\ mappedPhase[r] = "unclaimed"
             /\ mappedPhase' = [mappedPhase EXCEPT ![r] = "unsent"]
             /\ UNCHANGED <<mappedSent, mappedTold>>
             => Promise!Claim(r)
          /\ /\ mappedPhase[r] = "unsent"
             /\ mappedPhase' = [mappedPhase EXCEPT ![r] = "crossed"]
             /\ UNCHANGED <<mappedSent, mappedTold>>
             => Promise!Cross(r)
          /\ /\ mappedPhase[r] = "crossed" /\ ~mappedSent[r]
             /\ mappedSent' = [mappedSent EXCEPT ![r] = TRUE]
             /\ UNCHANGED <<mappedPhase, mappedTold>>
             => Promise!Mail(r)
    BY DEF Promise!Claim, Promise!Cross, Promise!Mail
  <1>3. ASSUME NEW r \in Messages, NEW outcome \in Outcomes,
               mappedPhase[r] \in {"unsent", "crossed"},
               outcome = "provider_accepted" => mappedSent[r],
               outcome = "failed" => ~mappedSent[r],
               mappedTold' = [mappedTold EXCEPT ![r] = outcome],
               mappedPhase' = [mappedPhase EXCEPT ![r] = "closed"],
               UNCHANGED mappedSent
        PROVE  Promise!Tell(r)
    BY <1>3 DEF Promise!Tell, Outcomes
  <1> USE DEF Promise!Next
  <1> HIDE DEF mappedPhase, mappedSent, mappedTold
  <1>4. CASE \A k \in Messages : Unseen(k)  BY <1>1, <1>4, UnseenMaps
  <1>5. ASSUME NEW m \in Messages, \A k \in Messages : k # m => Unseen(k)
        PROVE  [Promise!Next]_(Promise!promise)
    <2>1. CASE Unseen(m)  BY <1>4, <1>5, <2>1
    <2>2. CASE /\ mailed[m] = 0 /\ mailed'[m] = 1 /\ Told(m) = "nothing" /\ Told(m)' = "nothing"
               /\ admission[m] = "sending" /\ admission'[m] = "sending"
      <3>1. Phase(m) = "crossed" /\ Phase(m)' = "crossed"  BY <2>2 DEF Phase
      <3>2. ~(mailed[m] > 0) /\ (mailed'[m] > 0)  BY <2>2
      <3>3. Promise!Mail(m)  BY <1>2, <1>5, <2>2, <3>1, <3>2, OneMaps
      <3>4. QED BY <3>3
    <2>3. CASE /\ admission[m] = "none" /\ admission'[m] = "claimed" /\ mailed'[m] = mailed[m]
               /\ Told(m) = "nothing" /\ Told(m)' = "nothing"
      <3>1. Phase(m) = "unclaimed" /\ Phase(m)' = "unsent"  BY <2>3 DEF Phase
      <3>2. Promise!Claim(m)  BY <1>2, <1>5, <2>3, <3>1, OneMaps
      <3>3. QED BY <3>2
    <2>4. CASE /\ admission[m] = "claimed" /\ admission'[m] = "sending" /\ mailed'[m] = mailed[m]
               /\ Told(m) = "nothing" /\ Told(m)' = "nothing"
      <3>1. Phase(m) = "unsent" /\ Phase(m)' = "crossed"  BY <2>4 DEF Phase
      <3>2. Promise!Cross(m)  BY <1>2, <1>5, <2>4, <3>1, OneMaps
      <3>3. QED BY <3>2
    <2>5. CASE /\ admission[m] \in {"claimed", "sending"} /\ admission'[m] # "none"
               /\ mailed'[m] = mailed[m] /\ Told(m) = "nothing" /\ Told(m)' \in Outcomes
               /\ Told(m)' = "provider_accepted" => mailed[m] = 1
               /\ Told(m)' = "failed" => mailed[m] = 0
      <3>1. Phase(m) \in {"unsent", "crossed"} /\ Phase(m)' = "closed"
        BY <2>5 DEF Phase, Outcomes
      <3>2. Told(m)' = "provider_accepted" => (mailed[m] > 0)  BY <2>5
      <3>3. Told(m)' = "failed" => ~(mailed[m] > 0)  BY <2>5
      <3>4. Promise!Tell(m)  BY <1>3, <1>5, <2>5, <3>1, <3>2, <3>3, OneMaps
      <3>5. QED BY <3>4
    <2>6. CASE /\ admission[m] # "none" /\ admission'[m] # "none" /\ mailed'[m] = mailed[m]
               /\ Told(m) # "nothing" /\ Told(m)' = Told(m)
      <3>1. Phase(m) = "closed" /\ Phase(m)' = "closed"  BY <2>6 DEF Phase
      <3>2. QED BY <1>1, <1>5, <2>6, <3>1, OneMaps
    <2>7. QED BY <2>1, <2>2, <2>3, <2>4, <2>5, <2>6, Seen
  <1>6. QED BY <1>4, <1>5, OneSeen

LEMMA InitMaps == Init => Promise!Init
PROOF
  <1> SUFFICES ASSUME Init PROVE Promise!Init
    OBVIOUS
  <1>1. \A m \in Messages : Told(m) = "nothing"  BY DEF Init, Told, Outcomes
  <1>2. \A m \in Messages : Phase(m) = "unclaimed" /\ (mailed[m] > 0) = FALSE
    BY DEF Init, Phase
  <1>3. [m \in Messages |-> Phase(m)] = [m \in Messages |-> "unclaimed"]  BY <1>2
  <1>4. [m \in Messages |-> Told(m)] = [m \in Messages |-> "nothing"]  BY <1>1
  <1>5. [m \in Messages |-> mailed[m] > 0] = [m \in Messages |-> FALSE]  BY <1>2, Zenon
  <1>6. QED BY <1>3, <1>4, <1>5 DEF Promise!Init

\* With the deployed single consumer and policies that bind Cloudflare's adapter
\* the reply path, with its crashes, redeliveries, late commits and changes of
\* authority, implements the promise: one claim, one crossing, one e-mail, one
\* outcome, which is true and closes the reply.
THEOREM PromiseIsKept == OneConsumer /\ CloudflareOnly => (Spec => KeepsPromise)
PROOF
  <1> SUFFICES ASSUME OneConsumer, CloudflareOnly PROVE Spec => KeepsPromise
    OBVIOUS
  <1>1. Lone /\ Lone' /\ [Next]_vars => [Promise!Next]_(Promise!promise)  BY StepMaps
  <1>2. QED BY <1>1, InitMaps, LoneInvariance, PTL DEF Spec, KeepsPromise, Promise!Spec
=============================================================================
