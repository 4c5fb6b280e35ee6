----------------------------- MODULE ReplyRelay -----------------------------
(***************************************************************************)
(* The operator reply path of maildesk-cf.  An operator answers a relayed  *)
(* message by e-mail; the router worker (acceptOperatorReply) authenticates*)
(* it, spools its bytes in R2, claims one reply authorization in D1 and    *)
(* puts a job on a Cloudflare Queue; the outbound worker (processInboxReply*)
(* and recordQueueEvent) rechecks everything, crosses the provider         *)
(* boundary by one conditional UPDATE, calls the e-mail provider and       *)
(* projects the outcome back into D1 and R2.                               *)
(*                                                                         *)
(* Every D1 statement, R2 operation, queue operation and provider call     *)
(* that changes state is a step of its own, so that workers interleave,    *)
(* crash, and lose acknowledgements between any two of them.  The reads    *)
(* and guards that precede one write are one step with the decision they   *)
(* lead to; the statements that re-read them atomically (the claim and the *)
(* provider boundary) carry their guards again.                            *)
(*                                                                         *)
(* One relay of one route is modelled: Messages are the operator messages  *)
(* (attempt identities) that answer on it, Deliveries the SMTP deliveries  *)
(* of those messages to the router.                                        *)
(***************************************************************************)
EXTENDS Integers, FiniteSets

CONSTANTS
  Messages,     \* reply attempt identities: sha256(relay id, Message-ID)
  Deliveries,   \* SMTP deliveries to the router; also the staging keys they mint
  Consumers,    \* concurrent invocations of the outbound queue consumer
  Policies,     \* policy revisions that may be active
  MessageOf,    \* the message a delivery carries
  BytesOf,      \* the digest of the raw bytes a delivery carries
  Adapter,      \* the sender adapter a policy revision binds to the identity
  Modes,        \* values MAILDESK_OUTBOUND_MODE is deployed with
  MaxTries,     \* queue deliveries of one job before the dead letter queue
  MaxChanges,   \* bound on the environment's changes of authority and storage
  None          \* NULL

CF == "cloudflare_email_service"
RS == "resend"

ASSUME RelayConstants ==
  /\ MessageOf \in [Deliveries -> Messages]
  /\ Adapter \in [Policies -> {CF, RS}]
  /\ Modes \subseteq {CF, RS, "disabled"}
  /\ MaxTries \in Nat \ {0}
  /\ MaxChanges \in Nat
  /\ None \notin Deliveries \cup Policies

VARIABLES
  \* D1: relay_attempts and reply_admissions_all, one row of each per message
  attempt,      \* relay_attempts.status, "none" while there is no row
  admission,    \* status of the admission the attempt claimed, "none" likewise
  claim,        \* immutable columns of the claim
  spoolKey,     \* relay_attempts.raw_r2_key
  \* D1: audit_events under the two dedupe keys of an outbound reply
  intent,       \* <id>:outbound_reply_requested, the recorded outboundMode
  terminal,     \* <id>:outbound_reply_result, the recorded outcome
  \* R2 relay spool
  spool,        \* staging keys that hold an object
  lapsed,       \* keys the bucket's retention rule has deleted
  \* the queue
  job,          \* state of the job a delivery enqueued
  tries,        \* message.attempts of that job
  \* authority and configuration other actors change
  policy,       \* runtime_state.active_policy_sha256
  live,         \* relay not revoked or superseded, and nothing expired
  quarantined,  \* the route has an active quarantine
  activations,  \* policies with a current ordinary route authorization
  canary,       \* policy of the relay's unclaimed canary admission, or None
  mode,         \* the deployed MAILDESK_OUTBOUND_MODE
  stage,        \* age of a Resend claim against its 23 and 24 hour windows
  changes,      \* environment changes so far
  \* router invocations
  hpc, hview,
  inflight,     \* claim statements whose outcome the router did not learn
  \* consumer invocations
  cpc, cview,
  \* history, for the properties only
  mailed,       \* e-mails the provider has sent out for a message
  called        \* provider adapters called for a message

rows     == <<attempt, admission, claim, spoolKey>>
ledger   == <<intent, terminal>>
bucket   == <<spool, lapsed>>
queue    == <<job, tries>>
gates    == <<policy, live, quarantined, activations, canary, mode, stage, changes>>
router   == <<hpc, hview, inflight>>
consumer == <<cpc, cview>>
history  == <<mailed, called>>
vars     == <<rows, ledger, bucket, queue, gates, router, consumer, history>>

----------------------------------------------------------------------------
Pending   == {"receiving", "queued", "authorized"}
Outcomes  == {"provider_accepted", "failed", "recovery_required"}
AttemptStatus   == {"none"} \cup Pending \cup Outcomes
AdmissionStatus == {"none", "claimed", "sending"} \cup Outcomes
Stages    == {"fresh", "late", "old", "forgotten"}

\* The claim columns a message has before it is claimed.
NoClaim == [by |-> None, policy |-> None, kind |-> "none"]
Claims  == [by : Deliveries, policy : Policies, kind : {"canary", "ordinary"}]

\* The claim a router invocation is about to bind, whether it is the first to
\* dispatch, and whether its claim statement returned.
HandlerView  == [claim : Claims \cup {NoClaim}, fresh : BOOLEAN, certain : BOOLEAN]
ConsumerView == [job : Deliveries \cup {None}, mode : Modes \cup {"none"},
                 policy : Policies \cup {None},
                 outcome : Outcomes \cup {"none", "retry"}, again : BOOLEAN]

\* The locals of an invocation that is the first to dispatch, from the choice of
\* its claim until the claim statement returned.
Handling(new, certain) == [claim |-> new, fresh |-> TRUE, certain |-> certain]

\* The locals of an invocation before it has work and after it ended.
NoHandling == [claim |-> NoClaim, fresh |-> FALSE, certain |-> TRUE]
NoView == [job |-> None, mode |-> "none", policy |-> None, outcome |-> "none", again |-> FALSE]

HandlerActive  == {"lookup", "admit", "spool", "claim", "readback", "dispatch",
                   "enqueue", "journal"}
\* accepted: a fresh claim was dispatched; resumed: an exact redelivery was
\* accepted; refused: setReject, or the SMTP transaction failed.
HandlerPc      == HandlerActive \cup {"accepted", "resumed", "refused"}
ConsumerActive == {"resume", "check", "close", "authorize", "intent", "duplicate",
                   "verify", "boundary", "unsent", "call", "retry", "record",
                   "projectAttempt", "projectAdmission", "clean", "forget", "done"}
ConsumerPc     == ConsumerActive \cup {"idle"}

\* The message a busy consumer works on.
Current(c) == MessageOf[cview[c].job]

\* What every safety-critical statement requires of a claim bound to policy p.
AuthorityCurrent(p, kind) ==
  /\ live /\ ~quarantined
  /\ policy = p
  /\ kind = "ordinary" => p \in activations

\* Mutant: a claim closed before the boundary is carried on.
Crossable_ReopensFailed(m) == admission[m] \in {"claimed", "failed"}

\* The claim may be carried to the provider boundary: never crossed, or a
\* Resend claim whose boundary is younger than 23 hours.
Crossable(m) ==
  \/ admission[m] = "claimed"
  \/ /\ admission[m] = "sending"
     /\ Adapter[claim[m].policy] = RS
     /\ stage[m] \in {"fresh", "late"}

\* Mutant: authorized is left out of the list.
StillUnsent_NotAuthorized(m) ==
  attempt[m] \in {"receiving", "queued"} /\ admission[m] = "claimed"

\* An open attempt whose claim nobody has carried to the boundary.
StillUnsent(m) == attempt[m] \in Pending /\ admission[m] = "claimed"

\* Mutant: the trigger protects accepted attempts only.
TerminalTrigger_AcceptedOnly(m, status) ==
  attempt[m] = "provider_accepted" /\ status # "provider_accepted"

\* relay_attempts_terminal_no_reopen aborts an UPDATE to this status.
TerminalTrigger(m, status) == attempt[m] \in Outcomes /\ status # attempt[m]

Init ==
  /\ attempt   = [m \in Messages |-> "none"]
  /\ admission = [m \in Messages |-> "none"]
  /\ claim     = [m \in Messages |-> NoClaim]
  /\ spoolKey  = [m \in Messages |-> None]
  /\ intent    = [m \in Messages |-> "none"]
  /\ terminal  = [m \in Messages |-> "none"]
  /\ spool = {} /\ lapsed = {}
  /\ job   = [h \in Deliveries |-> "none"]
  /\ tries = [h \in Deliveries |-> 0]
  /\ policy \in Policies
  /\ live = TRUE /\ quarantined = FALSE
  /\ activations \in SUBSET {policy}
  /\ canary \in {policy, None}
  /\ mode \in Modes
  /\ stage = [m \in Messages |-> "fresh"]
  /\ changes = 0
  /\ hpc   = [h \in Deliveries |-> "lookup"]
  /\ hview = [h \in Deliveries |-> NoHandling]
  /\ inflight = {}
  /\ cpc   = [c \in Consumers |-> "idle"]
  /\ cview = [c \in Consumers |-> NoView]
  /\ mailed = [m \in Messages |-> 0]
  /\ called = [m \in Messages |-> {}]

----------------------------------------------------------------------------
(* The router: one SMTP delivery h of a reply whose DKIM check succeeded.  *)

Goto(h, label) == hpc' = [hpc EXCEPT ![h] = label] /\ UNCHANGED hview

\* The SMTP transaction ends; the invocation's locals are gone.
End(h, label) ==
  /\ hpc'   = [hpc EXCEPT ![h] = label]
  /\ hview' = [hview EXCEPT ![h] = NoHandling]

\* Mutant: the row's identity is taken for an exact redelivery.
ExactRedelivery_AnyBytes(h) == attempt[MessageOf[h]] # "none"

\* A durable claim of the delivered message binds the delivered bytes.
ExactRedelivery(h) ==
  LET m == MessageOf[h] IN
  attempt[m] # "none" /\ BytesOf[claim[m].by] = BytesOf[h]

\* Identity lookup, before any current authority: an exact redelivery only
\* resumes dispatch, a different body under the same identity is refused.
Lookup(h) ==
  /\ hpc[h] = "lookup"
  /\ \/ attempt[MessageOf[h]] = "none" /\ Goto(h, "admit")
     \/ ExactRedelivery(h) /\ Goto(h, "dispatch")
     \/ attempt[MessageOf[h]] # "none" /\ ~ExactRedelivery(h) /\ End(h, "refused")
  /\ UNCHANGED <<rows, ledger, bucket, queue, gates, inflight, consumer, history>>

\* The authorization a new reply may use: the relay's unconsumed canary, or the
\* ordinary activation of the active policy, whose adapter must be deployed.
CanaryAdmitted == canary = policy
Activated      == policy \in activations /\ mode = Adapter[policy]
Chosen(h)      == [by |-> h, policy |-> policy,
                   kind |-> IF CanaryAdmitted THEN "canary" ELSE "ordinary"]

\* Containment, active relay, policy, and the choice of the authorization.
Admit(h) ==
  /\ hpc[h] = "admit"
  /\ \/ /\ live /\ ~quarantined
        /\ CanaryAdmitted \/ Activated
        /\ hpc'   = [hpc EXCEPT ![h] = "spool"]
        /\ hview' = [hview EXCEPT ![h] = Handling(Chosen(h), TRUE)]
     \/ End(h, "refused")          \* not authorized, or a read failed
  /\ UNCHANGED <<rows, ledger, bucket, queue, gates, inflight, consumer, history>>

\* The exact bytes are spooled under a fresh key before anything is claimed.
SpoolReply(h) ==
  /\ hpc[h] = "spool"
  /\ \/ spool' = spool \cup {h} /\ Goto(h, "claim")
     \/ spool' \in {spool, spool \cup {h}} /\ End(h, "refused")
  /\ UNCHANGED <<rows, ledger, lapsed, queue, gates, inflight, consumer, history>>

\* Mutant: the statement does not ask whether the canary is still unconsumed.
InsertAllowed_AnyCanary(new) ==
  attempt[MessageOf[new.by]] = "none" /\ AuthorityCurrent(new.policy, new.kind)

\* The conditions of the one INSERT that owns attempt and admission: the row's
\* primary key is free, the bindings are current, the canary is unconsumed.
InsertAllowed(new) ==
  /\ attempt[MessageOf[new.by]] = "none"
  /\ AuthorityCurrent(new.policy, new.kind)
  /\ new.kind = "canary" => canary = new.policy

\* The committed statement: attempt row, admission claim and canary consumption.
InsertClaim(new) ==
  LET m == MessageOf[new.by] IN
  /\ InsertAllowed(new)
  /\ attempt'   = [attempt EXCEPT ![m] = "receiving"]
  /\ admission' = [admission EXCEPT ![m] = "claimed"]
  /\ claim'     = [claim EXCEPT ![m] = new]
  /\ spoolKey'  = [spoolKey EXCEPT ![m] = new.by]
  /\ canary'    = IF new.kind = "canary" THEN None ELSE canary

\* The claim commits, or changes no row (quietly or by raising), or raises with
\* its outcome unknown: then it may still commit later (LateCommit), or never.
ClaimReply(h) ==
  LET new == hview[h].claim
      Returned(certain) == hview' = [hview EXCEPT ![h] = Handling(NoClaim, certain)] IN
  /\ hpc[h] = "claim"
  /\ hpc' = [hpc EXCEPT ![h] = "readback"]
  /\ \/ InsertClaim(new) /\ Returned(TRUE) /\ UNCHANGED inflight
     \/ /\ ~InsertAllowed(new)
        /\ \E certain \in BOOLEAN : Returned(certain)
        /\ UNCHANGED <<rows, canary, inflight>>
     \/ /\ inflight' = inflight \cup {new}
        /\ Returned(FALSE)
        /\ UNCHANGED <<rows, canary>>
  /\ UNCHANGED <<ledger, bucket, queue, policy, live, quarantined, activations, mode,
                 stage, changes, consumer, history>>

LateCommit ==
  /\ \E new \in inflight : InsertClaim(new) /\ inflight' = inflight \ {new}
  /\ UNCHANGED <<ledger, bucket, queue, policy, live, quarantined, activations, mode,
                 stage, changes, hpc, hview, consumer, history>>

\* Mutant: without an exact row the candidate is always deleted.
CandidateLost_Always(h) ==
  ExactRedelivery(h) => spoolKey[MessageOf[h]] # h

\* The candidate object is deleted when another delivery's claim binds the
\* bytes, and without an exact row only when the claim's outcome is known.
CandidateLost(h) ==
  IF ExactRedelivery(h) THEN spoolKey[MessageOf[h]] # h ELSE hview[h].certain

\* The durable row decides.  Deletion failures are ignored.
Readback(h) ==
  /\ hpc[h] = "readback"
  /\ \/ End(h, "refused") /\ UNCHANGED spool           \* the read itself failed
     \/ /\ IF ExactRedelivery(h) THEN Goto(h, "dispatch") ELSE End(h, "refused")
        /\ spool' \in IF CandidateLost(h) THEN {spool, spool \ {h}} ELSE {spool}
  /\ UNCHANGED <<rows, ledger, lapsed, queue, gates, inflight, consumer, history>>

\* recoverKnownUnsentDispatch up to the Queue call: only a claim that is still
\* unsent, authorized and spooled is dispatched again.
Dispatchable(m) ==
  /\ StillUnsent(m)
  /\ AuthorityCurrent(claim[m].policy, claim[m].kind)
  /\ Adapter[claim[m].policy] = mode
  /\ spoolKey[m] \in spool

\* A blocked first dispatch is refused, a blocked redelivery accepted.
Dispatch(h) ==
  /\ hpc[h] = "dispatch"
  /\ \/ Dispatchable(MessageOf[h]) /\ Goto(h, "enqueue")
     \/ End(h, IF hview[h].fresh THEN "refused" ELSE "resumed")
  /\ UNCHANGED <<rows, ledger, bucket, queue, gates, inflight, consumer, history>>

\* MAIL_JOBS.send: a rejected call may still have been accepted by the Queue.
Enqueue(h) ==
  /\ hpc[h] = "enqueue"
  /\ \/ job' = [job EXCEPT ![h] = "queued"] /\ Goto(h, "journal")
     \/ job' \in {job, [job EXCEPT ![h] = "queued"]} /\ End(h, "refused")
  /\ UNCHANGED <<rows, ledger, bucket, tries, gates, inflight, consumer, history>>

\* The dispatch journal moves forward only from receiving.
Journal(h) ==
  LET m == MessageOf[h] IN
  /\ hpc[h] = "journal"
  /\ \/ /\ attempt' = IF attempt[m] = "receiving"
                      THEN [attempt EXCEPT ![m] = "queued"] ELSE attempt
        /\ End(h, IF hview[h].fresh THEN "accepted" ELSE "resumed")
     \/ End(h, "refused") /\ UNCHANGED attempt
  /\ UNCHANGED <<admission, claim, spoolKey, ledger, bucket, queue, gates, inflight,
                 consumer, history>>

\* An uncaught exception or an evicted worker ends the SMTP transaction.
RouterCrash(h) ==
  /\ hpc[h] \in HandlerActive
  /\ End(h, "refused")
  /\ UNCHANGED <<rows, ledger, bucket, queue, gates, inflight, consumer, history>>

Router(h) ==
  \/ Lookup(h) \/ Admit(h) \/ SpoolReply(h) \/ ClaimReply(h)
  \/ Readback(h) \/ Dispatch(h) \/ Enqueue(h) \/ Journal(h) \/ RouterCrash(h)

----------------------------------------------------------------------------
(* The outbound consumer.                                                  *)

Step(c, label) == cpc' = [cpc EXCEPT ![c] = label]

EndInvocation(c) ==
  /\ cpc'   = [cpc EXCEPT ![c] = "idle"]
  /\ cview' = [cview EXCEPT ![c] = NoView]

StepWith(c, label, outcome) ==
  /\ cpc'   = [cpc EXCEPT ![c] = label]
  /\ cview' = [cview EXCEPT ![c].outcome = outcome]

\* An invocation's configuration is fixed when it starts, and the terminal
\* ledger is read first.
Taken(h) == [job |-> h, mode |-> mode, policy |-> None,
             outcome |-> terminal[MessageOf[h]], again |-> FALSE]

\* The Queue hands a job to an idle consumer.
Take(c) ==
  /\ cpc[c] = "idle"
  /\ \E h \in Deliveries :
       /\ job[h] = "queued"
       /\ job'   = [job EXCEPT ![h] = "leased"]
       /\ tries' = [tries EXCEPT ![h] = @ + 1]
       /\ cview' = [cview EXCEPT ![c] = Taken(h)]
  /\ Step(c, "resume")
  /\ UNCHANGED <<rows, ledger, bucket, gates, router, history>>

\* Mutant: a recorded outcome is taken for a finished one.
ResumePoint_Settled(c) ==
  IF cview[c].outcome # "none" \/ attempt[Current(c)] \in Outcomes THEN "done" ELSE "check"

\* resumeInboxTerminal: a recorded outcome only resumes its projection; a
\* terminal attempt, or a Cloudflare claim in flight, is left alone.
ResumePoint(c) ==
  LET m       == Current(c)
      settled == \/ attempt[m] \in Outcomes
                 \/ admission[m] = "sending" /\ cview[c].mode # RS IN
  IF cview[c].outcome # "none" THEN "projectAttempt"
  ELSE IF settled THEN "done" ELSE "check"

Resume(c) ==
  /\ cpc[c] = "resume"
  /\ Step(c, ResumePoint(c))
  /\ UNCHANGED <<rows, ledger, bucket, queue, gates, router, cview, history>>

\* The checks of processInboxReply that a current, claimed reply must pass.
ReplyCheckPasses(c) ==
  LET m == Current(c) IN
  /\ live /\ ~quarantined
  /\ attempt[m] \in Pending /\ Crossable(m)
  /\ claim[m].kind = "ordinary" =>
       /\ policy = claim[m].policy /\ policy \in activations
       /\ Adapter[policy] = cview[c].mode

\* An authority that is gone closes the attempt as failed; an unreadable policy
\* or a missing spool object closes it as recovery_required.  Under another
\* policy revision the identity bindings may or may not have changed.
Check(c) ==
  LET m == Current(c) IN
  /\ cpc[c] = "check"
  /\ \/ /\ ~ReplyCheckPasses(c) \/ policy # claim[m].policy
        /\ StepWith(c, "close", "failed")
     \/ StepWith(c, "close", "recovery_required")
     \/ /\ ReplyCheckPasses(c) /\ claim[m].by \in spool
        /\ cview' = [cview EXCEPT ![c].policy = policy]
        /\ Step(c, "authorize")
  /\ UNCHANGED <<rows, ledger, bucket, queue, gates, router, history>>

\* failRelayAttempt / recoverRelayAttempt: one UPDATE guarded by both statuses.
\* The admission keeps its claimed status.
CloseAttempt(c) ==
  LET m == Current(c) IN
  /\ cpc[c] = "close"
  /\ attempt' = IF StillUnsent(m) THEN [attempt EXCEPT ![m] = cview[c].outcome] ELSE attempt
  /\ Step(c, "done")
  /\ UNCHANGED <<admission, claim, spoolKey, ledger, bucket, queue, gates, router,
                 cview, history>>

\* The Queue delivers the message again.
TriesLeft(h) == tries[h] < MaxTries

\* The message goes back to the Queue, or after the last try to the dead
\* letter queue; the consumer is free.
Redeliver(c) ==
  LET h == cview[c].job IN
  /\ job' = [job EXCEPT ![h] = IF TriesLeft(h) THEN "queued" ELSE "dead"]
  /\ EndInvocation(c)
  /\ UNCHANGED tries

\* status = 'authorized', written without a guard: the terminal trigger aborts
\* the statement on a closed attempt and the invocation fails.
Authorize(c) ==
  LET m == Current(c) IN
  /\ cpc[c] = "authorize"
  /\ \/ /\ ~TerminalTrigger(m, "authorized")
        /\ attempt' = [attempt EXCEPT ![m] = "authorized"]
        /\ Step(c, "intent")
        /\ UNCHANGED <<queue, cview>>
     \/ /\ TerminalTrigger(m, "authorized")
        /\ Redeliver(c)
        /\ UNCHANGED attempt
  /\ UNCHANGED <<admission, claim, spoolKey, ledger, bucket, gates, router, history>>

\* INSERT OR IGNORE of the dispatch intent; a loser looks at the journal.
RecordIntent(c) ==
  LET m == Current(c) IN
  /\ cpc[c] = "intent"
  /\ \/ /\ intent[m] = "none"
        /\ intent' = [intent EXCEPT ![m] = cview[c].mode]
        /\ Step(c, "verify")
     \/ /\ intent[m] # "none"
        /\ Step(c, "duplicate")
        /\ UNCHANGED intent
  /\ UNCHANGED <<rows, terminal, bucket, queue, gates, router, cview, history>>

KnownUnsent(m) == admission[m] = "claimed" /\ attempt[m] = "authorized"

\* A Resend intent of the same provider mode, younger than 23 hours.
ResendResumable(c) ==
  /\ intent[Current(c)] = RS /\ cview[c].mode = RS
  /\ stage[Current(c)] = "fresh"

\* A repeated intent: finish a recorded outcome, resume a known-unsent or
\* idempotent claim, or report that it cannot be resumed.  Under another policy
\* revision the serialized request, and so its digest, may have changed.
Duplicate(c) ==
  LET m == Current(c) IN
  /\ cpc[c] = "duplicate"
  /\ \/ terminal[m] # "none" /\ StepWith(c, "projectAttempt", terminal[m])
     \/ /\ terminal[m] = "none"
        /\ KnownUnsent(m) \/ ResendResumable(c)
        /\ Step(c, "verify") /\ UNCHANGED cview
     \/ /\ terminal[m] = "none" /\ ~KnownUnsent(m)
        /\ ~ResendResumable(c) \/ cview[c].policy # claim[m].policy
        /\ StepWith(c, "record", "recovery_required")
  /\ UNCHANGED <<rows, ledger, bucket, queue, gates, router, history>>

\* Mutant: the sender adapter is not compared with the runtime mode.
TransactionAuthorized_AnyMode(c) ==
  LET m == Current(c) IN
  /\ AuthorityCurrent(claim[m].policy, claim[m].kind)
  /\ cview[c].policy = policy
  /\ attempt[m] = "authorized" /\ Crossable(m)

\* sendOutboundReply up to the boundary statement.  Any failing or unreadable
\* check is a rejection before the boundary.
TransactionAuthorized(c) ==
  LET m == Current(c) IN
  /\ AuthorityCurrent(claim[m].policy, claim[m].kind)
  /\ cview[c].policy = policy /\ Adapter[policy] = cview[c].mode
  /\ attempt[m] = "authorized" /\ Crossable(m)

Verify(c) ==
  /\ cpc[c] = "verify"
  /\ \/ TransactionAuthorized(c) /\ Step(c, "boundary")
     \/ Step(c, "unsent")
  /\ UNCHANGED <<rows, ledger, bucket, queue, gates, router, cview, history>>

\* Mutant: the UPDATE trusts the admission status read before it.
BoundaryOpen_TrustsRead(c) ==
  LET m == Current(c) IN
  AuthorityCurrent(claim[m].policy, claim[m].kind) /\ cview[c].policy = claim[m].policy

\* The conditional UPDATE to sending.  It re-reads every gate but not the
\* attempt's status; only Resend may pass again while already sending.
BoundaryOpen(c) ==
  LET m == Current(c) IN
  /\ Crossable(m)
  /\ admission[m] = "sending" => cview[c].mode = RS
  /\ AuthorityCurrent(claim[m].policy, claim[m].kind)
  /\ cview[c].policy = claim[m].policy

ClaimBoundary(c) ==
  LET m == Current(c) IN
  /\ cpc[c] = "boundary"
  /\ \/ /\ BoundaryOpen(c)
        /\ admission' = [admission EXCEPT ![m] = "sending"]
        /\ Step(c, "call")
     \/ /\ ~BoundaryOpen(c)
        /\ Step(c, IF admission[m] \in {"sending", "provider_accepted", "recovery_required"}
                   THEN "done" ELSE "unsent")
        /\ UNCHANGED admission
  /\ UNCHANGED <<attempt, claim, spoolKey, ledger, bucket, queue, gates, router,
                 cview, history>>

\* claimReplyFailureBeforeBoundary closes only a claim that is still unsent.
CloseUnsent(c) ==
  LET m == Current(c) IN
  /\ cpc[c] = "unsent"
  /\ \/ /\ admission[m] = "claimed"
        /\ admission' = [admission EXCEPT ![m] = "failed"]
        /\ StepWith(c, "record", "failed")
     \/ /\ admission[m] # "claimed"
        /\ Step(c, "done")
        /\ UNCHANGED <<admission, cview>>
  /\ UNCHANGED <<attempt, claim, spoolKey, ledger, bucket, queue, gates, router, history>>

\* Mutant: an answer of unknown outcome is taken for a definitive one.
Answers_Guessed(adapter) == {"provider_accepted", "failed"} \X BOOLEAN

\* What a provider call may do: the answer the consumer sees, and whether the
\* provider accepted the request.  Cloudflare answers accepted, a definitive
\* rejection, or an error of unknown outcome; Resend's timeouts and transient
\* statuses ask for a retry.
Answers(adapter) ==
  ({"provider_accepted"} \X {TRUE}) \cup ({"failed"} \X {FALSE}) \cup
    ({IF adapter = CF THEN "recovery_required" ELSE "retry"} \X BOOLEAN)

\* Resend sends one e-mail per idempotency key (the message id) as long as it
\* remembers the key.
Sends(m, adapter) == adapter = RS => mailed[m] = 0 \/ stage[m] = "forgotten"

CallProvider(c) ==
  LET m == Current(c) IN
  /\ cpc[c] = "call"
  /\ \E answer \in Answers(cview[c].mode) :
       /\ mailed' = IF answer[2] /\ Sends(m, cview[c].mode)
                    THEN [mailed EXCEPT ![m] = @ + 1] ELSE mailed
       /\ StepWith(c, IF answer[1] = "retry" THEN "retry" ELSE "record", answer[1])
  /\ called' = [called EXCEPT ![m] = @ \cup {cview[c].mode}]
  /\ UNCHANGED <<rows, ledger, bucket, queue, gates, router>>

\* A retryable failure returns the message to the Queue; on the last try it is
\* recorded as failed and then still handed to the dead letter queue.
RetryOrExhaust(c) ==
  /\ cpc[c] = "retry"
  /\ IF TriesLeft(cview[c].job)
     THEN Redeliver(c)
     ELSE /\ cview' = [cview EXCEPT ![c] = [@ EXCEPT !.outcome = "failed", !.again = TRUE]]
          /\ Step(c, "record")
          /\ UNCHANGED queue
  /\ UNCHANGED <<rows, ledger, bucket, gates, router, history>>

\* recordTerminalSendEvent: INSERT OR IGNORE, then the stored outcome rules.
RecordTerminal(c) ==
  LET m == Current(c) IN
  /\ cpc[c] = "record"
  /\ terminal' = IF terminal[m] = "none"
                 THEN [terminal EXCEPT ![m] = cview[c].outcome] ELSE terminal
  /\ StepWith(c, "projectAttempt", terminal'[m])
  /\ UNCHANGED <<rows, intent, bucket, queue, gates, router, history>>

\* finalizeTerminalSendState, statement by statement.  The terminal trigger
\* aborts the first one on an attempt closed with another outcome.
ProjectAttempt(c) ==
  LET m == Current(c) IN
  /\ cpc[c] = "projectAttempt"
  /\ \/ /\ ~TerminalTrigger(m, cview[c].outcome)
        /\ attempt' = [attempt EXCEPT ![m] = cview[c].outcome]
        /\ Step(c, "projectAdmission")
        /\ UNCHANGED <<queue, cview>>
     \/ /\ TerminalTrigger(m, cview[c].outcome)
        /\ Redeliver(c)
        /\ UNCHANGED attempt
  /\ UNCHANGED <<admission, claim, spoolKey, ledger, bucket, gates, router, history>>

ProjectAdmission(c) ==
  LET m == Current(c) IN
  /\ cpc[c] = "projectAdmission"
  /\ admission' = IF admission[m] \in {"claimed", "sending"}
                  THEN [admission EXCEPT ![m] = cview[c].outcome] ELSE admission
  /\ Step(c, IF cview[c].outcome = "provider_accepted" THEN "clean" ELSE "done")
  /\ UNCHANGED <<attempt, claim, spoolKey, ledger, bucket, queue, gates, router,
                 cview, history>>

CleanSpool(c) ==
  /\ cpc[c] = "clean"
  /\ spool' = spool \ {claim[Current(c)].by}
  /\ Step(c, "forget")
  /\ UNCHANGED <<rows, ledger, lapsed, queue, gates, router, cview, history>>

ForgetSpoolKey(c) ==
  /\ cpc[c] = "forget"
  /\ spoolKey' = [spoolKey EXCEPT ![Current(c)] = None]
  /\ Step(c, "done")
  /\ UNCHANGED <<attempt, admission, claim, ledger, bucket, queue, gates, router,
                 cview, history>>

\* Mutant: an exhausted retryable failure is neither acknowledged nor retried.
Finish_AckOnly(c) ==
  /\ cpc[c] = "done" /\ ~cview[c].again
  /\ job' = [job EXCEPT ![cview[c].job] = "acked"]
  /\ EndInvocation(c)
  /\ UNCHANGED <<tries, rows, ledger, bucket, gates, router, history>>

\* message.ack(), or message.retry() after an exhausted retryable failure.
Finish(c) ==
  /\ cpc[c] = "done"
  /\ IF cview[c].again
     THEN Redeliver(c)
     ELSE /\ job' = [job EXCEPT ![cview[c].job] = "acked"]
          /\ EndInvocation(c)
          /\ UNCHANGED tries
  /\ UNCHANGED <<rows, ledger, bucket, gates, router, history>>

\* An exception, an eviction or a lost acknowledgement at any point.
ConsumerCrash(c) ==
  /\ cpc[c] \in ConsumerActive
  /\ Redeliver(c)
  /\ UNCHANGED <<rows, ledger, bucket, gates, router, history>>

\* One step of the invocation that holds a message.
Work(c) ==
  \/ Resume(c) \/ Check(c) \/ CloseAttempt(c) \/ Authorize(c)
  \/ RecordIntent(c) \/ Duplicate(c) \/ Verify(c) \/ ClaimBoundary(c) \/ CloseUnsent(c)
  \/ CallProvider(c) \/ RetryOrExhaust(c) \/ RecordTerminal(c) \/ ProjectAttempt(c)
  \/ ProjectAdmission(c) \/ CleanSpool(c) \/ ForgetSpoolKey(c) \/ Finish(c)

Consumer(c) == Take(c) \/ Work(c) \/ ConsumerCrash(c)

----------------------------------------------------------------------------
(* The environment: policy activation, containment, deployment, expiry.    *)

EnvFrame == UNCHANGED <<rows, ledger, queue, router, consumer, history>>

Change == changes < MaxChanges /\ changes' = changes + 1 /\ EnvFrame

ActivatePolicy ==
  /\ Change
  /\ policy' \in Policies \ {policy}
  /\ UNCHANGED <<bucket, live, quarantined, activations, canary, mode, stage>>

\* Quarantine events are appended and released; revocation, supersession and
\* expiry of the relay are final, and so is a revoked activation.
ToggleQuarantine ==
  /\ Change
  /\ quarantined' = ~quarantined
  /\ UNCHANGED <<bucket, policy, live, activations, canary, mode, stage>>

CloseRelay ==
  /\ Change
  /\ live /\ live' = FALSE
  /\ UNCHANGED <<bucket, policy, quarantined, activations, canary, mode, stage>>

RevokeActivation ==
  /\ Change
  /\ \E p \in activations : activations' = activations \ {p}
  /\ UNCHANGED <<bucket, policy, live, quarantined, canary, mode, stage>>

Redeploy ==
  /\ Change
  /\ mode' \in Modes \ {mode}
  /\ UNCHANGED <<bucket, policy, live, quarantined, activations, canary, stage>>

\* The bucket's retention rule deletes an object.
LapseSpool ==
  /\ Change
  /\ \E h \in spool : spool' = spool \ {h} /\ lapsed' = lapsed \cup {h}
  /\ UNCHANGED <<policy, live, quarantined, activations, canary, mode, stage>>

\* The age of a Resend claim.  Its intent turns 23 hours old first, then its
\* boundary, and Resend forgets the key an hour later at the earliest: an
\* invocation that passed the boundary check has ended by then.
BoundaryInUse(m) == \E c \in Consumers : cpc[c] = "call" /\ Current(c) = m

Age(m) ==
  /\ claim[m].by # None /\ Adapter[claim[m].policy] = RS
  /\ \/ /\ stage[m] = "fresh" /\ intent[m] # "none"
        /\ stage' = [stage EXCEPT ![m] = "late"]
     \/ /\ stage[m] = "late" /\ admission[m] \notin {"claimed", "failed"}
        /\ stage' = [stage EXCEPT ![m] = "old"]
     \/ /\ stage[m] = "old" /\ ~BoundaryInUse(m)
        /\ stage' = [stage EXCEPT ![m] = "forgotten"]
  /\ EnvFrame
  /\ UNCHANGED <<bucket, policy, live, quarantined, activations, canary, mode, changes>>

Environment ==
  \/ ActivatePolicy \/ ToggleQuarantine \/ CloseRelay \/ RevokeActivation
  \/ Redeploy \/ LapseSpool \/ \E m \in Messages : Age(m)

Next ==
  \/ \E h \in Deliveries : Router(h)
  \/ LateCommit
  \/ \E c \in Consumers : Consumer(c)
  \/ Environment

Spec == Init /\ [][Next]_vars

\* The Queue keeps delivering and an invocation that is not evicted goes on.
FairSpec == Spec /\ \A c \in Consumers : WF_vars(Take(c)) /\ WF_vars(Work(c))

----------------------------------------------------------------------------
(* Properties.                                                             *)

TypeOK ==
  /\ attempt \in [Messages -> AttemptStatus]
  /\ admission \in [Messages -> AdmissionStatus]
  /\ claim \in [Messages -> Claims \cup {NoClaim}]
  /\ spoolKey \in [Messages -> Deliveries \cup {None}]
  /\ intent \in [Messages -> Modes \cup {"none"}]
  /\ terminal \in [Messages -> Outcomes \cup {"none"}]
  /\ spool \subseteq Deliveries /\ lapsed \subseteq Deliveries
  /\ job \in [Deliveries -> {"none", "queued", "leased", "acked", "dead"}]
  /\ tries \in [Deliveries -> 0..MaxTries]
  /\ policy \in Policies /\ live \in BOOLEAN /\ quarantined \in BOOLEAN
  /\ activations \subseteq Policies
  /\ canary \in Policies \cup {None}
  /\ mode \in Modes
  /\ stage \in [Messages -> Stages]
  /\ changes \in 0..MaxChanges
  /\ hpc \in [Deliveries -> HandlerPc]
  /\ hview \in [Deliveries -> HandlerView]
  /\ inflight \subseteq Claims
  /\ cpc \in [Consumers -> ConsumerPc]
  /\ cview \in [Consumers -> ConsumerView]
  /\ mailed \in [Messages -> Nat]
  /\ called \in [Messages -> SUBSET {CF, RS}]

\* One operator reply leads to at most one e-mail, whatever crashes,
\* redeliveries, duplicate SMTP deliveries and retries happen: Cloudflare is
\* called once per claim, and Resend only while it remembers the key.
MailedAtMostOnce == \A m \in Messages : mailed[m] <= 1

\* A recorded acceptance is true: the provider did take the message.
AcceptedWasMailed ==
  \A m \in Messages :
    "provider_accepted" \in {attempt[m], admission[m], terminal[m]} => mailed[m] = 1

\* A recorded failure is true for the provider that has no idempotency key:
\* nothing was sent and nothing is about to be.
FailedWasNotMailed ==
  \A m \in Messages :
    /\ "failed" \in {attempt[m], admission[m], terminal[m]}
    /\ Adapter[claim[m].policy] = CF
    => mailed[m] = 0 /\ \A c \in Consumers : cpc[c] = "call" => Current(c) # m

\* No attempt is ever carried across providers by redeployment or policy change.
OneProviderPerReply ==
  \A m \in Messages : \A a \in called[m] : a = Adapter[claim[m].policy]

\* The bytes of a claim that was not accepted are never deleted by the code,
\* even when the claim's outcome was unknown to the router that spooled them.
SpoolRetained ==
  \A m \in Messages :
    attempt[m] \notin {"none", "provider_accepted"} => claim[m].by \in spool \cup lapsed

\* A delivery that was not rejected is held by a durable claim of the same
\* bytes, and if it made that claim, by a queue job too.
AcceptedIsDurable ==
  \A h \in Deliveries :
    LET m == MessageOf[h] IN
    hpc[h] \in {"accepted", "resumed"} =>
      /\ attempt[m] # "none" /\ BytesOf[claim[m].by] = BytesOf[h]
      /\ hpc[h] = "accepted" => job[h] # "none"

\* One canary admission authorizes one reply, also when two of them race for it.
CanaryConsumedOnce ==
  LET consumers == {m \in Messages : claim[m].kind = "canary"} IN
  Cardinality(consumers) + (IF canary = None THEN 0 ELSE 1) <= 1

\* The Queue never loses an unsent reply: once a job is acknowledged, its
\* attempt is closed or its claim is no longer waiting to be sent.
UnsentNeverDropped ==
  \A h \in Deliveries :
    LET m == MessageOf[h] IN
    job[h] = "acked" /\ admission[m] = "claimed" => attempt[m] \in Outcomes

\* Terminal states do not reopen or change, in any of the three records.
OutcomesFinal ==
  [][\A m \in Messages :
       /\ attempt[m] \in Outcomes => attempt'[m] = attempt[m]
       /\ admission[m] \in Outcomes => admission'[m] = admission[m]
       /\ terminal[m] \in Outcomes => terminal'[m] = terminal[m]]_vars

\* Every queued job is acknowledged or reaches the dead letter queue, although
\* consumers crash: the number of tries is bounded.
JobsSettle ==
  \A h \in Deliveries : job[h] = "queued" ~> job[h] \in {"acked", "dead"}

\* A recorded acceptance is projected and its spool forgotten, although every
\* statement of the projection may be cut off: redelivery resumes it, unless
\* the tries run out first.
AcceptedIsCleaned ==
  \A m \in Messages :
    terminal[m] = "provider_accepted" ~>
      \/ attempt[m] = "provider_accepted" /\ spoolKey[m] = None
      \/ \E h \in Deliveries : MessageOf[h] = m /\ job[h] = "dead"

\* The one outcome the three records report of a message.
Told(m) ==
  LET reported == {attempt[m], admission[m], terminal[m]} \cap Outcomes IN
  IF reported = {} THEN "nothing"
  ELSE IF Cardinality(reported) > 1 THEN "conflicting" ELSE CHOOSE o \in reported : TRUE

\* How far a reply got, as an operator may know it.
Phase(m) ==
  CASE admission[m] = "none"                             -> "unclaimed"
    [] admission[m] # "none" /\ Told(m) # "nothing"      -> "closed"
    [] admission[m] = "claimed" /\ Told(m) = "nothing"   -> "unsent"
    [] admission[m] = "sending" /\ Told(m) = "nothing"   -> "crossed"

Promise == INSTANCE ReplyPromise WITH
  Replies <- Messages,
  phase   <- [m \in Messages |-> Phase(m)],
  sent    <- [m \in Messages |-> mailed[m] > 0],
  told    <- [m \in Messages |-> Told(m)]

\* With the deployed single consumer and the Cloudflare adapter, the reply path
\* implements the promise: one claim, one crossing, one e-mail, one true outcome.
KeepsPromise == Promise!Spec

\* docs/acceptance-criteria.md AC-9: when a provider attempt may have happened
\* and its job was redelivered and acknowledged, the attempt is reported.
InterruptedSendReported ==
  \A h \in Deliveries :
    LET m == MessageOf[h] IN
    /\ job[h] = "acked" /\ called[m] # {}
    /\ \A d \in Deliveries : MessageOf[d] = m => job[d] \notin {"queued", "leased"}
    => terminal[m] # "none"
=============================================================================
