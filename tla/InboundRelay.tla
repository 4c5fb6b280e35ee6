---------------------------- MODULE InboundRelay ----------------------------
(***************************************************************************)
(* The inbound path of maildesk-cf in inbox_relay mode.  An outside        *)
(* correspondent's message arrives by SMTP; the router worker              *)
(* (acceptInboxRelay) spools its bytes and one payload per operator in R2, *)
(* commits one relay generation to D1, claims each recipient by a          *)
(* conditional UPDATE and calls the e-mail service once per claim.  A      *)
(* redelivery of the same message recovers what is still unsent            *)
(* (recoverExistingInbound), or retires the whole generation when it       *)
(* belongs to a superseded policy and nothing of it was claimed.  Results  *)
(* that could not be recorded travel as queue jobs to the outbound worker  *)
(* (projectInboundDeliveryResult), which checks them against D1 and cleans *)
(* the spool.                                                              *)
(*                                                                         *)
(* One message fingerprint is modelled: Deliveries are the SMTP deliveries *)
(* of that message.  A delivery mints at most one generation (relay token  *)
(* and spool keys), so it also names the generation.                       *)
(***************************************************************************)
EXTENDS Integers, FiniteSets

CONSTANTS
  Deliveries,   \* SMTP deliveries of the message; also the generations they mint
  Operators,    \* operators that may be recipients
  Consumers,    \* concurrent invocations of the outbound queue consumer
  Policies,     \* policy revisions that may be active
  OperatorsOf,  \* the recipients a policy revision gives the route
  MaxTries,     \* queue deliveries of one job before the dead letter queue
  MaxChanges,   \* bound on the environment's changes of policy and storage
  None          \* NULL

ASSUME InboundConstants ==
  /\ OperatorsOf \in [Policies -> (SUBSET Operators) \ {{}}]
  /\ MaxTries \in Nat \ {0}
  /\ MaxChanges \in Nat
  /\ None \notin Deliveries \cup Policies \cup Operators

VARIABLES
  \* D1: the one reply_relays and inbound_deliveries row of the fingerprint
  gen,          \* the generation whose token and keys the row holds, or None
  rowPolicy,    \* inbound_deliveries.policy_sha256
  status,       \* inbound_deliveries.status
  keyed,        \* raw_r2_key is not NULL: the row still owns a spool to clean
  recipient,    \* inbound_recipient_deliveries.status
  inflight,     \* batches whose outcome the router did not learn
  receipt,      \* the job the cleanup receipt in audit_events is about
  \* R2 relay spool
  raw,          \* generations whose raw message is spooled
  payloads,     \* <<generation, operator>> payloads that are spooled
  lapsed,       \* payloads the bucket's retention rule has deleted
  \* the queue
  job,          \* state of the result job a delivery enqueued
  tries,        \* message.attempts of that job
  report,       \* the body of that job
  \* authority
  policy,       \* runtime_state.active_policy_sha256
  changes,      \* environment changes so far
  \* router invocations, consumer invocations
  hpc, hview,
  cpc, cview,
  \* history, for the properties only
  mailed,       \* e-mails sent to an operator with a generation's reply token
  beaten        \* deliveries that read back another row than their own

row      == <<gen, rowPolicy, status, keyed, recipient>>
bucket   == <<raw, payloads, lapsed>>
queue    == <<job, tries, report>>
gates    == <<policy, changes>>
router   == <<hpc, hview, inflight>>
consumer == <<cpc, cview>>
vars     == <<row, receipt, bucket, queue, gates, router, consumer, mailed, beaten>>

----------------------------------------------------------------------------
RecipientStatus == {"none", "pending", "sending", "provider_accepted", "recovery_required"}
Final           == {"provider_accepted", "recovery_required"}
Aggregates      == {"provider_accepted", "partial_delivery", "recovery_required"}

\* One entry of a result list: accepted; failed with the error the recipient row
\* records; an open row reported with an unknown outcome; never claimed.
Entries == {"none", "ok", "failed", "open", "unclaimed"}
Results == [Operators -> Entries]
NoResults == [o \in Operators |-> "none"]

NoReport == [gen |-> None, policy |-> None, results |-> NoResults]
Reports  == [gen : Deliveries, policy : Policies, results : Results] \cup {NoReport}

\* Locals of a router invocation: the policy its route was selected under; the
\* inbound row it works on (generation, policy, whether raw_r2_key was set); the
\* generation whose payload keys it read; recipients still to visit; the one it
\* has claimed and the provider's answer; the results so far; and whether it
\* recovers an existing row.
HandlerView ==
  [policy : Policies \cup {None},
   from : Deliveries \cup {None}, fromPolicy : Policies \cup {None}, fromKeyed : BOOLEAN,
   keys : Deliveries \cup {None}, todo : SUBSET Operators,
   at : Operators \cup {None}, answer : {"none", "ok", "failed"},
   results : Results, recovers : BOOLEAN]
NoHandling ==
  [policy |-> None, from |-> None, fromPolicy |-> None, fromKeyed |-> FALSE,
   keys |-> None, todo |-> {}, at |-> None, answer |-> "none",
   results |-> NoResults, recovers |-> FALSE]

ConsumerView == [job : Deliveries \cup {None}, accepted : SUBSET Operators]
NoView       == [job |-> None, accepted |-> {}]

HandlerActive  == {"start", "lookup", "retire", "discard", "sweep", "spool", "persist",
                   "readback", "recheck", "snapshot", "claim", "call", "project",
                   "record", "clean", "refresh", "settle", "enqueue"}
\* accepted: the SMTP transaction succeeds; refused: setReject; dropped: an
\* uncaught exception or an evicted worker, a temporary failure for the sender.
HandlerPc      == HandlerActive \cup {"accepted", "refused", "dropped"}
ConsumerActive == {"match", "persist", "payloads", "raw", "receipt", "clear", "done"}
ConsumerPc     == ConsumerActive \cup {"idle"}

\* Recipients of the row, and of a result list.
Recipients     == {o \in Operators : recipient[o] # "none"}
Reported(r)    == {o \in Operators : r[o] # "none"}
AcceptedIn(r)  == {o \in Operators : r[o] = "ok"}

\* Mutant: any acceptance makes the whole delivery accepted.
Aggregate_AnyAccepted(r) ==
  IF AcceptedIn(r) # {} THEN "provider_accepted" ELSE "recovery_required"

\* The aggregate status of a result list.
Aggregate(r) ==
  IF AcceptedIn(r) = {} THEN "recovery_required"
  ELSE IF AcceptedIn(r) = Reported(r) THEN "provider_accepted" ELSE "partial_delivery"

Init ==
  /\ gen = None /\ rowPolicy = None /\ status = "none" /\ keyed = FALSE
  /\ recipient = [o \in Operators |-> "none"]
  /\ inflight = {} /\ receipt = NoReport
  /\ raw = {} /\ payloads = {} /\ lapsed = {}
  /\ job    = [h \in Deliveries |-> "none"]
  /\ tries  = [h \in Deliveries |-> 0]
  /\ report = [h \in Deliveries |-> NoReport]
  /\ policy \in Policies /\ changes = 0
  /\ hpc   = [h \in Deliveries |-> "start"]
  /\ hview = [h \in Deliveries |-> NoHandling]
  /\ cpc   = [c \in Consumers |-> "idle"]
  /\ cview = [c \in Consumers |-> NoView]
  /\ mailed = [g \in Deliveries |-> [o \in Operators |-> 0]] /\ beaten = {}

----------------------------------------------------------------------------
(* The router: one SMTP delivery h of the message.                         *)

Goto(h, label) == hpc' = [hpc EXCEPT ![h] = label] /\ UNCHANGED hview

GotoWith(h, label, view) ==
  /\ hpc'   = [hpc EXCEPT ![h] = label]
  /\ hview' = [hview EXCEPT ![h] = view]

End(h, label) == GotoWith(h, label, NoHandling)

\* The row as loadInboundDelivery returns it.
WithRow(view) ==
  [view EXCEPT !.from = gen, !.fromPolicy = rowPolicy, !.fromKeyed = keyed]

\* routeMessage: the route, and so the recipients, are those of the policy
\* active now.  Refusals before it leave nothing behind.
Route(h) ==
  /\ hpc[h] = "start"
  /\ \/ GotoWith(h, "lookup", [NoHandling EXCEPT !.policy = policy])
     \/ End(h, "refused")
  /\ UNCHANGED <<row, receipt, bucket, queue, gates, inflight, consumer, mailed, beaten>>

\* The fingerprint decides between a new message and a redelivery.
Lookup(h) ==
  /\ hpc[h] = "lookup"
  /\ \/ gen = None /\ Goto(h, "spool")
     \/ gen # None /\ GotoWith(h, "retire", WithRow(hview[h]))
     \/ End(h, "refused")                                  \* the read failed
  /\ UNCHANGED <<row, receipt, bucket, queue, gates, inflight, consumer, mailed, beaten>>

\* discardSupersededUnsentInbound up to its DELETE: under the row's own policy,
\* without rows, or when a read fails, the row is recovered instead.
Retire(h) ==
  /\ hpc[h] = "retire"
  /\ \/ /\ policy # hview[h].fromPolicy /\ Recipients # {}
        /\ GotoWith(h, "discard", [hview[h] EXCEPT !.keys = gen])
     \/ Goto(h, "snapshot")
  /\ UNCHANGED <<row, receipt, bucket, queue, gates, inflight, consumer, mailed, beaten>>

\* Mutant: only accepted recipients protect the row.
DiscardAllowed_NotAccepted(p) ==
  /\ gen # None /\ rowPolicy = p /\ policy # p
  /\ \A o \in Operators : recipient[o] # "provider_accepted"

\* DISCARD_SUPERSEDED_UNSENT_RELAY_SQL: the row still has the policy it was read
\* with, which is no longer active, and no recipient was ever claimed.
DiscardAllowed(p) ==
  /\ gen # None /\ rowPolicy = p /\ policy # p
  /\ \A o \in Recipients : recipient[o] = "pending"

\* Deleting the relay cascades through the delivery and its recipients.
DeleteRow ==
  /\ gen' = None /\ rowPolicy' = None /\ status' = "none" /\ keyed' = FALSE
  /\ recipient' = [o \in Operators |-> "none"]

\* A DELETE that raises counts as not done, although it may have committed.
Discard(h) ==
  /\ hpc[h] = "discard"
  /\ \/ DiscardAllowed(hview[h].fromPolicy) /\ DeleteRow /\ Goto(h, "sweep")
     \/ DiscardAllowed(hview[h].fromPolicy) /\ DeleteRow /\ Goto(h, "snapshot")
     \/ UNCHANGED row /\ Goto(h, "snapshot")
  /\ UNCHANGED <<receipt, bucket, queue, gates, inflight, consumer, mailed, beaten>>

PayloadsOf(g, ops) == {g} \X ops

\* Spool objects disappear, each deletion failing silently.
Delete(objects, generations) ==
  /\ \E gone \in SUBSET (objects \cap payloads) : payloads' = payloads \ gone
  /\ \E gone \in SUBSET (generations \cap raw) : raw' = raw \ gone
  /\ UNCHANGED lapsed

\* The retired generation's spool is removed.  A redelivery goes on as a new
\* message; the delivery whose own generation was retired is refused.
Sweep(h) ==
  /\ hpc[h] = "sweep"
  /\ Delete(PayloadsOf(hview[h].keys, Operators), {hview[h].from})
  /\ IF hview[h].from = h THEN End(h, "refused")
     ELSE GotoWith(h, "spool", [NoHandling EXCEPT !.policy = hview[h].policy])
  /\ UNCHANGED <<row, receipt, queue, gates, inflight, consumer, mailed, beaten>>

\* The raw message, then one payload per operator, under fresh keys, before
\* anything is committed.  A failing put removes what was written, if it can.
SpoolMessage(h) ==
  LET mine == PayloadsOf(h, OperatorsOf[hview[h].policy]) IN
  /\ hpc[h] = "spool"
  /\ \/ /\ raw' = raw \cup {h} /\ payloads' = payloads \cup mine
        /\ Goto(h, "persist")
     \/ /\ raw' \in {raw, raw \cup {h}}
        /\ \E left \in SUBSET mine : payloads' = payloads \cup left
        /\ End(h, "refused")
  /\ UNCHANGED <<row, receipt, lapsed, queue, gates, inflight, consumer, mailed, beaten>>

\* The batch of persistInboxRelay: the relay's and the delivery's keys are free
\* and the route's policy is still active.
InsertAllowed(p) == gen = None /\ policy = p

\* The committed batch: relay, delivery and one pending recipient per operator.
InsertRow(g, p) ==
  /\ InsertAllowed(p)
  /\ gen' = g /\ rowPolicy' = p /\ status' = "pending" /\ keyed' = TRUE
  /\ recipient' = [o \in Operators |-> IF o \in OperatorsOf[p] THEN "pending" ELSE "none"]

\* The batch commits and returns; commits, but its answer or the audit after it
\* raises; changes nothing; or raises with its outcome open.
Persist(h) ==
  LET p == hview[h].policy IN
  /\ hpc[h] = "persist"
  /\ \/ /\ InsertRow(h, p) /\ UNCHANGED inflight
        /\ GotoWith(h, "recheck",
             [hview[h] EXCEPT !.from = h, !.fromPolicy = p, !.fromKeyed = TRUE])
     \/ InsertRow(h, p) /\ UNCHANGED inflight /\ Goto(h, "readback")
     \/ /\ inflight' \in {inflight, inflight \cup {[by |-> h, policy |-> p]}}
        /\ UNCHANGED row /\ Goto(h, "readback")
  /\ UNCHANGED <<receipt, bucket, queue, gates, consumer, mailed, beaten>>

\* A batch that raised takes effect after all.
LateCommit ==
  /\ \E b \in inflight : InsertRow(b.by, b.policy) /\ inflight' = inflight \ {b}
  /\ UNCHANGED <<receipt, bucket, queue, gates, hpc, hview, consumer, mailed, beaten>>

\* Mutant: whoever reaches the readback has lost.
SpoolLost_Always(h) == TRUE

\* A different durable generation won: only then is the own spool dispensable.
SpoolLost(h) == gen # h \/ ~keyed

\* Without a readable row the delivery is refused and its spool kept.
Readback(h) ==
  /\ hpc[h] = "readback"
  /\ \/ End(h, "refused") /\ UNCHANGED <<bucket, beaten>>
     \/ /\ gen # None
        /\ GotoWith(h, "snapshot", WithRow(hview[h]))
        /\ IF SpoolLost(h)
           THEN Delete(PayloadsOf(h, OperatorsOf[hview[h].policy]), {h})
           ELSE UNCHANGED bucket
        /\ beaten' = beaten \cup ({h} \ {gen})
  /\ UNCHANGED <<row, receipt, queue, gates, inflight, consumer, mailed>>

\* The policy is loaded again before the first recipient is claimed.  An
\* unreadable policy recovers the row just committed.
Recheck(h) ==
  /\ hpc[h] = "recheck"
  /\ \/ /\ policy = hview[h].policy
        /\ GotoWith(h, "claim", [hview[h] EXCEPT !.todo = OperatorsOf[hview[h].policy]])
     \/ policy # hview[h].policy /\ Goto(h, "retire")
     \/ Goto(h, "snapshot")
  /\ UNCHANGED <<row, receipt, bucket, queue, gates, inflight, consumer, mailed, beaten>>

\* recoverExistingInbound reads the recipients: payloads of accepted ones are
\* removed, pending ones visited if the payload keys are of the row it loaded.
Snapshot(h) ==
  LET pending == {o \in Operators : recipient[o] = "pending"}
      visits  == IF hview[h].fromKeyed /\ gen = hview[h].from THEN pending ELSE {}
      settled == {o \in Operators : recipient[o] = "provider_accepted"} IN
  /\ hpc[h] = "snapshot"
  /\ IF hview[h].fromKeyed THEN Delete(PayloadsOf(gen, settled), {}) ELSE UNCHANGED bucket
  /\ GotoWith(h, IF visits = {} THEN "refresh" ELSE "claim",
       [hview[h] EXCEPT !.todo = visits, !.keys = None, !.recovers = TRUE])
  /\ UNCHANGED <<row, receipt, queue, gates, inflight, consumer, mailed, beaten>>

\* Mutant: a recipient left in sending is claimed again.
ClaimAllowed_Sending(h, o) ==
  /\ recipient[o] \in {"pending", "sending"}
  /\ gen = hview[h].from /\ keyed
  /\ rowPolicy = hview[h].fromPolicy /\ policy = rowPolicy

\* CLAIM_ACTIVE_INBOUND_RECIPIENT_SQL: pending, in the generation and policy
\* this invocation works on, and that policy is still the active one.
ClaimAllowed(h, o) ==
  /\ recipient[o] = "pending"
  /\ gen = hview[h].from /\ keyed
  /\ rowPolicy = hview[h].fromPolicy /\ policy = rowPolicy

\* Where the loop over the recipients goes on.
LoopLabel(view) ==
  IF view.todo # {} THEN "claim" ELSE IF view.recovers THEN "refresh" ELSE "record"

\* A recovery sends the payload that was spooled with the row.
Loadable(h, o) == hview[h].recovers => <<hview[h].from, o>> \in payloads

\* The claim's UPDATE changes the recipient's row.
Claim(h, o) ==
  /\ Loadable(h, o) /\ ClaimAllowed(h, o)
  /\ recipient' = [recipient EXCEPT ![o] = "sending"]

\* The recipient is passed over, its result in a first run a failed claim.
PassOver(h, o) ==
  LET view == [hview[h] EXCEPT !.todo = @ \ {o},
                 !.results[o] = IF hview[h].recovers THEN @ ELSE "unclaimed"] IN
  GotoWith(h, LoopLabel(view), view)

\* The claim of one recipient.  A claim that raises counts as not made, although
\* it may have committed; so does a payload that cannot be loaded.
ClaimRecipient(h) ==
  /\ hpc[h] = "claim"
  /\ \E o \in hview[h].todo :
       \/ /\ Claim(h, o)
          /\ GotoWith(h, "call", [hview[h] EXCEPT !.todo = @ \ {o}, !.at = o])
       \/ Claim(h, o) /\ PassOver(h, o)
       \/ UNCHANGED recipient /\ PassOver(h, o)
  /\ UNCHANGED <<gen, rowPolicy, status, keyed, receipt, bucket, queue, gates, inflight,
                 consumer, mailed, beaten>>

\* EMAIL.send: an exception leaves open whether the message was taken.
CallProvider(h) ==
  /\ hpc[h] = "call"
  /\ \E answer \in {"ok", "failed"}, sent \in BOOLEAN :
       /\ answer = "ok" => sent
       /\ mailed' = IF sent THEN [mailed EXCEPT ![hview[h].from][hview[h].at] = @ + 1]
                    ELSE mailed
       /\ GotoWith(h, "project", [hview[h] EXCEPT !.answer = answer])
  /\ UNCHANGED <<row, receipt, bucket, queue, gates, inflight, consumer, beaten>>

\* Mutant: a failed send makes the recipient pending again.
Projection_Reopens(answer, recovers) ==
  IF answer = "ok" THEN {"provider_accepted", "sending"} ELSE {"pending", "sending"}

\* What projectInboundRecipientResult may leave in a sending row.  When it raises
\* during a recovery, the handler projects an unknown outcome over it.
Projection(answer, recovers) ==
  (IF answer = "ok" THEN {"provider_accepted"} ELSE {"recovery_required"})
    \cup {"sending"}
    \cup (IF recovers THEN {"recovery_required"} ELSE {})

\* The result is projected, and the payload of an accepted recipient removed.
Project(h) ==
  LET o    == hview[h].at
      view == [hview[h] EXCEPT !.at = None, !.answer = "none",
                 !.results[o] = IF hview[h].recovers THEN @ ELSE hview[h].answer] IN
  /\ hpc[h] = "project"
  /\ \E after \in Projection(hview[h].answer, hview[h].recovers) :
       /\ recipient' = IF recipient[o] = "sending"
                       THEN [recipient EXCEPT ![o] = after] ELSE recipient
       /\ IF recipient'[o] = "provider_accepted"
          THEN Delete(PayloadsOf(hview[h].from, {o}), {}) ELSE UNCHANGED bucket
  /\ GotoWith(h, LoopLabel(view), view)
  /\ UNCHANGED <<gen, rowPolicy, status, keyed, receipt, queue, gates, inflight,
                 consumer, mailed, beaten>>

\* UPDATE inbound_deliveries by id and policy.
SetStatus(p, s) ==
  status' = IF gen # None /\ rowPolicy = p THEN s ELSE status

\* recordDeliveryResults: the aggregate, then route health, which must be of the
\* active policy, and the audits.  Any failure hands the results to the Queue.
RecordResults(h) ==
  LET total == Aggregate(hview[h].results)
      p     == hview[h].policy IN
  /\ hpc[h] = "record"
  /\ \/ /\ gen # None /\ rowPolicy = p /\ policy = p
        /\ SetStatus(p, total)
        /\ IF total = "provider_accepted" THEN Goto(h, "clean") ELSE End(h, "accepted")
     \/ /\ SetStatus(p, total) \/ UNCHANGED status
        /\ Goto(h, "enqueue")
  /\ UNCHANGED <<gen, rowPolicy, keyed, recipient, receipt, bucket, queue, gates, inflight,
                 consumer, mailed, beaten>>

\* All operators accepted: the raw spool is removed and its pointer cleared.
\* Failures are ignored.
CleanDelivery(h) ==
  /\ hpc[h] = "clean"
  /\ Delete({}, {h})
  /\ keyed' \in IF rowPolicy = hview[h].policy /\ h \notin raw'
                THEN {FALSE, keyed} ELSE {keyed}
  /\ End(h, "accepted")
  /\ UNCHANGED <<gen, rowPolicy, status, recipient, receipt, queue, gates, inflight,
                 consumer, mailed, beaten>>

\* A recipient row as a result entry: only an accepted row is a success.
Entry(s) ==
  CASE s = "none"              -> "none"
    [] s = "provider_accepted" -> "ok"
    [] s = "recovery_required" -> "failed"
    [] s \in {"pending", "sending"} -> "open"

\* The recovery reads the recipients again.
Refresh(h) ==
  /\ hpc[h] = "refresh"
  /\ GotoWith(h, "settle",
       [hview[h] EXCEPT !.results = [o \in Operators |-> Entry(recipient[o])]])
  /\ UNCHANGED <<row, receipt, bucket, queue, gates, inflight, consumer, mailed, beaten>>

\* The aggregate is written by id alone; a failing batch is ignored.  Without a
\* spool pointer or recipients there is nothing to report.
Settle(h) ==
  /\ hpc[h] = "settle"
  /\ status' \in IF gen # None THEN {status, Aggregate(hview[h].results)} ELSE {status}
  /\ IF hview[h].fromKeyed /\ Reported(hview[h].results) # {}
     THEN Goto(h, "enqueue") ELSE End(h, "accepted")
  /\ UNCHANGED <<gen, rowPolicy, keyed, recipient, receipt, bucket, queue, gates, inflight,
                 consumer, mailed, beaten>>

\* MAIL_JOBS.send of the results; a rejected call may still have been accepted.
Enqueue(h) ==
  LET body == [gen |-> hview[h].from, policy |-> hview[h].fromPolicy,
               results |-> hview[h].results] IN
  /\ hpc[h] = "enqueue"
  /\ \/ job' = [job EXCEPT ![h] = "queued"] /\ report' = [report EXCEPT ![h] = body]
     \/ UNCHANGED <<job, report>>
  /\ End(h, "accepted")
  /\ UNCHANGED <<row, receipt, bucket, tries, gates, inflight, consumer, mailed, beaten>>

\* An uncaught exception or an evicted worker.
RouterCrash(h) ==
  /\ hpc[h] \in HandlerActive
  /\ End(h, "dropped")
  /\ UNCHANGED <<row, receipt, bucket, queue, gates, inflight, consumer, mailed, beaten>>

Router(h) ==
  \/ Route(h) \/ Lookup(h) \/ Retire(h) \/ Discard(h) \/ Sweep(h)
  \/ SpoolMessage(h) \/ Persist(h) \/ Readback(h) \/ Recheck(h)
  \/ Snapshot(h) \/ ClaimRecipient(h) \/ CallProvider(h) \/ Project(h)
  \/ RecordResults(h) \/ CleanDelivery(h) \/ Refresh(h) \/ Settle(h) \/ Enqueue(h)
  \/ RouterCrash(h)

----------------------------------------------------------------------------
(* The outbound consumer: one delivery of a result job.                    *)

Body(c) == report[cview[c].job]

Step(c, label) == cpc' = [cpc EXCEPT ![c] = label]

Take(c) ==
  /\ cpc[c] = "idle"
  /\ \E h \in Deliveries :
       /\ job[h] = "queued"
       /\ job'   = [job EXCEPT ![h] = "leased"]
       /\ tries' = [tries EXCEPT ![h] = @ + 1]
       /\ cview' = [cview EXCEPT ![c] = [NoView EXCEPT !.job = h]]
  /\ Step(c, "match")
  /\ UNCHANGED <<row, receipt, bucket, report, gates, router, mailed, beaten>>

EndInvocation(c, state) ==
  /\ job'   = [job EXCEPT ![cview[c].job] = state]
  /\ cpc'   = [cpc EXCEPT ![c] = "idle"]
  /\ cview' = [cview EXCEPT ![c] = NoView]
  /\ UNCHANGED <<tries, report>>

\* The Queue delivers the message again.
TriesLeft(h) == tries[h] < MaxTries

\* A thrown error: message.retry(), or the dead letter queue after the last try.
Redeliver(c) == EndInvocation(c, IF TriesLeft(cview[c].job) THEN "queued" ELSE "dead")

\* CLAIMED_INBOUND_RESULT_SQL: the row is of the job's generation and policy and
\* still owns its spool, and every recipient is in the state the job reports.
\* An open entry fits a failure only if that was recorded as unknown, too.
Matches(j) ==
  /\ gen = j.gen /\ keyed /\ rowPolicy = j.policy
  /\ Recipients = Reported(j.results)
  /\ \A o \in Recipients :
       \/ j.results[o] = "ok" /\ recipient[o] = "provider_accepted"
       \/ j.results[o] \in {"failed", "open"} /\ recipient[o] = "recovery_required"

\* Mutant: only a receipt about another result is held against the job.
CleanupComplete_NoConflict(j) == receipt \in {NoReport, j}

\* inboundCleanupAlreadyComplete: the receipt is about exactly this job.
CleanupComplete(j) == receipt = j

\* A job that no longer matches is acknowledged if it was already cleaned up.
Match(c) ==
  LET j == Body(c)
      accepted == {o \in Operators : recipient[o] = "provider_accepted"} IN
  /\ cpc[c] = "match"
  /\ \/ /\ Matches(j)
        /\ cview' = [cview EXCEPT ![c].accepted = accepted]
        /\ Step(c, "persist") /\ UNCHANGED queue
     \/ /\ ~Matches(j) \/ \E o \in Operators : j.results[o] = "open"
        /\ IF CleanupComplete(j) THEN EndInvocation(c, "acked") ELSE Redeliver(c)
  /\ UNCHANGED <<row, receipt, bucket, gates, router, mailed, beaten>>

\* persistInboundDeliveryProjection, after route health and audits.
PersistProjection(c) ==
  LET j == Body(c) IN
  /\ cpc[c] = "persist"
  /\ SetStatus(j.policy, Aggregate(j.results))
  /\ IF gen # None /\ rowPolicy = j.policy
     THEN Step(c, "payloads") /\ UNCHANGED <<queue, cview>>
     ELSE Redeliver(c)
  /\ UNCHANGED <<gen, rowPolicy, keyed, recipient, receipt, bucket, gates, router, mailed, beaten>>

\* deleteAcceptedInboundPayloads: keys of the recipients accepted at the match.
DeletePayloads(c) ==
  /\ cpc[c] = "payloads"
  /\ payloads' = payloads \ PayloadsOf(Body(c).gen, cview[c].accepted)
  /\ Step(c, IF Aggregate(Body(c).results) = "provider_accepted" THEN "raw" ELSE "done")
  /\ UNCHANGED <<row, receipt, raw, lapsed, queue, gates, router, cview, mailed, beaten>>

DeleteRaw(c) ==
  /\ cpc[c] = "raw"
  /\ raw' = raw \ {Body(c).gen}
  /\ Step(c, "receipt")
  /\ UNCHANGED <<row, receipt, payloads, lapsed, queue, gates, router, cview, mailed, beaten>>

\* recordInboundCleanupComplete: INSERT OR IGNORE; a receipt about another
\* result is a conflict.
RecordReceipt(c) ==
  /\ cpc[c] = "receipt"
  /\ receipt' = IF receipt = NoReport THEN Body(c) ELSE receipt
  /\ IF receipt' = Body(c)
     THEN Step(c, "clear") /\ UNCHANGED <<queue, cview>>
     ELSE Redeliver(c)
  /\ UNCHANGED <<row, bucket, gates, router, mailed, beaten>>

\* clearInboundCleanupAuthority: only the accepted row of this generation, and
\* only once.
ClearAuthority(c) ==
  LET j  == Body(c)
      ok == gen = j.gen /\ rowPolicy = j.policy /\ status = "provider_accepted" /\ keyed IN
  /\ cpc[c] = "clear"
  /\ keyed' = IF ok THEN FALSE ELSE keyed
  /\ IF ok THEN Step(c, "done") /\ UNCHANGED <<queue, cview>> ELSE Redeliver(c)
  /\ UNCHANGED <<gen, rowPolicy, status, recipient, receipt, bucket, gates, router, mailed, beaten>>

Finish(c) ==
  /\ cpc[c] = "done"
  /\ EndInvocation(c, "acked")
  /\ UNCHANGED <<row, receipt, bucket, gates, router, mailed, beaten>>

\* A failing statement, an eviction or a lost acknowledgement at any point.
ConsumerCrash(c) ==
  /\ cpc[c] \in ConsumerActive
  /\ Redeliver(c)
  /\ UNCHANGED <<row, receipt, bucket, gates, router, mailed, beaten>>

Work(c) ==
  \/ Match(c) \/ PersistProjection(c) \/ DeletePayloads(c) \/ DeleteRaw(c)
  \/ RecordReceipt(c) \/ ClearAuthority(c) \/ Finish(c)

Consumer(c) == Take(c) \/ Work(c) \/ ConsumerCrash(c)

----------------------------------------------------------------------------
(* The environment.                                                        *)

Change ==
  /\ changes < MaxChanges /\ changes' = changes + 1
  /\ UNCHANGED <<row, receipt, raw, queue, router, consumer, mailed, beaten>>

ActivatePolicy ==
  /\ Change
  /\ policy' \in Policies \ {policy}
  /\ UNCHANGED <<payloads, lapsed>>

\* The bucket's retention rule deletes a payload.  Nothing reads the raw message.
LapsePayload ==
  /\ Change
  /\ \E x \in payloads : payloads' = payloads \ {x} /\ lapsed' = lapsed \cup {x}
  /\ UNCHANGED policy

Next ==
  \/ \E h \in Deliveries : Router(h)
  \/ LateCommit
  \/ \E c \in Consumers : Consumer(c)
  \/ ActivatePolicy \/ LapsePayload

Spec == Init /\ [][Next]_vars

\* The Queue keeps delivering, and an invocation that is not evicted goes on.
FairSpec == Spec /\ \A c \in Consumers : WF_vars(Take(c)) /\ WF_vars(Work(c))

----------------------------------------------------------------------------
(* Properties.                                                             *)

TypeOK ==
  /\ gen \in Deliveries \cup {None} /\ rowPolicy \in Policies \cup {None}
  /\ status \in Aggregates \cup {"none", "pending"} /\ keyed \in BOOLEAN
  /\ recipient \in [Operators -> RecipientStatus]
  /\ inflight \subseteq [by : Deliveries, policy : Policies]
  /\ receipt \in Reports
  /\ raw \subseteq Deliveries
  /\ payloads \subseteq Deliveries \X Operators
  /\ lapsed \subseteq Deliveries \X Operators
  /\ job \in [Deliveries -> {"none", "queued", "leased", "acked", "dead"}]
  /\ tries \in [Deliveries -> 0..MaxTries]
  /\ report \in [Deliveries -> Reports]
  /\ policy \in Policies /\ changes \in 0..MaxChanges
  /\ hpc \in [Deliveries -> HandlerPc]
  /\ hview \in [Deliveries -> HandlerView]
  /\ cpc \in [Consumers -> ConsumerPc]
  /\ cview \in [Consumers -> ConsumerView]
  /\ mailed \in [Deliveries -> [Operators -> Nat]]
  /\ beaten \subseteq Deliveries

\* Every operator gets the message at most once, whatever redeliveries of it
\* arrive at the same time, crash half way or retire each other's generation.
RelayedAtMostOnce ==
  \A o \in Operators : \A g, k \in Deliveries :
    /\ mailed[g][o] <= 1
    /\ mailed[g][o] > 0 /\ mailed[k][o] > 0 => g = k

\* An operator who got the message can answer it: the relay row that resolves
\* the reply token in the e-mail was never retired.
RepliesResolve ==
  \A g \in Deliveries, o \in Operators : mailed[g][o] > 0 => gen = g

\* A recipient that is still pending can still be sent, whatever redelivery,
\* crash, lost race or policy change came before: the row owns its spool, and the
\* payload is there until the retention rule takes it.  The one exception is a row
\* whose batch committed after its own delivery had read back another row and
\* thrown its spool away.
PayloadRetained ==
  \A o \in Operators :
    recipient[o] = "pending" =>
      /\ keyed
      /\ gen \notin beaten => <<gen, o>> \in payloads \cup lapsed

\* What the row calls accepted was sent: each accepted recipient, and every
\* recipient of an accepted delivery.
AcceptedWasRelayed ==
  \A o \in Recipients :
    recipient[o] = "provider_accepted" \/ status = "provider_accepted" => mailed[gen][o] = 1

\* An acknowledged result in which every operator accepted has been cleaned up:
\* raw message gone, pointer cleared.
AcknowledgedIsClean ==
  \A h \in Deliveries :
    job[h] = "acked" /\ Aggregate(report[h].results) = "provider_accepted" =>
      report[h].gen \notin raw /\ (gen = report[h].gen => ~keyed)

\* Recipients only move forward: a claimed one is never pending again, a final
\* one never changes, and only all-pending rows disappear.
RecipientsMoveForward ==
  [][\A o \in Operators :
       /\ recipient[o] \in Final => recipient'[o] = recipient[o]
       /\ recipient[o] = "sending" => recipient'[o] \in Final \cup {"sending"}]_vars

Promise == INSTANCE InboundPromise WITH relay <- gen

\* Whatever invocations, batches, jobs and policy changes come together, the path
\* implements the promise: one generation once somebody is claimed, one claim, one
\* e-mail and one outcome per operator, and a status that mail bears out.
KeepsInboundPromise == Promise!Spec

\* A complete result that reached the Queue ends in a cleaned spool, although
\* consumers crash between any two statements, unless its tries run out.
CompleteResultIsCleaned ==
  \A h \in Deliveries :
    job[h] = "queued" /\ Aggregate(report[h].results) = "provider_accepted" ~>
      job[h] = "dead" \/ (report[h].gen \notin raw /\ ~keyed)

\* docs/architecture/inbox-reply-relay.md: an accepted spool's cleanup pointer
\* remains durable until deletion and its cleanup receipt complete.
ReceiptBeforeRelease == gen # None /\ ~keyed => receipt # NoReport
=============================================================================
