# maildesk-cf in TLA+

Specifications, model checks and proofs of maildesk-cf: its mail paths, its
policy core and store, its canary, and the tools that collect evidence of a
deployment and retire build caches. The source tree is the reference: every
definition below is translated from a function, a SQL statement or a trigger, and
`PROJECT.json` names its lines.

## 1. The system

maildesk-cf relays mail for role addresses to operators and the operators'
answers back to the outside, on Cloudflare Workers: a router worker with an
e-mail entry point, an outbound worker that consumes a queue, a D1 database, R2
buckets for policy and message bytes, and an e-mail provider (Cloudflare Email
Service, or Resend in older integrations).

| Component | State it keeps | Operations | Model |
|---|---|---|---|
| Operator reply, router side (`mail-router/src/operator-reply.ts`, `shared/reply-recovery.ts`, `reply-repository.ts`, `ordinary-reply.ts`) | `relay_attempts`, `reply_admissions`, `ordinary_reply_admissions`, relay spool, queue | authenticate, look up the identity, admit, spool, claim, read back, dispatch, journal | `ReplyRelay` |
| Operator reply, outbound consumer (`shared/outbound/*`) | the same rows, `audit_events` as intent and terminal ledger | check, authorize, record intent, cross the boundary, call the provider, record, project, clean up | `ReplyRelay` |
| D1 schema (`migrations/`) | triggers that claim, freeze and terminate rows | claim canary, dispatch ordinary, no reopen, containment | part of the actions of `ReplyRelay` |
| Router policy core (`crates/maildesk-router`) | none (pure) | route an address, bind operators' identities, authorize a reply, validate and project a policy | `RouterPolicy` |
| Policy store and inventory (`scripts/sync-route-policy.ts`, `compile-policy-change.ts`, `shared/policy*.ts`) | `runtime_state`, `policy_projection_state`, `alias_routes`, identities, `route_health`; policy objects in R2 | upload, bootstrap, apply a reviewed change, load the active policy with agreeing digests | `PolicyStore`; environment of both relays |
| Canary and heartbeat (`workers/mail-canary`, `workers/mail-heartbeat`) | `route_proof_ledger`, `mail_canary_state`, probe rotation, audit | read every route, record coverage, send a report that is news, ping | `MailCanary` |
| Containment | quarantine events, relay revocation and supersession | quarantine, release, revoke | environment of `ReplyRelay`; ledger planned |
| Inbound acceptance (`mail-router/src/inbound*.ts`) | `reply_relays`, `inbound_deliveries`, `inbound_recipient_deliveries`, raw message and per-operator payloads in R2 | persist, re-check policy, claim and send per recipient, recover, retire | `InboundRelay` |
| Inbound results (`outbound/inbound-results.ts`) | the same rows, `route_health` | project a result job, clear spools | `InboundRelay` |
| Route status projection (`status-store.ts`, `route-status.ts`, `route-status-reader.ts`, migrations 0015 and 0017) | `alias_routes.status_generation`, `route_status_projection` | invalidate, compute, write if the generation still holds | `RouteStatus` |
| MCP read adapter (`mail-mcp/src/read-model.ts`) | none | answer from the stored status between two fences | `RouteStatus` |
| Build cache lifecycle (`scripts/build-and-retire.py`, `build_settlement.py`, `build_cache_retirement.py`, `build-workflow.py`) | a build's processes, reservation and settlement record; the target directory, plan, journal and receipt | watch a build until it is over; plan and apply the removal of compiler payload | `BuildSettlement`, `BuildRetirement` |
| Live evidence (`scripts/collect-live-evidence.ts`, `live-evidence-coverage.ts`, `worker-*.ts`, `verify-maildesk.ts`) | the evidence file with its coverage | read the provider call by call, qualify the workers' modules, judge each domain | `LiveEvidence` |
| Fleet readiness (`scripts/compile-fleet-readiness.ts`) | the assembled input and the report | validate the input, judge each plane of each route, join them into one verdict and its first blocker | `FleetReadiness` |
| Other deployment tooling (dark plan, provisioning, preflight, closeout) | documents | compile or compare documents | not modelled (section 8) |
| DKIM, MIME rewriting, tokens, codec, work destinations, legacy reply API, web desk | none that the mail paths depend on | parsing, hashing, rendering | not modelled (section 8) |

How they interact: the router and the consumer share D1 and R2 and hand work
over through a Queue that delivers at least once. Nothing spans two stores
atomically, and a worker may be evicted between any two awaits. The mechanism
the reply path relies on is a chain of single SQL statements: one INSERT whose
trigger owns both attempt and admission, one conditional UPDATE from `claimed`
to `sending` in front of the provider, one INSERT OR IGNORE that fixes the
terminal result, and triggers that refuse to reopen what is terminal. The
inbound path relies on a conditional UPDATE per recipient (pending, in this
generation, under the active policy), on a DELETE that retires a generation only
while no recipient was claimed, and on an exact match of a result job with the
rows it reports. A route's status is derived from the rows of both paths and from
proofs, authorizations and containment: triggers on each of them advance the
route's generation and delete the stored status, and a status is stored only
under the generation it was computed from.

A policy change is one transaction on D1, guarded by the review of the state it
replaces; the document in R2 is immutable and must agree with the rows, route by
route, before any worker acts on it. The canary relies on one conditional UPDATE
that claims the next notification, and on never replaying an attempt whose outcome
it does not know. The build owner shares nothing with the processes it watches and
must infer from its reads that they are over; a retirement relies on comparing each
file with its plan again, under Cargo's lock, between two records of a journal. The
collector of live evidence reads a provider that changes between two calls, and a
verifier judges its file later, against a desired state that may have changed too.
The compiler of fleet readiness reads nothing but one document that several collectors
assembled over a span of time, and the digest its controller expects.

What is hard: duplicate SMTP deliveries and duplicate queue jobs; two consumers
on one claim; D1 statements that raise although they committed; a policy, an
activation, a quarantine or the deployed provider changing between two reads; a
consumer cut off between the provider call and its record; the time limits of
Resend's idempotency keys; redeliveries that recover or retire the rows another
invocation is still working on; a status computed, stored or read while its
inputs or the clock move on; overlapping canary runs; evidence of one policy
recorded under the next; PIDs used again and children that outlive a build; a
directory that changes under a plan; a deployment in the middle of its reading; a
receipt of another moment, route or thread in the evidence of a fleet. `PROJECT.json`
lists these hazards line by line with the properties aimed at them.

## 2. Modules

- `ReplyRelay`: the reply path, router and consumer, with its environment.
- `ReplyPromise`: what that path promises an operator, in four actions.
- `MCReplyRelay`: the finite instances the configurations choose from.
- `ReplyRelayProofs`: theorems about `ReplyRelay`: types and single sends.
- `ReplyOutcomeProofs`: extends it with what the records say of a reply, then with the
  deployed single consumer, and shows that `ReplyRelay` implements `ReplyPromise`.
- `InboundRelay`: the inbound path in `inbox_relay` mode, the router's
  acceptance and recovery and the consumer of result jobs over the same rows.
- `InboundPromise`: what that path promises about one message, in six actions.
- `MCInboundRelay`: its finite instances.
- `InboundRelayProofs`: theorems about `InboundRelay`, among them that it implements
  `InboundPromise`.
- `RouteStatus`: the status of one route, its inputs, `refreshRouteStatuses` and
  `getDeliveryStatus`.
- `MCRouteStatus`: its finite instance.
- `RouteStatusProofs`: theorems about `RouteStatus`.
- `RouterPolicy`: the decisions of the Rust core, as operators on a document.
- `PolicyStore`: the active policy in R2 and D1, its import and its reads.
- `MailCanary`: extends `PolicyStore` with the canary's runs and the heartbeat.
- `MCMailCanary`: its finite instance, with three policy documents.
- `MailCanaryProofs`: theorems about `MailCanary`.
- `BuildSettlement`: one supervised build and the owner that observes it.
- `BuildSettlementProofs`: theorems about `BuildSettlement`.
- `BuildRetirement`: the plan, application, journal and receipt of a retirement.
- `MCBuildRetirement`: its finite instance.
- `BuildRetirementProofs`: theorems about `BuildRetirement`.
- `LiveEvidence`: the collector, the provenance of workers, and the verifier.
- `FleetReadiness`: the compiler of the fleet's report, and what its input may become.
- `MCEvidence`: finite instances of both.
- `EvidenceProofs`: theorems about both.

`MailCanary` composes with the policy store by `EXTENDS`: every policy change may
fall between two statements of a run. `BuildRetirement` takes what
`BuildSettlement` decides as an input: it starts only from a `SETTLED` build.
The relays and the status share no module with the store; in them a policy is a
value that an activation replaces, which is what the loader's three digests,
shown in `MailCanary` over the rows themselves, make of it.

### State of `ReplyRelay`

| Variables | Code |
|---|---|
| `attempt`, `spoolKey` | `relay_attempts.status`, `.raw_r2_key` |
| `admission`, `claim`, `canary` | status and immutable columns of the admission a message claimed (view `reply_admissions_all`); the one unclaimed canary admission |
| `intent`, `terminal` | `audit_events` under `<id>:outbound_reply_requested` and `<id>:outbound_reply_result` |
| `spool`, `lapsed` | objects of the relay spool, and those its retention rule removed |
| `job`, `tries` | state and `message.attempts` of the job a delivery enqueued |
| `policy`, `live`, `quarantined`, `activations`, `mode` | the active policy; relay unexpired and neither revoked nor superseded; containment; ordinary route authorizations; `MAILDESK_OUTBOUND_MODE` |
| `stage` | age of a Resend claim: before 23 hours from the intent, before 23 hours from the boundary, past both, key forgotten |
| `hpc`, `hview`, `cpc`, `cview` | where an invocation stands and the locals it carries |
| `inflight` | claim statements whose outcome the router never learned |
| `mailed`, `called` | history: e-mails sent, providers called |

### Actions of `ReplyRelay`

One action per statement or call that changes state; the reads and guards in
front of it are part of it. Router (`acceptOperatorReply`,
`recoverKnownUnsentDispatch`): `Lookup`, `Admit`, `SpoolReply`, `ClaimReply`,
`Readback`, `Dispatch`, `Enqueue`, `Journal`, `RouterCrash`, and `LateCommit`
for a statement that raised and commits afterwards. Consumer
(`processQueueBatch` to `finalizeTerminalSendState`): `Take`, `Resume`,
`Check`, `CloseAttempt`, `Authorize`, `RecordIntent`, `Duplicate`, `Verify`,
`ClaimBoundary`, `CloseUnsent`, `CallProvider`, `RetryOrExhaust`,
`RecordTerminal`, `ProjectAttempt`, `ProjectAdmission`, `CleanSpool`,
`ForgetSpoolKey`, `Finish`, `ConsumerCrash`. Environment: `ActivatePolicy`,
`ToggleQuarantine`, `CloseRelay`, `RevokeActivation`, `Redeploy`, `LapseSpool`,
`Age`.

### Abstractions of `ReplyRelay`

- One relay of one route. `Messages` are attempt identities, `Deliveries` SMTP
  deliveries; a delivery doubles as the staging key it mints, because every
  delivery mints a fresh one. Message bytes are a digest (`BytesOf`).
- A delivery is one whose parsing, envelope and DKIM checks succeeded; the ones
  before that change no state.
- An unreadable row or object is a nondeterministic outcome of the action that
  reads it (`Admit`, `Dispatch`, `Check`, `Verify`).
- Under another policy revision the identity bindings and the serialized
  request may or may not have changed: `Check` and `Duplicate` allow both.
- `live` folds revocation, supersession and every expiry: all are final.
- Both workers see one `mode`; the consumer fixes it when it takes a job.
- `route_health` and the informational audit rows are left out; a failure while
  writing them ends the invocation, which `RouterCrash` and `ConsumerCrash`
  cover at every point. For a claimed attempt the projection writes the same
  attempt and admission rows in both branches of `finalizeTerminalSendState`.
- External: the Queue (`Take`, `Redeliver`), the provider's answers and Resend's
  key memory (`Sends`, `Age`), bucket retention (`LapseSpool`). Resend forgets a
  key no earlier than 24 hours after its first use, one hour after the code's
  own limit; `Age` lets it do so only when no invocation that passed that limit
  is still before its call.

### State of `InboundRelay`

| Variables | Code |
|---|---|
| `gen`, `rowPolicy` | the reply token and keys of the fingerprint's `reply_relays` row, named by the delivery that minted them; `inbound_deliveries.policy_sha256` |
| `status`, `keyed` | `inbound_deliveries.status`; whether `raw_r2_key` is set |
| `recipient` | `inbound_recipient_deliveries.status` per operator |
| `inflight` | batches that raised and may still take effect |
| `receipt` | the job the `operator_delivery_cleanup_complete` audit event is about |
| `raw`, `payloads`, `lapsed` | raw messages and payloads in the relay spool; payloads its retention rule removed |
| `job`, `tries`, `report` | state, `message.attempts` and body of the result job a delivery enqueued |
| `policy` | `runtime_state.active_policy_sha256` |
| `hpc`, `hview`, `cpc`, `cview` | where an invocation stands and the locals it carries |
| `mailed` | history: e-mails sent to an operator with a generation's token |

### Actions of `InboundRelay`

Router (`routeMessage`, `acceptInboxRelay`, `recoverExistingInbound`): `Route`,
`Lookup`, `Retire`, `Discard`, `Sweep`, `SpoolMessage`, `Persist`, `LateCommit`,
`Readback`, `Recheck`, `Snapshot`, `ClaimRecipient`, `CallProvider`, `Project`,
`RecordResults`, `CleanDelivery`, `Refresh`, `Settle`, `Enqueue`, `RouterCrash`.
Consumer (`projectInboundDeliveryResult`): `Take`, `Match`, `PersistProjection`,
`DeletePayloads`, `DeleteRaw`, `RecordReceipt`, `ClearAuthority`, `Finish`,
`ConsumerCrash`. Environment: `ActivatePolicy`, `LapsePayload`.

### Abstractions of `InboundRelay`

- One message fingerprint. `Deliveries` are its SMTP deliveries; each mints at
  most one token and one set of spool keys, so it also names its generation.
- A policy revision decides the recipients (`OperatorsOf`). Activating one
  changes `runtime_state` and `alias_routes` together, as the activation batch
  does.
- Error codes are reduced to success, failure and an open outcome. A job that
  reports an open outcome may or may not match a `recovery_required` row,
  because the match compares the recorded code.
- A claim that raises has or has not committed by the time the code goes on: the
  loop treats both as not made and does not look again. Only the batch of
  `persistInboxRelay`, whose outcome the code reads back, may commit later.
- Nothing reads the raw message again, so only payloads lapse.
- `route_health` and audits are left out. Where their failure changes the path
  (`RecordResults`, `PersistProjection`) the action has that outcome; elsewhere it
  ends the invocation like a crash. The web desk mode and sink routes are left out.

### State and actions of `RouteStatus`

| Variables | Code |
|---|---|
| `policy` | `runtime_state.active_policy_sha256` |
| `deliveries`, `replies` | inbound journals with a recipient's status and the total; attempts with their admissions |
| `proof`, `authority` | `route_proofs.verified_at` of the newest proof of each kind; the active row of `route_reply_authorizations` per public identity |
| `quarantined` | `active_route_reply_quarantines` has a row of the route |
| `generation`, `projection` | `alias_routes.status_generation`; the `route_status_projection` row |
| `now` | the clock of D1 and the workers |
| `fpc`, `fview`, `rpc`, `rview` | calls of `refreshRouteStatuses` and `getDeliveryStatus` in progress and the locals they carry |

Inputs: `Activate`, `Receive`, `RecipientMoves`, `TotalMoves`, `Retire`, `Admit`,
`ReplyMoves`, `Prove`, `Authorize`, `Revoke`, `Contain`; each includes `Invalidate`,
the triggers that fire in its transaction. `Tick` moves the clock. Refresh:
`Start` (the time of observation is fixed), `Load` (the policy), `Select` (the
input query, `Class` and the validity), `Publish` (the conditional upsert),
`Abandon`. Reader: `Ask`, `Read`, `Reload`, `Answer`, `Leave`.

The rows of the mail paths change here as their own statements allow, without the
order the relays impose: the status must be right for any of them. One recipient
stands for the recipients of a delivery; `queued` stands for `queued` and
`authorized`, `recovery_required` for every unaccepted total. An authorization
carries the newest proofs of its policy. A transaction that fires several triggers
advances the generation once. The deployed modes are constants, and the route is
an enrolled one with operators that every revision keeps; the class of a sink,
excluded or disabled route is fixed. The fallback to `route_health`, which only
makes a status worse, and the paging over routes are left out. `Expiries` are the
times at which an authorization may expire; one that does not outlives the clock.

### `RouterPolicy`, `PolicyStore` and `MailCanary`

| Variables | Code |
|---|---|
| `objects` | policy documents in R2, by digest |
| `runtime`, `desired`, `reviews` | `runtime_state.active_policy_sha256`; the active desired state; `policy_change_reviews` |
| `rows`, `identities` | `alias_routes` with operators and reply identities; `identities` |
| `health` | `route_health`: policy, provider, and by plane (inbox, reply) the delivery status and the proof |
| `ledger`, `rotation`, `coverage` | `route_proof_ledger`, `mail_canary_probe_rotation`, `last_coverage_at_ms` |
| `attempt`, `notified`, `audit` | the attempt and the last report of `mail_canary_state`; accepted notices in `audit_events` |
| `pc`, `view` | where each run stands and what it has read |
| `sent`, `proven`, `active`, `covered` | history: notices taken, evidence and its policy, when a policy was active, runs saved |

`RouteMessage`, `AuthorizeReply`, `ValidatePolicy` and `ProjectPolicy` are the Rust
functions of those names; a refusal is a record with the error's kind. An import
(`Bootstrap`, `ApplyReview`) computes the tables as the emitted SQL does, trigger
by trigger, and commits as a whole or not at all. A canary run is one action per
read or statement: `Start`, `LoadPointer`, `LoadObject`, `LoadInventory`,
`ReadRevision`, `ReadRoutes`, `RecordCoverage`, `ReadPrevious`, `Claim`, `Send`,
`SaveNotice`, `MarkUncertain`, and `Cutoff` at any point. Every write and the send
may fail before or after their effect. The heartbeat changes nothing and is the
predicate `Ready`. Environment: `Evidence` (results and proofs written to
`route_health`), `PolicyChange`, `Tick`.

A report is the record of the fields its hash covers. A delivery status stands for the
outcome `deliveryOutcome` makes of it: `failed` for every failure, and the exclusion of a
route that is no sink, which it takes for an unknown outcome, is one of the `Failures`
too. Policy documents are the ones
the instance lists; `Installables` are the pairs of document and desired state that
the compiler of an import accepts. Times are clock ticks: `Day`, `MaxAge` and
`ProofAge` stand for 24 hours, the heartbeat's limit and the freshness of a proof.

### `BuildSettlement`

The kernel is `proc`, `births`, `exit` and `late`; the inner program `inner`,
`binding` and `launched`; the owner `pc`, the tracker (`history`, `live`,
`ended`) and what it last observed. Build side: `StartInner`, `WriteBinding`,
`Launch`, `Fork`, `Detach`, `Exit`, `Unrelated` (a freed PID is used by somebody
else), `Deadline`. Owner (`observe`, `Tracker`): `Register`, `Select`, `Read`,
`Acknowledge`, `Lease`, `Poll`, `Raise`. A scan lists the processes first and reads
them afterwards, and the list may lack one that runs. A process that left the
session and closed every inherited descriptor is out of the owner's sight by
design, so nothing is said of it. The kernel, disk-guard and the build are external.

### `BuildRetirement`

`tree` maps names to files, a file being the name and number of the write that
made it. Two names of one file are hard links; `Elsewhere` are names outside `target/`,
which an inventory does not list but a link count tells of (`Listed`, `Links`). `keep`
are the protected names; `world` holds the versions of source, policy and products.
`Dotted` are the payload names with a dot after the unit's hash, the only ones that
decide whether the control files of a unit go. `Operation` decides whether the
build may be followed by a retirement, `Qualify` and `SavePlan` are `prepare()`, and
a transaction runs `Begin`, `Inventory`, `Lock`, then per file `NextFile`,
`Unlink` or `UnlinkFails`, `Complete`, then `After`, `Finish` and `SaveReceipt`, with
`Raise` and `Crash` anywhere. Beside it: `CargoBuild` (waits for Cargo's lock),
`OtherWrite` and `Link` (take none; `Link` gives a file one more name, in `target/` or
elsewhere), `WorldChanges`. `Relinked` is the comparison of a file's link count with the
plan's, less the names the transaction took of it. `gone` and `met` are history: what was
unlinked, and the names of each file when its intent was journaled.

### `LiveEvidence`

`todo` is the set of reads that a scope asks for (`ReadsOf`) and that are left. The
code's order, the local build, domain by domain, the inventory, worker by worker, the
private data, is the relation `Before`, from the rank of a read (`Rank`) and the place of
its subject in the desired state (`Place`); a read is made when it is `Due`, the first of
those left. `Start` fixes the scope; each further action is one read, a governed call or
a local one: `ReadProfile`, `BuildUpload`, `ReadFacts`, `ReadBindings`,
`ReadDeployments`, `ReadArtifact`, `ReadVersion`, `ReadModules`, `ReadAfter`, `Qualify`,
`ReadPrivate`; `FailCall` and `FailLocal` write incomplete evidence, `Finish` complete
evidence. The provider is a set of facts, the version each worker serves, and the active
policy; `ProviderChange`, `Rebuild` and `Redesire` change world, local build and desired
state between any two of them. The coverage carries the required, successful and failed
capabilities and the acceptance surfaces, and `ValidCoverage` judges it under the desired
state of the verifier, whose rows are operators over the evidence (`Row`, `Gaps`,
`LiveEvidencePresent`). `past` and `since` are history.

### `FleetReadiness`

`input` is the compiler's document: the enrollment report, the route inventory, the
policy projection's receipt, the binding they share and, route by route, the evidence of
eight planes with an operational status. `expected` is the digest the controller gives,
`time` the compiler's clock, `report` what `Compile` made of the present input; a change
of input or clock takes it away. `ValidInput` and `Report` are `validateInput` and
`compileFleetReadiness`: `CompilePlane` judges one receipt, `OutOfOrder` the order of a
golden thread, `Killed` and `RouteBlocker` a route, `FullCoverage` and `FirstBlocker` the
fleet. `Observe`, `Exempt`, `LoseEvidence`, `TakeThread`, `ReadStatus`, `Enroll`,
`Reinventory` and `Rebind` are what collectors and operators may do to the document.
A digest is the record of what it binds, so two digests are equal exactly when what they
bind is; where the code takes the least digest, any may be the least. The report's counts
and rows per domain, which summarise the rows of the routes, are left out.

## 3. Runs

| Run | Instance | Distinct states | Shows |
|---|---|---|---|
| `ReplyCloudflare` | 1 consumer, one reply delivered twice, Cloudflare, 2 tries, 1 change | 2.9 M | a recorded failure was not mailed; bytes of unaccepted claims survive; the path implements `ReplyPromise` |
| `ReplyConcurrent` | 2 consumers, 2 replies, 4 deliveries of which two at a time are made, 1 try, no change | 1.4 M | one e-mail with rival consumers; nothing unsent is acknowledged away; one canary authorizes one reply; an accepted delivery is durable; outcomes are final |
| `ReplyLiveness` | fair, 1 delivery, two policies with different providers, both modes, 3 tries, 2 changes | 0.7 M | one provider per reply; acceptance is true; jobs settle; a recorded acceptance gets projected and its spool forgotten |
| `ReplyInterrupted` | 1 delivery, Cloudflare, 2 tries | | violation, finding 1 |
| `InboundSuperseded` | fair, 2 deliveries, 1 operator, 2 policies, 1 change, 1 consumer, 1 try | 1.0 M | one copy per operator; reply tokens resolve; acknowledged results are clean; the path implements `InboundPromise`; a complete result ends in a cleaned spool or the dead letter queue |
| `InboundPartial` | 2 deliveries, 2 operators, 2 policies, 1 change, router only | 2.4 M | bytes of pending recipients survive; a partial delivery is never called accepted |
| `InboundReceipt` | 1 delivery, 2 operators, no change | | violation, finding 2 |
| `RouteStatus` | 1 refresh, 1 reader, a role-only and a personal-first revision, 2 changes, clock 0 to 2 | 2.1 M | no obsolete status is stored; a status stored or answered as current is true |
| `MailCanary` | 2 runs, 3 documents (one refused), 2 desired states, one of them with an excluded domain, 2 imports, 1 piece of evidence, clock 1 to 2 | 2.0 M | no notice is repeated; every notice but the last is audited; a ping means coverage; the ledger is true; an operator is answered with the identity D1 binds to it, a personal-first one with its own |
| `BuildSettlement` | fair, 3 PIDs, 4 process generations | 0.8 M | a settled build is quiet; what ended stays ended; the observation comes to a verdict |
| `BuildRetirement` | 2 transactions, a library and an executable of one unit, 2 writes or links, one input changes once | 3.3 M | only what was authorized goes, and no file that had a name left when it was compared; the journal brackets and the receipt tells what is gone; a plan is used once; survivors qualify again |
| `Evidence` | 2 domains, 2 workers, 2 versions, 2 builds, 2 changes; a fleet of a role and a sink, 2 edits of its input, clock 0 to 2 | 0.4 M | a worker called verified served those modules; a row reported ok was so; a scope is honoured wherever the collection stops; full coverage was earned by every route, by the code's rules for sinks; a killed identity is never ready |

Deadlock checking is off where the system stops once its work has ended;
`RouteStatus` keeps it on.

Bounds. Two deliveries of one message are the smallest case of a duplicate, two
consumers of a rival. `ReplyConcurrent` declares four deliveries (two of one
reply, one of it with other bytes, one of another reply) and its constraint
`OneRace` lets two of them be made in a behaviour: every pair that can race, and
none twice over. It is used with safety properties only: a behaviour it cuts off is
one in which a third delivery begins. One
try per job suffices where two jobs already redeliver the message; three tries
give a crash, a retry and an exhausted failure. `MaxChanges` 2 lets a policy and
a mode, or a policy and an activation, move under one claim; `ReplyCloudflare` has one
policy and one provider, so its only changes are a quarantine, a revocation and
a lapsed object. `ReplyConcurrent` has none, to afford two consumers; rivals with
changes are covered by the proofs of its properties.
In `InboundSuperseded` the one change takes the policy of a row away under it;
histories that return to an earlier policy are covered by the proofs of its safety
properties. One operator is enough there because its properties are about each
operator alone, and `InboundPartial` adds the second for those that are not.
`InboundPartial` has no consumer: a result job matches only when no recipient is
pending, and its properties are about rows before that. It has one change, because
two make the instance too large to check within minutes; longer histories are
covered by the proof. With its two operators the promise holds as well; that, too,
is covered by a proof. `RouteStatus` starts from a route nothing is known of and
from proven and authorized ones with different work in progress (a delivery waiting
under either revision, an unreconciled delivery with a later accepted one, a reply
beyond the boundary), so that two changes reach every kind of change, among them an
acceptance and a return to `current`. Proofs and projections last two units, so that
either may lapse first; an authorization expires after one unit or never. One
refresh suffices with one reader because refreshes meet only in the stored row,
whose content any of them could have put there; the proofs cover any number.

In `MailCanary` two imports are a policy and its successor, while a run that began
under the first is still going on; the documents use a queue destination with a
fallback, a catch-all, a sink and personal-first replies, a reply identity that is not
written in its canonical form, a domain whose provider is `excluded`, so that its alias
counts as failing until a delivery is recorded, and one that the core refuses. Two clock
values separate a report from the next day's and fresh proofs
from stale ones. In `BuildSettlement` four generations on three PIDs are the guard,
the inner program, a child that outlives it and one more process on a PID that came
free. In `BuildRetirement` two payload names may be links of one file, so that a write
or a link made inside or outside `target/` changes a link count; the executable has no
suffix, so that it goes without deciding about the unit's control file; two writes are
one before and one after a comparison; the second transaction is given the plan the
first one used. In `Evidence` two changes
deploy a version and take it back between two reads, or change a fact and the desired
state; two edits of the fleet's input make it wrong in two respects at once, or put right
what the first made wrong, and `Revised` takes the first plane, the first of the
golden thread and one in the middle of it. The
two tools share no variable and no property mentions both, so the run lets each move while
the other stands at a start; it asks nothing of their interleavings.

Symmetry exchanges deliveries that carry the same bytes, consumers, operators,
transactions, runs, and in the inbound path policies with the same operators, and is used
with safety properties only.

Fairness (`FairSpec`): weak fairness of `Take` and of `Work`, per consumer.
Cloudflare Queues keeps delivering a message that was neither acknowledged nor
exhausted, and an invocation that is not evicted reaches its next statement.
Crashes are not fair and need no bound of their own: each one costs a try, and
`max_retries` bounds the tries. Nothing is assumed of the router, of operators
or of the environment. In `BuildSettlement` the owner's loop and its clock are weakly
fair, because the owner is one attended process whose loop never blocks; of the
build nothing is assumed, it may run for ever.

`TypeOK` is proved for `ReplyRelay`, `InboundRelay`, `RouteStatus` and
`BuildRetirement`; for `BuildSettlement`, `MailCanary` and `LiveEvidence` what their
proofs need of it is part of the invariant. The runs spend their time on other
properties.

Every property of a passing run has a mutant: an operator named after the
definition it mutates (`Crossable_NoWindow`, `CandidateLost_Always`, ...) that
drops a guard, loosens a check or swaps an outcome as a slip in the code would,
and that makes TLC report the property.

## 4. Findings

1. `ReplyInterrupted`. `docs/acceptance-criteria.md` AC-9 and
   `docs/operations/recovery.md` line 54 say that a Cloudflare claim without a
   terminal result is reported as recovery-required when its job is redelivered.
   `resumeInboxTerminal` (`terminal.ts` line 160) returns early for such a claim
   and the job is acknowledged without any record. No second e-mail is sent.
2. `InboundReceipt`. `docs/architecture/inbox-reply-relay.md` lines 75-76 say that
   an accepted spool's cleanup pointer remains until deletion and its cleanup
   receipt are complete. When the router records the results itself,
   `inbound.ts` line 449 clears `raw_r2_key` without a receipt. The result job of
   a concurrent redelivery then neither matches nor finds a receipt, and goes to
   the dead letter queue although everything was delivered.

Two statements that are not findings, because they are matters of reading:
`reply-authorization.ts` lines 167-169 say a losing consumer cannot record a
failure over another sender's outcome. With two consumers, which the shipped
`max_concurrency = 1` rules out, `failRelayAttempt` can close an attempt before
the boundary, because the boundary statement does not look at
`relay_attempts.status`. And `docs/operations/policy-changes.md` lines 23-25 say
that a change invalidates evidence; a change of the desired state alone that
keeps policy and provider keeps it (`sync-route-policy.ts` line 125).

## 5. Proofs

`ReplyRelayProofs` proves, for every number of messages, deliveries, consumers
and policies, from `RelayConstants` alone:

- `TypeCorrect`: `Spec => []TypeOK`;
- `AtMostOneEmail`: `Spec => []MailedAtMostOnce`;
- `OneProvider`: `Spec => []OneProviderPerReply`.

Neither of the last two is inductive. Whether a second e-mail can leave depends on
what each invocation carries and on who stands between the boundary and the
provider. The inductive invariant `Inv` is the conjunction of

- `TypeOK`;
- `ClaimsBound`: attempt, admission and claim columns exist together, and the
  claim is one of the message's own deliveries;
- `RouterBound`: an invocation binds a well-formed claim and enqueues at most
  one job, which was not yet tried;
- `ConsumerBound`: a busy consumer holds a queued job's message, a mode, and from
  the boundary on the mode of the claim's adapter;
- `BoundaryHeld`: before the boundary nothing was mailed and nobody may call; a
  consumer about to call Cloudflare is the only one about to call for that
  message, and nothing was mailed; whoever is about to call Resend, the key is
  still remembered;
- `ProviderHeld`: every provider called so far is the claim's adapter.

TLC checked each part on instances of both providers, with one and two
consumers, before it was proved. The proof splits into lemmas on router,
consumer and environment steps, with one step per action. A reader should start
at `Invariance` and follow the lemmas it cites.

`ReplyOutcomeProofs` adds, from the same assumptions:

- `OutcomesAreFinal`: `Spec => OutcomesFinal`;
- `AcceptanceIsTrue`: `Spec => []AcceptedWasMailed`;
- `BytesAreKept`: `Spec => []SpoolRetained`;
- `AcceptanceIsDurable`: `Spec => []AcceptedIsDurable`;
- `CanaryOnce`: `Spec => []CanaryConsumedOnce`;
- `UnsentIsKept`: `Spec => []UnsentNeverDropped`.

Its invariant `Outcome` is `Inv` with a part for each kind of knowledge: `SpoolHeld`
(a delivery's bytes stay until its claim statement is known not to have bound them,
also while that statement may still commit), `DurableHeld` (what is dispatched or
answered is the delivery's own claim), `CanaryHeld`, and `FinishHeld` (what a consumer
knows of the records when it cleans up or acknowledges). The action property follows
from `Advances`, which is proved of every step.

Of the deployed single consumer the same module proves, with two hypotheses that are
part of the statements:

- `FailureIsTrue`: `OneConsumer => (Spec => []FailedWasNotMailed)`;
- `PromiseIsKept`: `OneConsumer /\ CloudflareOnly => (Spec => KeepsPromise)`.

`OneConsumer` is the deployment: `wrangler.mail-outbound.toml` line 40 sets
`max_concurrency = 1` and `check-relay-topology.ts` line 92 refuses another value.
It is needed: with two consumers, two changes and one Cloudflare reply TLC finds that
the first closes the attempt as failed after the second verified it, and the second
then claims the boundary and sends. `CloudflareOnly` says that every policy binds
Cloudflare's adapter; a Resend failure after an ambiguous answer is recorded as a
failure although the mail may have left, so the promise is not made of that adapter.
The invariant `Lone` adds to `Outcome` that the records a lone invocation read are
the records it writes to (`WorksAlone`) and that the three records of a message never
contradict each other (`RecordsAgree`). The refinement is proved step by step: each
action of `ReplyRelay` is mapped to one action of `ReplyPromise` or to a stutter.

`InboundRelayProofs` proves, for every number of deliveries, operators, policies
and consumers and every history of activations, from `InboundConstants` alone:

- `InboundTypeCorrect`: `Spec => []TypeOK`;
- `RelayedOnce`: `Spec => []RelayedAtMostOnce`;
- `TokensResolve`: `Spec => []RepliesResolve`;
- `ForwardOnly`: `Spec => RecipientsMoveForward`;
- `AcceptanceIsRelayed`: `Spec => []AcceptedWasRelayed`;
- `AcknowledgementIsClean`: `Spec => []AcknowledgedIsClean`;
- `PayloadsAreRetained`: `Spec => []PayloadRetained`;
- `InboundPromiseIsKept`: `Spec => KeepsInboundPromise`.

The inductive invariant of the first four adds to `TypeOK`

- `RowBound`: the row and its recipients exist together;
- `RouterBound`: what an invocation's next statement uses is bound, and an active
  delivery has not enqueued;
- `ConsumerBound`: a busy consumer holds a job, a queued job has tries left;
- `ClaimHeld`: whoever stands between claim and projection holds a recipient in
  `sending`, alone, in the row's generation, and before its call nothing was sent;
- `MailedHeld`: what was sent was sent once, with the row's token, to a recipient
  that is not pending any more.

The step that makes it work is `UnclaimedHolds`: a row may be deleted or inserted
only while every recipient is pending or absent, so nobody is engaged and
nothing was sent. Most other steps fall under `QuietHolds`; the claim, the call
and the projection have a lemma each. `ForwardOnly` uses the same invariant for
the steps that replace the row.

An accepted delivery is another matter, because its status is written from a list of
results that an invocation collected, possibly under an older policy, and by anybody
who recovers. `ResultInv` therefore follows the results: a first run visits every
recipient of the policy it inserted the row for, and what it calls accepted was sent
under that row (`FirstRun`); a recovery only reports what it read; and a list in which
every operator accepted, wherever it is carried, is of a delivery in which everybody
was sent the mail (`ReportsHeld`). `CleanInv` orders the deletion of the raw message,
the receipt, the pointer and the acknowledgement (`CleanHeld`). It rests on `Unborn`:
a delivery that may still spool under its own name has no row, no receipt and no batch
in flight, so that nobody puts a raw message back after its cleanup. TLC checked both on
`InboundPartial`, `InboundSuperseded` and an instance with two deliveries, two
consumers and two tries before they were proved.

A payload can be lost to three actors who think that nobody needs it. Whoever retires a
generation sweeps only one that is gone and cannot be inserted again (`Born`). Whoever
cleans a delivery up has seen every recipient settled (`Agrees`, `AllSent`). The third
is a delivery whose batch raised: it reads back another's row and deletes its own spool,
while its batch may still commit. The history variable `beaten` holds these deliveries.
`BatchHeld` says that the batch of any other keeps its payloads, `SpoolHeld` what those
who delete payloads know; so whatever row a batch becomes has them, unless its delivery
is `beaten`. That exception is part of `PayloadRetained`, because the code can reach it
(section 6). TLC checked `SpoolInv` on instances with three policies and with a consumer
before it was proved.

`InboundPromise` has no invocations, batches, spool, jobs or policy changes, only the
generation of the message, how far each operator has got, the status and the e-mails.
Its variables are those of `InboundRelay`, so nothing is hidden in the mapping; what the
proof shows is which statement plays which of the six actions and that all the
others play none. `Begin` is the batch, prompt or late; `GiveUp` the conditional DELETE;
`Claim`, `Mail` and `Settle` the conditional UPDATE, the call and the projection;
`Report` every write of the aggregate, by a first run, a recovery or the consumer, whose
list is borne out by what was mailed (`Borne`, `SettleHeld`, `ReportsHeld`).

`RouteStatusProofs` proves, for every number of refreshes and readers, every set of
policies and profiles and every bound, from `StatusConstants` and `NullIsNoRow`:

- `StatusTypeCorrect`: `Spec => []TypeOK`;
- `NothingObsolete`: `Spec => []NoObsoleteProjection`;
- `StoredIsTrue`: `Spec => []StoredStatusIsTrue`;
- `AnswersTrue`: `Spec => AnswersAreTrue`.

`StoredStatusIsTrue` is not inductive, because a status is computed from inputs
that change before it is stored or read. The invariant `StatusInv` says of every
projection, stored, about to be stored or held by a reader: if it carries the
present generation, then its policy is active, it needs attention if there is
trouble now, and if it calls the route current then the present inputs justify
that and every proof and authorization it rests on outlasts it. Every change of an
input makes the statement vacuous for all of them at once by advancing the
generation; the clock and the readers leave the inputs alone; `Select`
establishes it, because the least expiration to come lies no later than the end of
every proof and authorization counted. `AnswersTrue` uses the
part about readers: the second reading of the generation is what makes the row
read earlier a row of the present.

`BuildRetirementProofs` proves, for any names, units and number of transactions and
any bounds, from `RetirementConstants`:

- `RetirementTyped`: `Spec => []TypeOK`;
- `JournalTellsAll`: `Spec => []JournalBrackets`;
- `ReceiptsTellAll`: `Spec => []ReceiptTruthful`;
- `OnlyAuthorizedRemoved`: `Spec => []RemovedAsAuthorized`;
- `AuthorityUsedOnce`: `Spec => []AuthoritySpentOnce`;
- `SurvivorsAreSelected`: `Spec => []SurvivorsRequalify`.

Its inductive invariant `RetirementInv` is `TypeInv` with

- `JournalInv`: where each transaction stands, its intents, completions, removed
  names and what is gone differ by the name in hand and no other (`Journaled`,
  `Bounded`), and its status and receipt say so (`Reported`);
- `AuthorityInv`: the plan selects files with all their names in `target/`, as many as
  their link counts (`Authority`); whoever works holds Cargo's lock alone (`Exclusive`),
  under which what is selected and left is as planned (`Held`); a file that came into
  hand had no name the plan keeps (`Met`); and whatever is gone was the plan's file and
  will not be there again (`Used`).

None of the four is inductive. That a file in hand has no name beside the plan's is an
argument about numbers: the names of it that are left in the plan are as many as its
link count, so they are all of its names, although the inventory does not list those
elsewhere. A removed file must still be the plan's file although
the comparison and the unlink are two steps: the step from one to the other needs that
a name in hand can be rewritten only by a build, which waits for the lock, or is not
selected. That a plan is used once rests on the numbers of files: a write never
makes a file that was there before, so a name taken away never again compares equal,
and the next transaction stops at its inventory.

`SurvivorsAreSelected` needs a third invariant, `SurvivorInv`: a plan selects what its
own snapshot selects; a file that is neither planned nor gone is newer than any planned
one; while planned payload is left no control file was touched (`Intact`), because
control files come into a transaction's hand last (`ControlLast`).

`BuildSettlementProofs` proves, for any set of PIDs, any number of generations and any
program, from `SettlementConstants`:

- `SettledLeavesNothing`: `Spec => []SettledIsQuiet`;
- `EndedIsFinal`: `Spec => []EndedStaysEnded`.

The observations behind a verdict are old when it is given. The invariant
`SettlementInv` says why they still hold: a stream or a descriptor is only ever
inherited (`Successor`, of every step of the processes), a generation that ended never
runs again, a generation leaves the tracker only dead (`TrackerInv`), and the inner
program, which the scan may not see, ended before the guard could report success
(`ProgramInv`).

`MailCanaryProofs` proves, for any runs, policies and bounds, from `CanaryConstants`
(the clock has at least one value) alone:

- `NoticesDiffer`: `Spec => []NoticesAreNews`;
- `NoticesAreAudited`: `Spec => []AllButLastAudited`;
- `PingsAreEarned`: `Spec => []PingMeansCoverage`;
- `LedgerStaysTrue`: `Spec => []LedgerIsTrue`;

and, from `DocumentConstants` and `RowConstants` (a personal alias names an operator;
a row is not the mark for none) as well,

- `RepliesAsItself`: `Spec => []PersonalIdentityIsOwn`;
- `ActiveLoads`: `Spec => []ActivePolicyLoads`.

Two runs overlap and each reads the last notification long before it sends. `Notices`
says that only the run that holds the attempt may send, that it knows the last
notification while it does, and that an attempt which nobody finished leaves the
attempt taken for good. `Evidenced` says of every entry a run carries what is asked
of a ledger row, so that writing it late changes nothing. These four proofs use nothing
about the decisions of `RouterPolicy`.

The other two are about D1 and the core agreeing on a document. An import writes the
rows of all routes in one pass over what earlier documents left, and binds each operator
of a role to an identity it finds in the document; the core finds the identity for a reply
on its own path, from a decision. `Imported` says what an import leaves: the rows of the
active document are those it projects, and every other row is disabled. `Bound`,
`RouteBound` and `Assigned` say what a route of an accepted document binds an operator
to, `AnswerIsBound` that the core's answer is that identity; under personal-first
replies that the validation of the document leaves an operator at most one alias per
domain decides it.

`EvidenceProofs` proves of `LiveEvidence`, for any desired states, workers, versions,
builds and bounds, from `EvidenceConstants`:

- `VerifiedServed`: `Spec => []VerifiedWasServing`;
- `RowsTrue`: `Spec => []RowsWereTrue`;
- `ScopeHonoured`: `Spec => []ScopeIsHonoured`;

and of `FleetReadiness`, for any inputs, from `FleetConstants`:

- `CoverageEarned`: `FleetSpec => []CoverageIsEarned`;
- `KillsSeen`: `FleetSpec => []KillsAreSeen`.

`EvidenceConstants` asks that a desired state names a domain (`minItems` 1 in
`ops/cfctl/maildesk-cf.desired-state.schema.json` line 25), that places are numbers, that
the marks for nothing and for a split deployment are no artifact and no version, and that
options and beginnings have their types; `FleetConstants` that an age and a time of
assembly are numbers and null is no string.

A row of the evidence is written long after the reads it rests on, so the invariant
`EvidenceInv` follows the reads. `ReadSoFar` says of each worker what is known after each
of its reads, in their order: after the modules were read, the version read before was
served at some moment since or the second reading of the deployments will differ; and
that chain yields, at qualification, a version with the uploaded modules that was served
while the build it is compared with was the local one (`Served`). `FactsSeen` says that
what was read held at a moment of the collection, and that facts of one read held at one
moment (`Snapshot`): the rules of a domain, and a catch-all with its target, would
otherwise be true in parts only. `EvidenceHeld` says what a written file says, and that
its coverage validates under the desired state it was taken under. `OrderOfReads` is the
lemma the chain rests on: a read that is due has every earlier one behind it.

For the fleet the invariant (`FleetInvariant`, a lemma) only says that a report is of
the present input, digest and time, as every change takes the report away; the work is
in the verdicts. `PlaneVerdict`, `RouteVerdict` and `BlockerVerdict` derive from a
favourable verdict, which the code composes of early returns and first blockers, what
the receipts of each plane must have said.

## 6. Only model-checked

- `JobsSettle` and `AcceptedIsCleaned` of the reply path, `CompleteResultIsCleaned` of
  the inbound path and `ObservationEnds` of the build: the prover does not reason about
  fairness and `ENABLED`.
- The decisions of `RouterPolicy` beyond what `MailCanaryProofs` needs of them, in
  general what a fold over a document computes: an induction over data. The proofs state
  what an accepted document's projection selects, not how it is built up.

Behaviour of the inbound path that no property covers, because no document says
what should happen:

- The policy changes after the re-check, so every claim of a delivery fails and
  it still ends accepted. A redelivery in between retires its rows and may then
  be refused; no row holds the accepted message any more.
- The DELETE that retires a generation raises although it committed
  (`inbound.ts` line 222 treats it as not done). The delivery recovers a row that
  is gone, finds no recipients, and ends accepted.
- `Settle` writes an aggregate computed from rows read earlier, by id alone, over
  what another delivery or the consumer recorded since. The recipients stay
  right; the aggregate may be an older one until the next projection.
- With two activations, away and back, and a batch that raised, a row may lack its
  payloads: a delivery reads back another's row, deletes its own spool as lost, the
  winner is retired, the policy returns, and the batch commits late. `PayloadRetained`
  names this exception (`beaten`); without it TLC finds the trace with `MaxChanges = 2`.
  It needs a D1 batch to take effect after a later read and DELETE. The single change
  of `InboundPartial` does not reach it.

Behaviour of the route status that no property covers:

- The upsert does not compare observation times, so of two refreshes of one
  generation the older observation may be stored last, although the comment in
  `status-store.ts` lines 69-71 says the refresh never overwrites newer evidence.
  The inputs are the same; the older one ends earlier. If a proof was verified
  between the two times of observation, it takes the proof's time for invalid and
  understates.
- The processing modes are part of a status but not of its generation. After a
  redeployment a stored status shows the old modes until it ends, two hours at
  most.
- A recipient still pending under a superseded policy does not count after an
  activation (`status-store.ts` line 30), while claimed or unreconciled ones count
  whatever their policy. `Earned` therefore speaks of recipients of the active
  policy, and `Trouble` of all.
- With a model of `RecipientMoves` that lacks its trigger TLC still finds
  `StoredStatusIsTrue` to hold on this instance: a recipient that may be claimed
  already makes the status need attention, so a stored status that misses the move
  only understates. It is the trigger on a new delivery that the property needs.

Behaviour of the policy core that no property covers:

- `validate_policy` does not ask that the reply identity of a role or a catch-all is
  written in its canonical form. In role-first mode the core answers with the identity as
  written (`lib.rs` line 345) and a relay keeps that (`inbound-repository.ts` line 74),
  while the routes in D1 refer to the canonical address. The two are not compared with
  each other, and identifiers are made from lower case, so such a document works; but a
  revision that only corrects the spelling makes the answer differ from the identity of
  the relays made before, whose replies are then refused (`operator-reply.ts` line 149,
  `queue.ts` line 128). `BindsAnswer` therefore compares up to normalization in that
  mode; an attempt to prove the stricter statement found the difference.

Behaviour of the evidence tooling that no property covers:

- The local build is compared before and after a dry run. One that changes and
  changes back in between goes unnoticed (`worker-upload-manifest.ts` lines 70-83);
  `VerifiedWasServing` holds because it speaks of the artifact's digest.
- A worker's bindings are read before its deployments, so bindings of one version may
  be combined with the modules of the next. Both were live during the collection; the
  row does not say of the same version.
- The verdict on a catch-all is the collector's own, under the desired state it read.
  The coverage names that desired state, and a verifier with another one finds the
  coverage invalid; it still prints the row.

- `docs/operations/horizontal-verifier.md` lines 84-88 restrict the exemption of a sink to
  four planes, reply authorization, outbound acceptance, recipient delivery and privacy,
  and require explicit `not_applicable` receipts of these. The code
  (`SINK_NOT_APPLICABLE_PLANES`, `compile-fleet-readiness.ts` lines 39-46) exempts all six
  planes of the golden thread, its test of an intentional sink
  (`compile-fleet-readiness.test.ts` lines 623-631) expects that, and a `proven` receipt
  of a sink is taken for any plane. `Shows` and `Covered` follow the code, so
  `CoverageIsEarned` says nothing for the document here.

Behaviour of the retirement that no property covers:

- The link count of a file is compared in front of its intent
  (`build_cache_retirement.py` lines 481-484). A link made between that comparison and
  the unlink is not noticed: the bytes survive under the new name, the receipt calls the
  file removed. `RemovedAsAuthorized` ends at the comparison.
- The comment at `build_cache_retirement.py` lines 296-297 says that metadata goes only
  when all compiler payloads of the unit qualify, and that retained products keep their
  provenance. The code counts the names in `deps/` with a dot after the unit's hash
  (`Dotted`): an executable without a suffix does not count, and may lose its
  dep-info and fingerprints while it stays.

## 7. Plan

1. Done: `ReplyRelay`, `ReplyPromise`, `ReplyRelayProofs`.
2. Done: `InboundRelay` with the result consumer, `InboundRelayProofs`.
3. Done: `InboundPromise`, and `InboundRelay` shown to implement it; `PayloadRetained`
   with its one exception.
4. Done: `RouteStatus`, `RouteStatusProofs`.
5. Done: `RouterPolicy`, `PolicyStore`, `MailCanary` with the heartbeat and its proofs;
   `BuildSettlement`, `BuildRetirement` and their proofs; `LiveEvidence`,
   `FleetReadiness` and their proofs. Next: the containment ledger (quarantine and
   release lineage).
6. Done: the reply path's outcomes and the simulation of `ReplyPromise`
   (`ReplyOutcomeProofs`); the results and acknowledgements of the inbound path; the
   reply identities of an imported policy. Every safety property that a run checks has
   its theorem. Next: the promise of the reply path for the Resend adapter, with the
   uncertainty its records leave.
7. New modules share the instances of existing runs where they can, so that the
   suite stays short.

## 8. Not modelled

- DKIM verification, MIME parsing and rewriting, relay tokens and the job codec are
  pure functions of bytes that the models reduce to a digest. A malformed job is
  acknowledged without effect.
- Work destinations: the router selects without adapters (`inbound.ts` line 64), so
  the path behind `acceptInboxWorkQueue` is unreachable in this build; the mailbox such a
  route falls back to is modelled in `RouterPolicy`.
- The web desk only reads; the legacy reply API answers with a refusal.
- The dark plan, provisioning, preflight and closeout compile or compare documents that
  a person then acts on. Their effects appear as changes of the environment: an
  activation, a deployment, a provider change.
- Of the verifier: its proofs of delivered mail, the operational state, the comparison of
  the policy document with the desired state, and the exit code.
- The controller that mints and reissues canary admissions is outside the reply path;
  the model starts with at most one unclaimed admission.
- `route_health` as the relays write it, and informational audit rows, except where a
  failure to write them changes the path.
- The open-file and process listings behind a retirement, disk-guard and the provider's
  API: external, allowed to refuse at any point.
