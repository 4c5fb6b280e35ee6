---------------------------- MODULE RouteStatus -----------------------------
(***************************************************************************)
(* The operational status of one route of maildesk-cf.  The journals of    *)
(* inbound deliveries and replies, the proofs, the reply authorizations    *)
(* and the containment ledger are its inputs; D1 triggers on every one of  *)
(* them advance the route's status generation and delete the stored        *)
(* projection.  refreshRouteStatuses computes a projection from one read   *)
(* of the inputs and publishes it if policy and generation still hold.     *)
(* The MCP adapter (getDeliveryStatus) answers from the stored projection  *)
(* alone, between two fences.                                              *)
(*                                                                         *)
(* The route is an enrolled route with operators that every modelled       *)
(* policy revision keeps; a sink or excluded route has a fixed status.     *)
(***************************************************************************)
EXTENDS Integers, Sequences

CONSTANTS
  Refreshers,     \* concurrent calls of refreshRouteStatuses
  Readers,        \* concurrent calls of getDeliveryStatus
  Policies,       \* policy revisions that may be active
  Profiles,       \* public identities a reply may be sent under
  ProfilesOf,     \* the profiles a policy revision selects for the route
  PersonalFirst,  \* revisions that give each operator an identity of their own
  InboundOn,      \* deployed inbound processing mode is enabled
  ReplyOn,        \* deployed reply and ordinary processing modes are enabled
  ProofAge,       \* age at which a proof is stale (24 hours)
  Life,           \* longest validity of a projection (2 hours)
  Expiries,       \* times at which an authorization may expire, if ever
  MaxNow,         \* bound on the clock
  MaxGeneration,  \* bound on the changes of the inputs
  None            \* NULL

ASSUME StatusConstants ==
  /\ ProfilesOf \in [Policies -> (SUBSET Profiles) \ {{}}]
  /\ PersonalFirst \in SUBSET Policies
  /\ InboundOn \in BOOLEAN /\ ReplyOn \in BOOLEAN
  /\ ProofAge \in Nat \ {0} /\ Life \in Nat \ {0}
  /\ MaxNow \in Nat /\ MaxGeneration \in Nat
  /\ Expiries \in SUBSET (1..MaxNow)
  /\ None \notin Int

VARIABLES
  now,          \* the clock of D1 and of the workers
  \* D1: the inputs of the status
  policy,       \* runtime_state.active_policy_sha256
  deliveries,   \* inbound journals of the route, in the order received
  replies,      \* reply attempts and their admissions, in the order admitted
  proof,        \* verified_at of a policy's newest proof of each kind
  authority,    \* the active reply authorization of each public identity
  quarantined,  \* an unreleased quarantine of the route exists
  \* D1: the derived state
  generation,   \* alias_routes.status_generation
  projection,   \* the route_status_projection row
  \* calls in progress
  fpc, fview,
  rpc, rview

inputs    == <<policy, deliveries, replies, proof, authority, quarantined>>
derived   == <<generation, projection>>
refresher == <<fpc, fview>>
reader    == <<rpc, rview>>
vars      == <<now, inputs, derived, refresher, reader>>

----------------------------------------------------------------------------
Times == 0..MaxNow
Kinds == {"inbox", "reply"}

\* An authorization without expires_at expires later than any time modelled.
Never == MaxNow + Life + ProofAge

\* One recipient stands for the recipients of a delivery; a delivery whose
\* superseded generation was retired is gone.  total is inbound_deliveries.status,
\* with partial_delivery, failed and recovery_required as one.
Delivery == [policy : Policies,
             recipient : {"pending", "sending", "provider_accepted", "recovery_required", "gone"},
             total : {"pending", "provider_accepted", "recovery_required"}]

\* relay_attempts.status, with queued and authorized as one, and the status of
\* the admission the attempt claimed.
Terminal == {"provider_accepted", "failed", "recovery_required"}
Attempts   == {"receiving", "queued"} \cup Terminal
Admissions == {"claimed", "sending"} \cup Terminal
Reply == [policy : Policies, attempt : Attempts, admission : Admissions]

Authority == [policy : Policies, expires : 0..Never, seen : [Kinds -> Times]]

Classes    == {"current", "needs_attention", "unverified", "stale"}
Projection == [gen : 0..MaxGeneration, policy : Policies, at : Times,
               until : 0..Never, class : Classes]
ASSUME NullIsNoRow == None \notin Projection

FreshView  == [at : Times, policy : Policies \cup {None}, found : Projection \cup {None}]
NoRefresh  == [at |-> 0, policy |-> None, found |-> None]
FreshPc    == {"idle", "load", "select", "publish"}

\* answer is projection_state; the classification answered with it is found.class.
ReadView == [policy : Policies \cup {None}, gen : 0..MaxGeneration,
             found : Projection \cup {None},
             answer : {"none", "unknown", "stale", "current"}]
NoRead   == [policy |-> None, gen |-> 0, found |-> None, answer |-> "none"]
ReadPc   == {"idle", "read", "reload", "recheck", "answered"}

----------------------------------------------------------------------------
(* What the input query and completeActivationCoverage read of the inputs. *)

\* Every profile the active policy selects has a current authorization.
Covered ==
  /\ ~quarantined
  /\ \A x \in ProfilesOf[policy] :
       /\ authority[x] # None
       /\ authority[x].policy = policy
       /\ authority[x].expires > now

\* The observations of a kind the status rests on: the policy's newest proof, for
\* a personal-first route those its authorizations name.
Observed(k) ==
  IF policy \notin PersonalFirst THEN {proof[policy][k]} \ {None}
  ELSE IF Covered THEN {authority[x].seen[k] : x \in ProfilesOf[policy]} ELSE {}

\* proofFreshness at time t.
Valid(k, t) == Observed(k) # {} /\ \A o \in Observed(k) : o <= t
Fresh(k, t) == Valid(k, t) /\ \A o \in Observed(k) : t - o < ProofAge
Stale(k, t) == Valid(k, t) /\ ~Fresh(k, t)

\* unknown_provider_attempts is not zero: work of any policy whose outcome nobody
\* knows.
Unknown ==
  \/ \E i \in DOMAIN replies :
       replies[i].admission = "sending" \/ replies[i].attempt = "recovery_required"
  \/ \E i \in DOMAIN deliveries : deliveries[i].recipient \in {"sending", "recovery_required"}

\* deliveryOutcome of inbound_status: an outstanding recipient of the active
\* policy, or else the newest delivery's total.
InboundFailed ==
  LET mine == {i \in DOMAIN deliveries :
                 deliveries[i].policy = policy /\ deliveries[i].recipient # "gone"}
  IN  \/ \E i \in mine : deliveries[i].recipient \in {"pending", "sending", "recovery_required"}
      \/ \E i \in mine : /\ \A j \in mine : j <= i
                         /\ deliveries[i].total # "provider_accepted"

\* deliveryOutcome of reply_status: the newest admission that reached a provider.
ReplyFailed ==
  LET mine == {i \in DOMAIN replies :
                 replies[i].policy = policy /\ replies[i].admission # "claimed"}
  IN  \E i \in mine : (\A j \in mine : j <= i) /\ replies[i].admission # "provider_accepted"

Claimed(s) == \E i \in DOMAIN replies : replies[i].attempt = s /\ replies[i].admission = "claimed"

\* projectRouteStatus for an observation at time t.
NeedsAttention == quarantined \/ Unknown \/ InboundFailed \/ ReplyFailed \/ Claimed("receiving")
Current(t)     == Fresh("inbox", t) /\ Fresh("reply", t) /\ Covered /\ ReplyOn
OutOfDate(t)   == Stale("inbox", t) \/ (Fresh("inbox", t) /\ Stale("reply", t))
Class(t) ==
  IF NeedsAttention THEN "needs_attention"
  ELSE IF Claimed("queued") \/ ~InboundOn THEN "unverified"
  ELSE IF Current(t) THEN "current"
  ELSE IF OutOfDate(t) THEN "stale" ELSE "unverified"

\* The moments at which an observation at time t stops to hold.
Oldest(k) == {o \in Observed(k) : \A x \in Observed(k) : o <= x}
ProofEnds(t) == UNION {{o + ProofAge : o \in Oldest(k)} : k \in {x \in Kinds : Valid(x, t)}}
AuthorityEnds == IF Covered THEN {authority[x].expires : x \in ProfilesOf[policy]} ELSE {}
Expirations(t) == {t + Life} \cup ProofEnds(t) \cup AuthorityEnds

\* Those still to come.
Ahead(t) == {e \in Expirations(t) : e > t}

----------------------------------------------------------------------------
\* A delivery nobody could account for, and a later one that was accepted.
Unreconciled ==
  <<[policy |-> policy, recipient |-> "recovery_required", total |-> "recovery_required"],
    [policy |-> policy, recipient |-> "provider_accepted", total |-> "provider_accepted"]>>

\* A delivery accepted under revision p that nothing was claimed of yet.
Waiting(p) == <<[policy |-> p, recipient |-> "pending", total |-> "pending"]>>

\* A reply beyond the provider boundary.
InFlight == <<[policy |-> policy, attempt |-> "queued", admission |-> "sending"]>>

\* A route nothing is known of yet, or one that was proven under every revision that
\* may be activated and authorized under the active one, perhaps with work left to
\* reconcile.
Init ==
  /\ now = 0
  /\ policy \in Policies
  /\ \/ /\ proof = [p \in Policies |-> [k \in Kinds |-> None]]
        /\ authority = [x \in Profiles |-> None]
        /\ deliveries = <<>> /\ replies = <<>>
     \/ /\ proof = [p \in Policies |-> [k \in Kinds |-> 0]]
        /\ \E e \in Expiries \cup {Never} : authority = [x \in Profiles |->
             IF x \in ProfilesOf[policy]
             THEN [policy |-> policy, expires |-> e, seen |-> proof[policy]] ELSE None]
        /\ \/ deliveries = <<>> /\ replies \in {<<>>, InFlight}
           \/ deliveries \in {Unreconciled} \cup {Waiting(p) : p \in Policies} /\ replies = <<>>
  /\ quarantined = FALSE
  /\ generation = 0 /\ projection = None
  /\ fpc = [f \in Refreshers |-> "idle"] /\ fview = [f \in Refreshers |-> NoRefresh]
  /\ rpc = [r \in Readers |-> "idle"] /\ rview = [r \in Readers |-> NoRead]

\* The triggers: every change of an input advances the generation and deletes the
\* projection in the transaction that makes it.
Invalidate ==
  /\ generation < MaxGeneration
  /\ generation' = generation + 1
  /\ projection' = None
  /\ UNCHANGED <<now, refresher, reader>>

(* The inputs change *)

Activate(p) ==
  /\ p # policy
  /\ policy' = p
  /\ UNCHANGED <<deliveries, replies, proof, authority, quarantined>>
  /\ Invalidate

\* Mutant: the inbound journals have no triggers, as before migration 0017.
Receive_NoTrigger ==
  /\ deliveries' = Append(deliveries,
       [policy |-> policy, recipient |-> "pending", total |-> "pending"])
  /\ UNCHANGED <<now, policy, replies, proof, authority, quarantined, derived, refresher, reader>>

\* A message of the active policy is accepted, its recipients pending.
Receive ==
  /\ deliveries' = Append(deliveries,
       [policy |-> policy, recipient |-> "pending", total |-> "pending"])
  /\ UNCHANGED <<policy, replies, proof, authority, quarantined>>
  /\ Invalidate

\* The claim and the result of a recipient.
RecipientMoves(i, s) ==
  /\ \/ /\ deliveries[i].recipient = "pending" /\ deliveries[i].policy = policy
        /\ s = "sending"
     \/ /\ deliveries[i].recipient = "sending"
        /\ s \in {"provider_accepted", "recovery_required"}
  /\ deliveries' = [deliveries EXCEPT ![i].recipient = s]
  /\ UNCHANGED <<policy, replies, proof, authority, quarantined>>
  /\ Invalidate

\* The aggregate, which its writers compute from recipients read earlier.
TotalMoves(i, s) ==
  /\ deliveries[i].recipient # "gone"
  /\ s = "provider_accepted" => deliveries[i].recipient = "provider_accepted"
  /\ s \in {"provider_accepted", "recovery_required"}
  /\ deliveries' = [deliveries EXCEPT ![i].total = s]
  /\ UNCHANGED <<policy, replies, proof, authority, quarantined>>
  /\ Invalidate

\* A redelivery retires a superseded generation nothing of which was claimed.
Retire(i) ==
  /\ deliveries[i].recipient = "pending" /\ deliveries[i].policy # policy
  /\ deliveries' = [deliveries EXCEPT ![i].recipient = "gone"]
  /\ UNCHANGED <<policy, replies, proof, authority, quarantined>>
  /\ Invalidate

\* The claim of a reply; the quarantine trigger refuses it.
Admit ==
  /\ ~quarantined
  /\ replies' = Append(replies,
       [policy |-> policy, attempt |-> "receiving", admission |-> "claimed"])
  /\ UNCHANGED <<policy, deliveries, proof, authority, quarantined>>
  /\ Invalidate

\* Reply journal and admission move one row at a time, each statement under its own
\* condition: the attempt is queued or authorized, closed before the provider
\* boundary, or given the outcome of a send; the admission crosses the boundary
\* after the attempt was authorized, is failed before it, or follows the attempt.
ReplyStep(r, a, d) ==
  \/ r.attempt = "receiving" /\ a = "queued" /\ d = r.admission
  \/ /\ r.attempt \in {"receiving", "queued"} /\ r.admission = "claimed"
     /\ a \in {"failed", "recovery_required"} /\ d = "claimed"
  \/ r.admission = "sending" /\ a \in Terminal /\ d = "sending"
  \/ /\ r.admission = "claimed" /\ r.attempt # "receiving" /\ r.policy = policy /\ ~quarantined
     /\ a = r.attempt /\ d = "sending"
  \/ r.admission = "claimed" /\ a = r.attempt /\ d = "failed"
  \/ r.admission = "sending" /\ r.attempt \in Terminal /\ a = r.attempt /\ d = r.attempt

ReplyMoves(i, a, d) ==
  /\ ReplyStep(replies[i], a, d)
  /\ replies' = [replies EXCEPT ![i].attempt = a, ![i].admission = d]
  /\ UNCHANGED <<policy, deliveries, proof, authority, quarantined>>
  /\ Invalidate

\* A receipt of a kind is recorded for the active policy; verified_at is when it
\* was observed, which may be some time ago.
Prove(k, t) ==
  /\ t <= now
  /\ proof[policy][k] # None => proof[policy][k] < t
  /\ proof' = [proof EXCEPT ![policy][k] = t]
  /\ UNCHANGED <<policy, deliveries, replies, authority, quarantined>>
  /\ Invalidate

\* Activation of ordinary replies for one profile: the insert triggers require
\* proofs of the last day and a binding that is current; one authorization of a
\* public identity is active at a time.
Authorize(x, e) ==
  /\ x \in ProfilesOf[policy] /\ authority[x] = None /\ ~quarantined
  /\ e > now
  /\ \A k \in Kinds : proof[policy][k] # None /\ now - proof[policy][k] <= ProofAge
  /\ authority' = [authority EXCEPT ![x] =
       [policy |-> policy, expires |-> e, seen |-> proof[policy]]]
  /\ UNCHANGED <<policy, deliveries, replies, proof, quarantined>>
  /\ Invalidate

Revoke(x) ==
  /\ authority[x] # None
  /\ authority' = [authority EXCEPT ![x] = None]
  /\ UNCHANGED <<policy, deliveries, replies, proof, quarantined>>
  /\ Invalidate

\* A quarantine is recorded, or the one there is released.
Contain ==
  /\ quarantined' = ~quarantined
  /\ UNCHANGED <<policy, deliveries, replies, proof, authority>>
  /\ Invalidate

Tick ==
  /\ now < MaxNow
  /\ now' = now + 1
  /\ UNCHANGED <<inputs, derived, refresher, reader>>

InputsChange ==
  \/ \E p \in Policies : Activate(p)
  \/ Receive
  \/ \E i \in DOMAIN deliveries, s \in {"sending", "provider_accepted", "recovery_required"} :
       RecipientMoves(i, s) \/ TotalMoves(i, s)
  \/ \E i \in DOMAIN deliveries : Retire(i)
  \/ Admit
  \/ \E i \in DOMAIN replies, a \in Attempts, d \in Admissions : ReplyMoves(i, a, d)
  \/ \E k \in Kinds, t \in Times : Prove(k, t)
  \/ \E x \in Profiles, e \in Expiries \cup {Never} : Authorize(x, e)
  \/ \E x \in Profiles : Revoke(x)
  \/ Contain

----------------------------------------------------------------------------
(* refreshRouteStatuses *)

Refreshing(f, from, to, view) ==
  /\ fpc[f] = from
  /\ fpc' = [fpc EXCEPT ![f] = to]
  /\ fview' = [fview EXCEPT ![f] = view]
  /\ UNCHANGED <<now, inputs, generation, reader>>

\* The time of observation is taken before anything is read.
Start(f) ==
  /\ Refreshing(f, "idle", "load", [NoRefresh EXCEPT !.at = now])
  /\ UNCHANGED projection

\* loadActivePolicy: pointer, R2 object and inventory agree on the active policy.
Load(f) ==
  /\ Refreshing(f, "load", "select", [fview[f] EXCEPT !.policy = policy])
  /\ UNCHANGED projection

\* ROUTE_STATUS_INPUT_SQL and projectRouteStatus, valid until the first expiration
\* to come; a route that moved to another policy yields no row.
Select(f, u) ==
  LET t == fview[f].at IN
  /\ fview[f].policy = policy
  /\ u \in Ahead(t)
  /\ \A e \in Ahead(t) : u <= e
  /\ Refreshing(f, "select", "publish", [fview[f] EXCEPT !.found =
       [gen |-> generation, policy |-> policy, at |-> t, until |-> u, class |-> Class(t)]])
  /\ UNCHANGED projection

\* Mutant: the upsert is unconditional.
Publish_NoFence(f) ==
  /\ Refreshing(f, "publish", "idle", NoRefresh)
  /\ projection' = fview[f].found

\* The upsert, conditional on policy and generation.
Publish(f) ==
  LET p == fview[f].found IN
  /\ Refreshing(f, "publish", "idle", NoRefresh)
  /\ projection' = IF p.gen = generation /\ p.policy = policy THEN p ELSE projection

\* No row, an unreadable policy, a failed statement or an evicted worker.
Abandon(f) ==
  /\ fpc[f] # "idle"
  /\ Refreshing(f, fpc[f], "idle", NoRefresh)
  /\ UNCHANGED projection

----------------------------------------------------------------------------
(* getDeliveryStatus *)

Reading(r, from, to, view) ==
  /\ rpc[r] = from
  /\ rpc' = [rpc EXCEPT ![r] = to]
  /\ rview' = [rview EXCEPT ![r] = view]
  /\ UNCHANGED <<now, inputs, derived, refresher>>

Ask(r) == Reading(r, "idle", "read", [NoRead EXCEPT !.policy = policy])

\* MCP_STATUS_SQL: generation and projection of one moment.
Read(r) ==
  /\ rview[r].policy = policy
  /\ Reading(r, "read", "reload", [rview[r] EXCEPT !.gen = generation, !.found = projection])

\* The second load of the policy.
Reload(r) ==
  /\ rview[r].policy = policy
  /\ Reading(r, "reload", "recheck", rview[r])

\* readRouteStatusProjection of a projection read under generation g.
State(p, g) ==
  IF p = None THEN "unknown"
  ELSE IF p.gen # g \/ p.policy # policy \/ p.at > now \/ p.until <= p.at THEN "unknown"
  ELSE IF p.until <= now THEN "stale" ELSE "current"

\* Mutant: the generation is not read again.
Answer_NoRecheck(r) ==
  /\ rview[r].policy = policy
  /\ Reading(r, "recheck", "answered",
       [NoRead EXCEPT !.answer = State(rview[r].found, rview[r].gen)])

\* MCP_GENERATION_SQL, and the answer from what was read before.
Answer(r) ==
  /\ rview[r].policy = policy /\ rview[r].gen = generation
  /\ Reading(r, "recheck", "answered",
       [NoRead EXCEPT !.answer = State(rview[r].found, rview[r].gen)])

\* The call is over: answered, refused by a fence, or failed.
Leave(r) ==
  /\ rpc[r] # "idle"
  /\ Reading(r, rpc[r], "idle", NoRead)

----------------------------------------------------------------------------
Refresh(f) == Start(f) \/ Load(f) \/ (\E u \in 0..Never : Select(f, u)) \/ Publish(f) \/ Abandon(f)
Consult(r) == Ask(r) \/ Read(r) \/ Reload(r) \/ Answer(r) \/ Leave(r)

Next ==
  \/ Tick
  \/ InputsChange
  \/ \E f \in Refreshers : Refresh(f)
  \/ \E r \in Readers : Consult(r)

Spec == Init /\ [][Next]_vars

----------------------------------------------------------------------------
(* Properties *)

\* Every variable has its type; as in the schema, a projection ends after it was
\* observed.
TypeOK ==
  /\ now \in Times
  /\ policy \in Policies
  /\ deliveries \in Seq(Delivery)
  /\ replies \in Seq(Reply)
  /\ proof \in [Policies -> [Kinds -> Times \cup {None}]]
  /\ authority \in [Profiles -> Authority \cup {None}]
  /\ quarantined \in BOOLEAN
  /\ generation \in 0..MaxGeneration
  /\ projection \in Projection \cup {None}
  /\ projection # None => projection.at < projection.until
  /\ fpc \in [Refreshers -> FreshPc]
  /\ fview \in [Refreshers -> FreshView]
  /\ rpc \in [Readers -> ReadPc]
  /\ rview \in [Readers -> ReadView]

\* Something may have been sent without a known result, or the route is contained.
Trouble ==
  \/ quarantined
  \/ \E i \in DOMAIN deliveries : deliveries[i].recipient \in {"sending", "recovery_required"}
  \/ \E i \in DOMAIN replies :
       replies[i].admission = "sending" \/ replies[i].attempt = "recovery_required"

\* What readiness stands for: no trouble, no recipient of the policy and no claimed
\* reply still waiting, every public identity authorized under the active policy
\* and not expired, and an inbox and a reply proof of the last 24 hours.
Earned ==
  /\ InboundOn /\ ReplyOn
  /\ ~Trouble
  /\ \A i \in DOMAIN deliveries :
       deliveries[i].policy = policy => deliveries[i].recipient # "pending"
  /\ \A i \in DOMAIN replies :
       replies[i].admission = "claimed" => replies[i].attempt \notin {"receiving", "queued"}
  /\ \A x \in ProfilesOf[policy] :
       /\ authority[x] # None
       /\ authority[x].policy = policy /\ authority[x].expires > now
       /\ policy \in PersonalFirst => \A k \in Kinds : now - authority[x].seen[k] < ProofAge
  /\ policy \notin PersonalFirst =>
       \A k \in Kinds : proof[policy][k] # None /\ now - proof[policy][k] < ProofAge

\* A status of class c is true: only what is earned is called current, and trouble
\* always needs attention.
Truthful(c) ==
  /\ c = "current" => Earned
  /\ Trouble => c = "needs_attention"

\* A projection computed before a change of the inputs is not stored after it
\* (status-store.ts, the condition of the upsert; route-status.test.ts: "a
\* concurrent source change prevents publication of an obsolete status generation").
NoObsoleteProjection ==
  projection # None => projection.gen = generation /\ projection.policy = policy

\* As long as a stored projection reads as current, the route is ready if it says
\* so and its trouble shows, whatever changed while the projection was computed and
\* however much time passed since (status-store.ts: the conditional upsert, the
\* triggers of migrations 0015 and 0017, valid_until).
StoredStatusIsTrue ==
  State(projection, generation) = "current" => Truthful(projection.class)

\* A status the MCP adapter answers as current is true when the generation was
\* read again, although the projection was read earlier (read-model.ts).
AnswersAreTrue ==
  [][\A r \in Readers :
       rpc[r] = "recheck" /\ rpc'[r] = "answered" /\ rview'[r].answer = "current"
         => Truthful(rview[r].found.class)]_vars

=============================================================================
