---------------------------- MODULE LiveEvidence -----------------------------
(***************************************************************************)
(* The live evidence of maildesk-cf.  scripts/collect-live-evidence.ts     *)
(* reads the provider one governed call after the other and writes what it *)
(* read, with the coverage of the reading; scripts/verify-maildesk.ts      *)
(* turns evidence, policy and desired state into a receipt.  The provider, *)
(* the checkout and the desired state change between any two reads, and    *)
(* every call may fail.                                                    *)
(***************************************************************************)
EXTENDS Naturals, Sequences, FiniteSets

CONSTANTS
  Desireds,    \* digests of desired states
  Desired,     \* of each: domain -> [provider, roles, personals, catchAll, candidate]
  Workers,     \* the worker roles of a desired state
  Place,       \* the order in which a desired state lists domains and workers
  Versions,    \* deployed worker versions
  Version,     \* of each: [artifact, modules, bindings], immutable
  Split,       \* a deployment that serves more than one version
  Artifacts,   \* digests of the local build of the workers
  Manifest,    \* the modules each of them uploads
  Plain,       \* the artifacts with neither static assets nor source maps
  LocalPolicy, \* digest of the local policy document
  Actives,     \* what D1 may name as active: <<policy, desired state>>
  Options,     \* command lines: [profile, verify]
  Worlds,      \* the world at first: [held, serving, active, checkout, desired]
  Volatile,    \* facts that change
  MaxChanges,  \* bound on the changes of provider, checkout and desired state
  None

VARIABLES
  \* the world
  held,      \* facts that hold at the provider
  serving,   \* the version each worker serves, or Split
  active,    \* the active policy in D1
  object,    \* the R2 object of the local policy is that document
  checkout,  \* digest of the local build
  desired,   \* digest of the local desired state
  changes,   \* changes so far
  \* the collector
  phase,     \* "idle", "collecting" or "written"
  scope,     \* what the collection was asked to read
  todo,      \* the reads left
  obs,       \* what was read
  succeeded, \* capabilities whose calls succeeded; the first failure ends the collection
  evidence,  \* the evidence file
  \* what happened, for the properties alone
  past,      \* the facts at every moment of the collection
  since      \* versions served, and local builds, since a worker's modules were read

world     == <<held, serving, active, object, checkout, desired, changes>>
collector == <<phase, scope, todo, obs, succeeded, evidence>>
vars      == <<world, collector, past, since>>

----------------------------------------------------------------------------
(* Facts about the provider. *)

\* inboundMxProvider: whose records the MX of a domain are, if anybody's.
Providers == {"cloudflare_email_routing", "google_workspace", "external"}
Domains == UNION {DOMAIN Desired[s] : s \in Desireds}
Storage == {"d1_database", "r2_spool_bucket", "queue", "dead_letter_queue"}
Resources == Storage \cup {"consumer", "r2_policy_bucket"} \cup Workers

Fact(kind, subject) == <<kind, subject>>
Rules(d, aliases) == {<<"rule", d, a>> : a \in aliases}
Aliases(d) == UNION {Desired[s][d].roles \cup Desired[s][d].personals :
                       s \in {t \in Desireds : d \in DOMAIN Desired[t]}}

Facts ==
  {Fact(k, d) : k \in Providers \cup {"zone", "routing", "catchAll", "catchAllRouted", "sender"},
                  d \in Domains}
    \cup (UNION {Rules(d, Aliases(d)) : d \in Domains})
    \cup {Fact("resource", r) : r \in Resources}

\* The schema of a desired state asks for a domain; the beginnings are of these types.
ASSUME EvidenceConstants ==
  /\ Place \in [Domains \cup Workers \cup {None} -> Nat]
  /\ \A s \in Desireds : IsFiniteSet(DOMAIN Desired[s]) /\ DOMAIN Desired[s] # {}
  /\ Split \notin Versions /\ None \notin Plain
  /\ Volatile \subseteq Facts
  /\ \A o \in Options : o.profile \in {"inventory_v1", "dark_acceptance_v1"}
  /\ \A w \in Worlds :
       /\ w.held \subseteq Facts /\ w.serving \in [Workers -> Versions \cup {Split}]
       /\ w.checkout \in Artifacts /\ w.desired \in Desireds

----------------------------------------------------------------------------
(* The scope of a collection, and the reads it makes. *)

Routed(d) == d.provider = "cloudflare_email_routing"

\* loadReadScope: the full desired state, or a manifest of fewer domains.
Scopes ==
  {[mode |-> "full_desired_state", desired |-> desired, selected |-> DOMAIN Desired[desired],
    profile |-> o.profile, verify |-> o.verify] : o \in Options}
  \cup
  {[mode |-> "canary", desired |-> desired, selected |-> S, profile |-> o.profile,
    verify |-> o.verify] : o \in Options,
    S \in (SUBSET DOMAIN Desired[desired]) \ {{}, DOMAIN Desired[desired]}}

Reads(kinds, subject) == kinds \X {subject}

DomainReads(s, d) ==
  LET want == Desired[s.desired][d] IN
  Reads({"zone", "mx"} \cup (IF Routed(want) THEN {"rules", "settings", "catchAll"} ELSE {})
          \cup (IF want.candidate THEN {"sender"} ELSE {}), d)

WorkerReads(s, w) ==
  Reads({"bindings", "deployments", "artifact", "version"}
          \cup (IF s.verify THEN {"modules", "after", "qualify"} ELSE {}), w)

InventoryReads == Reads({"workers", "databases", "buckets", "queues", "consumers"}, None)

\* A canary does not read account-wide private data.
PrivateReads(s) == IF s.mode = "canary" THEN {} ELSE Reads({"evidence", "object"}, None)

ReadsOf(s) ==
  Reads({"profile"} \cup (IF s.verify THEN {"digest", "upload", "uploaded"} ELSE {}), None)
    \cup (UNION {DomainReads(s, d) : d \in s.selected}) \cup InventoryReads
    \cup (UNION {WorkerReads(s, w) : w \in Workers}) \cup PrivateReads(s)

\* Their order: the local build, domain by domain, the inventory, worker by
\* worker, the private data.
Rank ==
  [profile |-> <<1, 1>>, digest |-> <<1, 2>>, upload |-> <<1, 3>>, uploaded |-> <<1, 4>>,
   zone |-> <<2, 1>>, rules |-> <<2, 2>>, mx |-> <<2, 3>>, settings |-> <<2, 4>>,
   catchAll |-> <<2, 5>>, sender |-> <<2, 6>>,
   workers |-> <<3, 1>>, databases |-> <<3, 2>>, buckets |-> <<3, 3>>, queues |-> <<3, 4>>,
   consumers |-> <<3, 5>>,
   bindings |-> <<4, 1>>, deployments |-> <<4, 2>>, artifact |-> <<4, 3>>, version |-> <<4, 4>>,
   modules |-> <<4, 5>>, after |-> <<4, 6>>, qualify |-> <<4, 7>>,
   evidence |-> <<5, 1>>, object |-> <<5, 2>>]

Before(q, r) ==
  LET a == Rank[q[1]]
      b == Rank[r[1]]
  IN \/ a[1] < b[1]
     \/ a[1] = b[1] /\ Place[q[2]] < Place[r[2]]
     \/ a[1] = b[1] /\ Place[q[2]] = Place[r[2]] /\ a[2] < b[2]

\* The capability of a read, None for a read of local files.
Local == {"digest", "upload", "uploaded", "artifact", "qualify"}
Capability(kind) == IF kind = "after" THEN "deployments"
                    ELSE IF kind \in Local THEN None ELSE kind

\* requiredInventoryCapabilityIds; the private reads are not among them, and no
\* read is made of the four capabilities of dark acceptance.
Dark == {"access_application", "access_policies", "access_policy", "r2_lifecycle"}
Required(s) ==
  LET wants == {Desired[s.desired][d] : d \in s.selected} IN
  {"zone", "mx", "workers", "bindings", "deployments", "version", "databases", "buckets",
   "queues", "consumers"}
    \cup (IF \E d \in wants : Routed(d) THEN {"rules", "settings", "catchAll"} ELSE {})
    \cup (IF \E d \in wants : d.candidate THEN {"sender"} ELSE {})
    \cup (IF s.profile = "dark_acceptance_v1" THEN Dark ELSE {})
    \cup (IF s.verify THEN {"modules"} ELSE {})

----------------------------------------------------------------------------
(* The coverage a collection claims. *)

AcceptanceSurfaces ==
  {"access_application", "access_policies", "r2_spool_lifecycle", "worker_deployment_identity",
   "worker_route_identity", "queue_backlog", "dead_letter_queue_backlog", "spool_emptiness",
   "readiness_endpoint"}

\* buildCfctlReadback: a capability with a failed call has not succeeded.
Coverage(s, good, bad, complete, zones, surfaces) ==
  LET required == Required(s)
      wanted == IF s.profile = "dark_acceptance_v1" THEN AcceptanceSurfaces ELSE {}
      lost == bad \cap required
      won  == (good \cap required) \ lost
      all  == complete /\ Cardinality(zones) = Cardinality(s.selected) /\ won = required
  IN [mode |-> s.mode, profile |-> s.profile, desired |-> s.desired,
      expected |-> Cardinality(DOMAIN Desired[s.desired]), selected |-> s.selected, observed |-> zones,
      required |-> required, successful |-> won, failed |-> lost, missing |-> required \ (won \cup lost),
      surfaces |-> wanted, accepted |-> wanted \cap surfaces, unaccepted |-> wanted \ surfaces,
      selectedComplete |-> all,
      desiredComplete |-> /\ all /\ s.mode = "full_desired_state"
                          /\ Cardinality(s.selected) = Cardinality(DOMAIN Desired[s.desired]),
      acceptanceComplete |-> FALSE]

\* Mutant: the coverage may be of another desired state.
ValidCoverage_AnyDesired(c, s) == c.selected \subseteq DOMAIN Desired[s]

\* validAcceptanceSurfaces.
ValidSurfaces(c) ==
  IF c.profile = "inventory_v1" THEN c.surfaces = {} /\ c.accepted = {} /\ c.unaccepted = {}
  ELSE Dark \subseteq c.required /\ AcceptanceSurfaces \cup c.accepted \cup c.unaccepted \subseteq c.surfaces

\* validReadbackCoverage, against the desired state of the verifier.
ValidCoverage(c, s) ==
  LET domains == DOMAIN Desired[s]
      all == /\ Cardinality(c.observed) = Cardinality(c.selected)
             /\ c.failed = {} /\ c.missing = {} /\ c.successful = c.required
  IN /\ c.desired = s /\ c.expected = Cardinality(domains)
     /\ c.selected \subseteq domains /\ c.observed \subseteq c.selected
     /\ IF c.mode = "canary" THEN Cardinality(c.selected) < c.expected ELSE c.selected = domains
     /\ c.successful \cup c.failed \cup c.missing = c.required
     /\ c.successful \cap c.failed = {} /\ c.missing \cap (c.successful \cup c.failed) = {}
     /\ ValidSurfaces(c)
     /\ c.selectedComplete = all
     /\ c.desiredComplete = (all /\ c.mode = "full_desired_state" /\ Cardinality(c.selected) = c.expected)
     \* the continuity proof of an access identity is never collected
     /\ ~c.acceptanceComplete

\* Coverage that does not validate bounds nothing.
DomainSelected(c, d, s) == c.mode = "canary" /\ ValidCoverage(c, s) => d \in c.selected

----------------------------------------------------------------------------
(* Collecting. *)

NoWorker == [bindings |-> None, version |-> None, drift |-> None, modules |-> None,
             after |-> None, verified |-> FALSE]
NotRead  == [versions |-> {}, builds |-> {}]
Nothing == [held |-> {}, worker |-> [w \in Workers |-> NoWorker], artifact |-> None,
            active |-> None, object |-> None, upload |-> None, manifest |-> None]

Start ==
  /\ phase = "idle" /\ phase' = "collecting"
  /\ \E s \in Scopes : scope' = s /\ todo' = ReadsOf(s)
  /\ past' = {held}
  /\ UNCHANGED <<world, obs, succeeded, evidence, since>>

\* The read is the next one.
Due(kind, subject) ==
  <<kind, subject>> \in todo /\ \A r \in todo \ {<<kind, subject>>} : Before(<<kind, subject>>, r)

\* The zones a complete reading observed.
Zones(o, s) == {d \in s.selected : Fact("zone", d) \in o.held}

\* Mutant: the zones read so far are reported as observed.
Incomplete_KeepsZones(good, bad) ==
  [coverage |-> Coverage(scope, good, bad, FALSE, Zones(obs, scope), {}), complete |-> FALSE, obs |-> Nothing]

\* incompleteReadback: only the receipts are kept of what was read.
Incomplete(good, bad) ==
  [coverage |-> Coverage(scope, good, bad, FALSE, {}, {}), complete |-> FALSE, obs |-> Nothing]

\* The evidence is written, and the process exits.
Write(e) ==
  /\ evidence' = e /\ phase' = "written"
  /\ todo' = {} /\ obs' = Nothing /\ succeeded' = {}
  /\ UNCHANGED <<world, scope, past, since>>

Good(kind) == IF Capability(kind) = None THEN succeeded ELSE succeeded \cup {Capability(kind)}

\* The read succeeded, and showed o.
Advance(kind, subject, o) ==
  /\ obs' = o
  /\ succeeded' = Good(kind)
  /\ todo' = todo \ {<<kind, subject>>}
  /\ UNCHANGED <<world, phase, scope, evidence, past>>

\* A governed call fails before or after the provider performed it; or its
\* result is malformed, or is the first page of several.
FailCall ==
  \E r \in todo :
    /\ Capability(r[1]) # None /\ Due(r[1], r[2])
    /\ \E performed \in BOOLEAN :
         Write(Incomplete(succeeded, IF performed THEN {Capability(r[1])} ELSE {}))

Unchanged == obs.upload = None \/ checkout = obs.upload

\* A local artifact cannot be built, or is not the one that was uploaded.
FailLocal ==
  \E r \in todo :
    /\ r[1] \in Local \ {"qualify"} /\ Due(r[1], r[2])
    /\ Write(Incomplete(succeeded, {}))

ReadProfile ==
  /\ Due("profile", None) /\ Advance("profile", None, obs)
  /\ UNCHANGED since

\* buildWorkerUploadManifest: a dry run between two readings of the artifact.
BuildUpload ==
  /\ \/ Due("digest", None) /\ Advance("digest", None, [obs EXCEPT !.upload = checkout])
     \/ Due("upload", None) /\ Advance("upload", None, [obs EXCEPT !.manifest = Manifest[checkout]])
     \/ Due("uploaded", None) /\ Unchanged /\ Advance("uploaded", None, obs)
  /\ UNCHANGED since

\* What each read shows.
FactsRead(kind, d) ==
  LET resources(S) == {Fact("resource", r) : r \in S}
  IN CASE kind = "rules" -> Rules(d, Desired[scope.desired][d].roles \cup Desired[scope.desired][d].personals)
       [] kind = "mx" -> {Fact(p, d) : p \in Providers}
       [] kind = "settings" -> {Fact("routing", d)}
       [] kind = "catchAll" -> {Fact("catchAll", d), Fact("catchAllRouted", d)}
       [] kind = "workers" -> resources(Workers)
       [] kind = "databases" -> resources({"d1_database"})
       [] kind = "buckets" -> resources({"r2_spool_bucket", "r2_policy_bucket"})
       [] kind = "queues" -> resources({"queue", "dead_letter_queue"})
       [] kind = "consumers" -> resources({"consumer"})
       [] OTHER -> {Fact(kind, d)}

\* A zone must be held and active, and the queue must exist, to read further.
Missing(kind, d) ==
  \/ kind = "zone" /\ Fact("zone", d) \notin held
  \/ kind = "queues" /\ Fact("resource", "queue") \notin held

DomainKinds    == {"zone", "rules", "mx", "settings", "catchAll", "sender"}
InventoryKinds == {"workers", "databases", "buckets", "queues", "consumers"}

ReadFacts(kind, d) ==
  /\ Due(kind, d)
  /\ IF Missing(kind, d) THEN Write(Incomplete(Good(kind), {}))
     ELSE Advance(kind, d, [obs EXCEPT !.held = @ \cup (FactsRead(kind, d) \cap held)]) /\ UNCHANGED since

\* A worker's bindings are those of its latest version.
BindingsSeen(v) == IF v = Split THEN BOOLEAN ELSE {Version[v].bindings}

\* What is known of worker w is now seen.
Seen(w, seen) == [obs EXCEPT !.worker = [@ EXCEPT ![w] = seen]]

ReadBindings(w) ==
  /\ Due("bindings", w)
  /\ \E matches \in BindingsSeen(serving[w]) :
       Advance("bindings", w, Seen(w, [obs.worker[w] EXCEPT !.bindings = matches]))
  /\ UNCHANGED since

\* A deployment of several versions is malformed.
ReadDeployments(w) ==
  /\ Due("deployments", w)
  /\ IF serving[w] = Split THEN Write(Incomplete(succeeded, {"deployments"}))
     ELSE Advance("deployments", w, Seen(w, [obs.worker[w] EXCEPT !.version = serving[w]])) /\ UNCHANGED since

ReadArtifact(w) ==
  /\ Due("artifact", w) /\ Unchanged
  /\ Advance("artifact", w, [obs EXCEPT !.artifact = checkout])
  /\ UNCHANGED since

\* projectWorkerRuntimeProvenance: what the version claims to be built from.
ReadVersion(w) ==
  /\ Due("version", w)
  /\ LET seen == obs.worker[w].version IN
     Advance("version", w, Seen(w, [obs.worker[w] EXCEPT !.drift = Version[seen].artifact # obs.artifact]))
  /\ UNCHANGED since

ReadModules(w) ==
  /\ Due("modules", w)
  /\ LET seen == obs.worker[w].version IN
     Advance("modules", w, Seen(w, [obs.worker[w] EXCEPT !.modules = Version[seen].modules]))
  /\ since' = [since EXCEPT ![w] = [versions |-> {serving[w]}, builds |-> {checkout}]]

ReadAfter(w) ==
  /\ Due("after", w)
  /\ Advance("after", w, Seen(w, [obs.worker[w] EXCEPT !.after = serving[w]]))
  /\ UNCHANGED since

\* Mutant: the deployments are not compared again.
Qualified_TrustsFirstRead(seen) == Unchanged /\ seen.modules = obs.manifest

\* qualifyWorkerModules, after the local build was read once more.
Qualified(seen) ==
  /\ Unchanged
  /\ seen.after = seen.version
  /\ seen.modules = obs.manifest

Qualify(w) ==
  /\ Due("qualify", w)
  /\ IF ~Qualified(obs.worker[w]) THEN Write(Incomplete(succeeded, {"modules"}))
     ELSE /\ Advance("qualify", w, Seen(w, [obs.worker[w] EXCEPT !.verified = obs.upload \in Plain]))
          /\ UNCHANGED since

ReadWorker(w) ==
  \/ ReadBindings(w) \/ ReadDeployments(w) \/ ReadArtifact(w) \/ ReadVersion(w)
  \/ ReadModules(w) \/ ReadAfter(w) \/ Qualify(w)

\* The active policy in D1; the object under the key it names.
ReadPrivate ==
  \/ /\ Due("evidence", None)
     /\ IF Fact("resource", "d1_database") \notin obs.held THEN Write(Incomplete(succeeded, {}))
        ELSE Advance("evidence", None, [obs EXCEPT !.active = active]) /\ UNCHANGED since
  \/ /\ Due("object", None)
     /\ Advance("object", None, [obs EXCEPT !.object = object])
     /\ UNCHANGED since

\* The collector's own verdict on a worker.
StatusOf(o, w) ==
  IF Fact("resource", w) \notin o.held THEN "missing"
  ELSE IF o.worker[w].drift \/ ~o.worker[w].bindings THEN "drift"
  ELSE IF o.worker[w].verified THEN "ok" ELSE "not_checked"

\* The one surface of acceptance that a collection can show.
Shown(o) == IF \A w \in Workers : StatusOf(o, w) = "ok" THEN {"worker_deployment_identity"} ELSE {}

Finish ==
  /\ phase = "collecting" /\ todo = {}
  /\ Write([coverage |-> Coverage(scope, succeeded, {}, TRUE, Zones(obs, scope), Shown(obs)),
            complete |-> TRUE, obs |-> obs])

----------------------------------------------------------------------------
(* Verifying: the rows of the receipt, from the evidence and the desired state *)
(* of the verifier.                                                            *)

Claim == evidence.coverage
Claims(fact) == fact \in evidence.obs.held
Live(d) == DomainSelected(Claim, d, desired)
Known(d) == evidence.complete /\ d \in Claim.selected
Then(d) == Desired[Claim.desired][d]  \* as collected
Now(d) == Desired[desired][d]         \* as verified

ZoneHeld(d) ==
  IF ~Live(d) \/ ~evidence.complete THEN "not_checked"
  ELSE IF d \in Claim.observed THEN "ok" ELSE "missing"

AliasesWired(d, aliases) ==
  IF ~Live(d) \/ ~Known(d) THEN "not_checked"
  ELSE IF ~Routed(Then(d)) THEN "not_checked"
  ELSE IF \A f \in Rules(d, aliases) : Claims(f) THEN "ok" ELSE "missing"

\* The collector's own verdict, under the desired state it read.
CatchAllWired(d) ==
  IF ~Live(d) \/ ~Known(d) THEN "not_checked"
  ELSE IF ~Routed(Then(d)) THEN IF Then(d).catchAll THEN "not_checked" ELSE "not_applicable"
  ELSE IF Then(d).catchAll
    THEN IF Claims(Fact("catchAll", d)) /\ Claims(Fact("catchAllRouted", d)) THEN "ok" ELSE "missing"
  ELSE IF Claims(Fact("catchAll", d)) THEN "drift" ELSE "ok"

InboundMx(d) ==
  IF ~Live(d) \/ ~Known(d) THEN "not_checked"
  ELSE IF Claims(Fact(Now(d).provider, d)) THEN "ok" ELSE "drift"

OutboundSender(d) ==
  IF ~Now(d).candidate THEN "missing"
  ELSE IF ~Live(d) \/ ~evidence.complete THEN "not_checked"
  ELSE IF ~Known(d) THEN "missing"
  ELSE IF ~Then(d).candidate THEN "missing"
  ELSE IF Claims(Fact("sender", d)) THEN "ok" ELSE "drift"

WorkerStatus(w) == StatusOf(evidence.obs, w)

WorkerBindings ==
  IF ~evidence.complete THEN "not_checked"
  ELSE IF \A w \in Workers : WorkerStatus(w) = "ok" THEN "ok" ELSE "drift"

D1Queue ==
  IF ~evidence.complete THEN "not_checked"
  ELSE IF \A r \in Storage \cup {"consumer"} : Claims(Fact("resource", r)) THEN "ok" ELSE "drift"

R2Policy ==
  IF ~evidence.complete \/ evidence.obs.active = None THEN "not_checked"
  ELSE IF evidence.obs.active = <<LocalPolicy, desired>> /\ evidence.obs.object THEN "ok" ELSE "drift"

Row(d) == [zone_held |-> ZoneHeld(d), role_aliases_wired |-> AliasesWired(d, Now(d).roles),
           personal_aliases_wired |-> AliasesWired(d, Now(d).personals),
           catch_all_wired |-> CatchAllWired(d), inbound_mx |-> InboundMx(d),
           outbound_sender |-> OutboundSender(d), r2_policy |-> R2Policy,
           worker_bindings |-> WorkerBindings, d1_queue |-> D1Queue]

\* buildGaps: none of a domain outside the scope.
Gaps(d) == IF ~Live(d) THEN {} ELSE {f \in DOMAIN Row(d) : Row(d)[f] \notin {"ok", "not_applicable"}}

\* hasLiveEvidence: evidence of a domain, or of the active policy.
LiveEvidencePresent ==
  /\ evidence.complete /\ ValidCoverage(Claim, desired)
  /\ Claim.observed # {} \/ evidence.obs.active # None

----------------------------------------------------------------------------
(* The world moves on. *)

Change == changes < MaxChanges /\ changes' = changes + 1

\* A change is of interest until the evidence is written.
ProviderChange ==
  /\ Change /\ phase # "written"
  /\ \/ /\ \E f \in Volatile : held' = IF f \in held THEN held \ {f} ELSE held \cup {f}
        /\ UNCHANGED <<serving, active, object>>
     \/ /\ \E w \in Workers, v \in Versions \cup {Split} :
             v # serving[w] /\ serving' = [serving EXCEPT ![w] = v]
        /\ UNCHANGED <<held, active, object>>
     \/ active' \in Actives \ {active} /\ UNCHANGED <<held, serving, object>>
     \/ object' = ~object /\ UNCHANGED <<held, serving, active>>
  /\ past' = IF phase = "idle" THEN past ELSE past \cup {held'}
  /\ since' = [w \in Workers |-> IF since[w] = NotRead THEN NotRead
                                 ELSE [since[w] EXCEPT !.versions = @ \cup {serving'[w]}]]
  /\ UNCHANGED <<checkout, desired, collector>>

Rebuild ==
  /\ Change /\ phase # "written"
  /\ checkout' \in Artifacts \ {checkout}
  /\ since' = [w \in Workers |-> IF since[w] = NotRead THEN NotRead
                                 ELSE [since[w] EXCEPT !.builds = @ \cup {checkout'}]]
  /\ UNCHANGED <<held, serving, active, object, desired, collector, past>>

Redesire ==
  /\ Change
  /\ desired' \in Desireds \ {desired}
  /\ UNCHANGED <<held, serving, active, object, checkout, collector, past, since>>

----------------------------------------------------------------------------
Init ==
  /\ \E w \in Worlds :
       /\ held = w.held /\ serving = w.serving /\ active = w.active
       /\ checkout = w.checkout /\ desired = w.desired
  /\ object = TRUE /\ changes = 0
  /\ phase = "idle" /\ scope = None /\ todo = {} /\ obs = Nothing
  /\ succeeded = {} /\ evidence = None
  /\ past = {} /\ since = [w \in Workers |-> NotRead]

Next ==
  \/ Start \/ FailCall \/ FailLocal \/ ReadProfile \/ BuildUpload
  \/ \E d \in Domains, kind \in DomainKinds : ReadFacts(kind, d)
  \/ \E kind \in InventoryKinds : ReadFacts(kind, None)
  \/ \E w \in Workers : ReadWorker(w)
  \/ ReadPrivate \/ Finish
  \/ ProviderChange \/ Rebuild \/ Redesire

Spec == Init /\ [][Next]_vars

----------------------------------------------------------------------------
Written == phase = "written"

\* A worker is recorded as verified, and the identity of the deployment accepted,
\* only if once its modules had been read it served a version with exactly the
\* modules of the dry run, whose artifact was still the one in the checkout.
VerifiedWasServing ==
  Written /\ evidence.complete =>
    \A w \in Workers : WorkerStatus(w) = "ok" \/ "worker_deployment_identity" \in Claim.accepted =>
      /\ evidence.obs.upload \in since[w].builds
      /\ \E v \in since[w].versions \cap Versions :
           Version[v].modules = evidence.obs.manifest

\* The fact a row of a domain reports as ok, at a moment when h holds.
TrueOf(d, field, h) ==
  CASE field = "zone_held" -> Fact("zone", d) \in h
    [] field = "role_aliases_wired" -> Rules(d, Now(d).roles) \subseteq h
    [] field = "personal_aliases_wired" -> Rules(d, Now(d).personals) \subseteq h
    [] field = "catch_all_wired" ->
         IF Now(d).catchAll THEN {Fact("catchAll", d), Fact("catchAllRouted", d)} \subseteq h
         ELSE Fact("catchAll", d) \notin h
    [] field = "inbound_mx" -> Fact(Now(d).provider, d) \in h
    [] field = "outbound_sender" -> Fact("sender", d) \in h

\* Evidence that validates for the verifier's desired state reports as ok only
\* domains it was asked to read, and what was so at a moment of the collection.
RowsWereTrue ==
  Written /\ ValidCoverage(Claim, desired) =>
    /\ \A d \in DOMAIN Desired[desired] :
         \A field \in DOMAIN Row(d) \ {"r2_policy", "worker_bindings", "d1_queue"} :
           Row(d)[field] = "ok" => d \in Claim.selected /\ \E h \in past : TrueOf(d, field, h)
    /\ D1Queue = "ok" => \A r \in Storage : \E h \in past : Fact("resource", r) \in h

\* Wherever a collection stops, the verifier accepts its coverage for the desired
\* state it was taken under: a canary opens no gap outside its scope, a scope is
\* complete only if each of its domains was read, and the receipt speaks of live
\* evidence exactly if the collection came to its end.
ScopeIsHonoured ==
  Written /\ Claim.desired = desired =>
    /\ ValidCoverage(Claim, desired)
    /\ \A d \in DOMAIN Desired[desired] : Claim.mode = "canary" /\ d \notin Claim.selected => Gaps(d) = {}
    /\ Claim.selectedComplete => evidence.complete /\ Claim.selected = Claim.observed
    /\ LiveEvidencePresent = evidence.complete
=============================================================================
