--------------------------- MODULE FleetReadiness ---------------------------
(***************************************************************************)
(* scripts/compile-fleet-readiness.ts: the report that joins the evidence  *)
(* of a whole fleet, route by route and plane by plane, into one verdict.  *)
(* The input is assembled from the work of several collectors over a span  *)
(* of time, so its parts may be of another moment, policy, route or golden *)
(* thread than the rest; the compiler has only the input, the digest the   *)
(* controller gives it and its clock.                                      *)
(*                                                                         *)
(* A digest is ideal: that of route definitions is the function that holds *)
(* them, that of a receipt or a contract the record of its closed fields.  *)
(* Where the least digest of several decides, any may be the least.        *)
(***************************************************************************)
EXTENDS Naturals, FiniteSets

CONSTANTS
  Inputs,    \* inputs to begin with
  Others,    \* other values of the digests an input is bound to
  Revised,   \* the planes whose receipts change
  MaxAge,    \* FLEET_EVIDENCE_MAX_AGE_SECONDS
  LastTime,  \* bound on the clock
  MaxEdits,  \* bound on the changes of the input
  Absent,    \* null
  Refused    \* an error instead of a report

ASSUME FleetConstants ==
  /\ MaxAge \in Nat /\ Absent \notin STRING
  /\ \A in \in Inputs : in.assembled \in Nat

VARIABLES
  input,     \* the input of the compiler
  expected,  \* digest of the policy projection, from the controller
  time,      \* the compiler's clock
  edits,     \* changes so far
  report     \* what the compiler made of the present input, at the present time

fleetVars == <<input, expected, time, edits, report>>

----------------------------------------------------------------------------
(* The planes, in their order. *)

Configured == 1
Planes     == 1..8  \* configured, cloudflare_active, inbound_provider_accepted, inbox_received,
                    \* reply_authorized, outbound_provider_accepted, recipient_delivered, privacy_proven
Thread     == 3..8  \* what one golden thread shows; the code's two sets, of these and of
                    \* the planes a sink may be exempt from, are the same
Operational == 9
Enrollment  == 0

KillCodes == {"private_identity_exposed", "wrong_public_identity"}

Blocker(plane, code, of) == [plane |-> plane, code |-> code, of |-> of]
NoBlocker == Blocker(10, Absent, Absent)

First(planes) == CHOOSE p \in planes : \A q \in planes : p <= q
LeastDigest(S) == CHOOSE x \in S : TRUE

----------------------------------------------------------------------------
(* Digests. *)

\* computePolicyProjectionReceiptSha256; it leaves the digest of the routes'
\* inventory in the binding out.
ProjectionDigest(p) ==
  [rest |-> p.binding.rest, policy |-> p.binding.policy, enrollment |-> p.binding.enrollment,
   count |-> p.count, routes |-> p.routes]

\* computeGraduationContractSha256.
ContractDigest(c) == [route |-> c.route, terms |-> c.terms, expires |-> c.expires]

----------------------------------------------------------------------------
(* validateInput: what makes the compiler refuse an input. *)

Decided(in, d) == in.domains[d].decision
Decisions == {"enrolled", "scheduled_for_migration", "intentionally_excluded", "pending_owner_decision"}

\* validateEnrollmentDomain and validateEnrollment: who decides is named, and
\* what is undecided has a reason; an incomplete inventory too.
ValidEnrollment(in) ==
  /\ DOMAIN in.domains # {}
  /\ in.complete = (in.incompleteness = Absent)
  /\ \A d \in DOMAIN in.domains :
       /\ Decided(in, d) \in Decisions
       /\ (in.domains[d].code # Absent)
            = (Decided(in, d) \in {"scheduled_for_migration", "pending_owner_decision"})

\* validateRoute, validateGraduation: a sink, and nothing else, has a contract.
ValidRoute(route) ==
  /\ route.kind \in {"role_alias", "personal_alias", "catch_all", "sink"}
  /\ (route.graduation # Absent) = (route.kind = "sink")
  /\ route.kind = "sink" => route.graduation.expires \in Nat

\* validateRouteInventory, and that every route is of an enrolled domain.
ValidInventory(in) ==
  /\ in.mode \in {"full_policy", "canary"}
  /\ DOMAIN in.routes # {}
  /\ \A r \in DOMAIN in.routes :
       /\ ValidRoute(in.routes[r])
       /\ in.routes[r].domain \in DOMAIN in.domains
       /\ Decided(in, in.routes[r].domain) = "enrolled"

\* validatePlaneReceipt.
ValidReceipt(in, r, p, receipt) ==
  \/ receipt = Absent
  \/ receipt.state = "not_applicable" /\ in.routes[r].kind = "sink" /\ p \in Thread
  \/ /\ receipt.state \in {"proven", "failed"} /\ receipt.at \in Nat
     /\ receipt.code \in (IF receipt.state = "failed" THEN STRING ELSE {Absent})

\* validateRouteEvidence: of a declared route and its domain, no thread twice.
ValidEvidence(in) ==
  /\ DOMAIN in.evidence \subseteq DOMAIN in.routes
  /\ \A r, s \in DOMAIN in.evidence : in.evidence[r].thread = in.evidence[s].thread => r = s
  /\ \A r \in DOMAIN in.evidence :
       /\ in.evidence[r].domain = in.routes[r].domain
       /\ DOMAIN in.evidence[r].planes = Planes
       /\ \A p \in Planes : ValidReceipt(in, r, p, in.evidence[r].planes[p])

ValidInput(in) == ValidEnrollment(in) /\ ValidInventory(in) /\ ValidEvidence(in)

----------------------------------------------------------------------------
(* One plane of one route. *)

Verdict(state, code) == [state |-> state, code |-> code]
Mismatch(code) == Verdict("binding_mismatch", code)

\* Whether a route has any receipt for the plane.
Held(in, r, p) == r \in DOMAIN in.evidence /\ in.evidence[r].planes[p] # Absent
Receipt(in, r, p) == in.evidence[r].planes[p]

\* The graduation contract of a route is the one its digest says.
ContractHolds(r, c) == c # Absent => c.route = r /\ c.digest = ContractDigest(c)

\* A receipt that says the plane does not apply.
Exempted(in, r, p, now) ==
  LET c == in.routes[r].graduation
      receipt == Receipt(in, r, p)
  IN IF ~ContractHolds(r, c) THEN Mismatch("graduation_contract_digest_mismatch")
     ELSE IF ~(in.routes[r].kind = "sink" /\ receipt.contract = c.digest /\ receipt.evidence = c.digest)
     THEN Mismatch("graduation_contract_mismatch")
     ELSE IF c.expires <= now THEN Verdict("stale", "graduation_contract_expired")
     ELSE Verdict("not_applicable", Absent)

\* A receipt of an observation. A failure counts however old it is.
Observation(in, receipt, now) ==
  IF receipt.binding # in.binding THEN Mismatch("receipt_binding_mismatch")
  ELSE IF receipt.state = "failed" THEN Verdict("failed", receipt.code)
  ELSE IF receipt.at > now THEN Verdict("failed", "evidence_timestamp_in_future")
  ELSE IF now - receipt.at > MaxAge THEN Verdict("stale", "evidence_stale")
  ELSE Verdict("proven", Absent)

\* compilePlane.
CompilePlane(in, r, p, now) ==
  LET receipt == Receipt(in, r, p)
  IN IF ~Held(in, r, p)
     THEN Verdict("missing", IF r \notin DOMAIN in.evidence /\ p = Configured
                             THEN "route_evidence_missing" ELSE "evidence_missing")
     ELSE IF receipt.route # r \/ receipt.domain # in.routes[r].domain
     THEN Mismatch("receipt_route_binding_mismatch")
     ELSE IF p \in Thread /\ receipt.thread # in.evidence[r].thread
     THEN Mismatch("golden_thread_binding_mismatch")
     ELSE IF receipt.state = "not_applicable" THEN Exempted(in, r, p, now)
     ELSE Observation(in, receipt, now)

\* The receipts of a golden thread that carry a time.
Timed(in, r, p) == p \in Thread /\ Held(in, r, p) /\ Receipt(in, r, p).state # "not_applicable"

\* Mutant: each plane is compared with its predecessor only.
OutOfOrder_Neighbours(in, r, p) ==
  Timed(in, r, p) /\ Timed(in, r, p - 1) /\ Receipt(in, r, p - 1).at > Receipt(in, r, p).at

\* applyGoldenThreadChronology: observed before a plane that comes earlier.
OutOfOrder(in, r, p) ==
  /\ Timed(in, r, p)
  /\ \E q \in Thread : q < p /\ Timed(in, r, q) /\ Receipt(in, r, q).at > Receipt(in, r, p).at

PlaneOf(in, r, p, now) ==
  IF OutOfOrder(in, r, p) THEN Mismatch("golden_thread_chronology_mismatch")
  ELSE CompilePlane(in, r, p, now)

Satisfied(in, r, p, now) == PlaneOf(in, r, p, now).state \in {"proven", "not_applicable"}

----------------------------------------------------------------------------
(* One route. *)

\* Mutant: a failure that the order of the thread overrides no longer kills.
Killed_AfterChronology(in, r, now) ==
  \E p \in Planes : /\ PlaneOf(in, r, p, now).state = "failed"
                    /\ PlaneOf(in, r, p, now).code \in KillCodes

\* A failure of identity, whatever its place in the thread.
Killed(in, r, now) ==
  \E p \in Planes : /\ CompilePlane(in, r, p, now).state = "failed"
                    /\ CompilePlane(in, r, p, now).code \in KillCodes

\* readRouteStatusProjection, operationalReadinessBlocker: the projection the
\* route's evidence carries, for the generation it names.
OperationalCode(in, r, now) ==
  LET e == in.evidence[r]
      s == e.status
  IN IF r \notin DOMAIN in.evidence \/ s = Absent THEN "operational_projection_missing_or_incompatible"
     ELSE IF s.generation # e.generation \/ s.policy # in.binding.policy
     THEN "operational_projection_binding_mismatch"
     ELSE IF s.observed > now \/ s.until <= s.observed THEN "operational_projection_time_invalid"
     ELSE IF s.until <= now THEN "operational_projection_stale"
     ELSE s.trouble

\* firstRouteBlocker, and the operational one behind it.
RouteBlocker(in, r, now) ==
  LET open == {p \in Planes : ~Satisfied(in, r, p, now)} IN
  IF open # {} THEN Blocker(First(open), PlaneOf(in, r, First(open), now).code, r)
  ELSE IF OperationalCode(in, r, now) # Absent THEN Blocker(Operational, OperationalCode(in, r, now), r)
  ELSE NoBlocker

RouteReport(in, r, now) ==
  [status |-> IF Killed(in, r, now) THEN "killed"
              ELSE IF RouteBlocker(in, r, now) = NoBlocker THEN "ready" ELSE "blocked",
   planes |-> [p \in Planes |-> PlaneOf(in, r, p, now)],
   first  |-> RouteBlocker(in, r, now)]

----------------------------------------------------------------------------
(* The fleet. *)

Enrolled(in) == {d \in DOMAIN in.domains : Decided(in, d) = "enrolled"}
Unresolved(in) == {d \in DOMAIN in.domains :
                     Decided(in, d) \in {"scheduled_for_migration", "pending_owner_decision"}}
RoutesOf(in, d) == {r \in DOMAIN in.routes : in.routes[r].domain = d}
Routeless(in) == {d \in Enrolled(in) : RoutesOf(in, d) = {}}

\* canonicalRouteSetAttested: the routes are those everything else is bound to.
RouteSetAttested(in) ==
  /\ in.routeSet = in.routes /\ in.binding.routes = in.routes
  /\ in.projection.count = Cardinality(DOMAIN in.routes)
  /\ in.projection.routes = in.routes
  /\ in.projection.binding = in.binding

ReceiptCoherent(in)   == in.projection.evidence = ProjectionDigest(in.projection)
DigestExpected(in, e) == ProjectionDigest(in.projection) = e
ReceiptsCoherent(in, now) ==
  \A r \in DOMAIN in.routes, p \in Planes : PlaneOf(in, r, p, now).state # "binding_mismatch"

\* full_coverage_proven.
FullCoverage(in, e, now) ==
  /\ in.mode = "full_policy" /\ in.complete /\ Unresolved(in) = {}
  /\ RouteSetAttested(in) /\ ReceiptCoherent(in) /\ DigestExpected(in, e)
  /\ Routeless(in) = {} /\ DOMAIN in.routes \subseteq DOMAIN in.evidence
  /\ in.inventoryBinding = in.binding /\ in.enrollment = in.binding.enrollment
  /\ ReceiptsCoherent(in, now)
  /\ \A r \in DOMAIN in.routes : \A p \in Planes : Satisfied(in, r, p, now)
  /\ \A r \in DOMAIN in.routes : OperationalCode(in, r, now) = Absent

\* firstEnrollmentBlocker.
EnrollmentBlocker(in) ==
  LET d == LeastDigest(Unresolved(in)) IN
  IF in.enrollment # in.binding.enrollment
  THEN Blocker(Enrollment, "enrollment_binding_mismatch", Absent)
  ELSE IF ~in.complete THEN Blocker(Enrollment, in.incompleteness, Absent)
  ELSE IF Unresolved(in) # {} THEN Blocker(Enrollment, in.domains[d].code, d)
  ELSE NoBlocker

\* firstConfiguredFleetBlocker.
ConfiguredBlocker(in, e) ==
  LET blocked(code) == Blocker(Configured, code, Absent) IN
  IF in.mode = "canary" THEN blocked("canary_scope_cannot_authorize_fleet")
  ELSE IF ~RouteSetAttested(in) THEN blocked("route_set_digest_mismatch")
  ELSE IF ~ReceiptCoherent(in) THEN blocked("policy_projection_receipt_digest_mismatch")
  ELSE IF ~DigestExpected(in, e) THEN blocked("policy_projection_expected_digest_mismatch")
  ELSE IF in.inventoryBinding # in.binding THEN blocked("route_inventory_binding_mismatch")
  ELSE IF Routeless(in) # {}
  THEN Blocker(Configured, "enrolled_domain_has_no_routes", LeastDigest(Routeless(in)))
  ELSE NoBlocker

\* firstFleetRouteBlocker: the earliest plane, then the least route.
FleetRouteBlocker(in, now) ==
  LET blocked  == {r \in DOMAIN in.routes : RouteBlocker(in, r, now) # NoBlocker}
      earliest == {r \in blocked : \A s \in blocked :
                     RouteBlocker(in, r, now).plane <= RouteBlocker(in, s, now).plane}
  IN IF blocked = {} THEN NoBlocker ELSE RouteBlocker(in, LeastDigest(earliest), now)

FirstBlocker(in, e, now) ==
  IF EnrollmentBlocker(in) # NoBlocker THEN EnrollmentBlocker(in)
  ELSE IF ConfiguredBlocker(in, e) # NoBlocker THEN ConfiguredBlocker(in, e)
  ELSE FleetRouteBlocker(in, now)

\* compileFleetReadiness, of a valid input.
Report(in, e, now) ==
  [full |-> FullCoverage(in, e, now), first |-> FirstBlocker(in, e, now),
   routes |-> [r \in DOMAIN in.routes |-> RouteReport(in, r, now)]]

----------------------------------------------------------------------------
(* Assembling an input, and compiling it. *)

FleetInit ==
  /\ input \in Inputs
  /\ expected = ProjectionDigest(input.projection)
  /\ time = input.assembled /\ edits = 0 /\ report = Absent

Edit(in) ==
  /\ edits < MaxEdits
  /\ input' = in /\ edits' = edits + 1 /\ report' = Absent
  /\ UNCHANGED <<expected, time>>

\* A receipt of a plane that is right, or not in one respect.
Observe(r, p) ==
  LET e == input.evidence[r]
      sound == [state |-> "proven", at |-> time, route |-> r, domain |-> e.domain,
                thread |-> e.thread, binding |-> input.binding, code |-> Absent]
  IN \E receipt \in {sound, Absent}
       \cup {[sound EXCEPT !.at = t] : t \in 0..LastTime}
       \cup {[sound EXCEPT !.state = "failed", !.at = 0, !.code = c] :
               c \in {"wrong_public_identity", "delivery_refused"}}
       \cup {[sound EXCEPT !.route = s] : s \in DOMAIN input.routes}
       \cup {[sound EXCEPT !.domain = d] : d \in DOMAIN input.domains}
       \cup {[sound EXCEPT !.thread = t] : t \in Others}
       \cup {[sound EXCEPT !.binding.rest = o] : o \in Others} :
       Edit([input EXCEPT !.evidence[r].planes[p] = receipt])

\* A receipt that a plane does not apply, under the route's contract or another.
Exempt(r, p) ==
  LET e == input.evidence[r] IN
  \E contract \in {ContractDigest(input.routes[s].graduation) :
                     s \in {s \in DOMAIN input.routes : input.routes[s].graduation # Absent}} \cup Others :
    Edit([input EXCEPT !.evidence[r].planes[p] =
            [state |-> "not_applicable", route |-> r, domain |-> e.domain, thread |-> e.thread,
             contract |-> contract, evidence |-> contract]])

\* The evidence of a route is lost, of another thread, or of another status.
LoseEvidence(r) ==
  Edit([input EXCEPT !.evidence = [s \in DOMAIN input.evidence \ {r} |-> input.evidence[s]]])
TakeThread(r) ==
  \E s \in DOMAIN input.evidence \ {r} :
    Edit([input EXCEPT !.evidence[r].thread = input.evidence[s].thread])
ReadStatus(r) ==
  LET sound == [generation |-> input.evidence[r].generation, policy |-> input.binding.policy,
                observed |-> time, until |-> time + 1, trouble |-> Absent]
  IN \E s \in {sound, Absent, [sound EXCEPT !.trouble = "dispatch_unconfirmed"],
               [sound EXCEPT !.generation = @ + 1]}
       \cup {[sound EXCEPT !.policy = o] : o \in Others}
       \cup {[sound EXCEPT !.observed = t] : t \in 0..LastTime} :
       Edit([input EXCEPT !.evidence[r].status = s])

\* Another enrollment report.
Enroll ==
  \/ \E d \in DOMAIN input.domains, decision \in Decisions :
       Edit([input EXCEPT !.domains[d] =
               [decision |-> decision,
                code |-> IF decision \in {"enrolled", "intentionally_excluded"} THEN Absent ELSE "undecided"]])
  \/ Edit([input EXCEPT !.complete = FALSE, !.incompleteness = "inventory_incomplete"])
  \/ \E o \in Others : Edit([input EXCEPT !.enrollment = o])

\* Another inventory: of fewer routes, rehashed or not, of a canary, of another
\* binding; or a contract that was changed after its digest was taken.
Reinventory ==
  \/ \E r \in DOMAIN input.routes, rehashed \in BOOLEAN :
       LET routes == [s \in DOMAIN input.routes \ {r} |-> input.routes[s]]
           named  == [input.binding EXCEPT !.routes = routes]
           fewer  == [input EXCEPT !.routes = routes, !.routeSet = routes,
                        !.evidence = [s \in DOMAIN input.evidence \ {r} |-> input.evidence[s]]]
           projection == [input.projection EXCEPT !.count = Cardinality(DOMAIN routes), !.routes = routes,
                            !.binding = named]
       IN Edit(IF rehashed
               THEN [fewer EXCEPT !.binding = named, !.inventoryBinding = named,
                       !.projection = [projection EXCEPT !.evidence = ProjectionDigest(projection)]]
               ELSE fewer)
  \/ Edit([input EXCEPT !.mode = "canary"])
  \/ \E o \in Others : Edit([input EXCEPT !.inventoryBinding.rest = o])
  \/ \E r \in {r \in DOMAIN input.routes : input.routes[r].graduation # Absent} :
       \E later \in 0..LastTime : Edit([input EXCEPT !.routes[r].graduation.expires = later])

\* The transaction is bound anew, and the evidence is not.
Rebind == \E o \in Others : Edit([input EXCEPT !.binding.rest = o])

Wait ==
  /\ time < LastTime
  /\ time' = time + 1 /\ report' = Absent
  /\ UNCHANGED <<input, expected, edits>>

Compile ==
  /\ report = Absent
  /\ report' = IF ValidInput(input) THEN Report(input, expected, time) ELSE Refused
  /\ UNCHANGED <<input, expected, time, edits>>

FleetNext ==
  \/ \E r \in DOMAIN input.evidence, p \in Revised : Observe(r, p) \/ Exempt(r, p)
  \/ \E r \in DOMAIN input.evidence : LoseEvidence(r) \/ TakeThread(r) \/ ReadStatus(r)
  \/ Enroll \/ Reinventory \/ Rebind \/ Wait \/ Compile

FleetSpec == FleetInit /\ [][FleetNext]_fleetVars

----------------------------------------------------------------------------
(* What a report means. *)

Compiled == report \notin {Absent, Refused}

\* The receipt shows its plane now: it is about this route, thread and binding
\* and recent, or it exempts a sink from a plane of the thread under the sink's own
\* unexpired contract.  docs/operations/horizontal-verifier.md:84-88 exempts a sink
\* from the last four planes of the thread only, and asks for the exemption of each
\* of these; the code and its test of an intentional sink
\* (compile-fleet-readiness.test.ts:623-631) spare it all six, and take a proven
\* receipt of a sink for any.  Here the code is followed.
Shows(in, r, p, now) ==
  LET receipt  == Receipt(in, r, p)
      contract == in.routes[r].graduation
  IN /\ Held(in, r, p)
     /\ receipt.route = r /\ receipt.domain = in.routes[r].domain
     /\ p \in Thread => receipt.thread = in.evidence[r].thread
     /\ \/ /\ receipt.state = "proven" /\ receipt.binding = in.binding
           /\ receipt.at <= now /\ now <= receipt.at + MaxAge
        \/ /\ receipt.state = "not_applicable" /\ in.routes[r].kind = "sink" /\ p \in Thread
           /\ contract.route = r /\ contract.digest = ContractDigest(contract)
           /\ receipt.contract = contract.digest /\ receipt.evidence = contract.digest
           /\ contract.expires > now

\* A fleet that is covered: the requirements of horizontal-verifier.md:78-88, each
\* said of the input as a whole, with sinks as Shows has them.
Covered(in, e, now) ==
  /\ in.mode = "full_policy" /\ in.complete
  /\ \A d \in DOMAIN in.domains :
       \/ Decided(in, d) = "intentionally_excluded"
       \/ Decided(in, d) = "enrolled" /\ \E r \in DOMAIN in.routes : in.routes[r].domain = d
  /\ in.routeSet = in.routes /\ in.binding.routes = in.routes
  /\ in.enrollment = in.binding.enrollment
  /\ in.inventoryBinding = in.binding /\ in.projection.binding = in.binding
  /\ in.projection.routes = in.routes /\ in.projection.count = Cardinality(DOMAIN in.routes)
  /\ in.projection.evidence = e /\ ProjectionDigest(in.projection) = e
  /\ \A r \in DOMAIN in.routes :
       /\ \A p \in Planes : Shows(in, r, p, now)
       /\ \A p, q \in Thread : p < q /\ Timed(in, r, p) /\ Timed(in, r, q)
                              => Receipt(in, r, p).at <= Receipt(in, r, q).at
       /\ OperationalCode(in, r, now) = Absent

\* A report claims full coverage exactly when the evidence earns it, by what the
\* code (not the documentation) asks of a sink, and names a first blocker exactly
\* when it does not: the flags, the planes and the blockers are computed apart.
\* (compileFleetReadiness.)
CoverageIsEarned ==
  Compiled =>
    /\ report.full <=> Covered(input, expected, time)
    /\ report.first = NoBlocker <=> report.full

\* A bound failure of identity kills its route, however old it is and whatever
\* the order of the thread makes of its plane; nothing else does, and a fleet
\* with a killed route is blocked.  (compilePlane, applyGoldenThreadChronology.)
KillsAreSeen ==
  Compiled =>
    \A r \in DOMAIN input.routes :
      LET Kills(p) == LET receipt == Receipt(input, r, p) IN
            /\ Held(input, r, p)
            /\ receipt.state = "failed" /\ receipt.code \in KillCodes
            /\ receipt.route = r /\ receipt.domain = input.routes[r].domain
            /\ receipt.binding = input.binding
            /\ p \in Thread => receipt.thread = input.evidence[r].thread
      IN /\ report.routes[r].status = "killed" <=> \E p \in Planes : Kills(p)
         /\ report.routes[r].status = "killed" =>
              report.routes[r].first # NoBlocker /\ report.first # NoBlocker
=============================================================================
