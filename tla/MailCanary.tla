----------------------------- MODULE MailCanary ------------------------------
(***************************************************************************)
(* The scheduled mail-canary worker of maildesk-cf and its heartbeat.  A   *)
(* canary run loads the active policy, reads every route of it, records    *)
(* what it read in the proof ledger, and e-mails a report when the report  *)
(* is news.  The heartbeat pings an external monitor while the ledger is   *)
(* fresh and no notification is left open.  Runs overlap, are cut off at   *)
(* any statement, and race with policy changes and route evidence.         *)
(***************************************************************************)
EXTENDS PolicyStore

CONSTANTS
  Runs,       \* invocations of the canary
  From,       \* MAILDESK_CANARY_FROM
  Day,        \* an unchanged report is repeated after this time (24 hours)
  MaxAge,     \* age of the coverage at which the heartbeat is withheld
  ProofAge,   \* age at which a proof is no longer fresh
  Batch,      \* MAILDESK_CANARY_PROBE_BATCH
  Blocked,    \* whether a route status may refuse readiness
  MaxClock,   \* bound on the clock
  MaxEvents   \* bound on the route evidence recorded

ASSUME CanaryConstants == MaxClock \in Nat \ {0}

VARIABLES
  clock,
  \* D1
  ledger,     \* route_proof_ledger
  rotation,   \* mail_canary_probe_rotation
  attempt,    \* mail_canary_state: attempt_id and attempt_state
  notified,   \* mail_canary_state: last_report_sha256 and last_notified_at_ms
  coverage,   \* mail_canary_state.last_coverage_at_ms
  audit,      \* audit_events: accepted notifications, by attempt
  \* runs in progress
  pc, view,   \* of every canary run
  \* what happened, for the properties alone
  sent,       \* notifications the provider took, in order
  proven,     \* evidence and the policy it was taken under
  active,     \* policies and the times at which they were active
  covered,    \* start times of the runs whose ledger was saved
  events      \* evidence so far

canaryVars == <<ledger, rotation, attempt, notified, coverage, audit>>
runVars    == <<pc, view>>
history    == <<sent, proven, active, covered>>
vars == <<storeVars, clock, canaryVars, runVars, history, events>>

----------------------------------------------------------------------------
(* The report. *)

\* route evidence of a non-sink route at time now; a proof later than the run's
\* clock counts as none.
ProofAt(r, plane, now) ==
  LET p == health[r].proof[plane] IN IF p # None /\ p <= now THEN p ELSE None
Fresh(r, plane, now) ==
  ProofAt(r, plane, now) # None /\ now - ProofAt(r, plane, now) < ProofAge

Revised(read, p) == {r \in read : health[r] # None /\ health[r].policy = p}
Sinks(read)      == {r \in read : rows[r].kind = "sink"}

\* Every plane of the route has one of these statuses; some plane has.
AllPlanes(r, statuses) == \A plane \in Planes : health[r].status[plane] \in statuses
AnyPlane(r, statuses)  == \E plane \in Planes : health[r].status[plane] \in statuses

\* Statuses whose deliveryOutcome is one of FAILURES: the exclusion of a route
\* that is no sink too, which counts as an unknown outcome.
Failures == {"failed", "intentionally_excluded"}

\* reportRoutes over the routes read; blocked: a route status refuses readiness.
Report(p, read, now, blocked) ==
  LET revised  == Revised(read, p)
      sinks    == revised \cap Sinks(read)
      excluded == {r \in sinks : AllPlanes(r, {"intentionally_excluded"})}
      failing  == {r \in revised \ sinks : AnyPlane(r, Failures)}
      eligible == revised \ (sinks \cup failing)
      current  == {r \in eligible : \A plane \in Planes : Fresh(r, plane, now)}
      issues   ==    (IF blocked THEN {"operational"} ELSE {})
                \cup (IF revised # read THEN {"revision_missing"} ELSE {})
                \cup (IF excluded # sinks THEN {"sink_disposition_missing"} ELSE {})
                \cup (IF failing # {} THEN {"delivery_failed"} ELSE {})
  IN [policy     |-> p,
      status     |-> IF failing # {} THEN "failed"
                     ELSE IF issues # {} THEN "unverified"
                     ELSE IF eligible # {} /\ current # eligible THEN "configuration_current"
                     ELSE "receipts_current",
      issues     |-> issues,
      configured |-> Cardinality(excluded \cup eligible),
      current    |-> Cardinality(current)]

Unavailable == [policy |-> None, status |-> "unverified", issues |-> {"inventory_unavailable"},
                configured |-> 0, current |-> 0]

NotSaved(report) ==
  [report EXCEPT !.status = IF @ = "failed" THEN "failed" ELSE "unverified",
                 !.issues = @ \cup {"ledger_unavailable"}]

\* The oldest of a route's proofs, None when one is missing.
Oldest(r, now) ==
  LET times == {ProofAt(r, plane, now) : plane \in Planes} IN
  IF None \in times THEN None ELSE CHOOSE t \in times : \A u \in times : t <= u

\* selectProbeRotation: missing proofs first, then the oldest; ties by identity.
SelectProbes(read, now) ==
  LET due == {r \in read : rows[r].kind # "sink"}
      before(x, y) == \/ Oldest(x, now) = None /\ Oldest(y, now) # None
                      \/ /\ Oldest(x, now) # None /\ Oldest(y, now) # None
                         /\ Oldest(x, now) < Oldest(y, now)
      size == IF Cardinality(due) < Batch THEN Cardinality(due) ELSE Batch
  IN CHOOSE S \in SUBSET due :
       Cardinality(S) = size /\ \A x \in S, y \in due \ S : ~before(y, x)

----------------------------------------------------------------------------
(* The steps of a canary run. *)

NoView == [now |-> 0, policy |-> None, report |-> None, entries |-> None, probes |-> {}]

Step(k, from, to) == pc[k] = from /\ pc' = [pc EXCEPT ![k] = to]
See(k, v) == view' = [view EXCEPT ![k] = v]
\* What a run has read is gone when it ends.
Forget(k) == IF pc'[k] = "done" THEN See(k, NoView) ELSE UNCHANGED view
ReadOnly == UNCHANGED <<storeVars, clock, canaryVars, history, events>>

\* The sender must be an active public role identity, or the run ends here.
SenderIsActive ==
  \E r \in Stored :
    /\ rows[r].enabled /\ rows[r].policy = runtime
    /\ rows[r].kind # "sink" /\ rows[r].identity = From
    /\ identities[From].kind = "role"

Start(k) ==
  /\ Step(k, "waiting", IF SenderIsActive THEN "pointer" ELSE "done")
  /\ See(k, IF SenderIsActive THEN [NoView EXCEPT !.now = clock] ELSE NoView)
  /\ ReadOnly

\* A failed read, whichever it is, reports the inventory unavailable.
NoInventory(k, from) ==
  /\ Step(k, from, "previous")
  /\ See(k, [view[k] EXCEPT !.report = Unavailable, !.policy = None])
  /\ ReadOnly

\* One read: it confirms what the run has so far, or ends the reading.
Read(k, from, to, confirmed) ==
  /\ pc[k] = from
  /\ IF confirmed THEN Step(k, from, to) /\ UNCHANGED view /\ ReadOnly ELSE NoInventory(k, from)

LoadPointer(k) ==
  /\ pc[k] = "pointer"
  /\ IF ~PointerConsistent THEN NoInventory(k, "pointer")
     ELSE /\ Step(k, "pointer", "object")
          /\ See(k, [view[k] EXCEPT !.policy = runtime])
          /\ ReadOnly

LoadObject(k)    == Read(k, "object", "inventory", ObjectRead(view[k].policy))
LoadInventory(k) == Read(k, "inventory", "revision", InventoryRead(view[k].policy))
ReadRevision(k)  == Read(k, "revision", "routes", runtime = view[k].policy)

\* ROUTES_SQL: the enabled rows of the policy, if it is still the active one.
RoutesRead(p) == {r \in Stored : rows[r].enabled /\ rows[r].policy = p /\ runtime = p}

\* What recordCoverage will write of the routes read.
Entries(p, read, now) ==
  [r \in read |-> [policy |-> p, configuration |-> now,
                   proof |-> [plane \in Planes |->
                                IF r \in Revised(read, p) THEN ProofAt(r, plane, now) ELSE None]]]

ReadRoutes(k) ==
  LET p == view[k].policy
      now == view[k].now
      read == RoutesRead(p)
  IN /\ pc[k] = "routes"
     /\ IF ~InventoryMatches(p, read) THEN NoInventory(k, "routes")
        ELSE /\ Step(k, "routes", "record")
             /\ \E blocked \in Blocked :
                  See(k, [view[k] EXCEPT !.report = Report(p, read, now, blocked),
                                         !.policy = None,
                                         !.entries = Entries(p, read, now),
                                         !.probes = SelectProbes(read, now)])
             /\ ReadOnly

\* LEDGER_UPSERT: a row keeps its first configuration time under its policy.
Upsert(old, new) ==
  IF old # None /\ old.policy = new.policy
  THEN [new EXCEPT !.configuration = old.configuration] ELSE new

\* Mutant: the stamp is a statement of its own.
SaveCoverage_StampFirst(k) ==
  /\ coverage' = view[k].now
  /\ UNCHANGED <<rotation, ledger, covered>>

\* recordCoverage is one transaction: rotation, ledger and stamp.
SaveCoverage(k) ==
  LET v == view[k] IN
  /\ rotation' = v.probes
  /\ ledger' = [r \in DOMAIN ledger |-> IF r \in DOMAIN v.entries
                                 THEN Upsert(ledger[r], v.entries[r]) ELSE ledger[r]]
  /\ coverage' = v.now
  /\ covered' = covered \cup {v.now}

\* Committed; failed before it; committed with the answer lost.
RecordCoverage(k) ==
  /\ Step(k, "record", "previous")
  /\ \E saved, told \in BOOLEAN :
       /\ told => saved
       /\ IF saved THEN SaveCoverage(k) ELSE UNCHANGED <<rotation, ledger, coverage, covered>>
       /\ See(k, [view[k] EXCEPT !.entries = None, !.probes = {},
                                 !.report = IF told THEN @ ELSE NotSaved(@)])
  /\ UNCHANGED <<storeVars, clock, attempt, notified, audit, sent, proven, active, events>>

----------------------------------------------------------------------------
(* notify. *)

\* An incomplete attempt stops every later run.
ReadPrevious(k) ==
  /\ Step(k, "previous", IF attempt.state = "idle" THEN "claim" ELSE "done")
  /\ Forget(k) /\ ReadOnly

\* The condition of the claim, evaluated by the statement that claims.
News(report, now) ==
  \/ notified.report # report
  \/ notified.at <= now - Day

\* Mutant: a claim is not conditional on the report being news.
ClaimAllowed_AnyReport(report, now) == attempt.state = "idle"

ClaimAllowed(report, now) == attempt.state = "idle" /\ News(report, now)

Claim(k) ==
  LET allowed == ClaimAllowed(view[k].report, view[k].now) IN
  /\ Step(k, "claim", IF allowed THEN "send" ELSE "done")
  /\ attempt' = IF allowed THEN [id |-> k, state |-> "sending"] ELSE attempt
  /\ Forget(k)
  /\ UNCHANGED <<storeVars, clock, ledger, rotation, notified, coverage, audit,
                 history, events>>

\* Accepted; refused; or accepted while the call fails.
Send(k) ==
  \E taken, told \in BOOLEAN :
    /\ told => taken
    /\ Step(k, "send", IF told THEN "save" ELSE "uncertain")
    /\ sent' = IF taken THEN Append(sent, [run |-> k, report |-> view[k].report, at |-> view[k].now])
               ELSE sent
    /\ UNCHANGED <<storeVars, clock, canaryVars, view, proven, active, covered, events>>

Mine(k) == attempt = [id |-> k, state |-> "sending"]

\* One transaction: the attempt closes, and the acceptance is audited.
SaveNotice(k) ==
  \E saved, told \in BOOLEAN :
    /\ told => saved
    /\ Step(k, "save", IF told THEN "done" ELSE "uncertain")
    /\ IF saved
       THEN /\ attempt' = IF Mine(k) THEN [attempt EXCEPT !.state = "idle"] ELSE attempt
            /\ notified' = IF Mine(k) THEN [report |-> view[k].report, at |-> view[k].now] ELSE notified
            /\ audit' = audit \cup {k}
       ELSE UNCHANGED <<attempt, notified, audit>>
    /\ Forget(k)
    /\ UNCHANGED <<storeVars, clock, ledger, rotation, coverage, history, events>>

\* Mutant: an attempt that failed is released for the next run.
MarkUncertain_Releases(k) ==
  /\ Step(k, "uncertain", "done")
  /\ attempt' = IF Mine(k) THEN [attempt EXCEPT !.state = "idle"] ELSE attempt
  /\ Forget(k)
  /\ UNCHANGED <<storeVars, clock, ledger, rotation, notified, coverage, audit,
                 history, events>>

\* Whatever failed, the attempt is never replayed.
MarkUncertain(k) ==
  /\ Step(k, "uncertain", "done")
  /\ attempt' = IF Mine(k) THEN [attempt EXCEPT !.state = "uncertain"] ELSE attempt
  /\ Forget(k)
  /\ UNCHANGED <<storeVars, clock, ledger, rotation, notified, coverage, audit,
                 history, events>>

\* A run is cut off between any two of its statements.
Cutoff(k) ==
  /\ pc[k] \notin {"waiting", "done"}
  /\ pc' = [pc EXCEPT ![k] = "done"]
  /\ Forget(k) /\ ReadOnly

----------------------------------------------------------------------------
\* The heartbeat reads one row, pings the monitor or withholds the ping, and
\* changes nothing: it is the predicate on which it pings at time now.
Ready(now) ==
  /\ attempt.state = "idle" /\ notified.at > 0
  /\ 0 < coverage /\ coverage <= now /\ now - coverage <= MaxAge

----------------------------------------------------------------------------
(* The environment. *)

\* Results of deliveries and replies, and mailbox proofs, are written to the
\* health row of the active policy.
Evidence(r) ==
  /\ events < MaxEvents /\ events' = events + 1
  /\ health[r] # None /\ health[r].policy = runtime /\ rows[r].kind # "sink"
  /\ \E plane \in Planes :
       \/ health' = [health EXCEPT ![r].status[plane] = "failed"] /\ UNCHANGED proven
       \/ /\ health' = [health EXCEPT ![r].status[plane] = "verified", ![r].proof[plane] = clock]
          /\ proven' = proven \cup {<<r, plane, runtime, clock>>}
  /\ UNCHANGED <<objects, runtime, desired, reviews, rows, identities, imports,
                 clock, canaryVars, runVars, sent, active, covered>>

Activated == active' = active \cup {<<runtime', clock>>}

PolicyChange ==
  /\ \/ Upload /\ UNCHANGED active
     \/ \E change \in Installables : Bootstrap(change[1], change[2]) /\ Activated
     \/ \E change \in Installables : ApplyReview(change[1], change[2]) /\ Activated
  /\ UNCHANGED <<clock, canaryVars, runVars, sent, proven, covered, events>>

Tick ==
  /\ clock < MaxClock /\ clock' = clock + 1
  /\ active' = IF runtime = None THEN active ELSE active \cup {<<runtime, clock'>>}
  /\ UNCHANGED <<storeVars, canaryVars, runVars, sent, proven, covered, events>>

----------------------------------------------------------------------------
Init ==
  /\ InitStore
  /\ clock = 1
  /\ ledger = [r \in Routes |-> None] /\ rotation = {}
  /\ attempt = [id |-> None, state |-> "idle"]
  /\ notified = [report |-> None, at |-> 0] /\ coverage = 0 /\ audit = {}
  /\ pc = [k \in Runs |-> "waiting"] /\ view = [k \in Runs |-> NoView]
  /\ sent = <<>> /\ proven = {} /\ active = {} /\ covered = {} /\ events = 0

RunStep(k) ==
  \/ Start(k) \/ LoadPointer(k) \/ LoadObject(k) \/ LoadInventory(k)
  \/ ReadRevision(k) \/ ReadRoutes(k) \/ RecordCoverage(k)
  \/ ReadPrevious(k) \/ Claim(k) \/ Send(k) \/ SaveNotice(k) \/ MarkUncertain(k)
  \/ Cutoff(k)

Next ==
  \/ \E k \in Runs : RunStep(k)
  \/ \E r \in Stored : Evidence(r)
  \/ PolicyChange
  \/ Tick

Spec == Init /\ [][Next]_vars

----------------------------------------------------------------------------
\* Overlapping runs never repeat a notification: of two in a row, the later
\* run reports something else, or started a day or more after the earlier.
NoticesAreNews ==
  \A i \in 1..(Len(sent) - 1) :
    \/ sent[i].report # sent[i + 1].report
    \/ sent[i].at <= sent[i + 1].at - Day

\* A notification whose outcome is not on record stops all others: every one
\* but the last is in the audit log, and nothing is there that was not sent.
AllButLastAudited ==
  /\ \A i \in 1..(Len(sent) - 1) : sent[i].run \in audit
  /\ \A k \in audit : \E i \in 1..Len(sent) : sent[i].run = k

\* Whenever the heartbeat pings, the ledger of a whole run was saved within the
\* allowed age, and a notification was accepted before.
PingMeansCoverage ==
  Ready(clock) =>
    /\ \E t \in covered : t <= clock /\ clock - t <= MaxAge
    /\ audit # {}

\* The ledger is true, however late it was written: its policy was active since
\* the recorded read, has the route, and its proofs were taken under that policy.
LedgerIsTrue ==
  \A r \in DOMAIN ledger : ledger[r] # None =>
    LET e == ledger[r] IN
    /\ r \in DOMAIN Projection[e.policy]
    /\ \E t \in e.configuration..MaxClock : <<e.policy, t>> \in active
    /\ \A plane \in Planes :
         e.proof[plane] # None => <<r, plane, e.policy, e.proof[plane]>> \in proven
=============================================================================
