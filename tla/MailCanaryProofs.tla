-------------------------- MODULE MailCanaryProofs ---------------------------
(***************************************************************************)
(* What the canary reports and records, proved for every number of runs,   *)
(* every history of policies, every interval and every set of routes.      *)
(*                                                                         *)
(* That two notifications in a row differ depends on who may send: Notices *)
(* says that only the run that holds the attempt does, and that the row it *)
(* was compared with is the last notification.  That the ledger is true,   *)
(* although it is written long after the reads, depends on what a run      *)
(* carries: Evidenced says of every carried entry what is asked of a       *)
(* written one.                                                            *)
(*                                                                         *)
(* What a policy answers about a route and whom it lets reply as whom are  *)
(* facts of the documents activation accepted: they follow from what the   *)
(* activation requires of every document it lets through.                  *)
(***************************************************************************)
EXTENDS MailCanary, SequenceTheorems, TLAPS

ASequence(s) == \E S : s \in Seq(S)

ShapedView(v)   == DOMAIN v = {"now", "policy", "report", "entries", "probes"}
ShapedHealth(h) ==
  /\ DOMAIN h = {"policy", "provider", "status", "proof"}
  /\ DOMAIN h.proof = Planes

ShapedEntry(e)  == DOMAIN e = {"policy", "configuration", "proof"}

\* The fields of the records that statements update in place.
Shaped ==
  /\ DOMAIN rows = Routes /\ DOMAIN health = Routes
  /\ \A r \in Routes : health[r] # None => ShapedHealth(health[r])
  /\ DOMAIN view = Runs /\ DOMAIN pc = Runs
  /\ \A k \in Runs : ShapedView(view[k])
  /\ attempt = [id |-> attempt.id, state |-> attempt.state]
  /\ ASequence(sent)

\* The last notification, which the state row remembers.
LastNotice == sent[Len(sent)]

Settled ==
  \/ sent = <<>>
  \/ /\ notified = [report |-> LastNotice.report, at |-> LastNotice.at]
     /\ LastNotice.run \in audit

Notice(k) == [run |-> k, report |-> view[k].report, at |-> view[k].now]

\* One run at a time sends, and it knows the last notification.
Notices ==
  /\ \A k \in Runs : pc[k] \in {"send", "save"} => Mine(k)
  /\ attempt.state = "idle" => Settled
  /\ \A k \in Runs : pc[k] = "send" => Settled /\ News(view[k].report, view[k].now)
  /\ \A k \in Runs : pc[k] = "save" => sent # <<>> /\ LastNotice = Notice(k)
  /\ AllButLastAudited /\ NoticesAreNews

\* A ping counts on a saved ledger and an accepted notification.
Pingable ==
  /\ coverage = 0 \/ coverage \in covered
  /\ notified.at = 0 \/ audit # {}

\* What LedgerIsTrue says of an entry.
EntryTrue(r, e) ==
  /\ r \in DOMAIN Projection[e.policy]
  /\ \E t \in e.configuration..MaxClock : <<e.policy, t>> \in active
  /\ \A plane \in Planes :
       e.proof[plane] # None => <<r, plane, e.policy, e.proof[plane]>> \in proven

\* The health rows are evidence of their policy, and a run's entries are true
\* from the moment it read them.
Evidenced ==
  /\ clock \in 1..MaxClock
  /\ runtime # None => <<runtime, clock>> \in active
  /\ \A k \in Runs : view[k].now \in 0..clock
  /\ \A k \in Runs :
       pc[k] \in {"object", "inventory", "revision", "routes"} => view[k].policy # None
  /\ \A k \in Runs : pc[k] = "record" =>
       \A r \in DOMAIN view[k].entries :
         ShapedEntry(view[k].entries[r]) /\ EntryTrue(r, view[k].entries[r])
  /\ \A r \in Routes : health[r] # None => \A plane \in Planes :
       health[r].proof[plane] # None =>
         <<r, plane, health[r].policy, health[r].proof[plane]>> \in proven
  /\ LedgerIsTrue

\* The rows of the active policy are those its import left, and the only ones
\* that are enabled.
Imported ==
  /\ \A r \in Routes : rows[r] # None => "enabled" \in DOMAIN rows[r]
  /\ runtime # None =>
       /\ runtime \in Accepted
       /\ \A r \in DOMAIN Projection[runtime] :
            r \in Routes /\ rows[r] = Row(runtime, Projection[runtime][r])
       /\ \A r \in Routes \ DOMAIN Projection[runtime] : rows[r] # None => ~rows[r].enabled

CanaryInv == Shaped /\ Notices /\ Pingable /\ Evidenced /\ Imported

----------------------------------------------------------------------------
(* Shapes.                                                                 *)

\* A sequence with one more element is a sequence.
LEMMA AppendAny ==
  ASSUME NEW s, NEW e, ASequence(s)
  PROVE  /\ ASequence(Append(s, e))
         /\ Len(s) \in Nat /\ Len(Append(s, e)) = Len(s) + 1
         /\ \A i \in 1..Len(s) : Append(s, e)[i] = s[i]
         /\ Append(s, e)[Len(s) + 1] = e
         /\ Append(s, e) # <<>>
         /\ s = <<>> <=> Len(s) = 0
PROOF
  <1>1. PICK S : s \in Seq(S)  BY DEF ASequence
  <1>2. PICK n \in Nat : s \in [1..n -> S]  BY <1>1, SeqDef
  <1>3. s \in [1..n -> S \cup {e}]  BY <1>2
  <1>4. s \in Seq(S \cup {e})  BY <1>3, SeqDef
  <1>5. QED BY <1>4 DEF ASequence

\* The locals a run starts with.
LEMMA NewView ==
  /\ ShapedView(NoView) /\ NoView.now = 0
  /\ \A now : ShapedView([NoView EXCEPT !.now = now]) /\ [NoView EXCEPT !.now = now].now = now
PROOF BY DEF ShapedView, NoView

\* A run's step: its own label and locals, and what it left of the records.
LEMMA RunFrame ==
  ASSUME Shaped, NEW k \in Runs, RunStep(k)
  PROVE  /\ UNCHANGED <<storeVars, clock, proven, active, events>>
         /\ DOMAIN pc' = Runs /\ DOMAIN view' = Runs
         /\ \A j \in Runs : j # k => pc'[j] = pc[j] /\ view'[j] = view[j]
         /\ ShapedView(view'[k])
         /\ view'[k].now \in {view[k].now, clock, 0}
PROOF
  <1> USE DEF Shaped, Step, See, Forget, ReadOnly, history
  <1>1. /\ UNCHANGED <<storeVars, clock, proven, active, events>>
        /\ DOMAIN pc' = Runs /\ DOMAIN view' = Runs
        /\ \A j \in Runs : j # k => pc'[j] = pc[j] /\ view'[j] = view[j]
    BY DEF RunStep, Start, NoInventory, Read, LoadPointer, LoadObject, LoadInventory,
           ReadRevision, ReadRoutes, RecordCoverage, ReadPrevious, Claim, Send, SaveNotice,
           MarkUncertain, Cutoff
  <1>2. ShapedView(view'[k]) /\ view'[k].now \in {view[k].now, clock, 0}
    <2>1. CASE UNCHANGED view \/ See(k, NoView)  BY <2>1, NewView
    <2>2. ASSUME NEW w, ShapedView(w), w.now \in {view[k].now, clock}, See(k, w)
          PROVE  ShapedView(view'[k]) /\ view'[k].now \in {view[k].now, clock, 0}
      BY <2>2
    <2>3. CASE \E from : NoInventory(k, from)
      BY <2>3 DEF NoInventory, ShapedView
    <2>4. CASE Start(k)  BY <2>2, <2>4, NewView DEF Start
    <2>5. CASE LoadPointer(k)  BY <2>3, <2>5 DEF LoadPointer, ShapedView
    <2>6. CASE ReadRoutes(k)
      <3>1. CASE NoInventory(k, "routes")  BY <2>3, <3>1
      <3>2. CASE ~NoInventory(k, "routes")
        <4>1. PICK blocked \in Blocked :
                See(k, [view[k] EXCEPT
                          !.report = Report(view[k].policy, RoutesRead(view[k].policy), view[k].now, blocked),
                          !.policy = None,
                          !.entries = Entries(view[k].policy, RoutesRead(view[k].policy), view[k].now),
                          !.probes = SelectProbes(RoutesRead(view[k].policy), view[k].now)])
          BY <2>6, <3>2 DEF ReadRoutes
        <4>2. QED BY <4>1 DEF ShapedView
      <3>3. QED BY <3>1, <3>2
    <2>7. CASE RecordCoverage(k)
      <3>1. PICK report :
              See(k, [view[k] EXCEPT !.entries = None, !.probes = {}, !.report = report])
        BY <2>7 DEF RecordCoverage
      <3>2. QED BY <3>1 DEF ShapedView
    <2>8. CASE LoadObject(k) \/ LoadInventory(k) \/ ReadRevision(k)
      BY <2>1, <2>3, <2>8 DEF LoadObject, LoadInventory, ReadRevision, Read
    <2>9. CASE ReadPrevious(k) \/ Claim(k) \/ Send(k) \/ SaveNotice(k) \/ MarkUncertain(k) \/ Cutoff(k)
      BY <2>1, <2>9 DEF ReadPrevious, Claim, Send, SaveNotice, MarkUncertain, Cutoff
    <2>10. QED BY <2>3, <2>4, <2>5, <2>6, <2>7, <2>8, <2>9 DEF RunStep, LoadPointer
  <1>3. QED BY <1>1, <1>2

\* An import rewrites the rows of its routes, and keeps evidence of its policy.
LEMMA ImportHealth ==
  ASSUME Shaped, NEW p, NEW s, Import(p, s)
  PROVE  /\ runtime' = p
         /\ DOMAIN rows' = Routes /\ DOMAIN health' = Routes
         /\ \A r \in Routes :
              \/ health'[r] = health[r]
              \/ /\ ShapedHealth(health'[r])
                 /\ \/ health'[r].proof = NoEvidence
                    \/ /\ health[r] # None /\ health'[r].policy = health[r].policy
                       /\ health'[r].proof = health[r].proof
PROOF
  <1> USE DEF Shaped
  <1>1. PICK projected : rows' = RowsAfter(p, projected) /\ health' = HealthAfter(p, projected, s)
    BY DEF Import
  <1>2. runtime' = p  BY DEF Import
  <1>3. DOMAIN rows' = Routes /\ DOMAIN health' = Routes
    BY <1>1 DEF RowsAfter, HealthAfter
  <1>4. ASSUME NEW r \in Routes, r \in DOMAIN projected
        PROVE  /\ ShapedHealth(health'[r])
               /\ \/ health'[r].proof = NoEvidence
                  \/ /\ health[r] # None /\ health'[r].policy = health[r].policy
                     /\ health'[r].proof = health[r].proof
    <2> DEFINE provider == DesiredState[s][r[1]].provider
               status == InitialStatus(projected[r], provider)
               keeps == health[r] # None /\ ~ProofAuthorityChanged(health[r], p, status, provider)
    <2>1. health'[r] =
            [policy |-> p, provider |-> provider,
             status |-> IF keeps THEN health[r].status ELSE [plane \in Planes |-> status],
             proof |-> IF keeps THEN health[r].proof ELSE NoEvidence]
      BY <1>1, <1>4 DEF HealthAfter
    <2> HIDE DEF provider, status
    <2>2. CASE keeps
      <3>1. health[r].policy = p /\ DOMAIN health[r].proof = Planes
        BY <1>4, <2>2 DEF ProofAuthorityChanged, ShapedHealth
      <3>2. QED BY <2>1, <2>2, <3>1 DEF ShapedHealth
    <2>3. CASE ~keeps  BY <2>1, <2>3 DEF ShapedHealth, NoEvidence
    <2>4. QED BY <2>2, <2>3
  <1>5. ASSUME NEW r \in Routes, r \notin DOMAIN projected  PROVE health'[r] = health[r]
    BY <1>1, <1>5 DEF HealthAfter
  <1>6. QED BY <1>2, <1>3, <1>4, <1>5

\* What a policy change leaves of the canary, and what it installs.
LEMMA PolicyFrame ==
  ASSUME PolicyChange
  PROVE  /\ UNCHANGED <<clock, canaryVars, runVars, sent, proven, covered, events>>
         /\ \/ UNCHANGED <<rows, health, runtime, active>>
            \/ (\E p, s : Import(p, s)) /\ Activated
PROOF
  <1>1. CASE Upload /\ UNCHANGED active  BY <1>1 DEF PolicyChange, Upload
  <1>2. CASE \E change \in Installables : Bootstrap(change[1], change[2]) /\ Activated
    BY <1>2 DEF PolicyChange, Bootstrap
  <1>3. CASE \E change \in Installables : ApplyReview(change[1], change[2]) /\ Activated
    BY <1>3 DEF PolicyChange, ApplyReview
  <1>4. QED BY <1>1, <1>2, <1>3 DEF PolicyChange

LEMMA ShapedKept ==
  ASSUME Shaped, [Next]_vars
  PROVE  Shaped'
PROOF
  <1> USE DEF Shaped
  <1>1. ASSUME NEW k \in Runs, RunStep(k)  PROVE Shaped'
    <2>1. attempt' \in {attempt, [id |-> k, state |-> "sending"], [attempt EXCEPT !.state = "idle"],
                        [attempt EXCEPT !.state = "uncertain"]}
      BY <1>1 DEF RunStep, Start, NoInventory, Read, LoadPointer, LoadObject, LoadInventory,
           ReadRevision, ReadRoutes, RecordCoverage, ReadPrevious, Claim, Send, SaveNotice,
           MarkUncertain, Cutoff, ReadOnly, canaryVars
    <2>2. attempt' = [id |-> attempt'.id, state |-> attempt'.state]  BY <2>1
    <2>3. sent' = sent \/ \E e : sent' = Append(sent, e)
      BY <1>1 DEF RunStep, Start, NoInventory, Read, LoadPointer, LoadObject, LoadInventory,
           ReadRevision, ReadRoutes, RecordCoverage, ReadPrevious, Claim, Send, SaveNotice,
           MarkUncertain, Cutoff, ReadOnly, history
    <2>4. ASequence(sent')  BY <2>3, AppendAny
    <2>5. QED BY <1>1, <2>2, <2>4, RunFrame DEF storeVars
  <1>2. ASSUME NEW r \in Stored, Evidence(r)  PROVE Shaped'
    <2>1. /\ r \in Routes /\ ShapedHealth(health[r])
          /\ UNCHANGED <<rows, runVars, attempt, sent>>
      BY <1>2 DEF Evidence, Stored, canaryVars
    <2>2. PICK status, proof :
            /\ DOMAIN proof = Planes
            /\ DOMAIN health' = Routes
            /\ \A q \in Routes : q # r => health'[q] = health[q]
            /\ DOMAIN health'[r] = {"policy", "provider", "status", "proof"}
            /\ health'[r].proof = proof
      BY <1>2, <2>1 DEF Evidence, ShapedHealth
    <2>3. QED BY <2>1, <2>2 DEF ShapedHealth, runVars
  <1>3. CASE PolicyChange
    <2>1. UNCHANGED <<runVars, attempt, sent>>  BY <1>3, PolicyFrame DEF canaryVars
    <2>2. /\ DOMAIN rows' = Routes /\ DOMAIN health' = Routes
          /\ \A r \in Routes : health'[r] # None => ShapedHealth(health'[r])
      BY <1>3, PolicyFrame, ImportHealth
    <2>3. QED BY <2>1, <2>2 DEF runVars
  <1>4. CASE Tick  BY <1>4 DEF Tick, storeVars, canaryVars, runVars
  <1>5. CASE UNCHANGED vars  BY <1>5 DEF vars, storeVars, canaryVars, runVars, history
  <1>6. QED BY <1>1, <1>2, <1>3, <1>4, <1>5 DEF Next

----------------------------------------------------------------------------
(* Notifications.                                                          *)

\* A step that sends nothing, changes no attempt and lets no run into its send.
LEMMA NoticesFrame ==
  ASSUME Notices, NEW k \in Runs,
         UNCHANGED <<attempt, notified, audit, sent>>,
         \A j \in Runs : j # k => pc'[j] = pc[j] /\ view'[j] = view[j],
         pc'[k] \notin {"send", "save"}
  PROVE  Notices'
PROOF
  BY DEF Notices, Mine, Settled, LastNotice, Notice, News, AllButLastAudited, NoticesAreNews

LEMMA ClaimNotices ==
  ASSUME Shaped, Notices, NEW k \in Runs, Claim(k)
  PROVE  Notices'
PROOF
  <1> USE DEF Shaped
  <1>1. UNCHANGED <<notified, audit, sent>> /\ pc[k] = "claim"
    BY DEF Claim, Step, history
  <1>2. \A j \in Runs : j # k => pc'[j] = pc[j] /\ view'[j] = view[j]
    BY RunFrame DEF RunStep
  <1>3. CASE ~ClaimAllowed(view[k].report, view[k].now)
    <2>1. UNCHANGED attempt /\ pc'[k] = "done"  BY <1>3 DEF Claim, Step
    <2>2. QED BY <1>1, <1>2, <2>1, NoticesFrame
  <1>4. CASE ClaimAllowed(view[k].report, view[k].now)
    <2>1. attempt' = [id |-> k, state |-> "sending"] /\ pc'[k] = "send" /\ view'[k] = view[k]
      BY <1>4 DEF Claim, Step, Forget
    <2>2. attempt.state = "idle" /\ Settled /\ News(view[k].report, view[k].now)
      BY <1>4 DEF ClaimAllowed, Notices
    <2>3. \A j \in Runs : pc[j] \notin {"send", "save"}
      BY <2>2 DEF Notices, Mine
    <2>4. \A j \in Runs : pc'[j] \in {"send", "save"} => j = k
      BY <1>2, <2>3
    <2>5. Settled' /\ News(view[k].report, view[k].now)'
      BY <1>1, <2>1, <2>2 DEF Settled, LastNotice, News
    <2>6. AllButLastAudited' /\ NoticesAreNews'
      BY <1>1 DEF Notices, AllButLastAudited, NoticesAreNews
    <2>7. QED BY <2>1, <2>4, <2>5, <2>6 DEF Notices, Mine
  <1>5. QED BY <1>3, <1>4

LEMMA SendNotices ==
  ASSUME Shaped, Notices, NEW k \in Runs, Send(k)
  PROVE  Notices'
PROOF
  <1> USE DEF Shaped
  <1>1. PICK taken \in BOOLEAN, told \in BOOLEAN :
          /\ told => taken
          /\ pc[k] = "send" /\ pc' = [pc EXCEPT ![k] = IF told THEN "save" ELSE "uncertain"]
          /\ sent' = IF taken THEN Append(sent, Notice(k)) ELSE sent
          /\ UNCHANGED <<attempt, notified, audit, view>>
    BY DEF Send, Step, Notice, canaryVars
  <1>2. Mine(k) /\ Settled /\ News(view[k].report, view[k].now)
    BY <1>1 DEF Notices
  <1>3. \A j \in Runs : pc[j] \in {"send", "save"} => j = k
    BY <1>2 DEF Notices, Mine
  <1>4. CASE ~taken
    BY <1>1, <1>4, NoticesFrame
  <1>5. CASE taken
    <2> DEFINE n == Len(sent)
    <2>1. /\ n \in Nat /\ Len(sent') = n + 1 /\ sent' # <<>>
          /\ \A i \in 1..n : sent'[i] = sent[i]
          /\ sent'[n + 1] = Notice(k)
          /\ sent = <<>> <=> n = 0
      BY <1>1, <1>5, AppendAny
    <2>2. n # 0 => /\ sent[n].run \in audit
                   /\ notified.report = sent[n].report /\ notified.at = sent[n].at
      BY <1>2, <2>1 DEF Settled, LastNotice
    <2>3. ASSUME NEW i \in 1..n
          PROVE  /\ sent'[i].run \in audit
                 /\ \/ sent'[i].report # sent'[i + 1].report
                    \/ sent'[i].at <= sent'[i + 1].at - Day
      <3>1. CASE i = n
        <4>1. Notice(k).report = view[k].report /\ Notice(k).at = view[k].now  BY DEF Notice
        <4>2. QED BY <1>2, <2>1, <2>2, <3>1, <4>1 DEF News
      <3>2. CASE i # n
        <4>1. i \in 1..(n - 1) /\ i + 1 \in 1..n  BY <2>1, <3>2
        <4>2. QED BY <2>1, <4>1 DEF Notices, AllButLastAudited, NoticesAreNews
      <3>3. QED BY <3>1, <3>2
    <2>4. AllButLastAudited'
      <3>1. \A i \in 1..(Len(sent') - 1) : sent'[i].run \in audit  BY <2>1, <2>3
      <3>2. \A j \in audit : \E i \in 1..Len(sent') : sent'[i].run = j
        BY <2>1 DEF Notices, AllButLastAudited
      <3>3. QED BY <1>1, <3>1, <3>2 DEF AllButLastAudited
    <2>5. NoticesAreNews'
      BY <2>1, <2>3 DEF NoticesAreNews
    <2>6. attempt'.state # "idle"  BY <1>1, <1>2 DEF Mine
    <2>7. \A j \in Runs : pc'[j] \in {"send", "save"} => j = k /\ pc'[j] = "save"
      BY <1>1, <1>3
    <2>8. sent' # <<>> /\ LastNotice' = Notice(k)'
      BY <1>1, <2>1 DEF LastNotice, Notice
    <2>9. QED BY <1>1, <1>2, <2>4, <2>5, <2>6, <2>7, <2>8 DEF Notices, Mine
  <1>6. QED BY <1>4, <1>5

LEMMA SaveNoticeNotices ==
  ASSUME Shaped, Notices, NEW k \in Runs, SaveNotice(k)
  PROVE  Notices'
PROOF
  <1> USE DEF Shaped
  <1>1. pc[k] = "save" /\ UNCHANGED sent /\ pc'[k] \notin {"send", "save"}
    BY DEF SaveNotice, Step, history
  <1>2. \A j \in Runs : j # k => pc'[j] = pc[j] /\ view'[j] = view[j]
    BY RunFrame DEF RunStep
  <1>3. Mine(k) /\ sent # <<>> /\ LastNotice = Notice(k)
    BY <1>1 DEF Notices
  <1>4. \A j \in Runs : pc'[j] \notin {"send", "save"}
    BY <1>1, <1>2, <1>3 DEF Notices, Mine
  <1>5. CASE UNCHANGED <<attempt, notified, audit>>
    BY <1>1, <1>2, <1>5, NoticesFrame
  <1>6. CASE /\ attempt' = [attempt EXCEPT !.state = "idle"]
             /\ notified' = [report |-> view[k].report, at |-> view[k].now]
             /\ audit' = audit \cup {k}
    <2>1. Settled'
      <3>1. LastNotice' = LastNotice  BY <1>1 DEF LastNotice
      <3>2. LastNotice.run = k /\ LastNotice.report = view[k].report /\ LastNotice.at = view[k].now
        BY <1>3 DEF Notice
      <3>3. QED BY <1>6, <3>1, <3>2 DEF Settled
    <2>2. AllButLastAudited'
      <3>1. Len(sent) \in 1..Len(sent)
        BY <1>3, AppendAny
      <3>2. sent[Len(sent)].run = k  BY <1>3 DEF Notice, LastNotice
      <3>3. QED BY <1>1, <1>6, <3>1, <3>2 DEF Notices, AllButLastAudited
    <2>3. NoticesAreNews'  BY <1>1 DEF Notices, NoticesAreNews
    <2>4. QED BY <1>4, <2>1, <2>2, <2>3 DEF Notices
  <1>7. QED BY <1>3, <1>5, <1>6 DEF SaveNotice

\* The runs and the environment, one after the other.
LEMMA NoticesKept ==
  ASSUME Shaped, Notices, [Next]_vars
  PROVE  Notices'
PROOF
  <1> USE DEF Shaped
  <1>1. ASSUME NEW k \in Runs, RunStep(k)  PROVE Notices'
    <2>1. \A j \in Runs : j # k => pc'[j] = pc[j] /\ view'[j] = view[j]
      BY <1>1, RunFrame
    <2>2. CASE Claim(k)  BY <2>2, ClaimNotices
    <2>3. CASE Send(k)  BY <2>3, SendNotices
    <2>4. CASE SaveNotice(k)  BY <2>4, SaveNoticeNotices
    <2>5. CASE MarkUncertain(k)
      <3>1. /\ UNCHANGED <<notified, audit, sent>> /\ pc[k] = "uncertain" /\ pc'[k] = "done"
            /\ attempt' = IF Mine(k) THEN [attempt EXCEPT !.state = "uncertain"] ELSE attempt
        BY <2>5 DEF MarkUncertain, Step, history
      <3>2. CASE ~Mine(k)  BY <2>1, <3>1, <3>2, NoticesFrame
      <3>3. CASE Mine(k)
        <4>1. attempt'.state = "uncertain"  BY <3>1, <3>3
        <4>2. \A j \in Runs : pc'[j] \notin {"send", "save"}
          BY <2>1, <3>1, <3>3 DEF Notices, Mine
        <4>3. AllButLastAudited' /\ NoticesAreNews'
          BY <3>1 DEF Notices, AllButLastAudited, NoticesAreNews
        <4>4. QED BY <4>1, <4>2, <4>3 DEF Notices
      <3>4. QED BY <3>2, <3>3
    <2>6. CASE RecordCoverage(k)
      BY <2>1, <2>6, NoticesFrame DEF RecordCoverage, Step
    <2>7. CASE \/ Start(k) \/ LoadPointer(k) \/ LoadObject(k) \/ LoadInventory(k)
               \/ ReadRevision(k) \/ ReadRoutes(k) \/ ReadPrevious(k) \/ Cutoff(k)
      <3>1. UNCHANGED <<attempt, notified, audit, sent>> /\ pc'[k] \notin {"send", "save"}
        BY <2>7 DEF Start, NoInventory, Read, LoadPointer, LoadObject, LoadInventory, ReadRevision,
             ReadRoutes, ReadPrevious, Cutoff, Step, ReadOnly, canaryVars, history
      <3>2. QED BY <2>1, <3>1, NoticesFrame
    <2>8. QED BY <1>1, <2>2, <2>3, <2>4, <2>5, <2>6, <2>7 DEF RunStep
  <1>2. CASE UNCHANGED <<attempt, notified, audit, sent, pc, view>>
    BY <1>2 DEF Notices, Mine, Settled, LastNotice, Notice, News, AllButLastAudited, NoticesAreNews
  <1>3. CASE (\E r \in Stored : Evidence(r)) \/ PolicyChange \/ Tick \/ UNCHANGED vars
    BY <1>2, <1>3, PolicyFrame DEF Evidence, Tick, vars, canaryVars, runVars, history
  <1>4. QED BY <1>1, <1>3 DEF Next

\* A ping counts on what the saves of the ledger and of the notice left.
LEMMA PingableKept ==
  ASSUME Shaped, Notices, Pingable, [Next]_vars
  PROVE  Pingable'
PROOF
  <1>1. ASSUME NEW k \in Runs, RunStep(k)  PROVE Pingable'
    <2>1. CASE RecordCoverage(k)
      BY <2>1 DEF RecordCoverage, SaveCoverage, Pingable
    <2>2. CASE SaveNotice(k)
      BY <2>2 DEF SaveNotice, Pingable, history
    <2>3. CASE ~RecordCoverage(k) /\ ~SaveNotice(k)
      BY <1>1, <2>3 DEF RunStep, Start, NoInventory, Read, LoadPointer, LoadObject, LoadInventory,
           ReadRevision, ReadRoutes, ReadPrevious, Claim, Send, MarkUncertain, Cutoff, ReadOnly,
           canaryVars, history, Pingable
    <2>4. QED BY <2>1, <2>2, <2>3
  <1>2. CASE UNCHANGED <<coverage, covered, notified, audit>>
    BY <1>2 DEF Pingable
  <1>3. CASE (\E r \in Stored : Evidence(r)) \/ PolicyChange \/ Tick \/ UNCHANGED vars
    BY <1>2, <1>3, PolicyFrame DEF Evidence, Tick, vars, canaryVars, history
  <1>4. QED BY <1>1, <1>3 DEF Next

----------------------------------------------------------------------------
(* The ledger.                                                             *)

\* A true entry stays true.
LEMMA TrueStays ==
  ASSUME active \subseteq active', proven \subseteq proven', NEW r, NEW e, EntryTrue(r, e)
  PROVE  EntryTrue(r, e)'
PROOF BY DEF EntryTrue

\* The entries of a run are true when it reads the routes.
LEMMA EntriesTrue ==
  ASSUME Shaped, Evidenced, NEW k \in Runs, pc[k] = "routes",
         InventoryMatches(view[k].policy, RoutesRead(view[k].policy)),
         NEW r \in RoutesRead(view[k].policy)
  PROVE  LET e == Entries(view[k].policy, RoutesRead(view[k].policy), view[k].now)[r]
         IN ShapedEntry(e) /\ EntryTrue(r, e)
PROOF
  <1> DEFINE p == view[k].policy
             now == view[k].now
             e == Entries(p, RoutesRead(p), now)[r]
  <1>1. /\ r \in Routes /\ runtime = p /\ p # None
    BY DEF RoutesRead, Stored, Shaped, Evidenced
  <1>2. r \in DOMAIN Projection[p]  BY DEF InventoryMatches
  <1>3. clock \in now..MaxClock /\ <<p, clock>> \in active
    BY <1>1 DEF Evidenced
  <1>4. /\ ShapedEntry(e) /\ e.policy = p /\ e.configuration = now
        /\ \A plane \in Planes :
             e.proof[plane] = IF r \in Revised(RoutesRead(p), p) THEN ProofAt(r, plane, now) ELSE None
    BY DEF Entries, ShapedEntry
  <1>5. ASSUME NEW plane \in Planes, e.proof[plane] # None
        PROVE  <<r, plane, p, e.proof[plane]>> \in proven
    <2>1. r \in Revised(RoutesRead(p), p) /\ e.proof[plane] = ProofAt(r, plane, now)
      BY <1>4, <1>5
    <2>2. health[r] # None /\ health[r].policy = p  BY <2>1 DEF Revised
    <2>3. e.proof[plane] = health[r].proof[plane] /\ health[r].proof[plane] # None
      BY <1>5, <2>1 DEF ProofAt
    <2>4. QED BY <1>1, <2>2, <2>3 DEF Evidenced
  <1> HIDE DEF e
  <1>6. ShapedEntry(e) /\ EntryTrue(r, e)
    BY <1>2, <1>3, <1>4, <1>5 DEF EntryTrue
  <1>7. QED BY <1>6 DEF e

\* One row of a saved ledger.
LEMMA UpsertTrue ==
  ASSUME NEW r, NEW old, NEW new, old # None => EntryTrue(r, old), ShapedEntry(new), EntryTrue(r, new)
  PROVE  EntryTrue(r, Upsert(old, new))
PROOF
  <1>1. CASE ~(old # None /\ old.policy = new.policy)  BY <1>1 DEF Upsert
  <1>2. CASE old # None /\ old.policy = new.policy
    <2>1. /\ Upsert(old, new).policy = new.policy /\ Upsert(old, new).proof = new.proof
          /\ Upsert(old, new).configuration = old.configuration
      BY <1>2 DEF Upsert, ShapedEntry
    <2>2. QED BY <1>2, <2>1 DEF EntryTrue
  <1>3. QED BY <1>1, <1>2

LEMMA SaveKeepsTruth ==
  ASSUME Evidenced, NEW k \in Runs, pc[k] = "record", RecordCoverage(k)
  PROVE  \A r \in DOMAIN ledger' : ledger'[r] # None => EntryTrue(r, ledger'[r])
PROOF
  <1>1. \A r \in DOMAIN ledger : ledger[r] # None => EntryTrue(r, ledger[r])
    BY DEF Evidenced, LedgerIsTrue, EntryTrue
  <1>2. CASE UNCHANGED ledger  BY <1>1, <1>2
  <1>3. CASE SaveCoverage(k)
    <2> DEFINE entries == view[k].entries
    <2>1. ledger' = [r \in DOMAIN ledger |-> IF r \in DOMAIN entries
                                             THEN Upsert(ledger[r], entries[r]) ELSE ledger[r]]
      BY <1>3 DEF SaveCoverage
    <2>2. ASSUME NEW r \in DOMAIN ledger, ledger'[r] # None  PROVE EntryTrue(r, ledger'[r])
      <3>1. CASE r \in DOMAIN entries
        <4>1. ShapedEntry(entries[r]) /\ EntryTrue(r, entries[r])  BY <3>1 DEF Evidenced
        <4>2. EntryTrue(r, Upsert(ledger[r], entries[r]))
          BY <1>1, <2>2, <4>1, UpsertTrue
        <4>3. QED BY <2>1, <3>1, <4>2
      <3>2. CASE r \notin DOMAIN entries  BY <1>1, <2>1, <2>2, <3>2
      <3>3. QED BY <3>1, <3>2
    <2>3. QED BY <2>1, <2>2
  <1>4. QED BY <1>2, <1>3 DEF RecordCoverage

LEMMA LedgerTrue ==
  ASSUME \A r \in DOMAIN ledger : ledger[r] # None => EntryTrue(r, ledger[r])
  PROVE  LedgerIsTrue
PROOF BY DEF LedgerIsTrue, EntryTrue

\* What a run carries.
LEMMA CarriedTrue ==
  ASSUME Shaped, Evidenced, NEW k \in Runs, RunStep(k)
  PROVE  /\ pc'[k] \in {"object", "inventory", "revision", "routes"} => view'[k].policy # None
         /\ pc'[k] = "record" => \A r \in DOMAIN view'[k].entries :
              ShapedEntry(view'[k].entries[r]) /\ EntryTrue(r, view'[k].entries[r])
PROOF
  <1> USE DEF Shaped, Step, See, Forget
  <1>1. CASE LoadPointer(k)
    BY <1>1 DEF LoadPointer, NoInventory, PointerConsistent, ShapedView
  <1>2. CASE LoadObject(k) \/ LoadInventory(k) \/ ReadRevision(k)
    BY <1>2 DEF LoadObject, LoadInventory, ReadRevision, Read, NoInventory, Evidenced
  <1>3. CASE ReadRoutes(k)
    <2> DEFINE p == view[k].policy
               read == RoutesRead(p)
    <2>1. CASE ~InventoryMatches(p, read)
      BY <1>3, <2>1 DEF ReadRoutes, NoInventory
    <2>2. CASE InventoryMatches(p, read)
      <3>1. pc[k] = "routes" /\ pc'[k] = "record"  BY <1>3, <2>2 DEF ReadRoutes
      <3>2. PICK blocked \in Blocked :
              See(k, [view[k] EXCEPT !.report = Report(p, read, view[k].now, blocked),
                                     !.policy = None,
                                     !.entries = Entries(p, read, view[k].now),
                                     !.probes = SelectProbes(read, view[k].now)])
        BY <1>3, <2>2 DEF ReadRoutes
      <3>3. view'[k].entries = Entries(p, read, view[k].now)
        BY <3>2 DEF ShapedView
      <3>4. DOMAIN Entries(p, read, view[k].now) = read  BY DEF Entries
      <3>5. QED BY <2>2, <3>1, <3>3, <3>4, EntriesTrue
    <2>3. QED BY <2>1, <2>2
  <1>4. CASE ~(LoadPointer(k) \/ LoadObject(k) \/ LoadInventory(k) \/ ReadRevision(k) \/ ReadRoutes(k))
    <2>1. pc'[k] \notin {"object", "inventory", "revision", "routes", "record"}
      BY <1>4 DEF RunStep, Start, RecordCoverage, ReadPrevious, Claim, Send, SaveNotice,
                  MarkUncertain, Cutoff
    <2>2. QED BY <2>1
  <1>5. QED BY <1>1, <1>2, <1>3, <1>4

LEMMA EvidencedRunStep ==
  ASSUME Shaped, Evidenced, NEW k \in Runs, RunStep(k)
  PROVE  Evidenced'
PROOF
  <1>1. /\ UNCHANGED <<rows, health, runtime, clock, proven, active>>
        /\ \A j \in Runs : j # k => pc'[j] = pc[j] /\ view'[j] = view[j]
        /\ view'[k].now \in {view[k].now, clock, 0}
    BY RunFrame DEF storeVars
  <1>2. \A r, e : EntryTrue(r, e) => EntryTrue(r, e)'
    BY <1>1 DEF EntryTrue
  <1>3. \A j \in Runs : view'[j].now \in 0..clock
    BY <1>1 DEF Evidenced
  <1>4. \A j \in Runs :
          pc'[j] \in {"object", "inventory", "revision", "routes"} => view'[j].policy # None
    BY <1>1, CarriedTrue DEF Evidenced
  <1>5. \A j \in Runs : pc'[j] = "record" => \A r \in DOMAIN view'[j].entries :
          ShapedEntry(view'[j].entries[r]) /\ EntryTrue(r, view'[j].entries[r])
    BY <1>1, CarriedTrue DEF Evidenced
  <1>6. LedgerIsTrue'
    <2>1. CASE RecordCoverage(k)
      <3>1. pc[k] = "record"  BY <2>1 DEF RecordCoverage, Step
      <3>2. \A r \in DOMAIN ledger' : ledger'[r] # None => EntryTrue(r, ledger'[r])
        BY <2>1, <3>1, SaveKeepsTruth
      <3>3. QED BY <1>1, <3>2 DEF LedgerIsTrue, EntryTrue
    <2>2. CASE ~RecordCoverage(k)
      <3>1. UNCHANGED ledger
        BY <2>2 DEF RunStep, Start, NoInventory, Read, LoadPointer, LoadObject, LoadInventory,
           ReadRevision, ReadRoutes, ReadPrevious, Claim, Send, SaveNotice, MarkUncertain, Cutoff,
           ReadOnly, canaryVars
      <3>2. QED BY <1>1, <3>1 DEF Evidenced, LedgerIsTrue
    <2>3. QED BY <2>1, <2>2
  <1>7. /\ clock' \in 1..MaxClock
        /\ runtime' # None => <<runtime', clock'>> \in active'
        /\ \A r \in Routes : health'[r] # None => \A plane \in Planes :
             health'[r].proof[plane] # None =>
               <<r, plane, health'[r].policy, health'[r].proof[plane]>> \in proven'
    BY <1>1 DEF Evidenced
  <1>8. \A j \in Runs : pc'[j] = "record" => \A r \in DOMAIN view'[j].entries :
          ShapedEntry(view'[j].entries[r]) /\ EntryTrue(r, view[j].entries[r])'
    BY <1>1, <1>5 DEF EntryTrue
  <1>9. QED BY <1>1, <1>3, <1>4, <1>6, <1>7, <1>8 DEF Evidenced

LEMMA EvidencedEnvironment ==
  ASSUME Shaped, Evidenced,
         (\E r \in Stored : Evidence(r)) \/ PolicyChange \/ Tick \/ UNCHANGED vars
  PROVE  Evidenced'
PROOF
  <1> USE DEF Shaped
  <1>1. ASSUME active \subseteq active', proven \subseteq proven', UNCHANGED <<ledger, pc, view>>
        PROVE  /\ LedgerIsTrue'
               /\ \A k \in Runs :
                    pc'[k] \in {"object", "inventory", "revision", "routes"} => view'[k].policy # None
               /\ \A k \in Runs : pc'[k] = "record" => \A r \in DOMAIN view'[k].entries :
                    ShapedEntry(view'[k].entries[r]) /\ EntryTrue(r, view[k].entries[r])'
    <2>1. \A r, e : EntryTrue(r, e) => EntryTrue(r, e)'
      BY <1>1 DEF EntryTrue
    <2>2. LedgerIsTrue'  BY <1>1 DEF Evidenced, LedgerIsTrue
    <2>3. QED BY <1>1, <2>2 DEF Evidenced, EntryTrue
  <1>2. ASSUME NEW r \in Stored, Evidence(r)  PROVE Evidenced'
    <2>1. UNCHANGED <<clock, runtime, active, ledger, pc, view>> /\ proven \subseteq proven'
      BY <1>2 DEF Evidence, canaryVars, runVars
    <2>2. \A q \in Routes : health'[q] # None => \A plane \in Planes :
             health'[q].proof[plane] # None =>
               <<q, plane, health'[q].policy, health'[q].proof[plane]>> \in proven'
      <3>1. ASSUME NEW plane \in Planes,
                   health' = [health EXCEPT ![r].status[plane] = "failed"], UNCHANGED proven
            PROVE  \A q \in Routes : health'[q] # None => \A u \in Planes :
                     health'[q].proof[u] # None =>
                       <<q, u, health'[q].policy, health'[q].proof[u]>> \in proven'
        <4>1. ASSUME NEW q \in Routes, health'[q] # None
              PROVE  health[q] # None /\ health'[q].policy = health[q].policy
                     /\ health'[q].proof = health[q].proof
          BY <1>2, <3>1, <4>1 DEF Evidence, ShapedHealth
        <4>2. QED BY <3>1, <4>1 DEF Evidenced
      <3>2. ASSUME NEW plane \in Planes,
                   health' = [health EXCEPT ![r].status[plane] = "verified", ![r].proof[plane] = clock],
                   proven' = proven \cup {<<r, plane, runtime, clock>>}
            PROVE  \A q \in Routes : health'[q] # None => \A u \in Planes :
                     health'[q].proof[u] # None =>
                       <<q, u, health'[q].policy, health'[q].proof[u]>> \in proven'
        <4>1. health[r] # None /\ health[r].policy = runtime /\ r \in Routes
          BY <1>2 DEF Evidence, Stored
        <4>2. /\ health'[r].policy = runtime
              /\ \A u \in Planes : health'[r].proof[u] = IF u = plane THEN clock ELSE health[r].proof[u]
          BY <3>2, <4>1 DEF ShapedHealth
        <4>3. \A q \in Routes : q # r => health'[q] = health[q]  BY <3>2
        <4>4. QED BY <3>2, <4>1, <4>2, <4>3 DEF Evidenced
      <3>3. QED BY <1>2, <3>1, <3>2 DEF Evidence
    <2>3. QED BY <1>1, <2>1, <2>2 DEF Evidenced
  <1>3. CASE PolicyChange
    <2>1. UNCHANGED <<clock, ledger, pc, view, proven>> /\ active \subseteq active'
      BY <1>3, PolicyFrame DEF canaryVars, runVars, Activated
    <2>2. runtime' # None => <<runtime', clock>> \in active'
      BY <1>3, PolicyFrame DEF Activated, Evidenced
    <2>3. \A q \in Routes : health'[q] # None => \A plane \in Planes :
             health'[q].proof[plane] # None =>
               <<q, plane, health'[q].policy, health'[q].proof[plane]>> \in proven'
      <3>1. CASE UNCHANGED health  BY <2>1, <3>1 DEF Evidenced
      <3>2. ASSUME NEW p, NEW s, Import(p, s)
            PROVE  \A q \in Routes : health'[q] # None => \A plane \in Planes :
                     health'[q].proof[plane] # None =>
                       <<q, plane, health'[q].policy, health'[q].proof[plane]>> \in proven'
        BY <2>1, <3>2, ImportHealth DEF NoEvidence, Evidenced
      <3>3. QED BY <1>3, <3>1, <3>2, PolicyFrame
    <2>4. QED BY <1>1, <2>1, <2>2, <2>3 DEF Evidenced
  <1>4. CASE Tick
    <2>1. /\ UNCHANGED <<ledger, pc, view, proven, health, runtime>> /\ active \subseteq active'
          /\ clock' = clock + 1 /\ clock < MaxClock
          /\ runtime # None => <<runtime, clock'>> \in active'
      BY <1>4 DEF Tick, canaryVars, runVars, storeVars
    <2>2. clock' \in 1..MaxClock /\ \A k \in Runs : view'[k].now \in 0..clock'
      BY <2>1, CanaryConstants DEF Evidenced
    <2>3. \A q \in Routes : health'[q] # None => \A plane \in Planes :
             health'[q].proof[plane] # None =>
               <<q, plane, health'[q].policy, health'[q].proof[plane]>> \in proven'
      BY <2>1 DEF Evidenced
    <2>4. QED BY <1>1, <2>1, <2>2, <2>3 DEF Evidenced
  <1>5. CASE UNCHANGED vars
    <2>1. UNCHANGED <<clock, runtime, active, proven, health, ledger, pc, view>>
      BY <1>5 DEF vars, storeVars, canaryVars, runVars, history
    <2>2. QED BY <1>1, <2>1 DEF Evidenced
  <1>6. QED BY <1>2, <1>3, <1>4, <1>5

----------------------------------------------------------------------------
(* Reply identities.  What the Rust core answers is a function of the       *)
(* document; what D1 binds, of its projection.                             *)

\* Some mailbox has these parts, and the chosen one does.
LEMMA MailboxOf ==
  ASSUME NEW local, NEW domain, IsMailbox(local, domain)
  PROVE  /\ Mailbox(local, domain) \in Mailboxes
         /\ Parts[Mailbox(local, domain)] = <<local, domain>>
         /\ Normal[Mailbox(local, domain)] = Mailbox(local, domain)
         /\ Mailbox(local, domain) # None
PROOF
  <1>1. /\ Mailbox(local, domain) \in Mailboxes
        /\ Parts[Mailbox(local, domain)] = <<local, domain>>
    BY DEF IsMailbox, Mailbox
  <1>2. QED BY <1>1, RawConstants DEF Mailboxes

\* A decision before the identities of its operators are bound.
Unbound(d) ==
  /\ DOMAIN d = {"domain", "local", "kind", "operators", "identity", "allowed", "own",
                 "candidates"}
  /\ d.own = << >>
  /\ d.kind = "sink" => d.operators = {}

\* The decision of an alias that is not refused.
LEMMA AliasUnbound ==
  ASSUME NEW policy, NEW domain, NEW local, NEW kind, NEW alias, kind # "sink",
         ~Failed(AliasDecision(policy, domain, local, kind, alias))
  PROVE  /\ Unbound(AliasDecision(policy, domain, local, kind, alias))
         /\ AliasDecision(policy, domain, local, kind, alias).domain = domain
PROOF
  <1> DEFINE d == AliasDecision(policy, domain, local, kind, alias)
  <1>1. ASSUME NEW e  PROVE Failed(Error(e))  BY DEF Failed, Error
  <1>2. PICK k, operators, candidates :
          /\ d = Decide(policy, domain, local, k, operators, alias.identity, alias.allowed,
                        candidates)
          /\ k = "sink" => operators = {}
    <2> DEFINE routed == ~alias.sink /\ alias.destination # None
               candidates == IF routed THEN Candidates(policy, alias.destination) ELSE <<>>
               isMailbox(ref) == policy.destinations[ref].kind = "mailbox"
               mailboxes == SelectSeq(candidates, isMailbox)
               operators == IF alias.sink \/ (routed /\ mailboxes = <<>>) THEN {}
                            ELSE IF routed THEN policy.destinations[Head(mailboxes)].recipients
                            ELSE alias.operators
    <2>1. d = IF ~alias.sink /\ ~routed /\ alias.operators = {} THEN Error("empty_operators")
              ELSE Decide(policy, domain, local, IF alias.sink THEN "sink" ELSE kind, operators,
                          alias.identity, alias.allowed, candidates)
      BY DEF AliasDecision
    <2>2. alias.sink => operators = {}  OBVIOUS
    <2> HIDE DEF candidates, operators, routed, d
    <2>3. d = Decide(policy, domain, local, IF alias.sink THEN "sink" ELSE kind, operators,
                     alias.identity, alias.allowed, candidates)
      BY <1>1, <2>1 DEF d
    <2>4. QED BY <2>2, <2>3
  <1>3. d = [domain |-> domain, local |-> local, kind |-> k, operators |-> operators,
             identity |-> alias.identity, allowed |-> alias.allowed \cup {alias.identity},
             own |-> << >>, candidates |-> candidates]
    BY <1>1, <1>2 DEF Decide
  <1> HIDE DEF d
  <1>4. Unbound(d) /\ d.domain = domain  BY <1>2, <1>3 DEF Unbound
  <1>5. QED BY <1>4 DEF d

\* The decision of a personal alias that is not refused.
LEMMA PersonalUnbound ==
  ASSUME NEW policy, NEW domain, NEW local, NEW personal,
         ~Failed(PersonalDecision(policy, domain, local, personal))
  PROVE  LET d == PersonalDecision(policy, domain, local, personal) IN
         /\ Unbound(d) /\ d.domain = domain /\ d.kind = "personal_alias"
         /\ d.identity = personal.identity /\ d.operators = {personal.operator}
PROOF
  <1> DEFINE d == PersonalDecision(policy, domain, local, personal)
  <1>1. ASSUME NEW e  PROVE Failed(Error(e))  BY DEF Failed, Error
  <1>2. d = Decide(policy, domain, local, "personal_alias", {personal.operator},
                   personal.identity, {}, <<>>)
    BY <1>1 DEF PersonalDecision
  <1>3. d = [domain |-> domain, local |-> local, kind |-> "personal_alias",
             operators |-> {personal.operator}, identity |-> personal.identity,
             allowed |-> {} \cup {personal.identity}, own |-> << >>, candidates |-> <<>>]
    BY <1>1, <1>2 DEF Decide
  <1> HIDE DEF d
  <1>4. /\ Unbound(d) /\ d.domain = domain /\ d.kind = "personal_alias"
        /\ d.identity = personal.identity /\ d.operators = {personal.operator}
    BY <1>3 DEF Unbound
  <1>5. QED BY <1>4 DEF d

\* Binding refuses what was refused, and in role-first mode leaves the rest.
\* Otherwise every operator owns the alias it is bound to.
LEMMA Bound ==
  ASSUME NEW policy, NEW d, ~Failed(BindOperatorIdentities(policy, d))
  PROVE  LET bound == BindOperatorIdentities(policy, d) IN
         /\ ~Failed(d)
         /\ Unbound(d) => DOMAIN bound = DOMAIN d
         /\ Unbound(d) /\ (policy.mode # "personal_first" \/ d.kind = "sink") => bound = d
         /\ Unbound(d) /\ policy.mode = "personal_first" /\ d.kind # "sink" =>
              /\ bound.kind = d.kind /\ bound.identity = d.identity
              /\ bound.operators = {Normal[o] : o \in d.operators}
              /\ DOMAIN bound.own = bound.operators /\ None \notin bound.operators
              /\ \A o \in bound.operators :
                   OwnsAlias(policy, d.domain, o) /\ bound.own[o] = Mailbox(Parts[o][1], d.domain)
PROOF
  <1> DEFINE operators == {Normal[o] : o \in d.operators}
             own == [o \in operators |-> Mailbox(Parts[o][1], d.domain)]
             given == [d EXCEPT !.operators = operators, !.own = own,
                                !.allowed = @ \cup {own[o] : o \in operators}]
             bound == BindOperatorIdentities(policy, d)
  <1>1. ASSUME NEW e  PROVE Failed(Error(e))  BY DEF Failed, Error
  <1>2. bound = IF Failed(d) THEN d
                ELSE IF policy.mode # "personal_first" \/ d.kind = "sink" THEN d
                ELSE IF None \in operators THEN Error("invalid_recipient")
                ELSE IF \E o \in operators : ~OwnsAlias(policy, d.domain, o)
                  THEN Error("missing_operator_reply_identity")
                ELSE given
    BY DEF BindOperatorIdentities
  <1>3. ~Failed(bound)  OBVIOUS
  <1> HIDE DEF bound
  <1>4. ~Failed(d)  BY <1>2, <1>3
  <1>5. policy.mode # "personal_first" \/ d.kind = "sink" => bound = d  BY <1>2, <1>4
  <1>6. ASSUME Unbound(d), policy.mode = "personal_first", d.kind # "sink"
        PROVE  /\ DOMAIN bound = DOMAIN d
               /\ bound.kind = d.kind /\ bound.identity = d.identity
               /\ bound.operators = operators
               /\ DOMAIN bound.own = operators /\ None \notin operators
               /\ \A o \in operators :
                    OwnsAlias(policy, d.domain, o) /\ bound.own[o] = Mailbox(Parts[o][1], d.domain)
    <2>1. /\ None \notin operators /\ \A o \in operators : OwnsAlias(policy, d.domain, o)
          /\ bound = given
      BY <1>1, <1>2, <1>3, <1>4, <1>6
    <2>2. /\ DOMAIN given = DOMAIN d
          /\ given.kind = d.kind /\ given.identity = d.identity
          /\ given.operators = operators /\ given.own = own
      <3> HIDE DEF operators, own
      <3>1. QED BY <1>6 DEF Unbound
    <2>3. QED BY <2>1, <2>2
  <1>7. QED BY <1>4, <1>5, <1>6 DEF bound

\* Every route of a valid policy has a decision, which was bound.
LEMMA RouteBound ==
  ASSUME NEW policy, ValidatePolicy(policy), NEW r \in RoutesOf(policy)
  PROVE  \E d : /\ Unbound(d) /\ d.domain = r[1]
                /\ DecisionOf(policy, r) = BindOperatorIdentities(policy, d)
                /\ ~Failed(DecisionOf(policy, r))
PROOF
  <1>1. PICK domain, local :
          /\ domain \in DOMAIN policy.domains
          /\ r = <<domain, local>>
          /\ \/ local \in DOMAIN policy.domains[domain].roles
             \/ local \in DOMAIN policy.domains[domain].personals
             \/ local = "*" /\ policy.domains[domain].catchAll # None
    BY DEF RoutesOf
  <1> DEFINE config == policy.domains[domain]
  <1>2. ValidDomain(policy, domain)  BY <1>1 DEF ValidatePolicy
  <1>3. CASE local = "*"
    <2> DEFINE d == AliasDecision(policy, domain, "*", "catch_all", config.catchAll)
    <2>1. config.catchAll # None /\ ~Failed(CatchAllRoute(policy, domain))
      BY <1>1, <1>2, <1>3 DEF ValidDomain
    <2>2. CatchAllRoute(policy, domain) = BindOperatorIdentities(policy, d)
      BY DEF CatchAllRoute
    <2>3. DecisionOf(policy, r) = CatchAllRoute(policy, domain)  BY <1>1, <1>3 DEF DecisionOf
    <2> HIDE DEF d
    <2>4. ~Failed(d)  BY <2>1, <2>2, Bound
    <2>5. Unbound(d) /\ d.domain = domain  BY <2>4, AliasUnbound DEF d
    <2>6. QED BY <1>1, <2>1, <2>2, <2>3, <2>5
  <1>4. CASE local # "*"
    <2> DEFINE to == Mailbox(local, domain)
               d == AliasRoute(policy, to)
    <2>1. IsMailbox(local, domain) /\ ~Failed(RouteMessage(policy, to))
      BY <1>1, <1>2, <1>4 DEF ValidDomain
    <2>2. RouteMessage(policy, to) = BindOperatorIdentities(policy, d)  BY DEF RouteMessage
    <2>3. DecisionOf(policy, r) = RouteMessage(policy, to)  BY <1>1, <1>4 DEF DecisionOf
    <2>4. Normal[to] = to /\ to # None /\ Parts[to] = <<local, domain>>  BY <2>1, MailboxOf
    <2>5. d = IF local \in DOMAIN config.roles
                THEN AliasDecision(policy, domain, local, "role_alias", config.roles[local])
              ELSE PersonalDecision(policy, domain, local, config.personals[local])
      BY <1>1, <1>4, <2>4 DEF AliasRoute
    <2> HIDE DEF d, to
    <2>6. ~Failed(d)  BY <2>1, <2>2, Bound
    <2>7. Unbound(d) /\ d.domain = domain
      BY <2>5, <2>6, AliasUnbound, PersonalUnbound
    <2>8. QED BY <1>1, <2>1, <2>2, <2>3, <2>7
  <1>5. QED BY <1>3, <1>4

\* Under personal-first replies an alias that an operator owns is a route of its
\* own, which reaches that operator and replies as itself.
LEMMA OwnRoute ==
  ASSUME NEW policy, ValidatePolicy(policy), policy.mode = "personal_first",
         NEW domain \in DOMAIN policy.domains, NEW o, o # None, Normal[o] = o,
         OwnsAlias(policy, domain, o)
  PROVE  LET q == <<domain, Parts[o][1]>>
             d == ProjectDecision(DecisionOf(policy, q)) IN
         /\ q \in RoutesOf(policy)
         /\ d.kind = "personal_alias" /\ d.operators = {o}
         /\ d.identity = Mailbox(Parts[o][1], domain)
PROOF
  <1> DEFINE local == Parts[o][1]
             to == Mailbox(local, domain)
             config == policy.domains[domain]
             personal == config.personals[local]
             q == <<domain, local>>
             d == PersonalDecision(policy, domain, local, personal)
             bound == BindOperatorIdentities(policy, d)
  <1>1. /\ local \in DOMAIN config.personals /\ local \notin DOMAIN config.roles
        /\ Normal[personal.operator] = o
    BY DEF OwnsAlias
  <1>2. /\ local # "*" /\ IsMailbox(local, domain) /\ ~Failed(RouteMessage(policy, to))
        /\ personal.identity = to
    BY <1>1 DEF ValidatePolicy, ValidDomain
  <1>3. Normal[to] = to /\ to # None /\ Parts[to] = <<local, domain>>  BY <1>2, MailboxOf
  <1>4. AliasRoute(policy, to) = d  BY <1>1, <1>3 DEF AliasRoute
  <1>5. DecisionOf(policy, q) = bound /\ ~Failed(bound)
    BY <1>2, <1>4 DEF DecisionOf, RouteMessage
  <1>6. q \in RoutesOf(policy)  BY <1>1 DEF RoutesOf
  <1> HIDE DEF d, to
  <1>7. ~Failed(d)  BY <1>5, Bound
  <1>8. /\ Unbound(d) /\ d.kind = "personal_alias" /\ d.identity = to
        /\ d.operators = {personal.operator}
    BY <1>2, <1>7, PersonalUnbound DEF d
  <1>9. /\ bound.kind = "personal_alias" /\ bound.identity = to /\ bound.operators = {o}
    BY <1>1, <1>5, <1>8, Bound
  <1> HIDE DEF bound
  <1>10. DOMAIN bound = {"domain", "local", "kind", "operators", "identity", "allowed", "own",
                         "candidates"}
    BY <1>5, <1>8, Bound DEF bound, Unbound
  <1>11. LET p == ProjectDecision(bound) IN
         p.kind = "personal_alias" /\ p.operators = {Normal[x] : x \in {o}} /\ p.identity = Normal[to]
    BY <1>9, <1>10 DEF ProjectDecision
  <1>12. QED BY <1>3, <1>5, <1>6, <1>11 DEF to

\* Personal aliases are assigned to addresses.
Assigned(policy) ==
  \A domain \in DOMAIN policy.domains :
    LET personals == policy.domains[domain].personals IN
    \A local \in DOMAIN personals : personals[local].operator \in Raw \cup {None}

\* The binding of an operator that is answered with an identity, and under
\* personal-first replies the alias of its own that this identity is.
BoundTo(policy, r, o, identity) ==
  LET personal == policy.mode = "personal_first" IN
  /\ Bindings(ProjectDecision(DecisionOf(policy, r)))[o] =
       IF personal THEN identity ELSE Normal[identity]
  /\ personal => \E q \in RoutesOf(policy) :
       LET d == ProjectDecision(DecisionOf(policy, q)) IN
       /\ q[1] = r[1] /\ d.kind = "personal_alias"
       /\ d.identity = identity /\ d.operators = {o}

\* What D1 binds to an operator is what the core answers that operator.
LEMMA AnswerIsBound ==
  ASSUME NEW policy, ValidatePolicy(policy), Assigned(policy),
         NEW r \in RoutesOf(policy),
         NEW o \in ProjectDecision(DecisionOf(policy, r)).operators, NEW asked,
         ~Failed(AuthorizeReply(DecisionOf(policy, r), o, asked)),
         policy.mode = "personal_first" \/ asked = None
  PROVE  BoundTo(policy, r, o, AuthorizeReply(DecisionOf(policy, r), o, asked).identity)
PROOF
  <1> DEFINE d == DecisionOf(policy, r)
             projected == ProjectDecision(d)
             answer == AuthorizeReply(d, o, asked)
  <1>1. PICK u : /\ Unbound(u) /\ u.domain = r[1]
                 /\ d = BindOperatorIdentities(policy, u) /\ ~Failed(d)
    BY RouteBound
  <1>2. DOMAIN d = {"domain", "local", "kind", "operators", "identity", "allowed", "own",
                    "candidates"}
    BY <1>1, Bound DEF Unbound
  <1>3. /\ projected.operators = {Normal[x] : x \in d.operators}
        /\ projected.identity = Normal[d.identity] /\ projected.own = d.own
    <2> HIDE DEF d
    <2>1. QED BY <1>2 DEF ProjectDecision
  <1>4. Bindings(projected)[o] =
          IF o \in DOMAIN projected.own THEN projected.own[o] ELSE projected.identity
    BY DEF Bindings
  <1> DEFINE from == Normal[o]
             own == from \in DOMAIN d.own
             identity == IF asked # None THEN Normal[asked]
                         ELSE IF own THEN d.own[from] ELSE d.identity
  <1>5. /\ answer = [identity |-> identity]
        /\ own => d.own[from] = identity
    BY DEF AuthorizeReply, Failed, Error
  <1>6. answer.identity = identity  BY <1>5
  <1> HIDE DEF d, projected, answer, identity
  <1>7. CASE policy.mode # "personal_first"
    <2>1. d = u /\ d.own = << >>  BY <1>1, <1>7, Bound DEF Unbound
    <2>2. identity = d.identity  BY <1>7, <2>1 DEF identity
    <2>3. Bindings(projected)[o] = Normal[d.identity]  BY <1>3, <1>4, <2>1
    <2>4. QED BY <1>6, <1>7, <2>2, <2>3 DEF d, projected, answer, BoundTo
  <1>8. CASE policy.mode = "personal_first"
    <2>1. PICK x : x \in d.operators /\ o = Normal[x]  BY <1>3 DEF projected, d
    <2>2. u.kind # "sink"
      <3>1. CASE u.kind = "sink"
        <4>1. d = u /\ u.operators = {}  BY <1>1, <3>1, Bound DEF Unbound
        <4>2. QED BY <2>1, <4>1
      <3>2. QED BY <3>1
    <2>3. /\ DOMAIN d.own = d.operators /\ None \notin d.operators
          /\ \A y \in d.operators :
               OwnsAlias(policy, r[1], y) /\ d.own[y] = Mailbox(Parts[y][1], r[1])
      BY <1>1, <1>8, <2>2, Bound
    <2>4. PICK domain \in DOMAIN policy.domains : r[1] = domain  BY DEF RoutesOf
    <2>5. OwnsAlias(policy, domain, x) /\ d.own[x] = Mailbox(Parts[x][1], domain) /\ x # None
      BY <2>1, <2>3, <2>4
    \* The operator an alias names canonically is canonical.
    <2>6. Normal[x] = x
      <3> DEFINE operator == policy.domains[domain].personals[Parts[x][1]].operator
      <3>1. operator \in Raw /\ Normal[operator] = x
        BY <2>4, <2>5 DEF OwnsAlias, Assigned
      <3>2. QED BY <2>5, <3>1, RawConstants
    <2>7. o = x /\ from = o /\ own  BY <2>1, <2>3, <2>6
    <2>8. Bindings(projected)[o] = identity /\ identity = Mailbox(Parts[o][1], domain)
      BY <1>3, <1>4, <1>5, <2>3, <2>5, <2>7
    <2>9. \E q \in RoutesOf(policy) :
            LET e == ProjectDecision(DecisionOf(policy, q)) IN
            /\ q[1] = r[1] /\ e.kind = "personal_alias"
            /\ e.identity = identity /\ e.operators = {o}
      <3> DEFINE q == <<domain, Parts[o][1]>>
                 e == ProjectDecision(DecisionOf(policy, q))
      <3>1. q \in RoutesOf(policy) /\ e.kind = "personal_alias" /\ e.operators = {o}
            /\ e.identity = Mailbox(Parts[o][1], domain)
        BY <1>8, <2>5, <2>6, <2>7, OwnRoute
      <3>2. q[1] = r[1]  BY <2>4
      <3> HIDE DEF q
      <3>3. QED BY <2>8, <3>1, <3>2
    <2>10. QED BY <1>6, <1>8, <2>8, <2>9 DEF d, projected, answer, BoundTo
  <1>9. QED BY <1>7, <1>8

\* An import leaves the rows of its policy, and disables the rest.
LEMMA ImportRows ==
  ASSUME Shaped, Imported, NEW p \in Accepted, NEW s, Import(p, s)
  PROVE  Imported'
PROOF
  <1>1. rows' = RowsAfter(p, Projection[p]) /\ runtime' = p  BY DEF Import
  <1>2. DOMAIN Projection[p] \subseteq Routes /\ DOMAIN rows = Routes  BY DEF Routes, Shaped
  <1>3. ASSUME NEW r \in DOMAIN Projection[p]
        PROVE  rows'[r] = Row(p, Projection[p][r]) /\ "enabled" \in DOMAIN rows'[r]
    BY <1>1, <1>2 DEF RowsAfter, Row
  <1>4. ASSUME NEW r \in Routes, r \notin DOMAIN Projection[p], rows'[r] # None
        PROVE  "enabled" \in DOMAIN rows'[r] /\ ~rows'[r].enabled
    <2>1. rows'[r] = IF rows[r] = None THEN None ELSE [rows[r] EXCEPT !.enabled = FALSE]
      BY <1>1, <1>2, <1>4 DEF RowsAfter
    <2>2. rows[r] # None /\ "enabled" \in DOMAIN rows[r]  BY <1>4, <2>1 DEF Imported
    <2>3. QED BY <2>1, <2>2
  <1>5. QED BY <1>1, <1>2, <1>3, <1>4 DEF Imported

LEMMA ImportedKept ==
  ASSUME Shaped, Imported, [Next]_vars
  PROVE  Imported'
PROOF
  <1>1. CASE UNCHANGED <<runtime, rows>>  BY <1>1 DEF Imported
  <1>2. ASSUME NEW change \in Installables, Import(change[1], change[2])  PROVE Imported'
    BY <1>2, ImportRows DEF Installables
  <1>3. CASE PolicyChange
    <2>1. UNCHANGED <<runtime, rows>>
          \/ \E change \in Installables : Import(change[1], change[2])
      BY <1>3 DEF PolicyChange, Upload, Bootstrap, ApplyReview
    <2>2. QED BY <1>1, <1>2, <2>1
  <1>4. ASSUME NEW k \in Runs, RunStep(k)  PROVE UNCHANGED <<runtime, rows>>
    BY <1>4, RunFrame DEF storeVars
  <1>5. ASSUME NEW r \in Stored, Evidence(r)  PROVE UNCHANGED <<runtime, rows>>
    BY <1>5 DEF Evidence
  <1>6. CASE Tick  BY <1>1, <1>6 DEF Tick, storeVars
  <1>7. CASE UNCHANGED vars  BY <1>1, <1>7 DEF vars, storeVars
  <1>8. QED BY <1>1, <1>3, <1>4, <1>5, <1>6, <1>7 DEF Next

\* The tables of the active policy bind what the core answers under it.
LEMMA ImportedBinds ==
  ASSUME Imported  PROVE PersonalIdentityIsOwn
PROOF
  <1> SUFFICES ASSUME runtime # None  PROVE PersonalIdentityIsOwn
    BY DEF PersonalIdentityIsOwn
  <1> DEFINE policy == Document[runtime]
             projected(q) == ProjectDecision(DecisionOf(policy, q))
  <1>1. runtime \in Accepted /\ ValidatePolicy(policy) /\ Assigned(policy)
    BY DocumentConstants DEF Imported, Accepted, Projectable, Assigned
  <1>2. /\ DOMAIN Projection[runtime] = RoutesOf(policy)
        /\ \A q \in RoutesOf(policy) : Projection[runtime][q] = projected(q)
    BY <1>1 DEF Projection, ProjectPolicy
  <1>3. DOMAIN Answers[runtime] = RoutesOf(policy)  BY <1>1, <1>2 DEF Answers
  <1>4. ASSUME NEW q \in RoutesOf(policy)
        PROVE  /\ rows[q].kind = projected(q).kind /\ rows[q].identity = projected(q).identity
               /\ rows[q].operators = projected(q).operators
               /\ rows[q].bindings = Bindings(projected(q))
    <2>1. rows[q] = Row(runtime, projected(q))  BY <1>2 DEF Imported
    <2> HIDE DEF projected, policy
    <2>2. QED BY <2>1 DEF Row
  <1>5. ASSUME NEW r \in RoutesOf(policy), NEW o \in rows[r].operators,
               NEW asked \in Mailboxes \cup {None}
        PROVE  Answers[runtime][r][o][asked] = AuthorizeReply(DecisionOf(policy, r), o, asked)
    <2>1. Answers[runtime][r] =
            [x \in Projection[runtime][r].operators |-> [y \in Mailboxes \cup {None} |->
               CHOOSE a \in {AuthorizeReply(d, x, y) : d \in {DecisionOf(policy, r)}} : TRUE]]
      BY <1>1, <1>2 DEF Answers
    <2>2. o \in Projection[runtime][r].operators  BY <1>2, <1>4
    <2>3. Answers[runtime][r][o][asked] =
            CHOOSE a \in {AuthorizeReply(d, o, asked) : d \in {DecisionOf(policy, r)}} : TRUE
      BY <2>1, <2>2
    <2>4. QED BY <2>3
  <1> HIDE DEF policy
  <1>6. ASSUME NEW r \in RoutesOf(policy), NEW o \in rows[r].operators,
               NEW asked \in Mailboxes \cup {None}, NEW answer,
               answer = Answers[runtime][r][o][asked], ~Failed(answer),
               policy.mode = "personal_first" \/ asked = None
        PROVE  BindsAnswer(RoutesOf(policy), r, o, answer.identity)
    <2>1. answer = AuthorizeReply(DecisionOf(policy, r), o, asked)  BY <1>5, <1>6
    <2>2. o \in projected(r).operators  BY <1>4
    <2>3. BoundTo(policy, r, o, answer.identity)  BY <1>1, <1>6, <2>1, <2>2, AnswerIsBound
    <2>4. QED BY <1>4, <2>3 DEF BoundTo, BindsAnswer, policy
  <1>7. QED BY <1>3, <1>6 DEF PersonalIdentityIsOwn, policy

\* The reads of loadActivePolicy find the projection of the active policy.
LEMMA ImportedLoads ==
  ASSUME Shaped, Imported  PROVE ActivePolicyLoads
PROOF
  <1> SUFFICES ASSUME runtime # None  PROVE PointerConsistent /\ InventoryRead(runtime)
    BY DEF ActivePolicyLoads
  <1> DEFINE projected == Projection[runtime]
             read == {r \in Stored : rows[r].enabled}
  <1>1. ASSUME NEW r \in DOMAIN projected
        PROVE  /\ r \in Stored /\ rows[r].enabled /\ rows[r].policy = runtime
               /\ rows[r].storage = StorageKind(projected[r]) /\ rows[r].kind = projected[r].kind
               /\ rows[r].identity = projected[r].identity
               /\ rows[r].operators = projected[r].operators
               /\ rows[r].bindings = Bindings(projected[r])
    <2>1. /\ r \in Routes /\ rows[r] = Row(runtime, projected[r])
          /\ Row(runtime, projected[r]) # None
      BY RowConstants DEF Imported
    <2> HIDE DEF projected
    <2>2. r \in Stored  BY <2>1 DEF Stored, Shaped
    <2>3. QED BY <2>1, <2>2 DEF Row
  <1>2. ASSUME NEW r \in read  PROVE r \in DOMAIN projected
    BY DEF Stored, Shaped, Imported
  <1>3. read = DOMAIN projected  BY <1>1, <1>2
  <1>4. {r \in Stored : rows[r].enabled /\ rows[r].policy = runtime} = DOMAIN projected
    BY <1>1, <1>2
  <1> HIDE DEF projected
  <1>5. PointerConsistent  BY <1>4 DEF PointerConsistent, projected
  <1>6. InventoryMatches(runtime, read)
    <2>1. projected \in {Projection[runtime]}  BY DEF projected
    <2> HIDE DEF read
    <2>2. QED BY <1>1, <1>3, <2>1 DEF InventoryMatches
  <1>7. \A r \in read : rows[r].policy = runtime  BY <1>1, <1>3
  <1>8. QED BY <1>5, <1>6, <1>7 DEF InventoryRead

----------------------------------------------------------------------------
(* The invariant, and what follows.                                        *)

LEMMA CanaryInit == Init => CanaryInv
PROOF
  <1> SUFFICES ASSUME Init  PROVE CanaryInv  OBVIOUS
  <1>1. ASequence(sent) /\ Len(sent) = 0
    BY DEF Init, ASequence
  <1>2. Shaped
    BY <1>1, NewView DEF Init, InitStore, Shaped
  <1>3. Notices
    BY <1>1 DEF Init, Notices, Settled, AllButLastAudited, NoticesAreNews
  <1>4. Pingable  BY DEF Init, Pingable
  <1>5. Evidenced
    BY NewView, CanaryConstants DEF Init, InitStore, Evidenced, LedgerIsTrue
  <1>6. Imported  BY DEF Init, InitStore, Imported
  <1>7. QED BY <1>2, <1>3, <1>4, <1>5, <1>6 DEF CanaryInv

LEMMA CanaryKept == CanaryInv /\ [Next]_vars => CanaryInv'
PROOF
  <1> SUFFICES ASSUME CanaryInv, [Next]_vars  PROVE CanaryInv'  OBVIOUS
  <1>1. Shaped' /\ Notices' /\ Pingable'
    BY ShapedKept, NoticesKept, PingableKept DEF CanaryInv
  <1>2. Evidenced'
    BY EvidencedRunStep, EvidencedEnvironment DEF CanaryInv, Next
  <1>3. Imported'  BY ImportedKept DEF CanaryInv
  <1>4. QED BY <1>1, <1>2, <1>3 DEF CanaryInv

\* The invariant of all runs of the canary.
THEOREM CanaryIsSound == Spec => []CanaryInv
PROOF BY CanaryInit, CanaryKept, PTL DEF Spec

\* mail-canary.ts, notify: however many runs overlap, and wherever one is cut
\* off, two notifications in a row differ, or their runs began a day apart.
THEOREM NoticesDiffer == Spec => []NoticesAreNews
PROOF
  <1>1. CanaryInv => NoticesAreNews  BY DEF CanaryInv, Notices
  <1>2. QED BY <1>1, CanaryIsSound, PTL

\* mail-canary.ts, notify: a notification that no audit row records is the
\* last one, and no audit row records a notification that was not sent.
THEOREM NoticesAreAudited == Spec => []AllButLastAudited
PROOF
  <1>1. CanaryInv => AllButLastAudited  BY DEF CanaryInv, Notices
  <1>2. QED BY <1>1, CanaryIsSound, PTL

\* heartbeat: a ping follows a ledger saved by a run that began within the
\* allowed age, and an accepted notification.
THEOREM PingsAreEarned == Spec => []PingMeansCoverage
PROOF
  <1>1. CanaryInv => PingMeansCoverage
    BY DEF CanaryInv, Pingable, PingMeansCoverage, Ready
  <1>2. QED BY <1>1, CanaryIsSound, PTL

\* recordCoverage: what it writes was true when the run read it, however long
\* ago that was, and whatever policy is active when it writes.
THEOREM LedgerStaysTrue == Spec => []LedgerIsTrue
PROOF
  <1>1. CanaryInv => LedgerIsTrue  BY DEF CanaryInv, Evidenced
  <1>2. QED BY <1>1, CanaryIsSound, PTL

\* reply_identity.rs and the import: whatever documents were imported one over
\* the other, an operator of a personal-first policy is answered with the one
\* identity D1 binds to it, a personal alias that reaches nobody else.
THEOREM RepliesAsItself == Spec => []PersonalIdentityIsOwn
PROOF
  <1>1. CanaryInv => PersonalIdentityIsOwn  BY ImportedBinds DEF CanaryInv
  <1>2. QED BY <1>1, CanaryIsSound, PTL

\* loadActivePolicy and the import: whatever was imported before, the pointer,
\* its counts and the inventory of enabled routes that D1 holds are those the
\* Rust core projects from the active document; a load that finds them
\* different has read two revisions, not a damaged one.
THEOREM ActiveLoads == Spec => []ActivePolicyLoads
PROOF
  <1>1. CanaryInv => ActivePolicyLoads  BY ImportedLoads DEF CanaryInv
  <1>2. QED BY <1>1, CanaryIsSound, PTL
=============================================================================
