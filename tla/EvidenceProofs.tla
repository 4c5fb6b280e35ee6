---------------------------- MODULE EvidenceProofs ----------------------------
(***************************************************************************)
(* Proofs about LiveEvidence, for every desired state, deployment and      *)
(* sequence of changes, and about FleetReadiness, for every input.         *)
(*                                                                         *)
(* The collector's reads are ordered, so what it knows of a worker is a    *)
(* chain: the version it read, that version's modules, and what has been   *)
(* served since (ReadSoFar).  What it knows of the provider is a set of    *)
(* facts, each of which held at some moment of the collection; those one   *)
(* call shows held together (Snapshot).  EvidenceSays ties the evidence,   *)
(* once written, to both.  A fleet report is of the input and the time at  *)
(* which it is read (FleetInv); the rest is what the compiler computes.    *)
(***************************************************************************)
EXTENDS LiveEvidence, FleetReadiness, FiniteSetTheorems, TLAPS

\* A scope is a full desired state, or some of its domains.
ScopeOk(s) ==
  /\ s.desired \in Desireds /\ s.profile \in {"inventory_v1", "dark_acceptance_v1"}
  /\ \/ /\ s.mode = "canary" /\ s.selected # DOMAIN Desired[s.desired]
        /\ s.selected \in SUBSET DOMAIN Desired[s.desired] /\ s.selected # {}
     \/ s.mode = "full_desired_state" /\ s.selected = DOMAIN Desired[s.desired]

WorldType ==
  /\ serving \in [Workers -> Versions \cup {Split}]
  /\ checkout \in Artifacts /\ desired \in Desireds
  /\ since \in [Workers -> [versions : SUBSET (Versions \cup {Split}), builds : SUBSET Artifacts]]

RowOk(row) ==
  row = [bindings |-> row.bindings, version |-> row.version, drift |-> row.drift,
         modules |-> row.modules, after |-> row.after, verified |-> row.verified]

ReadingOk(o) ==
  /\ o = [held |-> o.held, worker |-> o.worker, artifact |-> o.artifact, active |-> o.active,
          object |-> o.object, upload |-> o.upload, manifest |-> o.manifest]
  /\ o.worker = [w \in Workers |-> o.worker[w]]
  /\ \A w \in Workers : RowOk(o.worker[w])

\* Reads are left only while a collection is under way.
Progress ==
  /\ phase \in {"idle", "collecting", "written"}
  /\ phase = "idle" => obs = Nothing
  /\ phase # "idle" => ScopeOk(scope)
  /\ phase # "collecting" => todo = {}
  /\ phase = "collecting" => todo \subseteq ReadsOf(scope)

\* Version v was served and artifact a built since the modules of w were read.
Served(o, w) ==
  /\ o.upload \in since[w].builds
  /\ \E v \in since[w].versions \cap Versions : Version[v].modules = o.manifest

\* What the collector knows of worker w: its reads are made in order, after the
\* dry run.
ReadSoFar(w) ==
  /\ <<"deployments", w>> \notin todo => obs.worker[w].version \in Versions
  /\ scope.verify /\ <<"modules", w>> \notin todo =>
       /\ <<"deployments", w>> \notin todo
       /\ obs.worker[w].modules = Version[obs.worker[w].version].modules
       /\ serving[w] \in since[w].versions /\ checkout \in since[w].builds
  /\ scope.verify /\ <<"after", w>> \notin todo =>
       <<"modules", w>> \notin todo /\ obs.worker[w].after \in since[w].versions
  /\ obs.worker[w].verified =>
       /\ scope.verify /\ <<"modules", w>> \notin todo
       /\ <<"digest", None>> \notin todo /\ <<"upload", None>> \notin todo
       /\ Served(obs, w)

WorkersRead == phase = "collecting" => \A w \in Workers : ReadSoFar(w)

\* Each fact held at some moment of the collection, and those of one read together.
Observed(o) == \A f \in o.held : \E h \in past : f \in h
Snapshot(o, kind, d) == \E h \in past : o.held \cap FactsRead(kind, d) = h \cap FactsRead(kind, d)
Joint == {"rules", "catchAll"}

FactsSeen ==
  phase = "collecting" =>
    /\ held \in past /\ Observed(obs)
    /\ \A d \in Domains, kind \in Joint :
         /\ <<kind, d>> \in todo => obs.held \cap FactsRead(kind, d) = {}
         /\ <<kind, d>> \in ReadsOf(scope) \ todo => Snapshot(obs, kind, d)
    /\ \A d \in scope.selected : <<"zone", d>> \in todo \/ Fact("zone", d) \in obs.held

\* What the evidence says.
EvidenceSays(e) ==
  LET c == e.coverage IN
  /\ e.complete \in BOOLEAN /\ ValidCoverage(c, scope.desired)
  /\ c.desired = scope.desired /\ c.selected = scope.selected
  /\ c.observed = IF e.complete THEN Zones(e.obs, scope) ELSE {}
  /\ c.selectedComplete => e.complete /\ c.selected = c.observed
  /\ e.complete =>
       /\ c.observed = scope.selected
       /\ c.accepted \subseteq Shown(e.obs)
       /\ \A w \in Workers : e.obs.worker[w].verified => Served(e.obs, w)
       /\ Observed(e.obs)
       /\ \A d \in Domains, kind \in Joint :
            <<kind, d>> \in ReadsOf(scope) => Snapshot(e.obs, kind, d)

EvidenceHeld == phase = "written" => EvidenceSays(evidence)

EvidenceInv ==
  WorldType /\ ReadingOk(obs) /\ Progress /\ WorkersRead /\ FactsSeen /\ EvidenceHeld

----------------------------------------------------------------------------
(* Coverage *)

\* The coverage of a scope validates for the desired state it was taken under.
LEMMA CoverageOk ==
  ASSUME NEW s, ScopeOk(s), NEW good, NEW bad, NEW complete \in BOOLEAN, NEW surfaces,
         NEW zones \in SUBSET s.selected, complete \/ zones = {}
  PROVE  /\ ValidCoverage(Coverage(s, good, bad, complete, zones, surfaces), s.desired)
         /\ Coverage(s, good, bad, complete, zones, surfaces).selectedComplete => complete /\ s.selected = zones
  <1> DEFINE c == Coverage(s, good, bad, complete, zones, surfaces)
             all == Desired[s.desired]
  <1>1. /\ IsFiniteSet(DOMAIN all) /\ DOMAIN all # {} /\ s.selected # {}
        /\ s.selected \in SUBSET DOMAIN all
    BY EvidenceConstants DEF ScopeOk
  <1>2. /\ IsFiniteSet(s.selected)
        /\ Cardinality(s.selected) <= Cardinality(DOMAIN all)
        /\ Cardinality(s.selected) = Cardinality(DOMAIN all) => s.selected = DOMAIN all
    BY <1>1, FS_Subset
  <1>3. /\ Cardinality(zones) = Cardinality(s.selected) => zones = s.selected
        /\ Cardinality(zones) \in Nat /\ Cardinality(s.selected) \in Nat /\ Cardinality(DOMAIN all) \in Nat
    BY <1>1, <1>2, FS_Subset, FS_CardinalityType
  <1>4. ValidSurfaces(c)
    <2>1. s.profile = "dark_acceptance_v1" => Dark \subseteq Required(s)
      BY DEF Required
    <2>2. s.profile \in {"inventory_v1", "dark_acceptance_v1"}
      BY DEF ScopeOk
    <2> QED BY <2>1, <2>2 DEF Coverage, ValidSurfaces
  <1>5. c.selectedComplete
          = (/\ Cardinality(c.observed) = Cardinality(c.selected)
             /\ c.failed = {} /\ c.missing = {} /\ c.successful = c.required)
    <2>1. complete \/ Cardinality(zones) # Cardinality(s.selected)
      BY <1>1, <1>3
    <2> QED BY <2>1 DEF Coverage
  <1>6. /\ c.successful \cup c.failed \cup c.missing = c.required
        /\ c.successful \cap c.failed = {} /\ c.missing \cap (c.successful \cup c.failed) = {}
    BY DEF Coverage
  <1>7. IF c.mode = "canary" THEN Cardinality(c.selected) < c.expected ELSE c.selected = DOMAIN all
    BY <1>1, <1>2, <1>3 DEF Coverage, ScopeOk
  <1>8. c.desiredComplete = (c.selectedComplete /\ c.mode = "full_desired_state"
                             /\ Cardinality(c.selected) = c.expected)
    BY DEF Coverage
  <1>9. /\ c.desired = s.desired /\ c.expected = Cardinality(DOMAIN all) /\ c.selected = s.selected
        /\ c.observed = zones /\ ~c.acceptanceComplete
    BY DEF Coverage
  <1>10. c.selectedComplete => complete /\ s.selected = zones
    BY <1>3 DEF Coverage
  <1> QED BY <1>1, <1>4, <1>5, <1>6, <1>7, <1>8, <1>9, <1>10 DEF ValidCoverage

----------------------------------------------------------------------------
(* The order of the reads *)

\* No read is due while one that does not come after it is left.
LEMMA NotLeft ==
  ASSUME NEW kind, NEW x, Due(kind, x), NEW r, r # <<kind, x>>, ~Before(<<kind, x>>, r)
  PROVE  r \notin todo
  BY DEF Due

\* When a read of a worker is due, those before it were made.
LEMMA OrderOfReads ==
  ASSUME NEW w \in Workers
  PROVE  /\ Due("modules", w) => <<"deployments", w>> \notin todo
         /\ Due("after", w) => <<"modules", w>> \notin todo
         /\ Due("qualify", w) =>
              \A r \in {<<"deployments", w>>, <<"modules", w>>, <<"after", w>>,
                        <<"digest", None>>, <<"upload", None>>} : r \notin todo
  <1>1. Place[w] \in Nat
    BY EvidenceConstants
  <1>2. /\ ~Before(<<"modules", w>>, <<"deployments", w>>)
        /\ ~Before(<<"after", w>>, <<"modules", w>>)
        /\ ~Before(<<"qualify", w>>, <<"after", w>>)
        /\ ~Before(<<"qualify", w>>, <<"modules", w>>)
        /\ ~Before(<<"qualify", w>>, <<"deployments", w>>)
        /\ ~Before(<<"qualify", w>>, <<"digest", None>>)
        /\ ~Before(<<"qualify", w>>, <<"upload", None>>)
    BY <1>1 DEF Before, Rank
  <1>3. \A k \in {"deployments", "after"} : <<k, w>> # <<"modules", w>> /\ <<k, w>> # <<"qualify", w>>
    OBVIOUS
  <1>4. <<"modules", w>> # <<"after", w>> /\ <<"modules", w>> # <<"qualify", w>>
    OBVIOUS
  <1>5. \A k \in {"digest", "upload"} : <<k, None>> # <<"qualify", w>>
    OBVIOUS
  <1>6. Due("modules", w) => <<"deployments", w>> \notin todo
    BY <1>2, <1>3, NotLeft
  <1>7. Due("after", w) => <<"modules", w>> \notin todo
    BY <1>2, <1>4, NotLeft
  <1>8. ASSUME Due("qualify", w), NEW r \in {<<"deployments", w>>, <<"modules", w>>, <<"after", w>>,
                                            <<"digest", None>>, <<"upload", None>>}
        PROVE  r \notin todo
    <2>1. r # <<"qualify", w>> /\ ~Before(<<"qualify", w>>, r)
      BY <1>2, <1>3, <1>4, <1>5
    <2> QED BY <1>8, <2>1, NotLeft
  <1> QED BY <1>6, <1>7, <1>8

\* Only a collection that verifies compares modules.
LEMMA OnlyVerified ==
  ASSUME NEW s, NEW w, <<"qualify", w>> \in ReadsOf(s)
  PROVE  s.verify
  <1> SUFFICES ASSUME ~s.verify PROVE FALSE
    OBVIOUS
  <1>1. \A d : <<"qualify", w>> \notin DomainReads(s, d)
    BY DEF DomainReads, Reads
  <1>2. \A v : <<"qualify", w>> \notin WorkerReads(s, v)
    BY DEF WorkerReads, Reads
  <1> QED BY <1>1, <1>2 DEF ReadsOf, InventoryReads, PrivateReads, Reads

----------------------------------------------------------------------------
(* Reading *)

\* A read is made while a collection is under way, and is then no longer left.
LEMMA AdvanceFrame ==
  ASSUME EvidenceInv, NEW kind, NEW x, NEW o, Due(kind, x), Advance(kind, x, o)
  PROVE  /\ phase = "collecting" /\ phase' = "collecting"
         /\ todo' = todo \ {<<kind, x>>} /\ <<kind, x>> \in todo /\ obs' = o
         /\ scope' = scope /\ past' = past /\ held' = held /\ serving' = serving /\ checkout' = checkout
         /\ desired' = desired
         /\ Progress' /\ EvidenceHeld'
  <1>1. phase = "collecting" /\ <<kind, x>> \in todo
    BY DEF EvidenceInv, Progress, Due
  <1>2. /\ phase' = phase /\ todo' = todo \ {<<kind, x>>} /\ obs' = o
        /\ scope' = scope /\ past' = past /\ held' = held /\ serving' = serving /\ checkout' = checkout
        /\ desired' = desired
    BY DEF Advance, world
  <1>3. Progress'
    BY <1>1, <1>2 DEF EvidenceInv, Progress, ScopeOk
  <1>4. EvidenceHeld'
    BY <1>1, <1>2 DEF EvidenceHeld
  <1> QED BY <1>1, <1>2, <1>3, <1>4

\* A read that shows no fact leaves those seen as they are.
LEMMA FactsKept ==
  ASSUME EvidenceInv, NEW kind, NEW x, NEW o, Due(kind, x), Advance(kind, x, o),
         o.held = obs.held, kind \notin Joint \cup {"zone"}
  PROVE  FactsSeen'
  <1>1. /\ phase = "collecting" /\ todo' = todo \ {<<kind, x>>} /\ obs' = o
        /\ scope' = scope /\ past' = past /\ held' = held
    BY AdvanceFrame
  <1>2. held' \in past' /\ Observed(obs)'
    BY <1>1 DEF EvidenceInv, FactsSeen, Observed
  <1>3. ASSUME NEW d \in Domains, NEW k \in Joint
        PROVE  /\ <<k, d>> \in todo' => obs'.held \cap FactsRead(k, d)' = {}
               /\ <<k, d>> \in ReadsOf(scope') \ todo' => Snapshot(obs, k, d)'
    <2>1. FactsRead(k, d)' = FactsRead(k, d)
      BY <1>1 DEF FactsRead
    <2>2. <<k, d>> \in todo' <=> <<k, d>> \in todo
      BY <1>1
    <2> QED BY <1>1, <2>1, <2>2 DEF EvidenceInv, FactsSeen, Snapshot
  <1>4. \A d \in scope'.selected : <<"zone", d>> \in todo' \/ Fact("zone", d) \in obs'.held
    BY <1>1 DEF EvidenceInv, FactsSeen
  <1> QED BY <1>2, <1>3, <1>4 DEF FactsSeen

\* A read that shows no worker leaves what is known of them as it is.
LEMMA WorkersKept ==
  ASSUME EvidenceInv, NEW kind, NEW x, NEW o, Due(kind, x), Advance(kind, x, o), UNCHANGED since,
         o.worker = obs.worker, kind \notin {"deployments", "modules", "after"},
         \/ <<kind, x>> \in {<<"digest", None>>, <<"upload", None>>}
         \/ o.upload = obs.upload /\ o.manifest = obs.manifest
  PROVE  WorkersRead' /\ WorldType'
  <1>1. /\ phase = "collecting" /\ todo' = todo \ {<<kind, x>>} /\ <<kind, x>> \in todo /\ obs' = o
        /\ scope' = scope /\ serving' = serving /\ checkout' = checkout /\ desired' = desired
    BY AdvanceFrame
  <1>2. ASSUME NEW w \in Workers PROVE ReadSoFar(w)'
    <2>1. \A k \in {"deployments", "modules", "after"} : <<k, w>> \in todo' <=> <<k, w>> \in todo
      BY <1>1
    <2>2. ReadSoFar(w)
      BY <1>1 DEF EvidenceInv, WorkersRead
    <2>3. obs.worker[w].verified => Served(obs, w)'
      BY <1>1, <2>2 DEF ReadSoFar, Served
    <2> QED BY <1>1, <2>1, <2>2, <2>3 DEF ReadSoFar
  <1>3. WorldType'
    BY <1>1 DEF EvidenceInv, WorldType
  <1> QED BY <1>2, <1>3 DEF WorkersRead

\* What a reading of worker w changes.
LEMMA SeenOf ==
  ASSUME ReadingOk(obs), NEW w \in Workers, NEW row, RowOk(row)
  PROVE  /\ ReadingOk(Seen(w, row))
         /\ Seen(w, row).held = obs.held
         /\ Seen(w, row).upload = obs.upload /\ Seen(w, row).manifest = obs.manifest
         /\ Seen(w, row).worker[w] = row
         /\ \A v \in Workers : v # w => Seen(w, row).worker[v] = obs.worker[v]
  BY DEF ReadingOk, Seen

\* A reading of worker w that leaves the invariant for w leaves it for all.
LEMMA WorkerSeen ==
  ASSUME EvidenceInv, NEW kind, kind \notin Joint \cup {"zone", "digest", "upload"},
         NEW w \in Workers, NEW row, RowOk(row), Due(kind, w), Advance(kind, w, Seen(w, row)),
         WorldType', \A v \in Workers : v # w => since'[v] = since[v],
         ReadSoFar(w)'
  PROVE  EvidenceInv'
  <1>1. /\ phase = "collecting" /\ todo' = todo \ {<<kind, w>>} /\ <<kind, w>> \in todo
        /\ obs' = Seen(w, row)
        /\ scope' = scope /\ serving' = serving /\ checkout' = checkout
        /\ Progress' /\ EvidenceHeld'
    BY AdvanceFrame
  <1>2. /\ ReadingOk(Seen(w, row))
        /\ Seen(w, row).held = obs.held
        /\ Seen(w, row).upload = obs.upload /\ Seen(w, row).manifest = obs.manifest
        /\ \A v \in Workers : v # w => Seen(w, row).worker[v] = obs.worker[v]
    BY SeenOf DEF EvidenceInv
  <1>3. FactsSeen'
    BY <1>2, FactsKept
  <1>4. ASSUME NEW v \in Workers, v # w PROVE ReadSoFar(v)'
    <2>1. \A k \in {"deployments", "modules", "after"} : <<k, v>> \in todo' <=> <<k, v>> \in todo
      BY <1>1, <1>4
    <2>2. \A k \in {"digest", "upload"} : <<k, None>> \in todo' <=> <<k, None>> \in todo
      BY <1>1
    <2>3. ReadSoFar(v)
      BY <1>1 DEF EvidenceInv, WorkersRead
    <2>4. obs.worker[v].verified => Served(obs, v)'
      BY <1>1, <1>2, <1>4, <2>3 DEF ReadSoFar, Served
    <2> QED BY <1>1, <1>2, <1>4, <2>1, <2>2, <2>3, <2>4 DEF ReadSoFar
  <1>5. WorkersRead'
    BY <1>4 DEF WorkersRead
  <1>6. ReadingOk(obs)'
    BY <1>1, <1>2 DEF ReadingOk, RowOk
  <1> QED BY <1>1, <1>3, <1>5, <1>6 DEF EvidenceInv

\* A reading of worker w that is of no deployment, modules or verdict.
LEMMA PlainSeen ==
  ASSUME EvidenceInv, NEW kind \in {"bindings", "version"},
         NEW w \in Workers, NEW row, RowOk(row), Due(kind, w), Advance(kind, w, Seen(w, row)),
         UNCHANGED since,
         /\ row.version = obs.worker[w].version /\ row.modules = obs.worker[w].modules
         /\ row.after = obs.worker[w].after /\ row.verified = obs.worker[w].verified
  PROVE  EvidenceInv'
  <1>1. /\ phase = "collecting" /\ todo' = todo \ {<<kind, w>>} /\ <<kind, w>> \in todo
        /\ obs' = Seen(w, row)
        /\ scope' = scope /\ serving' = serving /\ checkout' = checkout /\ desired' = desired
    BY AdvanceFrame
  <1>2. /\ Seen(w, row).upload = obs.upload /\ Seen(w, row).manifest = obs.manifest
        /\ Seen(w, row).worker[w] = row
    BY SeenOf DEF EvidenceInv
  <1>3. \A k \in {"deployments", "modules", "after"} : <<k, w>> \in todo' <=> <<k, w>> \in todo
    BY <1>1
  <1>4. \A k \in {"digest", "upload"} : <<k, None>> \in todo' <=> <<k, None>> \in todo
    BY <1>1
  <1>5. ReadSoFar(w)
    BY <1>1 DEF EvidenceInv, WorkersRead
  <1>6. ReadSoFar(w)'
    BY <1>1, <1>2, <1>3, <1>4, <1>5 DEF ReadSoFar, Served
  <1>7. WorldType'
    BY <1>1 DEF EvidenceInv, WorldType
  <1> QED BY <1>6, <1>7, WorkerSeen DEF Joint

\* Of a read by its worker, what every case needs.
LEMMA WorkerFrame ==
  ASSUME EvidenceInv, NEW kind, NEW w \in Workers, NEW row, RowOk(row),
         Due(kind, w), Advance(kind, w, Seen(w, row))
  PROVE  /\ phase = "collecting" /\ todo' = todo \ {<<kind, w>>} /\ <<kind, w>> \in todo
         /\ obs'.worker[w] = row /\ obs'.upload = obs.upload /\ obs'.manifest = obs.manifest
         /\ scope' = scope /\ serving' = serving /\ checkout' = checkout /\ desired' = desired
         /\ ReadSoFar(w) /\ RowOk(obs.worker[w]) /\ WorldType
  <1>1. /\ phase = "collecting" /\ todo' = todo \ {<<kind, w>>} /\ <<kind, w>> \in todo
        /\ obs' = Seen(w, row)
        /\ scope' = scope /\ serving' = serving /\ checkout' = checkout /\ desired' = desired
    BY AdvanceFrame
  <1>2. /\ Seen(w, row).upload = obs.upload /\ Seen(w, row).manifest = obs.manifest
        /\ Seen(w, row).worker[w] = row
    BY SeenOf DEF EvidenceInv
  <1> QED BY <1>1, <1>2 DEF EvidenceInv, WorkersRead, ReadingOk

LEMMA DeploymentsRead ==
  ASSUME EvidenceInv, NEW w \in Workers, Due("deployments", w), serving[w] # Split, UNCHANGED since,
         Advance("deployments", w, Seen(w, [obs.worker[w] EXCEPT !.version = serving[w]]))
  PROVE  EvidenceInv'
  <1> DEFINE row == [obs.worker[w] EXCEPT !.version = serving[w]]
  <1>1. RowOk(obs.worker[w])
    BY DEF EvidenceInv, ReadingOk
  <1>2. /\ RowOk(row) /\ row.version = serving[w] /\ row.modules = obs.worker[w].modules
        /\ row.after = obs.worker[w].after /\ row.verified = obs.worker[w].verified
    BY <1>1 DEF RowOk
  <1> HIDE DEF row
  <1>3. /\ phase = "collecting" /\ todo' = todo \ {<<"deployments", w>>} /\ <<"deployments", w>> \in todo
        /\ obs'.worker[w] = row /\ obs'.upload = obs.upload /\ obs'.manifest = obs.manifest
        /\ scope' = scope /\ serving' = serving /\ checkout' = checkout /\ desired' = desired
        /\ ReadSoFar(w) /\ WorldType
    BY <1>2, WorkerFrame DEF row
  <1>4. serving[w] \in Versions
    BY <1>3 DEF WorldType
  <1>5. /\ scope.verify => <<"modules", w>> \in todo /\ <<"after", w>> \in todo
        /\ ~obs.worker[w].verified
    BY <1>3 DEF ReadSoFar
  <1>6. ReadSoFar(w)'
    BY <1>2, <1>3, <1>4, <1>5 DEF ReadSoFar
  <1>7. WorldType'
    BY <1>3 DEF WorldType
  <1> QED BY <1>2, <1>6, <1>7, WorkerSeen DEF Joint, row

LEMMA ModulesRead ==
  ASSUME EvidenceInv, NEW w \in Workers, ReadModules(w)
  PROVE  EvidenceInv'
  <1> DEFINE row == [obs.worker[w] EXCEPT !.modules = Version[obs.worker[w].version].modules]
  <1>1. RowOk(obs.worker[w])
    BY DEF EvidenceInv, ReadingOk
  <1>2. /\ RowOk(row) /\ row.version = obs.worker[w].version
        /\ row.modules = Version[obs.worker[w].version].modules
        /\ row.after = obs.worker[w].after /\ row.verified = obs.worker[w].verified
    BY <1>1 DEF RowOk
  <1>3. /\ Due("modules", w) /\ Advance("modules", w, Seen(w, row))
        /\ since' = [since EXCEPT ![w] = [versions |-> {serving[w]}, builds |-> {checkout}]]
    BY DEF ReadModules
  <1> HIDE DEF row
  <1>4. /\ phase = "collecting" /\ todo' = todo \ {<<"modules", w>>} /\ <<"modules", w>> \in todo
        /\ obs'.worker[w] = row /\ obs'.upload = obs.upload /\ obs'.manifest = obs.manifest
        /\ scope' = scope /\ serving' = serving /\ checkout' = checkout /\ desired' = desired
        /\ ReadSoFar(w) /\ WorldType
    BY <1>2, <1>3, WorkerFrame
  <1>5. <<"deployments", w>> \notin todo
    BY <1>3, OrderOfReads
  <1>6. /\ scope.verify => <<"after", w>> \in todo
        /\ ~obs.worker[w].verified
    BY <1>4 DEF ReadSoFar
  <1>7. /\ WorldType' /\ \A v \in Workers : v # w => since'[v] = since[v]
        /\ since'[w].versions = {serving[w]} /\ since'[w].builds = {checkout}
    BY <1>3, <1>4 DEF WorldType
  <1>8. ReadSoFar(w)'
    BY <1>2, <1>4, <1>5, <1>6, <1>7 DEF ReadSoFar
  <1> QED BY <1>2, <1>3, <1>7, <1>8, WorkerSeen DEF Joint

LEMMA AfterRead ==
  ASSUME EvidenceInv, NEW w \in Workers, ReadAfter(w)
  PROVE  EvidenceInv'
  <1> DEFINE row == [obs.worker[w] EXCEPT !.after = serving[w]]
  <1>1. RowOk(obs.worker[w])
    BY DEF EvidenceInv, ReadingOk
  <1>2. /\ RowOk(row) /\ row.version = obs.worker[w].version /\ row.modules = obs.worker[w].modules
        /\ row.after = serving[w] /\ row.verified = obs.worker[w].verified
    BY <1>1 DEF RowOk
  <1>3. Due("after", w) /\ Advance("after", w, Seen(w, row)) /\ since' = since
    BY DEF ReadAfter
  <1> HIDE DEF row
  <1>4. /\ phase = "collecting" /\ todo' = todo \ {<<"after", w>>} /\ <<"after", w>> \in todo
        /\ obs'.worker[w] = row /\ obs'.upload = obs.upload /\ obs'.manifest = obs.manifest
        /\ scope' = scope /\ serving' = serving /\ checkout' = checkout /\ desired' = desired
        /\ ReadSoFar(w) /\ WorldType
    BY <1>2, <1>3, WorkerFrame
  <1>5. <<"modules", w>> \notin todo
    BY <1>3, OrderOfReads
  <1>6. \A k \in {"digest", "upload"} : <<k, None>> \in todo' <=> <<k, None>> \in todo
    BY <1>4
  <1>7. ReadSoFar(w)'
    BY <1>2, <1>3, <1>4, <1>5, <1>6 DEF ReadSoFar, Served
  <1>8. WorldType'
    BY <1>3, <1>4 DEF WorldType
  <1> QED BY <1>2, <1>3, <1>7, <1>8, WorkerSeen DEF Joint

\* The verdict on a worker: the version that was read served again, after its
\* modules had been read, and they were those of the dry run.
LEMMA WorkerQualified ==
  ASSUME EvidenceInv, NEW w \in Workers, Due("qualify", w), Qualified(obs.worker[w]), UNCHANGED since,
         Advance("qualify", w, Seen(w, [obs.worker[w] EXCEPT !.verified = obs.upload \in Plain]))
  PROVE  EvidenceInv'
  <1> DEFINE row == [obs.worker[w] EXCEPT !.verified = obs.upload \in Plain]
  <1>1. RowOk(obs.worker[w])
    BY DEF EvidenceInv, ReadingOk
  <1>2. /\ RowOk(row) /\ row.version = obs.worker[w].version /\ row.modules = obs.worker[w].modules
        /\ row.after = obs.worker[w].after
        /\ row.verified = (obs.upload \in Plain)
    BY <1>1 DEF RowOk
  <1> HIDE DEF row
  <1>3. /\ phase = "collecting" /\ todo' = todo \ {<<"qualify", w>>} /\ <<"qualify", w>> \in todo
        /\ obs'.worker[w] = row /\ obs'.upload = obs.upload /\ obs'.manifest = obs.manifest
        /\ scope' = scope /\ serving' = serving /\ checkout' = checkout /\ desired' = desired
        /\ ReadSoFar(w) /\ WorldType
    BY <1>2, WorkerFrame DEF row
  <1>4. /\ <<"deployments", w>> \notin todo /\ <<"modules", w>> \notin todo /\ <<"after", w>> \notin todo
        /\ <<"digest", None>> \notin todo /\ <<"upload", None>> \notin todo
    <2>1. \A r \in {<<"deployments", w>>, <<"modules", w>>, <<"after", w>>,
                    <<"digest", None>>, <<"upload", None>>} : r \notin todo
      BY OrderOfReads
    <2> QED BY <2>1
  <1>5. scope.verify
    <2>1. <<"qualify", w>> \in ReadsOf(scope)
      BY <1>3 DEF EvidenceInv, Progress
    <2> QED BY <2>1, OnlyVerified
  <1>6. obs.upload \in Plain => Served(obs, w)
    <2>1. /\ obs.worker[w].version \in Versions
          /\ obs.worker[w].modules = Version[obs.worker[w].version].modules
          /\ checkout \in since[w].builds /\ obs.worker[w].after \in since[w].versions
      BY <1>3, <1>4, <1>5 DEF ReadSoFar
    <2>2. /\ obs.worker[w].after = obs.worker[w].version /\ obs.worker[w].modules = obs.manifest
          /\ obs.upload = None \/ checkout = obs.upload
      BY DEF Qualified, Unchanged
    <2> QED BY <2>1, <2>2, EvidenceConstants DEF Served
  <1>7. ReadSoFar(w)'
    BY <1>2, <1>3, <1>4, <1>5, <1>6 DEF ReadSoFar, Served
  <1>8. WorldType'
    BY <1>3 DEF WorldType
  <1> QED BY <1>2, <1>7, <1>8, WorkerSeen DEF Joint, row

----------------------------------------------------------------------------
(* The other reads *)

\* A read that shows neither a fact nor a worker.
LEMMA OtherRead ==
  ASSUME EvidenceInv, NEW kind, NEW x, NEW o, Due(kind, x), Advance(kind, x, o), UNCHANGED since,
         ReadingOk(o), o.held = obs.held, o.worker = obs.worker,
         kind \notin Joint \cup {"zone", "deployments", "modules", "after"},
         \/ <<kind, x>> \in {<<"digest", None>>, <<"upload", None>>}
         \/ o.upload = obs.upload /\ o.manifest = obs.manifest
  PROVE  EvidenceInv'
  <1>1. FactsSeen'
    BY FactsKept
  <1>2. WorkersRead' /\ WorldType'
    BY WorkersKept
  <1>3. obs' = o /\ Progress' /\ EvidenceHeld'
    BY AdvanceFrame
  <1>4. ReadingOk(obs)'
    BY <1>3 DEF ReadingOk, RowOk
  <1> QED BY <1>1, <1>2, <1>3, <1>4 DEF EvidenceInv

LEMMA OtherReads ==
  ASSUME EvidenceInv,
         ReadProfile \/ BuildUpload \/ \E w \in Workers : ReadArtifact(w)
  PROVE  EvidenceInv'
  <1>1. ReadingOk(obs)
    BY DEF EvidenceInv
  <1>2. CASE ReadProfile
    BY <1>1, <1>2, OtherRead DEF ReadProfile, Joint
  <1>3. CASE BuildUpload
    <2>1. CASE Due("digest", None) /\ Advance("digest", None, [obs EXCEPT !.upload = checkout])
      <3>1. /\ ReadingOk([obs EXCEPT !.upload = checkout])
            /\ [obs EXCEPT !.upload = checkout].held = obs.held
            /\ [obs EXCEPT !.upload = checkout].worker = obs.worker
        BY <1>1 DEF ReadingOk
      <3> QED BY <1>3, <2>1, <3>1, OtherRead DEF BuildUpload, Joint
    <2>2. CASE Due("upload", None) /\ Advance("upload", None, [obs EXCEPT !.manifest = Manifest[checkout]])
      <3>1. /\ ReadingOk([obs EXCEPT !.manifest = Manifest[checkout]])
            /\ [obs EXCEPT !.manifest = Manifest[checkout]].held = obs.held
            /\ [obs EXCEPT !.manifest = Manifest[checkout]].worker = obs.worker
        BY <1>1 DEF ReadingOk
      <3> QED BY <1>3, <2>2, <3>1, OtherRead DEF BuildUpload, Joint
    <2>3. CASE Due("uploaded", None) /\ Advance("uploaded", None, obs)
      BY <1>1, <1>3, <2>3, OtherRead DEF BuildUpload, Joint
    <2> QED BY <1>3, <2>1, <2>2, <2>3 DEF BuildUpload
  <1>4. ASSUME NEW w \in Workers, ReadArtifact(w) PROVE EvidenceInv'
    <2>1. /\ ReadingOk([obs EXCEPT !.artifact = checkout])
          /\ [obs EXCEPT !.artifact = checkout].held = obs.held
          /\ [obs EXCEPT !.artifact = checkout].worker = obs.worker
          /\ [obs EXCEPT !.artifact = checkout].upload = obs.upload
          /\ [obs EXCEPT !.artifact = checkout].manifest = obs.manifest
      BY <1>1 DEF ReadingOk
    <2> QED BY <1>4, <2>1, OtherRead DEF ReadArtifact, Joint
  <1> QED BY <1>2, <1>3, <1>4

LEMMA PrivateRead ==
  ASSUME EvidenceInv, UNCHANGED since,
         \/ Due("evidence", None) /\ Advance("evidence", None, [obs EXCEPT !.active = active])
         \/ Due("object", None) /\ Advance("object", None, [obs EXCEPT !.object = object])
  PROVE  EvidenceInv'
  <1>1. ReadingOk(obs)
    BY DEF EvidenceInv
  <1>2. /\ ReadingOk([obs EXCEPT !.active = active])
        /\ [obs EXCEPT !.active = active].held = obs.held
        /\ [obs EXCEPT !.active = active].worker = obs.worker
        /\ [obs EXCEPT !.active = active].upload = obs.upload
        /\ [obs EXCEPT !.active = active].manifest = obs.manifest
    BY <1>1 DEF ReadingOk
  <1>3. /\ ReadingOk([obs EXCEPT !.object = object])
        /\ [obs EXCEPT !.object = object].held = obs.held
        /\ [obs EXCEPT !.object = object].worker = obs.worker
        /\ [obs EXCEPT !.object = object].upload = obs.upload
        /\ [obs EXCEPT !.object = object].manifest = obs.manifest
    BY <1>1 DEF ReadingOk
  <1> QED BY <1>2, <1>3, OtherRead DEF Joint

----------------------------------------------------------------------------
(* Facts *)

\* No other read shows a fact that a joint one shows.
LEMMA ReadsApart ==
  ASSUME NEW k \in Joint, NEW d \in Domains, NEW kind \in DomainKinds \cup InventoryKinds, NEW x,
         <<kind, x>> # <<k, d>>
  PROVE  FactsRead(k, d) \cap FactsRead(kind, x) = {}
  <1>1. \A y, z : <<"rule", d, y>> # <<z, x>>
    OBVIOUS
  <1>2. CASE k = "rules"
    <2>1. FactsRead(k, d) = Rules(d, Desired[scope.desired][d].roles \cup Desired[scope.desired][d].personals)
      BY <1>2 DEF FactsRead
    <2>2. CASE kind = "rules"
      BY <1>2, <2>1, <2>2 DEF FactsRead, Rules
    <2>3. CASE kind # "rules"
      <3>1. \A f \in FactsRead(kind, x) : \E a, b : f = <<a, b>> /\ a # "rule"
        BY <2>3 DEF FactsRead, Fact, DomainKinds, InventoryKinds, Providers
      <3> QED BY <2>1, <3>1 DEF Rules
    <2> QED BY <2>2, <2>3
  <1>3. CASE k = "catchAll"
    <2>1. FactsRead(k, d) = {<<"catchAll", d>>, <<"catchAllRouted", d>>}
      BY <1>3 DEF FactsRead, Fact
    <2>2. CASE kind = "rules"
      BY <2>1, <2>2 DEF FactsRead, Rules
    <2>3. CASE kind = "catchAll"
      BY <1>3, <2>1, <2>3 DEF FactsRead, Fact
    <2>4. CASE kind \notin {"rules", "catchAll"}
      <3>1. \A f \in FactsRead(kind, x) : \E a, b : f = <<a, b>> /\ a \notin {"catchAll", "catchAllRouted"}
        BY <2>4 DEF FactsRead, Fact, DomainKinds, InventoryKinds, Providers
      <3>2. \A f \in FactsRead(kind, x) : f # <<"catchAll", d>> /\ f # <<"catchAllRouted", d>>
        BY <3>1
      <3> QED BY <2>1, <3>2
    <2> QED BY <2>2, <2>3, <2>4
  <1> QED BY <1>2, <1>3 DEF Joint

LEMMA MoreHeld ==
  ASSUME ReadingOk(obs), NEW H
  PROVE  LET o == [obs EXCEPT !.held = H] IN
         /\ ReadingOk(o) /\ o.held = H /\ o.worker = obs.worker
         /\ o.upload = obs.upload /\ o.manifest = obs.manifest
  BY DEF ReadingOk

\* A read of facts sees those of its kind that hold.
LEMMA FactsAdded ==
  ASSUME EvidenceInv, NEW kind \in DomainKinds \cup InventoryKinds, NEW x, Due(kind, x), UNCHANGED since,
         ~Missing(kind, x),
         Advance(kind, x, [obs EXCEPT !.held = obs.held \cup (FactsRead(kind, x) \cap held)])
  PROVE  EvidenceInv'
  <1> DEFINE o == [obs EXCEPT !.held = obs.held \cup (FactsRead(kind, x) \cap held)]
  <1>1. /\ ReadingOk(o) /\ o.held = obs.held \cup (FactsRead(kind, x) \cap held) /\ o.worker = obs.worker
        /\ o.upload = obs.upload /\ o.manifest = obs.manifest
    BY MoreHeld DEF EvidenceInv
  <1> HIDE DEF o
  <1>2. /\ phase = "collecting" /\ todo' = todo \ {<<kind, x>>} /\ <<kind, x>> \in todo /\ obs' = o
        /\ scope' = scope /\ past' = past /\ held' = held
        /\ Progress' /\ EvidenceHeld'
    BY AdvanceFrame DEF o
  <1>3. held \in past /\ Observed(obs)
    BY <1>2 DEF EvidenceInv, FactsSeen
  <1>4. Observed(obs)'
    BY <1>1, <1>2, <1>3 DEF Observed
  <1>5. ASSUME NEW d \in Domains, NEW k \in Joint
        PROVE  /\ <<k, d>> \in todo' => obs'.held \cap FactsRead(k, d)' = {}
               /\ <<k, d>> \in ReadsOf(scope') \ todo' => Snapshot(obs, k, d)'
    <2>1. FactsRead(k, d)' = FactsRead(k, d)
      BY <1>2 DEF FactsRead
    <2>2. /\ <<k, d>> \in todo => obs.held \cap FactsRead(k, d) = {}
          /\ <<k, d>> \in ReadsOf(scope) \ todo => Snapshot(obs, k, d)
      BY <1>2 DEF EvidenceInv, FactsSeen
    <2>3. CASE <<k, d>> = <<kind, x>>
      <3>1. k = kind /\ d = x
        BY <2>3
      <3>2. obs'.held \cap FactsRead(k, d) = held \cap FactsRead(k, d)
        BY <1>1, <1>2, <2>2, <2>3, <3>1
      <3> QED BY <1>2, <1>3, <2>1, <2>3, <3>2 DEF Snapshot
    <2>4. CASE <<k, d>> # <<kind, x>>
      <3>1. FactsRead(k, d) \cap FactsRead(kind, x) = {}
        BY <2>4, ReadsApart
      <3>2. obs'.held \cap FactsRead(k, d) = obs.held \cap FactsRead(k, d)
        BY <1>1, <1>2, <3>1
      <3>3. <<k, d>> \in todo' <=> <<k, d>> \in todo
        BY <1>2, <2>4
      <3> QED BY <1>2, <2>1, <2>2, <3>2, <3>3 DEF Snapshot
    <2> QED BY <2>3, <2>4
  <1>6. FactsSeen'
    <2>1. ASSUME NEW d \in scope.selected, <<"zone", d>> \notin todo'
          PROVE  Fact("zone", d) \in obs'.held
      <3>1. CASE <<"zone", d>> = <<kind, x>>
        <4>1. kind = "zone" /\ x = d
          BY <3>1
        <4>2. FactsRead(kind, x) = {Fact("zone", d)}
          BY <4>1 DEF FactsRead
        <4> QED BY <1>1, <1>2, <4>1, <4>2 DEF Missing
      <3>2. CASE <<"zone", d>> # <<kind, x>>
        <4>1. <<"zone", d>> \notin todo
          BY <1>2, <2>1, <3>2
        <4> QED BY <1>1, <1>2, <4>1 DEF EvidenceInv, FactsSeen
      <3> QED BY <3>1, <3>2
    <2> QED BY <1>2, <1>3, <1>4, <1>5, <2>1 DEF FactsSeen
  <1>7. WorkersRead' /\ WorldType'
    BY <1>1, WorkersKept DEF o, DomainKinds, InventoryKinds
  <1>8. ReadingOk(obs)'
    BY <1>1, <1>2 DEF ReadingOk, RowOk
  <1> QED BY <1>2, <1>6, <1>7, <1>8 DEF EvidenceInv

----------------------------------------------------------------------------
(* Writing the evidence *)

\* Evidence that says what it should is written, and the collection is over.
LEMMA WriteKept ==
  ASSUME EvidenceInv, phase = "collecting", NEW e, Write(e), EvidenceSays(e)
  PROVE  EvidenceInv'
  <1>1. /\ evidence' = e /\ phase' = "written" /\ todo' = {} /\ obs' = Nothing
        /\ scope' = scope /\ past' = past /\ since' = since
        /\ held' = held /\ serving' = serving /\ checkout' = checkout /\ desired' = desired
    BY DEF Write, world
  <1>2. EvidenceHeld'
    <2>1. \A w \in Workers : Served(e.obs, w) => Served(evidence.obs, w)'
      BY <1>1 DEF Served
    <2>2. Observed(e.obs) => Observed(evidence.obs)'
      BY <1>1 DEF Observed
    <2>3. \A d, kind : FactsRead(kind, d)' = FactsRead(kind, d)
      BY <1>1 DEF FactsRead
    <2>4. \A d, kind : Snapshot(e.obs, kind, d) => Snapshot(evidence.obs, kind, d)'
      BY <1>1, <2>3 DEF Snapshot
    <2> QED BY <1>1, <2>1, <2>2, <2>4 DEF EvidenceHeld, EvidenceSays
  <1>3. WorldType'
    BY <1>1 DEF EvidenceInv, WorldType
  <1>4. ReadingOk(obs)'
    BY <1>1 DEF ReadingOk, RowOk, Nothing, NoWorker
  <1>5. Progress'
    BY <1>1 DEF EvidenceInv, Progress, ScopeOk
  <1> QED BY <1>1, <1>2, <1>3, <1>4, <1>5 DEF EvidenceInv, WorkersRead, FactsSeen

\* A collection that stops early keeps nothing of what it read.
LEMMA StoppedKept ==
  ASSUME EvidenceInv, phase = "collecting", NEW good, NEW bad, Write(Incomplete(good, bad))
  PROVE  EvidenceInv'
  <1> DEFINE c == Coverage(scope, good, bad, FALSE, {}, {})
  <1>1. ScopeOk(scope)
    BY DEF EvidenceInv, Progress
  <1>2. ValidCoverage(c, scope.desired) /\ ~c.selectedComplete
    <2>1. {} \in SUBSET scope.selected
      OBVIOUS
    <2> QED BY <1>1, <2>1, CoverageOk
  <1>3. c.desired = scope.desired /\ c.selected = scope.selected /\ c.observed = {}
    BY DEF Coverage
  <1>4. Incomplete(good, bad).coverage = c /\ Incomplete(good, bad).complete = FALSE
    BY DEF Incomplete
  <1>5. EvidenceSays(Incomplete(good, bad))
    <2> HIDE DEF c
    <2> QED BY <1>2, <1>3, <1>4 DEF EvidenceSays
  <1> QED BY <1>5, WriteKept

\* A read is due only while a collection is under way.
LEMMA DueCollecting ==
  ASSUME EvidenceInv, NEW kind, NEW x, Due(kind, x)
  PROVE  phase = "collecting"
  BY DEF EvidenceInv, Progress, Due

LEMMA Failures ==
  ASSUME EvidenceInv, FailCall \/ FailLocal
  PROVE  EvidenceInv'
  <1>1. CASE FailCall
    <2>1. PICK r \in todo : /\ Due(r[1], r[2])
                            /\ \E performed \in BOOLEAN :
                                 Write(Incomplete(succeeded, IF performed THEN {Capability(r[1])} ELSE {}))
      BY <1>1 DEF FailCall
    <2>2. PICK performed \in BOOLEAN :
            Write(Incomplete(succeeded, IF performed THEN {Capability(r[1])} ELSE {}))
      BY <2>1
    <2> QED BY <2>1, <2>2, DueCollecting, StoppedKept
  <1>2. CASE FailLocal
    <2>1. PICK r \in todo : Due(r[1], r[2]) /\ Write(Incomplete(succeeded, {}))
      BY <1>2 DEF FailLocal
    <2> QED BY <2>1, DueCollecting, StoppedKept
  <1> QED BY <1>1, <1>2

\* When no read is left, every worker's and every joint one was made.
LEMMA FinishKept ==
  ASSUME EvidenceInv, Finish
  PROVE  EvidenceInv'
  <1> DEFINE c == Coverage(scope, succeeded, {}, TRUE, Zones(obs, scope), Shown(obs))
             e == [coverage |-> c, complete |-> TRUE, obs |-> obs]
  <1>1. phase = "collecting" /\ todo = {} /\ Write(e) /\ ScopeOk(scope)
    BY DEF Finish, EvidenceInv, Progress
  <1>2. Zones(obs, scope) \in SUBSET scope.selected
    BY DEF Zones
  <1>3. /\ ValidCoverage(c, scope.desired)
        /\ c.selectedComplete => scope.selected = Zones(obs, scope)
    BY <1>1, <1>2, CoverageOk
  <1>4. c.desired = scope.desired /\ c.selected = scope.selected /\ c.observed = Zones(obs, scope)
    BY DEF Coverage
  <1>5. \A w \in Workers : obs.worker[w].verified => Served(obs, w)
    BY <1>1 DEF EvidenceInv, WorkersRead, ReadSoFar
  <1>6. /\ Observed(obs)
        /\ \A d \in Domains, kind \in Joint :
             <<kind, d>> \in ReadsOf(scope) => Snapshot(obs, kind, d)
    BY <1>1 DEF EvidenceInv, FactsSeen
  <1>7. e.coverage = c /\ e.complete = TRUE /\ e.obs = obs
    OBVIOUS
  <1>9. c.observed = scope.selected /\ c.accepted \subseteq Shown(obs)
    <2>1. Zones(obs, scope) = scope.selected
      BY <1>1 DEF EvidenceInv, FactsSeen, Zones
    <2> QED BY <2>1 DEF Coverage
  <1> HIDE DEF e, c
  <1>8. EvidenceSays(e)
    BY <1>3, <1>4, <1>5, <1>6, <1>7, <1>9 DEF EvidenceSays
  <1> QED BY <1>1, <1>8, WriteKept

----------------------------------------------------------------------------
(* Starting, and the steps of the collector *)

\* A collection has the reads of each worker before it.
LEMMA WorkersToRead ==
  ASSUME NEW s, NEW w \in Workers
  PROVE  /\ <<"deployments", w>> \in ReadsOf(s)
         /\ s.verify => <<"modules", w>> \in ReadsOf(s) /\ <<"after", w>> \in ReadsOf(s)
  <1>1. /\ <<"deployments", w>> \in WorkerReads(s, w)
        /\ s.verify => <<"modules", w>> \in WorkerReads(s, w) /\ <<"after", w>> \in WorkerReads(s, w)
    BY DEF WorkerReads, Reads
  <1> QED BY <1>1 DEF ReadsOf

LEMMA StartKept ==
  ASSUME EvidenceInv, Start
  PROVE  EvidenceInv'
  <1>1. /\ phase = "idle" /\ phase' = "collecting" /\ scope' \in Scopes /\ todo' = ReadsOf(scope')
        /\ past' = {held} /\ obs' = obs /\ since' = since
        /\ held' = held /\ serving' = serving /\ checkout' = checkout /\ desired' = desired
    BY DEF Start, world
  <1>2. obs = Nothing /\ ReadingOk(obs) /\ WorldType
    BY <1>1 DEF EvidenceInv, Progress
  <1>3. ScopeOk(scope')
    BY <1>1, <1>2, EvidenceConstants DEF Scopes, ScopeOk, WorldType
  <1>4. Progress'
    BY <1>1, <1>3 DEF Progress, ScopeOk
  <1>5. WorkersRead'
    <2>1. ASSUME NEW w \in Workers PROVE ReadSoFar(w)'
      <3>1. obs'.worker[w].verified = FALSE
        BY <1>1, <1>2 DEF Nothing, NoWorker
      <3>2. /\ <<"deployments", w>> \in todo'
            /\ scope'.verify => <<"modules", w>> \in todo' /\ <<"after", w>> \in todo'
        BY <1>1, WorkersToRead
      <3> QED BY <3>1, <3>2 DEF ReadSoFar
    <2> QED BY <2>1 DEF WorkersRead
  <1>6. FactsSeen'
    <2>1. obs'.held = {}
      BY <1>1, <1>2 DEF Nothing
    <2>2. ASSUME NEW d \in scope'.selected PROVE <<"zone", d>> \in todo'
      <3>1. <<"zone", d>> \in DomainReads(scope', d)
        BY DEF DomainReads, Reads
      <3> QED BY <1>1, <3>1 DEF ReadsOf
    <2> QED BY <1>1, <2>1, <2>2 DEF FactsSeen, Observed
  <1>7. ReadingOk(obs)' /\ WorldType' /\ EvidenceHeld'
    BY <1>1, <1>2 DEF ReadingOk, RowOk, WorldType, EvidenceHeld
  <1> QED BY <1>4, <1>5, <1>6, <1>7 DEF EvidenceInv

LEMMA FactsStep ==
  ASSUME EvidenceInv, NEW kind \in DomainKinds \cup InventoryKinds, NEW x, ReadFacts(kind, x)
  PROVE  EvidenceInv'
  <1>1. Due(kind, x)
    BY DEF ReadFacts
  <1>2. CASE Missing(kind, x)
    BY <1>1, <1>2, DueCollecting, StoppedKept DEF ReadFacts
  <1>3. CASE ~Missing(kind, x)
    BY <1>1, <1>3, FactsAdded DEF ReadFacts
  <1> QED BY <1>2, <1>3

LEMMA WorkerStep ==
  ASSUME EvidenceInv, NEW w \in Workers, ReadWorker(w)
  PROVE  EvidenceInv'
  <1>1. RowOk(obs.worker[w])
    BY DEF EvidenceInv, ReadingOk
  <1>2. CASE ReadBindings(w)
    <2>1. PICK matches : Advance("bindings", w, Seen(w, [obs.worker[w] EXCEPT !.bindings = matches]))
      BY <1>2 DEF ReadBindings
    <2> DEFINE row == [obs.worker[w] EXCEPT !.bindings = matches]
    <2>2. /\ RowOk(row) /\ row.version = obs.worker[w].version /\ row.modules = obs.worker[w].modules
          /\ row.after = obs.worker[w].after /\ row.verified = obs.worker[w].verified
      BY <1>1 DEF RowOk
    <2>3. Advance("bindings", w, Seen(w, row)) /\ Due("bindings", w) /\ UNCHANGED since
      BY <1>2, <2>1 DEF ReadBindings
    <2> HIDE DEF row
    <2> QED BY <2>2, <2>3, PlainSeen
  <1>3. CASE ReadDeployments(w)
    <2>1. CASE serving[w] = Split
      BY <1>3, <2>1, DueCollecting, StoppedKept DEF ReadDeployments
    <2>2. CASE serving[w] # Split
      BY <1>3, <2>2, DeploymentsRead DEF ReadDeployments
    <2> QED BY <2>1, <2>2
  <1>4. CASE ReadArtifact(w)
    BY <1>4, OtherReads
  <1>5. CASE ReadVersion(w)
    <2> DEFINE drift == Version[obs.worker[w].version].artifact # obs.artifact
               row == [obs.worker[w] EXCEPT !.drift = drift]
    <2>1. Advance("version", w, Seen(w, row)) /\ Due("version", w) /\ UNCHANGED since
      BY <1>5 DEF ReadVersion
    <2> HIDE DEF drift
    <2>2. /\ RowOk(row) /\ row.version = obs.worker[w].version /\ row.modules = obs.worker[w].modules
          /\ row.after = obs.worker[w].after /\ row.verified = obs.worker[w].verified
      BY <1>1 DEF RowOk
    <2> HIDE DEF row
    <2> QED BY <2>1, <2>2, PlainSeen
  <1>6. CASE Qualify(w)
    <2>1. CASE Qualified(obs.worker[w])
      BY <1>6, <2>1, WorkerQualified DEF Qualify
    <2>2. CASE ~Qualified(obs.worker[w])
      BY <1>6, <2>2, DueCollecting, StoppedKept DEF Qualify
    <2> QED BY <2>1, <2>2
  <1> QED BY <1>2, <1>3, <1>4, <1>5, <1>6, ModulesRead, AfterRead DEF ReadWorker

LEMMA PrivateStep ==
  ASSUME EvidenceInv, ReadPrivate
  PROVE  EvidenceInv'
  <1>1. CASE Due("evidence", None) /\ Fact("resource", "d1_database") \notin obs.held
             /\ Write(Incomplete(succeeded, {}))
    BY <1>1, DueCollecting, StoppedKept
  <1> QED BY <1>1, PrivateRead DEF ReadPrivate

----------------------------------------------------------------------------
(* The world moves on *)

\* A change adds to the moments of the collection, and to what was served and
\* built since a worker's modules were read.
LEMMA WorldMoves ==
  ASSUME EvidenceInv, UNCHANGED collector, WorldType',
         past \subseteq past', phase = "collecting" => held' \in past',
         \A w \in Workers :
           /\ since[w].versions \subseteq since'[w].versions
           /\ since[w].builds \subseteq since'[w].builds
           /\ serving[w] \in since[w].versions => serving'[w] \in since'[w].versions
           /\ checkout \in since[w].builds => checkout' \in since'[w].builds
  PROVE  EvidenceInv'
  <1>1. /\ phase' = phase /\ scope' = scope /\ todo' = todo /\ obs' = obs /\ evidence' = evidence
    BY DEF collector
  <1>2. ASSUME NEW o, NEW w \in Workers, Served(o, w)
        PROVE  o.upload \in since'[w].builds
               /\ \E v \in since'[w].versions \cap Versions : Version[v].modules = o.manifest
    BY <1>2 DEF Served
  <1>3. ASSUME NEW o, NEW d, NEW kind, Snapshot(o, kind, d)
        PROVE  \E h \in past' : o.held \cap FactsRead(kind, d)' = h \cap FactsRead(kind, d)'
    <2>1. FactsRead(kind, d)' = FactsRead(kind, d)
      BY <1>1 DEF FactsRead
    <2> QED BY <1>3, <2>1 DEF Snapshot
  <1>4. ASSUME NEW o, Observed(o)
        PROVE  \A f \in o.held : \E h \in past' : f \in h
    BY <1>4 DEF Observed
  <1>5. WorkersRead'
    <2>1. ASSUME NEW w \in Workers, phase = "collecting" PROVE ReadSoFar(w)'
      <3>1. ReadSoFar(w)
        BY <2>1 DEF EvidenceInv, WorkersRead
      <3>2. obs.worker[w].verified => Served(obs, w)'
        BY <1>1, <1>2, <3>1 DEF ReadSoFar, Served
      <3> QED BY <1>1, <3>1, <3>2 DEF ReadSoFar
    <2> QED BY <1>1, <2>1 DEF WorkersRead
  <1>6. FactsSeen'
    <2>1. ASSUME NEW d \in Domains, NEW k \in Joint, phase = "collecting"
          PROVE  /\ <<k, d>> \in todo' => obs'.held \cap FactsRead(k, d)' = {}
                 /\ <<k, d>> \in ReadsOf(scope') \ todo' => Snapshot(obs, k, d)'
      <3>1. /\ <<k, d>> \in todo => obs.held \cap FactsRead(k, d) = {}
            /\ <<k, d>> \in ReadsOf(scope) \ todo => Snapshot(obs, k, d)
        BY <2>1 DEF EvidenceInv, FactsSeen
      <3>2. FactsRead(k, d)' = FactsRead(k, d)
        BY <1>1 DEF FactsRead
      <3>3. Snapshot(obs, k, d) => Snapshot(obs, k, d)'
        BY <1>1, <1>3 DEF Snapshot
      <3> QED BY <1>1, <3>1, <3>2, <3>3
    <2>2. phase = "collecting" => Observed(obs)'
      BY <1>1, <1>4 DEF EvidenceInv, FactsSeen, Observed
    <2>3. phase = "collecting" =>
            \A d \in scope'.selected : <<"zone", d>> \in todo' \/ Fact("zone", d) \in obs'.held
      BY <1>1 DEF EvidenceInv, FactsSeen
    <2> QED BY <1>1, <2>1, <2>2, <2>3 DEF FactsSeen
  <1>7. EvidenceHeld'
    <2> SUFFICES ASSUME phase = "written" PROVE EvidenceSays(evidence)'
      BY <1>1 DEF EvidenceHeld
    <2>1. EvidenceSays(evidence)
      BY DEF EvidenceInv, EvidenceHeld
    <2> DEFINE e == evidence
    <2>2. \A w \in Workers : Served(e.obs, w) => Served(evidence.obs, w)'
      BY <1>1, <1>2 DEF Served
    <2>3. Observed(e.obs) => Observed(evidence.obs)'
      BY <1>1, <1>4 DEF Observed
    <2>4. \A d \in Domains, kind \in Joint :
            Snapshot(e.obs, kind, d) => Snapshot(evidence.obs, kind, d)'
      BY <1>1, <1>3 DEF Snapshot
    <2> QED BY <1>1, <2>1, <2>2, <2>3, <2>4 DEF EvidenceSays
  <1>8. Progress' /\ ReadingOk(obs)'
    BY <1>1 DEF EvidenceInv, Progress, ScopeOk, ReadingOk, RowOk
  <1> QED BY <1>5, <1>6, <1>7, <1>8 DEF EvidenceInv

LEMMA ProviderStep ==
  ASSUME EvidenceInv, ProviderChange
  PROVE  EvidenceInv'
  <1>1. /\ collector' = collector /\ checkout' = checkout /\ desired' = desired /\ phase # "written"
        /\ past' = IF phase = "idle" THEN past ELSE past \cup {held'}
        /\ since' = [w \in Workers |-> IF since[w] = NotRead THEN NotRead
                                       ELSE [since[w] EXCEPT !.versions = @ \cup {serving'[w]}]]
    BY DEF ProviderChange
  <1>2. WorldType
    BY DEF EvidenceInv
  <1>3. serving' \in [Workers -> Versions \cup {Split}]
    BY <1>2 DEF ProviderChange, WorldType
  <1>4. ASSUME NEW w \in Workers
        PROVE  /\ since'[w] \in [versions : SUBSET (Versions \cup {Split}), builds : SUBSET Artifacts]
               /\ since[w].versions \subseteq since'[w].versions
               /\ since[w].builds \subseteq since'[w].builds
               /\ serving[w] \in since[w].versions => serving'[w] \in since'[w].versions
               /\ checkout \in since[w].builds => checkout' \in since'[w].builds
    <2>1. since[w] \in [versions : SUBSET (Versions \cup {Split}), builds : SUBSET Artifacts]
      BY <1>2 DEF WorldType
    <2>2. CASE since[w] = NotRead
      BY <1>1, <2>1, <2>2 DEF NotRead
    <2>3. CASE since[w] # NotRead
      <3>1. since'[w] = [since[w] EXCEPT !.versions = since[w].versions \cup {serving'[w]}]
        BY <1>1, <2>3
      <3>2. serving'[w] \in Versions \cup {Split}
        BY <1>3
      <3>3. since'[w].versions = since[w].versions \cup {serving'[w]} /\ since'[w].builds = since[w].builds
        BY <2>1, <3>1
      <3> QED BY <1>1, <2>1, <3>1, <3>2, <3>3
    <2> QED BY <2>2, <2>3
  <1>5. WorldType'
    BY <1>1, <1>2, <1>3, <1>4 DEF WorldType
  <1>6. phase = "collecting" => held' \in past'
    BY <1>1
  <1> QED BY <1>1, <1>4, <1>5, <1>6, WorldMoves

LEMMA RebuildStep ==
  ASSUME EvidenceInv, Rebuild
  PROVE  EvidenceInv'
  <1>1. /\ collector' = collector /\ serving' = serving /\ held' = held /\ desired' = desired
        /\ past' = past /\ checkout' \in Artifacts
        /\ since' = [w \in Workers |-> IF since[w] = NotRead THEN NotRead
                                       ELSE [since[w] EXCEPT !.builds = @ \cup {checkout'}]]
    BY DEF Rebuild
  <1>2. WorldType
    BY DEF EvidenceInv
  <1>3. ASSUME NEW w \in Workers
        PROVE  /\ since'[w] \in [versions : SUBSET (Versions \cup {Split}), builds : SUBSET Artifacts]
               /\ since[w].versions \subseteq since'[w].versions
               /\ since[w].builds \subseteq since'[w].builds
               /\ serving[w] \in since[w].versions => serving'[w] \in since'[w].versions
               /\ checkout \in since[w].builds => checkout' \in since'[w].builds
    <2>1. since[w] \in [versions : SUBSET (Versions \cup {Split}), builds : SUBSET Artifacts]
      BY <1>2 DEF WorldType
    <2>2. CASE since[w] = NotRead
      BY <1>1, <2>1, <2>2 DEF NotRead
    <2>3. CASE since[w] # NotRead
      <3>1. since'[w] = [since[w] EXCEPT !.builds = since[w].builds \cup {checkout'}]
        BY <1>1, <2>3
      <3> QED BY <1>1, <2>1, <3>1
    <2> QED BY <2>2, <2>3
  <1>4. WorldType'
    BY <1>1, <1>2, <1>3 DEF WorldType
  <1>5. phase = "collecting" => held' \in past'
    BY <1>1 DEF EvidenceInv, FactsSeen
  <1> QED BY <1>1, <1>3, <1>4, <1>5, WorldMoves

LEMMA WorldStep ==
  ASSUME EvidenceInv, ProviderChange \/ Rebuild \/ Redesire \/ UNCHANGED vars
  PROVE  EvidenceInv'
  <1>1. CASE Redesire \/ UNCHANGED vars
    <2>1. /\ collector' = collector /\ serving' = serving /\ held' = held /\ checkout' = checkout
          /\ past' = past /\ since' = since /\ desired' \in Desireds
      BY <1>1 DEF Redesire, vars, world, EvidenceInv, WorldType
    <2>2. WorldType'
      BY <2>1 DEF EvidenceInv, WorldType
    <2>3. phase = "collecting" => held' \in past'
      BY <2>1 DEF EvidenceInv, FactsSeen
    <2> QED BY <2>1, <2>2, <2>3, WorldMoves
  <1> QED BY <1>1, ProviderStep, RebuildStep

----------------------------------------------------------------------------
LEMMA EvidenceInit ==
  ASSUME Init
  PROVE  EvidenceInv
  <1>1. /\ phase = "idle" /\ todo = {} /\ obs = Nothing /\ since = [w \in Workers |-> NotRead]
    BY DEF Init
  <1>2. WorldType
    <2>1. serving \in [Workers -> Versions \cup {Split}] /\ checkout \in Artifacts /\ desired \in Desireds
      BY EvidenceConstants DEF Init
    <2> QED BY <1>1, <2>1 DEF WorldType, NotRead
  <1>3. ReadingOk(obs)
    BY <1>1 DEF ReadingOk, RowOk, Nothing, NoWorker
  <1> QED BY <1>1, <1>2, <1>3 DEF EvidenceInv, Progress, WorkersRead, FactsSeen, EvidenceHeld

LEMMA EvidenceStep ==
  ASSUME EvidenceInv, [Next]_vars
  PROVE  EvidenceInv'
  <1>1. CASE Start \/ Finish
    BY <1>1, StartKept, FinishKept
  <1>2. CASE FailCall \/ FailLocal
    BY <1>2, Failures
  <1>3. CASE ReadProfile \/ BuildUpload
    BY <1>3, OtherReads
  <1>4. CASE \E d \in Domains, kind \in DomainKinds : ReadFacts(kind, d)
    BY <1>4, FactsStep
  <1>5. CASE \E kind \in InventoryKinds : ReadFacts(kind, None)
    BY <1>5, FactsStep
  <1>6. CASE \E w \in Workers : ReadWorker(w)
    BY <1>6, WorkerStep
  <1>7. CASE ReadPrivate
    BY <1>7, PrivateStep
  <1>8. CASE ProviderChange \/ Rebuild \/ Redesire \/ UNCHANGED vars
    BY <1>8, WorldStep
  <1> QED BY <1>1, <1>2, <1>3, <1>4, <1>5, <1>6, <1>7, <1>8 DEF Next

\* What the collector holds, and what it wrote, stays tied to what the provider
\* was during the collection, whatever changes between two reads.
THEOREM EvidenceInvariant == Spec => []EvidenceInv
  BY EvidenceInit, EvidenceStep, PTL DEF Spec

----------------------------------------------------------------------------
\* A worker is recorded as verified only if, once its modules had been read, it
\* served a version with exactly the modules of the dry run, whose artifact was
\* still in the checkout: the second reading of the deployments decides.
THEOREM VerifiedServed == Spec => []VerifiedWasServing
  <1>1. ASSUME EvidenceInv PROVE VerifiedWasServing
    <2> SUFFICES ASSUME Written, evidence.complete, NEW w \in Workers,
                        WorkerStatus(w) = "ok" \/ "worker_deployment_identity" \in Claim.accepted
                 PROVE  Served(evidence.obs, w)
      BY DEF VerifiedWasServing, Served
    <2>1. EvidenceSays(evidence)
      BY <1>1 DEF EvidenceInv, EvidenceHeld, Written
    <2>2. StatusOf(evidence.obs, w) = "ok"
      BY <2>1 DEF WorkerStatus, EvidenceSays, Claim, Shown
    <2>3. evidence.obs.worker[w].verified
      BY <2>2 DEF StatusOf
    <2> QED BY <2>1, <2>3 DEF EvidenceSays
  <1> QED BY <1>1, EvidenceInvariant, PTL

\* What evidence that validates for the verifier's desired state was asked to read.
LEMMA Validated ==
  ASSUME EvidenceInv, Written, ValidCoverage(Claim, desired)
  PROVE  /\ Claim.desired = desired /\ scope.desired = desired /\ Claim.selected = scope.selected
         /\ EvidenceSays(evidence) /\ desired \in Desireds
  <1>1. EvidenceSays(evidence) /\ desired \in Desireds
    BY DEF EvidenceInv, EvidenceHeld, Written, WorldType
  <1> QED BY <1>1 DEF EvidenceSays, ValidCoverage, Claim

\* The rules and the catch-all of a routed domain are read together.
LEMMA RoutedReads ==
  ASSUME NEW s, NEW d \in s.selected, Routed(Desired[s.desired][d]), NEW kind \in Joint
  PROVE  <<kind, d>> \in ReadsOf(s)
  <1>1. <<kind, d>> \in DomainReads(s, d)
    BY DEF DomainReads, Reads, Joint
  <1> QED BY <1>1 DEF ReadsOf

\* What a row of a domain reports as ok was so at a moment of the collection.
LEMMA RowTrue ==
  ASSUME EvidenceInv, Written, ValidCoverage(Claim, desired), NEW d \in DOMAIN Desired[desired],
         NEW field \in DOMAIN Row(d) \ {"r2_policy", "worker_bindings", "d1_queue"},
         Row(d)[field] = "ok"
  PROVE  d \in Claim.selected /\ \E h \in past : TrueOf(d, field, h)
  <1>1. /\ Claim.desired = desired /\ scope.desired = desired /\ Claim.selected = scope.selected
        /\ EvidenceSays(evidence) /\ desired \in Desireds
    BY Validated
  <1>2. d \in Domains
    BY <1>1 DEF Domains
  <1>3. Then(d) = Now(d)
    BY <1>1 DEF Then, Now
  <1>4. evidence.complete =>
          /\ \A f : Claims(f) => \E h \in past : f \in h
          /\ d \in scope.selected /\ Routed(Now(d)) =>
               \A kind \in Joint : Snapshot(evidence.obs, kind, d)
    <2>1. d \in scope.selected /\ Routed(Now(d)) => \A kind \in Joint : <<kind, d>> \in ReadsOf(scope)
      BY <1>1, RoutedReads DEF Now
    <2> QED BY <1>1, <1>2, <2>1 DEF EvidenceSays, Observed, Claims
  <1>5. CASE field = "zone_held"
    <2>1. evidence.complete /\ d \in Claim.observed
      BY <1>5 DEF Row, ZoneHeld
    <2>2. d \in Zones(evidence.obs, scope)
      BY <1>1, <2>1 DEF EvidenceSays, Claim
    <2>3. d \in scope.selected /\ Claims(Fact("zone", d))
      BY <2>2 DEF Zones, Claims
    <2> QED BY <1>1, <1>4, <1>5, <2>1, <2>3 DEF TrueOf
  <1>6. ASSUME NEW aliases, AliasesWired(d, aliases) = "ok",
               aliases \subseteq Now(d).roles \cup Now(d).personals
        PROVE  d \in Claim.selected /\ \E h \in past : Rules(d, aliases) \subseteq h
    <2>1. Known(d) /\ Routed(Now(d)) /\ \A f \in Rules(d, aliases) : Claims(f)
      BY <1>3, <1>6 DEF AliasesWired
    <2>2. evidence.complete /\ d \in Claim.selected
      BY <2>1 DEF Known
    <2>3. Snapshot(evidence.obs, "rules", d)
      BY <1>1, <1>4, <2>1, <2>2 DEF Joint
    <2>4. PICK h \in past :
            evidence.obs.held \cap FactsRead("rules", d) = h \cap FactsRead("rules", d)
      BY <2>3 DEF Snapshot
    <2>5. FactsRead("rules", d) = Rules(d, Now(d).roles \cup Now(d).personals)
      BY <1>1 DEF FactsRead, Now
    <2>6. Rules(d, aliases) \subseteq FactsRead("rules", d)
      BY <1>6, <2>5 DEF Rules
    <2>7. Rules(d, aliases) \subseteq h
      BY <2>1, <2>4, <2>6 DEF Claims
    <2> QED BY <2>2, <2>7
  <1>7. CASE field = "role_aliases_wired"
    <2>1. AliasesWired(d, Now(d).roles) = "ok"
      BY <1>7 DEF Row
    <2> QED BY <1>6, <1>7, <2>1 DEF TrueOf
  <1>8. CASE field = "personal_aliases_wired"
    <2>1. AliasesWired(d, Now(d).personals) = "ok"
      BY <1>8 DEF Row
    <2> QED BY <1>6, <1>8, <2>1 DEF TrueOf
  <1>9. CASE field = "catch_all_wired"
    <2>1. CatchAllWired(d) = "ok"
      BY <1>9 DEF Row
    <2>2. /\ Known(d) /\ Routed(Now(d))
          /\ Now(d).catchAll => Claims(Fact("catchAll", d)) /\ Claims(Fact("catchAllRouted", d))
          /\ ~Now(d).catchAll => ~Claims(Fact("catchAll", d))
      BY <1>3, <2>1 DEF CatchAllWired
    <2>3. evidence.complete /\ d \in Claim.selected
      BY <2>2 DEF Known
    <2>4. Snapshot(evidence.obs, "catchAll", d)
      BY <1>1, <1>4, <2>2, <2>3 DEF Joint
    <2>5. PICK h \in past :
            evidence.obs.held \cap FactsRead("catchAll", d) = h \cap FactsRead("catchAll", d)
      BY <2>4 DEF Snapshot
    <2>6. FactsRead("catchAll", d) = {Fact("catchAll", d), Fact("catchAllRouted", d)}
      BY DEF FactsRead
    <2>7. TrueOf(d, field, h)
      BY <1>9, <2>2, <2>5, <2>6 DEF TrueOf, Claims
    <2> QED BY <2>3, <2>7
  <1>10. CASE field = "inbound_mx"
    <2>1. Known(d) /\ Claims(Fact(Now(d).provider, d))
      BY <1>10 DEF Row, InboundMx
    <2> QED BY <1>4, <1>10, <2>1 DEF TrueOf, Known
  <1>11. CASE field = "outbound_sender"
    <2>1. Known(d) /\ Claims(Fact("sender", d))
      BY <1>11 DEF Row, OutboundSender
    <2> QED BY <1>4, <1>11, <2>1 DEF TrueOf, Known
  <1>12. field \in {"zone_held", "role_aliases_wired", "personal_aliases_wired", "catch_all_wired",
                    "inbound_mx", "outbound_sender"}
    BY DEF Row
  <1> QED BY <1>5, <1>7, <1>8, <1>9, <1>10, <1>11, <1>12

\* A receipt reports as ok only what was so while its evidence was collected,
\* and of the aliases and the catch-all of a domain, at one and the same moment.
THEOREM RowsTrue == Spec => []RowsWereTrue
  <1>1. ASSUME EvidenceInv PROVE RowsWereTrue
    <2> SUFFICES ASSUME Written, ValidCoverage(Claim, desired)
                 PROVE  /\ \A d \in DOMAIN Desired[desired] :
                             \A field \in DOMAIN Row(d) \ {"r2_policy", "worker_bindings", "d1_queue"} :
                               Row(d)[field] = "ok" =>
                                 d \in Claim.selected /\ \E h \in past : TrueOf(d, field, h)
                        /\ D1Queue = "ok" => \A r \in Storage : \E h \in past : Fact("resource", r) \in h
      BY DEF RowsWereTrue
    <2>1. ASSUME D1Queue = "ok", NEW r \in Storage
          PROVE  \E h \in past : Fact("resource", r) \in h
      <3>1. evidence.complete /\ Claims(Fact("resource", r))
        BY <2>1 DEF D1Queue
      <3>2. EvidenceSays(evidence)
        BY <1>1, Validated
      <3> QED BY <3>1, <3>2 DEF EvidenceSays, Observed, Claims
    <2> QED BY <1>1, <2>1, RowTrue
  <1> QED BY <1>1, EvidenceInvariant, PTL

\* Wherever a collection stops, the verifier accepts its coverage for the desired
\* state it was taken under, and a canary opens no gap outside its scope.
THEOREM ScopeHonoured == Spec => []ScopeIsHonoured
  <1>1. ASSUME EvidenceInv PROVE ScopeIsHonoured
    <2> SUFFICES ASSUME Written, Claim.desired = desired
                 PROVE  /\ ValidCoverage(Claim, desired)
                        /\ \A d \in DOMAIN Desired[desired] :
                             Claim.mode = "canary" /\ d \notin Claim.selected => Gaps(d) = {}
                        /\ Claim.selectedComplete => evidence.complete /\ Claim.selected = Claim.observed
                        /\ LiveEvidencePresent = evidence.complete
      BY DEF ScopeIsHonoured
    <2>1. EvidenceSays(evidence)
      BY <1>1 DEF EvidenceInv, EvidenceHeld, Written
    <2>2. ValidCoverage(Claim, desired)
      BY <2>1 DEF EvidenceSays, Claim
    <2>3. ASSUME NEW d, Claim.mode = "canary", d \notin Claim.selected
          PROVE  Gaps(d) = {}
      BY <2>2, <2>3 DEF Gaps, Live, DomainSelected
    <2>4. LiveEvidencePresent = evidence.complete
      <3>1. scope.selected # {}
        BY <1>1, EvidenceConstants DEF EvidenceInv, Progress, ScopeOk, Written
      <3>2. evidence.complete => Claim.observed # {}
        BY <2>1, <3>1 DEF EvidenceSays, Claim
      <3>3. evidence.complete \in BOOLEAN
        BY <2>1 DEF EvidenceSays
      <3> QED BY <2>2, <3>2, <3>3 DEF LiveEvidencePresent
    <2> QED BY <2>1, <2>2, <2>3, <2>4 DEF EvidenceSays, Claim
  <1> QED BY <1>1, EvidenceInvariant, PTL

----------------------------------------------------------------------------
(* The fleet readiness report *)

\* A report is of the present input, at the present time.
FleetInv ==
  /\ time \in Nat
  /\ \/ report \in {Absent, Refused}
     \/ ValidInput(input) /\ report = Report(input, expected, time)

LEMMA FleetInvariant == FleetSpec => []FleetInv
  <1>1. FleetInit => FleetInv
    BY FleetConstants DEF FleetInit, FleetInv
  <1>2. FleetInv /\ [FleetNext]_fleetVars => FleetInv'
    <2> SUFFICES ASSUME FleetInv, [FleetNext]_fleetVars PROVE FleetInv'
      OBVIOUS
    <2>1. ASSUME NEW in, Edit(in) PROVE FleetInv'
      BY <2>1 DEF Edit, FleetInv
    <2>2. CASE \E r \in DOMAIN input.evidence, p \in Revised : Observe(r, p) \/ Exempt(r, p)
      BY <2>1, <2>2 DEF Observe, Exempt
    <2>3. CASE \E r \in DOMAIN input.evidence : LoseEvidence(r) \/ TakeThread(r) \/ ReadStatus(r)
      BY <2>1, <2>3 DEF LoseEvidence, TakeThread, ReadStatus
    <2>4. CASE Enroll  BY <2>1, <2>4 DEF Enroll
    <2>5. CASE Reinventory  BY <2>1, <2>5 DEF Reinventory
    <2>6. CASE Rebind  BY <2>1, <2>6 DEF Rebind
    <2>7. CASE Wait  BY <2>7 DEF Wait, FleetInv
    <2>8. CASE Compile  BY <2>8 DEF Compile, FleetInv
    <2>9. CASE UNCHANGED fleetVars  BY <2>9 DEF fleetVars, FleetInv
    <2> QED BY <2>2, <2>3, <2>4, <2>5, <2>6, <2>7, <2>8, <2>9 DEF FleetNext
  <1> QED BY <1>1, <1>2, PTL DEF FleetSpec

\* Among planes there is a first.
LEMMA FirstIsLeast ==
  ASSUME NEW S \in SUBSET (1..9), S # {}
  PROVE  First(S) \in S /\ \A q \in S : First(S) <= q
  <1>1. \E x \in S : \A y \in S : x <= y
    <2>1. CASE 1 \in S  BY <2>1
    <2>2. CASE 1 \notin S /\ 2 \in S  BY <2>2
    <2>3. CASE {1, 2} \cap S = {} /\ 3 \in S  BY <2>3
    <2>4. CASE {1, 2, 3} \cap S = {} /\ 4 \in S  BY <2>4
    <2>5. CASE {1, 2, 3, 4} \cap S = {} /\ 5 \in S  BY <2>5
    <2>6. CASE {1, 2, 3, 4, 5} \cap S = {} /\ 6 \in S  BY <2>6
    <2>7. CASE {1, 2, 3, 4, 5, 6} \cap S = {} /\ 7 \in S  BY <2>7
    <2>8. CASE {1, 2, 3, 4, 5, 6, 7} \cap S = {} /\ 8 \in S  BY <2>8
    <2>9. CASE {1, 2, 3, 4, 5, 6, 7, 8} \cap S = {}
      <3>1. \A x \in S : x = 9  BY <2>9
      <3>2. PICK x \in S : TRUE  OBVIOUS
      <3> QED BY <3>1, <3>2
    <2> QED BY <2>1, <2>2, <2>3, <2>4, <2>5, <2>6, <2>7, <2>8, <2>9
  <1> QED BY <1>1 DEF First

----------------------------------------------------------------------------
(* Planes *)

\* A plane is satisfied exactly when its receipt shows it, in order.
LEMMA PlaneVerdict ==
  ASSUME NEW in, ValidInput(in), NEW r \in DOMAIN in.routes, NEW p \in Planes, NEW now \in Nat
  PROVE  Satisfied(in, r, p, now) <=> Shows(in, r, p, now) /\ ~OutOfOrder(in, r, p)
  <1> DEFINE receipt == Receipt(in, r, p)
             contract == in.routes[r].graduation
  <1>1. Satisfied(in, r, p, now)
          <=> ~OutOfOrder(in, r, p) /\ CompilePlane(in, r, p, now).state \in {"proven", "not_applicable"}
    BY DEF Satisfied, PlaneOf, Mismatch, Verdict
  <1>2. CASE ~Held(in, r, p)
    BY <1>1, <1>2 DEF CompilePlane, Verdict, Shows
  <1>3. CASE Held(in, r, p)
    <2>1. /\ (in.routes[r].graduation # Absent) = (in.routes[r].kind = "sink")
          /\ in.routes[r].kind = "sink" => contract.expires \in Nat
      BY DEF ValidInput, ValidInventory, ValidRoute
    <2>2. ValidReceipt(in, r, p, receipt) /\ receipt # Absent
      BY <1>3 DEF ValidInput, ValidEvidence, Held, Receipt
    <2>3. CASE receipt.state = "not_applicable"
      <3>1. Exempted(in, r, p, now).state \in {"proven", "not_applicable"}
              <=> /\ in.routes[r].kind = "sink" /\ p \in Thread
                  /\ contract.route = r /\ contract.digest = ContractDigest(contract)
                  /\ receipt.contract = contract.digest /\ receipt.evidence = contract.digest
                  /\ contract.expires > now
        BY <2>1, <2>2, <2>3 DEF Exempted, ContractHolds, Verdict, Mismatch, ValidReceipt
      <3>2. CompilePlane(in, r, p, now).state \in {"proven", "not_applicable"}
              <=> /\ receipt.route = r /\ receipt.domain = in.routes[r].domain
                  /\ p \in Thread => receipt.thread = in.evidence[r].thread
                  /\ Exempted(in, r, p, now).state \in {"proven", "not_applicable"}
        BY <1>3, <2>3 DEF CompilePlane, Verdict, Mismatch
      <3> QED BY <1>1, <1>3, <2>3, <3>1, <3>2 DEF Shows
    <2>4. CASE receipt.state \in {"proven", "failed"} /\ receipt.at \in Nat
      <3>1. Observation(in, receipt, now).state \in {"proven", "not_applicable"}
              <=> /\ receipt.state = "proven" /\ receipt.binding = in.binding
                  /\ receipt.at <= now /\ now <= receipt.at + MaxAge
        BY <2>4, FleetConstants DEF Observation, Verdict, Mismatch
      <3>2. CompilePlane(in, r, p, now).state \in {"proven", "not_applicable"}
              <=> /\ receipt.route = r /\ receipt.domain = in.routes[r].domain
                  /\ p \in Thread => receipt.thread = in.evidence[r].thread
                  /\ Observation(in, receipt, now).state \in {"proven", "not_applicable"}
        BY <1>3, <2>4 DEF CompilePlane, Verdict, Mismatch
      <3> QED BY <1>1, <1>3, <2>4, <3>1, <3>2 DEF Shows
    <2> QED BY <2>2, <2>3, <2>4 DEF ValidReceipt
  <1> QED BY <1>2, <1>3

\* The failures of identity.
Kills(in, r, p) ==
  /\ Held(in, r, p)
  /\ Receipt(in, r, p).state = "failed" /\ Receipt(in, r, p).code \in KillCodes
  /\ Receipt(in, r, p).route = r /\ Receipt(in, r, p).domain = in.routes[r].domain
  /\ Receipt(in, r, p).binding = in.binding
  /\ p \in Thread => Receipt(in, r, p).thread = in.evidence[r].thread

\* A route is killed exactly by them, and then it is not satisfied.
LEMMA KillVerdict ==
  ASSUME NEW in, ValidInput(in), NEW r \in DOMAIN in.routes, NEW now \in Nat
  PROVE  /\ Killed(in, r, now) <=> \E p \in Planes : Kills(in, r, p)
         /\ Killed(in, r, now) => \E p \in Planes : ~Satisfied(in, r, p, now)
  <1>1. ASSUME NEW p \in Planes
        PROVE  CompilePlane(in, r, p, now).state = "failed" /\ CompilePlane(in, r, p, now).code \in KillCodes
                 <=> Kills(in, r, p)
    <2> DEFINE receipt == Receipt(in, r, p)
    <2>1. CASE ~Held(in, r, p)
      BY <2>1 DEF CompilePlane, Verdict, Kills
    <2>2. CASE Held(in, r, p)
      <3>1. ValidReceipt(in, r, p, receipt) /\ receipt # Absent
        BY <2>2 DEF ValidInput, ValidEvidence, Held, Receipt
      <3>2. CASE receipt.state = "not_applicable"
        BY <2>2, <3>2 DEF CompilePlane, Exempted, Verdict, Mismatch, Kills
      <3>3. CASE receipt.state \in {"proven", "failed"}
        <4>1. Observation(in, receipt, now).state = "failed" /\ Observation(in, receipt, now).code \in KillCodes
                <=> /\ receipt.state = "failed" /\ receipt.code \in KillCodes
                    /\ receipt.binding = in.binding
          BY <3>3 DEF Observation, Verdict, Mismatch, KillCodes
        <4> QED BY <2>2, <3>3, <4>1 DEF CompilePlane, Verdict, Mismatch, Kills
      <3> QED BY <3>1, <3>2, <3>3 DEF ValidReceipt
    <2> QED BY <2>1, <2>2
  <1>2. \A p \in Planes : CompilePlane(in, r, p, now).state = "failed" => ~Satisfied(in, r, p, now)
    BY DEF Satisfied, PlaneOf, Mismatch, Verdict
  <1> QED BY <1>1, <1>2 DEF Killed

----------------------------------------------------------------------------
(* Blockers *)

\* A blocker of a plane is one, and a route without is satisfied.
LEMMA RouteVerdict ==
  ASSUME NEW in, NEW r, NEW now
  PROVE  /\ RouteBlocker(in, r, now) = NoBlocker
              <=> (\A p \in Planes : Satisfied(in, r, p, now)) /\ OperationalCode(in, r, now) = Absent
         /\ RouteBlocker(in, r, now) # NoBlocker => RouteBlocker(in, r, now).plane \in 1..9
  <1> DEFINE open == {p \in Planes : ~Satisfied(in, r, p, now)}
  <1>1. CASE open # {}
    <2>1. First(open) \in 1..8
      BY <1>1, FirstIsLeast DEF Planes
    <2>2. RouteBlocker(in, r, now) = Blocker(First(open), PlaneOf(in, r, First(open), now).code, r)
      BY <1>1 DEF RouteBlocker
    <2> QED BY <1>1, <2>1, <2>2 DEF Blocker, NoBlocker
  <1>2. CASE open = {} /\ OperationalCode(in, r, now) # Absent
    <2>1. RouteBlocker(in, r, now) = Blocker(Operational, OperationalCode(in, r, now), r)
      BY <1>2 DEF RouteBlocker
    <2> QED BY <1>2, <2>1 DEF Blocker, NoBlocker, Operational
  <1>3. CASE open = {} /\ OperationalCode(in, r, now) = Absent
    BY <1>3 DEF RouteBlocker
  <1> QED BY <1>1, <1>2, <1>3

LEMMA FleetRouteVerdict ==
  ASSUME NEW in, NEW now
  PROVE  FleetRouteBlocker(in, now) = NoBlocker
           <=> \A r \in DOMAIN in.routes : RouteBlocker(in, r, now) = NoBlocker
  <1> DEFINE blocked  == {r \in DOMAIN in.routes : RouteBlocker(in, r, now) # NoBlocker}
             earliest == {r \in blocked : \A s \in blocked :
                            RouteBlocker(in, r, now).plane <= RouteBlocker(in, s, now).plane}
             planes   == {RouteBlocker(in, r, now).plane : r \in blocked}
  <1>1. CASE blocked = {}
    BY <1>1 DEF FleetRouteBlocker
  <1>2. CASE blocked # {}
    <2>1. planes \in SUBSET (1..9) /\ planes # {}
      BY <1>2, RouteVerdict
    <2>2. First(planes) \in planes /\ \A q \in planes : First(planes) <= q
      BY <2>1, FirstIsLeast
    <2>3. PICK r \in blocked : RouteBlocker(in, r, now).plane = First(planes)
      BY <2>2
    <2>4. r \in earliest
      BY <2>2, <2>3
    <2>5. LeastDigest(earliest) \in blocked
      BY <2>4 DEF LeastDigest
    <2>6. FleetRouteBlocker(in, now) = RouteBlocker(in, LeastDigest(earliest), now)
      BY <1>2 DEF FleetRouteBlocker
    <2> QED BY <2>5, <2>6
  <1> QED BY <1>1, <1>2

LEMMA EnrollmentVerdict ==
  ASSUME NEW in
  PROVE  EnrollmentBlocker(in) = NoBlocker
           <=> in.enrollment = in.binding.enrollment /\ in.complete /\ Unresolved(in) = {}
  BY DEF EnrollmentBlocker, Blocker, NoBlocker, Enrollment

LEMMA ConfiguredVerdict ==
  ASSUME NEW in, NEW e
  PROVE  ConfiguredBlocker(in, e) = NoBlocker
           <=> /\ in.mode # "canary" /\ RouteSetAttested(in) /\ ReceiptCoherent(in)
               /\ DigestExpected(in, e) /\ in.inventoryBinding = in.binding /\ Routeless(in) = {}
  BY DEF ConfiguredBlocker, Blocker, NoBlocker, Configured

\* The flag, the planes and the blockers agree.
LEMMA BlockerVerdict ==
  ASSUME NEW in, ValidInput(in), NEW e, NEW now \in Nat
  PROVE  FirstBlocker(in, e, now) = NoBlocker <=> FullCoverage(in, e, now)
  <1>1. FirstBlocker(in, e, now) = NoBlocker
          <=> /\ EnrollmentBlocker(in) = NoBlocker /\ ConfiguredBlocker(in, e) = NoBlocker
              /\ FleetRouteBlocker(in, now) = NoBlocker
    BY DEF FirstBlocker
  <1>2. in.mode # "canary" <=> in.mode = "full_policy"
    BY DEF ValidInput, ValidInventory
  <1>3. ASSUME NEW r \in DOMAIN in.routes, \A p \in Planes : Satisfied(in, r, p, now)
        PROVE  /\ r \in DOMAIN in.evidence
               /\ \A p \in Planes : PlaneOf(in, r, p, now).state # "binding_mismatch"
    <2>1. Configured \in Planes  BY DEF Configured, Planes
    <2> QED BY <1>3, <2>1, PlaneVerdict DEF Shows, Held, Satisfied
  <1>4. FleetRouteBlocker(in, now) = NoBlocker
          <=> /\ \A r \in DOMAIN in.routes : \A p \in Planes : Satisfied(in, r, p, now)
              /\ \A r \in DOMAIN in.routes : OperationalCode(in, r, now) = Absent
    BY FleetRouteVerdict, RouteVerdict
  <1> QED BY <1>1, <1>2, <1>3, <1>4, EnrollmentVerdict, ConfiguredVerdict DEF FullCoverage, ReceiptsCoherent

\* Full coverage is earned, and whatever earns it is full coverage.
LEMMA CoverageVerdict ==
  ASSUME NEW in, ValidInput(in), NEW e, NEW now \in Nat
  PROVE  FullCoverage(in, e, now) <=> Covered(in, e, now)
  <1>1. Unresolved(in) = {} /\ Routeless(in) = {}
          <=> \A d \in DOMAIN in.domains :
                \/ Decided(in, d) = "intentionally_excluded"
                \/ Decided(in, d) = "enrolled" /\ \E r \in DOMAIN in.routes : in.routes[r].domain = d
    BY DEF ValidInput, ValidEnrollment, Decisions, Unresolved, Routeless, Enrolled, RoutesOf
  <1>2. ASSUME NEW r \in DOMAIN in.routes
        PROVE  (\A p \in Planes : Satisfied(in, r, p, now))
                 <=> /\ \A p \in Planes : Shows(in, r, p, now)
                     /\ \A p, q \in Thread : p < q /\ Timed(in, r, p) /\ Timed(in, r, q)
                                            => Receipt(in, r, p).at <= Receipt(in, r, q).at
    <2>1. \A p \in Thread : Timed(in, r, p) => Receipt(in, r, p).at \in Nat
      <3> SUFFICES ASSUME NEW p \in Thread, Timed(in, r, p) PROVE Receipt(in, r, p).at \in Nat
        OBVIOUS
      <3>1. p \in Planes /\ Held(in, r, p) /\ Receipt(in, r, p).state # "not_applicable"
        BY DEF Timed, Thread, Planes
      <3> QED BY <3>1 DEF ValidInput, ValidEvidence, ValidReceipt, Held, Receipt
    <2>2. (\A p \in Planes : ~OutOfOrder(in, r, p))
            <=> \A p, q \in Thread : p < q /\ Timed(in, r, p) /\ Timed(in, r, q)
                                    => Receipt(in, r, p).at <= Receipt(in, r, q).at
      BY <2>1 DEF OutOfOrder, Timed, Thread, Planes
    <2> QED BY <2>2, PlaneVerdict
  <1>3. ASSUME NEW r \in DOMAIN in.routes, \A p \in Planes : Shows(in, r, p, now)
        PROVE  r \in DOMAIN in.evidence
    BY <1>3 DEF Shows, Held, Planes
  <1>4. (\A r \in DOMAIN in.routes : \A p \in Planes : Satisfied(in, r, p, now)) => ReceiptsCoherent(in, now)
    BY DEF Satisfied, ReceiptsCoherent
  <1> QED BY <1>1, <1>2, <1>3, <1>4 DEF FullCoverage, Covered, RouteSetAttested, ReceiptCoherent, DigestExpected

----------------------------------------------------------------------------
(* Reports *)

\* A report claims full coverage exactly when the evidence earns it, and names
\* a first blocker exactly when it does not.  (compileFleetReadiness.)
THEOREM CoverageEarned == FleetSpec => []CoverageIsEarned
  <1>1. FleetInv => CoverageIsEarned
    BY BlockerVerdict, CoverageVerdict DEF FleetInv, CoverageIsEarned, Compiled, Report
  <1> QED BY <1>1, FleetInvariant, PTL

\* A bound failure of identity kills its route, nothing else does, and a killed
\* route blocks the fleet.  (compilePlane, applyGoldenThreadChronology.)
THEOREM KillsSeen == FleetSpec => []KillsAreSeen
  <1>1. ASSUME FleetInv, Compiled, NEW r \in DOMAIN input.routes
        PROVE  /\ report.routes[r].status = "killed" <=> \E p \in Planes : Kills(input, r, p)
               /\ report.routes[r].status = "killed" =>
                    report.routes[r].first # NoBlocker /\ report.first # NoBlocker
    <2>1. /\ ValidInput(input) /\ time \in Nat
          /\ report.routes[r] = RouteReport(input, r, time)
          /\ report.first = FirstBlocker(input, expected, time)
      BY <1>1 DEF FleetInv, Compiled, Report
    <2>2. report.routes[r].status = "killed" <=> Killed(input, r, time)
      BY <2>1 DEF RouteReport
    <2>3. report.routes[r].first = RouteBlocker(input, r, time)
      BY <2>1 DEF RouteReport
    <2>4. Killed(input, r, time) => RouteBlocker(input, r, time) # NoBlocker
      BY <2>1, KillVerdict, RouteVerdict
    <2>5. Killed(input, r, time) => FirstBlocker(input, expected, time) # NoBlocker
      BY <2>1, KillVerdict, BlockerVerdict DEF FullCoverage
    <2> QED BY <2>1, <2>2, <2>3, <2>4, <2>5, KillVerdict
  <1>2. FleetInv => KillsAreSeen
    BY <1>1 DEF KillsAreSeen, Kills
  <1> QED BY <1>2, FleetInvariant, PTL
=============================================================================
