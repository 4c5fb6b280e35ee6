--------------------------- MODULE BuildRetirement ---------------------------
(***************************************************************************)
(* Retirement of compiler payload from Cargo's target directory:           *)
(* scripts/build_cache_retirement.py, and the callers that may start it,   *)
(* scripts/build-workflow.py and operation() of build-and-retire.py.       *)
(*                                                                         *)
(* prepare() takes a snapshot and decides what may go; the saved plan is   *)
(* the authority.  apply() compares everything with the plan again, under  *)
(* Cargo's locks, and unlinks one file at a time between an intent and a   *)
(* completion record of its journal.  It may stop or crash anywhere; a     *)
(* transaction whose journal or receipt exists is never run again, but the *)
(* same plan may be given to another one.                                  *)
(*                                                                         *)
(* Abstractions: a file is the name and number of the write that made it,  *)
(* standing for inode, metadata and content, so that two names of one file *)
(* are hard links, and its link count is the number of its names, inside   *)
(* target/ and elsewhere; `world` holds the version of everything else     *)
(* that is compared: source, policy, products outside target/; one plan.   *)
(* disk-guard's exclusion, its provider and the open-file coverage may     *)
(* refuse at any point (Raise) and are external.                           *)
(***************************************************************************)
EXTENDS Naturals, FiniteSets

CONSTANTS
  Payload,      \* names under target/ that hold compiler payload
  Dotted,       \* those in deps/ with a dot after the unit's hash
  Control,      \* dep-info and fingerprints
  Other,        \* every other name: products, documentation
  Foreign,      \* payload of a profile that is not built yet
  Elsewhere,    \* names outside target/ that a file may be linked at
  UnitOf,       \* the Cargo unit of a payload or control name
  Txns,         \* attempts to apply the plan, each with a journal of its own
  MaxWrites,    \* bound: writes into target/ and links made after the build
  MaxChanges,   \* bound: inputs change until one has changed this often
  None

Names  == Payload \cup Control \cup Other \cup Foreign
Places == Names \cup Elsewhere

\* What prepare() and apply() compare besides the directory.
Inputs == {"source", "policy", "products"}

ASSUME RetirementConstants ==
  /\ Payload \cap (Control \cup Other \cup Foreign) = {}
  /\ Control \cap (Other \cup Foreign) = {} /\ Other \cap Foreign = {}
  /\ Dotted \subseteq Payload /\ Names \cap Elsewhere = {} /\ IsFiniteSet(Places)
  /\ UnitOf \in [Payload \cup Control -> STRING]
  /\ MaxWrites \in Nat /\ MaxChanges \in Nat
  /\ None \notin Txns \cup {"prepare"} \cup Names \X Nat

VARIABLES
  tree,      \* name, in target/ or elsewhere |-> the file there, or None
  keep,      \* names protected from retirement
  writes,    \* files written and links made so far
  world,     \* input |-> its version
  lock,      \* who holds Cargo's lock: None, "prepare" or a transaction
  phase,     \* the operation: "built", "qualify", "planned", "retained"
  built,     \* the source's version before the build
  plan,      \* the plan, None until it is saved
  snap,      \* prepare(): the snapshot taken, or None
  pc,        \* transaction |-> where apply() is
  file,      \* transaction |-> the name in hand, or None
  intent,    \* journal: names with an UNLINK_INTENT record
  complete,  \* journal: names with an UNLINK_COMPLETE record
  removed,   \* transaction |-> result["removed"]
  dispatched,\* transaction |-> result["effect_dispatched"]
  receipt,   \* transaction |-> status of the saved receipt, or None
  status,    \* transaction |-> result["status"]
  gone,      \* history: transaction |-> <<name, file>> it unlinked
  met        \* history: transaction |-> every name its files had at their intent

disk    == <<tree, keep, writes>>
prepared == <<phase, built, plan, snap>>
journal == <<intent, complete>>
result  == <<removed, dispatched, status, receipt>>
history == <<gone, met>>
vars == <<disk, world, lock, prepared, pc, file, journal, result, history>>

Present(t) == {n \in Names : t[n] # None}
Peers(t, n) == {m \in Present(t) : t[m] = t[n]}

\* Every name of a file, and st_nlink.
NamesOf(f) == {p \in Places : tree[p] = f}
Nlink(f)   == Cardinality(NamesOf(f))

\* inventory(): target/ alone is listed, but a link count tells of elsewhere.
Listed == [n \in Names |-> tree[n]]
Links  == [n \in Names |-> Nlink(tree[n])]

(***************************************************************************)
(* What qualifies: select_payload.                                         *)
(***************************************************************************)
\* The provenance Cargo left for a unit: every control file of it.
Provenance(t, n) == {c \in Control : UnitOf[c] = UnitOf[n]} \subseteq Present(t)

Qualified(t) == {n \in Payload \cap Present(t) : n \notin keep /\ Provenance(t, n)}

\* A file goes only with all its names: as many as its link count says.
Unlinked(t, links) ==
  {n \in Qualified(t) : Peers(t, n) \subseteq Qualified(t) /\ links[n] = Cardinality(Peers(t, n))}

\* A unit's control files go when all its dotted payload does; none, when it
\* has none: an executable without a suffix, a build script and a product of
\* the workspace do not count.
Metadata(t, links) ==
  {c \in Control \cap Present(t) :
     LET payload == {n \in Dotted \cap Present(t) : UnitOf[n] = UnitOf[c]}
     IN /\ payload # {} /\ payload \subseteq Unlinked(t, links)
        /\ links[c] = 1 /\ c \notin keep}

Selected(t, links) == Unlinked(t, links) \cup Metadata(t, links)

(***************************************************************************)
(* What else touches the directory.                                        *)
(***************************************************************************)
\* The tree a build leaves: payload names may be links of the first of them.
Trees == {[n \in Places |-> IF n \in Foreign \cup Elsewhere THEN None
                            ELSE IF n \in Payload THEN <<first[n], 0>> ELSE <<n, 0>>] :
             first \in {f \in [Payload -> Payload] : \A n \in Payload : f[f[n]] = f[n]}}

Untouched == UNCHANGED <<keep, lock, prepared, pc, file, journal, result, history>>

\* Another build of the same profile, which waits for Cargo's lock.
CargoBuild ==
  /\ lock = None /\ writes < MaxWrites /\ writes' = writes + 1
  /\ tree' = [n \in Places |-> IF n \in Payload \cup Control THEN <<n, writes'>> ELSE tree[n]]
  /\ UNCHANGED world /\ Untouched

\* The first build of another profile, whose lock file did not exist before;
\* or a tool that writes a product without any lock.
OtherWrite(n) ==
  /\ n \in Other \cup Foreign /\ writes < MaxWrites /\ writes' = writes + 1
  /\ tree' = [tree EXCEPT ![n] = <<n, writes'>>]
  /\ UNCHANGED world /\ Untouched

\* Somebody links a build's file at a free name, as a product or a backup, without
\* any lock: no metadata of the file changes but its link count.
Link(n, m) ==
  /\ n \in Payload \cup Control /\ tree[n] # None
  /\ m \in Other \cup Foreign \cup Elsewhere /\ tree[m] = None
  /\ writes < MaxWrites /\ writes' = writes + 1
  /\ tree' = [tree EXCEPT ![m] = tree[n]]
  /\ UNCHANGED world /\ Untouched

\* A commit, a policy edit, another product.
WorldChanges ==
  /\ \E i \in Inputs :
       /\ \A j \in Inputs : world[j] < MaxChanges
       /\ world' = [world EXCEPT ![i] = @ + 1]
  /\ UNCHANGED <<tree, writes>> /\ Untouched

(***************************************************************************)
(* workflow() and operation(): who may retire.                             *)
(***************************************************************************)
\* workflow(): configured, outside any reservation and any other operation.
Outermost(w) == w.configured /\ ~w.inherited /\ ~w.marked
\* operation(): the build succeeded, was settled, and its consumers are known.
Settled(r) == r.code = 0 /\ r.verdict = "SETTLED" /\ r.profile

Workflows == [configured : BOOLEAN, inherited : BOOLEAN, marked : BOOLEAN]
Reports   == [code : {0, 1}, verdict : {"SETTLED", "UNPROVED"}, profile : BOOLEAN]

Operation ==
  /\ phase = "built"
  /\ \E w \in Workflows, r \in Reports :
       phase' = IF Outermost(w) /\ Settled(r) /\ world["source"] = built THEN "qualify" ELSE "retained"
  /\ UNCHANGED <<disk, world, lock, built, plan, snap, pc, file, journal, result, history>>

\* The inputs named are as the snapshot or the plan recorded them.
Same(recorded, inputs) == \A i \in inputs : world[i] = recorded.world[i]

(***************************************************************************)
(* prepare().                                                              *)
(***************************************************************************)
\* Exclusion, inventory, Cargo's lock, the source, the selection, contents.
Qualify ==
  /\ phase = "qualify" /\ snap = None
  /\ IF lock = None
     THEN /\ snap' = [files |-> Listed, links |-> Links, world |-> world,
                      sel |-> Selected(Listed, Links)]
          /\ lock' = "prepare" /\ UNCHANGED phase
     ELSE phase' = "retained" /\ UNCHANGED <<snap, lock>>
  /\ UNCHANGED <<disk, world, built, plan, pc, file, journal, result, history>>

\* The second inventory, and the plan: "Snapshot changed during qualification".
SavePlan ==
  /\ phase = "qualify" /\ snap # None
  /\ IF Listed = snap.files /\ Links = snap.links /\ Same(snap, {"source"})
     THEN phase' = "planned" /\ plan' = snap
     ELSE phase' = "retained" /\ UNCHANGED plan
  /\ lock' = None /\ snap' = None
  /\ UNCHANGED <<disk, world, built, pc, file, journal, result, history>>

(***************************************************************************)
(* apply().                                                                *)
(***************************************************************************)
Goto(t, label) == pc' = [pc EXCEPT ![t] = label]

\* Mutant: only what was acknowledged as removed counts as an effect.
StoppedAs_Acknowledged(names, sent) == IF names # {} THEN "PARTIAL" ELSE "HELD_NO_EFFECT"
\* The status an exception leaves behind.
StoppedAs(names, sent) ==
  IF names # {} THEN "PARTIAL" ELSE IF sent THEN "EFFECT_UNCERTAIN" ELSE "HELD_NO_EFFECT"

\* An exception leaves both contexts, releases the lock and is journaled.
Stop(t) ==
  /\ Goto(t, "receipt")
  /\ status' = [status EXCEPT ![t] = StoppedAs(removed[t], dispatched[t])]
  /\ lock' = IF lock = t THEN None ELSE lock

\* "Existing transaction requires read-only reconciliation, never replay".
Begin(t) ==
  /\ phase = "planned" /\ pc[t] = "new"
  /\ Goto(t, "inventory")
  /\ UNCHANGED <<disk, world, lock, prepared, file, journal, result, history>>

\* Mutant: a file that is already gone counts as compared.
AsPlanned_OrGone(names) == \A n \in names : tree[n] \in {plan.files[n], None}
\* apply(): inventory, contents and each file are compared with the plan.
AsPlanned(names) == \A n \in names : tree[n] = plan.files[n]

\* Mutant: the names of the file taken so far are not subtracted.
Relinked_AsListed(n, taken) == tree[n] # None /\ Nlink(tree[n]) # plan.links[n]
\* The link count is not the plan's, less the names of the file taken so far.
Relinked(n, taken) ==
  /\ tree[n] # None
  /\ Nlink(tree[n]) # plan.links[n] - Cardinality({m \in taken : plan.files[m] = plan.files[n]})

\* The policy, the exclusion, and the inventory with its link counts.
Inventory(t) ==
  /\ pc[t] = "inventory"
  /\ IF Same(plan, {"policy"}) /\ AsPlanned(Names) /\ \A n \in Names : ~Relinked(n, {})
     THEN Goto(t, "lock") /\ UNCHANGED <<status, lock>>
     ELSE Stop(t)
  /\ UNCHANGED <<disk, world, prepared, file, journal, removed, dispatched, receipt, history>>

\* Mutant: Cargo's lock is not taken.
Locked_Never(t) == None
\* cargo_locks: the lock stays with the transaction.
Locked(t) == t

\* Under the lock: selection, classifier controls, contents, source, products.
\* Names the inventory did not show are not looked at again, nor link counts.
Lock(t) ==
  /\ pc[t] = "lock"
  /\ IF lock = None /\ Same(plan, {"source", "products"}) /\ AsPlanned(Present(plan.files))
     THEN Goto(t, "next") /\ lock' = Locked(t) /\ UNCHANGED status
     ELSE Stop(t)
  /\ UNCHANGED <<disk, world, prepared, file, journal, removed, dispatched, receipt, history>>

Remaining(t) == plan.sel \ removed[t]

\* Mutant: dep-info and fingerprints go first.
Turn_ControlFirst(t) == IF Remaining(t) \cap Control # {} THEN Remaining(t) \cap Control ELSE Remaining(t)
\* The plan lists payload before the control files of any unit.
Turn(t) == IF Remaining(t) \cap Payload # {} THEN Remaining(t) \cap Payload ELSE Remaining(t)

\* Mutant: the intent is journaled with the completion.
Intent_Late(t, n) == intent[t]
\* event("UNLINK_INTENT") is on disk before the effect.
Intent(t, n) == intent[t] \cup {n}

\* The next file is compared once more; then its intent is journaled.
NextFile(t) ==
  /\ pc[t] = "next"
  /\ \/ /\ Remaining(t) = {} /\ Goto(t, "after")
        /\ UNCHANGED <<file, intent, met, status, lock>>
     \/ \E n \in Turn(t) :
          IF AsPlanned({n}) /\ ~Relinked(n, removed[t])
          THEN /\ file' = [file EXCEPT ![t] = n]
               /\ intent' = [intent EXCEPT ![t] = Intent(t, n)]
               /\ met' = [met EXCEPT ![t] = @ \cup NamesOf(tree[n])]
               /\ Goto(t, "unlink") /\ UNCHANGED <<status, lock>>
          ELSE Stop(t) /\ UNCHANGED <<file, intent, met>>
  /\ UNCHANGED <<disk, world, prepared, complete, removed, dispatched, receipt, gone>>

\* unlink_at takes effect: whatever is at that name now is gone.
Effect(t) ==
  /\ tree[file[t]] # None
  /\ tree' = [tree EXCEPT ![file[t]] = None]
  /\ gone' = [gone EXCEPT ![t] = @ \cup {<<file[t], tree[file[t]]>>}]

Unlink(t) ==
  /\ pc[t] = "unlink"
  /\ dispatched' = [dispatched EXCEPT ![t] = TRUE]
  /\ Effect(t)
  /\ removed' = [removed EXCEPT ![t] = @ \cup {file[t]}]
  /\ Goto(t, "complete")
  /\ UNCHANGED <<keep, writes, world, lock, prepared, file, journal, status, receipt, met>>

\* unlink_at raises: before its effect, or after it, in the fsync.
UnlinkFails(t) ==
  /\ pc[t] = "unlink"
  /\ dispatched' = [dispatched EXCEPT ![t] = TRUE]
  /\ \/ Effect(t)
     \/ UNCHANGED <<tree, gone>>
  /\ status' = [status EXCEPT ![t] = StoppedAs(removed[t], TRUE)]
  /\ Goto(t, "receipt")
  /\ lock' = IF lock = t THEN None ELSE lock
  /\ UNCHANGED <<keep, writes, world, prepared, file, journal, removed, receipt, met>>

Complete(t) ==
  /\ pc[t] = "complete"
  /\ complete' = [complete EXCEPT ![t] = @ \cup {file[t]}]
  /\ file' = [file EXCEPT ![t] = None]
  /\ Goto(t, "next")
  /\ UNCHANGED <<disk, world, lock, prepared, intent, result, history>>

\* apply(): the inventory is the plan's without the selected files.
AllElseKept ==
  \A n \in Names : IF n \in plan.sel THEN tree[n] = None
                   ELSE tree[n] = plan.files[n] /\ ~Relinked(n, {})

\* "Retained files changed".
After(t) ==
  /\ pc[t] = "after"
  /\ IF AllElseKept THEN Goto(t, "finish") /\ UNCHANGED <<status, lock>> ELSE Stop(t)
  /\ UNCHANGED <<disk, world, prepared, file, journal, removed, dispatched, receipt, history>>

\* "Source/products/policy changed"; otherwise COMPLETE, and VERIFIED journaled.
Finish(t) ==
  /\ pc[t] = "finish"
  /\ IF Same(plan, Inputs)
     THEN /\ Goto(t, "receipt") /\ lock' = IF lock = t THEN None ELSE lock
          /\ status' = [status EXCEPT ![t] = "COMPLETE"]
     ELSE Stop(t)
  /\ UNCHANGED <<disk, world, prepared, file, journal, removed, dispatched, receipt, history>>

SaveReceipt(t) ==
  /\ pc[t] = "receipt"
  /\ receipt' = [receipt EXCEPT ![t] = status[t]]
  /\ Goto(t, "done")
  /\ UNCHANGED <<disk, world, lock, prepared, file, journal, removed, dispatched, status, history>>

\* The exclusion, the open-file coverage, git, the journal or the provider
\* raises.
Raise(t) ==
  /\ pc[t] \in {"inventory", "lock", "next", "complete", "after", "finish"}
  /\ Stop(t)
  /\ UNCHANGED <<disk, world, prepared, file, journal, removed, dispatched, receipt, history>>

\* The process dies; the kernel releases its lock.
Crash(t) ==
  /\ pc[t] \notin {"new", "done", "crashed"}
  /\ Goto(t, "crashed")
  /\ lock' = IF lock = t THEN None ELSE lock
  /\ UNCHANGED <<disk, world, prepared, file, journal, result, history>>

Apply(t) ==
  \/ Begin(t) \/ Inventory(t) \/ Lock(t) \/ NextFile(t) \/ Unlink(t) \/ UnlinkFails(t)
  \/ Complete(t) \/ After(t) \/ Finish(t) \/ SaveReceipt(t) \/ Raise(t) \/ Crash(t)

Init ==
  /\ tree \in Trees /\ keep \in {{}} \cup {{n} : n \in Payload}
  /\ writes = 0 /\ world = [i \in Inputs |-> 0] /\ lock = None
  /\ phase = "built" /\ built = 0 /\ plan = None /\ snap = None
  /\ pc = [t \in Txns |-> "new"] /\ file = [t \in Txns |-> None]
  /\ intent = [t \in Txns |-> {}] /\ complete = [t \in Txns |-> {}]
  /\ removed = [t \in Txns |-> {}] /\ dispatched = [t \in Txns |-> FALSE]
  /\ status = [t \in Txns |-> "HELD_NO_EFFECT"] /\ receipt = [t \in Txns |-> None]
  /\ gone = [t \in Txns |-> {}] /\ met = [t \in Txns |-> {}]

Next ==
  \/ CargoBuild \/ WorldChanges \/ \E n \in Names : OtherWrite(n)
  \/ \E n, m \in Places : Link(n, m)
  \/ Operation \/ Qualify \/ SavePlan
  \/ \E t \in Txns : Apply(t)

Spec == Init /\ [][Next]_vars

(***************************************************************************)
(* Properties.                                                             *)
(***************************************************************************)
\* reconcile(): what a reader finds at a planned name.
Reconciled(n) == IF tree[n] = None THEN "ABSENT"
                 ELSE IF tree[n] = plan.files[n] THEN "ORIGINAL_CONTENT" ELSE "CHANGED_HOLD"

NamesGone(t) == {g[1] : g \in gone[t]}

TypeOK ==
  /\ DOMAIN tree = Places /\ lock \in Txns \cup {None, "prepare"}
  /\ phase \in {"built", "qualify", "planned", "retained"}
  /\ \A t \in Txns :
       /\ complete[t] \subseteq intent[t] /\ intent[t] \subseteq Names
       /\ receipt[t] \in {None, "HELD_NO_EFFECT", "COMPLETE", "PARTIAL", "EFFECT_UNCERTAIN"}

\* What a transaction unlinked is, name and file, what the plan authorized; and
\* when its intent was journaled, that file had no name in target/ or elsewhere
\* that the plan does not remove, whatever was built, written or linked since
\* the plan.  (apply(), unlink_at, select_payload.)  A link made after that
\* comparison is not looked for: it keeps the file, which loses one name.
RemovedAsAuthorized ==
  \A t \in Txns :
    /\ \A g \in gone[t] : g[1] \in plan.sel \ keep /\ g[2] = plan.files[g[1]]
    /\ \A n \in met[t] : n \in plan.sel

\* At every instant, so after any crash: what the journal completed is gone,
\* what is gone was intended, and at most one intent is open.  (apply().)
JournalBrackets ==
  \A t \in Txns :
    /\ complete[t] \subseteq NamesGone(t) /\ NamesGone(t) \subseteq intent[t]
    /\ Cardinality(intent[t] \ complete[t]) <= 1

\* A receipt never understates: HELD_NO_EFFECT removed nothing, COMPLETE all
\* and only the plan, and nothing is missing from the directory that a PARTIAL
\* receipt does not admit, but for one name.  (apply(), receipt_path.)
ReceiptTruthful ==
  \A t \in Txns : receipt[t] # None =>
    /\ receipt[t] = "HELD_NO_EFFECT" => gone[t] = {}
    /\ receipt[t] = "COMPLETE" => NamesGone(t) = plan.sel
    /\ receipt[t] = "PARTIAL" => removed[t] # {} /\ removed[t] \subseteq NamesGone(t)
    /\ Cardinality(NamesGone(t) \ removed[t]) <= 1

\* The authority of a plan is used by one transaction: after one removed
\* anything, and died or not, no other removes anything under that plan.
\* ("never replay", apply() and reconcile().)
AuthoritySpentOnce ==
  \A s, t \in Txns : s # t => gone[s] = {} \/ gone[t] = {}

\* Payload that was planned and survives a stop or a crash still qualifies for
\* a fresh plan: its provenance is not removed before it, and it is taken unless
\* its file was linked at a name of no plan's.  (select_payload.)
SurvivorsRequalify ==
  plan # None => \A n \in plan.sel \cap Payload : Reconciled(n) = "ORIGINAL_CONTENT" =>
    /\ n \in Qualified(Listed)
    /\ NamesOf(tree[n]) \subseteq plan.sel => n \in Unlinked(Listed, Links)
=============================================================================
