------------------------ MODULE BuildRetirementProofs ------------------------
(***************************************************************************)
(* Proofs about BuildRetirement, for any names, units and number of        *)
(* transactions: what a transaction unlinks is what the plan authorized,   *)
(* one transaction alone uses that authority, and its journal and receipt  *)
(* say no less than what is gone, at every instant.                        *)
(***************************************************************************)
EXTENDS BuildRetirement, FiniteSetTheorems, TLAPS

Files    == Names \X Nat
TreeType == [Places -> Files \cup {None}]
Listing  == [Names -> Files \cup {None}]
Snapshot == [files : Listing, links : [Names -> Nat], world : [Inputs -> Nat], sel : SUBSET Names]
Statuses == {"HELD_NO_EFFECT", "COMPLETE", "PARTIAL", "EFFECT_UNCERTAIN"}

\* Where apply() holds Cargo's lock.
Working == {"next", "unlink", "complete", "after", "finish"}
Labels  == {"new", "inventory", "lock", "receipt", "done", "crashed"} \cup Working

TypeInv ==
  /\ tree \in TreeType /\ writes \in Nat /\ world \in [Inputs -> Nat]
  /\ lock \in Txns \cup {None, "prepare"}
  /\ phase \in {"built", "qualify", "planned", "retained"}
  /\ snap # None => snap \in Snapshot
  /\ phase = "planned" => plan \in Snapshot
  /\ pc \in [Txns -> Labels] /\ file \in [Txns -> Names \cup {None}]
  /\ intent \in [Txns -> SUBSET Names] /\ complete \in [Txns -> SUBSET Names]
  /\ removed \in [Txns -> SUBSET Names] /\ gone \in [Txns -> SUBSET (Names \X Files)]
  /\ dispatched \in [Txns -> BOOLEAN] /\ met \in [Txns -> SUBSET Places]
  /\ status \in [Txns -> Statuses] /\ receipt \in [Txns -> Statuses \cup {None}]
  \* A transaction begins with a plan, and works on a name while it works.
  /\ \A t \in Txns : pc[t] # "new" => phase = "planned"
  /\ \A t \in Txns : pc[t] \in {"unlink", "complete"} => file[t] \in Names

----------------------------------------------------------------------------
(* Types *)

\* Who else touches the directory: a build, with Cargo's lock, at every name a
\* compiler makes; others at none of them.
Written(W) ==
  /\ writes' = writes + 1 /\ tree' \in TreeType /\ UNCHANGED world /\ Untouched
  /\ \A n \in Places \ W : tree'[n] = tree[n]
  /\ \A n \in W \cap (Payload \cup Control) : tree'[n] = <<n, writes'>>
  /\ \A n \in W : tree'[n] \in {<<n, writes'>>} \cup {tree[m] : m \in Places}
  /\ W \cap (Payload \cup Control) = {} \/ (Payload \cup Control \subseteq W /\ lock = None)

LEMMA WritesTyped ==
  ASSUME TypeInv, \/ CargoBuild
                  \/ \E n \in Names : OtherWrite(n)
                  \/ \E n, m \in Places : Link(n, m)
  PROVE  \E W \in SUBSET Places : Written(W)
  <1>1. tree \in TreeType /\ writes \in Nat /\ Payload \cup Control \subseteq Names /\ Names \subseteq Places
    BY DEF TypeInv, Names, Places
  <1>2. \A n \in Names : <<n, writes + 1>> \in Files
    BY <1>1 DEF Files
  <1>3. CASE CargoBuild
    <2>1. tree' = [n \in Places |-> IF n \in Payload \cup Control THEN <<n, writes'>> ELSE tree[n]]
          /\ writes' = writes + 1 /\ UNCHANGED world /\ Untouched /\ lock = None
      BY <1>3 DEF CargoBuild
    <2>2. tree' \in TreeType
      BY <1>1, <1>2, <2>1 DEF TreeType
    <2>3. Written(Payload \cup Control)
      BY <1>1, <2>1, <2>2 DEF Written
    <2> QED BY <1>1, <2>3
  <1>4. CASE \E n \in Names : OtherWrite(n)
    <2>1. PICK n \in Names : OtherWrite(n)
      BY <1>4
    <2>2. /\ tree' = [tree EXCEPT ![n] = <<n, writes'>>] /\ n \notin Payload \cup Control
          /\ writes' = writes + 1 /\ UNCHANGED world /\ Untouched
      BY <2>1, RetirementConstants DEF OtherWrite
    <2>3. tree' \in TreeType
      BY <1>1, <1>2, <2>2 DEF TreeType
    <2>4. Written({n})
      BY <1>1, <2>2, <2>3 DEF Written, TreeType
    <2> QED BY <1>1, <2>4
  <1>5. CASE \E n, m \in Places : Link(n, m)
    <2>1. PICK n \in Places, m \in Places : Link(n, m)
      BY <1>5
    <2>2. /\ tree' = [tree EXCEPT ![m] = tree[n]] /\ m \notin Payload \cup Control
          /\ writes' = writes + 1 /\ UNCHANGED world /\ Untouched
      BY <1>1, <2>1, RetirementConstants DEF Link
    <2>3. tree' \in TreeType
      BY <1>1, <2>2 DEF TreeType
    <2>4. Written({m})
      BY <1>1, <2>2, <2>3 DEF Written, TreeType
    <2> QED BY <1>1, <2>4
  <1> QED BY <1>3, <1>4, <1>5

\* A link count is a number.
LEMMA LinksCounted == \A f : IsFiniteSet(NamesOf(f)) /\ Nlink(f) \in Nat
  <1> SUFFICES ASSUME NEW f PROVE IsFiniteSet(NamesOf(f)) /\ Nlink(f) \in Nat
    OBVIOUS
  <1>1. NamesOf(f) \in SUBSET Places /\ IsFiniteSet(Places)
    BY RetirementConstants DEF NamesOf
  <1>2. IsFiniteSet(NamesOf(f))
    BY <1>1, FS_Subset
  <1> QED BY <1>2, FS_CardinalityType DEF Nlink

\* What is selected is a set of names.
LEMMA SelectedNames == \A t, links : Selected(t, links) \subseteq Payload \cup Control
  BY DEF Selected, Unlinked, Qualified, Metadata

LEMMA TypeInit == Init => TypeInv
  <1> SUFFICES ASSUME Init PROVE TypeInv
    OBVIOUS
  <1>1. tree \in TreeType
    <2>1. PICK first \in [Payload -> Payload] :
            tree = [n \in Places |-> IF n \in Foreign \cup Elsewhere THEN None
                                     ELSE IF n \in Payload THEN <<first[n], 0>> ELSE <<n, 0>>]
      BY DEF Init, Trees
    <2> QED BY <2>1 DEF TreeType, Files, Names, Places
  <1> QED BY <1>1 DEF Init, TypeInv, Labels, Statuses, Inputs

LEMMA TypeStep == TypeInv /\ [Next]_vars => TypeInv'
  <1> SUFFICES ASSUME TypeInv, [Next]_vars PROVE TypeInv'
    OBVIOUS
  <1> USE DEF TypeInv, Working, Labels, Statuses, history
  <1>1. CASE \/ CargoBuild
             \/ \E n \in Names : OtherWrite(n)
             \/ \E n, m \in Places : Link(n, m)
    <2>1. PICK W \in SUBSET Places : Written(W)
      BY <1>1, WritesTyped
    <2> QED BY <2>1 DEF Written, Untouched, prepared, journal, result
  <1>2. CASE WorldChanges
    BY <1>2 DEF WorldChanges, Untouched, prepared, journal, result
  <1>3. CASE Operation
    BY <1>3 DEF Operation, disk, journal, result
  <1>4. CASE Qualify
    <2>1. Selected(Listed, Links) \in SUBSET Names
      BY SelectedNames DEF Names
    <2>2. Listed \in Listing /\ Links \in [Names -> Nat]
      BY LinksCounted DEF Listed, Listing, Links, TreeType, Places
    <2>3. [files |-> Listed, links |-> Links, world |-> world, sel |-> Selected(Listed, Links)] \in Snapshot
      BY <2>1, <2>2 DEF Snapshot
    <2> QED BY <1>4, <2>3 DEF Qualify, disk, journal, result
  <1>5. CASE SavePlan
    BY <1>5 DEF SavePlan, disk, journal, result
  <1>6. ASSUME NEW t \in Txns, Apply(t) PROVE TypeInv'
    <2>1. CASE Begin(t)
      BY <2>1 DEF Begin, Goto, disk, prepared, journal, result
    <2>2. CASE Inventory(t)
      BY <2>2 DEF Inventory, Stop, StoppedAs, Goto, disk, prepared, journal
    <2>3. CASE Lock(t)
      BY <2>3 DEF Lock, Locked, Stop, StoppedAs, Goto, disk, prepared, journal
    <2>4. CASE NextFile(t)
      <3>1. phase = "planned" /\ plan \in Snapshot
        BY <2>4 DEF NextFile
      <3>2. Turn(t) \subseteq Names
        BY <3>1 DEF Turn, Remaining, Snapshot
      <3>3. CASE Remaining(t) = {} /\ Goto(t, "after") /\ UNCHANGED <<file, intent, met, status, lock>>
        BY <2>4, <3>3 DEF NextFile, Goto, disk, prepared
      <3>4. ASSUME NEW n \in Turn(t),
                   file' = [file EXCEPT ![t] = n], intent' = [intent EXCEPT ![t] = Intent(t, n)],
                   met' = [met EXCEPT ![t] = @ \cup NamesOf(tree[n])],
                   Goto(t, "unlink"), UNCHANGED <<status, lock>>
            PROVE  TypeInv'
        <4>1. NamesOf(tree[n]) \in SUBSET Places
          BY DEF NamesOf
        <4> QED BY <2>4, <3>2, <3>4, <4>1 DEF NextFile, Intent, Goto, disk, prepared
      <3>5. CASE Stop(t) /\ UNCHANGED <<file, intent, met>>
        BY <2>4, <3>5 DEF NextFile, Stop, StoppedAs, Goto, disk, prepared
      <3> QED BY <2>4, <3>3, <3>4, <3>5 DEF NextFile
    <2>5. CASE Unlink(t)
      <3>1. file[t] \in Names /\ tree[file[t]] \in Files
        BY <2>5 DEF Unlink, Effect, TreeType, Places
      <3>2. tree' \in TreeType /\ gone' \in [Txns -> SUBSET (Names \X Files)]
        BY <2>5, <3>1 DEF Unlink, Effect, TreeType, Places
      <3> QED BY <2>5, <3>1, <3>2 DEF Unlink, Goto, prepared, journal
    <2>6. CASE UnlinkFails(t)
      <3>1. tree' \in TreeType /\ gone' \in [Txns -> SUBSET (Names \X Files)]
        BY <2>6 DEF UnlinkFails, Effect, TreeType, Places
      <3> QED BY <2>6, <3>1 DEF UnlinkFails, StoppedAs, Goto, prepared, journal
    <2>7. CASE Complete(t)
      BY <2>7 DEF Complete, Goto, disk, prepared, result
    <2>8. CASE After(t)
      BY <2>8 DEF After, Stop, StoppedAs, Goto, disk, prepared, journal
    <2>9. CASE Finish(t)
      BY <2>9 DEF Finish, Stop, StoppedAs, Goto, disk, prepared, journal
    <2>10. CASE SaveReceipt(t)
      BY <2>10 DEF SaveReceipt, Goto, disk, prepared, journal
    <2>11. CASE Raise(t)
      BY <2>11 DEF Raise, Stop, StoppedAs, Goto, disk, prepared, journal
    <2>12. CASE Crash(t)
      BY <2>12 DEF Crash, Goto, disk, prepared, journal, result
    <2> QED BY <1>6, <2>1, <2>2, <2>3, <2>4, <2>5, <2>6, <2>7, <2>8, <2>9, <2>10, <2>11, <2>12 DEF Apply
  <1>7. CASE UNCHANGED vars
    BY <1>7 DEF vars, disk, prepared, journal, result
  <1> QED BY <1>1, <1>2, <1>3, <1>4, <1>5, <1>6, <1>7 DEF Next

----------------------------------------------------------------------------
(* The journal *)

\* The journal and the result of a transaction, at every place of apply().
Journaled(t) ==
  /\ complete[t] \subseteq removed[t] /\ removed[t] \subseteq NamesGone(t)
  /\ NamesGone(t) \subseteq intent[t]
  /\ \E n \in Names \cup {None} : intent[t] \subseteq complete[t] \cup {n}
  /\ ~dispatched[t] => NamesGone(t) = {}
  /\ pc[t] \in {"new", "inventory", "lock"} => intent[t] = {}
  /\ pc[t] \in {"next", "after", "finish"} => intent[t] = complete[t]
  /\ pc[t] \in {"unlink", "complete"} => intent[t] = complete[t] \cup {file[t]}
  /\ pc[t] = "complete" => file[t] \in removed[t]

\* What is intended is planned, and a transaction ends its loop with no name left.
Bounded(t) ==
  /\ phase = "planned" => intent[t] \subseteq plan.sel
  /\ phase # "planned" => intent[t] = {}
  /\ pc[t] \in {"after", "finish"} => plan.sel \subseteq removed[t]

\* The status of a transaction that stopped, which its receipt repeats.
Reported(t) ==
  /\ pc[t] \in {"receipt", "done"} =>
       /\ status[t] = "HELD_NO_EFFECT" => NamesGone(t) = {}
       /\ status[t] = "COMPLETE" => NamesGone(t) = plan.sel
       /\ status[t] = "PARTIAL" => removed[t] # {}
  /\ receipt[t] # None => pc[t] = "done" /\ receipt[t] = status[t]

JournalInv == \A t \in Txns : Journaled(t) /\ Bounded(t) /\ Reported(t)

\* The effect of an unlink on what is gone.
LEMMA GoneGrows ==
  ASSUME NEW t \in Txns, TypeInv, Effect(t)
  PROVE  NamesGone(t)' = NamesGone(t) \cup {file[t]}
  <1>1. gone'[t] = gone[t] \cup {<<file[t], tree[file[t]]>>}
    BY DEF Effect, TypeInv
  <1>2. ASSUME NEW G, NEW x PROVE {g[1] : g \in G \cup {x}} = {g[1] : g \in G} \cup {x[1]}
    OBVIOUS
  <1>3. <<file[t], tree[file[t]]>>[1] = file[t]
    OBVIOUS
  <1> HIDE DEF TypeInv
  <1> QED BY <1>1, <1>2, <1>3 DEF NamesGone

LEMMA GoneElsewhere ==
  ASSUME NEW t \in Txns, NEW s \in Txns, s # t, TypeInv, Effect(t)
  PROVE  NamesGone(s)' = NamesGone(s)
  BY DEF Effect, NamesGone, TypeInv

LEMMA GoneKept == ASSUME UNCHANGED gone PROVE \A t \in Txns : NamesGone(t)' = NamesGone(t)
  BY DEF NamesGone

LEMMA JournalInit == Init => JournalInv
  BY DEF Init, JournalInv, Journaled, Bounded, Reported, NamesGone

\* A step that only stops a transaction, wherever it is.
LEMMA JournalStop ==
  ASSUME NEW t \in Txns, TypeInv, JournalInv, Stop(t),
         pc[t] \in {"inventory", "lock", "next", "complete", "after", "finish"},
         UNCHANGED <<prepared, file, journal, removed, dispatched, receipt, gone>>
  PROVE  JournalInv'
  <1>1. \A s \in Txns : NamesGone(s)' = NamesGone(s)
    BY GoneKept
  <1>2. pc' = [pc EXCEPT ![t] = "receipt"]
        /\ status' = [status EXCEPT ![t] = StoppedAs(removed[t], dispatched[t])]
    BY DEF Stop, Goto
  <1>3. ASSUME NEW s \in Txns PROVE (Journaled(s) /\ Bounded(s) /\ Reported(s))'
    <2>1. Journaled(s) /\ Bounded(s) /\ Reported(s)
      BY DEF JournalInv
    <2>2. Journaled(s)'
      BY <1>1, <1>2, <2>1 DEF Journaled, TypeInv, journal
    <2>3. Bounded(s)'
      BY <1>2, <2>1 DEF Bounded, TypeInv, journal, prepared
    <2>4. Reported(s)'
      <3>1. CASE s = t
        <4>1. status'[t] = StoppedAs(removed[t], dispatched[t])
          BY <1>2 DEF TypeInv
        <4>2. receipt[t] = None
          BY <2>1, <3>1 DEF Reported
        <4>3. dispatched[t] \in BOOLEAN
          BY DEF TypeInv
        <4>4. status'[t] = "HELD_NO_EFFECT" => NamesGone(t) = {}
          BY <4>1, <4>3, <2>1, <3>1 DEF StoppedAs, Journaled
        <4>5. status'[t] # "COMPLETE" /\ (status'[t] = "PARTIAL" => removed[t] # {})
          BY <4>1 DEF StoppedAs
        <4> QED BY <4>2, <4>4, <4>5, <3>1, <1>1, <1>2 DEF Reported, prepared, TypeInv
      <3>2. CASE s # t
        BY <3>2, <2>1, <1>1, <1>2 DEF Reported, prepared, TypeInv
      <3> QED BY <3>1, <3>2
    <2> QED BY <2>2, <2>3, <2>4
  <1> QED BY <1>3 DEF JournalInv

\* A step that leaves the journal, the results and the plan alone.
LEMMA JournalKept ==
  ASSUME JournalInv,
         UNCHANGED <<pc, file, journal, result, gone>>,
         UNCHANGED <<phase, plan>> \/ (phase # "planned" /\ \A t \in Txns : pc[t] = "new")
  PROVE  JournalInv'
  <1>1. \A s \in Txns : NamesGone(s)' = NamesGone(s)
    BY GoneKept
  <1>2. ASSUME NEW s \in Txns PROVE (Journaled(s) /\ Bounded(s) /\ Reported(s))'
    <2>1. Journaled(s) /\ Bounded(s) /\ Reported(s)
      BY DEF JournalInv
    <2>2. Journaled(s)'
      BY <1>1, <2>1 DEF Journaled, journal, result
    <2>3. Bounded(s)'
      BY <2>1 DEF Bounded, journal, result
    <2>4. Reported(s)'
      BY <1>1, <2>1 DEF Reported, journal, result
    <2> QED BY <2>2, <2>3, <2>4
  <1> QED BY <1>2 DEF JournalInv

\* The invariant at a transaction the step does not touch.
LEMMA JournalFrame ==
  ASSUME NEW s \in Txns, JournalInv, UNCHANGED <<phase, plan>>,
         pc'[s] = pc[s], file'[s] = file[s], intent'[s] = intent[s], complete'[s] = complete[s],
         removed'[s] = removed[s], dispatched'[s] = dispatched[s], status'[s] = status[s],
         receipt'[s] = receipt[s], NamesGone(s)' = NamesGone(s)
  PROVE  (Journaled(s) /\ Bounded(s) /\ Reported(s))'
  <1>1. Journaled(s) /\ Bounded(s) /\ Reported(s)
    BY DEF JournalInv
  <1>2. Journaled(s)'
    BY <1>1 DEF Journaled
  <1>3. Bounded(s)'
    BY <1>1 DEF Bounded
  <1>4. Reported(s)'
    BY <1>1 DEF Reported
  <1> QED BY <1>2, <1>3, <1>4

\* A step that moves a transaction on, and nothing else of it.
LEMMA JournalMove ==
  ASSUME NEW t \in Txns, NEW l, TypeInv, JournalInv, Goto(t, l),
         UNCHANGED <<prepared, file, journal, result, gone>>,
         \/ pc[t] \in {"new", "inventory"} /\ l \in {"inventory", "lock"} /\ phase = "planned"
         \/ pc[t] = "lock" /\ l = "next"
         \/ pc[t] = "next" /\ l = "after" /\ plan.sel \subseteq removed[t]
         \/ pc[t] = "after" /\ l = "finish"
         \/ pc[t] \notin {"new", "done"} /\ l = "crashed"
  PROVE  JournalInv'
  <1>1. \A s \in Txns : NamesGone(s)' = NamesGone(s)
    BY GoneKept
  <1>2. \A s \in Txns \ {t} : pc'[s] = pc[s]
    BY DEF Goto, TypeInv
  <1>3. pc'[t] = l
    BY DEF Goto, TypeInv
  <1>4. ASSUME NEW s \in Txns PROVE (Journaled(s) /\ Bounded(s) /\ Reported(s))'
    <2>1. CASE s # t
      BY <2>1, <1>1, <1>2, JournalFrame DEF prepared, journal, result
    <2>2. CASE s = t
      <3>1. Journaled(t) /\ Bounded(t) /\ Reported(t)
        BY DEF JournalInv
      <3>2. Journaled(t)'
        BY <1>1, <1>3, <3>1 DEF Journaled, journal, result
      <3>3. Bounded(t)'
        BY <1>3, <3>1 DEF Bounded, journal, prepared, result
      <3>4. Reported(t)'
        BY <1>1, <1>3, <3>1 DEF Reported, prepared, result
      <3> QED BY <2>2, <3>2, <3>3, <3>4
    <2> QED BY <2>1, <2>2
  <1> QED BY <1>4 DEF JournalInv

\* The intent of the next name.
LEMMA JournalIntent ==
  ASSUME NEW t \in Txns, NEW n \in Turn(t), TypeInv, JournalInv, pc[t] = "next",
         file' = [file EXCEPT ![t] = n], intent' = [intent EXCEPT ![t] = Intent(t, n)],
         Goto(t, "unlink"), UNCHANGED <<prepared, complete, result, gone>>
  PROVE  JournalInv'
  <1>1. \A s \in Txns : NamesGone(s)' = NamesGone(s)
    BY GoneKept
  <1>2. \A s \in Txns \ {t} : pc'[s] = pc[s] /\ file'[s] = file[s] /\ intent'[s] = intent[s]
    BY DEF Goto, TypeInv
  <1>3. pc'[t] = "unlink" /\ file'[t] = n /\ intent'[t] = intent[t] \cup {n}
    BY DEF Goto, Intent, TypeInv
  <1>4. phase = "planned" /\ plan \in Snapshot
    BY DEF TypeInv
  <1>5. n \in plan.sel /\ n \in Names
    BY <1>4 DEF Turn, Remaining, Snapshot
  <1>6. Journaled(t) /\ Bounded(t) /\ Reported(t)
    BY DEF JournalInv
  <1>7. Journaled(t)'
    BY <1>1, <1>3, <1>5, <1>6 DEF Journaled, result
  <1>8. Bounded(t)'
    BY <1>3, <1>4, <1>5, <1>6 DEF Bounded, prepared
  <1>9. Reported(t)'
    BY <1>3, <1>6 DEF Reported, result
  <1>10. ASSUME NEW s \in Txns, s # t PROVE (Journaled(s) /\ Bounded(s) /\ Reported(s))'
    BY <1>10, <1>1, <1>2, JournalFrame DEF prepared, result
  <1> QED BY <1>7, <1>8, <1>9, <1>10 DEF JournalInv

\* The unlink, which may raise before or after its effect.
LEMMA JournalUnlink ==
  ASSUME NEW t \in Txns, TypeInv, JournalInv, Unlink(t) \/ UnlinkFails(t)
  PROVE  JournalInv'
  <1>1. /\ pc[t] = "unlink" /\ phase = "planned" /\ UNCHANGED <<phase, plan, file, intent, complete, receipt>>
        /\ dispatched'[t] = TRUE
    BY DEF Unlink, UnlinkFails, TypeInv, prepared, journal
  <1>2. NamesGone(t)' = NamesGone(t) \cup {file[t]} \/ (UnlinkFails(t) /\ NamesGone(t)' = NamesGone(t))
    BY GoneGrows, GoneKept DEF Unlink, UnlinkFails
  <1>3. ASSUME NEW s \in Txns, s # t PROVE (Journaled(s) /\ Bounded(s) /\ Reported(s))'
    <2>1. NamesGone(s)' = NamesGone(s)
      BY <1>3, GoneElsewhere, GoneKept DEF Unlink, UnlinkFails
    <2>2. /\ pc'[s] = pc[s] /\ removed'[s] = removed[s] /\ dispatched'[s] = dispatched[s]
          /\ status'[s] = status[s]
      BY <1>3 DEF Unlink, UnlinkFails, Goto, TypeInv
    <2> QED BY <1>1, <2>1, <2>2, JournalFrame
  <1>4. Journaled(t) /\ Bounded(t) /\ Reported(t) /\ file[t] \in Names
    BY <1>1 DEF JournalInv, TypeInv
  <1>5. \/ /\ Unlink(t) /\ pc'[t] = "complete" /\ removed'[t] = removed[t] \cup {file[t]}
        \/ /\ UnlinkFails(t) /\ pc'[t] = "receipt" /\ removed'[t] = removed[t]
           /\ status'[t] = StoppedAs(removed[t], TRUE)
    BY DEF Unlink, UnlinkFails, Goto, TypeInv
  <1>6. Journaled(t)'
    BY <1>1, <1>2, <1>4, <1>5 DEF Journaled, Unlink, UnlinkFails
  <1>7. Bounded(t)'
    BY <1>1, <1>4, <1>5 DEF Bounded
  <1>8. Reported(t)'
    <2>1. StoppedAs(removed[t], TRUE) \notin {"HELD_NO_EFFECT", "COMPLETE"}
          /\ (StoppedAs(removed[t], TRUE) = "PARTIAL" => removed[t] # {})
      BY DEF StoppedAs
    <2> QED BY <1>1, <1>4, <1>5, <2>1 DEF Reported
  <1> QED BY <1>3, <1>6, <1>7, <1>8 DEF JournalInv

\* The completion record, the verdict, and the receipt.
LEMMA JournalComplete ==
  ASSUME NEW t \in Txns, TypeInv, JournalInv, Complete(t)
  PROVE  JournalInv'
  <1>1. \A s \in Txns : NamesGone(s)' = NamesGone(s)
    BY GoneKept DEF Complete, history
  <1>2. UNCHANGED <<phase, plan, intent, removed, dispatched, status, receipt>> /\ pc[t] = "complete"
    BY DEF Complete, prepared, result
  <1>3. pc'[t] = "next" /\ complete'[t] = complete[t] \cup {file[t]}
    BY DEF Complete, Goto, TypeInv
  <1>4. \A s \in Txns \ {t} : pc'[s] = pc[s] /\ complete'[s] = complete[s] /\ file'[s] = file[s]
    BY DEF Complete, Goto, TypeInv
  <1>5. Journaled(t) /\ Bounded(t) /\ Reported(t)
    BY DEF JournalInv
  <1>6. Journaled(t)'
    BY <1>1, <1>2, <1>3, <1>5 DEF Journaled
  <1>7. Bounded(t)'
    BY <1>2, <1>3, <1>5 DEF Bounded
  <1>8. Reported(t)'
    BY <1>1, <1>2, <1>3, <1>5 DEF Reported
  <1>9. ASSUME NEW s \in Txns, s # t PROVE (Journaled(s) /\ Bounded(s) /\ Reported(s))'
    BY <1>9, <1>1, <1>2, <1>4, JournalFrame
  <1> QED BY <1>6, <1>7, <1>8, <1>9 DEF JournalInv

LEMMA JournalVerdict ==
  ASSUME NEW t \in Txns, TypeInv, JournalInv,
         \/ /\ pc[t] = "finish" /\ status' = [status EXCEPT ![t] = "COMPLETE"]
            /\ Goto(t, "receipt") /\ UNCHANGED receipt
         \/ /\ pc[t] = "receipt" /\ receipt' = [receipt EXCEPT ![t] = status[t]]
            /\ Goto(t, "done") /\ UNCHANGED status,
         UNCHANGED <<prepared, file, journal, removed, dispatched, gone>>
  PROVE  JournalInv'
  <1>1. \A s \in Txns : NamesGone(s)' = NamesGone(s)
    BY GoneKept
  <1>2. UNCHANGED <<phase, plan, file, intent, complete, removed, dispatched>> /\ phase = "planned"
    BY DEF prepared, journal, TypeInv
  <1>3. \A s \in Txns \ {t} : pc'[s] = pc[s] /\ status'[s] = status[s] /\ receipt'[s] = receipt[s]
    BY DEF Goto, TypeInv
  <1>4. \/ pc[t] = "finish" /\ pc'[t] = "receipt" /\ status'[t] = "COMPLETE" /\ receipt'[t] = receipt[t]
        \/ pc[t] = "receipt" /\ pc'[t] = "done" /\ status'[t] = status[t] /\ receipt'[t] = status[t]
    BY DEF Goto, TypeInv
  <1>5. Journaled(t) /\ Bounded(t) /\ Reported(t)
    BY DEF JournalInv
  <1>6. Journaled(t)'
    BY <1>1, <1>2, <1>4, <1>5 DEF Journaled
  <1>7. Bounded(t)'
    BY <1>2, <1>4, <1>5 DEF Bounded
  <1>8. pc[t] = "finish" => NamesGone(t) = plan.sel
    BY <1>2, <1>5 DEF Journaled, Bounded
  <1>9. Reported(t)'
    BY <1>1, <1>2, <1>4, <1>5, <1>8 DEF Reported
  <1>10. ASSUME NEW s \in Txns, s # t PROVE (Journaled(s) /\ Bounded(s) /\ Reported(s))'
    BY <1>10, <1>1, <1>2, <1>3, JournalFrame
  <1> QED BY <1>6, <1>7, <1>9, <1>10 DEF JournalInv

LEMMA JournalStep == TypeInv /\ JournalInv /\ [Next]_vars => JournalInv'
  <1> SUFFICES ASSUME TypeInv, JournalInv, [Next]_vars PROVE JournalInv'
    OBVIOUS
  <1> USE DEF history
  <1>1. CASE \/ CargoBuild \/ WorldChanges \/ \E n \in Names : OtherWrite(n)
             \/ \E n, m \in Places : Link(n, m)
    BY <1>1, JournalKept DEF CargoBuild, WorldChanges, OtherWrite, Link, Untouched, prepared
  <1>2. CASE Operation \/ Qualify \/ SavePlan
    <2>1. phase # "planned" /\ UNCHANGED <<pc, file, journal, result, gone>>
      BY <1>2 DEF Operation, Qualify, SavePlan
    <2> QED BY <2>1, JournalKept DEF TypeInv
  <1>3. ASSUME NEW t \in Txns, Apply(t) PROVE JournalInv'
    <2>1. CASE Begin(t)
      BY <2>1, JournalMove DEF Begin
    <2>2. CASE Inventory(t)
      <3>1. pc[t] = "inventory" /\ phase = "planned"
        BY <2>2 DEF Inventory, TypeInv
      <3>2. CASE Stop(t)
        BY <2>2, <3>1, <3>2, JournalStop DEF Inventory
      <3>3. CASE Goto(t, "lock") /\ UNCHANGED <<status, lock>>
        BY <2>2, <3>1, <3>3, JournalMove DEF Inventory, result
      <3> QED BY <2>2, <3>2, <3>3 DEF Inventory
    <2>3. CASE Lock(t)
      <3>1. CASE Stop(t)
        BY <2>3, <3>1, JournalStop DEF Lock
      <3>2. CASE Goto(t, "next") /\ UNCHANGED status
        BY <2>3, <3>2, JournalMove DEF Lock, result
      <3> QED BY <2>3, <3>1, <3>2 DEF Lock
    <2>4. CASE NextFile(t)
      <3>1. CASE Remaining(t) = {} /\ Goto(t, "after") /\ UNCHANGED <<file, intent, met, status, lock>>
        <4>1. plan.sel \subseteq removed[t]
          BY <3>1 DEF Remaining
        <4> QED BY <2>4, <3>1, <4>1, JournalMove DEF NextFile, journal, result
      <3>2. ASSUME NEW n \in Turn(t),
                   file' = [file EXCEPT ![t] = n], intent' = [intent EXCEPT ![t] = Intent(t, n)],
                   Goto(t, "unlink"), UNCHANGED <<status, lock>>
            PROVE  JournalInv'
        BY <2>4, <3>2, JournalIntent DEF NextFile, result
      <3>3. CASE Stop(t) /\ UNCHANGED <<file, intent, met>>
        BY <2>4, <3>3, JournalStop DEF NextFile, journal
      <3> QED BY <2>4, <3>1, <3>2, <3>3 DEF NextFile
    <2>5. CASE Unlink(t) \/ UnlinkFails(t)
      BY <2>5, JournalUnlink
    <2>6. CASE Complete(t)
      BY <2>6, JournalComplete
    <2>7. CASE After(t)
      <3>1. CASE Stop(t)
        BY <2>7, <3>1, JournalStop DEF After
      <3>2. CASE Goto(t, "finish") /\ UNCHANGED <<status, lock>>
        BY <2>7, <3>2, JournalMove DEF After, result
      <3> QED BY <2>7, <3>1, <3>2 DEF After
    <2>8. CASE Finish(t)
      <3>1. CASE Stop(t)
        BY <2>8, <3>1, JournalStop DEF Finish
      <3>2. CASE Goto(t, "receipt") /\ status' = [status EXCEPT ![t] = "COMPLETE"]
        BY <2>8, <3>2, JournalVerdict DEF Finish
      <3> QED BY <2>8, <3>1, <3>2 DEF Finish
    <2>9. CASE SaveReceipt(t)
      BY <2>9, JournalVerdict DEF SaveReceipt
    <2>10. CASE Raise(t)
      BY <2>10, JournalStop DEF Raise
    <2>11. CASE Crash(t)
      BY <2>11, JournalMove DEF Crash
    <2> QED BY <1>3, <2>1, <2>2, <2>3, <2>4, <2>5, <2>6, <2>7, <2>8, <2>9, <2>10, <2>11 DEF Apply
  <1>4. CASE UNCHANGED vars
    BY <1>4, JournalKept DEF vars, prepared
  <1> QED BY <1>1, <1>2, <1>3, <1>4 DEF Next

----------------------------------------------------------------------------
(* The authority *)

\* The names in target/ of one file, as a snapshot listed them.
SameFile(s, n) == {m \in Names : s.files[m] = s.files[n]}

\* A plan goes only by whole files, none of them protected or linked where the
\* plan does not reach, and no later write makes a file of the plan again.
Authority(s) ==
  /\ s.sel \subseteq Payload \cup Control
  /\ \A n \in s.sel :
       /\ s.files[n] # None /\ n \notin keep
       /\ SameFile(s, n) \subseteq s.sel /\ s.links[n] = Cardinality(SameFile(s, n))
  /\ \A n \in Names : s.files[n] # None => s.files[n][2] <= writes

\* One transaction at a time works, and it is the first that unlinks anything.
Exclusive ==
  \A t \in Txns : pc[t] \in Working =>
    lock = t /\ \A s \in Txns \ {t} : gone[s] = {}

\* Under the lock, what was selected and not yet removed is as planned.
Held == \A t \in Txns : pc[t] \in Working => \A n \in plan.sel \ removed[t] : tree[n] = plan.files[n]

\* No file that came into hand had a name the plan does not remove.
Met ==
  /\ phase = "planned" => \A t \in Txns : met[t] \subseteq plan.sel
  /\ phase # "planned" => \A t \in Txns : met[t] = {}

\* The name in hand is as planned; what is gone was planned and is not there.
Used ==
  /\ \A t \in Txns : pc[t] = "unlink" =>
       file[t] \in plan.sel /\ tree[file[t]] = plan.files[file[t]]
  /\ \A t \in Txns : \A g \in gone[t] :
       /\ g[1] \in plan.sel /\ g[2] = plan.files[g[1]]
       /\ tree[g[1]] # plan.files[g[1]]
  /\ phase # "planned" => \A t \in Txns : gone[t] = {}

AuthorityInv ==
  /\ \A n \in Places : tree[n] # None => tree[n][2] <= writes
  /\ snap # None => Authority(snap)
  /\ phase = "planned" => Authority(plan)
  /\ Exclusive /\ Held /\ Met /\ Used /\ AuthoritySpentOnce

\* What prepare() selects has the authority of a plan: a count of links that
\* the listing accounts for leaves no name elsewhere.
LEMMA SelectionAuthorized ==
  ASSUME TypeInv, \A n \in Places : tree[n] # None => tree[n][2] <= writes
  PROVE  Authority([files |-> Listed, links |-> Links, world |-> world, sel |-> Selected(Listed, Links)])
  <1> DEFINE s == [files |-> Listed, links |-> Links, world |-> world, sel |-> Selected(Listed, Links)]
  <1>1. \A n \in Names : n \in Places /\ Listed[n] = tree[n] /\ Links[n] = Nlink(tree[n])
    BY DEF Listed, Links, Places
  <1>2. \A n \in Names : SameFile(s, n) = {m \in Names : tree[m] = tree[n]}
    BY <1>1 DEF SameFile
  <1>3. \A n \in Names : tree[n] # None => Peers(Listed, n) = SameFile(s, n)
    BY <1>1, <1>2 DEF Peers, Present
  <1>4. ASSUME NEW n \in Unlinked(Listed, Links)
        PROVE  /\ Listed[n] # None /\ n \notin keep
               /\ SameFile(s, n) \subseteq Selected(Listed, Links)
               /\ Links[n] = Cardinality(SameFile(s, n))
    <2>1. /\ n \in Names /\ tree[n] # None /\ n \notin keep
          /\ Peers(Listed, n) \subseteq Qualified(Listed) /\ Links[n] = Cardinality(Peers(Listed, n))
      BY <1>1 DEF Unlinked, Qualified, Present
    <2>2. ASSUME NEW m \in SameFile(s, n) PROVE m \in Unlinked(Listed, Links)
      <3>1. m \in Names /\ tree[m] = tree[n]
        BY <1>2, <2>1
      <3>2. Peers(Listed, m) = Peers(Listed, n) /\ Links[m] = Links[n] /\ m \in Peers(Listed, m)
        BY <1>1, <2>1, <3>1 DEF Peers, Present
      <3> QED BY <2>1, <3>2 DEF Unlinked
    <2> QED BY <1>1, <1>3, <2>1, <2>2 DEF Selected
  <1>5. ASSUME NEW c \in Metadata(Listed, Links)
        PROVE  /\ Listed[c] # None /\ c \notin keep
               /\ SameFile(s, c) \subseteq Selected(Listed, Links)
               /\ Links[c] = Cardinality(SameFile(s, c))
    <2>1. /\ c \in Names /\ tree[c] # None /\ c \notin keep /\ Nlink(tree[c]) = 1
      BY <1>1 DEF Metadata, Present
    <2>2. PICK x : NamesOf(tree[c]) = {x}
      BY <2>1, LinksCounted, FS_Singleton DEF Nlink
    <2>3. NamesOf(tree[c]) = {c}
      BY <1>1, <2>1, <2>2 DEF NamesOf
    <2>4. SameFile(s, c) = {c}
      BY <1>1, <1>2, <2>1, <2>3 DEF NamesOf
    <2> QED BY <1>1, <2>1, <2>4, FS_Singleton DEF Selected
  <1>6. \A n \in Names : Listed[n] # None => Listed[n][2] <= writes
    BY <1>1
  <1>7. s.sel = Selected(Listed, Links) /\ s.files = Listed /\ s.links = Links
    OBVIOUS
  <1> HIDE DEF s
  <1>8. Authority(s)
    BY <1>4, <1>5, <1>6, <1>7, SelectedNames DEF Authority, Selected
  <1> QED BY <1>8 DEF s

\* The comparison of one name: a file with as many links as the plan counted,
\* less those taken, has no name that is not the plan's.
LEMMA NoOtherName ==
  ASSUME TypeInv, AuthorityInv, NEW t \in Txns, pc[t] = "next",
         NEW n \in plan.sel, AsPlanned({n}), ~Relinked(n, removed[t])
  PROVE  NamesOf(tree[n]) \subseteq plan.sel
  <1> DEFINE A == SameFile(plan, n)
             R == {m \in removed[t] : plan.files[m] = plan.files[n]}
             C == NamesOf(tree[n])
  <1>1. phase = "planned" /\ Authority(plan) /\ plan \in Snapshot /\ removed[t] \in SUBSET Names
    BY DEF TypeInv, AuthorityInv
  <1>2. n \in Names /\ tree[n] = plan.files[n] /\ plan.files[n] # None
    BY <1>1 DEF AsPlanned, Authority, Snapshot
  <1>3. A \subseteq plan.sel /\ plan.links[n] = Cardinality(A)
    BY <1>1 DEF Authority
  <1>4. Nlink(tree[n]) = Cardinality(A) - Cardinality(R)
    BY <1>2, <1>3 DEF Relinked
  <1>5. IsFiniteSet(A) /\ R \subseteq A /\ IsFiniteSet(C)
    <2>1. A \in SUBSET Places /\ IsFiniteSet(Places)
      BY RetirementConstants DEF SameFile, Places
    <2> QED BY <1>1, <2>1, FS_Subset, LinksCounted DEF SameFile
  <1>6. Cardinality(A \ R) = Cardinality(C)
    <2>1. A \cap R = R
      BY <1>5
    <2>2. Cardinality(A \ R) = Cardinality(A) - Cardinality(A \cap R)
      BY <1>5, FS_Difference
    <2> QED BY <1>4, <2>1, <2>2 DEF Nlink
  <1>7. A \ R \in SUBSET C
    <2> SUFFICES ASSUME NEW m \in A, m \notin R PROVE m \in C
      OBVIOUS
    <2>1. m \in Names /\ plan.files[m] = plan.files[n] /\ m \in plan.sel \ removed[t]
      BY <1>3 DEF SameFile
    <2>2. tree[m] = plan.files[m]
      BY <2>1 DEF AuthorityInv, Held, Working
    <2> QED BY <1>2, <2>1, <2>2 DEF NamesOf, Places
  <1>8. C = A \ R
    BY <1>5, <1>6, <1>7, FS_Subset
  <1> QED BY <1>3, <1>8

LEMMA AuthorityInit == Init => AuthorityInv
  <1> SUFFICES ASSUME Init PROVE AuthorityInv
    OBVIOUS
  <1>1. ASSUME NEW n \in Places, tree[n] # None PROVE tree[n][2] <= writes
    <2>1. PICK first \in [Payload -> Payload] :
            tree = [m \in Places |-> IF m \in Foreign \cup Elsewhere THEN None
                                     ELSE IF m \in Payload THEN <<first[m], 0>> ELSE <<m, 0>>]
      BY DEF Init, Trees
    <2>2. tree[n] = <<first[n], 0>> \/ tree[n] = <<n, 0>>
      BY <1>1, <2>1
    <2> QED BY <2>2 DEF Init
  <1>2. snap = None /\ phase = "built" /\ \A t \in Txns : pc[t] = "new" /\ gone[t] = {} /\ met[t] = {}
    BY DEF Init
  <1> QED BY <1>1, <1>2 DEF AuthorityInv, Exclusive, Held, Met, Used, AuthoritySpentOnce, Working

\* A plan keeps its authority while files are written and unlinked.
LEMMA AuthorityKept ==
  ASSUME NEW s, Authority(s), s \in Snapshot, TypeInv, UNCHANGED keep,
         writes' \in Nat, writes <= writes'
  PROVE  Authority(s)'
  <1>1. ASSUME NEW n \in Names, s.files[n] # None PROVE s.files[n][2] <= writes'
    <2>1. s.files[n] \in Names \X Nat
      BY <1>1 DEF Snapshot, Listing, Files
    <2> QED BY <1>1, <2>1 DEF Authority, TypeInv
  <1> QED BY <1>1 DEF Authority, SameFile

\* Files written after the plan are none of its files, and links are made at
\* none of its names.
LEMMA AuthorityWrite ==
  ASSUME TypeInv, AuthorityInv, NEW W \in SUBSET Places, Written(W)
  PROVE  AuthorityInv'
  <1>1. /\ writes \in Nat /\ tree \in TreeType /\ writes' = writes + 1
        /\ UNCHANGED <<keep, lock, phase, plan, snap, pc, file, removed, gone, met>>
    BY DEF TypeInv, Written, Untouched, prepared, result, history
  <1>2. \A n \in Places : tree'[n] # None => tree'[n][2] <= writes'
    <2> SUFFICES ASSUME NEW n \in Places, tree'[n] # None PROVE tree'[n][2] <= writes'
      OBVIOUS
    <2>1. tree'[n] = <<n, writes'>> \/ \E m \in Places : tree'[n] = tree[m]
      BY DEF Written
    <2>2. ASSUME NEW m \in Places, tree'[n] = tree[m] PROVE tree'[n][2] <= writes'
      <3>1. tree[m] \in Names \X Nat /\ tree[m][2] <= writes
        BY <1>1, <2>2 DEF TreeType, Files, AuthorityInv
      <3> QED BY <1>1, <2>2, <3>1
    <2> QED BY <1>1, <2>1, <2>2
  <1>3. /\ snap' # None => Authority(snap)'
        /\ phase' = "planned" => Authority(plan)'
    BY <1>1, AuthorityKept DEF AuthorityInv, TypeInv
  <1>4. Exclusive' /\ Met' /\ AuthoritySpentOnce'
    BY <1>1 DEF AuthorityInv, Exclusive, Met, AuthoritySpentOnce
  <1>5. ASSUME NEW t \in Txns, pc[t] \in Working
        PROVE  \A n \in plan.sel : tree'[n] = tree[n]
    <2>1. phase = "planned" /\ plan.sel \subseteq Payload \cup Control
      BY <1>5 DEF AuthorityInv, Authority, TypeInv, Working
    <2>2. lock # None
      BY <1>5, RetirementConstants DEF AuthorityInv, Exclusive
    <2>3. W \cap (Payload \cup Control) = {}
      BY <2>2 DEF Written
    <2> QED BY <2>1, <2>3 DEF Written, Names, Places
  <1>6. Held'
    BY <1>1, <1>5 DEF AuthorityInv, Held
  <1>7. ASSUME NEW t \in Txns, NEW g \in gone[t] PROVE tree'[g[1]] # plan.files[g[1]]
    <2>1. phase = "planned" /\ g[1] \in plan.sel /\ tree[g[1]] # plan.files[g[1]]
      BY <1>7 DEF AuthorityInv, Used
    <2>2. Authority(plan) /\ plan \in Snapshot
      BY <2>1 DEF AuthorityInv, TypeInv
    <2>3. g[1] \in Names /\ g[1] \in Payload \cup Control /\ plan.files[g[1]] # None
      BY <2>1, <2>2 DEF Authority, Snapshot
    <2>4. plan.files[g[1]] \in Names \X Nat /\ plan.files[g[1]][2] <= writes
      BY <2>2, <2>3 DEF Authority, Snapshot, Listing, Files
    <2>5. CASE g[1] \in W
      <3>1. tree'[g[1]] = <<g[1], writes + 1>>
        BY <1>1, <2>3, <2>5 DEF Written
      <3> QED BY <1>1, <2>4, <3>1
    <2>6. CASE g[1] \notin W
      BY <2>1, <2>3, <2>6 DEF Written, Places
    <2> QED BY <2>5, <2>6
  <1>8. ASSUME NEW t \in Txns, pc[t] = "unlink"
        PROVE  file[t] \in plan.sel /\ tree'[file[t]] = plan.files[file[t]]
    BY <1>5, <1>8 DEF AuthorityInv, Used, Working
  <1>9. Used'
    BY <1>1, <1>7, <1>8 DEF Used, AuthorityInv
  <1> QED BY <1>2, <1>3, <1>4, <1>6, <1>9 DEF AuthorityInv

\* A step of a transaction that unlinks nothing.
LEMMA AuthorityMove ==
  ASSUME NEW t \in Txns, NEW l, TypeInv, AuthorityInv, Goto(t, l),
         UNCHANGED <<disk, prepared, removed, gone>>,
         UNCHANGED met \/ (l = "unlink" /\ \E S \in SUBSET plan.sel : met' = [met EXCEPT ![t] = @ \cup S]),
         \/ /\ l \notin Working /\ lock' \in {lock, IF lock = t THEN None ELSE lock}
            /\ UNCHANGED file
         \/ /\ l \in Working \ {"unlink"} /\ pc[t] \in Working /\ UNCHANGED lock
            /\ UNCHANGED file \/ file' = [file EXCEPT ![t] = None]
         \/ /\ l = "unlink" /\ pc[t] \in Working /\ UNCHANGED lock
            /\ \E n \in plan.sel : tree[n] = plan.files[n] /\ file' = [file EXCEPT ![t] = n]
         \/ /\ l = "next" /\ pc[t] = "lock" /\ lock = None /\ lock' = t /\ UNCHANGED file
            /\ AsPlanned(Present(plan.files))
  PROVE  AuthorityInv'
  <1>1. /\ \A n \in Places : tree'[n] # None => tree'[n][2] <= writes'
        /\ snap' # None => Authority(snap)'
        /\ phase' = "planned" => Authority(plan)'
    <2>1. UNCHANGED <<tree, keep, writes, phase, plan, snap>> /\ writes \in Nat
      BY DEF disk, prepared, TypeInv
    <2> QED BY <2>1, AuthorityKept DEF AuthorityInv, TypeInv
  <1>2. pc'[t] = l /\ \A s \in Txns \ {t} : pc'[s] = pc[s]
    BY DEF Goto, TypeInv
  <1>3. \A s \in Txns \ {t} : file'[s] = file[s]
    BY DEF TypeInv
  <1>4. AuthoritySpentOnce'
    BY DEF AuthorityInv, AuthoritySpentOnce
  <1>5. Used'
    <2>1. ASSUME NEW s \in Txns, pc'[s] = "unlink"
          PROVE  file'[s] \in plan.sel /\ tree[file'[s]] = plan.files[file'[s]]
      <3>1. CASE s # t
        BY <2>1, <3>1, <1>2, <1>3 DEF AuthorityInv, Used
      <3>2. CASE s = t
        <4>1. l = "unlink"
          BY <2>1, <3>2, <1>2
        <4>2. PICK n \in plan.sel : tree[n] = plan.files[n] /\ file' = [file EXCEPT ![t] = n]
          BY <4>1 DEF Working
        <4>3. file'[t] = n
          BY <4>2 DEF TypeInv
        <4> QED BY <3>2, <4>2, <4>3
      <3> QED BY <3>1, <3>2
    <2> QED BY <2>1 DEF Used, AuthorityInv, disk, prepared
  <1>6. Exclusive'
    <2> SUFFICES ASSUME NEW s \in Txns, pc'[s] \in Working
                 PROVE  lock' = s /\ \A r \in Txns \ {s} : gone[r] = {}
      BY DEF Exclusive
    <2>1. CASE s # t
      <3>1. lock = s /\ \A r \in Txns \ {s} : gone[r] = {}
        BY <2>1, <1>2 DEF AuthorityInv, Exclusive
      <3>2. lock' = lock
        BY <2>1, <3>1, RetirementConstants
      <3> QED BY <3>1, <3>2
    <2>2. CASE s = t /\ pc[t] \in Working
      <3>1. l \in Working
        BY <2>2, <1>2
      <3>2. lock = t /\ \A r \in Txns \ {t} : gone[r] = {}
        BY <2>2 DEF AuthorityInv, Exclusive
      <3> QED BY <2>2, <3>1, <3>2
    <2>3. CASE s = t /\ pc[t] \notin Working
      <3>1. lock' = t /\ pc[t] = "lock" /\ AsPlanned(Present(plan.files))
        BY <2>3, <1>2
      <3>2. Authority(plan) /\ plan \in Snapshot
        BY <3>1 DEF AuthorityInv, TypeInv
      <3>3. ASSUME NEW r \in Txns, NEW g \in gone[r] PROVE FALSE
        <4>1. g[1] \in plan.sel /\ tree[g[1]] # plan.files[g[1]]
          BY DEF AuthorityInv, Used
        <4>2. g[1] \in Present(plan.files)
          BY <4>1, <3>2 DEF Authority, Snapshot, Present
        <4> QED BY <4>1, <4>2, <3>1 DEF AsPlanned
      <3> QED BY <2>3, <3>1, <3>3
    <2> QED BY <2>1, <2>2, <2>3
  <1>7. Held'
    <2> SUFFICES ASSUME NEW s \in Txns, pc'[s] \in Working
                 PROVE  \A n \in plan.sel \ removed[s] : tree[n] = plan.files[n]
      BY DEF Held, disk, prepared
    <2>1. CASE pc[s] \in Working
      BY <2>1 DEF AuthorityInv, Held
    <2>2. CASE pc[s] \notin Working
      <3>1. pc[t] = "lock" /\ AsPlanned(Present(plan.files))
        BY <2>2, <1>2
      <3>2. Authority(plan) /\ plan \in Snapshot
        BY <3>1 DEF AuthorityInv, TypeInv
      <3>3. plan.sel \subseteq Present(plan.files)
        BY <3>2 DEF Authority, Snapshot, Present
      <3> QED BY <3>1, <3>3 DEF AsPlanned
    <2> QED BY <2>1, <2>2
  <1>8. Met'
    <2>1. CASE UNCHANGED met
      BY <2>1 DEF AuthorityInv, Met, prepared
    <2>2. CASE l = "unlink" /\ \E S \in SUBSET plan.sel : met' = [met EXCEPT ![t] = @ \cup S]
      <3>1. phase = "planned" /\ phase' = "planned" /\ plan' = plan
        BY <2>2 DEF TypeInv, Working, prepared
      <3> QED BY <2>2, <3>1 DEF AuthorityInv, Met, TypeInv
    <2> QED BY <2>1, <2>2
  <1> QED BY <1>1, <1>4, <1>5, <1>6, <1>7, <1>8 DEF AuthorityInv

\* The unlink: with the lock, of the file that was planned.
LEMMA AuthorityUnlink ==
  ASSUME NEW t \in Txns, TypeInv, AuthorityInv, pc[t] = "unlink", Effect(t),
         \/ Goto(t, "complete") /\ UNCHANGED lock /\ removed' = [removed EXCEPT ![t] = @ \cup {file[t]}]
         \/ Goto(t, "receipt"),
         UNCHANGED <<keep, writes, prepared, file, met>>
  PROVE  AuthorityInv'
  <1>1. phase = "planned" /\ plan \in Snapshot /\ Authority(plan) /\ file[t] \in Names
    BY DEF TypeInv, AuthorityInv
  <1>2. /\ file[t] \in plan.sel /\ tree[file[t]] = plan.files[file[t]]
        /\ plan.files[file[t]] # None
    BY <1>1 DEF AuthorityInv, Used, Authority
  <1>3. tree' = [tree EXCEPT ![file[t]] = None]
        /\ gone' = [gone EXCEPT ![t] = @ \cup {<<file[t], tree[file[t]]>>}]
    BY DEF Effect
  <1>4. lock = t /\ \A s \in Txns \ {t} : gone[s] = {} /\ pc[s] \notin Working
    BY DEF AuthorityInv, Exclusive, Working
  <1>5. \A s \in Txns \ {t} : gone'[s] = {} /\ pc'[s] = pc[s]
    BY <1>3, <1>4 DEF Goto, TypeInv
  <1>6. pc'[t] \in {"complete", "receipt"} /\ (pc'[t] \in Working => lock' = t)
    BY <1>4 DEF Goto, Working, TypeInv
  <1>7. \A n \in Places : tree'[n] # None => tree'[n] = tree[n]
    BY <1>1, <1>3 DEF TypeInv, TreeType
  <1>8. /\ \A n \in Places : tree'[n] # None => tree'[n][2] <= writes'
        /\ snap' # None => Authority(snap)'
        /\ phase' = "planned" => Authority(plan)'
    BY <1>7 DEF AuthorityInv, Authority, SameFile, prepared
  <1>9. Exclusive' /\ Met' /\ AuthoritySpentOnce'
    BY <1>1, <1>4, <1>5, <1>6 DEF AuthorityInv, Exclusive, Met, AuthoritySpentOnce, prepared
  <1>10. Held'
    <2> SUFFICES ASSUME NEW s \in Txns, pc'[s] \in Working, NEW n \in plan.sel, n \notin removed'[s]
                 PROVE  tree'[n] = plan.files[n]
      BY DEF Held, prepared
    <2>1. s = t /\ pc'[t] = "complete" /\ removed'[t] = removed[t] \cup {file[t]}
      BY <1>4, <1>5 DEF Goto, Working, TypeInv
    <2>2. n # file[t] /\ tree[n] = plan.files[n] /\ n \in Places
      BY <1>1, <2>1 DEF AuthorityInv, Held, Working, Snapshot, Places
    <2> QED BY <1>3, <2>2 DEF TypeInv, TreeType
  <1>11. Used'
    <2>1. \A s \in Txns : pc'[s] # "unlink"
      BY <1>4, <1>5, <1>6 DEF Working
    <2>2. ASSUME NEW s \in Txns, NEW g \in gone'[s]
          PROVE  g[1] \in plan.sel /\ g[2] = plan.files[g[1]] /\ tree'[g[1]] # plan.files[g[1]]
      <3>1. s = t /\ gone'[t] = gone[t] \cup {<<file[t], tree[file[t]]>>}
        BY <2>2, <1>3, <1>5 DEF TypeInv
      <3>2. CASE g \in gone[t]
        <4>1. g[1] \in plan.sel /\ g[2] = plan.files[g[1]] /\ tree[g[1]] # plan.files[g[1]]
          BY <3>2 DEF AuthorityInv, Used
        <4>2. g[1] \in Names /\ plan.files[g[1]] # None
          BY <4>1, <1>1 DEF Authority, Snapshot
        <4> QED BY <4>1, <4>2, <1>7 DEF Places
      <3>3. CASE g = <<file[t], tree[file[t]]>>
        <4>1. g[1] = file[t] /\ g[2] = tree[file[t]]
          BY <3>3
        <4>2. tree'[file[t]] = None
          BY <1>1, <1>3 DEF TypeInv, TreeType, Places
        <4> QED BY <4>1, <4>2, <1>2
      <3> QED BY <2>2, <3>1, <3>2, <3>3
    <2> QED BY <1>1, <2>1, <2>2 DEF Used, prepared
  <1> QED BY <1>8, <1>9, <1>11, <1>10 DEF AuthorityInv

\* prepare(): nothing is gone yet, and nobody works.
LEMMA AuthorityPrepare ==
  ASSUME TypeInv, AuthorityInv, Operation \/ Qualify \/ SavePlan
  PROVE  AuthorityInv'
  <1>1. phase # "planned" /\ UNCHANGED <<disk, pc, file, removed, gone, met>>
    BY DEF Operation, Qualify, SavePlan, result, history
  <1>2. \A t \in Txns : pc[t] = "new" /\ gone[t] = {} /\ met[t] = {}
    BY <1>1 DEF TypeInv, AuthorityInv, Used, Met
  <1>3. Exclusive' /\ Held' /\ Met' /\ Used' /\ AuthoritySpentOnce'
    BY <1>1, <1>2 DEF Exclusive, Held, Met, Used, AuthoritySpentOnce, Working
  <1>4. \A n \in Places : tree'[n] # None => tree'[n][2] <= writes'
    BY <1>1 DEF AuthorityInv, disk
  <1>5. CASE Operation
    BY <1>1, <1>3, <1>4, <1>5 DEF Operation, AuthorityInv, Authority, SameFile, disk
  <1>6. CASE Qualify
    <2>1. Authority([files |-> Listed, links |-> Links, world |-> world, sel |-> Selected(Listed, Links)])
      BY SelectionAuthorized DEF AuthorityInv
    <2> QED BY <1>1, <1>3, <1>4, <1>6, <2>1 DEF Qualify, AuthorityInv, Authority, SameFile, disk
  <1>7. CASE SavePlan
    BY <1>1, <1>3, <1>4, <1>7 DEF SavePlan, AuthorityInv, Authority, SameFile, disk
  <1> QED BY <1>5, <1>6, <1>7

LEMMA AuthorityStep == TypeInv /\ AuthorityInv /\ [Next]_vars => AuthorityInv'
  <1> SUFFICES ASSUME TypeInv, AuthorityInv, [Next]_vars PROVE AuthorityInv'
    OBVIOUS
  <1>1. CASE \/ CargoBuild
             \/ \E n \in Names : OtherWrite(n)
             \/ \E n, m \in Places : Link(n, m)
    <2>1. PICK W \in SUBSET Places : Written(W)
      BY <1>1, WritesTyped
    <2> QED BY <2>1, AuthorityWrite
  <1>2. CASE WorldChanges \/ UNCHANGED vars
    <2>1. UNCHANGED <<disk, lock, prepared, pc, file, removed, gone, met>>
      BY <1>2 DEF WorldChanges, Untouched, vars, disk, result, history
    <2>2. /\ \A n \in Places : tree'[n] # None => tree'[n][2] <= writes'
          /\ snap' # None => Authority(snap)'
          /\ phase' = "planned" => Authority(plan)'
      BY <2>1 DEF AuthorityInv, Authority, SameFile, disk, prepared
    <2>3. Exclusive' /\ Held' /\ Met' /\ Used' /\ AuthoritySpentOnce'
      BY <2>1 DEF AuthorityInv, Exclusive, Held, Met, Used, AuthoritySpentOnce, disk, prepared
    <2> QED BY <2>2, <2>3 DEF AuthorityInv
  <1>3. CASE Operation \/ Qualify \/ SavePlan
    BY <1>3, AuthorityPrepare
  <1>4. ASSUME NEW t \in Txns, Apply(t) PROVE AuthorityInv'
    <2> USE DEF history, result
    <2>1. CASE Begin(t)
      BY <2>1, AuthorityMove DEF Begin, Working
    <2>2. CASE Stop(t) /\ UNCHANGED <<disk, prepared, file, removed, gone, met>>
      BY <2>2, AuthorityMove DEF Stop, Working
    <2>3. CASE Inventory(t)
      <3>1. CASE Goto(t, "lock") /\ UNCHANGED <<status, lock>>
        BY <2>3, <3>1, AuthorityMove DEF Inventory, Working
      <3> QED BY <2>2, <2>3, <3>1 DEF Inventory
    <2>4. CASE Lock(t)
      <3>1. CASE /\ lock = None /\ AsPlanned(Present(plan.files))
                 /\ Goto(t, "next") /\ lock' = Locked(t) /\ UNCHANGED status
        BY <2>4, <3>1, AuthorityMove DEF Lock, Locked
      <3> QED BY <2>2, <2>4, <3>1 DEF Lock
    <2>5. CASE NextFile(t)
      <3>1. pc[t] \in Working /\ UNCHANGED <<disk, prepared, removed, gone>>
        BY <2>5 DEF NextFile, Working
      <3>2. CASE Remaining(t) = {} /\ Goto(t, "after") /\ UNCHANGED <<file, intent, met, status, lock>>
        BY <3>1, <3>2, AuthorityMove DEF Working
      <3>3. ASSUME NEW n \in Turn(t), AsPlanned({n}), ~Relinked(n, removed[t]),
                   file' = [file EXCEPT ![t] = n], met' = [met EXCEPT ![t] = @ \cup NamesOf(tree[n])],
                   Goto(t, "unlink"), UNCHANGED <<status, lock>>
            PROVE  AuthorityInv'
        <4>1. n \in plan.sel /\ tree[n] = plan.files[n]
          BY <3>3 DEF Turn, Remaining, AsPlanned
        <4>2. NamesOf(tree[n]) \in SUBSET plan.sel
          BY <2>5, <3>3, <4>1, NoOtherName DEF NextFile
        <4> QED BY <3>1, <3>3, <4>1, <4>2, AuthorityMove DEF Working
      <3>4. CASE Stop(t) /\ UNCHANGED <<file, intent, met>>
        BY <2>2, <3>1, <3>4
      <3> QED BY <2>5, <3>2, <3>3, <3>4 DEF NextFile
    <2>6. CASE Unlink(t)
      BY <2>6, AuthorityUnlink DEF Unlink
    <2>7. CASE UnlinkFails(t)
      <3>1. CASE Effect(t)
        BY <2>7, <3>1, AuthorityUnlink DEF UnlinkFails
      <3>2. CASE UNCHANGED <<tree, gone>>
        BY <2>7, <3>2, AuthorityMove DEF UnlinkFails, Working, disk
      <3> QED BY <2>7, <3>1, <3>2 DEF UnlinkFails
    <2>8. CASE Complete(t)
      BY <2>8, AuthorityMove DEF Complete, Working
    <2>9. CASE After(t)
      <3>1. CASE Goto(t, "finish") /\ UNCHANGED <<status, lock>>
        BY <2>9, <3>1, AuthorityMove DEF After, Working
      <3> QED BY <2>2, <2>9, <3>1 DEF After
    <2>10. CASE Finish(t)
      <3>1. CASE Goto(t, "receipt") /\ lock' = IF lock = t THEN None ELSE lock
        BY <2>10, <3>1, AuthorityMove DEF Finish, Working
      <3> QED BY <2>2, <2>10, <3>1 DEF Finish
    <2>11. CASE SaveReceipt(t)
      BY <2>11, AuthorityMove DEF SaveReceipt, Working
    <2>12. CASE Raise(t)
      BY <2>2, <2>12 DEF Raise
    <2>13. CASE Crash(t)
      BY <2>13, AuthorityMove DEF Crash, Working
    <2> QED BY <1>4, <2>1, <2>3, <2>4, <2>5, <2>6, <2>7, <2>8, <2>9, <2>10, <2>11, <2>12, <2>13 DEF Apply
  <1> QED BY <1>1, <1>2, <1>3, <1>4 DEF Next

----------------------------------------------------------------------------
(* The theorems *)

RetirementInv == TypeInv /\ JournalInv /\ AuthorityInv

LEMMA RetirementInductive == Spec => []RetirementInv
  <1>1. Init => RetirementInv
    BY TypeInit, JournalInit, AuthorityInit DEF RetirementInv
  <1>2. RetirementInv /\ [Next]_vars => RetirementInv'
    BY TypeStep, JournalStep, AuthorityStep DEF RetirementInv
  <1> QED BY <1>1, <1>2, PTL DEF Spec

\* A set of names with at most one member, counted.
LEMMA AtMostOne == ASSUME NEW S, NEW x, S \subseteq {x} PROVE Cardinality(S) <= 1
  <1>1. IsFiniteSet({x}) /\ Cardinality({x}) = 1
    BY FS_Singleton
  <1> QED BY <1>1, FS_Subset

\* The types of the disk, the transactions, their journals and receipts, as
\* apply() and prepare() leave them.
THEOREM RetirementTyped == Spec => []TypeOK
  <1>1. RetirementInv => TypeOK
    BY DEF RetirementInv, TypeInv, JournalInv, Journaled, TypeOK, TreeType, Statuses
  <1> QED BY <1>1, RetirementInductive, PTL

\* At every instant, so after any crash, the journal of apply() brackets what
\* is gone: completed, then gone, then intended, with one intent open.
THEOREM JournalTellsAll == Spec => []JournalBrackets
  <1>1. RetirementInv => JournalBrackets
    <2> SUFFICES ASSUME RetirementInv, NEW t \in Txns
                 PROVE  /\ complete[t] \subseteq NamesGone(t) /\ NamesGone(t) \subseteq intent[t]
                        /\ Cardinality(intent[t] \ complete[t]) <= 1
      BY DEF JournalBrackets
    <2>1. Journaled(t)
      BY DEF RetirementInv, JournalInv
    <2>2. PICK n \in Names \cup {None} : intent[t] \subseteq complete[t] \cup {n}
      BY <2>1 DEF Journaled
    <2>3. Cardinality(intent[t] \ complete[t]) <= 1
      BY <2>2, AtMostOne
    <2> QED BY <2>1, <2>3 DEF Journaled
  <1> QED BY <1>1, RetirementInductive, PTL

\* The receipt apply() saves never understates what its transaction unlinked.
THEOREM ReceiptsTellAll == Spec => []ReceiptTruthful
  <1>1. RetirementInv => ReceiptTruthful
    <2> SUFFICES ASSUME RetirementInv, NEW t \in Txns, receipt[t] # None
                 PROVE  /\ receipt[t] = "HELD_NO_EFFECT" => gone[t] = {}
                        /\ receipt[t] = "COMPLETE" => NamesGone(t) = plan.sel
                        /\ receipt[t] = "PARTIAL" => removed[t] # {} /\ removed[t] \subseteq NamesGone(t)
                        /\ Cardinality(NamesGone(t) \ removed[t]) <= 1
      BY DEF ReceiptTruthful
    <2>1. Journaled(t) /\ Reported(t)
      BY DEF RetirementInv, JournalInv
    <2>2. PICK n \in Names \cup {None} : intent[t] \subseteq complete[t] \cup {n}
      BY <2>1 DEF Journaled
    <2>3. Cardinality(NamesGone(t) \ removed[t]) <= 1
      BY <2>1, <2>2, AtMostOne DEF Journaled
    <2>4. NamesGone(t) = {} => gone[t] = {}
      BY DEF NamesGone
    <2> QED BY <2>1, <2>3, <2>4 DEF Journaled, Reported
  <1> QED BY <1>1, RetirementInductive, PTL

\* Whatever was built, written or linked since the plan, apply() and unlink_at
\* take only the files it authorized, and a file only when the comparison before
\* its intent found it no name that the plan does not remove.
THEOREM OnlyAuthorizedRemoved == Spec => []RemovedAsAuthorized
  <1>1. RetirementInv => RemovedAsAuthorized
    <2> SUFFICES ASSUME RetirementInv, NEW t \in Txns
                 PROVE  /\ \A g \in gone[t] : g[1] \in plan.sel \ keep /\ g[2] = plan.files[g[1]]
                        /\ \A n \in met[t] : n \in plan.sel
      BY DEF RemovedAsAuthorized
    <2>1. ASSUME NEW g \in gone[t] PROVE g[1] \in plan.sel \ keep /\ g[2] = plan.files[g[1]]
      <3>1. g[1] \in plan.sel /\ g[2] = plan.files[g[1]] /\ phase = "planned"
        BY DEF RetirementInv, AuthorityInv, Used
      <3> QED BY <3>1 DEF RetirementInv, AuthorityInv, Authority
    <2> QED BY <2>1 DEF RetirementInv, AuthorityInv, Met
  <1> QED BY <1>1, RetirementInductive, PTL

\* A transaction whose apply() removed anything, crashed or not, has used the
\* plan up.
THEOREM AuthorityUsedOnce == Spec => []AuthoritySpentOnce
  <1>1. RetirementInv => AuthoritySpentOnce
    BY DEF RetirementInv, AuthorityInv
  <1> QED BY <1>1, RetirementInductive, PTL

----------------------------------------------------------------------------
(* Survivors *)

\* A build's file that is neither the planned one nor gone is newer than any
\* planned.
Newer ==
  \A m \in Payload \cup Control :
    \/ tree[m] \in {plan.files[m], None}
    \/ \A k \in Names : plan.files[k] # None => plan.files[k][2] < tree[m][2]

\* While planned payload is left, nothing it depends on was touched.
Intact ==
  \A n \in plan.sel \cap Payload : tree[n] = plan.files[n] =>
    /\ \A c \in Control : tree[c] = plan.files[c]
    /\ \A m \in Payload : tree[m] \in {plan.files[m], None}

\* Control files come into hand when all payload is gone.
ControlLast(t) ==
  pc[t] = "unlink" /\ file[t] \notin Payload => plan.sel \cap Payload \subseteq removed[t]

SurvivorInv ==
  /\ snap # None => snap.sel = Selected(snap.files, snap.links)
  /\ phase # "planned" => plan = None
  /\ phase = "planned" => plan.sel = Selected(plan.files, plan.links) /\ Newer /\ Intact
  /\ \A t \in Txns : ControlLast(t)

\* The selection depends on nothing that changes after the build.
LEMMA SelectionFrame ==
  ASSUME UNCHANGED keep, UNCHANGED snap, UNCHANGED plan
  PROVE  /\ Selected(snap.files, snap.links)' = Selected(snap.files, snap.links)
         /\ Selected(plan.files, plan.links)' = Selected(plan.files, plan.links)
  BY DEF Selected, Unlinked, Qualified, Metadata, Peers, Present, Provenance

LEMMA SurvivorFrame ==
  ASSUME SurvivorInv, UNCHANGED <<disk, prepared>>, \A t \in Txns : ControlLast(t)'
  PROVE  SurvivorInv'
  <1>1. UNCHANGED <<tree, keep, phase, plan, snap>>
    BY DEF disk, prepared
  <1>2. Newer' = Newer /\ Intact' = Intact
    BY <1>1 DEF Newer, Intact
  <1> QED BY <1>1, <1>2, SelectionFrame DEF SurvivorInv

\* A write makes a file that is newer than the plan.
LEMMA SurvivorWrite ==
  ASSUME TypeInv, AuthorityInv, SurvivorInv, NEW W \in SUBSET Places, Written(W)
  PROVE  SurvivorInv'
  <1>1. /\ writes' = writes + 1 /\ writes \in Nat
        /\ UNCHANGED <<keep, phase, plan, snap, pc, file, removed>>
    BY DEF TypeInv, Written, Untouched, prepared, result
  <1>2. \A t \in Txns : ControlLast(t)'
    BY <1>1 DEF SurvivorInv, ControlLast
  <1>3. ASSUME phase = "planned" PROVE Newer' /\ Intact'
    <2>1. \A k \in Names : plan.files[k] # None => plan.files[k] \in Names \X Nat /\ plan.files[k][2] <= writes
      BY <1>3 DEF TypeInv, Snapshot, Listing, Files, AuthorityInv, Authority
    <2>2. ASSUME NEW m \in W \cap (Payload \cup Control)
          PROVE  \A k \in Names : plan.files[k] # None => plan.files[k][2] < tree'[m][2]
      <3>1. tree'[m] = <<m, writes + 1>>
        BY <1>1 DEF Written
      <3> QED BY <1>1, <2>1, <3>1
    <2>3. \A m \in (Payload \cup Control) \ W : tree'[m] = tree[m]
      BY DEF Written, Names, Places
    <2>4. Newer'
      BY <1>1, <1>3, <2>2, <2>3 DEF SurvivorInv, Newer
    <2>5. ASSUME NEW n \in plan.sel \cap Payload, tree'[n] = plan.files[n]
          PROVE  W \cap (Payload \cup Control) = {}
      <3>1. n \in Names /\ plan.files[n] # None
        BY <1>3 DEF AuthorityInv, Authority, Names
      <3>2. n \notin W
        <4> SUFFICES ASSUME n \in W PROVE FALSE
          OBVIOUS
        <4>1. plan.files[n][2] < tree'[n][2]
          BY <2>2, <3>1
        <4>2. plan.files[n][2] \in Nat
          BY <2>1, <3>1
        <4> QED BY <2>5, <4>1, <4>2
      <3> QED BY <3>2 DEF Written
    <2>6. Intact'
      <3> SUFFICES ASSUME NEW n \in plan.sel \cap Payload, tree'[n] = plan.files[n]
                   PROVE  /\ \A c \in Control : tree'[c] = plan.files[c]
                          /\ \A m \in Payload : tree'[m] \in {plan.files[m], None}
        BY <1>1 DEF Intact
      <3>1. \A m \in Payload \cup Control : tree'[m] = tree[m]
        BY <2>3, <2>5
      <3> QED BY <1>3, <3>1 DEF SurvivorInv, Intact
    <2> QED BY <2>4, <2>6
  <1> QED BY <1>1, <1>2, <1>3, SelectionFrame DEF SurvivorInv

\* The unlink of a payload name, or of a control name after all payload.
LEMMA SurvivorUnlink ==
  ASSUME NEW t \in Txns, TypeInv, JournalInv, AuthorityInv, SurvivorInv, pc[t] = "unlink", Effect(t),
         UNCHANGED <<keep, prepared>>, \A s \in Txns : ControlLast(s)'
  PROVE  SurvivorInv'
  <1>1. UNCHANGED <<phase, plan, snap>> /\ phase = "planned" /\ file[t] \in plan.sel
    BY DEF prepared, TypeInv, AuthorityInv, Used
  <1>2. file[t] \in Names /\ tree' = [tree EXCEPT ![file[t]] = None] /\ tree \in TreeType
    BY DEF Effect, TypeInv
  <1>3. tree'[file[t]] = None /\ \A n \in Names \ {file[t]} : tree'[n] = tree[n]
    BY <1>2 DEF TreeType, Places
  <1>4. Newer'
    BY <1>1, <1>3 DEF SurvivorInv, Newer, Names
  <1>5. Intact'
    <2> SUFFICES ASSUME NEW n \in plan.sel \cap Payload, tree'[n] = plan.files[n]
                 PROVE  /\ \A c \in Control : tree'[c] = plan.files[c]
                        /\ \A m \in Payload : tree'[m] \in {plan.files[m], None}
      BY <1>1 DEF Intact
    <2>1. n \in Names /\ plan.files[n] # None
      BY <1>1 DEF AuthorityInv, Authority, Names
    <2>2. n # file[t] /\ tree[n] = plan.files[n]
      BY <1>3, <2>1
    <2>3. file[t] \in Payload
      <3> SUFFICES ASSUME file[t] \notin Payload PROVE FALSE
        OBVIOUS
      <3>1. n \in removed[t]
        BY DEF SurvivorInv, ControlLast
      <3>2. PICK g \in gone[t] : g[1] = n
        BY <3>1 DEF JournalInv, Journaled, NamesGone
      <3>3. tree[n] # plan.files[n]
        BY <3>2 DEF AuthorityInv, Used
      <3> QED BY <2>2, <3>3
    <2>4. \A c \in Control : tree[c] = plan.files[c]
      BY <1>1, <2>2 DEF SurvivorInv, Intact
    <2>5. \A m \in Payload : tree[m] \in {plan.files[m], None}
      BY <1>1, <2>2 DEF SurvivorInv, Intact
    <2>6. Payload \cap Control = {}
      BY RetirementConstants
    <2> QED BY <1>3, <2>3, <2>4, <2>5, <2>6 DEF Names
  <1> QED BY <1>1, <1>4, <1>5, SelectionFrame DEF SurvivorInv

LEMMA SurvivorStep ==
  TypeInv /\ JournalInv /\ AuthorityInv /\ SurvivorInv /\ [Next]_vars => SurvivorInv'
  <1> SUFFICES ASSUME TypeInv, JournalInv, AuthorityInv, SurvivorInv, [Next]_vars PROVE SurvivorInv'
    OBVIOUS
  <1>1. CASE \/ CargoBuild
             \/ \E n \in Names : OtherWrite(n)
             \/ \E n, m \in Places : Link(n, m)
    <2>1. PICK W \in SUBSET Places : Written(W)
      BY <1>1, WritesTyped
    <2> QED BY <2>1, SurvivorWrite
  <1>2. CASE WorldChanges \/ UNCHANGED vars
    <2>1. UNCHANGED <<disk, prepared, pc, file, removed>>
      BY <1>2 DEF WorldChanges, Untouched, vars, disk, result
    <2>2. \A t \in Txns : ControlLast(t)'
      BY <2>1 DEF SurvivorInv, ControlLast, prepared
    <2> QED BY <2>1, <2>2, SurvivorFrame
  <1>3. CASE Operation \/ Qualify \/ SavePlan
    <2>1. phase # "planned" /\ UNCHANGED <<tree, keep, pc, file>>
      BY <1>3 DEF Operation, Qualify, SavePlan, disk
    <2>2. \A t \in Txns : pc'[t] = "new"
      BY <2>1 DEF TypeInv
    <2>3. \A t \in Txns : ControlLast(t)'
      BY <2>2 DEF ControlLast
    <2>4. plan = None
      BY <2>1 DEF SurvivorInv
    <2>5. CASE Operation
      BY <2>1, <2>3, <2>4, <2>5, SelectionFrame DEF Operation, SurvivorInv
    <2>6. CASE Qualify
      <3>1. phase' # "planned" /\ plan' = None
        BY <2>1, <2>4, <2>6 DEF Qualify
      <3>2. snap' # None => snap'.sel = Selected(snap.files, snap.links)'
        <4>1. CASE UNCHANGED snap
          BY <2>1, <2>4, <3>1, <4>1, SelectionFrame DEF SurvivorInv
        <4>2. CASE snap' = [files |-> Listed, links |-> Links, world |-> world, sel |-> Selected(Listed, Links)]
          <5>1. snap'.files = Listed /\ snap'.links = Links /\ snap'.sel = Selected(Listed, Links)
            BY <4>2
          <5> QED BY <2>1, <5>1 DEF Selected, Unlinked, Qualified, Metadata, Peers, Present, Provenance
        <4> QED BY <2>6, <4>1, <4>2 DEF Qualify
      <3> QED BY <2>3, <3>1, <3>2 DEF SurvivorInv
    <2>7. CASE SavePlan
      <3>1. snap' = None
        BY <2>7 DEF SavePlan
      <3>2. CASE Listed = snap.files /\ phase' = "planned" /\ plan' = snap
        <4>1. snap # None /\ snap.sel = Selected(snap.files, snap.links)
          BY <2>7 DEF SavePlan, SurvivorInv
        <4>2. plan'.sel = Selected(plan.files, plan.links)'
          BY <2>1, <3>2, <4>1 DEF Selected, Unlinked, Qualified, Metadata, Peers, Present, Provenance
        <4>3. \A n \in Payload \cup Control : tree'[n] = plan'.files[n]
          BY <2>1, <3>2 DEF Listed, Names
        <4>4. Newer' /\ Intact'
          BY <4>3 DEF Newer, Intact
        <4> QED BY <2>3, <3>1, <3>2, <4>2, <4>4 DEF SurvivorInv
      <3>3. CASE phase' = "retained" /\ UNCHANGED plan
        BY <2>3, <2>4, <3>1, <3>3 DEF SurvivorInv
      <3> QED BY <2>7, <3>2, <3>3 DEF SavePlan
    <2> QED BY <1>3, <2>5, <2>6, <2>7
  <1>4. ASSUME NEW t \in Txns, Apply(t) PROVE SurvivorInv'
    <2>1. /\ UNCHANGED <<keep, prepared>> /\ removed \in [Txns -> SUBSET Names]
          /\ \A s \in Txns \ {t} : pc'[s] = pc[s] /\ file'[s] = file[s] /\ removed[s] \subseteq removed'[s]
      <3>1. UNCHANGED <<keep, prepared>> /\ removed \in [Txns -> SUBSET Names]
        BY <1>4 DEF Apply, Begin, Inventory, Lock, NextFile, Unlink, UnlinkFails, Complete, After, Finish,
                    SaveReceipt, Raise, Crash, disk, TypeInv
      <3>2. \A s \in Txns \ {t} : pc'[s] = pc[s] /\ file'[s] = file[s]
        <4>1. pc \in [Txns -> Labels] /\ file \in [Txns -> Names \cup {None}]
          BY DEF TypeInv
        <4>2. \E l \in Labels : Goto(t, l)
          BY <1>4 DEF Apply, Begin, Inventory, Lock, NextFile, Unlink, UnlinkFails, Complete, After, Finish,
                      SaveReceipt, Raise, Crash, Stop, Labels, Working
        <4>3. UNCHANGED file \/ \E n : file' = [file EXCEPT ![t] = n]
          BY <1>4 DEF Apply, Begin, Inventory, Lock, NextFile, Unlink, UnlinkFails, Complete, After, Finish,
                      SaveReceipt, Raise, Crash
        <4> QED BY <4>1, <4>2, <4>3 DEF Goto
      <3>3. \A s \in Txns \ {t} : removed[s] \subseteq removed'[s]
        BY <1>4, <3>1 DEF Apply, Begin, Inventory, Lock, NextFile, Unlink, UnlinkFails, Complete, After,
                          Finish, SaveReceipt, Raise, Crash, result
      <3> QED BY <3>1, <3>2, <3>3
    <2>2. pc'[t] = "unlink" /\ file'[t] \notin Payload => plan.sel \cap Payload \subseteq removed'[t]
      <3>1. CASE NextFile(t)
        <4>1. UNCHANGED removed
          BY <3>1 DEF NextFile
        <4>2. ASSUME NEW n \in Turn(t), file' = [file EXCEPT ![t] = n], n \notin Payload
              PROVE  plan.sel \cap Payload \subseteq removed[t]
          BY <4>2 DEF Turn, Remaining
        <4>3. ASSUME pc'[t] = "unlink"
              PROVE  \E n \in Turn(t) : file' = [file EXCEPT ![t] = n]
          BY <3>1, <4>3 DEF NextFile, Stop, Goto, TypeInv
        <4> QED BY <4>1, <4>2, <4>3 DEF TypeInv
      <3>2. CASE ~NextFile(t)
        <4>1. pc'[t] # "unlink"
          BY <1>4, <3>2 DEF Apply, Begin, Inventory, Lock, Unlink, UnlinkFails, Complete, After, Finish,
                  SaveReceipt, Raise, Crash, Stop, Goto, TypeInv
        <4> QED BY <4>1
      <3> QED BY <3>1, <3>2
    <2>3. \A s \in Txns : ControlLast(s)'
      BY <2>1, <2>2 DEF SurvivorInv, ControlLast, prepared
    <2>4. CASE UNCHANGED disk
      BY <2>1, <2>3, <2>4, SurvivorFrame
    <2>5. CASE pc[t] = "unlink" /\ Effect(t)
      BY <2>1, <2>3, <2>5, SurvivorUnlink
    <2>6. UNCHANGED disk \/ (pc[t] = "unlink" /\ Effect(t))
      BY <1>4 DEF Apply, Begin, Inventory, Lock, NextFile, Unlink, UnlinkFails, Complete, After, Finish,
                  SaveReceipt, Raise, Crash, disk
    <2> QED BY <2>4, <2>5, <2>6
  <1> QED BY <1>1, <1>2, <1>3, <1>4 DEF Next

\* Payload that is still as planned has kept its provenance, and is as selectable
\* as it was unless its file was linked at another name since.
LEMMA SurvivorsSelectable ==
  ASSUME TypeInv, AuthorityInv, SurvivorInv, phase = "planned",
         NEW n \in plan.sel \cap Payload, tree[n] = plan.files[n]
  PROVE  /\ n \in Qualified(Listed)
         /\ NamesOf(tree[n]) \subseteq plan.sel => n \in Unlinked(Listed, Links)
  <1>1. n \in Unlinked(plan.files, plan.links)
    BY RetirementConstants DEF SurvivorInv, Selected, Metadata
  <1>2. plan.files[n] \in Names \X Nat /\ n \in Names /\ tree[n] # None
    BY <1>1 DEF Unlinked, Qualified, Present, TypeInv, Snapshot, Listing, Files
  <1>3. /\ \A c \in Control : tree[c] = plan.files[c]
        /\ \A m \in Payload : tree[m] \in {plan.files[m], None}
    BY DEF SurvivorInv, Intact
  <1>4. \A m \in Names : m \in Places /\ Listed[m] = tree[m] /\ Links[m] = Nlink(tree[m])
    BY DEF Listed, Links, Places
  <1>5. ASSUME NEW m \in Names, m \in Qualified(plan.files), tree[m] = plan.files[m]
        PROVE  m \in Qualified(Listed)
    BY <1>3, <1>4, <1>5 DEF Qualified, Present, Provenance, Names
  <1>6. n \in Qualified(Listed)
    BY <1>1, <1>2, <1>5 DEF Unlinked
  <1>7. ASSUME NamesOf(tree[n]) \subseteq plan.sel PROVE n \in Unlinked(Listed, Links)
    <2>1. plan.sel \subseteq Payload \cup Control /\ plan.sel \subseteq Names
      BY DEF AuthorityInv, Authority, Names
    <2>2. Peers(Listed, n) = NamesOf(tree[n])
      BY <1>2, <1>4, <1>7, <2>1 DEF Peers, Present, NamesOf
    <2>3. ASSUME NEW m \in Peers(Listed, n) PROVE m \in Qualified(Listed)
      <3>1. m \in Names /\ m \in Payload \cup Control /\ tree[m] # None /\ tree[m] = plan.files[n]
        BY <1>2, <1>7, <2>1, <2>2, <2>3 DEF NamesOf
      <3>2. tree[m] = plan.files[m]
        <4> SUFFICES ASSUME tree[m] # plan.files[m] PROVE FALSE
          OBVIOUS
        <4>1. plan.files[n][2] < tree[m][2]
          BY <1>2, <3>1 DEF SurvivorInv, Newer
        <4> QED BY <1>2, <3>1, <4>1
      <3>3. m \in Peers(plan.files, n)
        BY <3>1, <3>2 DEF Peers, Present
      <3> QED BY <1>1, <1>5, <3>1, <3>2, <3>3 DEF Unlinked
    <2>4. Links[n] = Cardinality(Peers(Listed, n))
      BY <1>2, <1>4, <2>2 DEF Nlink
    <2> QED BY <1>6, <2>3, <2>4 DEF Unlinked
  <1> QED BY <1>6, <1>7

\* select_payload and apply(): whatever was removed before a stop or a crash,
\* and whatever was built or linked since, payload that is left as planned has
\* kept its provenance, and a fresh plan takes it unless it was linked elsewhere.
THEOREM SurvivorsAreSelected == Spec => []SurvivorsRequalify
  <1>1. Init => SurvivorInv
    BY DEF Init, SurvivorInv, ControlLast
  <1>2. TypeInv /\ JournalInv /\ AuthorityInv /\ SurvivorInv /\ [Next]_vars => SurvivorInv'
    BY SurvivorStep
  <1>3. RetirementInv /\ SurvivorInv => SurvivorsRequalify
    <2> SUFFICES ASSUME RetirementInv, SurvivorInv, plan # None, NEW n \in plan.sel \cap Payload,
                        Reconciled(n) = "ORIGINAL_CONTENT"
                 PROVE  /\ n \in Qualified(Listed)
                        /\ NamesOf(tree[n]) \subseteq plan.sel => n \in Unlinked(Listed, Links)
      BY DEF SurvivorsRequalify
    <2>1. phase = "planned" /\ tree[n] = plan.files[n]
      BY DEF SurvivorInv, Reconciled
    <2> QED BY <2>1, SurvivorsSelectable DEF RetirementInv
  <1>4. RetirementInv /\ RetirementInv' /\ SurvivorInv /\ [Next]_vars => SurvivorInv'
    BY <1>2 DEF RetirementInv
  <1> QED BY <1>1, <1>3, <1>4, RetirementInductive, PTL DEF Spec
=============================================================================
