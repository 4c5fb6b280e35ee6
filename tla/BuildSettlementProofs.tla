------------------------ MODULE BuildSettlementProofs ------------------------
(***************************************************************************)
(* What a SETTLED build left behind, proved for every number of processes, *)
(* generations and PIDs.                                                   *)
(*                                                                         *)
(* The owner's observations are old when the verdict is given: the streams *)
(* were drained before the scan, the scan came before the probe of the     *)
(* reservation.  They still hold, because what the owner waited to see     *)
(* gone cannot come back: a generation that ended never runs again, and an *)
(* open stream or a held descriptor is only ever inherited.                *)
(***************************************************************************)
EXTENDS BuildSettlement, TLAPS

\* Generations so far.
Born == PIDs \X (1..births)
Root == <<Guard, 1>>

\* The guard's generation holds everything for as long as it runs.
KernelInv ==
  /\ births \in Nat \ {0} /\ DOMAIN proc = PIDs
  /\ \A p \in PIDs : Running(p) =>
       /\ DOMAIN proc[p] = {"birth", "parent", "session", "lease", "out"}
       /\ proc[p].birth \in 1..births
  /\ Alive(Root) => proc[Guard].lease /\ proc[Guard].out /\ proc[Guard].parent = None
  /\ exit = None <=> Alive(Root)
  /\ code # None => exit # None

\* The command ended before the guard could report its success.
ProgramInv ==
  /\ inner # None => inner \in Born
  /\ binding \in {None, inner}
  /\ launched => inner # None
  /\ exit = 0 => launched /\ ~Alive(inner)

\* A generation leaves the tracker only when it is dead.
TrackerInv ==
  /\ listed \subseteq PIDs
  /\ live \subseteq history /\ history \subseteq Born /\ ended \subseteq Born
  /\ EndedStaysEnded
  /\ history # {} => Root \in history
  /\ pc = "register" => history = {} /\ code = None
  /\ pc # "register" /\ history = {} => refused
  /\ \A g \in history : g \in live \/ ~Alive(g)

\* What a drained stream, a released reservation and an empty scan say of
\* every later moment.
ScanInv ==
  /\ eof => ~OutputHeld
  /\ ~locked => ~LeaseHeld
  /\ quiet => \A g \in history \ {Root} : ~Alive(g) \/ (inner # None /\ g = inner)
  /\ verdict = "SETTLED" => pc = "done"
  /\ SettledIsQuiet

SettlementInv == KernelInv /\ ProgramInv /\ TrackerInv /\ ScanInv

----------------------------------------------------------------------------
(* What the processes can do to what was seen.                             *)

\* A generation that runs after a step ran before, and has nothing it had not,
\* or it is new, and has only what somebody had.
Successor(p) ==
  /\ DOMAIN proc'[p] = {"birth", "parent", "session", "lease", "out"}
  /\ \/ /\ Running(p) /\ proc'[p].birth = proc[p].birth
        /\ proc'[p].lease => proc[p].lease
        /\ proc'[p].out => proc[p].out
     \/ /\ births' = births + 1 /\ proc'[p].birth = births'
        /\ p = Guard => code # None
        /\ proc'[p].lease => LeaseHeld
        /\ proc'[p].out => OutputHeld

\* A step of the processes, but for the exit status.
Succession ==
  /\ births' \in {births, births + 1} /\ DOMAIN proc' = PIDs
  /\ \A p \in PIDs : proc'[p] # None => Successor(p)

Processes ==
  \/ \E p \in PIDs : StartInner(p) \/ Detach(p) \/ Exit(p) \/ Unrelated(p)
  \/ \E p, q \in PIDs : Fork(p, q)
  \/ WriteBinding \/ Launch

LEMMA StartSucceeds ==
  ASSUME KernelInv, NEW p \in PIDs, NEW parent, NEW s, NEW l, NEW o, Start(p, parent, s, l, o),
         l => LeaseHeld, o => OutputHeld
  PROVE  Succession /\ (Alive(Root) => proc'[Guard] = proc[Guard]) /\ births' = births + 1
PROOF
  <1>1. /\ births' = births + 1 /\ Free(p)
        /\ proc' = [proc EXCEPT ![p] = [birth |-> births + 1, parent |-> parent,
                                        session |-> s, lease |-> l, out |-> o]]
    BY DEF Start
  <1>2. \A q \in PIDs : q # p => proc'[q] = proc[q]  BY <1>1
  <1>3. proc'[p] = [birth |-> births + 1, parent |-> parent, session |-> s, lease |-> l, out |-> o]
    BY <1>1 DEF KernelInv
  <1>4. Successor(p)  BY <1>1, <1>3 DEF Successor, Free
  <1>5. ASSUME NEW q \in PIDs, q # p, proc'[q] # None  PROVE Successor(q)
    BY <1>2, <1>5 DEF Successor, KernelInv, Running
  <1>6. Alive(Root) => p # Guard  BY <1>1 DEF Free, Alive, Root
  <1>7. DOMAIN proc' = PIDs  BY <1>1 DEF KernelInv
  <1>8. QED BY <1>1, <1>2, <1>4, <1>5, <1>6, <1>7, SettlementConstants DEF Succession

LEMMA ProcessesSucceed ==
  ASSUME KernelInv, Processes
  PROVE  /\ Succession
         /\ Alive(Root) => proc'[Guard] = proc[Guard] \/ (exit' # None /\ proc'[Guard] = None)
         /\ exit' # exit => proc'[Guard] = None /\ Alive(Root)
         /\ UNCHANGED <<late, pc, tracker, listed, observed, refused, verdict>>
PROOF
  <1> USE SettlementConstants
  <1>1. ASSUME NEW p \in PIDs, StartInner(p)
        PROVE  Succession /\ (Alive(Root) => proc'[Guard] = proc[Guard])
    <2>1. proc[Guard].lease /\ proc[Guard].out /\ Running(Guard)
      BY <1>1 DEF StartInner, KernelInv, Alive, Root
    <2>2. LeaseHeld /\ OutputHeld  BY <2>1 DEF LeaseHeld, OutputHeld
    <2>3. QED BY <1>1, <2>2, StartSucceeds DEF StartInner
  <1>2. ASSUME NEW p \in PIDs, NEW q \in PIDs, Fork(p, q)
        PROVE  Succession /\ (Alive(Root) => proc'[Guard] = proc[Guard])
    <2>1. Start(q, p, proc[p].session, proc[p].lease, proc[p].out) /\ Running(p)
      BY <1>2 DEF Fork
    <2>2. (proc[p].lease => LeaseHeld) /\ (proc[p].out => OutputHeld)
      BY <2>1 DEF LeaseHeld, OutputHeld
    <2>3. QED BY <2>1, <2>2, StartSucceeds
  <1>3. ASSUME NEW p \in PIDs, Unrelated(p)
        PROVE  Succession /\ (Alive(Root) => proc'[Guard] = proc[Guard])
    BY <1>3, StartSucceeds DEF Unrelated
  <1>4. ASSUME NEW p \in PIDs, Detach(p)
        PROVE  Succession /\ (Alive(Root) => proc'[Guard] = proc[Guard])
    <2>1. /\ Running(p) /\ births' = births /\ Gen(p) # Root
          /\ \/ proc' = [proc EXCEPT ![p].session = FALSE]
             \/ proc' = [proc EXCEPT ![p].lease = FALSE]
             \/ proc' = [proc EXCEPT ![p].out = FALSE]
      BY <1>4 DEF Detach, Root
    <2>2. DOMAIN proc' = PIDs /\ \A q \in PIDs : q # p => proc'[q] = proc[q]
      BY <2>1 DEF KernelInv
    <2>3. Successor(p)
      BY <2>1 DEF Successor, KernelInv
    <2>4. ASSUME NEW q \in PIDs, q # p, proc'[q] # None  PROVE Successor(q)
      BY <2>2, <2>4 DEF Successor, KernelInv, Running
    <2>5. Alive(Root) => p # Guard  BY <2>1 DEF Alive, Root, Gen
    <2>6. QED BY <2>1, <2>2, <2>3, <2>4, <2>5 DEF Succession
  <1>5. ASSUME NEW p \in PIDs, Exit(p)
        PROVE  /\ Succession
               /\ Alive(Root) => proc'[Guard] = proc[Guard] \/ (exit' # None /\ proc'[Guard] = None)
               /\ exit' # exit => proc'[Guard] = None /\ Alive(Root)
    <2>1. /\ births' = births /\ Running(p)
          /\ proc' = [q \in PIDs |-> IF q = p THEN None
                             ELSE IF Running(q) /\ proc[q].parent = p
                             THEN [proc[q] EXCEPT !.parent = None] ELSE proc[q]]
      BY <1>5 DEF Exit
    <2>2. ASSUME NEW q \in PIDs, proc'[q] # None  PROVE Successor(q)
      <3>1. q # p /\ Running(q)  BY <2>1, <2>2 DEF Running
      <3>2. proc'[q] \in {proc[q], [proc[q] EXCEPT !.parent = None]}  BY <2>1, <3>1
      <3>3. /\ DOMAIN proc'[q] = DOMAIN proc[q] /\ proc'[q].birth = proc[q].birth
            /\ proc'[q].lease = proc[q].lease /\ proc'[q].out = proc[q].out
        BY <3>1, <3>2 DEF KernelInv
      <3>4. QED BY <3>1, <3>3 DEF Successor, KernelInv
    <2>3. Alive(Root) /\ p # Guard => proc'[Guard] = proc[Guard]
      BY <2>1 DEF KernelInv
    <2>4. Alive(Root) /\ p = Guard => exit' # None /\ proc'[Guard] = None
      BY <1>5, <2>1 DEF Exit, Statuses, Alive, Root, Gen
    <2>5. exit' # exit => proc'[Guard] = None /\ Alive(Root)
      BY <1>5, <2>1 DEF Exit, Alive, Root, Gen
    <2>6. QED BY <2>1, <2>2, <2>3, <2>4, <2>5 DEF Succession
  <1>6. CASE WriteBinding \/ Launch
    BY <1>6 DEF WriteBinding, Launch, kernel, Succession, Successor, KernelInv, Running
  <1>7. (Alive(Root) => proc'[Guard] = proc[Guard] \/ (exit' # None /\ proc'[Guard] = None)) /\ Succession
    BY <1>1, <1>2, <1>3, <1>4, <1>5, <1>6, Zenon DEF Processes, WriteBinding, Launch, kernel
  <1>8. exit' # exit => proc'[Guard] = None /\ Alive(Root)
    BY <1>5 DEF Processes, StartInner, Start, Fork, Unrelated, Detach, WriteBinding, Launch, kernel
  <1>9. UNCHANGED <<late, pc, tracker, listed, observed, refused, verdict>>
    BY DEF Processes, StartInner, Start, Fork, Unrelated, Detach, Exit, WriteBinding, Launch, kernel
  <1>10. QED BY <1>7, <1>8, <1>9

\* What is dead stays dead; a stream or a descriptor nobody has is not had again.
LEMMA GoneStaysGone ==
  ASSUME KernelInv, Succession
  PROVE  /\ \A g \in Born : ~Alive(g) => ~Alive(g)'
         /\ ~LeaseHeld => ~LeaseHeld'
         /\ ~OutputHeld => ~OutputHeld'
         /\ Born \subseteq Born'
PROOF
  <1>1. \A p \in PIDs : Running(p)' => Successor(p)  BY DEF Succession, Running
  <1>2. ASSUME NEW g \in Born, Alive(g)'  PROVE Alive(g)
    <2>1. g[1] \in PIDs /\ g[2] \in 1..births  BY DEF Born
    <2>2. Successor(g[1]) /\ proc'[g[1]].birth = g[2]  BY <1>1, <1>2, <2>1 DEF Alive
    <2>3. QED BY <2>1, <2>2 DEF Successor, Alive, KernelInv
  <1>3. ~LeaseHeld => ~LeaseHeld'  BY <1>1 DEF LeaseHeld, Successor
  <1>4. ~OutputHeld => ~OutputHeld'  BY <1>1 DEF OutputHeld, Successor
  <1>5. Born \subseteq Born'  BY DEF Born, Succession, KernelInv
  <1>6. QED BY <1>2, <1>3, <1>4, <1>5

LEMMA KernelProcesses ==
  ASSUME KernelInv, Processes
  PROVE  KernelInv'
PROOF
  <1> USE SettlementConstants
  <1>1. /\ Succession /\ UNCHANGED code
        /\ Alive(Root) => proc'[Guard] = proc[Guard] \/ (exit' # None /\ proc'[Guard] = None)
        /\ exit' # exit => proc'[Guard] = None /\ Alive(Root)
    BY ProcessesSucceed DEF observed
  <1>2. births' \in Nat \ {0} /\ DOMAIN proc' = PIDs  BY <1>1 DEF Succession, KernelInv
  <1>3. ASSUME NEW p \in PIDs, Running(p)'
        PROVE  /\ DOMAIN proc'[p] = {"birth", "parent", "session", "lease", "out"}
               /\ proc'[p].birth \in 1..births'
    BY <1>1, <1>3 DEF Succession, Successor, Running, KernelInv
  <1>4. Root \in Born  BY DEF Root, Born, KernelInv
  <1>5. Alive(Root)' => Alive(Root)  BY <1>1, <1>4, GoneStaysGone DEF Root
  <1>6. Alive(Root)' => proc'[Guard] = proc[Guard]
    BY <1>1, <1>5 DEF Alive, Root, Running
  <1>7. exit' = None <=> Alive(Root)'
    BY <1>1, <1>5, <1>6 DEF KernelInv, Alive, Root, Running
  <1>8. code' # None => exit' # None
    BY <1>1 DEF KernelInv
  <1>9. Alive(Root)' => proc'[Guard].lease /\ proc'[Guard].out /\ proc'[Guard].parent = None
    BY <1>5, <1>6 DEF KernelInv
  <1>10. QED BY <1>2, <1>3, <1>7, <1>8, <1>9 DEF KernelInv

LEMMA ProgramProcesses ==
  ASSUME KernelInv, ProgramInv, Processes
  PROVE  ProgramInv' /\ (inner # None => inner' = inner)
PROOF
  <1> USE SettlementConstants
  <1>1. Succession /\ (exit' # exit => Alive(Root))  BY ProcessesSucceed
  <1>2. Born \subseteq Born' /\ \A g \in Born : ~Alive(g) => ~Alive(g)'
    BY <1>1, GoneStaysGone
  <1>3. ASSUME NEW p \in PIDs, StartInner(p)
        PROVE  ProgramInv' /\ (inner # None => inner' = inner)
    <2>1. /\ inner = None /\ inner' = <<p, births + 1>> /\ births' = births + 1
          /\ UNCHANGED <<binding, launched, exit>>
      BY <1>3 DEF StartInner, Start
    <2>2. inner' \in Born'  BY <2>1 DEF Born, KernelInv
    <2>3. QED BY <2>1, <2>2 DEF ProgramInv
  <1>4. ASSUME ~\E p \in PIDs : StartInner(p)
        PROVE  ProgramInv' /\ inner' = inner
    <2>1. inner' = inner /\ binding' \in {binding, inner} /\ (launched => launched')
          /\ (launched' => inner # None)
      BY <1>4 DEF Processes, Detach, Exit, Unrelated, Fork, Start, WriteBinding, Launch, program, ProgramInv
    <2>2. exit' = 0 => launched /\ ~Alive(inner)
      <3>1. CASE exit' = exit  BY <3>1 DEF ProgramInv
      <3>2. CASE exit' # exit
        <4>1. PICK p \in PIDs : Exit(p)
          BY <1>4, <3>2 DEF Processes, Detach, Unrelated, Fork, Start, WriteBinding, Launch, kernel
        <4>2. QED BY <3>2, <4>1 DEF Exit, Statuses
      <3>3. QED BY <3>1, <3>2
    <2>3. exit' = 0 => launched' /\ ~Alive(inner)'
      BY <1>2, <2>1, <2>2 DEF ProgramInv
    <2>4. QED BY <1>2, <2>1, <2>3 DEF ProgramInv
  <1>5. QED BY <1>3, <1>4

LEMMA TrackerProcesses ==
  ASSUME KernelInv, TrackerInv, Processes
  PROVE  TrackerInv'
PROOF
  <1>1. Succession /\ UNCHANGED <<pc, history, live, ended, listed, code, refused>>
    BY ProcessesSucceed DEF tracker, observed
  <1>2. Born \subseteq Born' /\ \A g \in Born : ~Alive(g) => ~Alive(g)'
    BY <1>1, GoneStaysGone
  <1>3. EndedStaysEnded'
    BY <1>1, <1>2 DEF TrackerInv, EndedStaysEnded
  <1>4. \A g \in history : g \in live \/ ~Alive(g)'
    BY <1>2 DEF TrackerInv
  <1>5. QED BY <1>1, <1>2, <1>3, <1>4 DEF TrackerInv

LEMMA ScanProcesses ==
  ASSUME KernelInv, ProgramInv, TrackerInv, ScanInv, Processes
  PROVE  ScanInv'
PROOF
  <1>1. Succession /\ UNCHANGED <<pc, history, eof, locked, quiet, verdict>>
    BY ProcessesSucceed DEF tracker, observed
  <1>2. /\ \A g \in Born : ~Alive(g) => ~Alive(g)'
        /\ ~LeaseHeld => ~LeaseHeld'
        /\ ~OutputHeld => ~OutputHeld'
    BY <1>1, GoneStaysGone
  <1>3. history \subseteq Born  BY DEF TrackerInv
  <1>4. SettledIsQuiet'
    <2>1. \A g \in history : ~Alive(g) => ~Alive(g)'  BY <1>2, <1>3
    <2>2. QED BY <1>1, <1>2, <2>1 DEF ScanInv, SettledIsQuiet
  <1>5. quiet => \A g \in history \ {Root} : ~Alive(g)' \/ (inner' # None /\ g = inner')
    <2>1. ASSUME quiet, NEW g \in history, g # Root  PROVE ~Alive(g)' \/ (inner' # None /\ g = inner')
      <3>1. ~Alive(g) \/ (inner # None /\ g = inner)  BY <2>1 DEF ScanInv
      <3>2. inner # None => inner' = inner  BY ProgramProcesses
      <3>3. QED BY <1>2, <1>3, <2>1, <3>1, <3>2
    <2>2. QED BY <2>1
  <1>6. QED BY <1>1, <1>2, <1>4, <1>5 DEF ScanInv

----------------------------------------------------------------------------
(* What the owner does.                                                    *)

\* The generation the tracker knows at the root is the guard's.
LEMMA RootKnown ==
  ASSUME KernelInv, TrackerInv, history # {}, NEW g, ValidGeneration(g), g[1] = Guard
  PROVE  g = Root
PROOF
  <1>1. Root \in history  BY DEF TrackerInv
  <1>2. \A h \in history : h[1] = Guard => h[2] = 1
    BY DEF TrackerInv, EndedStaysEnded
  <1>3. Root \in Known(Guard)  BY <1>1, <1>2 DEF Known, Root
  <1>4. QED BY <1>3 DEF ValidGeneration

\* A complete scan.
Scanned(family, missing) ==
  /\ history # {}
  /\ \A g \in family : ValidGeneration(g) /\ g \in Born /\ Alive(g)
  /\ Ended(missing)
  /\ missing = {g \in live : \A f \in family : f[1] # g[1]}
  /\ history' = history \cup family /\ live' = family /\ ended' = ended \cup missing
  /\ quiet' = (family = {}) /\ pc' = "acknowledge" /\ UNCHANGED refused

LEMMA ReadScans ==
  ASSUME KernelInv, TrackerInv, Read
  PROVE  \/ \E family, missing : Scanned(family, missing)
         \/ refused' = TRUE /\ pc' = "poll" /\ UNCHANGED <<tracker, quiet>>
PROOF
  <1> DEFINE table   == {p \in listed : Running(p)}
             family  == {Gen(p) : p \in Family(table)}
             missing == {g \in live : \A f \in family : f[1] # g[1]}
  <1>1. \A g \in family : g \in Born /\ Alive(g)
    BY DEF Family, Gen, Alive, Born, KernelInv, TrackerInv, Running
  <1>2. CASE history # {} /\ (\A g \in family : ValidGeneration(g)) /\ Ended(missing)
    <2>1. /\ history' = history \cup family /\ live' = family /\ ended' = ended \cup missing
          /\ quiet' = (family = {}) /\ pc' = "acknowledge" /\ UNCHANGED refused
      BY <1>2 DEF Read
    <2>2. Scanned(family, missing)  BY <1>1, <1>2, <2>1 DEF Scanned
    <2>3. QED BY <2>2
  <1>3. CASE ~(history # {} /\ (\A g \in family : ValidGeneration(g)) /\ Ended(missing))
    BY <1>3 DEF Read
  <1>4. QED BY <1>2, <1>3

\* A step of the owner changes nothing it watches.
LEMMA OwnerFrame ==
  ASSUME Owner \/ Raise \/ Deadline \/ UNCHANGED vars
  PROVE  UNCHANGED <<proc, births, exit, inner, binding, launched>>
PROOF BY DEF Owner, Register, Select, Read, Acknowledge, Lease, Poll, Raise, Deadline, vars, kernel, program

LEMMA KernelOwner ==
  ASSUME KernelInv, TrackerInv, Owner \/ Raise \/ Deadline \/ UNCHANGED vars
  PROVE  KernelInv' /\ (ProgramInv => ProgramInv')
PROOF
  <1>1. UNCHANGED <<proc, births, exit, inner, binding, launched>>  BY OwnerFrame
  <1>2. code' \in {code, exit}
    BY DEF Owner, Register, Select, Read, Acknowledge, Lease, Poll, Raise, Deadline, vars, observed
  <1>3. KernelInv'
    BY <1>1, <1>2 DEF KernelInv, Running, Alive, Root
  <1>4. ProgramInv => ProgramInv'
    BY <1>1 DEF ProgramInv, Born, Alive, Running
  <1>5. QED BY <1>3, <1>4

LEMMA TrackerOwner ==
  ASSUME KernelInv, ProgramInv, TrackerInv, Owner \/ Raise \/ Deadline \/ UNCHANGED vars
  PROVE  TrackerInv'
PROOF
  <1> USE SettlementConstants
  <1>1. \A g : Alive(g) <=> Alive(g)'  BY OwnerFrame DEF Alive, Running
  <1>2. Born' = Born  BY OwnerFrame DEF Born
  <1>3. CASE Register
    <2>1. history = {} /\ pc' = "select" /\ UNCHANGED <<ended, listed, code>>
      BY <1>3 DEF Register, TrackerInv, observed
    <2>2. CASE Running(Guard) /\ exit = None
      <3>1. Gen(Guard) = Root /\ Alive(Root)  BY <2>2 DEF KernelInv, Gen, Root, Alive
      <3>2. history' = {Root} /\ live' = {Root} /\ UNCHANGED refused
        BY <1>3, <2>2, <3>1 DEF Register
      <3>3. Root \in Born  BY DEF Root, Born, KernelInv
      <3>4. QED BY <1>1, <1>2, <2>1, <3>2, <3>3 DEF TrackerInv, EndedStaysEnded, Root
    <2>3. CASE ~(Running(Guard) /\ exit = None)
      BY <1>1, <1>2, <1>3, <2>1, <2>3 DEF Register, TrackerInv, EndedStaysEnded
    <2>4. QED BY <2>2, <2>3
  <1>4. CASE Read
    <2>1. listed' = {} /\ UNCHANGED code /\ pc = "read"  BY <1>4 DEF Read
    <2>2. CASE refused' = TRUE /\ pc' = "poll" /\ UNCHANGED <<tracker, quiet>>
      BY <1>1, <1>2, <2>1, <2>2 DEF TrackerInv, EndedStaysEnded, tracker
    <2>3. ASSUME NEW family, NEW missing, Scanned(family, missing)  PROVE TrackerInv'
      <3>1. history' \subseteq Born  BY <2>3 DEF Scanned, TrackerInv
      <3>2. ASSUME NEW g \in missing  PROVE ~Alive(g) /\ g \in live
        BY <2>3 DEF Scanned, Ended
      <3>3. ASSUME NEW g \in history'  PROVE g \in live' \/ ~Alive(g)
        <4>1. CASE g \in family  BY <2>3, <4>1 DEF Scanned
        <4>2. CASE g \notin family /\ g \in live
          <5>1. CASE \A f \in family : f[1] # g[1]  BY <2>3, <3>2, <4>2, <5>1 DEF Scanned
          <5>2. CASE \E f \in family : f[1] = g[1]
            <6>1. PICK f \in family : f[1] = g[1]  BY <5>2
            <6>2. Alive(f) /\ f \in Born /\ g \in Born /\ f # g
              BY <2>3, <3>1, <4>2, <6>1 DEF Scanned
            <6>3. f[2] # g[2]  BY <6>1, <6>2 DEF Born
            <6>4. QED BY <6>1, <6>2, <6>3 DEF Alive
          <5>3. QED BY <5>1, <5>2
        <4>3. CASE g \notin family /\ g \notin live
          BY <2>3, <3>3, <4>3 DEF Scanned, TrackerInv
        <4>4. QED BY <4>1, <4>2, <4>3
      <3>4. ASSUME NEW g \in history', g[1] = Guard  PROVE g[2] = 1
        <4>1. CASE g \in history  BY <3>4, <4>1 DEF TrackerInv, EndedStaysEnded
        <4>2. CASE g \in family  BY <2>3, <3>4, <4>2, RootKnown DEF Scanned, Root
        <4>3. QED BY <2>3, <3>4, <4>1, <4>2 DEF Scanned
      <3>5. ended' \subseteq Born /\ \A g \in ended' : ~Alive(g)
        <4>1. ASSUME NEW g \in missing  PROVE g \in Born
          <5>1. g \in live  BY <3>2
          <5>2. QED BY <5>1 DEF TrackerInv
        <4>2. QED BY <2>3, <3>2, <4>1 DEF Scanned, TrackerInv, EndedStaysEnded
      <3>6. Root \in history' /\ history' # {}  BY <2>3 DEF Scanned, TrackerInv
      <3>7. pc' = "acknowledge"  BY <2>3 DEF Scanned
      <3>8. EndedStaysEnded'  BY <1>1, <3>4, <3>5 DEF EndedStaysEnded
      <3>9. live' \subseteq history'  BY <2>3 DEF Scanned
      <3>10. QED BY <1>1, <1>2, <2>1, <3>1, <3>3, <3>5, <3>6, <3>7, <3>8, <3>9 DEF TrackerInv
    <2>4. QED BY <1>4, <2>2, <2>3, ReadScans
  <1>5. CASE Acknowledge
    <2>1. pc = "acknowledge" /\ pc' \in {"lease", "poll"} /\ UNCHANGED <<ended, listed, code>>
          /\ (refused => refused')
      BY <1>5 DEF Acknowledge
    <2>2. CASE UNCHANGED <<history, live>>
      BY <1>1, <1>2, <2>1, <2>2 DEF TrackerInv, EndedStaysEnded
    <2>3. CASE /\ history' = history \cup {binding} /\ live' = live \cup {binding}
               /\ Registered /\ ~refused /\ binding # None
      <3>1. binding \in Born  BY <2>3 DEF ProgramInv
      <3>2. history # {}  BY <2>1, <2>3 DEF TrackerInv
      <3>3. binding[1] = Guard => binding = Root
        BY <2>3, <3>2, RootKnown DEF Registered
      <3>4. EndedStaysEnded'
        BY <1>1, <2>1, <2>3, <3>3 DEF TrackerInv, EndedStaysEnded, Root
      <3>5. QED BY <1>1, <1>2, <2>1, <2>3, <3>1, <3>2, <3>4 DEF TrackerInv
    <2>4. QED BY <1>5, <2>2, <2>3 DEF Acknowledge
  <1>6. CASE Select \/ Lease \/ Poll \/ Raise \/ Deadline \/ UNCHANGED vars
    <2>1. /\ UNCHANGED <<history, live, ended>> /\ listed' \subseteq PIDs
          /\ (refused => refused') /\ (pc' = "register" <=> pc = "register")
          /\ pc = "register" => UNCHANGED code
      BY <1>6 DEF Select, Lease, Poll, Raise, Deadline, vars, tracker, observed, TrackerInv
    <2>2. QED BY <1>1, <1>2, <2>1 DEF TrackerInv, EndedStaysEnded
  <1>7. QED BY <1>3, <1>4, <1>5, <1>6 DEF Owner

LEMMA ScanOwner ==
  ASSUME KernelInv, ProgramInv, TrackerInv, ScanInv, Owner \/ Raise \/ Deadline \/ UNCHANGED vars
  PROVE  ScanInv'
PROOF
  <1> USE SettlementConstants
  <1>1. /\ UNCHANGED inner
        /\ \A g : Alive(g) <=> Alive(g)'
        /\ LeaseHeld' = LeaseHeld /\ OutputHeld' = OutputHeld
    BY OwnerFrame DEF Alive, Running, LeaseHeld, OutputHeld
  <1>2. ASSUME pc # "done", UNCHANGED verdict
        PROVE  (verdict' = "SETTLED" => pc' = "done") /\ SettledIsQuiet'
    BY <1>2 DEF ScanInv, SettledIsQuiet
  <1>3. CASE Register
    <2>1. UNCHANGED <<eof, locked, quiet, verdict>> /\ pc # "done"
      BY <1>3 DEF Register, observed
    <2>2. history' \subseteq {Root}
      BY <1>3 DEF Register, TrackerInv, KernelInv, Gen, Root, Alive
    <2>3. QED BY <1>1, <1>2, <2>1, <2>2 DEF ScanInv
  <1>4. CASE Select
    <2>1. /\ UNCHANGED <<history, locked, quiet, verdict>> /\ pc # "done"
          /\ eof' = ~OutputHeld
      BY <1>4 DEF Select, tracker
    <2>2. QED BY <1>1, <1>2, <2>1 DEF ScanInv
  <1>5. CASE Read
    <2>1. UNCHANGED <<eof, locked, verdict>> /\ pc # "done"  BY <1>5 DEF Read
    <2>2. CASE UNCHANGED <<tracker, quiet>>
      BY <1>1, <1>2, <2>1, <2>2 DEF ScanInv, tracker
    <2>3. ASSUME NEW family, NEW missing, Scanned(family, missing), quiet'
          PROVE  \A g \in history' : ~Alive(g)
      <3>1. family = {}  BY <2>3 DEF Scanned
      <3>2. history' = history /\ missing = live  BY <2>3, <3>1 DEF Scanned
      <3>3. \A g \in live : ~Alive(g)  BY <2>3, <3>2 DEF Scanned, Ended
      <3>4. QED BY <3>2, <3>3 DEF TrackerInv
    <2>4. CASE \E family, missing : Scanned(family, missing)
      <3>1. quiet' => \A g \in history' \ {Root} : ~Alive(g)'
        BY <1>1, <2>3, <2>4
      <3>2. QED BY <1>1, <1>2, <2>1, <3>1 DEF ScanInv
    <2>5. QED BY <1>5, <2>2, <2>4, ReadScans
  <1>6. CASE Acknowledge
    <2>1. UNCHANGED <<eof, locked, quiet, verdict>> /\ pc # "done"  BY <1>6 DEF Acknowledge
    <2>2. \A g \in history' : g \in history \/ (inner # None /\ g = inner)
      BY <1>6 DEF Acknowledge, ProgramInv
    <2>3. QED BY <1>1, <1>2, <2>1, <2>2 DEF ScanInv
  <1>7. CASE Lease
    <2>1. /\ UNCHANGED <<history, eof, quiet, verdict>> /\ pc # "done"
          /\ locked' = (~acked \/ LeaseHeld)
      BY <1>7 DEF Lease, tracker
    <2>2. QED BY <1>1, <1>2, <2>1 DEF ScanInv
  <1>8. CASE Poll
    <2>1. UNCHANGED <<history, eof, locked, quiet>> /\ pc = "poll"  BY <1>8 DEF Poll, tracker
    <2>2. CASE UNCHANGED verdict
      BY <1>1, <1>2, <2>1, <2>2 DEF ScanInv
    <2>3. ASSUME NEW no, Over(exit, no), pc' = "done",
                 verdict' = IF Settled(exit, no) THEN "SETTLED" ELSE "UNPROVED"
          PROVE  ScanInv'
      <3>1. CASE ~Settled(exit, no)
        <4>1. verdict' # "SETTLED"  BY <2>3, <3>1
        <4>2. QED BY <1>1, <2>1, <4>1 DEF ScanInv, SettledIsQuiet
      <3>2. CASE Settled(exit, no)
        <4>1. exit = 0 /\ quiet /\ ~locked /\ eof  BY <2>3, <3>2 DEF Settled, Over
        <4>2. ~OutputHeld /\ ~LeaseHeld  BY <4>1 DEF ScanInv
        <4>3. ~Alive(inner) /\ ~Alive(Root)  BY <4>1 DEF ProgramInv, KernelInv
        <4>4. \A g \in history : ~Alive(g)  BY <4>1, <4>3 DEF ScanInv
        <4>5. QED BY <1>1, <2>1, <2>3, <4>2, <4>4 DEF ScanInv, SettledIsQuiet
      <3>3. QED BY <3>1, <3>2
    <2>4. QED BY <1>8, <2>2, <2>3 DEF Poll
  <1>9. CASE Raise \/ Deadline \/ UNCHANGED vars
    <2>1. /\ UNCHANGED <<history, eof, locked, quiet, verdict>>
          /\ pc = "done" => pc' = "done"
      BY <1>9 DEF Raise, Deadline, vars, tracker, observed
    <2>2. SettledIsQuiet'  BY <1>1, <2>1 DEF ScanInv, SettledIsQuiet
    <2>3. QED BY <1>1, <2>1, <2>2 DEF ScanInv
  <1>10. QED BY <1>3, <1>4, <1>5, <1>6, <1>7, <1>8, <1>9 DEF Owner

----------------------------------------------------------------------------
(* The invariant, and what follows.                                        *)

LEMMA SettlementInit == Init => SettlementInv
PROOF
  <1> SUFFICES ASSUME Init  PROVE SettlementInv  OBVIOUS
  <1> USE SettlementConstants
  <1> DEFINE guard == [birth |-> 1, parent |-> None, session |-> TRUE, lease |-> TRUE, out |-> TRUE]
  <1>1. guard \in Process  BY DEF Process
  <1>2. /\ proc[Guard] = guard /\ guard # None
        /\ \A p \in PIDs : p # Guard => proc[p] = None
    BY <1>1 DEF Init
  <1>3. Alive(Root)  BY <1>2 DEF Alive, Running, Root
  <1>4. KernelInv
    BY <1>2, <1>3 DEF Init, KernelInv, Running
  <1>5. ProgramInv  BY DEF Init, ProgramInv
  <1>6. TrackerInv  BY DEF Init, TrackerInv, EndedStaysEnded
  <1>7. ScanInv  BY DEF Init, ScanInv, SettledIsQuiet
  <1>8. QED BY <1>4, <1>5, <1>6, <1>7 DEF SettlementInv

LEMMA SettlementKept == SettlementInv /\ [Next]_vars => SettlementInv'
PROOF
  <1> SUFFICES ASSUME SettlementInv, [Next]_vars  PROVE SettlementInv'  OBVIOUS
  <1>1. Processes \/ Owner \/ Raise \/ Deadline \/ UNCHANGED vars
    BY DEF Next, Build, Processes
  <1>2. CASE Processes
    BY <1>2, KernelProcesses, ProgramProcesses, TrackerProcesses, ScanProcesses DEF SettlementInv
  <1>3. CASE Owner \/ Raise \/ Deadline \/ UNCHANGED vars
    BY <1>3, KernelOwner, TrackerOwner, ScanOwner DEF SettlementInv
  <1>4. QED BY <1>1, <1>2, <1>3

\* The invariant of an observed build.
THEOREM SettlementIsSound == Spec => []SettlementInv
PROOF BY SettlementInit, SettlementKept, PTL DEF Spec

\* observe(): a build called SETTLED has no process left that holds a stream
\* or the reservation, and none of the generations the tracker ever recorded.
THEOREM SettledLeavesNothing == Spec => []SettledIsQuiet
PROOF
  <1>1. SettlementInv => SettledIsQuiet  BY DEF SettlementInv, ScanInv
  <1>2. QED BY <1>1, SettlementIsSound, PTL

\* Tracker.scan: what it recorded as ended never runs again, whatever process
\* takes the PID, and the root PID stands for one generation.
THEOREM EndedIsFinal == Spec => []EndedStaysEnded
PROOF
  <1>1. SettlementInv => EndedStaysEnded  BY DEF SettlementInv, TrackerInv
  <1>2. QED BY <1>1, SettlementIsSound, PTL
=============================================================================
