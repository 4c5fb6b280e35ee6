--------------------------- MODULE BuildSettlement ---------------------------
(***************************************************************************)
(* Observed settlement of one guarded build: scripts/build_settlement.py   *)
(* and the inner side of scripts/build-and-retire.py.                      *)
(*                                                                         *)
(* The owner starts `disk-guard run`, which starts the inner program with  *)
(* an inherited reservation descriptor.  The inner program names its own   *)
(* process generation in reservation-binding.json, waits for the owner's   *)
(* acknowledgement and only then becomes the build command.  The owner     *)
(* drains the output streams, scans the process table and probes the       *)
(* reservation lock until nothing it knows of is left, and calls the build *)
(* SETTLED or leaves the cache alone.  It shares no memory with what it    *)
(* watches: processes fork, leave the session, close descriptors and exit  *)
(* between any two of its reads, and a freed PID is used again.            *)
(*                                                                         *)
(* Abstractions: a birth time is the number of the generation; both output *)
(* streams are one; the identity checks of the reservation file and every  *)
(* other raised error are the action Raise.  disk-guard, the kernel and    *)
(* the build itself are external.                                          *)
(***************************************************************************)
EXTENDS Naturals, FiniteSets

CONSTANTS
  PIDs,        \* process identifiers the kernel hands out
  Guard,       \* the PID of the child the owner started
  MaxBirths,   \* bound: process generations in a behaviour
  None

\* A process: its birth, its parent's PID, and what it inherited and still
\* has: the guard's session, the reservation descriptor, an output stream.
Process == [birth : 1..MaxBirths, parent : PIDs \cup {None},
            session : BOOLEAN, lease : BOOLEAN, out : BOOLEAN]

ASSUME SettlementConstants ==
  /\ Guard \in PIDs /\ None \notin PIDs \cup Nat \cup Process \cup {"SETTLED"}
  /\ MaxBirths \in Nat \ {0}

VARIABLES
  proc,      \* kernel: PID |-> the generation running there, or None
  births,    \* kernel: generations so far
  exit,      \* kernel: exit status of the guard, None while it runs
  late,      \* clock: the settlement deadline has passed
  inner,     \* generation of the inner program, once it is started
  binding,   \* reservation-binding.json: a generation, or None
  launched,  \* the inner program became the build command
  pc,        \* where the owner is in its loop
  history,   \* owner: generations the tracker ever held
  live,      \* owner: tracker.live
  ended,     \* owner: tracker.ended
  listed,    \* owner: PIDs of the population being read
  quiet,     \* owner: the last complete scan returned no generation
  locked,    \* owner: the last probe found the reservation locked
  eof,       \* owner: every stream is drained and closed
  acked,     \* owner: launch-acknowledgement.json is written
  code,      \* owner: exit code the last poll returned
  refused,   \* owner: an error was recorded, which nothing takes back
  verdict    \* settlement.json: its status, None until it is written

kernel   == <<proc, births, exit, late>>
program  == <<inner, binding, launched>>
tracker  == <<history, live, ended>>
observed == <<quiet, locked, eof, acked, code>>
vars == <<kernel, program, pc, tracker, listed, observed, refused, verdict>>

Generations == PIDs \X (1..MaxBirths)

Running(p)  == proc[p] # None
Gen(p)      == <<p, proc[p].birth>>
Alive(g)    == Running(g[1]) /\ proc[g[1]].birth = g[2]
LeaseHeld   == \E p \in PIDs : Running(p) /\ proc[p].lease
OutputHeld  == \E p \in PIDs : Running(p) /\ proc[p].out

Init ==
  /\ proc = [p \in PIDs |-> IF p = Guard
                            THEN [birth |-> 1, parent |-> None, session |-> TRUE,
                                  lease |-> TRUE, out |-> TRUE]
                            ELSE None]
  /\ births = 1 /\ exit = None /\ late = FALSE
  /\ inner = None /\ binding = None /\ launched = FALSE
  /\ pc = "register"
  /\ history = {} /\ live = {} /\ ended = {} /\ listed = {}
  /\ quiet = TRUE /\ locked = TRUE /\ eof = FALSE /\ acked = FALSE
  /\ code = None /\ refused = FALSE /\ verdict = None

(***************************************************************************)
(* What runs beside the owner.                                             *)
(***************************************************************************)
\* A PID is free when nothing runs there; the guard is a zombie until polled.
Free(p) == ~Running(p) /\ (p = Guard => code # None)

Start(p, parent, s, l, o) ==
  /\ Free(p) /\ births < MaxBirths
  /\ births' = births + 1
  /\ proc' = [proc EXCEPT ![p] = [birth |-> births + 1, parent |-> parent,
                                  session |-> s, lease |-> l, out |-> o]]
  /\ UNCHANGED <<exit, late, pc, tracker, listed, observed, refused, verdict>>

\* disk-guard starts the inner program inside the reservation.
StartInner(p) ==
  /\ inner = None /\ Running(Guard) /\ proc[Guard].birth = 1
  /\ Start(p, Guard, TRUE, TRUE, TRUE)
  /\ inner' = <<p, births + 1>>
  /\ UNCHANGED <<binding, launched>>

\* inner(): the binding names this generation and its reservation.
WriteBinding ==
  /\ inner # None /\ Alive(inner) /\ binding = None
  /\ binding' = inner
  /\ UNCHANGED <<kernel, inner, launched, pc, tracker, listed, observed, refused, verdict>>

\* inner(): the loop that waits for launch-acknowledgement.json.
MayLaunch == binding # None /\ acked

\* inner(): os.execvpe turns the same generation into the command.
Launch ==
  /\ inner # None /\ Alive(inner) /\ MayLaunch /\ ~launched
  /\ launched' = TRUE
  /\ UNCHANGED <<kernel, inner, binding, pc, tracker, listed, observed, refused, verdict>>

\* The command and what it starts fork; a child inherits everything.  One that
\* kept nothing is out of the owner's sight, and so are its children.
Fork(p, q) ==
  /\ launched /\ Running(p) /\ Gen(p) # <<Guard, 1>>
  /\ proc[p].session \/ proc[p].lease \/ proc[p].out
  /\ Start(q, p, proc[p].session, proc[p].lease, proc[p].out)
  /\ UNCHANGED program

\* ... and a child may leave the session or close a descriptor; the command
\* itself is a foreground script of this repository.
Detach(p) ==
  /\ launched /\ Running(p) /\ Gen(p) \notin {<<Guard, 1>>, inner}
  /\ \/ proc[p].session /\ proc' = [proc EXCEPT ![p].session = FALSE]
     \/ proc[p].lease /\ proc' = [proc EXCEPT ![p].lease = FALSE]
     \/ proc[p].out /\ proc' = [proc EXCEPT ![p].out = FALSE]
  /\ UNCHANGED <<births, exit, late, program, pc, tracker, listed, observed, refused, verdict>>

\* disk-guard reports success only for a command that ended.
Statuses == IF launched /\ ~Alive(inner) THEN {0, 1} ELSE {1}

\* A process ends, of itself or by a signal; its children lose their parent.
Exit(p) ==
  /\ Running(p)
  /\ proc' = [q \in PIDs |-> IF q = p THEN None
                             ELSE IF Running(q) /\ proc[q].parent = p
                             THEN [proc[q] EXCEPT !.parent = None] ELSE proc[q]]
  /\ IF Gen(p) = <<Guard, 1>> THEN exit' \in Statuses ELSE exit' = exit
  /\ UNCHANGED <<births, late, program, pc, tracker, listed, observed, refused, verdict>>

\* A process of somebody else takes a PID that came free; one the tracker does
\* not know changes nothing it can see.
Unrelated(p) == (\E g \in history : g[1] = p) /\ Start(p, None, FALSE, FALSE, FALSE) /\ UNCHANGED program

\* observe() counts its deadline from the poll that saw the guard end.
Deadline ==
  /\ pc # "done" /\ code # None /\ ~late /\ late' = TRUE
  /\ UNCHANGED <<proc, births, exit, program, pc, tracker, listed, observed, refused, verdict>>

(***************************************************************************)
(* The owner.                                                              *)
(***************************************************************************)
\* run(): the guard's own generation is read before anything else, and a
\* guard that is already gone leaves a tracker that refuses every scan.
Register ==
  /\ pc = "register" /\ pc' = "select"
  /\ IF Running(Guard) /\ exit = None
     THEN /\ history' = {Gen(Guard)} /\ live' = {Gen(Guard)}
          /\ UNCHANGED refused
     ELSE /\ refused' = TRUE /\ UNCHANGED <<history, live>>
  /\ UNCHANGED <<kernel, program, ended, listed, observed, verdict>>

\* observe(): one turn of the loop drains what is readable, then scans if the
\* last scan is old enough.  The population is listed first and read after;
\* a list that leaves out a running process is what get() and scan() guard
\* against.
Select ==
  /\ pc = "select"
  /\ eof' = ~OutputHeld
  /\ \/ /\ \E missing \in SUBSET {p \in PIDs : Running(p)} :
             /\ Cardinality(missing) <= 1
             /\ listed' = {p \in PIDs : Running(p)} \ missing
        /\ pc' = "read"
     \/ pc' = "poll" /\ UNCHANGED listed
  /\ UNCHANGED <<kernel, program, tracker, quiet, locked, acked, code, refused, verdict>>

\* The birth the tracker knows for a PID is the last one it recorded there.
Known(p) == {g \in history : g[1] = p /\ \A h \in history : h[1] = p => h[2] <= g[2]}

\* Tracker.validate_generation: a PID the tracker knows may hold another
\* birth only when the birth before was seen to end, and never at the root.
ValidGeneration(g) ==
  \A k \in Known(g[1]) : k # g => g[1] # Guard /\ k \in ended

\* Tracker.scan: the generations it knows, those in the guard's session, and
\* the descendants of both.
Family(table) ==
  LET roots == {p \in table : Gen(p) \in Known(p) \/ proc[p].session}
      Closed(S) == roots \subseteq S /\ \A p \in table : proc[p].parent \in S => p \in S
  IN {p \in table : \A S \in SUBSET table : Closed(S) => p \in S}

\* Mutant: a generation missing from the table is taken to have ended.
Ended_TrustsTable(missing) == TRUE
\* Tracker.scan: an identity read of its own shows that it ended.
Ended(missing) == \A g \in missing : ~Alive(g)

Read ==
  /\ pc = "read"
  /\ LET table   == {p \in listed : Running(p)}
         family  == {Gen(p) : p \in Family(table)}
         missing == {g \in live : \A f \in family : f[1] # g[1]}
     IN IF /\ history # {}
           /\ \A g \in family : ValidGeneration(g)
           /\ Ended(missing)
        THEN /\ history' = history \cup family
             /\ live' = family
             /\ ended' = ended \cup missing
             /\ quiet' = (family = {})
             /\ pc' = "acknowledge"
             /\ UNCHANGED refused
        ELSE /\ refused' = TRUE /\ pc' = "poll"
             /\ UNCHANGED <<tracker, quiet>>
  /\ listed' = {}
  /\ UNCHANGED <<kernel, program, locked, eof, acked, code, verdict>>

\* Any other error: an identity that cannot be read, a reservation that is not
\* the one bound, a cancellation by the user.  Nothing more in this turn.
Raise ==
  /\ pc \in {"read", "acknowledge", "lease"}
  /\ refused' = TRUE /\ pc' = "poll" /\ listed' = {}
  /\ UNCHANGED <<kernel, program, tracker, observed, verdict>>

\* Tracker.register: the generation the binding names still runs.
Registered == Alive(binding) /\ ValidGeneration(binding)

\* acknowledge(): the bound generation runs and the reservation is locked.
Acknowledgeable == Registered /\ LeaseHeld

Acknowledge ==
  /\ pc = "acknowledge"
  /\ IF acked \/ refused \/ binding = None
     THEN pc' = "lease" /\ UNCHANGED <<history, live, acked, refused>>
     ELSE /\ IF Registered
             THEN history' = history \cup {binding} /\ live' = live \cup {binding}
             ELSE UNCHANGED <<history, live>>
          /\ IF Acknowledgeable
             THEN acked' = TRUE /\ pc' = "lease" /\ UNCHANGED refused
             ELSE refused' = TRUE /\ pc' = "poll" /\ UNCHANGED acked
  /\ UNCHANGED <<kernel, program, ended, listed, quiet, locked, eof, code, verdict>>

\* lease(): only a reservation that was acknowledged can be seen released.
Lease ==
  /\ pc = "lease" /\ pc' = "poll"
  /\ locked' = (~acked \/ LeaseHeld)
  /\ UNCHANGED <<kernel, program, tracker, listed, quiet, eof, acked, code, refused, verdict>>

\* Mutant: the loop stops without waiting for the end of the streams.
Over_OpenStreams(c, no) == c # None /\ ((quiet /\ ~locked) \/ no)
\* observe(): the loop ends when the guard exited, its streams are closed, and
\* nothing is left or the build is refused.
Over(c, no) == c # None /\ eof /\ ((quiet /\ ~locked) \/ no)

\* observe(): what SETTLED means.
Settled(c, no) == acked /\ c = 0 /\ quiet /\ ~locked /\ ~no

\* Mutant: a late build that closed its streams is waited for.
Overdue_OpenStreams == code # None /\ late /\ ~eof
\* observe(): the deadline passed and something is left.
Overdue == code # None /\ late /\ ~(quiet /\ ~locked /\ eof)

Poll ==
  /\ pc = "poll"
  /\ LET no == refused \/ Overdue
     IN /\ code' = exit
        /\ refused' = no
        /\ IF Over(exit, no)
           THEN /\ pc' = "done"
                /\ verdict' = IF Settled(exit, no) THEN "SETTLED" ELSE "UNPROVED"
           ELSE pc' = "select" /\ UNCHANGED verdict
  /\ UNCHANGED <<kernel, program, tracker, listed, quiet, locked, eof, acked>>

Owner == Register \/ Select \/ Read \/ Acknowledge \/ Lease \/ Poll

\* The behaviour is followed up to the verdict.
Build ==
  /\ pc # "done"
  /\ \/ \E p \in PIDs : StartInner(p) \/ Detach(p) \/ Exit(p) \/ Unrelated(p)
     \/ \E p, q \in PIDs : Fork(p, q)
     \/ WriteBinding \/ Launch

Next == Owner \/ Raise \/ Deadline \/ Build

Spec == Init /\ [][Next]_vars

\* The owner is one attended process and its clock runs; nothing is assumed
\* of the build.
FairSpec == Spec /\ WF_vars(Owner) /\ WF_vars(Deadline)

(***************************************************************************)
(* Properties.                                                             *)
(***************************************************************************)
TypeOK ==
  /\ proc \in [PIDs -> Process \cup {None}]
  /\ births \in 1..MaxBirths
  /\ exit \in {0, 1, None} /\ code \in {0, 1, None}
  /\ late \in BOOLEAN /\ launched \in BOOLEAN
  /\ inner \in Generations \cup {None} /\ binding \in Generations \cup {None}
  /\ pc \in {"register", "select", "read", "acknowledge", "lease", "poll", "done"}
  /\ history \subseteq Generations /\ live \subseteq Generations /\ ended \subseteq Generations
  /\ listed \subseteq PIDs
  /\ quiet \in BOOLEAN /\ locked \in BOOLEAN /\ eof \in BOOLEAN
  /\ acked \in BOOLEAN /\ refused \in BOOLEAN
  /\ verdict \in {"SETTLED", "UNPROVED", None}

\* A build called SETTLED is over as far as the owner could see: no process
\* holds an output stream or the reservation, and no generation the tracker
\* ever recorded runs, whatever took its PID since.  (observe() and Tracker.)
SettledIsQuiet ==
  verdict = "SETTLED" =>
    /\ ~OutputHeld /\ ~LeaseHeld
    /\ \A g \in history : ~Alive(g)

\* The root PID never stands for two generations in the tracker, and a
\* generation recorded as ended never runs again.  (Tracker.)
EndedStaysEnded ==
  /\ \A g \in ended : ~Alive(g)
  /\ \A g \in history : g[1] = Guard => g[2] = 1

\* Once the guard is gone and nobody holds a stream, the owner comes to a
\* verdict, even when a process it knows lingers for ever.  (observe(): the
\* deadline refuses, it does not wait.)
ObservationEnds == (~Running(Guard) /\ ~OutputHeld) ~> (pc = "done")

=============================================================================
