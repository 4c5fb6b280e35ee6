------------------------- MODULE InboundRelayProofs -------------------------
(***************************************************************************)
(* Proofs about InboundRelay, for every number of SMTP deliveries,         *)
(* operators, policies and consumers and every history of activations.     *)
(*                                                                         *)
(* That nobody gets the message twice rests on one claim per recipient:    *)
(* whoever is between the claim and its projection holds the recipient in  *)
(* sending, alone, and in the generation the row has; and a row with a     *)
(* recipient in sending cannot be retired.  Inv says so part by part.      *)
(* For the same reason whatever was sent keeps its row, so what was found  *)
(* accepted stays true (ResultInv), and a result that once agreed with the *)
(* row agrees with it for good, so its clean-up is never undone (CleanInv).*)
(*                                                                         *)
(* Two more arguments follow: the payload outlives every recipient that    *)
(* may still need it, unless its row was committed behind the back of a    *)
(* delivery that had given up (SpoolInv), and every step is one of         *)
(* InboundPromise or leaves its state alone.                               *)
(***************************************************************************)
EXTENDS InboundRelay, TLAPS

\* Where an invocation works on an inbound row.
OnRow == {"retire", "discard", "sweep", "recheck", "snapshot", "claim", "call", "project",
          "record", "clean", "refresh", "settle", "enqueue"}

\* Invocation h holds the claim of the recipient hview[h].at.
Engaged(h) == hpc[h] \in {"call", "project"}

\* The row exists as a whole or not at all.
RowBound ==
  /\ gen # None => rowPolicy \in Policies
  /\ gen = None => \A o \in Operators : recipient[o] = "none"

\* An active router invocation knows its policy, on a row the row's generation
\* and policy, and has enqueued nothing.
Fits(label, v) ==
  /\ label \in HandlerActive \ {"start"} => v.policy \in Policies
  /\ label \in OnRow => v.from \in Deliveries /\ v.fromPolicy \in Policies
  /\ label \in {"call", "project"} => v.at \in Operators
  /\ label = "project" => v.answer \in {"ok", "failed"}

RouterBound ==
  \A h \in Deliveries :
    /\ Fits(hpc[h], hview[h])
    /\ hpc[h] \in HandlerActive => job[h] = "none" /\ tries[h] = 0

\* A busy consumer holds a job, and a queued job has tries left.
ConsumerBound ==
  /\ \A c \in Consumers :
       cpc[c] # "idle" => cview[c].job \in Deliveries /\ job[cview[c].job] # "none"
  /\ \A h \in Deliveries : job[h] = "queued" => tries[h] < MaxTries

\* Whoever holds a claim holds it alone, in the generation of the row, and has
\* not sent anything before its call.
ClaimHeld ==
  /\ \A h \in Deliveries : Engaged(h) =>
       /\ gen = hview[h].from
       /\ recipient[hview[h].at] = "sending"
       /\ hpc[h] = "call" => mailed[hview[h].from][hview[h].at] = 0
  /\ \A h, k \in Deliveries :
       Engaged(h) /\ Engaged(k) /\ hview[h].at = hview[k].at => h = k

\* What was sent was sent once, with the token of the row, to a claimed recipient.
MailedHeld ==
  \A g \in Deliveries, o \in Operators :
    /\ mailed[g][o] \in {0, 1}
    /\ mailed[g][o] > 0 => gen = g /\ recipient[o] \in Final \cup {"sending"}

Inv == TypeOK /\ RowBound /\ RouterBound /\ ConsumerBound /\ ClaimHeld /\ MailedHeld
----------------------------------------------------------------------------
(* The locals of an invocation.                                            *)

\* The locals w concern the same row under the same policy as v.
SameRow(v, w) ==
  /\ w \in HandlerView
  /\ w.policy = v.policy /\ w.from = v.from /\ w.fromPolicy = v.fromPolicy

\* What the actions make of an invocation's locals, and what they leave alone.
LEMMA RoutedTyped ==
  /\ NoHandling \in HandlerView
  /\ \A p \in Policies : LET w == [NoHandling EXCEPT !.policy = p] IN
       w \in HandlerView /\ w.policy = p
PROOF BY DEF HandlerView, NoHandling, NoResults, Results, Entries

LEMMA WithRowTyped ==
  ASSUME TypeOK, NEW v \in HandlerView
  PROVE  /\ WithRow(v) \in HandlerView /\ WithRow(v).policy = v.policy
         /\ WithRow(v).from = gen /\ WithRow(v).fromPolicy = rowPolicy
PROOF
  <1>1. gen \in Deliveries \cup {None} /\ rowPolicy \in Policies \cup {None} /\ keyed \in BOOLEAN
    BY DEF TypeOK
  <1>2. QED BY <1>1 DEF HandlerView, WithRow

LEMMA KeysTyped ==
  ASSUME NEW v \in HandlerView, NEW g \in Deliveries \cup {None}
  PROVE  SameRow(v, [v EXCEPT !.keys = g])
PROOF BY DEF HandlerView, SameRow

LEMMA TodoTyped ==
  ASSUME NEW v \in HandlerView, NEW t \in SUBSET Operators
  PROVE  /\ SameRow(v, [v EXCEPT !.todo = t])
         /\ SameRow(v, [v EXCEPT !.todo = t, !.keys = None, !.recovers = TRUE])
PROOF
  <1>1. SameRow(v, [v EXCEPT !.todo = t])  BY DEF HandlerView, SameRow
  <1>2. SameRow(v, [v EXCEPT !.todo = t, !.keys = None, !.recovers = TRUE])
    BY DEF HandlerView, SameRow
  <1>3. QED BY <1>1, <1>2

LEMMA ClaimedTyped ==
  ASSUME NEW v \in HandlerView, NEW o \in Operators
  PROVE  LET w == [v EXCEPT !.todo = @ \ {o}, !.at = o] IN SameRow(v, w) /\ w.at = o
PROOF BY DEF HandlerView, SameRow

LEMMA AnsweredTyped ==
  ASSUME NEW v \in HandlerView, NEW a \in {"ok", "failed"}
  PROVE  LET w == [v EXCEPT !.answer = a] IN
         SameRow(v, w) /\ w.at = v.at /\ w.answer = a
PROOF BY DEF HandlerView, SameRow

LEMMA ResultsTyped ==
  ASSUME NEW v \in HandlerView, NEW r \in Results
  PROVE  SameRow(v, [v EXCEPT !.results = r])
PROOF BY DEF HandlerView, SameRow

\* One recipient passed over, or the result of one noted.
LEMMA ResultTyped ==
  ASSUME NEW v \in HandlerView, NEW o \in Operators, NEW e \in Entries
  PROVE  /\ SameRow(v, [v EXCEPT !.todo = @ \ {o}, !.results[o] = e])
         /\ SameRow(v, [v EXCEPT !.at = None, !.answer = "none", !.results[o] = e])
PROOF
  <1>1. [v.results EXCEPT ![o] = e] \in Results  BY DEF HandlerView, Results
  <1>2. SameRow(v, [v EXCEPT !.todo = @ \ {o}, !.results[o] = e])
    BY <1>1 DEF HandlerView, SameRow
  <1>3. SameRow(v, [v EXCEPT !.at = None, !.answer = "none", !.results[o] = e])
    BY <1>1 DEF HandlerView, SameRow
  <1>4. QED BY <1>2, <1>3

\* The invocation of h moves to label with the locals v; the others stay.
Moved(h, label, v) ==
  /\ hpc' \in [Deliveries -> HandlerPc] /\ hview' \in [Deliveries -> HandlerView]
  /\ hpc'[h] = label /\ hview'[h] = v
  /\ \A k \in Deliveries \ {h} : hpc'[k] = hpc[k] /\ hview'[k] = hview[k]

Moves(h) ==
  /\ hpc' \in [Deliveries -> HandlerPc] /\ hview' \in [Deliveries -> HandlerView]
  /\ Fits(hpc'[h], hview'[h])
  /\ \A k \in Deliveries \ {h} : hpc'[k] = hpc[k] /\ hview'[k] = hview[k]

LEMMA GotoWithMoves ==
  ASSUME TypeOK, NEW h \in Deliveries, NEW label \in HandlerPc, NEW v \in HandlerView,
         GotoWith(h, label, v)
  PROVE  Moved(h, label, v)
PROOF BY DEF TypeOK, GotoWith, Moved

LEMMA GotoMoves ==
  ASSUME TypeOK, NEW h \in Deliveries, NEW label \in HandlerPc, Goto(h, label)
  PROVE  Moved(h, label, hview[h])
PROOF BY DEF TypeOK, Goto, Moved

LEMMA EndMoves ==
  ASSUME TypeOK, NEW h \in Deliveries, NEW label \in HandlerPc \ HandlerActive, End(h, label)
  PROVE  Moved(h, label, NoHandling) /\ Moves(h)
PROOF
  <1>1. Moved(h, label, NoHandling)  BY RoutedTyped, GotoWithMoves DEF End
  <1>2. Fits(label, NoHandling)  BY DEF Fits, HandlerActive, OnRow
  <1>3. QED BY <1>1, <1>2 DEF Moved, Moves

LEMMA MovedMoves ==
  ASSUME NEW h, NEW label, NEW v, Moved(h, label, v), Fits(label, v)
  PROVE  Moves(h)
PROOF BY DEF Moved, Moves

\* The control flow of an invocation, and what its next statement finds bound.
LEMMA RouterMoves ==
  ASSUME Inv, NEW h \in Deliveries, Router(h)
  PROVE  Moves(h)
PROOF
  <1> DEFINE v == hview[h]
  <1> USE DEF Inv, HandlerPc, HandlerActive
  <1>0. TypeOK /\ v \in HandlerView /\ Fits(hpc[h], v)
    BY DEF TypeOK, RouterBound
  <1>e. ASSUME NEW label \in {"accepted", "refused", "dropped"}, End(h, label) PROVE Moves(h)
    BY <1>0, <1>e, EndMoves
  <1>s. ASSUME NEW label \in HandlerPc, Goto(h, label), Fits(label, v) PROVE Moves(h)
    BY <1>0, <1>s, GotoMoves, MovedMoves
  <1>w. ASSUME NEW label \in HandlerPc, NEW w \in HandlerView, GotoWith(h, label, w),
               Fits(label, w) PROVE Moves(h)
    BY <1>0, <1>w, GotoWithMoves, MovedMoves
  <1>1. CASE Route(h)
    <2>1. CASE End(h, "refused")  BY <2>1, <1>e
    <2>2. CASE GotoWith(h, "lookup", [NoHandling EXCEPT !.policy = policy])
      <3> DEFINE w == [NoHandling EXCEPT !.policy = policy]
      <3>1. w \in HandlerView /\ w.policy \in Policies  BY <1>0, RoutedTyped DEF TypeOK
      <3>2. Fits("lookup", w)  BY <3>1 DEF Fits, OnRow
      <3> HIDE DEF w
      <3>3. QED BY <2>2, <3>1, <3>2, <1>w DEF w
    <2>3. QED BY <1>1, <2>1, <2>2 DEF Route
  <1>2. CASE Lookup(h)
    <2>1. CASE gen # None /\ GotoWith(h, "retire", WithRow(v))
      <3>1. /\ WithRow(v) \in HandlerView /\ WithRow(v).policy = v.policy
            /\ WithRow(v).from = gen /\ WithRow(v).fromPolicy = rowPolicy
        BY <1>0, WithRowTyped
      <3>2. Fits("retire", WithRow(v))
        BY <1>0, <1>2, <2>1, <3>1 DEF Fits, Lookup, RowBound, TypeOK, OnRow
      <3>3. QED BY <2>1, <3>1, <3>2, <1>w
    <2>2. CASE Goto(h, "spool")  BY <1>0, <1>2, <2>2, <1>s DEF Lookup, Fits, OnRow
    <2>3. QED BY <1>2, <2>1, <2>2, <1>e DEF Lookup
  <1>3. CASE Retire(h)
    <2>1. CASE GotoWith(h, "discard", [v EXCEPT !.keys = gen])
      <3> DEFINE w == [v EXCEPT !.keys = gen]
      <3>1. SameRow(v, w)  BY <1>0, KeysTyped DEF TypeOK
      <3>2. w \in HandlerView /\ Fits("discard", w)
        BY <1>0, <1>3, <3>1 DEF Fits, Retire, OnRow, SameRow
      <3>3. QED BY <2>1, <3>2, <1>w
    <2>2. CASE Goto(h, "snapshot")  BY <1>0, <1>3, <2>2, <1>s DEF Retire, Fits, OnRow
    <2>3. QED BY <1>3, <2>1, <2>2 DEF Retire
  <1>4. CASE Discard(h)
    <2>1. CASE Goto(h, "sweep")  BY <1>0, <1>4, <2>1, <1>s DEF Discard, Fits, OnRow
    <2>2. CASE Goto(h, "snapshot")  BY <1>0, <1>4, <2>2, <1>s DEF Discard, Fits, OnRow
    <2>3. QED BY <1>4, <2>1, <2>2 DEF Discard
  <1>5. CASE Sweep(h)
    <2>1. CASE GotoWith(h, "spool", [NoHandling EXCEPT !.policy = v.policy])
      <3> DEFINE w == [NoHandling EXCEPT !.policy = v.policy]
      <3>1. v.policy \in Policies  BY <1>0, <1>5 DEF Sweep, Fits
      <3>2. w \in HandlerView /\ w.policy \in Policies  BY <3>1, RoutedTyped
      <3>3. Fits("spool", w)  BY <3>2 DEF Fits, OnRow
      <3>4. QED BY <2>1, <3>2, <3>3, <1>w
    <2>2. QED BY <1>5, <2>1, <1>e DEF Sweep
  <1>6. CASE SpoolMessage(h)
    <2>1. CASE Goto(h, "persist")  BY <1>0, <1>6, <2>1, <1>s DEF SpoolMessage, Fits, OnRow
    <2>2. QED BY <1>6, <2>1, <1>e DEF SpoolMessage
  <1>7. CASE Persist(h)
    <2>0. v.policy \in Policies  BY <1>0, <1>7 DEF Persist, Fits
    <2>1. CASE GotoWith(h, "recheck",
                 [v EXCEPT !.from = h, !.fromPolicy = v.policy, !.fromKeyed = TRUE])
      <3> DEFINE w == [v EXCEPT !.from = h, !.fromPolicy = v.policy, !.fromKeyed = TRUE]
      <3>1. w \in HandlerView /\ w.policy = v.policy /\ w.from = h /\ w.fromPolicy = v.policy
        BY <1>0, <2>0 DEF HandlerView
      <3>2. Fits("recheck", w)  BY <2>0, <3>1 DEF Fits, OnRow
      <3>3. QED BY <2>1, <3>1, <3>2, <1>w
    <2>2. CASE Goto(h, "readback")  BY <2>0, <2>2, <1>s DEF Fits, OnRow
    <2>3. QED BY <1>7, <2>1, <2>2 DEF Persist
  <1>8. CASE Readback(h)
    <2>1. CASE gen # None /\ GotoWith(h, "snapshot", WithRow(v))
      <3>1. /\ WithRow(v) \in HandlerView /\ WithRow(v).policy = v.policy
            /\ WithRow(v).from = gen /\ WithRow(v).fromPolicy = rowPolicy
        BY <1>0, WithRowTyped
      <3>2. Fits("snapshot", WithRow(v))
        BY <1>0, <1>8, <2>1, <3>1 DEF Fits, Readback, RowBound, TypeOK, OnRow
      <3>3. QED BY <2>1, <3>1, <3>2, <1>w
    <2>2. QED BY <1>8, <2>1, <1>e DEF Readback
  <1>9. CASE Recheck(h)
    <2>0. v.policy \in Policies  BY <1>0, <1>9 DEF Recheck, Fits
    <2>1. CASE GotoWith(h, "claim", [v EXCEPT !.todo = OperatorsOf[v.policy]])
      <3> DEFINE w == [v EXCEPT !.todo = OperatorsOf[v.policy]]
      <3>1. OperatorsOf[v.policy] \in SUBSET Operators
        BY <2>0, InboundConstants DEF InboundConstants
      <3>2. SameRow(v, w)  BY <1>0, <3>1, TodoTyped
      <3>3. w \in HandlerView /\ Fits("claim", w)
        BY <1>0, <1>9, <3>2 DEF Fits, Recheck, OnRow, SameRow
      <3>4. QED BY <2>1, <3>3, <1>w
    <2>2. CASE Goto(h, "retire")  BY <1>0, <1>9, <2>2, <1>s DEF Recheck, Fits, OnRow
    <2>3. CASE Goto(h, "snapshot")  BY <1>0, <1>9, <2>3, <1>s DEF Recheck, Fits, OnRow
    <2>4. QED BY <1>9, <2>1, <2>2, <2>3 DEF Recheck
  <1>10. CASE Snapshot(h)
    <2>1. PICK t \in SUBSET Operators, label \in {"refresh", "claim"} :
            GotoWith(h, label, [v EXCEPT !.todo = t, !.keys = None, !.recovers = TRUE])
      BY <1>10 DEF Snapshot
    <2> DEFINE w == [v EXCEPT !.todo = t, !.keys = None, !.recovers = TRUE]
    <2>2. SameRow(v, w)  BY <1>0, TodoTyped
    <2>3. w \in HandlerView /\ Fits(label, w)
      BY <1>0, <1>10, <2>2 DEF Fits, Snapshot, OnRow, SameRow
    <2>4. QED BY <2>1, <2>3, <1>w
  <1>11. CASE ClaimRecipient(h)
    <2>1. PICK o \in v.todo :
            \/ GotoWith(h, "call", [v EXCEPT !.todo = @ \ {o}, !.at = o])
            \/ PassOver(h, o)
      BY <1>11 DEF ClaimRecipient
    <2>2. o \in Operators  BY <1>0, <2>1 DEF HandlerView
    <2>3. CASE GotoWith(h, "call", [v EXCEPT !.todo = @ \ {o}, !.at = o])
      <3> DEFINE w == [v EXCEPT !.todo = @ \ {o}, !.at = o]
      <3>1. SameRow(v, w) /\ w.at = o  BY <1>0, <2>2, ClaimedTyped
      <3>2. w \in HandlerView /\ Fits("call", w)
        BY <1>0, <1>11, <2>2, <3>1 DEF Fits, ClaimRecipient, OnRow, SameRow
      <3>3. QED BY <2>3, <3>2, <1>w
    <2>4. CASE PassOver(h, o)
      <3>1. PICK e \in Entries, label \in {"claim", "refresh", "record"} :
              GotoWith(h, label, [v EXCEPT !.todo = @ \ {o}, !.results[o] = e])
        <4>1. v.results[o] \in Entries  BY <1>0, <2>2 DEF HandlerView, Results
        <4>2. QED BY <2>4, <4>1 DEF PassOver, LoopLabel, Entries
      <3> DEFINE w == [v EXCEPT !.todo = @ \ {o}, !.results[o] = e]
      <3>2. SameRow(v, w)  BY <1>0, <2>2, ResultTyped
      <3>3. w \in HandlerView /\ Fits(label, w)
        BY <1>0, <1>11, <3>2 DEF Fits, ClaimRecipient, OnRow, SameRow
      <3>4. QED BY <3>1, <3>3, <1>w
    <2>5. QED BY <2>1, <2>3, <2>4
  <1>12. CASE CallProvider(h)
    <2>1. PICK a \in {"ok", "failed"} : GotoWith(h, "project", [v EXCEPT !.answer = a])
      BY <1>12 DEF CallProvider
    <2> DEFINE w == [v EXCEPT !.answer = a]
    <2>2. SameRow(v, w) /\ w.at = v.at /\ w.answer = a  BY <1>0, AnsweredTyped
    <2>3. w \in HandlerView /\ Fits("project", w)
      BY <1>0, <1>12, <2>2 DEF Fits, CallProvider, OnRow, SameRow
    <2>4. QED BY <2>1, <2>3, <1>w
  <1>13. CASE Project(h)
    <2>0. v.at \in Operators /\ v.answer \in {"ok", "failed"}
      BY <1>0, <1>13 DEF Project, Fits
    <2>1. PICK e \in Entries, label \in {"claim", "refresh", "record"} :
            GotoWith(h, label, [v EXCEPT !.at = None, !.answer = "none", !.results[v.at] = e])
      <3>1. v.results[v.at] \in Entries  BY <1>0, <2>0 DEF HandlerView, Results
      <3>2. QED BY <1>13, <2>0, <3>1 DEF Project, LoopLabel, Entries
    <2> DEFINE w == [v EXCEPT !.at = None, !.answer = "none", !.results[v.at] = e]
    <2>2. SameRow(v, w)  BY <1>0, <2>0, ResultTyped
    <2>3. w \in HandlerView /\ Fits(label, w)
      BY <1>0, <1>13, <2>2 DEF Fits, Project, OnRow, SameRow
    <2>4. QED BY <2>1, <2>3, <1>w
  <1>14. CASE RecordResults(h)
    <2>1. CASE Goto(h, "clean")  BY <1>0, <1>14, <2>1, <1>s DEF RecordResults, Fits, OnRow
    <2>2. CASE Goto(h, "enqueue")  BY <1>0, <1>14, <2>2, <1>s DEF RecordResults, Fits, OnRow
    <2>3. QED BY <1>14, <2>1, <2>2, <1>e DEF RecordResults
  <1>15. CASE CleanDelivery(h)  BY <1>15, <1>e DEF CleanDelivery
  <1>16. CASE Refresh(h)
    <2> DEFINE r == [o \in Operators |-> Entry(recipient[o])]
               w == [v EXCEPT !.results = r]
    <2>1. r \in Results  BY <1>0 DEF TypeOK, RecipientStatus, Results, Entries, Entry
    <2>2. SameRow(v, w)  BY <1>0, <2>1, ResultsTyped
    <2>3. w \in HandlerView /\ Fits("settle", w)
      BY <1>0, <1>16, <2>2 DEF Fits, Refresh, OnRow, SameRow
    <2>4. GotoWith(h, "settle", w)  BY <1>16 DEF Refresh
    <2>5. QED BY <2>3, <2>4, <1>w
  <1>17. CASE Settle(h)
    <2>1. CASE Goto(h, "enqueue")  BY <1>0, <1>17, <2>1, <1>s DEF Settle, Fits, OnRow
    <2>2. QED BY <1>17, <2>1, <1>e DEF Settle
  <1>18. CASE Enqueue(h)  BY <1>18, <1>e DEF Enqueue
  <1>19. CASE RouterCrash(h)  BY <1>19, <1>e DEF RouterCrash
  <1>20. QED
    BY <1>1, <1>2, <1>3, <1>4, <1>5, <1>6, <1>7, <1>8, <1>9, <1>10, <1>11, <1>12, <1>13,
       <1>14, <1>15, <1>16, <1>17, <1>18, <1>19 DEF Router
----------------------------------------------------------------------------
(* The rest of a router step.                                              *)

LEMMA AggregateTyped == \A r : Aggregate(r) \in Aggregates
PROOF BY DEF Aggregate, Aggregates

LEMMA DeleteTyped ==
  ASSUME TypeOK, NEW objects, NEW generations, Delete(objects, generations)
  PROVE  /\ raw' \subseteq Deliveries /\ payloads' \subseteq Deliveries \X Operators
         /\ lapsed' = lapsed
PROOF BY DEF TypeOK, Delete

\* The row after a router step or a late commit: it exists as a whole.
RowTyped ==
  /\ gen \in Deliveries \cup {None} /\ rowPolicy \in Policies \cup {None}
  /\ status \in Aggregates \cup {"none", "pending"} /\ keyed \in BOOLEAN
  /\ recipient \in [Operators -> RecipientStatus]

LEMMA InsertTyped ==
  ASSUME NEW g \in Deliveries, NEW p \in Policies, InsertRow(g, p)
  PROVE  RowTyped' /\ RowBound'
PROOF
  <1>1. g # None  BY InboundConstants DEF InboundConstants
  <1>2. QED BY <1>1 DEF InsertRow, RowTyped, RowBound, RecipientStatus

LEMMA DeleteRowTyped ==
  ASSUME DeleteRow
  PROVE  RowTyped' /\ RowBound'
PROOF BY DEF DeleteRow, RowTyped, RowBound, RecipientStatus

\* Statements that change the statuses of an existing row.
LEMMA UpdateTyped ==
  ASSUME TypeOK, RowBound, UNCHANGED <<gen, rowPolicy>>, keyed' \in BOOLEAN,
         status' \in Aggregates \cup {status},
         recipient' \in [Operators -> RecipientStatus],
         \A o \in Operators : recipient[o] = "none" => recipient'[o] = "none"
  PROVE  RowTyped' /\ RowBound'
PROOF BY DEF TypeOK, RowTyped, RowBound

LEMMA SetStatusTyped ==
  ASSUME NEW p, NEW r, SetStatus(p, Aggregate(r))
  PROVE  status' \in Aggregates \cup {status}
PROOF BY AggregateTyped DEF SetStatus

LEMMA RouterKeepsRow ==
  ASSUME Inv, NEW h \in Deliveries, Router(h)
  PROVE  RowTyped' /\ RowBound'
PROOF
  <1>0. TypeOK /\ RowBound /\ Fits(hpc[h], hview[h])  BY DEF Inv, RouterBound
  <1>1. ASSUME UNCHANGED row PROVE RowTyped' /\ RowBound'
    BY <1>0, <1>1, UpdateTyped DEF row, TypeOK
  <1>2. CASE Discard(h)  BY <1>1, <1>2, DeleteRowTyped DEF Discard
  <1>3. CASE Persist(h)
    <2>1. hview[h].policy \in Policies  BY <1>0, <1>3 DEF Persist, Fits, HandlerActive
    <2>2. QED BY <1>1, <1>3, <2>1, InsertTyped DEF Persist
  <1>4. CASE ClaimRecipient(h)
    <2>1. UNCHANGED <<gen, rowPolicy, status, keyed>>  BY <1>4 DEF ClaimRecipient
    <2>2. recipient' = recipient
          \/ \E o \in hview[h].todo : recipient[o] = "pending"
                                      /\ recipient' = [recipient EXCEPT ![o] = "sending"]
      BY <1>4 DEF ClaimRecipient, Claim, ClaimAllowed
    <2>3. recipient' \in [Operators -> RecipientStatus]
      BY <1>0, <2>2 DEF TypeOK, RecipientStatus
    <2>4. \A o \in Operators : recipient[o] = "none" => recipient'[o] = "none"
      BY <1>0, <2>2 DEF TypeOK
    <2>5. QED BY <1>0, <2>1, <2>3, <2>4, UpdateTyped DEF TypeOK
  <1>5. CASE Project(h)
    <2>1. UNCHANGED <<gen, rowPolicy, status, keyed>>  BY <1>5 DEF Project
    <2>2. recipient' = recipient
          \/ \E o, s : /\ recipient[o] = "sending" /\ s \in Final \cup {"sending"}
                       /\ recipient' = [recipient EXCEPT ![o] = s]
      BY <1>5 DEF Project, Projection, Final
    <2>3. recipient' \in [Operators -> RecipientStatus]
      BY <1>0, <2>2 DEF TypeOK, RecipientStatus, Final
    <2>4. \A o \in Operators : recipient[o] = "none" => recipient'[o] = "none"
      BY <1>0, <2>2 DEF TypeOK
    <2>5. QED BY <1>0, <2>1, <2>3, <2>4, UpdateTyped DEF TypeOK
  <1>6. CASE RecordResults(h)
    <2>1. status' \in Aggregates \cup {status}
      BY <1>6, SetStatusTyped DEF RecordResults
    <2>2. UNCHANGED <<gen, rowPolicy, keyed, recipient>>  BY <1>6 DEF RecordResults
    <2>3. QED BY <1>0, <2>1, <2>2, UpdateTyped DEF TypeOK
  <1>7. CASE CleanDelivery(h)
    <2>1. keyed' \in BOOLEAN /\ UNCHANGED <<gen, rowPolicy, status, recipient>>
      BY <1>0, <1>7 DEF CleanDelivery, TypeOK
    <2>2. QED BY <1>0, <2>1, UpdateTyped DEF TypeOK
  <1>8. CASE Settle(h)
    <2>1. status' \in Aggregates \cup {status}  BY <1>8, AggregateTyped DEF Settle
    <2>2. UNCHANGED <<gen, rowPolicy, keyed, recipient>>  BY <1>8 DEF Settle
    <2>3. QED BY <1>0, <2>1, <2>2, UpdateTyped DEF TypeOK
  <1>9. CASE \/ Route(h) \/ Lookup(h) \/ Retire(h) \/ Sweep(h) \/ SpoolMessage(h)
             \/ Readback(h) \/ Recheck(h) \/ Snapshot(h) \/ CallProvider(h) \/ Refresh(h)
             \/ Enqueue(h) \/ RouterCrash(h)
    BY <1>1, <1>9 DEF Route, Lookup, Retire, Sweep, SpoolMessage, Readback, Recheck, Snapshot,
                      CallProvider, Refresh, Enqueue, RouterCrash
  <1>10. QED
    BY <1>2, <1>3, <1>4, <1>5, <1>6, <1>7, <1>8, <1>9 DEF Router

\* Only a delivery whose invocation ends with it enqueues, and only once.
LEMMA RouterKeepsQueue ==
  ASSUME Inv, NEW h \in Deliveries, Router(h)
  PROVE  /\ tries' = tries
         /\ job' \in [Deliveries -> {"none", "queued", "leased", "acked", "dead"}]
         /\ report' \in [Deliveries -> Reports]
         /\ RouterBound' /\ ConsumerBound'
PROOF
  <1>0. TypeOK /\ Fits(hpc[h], hview[h]) /\ Moves(h)  BY RouterMoves DEF Inv, RouterBound
  <1>1. CASE Enqueue(h) /\ ~UNCHANGED <<job, report>>
    <2> DEFINE body == [gen |-> hview[h].from, policy |-> hview[h].fromPolicy,
                        results |-> hview[h].results]
    <2>1. body \in Reports
      BY <1>0, <1>1 DEF Enqueue, Fits, OnRow, TypeOK, HandlerView, Reports
    <2>2. job' = [job EXCEPT ![h] = "queued"] /\ report' = [report EXCEPT ![h] = body]
      BY <1>1 DEF Enqueue
    <2>3. tries' = tries /\ hpc'[h] = "accepted" /\ cpc' = cpc /\ cview' = cview
      BY <1>0, <1>1 DEF Enqueue, consumer, End, GotoWith, TypeOK
    <2>4. tries[h] = 0  BY <1>1 DEF Inv, RouterBound, Enqueue, HandlerActive
    <2>5. RouterBound'
      BY <1>0, <2>2, <2>3 DEF Moves, Inv, RouterBound, TypeOK, HandlerActive
    <2>6. ConsumerBound'
      BY <1>0, <2>2, <2>3, <2>4, InboundConstants DEF Inv, ConsumerBound, TypeOK, InboundConstants
    <2>7. job' \in [Deliveries -> {"none", "queued", "leased", "acked", "dead"}]
      BY <1>0, <2>2 DEF TypeOK
    <2>8. report' \in [Deliveries -> Reports]
      BY <1>0, <2>1, <2>2 DEF TypeOK
    <2>9. QED BY <2>3, <2>5, <2>6, <2>7, <2>8
  <1>2. CASE UNCHANGED <<job, report>>
    <2>1. tries' = tries /\ cpc' = cpc /\ cview' = cview
      BY DEF Router, Route, Lookup, Retire, Discard, Sweep, SpoolMessage, Persist, Readback,
             Recheck, Snapshot, ClaimRecipient, CallProvider, Project, RecordResults,
             CleanDelivery, Refresh, Settle, Enqueue, RouterCrash, queue, consumer
    <2>2. hpc[h] \in HandlerActive
      BY DEF Router, Route, Lookup, Retire, Discard, Sweep, SpoolMessage, Persist, Readback,
             Recheck, Snapshot, ClaimRecipient, CallProvider, Project, RecordResults,
             CleanDelivery, Refresh, Settle, Enqueue, RouterCrash, HandlerActive
    <2>3. RouterBound'  BY <1>0, <1>2, <2>1, <2>2 DEF Moves, Inv, RouterBound
    <2>4. ConsumerBound'  BY <1>2, <2>1 DEF Inv, ConsumerBound
    <2>5. QED BY <1>0, <1>2, <2>1, <2>3, <2>4 DEF TypeOK
  <1>3. Enqueue(h) \/ UNCHANGED <<job, report>>
    BY DEF Router, Route, Lookup, Retire, Discard, Sweep, SpoolMessage, Persist, Readback,
           Recheck, Snapshot, ClaimRecipient, CallProvider, Project, RecordResults,
           CleanDelivery, Refresh, Settle, RouterCrash, queue
  <1>4. QED BY <1>1, <1>2, <1>3

\* Who has been beaten once stays so.
LEMMA BeatenStays ==
  ASSUME [Next]_vars
  PROVE  beaten \subseteq beaten' /\ beaten' \subseteq beaten \cup Deliveries
PROOF
  <1>1. ASSUME NEW h \in Deliveries, Router(h)
        PROVE  beaten \subseteq beaten' /\ beaten' \subseteq beaten \cup Deliveries
    BY <1>1
    DEF Router, Route, Lookup, Retire, Discard, Sweep, SpoolMessage, Persist, Readback,
        Recheck, Snapshot, ClaimRecipient, CallProvider, Project, RecordResults,
        CleanDelivery, Refresh, Settle, Enqueue, RouterCrash
  <1>2. ASSUME NEW c \in Consumers, Consumer(c) PROVE beaten' = beaten
    BY <1>2
    DEF Consumer, Work, Take, Match, PersistProjection, DeletePayloads, DeleteRaw,
        RecordReceipt, ClearAuthority, Finish, ConsumerCrash
  <1>3. QED BY <1>1, <1>2 DEF Next, LateCommit, ActivatePolicy, LapsePayload, Change, vars

LEMMA RouterTyped ==
  ASSUME Inv, NEW h \in Deliveries, Router(h)
  PROVE  TypeOK'
PROOF
  <1>0. TypeOK /\ RowBound /\ Fits(hpc[h], hview[h])  BY DEF Inv, RouterBound
  <1>1. RowTyped'  BY RouterKeepsRow
  <1>2. UNCHANGED <<receipt, policy, changes, cpc, cview>>
    BY DEF Router, Route, Lookup, Retire, Discard, Sweep, SpoolMessage, Persist, Readback,
           Recheck, Snapshot, ClaimRecipient, CallProvider, Project, RecordResults,
           CleanDelivery, Refresh, Settle, Enqueue, RouterCrash, gates, consumer
  <1>3. inflight' \subseteq [by : Deliveries, policy : Policies]
    <2>1. CASE Persist(h)
      <3>1. hview[h].policy \in Policies  BY <1>0, <2>1 DEF Persist, Fits, HandlerActive
      <3>2. QED BY <1>0, <2>1, <3>1 DEF Persist, TypeOK
    <2>2. CASE inflight' = inflight  BY <1>0, <2>2 DEF TypeOK
    <2>3. QED
      BY <2>1, <2>2 DEF Router, Route, Lookup, Retire, Discard, Sweep, SpoolMessage, Readback,
           Recheck, Snapshot, ClaimRecipient, CallProvider, Project, RecordResults,
           CleanDelivery, Refresh, Settle, Enqueue, RouterCrash
  <1>4. /\ raw' \subseteq Deliveries /\ payloads' \subseteq Deliveries \X Operators
        /\ lapsed' = lapsed
    <2>1. CASE UNCHANGED bucket  BY <1>0, <2>1 DEF bucket, TypeOK
    <2>2. CASE SpoolMessage(h)
      <3> DEFINE mine == PayloadsOf(h, OperatorsOf[hview[h].policy])
      <3>1. hview[h].policy \in Policies  BY <1>0, <2>2 DEF SpoolMessage, Fits, HandlerActive
      <3>2. OperatorsOf[hview[h].policy] \subseteq Operators
        BY <3>1, InboundConstants DEF InboundConstants
      <3>3. mine \subseteq Deliveries \X Operators  BY <3>2 DEF PayloadsOf
      <3>4. lapsed' = lapsed /\ raw' \in {raw, raw \cup {h}}
            /\ \E left \in SUBSET mine : payloads' = payloads \cup left
        BY <2>2 DEF SpoolMessage
      <3> HIDE DEF mine
      <3>5. QED BY <1>0, <3>3, <3>4 DEF TypeOK
    <2>3. CASE Sweep(h) \/ Readback(h) \/ Snapshot(h) \/ Project(h) \/ CleanDelivery(h)
      <3>1. UNCHANGED bucket \/ \E objects, generations : Delete(objects, generations)
        BY <2>3 DEF Sweep, Readback, Snapshot, Project, CleanDelivery
      <3>2. QED BY <1>0, <2>1, <3>1, DeleteTyped
    <2>4. QED
      BY <2>1, <2>2, <2>3 DEF Router, Route, Lookup, Retire, Discard, Persist, Recheck,
           ClaimRecipient, CallProvider, RecordResults, Refresh, Settle, Enqueue, RouterCrash
  <1>5. mailed' \in [Deliveries -> [Operators -> Nat]]
    <2>1. CASE CallProvider(h)
      <3>1. hview[h].from \in Deliveries /\ hview[h].at \in Operators
        BY <1>0, <2>1 DEF CallProvider, Fits, OnRow
      <3>2. mailed' = mailed \/ mailed' = [mailed EXCEPT ![hview[h].from][hview[h].at] = @ + 1]
        BY <2>1 DEF CallProvider
      <3>3. mailed \in [Deliveries -> [Operators -> Nat]]  BY <1>0 DEF TypeOK
      <3>4. [mailed[hview[h].from] EXCEPT ![hview[h].at] = @ + 1] \in [Operators -> Nat]
        BY <3>1, <3>3
      <3>5. QED BY <3>1, <3>2, <3>3, <3>4
    <2>2. CASE mailed' = mailed  BY <1>0, <2>2 DEF TypeOK
    <2>3. QED
      BY <2>1, <2>2 DEF Router, Route, Lookup, Retire, Discard, Sweep, SpoolMessage, Persist,
           Readback, Recheck, Snapshot, ClaimRecipient, Project, RecordResults, CleanDelivery,
           Refresh, Settle, Enqueue, RouterCrash
  <1>6. beaten' \subseteq Deliveries
    <2>1. [Next]_vars  BY DEF Next
    <2>2. QED BY <1>0, <2>1, BeatenStays DEF TypeOK
  <1>7. QED
    BY <1>0, <1>1, <1>2, <1>3, <1>4, <1>5, <1>6, RouterMoves, RouterKeepsQueue
    DEF TypeOK, RowTyped, Moves

----------------------------------------------------------------------------
(* Claims and e-mails.                                                     *)

\* Steps that touch no recipient and let nobody in between claim and projection.
LEMMA QuietHolds ==
  ASSUME ClaimHeld, MailedHeld, UNCHANGED <<gen, recipient, mailed>>,
         \A k \in Deliveries : Engaged(k)' =>
           Engaged(k) /\ hpc'[k] = hpc[k] /\ hview'[k] = hview[k]
  PROVE  ClaimHeld' /\ MailedHeld'
PROOF BY DEF ClaimHeld, MailedHeld, Engaged

\* A row nobody has claimed anything of, or none, may be replaced: nothing was
\* sent with its token and nobody is about to send.
LEMMA UnclaimedHolds ==
  ASSUME Inv, \A o \in Operators : recipient[o] \in {"none", "pending"}, mailed' = mailed,
         \A k \in Deliveries : Engaged(k)' => Engaged(k)
  PROVE  ClaimHeld' /\ MailedHeld'
PROOF
  <1>1. \A k \in Deliveries : Engaged(k) => hview[k].at \in Operators
    BY DEF Inv, RouterBound, Fits, Engaged
  <1>2. \A k \in Deliveries : ~Engaged(k)  BY <1>1 DEF Inv, ClaimHeld
  <1>3. \A g \in Deliveries, o \in Operators : mailed[g][o] = 0
    BY DEF Inv, MailedHeld, Final
  <1>4. QED BY <1>2, <1>3 DEF ClaimHeld, MailedHeld

LEMMA InsertHolds ==
  ASSUME Inv, NEW g, NEW p, InsertRow(g, p), mailed' = mailed,
         \A k \in Deliveries : Engaged(k)' => Engaged(k)
  PROVE  ClaimHeld' /\ MailedHeld'
PROOF
  <1>1. \A o \in Operators : recipient[o] = "none"
    BY DEF InsertRow, InsertAllowed, Inv, RowBound
  <1>2. QED BY <1>1, UnclaimedHolds

\* The claim of recipient o by h, whether or not h learns of it.
LEMMA ClaimHolds ==
  ASSUME Inv, NEW h \in Deliveries, NEW o \in Operators, Claim(h, o),
         UNCHANGED <<gen, mailed>>,
         \A k \in Deliveries \ {h} : hpc'[k] = hpc[k] /\ hview'[k] = hview[k],
         Engaged(h)' => hview'[h].at = o /\ hview'[h].from = hview[h].from
  PROVE  ClaimHeld' /\ MailedHeld'
PROOF
  <1>1. /\ recipient[o] = "pending" /\ gen = hview[h].from
        /\ recipient' = [recipient EXCEPT ![o] = "sending"]
    BY DEF Claim, ClaimAllowed
  <1>2. \A g \in Deliveries : mailed[g][o] = 0  BY <1>1 DEF Inv, MailedHeld, Final
  <1>3. \A k \in Deliveries : Engaged(k) =>
          hview[k].at \in Operators /\ hview[k].from \in Deliveries /\ hview[k].at # o
    BY <1>1 DEF Inv, ClaimHeld, RouterBound, Fits, Engaged, OnRow
  <1>4. recipient'[o] = "sending" /\ \A u \in Operators \ {o} : recipient'[u] = recipient[u]
    BY <1>1 DEF Inv, TypeOK
  <1>5. \A k \in Deliveries \ {h} : Engaged(k)' => Engaged(k)  BY DEF Engaged
  <1>6. Engaged(h)' => hview'[h].from \in Deliveries
    <2>1. gen # None => gen \in Deliveries  BY DEF Inv, TypeOK
    <2>2. gen # None  BY <1>1 DEF Inv, RowBound
    <2>3. QED BY <1>1, <2>1, <2>2
  <1>7. ASSUME NEW k \in Deliveries, Engaged(k)'
        PROVE  /\ gen' = hview'[k].from
               /\ recipient'[hview'[k].at] = "sending"
               /\ hpc'[k] = "call" => mailed'[hview'[k].from][hview'[k].at] = 0
    <2>1. CASE k = h  BY <1>1, <1>2, <1>4, <1>6, <1>7, <2>1
    <2>2. CASE k # h  BY <1>3, <1>4, <1>5, <1>7, <2>2 DEF Inv, ClaimHeld
    <2>3. QED BY <2>1, <2>2
  <1>8. ASSUME NEW k \in Deliveries, NEW l \in Deliveries, Engaged(k)', Engaged(l)',
               hview'[k].at = hview'[l].at
        PROVE  k = l
    <2>1. CASE k = h \/ l = h  BY <1>3, <1>5, <1>8, <2>1
    <2>2. CASE k # h /\ l # h  BY <1>5, <1>8, <2>2 DEF Inv, ClaimHeld
    <2>3. QED BY <2>1, <2>2
  <1>9. MailedHeld'  BY <1>2, <1>4 DEF Inv, MailedHeld
  <1>10. ClaimHeld'  BY <1>7, <1>8 DEF ClaimHeld
  <1>11. QED BY <1>9, <1>10

LEMMA CallHolds ==
  ASSUME Inv, NEW h \in Deliveries, CallProvider(h)
  PROVE  ClaimHeld' /\ MailedHeld'
PROOF
  <1> DEFINE g == hview[h].from  o == hview[h].at
  <1>1. g \in Deliveries /\ o \in Operators /\ Engaged(h) /\ hpc[h] = "call"
    BY DEF Inv, RouterBound, Fits, CallProvider, OnRow, Engaged
  <1>2. gen = g /\ recipient[o] = "sending" /\ mailed[g][o] = 0  BY <1>1 DEF Inv, ClaimHeld
  <1>3. PICK a \in {"ok", "failed"} : GotoWith(h, "project", [hview[h] EXCEPT !.answer = a])
    BY DEF CallProvider
  <1>4. hview[h] \in HandlerView  BY DEF Inv, TypeOK
  <1>5. SameRow(hview[h], [hview[h] EXCEPT !.answer = a])
        /\ [hview[h] EXCEPT !.answer = a].at = o
    BY <1>4, AnsweredTyped
  <1>6. Moved(h, "project", [hview[h] EXCEPT !.answer = a])
    BY <1>3, <1>5, GotoWithMoves DEF Inv, SameRow, HandlerPc, HandlerActive
  <1>7. /\ hpc'[h] = "project" /\ hview'[h].at = o /\ hview'[h].from = g
        /\ \A k \in Deliveries \ {h} : hpc'[k] = hpc[k] /\ hview'[k] = hview[k]
    BY <1>5, <1>6 DEF Moved, SameRow
  <1>8. mailed'[g][o] \in {0, 1}
        /\ \A k \in Deliveries, u \in Operators :
             k # g \/ u # o => mailed'[k][u] = mailed[k][u]
    BY <1>1, <1>2 DEF CallProvider, Inv, TypeOK
  <1>9. UNCHANGED <<gen, recipient>>  BY DEF CallProvider, row
  <1>10. \A k \in Deliveries : Engaged(k)' =>
           /\ Engaged(k) /\ hview'[k].at = hview[k].at /\ hview'[k].from = hview[k].from
           /\ hpc'[k] = "call" => hpc[k] = "call" /\ k # h
    BY <1>1, <1>7 DEF Engaged
  <1>11. ASSUME NEW k \in Deliveries, Engaged(k)'
         PROVE  /\ gen' = hview'[k].from
                /\ recipient'[hview'[k].at] = "sending"
                /\ hpc'[k] = "call" => mailed'[hview'[k].from][hview'[k].at] = 0
    <2>1. gen' = hview'[k].from /\ recipient'[hview'[k].at] = "sending"
      BY <1>9, <1>10, <1>11 DEF Inv, ClaimHeld
    <2>2. ASSUME hpc'[k] = "call" PROVE mailed'[hview'[k].from][hview'[k].at] = 0
      <3>1. hpc[k] = "call" /\ k # h /\ Engaged(k)  BY <1>10, <1>11, <2>2
      <3>2. hview[k].at \in Operators /\ hview[k].from \in Deliveries /\ hview[k].at # o
            /\ mailed[hview[k].from][hview[k].at] = 0
        BY <1>1, <3>1 DEF Inv, RouterBound, Fits, OnRow, Engaged, ClaimHeld
      <3>3. QED BY <1>8, <1>10, <1>11, <3>2
    <2>3. QED BY <2>1, <2>2
  <1>12. \A k, l \in Deliveries :
           Engaged(k)' /\ Engaged(l)' /\ hview'[k].at = hview'[l].at => k = l
    BY <1>10 DEF Inv, ClaimHeld
  <1>13. ClaimHeld'  BY <1>11, <1>12 DEF ClaimHeld
  <1>14. MailedHeld'
    BY <1>2, <1>8, <1>9 DEF Inv, MailedHeld
  <1>15. QED BY <1>13, <1>14

LEMMA ProjectHolds ==
  ASSUME Inv, NEW h \in Deliveries, Project(h)
  PROVE  ClaimHeld' /\ MailedHeld'
PROOF
  <1> DEFINE o == hview[h].at
  <1>1. o \in Operators /\ Engaged(h)  BY DEF Inv, RouterBound, Fits, Project, Engaged
  <1>2. recipient[o] = "sending"  BY <1>1 DEF Inv, ClaimHeld
  <1>3. recipient'[o] \in Final \cup {"sending"}
        /\ \A u \in Operators \ {o} : recipient'[u] = recipient[u]
    BY <1>1, <1>2 DEF Project, Projection, Final, Inv, TypeOK
  <1>4. UNCHANGED <<gen, mailed>>  BY DEF Project
  <1>5. ~Engaged(h)'
    BY DEF Project, GotoWith, LoopLabel, Engaged, Inv, TypeOK
  <1>6. \A k \in Deliveries \ {h} : hpc'[k] = hpc[k] /\ hview'[k] = hview[k]
    BY DEF Project, GotoWith, Inv, TypeOK
  <1>7. \A k \in Deliveries : Engaged(k)' =>
          k # h /\ Engaged(k) /\ hview'[k] = hview[k] /\ hpc'[k] = hpc[k]
    BY <1>5, <1>6 DEF Engaged
  <1>8. \A k \in Deliveries : Engaged(k)' => hview[k].at \in Operators \ {o}
    BY <1>1, <1>7 DEF Inv, RouterBound, Fits, Engaged, ClaimHeld
  <1>9. ClaimHeld'  BY <1>3, <1>4, <1>7, <1>8 DEF Inv, ClaimHeld
  <1>10. MailedHeld'  BY <1>3, <1>4 DEF Inv, MailedHeld
  <1>11. QED BY <1>9, <1>10

\* Nobody but ClaimRecipient brings an invocation before its call, nobody but
\* CallProvider behind it.
LEMMA RouterDisengages ==
  ASSUME Inv, NEW h \in Deliveries, Router(h), ~ClaimRecipient(h), ~CallProvider(h)
  PROVE  \A k \in Deliveries : Engaged(k)' =>
           Engaged(k) /\ hpc'[k] = hpc[k] /\ hview'[k] = hview[k]
PROOF
  <1>1. ~Engaged(h)'
    BY DEF Router, Route, Lookup, Retire, Discard, Sweep, SpoolMessage, Persist, Readback,
           Recheck, Snapshot, Project, RecordResults, CleanDelivery, Refresh, Settle, Enqueue,
           RouterCrash, Goto, GotoWith, End, LoopLabel, Engaged, Inv, TypeOK
  <1>2. \A k \in Deliveries \ {h} : hpc'[k] = hpc[k] /\ hview'[k] = hview[k]
    BY RouterMoves DEF Moves
  <1>3. QED BY <1>1, <1>2 DEF Engaged

LEMMA RouterHolds ==
  ASSUME Inv, NEW h \in Deliveries, Router(h)
  PROVE  ClaimHeld' /\ MailedHeld'
PROOF
  <1>0. \A k \in Deliveries \ {h} : hpc'[k] = hpc[k] /\ hview'[k] = hview[k]
    BY RouterMoves DEF Moves
  <1>1. CASE ClaimRecipient(h)
    <2> DEFINE v == hview[h]
    <2>0. v \in HandlerView /\ TypeOK  BY DEF Inv, TypeOK
    <2>1. PICK o \in v.todo :
            \/ Claim(h, o) /\ GotoWith(h, "call", [v EXCEPT !.todo = @ \ {o}, !.at = o])
            \/ Claim(h, o) /\ PassOver(h, o)
            \/ UNCHANGED recipient /\ PassOver(h, o)
      BY <1>1 DEF ClaimRecipient
    <2>2. o \in Operators  BY <2>0, <2>1 DEF HandlerView
    <2>3. UNCHANGED <<gen, mailed>>  BY <1>1 DEF ClaimRecipient
    <2>4. CASE Claim(h, o) /\ GotoWith(h, "call", [v EXCEPT !.todo = @ \ {o}, !.at = o])
      <3> DEFINE w == [v EXCEPT !.todo = @ \ {o}, !.at = o]
      <3>1. SameRow(v, w) /\ w.at = o  BY <2>0, <2>2, ClaimedTyped
      <3>2. hview'[h] = w  BY <2>0, <2>4 DEF GotoWith, TypeOK
      <3>3. hview'[h].at = o /\ hview'[h].from = v.from  BY <3>1, <3>2 DEF SameRow
      <3>4. QED BY <1>0, <2>2, <2>3, <2>4, <3>3, ClaimHolds
    <2>5. CASE PassOver(h, o)
      <3>1. ~Engaged(h)'  BY <2>0, <2>5 DEF PassOver, GotoWith, LoopLabel, Engaged, TypeOK
      <3>2. CASE Claim(h, o)  BY <1>0, <2>2, <2>3, <3>1, <3>2, ClaimHolds
      <3>3. CASE UNCHANGED recipient
        BY <1>0, <2>3, <3>1, <3>3, QuietHolds DEF Engaged, Inv
      <3>4. QED BY <2>1, <3>2, <3>3, <2>5, <2>4
    <2>6. QED BY <2>1, <2>4, <2>5
  <1>2. CASE CallProvider(h)  BY <1>2, CallHolds
  <1>3. CASE Project(h)  BY <1>3, ProjectHolds
  <1>4. CASE ~ClaimRecipient(h) /\ ~CallProvider(h) /\ ~Project(h)
    <2>1. \A k \in Deliveries : Engaged(k)' =>
            Engaged(k) /\ hpc'[k] = hpc[k] /\ hview'[k] = hview[k]
      BY <1>4, RouterDisengages
    <2>2. mailed' = mailed
      BY <1>4 DEF Router, Route, Lookup, Retire, Discard, Sweep, SpoolMessage, Persist,
           Readback, Recheck, Snapshot, RecordResults, CleanDelivery, Refresh, Settle,
           Enqueue, RouterCrash
    <2>3. CASE UNCHANGED <<gen, recipient>>
      BY <2>1, <2>2, <2>3, QuietHolds DEF Inv
    <2>4. CASE Discard(h) /\ DiscardAllowed(hview[h].fromPolicy)
      <3>1. \A o \in Operators : recipient[o] \in {"none", "pending"}
        BY <2>4 DEF DiscardAllowed, Recipients
      <3>2. QED BY <2>1, <2>2, <3>1, UnclaimedHolds
    <2>5. CASE Persist(h) /\ InsertRow(h, hview[h].policy)
      BY <2>1, <2>2, <2>5, InsertHolds
    <2>6. QED
      BY <1>4, <2>3, <2>4, <2>5 DEF Router, Route, Lookup, Retire, Discard, Sweep,
           SpoolMessage, Persist, Readback, Recheck, Snapshot, RecordResults, CleanDelivery,
           Refresh, Settle, Enqueue, RouterCrash, row
  <1>5. QED BY <1>1, <1>2, <1>3, <1>4
----------------------------------------------------------------------------
(* The consumer and the environment.                                       *)

\* Neither touches recipients, router invocations or e-mails.
LEMMA OthersQuiet ==
  ASSUME Inv, UNCHANGED <<gen, recipient, mailed, hpc, hview>>
  PROVE  ClaimHeld' /\ MailedHeld'
PROOF BY QuietHolds DEF Inv, Engaged

LEMMA EndTyped ==
  ASSUME Inv, NEW c \in Consumers, cpc[c] # "idle", NEW state \in {"queued", "acked", "dead"},
         EndInvocation(c, state), state = "queued" => tries[cview[c].job] < MaxTries
  PROVE  /\ cpc' \in [Consumers -> ConsumerPc] /\ cview' \in [Consumers -> ConsumerView]
         /\ job' \in [Deliveries -> {"none", "queued", "leased", "acked", "dead"}]
         /\ UNCHANGED <<tries, report>>
         /\ \A h \in Deliveries : job'[h] = "none" <=> job[h] = "none"
         /\ ConsumerBound'
PROOF
  <1>1. cview[c].job \in Deliveries /\ job[cview[c].job] # "none"
    BY DEF Inv, ConsumerBound
  <1>2. NoView \in ConsumerView  BY DEF NoView, ConsumerView
  <1>3. /\ job' = [job EXCEPT ![cview[c].job] = state] /\ cpc' = [cpc EXCEPT ![c] = "idle"]
        /\ cview' = [cview EXCEPT ![c] = NoView] /\ UNCHANGED <<tries, report>>
    BY DEF EndInvocation
  <1>4. \A h \in Deliveries : job'[h] = "none" <=> job[h] = "none"
    BY <1>1, <1>3 DEF Inv, TypeOK
  <1>5. \A h \in Deliveries : job'[h] = "queued" => tries'[h] < MaxTries
    BY <1>1, <1>3 DEF Inv, TypeOK, ConsumerBound
  <1>6. \A d \in Consumers : cpc'[d] # "idle" => cpc[d] # "idle" /\ cview'[d] = cview[d]
    BY <1>3 DEF Inv, TypeOK
  <1>7. ConsumerBound'  BY <1>4, <1>5, <1>6 DEF Inv, ConsumerBound
  <1>8. cpc' \in [Consumers -> ConsumerPc]  BY <1>3 DEF Inv, TypeOK, ConsumerPc
  <1>9. cview' \in [Consumers -> ConsumerView]  BY <1>2, <1>3 DEF Inv, TypeOK
  <1>10. job' \in [Deliveries -> {"none", "queued", "leased", "acked", "dead"}]
    BY <1>1, <1>3 DEF Inv, TypeOK
  <1>11. QED BY <1>3, <1>4, <1>7, <1>8, <1>9, <1>10

LEMMA RedeliverTyped ==
  ASSUME Inv, NEW c \in Consumers, cpc[c] # "idle", Redeliver(c)
  PROVE  /\ cpc' \in [Consumers -> ConsumerPc] /\ cview' \in [Consumers -> ConsumerView]
         /\ job' \in [Deliveries -> {"none", "queued", "leased", "acked", "dead"}]
         /\ UNCHANGED <<tries, report>>
         /\ \A h \in Deliveries : job'[h] = "none" <=> job[h] = "none"
         /\ ConsumerBound'
PROOF BY EndTyped DEF Redeliver, TriesLeft

\* A step within an invocation.
LEMMA StepTyped ==
  ASSUME Inv, NEW c \in Consumers, cpc[c] # "idle", NEW label \in ConsumerPc,
         Step(c, label), NEW v \in ConsumerView, v.job = cview[c].job,
         cview' = [cview EXCEPT ![c] = v], UNCHANGED queue
  PROVE  /\ cpc' \in [Consumers -> ConsumerPc] /\ cview' \in [Consumers -> ConsumerView]
         /\ ConsumerBound'
PROOF
  <1>1. cpc' = [cpc EXCEPT ![c] = label] /\ job' = job /\ tries' = tries  BY DEF Step, queue
  <1>2. cpc' \in [Consumers -> ConsumerPc] /\ cview' \in [Consumers -> ConsumerView]
    BY <1>1 DEF Inv, TypeOK
  <1>3. \A d \in Consumers : cpc'[d] # "idle" => cpc[d] # "idle" /\ cview'[d].job = cview[d].job
    BY <1>1 DEF Inv, TypeOK
  <1>4. QED BY <1>1, <1>2, <1>3 DEF Inv, ConsumerBound

LEMMA StepOnlyTyped ==
  ASSUME Inv, NEW c \in Consumers, cpc[c] # "idle", NEW label \in ConsumerPc,
         Step(c, label), UNCHANGED cview, UNCHANGED queue
  PROVE  /\ cpc' \in [Consumers -> ConsumerPc] /\ cview' \in [Consumers -> ConsumerView]
         /\ ConsumerBound'
PROOF
  <1>1. cview[c] \in ConsumerView /\ cview' = [cview EXCEPT ![c] = cview[c]]
    BY DEF Inv, TypeOK
  <1>2. QED BY <1>1, StepTyped
\* What a consumer step does to jobs and invocations.
QueueKept ==
  /\ cpc' \in [Consumers -> ConsumerPc] /\ cview' \in [Consumers -> ConsumerView]
  /\ job' \in [Deliveries -> {"none", "queued", "leased", "acked", "dead"}]
  /\ tries' \in [Deliveries -> 0..MaxTries] /\ report' = report
  /\ \A h \in Deliveries :
       /\ job'[h] = "none" <=> job[h] = "none"
       /\ job[h] = "none" => tries'[h] = tries[h]
  /\ ConsumerBound'

LEMMA ConsumerKeepsQueue ==
  ASSUME Inv, NEW c \in Consumers, Consumer(c)
  PROVE  QueueKept
PROOF
  <1> USE DEF ConsumerPc, ConsumerActive
  <1>0. TypeOK  BY DEF Inv
  <1>r. ASSUME cpc[c] # "idle", Redeliver(c) PROVE QueueKept
    BY <1>0, <1>r, RedeliverTyped DEF QueueKept, TypeOK
  <1>e. ASSUME cpc[c] # "idle", EndInvocation(c, "acked") PROVE QueueKept
    BY <1>0, <1>e, EndTyped DEF QueueKept, TypeOK
  <1>s. ASSUME cpc[c] # "idle", NEW label \in ConsumerPc, Step(c, label),
               UNCHANGED cview, UNCHANGED queue
        PROVE QueueKept
    BY <1>0, <1>s, StepOnlyTyped DEF QueueKept, TypeOK, queue
  <1>1. CASE Take(c)
    <2>1. PICK h \in Deliveries :
            /\ job[h] = "queued"
            /\ job'   = [job EXCEPT ![h] = "leased"]
            /\ tries' = [tries EXCEPT ![h] = @ + 1]
            /\ cview' = [cview EXCEPT ![c] = [NoView EXCEPT !.job = h]]
      BY <1>1 DEF Take
    <2>2. [NoView EXCEPT !.job = h] \in ConsumerView /\ [NoView EXCEPT !.job = h].job = h
      BY DEF NoView, ConsumerView
    <2>3. tries[h] < MaxTries  BY <2>1 DEF Inv, ConsumerBound
    <2>4. tries' \in [Deliveries -> 0..MaxTries]
      BY <1>0, <2>1, <2>3, InboundConstants DEF TypeOK, InboundConstants
    <2>5. cpc' = [cpc EXCEPT ![c] = "match"] /\ report' = report  BY <1>1 DEF Take, Step
    <2>6. cpc' \in [Consumers -> ConsumerPc] /\ cview' \in [Consumers -> ConsumerView]
      BY <1>0, <2>1, <2>2, <2>5 DEF TypeOK
    <2>7. job' \in [Deliveries -> {"none", "queued", "leased", "acked", "dead"}]
      BY <1>0, <2>1 DEF TypeOK
    <2>8. \A k \in Deliveries :
            /\ job'[k] = "none" <=> job[k] = "none"
            /\ job[k] = "none" => tries'[k] = tries[k]
      BY <1>0, <2>1 DEF TypeOK
    <2>9. \A d \in Consumers \ {c} : cpc'[d] = cpc[d] /\ cview'[d] = cview[d]
      BY <1>0, <2>1, <2>5 DEF TypeOK
    <2>10. cview'[c].job = h  BY <1>0, <2>1, <2>2 DEF TypeOK
    <2>11. job'[h] # "none" /\ \A k \in Deliveries \ {h} : job'[k] = job[k] /\ tries'[k] = tries[k]
      BY <1>0, <2>1 DEF TypeOK
    <2>12. \A d \in Consumers :
             cpc'[d] # "idle" => cview'[d].job \in Deliveries /\ job'[cview'[d].job] # "none"
      BY <2>8, <2>9, <2>10, <2>11 DEF Inv, ConsumerBound
    <2>13. \A k \in Deliveries : job'[k] = "queued" => tries'[k] < MaxTries
      BY <1>0, <2>1, <2>11 DEF TypeOK, Inv, ConsumerBound
    <2>14. ConsumerBound'  BY <2>12, <2>13 DEF ConsumerBound
    <2>15. QED BY <2>4, <2>5, <2>6, <2>7, <2>8, <2>14 DEF QueueKept
  <1>2. CASE Match(c)
    <2> DEFINE accepted == {o \in Operators : recipient[o] = "provider_accepted"}
               w == [cview[c] EXCEPT !.accepted = accepted]
    <2>1. CASE cview' = [cview EXCEPT ![c].accepted = accepted] /\ Step(c, "persist")
               /\ UNCHANGED queue
      <3>1. w \in ConsumerView /\ w.job = cview[c].job  BY <1>0 DEF TypeOK, ConsumerView
      <3>2. cview' = [cview EXCEPT ![c] = w]  BY <2>1
      <3>3. cpc[c] # "idle"  BY <1>2 DEF Match
      <3> HIDE DEF w
      <3>4. QED BY <1>0, <2>1, <3>1, <3>2, <3>3, StepTyped DEF QueueKept, TypeOK, queue
    <2>2. QED BY <1>2, <2>1, <1>e, <1>r DEF Match
  <1>3. CASE PersistProjection(c)  BY <1>3, <1>s, <1>r DEF PersistProjection
  <1>4. CASE DeletePayloads(c)  BY <1>4, <1>s DEF DeletePayloads
  <1>5. CASE DeleteRaw(c)  BY <1>5, <1>s DEF DeleteRaw
  <1>6. CASE RecordReceipt(c)  BY <1>6, <1>s, <1>r DEF RecordReceipt
  <1>7. CASE ClearAuthority(c)  BY <1>7, <1>s, <1>r DEF ClearAuthority
  <1>8. CASE Finish(c)  BY <1>8, <1>e DEF Finish
  <1>9. CASE ConsumerCrash(c)  BY <1>9, <1>r DEF ConsumerCrash
  <1>10. QED
    BY <1>1, <1>2, <1>3, <1>4, <1>5, <1>6, <1>7, <1>8, <1>9 DEF Consumer, Work

LEMMA ConsumerKeepsRow ==
  ASSUME Inv, NEW c \in Consumers, Consumer(c)
  PROVE  /\ UNCHANGED <<gen, rowPolicy, recipient, gates, router, mailed, lapsed>>
         /\ RowTyped' /\ RowBound' /\ receipt' \in Reports
         /\ raw' \subseteq Deliveries /\ payloads' \subseteq Deliveries \X Operators
PROOF
  <1>0. TypeOK /\ RowBound  BY DEF Inv
  <1>1. UNCHANGED <<gen, rowPolicy, recipient, gates, router, mailed, lapsed>>
    BY DEF Consumer, Work, Take, Match, PersistProjection, DeletePayloads, DeleteRaw,
           RecordReceipt, ClearAuthority, Finish, ConsumerCrash, row, bucket
  <1>2. status' \in Aggregates \cup {status}
    <2>1. CASE PersistProjection(c)  BY <2>1, SetStatusTyped DEF PersistProjection
    <2>2. QED
      BY <2>1 DEF Consumer, Work, Take, Match, DeletePayloads, DeleteRaw,
           RecordReceipt, ClearAuthority, Finish, ConsumerCrash, row
  <1>3. keyed' \in BOOLEAN
    BY <1>0 DEF TypeOK, Consumer, Work, Take, Match, PersistProjection, DeletePayloads,
           DeleteRaw, RecordReceipt, ClearAuthority, Finish, ConsumerCrash, row
  <1>4. RowTyped' /\ RowBound'  BY <1>0, <1>1, <1>2, <1>3, UpdateTyped DEF TypeOK
  <1>5. receipt' \in Reports
    <2>1. CASE RecordReceipt(c)
      <3>1. cview[c].job \in Deliveries  BY <2>1 DEF RecordReceipt, Inv, ConsumerBound
      <3>2. Body(c) \in Reports  BY <1>0, <3>1 DEF Body, TypeOK
      <3>3. receipt' = receipt \/ receipt' = Body(c)  BY <2>1 DEF RecordReceipt
      <3>4. QED BY <1>0, <3>2, <3>3 DEF TypeOK
    <2>2. QED
      BY <1>0, <2>1 DEF TypeOK, Consumer, Work, Take, Match, PersistProjection, DeletePayloads,
           DeleteRaw, ClearAuthority, Finish, ConsumerCrash
  <1>6. raw' \subseteq raw /\ payloads' \subseteq payloads
    BY DEF Consumer, Work, Take, Match, PersistProjection, DeletePayloads, DeleteRaw,
           RecordReceipt, ClearAuthority, Finish, ConsumerCrash, bucket
  <1>7. QED BY <1>0, <1>1, <1>4, <1>5, <1>6 DEF TypeOK

----------------------------------------------------------------------------
(* The theorems.                                                           *)

LEMMA InitHolds == Init => Inv
PROOF
  <1> SUFFICES ASSUME Init PROVE Inv
    OBVIOUS
  <1> USE InboundConstants DEF InboundConstants, Init
  <1>1. TypeOK
    <2>1. hview \in [Deliveries -> HandlerView]  BY RoutedTyped
    <2>2. cview \in [Consumers -> ConsumerView]  BY DEF NoView, ConsumerView
    <2>3. receipt \in Reports /\ report \in [Deliveries -> Reports]  BY DEF Reports
    <2>4. cpc \in [Consumers -> ConsumerPc] /\ hpc \in [Deliveries -> HandlerPc]
      BY DEF ConsumerPc, HandlerPc, HandlerActive
    <2>5. mailed \in [Deliveries -> [Operators -> Nat]]  OBVIOUS
    <2>6. tries \in [Deliveries -> 0..MaxTries] /\ changes \in 0..MaxChanges  OBVIOUS
    <2>7. QED BY <2>1, <2>2, <2>3, <2>4, <2>5, <2>6 DEF TypeOK, RecipientStatus
  <1>2. RowBound  BY DEF RowBound
  <1>3. RouterBound  BY DEF RouterBound, Fits, OnRow
  <1>4. ConsumerBound  BY DEF ConsumerBound
  <1>5. ClaimHeld  BY DEF ClaimHeld, Engaged
  <1>6. MailedHeld  BY DEF MailedHeld
  <1>7. QED BY <1>1, <1>2, <1>3, <1>4, <1>5, <1>6 DEF Inv

LEMMA StepHolds == Inv /\ [Next]_vars => Inv'
PROOF
  <1> SUFFICES ASSUME Inv, [Next]_vars PROVE Inv'
    OBVIOUS
  <1>0. beaten' \subseteq Deliveries  BY BeatenStays DEF Inv, TypeOK
  <1>1. ASSUME NEW h \in Deliveries, Router(h) PROVE Inv'
    BY <1>1, RouterTyped, RouterKeepsRow, RouterKeepsQueue, RouterHolds DEF Inv
  <1>2. CASE LateCommit
    <2>1. PICK b \in inflight : InsertRow(b.by, b.policy) /\ inflight' = inflight \ {b}
      BY <1>2 DEF LateCommit
    <2>2. b.by \in Deliveries /\ b.policy \in Policies  BY DEF Inv, TypeOK
    <2>3. UNCHANGED <<receipt, bucket, queue, gates, hpc, hview, consumer, mailed>>
      BY <1>2 DEF LateCommit
    <2>4. RowTyped' /\ RowBound'  BY <2>1, <2>2, InsertTyped
    <2>5. TypeOK'
      BY <1>0, <2>1, <2>3, <2>4 DEF Inv, TypeOK, RowTyped, bucket, queue, gates, consumer
    <2>6. RouterBound' /\ ConsumerBound'
      BY <2>3 DEF Inv, RouterBound, ConsumerBound, queue, consumer
    <2>7. ClaimHeld' /\ MailedHeld'  BY <2>1, <2>3, InsertHolds DEF Engaged
    <2>8. QED BY <2>4, <2>5, <2>6, <2>7 DEF Inv
  <1>3. ASSUME NEW c \in Consumers, Consumer(c) PROVE Inv'
    <2>1. QueueKept  BY <1>3, ConsumerKeepsQueue
    <2>2. /\ UNCHANGED <<gen, rowPolicy, recipient, gates, router, mailed, lapsed>>
          /\ RowTyped' /\ RowBound' /\ receipt' \in Reports
          /\ raw' \subseteq Deliveries /\ payloads' \subseteq Deliveries \X Operators
      BY <1>3, ConsumerKeepsRow
    <2>3. TypeOK'
      BY <1>0, <2>1, <2>2 DEF Inv, TypeOK, RowTyped, QueueKept, gates, router
    <2>4. RouterBound'  BY <2>1, <2>2 DEF Inv, RouterBound, QueueKept, router
    <2>5. ClaimHeld' /\ MailedHeld'  BY <2>2, OthersQuiet DEF router
    <2>6. QED BY <2>1, <2>2, <2>3, <2>4, <2>5 DEF Inv, QueueKept
  <1>4. CASE ActivatePolicy \/ LapsePayload
    <2>1. UNCHANGED <<row, receipt, raw, queue, router, consumer, mailed>>
          /\ changes' \in 0..MaxChanges
      BY <1>4, InboundConstants
      DEF ActivatePolicy, LapsePayload, Change, Inv, TypeOK, InboundConstants
    <2>2. policy' \in Policies /\ payloads' \subseteq Deliveries \X Operators
          /\ lapsed' \subseteq Deliveries \X Operators
      BY <1>4 DEF ActivatePolicy, LapsePayload, Inv, TypeOK
    <2>3. TypeOK'
      BY <1>0, <2>1, <2>2 DEF Inv, TypeOK, row, queue, router, consumer
    <2>4. RowBound' /\ RouterBound' /\ ConsumerBound'
      BY <2>1 DEF Inv, RowBound, RouterBound, ConsumerBound, row, queue, router, consumer
    <2>5. ClaimHeld' /\ MailedHeld'  BY <2>1, OthersQuiet DEF row, router
    <2>6. QED BY <2>3, <2>4, <2>5 DEF Inv
  <1>5. CASE UNCHANGED vars
    <2>1. TypeOK' /\ RowBound' /\ RouterBound' /\ ConsumerBound'
      BY <1>5 DEF Inv, TypeOK, RowBound, RouterBound, ConsumerBound, vars, row, bucket, queue,
                  gates, router, consumer
    <2>2. ClaimHeld' /\ MailedHeld'  BY <1>5, OthersQuiet DEF vars, row, router
    <2>3. QED BY <2>1, <2>2 DEF Inv
  <1>6. QED BY <1>1, <1>2, <1>3, <1>4, <1>5 DEF Next

LEMMA Invariance == Spec => []Inv
PROOF BY InitHolds, StepHolds, PTL DEF Spec

\* Every state the inbound path reaches has its type: in particular a result job
\* is never delivered more often than the Queue allows.
THEOREM InboundTypeCorrect == Spec => []TypeOK
PROOF
  <1>1. Inv => TypeOK  BY DEF Inv
  <1>2. QED BY <1>1, Invariance, PTL

\* Every operator gets a message at most once, for any number of concurrent
\* redeliveries, crashes, lost answers and activations: the claim of a recipient
\* is exclusive, and a row that was claimed cannot be retired.
THEOREM RelayedOnce == Spec => []RelayedAtMostOnce
PROOF
  <1>1. Inv => RelayedAtMostOnce  BY DEF Inv, MailedHeld, RelayedAtMostOnce
  <1>2. QED BY <1>1, Invariance, PTL

\* The reply token in an e-mail that an operator received still resolves.
THEOREM TokensResolve == Spec => []RepliesResolve
PROOF
  <1>1. Inv => RepliesResolve  BY DEF Inv, MailedHeld, RepliesResolve
  <1>2. QED BY <1>1, Invariance, PTL

\* Whether a step moves every recipient forward, if at all.
Forward ==
  \A o \in Operators :
    /\ recipient[o] \in Final => recipient'[o] = recipient[o]
    /\ recipient[o] = "sending" => recipient'[o] \in Final \cup {"sending"}

LEMMA StepForward == Inv /\ [Next]_vars => Forward
PROOF
  <1> SUFFICES ASSUME Inv, [Next]_vars PROVE Forward
    OBVIOUS
  <1>0. TypeOK /\ RowBound  BY DEF Inv
  <1>1. CASE UNCHANGED recipient  BY <1>1 DEF Forward
  <1>2. CASE \A o \in Operators : recipient[o] \in {"none", "pending"}
    BY <1>2 DEF Forward, Final
  <1>3. ASSUME NEW g, NEW p, InsertRow(g, p) PROVE Forward
    BY <1>0, <1>2, <1>3 DEF InsertRow, InsertAllowed, RowBound
  <1>4. ASSUME NEW h \in Deliveries, Router(h) PROVE Forward
    <2>1. CASE Discard(h)
      <3>1. CASE DiscardAllowed(hview[h].fromPolicy)
        BY <1>2, <3>1 DEF DiscardAllowed, Recipients
      <3>2. CASE UNCHANGED row  BY <1>1, <3>2 DEF row
      <3>3. QED BY <2>1, <3>1, <3>2 DEF Discard
    <2>2. CASE Persist(h)  BY <1>1, <1>3, <2>2 DEF Persist, row
    <2>3. CASE ClaimRecipient(h)
      <3>1. recipient' = recipient
            \/ \E o \in hview[h].todo : recipient[o] = "pending"
                                        /\ recipient' = [recipient EXCEPT ![o] = "sending"]
        BY <2>3 DEF ClaimRecipient, Claim, ClaimAllowed
      <3>2. QED BY <1>0, <3>1 DEF Forward, Final, TypeOK
    <2>4. CASE Project(h)
      <3>1. recipient' = recipient
            \/ \E o, s : /\ recipient[o] = "sending" /\ s \in Final \cup {"sending"}
                         /\ recipient' = [recipient EXCEPT ![o] = s]
        BY <2>4 DEF Project, Projection, Final
      <3>2. QED BY <1>0, <3>1 DEF Forward, Final, TypeOK
    <2>5. QED
      BY <1>1, <1>4, <2>1, <2>2, <2>3, <2>4
      DEF Router, Route, Lookup, Retire, Sweep, SpoolMessage, Readback, Recheck, Snapshot,
          CallProvider, RecordResults, CleanDelivery, Refresh, Settle, Enqueue, RouterCrash, row
  <1>5. CASE LateCommit  BY <1>3, <1>5 DEF LateCommit
  <1>6. ASSUME NEW c \in Consumers, Consumer(c) PROVE Forward
    BY <1>1, <1>6, ConsumerKeepsRow
  <1>7. CASE ActivatePolicy \/ LapsePayload \/ UNCHANGED vars
    BY <1>1, <1>7 DEF ActivatePolicy, LapsePayload, Change, vars, row
  <1>8. QED BY <1>4, <1>5, <1>6, <1>7 DEF Next

\* A claimed recipient is never pending again and a final one never changes, so
\* neither a redelivery nor a late batch can have an operator's copy sent anew.
THEOREM ForwardOnly == Spec => RecipientsMoveForward
PROOF
  <1>1. Inv /\ [Next]_vars => [Forward]_vars  BY StepForward
  <1>2. Forward <=> \A o \in Operators :
          /\ recipient[o] \in Final => recipient'[o] = recipient[o]
          /\ recipient[o] = "sending" => recipient'[o] \in Final \cup {"sending"}
    BY DEF Forward
  <1>3. QED BY <1>1, <1>2, Invariance, PTL DEF Spec, RecipientsMoveForward

----------------------------------------------------------------------------
(* What the results say.                                                   *)

\* Recipients that were claimed: a row with one of them is never retired.
Claimed(o) == recipient[o] \in Final \cup {"sending"}

\* The result list of a delivery in which every operator accepted.
Success(r) == Aggregate(r) = "provider_accepted"
AllSent    == Recipients # {} /\ \A o \in Recipients : mailed[gen][o] = 1

\* What is recorded as accepted was sent, and so was everything in an accepted
\* delivery, although its recipients may still be in sending.
SentHeld ==
  /\ gen # None => Recipients = OperatorsOf[rowPolicy]
  /\ \A o \in Operators : recipient[o] = "provider_accepted" => mailed[gen][o] = 1
  /\ \A h \in Deliveries :
       /\ Engaged(h) => rowPolicy = hview[h].fromPolicy
       /\ hpc[h] = "project" /\ hview[h].answer = "ok" => mailed[hview[h].from][hview[h].at] = 1
  /\ status = "provider_accepted" => AllSent

\* A first run visits every recipient of its policy, and what it reports as
\* accepted was sent under the row it inserted.
Visits(h) == hview[h].todo \cup Reported(hview[h].results)
               \cup (IF Engaged(h) THEN {hview[h].at} ELSE {})

FirstRun(h) ==
  /\ hpc[h] \in {"lookup", "spool", "persist", "recheck"} =>
       hview[h].results = NoResults /\ ~hview[h].recovers
  /\ hpc[h] = "record" => ~hview[h].recovers /\ hview[h].todo = {}
  /\ hpc[h] \in {"recheck", "claim", "call", "project", "record"} /\ ~hview[h].recovers =>
       /\ hview[h].fromPolicy = hview[h].policy
       /\ \A o \in Operators : hview[h].results[o] = "ok" =>
            mailed[hview[h].from][o] = 1 /\ rowPolicy = hview[h].policy
  /\ hpc[h] \in {"claim", "call", "project", "record"} /\ ~hview[h].recovers =>
       OperatorsOf[hview[h].policy] \subseteq Visits(h)

\* A success is reported only of a delivery that was sent to everybody.
ReportsHeld ==
  /\ \A h \in Deliveries :
       hpc[h] \in {"settle", "enqueue"} /\ Success(hview[h].results) => AllSent
  /\ \A h \in Deliveries : job[h] # "none" =>
       report[h].gen \in Deliveries /\ (Success(report[h].results) => AllSent)

ResultInv == SentHeld /\ (\A h \in Deliveries : FirstRun(h)) /\ ReportsHeld

----------------------------------------------------------------------------
(* What an acknowledgement says.                                           *)

\* An invocation that may still spool under its name has no row and no batch.
Early(h) ==
  \/ hpc[h] \in {"start", "lookup", "spool", "persist"}
  \/ hpc[h] \in {"retire", "discard", "sweep"} /\ hview[h].from # h

Unborn ==
  \A h \in Deliveries :
    /\ Early(h) => gen # h /\ receipt.gen # h /\ \A b \in inflight : b.by # h
    /\ hpc[h] = "recheck" => hview[h].from = h

\* The match of a result outlives the pointer: its recipients are final.
Agrees(j) ==
  /\ gen = j.gen /\ rowPolicy = j.policy /\ j.gen \in Deliveries
  /\ Recipients = Reported(j.results)
  /\ \A o \in Recipients :
       \/ j.results[o] = "ok" /\ recipient[o] = "provider_accepted"
       \/ j.results[o] \in {"failed", "open"} /\ recipient[o] = "recovery_required"

\* The raw message is deleted before the receipt, the receipt written before
\* the pointer is cleared, and that before the acknowledgement.
CleanHeld ==
  /\ receipt # NoReport => Agrees(receipt) /\ receipt.gen \notin raw
  /\ \A c \in Consumers :
       /\ cpc[c] \in ConsumerActive \ {"match"} => Agrees(Body(c))
       /\ cpc[c] \in {"receipt", "clear"} => Body(c).gen \notin raw
       /\ cpc[c] = "done" /\ Success(Body(c).results) => Body(c).gen \notin raw /\ ~keyed
  /\ \A h \in Deliveries : job[h] = "acked" /\ Success(report[h].results) =>
       Agrees(report[h]) /\ report[h].gen \notin raw /\ ~keyed

CleanInv == Unborn /\ CleanHeld
----------------------------------------------------------------------------
(* What a step leaves of a row somebody has claimed something of.          *)

\* The row is still the same one; its pointer may be cleared, not set.
RowKept ==
  /\ UNCHANGED <<gen, rowPolicy>>
  /\ keyed' => keyed
  /\ Recipients' = Recipients

RowReplaced == \E g \in Deliveries, p \in Policies : InsertRow(g, p)
RowRetired  == DeleteRow /\ \A o \in Operators : recipient[o] \in {"none", "pending"}

LEMMA SameRecipients ==
  ASSUME \A o \in Operators : recipient'[o] = "none" <=> recipient[o] = "none"
  PROVE  Recipients' = Recipients
PROOF BY DEF Recipients

\* A step keeps the row, inserts one where there was none, or retires one
\* nobody has claimed anything of.
LEMMA RowSteps ==
  ASSUME Inv, [Next]_vars
  PROVE  RowKept \/ RowReplaced \/ RowRetired
PROOF
  <1>0. TypeOK /\ RowBound  BY DEF Inv
  <1>1. CASE UNCHANGED <<gen, rowPolicy, recipient>> /\ (keyed' => keyed)
    BY <1>1, SameRecipients DEF RowKept
  <1>2. ASSUME NEW h \in Deliveries, Router(h) PROVE RowKept \/ RowReplaced \/ RowRetired
    <2>0. Fits(hpc[h], hview[h])  BY DEF Inv, RouterBound
    <2>1. CASE Discard(h)
      <3>1. CASE DiscardAllowed(hview[h].fromPolicy) /\ DeleteRow
        BY <3>1 DEF DiscardAllowed, Recipients, RowRetired
      <3>2. CASE UNCHANGED row  BY <1>1, <3>2 DEF row
      <3>3. QED BY <2>1, <3>1, <3>2 DEF Discard
    <2>2. CASE Persist(h)
      <3>1. hview[h].policy \in Policies  BY <2>0, <2>2 DEF Persist, Fits, HandlerActive
      <3>2. CASE InsertRow(h, hview[h].policy)  BY <3>1, <3>2 DEF RowReplaced
      <3>3. CASE UNCHANGED row  BY <1>1, <3>3 DEF row
      <3>4. QED BY <2>2, <3>2, <3>3 DEF Persist
    <2>3. CASE ClaimRecipient(h)
      <3>1. UNCHANGED <<gen, rowPolicy, keyed>>  BY <2>3 DEF ClaimRecipient
      <3>2. recipient' = recipient
            \/ \E o \in hview[h].todo : recipient[o] = "pending"
                                        /\ recipient' = [recipient EXCEPT ![o] = "sending"]
        BY <2>3 DEF ClaimRecipient, Claim, ClaimAllowed
      <3>3. \A o \in Operators : recipient'[o] = "none" <=> recipient[o] = "none"
        BY <1>0, <3>2 DEF TypeOK
      <3>4. QED BY <3>1, <3>3, SameRecipients DEF RowKept
    <2>4. CASE Project(h)
      <3>1. UNCHANGED <<gen, rowPolicy, keyed>>  BY <2>4 DEF Project
      <3>2. recipient' = recipient
            \/ \E o, s : /\ recipient[o] = "sending" /\ s \in Final \cup {"sending"}
                         /\ recipient' = [recipient EXCEPT ![o] = s]
        BY <2>4 DEF Project, Projection, Final
      <3>3. \A o \in Operators : recipient'[o] = "none" <=> recipient[o] = "none"
        BY <1>0, <3>2 DEF TypeOK, Final
      <3>4. QED BY <3>1, <3>3, SameRecipients DEF RowKept
    <2>5. CASE CleanDelivery(h)
      BY <1>0, <1>1, <2>5 DEF CleanDelivery, TypeOK
    <2>6. QED
      BY <1>1, <1>2, <2>1, <2>2, <2>3, <2>4, <2>5
      DEF Router, Route, Lookup, Retire, Sweep, SpoolMessage, Readback, Recheck, Snapshot,
          CallProvider, RecordResults, Refresh, Settle, Enqueue, RouterCrash, row
  <1>3. CASE LateCommit
    <2>1. PICK b \in inflight : InsertRow(b.by, b.policy)  BY <1>3 DEF LateCommit
    <2>2. b.by \in Deliveries /\ b.policy \in Policies  BY <1>0 DEF TypeOK
    <2>3. QED BY <2>1, <2>2 DEF RowReplaced
  <1>4. ASSUME NEW c \in Consumers, Consumer(c) PROVE RowKept
    <2>1. UNCHANGED <<gen, rowPolicy, recipient>>  BY <1>4, ConsumerKeepsRow
    <2>2. keyed' => keyed
      BY <1>4 DEF Consumer, Work, Take, Match, PersistProjection, DeletePayloads, DeleteRaw,
           RecordReceipt, ClearAuthority, Finish, ConsumerCrash, row
    <2>3. QED BY <2>1, <2>2, SameRecipients DEF RowKept
  <1>5. CASE ActivatePolicy \/ LapsePayload \/ UNCHANGED vars
    BY <1>1, <1>5 DEF ActivatePolicy, LapsePayload, Change, vars, row
  <1>6. QED BY <1>2, <1>3, <1>4, <1>5 DEF Next

\* Neither happens to a row with a claimed recipient.
LEMMA ClaimedStays ==
  ASSUME Inv, [Next]_vars, NEW o \in Operators, Claimed(o)
  PROVE  RowKept /\ Claimed(o)'
PROOF
  <1>1. recipient[o] # "none" /\ recipient[o] # "pending" /\ gen # None
    BY DEF Claimed, Final, Inv, RowBound
  <1>2. RowKept  BY <1>1, RowSteps DEF RowReplaced, InsertRow, InsertAllowed, RowRetired
  <1>3. Forward  BY StepForward
  <1>4. Claimed(o)'  BY <1>3 DEF Forward, Claimed, Final
  <1>5. QED BY <1>2, <1>4

\* Only a call adds an e-mail, and to the one it holds.
LEMMA MailSteps ==
  ASSUME Inv, [Next]_vars
  PROVE  mailed' = mailed \/ \E h \in Deliveries : CallProvider(h)
PROOF
  <1>1. ASSUME NEW h \in Deliveries, Router(h), ~CallProvider(h) PROVE mailed' = mailed
    BY <1>1 DEF Router, Route, Lookup, Retire, Discard, Sweep, SpoolMessage, Persist,
         Readback, Recheck, Snapshot, ClaimRecipient, Project, RecordResults, CleanDelivery,
         Refresh, Settle, Enqueue, RouterCrash
  <1>2. ASSUME NEW c \in Consumers, Consumer(c) PROVE mailed' = mailed
    BY <1>2, ConsumerKeepsRow
  <1>3. QED
    BY <1>1, <1>2 DEF Next, LateCommit, ActivatePolicy, LapsePayload, Change, vars

\* What was sent stays sent, and its row stays.
LEMMA SentStays ==
  ASSUME Inv, [Next]_vars, NEW g \in Deliveries, NEW o \in Operators, mailed[g][o] = 1
  PROVE  mailed'[g][o] = 1 /\ gen = g /\ Claimed(o) /\ RowKept
PROOF
  <1>1. gen = g /\ Claimed(o)
    <2>1. mailed[g][o] > 0  OBVIOUS
    <2>2. QED BY <2>1 DEF Inv, MailedHeld, Claimed
  <1>2. RowKept  BY <1>1, ClaimedStays
  <1>3. ASSUME NEW h \in Deliveries, CallProvider(h) PROVE mailed'[g][o] = 1
    <2>1. hview[h].from \in Deliveries /\ hview[h].at \in Operators /\ Engaged(h)
      BY <1>3 DEF Inv, RouterBound, Fits, CallProvider, OnRow, Engaged
    <2>2. mailed[hview[h].from][hview[h].at] = 0
      BY <1>3, <2>1 DEF Inv, ClaimHeld, CallProvider
    <2>3. mailed' = mailed \/ mailed' = [mailed EXCEPT ![hview[h].from][hview[h].at] = @ + 1]
      BY <1>3 DEF CallProvider
    <2>4. mailed \in [Deliveries -> [Operators -> Nat]]  BY DEF Inv, TypeOK
    <2>5. hview[h].from # g \/ hview[h].at # o  BY <2>2
    <2>6. QED BY <2>1, <2>3, <2>4, <2>5
  <1>4. mailed'[g][o] = 1  BY <1>3, MailSteps
  <1>5. QED BY <1>1, <1>2, <1>4

LEMMA AllSentStays ==
  ASSUME Inv, [Next]_vars, AllSent
  PROVE  AllSent' /\ RowKept
PROOF
  <1>1. PICK o \in Operators : o \in Recipients  BY DEF AllSent, Recipients
  <1>2. gen \in Deliveries  BY <1>1 DEF Inv, RowBound, TypeOK, Recipients
  <1>3. RowKept  BY <1>1, <1>2, SentStays DEF AllSent
  <1>4. \A u \in Recipients : u \in Operators /\ mailed'[gen][u] = 1
    BY <1>2, SentStays DEF AllSent, Recipients
  <1>5. QED BY <1>1, <1>3, <1>4 DEF AllSent, RowKept

\* An invocation's own steps are the only ones that touch it.
LEMMA HandlerSteps ==
  ASSUME Inv, [Next]_vars, NEW h \in Deliveries
  PROVE  Router(h) \/ (hpc'[h] = hpc[h] /\ hview'[h] = hview[h])
PROOF
  <1>1. ASSUME NEW k \in Deliveries \ {h}, Router(k)
        PROVE  hpc'[h] = hpc[h] /\ hview'[h] = hview[h]
    BY <1>1, RouterMoves DEF Moves
  <1>2. ASSUME NEW c \in Consumers, Consumer(c) PROVE hpc' = hpc /\ hview' = hview
    BY <1>2, ConsumerKeepsRow DEF router
  <1>3. QED
    BY <1>1, <1>2 DEF Next, LateCommit, ActivatePolicy, LapsePayload, Change, vars, router

\* Who is between claim and projection after a step was there already, has made
\* the claim, or the call.
LEMMA EngagedSteps ==
  ASSUME Inv, [Next]_vars, NEW h \in Deliveries, Engaged(h)'
  PROVE  \/ Engaged(h) /\ hpc'[h] = hpc[h] /\ hview'[h] = hview[h]
         \/ ClaimRecipient(h)
         \/ CallProvider(h)
PROOF
  <1>1. CASE Router(h)  BY <1>1, RouterDisengages
  <1>2. CASE hpc'[h] = hpc[h] /\ hview'[h] = hview[h]  BY <1>2 DEF Engaged
  <1>3. QED BY <1>1, <1>2, HandlerSteps

\* A claim that brings its invocation to the call, in detail.
LEMMA ClaimSteps ==
  ASSUME Inv, NEW h \in Deliveries, ClaimRecipient(h), Engaged(h)'
  PROVE  \E o \in hview[h].todo :
           /\ o \in Operators /\ Claim(h, o) /\ hpc'[h] = "call"
           /\ hview'[h] = [hview[h] EXCEPT !.todo = @ \ {o}, !.at = o]
PROOF
  <1> DEFINE v == hview[h]
  <1>0. TypeOK /\ v \in HandlerView  BY DEF Inv, TypeOK
  <1>1. PICK o \in v.todo :
          \/ Claim(h, o) /\ GotoWith(h, "call", [v EXCEPT !.todo = @ \ {o}, !.at = o])
          \/ PassOver(h, o)
    BY DEF ClaimRecipient
  <1>2. ~PassOver(h, o)  BY <1>0 DEF PassOver, GotoWith, LoopLabel, Engaged, TypeOK
  <1>3. o \in Operators  BY <1>0, <1>1 DEF HandlerView
  <1>4. hpc'[h] = "call" /\ hview'[h] = [v EXCEPT !.todo = @ \ {o}, !.at = o]
    BY <1>0, <1>1, <1>2 DEF GotoWith, TypeOK
  <1>5. QED BY <1>1, <1>2, <1>3, <1>4

\* A recipient becomes accepted by the projection of an acceptance.
LEMMA AcceptSteps ==
  ASSUME Inv, [Next]_vars, NEW o \in Operators, recipient'[o] = "provider_accepted",
         recipient[o] # "provider_accepted"
  PROVE  \E h \in Deliveries : Project(h) /\ hview[h].at = o /\ hview[h].answer = "ok"
PROOF
  <1>0. TypeOK  BY DEF Inv
  <1>1. ~UNCHANGED recipient  BY <1>0 DEF TypeOK
  <1>2. ASSUME NEW g, NEW p, InsertRow(g, p) PROVE FALSE  BY <1>2 DEF InsertRow
  <1>3. ~UNCHANGED row /\ ~UNCHANGED vars  BY <1>1 DEF row, vars
  <1>4. ASSUME NEW h \in Deliveries, Router(h)
        PROVE  Project(h) /\ hview[h].at = o /\ hview[h].answer = "ok"
    <2>1. ~Discard(h)  BY <1>3 DEF Discard, DeleteRow
    <2>2. ~Persist(h)  BY <1>2, <1>3 DEF Persist
    <2>3. ~ClaimRecipient(h)
      <3>1. ASSUME NEW u, Claim(h, u) PROVE FALSE  BY <1>0, <3>1 DEF Claim, TypeOK
      <3>2. QED BY <1>1, <3>1 DEF ClaimRecipient
    <2>4. Project(h)
      BY <1>1, <1>3, <1>4, <2>1, <2>2, <2>3
      DEF Router, Route, Lookup, Retire, Sweep, SpoolMessage, Readback, Recheck, Snapshot,
          CallProvider, RecordResults, CleanDelivery, Refresh, Settle, Enqueue, RouterCrash
    <2>5. PICK after \in Projection(hview[h].answer, hview[h].recovers) :
            recipient' = IF recipient[hview[h].at] = "sending"
                         THEN [recipient EXCEPT ![hview[h].at] = after] ELSE recipient
      BY <2>4 DEF Project
    <2>6. hview[h].at = o /\ after = "provider_accepted"  BY <1>0, <1>1, <2>5 DEF TypeOK
    <2>7. QED BY <2>4, <2>6 DEF Projection
  <1>5. ASSUME NEW c \in Consumers, Consumer(c) PROVE FALSE
    BY <1>1, <1>5, ConsumerKeepsRow
  <1>6. QED
    BY <1>2, <1>3, <1>4, <1>5 DEF Next, LateCommit, ActivatePolicy, LapsePayload, Change

----------------------------------------------------------------------------
(* The results.                                                            *)

\* A row has a recipient at least.
LEMMA RowExists ==
  ASSUME Inv, ResultInv, gen # None
  PROVE  gen \in Deliveries /\ Recipients # {} /\ Recipients \subseteq Operators
PROOF
  <1>1. gen \in Deliveries /\ rowPolicy \in Policies  BY DEF Inv, TypeOK, RowBound
  <1>2. Recipients = OperatorsOf[rowPolicy]  BY DEF ResultInv, SentHeld
  <1>3. QED BY <1>1, <1>2, InboundConstants DEF InboundConstants

LEMMA WholeStep ==
  ASSUME Inv, ResultInv, [Next]_vars
  PROVE  (gen # None => Recipients = OperatorsOf[rowPolicy])'
PROOF
  <1>1. CASE RowKept  BY <1>1 DEF RowKept, ResultInv, SentHeld
  <1>2. CASE RowReplaced
    <2>1. PICK g \in Deliveries, p \in Policies : InsertRow(g, p)  BY <1>2 DEF RowReplaced
    <2>2. OperatorsOf[p] \subseteq Operators  BY InboundConstants DEF InboundConstants
    <2>3. rowPolicy' = p /\ \A o \in Operators : recipient'[o] # "none" <=> o \in OperatorsOf[p]
      BY <2>1 DEF InsertRow
    <2>4. QED BY <2>2, <2>3 DEF Recipients
  <1>3. CASE RowRetired  BY <1>3 DEF RowRetired, DeleteRow
  <1>4. QED BY <1>1, <1>2, <1>3, RowSteps

LEMMA AcceptedStep ==
  ASSUME Inv, ResultInv, [Next]_vars, NEW o \in Operators, recipient'[o] = "provider_accepted"
  PROVE  mailed'[gen'][o] = 1
PROOF
  <1>1. CASE recipient[o] = "provider_accepted"
    <2>1. mailed[gen][o] = 1  BY <1>1 DEF ResultInv, SentHeld
    <2>2. gen \in Deliveries  BY <1>1 DEF Inv, RowBound, TypeOK
    <2>3. mailed'[gen][o] = 1 /\ RowKept  BY <2>1, <2>2, SentStays
    <2>4. QED BY <2>3 DEF RowKept
  <1>2. CASE recipient[o] # "provider_accepted"
    <2>1. PICK h \in Deliveries : Project(h) /\ hview[h].at = o /\ hview[h].answer = "ok"
      BY <1>2, AcceptSteps
    <2>2. hview[h].from \in Deliveries /\ mailed[hview[h].from][o] = 1
      BY <2>1 DEF Project, Inv, RouterBound, Fits, OnRow, ResultInv, SentHeld
    <2>3. mailed'[gen][o] = 1 /\ RowKept  BY <2>2, SentStays
    <2>4. QED BY <2>3 DEF RowKept
  <1>3. QED BY <1>1, <1>2

LEMMA HeldStep ==
  ASSUME Inv, ResultInv, [Next]_vars, NEW h \in Deliveries
  PROVE  /\ Engaged(h)' => rowPolicy' = hview'[h].fromPolicy
         /\ hpc'[h] = "project" /\ hview'[h].answer = "ok" =>
              mailed'[hview'[h].from][hview'[h].at] = 1
PROOF
  <1> SUFFICES ASSUME Engaged(h)'
               PROVE  /\ rowPolicy' = hview'[h].fromPolicy
                      /\ hpc'[h] = "project" /\ hview'[h].answer = "ok" =>
                           mailed'[hview'[h].from][hview'[h].at] = 1
    BY DEF Engaged
  <1>0. hview[h] \in HandlerView /\ TypeOK  BY DEF Inv, TypeOK
  <1>1. CASE Engaged(h) /\ hpc'[h] = hpc[h] /\ hview'[h] = hview[h]
    <2>1. hview[h].from \in Deliveries /\ hview[h].at \in Operators
      BY <1>1 DEF Inv, RouterBound, Fits, OnRow, Engaged
    <2>2. Claimed(hview[h].at)  BY <1>1 DEF Inv, ClaimHeld, Claimed
    <2>3. RowKept  BY <2>1, <2>2, ClaimedStays
    <2>4. rowPolicy' = hview'[h].fromPolicy  BY <1>1, <2>3 DEF RowKept, ResultInv, SentHeld
    <2>5. ASSUME hpc[h] = "project", hview[h].answer = "ok"
          PROVE  mailed'[hview[h].from][hview[h].at] = 1
      BY <2>1, <2>5, SentStays DEF ResultInv, SentHeld
    <2>6. QED BY <1>1, <2>4, <2>5
  <1>2. CASE ClaimRecipient(h)
    <2>1. PICK o \in hview[h].todo :
            /\ o \in Operators /\ Claim(h, o) /\ hpc'[h] = "call"
            /\ hview'[h] = [hview[h] EXCEPT !.todo = @ \ {o}, !.at = o]
      BY <1>2, ClaimSteps
    <2>2. hview'[h].fromPolicy = hview[h].fromPolicy  BY <1>0, <2>1 DEF HandlerView
    <2>3. rowPolicy' = hview[h].fromPolicy
      BY <1>2, <2>1 DEF Claim, ClaimAllowed, ClaimRecipient
    <2>4. QED BY <2>1, <2>2, <2>3
  <1>3. CASE CallProvider(h)
    <2>1. hview[h].from \in Deliveries /\ hview[h].at \in Operators /\ Engaged(h)
          /\ hpc[h] = "call"
      BY <1>3 DEF CallProvider, Inv, RouterBound, Fits, OnRow, Engaged
    <2>2. mailed[hview[h].from][hview[h].at] = 0  BY <2>1 DEF Inv, ClaimHeld
    <2>3. PICK answer \in {"ok", "failed"}, sent \in BOOLEAN :
            /\ answer = "ok" => sent
            /\ mailed' = IF sent THEN [mailed EXCEPT ![hview[h].from][hview[h].at] = @ + 1]
                         ELSE mailed
            /\ GotoWith(h, "project", [hview[h] EXCEPT !.answer = answer])
      BY <1>3 DEF CallProvider
    <2>4. hview'[h] = [hview[h] EXCEPT !.answer = answer]  BY <1>0, <2>3 DEF GotoWith, TypeOK
    <2>5. /\ hview'[h].from = hview[h].from /\ hview'[h].at = hview[h].at
          /\ hview'[h].fromPolicy = hview[h].fromPolicy /\ hview'[h].answer = answer
      BY <1>0, <2>4 DEF HandlerView
    <2>6. rowPolicy' = hview[h].fromPolicy
      BY <1>3, <2>1 DEF CallProvider, row, ResultInv, SentHeld
    <2>7. mailed \in [Deliveries -> [Operators -> Nat]]  BY <1>0 DEF TypeOK
    <2>8. answer = "ok" => mailed'[hview[h].from][hview[h].at] = 1
      BY <2>1, <2>2, <2>3, <2>7
    <2>9. QED BY <2>5, <2>6, <2>8
  <1>4. QED BY <1>1, <1>2, <1>3, EngagedSteps

\* The labels at which FirstRun says something.
FirstLabels == {"lookup", "spool", "persist", "recheck", "claim", "call", "project", "record"}

\* An invocation that does not move keeps what it knows: what it has seen
\* accepted keeps the row alive.
LEMMA FirstRunKept ==
  ASSUME Inv, ResultInv, [Next]_vars, NEW h \in Deliveries,
         hpc'[h] = hpc[h], hview'[h] = hview[h]
  PROVE  FirstRun(h)'
PROOF
  <1>0. FirstRun(h)  BY DEF ResultInv
  <1>1. ASSUME hpc[h] \in {"recheck", "claim", "call", "project", "record"},
               ~hview[h].recovers, NEW o \in Operators, hview[h].results[o] = "ok"
        PROVE  mailed'[hview[h].from][o] = 1 /\ rowPolicy' = hview[h].policy
    <2>1. mailed[hview[h].from][o] = 1 /\ rowPolicy = hview[h].policy
      BY <1>0, <1>1 DEF FirstRun
    <2>2. hview[h].from \in Deliveries  BY <1>1 DEF Inv, RouterBound, Fits, OnRow
    <2>3. QED BY <2>1, <2>2, SentStays DEF RowKept
  <1>2. Visits(h)' = Visits(h)  BY DEF Visits, Engaged, Reported
  <1>3. QED BY <1>0, <1>1, <1>2 DEF FirstRun

\* The loop of a first run: from one visit to the next.
LEMMA FirstRunClaims ==
  ASSUME Inv, ResultInv, NEW h \in Deliveries, ClaimRecipient(h)
  PROVE  FirstRun(h)'
PROOF
  <1> DEFINE v == hview[h]
  <1>0. TypeOK /\ v \in HandlerView /\ FirstRun(h) /\ hpc[h] = "claim"
    BY DEF Inv, TypeOK, ResultInv, ClaimRecipient
  <1>f. UNCHANGED <<rowPolicy, mailed>>  BY DEF ClaimRecipient
  <1>1. PICK o \in v.todo :
          \/ GotoWith(h, "call", [v EXCEPT !.todo = @ \ {o}, !.at = o])
          \/ PassOver(h, o)
    BY DEF ClaimRecipient
  <1>2. o \in Operators  BY <1>0, <1>1 DEF HandlerView
  <1>3. CASE GotoWith(h, "call", [v EXCEPT !.todo = @ \ {o}, !.at = o])
    <2> DEFINE w == [v EXCEPT !.todo = @ \ {o}, !.at = o]
    <2>1. hpc'[h] = "call" /\ hview'[h] = w  BY <1>0, <1>3 DEF GotoWith, TypeOK
    <2>2. /\ w.results = v.results /\ w.recovers = v.recovers /\ w.from = v.from
          /\ w.policy = v.policy /\ w.fromPolicy = v.fromPolicy
          /\ w.todo = v.todo \ {o} /\ w.at = o
      BY <1>0 DEF HandlerView
    <2> HIDE DEF w
    <2>3. Visits(h)' = (v.todo \ {o}) \cup Reported(v.results) \cup {o}
      BY <2>1, <2>2 DEF Visits, Engaged, Reported
    <2>4. Visits(h) = v.todo \cup Reported(v.results)  BY <1>0 DEF Visits, Engaged
    <2>5. Visits(h)' = Visits(h)  BY <1>1, <2>3, <2>4
    <2>6. QED BY <1>0, <1>f, <2>1, <2>2, <2>5 DEF FirstRun
  <1>4. CASE PassOver(h, o)
    <2> DEFINE e == IF v.recovers THEN v.results[o] ELSE "unclaimed"
               w == [v EXCEPT !.todo = @ \ {o}, !.results[o] = e]
    <2>1. hpc'[h] = LoopLabel(w) /\ hview'[h] = w
      BY <1>0, <1>4 DEF PassOver, GotoWith, TypeOK
    <2>2. /\ w.recovers = v.recovers /\ w.from = v.from
          /\ w.policy = v.policy /\ w.fromPolicy = v.fromPolicy
          /\ w.todo = v.todo \ {o} /\ w.results = [v.results EXCEPT ![o] = e]
      BY <1>0 DEF HandlerView
    <2>3. v.results \in [Operators -> Entries]  BY <1>0 DEF HandlerView, Results
    <2> HIDE DEF w
    <2>4. hpc'[h] \in {"claim", "refresh", "record"}
          /\ (hpc'[h] = "record" => ~w.recovers /\ w.todo = {})
      BY <2>1 DEF LoopLabel
    <2>5. ASSUME ~v.recovers PROVE FirstRun(h)'
      <3>1. e = "unclaimed"  BY <2>5
      <3>2. \A u \in Operators : w.results[u] = "ok" => v.results[u] = "ok"
        BY <1>2, <2>2, <2>3, <3>1
      <3>3. Reported(w.results) = Reported(v.results) \cup {o}
        BY <1>2, <2>2, <2>3, <3>1 DEF Reported
      <3>4. Visits(h)' = (v.todo \ {o}) \cup Reported(v.results) \cup {o}
        <4>1. ~Engaged(h)'  BY <2>4 DEF Engaged
        <4>2. Visits(h)' = w.todo \cup Reported(w.results)
          BY <2>1, <4>1 DEF Visits, Reported
        <4>3. QED BY <2>2, <3>3, <4>2
      <3>5. Visits(h) = v.todo \cup Reported(v.results)  BY <1>0 DEF Visits, Engaged
      <3>6. Visits(h)' = Visits(h)  BY <1>1, <3>4, <3>5
      <3>7. QED BY <1>0, <1>f, <2>1, <2>2, <2>4, <3>2, <3>6 DEF FirstRun
    <2>6. ASSUME v.recovers PROVE FirstRun(h)'
      BY <2>1, <2>2, <2>4, <2>6 DEF FirstRun
    <2>7. QED BY <2>5, <2>6
  <1>5. QED BY <1>1, <1>3, <1>4

LEMMA FirstRunCalls ==
  ASSUME Inv, ResultInv, [Next]_vars, NEW h \in Deliveries, CallProvider(h)
  PROVE  FirstRun(h)'
PROOF
  <1> DEFINE v == hview[h]
  <1>0. TypeOK /\ v \in HandlerView /\ FirstRun(h) /\ hpc[h] = "call"
    BY DEF Inv, TypeOK, ResultInv, CallProvider
  <1>1. PICK a \in {"ok", "failed"} : GotoWith(h, "project", [v EXCEPT !.answer = a])
    BY DEF CallProvider
  <1> DEFINE w == [v EXCEPT !.answer = a]
  <1>2. hpc'[h] = "project" /\ hview'[h] = w  BY <1>0, <1>1 DEF GotoWith, TypeOK
  <1>3. /\ w.results = v.results /\ w.recovers = v.recovers /\ w.from = v.from
        /\ w.policy = v.policy /\ w.fromPolicy = v.fromPolicy
        /\ w.todo = v.todo /\ w.at = v.at
    BY <1>0 DEF HandlerView
  <1> HIDE DEF w
  <1>4. Visits(h)' = Visits(h)  BY <1>0, <1>2, <1>3 DEF Visits, Engaged, Reported
  <1>5. v.from \in Deliveries  BY <1>0 DEF Inv, RouterBound, Fits, OnRow
  <1>6. \A g \in Deliveries, o \in Operators : mailed[g][o] = 1 => mailed'[g][o] = 1
    BY SentStays
  <1>7. rowPolicy' = rowPolicy  BY DEF CallProvider, row
  <1>8. QED BY <1>0, <1>2, <1>3, <1>4, <1>5, <1>6, <1>7 DEF FirstRun

LEMMA FirstRunProjects ==
  ASSUME Inv, ResultInv, NEW h \in Deliveries, Project(h)
  PROVE  FirstRun(h)'
PROOF
  <1> DEFINE v == hview[h]
             o == v.at
             e == IF v.recovers THEN v.results[o] ELSE v.answer
             w == [v EXCEPT !.at = None, !.answer = "none", !.results[o] = e]
  <1>0. TypeOK /\ v \in HandlerView /\ FirstRun(h) /\ hpc[h] = "project" /\ Engaged(h)
    BY DEF Inv, TypeOK, ResultInv, Project, Engaged
  <1>1. o \in Operators /\ v.answer \in {"ok", "failed"} /\ v.from \in Deliveries
    BY <1>0 DEF Inv, RouterBound, Fits, OnRow
  <1>f. UNCHANGED <<rowPolicy, mailed>>  BY DEF Project
  <1>2. hpc'[h] = LoopLabel(w) /\ hview'[h] = w  BY <1>0 DEF Project, GotoWith, TypeOK
  <1>3. /\ w.recovers = v.recovers /\ w.from = v.from
        /\ w.policy = v.policy /\ w.fromPolicy = v.fromPolicy
        /\ w.todo = v.todo /\ w.results = [v.results EXCEPT ![o] = e]
    BY <1>0 DEF HandlerView
  <1>4. v.results \in [Operators -> Entries]  BY <1>0 DEF HandlerView, Results
  <1> HIDE DEF w
  <1>5. hpc'[h] \in {"claim", "refresh", "record"}
        /\ (hpc'[h] = "record" => ~w.recovers /\ w.todo = {})
    BY <1>2 DEF LoopLabel
  <1>6. ASSUME ~v.recovers PROVE FirstRun(h)'
    <2>1. e = v.answer  BY <1>6
    <2>2. rowPolicy = v.policy /\ (v.answer = "ok" => mailed[v.from][o] = 1)
      BY <1>0, <1>6 DEF FirstRun, ResultInv, SentHeld
    <2>3. \A u \in Operators : w.results[u] = "ok" =>
            mailed[v.from][u] = 1 /\ rowPolicy = v.policy
      BY <1>0, <1>1, <1>3, <1>4, <1>6, <2>1, <2>2 DEF FirstRun
    <2>4. Reported(w.results) = Reported(v.results) \cup {o}
      BY <1>1, <1>3, <1>4, <2>1 DEF Reported
    <2>5. Visits(h)' = v.todo \cup Reported(v.results) \cup {o}
      <3>1. ~Engaged(h)'  BY <1>5 DEF Engaged
      <3>2. Visits(h)' = w.todo \cup Reported(w.results)
        BY <1>2, <3>1 DEF Visits, Reported
      <3>3. QED BY <1>3, <2>4, <3>2
    <2>6. Visits(h)' = Visits(h)  BY <1>0, <2>5 DEF Visits
    <2>7. QED BY <1>0, <1>f, <1>2, <1>3, <1>5, <1>6, <2>3, <2>6 DEF FirstRun
  <1>7. ASSUME v.recovers PROVE FirstRun(h)'  BY <1>2, <1>3, <1>5, <1>7 DEF FirstRun
  <1>8. QED BY <1>6, <1>7

\* Where a first run begins: nothing is reported, everybody is to be visited.
LEMMA FirstRunBegins ==
  ASSUME Inv, ResultInv, NEW h \in Deliveries,
         \/ Route(h) \/ Lookup(h) \/ Sweep(h) \/ SpoolMessage(h) \/ Persist(h)
         \/ Recheck(h) \/ Snapshot(h)
  PROVE  FirstRun(h)'
PROOF
  <1> DEFINE v == hview[h]
  <1>0. TypeOK /\ v \in HandlerView /\ FirstRun(h)  BY DEF Inv, TypeOK, ResultInv
  <1>q. ASSUME hpc'[h] \notin FirstLabels PROVE FirstRun(h)'
    BY <1>q DEF FirstRun, FirstLabels
  <1>e. ASSUME NEW label, label \notin FirstLabels, NEW w, GotoWith(h, label, w)
        PROVE  FirstRun(h)'
    BY <1>0, <1>q, <1>e DEF GotoWith, TypeOK
  <1>x. ASSUME NEW label \in {"accepted", "refused", "dropped"}, End(h, label)
        PROVE  FirstRun(h)'
    BY <1>e, <1>x DEF End, FirstLabels
  <1>s. ASSUME NEW label \in {"retire", "snapshot", "readback"}, Goto(h, label)
        PROVE  FirstRun(h)'
    BY <1>0, <1>q, <1>s DEF Goto, TypeOK, FirstLabels
  <1>b. ASSUME NEW label \in {"lookup", "spool", "persist"}, NEW w, w.results = NoResults,
               ~w.recovers, GotoWith(h, label, w)
        PROVE  FirstRun(h)'
    BY <1>0, <1>b DEF GotoWith, TypeOK, FirstRun
  <1>n. \A p : /\ [NoHandling EXCEPT !.policy = p].results = NoResults
               /\ ~[NoHandling EXCEPT !.policy = p].recovers
    BY DEF NoHandling
  <1>o. \A o \in Operators : NoResults[o] # "ok"  BY DEF NoResults
  <1>1. CASE Route(h)  BY <1>1, <1>b, <1>n, <1>x DEF Route
  <1>2. CASE Lookup(h)
    <2>1. CASE Goto(h, "spool")
      <3>1. hpc'[h] = "spool" /\ hview'[h] = v  BY <1>0, <2>1 DEF Goto, TypeOK
      <3>2. v.results = NoResults /\ ~v.recovers  BY <1>0, <1>2 DEF Lookup, FirstRun
      <3>3. QED BY <3>1, <3>2 DEF FirstRun
    <2>2. QED BY <1>2, <1>e, <1>x, <2>1 DEF Lookup, FirstLabels
  <1>3. CASE Sweep(h)  BY <1>3, <1>b, <1>n, <1>x DEF Sweep
  <1>4. CASE SpoolMessage(h)
    <2>1. CASE Goto(h, "persist")
      <3>1. hpc'[h] = "persist" /\ hview'[h] = v  BY <1>0, <2>1 DEF Goto, TypeOK
      <3>2. v.results = NoResults /\ ~v.recovers  BY <1>0, <1>4 DEF SpoolMessage, FirstRun
      <3>3. QED BY <3>1, <3>2 DEF FirstRun
    <2>2. QED BY <1>4, <1>x, <2>1 DEF SpoolMessage
  <1>5. CASE Persist(h)
    <2> DEFINE w == [v EXCEPT !.from = h, !.fromPolicy = v.policy, !.fromKeyed = TRUE]
    <2>1. CASE GotoWith(h, "recheck", w)
      <3>1. hpc'[h] = "recheck" /\ hview'[h] = w  BY <1>0, <2>1 DEF GotoWith, TypeOK
      <3>2. v.results = NoResults /\ ~v.recovers  BY <1>0, <1>5 DEF Persist, FirstRun
      <3>3. /\ w.results = NoResults /\ ~w.recovers
            /\ w.fromPolicy = w.policy
        BY <1>0, <3>2 DEF HandlerView
      <3> HIDE DEF w
      <3>4. QED BY <1>o, <3>1, <3>3 DEF FirstRun
    <2>2. QED BY <1>5, <1>s, <2>1 DEF Persist
  <1>6. CASE Recheck(h)
    <2> DEFINE w == [v EXCEPT !.todo = OperatorsOf[v.policy]]
    <2>1. CASE GotoWith(h, "claim", w)
      <3>1. hpc'[h] = "claim" /\ hview'[h] = w  BY <1>0, <2>1 DEF GotoWith, TypeOK
      <3>2. v.results = NoResults /\ ~v.recovers /\ v.fromPolicy = v.policy
        BY <1>0, <1>6 DEF Recheck, FirstRun
      <3>3. /\ w.results = NoResults /\ ~w.recovers
            /\ w.fromPolicy = w.policy /\ w.todo = OperatorsOf[w.policy]
        BY <1>0, <3>2 DEF HandlerView
      <3> HIDE DEF w
      <3>4. OperatorsOf[w.policy] \subseteq Visits(h)'
        <4>1. w.todo \subseteq Visits(h)'  BY <3>1 DEF Visits
        <4>2. QED BY <3>3, <4>1
      <3>5. QED BY <1>o, <3>1, <3>3, <3>4 DEF FirstRun
    <2>2. QED BY <1>6, <1>s, <2>1 DEF Recheck
  <1>7. CASE Snapshot(h)
    <2>1. PICK t \in SUBSET Operators, label \in {"refresh", "claim"} :
            GotoWith(h, label, [v EXCEPT !.todo = t, !.keys = None, !.recovers = TRUE])
      BY <1>7 DEF Snapshot
    <2> DEFINE w == [v EXCEPT !.todo = t, !.keys = None, !.recovers = TRUE]
    <2>2. hpc'[h] = label /\ hview'[h] = w  BY <1>0, <2>1 DEF GotoWith, TypeOK
    <2>3. w.recovers  BY <1>0 DEF HandlerView
    <2>4. QED BY <2>1, <2>2, <2>3 DEF FirstRun
  <1>8. QED BY <1>1, <1>2, <1>3, <1>4, <1>5, <1>6, <1>7

LEMMA FirstRunStep ==
  ASSUME Inv, ResultInv, [Next]_vars, NEW h \in Deliveries
  PROVE  FirstRun(h)'
PROOF
  <1>0. TypeOK  BY DEF Inv
  <1>1. CASE hpc'[h] = hpc[h] /\ hview'[h] = hview[h]  BY <1>1, FirstRunKept
  <1>2. CASE \/ Retire(h) \/ Discard(h) \/ Readback(h) \/ RecordResults(h) \/ CleanDelivery(h)
             \/ Refresh(h) \/ Settle(h) \/ Enqueue(h) \/ RouterCrash(h)
    <2>1. hpc'[h] \notin FirstLabels
      BY <1>0, <1>2
      DEF Retire, Discard, Readback, RecordResults, CleanDelivery, Refresh, Settle, Enqueue,
          RouterCrash, Goto, GotoWith, End, TypeOK, FirstLabels
    <2>2. QED BY <2>1 DEF FirstRun, FirstLabels
  <1>3. QED
    BY <1>1, <1>2, HandlerSteps, FirstRunBegins, FirstRunClaims, FirstRunCalls,
       FirstRunProjects DEF Router

\* What a first run reports as a complete success reached everybody.
LEMMA RecordedIsSent ==
  ASSUME Inv, ResultInv, NEW h \in Deliveries, hpc[h] = "record", Success(hview[h].results)
  PROVE  AllSent /\ rowPolicy = hview[h].policy /\ gen # None
PROOF
  <1> DEFINE v == hview[h]
  <1>0. FirstRun(h) /\ v.from \in Deliveries /\ v.policy \in Policies
    BY DEF ResultInv, Inv, RouterBound, Fits, OnRow, HandlerActive
  <1>1. v.todo = {} /\ ~v.recovers  BY <1>0 DEF FirstRun
  <1>2. AcceptedIn(v.results) # {} /\ AcceptedIn(v.results) = Reported(v.results)
    BY DEF Success, Aggregate
  <1>3. \A o \in AcceptedIn(v.results) : mailed[v.from][o] = 1 /\ rowPolicy = v.policy
    BY <1>0, <1>1 DEF FirstRun, AcceptedIn
  <1>4. OperatorsOf[v.policy] \subseteq Reported(v.results)
    BY <1>0, <1>1 DEF FirstRun, Visits, Engaged
  <1>5. PICK o \in Operators : mailed[v.from][o] = 1  BY <1>2, <1>3 DEF AcceptedIn
  <1>6. gen = v.from
    <2>1. mailed[v.from][o] > 0  BY <1>5
    <2>2. QED BY <1>0, <2>1 DEF Inv, MailedHeld
  <1>7. gen # None  BY <1>0, <1>6, InboundConstants DEF InboundConstants
  <1>8. Recipients = OperatorsOf[v.policy]  BY <1>2, <1>3, <1>7 DEF ResultInv, SentHeld
  <1>9. Recipients # {}  BY <1>7, RowExists
  <1>10. QED BY <1>2, <1>3, <1>4, <1>6, <1>7, <1>8, <1>9 DEF AllSent

\* So is what a recovery reads back.
LEMMA RefreshedIsSent ==
  ASSUME Inv, ResultInv, NEW r, r = [o \in Operators |-> Entry(recipient[o])], Success(r)
  PROVE  AllSent
PROOF
  <1>1. AcceptedIn(r) # {} /\ AcceptedIn(r) = Reported(r)  BY DEF Success, Aggregate
  <1>2. \A o \in Operators : recipient[o] \in RecipientStatus  BY DEF Inv, TypeOK
  <1>3. \A o \in Operators :
          /\ r[o] = "ok" => recipient[o] = "provider_accepted"
          /\ recipient[o] # "none" => r[o] # "none"
    BY <1>2 DEF Entry, RecipientStatus
  <1>4. Recipients \subseteq AcceptedIn(r) /\ Recipients # {}
    BY <1>1, <1>3 DEF Recipients, Reported, AcceptedIn
  <1>5. \A o \in Recipients : mailed[gen][o] = 1
    BY <1>3, <1>4 DEF AcceptedIn, ResultInv, SentHeld
  <1>6. QED BY <1>4, <1>5 DEF AllSent

\* The three statements that write the aggregate write it of a result list that
\* is recorded, read back, or reported.
LEMMA StatusSteps ==
  ASSUME Inv, ResultInv, [Next]_vars, status' = "provider_accepted",
         status # "provider_accepted"
  PROVE  AllSent
PROOF
  <1>0. TypeOK  BY DEF Inv
  <1>1. ASSUME NEW h \in Deliveries, RecordResults(h) PROVE AllSent
    <2>1. Success(hview[h].results)  BY <1>1 DEF RecordResults, SetStatus, Success
    <2>2. QED BY <1>1, <2>1, RecordedIsSent DEF RecordResults
  <1>2. ASSUME NEW h \in Deliveries, Settle(h) PROVE AllSent
    <2>1. Success(hview[h].results)  BY <1>2 DEF Settle, Success
    <2>2. QED BY <1>2, <2>1 DEF Settle, ResultInv, ReportsHeld
  <1>3. ASSUME NEW c \in Consumers, PersistProjection(c) PROVE AllSent
    <2>1. Success(Body(c).results)  BY <1>3 DEF PersistProjection, SetStatus, Success
    <2>2. cview[c].job \in Deliveries /\ job[cview[c].job] # "none"
      BY <1>3 DEF PersistProjection, Inv, ConsumerBound
    <2>3. QED BY <2>1, <2>2 DEF Body, ResultInv, ReportsHeld
  <1>4. ~UNCHANGED row /\ ~UNCHANGED status /\ ~UNCHANGED vars  BY DEF row, vars
  <1>5. ASSUME NEW g, NEW p, InsertRow(g, p) PROVE FALSE  BY <1>5 DEF InsertRow
  <1>6. ~DeleteRow  BY DEF DeleteRow
  <1>7. ASSUME NEW h \in Deliveries, Router(h), ~RecordResults(h), ~Settle(h) PROVE FALSE
    BY <1>4, <1>5, <1>6, <1>7
    DEF Router, Route, Lookup, Retire, Discard, Sweep, SpoolMessage, Persist, Readback,
        Recheck, Snapshot, ClaimRecipient, CallProvider, Project, CleanDelivery, Refresh,
        Enqueue, RouterCrash, row
  <1>8. ASSUME NEW c \in Consumers, Consumer(c), ~PersistProjection(c) PROVE FALSE
    BY <1>4, <1>8
    DEF Consumer, Work, Take, Match, DeletePayloads, DeleteRaw, RecordReceipt, ClearAuthority,
        Finish, ConsumerCrash, row
  <1>9. QED
    BY <1>1, <1>2, <1>3, <1>4, <1>5, <1>7, <1>8
    DEF Next, LateCommit, ActivatePolicy, LapsePayload, Change, row

LEMMA SentStep ==
  ASSUME Inv, ResultInv, [Next]_vars
  PROVE  SentHeld'
PROOF
  <1>1. (gen # None => Recipients = OperatorsOf[rowPolicy])'  BY WholeStep
  <1>2. \A o \in Operators : recipient'[o] = "provider_accepted" => mailed'[gen'][o] = 1
    BY AcceptedStep
  <1>3. \A h \in Deliveries :
          /\ Engaged(h)' => rowPolicy' = hview'[h].fromPolicy
          /\ hpc'[h] = "project" /\ hview'[h].answer = "ok" =>
               mailed'[hview'[h].from][hview'[h].at] = 1
    BY HeldStep
  <1>4. ASSUME status' = "provider_accepted" PROVE AllSent'
    <2>1. AllSent  BY <1>4, StatusSteps DEF ResultInv, SentHeld
    <2>2. QED BY <2>1, AllSentStays
  <1>5. QED BY <1>1, <1>2, <1>3, <1>4 DEF SentHeld

\* A job's body is written once, by the delivery that enqueues it.
LEMMA ReportSteps ==
  ASSUME Inv, [Next]_vars, NEW h \in Deliveries
  PROVE  \/ /\ job'[h] = "none" <=> job[h] = "none"
            /\ report'[h] = report[h]
         \/ /\ hpc[h] = "enqueue" /\ job[h] = "none" /\ job'[h] = "queued"
            /\ report'[h] = [gen |-> hview[h].from, policy |-> hview[h].fromPolicy,
                             results |-> hview[h].results]
PROOF
  <1>0. TypeOK  BY DEF Inv
  <1>1. CASE UNCHANGED queue  BY <1>1 DEF queue
  <1>2. ASSUME NEW k \in Deliveries, Enqueue(k)
        PROVE  \/ job'[h] = job[h] /\ report'[h] = report[h]
               \/ /\ k = h /\ hpc[h] = "enqueue" /\ job'[h] = "queued"
                  /\ report'[h] = [gen |-> hview[h].from, policy |-> hview[h].fromPolicy,
                                   results |-> hview[h].results]
    BY <1>0, <1>2 DEF Enqueue, TypeOK
  <1>3. ASSUME NEW k \in Deliveries, Router(k), ~Enqueue(k) PROVE UNCHANGED queue
    BY <1>3
    DEF Router, Route, Lookup, Retire, Discard, Sweep, SpoolMessage, Persist, Readback,
        Recheck, Snapshot, ClaimRecipient, CallProvider, Project, RecordResults, CleanDelivery,
        Refresh, Settle, RouterCrash
  <1>4. hpc[h] = "enqueue" => job[h] = "none"  BY DEF Inv, RouterBound, HandlerActive
  <1>5. ASSUME NEW c \in Consumers, Consumer(c)
        PROVE  (job'[h] = "none" <=> job[h] = "none") /\ report' = report
    BY <1>5, ConsumerKeepsQueue DEF QueueKept
  <1>6. QED
    BY <1>1, <1>2, <1>3, <1>4, <1>5
    DEF Next, LateCommit, ActivatePolicy, LapsePayload, Change, vars

LEMMA ReportsStep ==
  ASSUME Inv, ResultInv, [Next]_vars
  PROVE  ReportsHeld'
PROOF
  <1>0. TypeOK  BY DEF Inv
  <1>1. ASSUME NEW h \in Deliveries, hpc'[h] \in {"settle", "enqueue"},
               Success(hview'[h].results)
        PROVE  AllSent'
    <2>1. CASE hpc'[h] = hpc[h] /\ hview'[h] = hview[h]
      BY <1>1, <2>1, AllSentStays DEF ResultInv, ReportsHeld
    <2>2. CASE RecordResults(h)
      <3>1. hview'[h] = hview[h]
        BY <1>0, <1>1, <2>2 DEF RecordResults, Goto, End, GotoWith, TypeOK
      <3>2. QED BY <1>1, <2>2, <3>1, RecordedIsSent, AllSentStays DEF RecordResults
    <2>3. CASE Refresh(h)
      <3> DEFINE r == [o \in Operators |-> Entry(recipient[o])]
      <3>1. hview'[h].results = r  BY <1>0, <2>3 DEF Refresh, GotoWith, TypeOK, HandlerView
      <3> HIDE DEF r
      <3>2. AllSent  BY <1>1, <3>1, RefreshedIsSent DEF r
      <3>3. QED BY <3>2, AllSentStays
    <2>4. CASE Settle(h)
      <3>1. hview'[h] = hview[h]
        BY <1>0, <1>1, <2>4 DEF Settle, Goto, End, GotoWith, TypeOK
      <3>2. QED BY <1>1, <2>4, <3>1, AllSentStays DEF Settle, ResultInv, ReportsHeld
    <2>5. CASE Router(h) /\ ~RecordResults(h) /\ ~Refresh(h) /\ ~Settle(h)
      BY <1>0, <1>1, <2>5
      DEF Router, Route, Lookup, Retire, Discard, Sweep, SpoolMessage, Persist, Readback,
          Recheck, Snapshot, ClaimRecipient, PassOver, CallProvider, Project, CleanDelivery,
          Enqueue, RouterCrash, Goto, GotoWith, End, LoopLabel, TypeOK
    <2>6. QED BY <2>1, <2>2, <2>3, <2>4, <2>5, HandlerSteps
  <1>2. ASSUME NEW h \in Deliveries, job'[h] # "none"
        PROVE  report'[h].gen \in Deliveries /\ (Success(report'[h].results) => AllSent')
    <2>1. CASE job[h] # "none" /\ report'[h] = report[h]
      BY <2>1, AllSentStays DEF ResultInv, ReportsHeld
    <2>2. CASE /\ hpc[h] = "enqueue"
               /\ report'[h] = [gen |-> hview[h].from, policy |-> hview[h].fromPolicy,
                                results |-> hview[h].results]
      <3>1. hview[h].from \in Deliveries  BY <2>2 DEF Inv, RouterBound, Fits, OnRow
      <3>2. Success(hview[h].results) => AllSent  BY <2>2 DEF ResultInv, ReportsHeld
      <3>3. QED BY <2>2, <3>1, <3>2, AllSentStays
    <2>3. QED BY <1>2, <2>1, <2>2, ReportSteps
  <1>3. QED BY <1>1, <1>2 DEF ReportsHeld

LEMMA ResultStep ==
  ASSUME Inv, ResultInv, [Next]_vars
  PROVE  ResultInv'
PROOF BY SentStep, FirstRunStep, ReportsStep DEF ResultInv

LEMMA ResultInit == Init => ResultInv
PROOF
  <1> SUFFICES ASSUME Init PROVE ResultInv
    OBVIOUS
  <1>1. SentHeld  BY DEF Init, SentHeld, Engaged
  <1>2. \A h \in Deliveries : FirstRun(h)  BY DEF Init, FirstRun
  <1>3. ReportsHeld  BY DEF Init, ReportsHeld
  <1>4. QED BY <1>1, <1>2, <1>3 DEF ResultInv

LEMMA ResultInvariance == Spec => []ResultInv
PROOF BY ResultInit, ResultStep, Invariance, PTL DEF Spec

\* What the row calls accepted was sent, to each recipient it calls accepted and,
\* in an accepted delivery, to every one: whichever of the three writers wrote it.
THEOREM AcceptanceIsRelayed == Spec => []AcceptedWasRelayed
PROOF
  <1>1. ResultInv => AcceptedWasRelayed
    BY DEF ResultInv, SentHeld, AllSent, AcceptedWasRelayed, Recipients
  <1>2. QED BY <1>1, ResultInvariance, PTL

----------------------------------------------------------------------------
(* The clean-up.                                                           *)

\* A row a result agreed with goes on agreeing with it.
LEMMA AgreesStays ==
  ASSUME Inv, ResultInv, [Next]_vars
  PROVE  \A j : Agrees(j) => /\ gen' = j.gen /\ rowPolicy' = j.policy /\ RowKept
                             /\ \A o \in Recipients : recipient'[o] = recipient[o]
PROOF
  <1> SUFFICES ASSUME NEW j, Agrees(j)
               PROVE  /\ gen' = j.gen /\ rowPolicy' = j.policy /\ RowKept
                      /\ \A o \in Recipients : recipient'[o] = recipient[o]
    OBVIOUS
  <1>1. gen # None  BY InboundConstants DEF Agrees, InboundConstants
  <1>2. PICK o \in Recipients : o \in Operators  BY <1>1, RowExists
  <1>3. \A u \in Recipients : u \in Operators /\ recipient[u] \in Final
    BY DEF Agrees, Final, Recipients
  <1>4. RowKept  BY <1>2, <1>3, ClaimedStays DEF Claimed
  <1>5. Forward  BY StepForward
  <1>6. \A u \in Recipients : recipient'[u] = recipient[u]  BY <1>3, <1>5 DEF Forward
  <1>7. QED BY <1>4, <1>6 DEF Agrees, RowKept

LEMMA AgreesKept ==
  ASSUME Inv, ResultInv, [Next]_vars
  PROVE  \A j : Agrees(j) => Agrees(j)'
PROOF
  <1> SUFFICES ASSUME NEW j, Agrees(j) PROVE Agrees(j)'
    OBVIOUS
  <1>1. /\ gen' = j.gen /\ rowPolicy' = j.policy /\ RowKept
        /\ \A o \in Recipients : recipient'[o] = recipient[o]
    BY AgreesStays
  <1>2. Reported(j.results)' = Reported(j.results)  BY DEF Reported
  <1>3. QED BY <1>1, <1>2 DEF Agrees, RowKept

\* Only an invocation that is about to commit its own generation spools it.
LEMMA RawSteps ==
  ASSUME Inv, [Next]_vars, NEW g \in raw', g \notin raw
  PROVE  g \in Deliveries /\ Early(g)
PROOF
  <1>1. ASSUME UNCHANGED raw PROVE FALSE  BY <1>1
  <1>2. ASSUME NEW objects, NEW generations, Delete(objects, generations) PROVE FALSE
    BY <1>2 DEF Delete
  <1>3. ASSUME NEW h \in Deliveries, Router(h) PROVE g = h /\ Early(h)
    <2>1. CASE SpoolMessage(h)  BY <2>1 DEF SpoolMessage, Early
    <2>2. CASE ~SpoolMessage(h)
      BY <1>1, <1>2, <1>3, <2>2
      DEF Router, Route, Lookup, Retire, Discard, Sweep, Persist, Readback, Recheck, Snapshot,
          ClaimRecipient, CallProvider, Project, RecordResults, CleanDelivery, Refresh, Settle,
          Enqueue, RouterCrash, bucket
    <2>3. QED BY <2>1, <2>2
  <1>4. ASSUME NEW c \in Consumers, Consumer(c) PROVE FALSE
    BY <1>4
    DEF Consumer, Work, Take, Match, PersistProjection, DeletePayloads, DeleteRaw,
        RecordReceipt, ClearAuthority, Finish, ConsumerCrash, bucket
  <1>5. QED
    BY <1>1, <1>3, <1>4 DEF Next, LateCommit, ActivatePolicy, LapsePayload, Change, vars, bucket

\* So the raw message of the row's own generation does not come back.
LEMMA GoneStays ==
  ASSUME Inv, Unborn, [Next]_vars, gen \notin raw
  PROVE  gen \notin raw'
PROOF BY RawSteps DEF Unborn

LEMMA GenSteps ==
  ASSUME Inv, [Next]_vars, NEW h \in Deliveries, gen' = h, gen # h
  PROVE  \/ Persist(h)
         \/ \E b \in inflight : b.by = h
PROOF
  <1>0. h # None  BY InboundConstants DEF InboundConstants
  <1>1. ASSUME NEW k \in Deliveries, Router(k) PROVE k = h /\ Persist(h)
    <2>1. ~Discard(k)  BY <1>0 DEF Discard, DeleteRow, row
    <2>2. Persist(k)
      BY <1>1, <2>1
      DEF Router, Route, Lookup, Retire, Sweep, SpoolMessage, Readback, Recheck, Snapshot,
          ClaimRecipient, CallProvider, Project, RecordResults, CleanDelivery, Refresh, Settle,
          Enqueue, RouterCrash, row
    <2>3. QED BY <2>2 DEF Persist, InsertRow, row
  <1>2. CASE LateCommit  BY <1>2 DEF LateCommit, InsertRow
  <1>3. ASSUME NEW c \in Consumers, Consumer(c) PROVE FALSE  BY <1>3, ConsumerKeepsRow
  <1>4. QED
    BY <1>1, <1>2, <1>3 DEF Next, ActivatePolicy, LapsePayload, Change, vars, row

LEMMA InflightSteps ==
  ASSUME Inv, [Next]_vars, NEW b \in inflight', b \notin inflight
  PROVE  b.by \in Deliveries /\ Persist(b.by) /\ hpc'[b.by] = "readback"
PROOF
  <1>0. TypeOK  BY DEF Inv
  <1>1. ASSUME NEW h \in Deliveries, Router(h)
        PROVE  b.by = h /\ Persist(h) /\ hpc'[h] = "readback"
    <2>1. Persist(h)
      BY <1>1
      DEF Router, Route, Lookup, Retire, Discard, Sweep, SpoolMessage, Readback, Recheck,
          Snapshot, ClaimRecipient, CallProvider, Project, RecordResults, CleanDelivery,
          Refresh, Settle, Enqueue, RouterCrash
    <2>2. inflight' \in {inflight, inflight \cup {[by |-> h, policy |-> hview[h].policy]}}
          /\ Goto(h, "readback")
      BY <2>1 DEF Persist
    <2>3. QED BY <1>0, <2>1, <2>2 DEF Goto, TypeOK
  <1>2. ASSUME NEW c \in Consumers, Consumer(c) PROVE FALSE
    BY <1>2, ConsumerKeepsRow DEF router
  <1>3. QED
    BY <1>1, <1>2 DEF Next, LateCommit, ActivatePolicy, LapsePayload, Change, vars, router

\* An invocation does not go back to before its commit.
LEMMA EarlySteps ==
  ASSUME Inv, Unborn, [Next]_vars, NEW h \in Deliveries, Early(h)'
  PROVE  Early(h) /\ ~Persist(h)
PROOF
  <1> DEFINE v == hview[h]
  <1>0. TypeOK /\ v \in HandlerView  BY DEF Inv, TypeOK
  <1>1. ~Persist(h)
    BY <1>0 DEF Persist, GotoWith, Goto, TypeOK, Early
  <1>2. CASE hpc'[h] = hpc[h] /\ hview'[h] = hview[h]  BY <1>1, <1>2 DEF Early
  <1>3. CASE Retire(h)
    <2>1. CASE GotoWith(h, "discard", [v EXCEPT !.keys = gen])
      <3>1. hpc'[h] = "discard" /\ hview'[h].from = v.from
        BY <1>0, <2>1 DEF GotoWith, TypeOK, HandlerView
      <3>2. QED BY <1>1, <1>3, <3>1 DEF Early, Retire
    <2>2. CASE Goto(h, "snapshot")  BY <1>0, <1>1, <2>2 DEF Goto, TypeOK, Early
    <2>3. QED BY <1>3, <2>1, <2>2 DEF Retire
  <1>4. CASE Discard(h)
    <2>1. hview' = hview /\ hpc[h] = "discard" /\ hpc'[h] \in {"sweep", "snapshot"}
      BY <1>0, <1>4 DEF Discard, Goto, TypeOK
    <2>2. QED BY <1>1, <2>1 DEF Early
  <1>5. CASE Sweep(h)  BY <1>0, <1>1, <1>5 DEF Sweep, End, GotoWith, TypeOK, Early
  <1>6. CASE Recheck(h)
    <2>1. v.from = h  BY <1>6 DEF Recheck, Unborn
    <2>2. CASE Goto(h, "retire")  BY <1>0, <1>1, <2>1, <2>2 DEF Goto, TypeOK, Early
    <2>3. hpc'[h] \in {"claim", "retire", "snapshot"}
      BY <1>0, <1>6 DEF Recheck, Goto, GotoWith, TypeOK
    <2>4. QED BY <1>0, <1>1, <1>6, <2>2, <2>3 DEF Recheck, Early, Goto, GotoWith, TypeOK
  <1>7. CASE Route(h) \/ Lookup(h) \/ SpoolMessage(h)
    BY <1>1, <1>7 DEF Route, Lookup, SpoolMessage, Early
  <1>8. CASE \/ Readback(h) \/ Snapshot(h) \/ ClaimRecipient(h) \/ CallProvider(h) \/ Project(h)
             \/ RecordResults(h) \/ CleanDelivery(h) \/ Refresh(h) \/ Settle(h) \/ Enqueue(h)
             \/ RouterCrash(h)
    <2>1. hpc'[h] \notin {"start", "lookup", "spool", "persist", "retire", "discard", "sweep"}
      BY <1>0, <1>8
      DEF Readback, Snapshot, ClaimRecipient, PassOver, CallProvider, Project, RecordResults,
          CleanDelivery, Refresh, Settle, Enqueue, RouterCrash, Goto, GotoWith, End, LoopLabel,
          TypeOK
    <2>2. QED BY <1>1, <2>1 DEF Early
  <1>9. QED
    BY <1>1, <1>2, <1>3, <1>4, <1>5, <1>6, <1>7, <1>8, HandlerSteps DEF Router

\* The receipt is written by one statement, about the job it belongs to.
LEMMA ReceiptSteps ==
  ASSUME Inv, [Next]_vars, receipt' # receipt
  PROVE  \E c \in Consumers : RecordReceipt(c) /\ receipt' = Body(c)
PROOF
  <1>1. ASSUME NEW h \in Deliveries, Router(h) PROVE FALSE
    BY <1>1
    DEF Router, Route, Lookup, Retire, Discard, Sweep, SpoolMessage, Persist, Readback,
        Recheck, Snapshot, ClaimRecipient, CallProvider, Project, RecordResults, CleanDelivery,
        Refresh, Settle, Enqueue, RouterCrash
  <1>2. ASSUME NEW c \in Consumers, Consumer(c) PROVE RecordReceipt(c) /\ receipt' = Body(c)
    <2>1. RecordReceipt(c)
      BY <1>2 DEF Consumer, Work, Take, Match, PersistProjection, DeletePayloads, DeleteRaw,
                  ClearAuthority, Finish, ConsumerCrash
    <2>2. QED BY <2>1 DEF RecordReceipt
  <1>3. QED
    BY <1>1, <1>2 DEF Next, LateCommit, ActivatePolicy, LapsePayload, Change, vars

LEMMA UnbornStep ==
  ASSUME Inv, CleanInv, [Next]_vars
  PROVE  Unborn'
PROOF
  <1>0. Unborn /\ TypeOK  BY DEF CleanInv, Inv
  <1>1. ASSUME NEW h \in Deliveries, Early(h)'
        PROVE  gen' # h /\ receipt'.gen # h /\ \A b \in inflight' : b.by # h
    <2>0. Early(h) /\ ~Persist(h)  BY <1>0, <1>1, EarlySteps
    <2>1. gen # h /\ receipt.gen # h /\ \A b \in inflight : b.by # h
      BY <1>0, <2>0 DEF Unborn
    <2>2. gen' # h  BY <2>0, <2>1, GenSteps
    <2>3. receipt'.gen # h
      <3>1. CASE receipt' # receipt
        <4>1. PICK c \in Consumers : RecordReceipt(c) /\ receipt' = Body(c)
          BY <3>1, ReceiptSteps
        <4>2. Agrees(Body(c))
          BY <4>1 DEF RecordReceipt, CleanInv, CleanHeld, ConsumerActive
        <4>3. QED BY <2>1, <4>1, <4>2 DEF Agrees
      <3>2. QED BY <2>1, <3>1
    <2>4. \A b \in inflight' : b.by # h  BY <2>0, <2>1, InflightSteps
    <2>5. QED BY <2>2, <2>3, <2>4
  <1>2. ASSUME NEW h \in Deliveries, hpc'[h] = "recheck" PROVE hview'[h].from = h
    <2>1. CASE hpc'[h] = hpc[h] /\ hview'[h] = hview[h]  BY <1>0, <1>2, <2>1 DEF Unborn
    <2>2. CASE Persist(h)
      <3> DEFINE w == [hview[h] EXCEPT !.from = h, !.fromPolicy = hview[h].policy,
                                       !.fromKeyed = TRUE]
      <3>1. hview'[h] = w
        BY <1>0, <1>2, <2>2 DEF Persist, Goto, GotoWith, TypeOK
      <3>2. hview[h] \in HandlerView  BY <1>0 DEF TypeOK
      <3>3. QED BY <3>1, <3>2 DEF HandlerView
    <2>3. CASE Router(h) /\ ~Persist(h)
      BY <1>0, <1>2, <2>3
      DEF Router, Route, Lookup, Retire, Discard, Sweep, SpoolMessage, Readback, Recheck,
          Snapshot, ClaimRecipient, PassOver, CallProvider, Project, RecordResults,
          CleanDelivery, Refresh, Settle, Enqueue, RouterCrash, Goto, GotoWith, End, LoopLabel,
          TypeOK
    <2>4. QED BY <2>1, <2>2, <2>3, HandlerSteps
  <1>3. QED BY <1>1, <1>2 DEF Unborn

\* A cleaned result stays clean: its raw message gone, its pointer, once cleared,
\* clear.
LEMMA CleanStays ==
  ASSUME Inv, ResultInv, CleanInv, [Next]_vars
  PROVE  \A j : Agrees(j) =>
           /\ Agrees(j)'
           /\ j.gen \notin raw => j.gen \notin raw'
           /\ ~keyed => ~keyed'
PROOF
  <1> SUFFICES ASSUME NEW j, Agrees(j)
               PROVE  /\ Agrees(j)'
                      /\ j.gen \notin raw => j.gen \notin raw'
                      /\ ~keyed => ~keyed'
    OBVIOUS
  <1>1. Agrees(j)'  BY AgreesKept
  <1>2. ~keyed => ~keyed'  BY AgreesStays DEF RowKept
  <1>3. j.gen \notin raw => j.gen \notin raw'  BY GoneStays DEF CleanInv, Agrees
  <1>4. QED BY <1>1, <1>2, <1>3

\* An invocation of the consumer is moved by its own statements only, and the
\* body of its job does not change under it.
LEMMA ConsumerSteps ==
  ASSUME Inv, [Next]_vars, NEW c \in Consumers
  PROVE  Consumer(c) \/ (cpc'[c] = cpc[c] /\ cview'[c] = cview[c])
PROOF
  <1>0. TypeOK  BY DEF Inv
  <1>1. ASSUME NEW d \in Consumers \ {c}, Consumer(d)
        PROVE  cpc'[c] = cpc[c] /\ cview'[c] = cview[c]
    BY <1>0, <1>1
    DEF Consumer, Work, Take, Match, PersistProjection, DeletePayloads, DeleteRaw,
        RecordReceipt, ClearAuthority, Finish, ConsumerCrash, Redeliver, EndInvocation, Step,
        TypeOK
  <1>2. ASSUME NEW h \in Deliveries, Router(h) PROVE UNCHANGED consumer
    BY <1>2
    DEF Router, Route, Lookup, Retire, Discard, Sweep, SpoolMessage, Persist, Readback,
        Recheck, Snapshot, ClaimRecipient, CallProvider, Project, RecordResults, CleanDelivery,
        Refresh, Settle, Enqueue, RouterCrash
  <1>3. QED
    BY <1>1, <1>2
    DEF Next, LateCommit, ActivatePolicy, LapsePayload, Change, vars, consumer

LEMMA BodyStays ==
  ASSUME Inv, [Next]_vars, NEW h \in Deliveries, job[h] # "none"
  PROVE  report'[h] = report[h]
PROOF BY ReportSteps

\* Where a step of the consumer leads, and with which job.
LEMMA ConsumerMoves ==
  ASSUME Inv, NEW c \in Consumers, Consumer(c), cpc'[c] \notin {"idle", "match"}
  PROVE  /\ cview'[c].job = cview[c].job
         /\ \/ Match(c) /\ Matches(Body(c)) /\ cpc'[c] = "persist"
            \/ PersistProjection(c) /\ cpc'[c] = "payloads"
            \/ /\ DeletePayloads(c)
               /\ cpc'[c] = IF Success(Body(c).results) THEN "raw" ELSE "done"
            \/ DeleteRaw(c) /\ cpc'[c] = "receipt"
            \/ RecordReceipt(c) /\ cpc'[c] = "clear"
            \/ ClearAuthority(c) /\ cpc'[c] = "done" /\ keyed' = FALSE
PROOF
  <1>0. TypeOK /\ cview[c] \in ConsumerView  BY DEF Inv, TypeOK
  <1>e. ASSUME NEW state, EndInvocation(c, state) PROVE FALSE
    BY <1>0, <1>e DEF EndInvocation, TypeOK
  <1>r. ~Redeliver(c)  BY <1>e DEF Redeliver
  <1>1. ~Take(c)  BY <1>0 DEF Take, Step, TypeOK
  <1>2. CASE Match(c)
    <2> DEFINE w == [cview[c] EXCEPT !.accepted =
                       {o \in Operators : recipient[o] = "provider_accepted"}]
    <2>1. Matches(Body(c)) /\ Step(c, "persist") /\ cview' = [cview EXCEPT ![c] = w]
      BY <1>2, <1>e, <1>r DEF Match
    <2>2. w.job = cview[c].job  BY <1>0 DEF ConsumerView
    <2>3. QED BY <1>0, <1>2, <2>1, <2>2 DEF Step, TypeOK
  <1>3. CASE PersistProjection(c)  BY <1>0, <1>3, <1>r DEF PersistProjection, Step, TypeOK
  <1>4. CASE DeletePayloads(c)  BY <1>0, <1>4 DEF DeletePayloads, Step, TypeOK, Success
  <1>5. CASE DeleteRaw(c)  BY <1>0, <1>5 DEF DeleteRaw, Step, TypeOK
  <1>6. CASE RecordReceipt(c)  BY <1>0, <1>6, <1>r DEF RecordReceipt, Step, TypeOK
  <1>7. CASE ClearAuthority(c)  BY <1>0, <1>7, <1>r DEF ClearAuthority, Step, TypeOK
  <1>8. QED
    BY <1>e, <1>r, <1>1, <1>2, <1>3, <1>4, <1>5, <1>6, <1>7
    DEF Consumer, Work, Finish, ConsumerCrash

\* A job is acknowledged at the end of its clean-up, or by a later delivery of it
\* that finds its receipt.
LEMMA AckSteps ==
  ASSUME Inv, [Next]_vars, NEW h \in Deliveries, job'[h] = "acked", job[h] # "acked"
  PROVE  \E c \in Consumers :
           /\ cpc[c] # "idle" /\ cview[c].job = h
           /\ \/ Finish(c)
              \/ /\ Match(c) /\ CleanupComplete(Body(c))
                 /\ ~Matches(Body(c)) \/ \E o \in Operators : Body(c).results[o] = "open"
PROOF
  <1>0. TypeOK  BY DEF Inv
  <1>q. ~UNCHANGED job  OBVIOUS
  <1>1. ASSUME NEW k \in Deliveries, Router(k) PROVE FALSE
    <2>1. CASE Enqueue(k)  BY <1>0, <2>1 DEF Enqueue, TypeOK
    <2>2. CASE ~Enqueue(k)
      BY <1>1, <1>q, <2>2
      DEF Router, Route, Lookup, Retire, Discard, Sweep, SpoolMessage, Persist, Readback,
          Recheck, Snapshot, ClaimRecipient, CallProvider, Project, RecordResults,
          CleanDelivery, Refresh, Settle, RouterCrash, queue
    <2>3. QED BY <2>1, <2>2
  <1>2. ASSUME NEW c \in Consumers, Consumer(c)
        PROVE  /\ cpc[c] # "idle" /\ cview[c].job = h
               /\ \/ Finish(c)
                  \/ /\ Match(c) /\ CleanupComplete(Body(c))
                     /\ ~Matches(Body(c)) \/ \E o \in Operators : Body(c).results[o] = "open"
    <2>1. ~Take(c)  BY <1>0 DEF Take, TypeOK
    <2>2. ASSUME NEW state, EndInvocation(c, state) PROVE state = "acked" /\ cview[c].job = h
      BY <1>0, <2>2 DEF EndInvocation, TypeOK
    <2>3. ~Redeliver(c)  BY <2>2 DEF Redeliver
    <2>4. CASE Match(c)
      BY <1>q, <2>2, <2>3, <2>4 DEF Match, queue
    <2>5. CASE Finish(c)  BY <2>2, <2>5 DEF Finish
    <2>6. QED
      BY <1>2, <1>q, <2>1, <2>3, <2>4, <2>5
      DEF Consumer, Work, PersistProjection, DeletePayloads, DeleteRaw, RecordReceipt,
          ClearAuthority, ConsumerCrash, queue
  <1>3. QED
    BY <1>1, <1>2, <1>q DEF Next, LateCommit, ActivatePolicy, LapsePayload, Change, vars, queue

LEMMA ReceiptClean ==
  ASSUME Inv, ResultInv, CleanInv, [Next]_vars, receipt' # NoReport
  PROVE  Agrees(receipt)' /\ receipt'.gen \notin raw'
PROOF
  <1>1. CASE receipt' = receipt
    <2>1. Agrees(receipt) /\ receipt.gen \notin raw  BY <1>1 DEF CleanInv, CleanHeld
    <2>2. QED BY <1>1, <2>1, CleanStays DEF Agrees, Reported
  <1>2. CASE receipt' # receipt
    <2>1. PICK c \in Consumers : RecordReceipt(c) /\ receipt' = Body(c)
      BY <1>2, ReceiptSteps
    <2>2. Agrees(Body(c)) /\ Body(c).gen \notin raw
      BY <2>1 DEF RecordReceipt, CleanInv, CleanHeld, ConsumerActive
    <2>3. QED BY <2>1, <2>2, CleanStays DEF Agrees, Reported
  <1>3. QED BY <1>1, <1>2

LEMMA BodyClean ==
  ASSUME Inv, ResultInv, CleanInv, [Next]_vars, NEW c \in Consumers,
         cpc'[c] \in ConsumerActive \ {"match"}
  PROVE  /\ Agrees(Body(c))'
         /\ cpc'[c] \in {"receipt", "clear"} => Body(c)'.gen \notin raw'
         /\ cpc'[c] = "done" /\ Success(Body(c)'.results) =>
              Body(c)'.gen \notin raw' /\ ~keyed'
PROOF
  <1> DEFINE j == Body(c)
  <1>0. TypeOK  BY DEF Inv
  <1>1. cpc'[c] \notin {"idle", "match"}  BY DEF ConsumerActive
  <1>2. cpc[c] # "idle"
    <2>1. CASE Consumer(c)
      BY <1>1, <2>1, ConsumerMoves
      DEF Match, PersistProjection, DeletePayloads, DeleteRaw, RecordReceipt, ClearAuthority
    <2>2. QED BY <1>1, <2>1, ConsumerSteps
  <1>3. cview[c].job \in Deliveries /\ job[cview[c].job] # "none"
    BY <1>2 DEF Inv, ConsumerBound
  <1>4. cview'[c].job = cview[c].job  BY <1>1, ConsumerSteps, ConsumerMoves
  <1>5. Body(c)' = j  BY <1>3, <1>4, BodyStays DEF Body
  <1>6. Agrees(j)
    <2>1. CASE Match(c) /\ Matches(j)
      <3>1. j.gen \in Deliveries  BY <1>3 DEF Body, ResultInv, ReportsHeld
      <3>2. QED BY <2>1, <3>1 DEF Matches, Agrees
    <2>2. CASE cpc[c] \in ConsumerActive \ {"match"}  BY <2>2 DEF CleanInv, CleanHeld
    <2>3. QED
      BY <1>1, <2>1, <2>2, ConsumerSteps, ConsumerMoves
      DEF PersistProjection, DeletePayloads, DeleteRaw, RecordReceipt, ClearAuthority,
          ConsumerActive
  <1>7. /\ Agrees(Body(c))'
        /\ j.gen \notin raw => j.gen \notin raw'
        /\ ~keyed => ~keyed'
    BY <1>5, <1>6, CleanStays DEF Agrees, Reported
  <1>8. ASSUME cpc'[c] \in {"receipt", "clear"} PROVE j.gen \notin raw'
    <2>1. CASE DeleteRaw(c)  BY <2>1 DEF DeleteRaw
    <2>2. CASE cpc[c] \in {"receipt", "clear"}  BY <1>7, <2>2 DEF CleanInv, CleanHeld
    <2>3. QED BY <1>1, <1>8, <2>1, <2>2, ConsumerSteps, ConsumerMoves DEF RecordReceipt
  <1>9. ASSUME cpc'[c] = "done", Success(j.results) PROVE j.gen \notin raw' /\ ~keyed'
    <2>1. CASE ClearAuthority(c) /\ keyed' = FALSE
      BY <1>7, <2>1 DEF ClearAuthority, CleanInv, CleanHeld
    <2>2. CASE cpc[c] = "done"  BY <1>7, <1>9, <2>2 DEF CleanInv, CleanHeld
    <2>3. QED BY <1>1, <1>9, <2>1, <2>2, ConsumerSteps, ConsumerMoves
  <1>10. QED BY <1>5, <1>7, <1>8, <1>9

LEMMA AckClean ==
  ASSUME Inv, ResultInv, CleanInv, [Next]_vars, NEW h \in Deliveries, job'[h] = "acked",
         Success(report'[h].results)
  PROVE  Agrees(report[h])' /\ report'[h].gen \notin raw' /\ ~keyed'
PROOF
  <1> DEFINE j == report[h]
  <1>1. job[h] # "none"  BY ReportSteps
  <1>2. report'[h] = j  BY <1>1, BodyStays
  <1>3. Agrees(j) /\ j.gen \notin raw /\ ~keyed
    <2>1. CASE job[h] = "acked"  BY <1>2, <2>1 DEF CleanInv, CleanHeld
    <2>2. CASE job[h] # "acked"
      <3>1. PICK c \in Consumers :
              /\ cpc[c] # "idle" /\ cview[c].job = h
              /\ \/ Finish(c)
                 \/ /\ Match(c) /\ CleanupComplete(Body(c))
                    /\ ~Matches(Body(c)) \/ \E o \in Operators : Body(c).results[o] = "open"
        BY <2>2, AckSteps
      <3>2. Body(c) = j  BY <3>1 DEF Body
      <3>3. CASE Finish(c)
        BY <1>2, <3>2, <3>3 DEF Finish, CleanInv, CleanHeld, ConsumerActive
      <3>4. CASE /\ CleanupComplete(Body(c))
                 /\ ~Matches(Body(c)) \/ \E o \in Operators : Body(c).results[o] = "open"
        <4>1. receipt = j /\ j.gen \in Deliveries
          BY <1>1, <3>2, <3>4 DEF CleanupComplete, ResultInv, ReportsHeld
        <4>2. j # NoReport  BY <4>1, InboundConstants DEF NoReport, InboundConstants
        <4>3. Agrees(j) /\ j.gen \notin raw  BY <4>1, <4>2 DEF CleanInv, CleanHeld
        <4>4. \A o \in Operators : j.results[o] # "open"
          BY <1>2 DEF Success, Aggregate, AcceptedIn, Reported
        <4>5. ~Matches(j)  BY <3>2, <3>4, <4>4
        <4>6. ~keyed  BY <4>3, <4>5 DEF Agrees, Matches
        <4>7. QED BY <4>3, <4>6
      <3>5. QED BY <3>1, <3>3, <3>4
    <2>3. QED BY <2>1, <2>2
  <1>4. QED BY <1>2, <1>3, CleanStays DEF Agrees, Reported

LEMMA CleanStep ==
  ASSUME Inv, ResultInv, CleanInv, [Next]_vars
  PROVE  CleanInv'
PROOF
  <1>1. Unborn'  BY UnbornStep
  <1>2. CleanHeld'  BY ReceiptClean, BodyClean, AckClean DEF CleanHeld, ConsumerActive
  <1>3. QED BY <1>1, <1>2 DEF CleanInv

LEMMA CleanInit == Init => CleanInv
PROOF
  <1> SUFFICES ASSUME Init PROVE CleanInv
    OBVIOUS
  <1>1. Unborn  BY InboundConstants DEF Init, Unborn, NoReport, InboundConstants
  <1>2. CleanHeld  BY DEF Init, CleanHeld, ConsumerActive
  <1>3. QED BY <1>1, <1>2 DEF CleanInv

LEMMA CleanInvariance == Spec => []CleanInv
PROOF BY CleanInit, CleanStep, Invariance, ResultInvariance, PTL DEF Spec

\* A complete success that was acknowledged is cleaned up for good: its raw
\* message is gone and not spooled again, its pointer cleared and not set again,
\* although consumers crash between any two statements and later deliveries of
\* the job are acknowledged by the receipt alone.
THEOREM AcknowledgementIsClean == Spec => []AcknowledgedIsClean
PROOF
  <1>1. CleanInv => AcknowledgedIsClean
    BY DEF CleanInv, CleanHeld, Success, AcknowledgedIsClean
  <1>2. QED BY <1>1, CleanInvariance, PTL

----------------------------------------------------------------------------
(* The payloads.                                                           *)
(*                                                                         *)
(* A payload goes when its recipient is done, when its row is retired, or  *)
(* when its delivery reads back another row than its own.  A batch that is *)
(* still open keeps its payloads until that third case, which beaten       *)
(* records, so the row it becomes has them.                                *)

\* What was spooled for these operators is there, or was taken by retention.
Kept(g, ops) == PayloadsOf(g, ops) \subseteq payloads \cup lapsed

\* A generation that cannot be inserted again.
Born(g) == g \in Deliveries /\ ~Early(g) /\ \A b \in inflight : b.by # g

\* A batch is its delivery's only one and has its payloads, unless the delivery
\* was beaten.
BatchHeld ==
  /\ \A b, c \in inflight : b.by = c.by => b = c
  /\ \A b \in inflight :
       /\ gen # b.by
       /\ hpc[b.by] = "readback" => hview[b.by].policy = b.policy
       /\ b.by \in beaten \/ Kept(b.by, OperatorsOf[b.policy])

\* Who sweeps, sweeps what has gone; who commits, has spooled; who cleans up
\* directly, has sent everything.
SpoolHeld ==
  \A h \in Deliveries :
    /\ hpc[h] \in {"discard", "sweep"} => Born(hview[h].keys)
    /\ hpc[h] = "sweep" => hview[h].keys # gen
    /\ hpc[h] = "persist" => Kept(h, OperatorsOf[hview[h].policy])
    /\ hpc[h] = "clean" => AllSent

SpoolInv == BatchHeld /\ SpoolHeld /\ PayloadRetained

\* The pointer is cleared when no recipient is left to be sent.
LEMMA PointerSteps ==
  ASSUME Inv, CleanInv, SpoolHeld, [Next]_vars, keyed, ~keyed'
  PROVE  \A o \in Operators : recipient'[o] # "pending"
PROOF
  <1>1. ASSUME UNCHANGED row PROVE FALSE  BY <1>1 DEF row
  <1>2. ASSUME NEW h \in Deliveries, Router(h)
        PROVE  \A o \in Operators : recipient'[o] # "pending"
    <2>1. CASE Discard(h)  BY <1>1, <2>1 DEF Discard, DeleteRow
    <2>2. CASE Persist(h)  BY <1>1, <2>2 DEF Persist, InsertRow
    <2>3. CASE CleanDelivery(h)
      <3>1. AllSent /\ recipient' = recipient  BY <2>3 DEF CleanDelivery, SpoolHeld
      <3>2. ASSUME NEW o \in Operators, recipient[o] = "pending" PROVE FALSE
        <4>1. o \in Recipients /\ gen \in Deliveries
          BY <3>2 DEF Recipients, Inv, RowBound, TypeOK
        <4>2. mailed[gen][o] > 0  BY <3>1, <4>1 DEF AllSent
        <4>3. QED BY <3>2, <4>1, <4>2 DEF Inv, MailedHeld, Final
      <3>3. QED BY <3>1, <3>2
    <2>4. QED
      BY <1>1, <1>2, <2>1, <2>2, <2>3
      DEF Router, Route, Lookup, Retire, Sweep, SpoolMessage, Readback, Recheck, Snapshot,
          ClaimRecipient, CallProvider, Project, RecordResults, Refresh, Settle, Enqueue,
          RouterCrash
  <1>3. ASSUME NEW c \in Consumers, Consumer(c)
        PROVE  \A o \in Operators : recipient'[o] # "pending"
    <2>1. ClearAuthority(c)
      BY <1>1, <1>3 DEF Consumer, Work, Take, Match, PersistProjection, DeletePayloads,
                        DeleteRaw, RecordReceipt, Finish, ConsumerCrash
    <2>2. Agrees(Body(c))  BY <2>1 DEF ClearAuthority, CleanInv, CleanHeld, ConsumerActive
    <2>3. recipient' = recipient  BY <2>1 DEF ClearAuthority
    <2>4. QED BY <2>2, <2>3 DEF Agrees, Recipients
  <1>4. QED
    BY <1>1, <1>2, <1>3 DEF Next, LateCommit, InsertRow, ActivatePolicy, LapsePayload, Change, vars

\* Who deletes a payload: the loser of a commit, a sweep, or, in the row's own
\* generation, somebody whom its recipient was done for.
Loses(g, o) == <<g, o>> \in payloads \cup lapsed /\ <<g, o>> \notin (payloads \cup lapsed)'

LEMMA RouterLoses ==
  ASSUME Inv, CleanInv, NEW h \in Deliveries, Router(h),
         NEW g \in Deliveries, NEW o \in Operators, Loses(g, o)
  PROVE  \/ h = g /\ Readback(g) /\ gen # None /\ SpoolLost(g) /\ UNCHANGED row
         \/ Sweep(h) /\ hview[h].keys = g
         \/ g = gen /\ recipient'[o] # "pending"
PROOF
  <1>0. ~UNCHANGED bucket /\ ~(payloads \subseteq payloads' /\ UNCHANGED lapsed)
    BY DEF Loses, bucket
  <1>1. ASSUME NEW objects, NEW generations, Delete(objects, generations)
        PROVE  <<g, o>> \in objects
    BY <1>1 DEF Delete, Loses
  <1>2. ASSUME NEW k, NEW ops, <<g, o>> \in PayloadsOf(k, ops) PROVE k = g /\ o \in ops
    BY <1>2 DEF PayloadsOf
  <1>3. CASE Readback(h)
    <2>1. ~UNCHANGED bucket  BY <1>0
    <2>2. /\ gen # None /\ SpoolLost(h) /\ UNCHANGED row
          /\ Delete(PayloadsOf(h, OperatorsOf[hview[h].policy]), {h})
      BY <1>3, <2>1 DEF Readback
    <2>3. h = g  BY <1>1, <1>2, <2>2
    <2>4. QED BY <1>3, <2>2, <2>3
  <1>4. CASE Sweep(h)
    <2>1. hview[h].keys = g  BY <1>1, <1>2, <1>4 DEF Sweep
    <2>2. QED BY <1>4, <2>1
  <1>5. CASE Snapshot(h)
    <2>1. /\ Delete(PayloadsOf(gen, {u \in Operators : recipient[u] = "provider_accepted"}), {})
          /\ recipient' = recipient
      BY <1>0, <1>5 DEF Snapshot, row
    <2>2. g = gen /\ recipient[o] = "provider_accepted"  BY <1>1, <1>2, <2>1
    <2>3. QED BY <2>1, <2>2
  <1>6. CASE Project(h)
    <2>1. gen = hview[h].from  BY <1>6 DEF Project, Engaged, Inv, ClaimHeld
    <2>2. /\ recipient'[hview[h].at] = "provider_accepted"
          /\ Delete(PayloadsOf(hview[h].from, {hview[h].at}), {})
      BY <1>0, <1>6 DEF Project
    <2>3. g = hview[h].from /\ o = hview[h].at  BY <1>1, <1>2, <2>2
    <2>4. QED BY <2>1, <2>2, <2>3
  <1>7. CASE SpoolMessage(h)  BY <1>0, <1>7 DEF SpoolMessage
  <1>8. CASE CleanDelivery(h)
    <2>1. Delete({}, {h})  BY <1>8 DEF CleanDelivery
    <2>2. QED BY <1>1, <2>1
  <1>9. QED
    BY <1>0, <1>3, <1>4, <1>5, <1>6, <1>7, <1>8
    DEF Router, Route, Lookup, Retire, Discard, Persist, Recheck, ClaimRecipient, CallProvider,
        RecordResults, Refresh, Settle, Enqueue, RouterCrash

LEMMA PayloadSteps ==
  ASSUME Inv, CleanInv, [Next]_vars, NEW g \in Deliveries, NEW o \in Operators, Loses(g, o)
  PROVE  \/ Readback(g) /\ gen # None /\ SpoolLost(g) /\ UNCHANGED row
         \/ \E h \in Deliveries : Sweep(h) /\ hview[h].keys = g
         \/ g = gen /\ recipient'[o] # "pending"
PROOF
  <1>0. ~UNCHANGED bucket /\ ~UNCHANGED <<payloads, lapsed>>  BY DEF Loses, bucket
  <1>1. ASSUME NEW c \in Consumers, Consumer(c) PROVE g = gen /\ recipient'[o] # "pending"
    <2>1. UNCHANGED lapsed /\ recipient' = recipient  BY <1>1, ConsumerKeepsRow
    <2>2. DeletePayloads(c)
      BY <1>0, <1>1, <2>1
      DEF Consumer, Work, Take, Match, PersistProjection, DeleteRaw, RecordReceipt,
          ClearAuthority, Finish, ConsumerCrash
    <2>3. Agrees(Body(c))  BY <2>2 DEF DeletePayloads, CleanInv, CleanHeld, ConsumerActive
    <2>4. g = Body(c).gen  BY <2>1, <2>2 DEF DeletePayloads, PayloadsOf, Loses
    <2>5. QED BY <2>1, <2>3, <2>4 DEF Agrees, Recipients
  <1>2. ~LapsePayload
    <2>1. ASSUME NEW x, payloads' = payloads \ {x}, lapsed' = lapsed \cup {x} PROVE FALSE
      BY <2>1 DEF Loses
    <2>2. QED BY <2>1 DEF LapsePayload
  <1>3. QED
    BY <1>0, <1>1, <1>2, RouterLoses DEF Next, LateCommit, ActivatePolicy, vars

\* A row is inserted by its own delivery, or by a batch of it.
LEMMA InsertSteps ==
  ASSUME Inv, [Next]_vars, gen = None, gen' # None
  PROVE  /\ UNCHANGED <<payloads, lapsed>>
         /\ \/ \E h \in Deliveries : Persist(h) /\ InsertRow(h, hview[h].policy)
            \/ \E b \in inflight : InsertRow(b.by, b.policy) /\ inflight' = inflight \ {b}
PROOF
  <1>1. ~UNCHANGED gen  OBVIOUS
  <1>2. ASSUME NEW h \in Deliveries, Router(h)
        PROVE  Persist(h) /\ InsertRow(h, hview[h].policy)
    <2>1. Persist(h)
      BY <1>1, <1>2
      DEF Router, Route, Lookup, Retire, Discard, DeleteRow, Sweep, SpoolMessage, Readback,
          Recheck, Snapshot, ClaimRecipient, CallProvider, Project, RecordResults,
          CleanDelivery, Refresh, Settle, Enqueue, RouterCrash, row
    <2>2. QED BY <1>1, <2>1 DEF Persist, row
  <1>3. ASSUME NEW h \in Deliveries, Persist(h) PROVE UNCHANGED <<payloads, lapsed>>
    BY <1>3 DEF Persist, bucket
  <1>4. ASSUME NEW c \in Consumers, Consumer(c) PROVE FALSE  BY <1>1, <1>4, ConsumerKeepsRow
  <1>5. CASE LateCommit
    BY <1>5 DEF LateCommit, bucket
  <1>6. QED
    BY <1>1, <1>2, <1>3, <1>4, <1>5 DEF Next, ActivatePolicy, LapsePayload, Change, vars, row

\* A batch is opened by an invocation that has just spooled.
LEMMA OpenSteps ==
  ASSUME Inv, [Next]_vars, NEW b \in inflight', b \notin inflight
  PROVE  /\ b.by \in Deliveries /\ b = [by |-> b.by, policy |-> hview[b.by].policy]
         /\ hpc[b.by] = "persist" /\ hview' = hview
         /\ UNCHANGED <<gen, rowPolicy, policy, payloads, lapsed>>
PROOF
  <1>1. b.by \in Deliveries /\ Persist(b.by)  BY InflightSteps
  <1> DEFINE h == b.by
  <1>2. ASSUME UNCHANGED inflight PROVE FALSE  BY <1>2
  <1>3. /\ inflight' \in {inflight, inflight \cup {[by |-> h, policy |-> hview[h].policy]}}
        /\ UNCHANGED row /\ Goto(h, "readback")
    BY <1>1, <1>2 DEF Persist
  <1>4. b = [by |-> h, policy |-> hview[h].policy]  BY <1>3
  <1>5. QED BY <1>1, <1>3, <1>4 DEF Persist, Goto, row, bucket, gates

\* An invocation learns that its batch raised only once.
LEMMA ReadbackSteps ==
  ASSUME Inv, [Next]_vars, NEW h \in Deliveries, hpc'[h] = "readback"
  PROVE  Persist(h) \/ (hpc[h] = "readback" /\ hview'[h] = hview[h])
PROOF
  <1>0. TypeOK  BY DEF Inv
  <1>1. CASE hpc'[h] = hpc[h] /\ hview'[h] = hview[h]  BY <1>1
  <1>2. CASE Router(h) /\ ~Persist(h)
    BY <1>0, <1>2
    DEF Router, Route, Lookup, Retire, Discard, Sweep, SpoolMessage, Readback, Recheck,
        Snapshot, ClaimRecipient, PassOver, CallProvider, Project, RecordResults,
        CleanDelivery, Refresh, Settle, Enqueue, RouterCrash, Goto, GotoWith, End, LoopLabel,
        TypeOK
  <1>3. QED BY <1>1, <1>2, HandlerSteps

LEMMA BornStays ==
  ASSUME Inv, CleanInv, [Next]_vars, NEW g, Born(g)
  PROVE  Born(g)' /\ (gen # g => gen' # g)
PROOF
  <1>1. g \in Deliveries /\ ~Early(g)  BY DEF Born
  <1>2. ~Early(g)'  BY <1>1, EarlySteps DEF CleanInv
  <1>3. ~Persist(g)  BY <1>1 DEF Persist, Early
  <1>4. \A b \in inflight' : b.by # g  BY <1>3, InflightSteps DEF Born
  <1>5. gen # g => gen' # g  BY <1>1, <1>3, GenSteps DEF Born
  <1>6. QED BY <1>1, <1>2, <1>4, <1>5 DEF Born

\* A batch keeps its payloads until its own delivery is beaten.
LEMMA BatchKept ==
  ASSUME Inv, CleanInv, BatchHeld, SpoolHeld, [Next]_vars,
         NEW b \in inflight, Kept(b.by, OperatorsOf[b.policy])
  PROVE  b.by \in beaten' \/ Kept(b.by, OperatorsOf[b.policy])'
PROOF
  <1>0. b.by \in Deliveries /\ b.policy \in Policies  BY DEF Inv, TypeOK
  <1>1. OperatorsOf[b.policy] \subseteq Operators
    BY <1>0, InboundConstants DEF InboundConstants
  <1>2. gen # b.by  BY DEF BatchHeld
  <1>3. ASSUME NEW o \in OperatorsOf[b.policy], Loses(b.by, o)
        PROVE  b.by \in beaten'
    <2>1. CASE Readback(b.by) /\ gen # None /\ SpoolLost(b.by) /\ UNCHANGED row
      <3>1. ~UNCHANGED bucket  BY <1>3 DEF Loses, bucket
      <3>2. beaten' = beaten \cup ({b.by} \ {gen})  BY <2>1, <3>1 DEF Readback
      <3>3. QED BY <1>2, <3>2
    <2>2. ASSUME NEW h \in Deliveries, Sweep(h), hview[h].keys = b.by PROVE FALSE
      BY <2>2 DEF Sweep, SpoolHeld, Born
    <2>3. QED BY <1>0, <1>1, <1>2, <1>3, <2>1, <2>2, PayloadSteps
  <1>4. CASE \A o \in OperatorsOf[b.policy] : ~Loses(b.by, o)
    <2>1. \A o \in OperatorsOf[b.policy] : <<b.by, o>> \in payloads \cup lapsed
      BY DEF Kept, PayloadsOf
    <2>2. \A o \in OperatorsOf[b.policy] : <<b.by, o>> \in (payloads \cup lapsed)'
      BY <1>4, <2>1 DEF Loses
    <2>3. QED BY <2>2 DEF Kept, PayloadsOf
  <1>5. QED BY <1>3, <1>4

LEMMA BatchStep ==
  ASSUME Inv, CleanInv, SpoolInv, [Next]_vars
  PROVE  BatchHeld'
PROOF
  <1>0. BatchHeld /\ SpoolHeld /\ Unborn /\ TypeOK
    BY DEF SpoolInv, CleanInv, Inv
  <1>2. ASSUME NEW b \in inflight', b \notin inflight
        PROVE  /\ gen' # b.by
               /\ hpc'[b.by] = "readback" => hview'[b.by].policy = b.policy
               /\ Kept(b.by, OperatorsOf[b.policy])'
               /\ \A c \in inflight : b.by # c.by
    <2>1. /\ b.by \in Deliveries /\ b = [by |-> b.by, policy |-> hview[b.by].policy]
          /\ hpc[b.by] = "persist" /\ hview' = hview
          /\ UNCHANGED <<gen, rowPolicy, policy, payloads, lapsed>>
      BY <1>2, OpenSteps
    <2>2. b.policy = hview[b.by].policy  BY <2>1
    <2>3. gen # b.by /\ \A c \in inflight : c.by # b.by  BY <1>0, <2>1 DEF Unborn, Early
    <2>4. Kept(b.by, OperatorsOf[b.policy])  BY <1>0, <2>1, <2>2 DEF SpoolHeld
    <2>5. Kept(b.by, OperatorsOf[b.policy])'  BY <2>1, <2>4 DEF Kept
    <2>6. QED BY <2>1, <2>2, <2>3, <2>5
  <1>3. ASSUME NEW b \in inflight', b \in inflight
        PROVE  /\ gen' # b.by
               /\ hpc'[b.by] = "readback" => hview'[b.by].policy = b.policy
    <2>0. b.by \in Deliveries /\ b.policy \in Policies  BY <1>0, <1>3 DEF TypeOK
    <2>1. ~Persist(b.by)  BY <1>0, <1>3, <2>0 DEF Unborn, Early, Persist
    <2>2. gen # b.by  BY <1>0, <1>3 DEF BatchHeld
    <2>3. ASSUME gen' = b.by PROVE FALSE
      <3>1. gen' # None  BY <2>0, <2>3, InboundConstants DEF InboundConstants
      <3>2. gen = None
        BY <2>2, <2>3, <3>1, RowSteps
        DEF RowKept, RowReplaced, InsertRow, InsertAllowed, RowRetired, DeleteRow
      <3>3. CASE \E h \in Deliveries : Persist(h) /\ InsertRow(h, hview[h].policy)
        BY <2>1, <2>3, <3>3 DEF InsertRow
      <3>4. ASSUME NEW c \in inflight, InsertRow(c.by, c.policy), inflight' = inflight \ {c}
            PROVE  FALSE
        <4>1. c.by = b.by  BY <2>3, <3>4 DEF InsertRow
        <4>2. c = b  BY <1>0, <1>3, <4>1 DEF BatchHeld
        <4>3. QED BY <1>3, <3>4, <4>2
      <3>5. QED BY <3>1, <3>2, <3>3, <3>4, InsertSteps
    <2>4. hpc'[b.by] = "readback" => hview'[b.by].policy = b.policy
      BY <1>0, <1>3, <2>0, <2>1, ReadbackSteps DEF BatchHeld
    <2>5. QED BY <2>3, <2>4
  <1>4. ASSUME NEW b \in inflight', NEW c \in inflight', b.by = c.by PROVE b = c
    <2>1. CASE b \in inflight /\ c \in inflight  BY <1>0, <1>4, <2>1 DEF BatchHeld
    <2>2. CASE b \notin inflight /\ c \notin inflight
      <3>1. b = [by |-> b.by, policy |-> hview[b.by].policy]  BY <2>2, OpenSteps
      <3>2. c = [by |-> c.by, policy |-> hview[c.by].policy]  BY <2>2, OpenSteps
      <3>3. QED BY <1>4, <3>1, <3>2
    <2>3. QED BY <1>2, <1>4, <2>1, <2>2
  <1>5. ASSUME NEW b \in inflight' PROVE b.by \in beaten' \/ Kept(b.by, OperatorsOf[b.policy])'
    <2>1. CASE b \in inflight
      <3>1. b.by \in beaten \/ Kept(b.by, OperatorsOf[b.policy])  BY <1>0, <2>1 DEF BatchHeld
      <3>2. QED BY <1>0, <2>1, <3>1, BatchKept, BeatenStays
    <2>2. QED BY <1>2, <2>1
  <1>6. QED BY <1>2, <1>3, <1>4, <1>5 DEF BatchHeld

LEMMA SpoolStep ==
  ASSUME Inv, ResultInv, CleanInv, SpoolInv, [Next]_vars
  PROVE  SpoolHeld'
PROOF
  <1>0. BatchHeld /\ SpoolHeld /\ Unborn /\ TypeOK
    BY DEF SpoolInv, CleanInv, Inv
  <1>1. ASSUME NEW h \in Deliveries, hpc'[h] \in {"discard", "sweep"}
        PROVE  Born(hview[h].keys)' /\ (hpc'[h] = "sweep" => hview'[h].keys # gen')
    <2>1. CASE /\ hpc[h] \in {"discard", "sweep"} /\ hview'[h] = hview[h]
               /\ hpc[h] = "sweep" \/ gen' = None \/ hpc'[h] = "discard"
      <3>1. Born(hview[h].keys)  BY <1>0, <2>1 DEF SpoolHeld
      <3>2. Born(hview[h].keys)' /\ (gen # hview[h].keys => gen' # hview[h].keys)
        <4> DEFINE g == hview[h].keys
        <4>1. Born(g) /\ g = hview[h].keys  BY <3>1
        <4>2. \E k \in Deliveries : k = g  BY <4>1 DEF Born
        <4>3. PICK k \in Deliveries : k = g  BY <4>2
        <4>4. Born(k)' /\ (gen # k => gen' # k)  BY <4>1, <4>3, BornStays
        <4>5. hview'[h].keys = k  BY <2>1, <4>3
        <4>6. QED BY <4>3, <4>4, <4>5 DEF Born
      <3>3. hview[h].keys # None
        BY <3>1, InboundConstants DEF Born, InboundConstants
      <3>4. QED BY <1>0, <2>1, <3>2, <3>3 DEF SpoolHeld
    <2>2. CASE Retire(h)
      <3>1. /\ Recipients # {} /\ UNCHANGED <<gen, inflight>>
            /\ GotoWith(h, "discard", [hview[h] EXCEPT !.keys = gen])
        BY <1>0, <1>1, <2>2 DEF Retire, Goto, TypeOK, row
      <3>2. gen \in Deliveries  BY <1>0, <3>1 DEF Inv, RowBound, Recipients, TypeOK
      <3>3. Born(gen)  BY <1>0, <3>2 DEF Born, Unborn, BatchHeld
      <3>4. hpc'[h] = "discard" /\ hview'[h].keys = gen
        BY <1>0, <3>1 DEF GotoWith, TypeOK, HandlerView
      <3>5. PICK k \in Deliveries : k = gen  BY <3>2
      <3>6. Born(k)'  BY <3>3, <3>5, BornStays
      <3>7. hview'[h].keys = k  BY <3>4, <3>5
      <3>8. QED BY <3>4, <3>6, <3>7 DEF Born
    <2>3. CASE Discard(h)
      <3>1. hview' = hview /\ hpc[h] = "discard" /\ gen' = None
        BY <1>0, <1>1, <2>3 DEF Discard, DeleteRow, Goto, TypeOK
      <3>2. QED BY <2>1, <3>1
    <2>4. CASE hpc'[h] = hpc[h] /\ hview'[h] = hview[h]  BY <1>1, <2>1, <2>4
    <2>5. CASE Router(h) /\ ~Retire(h) /\ ~Discard(h)
      BY <1>0, <1>1, <2>5
      DEF Router, Route, Lookup, Sweep, SpoolMessage, Persist, Readback, Recheck, Snapshot,
          ClaimRecipient, PassOver, CallProvider, Project, RecordResults, CleanDelivery,
          Refresh, Settle, Enqueue, RouterCrash, Goto, GotoWith, End, LoopLabel, TypeOK
    <2>6. QED BY <2>2, <2>3, <2>4, <2>5, HandlerSteps
  <1>2. ASSUME NEW h \in Deliveries, hpc'[h] = "persist"
        PROVE  Kept(h, OperatorsOf[hview[h].policy])'
    <2>1. CASE SpoolMessage(h)
      <3>1. /\ payloads' = payloads \cup PayloadsOf(h, OperatorsOf[hview[h].policy])
            /\ hview' = hview
        BY <1>0, <1>2, <2>1 DEF SpoolMessage, Goto, End, GotoWith, TypeOK
      <3>2. QED BY <3>1 DEF Kept
    <2>2. CASE hpc'[h] = hpc[h] /\ hview'[h] = hview[h]
      <3>1. hpc[h] = "persist" /\ hview[h].policy \in Policies
        BY <1>2, <2>2 DEF Inv, RouterBound, Fits, HandlerActive
      <3>2. OperatorsOf[hview[h].policy] \subseteq Operators
        BY <3>1, InboundConstants DEF InboundConstants
      <3>3. gen # h  BY <1>0, <3>1 DEF Unborn, Early
      <3>4. ASSUME NEW k \in Deliveries, Sweep(k), hview[k].keys = h PROVE FALSE
        <4>1. Born(h)  BY <1>0, <3>4 DEF Sweep, SpoolHeld
        <4>2. QED BY <3>1, <4>1 DEF Born, Early
      <3>5. ~Readback(h)  BY <3>1 DEF Readback
      <3>6. \A o \in OperatorsOf[hview[h].policy] : ~Loses(h, o)
        BY <3>2, <3>3, <3>4, <3>5, PayloadSteps
      <3>7. \A o \in OperatorsOf[hview[h].policy] : <<h, o>> \in payloads \cup lapsed
        BY <1>0, <3>1 DEF SpoolHeld, Kept, PayloadsOf
      <3>8. \A o \in OperatorsOf[hview[h].policy] : <<h, o>> \in (payloads \cup lapsed)'
        BY <3>6, <3>7 DEF Loses
      <3>9. QED BY <2>2, <3>8 DEF Kept, PayloadsOf
    <2>3. CASE Router(h) /\ ~SpoolMessage(h)
      BY <1>0, <1>2, <2>3
      DEF Router, Route, Lookup, Retire, Discard, Sweep, Persist, Readback, Recheck, Snapshot,
          ClaimRecipient, PassOver, CallProvider, Project, RecordResults, CleanDelivery,
          Refresh, Settle, Enqueue, RouterCrash, Goto, GotoWith, End, LoopLabel, TypeOK
    <2>4. QED BY <2>1, <2>2, <2>3, HandlerSteps
  <1>3. ASSUME NEW h \in Deliveries, hpc'[h] = "clean" PROVE AllSent'
    <2>1. CASE RecordResults(h)
      <3>1. hpc[h] = "record" /\ Success(hview[h].results)
        BY <1>0, <1>3, <2>1 DEF RecordResults, Success, Goto, End, GotoWith, TypeOK
      <3>2. QED BY <3>1, RecordedIsSent, AllSentStays
    <2>2. CASE hpc'[h] = hpc[h]  BY <1>0, <1>3, <2>2, AllSentStays DEF SpoolHeld
    <2>3. CASE Router(h) /\ ~RecordResults(h)
      BY <1>0, <1>3, <2>3
      DEF Router, Route, Lookup, Retire, Discard, Sweep, SpoolMessage, Persist, Readback,
          Recheck, Snapshot, ClaimRecipient, PassOver, CallProvider, Project, CleanDelivery,
          Refresh, Settle, Enqueue, RouterCrash, Goto, GotoWith, End, LoopLabel, TypeOK
    <2>4. QED BY <2>1, <2>2, <2>3, HandlerSteps
  <1>4. QED BY <1>1, <1>2, <1>3 DEF SpoolHeld

\* The row that replaces none comes with its payloads.
LEMMA InsertKept ==
  ASSUME Inv, CleanInv, SpoolInv, [Next]_vars, gen = None, gen' # None
  PROVE  PayloadRetained'
PROOF
  <1>0. BatchHeld /\ SpoolHeld /\ TypeOK  BY DEF SpoolInv, Inv
  <1>1. UNCHANGED <<payloads, lapsed>>  BY InsertSteps
  <1>2. ASSUME NEW g, NEW p, InsertRow(g, p), g \in beaten \/ Kept(g, OperatorsOf[p])
        PROVE  PayloadRetained'
    <2>1. gen' = g /\ keyed'  BY <1>2 DEF InsertRow
    <2>2. \A o \in Operators : recipient'[o] = "pending" => o \in OperatorsOf[p]
      BY <1>2 DEF InsertRow
    <2>3. gen' \notin beaten' => \A o \in OperatorsOf[p] : <<g, o>> \in (payloads \cup lapsed)'
      BY <1>1, <1>2, <2>1, BeatenStays DEF Kept, PayloadsOf
    <2>4. QED BY <2>1, <2>2, <2>3 DEF PayloadRetained
  <1>3. ASSUME NEW h \in Deliveries, Persist(h), InsertRow(h, hview[h].policy)
        PROVE  PayloadRetained'
    BY <1>0, <1>2, <1>3 DEF SpoolHeld, Persist
  <1>4. ASSUME NEW b \in inflight, InsertRow(b.by, b.policy) PROVE PayloadRetained'
    BY <1>0, <1>2, <1>4 DEF BatchHeld
  <1>5. QED BY <1>3, <1>4, InsertSteps

LEMMA PayloadStep ==
  ASSUME Inv, CleanInv, SpoolInv, [Next]_vars
  PROVE  PayloadRetained'
PROOF
  <1>0. SpoolHeld /\ PayloadRetained /\ TypeOK  BY DEF SpoolInv, Inv
  <1>1. CASE RowKept
    <2> SUFFICES ASSUME NEW o \in Operators, recipient'[o] = "pending"
                 PROVE  keyed' /\ (gen' \notin beaten' => <<gen', o>> \in (payloads \cup lapsed)')
      BY DEF PayloadRetained
    <2>1. recipient[o] = "pending"
      <3>1. o \in Recipients  BY <1>1 DEF RowKept, Recipients
      <3>2. recipient[o] \in Final \cup {"sending"} => recipient'[o] \in Final \cup {"sending"}
        BY StepForward DEF Forward
      <3>3. QED BY <1>0, <3>1, <3>2 DEF Recipients, TypeOK, RecipientStatus, Final
    <2>2. /\ keyed /\ gen \in Deliveries
          /\ gen' \notin beaten' => <<gen, o>> \in payloads \cup lapsed
      BY <1>0, <1>1, <2>1, BeatenStays DEF PayloadRetained, RowKept, Inv, RowBound, TypeOK
    <2>3. keyed'  BY <1>0, <2>2, PointerSteps
    <2>4. ~SpoolLost(gen)  BY <2>2 DEF SpoolLost
    <2>5. ASSUME NEW h \in Deliveries, Sweep(h), hview[h].keys = gen PROVE FALSE
      BY <1>0, <2>5 DEF Sweep, SpoolHeld
    <2>6. ~Loses(gen, o)  BY <2>2, <2>4, <2>5, PayloadSteps
    <2>7. QED BY <1>1, <2>2, <2>3, <2>6 DEF Loses, RowKept
  <1>2. CASE RowReplaced
    <2>1. gen = None /\ gen' # None
      BY <1>2, InboundConstants DEF RowReplaced, InsertRow, InsertAllowed, InboundConstants
    <2>2. QED BY <2>1, InsertKept
  <1>3. CASE RowRetired
    BY <1>3 DEF RowRetired, DeleteRow, PayloadRetained
  <1>4. QED BY <1>1, <1>2, <1>3, RowSteps

LEMMA SpoolInit == Init => SpoolInv
PROOF
  <1> SUFFICES ASSUME Init PROVE SpoolInv
    OBVIOUS
  <1>2. BatchHeld  BY DEF Init, BatchHeld
  <1>3. SpoolHeld  BY DEF Init, SpoolHeld
  <1>4. PayloadRetained  BY DEF Init, PayloadRetained
  <1>5. QED BY <1>2, <1>3, <1>4 DEF SpoolInv

\* A recipient that is still pending can still be sent, by whichever redelivery
\* comes: the row owns its spool, and the payload is there until the retention
\* rule takes it.  Invocations crash, lose their race or their batch's answer,
\* retire rows of policies that come back, and delete what they think nobody
\* needs; none deletes this one, unless the row's own delivery read back another
\* row before its batch committed.
THEOREM PayloadsAreRetained == Spec => []PayloadRetained
PROOF
  <1>1. Inv /\ ResultInv /\ CleanInv /\ SpoolInv /\ [Next]_vars => SpoolInv'
    BY BatchStep, SpoolStep, PayloadStep DEF SpoolInv
  <1>2. SpoolInv => PayloadRetained  BY DEF SpoolInv
  <1>3. QED
    BY <1>1, <1>2, SpoolInit, Invariance, ResultInvariance, CleanInvariance, PTL DEF Spec

----------------------------------------------------------------------------
(* The promise.                                                            *)

\* This operator has the e-mail with the row's token.
Reached(o) == gen # None /\ mailed[gen][o] = 1

\* Results that call nobody accepted who was not reached.
Borne(r) == \A o \in AcceptedIn(r) : Reached(o)

\* What a recovery has read back and is about to settle.
SettleHeld == \A h \in Deliveries : hpc[h] = "settle" => Borne(hview[h].results)

LEMMA AcceptedReached ==
  ASSUME Inv, ResultInv, NEW o \in Operators, recipient[o] = "provider_accepted"
  PROVE  Reached(o)
PROOF BY DEF Inv, RowBound, ResultInv, SentHeld, Reached

LEMMA ReachedStays ==
  ASSUME Inv, [Next]_vars, NEW o \in Operators, Reached(o)
  PROVE  Reached(o)'
PROOF
  <1>1. gen \in Deliveries /\ mailed[gen][o] = 1  BY DEF Reached, Inv, TypeOK
  <1>2. mailed'[gen][o] = 1 /\ RowKept  BY <1>1, SentStays
  <1>3. QED BY <1>2 DEF Reached, RowKept

LEMMA SettleStep ==
  ASSUME Inv, ResultInv, SettleHeld, [Next]_vars
  PROVE  SettleHeld'
PROOF
  <1>0. TypeOK  BY DEF Inv
  <1> SUFFICES ASSUME NEW h \in Deliveries, hpc'[h] = "settle"
               PROVE  Borne(hview[h].results)'
    BY DEF SettleHeld
  <1>1. CASE Refresh(h)
    <2>1. hview'[h].results = [o \in Operators |-> Entry(recipient[o])]
      BY <1>0, <1>1 DEF Refresh, GotoWith, TypeOK, HandlerView
    <2>2. ASSUME NEW o \in Operators, Entry(recipient[o]) = "ok"
          PROVE  Reached(o)
      <3>1. recipient[o] = "provider_accepted"
        BY <1>0, <2>2 DEF Entry, TypeOK, RecipientStatus
      <3>2. QED BY <3>1, AcceptedReached
    <2>3. QED BY <2>1, <2>2, ReachedStays DEF Borne, AcceptedIn
  <1>2. CASE hpc'[h] = hpc[h] /\ hview'[h] = hview[h]
    <2>1. \A o \in AcceptedIn(hview[h].results) : o \in Operators /\ Reached(o)
      BY <1>2 DEF SettleHeld, Borne, AcceptedIn
    <2>2. QED BY <1>2, <2>1, ReachedStays DEF Borne, AcceptedIn
  <1>3. CASE Router(h) /\ ~Refresh(h)
    BY <1>0, <1>3
    DEF Router, Route, Lookup, Retire, Discard, Sweep, SpoolMessage, Persist, Readback,
        Recheck, Snapshot, ClaimRecipient, PassOver, CallProvider, Project, RecordResults,
        CleanDelivery, Settle, Enqueue, RouterCrash, Goto, GotoWith, End, LoopLabel, TypeOK
  <1>4. QED BY <1>1, <1>2, <1>3, HandlerSteps

\* A first run reports, and a matching job carries, only what was reached.
LEMMA RecordBorne ==
  ASSUME Inv, ResultInv, NEW h \in Deliveries, hpc[h] = "record"
  PROVE  Borne(hview[h].results)
PROOF
  <1>1. hview[h].from \in Deliveries  BY DEF Inv, RouterBound, Fits, OnRow
  <1>2. ASSUME NEW o \in AcceptedIn(hview[h].results) PROVE Reached(o)
    <2>1. o \in Operators /\ mailed[hview[h].from][o] = 1
      BY <1>2 DEF ResultInv, FirstRun, AcceptedIn
    <2>2. mailed[hview[h].from][o] > 0  BY <2>1
    <2>3. gen = hview[h].from  BY <1>1, <2>1, <2>2 DEF Inv, MailedHeld
    <2>4. QED BY <1>1, <2>1, <2>3, InboundConstants DEF Reached, InboundConstants
  <1>3. QED BY <1>2 DEF Borne

LEMMA BodyBorne ==
  ASSUME Inv, ResultInv, NEW j, Agrees(j)
  PROVE  Borne(j.results)
PROOF
  <1>1. ASSUME NEW o \in AcceptedIn(j.results) PROVE Reached(o)
    <2>1. o \in Recipients /\ o \in Operators /\ j.results[o] = "ok"
      BY <1>1 DEF Agrees, AcceptedIn, Reported
    <2>2. recipient[o] = "provider_accepted"  BY <2>1 DEF Agrees
    <2>3. QED BY <2>1, <2>2, AcceptedReached
  <1>2. QED BY <1>1 DEF Borne

PromiseStays == UNCHANGED <<gen, recipient, status, mailed>>
PromiseMoves == [Promise!Next]_(Promise!promise)

LEMMA PromiseRests == PromiseStays => PromiseMoves
PROOF BY DEF PromiseStays, PromiseMoves, Promise!promise

\* Writing the aggregate of results that are borne out is a report.
LEMMA ReportMaps ==
  ASSUME Inv, ResultInv, NEW r, Borne(r), Success(r) => AllSent,
         gen # None, status' = Aggregate(r), UNCHANGED <<gen, recipient, mailed>>
  PROVE  PromiseMoves
PROOF
  <1> DEFINE concerned == {o \in Operators : recipient[o] # "none"}
             reached   == {o \in concerned : mailed[gen][o] = 1}
  <1>1. status' \in Aggregates  BY AggregateTyped
  <1>2. ASSUME status' = "provider_accepted" PROVE reached = concerned
    BY <1>2 DEF Success, AllSent, Recipients
  <1>3. ASSUME status' # "recovery_required" PROVE reached # {}
    <2>1. AcceptedIn(r) # {}  BY <1>3 DEF Aggregate
    <2>2. PICK o \in AcceptedIn(r) : Reached(o)  BY <2>1 DEF Borne
    <2>3. o \in Operators /\ gen \in Deliveries /\ mailed[gen][o] = 1
      BY <2>2 DEF AcceptedIn, Reached, Inv, TypeOK
    <2>4. mailed[gen][o] > 0  BY <2>3
    <2>5. recipient[o] # "none"  BY <2>3, <2>4 DEF Inv, MailedHeld, Final
    <2>6. QED BY <2>3, <2>5
  <1>4. Promise!Report  BY <1>1, <1>2, <1>3 DEF Promise!Report, Aggregates
  <1>5. QED BY <1>4 DEF PromiseMoves, Promise!Next

LEMMA InsertMaps ==
  ASSUME NEW g \in Deliveries, NEW p \in Policies, InsertRow(g, p), UNCHANGED mailed
  PROVE  PromiseMoves
PROOF
  <1>1. Promise!Begin(g, p)  BY DEF InsertRow, InsertAllowed, Promise!Begin
  <1>2. QED BY <1>1 DEF PromiseMoves, Promise!Next

LEMMA ClaimMaps ==
  ASSUME Inv, NEW h \in Deliveries, ClaimRecipient(h)
  PROVE  PromiseMoves
PROOF
  <1>0. TypeOK  BY DEF Inv
  <1>1. UNCHANGED <<gen, status, mailed>>  BY DEF ClaimRecipient
  <1>2. CASE recipient' = recipient  BY <1>1, <1>2, PromiseRests DEF PromiseStays
  <1>3. ASSUME NEW o \in hview[h].todo, Claim(h, o) PROVE PromiseMoves
    <2>1. o \in Operators  BY <1>0 DEF TypeOK, HandlerView
    <2>2. Promise!Claim(o)  BY <1>1, <1>3 DEF Claim, ClaimAllowed, Promise!Claim
    <2>3. QED BY <2>1, <2>2 DEF PromiseMoves, Promise!Next
  <1>4. QED BY <1>2, <1>3 DEF ClaimRecipient

LEMMA CallMaps ==
  ASSUME Inv, NEW h \in Deliveries, CallProvider(h)
  PROVE  PromiseMoves
PROOF
  <1> DEFINE g == hview[h].from  o == hview[h].at
  <1>0. mailed \in [Deliveries -> [Operators -> Nat]]  BY DEF Inv, TypeOK
  <1>1. g \in Deliveries /\ o \in Operators /\ Engaged(h) /\ hpc[h] = "call"
    BY DEF Inv, RouterBound, Fits, CallProvider, OnRow, Engaged
  <1>2. gen = g /\ recipient[o] = "sending" /\ mailed[g][o] = 0  BY <1>1 DEF Inv, ClaimHeld
  <1>3. UNCHANGED <<gen, recipient, status>>  BY DEF CallProvider, row
  <1>4. CASE mailed' = mailed  BY <1>3, <1>4, PromiseRests DEF PromiseStays
  <1>5. CASE mailed' = [mailed EXCEPT ![g][o] = @ + 1]
    <2>1. mailed' = [mailed EXCEPT ![gen][o] = 1]  BY <1>0, <1>1, <1>2, <1>5
    <2>2. \A k \in Deliveries : mailed[k][o] = 0
      BY <1>1, <1>2 DEF Inv, MailedHeld
    <2>3. Promise!Mail(o)  BY <1>2, <1>3, <2>1, <2>2 DEF Promise!Mail
    <2>4. QED BY <1>1, <2>3 DEF PromiseMoves, Promise!Next
  <1>6. QED BY <1>4, <1>5 DEF CallProvider

LEMMA ProjectMaps ==
  ASSUME Inv, ResultInv, NEW h \in Deliveries, Project(h)
  PROVE  PromiseMoves
PROOF
  <1> DEFINE o == hview[h].at
  <1>0. TypeOK  BY DEF Inv
  <1>1. o \in Operators /\ Engaged(h) /\ hpc[h] = "project"
    BY DEF Inv, RouterBound, Fits, Project, Engaged
  <1>2. gen = hview[h].from /\ recipient[o] = "sending"  BY <1>1 DEF Inv, ClaimHeld
  <1>3. UNCHANGED <<gen, status, mailed>>  BY DEF Project
  <1>4. PICK after \in Projection(hview[h].answer, hview[h].recovers) :
          recipient' = [recipient EXCEPT ![o] = after]
    BY <1>2 DEF Project
  <1>5. CASE after = "sending"
    <2>1. recipient' = recipient  BY <1>0, <1>2, <1>4, <1>5 DEF TypeOK
    <2>2. QED BY <1>3, <2>1, PromiseRests DEF PromiseStays
  <1>6. CASE after # "sending"
    <2>1. after \in {"provider_accepted", "recovery_required"}
      BY <1>6 DEF Projection
    <2>2. ASSUME after = "provider_accepted" PROVE mailed[gen][o] = 1
      BY <1>1, <1>2, <2>2 DEF Projection, ResultInv, SentHeld
    <2>3. Promise!Settle(o)  BY <1>2, <1>3, <1>4, <2>1, <2>2 DEF Promise!Settle
    <2>4. QED BY <1>1, <2>3 DEF PromiseMoves, Promise!Next
  <1>7. QED BY <1>5, <1>6

LEMMA DiscardMaps ==
  ASSUME Inv, NEW h \in Deliveries, Discard(h)
  PROVE  PromiseMoves
PROOF
  <1>1. UNCHANGED mailed  BY DEF Discard
  <1>2. CASE UNCHANGED row  BY <1>1, <1>2, PromiseRests DEF PromiseStays, row
  <1>3. CASE DiscardAllowed(hview[h].fromPolicy) /\ DeleteRow
    <2>1. \A o \in Operators : recipient[o] \in {"none", "pending"}
      BY <1>3 DEF DiscardAllowed, Recipients
    <2>2. Promise!GiveUp
      BY <1>1, <1>3, <2>1 DEF DiscardAllowed, DeleteRow, Promise!GiveUp
    <2>3. QED BY <2>2 DEF PromiseMoves, Promise!Next
  <1>4. QED BY <1>2, <1>3 DEF Discard

LEMMA StatusMaps ==
  ASSUME Inv, ResultInv, SettleHeld, NEW h \in Deliveries, RecordResults(h) \/ Settle(h)
  PROVE  PromiseMoves
PROOF
  <1>1. UNCHANGED <<gen, recipient, mailed>>  BY DEF RecordResults, Settle
  <1>2. status' = status \/ (gen # None /\ status' = Aggregate(hview[h].results))
    BY DEF RecordResults, Settle, SetStatus
  <1>3. Borne(hview[h].results)
    BY RecordBorne DEF RecordResults, Settle, SettleHeld
  <1>4. Success(hview[h].results) => AllSent
    BY RecordedIsSent DEF RecordResults, Settle, ResultInv, ReportsHeld
  <1>5. CASE status' = status  BY <1>1, <1>5, PromiseRests DEF PromiseStays
  <1>6. QED BY <1>1, <1>2, <1>3, <1>4, <1>5, ReportMaps

LEMMA ConsumerMaps ==
  ASSUME Inv, ResultInv, CleanInv, NEW c \in Consumers, Consumer(c)
  PROVE  PromiseMoves
PROOF
  <1>1. UNCHANGED <<gen, recipient, mailed>>  BY ConsumerKeepsRow
  <1>2. CASE PersistProjection(c)
    <2>1. Agrees(Body(c))
      BY <1>2 DEF PersistProjection, CleanInv, CleanHeld, ConsumerActive
    <2>2. cview[c].job \in Deliveries /\ job[cview[c].job] # "none"
      BY <1>2 DEF PersistProjection, Inv, ConsumerBound
    <2>3. Success(Body(c).results) => AllSent  BY <2>2 DEF Body, ResultInv, ReportsHeld
    <2>4. status' = status \/ (gen # None /\ status' = Aggregate(Body(c).results))
      BY <1>2 DEF PersistProjection, SetStatus
    <2>5. CASE status' = status  BY <1>1, <2>5, PromiseRests DEF PromiseStays
    <2>6. QED BY <1>1, <2>1, <2>3, <2>4, <2>5, BodyBorne, ReportMaps
  <1>3. CASE ~PersistProjection(c)
    <2>1. UNCHANGED status
      BY <1>3 DEF Consumer, Work, Take, Match, DeletePayloads, DeleteRaw, RecordReceipt,
                  ClearAuthority, Finish, ConsumerCrash, row
    <2>2. QED BY <1>1, <2>1, PromiseRests DEF PromiseStays
  <1>4. QED BY <1>2, <1>3

LEMMA StepMaps ==
  ASSUME Inv, ResultInv, CleanInv, SettleHeld, [Next]_vars
  PROVE  PromiseMoves
PROOF
  <1>1. ASSUME NEW h \in Deliveries, Router(h) PROVE PromiseMoves
    <2>1. CASE Persist(h)
      <3>1. hview[h].policy \in Policies
        BY <2>1 DEF Inv, RouterBound, Fits, Persist, HandlerActive
      <3>2. CASE UNCHANGED row
        BY <2>1, <3>2, PromiseRests DEF Persist, PromiseStays, row
      <3>3. CASE InsertRow(h, hview[h].policy)
        BY <2>1, <3>1, <3>3, InsertMaps DEF Persist
      <3>4. QED BY <2>1, <3>2, <3>3 DEF Persist
    <2>2. CASE RecordResults(h) \/ Settle(h)  BY <2>2, StatusMaps
    <2>3. CASE Discard(h) \/ ClaimRecipient(h) \/ CallProvider(h) \/ Project(h)
      BY <2>3, DiscardMaps, ClaimMaps, CallMaps, ProjectMaps
    <2>4. CASE \/ Route(h) \/ Lookup(h) \/ Retire(h) \/ Sweep(h) \/ SpoolMessage(h)
               \/ Readback(h) \/ Recheck(h) \/ Snapshot(h) \/ CleanDelivery(h) \/ Refresh(h)
               \/ Enqueue(h) \/ RouterCrash(h)
      <3>1. PromiseStays
        BY <2>4
        DEF Route, Lookup, Retire, Sweep, SpoolMessage, Readback, Recheck, Snapshot,
            CleanDelivery, Refresh, Enqueue, RouterCrash, row, PromiseStays
      <3>2. QED BY <3>1, PromiseRests
    <2>5. QED BY <1>1, <2>1, <2>2, <2>3, <2>4 DEF Router
  <1>2. CASE LateCommit
    <2>1. PICK b \in inflight : InsertRow(b.by, b.policy)  BY <1>2 DEF LateCommit
    <2>2. b.by \in Deliveries /\ b.policy \in Policies  BY DEF Inv, TypeOK
    <2>3. QED BY <1>2, <2>1, <2>2, InsertMaps DEF LateCommit
  <1>3. CASE ActivatePolicy \/ LapsePayload \/ UNCHANGED vars
    <2>1. PromiseStays
      BY <1>3 DEF ActivatePolicy, LapsePayload, Change, vars, row, PromiseStays
    <2>2. QED BY <2>1, PromiseRests
  <1>4. QED BY <1>1, <1>2, <1>3, ConsumerMaps DEF Next

\* Whatever invocations, batches, jobs and policy changes come together, the path
\* implements the promise: the generation is given up only while nobody has been
\* claimed, each operator is claimed once, mailed at most once with its token and
\* settled once, and the message is never called better than what was mailed.
THEOREM InboundPromiseIsKept == Spec => KeepsInboundPromise
PROOF
  <1>1. Inv /\ ResultInv /\ CleanInv /\ SettleHeld /\ [Next]_vars
          => SettleHeld' /\ [Promise!Next]_(Promise!promise)
    BY SettleStep, StepMaps DEF PromiseMoves
  <1>2. Init => SettleHeld  BY DEF Init, SettleHeld
  <1>3. Init => Promise!Init  BY DEF Init, Promise!Init
  <1>4. QED
    BY <1>1, <1>2, <1>3, Invariance, ResultInvariance, CleanInvariance, PTL
    DEF Spec, KeepsInboundPromise, Promise!Spec
=============================================================================
