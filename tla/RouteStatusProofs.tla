------------------------- MODULE RouteStatusProofs --------------------------
(***************************************************************************)
(* Proofs about RouteStatus: its type invariant, that no projection        *)
(* outlives a change of its inputs, and that what a stored projection or   *)
(* an answer of the MCP adapter says is true, for every number of          *)
(* refreshers, readers, policies and profiles.                             *)
(***************************************************************************)
EXTENDS RouteStatus, WellFoundedInduction, TLAPS

\* What makes a projection p true from the moment it was computed until it expires,
\* as long as the inputs stay as they are: the parts of Earned that time can end
\* last at least until p.until.
Lasting(p) ==
  /\ p.at <= now /\ p.at < p.until
  /\ Trouble => p.class = "needs_attention"
  /\ p.class = "current" =>
       /\ InboundOn /\ ReplyOn
       /\ ~Trouble
       /\ \A i \in DOMAIN deliveries :
            deliveries[i].policy = policy => deliveries[i].recipient # "pending"
       /\ \A i \in DOMAIN replies :
            replies[i].admission = "claimed" => replies[i].attempt \notin {"receiving", "queued"}
       /\ \A x \in ProfilesOf[policy] :
            /\ authority[x] # None
            /\ authority[x].policy = policy /\ p.until <= authority[x].expires
            /\ policy \in PersonalFirst =>
                 \A k \in Kinds : p.until <= authority[x].seen[k] + ProofAge
       /\ policy \notin PersonalFirst =>
            \A k \in Kinds : proof[policy][k] # None /\ p.until <= proof[policy][k] + ProofAge

\* A projection of the present generation belongs to the active policy and lasts.
Sound(p) == p.gen = generation => p.policy = policy /\ Lasting(p)

StoredSound == projection # None => projection.gen = generation /\ Sound(projection)

\* What a refresher is about to publish.
FoundSound ==
  \A f \in Refreshers :
    /\ fview[f].at <= now
    /\ fpc[f] = "publish" =>
         fview[f].found # None /\ fview[f].found.gen <= generation
         /\ fview[f].found.at < fview[f].found.until /\ Sound(fview[f].found)

\* What a reader holds between its first and its second look at the generation.
ReadSound ==
  \A r \in Readers :
    rpc[r] \in {"reload", "recheck"} =>
      /\ rview[r].gen <= generation
      /\ rview[r].found # None => rview[r].found.gen = rview[r].gen /\ Sound(rview[r].found)

StatusInv == TypeOK /\ StoredSound /\ FoundSound /\ ReadSound

----------------------------------------------------------------------------
(* Types *)

\* The inputs as a step of InputsChange leaves them.
InputTypes ==
  /\ policy \in Policies
  /\ deliveries \in Seq(Delivery)
  /\ replies \in Seq(Reply)
  /\ proof \in [Policies -> [Kinds -> Times \cup {None}]]
  /\ authority \in [Profiles -> Authority \cup {None}]
  /\ quarantined \in BOOLEAN

\* An authorization expires at a time of its type.
LEMMA EndsInTime == \A e \in Expiries \cup {Never} : e \in 0..Never
  <1>1. Never \in Nat /\ MaxNow <= Never
    BY StatusConstants DEF Never
  <1> QED BY <1>1, StatusConstants

\* Every initial route has inputs of their types.
LEMMA InitialTypes == Init => InputTypes
  <1> SUFFICES ASSUME Init PROVE InputTypes
    OBVIOUS
  <1>1. proof \in [Policies -> [Kinds -> Times \cup {None}]]
    BY StatusConstants DEF Init, Times
  <1>2. \A s \in {"recovery_required", "provider_accepted"} :
          [policy |-> policy, recipient |-> s, total |-> s] \in Delivery
    BY DEF Init, Delivery
  <1>3. deliveries \in Seq(Delivery)
    <2>1. <<>> \in Seq(Delivery) /\ Unreconciled \in Seq(Delivery)
      BY <1>2 DEF Unreconciled
    <2>2. ASSUME NEW p \in Policies PROVE Waiting(p) \in Seq(Delivery)
      <3>1. [policy |-> p, recipient |-> "pending", total |-> "pending"] \in Delivery
        BY DEF Delivery
      <3> QED BY <3>1 DEF Waiting
    <2> QED BY <2>1, <2>2 DEF Init
  <1>4. policy \in Policies /\ replies \in Seq(Reply) /\ quarantined \in BOOLEAN
    <2>1. policy \in Policies /\ quarantined \in BOOLEAN
      BY DEF Init
    <2>2. [policy |-> policy, attempt |-> "queued", admission |-> "sending"] \in Reply
      BY <2>1 DEF Reply, Attempts, Admissions
    <2>3. <<>> \in Seq(Reply) /\ InFlight \in Seq(Reply)
      BY <2>2 DEF InFlight
    <2> QED BY <2>1, <2>3 DEF Init
  <1>5. authority \in [Profiles -> Authority \cup {None}]
    <2>1. CASE authority = [x \in Profiles |-> None]
      BY <2>1
    <2>2. CASE /\ proof = [p \in Policies |-> [k \in Kinds |-> 0]]
               /\ \E e \in Expiries \cup {Never} : authority = [x \in Profiles |->
                    IF x \in ProfilesOf[policy]
                    THEN [policy |-> policy, expires |-> e, seen |-> proof[policy]] ELSE None]
      <3>1. PICK e \in Expiries \cup {Never} : authority = [x \in Profiles |->
              IF x \in ProfilesOf[policy]
              THEN [policy |-> policy, expires |-> e, seen |-> proof[policy]] ELSE None]
        BY <2>2
      <3>2. e \in 0..Never
        BY EndsInTime
      <3>3. proof[policy] \in [Kinds -> Times]
        BY <2>2, <1>4, StatusConstants DEF Times
      <3>4. [policy |-> policy, expires |-> e, seen |-> proof[policy]] \in Authority
        BY <3>2, <3>3, <1>4 DEF Authority
      <3> QED BY <3>1, <3>4
    <2> QED BY <2>1, <2>2 DEF Init
  <1> QED BY <1>1, <1>3, <1>4, <1>5 DEF InputTypes

\* Every change of the inputs keeps their types, advances the generation and deletes
\* the projection.
LEMMA ChangeTypes == ASSUME TypeOK, InputsChange PROVE InputTypes'
  <1> USE StatusConstants DEF TypeOK, InputTypes
  <1>1. ASSUME NEW p \in Policies, Activate(p) PROVE InputTypes'
    BY <1>1 DEF Activate
  <1>2. CASE Receive
    <2>1. [policy |-> policy, recipient |-> "pending", total |-> "pending"] \in Delivery
      BY DEF Delivery
    <2> QED BY <1>2, <2>1 DEF Receive
  <1>3. ASSUME NEW i \in DOMAIN deliveries,
               NEW s \in {"sending", "provider_accepted", "recovery_required"},
               RecipientMoves(i, s) \/ TotalMoves(i, s)
        PROVE  InputTypes'
    <2>1. deliveries[i] \in Delivery
      OBVIOUS
    <2>2. CASE RecipientMoves(i, s)
      <3>1. [deliveries[i] EXCEPT !.recipient = s] \in Delivery
        BY <2>1, <2>2 DEF RecipientMoves, Delivery
      <3> QED BY <3>1, <2>2 DEF RecipientMoves
    <2>3. CASE TotalMoves(i, s)
      <3>1. [deliveries[i] EXCEPT !.total = s] \in Delivery
        BY <2>1, <2>3 DEF TotalMoves, Delivery
      <3> QED BY <3>1, <2>3 DEF TotalMoves
    <2> QED BY <1>3, <2>2, <2>3
  <1>4. ASSUME NEW i \in DOMAIN deliveries, Retire(i) PROVE InputTypes'
    <2>1. deliveries[i] \in Delivery
      OBVIOUS
    <2>2. [deliveries[i] EXCEPT !.recipient = "gone"] \in Delivery
      BY <2>1 DEF Delivery
    <2> QED BY <1>4, <2>2 DEF Retire
  <1>5. CASE Admit
    <2>1. [policy |-> policy, attempt |-> "receiving", admission |-> "claimed"] \in Reply
      BY DEF Reply, Attempts, Admissions
    <2> QED BY <1>5, <2>1 DEF Admit
  <1>6. ASSUME NEW i \in DOMAIN replies, NEW a \in Attempts, NEW d \in Admissions,
               ReplyMoves(i, a, d)
        PROVE  InputTypes'
    <2>1. replies[i] \in Reply
      OBVIOUS
    <2>2. [replies[i] EXCEPT !.attempt = a, !.admission = d] \in Reply
      BY <2>1 DEF Reply
    <2>3. replies' = [replies EXCEPT ![i] = [replies[i] EXCEPT !.attempt = a, !.admission = d]]
      BY <1>6, <2>1 DEF ReplyMoves, Reply
    <2>4. replies' \in Seq(Reply)
      BY <2>2, <2>3
    <2> QED BY <1>6, <2>4 DEF ReplyMoves
  <1>7. ASSUME NEW k \in Kinds, NEW t \in Times, Prove(k, t) PROVE InputTypes'
    BY <1>7 DEF Prove
  <1>8. ASSUME NEW x \in Profiles, NEW e \in Expiries \cup {Never}, Authorize(x, e)
        PROVE  InputTypes'
    <2>1. e \in 0..Never
      BY EndsInTime
    <2>2. proof[policy] \in [Kinds -> Times]
      BY <1>8 DEF Authorize
    <2>3. [policy |-> policy, expires |-> e, seen |-> proof[policy]] \in Authority
      BY <2>1, <2>2 DEF Authority
    <2> QED BY <1>8, <2>3 DEF Authorize
  <1>9. ASSUME NEW x \in Profiles, Revoke(x) PROVE InputTypes'
    BY <1>9 DEF Revoke
  <1>10. CASE Contain
    BY <1>10 DEF Contain
  <1> QED BY <1>1, <1>2, <1>3, <1>4, <1>5, <1>6, <1>7, <1>8, <1>9, <1>10 DEF InputsChange

LEMMA ChangeInvalidates == InputsChange => Invalidate
  BY DEF InputsChange, Activate, Receive, RecipientMoves, TotalMoves, Retire, Admit,
         ReplyMoves, Prove, Authorize, Revoke, Contain

----------------------------------------------------------------------------
(* The computation of a projection *)

LEMMA Smallest ==
  ASSUME NEW S \in SUBSET Nat, S # {}
  PROVE  \E m \in S : \A x \in S : m <= x
  <1> DEFINE Less == {p \in Nat \X Nat : p[1] < p[2]}
  <1>0. IsWellFoundedOn(Less, Nat)
    BY NatLessThanWellFounded, Zenon DEF OpToRel
  <1>1. PICK m \in S : \A x \in S : ~(<<x, m>> \in Less)
    <2> HIDE DEF Less
    <2> QED BY <1>0, WFMin
  <1>2. ASSUME NEW x \in S PROVE m <= x
    <2>1. x \in Nat /\ m \in Nat
      BY <1>2
    <2>2. <<x, m>> \in Nat \X Nat /\ <<x, m>>[1] = x /\ <<x, m>>[2] = m
      BY <2>1
    <2>3. ~(x < m)
      BY <1>1, <1>2, <2>2
    <2> QED BY <2>1, <2>3
  <1> QED BY <1>2

\* The observations are times, and a kind that is fresh at t stays so until u,
\* when u is no later than any expiration ahead of t.
LEMMA ObservedTimes == ASSUME TypeOK, NEW k \in Kinds PROVE Observed(k) \in SUBSET Times
  <1>1. CASE policy \notin PersonalFirst
    BY <1>1 DEF TypeOK, Observed
  <1>2. CASE policy \in PersonalFirst /\ Covered
    <2>1. ASSUME NEW x \in ProfilesOf[policy] PROVE authority[x].seen[k] \in Times
      <3>1. x \in Profiles
        BY StatusConstants DEF TypeOK
      <3>2. authority[x] \in Authority
        BY <1>2, <3>1 DEF TypeOK, Covered
      <3> QED BY <3>2 DEF Authority
    <2> QED BY <1>2, <2>1 DEF Observed
  <1>3. CASE policy \in PersonalFirst /\ ~Covered
    BY <1>3 DEF Observed
  <1> QED BY <1>1, <1>2, <1>3

LEMMA FreshUntil ==
  ASSUME TypeOK, NEW k \in Kinds, NEW t \in Times, Fresh(k, t),
         NEW u \in Nat, \A e \in Ahead(t) : u <= e
  PROVE  Observed(k) # {} /\ \A o \in Observed(k) : u <= o + ProofAge
  <1> USE StatusConstants
  <1>1. Observed(k) # {} /\ Observed(k) \in SUBSET Nat
    BY ObservedTimes DEF Fresh, Valid, Times
  <1>2. PICK m \in Observed(k) : \A x \in Observed(k) : m <= x
    BY <1>1, Smallest
  <1>3. m + ProofAge > t
    <2>1. t - m < ProofAge
      BY DEF Fresh
    <2> QED BY <2>1, <1>1 DEF Times
  <1>4. m \in Oldest(k)
    BY <1>2 DEF Oldest
  <1>5. m + ProofAge \in Expirations(t)
    <2>1. k \in {x \in Kinds : Valid(x, t)}
      BY DEF Fresh
    <2> DEFINE Ends(x) == {o + ProofAge : o \in Oldest(x)}
    <2>2. m + ProofAge \in Ends(k)
      BY <1>4
    <2>3. m + ProofAge \in UNION {Ends(x) : x \in {y \in Kinds : Valid(y, t)}}
      <3> HIDE DEF Ends
      <3> QED BY <2>1, <2>2
    <2>4. m + ProofAge \in ProofEnds(t)
      BY <2>3, Zenon DEF ProofEnds
    <2> QED BY <2>4 DEF Expirations
  <1>6. u <= m + ProofAge
    BY <1>3, <1>5 DEF Ahead
  <1> QED BY <1>1, <1>2, <1>6

LEMMA CoveredUntil ==
  ASSUME TypeOK, Covered, NEW t \in Times, t <= now,
         NEW u \in Nat, \A e \in Ahead(t) : u <= e,
         NEW x \in ProfilesOf[policy]
  PROVE  u <= authority[x].expires
  <1> USE StatusConstants
  <1>1. authority[x] \in Authority /\ authority[x].expires > now
    BY DEF TypeOK, Covered
  <1>2. authority[x].expires \in Expirations(t)
    <2>1. authority[x].expires \in AuthorityEnds
      BY DEF AuthorityEnds
    <2> QED BY <2>1 DEF Expirations
  <1>3. authority[x].expires > t
    BY <1>1 DEF Authority, TypeOK, Times, Never
  <1> QED BY <1>2, <1>3 DEF Ahead

\* A projection that calls a route current is earned until u.
LEMMA CurrentLasts ==
  ASSUME TypeOK, NEW t \in Times, t <= now, Class(t) = "current",
         NEW u \in Nat, \A e \in Ahead(t) : u <= e
  PROVE  /\ InboundOn /\ ReplyOn
         /\ ~Trouble
         /\ \A i \in DOMAIN deliveries :
              deliveries[i].policy = policy => deliveries[i].recipient # "pending"
         /\ \A i \in DOMAIN replies :
              replies[i].admission = "claimed" => replies[i].attempt \notin {"receiving", "queued"}
         /\ \A x \in ProfilesOf[policy] :
              /\ authority[x] # None
              /\ authority[x].policy = policy /\ u <= authority[x].expires
              /\ policy \in PersonalFirst =>
                   \A k \in Kinds : u <= authority[x].seen[k] + ProofAge
         /\ policy \notin PersonalFirst =>
              \A k \in Kinds : proof[policy][k] # None /\ u <= proof[policy][k] + ProofAge
  <1>1. ~NeedsAttention /\ ~Claimed("queued") /\ InboundOn /\ Current(t)
    BY DEF Class
  <1>2. Covered /\ ReplyOn /\ \A k \in Kinds : Fresh(k, t)
    BY <1>1 DEF Current, Kinds
  <1>3. ~Trouble
    BY <1>1 DEF NeedsAttention, Trouble, Unknown
  <1>4. ASSUME NEW i \in DOMAIN deliveries, deliveries[i].policy = policy
        PROVE  deliveries[i].recipient # "pending"
    BY <1>1, <1>4 DEF NeedsAttention, InboundFailed
  <1>5. ASSUME NEW i \in DOMAIN replies, replies[i].admission = "claimed"
        PROVE  replies[i].attempt \notin {"receiving", "queued"}
    BY <1>1, <1>5 DEF NeedsAttention, Claimed
  <1>6. ASSUME NEW x \in ProfilesOf[policy]
        PROVE  authority[x] # None /\ authority[x].policy = policy /\ u <= authority[x].expires
    BY <1>2, CoveredUntil DEF Covered
  <1>7. ASSUME NEW x \in ProfilesOf[policy], policy \in PersonalFirst, NEW k \in Kinds
        PROVE  u <= authority[x].seen[k] + ProofAge
    <2>1. authority[x].seen[k] \in Observed(k)
      BY <1>2, <1>7 DEF Observed
    <2> QED BY <1>2, <2>1, FreshUntil
  <1>8. ASSUME policy \notin PersonalFirst, NEW k \in Kinds
        PROVE  proof[policy][k] # None /\ u <= proof[policy][k] + ProofAge
    <2>1. Observed(k) = {proof[policy][k]} \ {None}
      BY <1>8 DEF Observed
    <2>2. Observed(k) # {} /\ \A o \in Observed(k) : u <= o + ProofAge
      BY <1>2, FreshUntil
    <2> QED BY <2>1, <2>2
  <1> QED BY <1>1, <1>2, <1>3, <1>4, <1>5, <1>6, <1>7, <1>8

----------------------------------------------------------------------------
(* The invariant *)

\* Lasting speaks of the clock only in p.at <= now, which time cannot undo.
LEMMA LastingStays ==
  ASSUME TypeOK, NEW p \in Projection, Sound(p), now' \in Times, now <= now',
         UNCHANGED <<inputs, generation>>
  PROVE  Sound(p)'
  <1>1. p.at <= now => p.at <= now'
    BY StatusConstants DEF TypeOK, Projection, Times
  <1> QED BY <1>1 DEF Sound, Lasting, Trouble, inputs

\* After a change of the inputs no projection computed before it counts any more.
LEMMA ObsoleteIsSound ==
  ASSUME TypeOK, Invalidate, NEW p \in Projection, p.gen <= generation
  PROVE  Sound(p)' /\ p.gen <= generation'
  BY StatusConstants DEF TypeOK, Invalidate, Projection, Sound

LEMMA InitialStatus == Init => StatusInv
  <1> SUFFICES ASSUME Init PROVE StatusInv
    OBVIOUS
  <1> USE StatusConstants
  <1>1. NoRefresh \in FreshView /\ NoRead \in ReadView
    BY DEF NoRefresh, FreshView, NoRead, ReadView, Times
  <1>2. TypeOK
    BY InitialTypes, <1>1 DEF Init, InputTypes, TypeOK, Times, FreshPc, ReadPc
  <1>3. StoredSound /\ FoundSound /\ ReadSound
    BY DEF Init, StoredSound, FoundSound, ReadSound, NoRefresh
  <1> QED BY <1>2, <1>3 DEF StatusInv

LEMMA ChangeKeepsStatus == ASSUME StatusInv, InputsChange PROVE StatusInv'
  <1> USE StatusConstants
  <1>1. Invalidate /\ TypeOK
    BY ChangeInvalidates DEF StatusInv
  <1>2. InputTypes'
    BY ChangeTypes, <1>1
  <1>3. TypeOK'
    BY <1>1, <1>2 DEF TypeOK, InputTypes, Invalidate, refresher, reader
  <1>4. StoredSound'
    BY <1>1 DEF StoredSound, Invalidate
  <1>5. FoundSound'
    <2> SUFFICES ASSUME NEW f \in Refreshers
                 PROVE  /\ fview'[f].at <= now'
                        /\ fpc'[f] = "publish" =>
                             fview'[f].found # None /\ fview'[f].found.gen <= generation'
                             /\ fview'[f].found.at < fview'[f].found.until /\ Sound(fview[f].found)'
      BY DEF FoundSound
    <2>1. fview'[f] = fview[f] /\ fpc'[f] = fpc[f] /\ now' = now
      BY <1>1 DEF Invalidate, refresher
    <2>2. fview[f].at <= now
      BY DEF StatusInv, FoundSound
    <2>3. ASSUME fpc[f] = "publish"
          PROVE  /\ fview[f].found # None /\ fview[f].found.gen <= generation'
                 /\ fview[f].found.at < fview[f].found.until /\ Sound(fview[f].found)'
      <3>1. PICK p \in Projection : p = fview[f].found
        BY <1>1, <2>3 DEF StatusInv, FoundSound, TypeOK, FreshView
      <3>2. p # None /\ p.gen <= generation /\ p.at < p.until
        BY <2>3, <3>1 DEF StatusInv, FoundSound
      <3>3. p.gen <= generation' /\ Sound(p)'
        BY <1>1, <3>2, ObsoleteIsSound
      <3> QED BY <2>1, <3>1, <3>2, <3>3
    <2> QED BY <2>1, <2>2, <2>3
  <1>6. ReadSound'
    <2> SUFFICES ASSUME NEW r \in Readers, rpc'[r] \in {"reload", "recheck"}
                 PROVE  /\ rview'[r].gen <= generation'
                        /\ rview'[r].found # None =>
                             rview'[r].found.gen = rview'[r].gen /\ Sound(rview[r].found)'
      BY DEF ReadSound
    <2>1. rview'[r] = rview[r] /\ rpc'[r] = rpc[r] /\ generation' = generation + 1
      BY <1>1 DEF Invalidate, reader
    <2>2. rview[r].gen \in Nat /\ generation \in Nat /\ rview[r].gen <= generation
      BY <1>1, <2>1 DEF StatusInv, ReadSound, TypeOK, ReadView
    <2>3. ASSUME rview[r].found # None
          PROVE  rview[r].found.gen = rview[r].gen /\ Sound(rview[r].found)'
      <3>1. PICK p \in Projection : p = rview[r].found
        BY <1>1, <2>3 DEF TypeOK, ReadView
      <3>2. p.gen = rview[r].gen
        BY <2>1, <2>3, <3>1 DEF StatusInv, ReadSound
      <3>3. Sound(p)'
        BY <1>1, <2>2, <3>2, ObsoleteIsSound
      <3> QED BY <2>1, <3>1, <3>2, <3>3
    <2> QED BY <2>1, <2>2, <2>3
  <1> QED BY <1>3, <1>4, <1>5, <1>6 DEF StatusInv


\* The clock: every projection that was sound stays so.
LEMMA TickKeepsStatus == ASSUME StatusInv, Tick PROVE StatusInv'
  <1> USE StatusConstants
  <1>1. TypeOK /\ now \in Times /\ now' \in Times /\ now <= now'
    BY DEF StatusInv, TypeOK, Tick, Times
  <1>2. UNCHANGED <<inputs, generation>> /\ UNCHANGED <<derived, refresher, reader>>
    BY DEF Tick, derived
  <1>3. ASSUME NEW p \in Projection, Sound(p) PROVE Sound(p)'
    BY <1>1, <1>2, <1>3, LastingStays
  <1>4. TypeOK'
    BY <1>1, <1>2 DEF TypeOK, inputs, derived, refresher, reader
  <1>5. StoredSound'
    <2>1. CASE projection = None
      BY <1>2, <2>1 DEF StoredSound, derived
    <2>2. CASE projection # None
      <3>1. PICK p \in Projection : p = projection
        BY <1>1, <2>2 DEF TypeOK
      <3>2. p.gen = generation /\ Sound(p)
        BY <2>2, <3>1 DEF StatusInv, StoredSound
      <3>3. Sound(p)'
        BY <1>3, <3>2
      <3> QED BY <1>2, <3>1, <3>2, <3>3 DEF StoredSound, derived
    <2> QED BY <2>1, <2>2
  <1>6. FoundSound'
    <2> SUFFICES ASSUME NEW f \in Refreshers
                 PROVE  /\ fview'[f].at <= now'
                        /\ fpc'[f] = "publish" =>
                             fview'[f].found # None /\ fview'[f].found.gen <= generation'
                             /\ fview'[f].found.at < fview'[f].found.until /\ Sound(fview[f].found)'
      BY DEF FoundSound
    <2>1. fview' = fview /\ fpc' = fpc /\ generation' = generation
      BY <1>2 DEF refresher
    <2>2. fview[f].at \in Times /\ fview[f].at <= now
      BY <1>1 DEF StatusInv, FoundSound, TypeOK, FreshView
    <2>3. fview[f].at <= now'
      BY <1>1, <2>2 DEF Times
    <2>4. ASSUME fpc[f] = "publish"
          PROVE  /\ fview[f].found # None /\ fview[f].found.gen <= generation
                 /\ fview[f].found.at < fview[f].found.until /\ Sound(fview[f].found)'
      <3>1. PICK p \in Projection : p = fview[f].found
        BY <1>1, <2>4 DEF StatusInv, FoundSound, TypeOK, FreshView
      <3>2. p # None /\ p.gen <= generation /\ p.at < p.until /\ Sound(p)
        BY <2>4, <3>1 DEF StatusInv, FoundSound
      <3>3. Sound(p)'
        BY <1>3, <3>2
      <3> QED BY <2>1, <3>1, <3>2, <3>3
    <2> QED BY <2>1, <2>3, <2>4
  <1>7. ReadSound'
    <2> SUFFICES ASSUME NEW r \in Readers, rpc'[r] \in {"reload", "recheck"}
                 PROVE  /\ rview'[r].gen <= generation'
                        /\ rview'[r].found # None =>
                             rview'[r].found.gen = rview'[r].gen /\ Sound(rview[r].found)'
      BY DEF ReadSound
    <2>1. rview' = rview /\ rpc' = rpc /\ generation' = generation
      BY <1>2 DEF reader
    <2>2. rview[r].gen <= generation
      BY <2>1 DEF StatusInv, ReadSound
    <2>3. ASSUME rview[r].found # None
          PROVE  rview[r].found.gen = rview[r].gen /\ Sound(rview[r].found)'
      <3>1. PICK p \in Projection : p = rview[r].found
        BY <1>1, <2>3 DEF TypeOK, ReadView
      <3>2. p.gen = rview[r].gen /\ Sound(p)
        BY <2>1, <2>3, <3>1 DEF StatusInv, ReadSound
      <3>3. Sound(p)'
        BY <1>3, <3>2
      <3> QED BY <2>1, <3>1, <3>2, <3>3
    <2> QED BY <2>1, <2>2, <2>3
  <1> QED BY <1>4, <1>5, <1>6, <1>7 DEF StatusInv

----------------------------------------------------------------------------
(* The calls *)

LEMMA SoundUnchanged ==
  ASSUME UNCHANGED <<now, inputs, generation>>, NEW p PROVE Sound(p)' <=> Sound(p)
  BY DEF Sound, Lasting, Trouble, inputs

LEMMA SelectFindsSound ==
  ASSUME TypeOK, NEW t \in Times, t <= now, NEW u \in 0..Never, u \in Ahead(t),
         \A e \in Ahead(t) : u <= e,
         NEW p, p = [gen |-> generation, policy |-> policy, at |-> t, until |-> u, class |-> Class(t)]
  PROVE  p \in Projection /\ p.gen = generation /\ p.at < p.until /\ Sound(p)
  <1> USE StatusConstants
  <1>1. p \in Projection
    BY DEF TypeOK, Projection, Class, Classes
  <1>2. p.gen = generation /\ p.at < p.until
    BY DEF Ahead, Never, Times
  <1>3. Trouble => Class(t) = "needs_attention"
    BY DEF Trouble, NeedsAttention, Unknown, Class
  <1>4. u \in Nat
    BY DEF Never
  <1>5. p.policy = policy /\ p.at = t /\ p.until = u /\ p.class = Class(t)
    OBVIOUS
  <1>6. Lasting(p)
    <2> HIDE DEF Class
    <2>1. p.at <= now /\ p.at < p.until /\ (Trouble => p.class = "needs_attention")
      BY <1>2, <1>3, <1>5
    <2>2. CASE p.class # "current"
      BY <2>1, <2>2 DEF Lasting
    <2>3. CASE p.class = "current"
      BY <1>4, <1>5, <2>1, <2>3, CurrentLasts DEF Lasting
    <2> QED BY <2>2, <2>3
  <1> QED BY <1>1, <1>2, <1>5, <1>6 DEF Sound

\* A step of a refresher preserves the invariant if what it leaves behind is sound:
\* its own view and the stored projection.
LEMMA RefresherStep ==
  ASSUME StatusInv, NEW f \in Refreshers, NEW from, NEW to \in FreshPc, NEW view \in FreshView,
         Refreshing(f, from, to, view),
         view.at <= now,
         to = "publish" => view.found # None /\ view.found.gen <= generation
                           /\ view.found.at < view.found.until /\ Sound(view.found),
         projection' \in Projection \cup {None},
         projection' # None => /\ projection'.gen = generation
                               /\ projection'.at < projection'.until
                               /\ \E p : p = projection' /\ Sound(p)
  PROVE  StatusInv'
  <1>1. UNCHANGED <<now, inputs, generation>> /\ rpc' = rpc /\ rview' = rview
    BY DEF Refreshing, reader
  <1>2. TypeOK'
    BY <1>1 DEF StatusInv, TypeOK, Refreshing, inputs
  <1>3. StoredSound'
    <2>1. ASSUME projection' # None PROVE Sound(projection)'
      <3>1. PICK p : p = projection' /\ Sound(p)
        BY <2>1
      <3>2. Sound(p)'
        BY <1>1, <3>1, SoundUnchanged
      <3> QED BY <3>1, <3>2
    <2> QED BY <1>1, <2>1 DEF StoredSound
  <1>4. FoundSound'
    <2> SUFFICES ASSUME NEW g \in Refreshers
                 PROVE  /\ fview'[g].at <= now'
                        /\ fpc'[g] = "publish" =>
                             fview'[g].found # None /\ fview'[g].found.gen <= generation'
                             /\ fview'[g].found.at < fview'[g].found.until /\ Sound(fview[g].found)'
      BY DEF FoundSound
    <2>1. CASE g = f
      <3>1. fview'[g] = view /\ fpc'[g] = to
        BY <2>1 DEF StatusInv, TypeOK, Refreshing
      <3>2. ASSUME to = "publish" PROVE Sound(view.found)'
        <4>1. PICK p : p = view.found
          OBVIOUS
        <4>2. Sound(p)'
          BY <1>1, <3>2, <4>1, SoundUnchanged
        <4> QED BY <4>1, <4>2
      <3> QED BY <1>1, <3>1, <3>2
    <2>2. CASE g # f
      <3>1. fview'[g] = fview[g] /\ fpc'[g] = fpc[g]
        BY <2>2 DEF StatusInv, TypeOK, Refreshing
      <3>2. fview[g].at <= now
        BY DEF StatusInv, FoundSound
      <3>3. ASSUME fpc[g] = "publish"
            PROVE  /\ fview[g].found # None /\ fview[g].found.gen <= generation
                   /\ fview[g].found.at < fview[g].found.until /\ Sound(fview[g].found)'
        <4>1. PICK p : p = fview[g].found
          OBVIOUS
        <4>2. p # None /\ p.gen <= generation /\ p.at < p.until /\ Sound(p)
          BY <3>3, <4>1 DEF StatusInv, FoundSound
        <4>3. Sound(p)'
          BY <1>1, <4>2, SoundUnchanged
        <4> QED BY <3>1, <4>1, <4>2, <4>3
      <3> QED BY <1>1, <3>1, <3>2, <3>3
    <2> QED BY <2>1, <2>2
  <1>5. ReadSound'
    <2> SUFFICES ASSUME NEW r \in Readers, rpc'[r] \in {"reload", "recheck"}
                 PROVE  /\ rview'[r].gen <= generation'
                        /\ rview'[r].found # None =>
                             rview'[r].found.gen = rview'[r].gen /\ Sound(rview[r].found)'
      BY DEF ReadSound
    <2>1. rview[r].gen <= generation
          /\ (rview[r].found # None => rview[r].found.gen = rview[r].gen /\ Sound(rview[r].found))
      BY <1>1 DEF StatusInv, ReadSound
    <2>2. PICK p : p = rview[r].found
      OBVIOUS
    <2>3. Sound(p)' <=> Sound(p)
      BY <1>1, SoundUnchanged
    <2> QED BY <1>1, <2>1, <2>2, <2>3
  <1> QED BY <1>2, <1>3, <1>4, <1>5 DEF StatusInv

LEMMA RefreshKeepsStatus == ASSUME StatusInv, NEW f \in Refreshers, Refresh(f) PROVE StatusInv'
  <1> USE StatusConstants
  <1>1. TypeOK /\ fview[f] \in FreshView /\ fview[f].at <= now /\ now \in Times
    BY DEF StatusInv, FoundSound, TypeOK
  \* A stored projection that a step leaves alone is what RefresherStep asks for.
  <1>2. ASSUME UNCHANGED projection
        PROVE  /\ projection' \in Projection \cup {None}
               /\ projection' # None => /\ projection'.gen = generation
                                        /\ projection'.at < projection'.until
                                        /\ \E p : p = projection' /\ Sound(p)
    BY <1>1, <1>2 DEF StatusInv, TypeOK, StoredSound
  <1>3. NoRefresh \in FreshView /\ NoRefresh.at <= now
    BY <1>1 DEF NoRefresh, FreshView, Times
  <1>4. CASE Start(f)
    <2> DEFINE view == [NoRefresh EXCEPT !.at = now]
    <2>1. view \in FreshView /\ view.at <= now
      BY <1>1 DEF NoRefresh, FreshView, Times
    <2>2. Refreshing(f, "idle", "load", view) /\ UNCHANGED projection
      BY <1>4 DEF Start
    <2> HIDE DEF view
    <2> QED BY <1>2, <2>1, <2>2, RefresherStep DEF FreshPc
  <1>5. CASE Load(f)
    <2> DEFINE view == [fview[f] EXCEPT !.policy = policy]
    <2>1. view \in FreshView /\ view.at <= now
      BY <1>1 DEF FreshView, TypeOK
    <2>2. Refreshing(f, "load", "select", view) /\ UNCHANGED projection
      BY <1>5 DEF Load
    <2> HIDE DEF view
    <2> QED BY <1>2, <2>1, <2>2, RefresherStep DEF FreshPc
  <1>6. ASSUME NEW u \in 0..Never, Select(f, u) PROVE StatusInv'
    <2> DEFINE t == fview[f].at
               p == [gen |-> generation, policy |-> policy, at |-> t, until |-> u, class |-> Class(t)]
               view == [fview[f] EXCEPT !.found = p]
    <2>1. Refreshing(f, "select", "publish", view) /\ UNCHANGED projection
          /\ u \in Ahead(t) /\ \A e \in Ahead(t) : u <= e
      BY <1>6, Zenon DEF Select
    <2>2. t \in Times
      BY <1>1 DEF FreshView
    <2> HIDE DEF t
    <2>3. p \in Projection /\ p.gen = generation /\ p.at < p.until /\ Sound(p)
      BY <1>1, <2>1, <2>2, SelectFindsSound DEF t
    <2>4. p # None
      BY <2>3, NullIsNoRow
    <2> HIDE DEF p
    <2>5. view \in FreshView /\ view.at <= now /\ view.found = p
      BY <1>1, <2>3 DEF FreshView
    <2>6. generation <= generation
      BY <1>1 DEF TypeOK
    <2> HIDE DEF view
    <2> QED BY <1>2, <2>1, <2>3, <2>4, <2>5, <2>6, RefresherStep DEF FreshPc
  <1>7. CASE Publish(f)
    <2>1. Refreshing(f, "publish", "idle", NoRefresh)
      BY <1>7 DEF Publish
    <2>2. PICK p : p = fview[f].found
      OBVIOUS
    <2>3. p \in Projection /\ p.at < p.until /\ Sound(p)
      BY <1>1, <2>1, <2>2 DEF StatusInv, FoundSound, Refreshing, FreshView
    <2>4. projection' = IF p.gen = generation /\ p.policy = policy THEN p ELSE projection
      BY <1>7, <2>2 DEF Publish
    <2>5. CASE p.gen = generation /\ p.policy = policy
      BY <1>3, <2>1, <2>3, <2>4, <2>5, RefresherStep DEF FreshPc
    <2>6. CASE ~(p.gen = generation /\ p.policy = policy)
      BY <1>2, <1>3, <2>1, <2>4, <2>6, RefresherStep DEF FreshPc
    <2> QED BY <2>5, <2>6
  <1>8. CASE Abandon(f)
    BY <1>2, <1>3, <1>8, RefresherStep DEF Abandon, FreshPc
  <1> QED BY <1>4, <1>5, <1>6, <1>7, <1>8 DEF Refresh

\* A step of a reader preserves the invariant if what it holds is sound.
LEMMA ReaderStep ==
  ASSUME StatusInv, NEW r \in Readers, NEW from, NEW to \in ReadPc, NEW view \in ReadView,
         Reading(r, from, to, view),
         to \in {"reload", "recheck"} =>
           /\ view.gen <= generation
           /\ view.found # None => view.found.gen = view.gen /\ Sound(view.found)
  PROVE  StatusInv'
  <1>1. UNCHANGED <<now, inputs, generation>> /\ projection' = projection
        /\ fpc' = fpc /\ fview' = fview
    BY DEF Reading, derived, refresher
  <1>2. TypeOK'
    BY <1>1 DEF StatusInv, TypeOK, Reading, inputs
  <1>3. StoredSound'
    <2>1. PICK p : p = projection
      OBVIOUS
    <2>2. Sound(p)' <=> Sound(p)
      BY <1>1, SoundUnchanged
    <2> QED BY <1>1, <2>1, <2>2 DEF StatusInv, StoredSound
  <1>4. FoundSound'
    <2> SUFFICES ASSUME NEW f \in Refreshers
                 PROVE  /\ fview'[f].at <= now'
                        /\ fpc'[f] = "publish" =>
                             fview'[f].found # None /\ fview'[f].found.gen <= generation'
                             /\ fview'[f].found.at < fview'[f].found.until /\ Sound(fview[f].found)'
      BY DEF FoundSound
    <2>1. PICK p : p = fview[f].found
      OBVIOUS
    <2>2. Sound(p)' <=> Sound(p)
      BY <1>1, SoundUnchanged
    <2> QED BY <1>1, <2>1, <2>2 DEF StatusInv, FoundSound
  <1>5. ReadSound'
    <2> SUFFICES ASSUME NEW q \in Readers, rpc'[q] \in {"reload", "recheck"}
                 PROVE  /\ rview'[q].gen <= generation'
                        /\ rview'[q].found # None =>
                             rview'[q].found.gen = rview'[q].gen /\ Sound(rview[q].found)'
      BY DEF ReadSound
    <2>1. PICK p : p = rview'[q].found
      OBVIOUS
    <2>2. Sound(p)' <=> Sound(p)
      BY <1>1, SoundUnchanged
    <2>3. CASE q = r
      <3>1. rview'[q] = view /\ rpc'[q] = to
        BY <2>3 DEF StatusInv, TypeOK, Reading
      <3> QED BY <1>1, <2>1, <2>2, <3>1
    <2>4. CASE q # r
      <3>1. rview'[q] = rview[q] /\ rpc'[q] = rpc[q]
        BY <2>4 DEF StatusInv, TypeOK, Reading
      <3>2. rview[q].gen <= generation
            /\ (rview[q].found # None => rview[q].found.gen = rview[q].gen /\ Sound(rview[q].found))
        BY <3>1 DEF StatusInv, ReadSound
      <3> QED BY <1>1, <2>1, <2>2, <3>1, <3>2
    <2> QED BY <2>3, <2>4
  <1> QED BY <1>2, <1>3, <1>4, <1>5 DEF StatusInv

LEMMA ConsultKeepsStatus == ASSUME StatusInv, NEW r \in Readers, Consult(r) PROVE StatusInv'
  <1> USE StatusConstants
  <1>1. TypeOK /\ rview[r] \in ReadView
    BY DEF StatusInv, TypeOK
  <1>2. NoRead \in ReadView
    BY DEF NoRead, ReadView
  <1>3. CASE Ask(r)
    <2>1. [NoRead EXCEPT !.policy = policy] \in ReadView
      BY <1>1, <1>2 DEF TypeOK, ReadView
    <2> QED BY <1>3, <2>1, ReaderStep DEF Ask, ReadPc
  <1>4. CASE Read(r)
    <2> DEFINE view == [rview[r] EXCEPT !.gen = generation, !.found = projection]
    <2>1. view \in ReadView /\ view.gen = generation /\ view.found = projection
      BY <1>1 DEF TypeOK, ReadView
    <2>2. generation <= generation
      BY <1>1 DEF TypeOK
    <2>3. projection # None => projection.gen = generation /\ Sound(projection)
      BY DEF StatusInv, StoredSound
    <2>4. Reading(r, "read", "reload", view)
      BY <1>4 DEF Read
    <2>5. Sound(projection) => Sound(view.found)
      BY <2>1
    <2> HIDE DEF view
    <2> QED BY <2>1, <2>2, <2>3, <2>4, <2>5, ReaderStep DEF ReadPc
  <1>5. CASE Reload(r)
    <2>1. Reading(r, "reload", "recheck", rview[r]) /\ rpc[r] = "reload"
      BY <1>5 DEF Reload, Reading
    <2> QED BY <1>1, <2>1, ReaderStep DEF StatusInv, ReadSound, ReadPc
  <1>6. CASE Answer(r)
    <2>1. [NoRead EXCEPT !.answer = State(rview[r].found, rview[r].gen)] \in ReadView
      BY <1>2 DEF ReadView, State
    <2> QED BY <1>6, <2>1, ReaderStep DEF Answer, ReadPc
  <1>7. CASE Leave(r)
    BY <1>2, <1>7, ReaderStep DEF Leave, ReadPc
  <1> QED BY <1>3, <1>4, <1>5, <1>6, <1>7 DEF Consult

LEMMA StutterKeepsStatus == StatusInv /\ UNCHANGED vars => StatusInv'
  BY DEF StatusInv, TypeOK, StoredSound, FoundSound, ReadSound, Sound, Lasting, Trouble,
         vars, inputs, derived, refresher, reader

\* The inductive invariant.
THEOREM StatusInvariant == Spec => []StatusInv
  <1>1. StatusInv /\ [Next]_vars => StatusInv'
    BY TickKeepsStatus, ChangeKeepsStatus, RefreshKeepsStatus, ConsultKeepsStatus,
       StutterKeepsStatus DEF Next
  <1> QED BY InitialStatus, <1>1, PTL DEF Spec

----------------------------------------------------------------------------
(* Theorems *)

\* Every variable of the route status keeps its type, and a projection ends after it
\* was observed, whatever refreshers, readers and changes of the inputs do.
THEOREM StatusTypeCorrect == Spec => []TypeOK
  <1>1. StatusInv => TypeOK
    BY DEF StatusInv
  <1> QED BY <1>1, StatusInvariant, PTL

\* A projection computed before a change of the inputs is never stored after it.
THEOREM NothingObsolete == Spec => []NoObsoleteProjection
  <1>1. StatusInv => NoObsoleteProjection
    BY DEF StatusInv, StoredSound, Sound, NoObsoleteProjection
  <1> QED BY <1>1, StatusInvariant, PTL

\* What reads as current in a sound projection is true now.
LEMMA SoundIsTrue ==
  ASSUME TypeOK, NEW p \in Projection, Sound(p), p.gen = generation, State(p, generation) = "current"
  PROVE  Truthful(p.class)
  <1> USE StatusConstants
  <1>1. Lasting(p) /\ p.until > now
    BY DEF Sound, State, TypeOK, Projection, Times, Never
  <1>2. ASSUME p.class = "current" PROVE Earned
    <2>1. p.until \in Nat /\ now \in Nat /\ policy \in Policies
      BY DEF TypeOK, Projection, Never, Times
    <2>2. ASSUME NEW x \in ProfilesOf[policy]
          PROVE  /\ authority[x] # None
                 /\ authority[x].policy = policy /\ authority[x].expires > now
                 /\ policy \in PersonalFirst => \A k \in Kinds : now - authority[x].seen[k] < ProofAge
      <3>1. authority[x] # None /\ authority[x].policy = policy /\ p.until <= authority[x].expires
        BY <1>1, <1>2 DEF Lasting
      <3>2. authority[x] \in Authority
        BY <2>1, <3>1 DEF TypeOK
      <3>3. authority[x].expires > now
        BY <1>1, <2>1, <3>1, <3>2 DEF Authority, Never
      <3>4. ASSUME policy \in PersonalFirst, NEW k \in Kinds
            PROVE  now - authority[x].seen[k] < ProofAge
        <4>1. authority[x].seen[k] \in Nat
          BY <3>2 DEF Authority, Times
        <4>2. p.until <= authority[x].seen[k] + ProofAge
          BY <1>1, <1>2, <3>4 DEF Lasting
        <4> QED BY <1>1, <2>1, <4>1, <4>2
      <3> QED BY <3>1, <3>3, <3>4
    <2>3. ASSUME policy \notin PersonalFirst, NEW k \in Kinds
          PROVE  proof[policy][k] # None /\ now - proof[policy][k] < ProofAge
      <3>1. proof[policy][k] # None /\ p.until <= proof[policy][k] + ProofAge
        BY <1>1, <1>2, <2>3 DEF Lasting
      <3>2. proof[policy][k] \in Nat
        BY <2>1, <3>1 DEF TypeOK, Times
      <3> QED BY <1>1, <2>1, <3>1, <3>2
    <2>4. /\ InboundOn /\ ReplyOn /\ ~Trouble
          /\ \A i \in DOMAIN deliveries :
               deliveries[i].policy = policy => deliveries[i].recipient # "pending"
          /\ \A i \in DOMAIN replies :
               replies[i].admission = "claimed" => replies[i].attempt \notin {"receiving", "queued"}
      BY <1>1, <1>2 DEF Lasting
    <2> QED BY <2>2, <2>3, <2>4 DEF Earned
  <1> QED BY <1>1, <1>2 DEF Truthful, Lasting

\* As long as a stored projection reads as current, what it says is true.
THEOREM StoredIsTrue == Spec => []StoredStatusIsTrue
  <1>1. StatusInv => StoredStatusIsTrue
    <2> SUFFICES ASSUME StatusInv, State(projection, generation) = "current"
                 PROVE  Truthful(projection.class)
      BY DEF StoredStatusIsTrue
    <2>1. projection # None
      BY DEF State
    <2>2. projection \in Projection /\ projection.gen = generation /\ Sound(projection) /\ TypeOK
      BY <2>1 DEF StatusInv, StoredSound, TypeOK
    <2> QED BY <2>2, SoundIsTrue
  <1> QED BY <1>1, StatusInvariant, PTL

\* A status the MCP adapter answers as current is true when it is answered, for any
\* number of changes between its reads.
THEOREM AnswersTrue == Spec => AnswersAreTrue
  <1> DEFINE True ==
        \A r \in Readers :
          rpc[r] = "recheck" /\ rpc'[r] = "answered" /\ rview'[r].answer = "current"
            => Truthful(rview[r].found.class)
  <1>1. StatusInv /\ [Next]_vars => [True]_vars
    <2> SUFFICES ASSUME StatusInv, Next, NEW r \in Readers, rpc[r] = "recheck",
                        rpc'[r] = "answered", rview'[r].answer = "current"
                 PROVE  Truthful(rview[r].found.class)
      OBVIOUS
    <2>1. TypeOK
      BY DEF StatusInv
    <2>2. Answer(r)
      <3>1. rpc' # rpc
        OBVIOUS
      <3>2. ~Tick /\ ~InputsChange /\ \A f \in Refreshers : ~Refresh(f)
        BY <3>1, ChangeInvalidates DEF Tick, Invalidate, Refresh, Refreshing, Start, Load, Select,
           Publish, Abandon, reader
      <3>3. PICK q \in Readers : Consult(q)
        BY <3>2 DEF Next
      <3> QED BY <2>1, <3>3 DEF Consult, Ask, Read, Reload, Answer, Leave, Reading, TypeOK
    <2>3. rview'[r].answer = State(rview[r].found, rview[r].gen) /\ rview[r].gen = generation
      BY <2>1, <2>2 DEF Answer, Reading, TypeOK, NoRead
    <2>4. State(rview[r].found, generation) = "current"
      BY <2>3
    <2>5. rview[r].found # None
      BY <2>4 DEF State
    <2>6. rview[r].found \in Projection /\ rview[r].found.gen = generation /\ Sound(rview[r].found)
      BY <2>1, <2>3, <2>5 DEF StatusInv, ReadSound, TypeOK, ReadView
    <2> QED BY <2>1, <2>4, <2>6, SoundIsTrue
  <1> QED BY <1>1, StatusInvariant, PTL DEF Spec, AnswersAreTrue
=============================================================================
