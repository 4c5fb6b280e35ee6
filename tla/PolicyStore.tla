---------------------------- MODULE PolicyStore ------------------------------
(***************************************************************************)
(* The active policy of maildesk-cf: immutable documents in R2, and in D1  *)
(* the pointer to the active one with the tables it projects to.  A policy *)
(* change is one import, compiled from the Rust projection and guarded by  *)
(* the review of the state it replaces.  loadActivePolicy reads the        *)
(* pointer, the object and the inventory of routes one after the other.    *)
(***************************************************************************)
EXTENDS RouterPolicy

CONSTANTS
  Policies,      \* digests of policy documents
  Document,      \* the document of each digest
  Desireds,      \* digests of desired states
  DesiredState,  \* what each desired state says of every domain it names
  MaxImports,    \* bound on the policy changes
  Planes         \* kinds of route evidence: "inbox" and "reply"

\* A document assigns a personal alias to an address or to nobody.
ASSUME DocumentConstants ==
  \A p \in Policies : \A domain \in DOMAIN Document[p].domains :
    LET personals == Document[p].domains[domain].personals IN
    \A local \in DOMAIN personals : personals[local].operator \in Raw \cup {None}

VARIABLES
  objects,     \* R2: documents uploaded under their digest
  runtime,     \* D1 runtime_state: the active policy, or None
  desired,     \* D1 policy_projection_state: the active desired state
  reviews,     \* D1 policy_change_reviews
  rows,        \* D1 alias_routes with operators and reply identities
  identities,  \* D1 identities: the domain and kind of a public identity
  health,      \* D1 route_health: by plane, the delivery status and the proof
  imports      \* imports so far

storeVars == <<objects, runtime, desired, reviews, rows, identities, health, imports>>

----------------------------------------------------------------------------
\* What Rust makes of every document it does not refuse.
Accepted   == {p \in Policies : Projectable(Document[p])}
Projection == [p \in Accepted |-> ProjectPolicy(Document[p])]

Routes == UNION {DOMAIN projected : projected \in {Projection[p] : p \in Accepted}}

\* Routes that have a row.
Stored == {r \in DOMAIN rows : rows[r] # None}

\* projectRoutes: the desired state names the same aliases in every domain of
\* the policy, and no aliases in another domain unless that is excluded.
Installables ==
  {change \in Accepted \X Desireds :
     LET policy == Document[change[1]]
         state == DesiredState[change[2]]
     IN /\ DOMAIN policy.domains \subseteq DOMAIN state
        /\ \A d \in DOMAIN policy.domains :
             /\ state[d].roles = DOMAIN policy.domains[d].roles
             /\ state[d].personals = DOMAIN policy.domains[d].personals
             /\ state[d].catchAll = (policy.domains[d].catchAll # None)
        /\ \A d \in DOMAIN state \ DOMAIN policy.domains :
             \/ state[d].roles \cup state[d].personals = {} /\ ~state[d].catchAll
             \/ state[d].provider = "excluded"
        /\ \A projected \in {Projection[change[1]]} : \A r \in DOMAIN projected :
             projected[r].kind # "sink" => projected[r].operators # {}}

----------------------------------------------------------------------------
(* The tables an import leaves, each as a function of what it finds. *)

StorageKind(decision) == IF decision.kind = "personal_alias" THEN "personal" ELSE "role"

\* The reply identity of every operator: its own, or the route's.
Bindings(decision) ==
  [o \in decision.operators |->
     IF o \in DOMAIN decision.own THEN decision.own[o] ELSE decision.identity]

Row(p, decision) ==
  [enabled |-> TRUE, policy |-> p, storage |-> StorageKind(decision),
   kind |-> decision.kind, identity |-> decision.identity,
   operators |-> decision.operators, bindings |-> Bindings(decision)]

\* A row is not NULL.
ASSUME RowConstants ==
  \A p \in Accepted : \A r \in DOMAIN Projection[p] : Row(p, Projection[p][r]) # None

\* Routes of other policies are disabled, and kept.  (projected: the routes of
\* policy p.)
RowsAfter(p, projected) ==
  [r \in DOMAIN rows |->
     IF r \in DOMAIN projected THEN Row(p, projected[r])
     ELSE IF rows[r] = None THEN None ELSE [rows[r] EXCEPT !.enabled = FALSE]]

\* An identity keeps the domain of the first route that ever used it.
IdentitiesAfter(projected) ==
  LET users(a) == {r \in DOMAIN projected : projected[r].identity = a}
      personal(a) == \E r \in users(a) : projected[r].kind = "personal_alias"
  IN [a \in Mailboxes |->
        IF users(a) = {} THEN identities[a]
        ELSE [domain |-> IF identities[a] # None THEN identities[a].domain
                         ELSE (CHOOSE r \in users(a) : TRUE)[1],
              kind |-> IF personal(a) THEN "personal" ELSE "role"]]

\* The trigger alias_route_reply_identity_guard on one binding of a new row.
BindingAllowed(projected, newRows, newIdentities, r, o) ==
  LET row == newRows[r]
      a == row.bindings[o]
      own == DOMAIN projected[r].own # {}
  IN /\ newIdentities[a] # None /\ newIdentities[a].domain = r[1]
     /\ IF ~own THEN a = row.identity
        ELSE /\ newIdentities[a].kind = "personal"
             /\ Parts[a][1] = Parts[o][1]
             /\ \E q \in DOMAIN projected :
                  /\ q[1] = r[1] /\ newRows[q].identity = a
                  /\ newRows[q].storage = "personal" /\ o \in newRows[q].operators

\* Every statement of the import succeeds.
ImportCommits(projected, newRows, newIdentities) ==
  \A r \in DOMAIN projected : \A o \in projected[r].operators :
    BindingAllowed(projected, newRows, newIdentities, r, o)

InitialStatus(decision, provider) ==
  IF decision.kind = "sink" \/ provider = "excluded" THEN "intentionally_excluded"
  ELSE IF provider = "cloudflare_email_routing" THEN "local_policy_valid" ELSE "declared"

NoEvidence == [plane \in Planes |-> None]

\* Mutant: evidence is bound to the provider, not to the policy.
ProofAuthorityChanged_ProviderOnly(old, p, status, provider) ==
  old.provider # provider \/ status = "intentionally_excluded"

\* Evidence survives a re-import of the policy it was taken under.
ProofAuthorityChanged(old, p, status, provider) ==
  old.policy # p \/ old.provider # provider \/ status = "intentionally_excluded"

HealthAfter(p, projected, s) ==
  [r \in DOMAIN health |->
     IF r \notin DOMAIN projected THEN health[r]
     ELSE LET provider == DesiredState[s][r[1]].provider
              status == InitialStatus(projected[r], provider)
              keeps == /\ health[r] # None
                       /\ ~ProofAuthorityChanged(health[r], p, status, provider)
          IN [policy |-> p, provider |-> provider,
              status |-> IF keeps THEN health[r].status ELSE [plane \in Planes |-> status],
              proof |-> IF keeps THEN health[r].proof ELSE NoEvidence]]

----------------------------------------------------------------------------
(* Policy changes. *)

\* One import is one transaction, and aborts as a whole.
Import(p, s) ==
  /\ imports < MaxImports /\ imports' = imports + 1
  /\ \E projected \in {Projection[p]} :
       /\ rows' = RowsAfter(p, projected)
       /\ identities' = IdentitiesAfter(projected)
       /\ ImportCommits(projected, rows', identities')
       /\ health' = HealthAfter(p, projected, s)
  /\ runtime' = p /\ desired' = s

\* A document that compiled into a change is uploaded under its digest, by an
\* operation of its own.
Upload ==
  /\ \E change \in Installables :
       change[1] \notin objects /\ objects' = objects \cup {change[1]}
  /\ UNCHANGED <<runtime, desired, reviews, rows, identities, health, imports>>

\* The first import has no base to review.
Bootstrap(p, s) ==
  /\ runtime = None
  /\ Import(p, s)
  /\ UNCHANGED <<objects, reviews>>

\* compilePolicyChange binds a change to its base, which was installable when
\* it became one; the guard refuses every other base, and the primary key a
\* review that was already applied.
ApplyReview(p, s) ==
  LET review == <<<<runtime, desired>>, p, s>> IN
  /\ runtime # None /\ review \notin reviews
  /\ Import(p, s)
  /\ reviews' = reviews \cup {review}
  /\ UNCHANGED objects

----------------------------------------------------------------------------
(* The reads of loadActivePolicy. *)

\* 1. The pointer, its revision, and the counts of rows projected from it.
PointerConsistent ==
  LET enabled == {r \in Stored : rows[r].enabled /\ rows[r].policy = runtime} IN
  /\ runtime # None
  /\ \E routes \in {DOMAIN Projection[runtime]} :
       /\ Cardinality(enabled) = Cardinality(routes)
       /\ Cardinality({r[1] : r \in enabled}) = Cardinality({r[1] : r \in routes})

\* 2. The object under the digest, which must parse and project.
ObjectRead(p) == p \in objects /\ p \in Accepted

\* assertPolicyInventory: the rows read are the projection, route by route.
InventoryMatches(p, read) ==
  \E projected \in {Projection[p]} :
    /\ read = DOMAIN projected
    /\ \A r \in read : LET d == projected[r] IN
         /\ rows[r].storage = StorageKind(d) /\ rows[r].kind = d.kind
         /\ rows[r].identity = d.identity /\ rows[r].operators = d.operators
         /\ rows[r].bindings = Bindings(d)

\* 3. All enabled rows, which must all carry the digest.
InventoryRead(p) ==
  LET read == {r \in Stored : rows[r].enabled} IN
  InventoryMatches(p, read) /\ \A r \in read : rows[r].policy = p

----------------------------------------------------------------------------
InitStore ==
  /\ objects = {} /\ runtime = None /\ desired = None /\ reviews = {}
  /\ rows = [r \in Routes |-> None]
  /\ identities = [a \in Mailboxes |-> None]
  /\ health = [r \in Routes |-> None]
  /\ imports = 0

\* What the Rust core answers every operator of a route that asks for an identity.
Answers ==
  [p \in Accepted |-> [r \in DOMAIN Projection[p] |->
     [o \in Projection[p][r].operators |-> [asked \in Mailboxes \cup {None} |->
        CHOOSE answer \in {AuthorizeReply(d, o, asked) : d \in {DecisionOf(Document[p], r)}} : TRUE]]]]

\* Whatever was imported before, D1 is in no state that loadActivePolicy refuses.
ActivePolicyLoads == runtime # None => PointerConsistent /\ InventoryRead(runtime)

\* D1 binds operator o of route r to the identity it is answered with; under
\* personal-first replies that is a personal alias of the domain, among these
\* routes, that reaches the operator and nobody else.  In role-first mode the
\* answer is the identity as the document writes it, and D1 keeps its canonical form.
BindsAnswer(routes, r, o, identity) ==
  LET personal == Document[runtime].mode = "personal_first" IN
  /\ rows[r].bindings[o] = IF personal THEN identity ELSE Normal[identity]
  /\ personal => \E q \in routes :
       /\ q[1] = r[1] /\ rows[q].kind = "personal_alias"
       /\ rows[q].identity = identity /\ rows[q].operators = {o}

\* Under personal-first replies an operator is authorized under one identity
\* only, whichever it asks for: the one bound to it in D1, its own.  Otherwise
\* D1 binds the identity of a reply that asks for none.
PersonalIdentityIsOwn ==
  runtime # None =>
    \A answers \in {Answers[runtime]} : \A r \in DOMAIN answers :
      \A o \in rows[r].operators : \A asked \in Mailboxes \cup {None} :
        \A answer \in {answers[r][o][asked]} :
          ~Failed(answer) /\ (Document[runtime].mode = "personal_first" \/ asked = None) =>
             BindsAnswer(DOMAIN answers, r, o, answer.identity)
=============================================================================
