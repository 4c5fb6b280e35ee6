---------------------------- MODULE RouterPolicy -----------------------------
(***************************************************************************)
(* The decisions of maildesk-router, the Rust core of maildesk-cf: which   *)
(* operators a public address reaches, under which public identities they  *)
(* may reply, which policy documents are valid, and the route inventory a  *)
(* valid document projects to.  All are functions of the document.         *)
(*                                                                         *)
(* A document is a record                                                  *)
(*   mode          default_reply_mode                                      *)
(*   accountables  the known accountable references                        *)
(*   destinations  ref -> [accountable, kind, recipients, fallback]        *)
(*   profiles      ref -> [address, active]                                *)
(*   domains       domain -> [roles, personals, catchAll]                  *)
(* where an alias (a role or the catch-all) is a record                    *)
(*   [operators, destination, identity, allowed, sink]                     *)
(* and a personal alias is [operator, identity].                           *)
(***************************************************************************)
EXTENDS Naturals, Sequences, FiniteSets

CONSTANTS
  Raw,      \* addresses as documents and messages write them
  Normal,   \* normalize_mailbox: the canonical address, or None when invalid
  Parts,    \* the local part and the domain of a canonical address
  None      \* Option::None

ASSUME RawConstants ==
  /\ Normal \in [Raw -> Raw \cup {None}] /\ None \notin Raw
  /\ \A a \in Raw : Normal[a] # None => Normal[Normal[a]] = Normal[a]

----------------------------------------------------------------------------
Mailboxes == {a \in Raw : Normal[a] = a}
IsMailbox(local, domain) == \E a \in Mailboxes : Parts[a] = <<local, domain>>
Mailbox(local, domain)   == CHOOSE a \in Mailboxes : Parts[a] = <<local, domain>>

\* RouteError, by its kind alone.
Error(kind) == [error |-> kind]
Failed(result) == "error" \in DOMAIN result

\* The destinations an alias reaches, in order: a fallback chain, which stops
\* at an unknown destination and where it would repeat itself.
Candidates(policy, start) ==
  LET known == DOMAIN policy.destinations
      walk[seen \in SUBSET known, ref \in known \cup {None, start}
             \cup {policy.destinations[d].fallback : d \in known}] ==
        IF ref \in seen \/ ref \notin known THEN <<>>
        ELSE <<ref>> \o walk[seen \cup {ref}, policy.destinations[ref].fallback]
  IN walk[{}, start]

\* Active profiles of a public identity.
ProfilesFor(policy, identity) ==
  {ref \in DOMAIN policy.profiles :
     policy.profiles[ref].active /\ Normal[policy.profiles[ref].address] = Normal[identity]}

\* What resolved_identity_profile refuses.
IdentityError(policy, identity) ==
  IF Normal[identity] = None THEN "invalid_recipient"
  ELSE IF Cardinality(ProfilesFor(policy, identity)) > 1 THEN "ambiguous_identity_profile"
  ELSE None

Decide(policy, domain, local, kind, operators, identity, allowed, candidates) ==
  IF IdentityError(policy, identity) # None THEN Error(IdentityError(policy, identity))
  ELSE [domain |-> domain, local |-> local, kind |-> kind, operators |-> operators,
        identity |-> identity, allowed |-> allowed \cup {identity},
        own |-> << >>, candidates |-> candidates]

\* role_decision and, without a destination, catch_all_decision.
AliasDecision(policy, domain, local, kind, alias) ==
  LET routed == ~alias.sink /\ alias.destination # None
      candidates == IF routed THEN Candidates(policy, alias.destination) ELSE <<>>
      isMailbox(ref) == policy.destinations[ref].kind = "mailbox"
      mailboxes == SelectSeq(candidates, isMailbox)
      operators == IF alias.sink \/ (routed /\ mailboxes = <<>>) THEN {}
                   ELSE IF routed THEN policy.destinations[Head(mailboxes)].recipients
                   ELSE alias.operators
  IN IF ~alias.sink /\ ~routed /\ alias.operators = {} THEN Error("empty_operators")
     ELSE Decide(policy, domain, local, IF alias.sink THEN "sink" ELSE kind, operators,
                 alias.identity, alias.allowed, candidates)

PersonalDecision(policy, domain, local, personal) ==
  IF personal.operator = None THEN Error("empty_operators")
  ELSE Decide(policy, domain, local, "personal_alias", {personal.operator},
              personal.identity, {}, <<>>)

----------------------------------------------------------------------------
(* Personal-first replies. *)

\* The operator's own personal alias in the domain, not hidden by a role.
OwnsAlias(policy, domain, operator) ==
  LET config == policy.domains[domain]
      prefix == Parts[operator][1]
  IN /\ prefix \in DOMAIN config.personals \ DOMAIN config.roles
     /\ config.personals[prefix].operator # None
     /\ Normal[config.personals[prefix].operator] = operator
     /\ IsMailbox(prefix, domain)
     /\ Normal[config.personals[prefix].identity] = Mailbox(prefix, domain)
     /\ IdentityError(policy, Mailbox(prefix, domain)) = None

BindOperatorIdentities(policy, decision) ==
  LET operators == {Normal[o] : o \in decision.operators}
      own == [o \in operators |-> Mailbox(Parts[o][1], decision.domain)]
  IN IF Failed(decision) THEN decision
     ELSE IF policy.mode # "personal_first" \/ decision.kind = "sink" THEN decision
     ELSE IF None \in operators THEN Error("invalid_recipient")
     ELSE IF \E o \in operators : ~OwnsAlias(policy, decision.domain, o)
       THEN Error("missing_operator_reply_identity")
     ELSE [decision EXCEPT !.operators = operators, !.own = own,
                           !.allowed = @ \cup {own[o] : o \in operators}]

----------------------------------------------------------------------------
\* Roles first, then personal aliases, then the catch-all.
AliasRoute(policy, to) ==
  LET local  == Parts[Normal[to]][1]
      domain == Parts[Normal[to]][2]
      config == policy.domains[domain]
  IN IF Normal[to] = None THEN Error("invalid_recipient")
     ELSE IF domain \notin DOMAIN policy.domains THEN Error("unknown_domain")
     ELSE IF local \in DOMAIN config.roles
       THEN AliasDecision(policy, domain, local, "role_alias", config.roles[local])
     ELSE IF local \in DOMAIN config.personals
       THEN PersonalDecision(policy, domain, local, config.personals[local])
     ELSE IF config.catchAll # None
       THEN AliasDecision(policy, domain, "*", "catch_all", config.catchAll)
     ELSE Error("unknown_alias")

\* The decision of a route is bound to its operators before anyone sees it.
RouteMessage(policy, to) ==
  CHOOSE bound \in {BindOperatorIdentities(policy, d) : d \in {AliasRoute(policy, to)}} : TRUE

CatchAllRoute(policy, domain) ==
  CHOOSE bound \in {BindOperatorIdentities(policy, d) : d \in
      {AliasDecision(policy, domain, "*", "catch_all", policy.domains[domain].catchAll)}} : TRUE

\* Mutant: any identity of the decision will do, also for a personal reply.
AuthorizeReply_AnyAllowed(decision, operator, requested) ==
  LET from == Normal[operator]
      identity == IF requested # None THEN Normal[requested]
                  ELSE IF from \in DOMAIN decision.own THEN decision.own[from] ELSE decision.identity
  IN IF from = None \/ identity = None THEN Error("invalid_recipient")
     ELSE IF from \notin decision.operators THEN Error("unauthorized_operator")
     ELSE IF identity \notin decision.allowed THEN Error("unauthorized_reply_identity")
     ELSE [identity |-> identity]

\* The public identity an operator may reply under; requested is None when the
\* reply names no identity.  The decision's operators are compared as written.
AuthorizeReply(decision, operator, requested) ==
  LET from == Normal[operator]
      personal == from \in DOMAIN decision.own
      identity == IF requested # None THEN Normal[requested]
                  ELSE IF personal THEN decision.own[from] ELSE decision.identity
  IN IF from = None \/ identity = None THEN Error("invalid_recipient")
     ELSE IF from \notin decision.operators THEN Error("unauthorized_operator")
     ELSE IF (personal /\ decision.own[from] # identity) \/ identity \notin decision.allowed
       THEN Error("unauthorized_reply_identity")
     ELSE [identity |-> identity]

----------------------------------------------------------------------------
(* Validation and projection. *)

ValidDestinations(policy) ==
  LET known == DOMAIN policy.destinations IN
  /\ \A ref \in known : LET d == policy.destinations[ref] IN
       /\ d.accountable \in policy.accountables
       /\ d.kind = "mailbox" =>
            d.recipients # {} /\ \A r \in d.recipients : Normal[r] # None
       /\ d.fallback \in known \cup {None}
       \* no fallback cycle: the chain ends because nothing follows its last
       /\ LET chain == Candidates(policy, ref) IN
          policy.destinations[chain[Len(chain)]].fallback = None
  /\ \A domain \in DOMAIN policy.domains :
       LET roles == policy.domains[domain].roles IN
       \A local \in DOMAIN roles :
         roles[local].destination # None =>
           \E i \in 1..Len(Candidates(policy, roles[local].destination)) :
             policy.destinations[Candidates(policy, roles[local].destination)[i]].kind = "mailbox"

\* One active profile per public address, written canonically.
ValidProfiles(policy) ==
  LET profiles == policy.profiles IN
  /\ \A ref \in DOMAIN profiles : profiles[ref].address \in Mailboxes
  /\ \A x, y \in DOMAIN profiles :
       profiles[x].active /\ profiles[y].active /\ profiles[x].address = profiles[y].address
       => x = y

ValidDomain(policy, domain) ==
  LET config == policy.domains[domain]
      aliases == DOMAIN config.roles \cup DOMAIN config.personals
  IN /\ aliases # {} \/ config.catchAll # None
     /\ \A local \in aliases :
          /\ local # "*" /\ IsMailbox(local, domain)
          /\ ~Failed(RouteMessage(policy, Mailbox(local, domain)))
     /\ \A local \in DOMAIN config.personals :
          config.personals[local].identity = Mailbox(local, domain)
     /\ config.catchAll # None => ~Failed(CatchAllRoute(policy, domain))

ValidatePolicy(policy) ==
  /\ DOMAIN policy.domains # {}
  /\ ValidDestinations(policy)
  /\ ValidProfiles(policy)
  /\ \A domain \in DOMAIN policy.domains : ValidDomain(policy, domain)

\* Every alias, a role before a personal alias of the same name, and "*".
RoutesOf(policy) ==
  UNION {LET config == policy.domains[domain]
             aliases == DOMAIN config.roles \cup DOMAIN config.personals
         IN {<<domain, local>> : local \in
               aliases \cup (IF config.catchAll = None THEN {} ELSE {"*"})}
         : domain \in DOMAIN policy.domains}

DecisionOf(policy, route) ==
  IF route[2] = "*" THEN CatchAllRoute(policy, route[1])
  ELSE RouteMessage(policy, Mailbox(route[2], route[1]))

\* project_decision normalizes the addresses that decisions keep as written.
Normalizable(decision) ==
  /\ None \notin {Normal[o] : o \in decision.operators}
  /\ None \notin {Normal[a] : a \in decision.allowed \cup {decision.identity}}

ProjectDecision(decision) ==
  [decision EXCEPT !.operators = {Normal[o] : o \in @}, !.identity = Normal[@],
                   !.allowed = {Normal[a] : a \in @}]

\* Whoever a document names as an operator, also of a sink or of a destination
\* that no alias uses.
ProtectedOperators(policy) ==
  LET domains == {policy.domains[domain] : domain \in DOMAIN policy.domains}
      aliasesOf(config) == {config.roles[local] : local \in DOMAIN config.roles}
                             \cup ({config.catchAll} \ {None})
      personalsOf(config) == {config.personals[local].operator : local \in DOMAIN config.personals}
      mailboxes == {ref \in DOMAIN policy.destinations : policy.destinations[ref].kind = "mailbox"}
  IN UNION (   {alias.operators : alias \in UNION {aliasesOf(config) : config \in domains}}
          \cup {personalsOf(config) : config \in domains}
          \cup {policy.destinations[ref].recipients : ref \in mailboxes})

\* project_policy: defined for the documents it does not refuse.
Projectable(policy) ==
  /\ ValidatePolicy(policy)
  /\ \A operator \in ProtectedOperators(policy) : operator # None /\ Normal[operator] # None
  /\ \A decision \in {DecisionOf(policy, route) : route \in RoutesOf(policy)} :
       Normalizable(decision)

ProjectPolicy(policy) ==
  [route \in RoutesOf(policy) |-> ProjectDecision(DecisionOf(policy, route))]
=============================================================================
