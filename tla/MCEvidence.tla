----------------------------- MODULE MCEvidence ------------------------------
(***************************************************************************)
(* Finite instances of LiveEvidence and FleetReadiness.  The evidence of   *)
(* two domains, one of them with an external mail provider, of two         *)
(* workers, and of versions that differ from the local build in what they  *)
(* claim, hold or are bound to; and a fleet of a role and a sink, whose    *)
(* input is complete at first.                                             *)
(***************************************************************************)
EXTENDS LiveEvidence, FleetReadiness, TLC

CONSTANT o1

Want(provider, personals, catchAll, candidate) ==
  [provider |-> provider, roles |-> {"info"}, personals |-> personals,
   catchAll |-> catchAll, candidate |-> candidate]

States ==
  [s \in Desireds |->
     ("a" :> IF s = "s1" THEN Want("cloudflare_email_routing", {"jo"}, FALSE, TRUE)
             ELSE Want("cloudflare_email_routing", {}, TRUE, TRUE))
     @@ ("b" :> Want("external", {}, FALSE, FALSE))]

Places == [x \in {"a", "mail-router", None} |-> 1] @@ [x \in {"b", "outbound"} |-> 2]

VersionsOf ==
  ("v1" :> [artifact |-> "x", modules |-> "mx", bindings |-> TRUE])
  @@ ("v2" :> [artifact |-> "x", modules |-> "other", bindings |-> FALSE])
Manifests == [a \in Artifacts |-> IF a = "x" THEN "mx" ELSE "my"]

AllOptions == {[profile |-> "inventory_v1", verify |-> FALSE],
               [profile |-> "dark_acceptance_v1", verify |-> TRUE]}

Healthy == {Fact(k, "a") : k \in {"zone", "cloudflare_email_routing", "routing", "sender"}}
           \cup Rules("a", {"info", "jo"}) \cup {Fact("zone", "b"), Fact("external", "b")}
           \cup {Fact("resource", r) : r \in Resources}
Beginnings == {[held |-> Healthy, serving |-> [w \in Workers |-> "v1"], active |-> <<"p", "s1">>,
            checkout |-> "x", desired |-> s] : s \in Desireds}
Fickle == {Fact(k, "a") : k \in {"zone", "cloudflare_email_routing", "catchAll", "catchAllRouted", "sender"}}
          \cup Rules("a", {"jo"}) \cup {Fact("resource", r) : r \in {"queue", "d1_database", "outbound"}}
ActivePairs == {<<"p", "s1">>, <<"p", "s2">>}

----------------------------------------------------------------------------
Contract == [route |-> 2, terms |-> "terms", expires |-> 2]
RouteTable ==
  1 :> [domain |-> 1, kind |-> "role_alias", graduation |-> Absent]
  @@ 2 :> [domain |-> 1, kind |-> "sink",
           graduation |-> [route |-> 2, terms |-> "terms", expires |-> 2, digest |-> Contract]]
Bound == [rest |-> "transaction", policy |-> "policy", enrollment |-> "enrollment", routes |-> RouteTable]
Proven(r, p) ==
  [state |-> "proven", at |-> 0, route |-> r, domain |-> 1, thread |-> r, binding |-> Bound, code |-> Absent]
Spared(r) ==
  [state |-> "not_applicable", route |-> r, domain |-> 1, thread |-> r,
   contract |-> Contract, evidence |-> Contract]
EvidenceOf(r) ==
  [thread |-> r, domain |-> 1, generation |-> 1,
   planes |-> [p \in Planes |-> IF r = 2 /\ p \in Thread THEN Spared(r) ELSE Proven(r, p)],
   status |-> [generation |-> 1, policy |-> "policy", observed |-> 0, until |-> 2, trouble |-> Absent]]
Projected == [binding |-> Bound, count |-> 2, routes |-> RouteTable,
              evidence |-> [rest |-> "transaction", policy |-> "policy", enrollment |-> "enrollment",
                            count |-> 2, routes |-> RouteTable]]
Whole ==
  {[assembled |-> 0, binding |-> Bound, enrollment |-> "enrollment", complete |-> TRUE, incompleteness |-> Absent,
    domains |-> <<[decision |-> "enrolled", code |-> Absent],
                  [decision |-> "intentionally_excluded", code |-> Absent]>>,
    mode |-> "full_policy", routes |-> RouteTable, routeSet |-> RouteTable, inventoryBinding |-> Bound,
    projection |-> Projected, evidence |-> [r \in 1..2 |-> EvidenceOf(r)]]}

----------------------------------------------------------------------------
(* The two tools share no variable, and each property is about one of them: *)
(* one tool stays at a start of its own while the other runs.               *)
CollectorAtStart == phase = "idle" /\ changes = 0 /\ desired = "s1"
FleetAtStart     == time = 0 /\ edits = 0 /\ report = Absent

BothInit == Init /\ FleetInit

EvidenceSpec ==
  BothInit /\
  [][\/ FleetAtStart /\ Next /\ UNCHANGED fleetVars
     \/ CollectorAtStart /\ FleetNext /\ UNCHANGED vars]_<<vars, fleetVars>>
=============================================================================
