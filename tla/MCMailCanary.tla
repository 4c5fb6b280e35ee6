---------------------------- MODULE MCMailCanary -----------------------------
(***************************************************************************)
(* A finite instance of MailCanary: one domain with a role, a personal     *)
(* alias and a catch-all, one whose mail is excluded, operators at a third *)
(* and policies that use every kind of decision.                           *)
(***************************************************************************)
EXTENDS MailCanary, TLC

CONSTANTS p1, p2, p3

Addresses ==
  {"info@a", "Info@a", "jo@a", "al@a", "info@b", "jo@op", "al@op", "Jo@op", "bad"}
Canonical == [a \in Addresses |->
  CASE a = "Jo@op" -> "jo@op" [] a = "Info@a" -> "info@a" [] a = "bad" -> None [] OTHER -> a]
PartsOf == [a \in Addresses \ {"Jo@op", "Info@a", "bad"} |->
  CASE a = "info@a" -> <<"info", "a">> [] a = "jo@a" -> <<"jo", "a">>
    [] a = "al@a" -> <<"al", "a">> [] a = "info@b" -> <<"info", "b">>
    [] a = "jo@op" -> <<"jo", "op">> [] a = "al@op" -> <<"al", "op">>]

Alias(operators, destination, identity, sink) ==
  [operators |-> operators, destination |-> destination, identity |-> identity,
   allowed |-> {}, sink |-> sink]

Policy(mode, destinations, domains) ==
  [mode |-> mode, accountables |-> {"team"}, destinations |-> destinations,
   profiles |-> ("info" :> [address |-> "info@a", active |-> TRUE]), domains |-> domains]

Jo == "jo" :> [operator |-> "Jo@op", identity |-> "jo@a"]
Sink == Alias({}, None, "info@a", TRUE)

\* A role, which reaches a queue that falls back to a mailbox and replies as
\* the role, written as no mailbox is normalized, and a personal alias at the
\* domain whose mail is excluded.
RoleFirst == Policy("role_first",
  [ref \in {"queue", "mail"} |->
     IF ref = "queue" THEN [accountable |-> "team", kind |-> "queue", recipients |-> {}, fallback |-> "mail"]
     ELSE [accountable |-> "team", kind |-> "mailbox", recipients |-> {"jo@op", "al@op"}, fallback |-> None]],
  ("a" :> [roles |-> ("info" :> Alias({}, "queue", "Info@a", FALSE)),
           personals |-> <<>>, catchAll |-> None])
  @@ ("b" :> [roles |-> <<>>, catchAll |-> None,
              personals |-> ("info" :> [operator |-> "Jo@op", identity |-> "info@b"])]))
\* The role answers itself; its operator replies as itself and the rest is archived.
PersonalFirst == Policy("personal_first", <<>>,
  "a" :> [roles |-> ("info" :> Alias({"Jo@op"}, None, "info@a", FALSE)),
          personals |-> Jo, catchAll |-> Sink])
\* Refused: an operator of a personal-first role has no alias of its own.
NoAlias == Policy("personal_first", <<>>,
  "a" :> [roles |-> ("info" :> Alias({"jo@op", "al@op"}, None, "info@a", FALSE)),
          personals |-> Jo, catchAll |-> None])

Documents == (p1 :> RoleFirst) @@ (p2 :> PersonalFirst) @@ (p3 :> NoAlias)

State(roles, personals, catchAll, provider) ==
  [roles |-> roles, personals |-> personals, catchAll |-> catchAll, provider |-> provider]
DesiredStates ==
  [s \in Desireds |->
     CASE s = "s1" -> ("a" :> State({"info"}, {}, FALSE, "cloudflare_email_routing"))
                      @@ ("b" :> State({}, {"info"}, FALSE, "excluded"))
       [] s = "s2" -> "a" :> State({"info"}, {"jo"}, TRUE, "cloudflare_email_routing")]

Interchangeable == Permutations(Runs)
=============================================================================
