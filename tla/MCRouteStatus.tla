--------------------------- MODULE MCRouteStatus ----------------------------
(***************************************************************************)
(* A finite instance of RouteStatus.                                       *)
(***************************************************************************)
EXTENDS RouteStatus

CONSTANTS role, own, personal

\* One revision answers under the role address only, the other gives an operator
\* an identity of their own.
RoleAndPersonal == [p \in Policies |-> IF p = personal THEN {role, own} ELSE {role}]
=============================================================================
