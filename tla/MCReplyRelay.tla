---------------------------- MODULE MCReplyRelay ----------------------------
(***************************************************************************)
(* Finite instances of ReplyRelay: which deliveries carry which message    *)
(* and bytes, and which adapter each policy binds.                         *)
(***************************************************************************)
EXTENDS ReplyRelay, TLC

CONSTANTS m1, m2, d1, d2, d3, d4, p1, p2

\* Every delivery carries m1; d3, where there is one, with other bytes.
OneMessage == [d \in Deliveries |-> m1]
\* d1 carries m1 and every other delivery m2.
TwoMessages == [d \in Deliveries |-> IF d = d1 THEN m1 ELSE m2]
Bytes == [d \in Deliveries |-> IF d = d3 THEN "other" ELSE "reply"]

AllCloudflare == [p \in Policies |-> CF]
AllResend     == [p \in Policies |-> RS]
Mixed         == [p \in Policies |-> IF p = p1 THEN CF ELSE RS]

\* Deliveries of one message with one body are interchangeable.
DeliverySymmetry == Permutations(Deliveries)
ConsumerSymmetry == Permutations(Consumers)

\* Two replies on one relay, two deliveries of one reply with the same bytes, or
\* with other bytes: no other delivery is made.
Races == {{d1, d2}, {d2, d4}, {d2, d3}}
OneRace == \E S \in Races : \A h \in Deliveries \ S : hpc[h] = "lookup"
=============================================================================
