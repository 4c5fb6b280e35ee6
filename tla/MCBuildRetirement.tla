------------------------- MODULE MCBuildRetirement -------------------------
(***************************************************************************)
(* A finite instance of BuildRetirement: a library and an executable       *)
(* without suffix of one unit, which may be links of one file, their       *)
(* dep-info, a product, a profile that is not built and a backup.          *)
(***************************************************************************)
EXTENDS BuildRetirement, TLC

OneUnit == [n \in Payload \cup Control |-> "A"]

\* No action and no property tells the transactions apart.
Interchangeable == Permutations(Txns)
=============================================================================
