----------------------------- MODULE MCIngestion -----------------------------
(* Instances of Ingestion for TLC: two jobs that look alike, each with one *)
(* topic row, the first with a DM row too; one subscriber.                 *)
EXTENDS Ingestion, TLC

CONSTANTS j1, j2, g1, g2, d1, u1

TheJobOf == [d \in Rows |-> IF d = g2 THEN j2 ELSE j1]
OneUser == [d \in DmRows |-> u1]
(* The runners are told apart by nothing but their names. *)
RunnerSymmetry == Permutations(Runners)
Twins == {<<j1, j2>>, <<j2, j1>>}
=============================================================================
