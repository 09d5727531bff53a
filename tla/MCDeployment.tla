---------------------------- MODULE MCDeployment ----------------------------
(* Two migrators over one run with up to two events, and two invocations of  *)
(* the provisioning of two components, one of them gated; what a third would *)
(* leave behind is among the initial states.                                 *)
EXTENDS Deployment, TLC

CONSTANTS m1, m2, r1, h1, h2, nobody, i1, i2, earlier

Interchangeable == Permutations(Migrators) \cup Permutations(Hashes)
=============================================================================
