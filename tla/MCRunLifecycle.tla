-------------------------- MODULE MCRunLifecycle --------------------------
(* RunLifecycle with interchangeable managers.                             *)
EXTENDS RunLifecycle, TLC

ManagerSymmetry == Permutations(Managers)
===========================================================================
