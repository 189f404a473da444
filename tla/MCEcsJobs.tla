----------------------------- MODULE MCEcsJobs -----------------------------
(* EcsJobs on a small instance: which workers and executions there are is  *)
(* given by the configuration, the sets below only name them for symmetry. *)
EXTENDS EcsJobs, TLC

WorkerSymmetry == Permutations(RouteWorkers) \cup Permutations(AutomationWorkers)
=============================================================================
