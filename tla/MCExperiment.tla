---------------------------- MODULE MCExperiment ----------------------------
(***************************************************************************)
(* Small instances of ExperimentRunner: one or two search methods, and a   *)
(* trial that measures well, with gaps in its telemetry or without any,    *)
(* misses its constraints, fails, or fails with a server that stays.       *)
(***************************************************************************)
EXTENDS ExperimentRunner

MCMethods == <<"default", "tpe">>
MCTpe == <<"tpe">>
MCValues == {1}
MCOutcomes ==
  {Good,
   [status |-> "COMPLETE", evidence |-> "gaps", clean |-> "yes"],
   [status |-> "COMPLETE", evidence |-> "dark", clean |-> "yes"],
   [status |-> "INFEASIBLE", evidence |-> "full", clean |-> "yes"],
   [status |-> "FAILED", evidence |-> "marker", clean |-> "yes"],
   [status |-> "FAILED", evidence |-> "marker", clean |-> "no"]}

=============================================================================
