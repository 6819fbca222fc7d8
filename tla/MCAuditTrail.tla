---- MODULE MCAuditTrail ----
(***************************************************************************)
(* A run of a review by the runner and by the pipeline, with the database  *)
(* sink on; and two runs with the other sinks only, under a cap on events  *)
(* that a run reaches and under one that it does not; with a sampler that  *)
(* leaves out nothing, the start of a trace, or an event of a run.         *)
(***************************************************************************)
EXTENDS AuditTrail

Engines == {"runner", "pipeline"}
Nothing == {}
MCSettings ==
  [engine : Engines, db : {TRUE}, cap : {9, 40}, runs : {1}, unsampled : {Nothing, {<<1, 4>>}}]
    \union
  [engine : Engines, db : {FALSE}, cap : {6}, runs : {2}, unsampled : {Nothing}] \union
  [engine : Engines, db : {FALSE}, cap : {40}, runs : {2},
   unsampled : {Nothing, {<<1, 1>>, <<2, 3>>}, {<<1, 4>>, <<2, 1>>}}]
====
