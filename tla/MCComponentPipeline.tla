------------------------ MODULE MCComponentPipeline ------------------------
(* Instances of ComponentPipeline for TLC: the names of the runs.          *)
EXTENDS ComponentPipeline

ThreeRuns == 1..3

TwoRuns == 1..2
=============================================================================
