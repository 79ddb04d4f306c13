--------------------------- MODULE MCMeasurements ---------------------------
(* Each program twice on an engine of its own, and the demo once on an     *)
(* engine that others use.                                                 *)
EXTENDS Measurements

Setting(program, runs, quiet) == [program |-> program, runs |-> runs, quiet |-> quiet]
MCSettings == {Setting("demo", 2, TRUE), Setting("experiment", 2, TRUE), Setting("demo", 1, FALSE)}
=============================================================================
