---------------------------- MODULE MCBulkPipeline ----------------------------
(* Values for the constants of BulkPipeline.                               *)
EXTENDS BulkPipeline

AllKinds == {"in", "out", "ctl"}
EitherWay == BOOLEAN
Always == {TRUE}
=============================================================================
