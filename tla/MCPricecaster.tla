---------------------------- MODULE MCPricecaster ----------------------------
(* Two overlapping calls over three blocks: enough for a contract to be      *)
(* created, filled and reset, or replaced, between the requests of a read.  *)
EXTENDS Pricecaster
==============================================================================
