-------------------------- MODULE MCPlatformRepair --------------------------
(* An instance of PlatformRepair: a match of another platform and one of    *)
(* the own, of two files each, and two processors beside the repair.       *)
EXTENDS PlatformRepair

CONSTANTS foreign, own, p, q, first

MCMatches == {foreign, own}
MCForeign == {foreign}
MCMalformed == {}
=============================================================================
