------------------------ MODULE MCTimelineCollection ------------------------
(***************************************************************************)
(* An instance of TimelineCollection for TLC.                              *)
(***************************************************************************)
EXTENDS TimelineCollection

CONSTANTS a, b, c

\* The sources of the first invocation, and the same with one more match.
MCSelections == {{a, b}, {a, b, c}}
=============================================================================
