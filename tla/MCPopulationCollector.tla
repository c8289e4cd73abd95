----------------------- MODULE MCPopulationCollector -----------------------
(***************************************************************************)
(* Instances of PopulationCollector for TLC.                               *)
(***************************************************************************)
EXTENDS PopulationCollector

CONSTANTS p1, p2, m1, m2, m3, m4

MCPlayers == {p1, p2}
MCMatches == {m1, m2, m3, m4}
MCSchedule == <<<<p1>>, <<p1, p2>>>>
MCTierOf == <<"GOLD", "DIAMOND">>
MCHistory == [p \in MCPlayers |-> IF p = p1 THEN <<m1, m2, m3>> ELSE <<m3, m4>>]

\* Nothing collected before, and every payload is of the target patch.
AllNew == [kind |-> [m \in MCMatches |-> "target"],
           external |-> {},
           raw |-> {}, norm |-> [m \in MCMatches |-> 0],
           catalog |-> [m \in MCMatches |-> Absent]]

WithKind(w, m, k) == [w EXCEPT !.kind[m] = k]

\* A match that another run left in the shared stores.
WithRow(w, m, result) ==
    [w EXCEPT !.raw = @ \cup {<<"earlier", m>>},
              !.norm[m] = IF result = "processed" THEN NormalizedFiles ELSE 0,
              !.catalog[m] = [result |-> result, source |-> "earlier"]]

\* Payloads of the patch before that a widened window accepts; a newer one behind.
Windows == WithKind(WithKind(WithKind(AllNew, m1, "previous"), m2, "older"), m3, "newer")

\* Payloads that are refused, each in its own way.
Refused == WithKind(WithKind(WithKind(AllNew, m1, "platform"), m2, "malformed"), m3, "invalid")

\* Rows of other runs: an accepted match, one rejected by a narrower window, and one
\* whose patch was newer than that run's and is newer than this one's.
Cached == WithKind(WithRow(WithRow(WithRow(AllNew, m1, "processed"), m2, "outside_patch_window"),
                           m3, "newer_patch_transition"), m3, "newer")

\* An accepted match now below the window, an unresolved one, a private duplicate.
CachedOther == [WithKind(WithRow(WithKind(WithRow(AllNew, m1, "processed"), m1, "older"),
                                 m2, "unresolved_patch"), m2, "unresolved")
                EXCEPT !.external = {m3}]

MCWorlds == {AllNew, Windows, Refused, Cached, CachedOther}

\* Two matches of one page that another run accepted.
Overlap == {WithRow(WithRow(AllNew, m1, "processed"), m2, "processed")}

AllNewOnly == {AllNew}

\* One catalog serves the runs of every platform of a region.
SharedCatalog == {WithKind(WithRow(AllNew, m1, "processed"), m1, "platform")}

\* The catalog row of a match that sealed the run of the patch before: its patch,
\* newer than that run's target, is the target of this one.
NextPatch == {WithRow(AllNew, m1, "newer_patch_transition")}
=============================================================================
