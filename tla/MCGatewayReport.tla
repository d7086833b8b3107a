--------------------------- MODULE MCGatewayReport ---------------------------
EXTENDS GatewayReport, TLC
MCLocations == {"l", "m"}
MCPhysical == {"a", "b"}
Units == {<<"a", "u">>, <<"a", "v">>, <<"b", "u">>, <<"a", "w">>}
MCUnitSizes == (<<"a", "u">> :> 4) @@ (<<"a", "v">> :> 1) @@ (<<"b", "u">> :> 2) @@ (<<"a", "w">> :> 1)
Quiet == [closed |-> TRUE, aged |-> TRUE, legacy |-> FALSE, complete |-> TRUE, candidate |-> TRUE, pinned |-> FALSE,
          pending |-> FALSE, logs |-> FALSE, sealed |-> FALSE, exported |-> TRUE]
Report(l, id, names, claim) ==
    [roots |-> id :> l, units |-> {<<id, x>> : x \in names}, claims |-> [u \in {<<id, x>> : x \in names} |-> claim]]
One == Report("l", "r", {"u", "v"}, Quiet)
Two == Report("m", "r", {"u"}, Quiet)
Three == Report("m", "s", {"u", "v"}, [Quiet EXCEPT !.logs = TRUE, !.sealed = TRUE])
Loose == Report("l", "r", {"w"}, Quiet)
Broken == Report("l", "r", {"v"}, [Quiet EXCEPT !.pinned = TRUE])
MCAstray == {<<"a", "w">>}
MCReports == {Two, Loose, Broken}
MCPublished == {"m" :> One @@ "n" :> Two, "m" :> One @@ "x" :> Three}
Seen(p, e, c) == [path |-> p, exact |-> e, complete |-> c]
MCInventories == {<<>>,
    <<Seen(<<"a", "u">>, FALSE, TRUE), Seen(<<"a", "u">>, TRUE, FALSE), Seen(<<"a", "v">>, FALSE, TRUE),
      Seen(<<"b", "u">>, TRUE, FALSE), Seen(<<"b", "u">>, TRUE, TRUE)>>}
=============================================================================
