---------------------------- MODULE MCBrowseChain ----------------------------
(* BrowseChain on small instances: containers of each source browsed in    *)
(* several ways, and two browses of one container at a time.               *)
EXTENDS BrowseChain

Ask(skip, count) == [skip |-> skip, count |-> count, bad |-> FALSE]
BadAsk == [Ask(0, 0) EXCEPT !.bad = TRUE]
Plan(source, stock, what, reqs, opens, faults) ==
  [source |-> source, stock |-> stock, what |-> what, requests |-> reqs,
   sessions |-> opens, faults |-> faults]

Asks == {Ask(0, 0), Ask(1, 2), BadAsk}
OneUpnp == {Plan("upnp", n, "items", Asks, {1}, {"timeout", "leaves"}) :
              n \in {0, MaxItems}}
OneIradio == {Plan("iradio", n, "items", Asks, {1}, {"timeout"}) :
                n \in {0, MaxItems}}
OneTracker == {Plan("tracker", MaxItems, w, Asks, {1}, {"timeout"}) :
                 w \in Category}
Two == {Plan("upnp", 2, "items", {Ask(0, 0)}, {1, 2}, {"leaves"}),
        Plan("iradio", 2, "items", {Ask(0, 0)}, {1, 2}, {}),
        Plan("tracker", 2, "items", {Ask(0, 0)}, {1, 2}, {})}
MCScenarios == OneUpnp \cup OneIradio \cup OneTracker \cup Two
=============================================================================
