--------------------------- MODULE MCAppDelivery ----------------------------
EXTENDS AppDelivery

\* A shard's only member, stopped once, with no one to supply a body.
Alone == [sole |-> TRUE, arrivals |-> {}, late |-> {}, fails |-> {},
          retries |-> {"timer"}, stops |-> 1]

\* The same, with a store that may refuse to commit a frame's state.
Faulty == [Alone EXCEPT !.fails = {"commit"}, !.stops = 0]

\* A committee's node, stopped once: a block's validation may end after the
\* block finalized, or never.
Stopping == [sole |-> FALSE, arrivals |-> {<<1, "cand">>}, late |-> {1}, fails |-> {},
             retries |-> {}, stops |-> 1]

\* A committee's node whose reporter and timer race, which sees few bodies, and
\* one of them swapped under its header.
Starved == [sole |-> FALSE, arrivals |-> {<<1, "swap">>}, late |-> {2}, fails |-> {},
            retries |-> {"timer"}, stops |-> 0]

\* A node of the same kind without the timer, whose records may not be written.
Unrecorded == [Starved EXCEPT !.arrivals = {}, !.late = {}, !.fails = {"record"},
                              !.retries = {}]

AllDeployments == {Alone, Faulty, Stopping, Starved, Unrecorded}
=============================================================================
