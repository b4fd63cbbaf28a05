----------------------------- MODULE MCScheduler -----------------------------
(* Small instances of Scheduler for TLC.                                    *)
EXTENDS Scheduler, TLC

Amount(c, m) == [r \in Res |-> IF r = "cpu" THEN c ELSE m]
Capacity(c, m, g) == [cap |-> Amount(c, m), gpu |-> g]
Offer(c, m, g, u) == [cap |-> Amount(c, m), gpu |-> g, used |-> u]
Body(c, m, g, l, p) == [need |-> Amount(c, m), gpu |-> g, lat |-> l, prio |-> p]

\* A host with a GPU, and a smaller one that says of one core that it is in
\* use, and of its memory that less than nothing is; a report that downgrades
\* either to a single core.
MCOffers == {Offer(2, 4, 1, Amount(0, 0)), Offer(2, 3, 0, Amount(1, -1))}
MCReports == {Capacity(1, 9, 0)}

\* One body leaves CPU and RAM to the defaults (2 and 4), needs a GPU and has a
\* latency budget; the other is small.
MCRequests == {Body(0, 0, 1, TRUE, 0), Body(1, 2, 0, FALSE, 1)}

\* For the priority run: one size of host.
OneOffer == {Offer(1, 1, 0, Amount(0, 0))}

\* Its two requests, of one size, low and high priority.
PriorityRequests == {Body(1, 1, 0, FALSE, 1), Body(1, 1, 0, FALSE, 3)}

SteadyReports == {Capacity(9, 9, 9)}

============================================================================
