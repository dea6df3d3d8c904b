---------------------------- MODULE MCWeightUpdate ----------------------------
EXTENDS WeightUpdate, TLC

CONSTANTS c1, c2, r1, r2

PauseOp(mode) == [op |-> "pause", mode |-> mode]
ContinueOp == [op |-> "continue"]
UpdateOp(via, abort, flush) ==
  [op |-> "update", via |-> via, abort_all_requests |-> abort, flush_cache |-> flush]
Calls(one, two, outcomes) == [script |-> (c1 :> one @@ c2 :> two), outcomes |-> outcomes]

\* pause, update, continue in the mode that answers every request first.
Aborting == Calls(<<PauseOp("abort"), UpdateOp("disk", FALSE, TRUE), ContinueOp>>, <<>>,
                  {"tokenize_error"})
\* The modes that keep the requests, with the cache kept.
Keeping ==
  {Calls(<<PauseOp(m), UpdateOp("communicator", FALSE, FALSE), ContinueOp>>, <<>>,
         {"disconnect"}) : m \in {"retract", "in_place"}}
\* Updates that do not pause, side by side.
SideBySide == Calls(<<UpdateOp("communicator", FALSE, TRUE)>>, <<UpdateOp("disk", TRUE, TRUE)>>,
                    {"load_error", "disconnect"})
\* A pause that overtakes an update in flight, and an update behind it.
Overtaking ==
  Calls(<<UpdateOp("communicator", FALSE, FALSE)>>,
        <<PauseOp("in_place"), UpdateOp("communicator", FALSE, FALSE), ContinueOp>>, {})

Orderly == {Aborting, SideBySide, Overtaking} \cup Keeping

\* A flush while the engine is paused in the retract mode.
RetractFlush ==
  {Calls(<<PauseOp("retract"), UpdateOp("disk", FALSE, TRUE), ContinueOp>>, <<>>, {})}
=============================================================================
