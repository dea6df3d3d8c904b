------------------------------- MODULE Disagg -------------------------------
(***************************************************************************)
(* Prefill-decode disaggregation: one prefill instance (DisaggPrefill), one *)
(* decode instance (DisaggDecode) and the KV connection between them       *)
(* (KVTransfer), with aborts on either side, failing transfers, timeouts   *)
(* and the crash of the prefill instance.                                  *)
(***************************************************************************)
EXTENDS DisaggPrefill, DisaggDecode

Init ==
  /\ scenario \in Scenarios
  /\ faults = 0
  /\ p = InitPrefill
  /\ d = InitDecode(scenario.info)
  /\ to_prefill = <<>>
  /\ to_decode = <<>>

\* The prefill process dies, with everything in it.
PrefillCrash ==
  /\ p.alive /\ MayFail("crash")
  /\ p' = [InitPrefill EXCEPT !.alive = FALSE]
  /\ to_prefill' = <<>>
  /\ faults' = faults + 1
  /\ UNCHANGED <<d, to_decode, scenario>>

\* What the other threads, the batches of the decode instance and the clocks do.
\* All of it comes to an end, as messages, chunks, timers and answers do.
Background ==
  \/ WorkerTakes \/ WorkerSendsKV \/ WorkerSendsAux
  \/ BootstrapThread \/ DecodeThread \/ NodeFailure \/ RetryInterval
  \/ \E r \in Reqs : DecodeFinish(r) \/ BootstrapTimer(r) \/ WaitingTimer(r)

Next ==
  \/ \E r \in Reqs : PrefillAdd(r) \/ DecodeAdd(r)
  \/ \E r \in Reqs : PrefillAbort(r) \/ DecodeAbort(r)
  \/ \E r \in Reqs : DecodeFinish(r) \/ BootstrapTimer(r) \/ WaitingTimer(r)
  \/ PrefillIteration
  \/ ProcessDecodeQueue \/ FetchFails \/ RetryInterval
  \/ WorkerTakes \/ WorkerSendsKV \/ WorkerSendFails \/ WorkerSendsAux
  \/ BootstrapThread \/ DecodeThread
  \/ PrefillCrash \/ NodeFailure \/ ProbeSession

Spec == Init /\ [][Next]_vars

\* The schedulers loop, the threads run and time passes; requests, faults and
\* aborts may or may not come.  The first two conjuncts are weak fairness of the
\* two loops, with the condition under which an iteration changes anything
\* written out.  Background steps are finitely many, so fairness of their
\* disjunction is fairness of each.
Fairness ==
  /\ []<>(p = PrefillNext \/ ~p.alive \/ p.error) \/ []<><<PrefillIteration>>_vars
  /\ []<>(d = DecodeNext(p.alive).s \/ d.error # None) \/ []<><<ProcessDecodeQueue>>_vars
  /\ WF_vars(Background)

FairSpec == Spec /\ Fairness

-----------------------------------------------------------------------------
\* Neither scheduler meets an assertion, a KeyError, an AttributeError or a
\* poll result it does not expect, and neither answers a request twice, with one
\* exception that the scenarios contain: a request aborted while the prefill
\* instance is not known yet loses its receiver and stays in pending_reqs, and
\* the next attempt to resolve it ends the decode scheduler.
NoException ==
  /\ ~p.error
  /\ \/ d.error = None
     \/ d.error = NoReceiver /\ \E r \in Reqs : d.req[r].answer = Aborted /\ ~d.req[r].known
  /\ \A r \in Reqs : p.req[r].answers <= 1 /\ d.req[r].answers <= 1

\* Every page and every metadata buffer of either instance is free or belongs
\* to exactly one request, and an answered request holds none: an abort or a
\* failure at any point gives back what was reserved, once.
Owned(s, pages, bufs) ==
  LET rows == [r \in Reqs |-> Range(s.req[r].row)]
      held == {r \in Reqs : s.req[r].midx # None}
  IN  /\ s.free \cup UNION {rows[r] : r \in Reqs} = pages
      /\ Cardinality(s.free) + MapThenSumSet(LAMBDA r : Len(s.req[r].row), Reqs)
           = Cardinality(pages)
      /\ Range(s.bufs) \cup {s.req[r].midx : r \in held} = bufs
      /\ Len(s.bufs) + Cardinality(held) = Cardinality(bufs)
      /\ \A r \in Reqs : s.req[r].answers > 0 => s.req[r].row = <<>> /\ s.req[r].midx = None

ResourcesConserved ==
  /\ p.alive => Owned(p, PrefillPages, PrefillBufs)
  /\ Owned(d, DecodePages, DecodeBufs)

\* A request the decode instance runs finds its own KV in its pages, and no
\* request is given the metadata of another: pages and buffers are reused at
\* once after an abort or a timeout, while a transfer for the previous owner
\* may still be under way.  This does not hold for a request the client aborted
\* at the prefill instance alone: its pages are reused there while the worker
\* still reads them.
CommittedKVIsOwn ==
  \A r \in Reqs : p.req[r].answer # Aborted =>
    /\ ~d.req[r].mismatch
    /\ r \in d.running => \A i \in 1 .. NumPages[r] : d.mem[d.req[r].row[i]] = <<r, i>>

\* Every request an instance has accepted is answered by it, whatever became
\* of the request on the other side, unless that instance dies or the decode
\* scheduler ends in the exception of NoException.  Requests are finitely many,
\* so this says that nothing stays unanswered for ever.
EveryRequestAnswered ==
  []<>(\/ d.error # None
       \/ \A r \in Reqs : d.req[r].answer # Live /\ (p.req[r].answer # Live \/ ~p.alive))
=============================================================================
