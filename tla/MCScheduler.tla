---------------------------- MODULE MCScheduler ----------------------------
(***************************************************************************)
(* Instances of Scheduler for TLC.  Tokens are numbers.  r1 and r2 agree   *)
(* on their first three tokens, so they share, split and deduplicate       *)
(* cached pages; r3 has nothing in common with them.                       *)
(***************************************************************************)
EXTENDS Scheduler

CONSTANTS r1, r2, r3

ThreeReqs == {r1, r2, r3}

MCTokens == [r \in Reqs |-> CASE r = r1 -> <<1, 2, 3, 4, 5, 6, 7, 8, 9, 4, 5, 6, 7, 8, 9, 4>>
                              [] r = r2 -> <<1, 2, 3, 7, 8, 9, 1, 2, 3, 7, 8, 9, 1, 2, 3, 7>>
                              [] r = r3 -> <<4, 4, 4, 4, 4, 4, 4, 4, 4, 4, 4, 4, 4, 4, 4, 4>>]

\* Short answers: prompts, chunks and sharing dominate.
ShortPrompt == [r \in Reqs |-> CASE r = r1 -> 3 [] r = r2 -> 4 [] r = r3 -> 2]
ShortMaxNew == [r \in Reqs |-> CASE r = r1 -> 5 [] r = r2 -> 2 [] r = r3 -> 3]

\* r1 may not match its only page, so it computes and returns a duplicate of
\* the one r2 cached; r2's two-page chunk is split by it.
SharedPrompt == [r \in Reqs |-> CASE r = r1 -> 2 [] r = r2 -> 6 [] r = r3 -> 3]
SharedMaxNew == [r \in Reqs |-> CASE r = r1 -> 5 [] r = r2 -> 2 [] r = r3 -> 4]

\* Long answers: the pool runs out while the requests decode.
LongPrompt == [r \in Reqs |-> CASE r = r1 -> 2 [] r = r2 -> 6 [] r = r3 -> 2]
LongMaxNew == [r \in Reqs |-> CASE r = r1 -> 14 [] r = r2 -> 3 [] r = r3 -> 6]

\* A long prompt of high priority arrives last.
PreemptPrompt == [r \in Reqs |-> CASE r = r1 -> 2 [] r = r2 -> 4 [] r = r3 -> 6]
PreemptMaxNew == [r \in Reqs |-> 2]

\* The prompt of r2 leaves one page of three, and the answer none of it.
PagePrompt == [r \in Reqs |-> IF r = r2 THEN 4 ELSE 1]
PageMaxNew == [r \in Reqs |-> 1]

Config(prompt_, max_new_, pages_, overlap_, preemption_, chunk_, abort_) ==
  [prompt |-> prompt_, max_new |-> max_new_, pages |-> pages_, overlap |-> overlap_,
   preemption |-> preemption_, chunk |-> chunk_, abort |-> abort_]

\* A prompt is accepted that cannot be admitted.
BlockedConfig == Config(PagePrompt, PageMaxNew, 3, FALSE, FALSE, None, FALSE)

\* Chunked prefill and aborts, with and without overlap; a pool that runs out
\* under long answers; preemption under overlap.
MCConfigs ==
  {Config(SharedPrompt, SharedMaxNew, 8, FALSE, FALSE, 4, TRUE),
   Config(ShortPrompt, ShortMaxNew, 6, TRUE, FALSE, 2, TRUE),
   Config(LongPrompt, LongMaxNew, 7, FALSE, FALSE, None, FALSE),
   Config(LongPrompt, LongMaxNew, 7, TRUE, TRUE, None, FALSE),
   BlockedConfig}

LostConfigs == {Config(PreemptPrompt, PreemptMaxNew, 7, FALSE, TRUE, None, FALSE)}

MCPriority == [r \in Reqs |-> CASE r = r1 -> 0 [] r = r2 -> 1 [] r = r3 -> 1]
=============================================================================
