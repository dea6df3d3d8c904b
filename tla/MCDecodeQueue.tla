---------------------------- MODULE MCDecodeQueue ----------------------------
(***************************************************************************)
(* Instances of DecodeQueue for TLC.                                       *)
(***************************************************************************)
EXTENDS DecodeQueue

CONSTANTS r1, r2, r3

ThreeReqs == {r1, r2, r3}

Load(in, new, pool_, page_size_, reserved_, meta_buffers_) ==
  [input   |-> [r \in Reqs |-> CASE r = r1 -> in[1] [] r = r2 -> in[2] [] r = r3 -> in[3]],
   max_new |-> [r \in Reqs |-> CASE r = r1 -> new[1] [] r = r2 -> new[2] [] r = r3 -> new[3]],
   pool |-> pool_, page_size |-> page_size_, reserved |-> reserved_,
   meta_buffers |-> meta_buffers_]

\* Answers that fit the reservation, in pools from tight to roomy.
Tame == {Load(<<2, 3, 1>>, <<2, 2, 2>>, 12, 2, 2, 2), Load(<<3, 3, 1>>, <<2, 2, 2>>, 6, 2, 2, 2),
         Load(<<2, 4, 1>>, <<2, 2, 2>>, 8, 2, 2, 2), Load(<<4, 3, 1>>, <<4, 3, 2>>, 16, 4, 4, 2)}

\* A reserve that is no multiple of the page size: two requests that fit take
\* two pages each beyond their prompts.
OddReserve == {Load(<<4, 4, 1>>, <<6, 6, 1>>, 20, 4, 6, 2)}

\* Answers that outgrow it: two requests that run together fill the pool.
Outgrowing == {Load(<<3, 2, 1>>, <<6, 5, 2>>, 12, 2, 2, 2)}

\* Two short prompts with long answers fill the pool while a third request
\* waits for its KV.
Stuck == {Load(<<1, 1, 1>>, <<8, 8, 1>>, 15, 1, 4, 3)}

\* The second prompt fits the pool, but not together with the reserve.
TooLarge == {Load(<<1, 3, 1>>, <<2, 2, 1>>, 6, 2, 4, 2)}

Served == Tame \cup OddReserve \cup Outgrowing \cup Stuck \cup TooLarge

\* A short prompt with a long answer is still being transferred when a long
\* prompt is admitted.
OutOfMemory == {Load(<<1, 9, 1>>, <<9, 1, 1>>, 14, 1, 2, 2)}
=============================================================================
