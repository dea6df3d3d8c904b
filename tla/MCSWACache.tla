----------------------------- MODULE MCSWACache -----------------------------
(***************************************************************************)
(* Instances of SWACache for TLC.  Windows of two and three tokens, pages  *)
(* of one and two: windows that do and do not end at a page boundary.      *)
(* Prompts longer than two chunks let the third extend batch evict while   *)
(* the second still runs, and pools smaller than what both requests need   *)
(* make the decode batch retract.                                          *)
(***************************************************************************)
EXTENDS SWACache

SortPages == [S \in SUBSET Pages |-> Increasing(S)]

Case(kind, overlap, page, win, chunk, prompt, max_new, aware, full, swa) ==
    [kind |-> kind, overlap |-> overlap, page_size |-> page, window |-> win,
     chunk |-> chunk, prompt |-> prompt, max_new |-> max_new, aware |-> aware,
     full |-> full, swa |-> swa]

Cases ==
    {Case("hybrid", o, 2, w, 2, <<7, 3>>, 3, FALSE, 6, 4) : o \in BOOLEAN, w \in {2, 3}}
    \cup {Case("hybrid", o, 1, 2, 2, <<5, 2>>, 3, FALSE, 9, 6) : o \in BOOLEAN}
    \cup {Case("pure", o, 1, 2, 2, <<5, 2>>, 3, a, 8, 8) : o, a \in BOOLEAN}
    \cup {Case("disagg", o, 2, w, 2, <<5, 3>>, 4, FALSE, 5, 4) : o \in BOOLEAN, w \in {2, 3}}
=============================================================================
