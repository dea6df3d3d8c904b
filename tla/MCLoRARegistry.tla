---------------------------- MODULE MCLoRARegistry ----------------------------
(* Three adapters, room for two; a and b are there at the start.           *)
EXTENDS LoRARegistry

\* Requests for single adapters; two of them share one.
SinglePath == [q1 |-> <<"a">>, q2 |-> <<"a">>, q3 |-> <<"c">>]

\* A list of two adapters beside a single one.
ListPath == [q1 |-> <<"a", "b">>, q2 |-> <<"c">>, q3 |-> <<"c">>]

Singles == [path |-> SinglePath, batch |-> {}, calls |-> Requests,
            outcomes |-> {"error", "queue_timeout"}]
Lists == [path |-> ListPath, batch |-> {"q1"}, calls |-> {"q1", "q2"},
          outcomes |-> {"error", "tokenize_error", "disconnect", "queue_timeout",
                        "queue_abort", "running_abort"}]
Leak == [path |-> SinglePath, batch |-> {}, calls |-> {"q1"}, outcomes |-> {"queue_abort"}]

MCScenarios == {Singles, Lists}
LeakScenarios == {Leak}

UpdateKind == [u1 |-> "unload", u2 |-> "load"]
UpdateTarget == [u1 |-> "a", u2 |-> "c"]
AB == <<"a", "b">>
=============================================================================
