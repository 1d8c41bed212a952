--------------------------- MODULE MCOrchestrator ---------------------------
(* Instances of Orchestrator for TLC. *)
EXTENDS Orchestrator, TLC

\* threads are interchangeable in the runs that check no liveness
Symmetry == Permutations(Threads)

Request(e, t, p, r) == [engine |-> e, tun |-> t, proxy |-> p, rules |-> r]

\* whole computer, and proxy mode with application rules, both engines
MixedRequests == {Request("xray", TRUE, "set", FALSE), Request("xray", FALSE, "set", TRUE),
                  Request("singbox", FALSE, "clear", TRUE)}

\* the branches MixedRequests leaves out
OtherRequests == {Request("singbox", TRUE, "unchanged", FALSE),
                  Request("xray", FALSE, "unchanged", TRUE), Request("xray", FALSE, "set", FALSE)}
=============================================================================
