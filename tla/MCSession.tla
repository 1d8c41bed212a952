------------------------------ MODULE MCSession ------------------------------
(* Instances of Session for TLC. *)
EXTENDS Session, TLC

CONSTANTS alice, bob, de, nl, us, c1, c2

MCLocations == {de, nl, us}

\* a manual choice; an automatic one with a blank and a repeated location
MCRequests == {<<l>> : l \in MCLocations}
                \cup {<<p[1], Blank, p[1], p[2]>> : p \in {q \in MCLocations \X MCLocations : q[1] # q[2]}}

\* The pairs issued before the run starts are good: a refusal of a good pair is possible
\* at any step, and a revocation is trouble. A cache of an earlier run only beside a
\* session and on one platform, because the cache depends on neither.
MCInit ==
  /\ Init
  /\ server.good = 1 .. server.next - 1
  /\ cache # None => disk.keyring # None /\ ~windows

MCSpec == MCInit /\ [][Next]_vars

Symmetry == {f @@ g @@ h : f \in Permutations({c1, c2}), g \in Permutations({alice, bob}),
                           h \in Permutations(MCLocations)}
=============================================================================
