---------------------------- MODULE ProxyCustody ----------------------------
(***************************************************************************)
(* What the owner of the system proxy promises about ProxyServer, the      *)
(* value that decides where the user's traffic goes.                       *)
(*                                                                         *)
(* The value belongs to the user, who changes it by choosing another.      *)
(* While the application runs it may put its own value in the place of the *)
(* user's, and in the place of its own.  Whoever takes it away, which may  *)
(* be another process long after the application died, puts in force what  *)
(* the user chose last, and nothing else.  After void the promise is off.  *)
(***************************************************************************)
CONSTANTS
    Servers,    \* the values a user may choose
    Own         \* DoodleRay's values

VARIABLES
    choice,     \* what the user, or another program, chose last
    user,       \* the user's value, in force or saved
    inForce,    \* the value in force
    running,    \* is the application running
    void        \* has the promise been given up

vars == <<choice, user, inForce, running, void>>

Init ==
    /\ choice \in Servers /\ user = choice /\ inForce = choice
    /\ running = FALSE /\ void = FALSE

\* A choice is in force at once, and is the user's value from then on.
Choose(server) ==
    /\ choice' = server /\ user' = server /\ inForce' = server
    /\ UNCHANGED <<running, void>>

Lend(server) ==
    /\ running
    /\ inForce' = server
    /\ UNCHANGED <<choice, user, running, void>>

Return ==
    /\ inForce \in Own
    /\ inForce' = user
    /\ UNCHANGED <<choice, user, running, void>>

\* The application is started, ends or dies.
StartOrEnd ==
    /\ running' = ~running
    /\ UNCHANGED <<choice, user, inForce, void>>

Next ==
    \/ void'
    \/ \E server \in Servers : Choose(server)
    \/ \E server \in Own : Lend(server)
    \/ Return \/ StartOrEnd

Spec == Init /\ [][Next]_vars
=============================================================================
