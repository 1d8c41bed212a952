--------------------------- MODULE MCSystemProxy ---------------------------
(* Instances of SystemProxy for TLC. *)
EXTENDS SystemProxy

\* No proxy; a company's proxy, switched off; a company's proxy with a PAC file.
MCUserSettings == {
    [enable |-> FALSE, server |-> NoServer,    rest |-> "plain"],
    [enable |-> FALSE, server |-> "corporate", rest |-> "plain"],
    [enable |-> TRUE,  server |-> "corporate", rest |-> "pac"] }
=============================================================================
