--------------------------- MODULE MCEventServer ----------------------------
(* Three descriptors for two clients, so that one is always free. *)
EXTENDS EventServer

MCFds == 3 .. 5
=============================================================================
