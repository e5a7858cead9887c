-------------------------- MODULE MCLifecycleCleanup --------------------------
(***************************************************************************)
(* A small instance of the cleanup loops for TLC.                          *)
(***************************************************************************)
EXTENDS LifecycleCleanup

\* A bound of the cancellation run: no data connection is classified.  A cancellation waits
\* for the owner and for participants, and only the owner ever participates, so that who
\* joined changes nothing that the loops look at.
NobodyJoins == classifying = {}
===============================================================================
