----------------------------- MODULE ServedUsers -----------------------------
(***************************************************************************)
(* The users of a program that serves them with a Trader and a watcher.    *)
(***************************************************************************)
CONSTANT Users
=============================================================================
