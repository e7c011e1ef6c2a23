------------------------------- MODULE MCUpdater -------------------------------
(* Two runs of the script, the second with --open-registration.               *)
EXTENDS Updater

CONSTANTS u1, u2
=============================================================================
