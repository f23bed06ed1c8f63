---------------------------- MODULE MCMaclockApp ----------------------------
(* The application with the constants that App*.cfg give it: one or two    *)
(* alarms, one or two minute stamps, and the features each run is about.   *)
EXTENDS MaclockApp
=============================================================================
