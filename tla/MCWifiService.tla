--------------------------- MODULE MCWifiService ----------------------------
(* The Wi-Fi service with two cities: a device that was set up for one may *)
(* restore a backup of the other, whose coordinates are known, or of one   *)
(* that had Wi-Fi switched off and still looked its city up.               *)
EXTENDS WifiService

MCBackups == {Complete(TRUE, "q", TRUE), Complete(FALSE, "q", FALSE)}
=============================================================================
