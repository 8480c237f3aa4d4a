---------------------------- MODULE DaemonProcess ----------------------------
(***************************************************************************)
(* The loopback daemon as its clients see it: a process that launchd keeps *)
(* alive.  It may die between any two steps, and it is started again.      *)
(***************************************************************************)
VARIABLE daemon   \* "up" or "down"

DaemonInit == daemon = "up"

DaemonStops == daemon = "up" /\ daemon' = "down"

DaemonStarts == daemon = "down" /\ daemon' = "up"
==============================================================================
