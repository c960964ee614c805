--------------------------- MODULE NetworkMonitorMC ---------------------------
(* A network that comes and goes while chats are opened and closed.        *)
EXTENDS NetworkMonitor
=============================================================================
