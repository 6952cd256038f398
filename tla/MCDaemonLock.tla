---------------------------- MODULE MCDaemonLock ----------------------------
(* Three processes, one or none of them a WebDriver server.                 *)
EXTENDS DaemonLock
=============================================================================
