------------------------------ MODULE MCDaemon ------------------------------
(* Small instances of Daemon for TLC. *)
EXTENDS Daemon

\* One signal that ends the process and one that does not.
Registered2 == <<"SIGALRM", "SIGTERM">>
=============================================================================
