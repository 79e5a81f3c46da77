---------------------------- MODULE MCRemoteCLI ----------------------------
(* Command lines for the instances of RemoteCLI *)
EXTENDS RemoteCLI

Served(c) == [c EXCEPT !.systemd = TRUE, !.enable = TRUE]

(* the service is set up, and later its PKI is replaced *)
SetupAgain == {Served(Command("setup", TRUE))}
=============================================================================
