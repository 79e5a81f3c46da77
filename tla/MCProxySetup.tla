---------------------------- MODULE MCProxySetup ----------------------------
(* Command lines for the instances of ProxySetup *)
EXTENDS ProxySetup

Service(c, skip) == [c EXCEPT !.systemd = TRUE, !.enable = TRUE, !.skip = skip]
Install(enable, skip) == [Command("install", FALSE) EXCEPT !.enable = enable, !.skip = skip]

(* every subcommand, with and without --force *)
FileCommands ==
    {Command(c, f) : c \in {"setup", "mtls", "samples", "admin-client", "config"}, f \in BOOLEAN}
    \cup {Command("wizard", FALSE)}

(* setup with and without the service, and install systemd *)
ServiceCommands ==
    {Command("setup", FALSE), Service(Command("setup", TRUE), FALSE),
     Service(Command("wizard", FALSE), TRUE), Command("mtls", TRUE)}
    \cup {Install(e, s) : e \in BOOLEAN, s \in BOOLEAN}

AllCommands == FileCommands \cup ServiceCommands
=============================================================================
