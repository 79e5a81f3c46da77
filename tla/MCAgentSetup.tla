---------------------------- MODULE MCAgentSetup ----------------------------
(* Option sets for model checking AgentSetup *)
EXTENDS AgentSetup

(* luna-agent setup --fetch-ca --ca-fingerprint ... --enroll-token ... *)
EnrollScript == [Blank EXCEPT !.fetch = TRUE, !.fp = TRUE, !.token = TRUE]

(* the same with a ca.crt that the operator copied *)
EnrollWithCA == [Blank EXCEPT !.ca = TRUE, !.token = TRUE]

(* the CA key is copied to the host and signs there *)
SignScript == [Blank EXCEPT !.ca = TRUE, !.cakey = TRUE]

(* these, and setup without options, each with and without --force *)
OwnKeyScripts ==
    {[o EXCEPT !.force = f] : o \in {Blank, EnrollScript, EnrollWithCA, SignScript},
                              f \in BOOLEAN}
=============================================================================
