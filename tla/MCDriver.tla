------------------------------ MODULE MCDriver ------------------------------
(* Driver on instances of MCNodeServer, for good and for bad command lines. *)
EXTENDS Driver, MCNodeServer

Good(scheme) ==
    [name |-> "n", version |-> "v", nodeID |-> "i", endpoint |-> scheme,
     metricsBackend |-> "prometheus", minProviderVersion |-> "good"]

\* Good ones, and every one with a single thing wrong.
OneMistake ==
    {Good(s) : s \in {"unix", "UNIX", "tcp", "none"}}
        \cup {[Good("unix") EXCEPT !.name = ""], [Good("unix") EXCEPT !.version = ""],
              [Good("unix") EXCEPT !.nodeID = ""],
              [Good("unix") EXCEPT !.metricsBackend = "other"],
              [Good("unix") EXCEPT !.minProviderVersion = "bad"]}
=============================================================================
