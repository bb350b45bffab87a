--------------------------- MODULE DriverProcess ---------------------------
(***************************************************************************)
(* The process of the driver on a node: main (main.go), which starts the   *)
(* controller manager in a goroutine and goes on to Run (secrets-store.go) *)
(* and serve (csi-common/server.go), in a third goroutine.                 *)
(*                                                                         *)
(* Every error on the way is a log.Fatal, which ends the process at once;  *)
(* kubelet starts it again.  The socket file outlives the process.         *)
(* calm is the end of such errors, of signals and of kills.                *)
(***************************************************************************)
CONSTANT CommandLine    \* the flags the driver may be started with, see FlagsType

\* drivername, vendorVersion and nodeid may be empty; endpoint is the scheme
\* of an endpoint with an address, or "none" for any other text.
FlagsType == [name : {"", "n"}, version : {"", "v"}, nodeID : {"", "i"},
              endpoint : {"unix", "UNIX", "tcp", "none"},
              metricsBackend : {"prometheus", "other"},
              minProviderVersion : {"good", "bad"}]

VARIABLES
    flags,      \* the command line
    main,       \* the next step of the main goroutine, "down" without a process
    mgr,        \* the goroutine of the manager
    serve,      \* the next step of the goroutine of serve
    socket,     \* the file of the unix socket: none, one nobody listens on, or live
    driver,     \* the CSIDriver, nil before NewCSIDriver
    services,   \* the services registered with the gRPC server
    signalled,  \* SIGTERM was sent and handled
    calm

Capability == {"CREATE_DELETE_VOLUME"}
AccessMode == {"SINGLE_NODE_READER_ONLY", "MULTI_NODE_READER_ONLY"}

nil == [name |-> "", version |-> "", nodeID |-> "", cap |-> {}, vc |-> {}]

CSIDriver == [name : {"", "n"}, version : {"", "v"}, nodeID : {"", "i"},
              cap : SUBSET Capability, vc : SUBSET AccessMode]

\* The state is well typed.
ProcessTypeOK ==
    /\ flags \in FlagsType
    /\ main \in {"down", "manager", "handle", "driver", "capabilities", "metrics", "servers", "wait"}
    /\ mgr \in {"none", "starting", "running", "ended"}
    /\ serve \in {"none", "parse", "remove", "listen", "register", "serving"}
    /\ socket \in {"absent", "stale", "live"}
    /\ driver \in CSIDriver
    /\ services \subseteq {"identity", "controller", "node"}
    /\ signalled \in BOOLEAN
    /\ calm \in BOOLEAN

ProcessInit ==
    /\ flags \in CommandLine
    /\ main = "down" /\ mgr = "none" /\ serve = "none"
    /\ socket = "absent"
    /\ driver = nil /\ services = {} /\ signalled = FALSE

\* The process ends; left is what becomes of the file of a live socket.
EndWith(left) ==
    /\ main' = "down" /\ mgr' = "none" /\ serve' = "none"
    /\ driver' = nil /\ services' = {} /\ signalled' = FALSE
    /\ socket' = IF socket = "live" THEN left ELSE socket
    /\ UNCHANGED flags

\* By log.Fatal or a signal: nothing closes the listener, so the file stays.
Exit == EndWith("stale")

\* Whether a call of a library returns an error.
MayFail == IF calm THEN {FALSE} ELSE BOOLEAN

-----------------------------------------------------------------------------
(* The main goroutine: main, handle and Run.                               *)

\* Kubelet starts the container.
Launch ==
    /\ main = "down" /\ main' = "manager"
    /\ UNCHANGED <<flags, mgr, serve, socket, driver, services, signalled>>

NewManager ==
    /\ main = "manager"
    /\ \E err \in MayFail :
         IF err THEN Exit
                ELSE /\ main' = "handle" /\ mgr' = "starting"
                     /\ UNCHANGED <<flags, serve, socket, driver, services, signalled>>

Goto(step) ==
    /\ main' = step
    /\ UNCHANGED <<flags, mgr, serve, socket, services, signalled>>

handle ==
    /\ main = "handle"
    /\ \E err \in MayFail :
         IF err THEN Exit ELSE Goto("driver") /\ UNCHANGED driver

\* Mutant: a driver without node id is not refused.
NewCSIDriverNoNode(name, version, nodeID) ==
    IF name = "" \/ version = "" THEN nil
    ELSE [nil EXCEPT !.name = name, !.version = version, !.nodeID = nodeID]

NewCSIDriver(name, version, nodeID) ==
    IF name = "" \/ nodeID = "" \/ version = "" THEN nil
    ELSE [nil EXCEPT !.name = name, !.version = version, !.nodeID = nodeID]

RunNewCSIDriver ==
    LET d == NewCSIDriver(flags.name, flags.version, flags.nodeID) IN
    /\ main = "driver"
    /\ IF d = nil THEN Exit ELSE Goto("capabilities") /\ driver' = d

\* Both replace what was there.
AddControllerServiceCapabilities(d, cl) == [d EXCEPT !.cap = cl]

\* Mutant: the access modes end up among the capabilities.
AddVolumeCapabilityAccessModesMixed(d, vc) == [d EXCEPT !.cap = vc]

AddVolumeCapabilityAccessModes(d, vc) == [d EXCEPT !.vc = vc]

RunCapabilities ==
    /\ main = "capabilities"
    /\ Goto("metrics")
    /\ driver' = AddVolumeCapabilityAccessModes(
                     AddControllerServiceCapabilities(driver, {"CREATE_DELETE_VOLUME"}),
                     AccessMode)

\* The pipeline is installed or not; whether its HTTP server can listen is
\* never known.
newPrometheusExporter == MayFail

NewMetricsExporter ==
    IF flags.metricsBackend = "prometheus" THEN newPrometheusExporter ELSE {TRUE}

RunMetrics ==
    /\ main = "metrics"
    /\ \E err \in NewMetricsExporter :
         IF err THEN Exit ELSE Goto("servers") /\ UNCHANGED driver

\* newNodeServer refuses a bad --min-provider-version; otherwise the three
\* servers are made and serve gets a goroutine of its own.
RunServers ==
    /\ main = "servers"
    /\ IF flags.minProviderVersion = "bad" THEN Exit
       ELSE /\ main' = "wait" /\ serve' = "parse"
            /\ UNCHANGED <<flags, mgr, socket, driver, services, signalled>>

-----------------------------------------------------------------------------
(* The goroutine of serve.                                                 *)

ServeGoto(step) ==
    /\ serve' = step
    /\ UNCHANGED <<flags, main, mgr, driver, signalled>>

\* The scheme is accepted in any case, and returned as it was written.
ParseEndpoint(ep) == [proto |-> ep, err |-> ep = "none"]

ServeParse ==
    LET p == ParseEndpoint(flags.endpoint) IN
    /\ serve = "parse"
    /\ IF p.err THEN Exit
       ELSE /\ ServeGoto(IF p.proto = "unix" THEN "remove" ELSE "listen")
            /\ UNCHANGED <<socket, services>>

\* Mutant: the socket of an earlier process is left where it is.
ServeRemoveSkipped ==
    /\ serve = "remove"
    /\ ServeGoto("listen") /\ UNCHANGED <<socket, services>>

\* os.Remove; a file that is not there is no error.
ServeRemove ==
    /\ serve = "remove"
    /\ \E err \in MayFail :
         IF err THEN Exit
                ELSE ServeGoto("listen") /\ socket' = "absent" /\ UNCHANGED services

\* net.Listen refuses a network it does not know and a path that exists.
Listens == flags.endpoint \in {"unix", "tcp"} /\ (flags.endpoint = "unix" => socket = "absent")

ServeListen ==
    /\ serve = "listen"
    /\ \E err \in MayFail :
         IF err \/ ~Listens THEN Exit
         ELSE /\ ServeGoto("register")
              /\ socket' = IF flags.endpoint = "unix" THEN "live" ELSE socket
              /\ UNCHANGED services

\* Connections wait in the listener until Serve accepts them.
ServeRegister ==
    /\ serve = "register"
    /\ ServeGoto("serving")
    /\ services' = {"identity", "controller", "node"}
    /\ UNCHANGED socket

\* Mutant: the error of Serve is logged only.
ServeFailsLogged ==
    /\ serve = "serving" /\ ~calm
    /\ ServeGoto("none") /\ UNCHANGED <<socket, services>>

\* Serve closes the listener when it returns, which removes the file.
ServeFails == serve = "serving" /\ ~calm /\ EndWith("absent")

-----------------------------------------------------------------------------
(* The goroutine of the manager, and signals.                              *)

ManagerGoto(step) ==
    /\ mgr' = step
    /\ UNCHANGED <<flags, main, serve, socket, driver, services, signalled>>

\* SetupSignalHandler, then Start.
ManagerStart == mgr = "starting" /\ ManagerGoto("running")

\* Mutant: the error of mgr.Start is logged only.
ManagerFailsLogged == mgr = "running" /\ ~calm /\ ManagerGoto("ended")

ManagerFails == mgr = "running" /\ ~calm /\ Exit

\* On the first signal Start returns nil: the reconciler is gone, and main
\* still waits for serve.
ManagerStops == mgr = "running" /\ signalled /\ ManagerGoto("ended")

\* SIGTERM ends a process without the handler, and one that had it before.
Signal ==
    /\ main # "down" /\ ~calm
    /\ IF mgr \in {"none", "starting"} \/ signalled THEN Exit
       ELSE /\ signalled' = TRUE
            /\ UNCHANGED <<flags, main, mgr, serve, socket, driver, services>>

\* SIGKILL: at any time, and after the grace period of a SIGTERM.
Kill == main # "down" /\ (~calm \/ signalled) /\ Exit

-----------------------------------------------------------------------------

MainStep == NewManager \/ handle \/ RunNewCSIDriver \/ RunCapabilities \/ RunMetrics \/ RunServers
ServeStep == ServeParse \/ ServeRemove \/ ServeListen \/ ServeRegister
ManagerStep == ManagerStart \/ ManagerStops

ProcessNext ==
    \/ Launch \/ MainStep \/ ServeStep \/ ManagerStep
    \/ ServeFails \/ ManagerFails \/ Signal \/ Kill

-----------------------------------------------------------------------------
(* What the servers answer from the CSIDriver alone.                       *)

GetPluginInfo ==
    IF driver.name = "" \/ driver.version = "" THEN "Unavailable" ELSE "OK"

NodeGetInfo == driver.nodeID

ControllerGetCapabilities == driver.cap

\* CreateVolume asks for CREATE_DELETE_VOLUME.
ValidateControllerServiceRequest(c) == c = "UNKNOWN" \/ c \in driver.cap

Serving == serve = "serving"

GoodFlags ==
    /\ flags.name # "" /\ flags.version # "" /\ flags.nodeID # ""
    /\ flags.endpoint \in {"unix", "tcp"}
    /\ flags.metricsBackend = "prometheus" /\ flags.minProviderVersion = "good"

\* A driver that answers calls was started with flags that are all good, has
\* all three services, and answers the calls kubelet registers it with and the
\* capability check of CreateVolume: every goroutine before serve is past its
\* checks, and what main sets is set before serve starts.
ServesComplete ==
    Serving =>
        /\ GoodFlags
        /\ services = {"identity", "controller", "node"}
        /\ GetPluginInfo = "OK" /\ NodeGetInfo = flags.nodeID
        /\ ValidateControllerServiceRequest("CREATE_DELETE_VOLUME")
        /\ ControllerGetCapabilities # {}

\* The file of the socket is live exactly while serve listens on it, and a
\* process never meets a file when it comes to listen: after os.Remove nothing
\* that the other goroutines, signals or earlier processes do brings one back.
SocketIsServed ==
    /\ socket = "live" <=> flags.endpoint = "unix" /\ serve \in {"register", "serving"}
    /\ flags.endpoint = "unix" /\ serve = "listen" => socket = "absent"

\* A process that is started again and again serves in the end and keeps
\* serving, and its reconciler with it: no socket an earlier process left, no
\* failure of one goroutine and no half handled SIGTERM keeps it from that.
DriverComesBack == GoodFlags => <>[](Serving /\ mgr = "running")
=============================================================================
