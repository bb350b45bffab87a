---------------------------- MODULE DriverProofs ----------------------------
(***************************************************************************)
(* The driver as a whole, for any command lines, targets and handlers.     *)
(***************************************************************************)
EXTENDS Driver, NodeServerVolumeProofs

-----------------------------------------------------------------------------
(* Refinement: the process adds nothing to what NodeServer does.           *)

\* Whatever ends the process, kubelet and the node see a crash of the node
\* service or, without a call that runs, nothing at all.
LEMMA ProcessIsCrash ==
    ASSUME NEW ACTION A, ProcessDo(A)
    PROVE  [Next]_vars
<1>1. CASE main' = "down"
  BY <1>1, ZenonT(60) DEF ProcessDo, DropCalls, Next
<1>2. CASE main' # "down"
  BY <1>2, ZenonT(60) DEF ProcessDo
<1> QED
  BY <1>1, <1>2, ZenonT(60)

\* A step of the driver is a step of the node service or leaves it alone.
LEMMA DriverStep == [DriverNext]_driverVars => [Next]_vars
<1> SUFFICES ASSUME [DriverNext]_driverVars
             PROVE  [Next]_vars
  OBVIOUS
<1>1. CASE ProcessDo(P!ProcessNext)
  BY <1>1, ProcessIsCrash
<1>2. ASSUME NEW h \in Handler, HandlerDo(h)
      PROVE  [Next]_vars
  BY <1>2 DEF HandlerDo, Next
<1>3. ASSUME NEW t \in Target, NodePublish(t) \/ NodeUnpublish(t)
      PROVE  [Next]_vars
  BY <1>3 DEF NodePublish, NodeUnpublish, Next
<1>4. ASSUME NEW h \in Handler, Timeout(h)
      PROVE  [Next]_vars
  BY <1>4 DEF Next
<1>5. ASSUME NEW t \in Target, MountGoesStale(t)
      PROVE  [Next]_vars
  BY <1>5 DEF Next
<1>6. CASE Calm
  BY <1>6 DEF Calm
<1>7. CASE UNCHANGED driverVars
  BY <1>7 DEF driverVars
<1> QED
  BY <1>1, <1>2, <1>3, <1>4, <1>5, <1>6, <1>7, ZenonT(60) DEF DriverNext

\* The driver is a NodeServer, for every command line and whatever makes the
\* process exit: log.Fatal in any goroutine, SIGTERM or SIGKILL.
LEMMA DriverIsNodeServer == DriverSpec => Spec
<1>1. DriverInit => Init
  BY DEF DriverInit
<1> QED
  BY <1>1, DriverStep, PTL DEF DriverSpec, Spec

\* What kubelet relies on when it deletes a pod's directory survives restarts
\* of the driver: an OK to NodeUnpublishVolume means that nothing is left.
THEOREM DriverRemovesAll == DriverSpec => []RemovedIsClean
  BY DriverIsNodeServer, RemovedStaysClean, PTL

\* The promise about the volumes of pods survives the process too: a restart of
\* the driver makes the volumes it was working on suspect and changes no other.
THEOREM DriverKeepsContract == DriverSpec => KeepsContract
  BY DriverIsNodeServer, NodeServerKeepsContract, PTL

-----------------------------------------------------------------------------
(* The process.  What it has checked and set shows in how far its main     *)
(* goroutine and serve have come.                                          *)

\* Behind NewCSIDriver the flags it checks are in the CSIDriver.
Named ==
    main \in {"capabilities", "metrics", "servers", "wait"} =>
        /\ flags.name # "" /\ flags.version # "" /\ flags.nodeID # ""
        /\ driver.name = flags.name /\ driver.version = flags.version
        /\ driver.nodeID = flags.nodeID

Capable ==
    main \in {"metrics", "servers", "wait"} => driver.cap = {"CREATE_DELETE_VOLUME"}

Checked ==
    /\ main \in {"servers", "wait"} => flags.metricsBackend = "prometheus"
    /\ main = "wait" => flags.minProviderVersion = "good"

\* serve only runs while main waits for it.
ServesBehindMain ==
    /\ serve # "none" => main = "wait"
    /\ serve \in {"register", "serving"} => flags.endpoint \in {"unix", "tcp"}
    /\ serve = "serving" => services = {"identity", "controller", "node"}

\* Without a unix endpoint there is never a socket file.
SocketFollows ==
    /\ SocketIsServed
    /\ flags.endpoint # "unix" => socket = "absent"
    /\ serve = "remove" => flags.endpoint = "unix"

PInv == ProcessTypeOK /\ Named /\ Capable /\ Checked /\ ServesBehindMain

\* No driver is well typed.
LEMMA NilType == P!nil \in P!CSIDriver
  BY DEF P!nil, P!CSIDriver

LEMMA InitPInv == DriverInit => PInv
<1> SUFFICES ASSUME DriverInit
             PROVE  PInv
  OBVIOUS
<1> USE DEF DriverInit, P!ProcessInit
<1>1. ProcessTypeOK
  BY CommandLineType, NilType, ZenonT(60) DEF ProcessTypeOK, P!ProcessTypeOK
<1>2. Named /\ Capable /\ Checked /\ ServesBehindMain
  BY DEF Named, Capable, Checked, ServesBehindMain
<1> QED
  BY <1>1, <1>2 DEF PInv

\* A process that ends starts from nothing.
LEMMA EndPInv ==
    ASSUME PInv, calm' = calm, NEW left \in {"absent", "stale"}, P!EndWith(left)
    PROVE  PInv'
<1> USE DEF P!EndWith
<1>1. ProcessTypeOK'
  BY NilType, ZenonT(60) DEF PInv, ProcessTypeOK, P!ProcessTypeOK
<1>2. (Named /\ Capable /\ Checked /\ ServesBehindMain)'
  BY DEF Named, Capable, Checked, ServesBehindMain
<1> QED
  BY <1>1, <1>2 DEF PInv

LEMMA ExitPInv == PInv /\ calm' = calm /\ P!Exit => PInv'
BY EndPInv DEF P!Exit

\* Every step of main is the end of the process or goes on with serve not yet
\* started, and sets what the invariant says of the next step.
LEMMA MainPInv == PInv /\ calm' = calm /\ P!MainStep => PInv'
<1> SUFFICES ASSUME PInv, calm' = calm, P!MainStep
             PROVE  PInv'
  OBVIOUS
<1> USE DEF PInv
<1>0. CASE P!Exit
  BY <1>0, ExitPInv, ZenonT(60)
<1>1. CASE P!NewManager /\ ~P!Exit
  <2>1. ProcessTypeOK'
    BY <1>1, ZenonT(60) DEF P!NewManager, ProcessTypeOK, P!ProcessTypeOK
  <2>2. (Named /\ Capable /\ Checked /\ ServesBehindMain)'
    BY <1>1, ZenonT(60) DEF P!NewManager, Named, Capable, Checked, ServesBehindMain
  <2> QED
    BY <2>1, <2>2
<1>2. CASE P!handle /\ ~P!Exit
  <2>1. ProcessTypeOK'
    BY <1>2, ZenonT(60) DEF P!handle, P!Goto, ProcessTypeOK, P!ProcessTypeOK
  <2>2. (Named /\ Capable /\ Checked /\ ServesBehindMain)'
    BY <1>2, ZenonT(60) DEF P!handle, P!Goto, Named, Capable, Checked, ServesBehindMain
  <2> QED
    BY <2>1, <2>2
<1>3. CASE P!RunNewCSIDriver /\ ~P!Exit
  <2> DEFINE d == P!NewCSIDriver(flags.name, flags.version, flags.nodeID)
  <2>1. d # P!nil /\ driver' = d /\ main = "driver" /\ P!Goto("capabilities")
    BY <1>3 DEF P!RunNewCSIDriver
  <2>2. /\ flags.name # "" /\ flags.version # "" /\ flags.nodeID # ""
        /\ d = [name |-> flags.name, version |-> flags.version, nodeID |-> flags.nodeID,
                cap |-> {}, vc |-> {}]
    BY <2>1, ZenonT(60) DEF P!NewCSIDriver, P!nil
  <2> HIDE DEF d
  <2>3. d \in P!CSIDriver
    BY <2>2, ZenonT(60) DEF P!CSIDriver, ProcessTypeOK, P!ProcessTypeOK, P!FlagsType
  <2>4. ProcessTypeOK'
    BY <2>1, <2>3 DEF P!Goto, ProcessTypeOK, P!ProcessTypeOK
  <2>5. (Named /\ Capable /\ Checked /\ ServesBehindMain)'
    BY <2>1, <2>2, ZenonT(60) DEF P!Goto, Named, Capable, Checked, ServesBehindMain
  <2> QED
    BY <2>4, <2>5
<1>4. CASE P!RunCapabilities
  <2>1. /\ main = "capabilities" /\ P!Goto("metrics")
        /\ driver' = [driver EXCEPT !.cap = {"CREATE_DELETE_VOLUME"}, !.vc = P!AccessMode]
    BY <1>4, ZenonT(60) DEF P!RunCapabilities, P!AddVolumeCapabilityAccessModes,
                P!AddControllerServiceCapabilities, ProcessTypeOK, P!ProcessTypeOK, P!CSIDriver
  <2>2. driver \in P!CSIDriver
    BY DEF ProcessTypeOK, P!ProcessTypeOK
  <2>3. /\ driver' \in P!CSIDriver
        /\ driver'.name = driver.name /\ driver'.version = driver.version
        /\ driver'.nodeID = driver.nodeID /\ driver'.cap = {"CREATE_DELETE_VOLUME"}
    BY <2>1, <2>2, ZenonT(60) DEF P!CSIDriver, P!Capability
  <2>4. ProcessTypeOK'
    BY <2>1, <2>3 DEF P!Goto, ProcessTypeOK, P!ProcessTypeOK
  <2>5. (Named /\ Capable /\ Checked /\ ServesBehindMain)'
    BY <2>1, <2>3, ZenonT(60) DEF P!Goto, Named, Capable, Checked, ServesBehindMain
  <2> QED
    BY <2>4, <2>5
<1>5. CASE P!RunMetrics /\ ~P!Exit
  <2>1. flags.metricsBackend = "prometheus"
    BY <1>5, ZenonT(60) DEF P!RunMetrics, P!NewMetricsExporter
  <2>2. main = "metrics" /\ P!Goto("servers") /\ driver' = driver
    BY <1>5 DEF P!RunMetrics
  <2>3. ProcessTypeOK'
    BY <2>2 DEF P!Goto, ProcessTypeOK, P!ProcessTypeOK
  <2>4. (Named /\ Capable /\ Checked /\ ServesBehindMain)'
    BY <2>1, <2>2, ZenonT(60) DEF P!Goto, Named, Capable, Checked, ServesBehindMain
  <2> QED
    BY <2>3, <2>4
<1>6. CASE P!RunServers /\ ~P!Exit
  <2>1. ProcessTypeOK'
    BY <1>6, ZenonT(60) DEF P!RunServers, ProcessTypeOK, P!ProcessTypeOK
  <2>2. flags.minProviderVersion = "good"
    BY <1>6, ZenonT(60) DEF P!RunServers, ProcessTypeOK, P!ProcessTypeOK, P!FlagsType
  <2>3. (Named /\ Capable /\ Checked /\ ServesBehindMain)'
    BY <1>6, <2>2, ZenonT(60) DEF P!RunServers, Named, Capable, Checked, ServesBehindMain
  <2> QED
    BY <2>1, <2>3
<1> QED
  BY <1>0, <1>1, <1>2, <1>3, <1>4, <1>5, <1>6, ZenonT(60) DEF P!MainStep

\* serve goes on only with an endpoint it can listen on, and serves only what
\* it has registered.
LEMMA ServePInv == PInv /\ calm' = calm /\ P!ServeStep => PInv'
<1> SUFFICES ASSUME PInv, calm' = calm, P!ServeStep
             PROVE  PInv'
  OBVIOUS
<1> USE DEF PInv, P!ServeGoto
<1>0. CASE P!Exit
  BY <1>0, ExitPInv
<1>1. CASE P!ServeParse /\ ~P!Exit
  <2>1. ProcessTypeOK'
    BY <1>1, ZenonT(60) DEF P!ServeParse, ProcessTypeOK, P!ProcessTypeOK
  <2>2. (Named /\ Capable /\ Checked /\ ServesBehindMain)'
    BY <1>1, ZenonT(60) DEF P!ServeParse, Named, Capable, Checked, ServesBehindMain
  <2> QED
    BY <2>1, <2>2
<1>2. CASE P!ServeRemove /\ ~P!Exit
  <2>1. ProcessTypeOK'
    BY <1>2, ZenonT(60) DEF P!ServeRemove, ProcessTypeOK, P!ProcessTypeOK
  <2>2. (Named /\ Capable /\ Checked /\ ServesBehindMain)'
    BY <1>2, ZenonT(60) DEF P!ServeRemove, Named, Capable, Checked, ServesBehindMain
  <2> QED
    BY <2>1, <2>2
<1>3. CASE P!ServeListen /\ ~P!Exit
  <2>1. ProcessTypeOK'
    BY <1>3, ZenonT(60) DEF P!ServeListen, ProcessTypeOK, P!ProcessTypeOK
  <2>2. (Named /\ Capable /\ Checked /\ ServesBehindMain)'
    BY <1>3, ZenonT(60) DEF P!ServeListen, P!Listens, Named, Capable, Checked, ServesBehindMain
  <2> QED
    BY <2>1, <2>2
<1>4. CASE P!ServeRegister
  <2>1. ProcessTypeOK'
    BY <1>4 DEF P!ServeRegister, ProcessTypeOK, P!ProcessTypeOK
  <2>2. (Named /\ Capable /\ Checked /\ ServesBehindMain)'
    BY <1>4, ZenonT(60) DEF P!ServeRegister, Named, Capable, Checked, ServesBehindMain
  <2> QED
    BY <2>1, <2>2
<1> QED
  BY <1>0, <1>1, <1>2, <1>3, <1>4, ZenonT(60) DEF P!ServeStep

\* Everything but main and serve only ends the process, or touches what the
\* invariant does not speak of.
LEMMA OtherPInv ==
    ASSUME PInv, calm' = calm,
           P!Launch \/ P!ManagerStep \/ P!ServeFails \/ P!ManagerFails \/ P!Signal \/ P!Kill
    PROVE  PInv'
<1> USE DEF PInv
<1>0. CASE P!Exit
  BY <1>0, ExitPInv
<1>1. CASE P!Launch
  <2>1. ProcessTypeOK'
    BY <1>1 DEF P!Launch, ProcessTypeOK, P!ProcessTypeOK
  <2>2. (Named /\ Capable /\ Checked /\ ServesBehindMain)'
    BY <1>1, SMTT(30) DEF P!Launch, Named, Capable, Checked, ServesBehindMain
  <2> QED
    BY <2>1, <2>2, SMTT(30)
<1>2. CASE P!ManagerStep
  <2>1. ProcessTypeOK'
    BY <1>2, ZenonT(60) DEF P!ManagerStep, P!ManagerStart, P!ManagerStops, P!ManagerGoto,
                ProcessTypeOK, P!ProcessTypeOK
  <2>2. (Named /\ Capable /\ Checked /\ ServesBehindMain)'
    BY <1>2, ZenonT(60) DEF P!ManagerStep, P!ManagerStart, P!ManagerStops, P!ManagerGoto,
                Named, Capable, Checked, ServesBehindMain
  <2> QED
    BY <2>1, <2>2
<1>3. CASE P!Signal /\ ~P!Exit
  <2>1. ProcessTypeOK'
    BY <1>3, ZenonT(60) DEF P!Signal, ProcessTypeOK, P!ProcessTypeOK
  <2>2. (Named /\ Capable /\ Checked /\ ServesBehindMain)'
    BY <1>3, ZenonT(60) DEF P!Signal, Named, Capable, Checked, ServesBehindMain
  <2> QED
    BY <2>1, <2>2
<1>4. CASE P!ServeFails
  BY <1>4, EndPInv DEF P!ServeFails
<1> QED
  BY <1>0, <1>1, <1>2, <1>3, <1>4, ZenonT(60) DEF P!ManagerFails, P!Kill

LEMMA NextPInv == PInv /\ [DriverNext]_driverVars => PInv'
<1> SUFFICES ASSUME PInv, [DriverNext]_driverVars
             PROVE  PInv'
  OBVIOUS
<1>1. CASE ProcessDo(P!ProcessNext)
  BY <1>1, MainPInv, ServePInv, OtherPInv DEF ProcessDo, P!ProcessNext
<1>2. CASE UNCHANGED procVars /\ calm' \in BOOLEAN
  <2>1. ProcessTypeOK'
    BY <1>2 DEF PInv, procVars, ProcessTypeOK, P!ProcessTypeOK
  <2>2. (Named /\ Capable /\ Checked /\ ServesBehindMain)'
    BY <1>2, ZenonT(60) DEF PInv, procVars, Named, Capable, Checked, ServesBehindMain
  <2> QED
    BY <2>1, <2>2 DEF PInv
<1>3. calm \in BOOLEAN
  BY DEF PInv, ProcessTypeOK, P!ProcessTypeOK
<1> QED
  BY <1>1, <1>2, <1>3, ZenonT(60) DEF DriverNext, Calm, driverVars

\* A driver that serves was started with good flags, has registered all three
\* services and answers from a CSIDriver that is complete, for every command
\* line and every order of the goroutines, failures and restarts.
THEOREM DriverServesComplete == DriverSpec => [](ProcessTypeOK /\ ServesComplete)
<1>1. PInv => ProcessTypeOK /\ ServesComplete
  <2> SUFFICES ASSUME PInv, P!Serving
               PROVE  ServesComplete
    BY DEF PInv, ServesComplete, P!ServesComplete
  <2>1. main = "wait" /\ services = {"identity", "controller", "node"}
    BY DEF PInv, ServesBehindMain, P!Serving
  <2>2. P!GoodFlags
    BY <2>1, ZenonT(60) DEF PInv, Named, Checked, ServesBehindMain, P!Serving, P!GoodFlags
  <2>3. P!GetPluginInfo = "OK" /\ P!NodeGetInfo = flags.nodeID
    BY <2>1, ZenonT(60) DEF PInv, Named, P!GetPluginInfo, P!NodeGetInfo
  <2>4. driver.cap = {"CREATE_DELETE_VOLUME"}
    BY <2>1 DEF PInv, Capable
  <2> QED
    BY <2>1, <2>2, <2>3, <2>4 DEF ServesComplete, P!ServesComplete,
       P!ValidateControllerServiceRequest, P!ControllerGetCapabilities
<1> QED
  BY <1>1, InitPInv, NextPInv, PTL DEF DriverSpec

\* The goroutines of the process keep their state well typed, for every command
\* line and whenever the process ends.
THEOREM ProcessTypes == DriverSpec => []ProcessTypeOK
<1>1. PInv => ProcessTypeOK
  BY DEF PInv
<1> QED
  BY <1>1, InitPInv, NextPInv, PTL DEF DriverSpec

\* What NodeServer promises of volumes that no fault has hit, the driver does:
\* a restart is a fault only for the volumes it was working on.  Restarts do
\* not pile up mounts either.
THEOREM DriverPublishesWhole ==
    DriverSpec =>
        [](PublishedIsWhole /\ FailedIsAllOrNothing /\ SecretsOffDisk /\ LayersAreBounded)
BY DriverIsNodeServer, PublishedStaysWhole, FailedStaysAllOrNothing, SecretsStayOffDisk,
   LayersStayBounded, PTL

-----------------------------------------------------------------------------
(* The file of the socket.                                                 *)

LEMMA InitSocket == DriverInit => SocketFollows
BY DEF DriverInit, P!ProcessInit, SocketFollows, SocketIsServed, P!SocketIsServed

\* Of all steps only those of serve, and the end of the process, touch it.
LEMMA NextSocket == PInv /\ SocketFollows /\ [DriverNext]_driverVars => SocketFollows'
<1> SUFFICES ASSUME PInv, SocketFollows, [DriverNext]_driverVars
             PROVE  SocketFollows'
  OBVIOUS
<1> USE DEF SocketFollows, SocketIsServed, P!SocketIsServed
<1>1. CASE P!Exit
  <2>1. socket \in {"absent", "stale", "live"}
    BY DEF PInv, ProcessTypeOK, P!ProcessTypeOK
  <2> QED
    BY <1>1, <2>1 DEF P!Exit, P!EndWith
<1>2. CASE UNCHANGED <<flags, serve, socket>>
  BY <1>2
<1>3. CASE P!RunServers /\ ~P!Exit
  BY <1>3, ZenonT(60) DEF P!RunServers, PInv, ServesBehindMain
<1>4. CASE P!ServeParse /\ ~P!Exit
  BY <1>4 DEF P!ServeParse, P!ServeGoto, P!ParseEndpoint
<1>5. CASE P!ServeRemove /\ ~P!Exit
  BY <1>5 DEF P!ServeRemove, P!ServeGoto
<1>6. CASE P!ServeListen /\ ~P!Exit
  BY <1>6 DEF P!ServeListen, P!ServeGoto, P!Listens
<1>7. CASE P!ServeRegister
  BY <1>7 DEF P!ServeRegister, P!ServeGoto
<1>8. CASE P!MainStep /\ ~P!RunServers /\ ~P!Exit
  BY <1>2, <1>8, ZenonT(60) DEF P!MainStep, P!NewManager, P!handle, P!RunNewCSIDriver,
     P!RunCapabilities, P!RunMetrics, P!Goto
<1>9. CASE (P!Launch \/ P!ManagerStep \/ P!Signal) /\ ~P!Exit
  BY <1>2, <1>9, ZenonT(60) DEF P!Launch, P!ManagerStep, P!ManagerStart, P!ManagerStops,
     P!ManagerGoto, P!Signal
<1>10. CASE P!ServeFails
  BY <1>10 DEF P!ServeFails, P!EndWith
<1>11. CASE ProcessDo(P!ProcessNext)
  BY <1>1, <1>3, <1>4, <1>5, <1>6, <1>7, <1>8, <1>9, <1>10, <1>11, ZenonT(60)
     DEF ProcessDo, P!ProcessNext, P!ServeStep, P!ManagerFails, P!Kill
<1>12. CASE UNCHANGED procVars
  BY <1>2, <1>12, ZenonT(60) DEF procVars
<1> QED
  BY <1>11, <1>12, ZenonT(60) DEF DriverNext, Calm, driverVars

\* No process fails to listen because of the socket file that an earlier one left,
\* and a file that is live has its listener, whichever goroutine ends the process.
THEOREM SocketsAreServed == DriverSpec => []SocketIsServed
<1>1. SocketFollows => SocketIsServed
  BY DEF SocketFollows
<1> QED
  BY <1>1, InitPInv, NextPInv, InitSocket, NextSocket, PTL DEF DriverSpec

-----------------------------------------------------------------------------
(* Calls and their server.                                                 *)

\* serve stops serving only with the process.
LEMMA ServesToTheEnd ==
    ASSUME PInv, P!ProcessNext, P!Serving
    PROVE  P!Serving' \/ main' = "down"
<1> USE DEF P!Serving
<1>1. CASE P!Exit \/ P!ServeFails
  BY <1>1 DEF P!Exit, P!ServeFails, P!EndWith
<1>2. main = "wait"
  BY DEF PInv, ServesBehindMain
<1>3. CASE P!MainStep
  BY <1>2, <1>3, ZenonT(60) DEF P!MainStep, P!NewManager, P!handle, P!RunNewCSIDriver,
     P!RunCapabilities, P!RunMetrics, P!RunServers
<1>4. CASE P!ServeStep
  BY <1>4, ZenonT(60) DEF P!ServeStep, P!ServeParse, P!ServeRemove, P!ServeListen,
     P!ServeRegister
<1>5. CASE (P!Launch \/ P!ManagerStep \/ P!Signal) /\ ~P!Exit
  BY <1>5, ZenonT(60) DEF P!Launch, P!ManagerStep, P!ManagerStart, P!ManagerStops,
     P!ManagerGoto, P!Signal
<1> QED
  BY <1>1, <1>3, <1>4, <1>5, ZenonT(60) DEF P!ProcessNext, P!ManagerFails, P!Kill

\* A call that steps is at work, and its step sets no other handler to work.
LEMMA StepsOfOneCall ==
    ASSUME TypeOK, NEW g \in Handler, HandlerStep(g)
    PROVE  call[g].pc # "idle" /\ \A h \in Handler : h # g => call'[h] = call[h]
<1> USE DEF TypeOK, Goto, Answer, Fail, FailMounted, Succeed
<1>1. CASE EnsureMountPoint(g)
  BY <1>1, ZenonT(60) DEF EnsureMountPoint
<1>2. CASE UnmountStale(g)
  BY <1>2, ZenonT(60) DEF UnmountStale
<1>3. CASE LookupClass(g)
  BY <1>3, ZenonT(60) DEF LookupClass
<1>4. CASE MountTmpfs(g)
  BY <1>4, ZenonT(60) DEF MountTmpfs
<1>5. CASE ProviderWrite(g)
  BY <1>5, ZenonT(60) DEF ProviderWrite
<1>6. CASE ProviderReturn(g)
  BY <1>6, ZenonT(60) DEF ProviderReturn
<1>7. CASE CreateStatus(g)
  BY <1>7, ZenonT(60) DEF CreateStatus
<1>8. CASE UndoMount(g)
  BY <1>8, ZenonT(60) DEF UndoMount
<1>9. CASE CleanupMountPoint(g)
  BY <1>9, ZenonT(60) DEF CleanupMountPoint
<1>10. CASE RemoveTarget(g)
  BY <1>10, ZenonT(60) DEF RemoveTarget
<1> QED
  BY <1>1, <1>2, <1>3, <1>4, <1>5, <1>6, <1>7, <1>8, <1>9, <1>10, ZenonT(60) DEF HandlerStep

LEMMA NextCallsHaveServer ==
    TypeOK /\ PInv /\ CallsHaveServer /\ [DriverNext]_driverVars => CallsHaveServer'
<1> SUFFICES ASSUME TypeOK, PInv, CallsHaveServer, [DriverNext]_driverVars,
                    NEW h \in Handler, call'[h].pc # "idle"
             PROVE  P!Serving'
  BY DEF CallsHaveServer
<1>1. CASE ProcessDo(P!ProcessNext)
  <2>1. CASE main' = "down"
    <3>1. \A g \in Handler : call'[g].pc = "idle"
      BY <1>1, <2>1, IdleType, ZenonT(60) DEF ProcessDo, DropCalls, Crash, vars
    <3> QED
      BY <3>1
  <2>2. CASE main' # "down"
    <3>1. call' = call
      BY <1>1, <2>2, ZenonT(60) DEF ProcessDo, vars
    <3>2. P!ProcessNext
      BY <1>1 DEF ProcessDo
    <3> QED
      BY <2>2, <3>1, <3>2, ServesToTheEnd DEF CallsHaveServer
  <2> QED
    BY <2>1, <2>2
<1>2. CASE UNCHANGED procVars
  <2>0. P!Serving' = P!Serving
    BY <1>2 DEF procVars, P!Serving
  <2>1. ASSUME NEW g \in Handler, HandlerDo(g)
        PROVE  P!Serving
    BY <2>1, StepsOfOneCall, ZenonT(60) DEF HandlerDo, CallsHaveServer
  <2>2. ASSUME NEW t \in Target, NodePublish(t) \/ NodeUnpublish(t)
        PROVE  P!Serving
    BY <2>2 DEF NodePublish, NodeUnpublish
  <2>3. ASSUME NEW g \in Handler, Timeout(g)
        PROVE  P!Serving
    <3>1. call'[h].pc = call[h].pc
      BY <2>3, ZenonT(60) DEF Timeout, TypeOK, Call
    <3> QED
      BY <3>1 DEF CallsHaveServer
  <2>4. CASE UNCHANGED call
    BY <2>0, <2>4 DEF CallsHaveServer
  <2>5. ASSUME NEW t \in Target, MountGoesStale(t)
        PROVE  UNCHANGED call
    BY <2>5 DEF MountGoesStale
  <2>6. CASE Calm \/ UNCHANGED driverVars
    BY <2>4, <2>6 DEF Calm, driverVars, vars
  <2>7. CASE ProcessDo(P!ProcessNext)
    BY <1>1, <2>0, <2>7
  <2> QED
    BY <2>0, <2>1, <2>2, <2>3, <2>4, <2>5, <2>6, <2>7, ZenonT(60) DEF DriverNext
<1> QED
  BY <1>1, <1>2, ZenonT(60) DEF DriverNext, Calm, driverVars

\* A call is at work only while serve serves, for every command line and
\* whatever ends the process.
THEOREM CallsKeepServer == DriverSpec => []CallsHaveServer
<1>1. DriverInit => CallsHaveServer
  BY IdleType DEF DriverInit, Init, CallsHaveServer
<1> QED
  BY <1>1, NextCallsHaveServer, InitPInv, NextPInv, DriverIsNodeServer, TypeCorrect, PTL
     DEF DriverSpec
=============================================================================
