------------------------------- MODULE Driver -------------------------------
(***************************************************************************)
(* The node service inside its process: NodeServer composed with           *)
(* DriverProcess.  Calls reach the node service while serve serves, and an *)
(* exit of the process, for whatever reason, is the Crash of NodeServer.   *)
(* A call that finds no server leaves nothing on the node: it is one that  *)
(* kubelet has not made yet.                                               *)
(***************************************************************************)
EXTENDS NodeServerLive

CONSTANT CommandLine

VARIABLES
    flags, main, mgr, serve, socket, driver, services, signalled,
    calm    \* the end of faults, of trouble and of failures of the process

P == INSTANCE DriverProcess

procVars == <<flags, main, mgr, serve, socket, driver, services, signalled>>
driverVars == <<vars, calm, procVars>>

ASSUME CrashHappens == "crash" \in FaultKind
ASSUME CommandLineType == CommandLine \subseteq P!FlagsType

DriverInit == Init /\ calm = FALSE /\ P!ProcessInit

\* The calls that run are lost, without their deferred functions.
DropCalls ==
    IF \E h \in Handler : call[h].pc # "idle" THEN Crash ELSE UNCHANGED vars

\* A step of the process, one of its exits among them.
ProcessDo(A) ==
    /\ A
    /\ IF main' = "down" THEN DropCalls ELSE UNCHANGED vars
    /\ UNCHANGED calm

HandlerDo(h) == HandlerStep(h) /\ (calm => ~Trouble(h))

NodePublish(t) == P!Serving /\ \E h \in Handler : NodePublishVolume(h, t)
NodeUnpublish(t) == P!Serving /\ \E h \in Handler : NodeUnpublishVolume(h, t)

Calm == ~calm /\ calm' = TRUE /\ UNCHANGED <<vars, procVars>>

DriverNext ==
    \/ ProcessDo(P!ProcessNext)
    \/ /\ \/ \E h \in Handler : HandlerDo(h)
          \/ \E t \in Target : NodePublish(t) \/ NodeUnpublish(t)
          \/ ~calm /\ \E h \in Handler : Timeout(h)
          \/ ~calm /\ \E t \in Target : MountGoesStale(t)
       /\ UNCHANGED <<procVars, calm>>
    \/ Calm

\* Kubelet starts the container again, and kills it when the grace period of a
\* SIGTERM is over; every goroutine keeps running; kubelet retries its calls.
DriverFairness ==
    /\ WF_driverVars(Calm)
    /\ WF_driverVars(ProcessDo(P!Launch))
    /\ WF_driverVars(ProcessDo(P!MainStep))
    /\ WF_driverVars(ProcessDo(P!ServeStep))
    /\ WF_driverVars(ProcessDo(P!ManagerStep))
    /\ WF_driverVars(signalled /\ ProcessDo(P!Kill))
    /\ \A h \in Handler : WF_driverVars(HandlerDo(h) /\ UNCHANGED <<procVars, calm>>)
    /\ \A t \in Target :
         /\ WF_driverVars(kubelet[t] = "failed" /\ NodePublish(t) /\ UNCHANGED <<procVars, calm>>)
         /\ WF_driverVars(kubelet[t] = "leaving" /\ NodeUnpublish(t) /\ UNCHANGED <<procVars, calm>>)

DriverSpec == DriverInit /\ [][DriverNext]_driverVars /\ DriverFairness

-----------------------------------------------------------------------------

\* A call is at work only in a process that serves.  Whichever goroutine ends
\* the process between two steps of a call, by log.Fatal, or whatever signal
\* does, no step of that call comes after it, and none is at work while a new
\* process starts: a retry never meets a call of an earlier process.
CallsHaveServer == \A h \in Handler : call[h].pc # "idle" => P!Serving

\* What DriverProcess states, of the process with its calls.
ProcessTypeOK == P!ProcessTypeOK
ServesComplete == P!ServesComplete
SocketIsServed == P!SocketIsServed
DriverComesBack == P!DriverComesBack
=============================================================================
