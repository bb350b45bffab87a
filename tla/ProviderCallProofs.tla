------------------------- MODULE ProviderCallProofs -------------------------
(***************************************************************************)
(* What a call to a provider leaves behind, for any providers, binaries,   *)
(* objects and command lines.                                              *)
(***************************************************************************)
EXTENDS ProviderCall, ProviderVersionProofs

Call == [pc : Steps, provider : Provider, pod : Pod, reason : Reason,
         objects : SUBSET Object, answered : SUBSET Binary, ran : SUBSET Binary,
         setup : SUBSET Setup]

CallTypeOK ==
    /\ \A i \in DOMAIN flags.min : flags.min[i] \in Entry
    /\ call \in Call
    /\ installed \in [Provider -> Binary]
    /\ recorded \in [StatusName -> SUBSET StatusObject]

\* A binary of the provider has answered with a version that will do for the
\* minimum that newNodeServer found.
Answered ==
    call.provider \in DOMAIN server.min =>
        \E b \in call.answered :
            IsProviderCompatible(b.version, server.min[call.provider]) = "compatible"

\* Where a call stands shows what has been checked.
OnItsWay ==
    /\ call.pc = "idle" => call.ran = {} /\ call.reason = ""
    /\ call.pc \in {"grpc", "stat", "version"} => call.ran = {} /\ call.reason = ""
    /\ call.pc \in {"grpc", "stat", "version", "exec"} => call.setup = {} /\ call.objects = {}
    /\ call.pc \in {"exec", "status", "done"} => call.reason = ""
    /\ call.pc = "exec" \/ call.ran # {} \/ call.reason = "ProviderError" => Answered
    /\ call.pc # "idle" => server.state = "serving"
    /\ call.pc \in {"stat", "version", "exec"} => call.provider \notin server.grpc
    /\ call.pc = "status" /\ call.provider \in server.grpc
            => \E s \in Setup : Reports(s) /\ call.setup = {s}
    /\ call.pc = "status" => call.objects = UNION {s.objects : s \in call.setup}

PCInv == CallTypeOK /\ OnItsWay

LEMMA NoCallType ==
    /\ NoCall \in Call /\ NoCall.pc = "idle" /\ NoCall.ran = {} /\ NoCall.reason = ""
    /\ NoCall.setup = {} /\ NoCall.objects = {}
<1>1. (CHOOSE p \in Provider : TRUE) \in Provider /\ (CHOOSE q \in Pod : TRUE) \in Pod
  BY ProviderNonempty, PodNonempty
<1> QED
  BY <1>1 DEF NoCall, Call, Steps, Reason

LEMMA InitPCInv == Init => PCInv
<1> SUFFICES ASSUME Init PROVE PCInv
  OBVIOUS
<1>1. \A i \in DOMAIN flags.min : flags.min[i] \in Entry
  BY ZenonT(60) DEF Init
<1>2. CallTypeOK
  BY <1>1, NoCallType, ZenonT(60) DEF Init, CallTypeOK
<1>3. OnItsWay
  BY NoCallType, ZenonT(60) DEF Init, OnItsWay
<1> QED
  BY <1>2, <1>3, ZenonT(60) DEF PCInv

\* A call ends with a reason that is not the provider's failure to run.
LEMMA FailPCInv ==
    ASSUME PCInv, NEW reason \in Reason \ {"ProviderError"}, call.pc # "idle", Fail(reason),
           UNCHANGED <<flags, server, installed, recorded>>
    PROVE  PCInv'
<1>1. /\ call' \in Call /\ call'.pc = "failed" /\ call'.reason = reason
      /\ call'.provider = call.provider /\ call'.ran = call.ran /\ call'.answered = call.answered
  BY ZenonT(60) DEF PCInv, CallTypeOK, Call, Steps, Fail
<1>2. Answered => Answered'
  BY <1>1 DEF Answered
<1> QED
  BY <1>1, <1>2, ZenonT(60) DEF PCInv, CallTypeOK, OnItsWay

LEMMA NextPCInv == PCInv /\ [Next]_vars => PCInv'
<1> SUFFICES ASSUME PCInv, [Next]_vars PROVE PCInv'
  OBVIOUS
<1>t. call \in Call /\ OnItsWay
  BY DEF PCInv, CallTypeOK
<1>1. CASE newNodeServer
  <2>1. call.pc = "idle" /\ UNCHANGED <<flags, call, installed, recorded>>
    BY <1>1, <1>t, ZenonT(60) DEF newNodeServer, OnItsWay
  <2> QED
    BY <2>1, ZenonT(60) DEF PCInv, CallTypeOK, OnItsWay
<1>2. ASSUME NEW p \in Provider, NEW q \in Pod, mountSecretsStoreObjectContent(p, q)
      PROVE  PCInv'
  <2>1. /\ UNCHANGED <<flags, server, installed, recorded>> /\ server.state = "serving"
        /\ call' = [NoCall EXCEPT !.provider = p, !.pod = q,
                              !.pc = IF ~flags.volumePath THEN "failed"
                                     ELSE IF p \in server.grpc THEN "grpc" ELSE "stat"]
    BY <1>2, SMTT(30) DEF mountSecretsStoreObjectContent
  <2>2. /\ call'.provider = p /\ call'.pc \in {"failed", "grpc", "stat"}
        /\ call'.pc = "stat" => p \notin server.grpc
        /\ call'.ran = {} /\ call'.reason = "" /\ call' \in Call
        /\ call'.setup = {} /\ call'.objects = {}
    BY <2>1, NoCallType, ZenonT(60) DEF NoCall, Call, Steps
  <2> QED
    BY <2>1, <2>2, ZenonT(60) DEF PCInv, CallTypeOK, OnItsWay
<1>3. ASSUME NEW p \in Provider, Replace(p) PROVE PCInv'
  <2>1. UNCHANGED <<flags, server, recorded, call>> /\ installed' \in [Provider -> Binary]
    BY <1>3 DEF Replace, PCInv, CallTypeOK
  <2> QED
    BY <2>1, ZenonT(60) DEF PCInv, CallTypeOK, OnItsWay, Answered
<1>r. ASSUME NEW m \in StatusName, RemoveStatus(m) PROVE PCInv'
  <2>1. UNCHANGED <<flags, server, installed, call>>
    BY <1>r DEF RemoveStatus
  <2>2. recorded' \in [StatusName -> SUBSET StatusObject]
    BY <1>r DEF RemoveStatus, PCInv, CallTypeOK
  <2> QED
    BY <2>1, <2>2, ZenonT(60) DEF PCInv, CallTypeOK, OnItsWay, Answered
<1>4. ASSUME NEW s \in Setup, MountContent(s) PROVE PCInv'
  <2> DEFINE resp == Mount(s)
  <2>0. /\ resp.code \in {"", "code of the provider"} /\ resp.objects \in SUBSET Object
        /\ resp.code = "" /\ ~resp.err /\ resp.objects # {} => Reports(s) /\ resp.objects = s.objects
    BY ZenonT(60) DEF Mount, Setup, Reports
  <2>1. CASE \E reason \in Reason \ {"ProviderError"} : Fail(reason)
    BY <1>4, <2>1, FailPCInv, ZenonT(60) DEF MountContent
  <2>2. CASE /\ resp.code = "" /\ ~resp.err /\ resp.objects # {}
             /\ call' = [call EXCEPT !.pc = "status", !.objects = resp.objects, !.setup = {s}]
    <3>1. /\ call' \in Call /\ call'.pc = "status" /\ call'.objects = s.objects
          /\ call'.setup = {s} /\ call'.ran = call.ran /\ call'.reason = call.reason
      BY <1>t, <2>0, <2>2, ZenonT(60) DEF Call, Steps
    <3>2. call.ran = {} /\ call.reason = "" /\ server.state = "serving"
      BY <1>4, <1>t, ZenonT(60) DEF MountContent, OnItsWay
    <3>3. UNION {t.objects : t \in {s}} = s.objects
      OBVIOUS
    <3> QED
      BY <1>4, <2>0, <2>2, <3>1, <3>2, <3>3, ZenonT(60) DEF MountContent, PCInv, CallTypeOK, OnItsWay
  <2> QED
    BY <1>4, <2>0, <2>1, <2>2, ZenonT(60) DEF MountContent, Reason
<1>5. CASE StatBinary
  <2>1. CASE Fail("ProviderBinaryNotFound")
    BY <1>5, <2>1, FailPCInv, ZenonT(60) DEF StatBinary, Reason
  <2>2. CASE Step(IF call.provider \in DOMAIN server.min THEN "version" ELSE "exec")
    <3>1. /\ call' \in Call /\ call'.provider = call.provider /\ call'.ran = call.ran
          /\ call'.reason = call.reason /\ call'.pc \in {"version", "exec"}
          /\ call'.setup = call.setup /\ call'.objects = call.objects
          /\ call'.pc = "exec" => call.provider \notin DOMAIN server.min
      BY <1>t, <2>2, ZenonT(60) DEF Step, Call, Steps
    <3>2. /\ call.ran = {} /\ call.reason = "" /\ server.state = "serving"
          /\ call.provider \notin server.grpc /\ call.setup = {} /\ call.objects = {}
      BY <1>5, <1>t, ZenonT(60) DEF StatBinary, OnItsWay
    <3> QED
      BY <1>5, <3>1, <3>2, ZenonT(60) DEF StatBinary, PCInv, CallTypeOK, OnItsWay, Answered
  <2> QED
    BY <1>5, <2>1, <2>2, ZenonT(60) DEF StatBinary
<1>6. CASE CheckVersion
  <2> DEFINE b == installed[call.provider]
  <2>1. CASE Fail("") \/ Fail("IncompatibleProviderVersion")
    BY <1>6, <2>1, FailPCInv, ZenonT(60) DEF CheckVersion, Reason
  <2>2. CASE /\ call' = [call EXCEPT !.pc = "exec", !.answered = {b}]
             /\ IsProviderCompatible(b.version, server.min[call.provider]) = "compatible"
    <3>0. b \in Binary
      BY <1>t DEF PCInv, CallTypeOK, Call
    <3>1. /\ call' \in Call /\ call'.provider = call.provider /\ call'.ran = call.ran
          /\ call'.reason = call.reason /\ call'.pc = "exec" /\ call'.answered = {b}
          /\ call'.setup = call.setup /\ call'.objects = call.objects
      BY <1>t, <2>2, <3>0, ZenonT(60) DEF Call, Steps
    <3>2. UNCHANGED <<flags, server, installed, recorded>>
      BY <1>6, ZenonT(60) DEF CheckVersion
    <3>3. Answered'
      BY <2>2, <3>1, <3>2 DEF Answered
    <3>4. /\ call.ran = {} /\ call.reason = "" /\ server.state = "serving"
          /\ call.provider \notin server.grpc /\ call.setup = {} /\ call.objects = {}
      BY <1>6, <1>t, ZenonT(60) DEF CheckVersion, OnItsWay
    <3> QED
      BY <3>1, <3>2, <3>3, <3>4, ZenonT(60) DEF PCInv, CallTypeOK, OnItsWay
  <2> QED
    BY <1>6, <2>1, <2>2, ZenonT(60) DEF CheckVersion
<1>7. CASE RunProvider
  <2> DEFINE b == installed[call.provider]
  <2>0. /\ b \in Binary /\ Answered /\ server.state = "serving"
        /\ call.provider \notin server.grpc /\ UNCHANGED <<flags, server, installed, recorded>>
        /\ call.reason = "" /\ call.setup = {} /\ call.objects = {}
    BY <1>7, <1>t DEF RunProvider, PCInv, CallTypeOK, Call, OnItsWay
  <2>1. /\ call' \in Call /\ call'.provider = call.provider /\ call'.answered = call.answered
        /\ call'.pc \in {"status", "failed"} /\ (call'.pc = "status" => call'.reason = "")
        /\ call'.setup = call.setup /\ call'.objects = call.objects
    <3>1. CASE call' = [call EXCEPT !.pc = "status", !.ran = {b}]
      BY <1>t, <2>0, <3>1, ZenonT(60) DEF Call, Steps
    <3>2. CASE Fail("ProviderError")
      BY <1>t, <3>2, ZenonT(60) DEF Fail, Call, Steps, Reason
    <3> QED
      BY <1>7, <3>1, <3>2 DEF RunProvider
  <2>2. Answered'
    BY <2>0, <2>1 DEF Answered
  <2>3. call'.objects = UNION {t.objects : t \in call'.setup}
    BY <2>0, <2>1
  <2> QED
    BY <2>0, <2>1, <2>2, <2>3, ZenonT(60) DEF PCInv, CallTypeOK, OnItsWay
<1>8. CASE CreateStatus
  <2>1. CASE Fail("") /\ UNCHANGED recorded
    BY <1>8, <2>1, FailPCInv, ZenonT(60) DEF CreateStatus, Reason
  <2>2. CASE Step("done")
    <3>1. /\ call' \in Call /\ call'.provider = call.provider /\ call'.answered = call.answered
          /\ call'.ran = call.ran /\ call'.reason = call.reason /\ call'.pc = "done"
      BY <1>t, <2>2 DEF Step, Call, Steps
    <3>2. UNCHANGED <<flags, server, installed>> /\ call.objects \in SUBSET Object
      BY <1>8, <1>t, ZenonT(60) DEF CreateStatus, Call
    <3>3. recorded' \in [StatusName -> SUBSET StatusObject]
      <4>1. /\ recorded \in [StatusName -> SUBSET StatusObject]
            /\ call.pod \in Pod
        BY <1>t DEF PCInv, CallTypeOK, Call
      <4>2. {[pod |-> call.pod, objects |-> call.objects]} \in SUBSET StatusObject
        BY <3>2, <4>1 DEF StatusObject
      <4>3. \/ recorded' = recorded
            \/ recorded' = [recorded EXCEPT ![NameOf[call.pod]]
                                = {[pod |-> call.pod, objects |-> call.objects]}]
        BY <1>8, ZenonT(60) DEF CreateStatus
      <4> QED
        BY <4>1, <4>2, <4>3, ZenonT(60)
    <3>4. Answered => Answered'
      BY <3>1, <3>2 DEF Answered
    <3>5. server.state = "serving" /\ call.reason = ""
      BY <1>8, <1>t, ZenonT(60) DEF CreateStatus, OnItsWay
    <3> QED
      BY <3>1, <3>2, <3>3, <3>4, <3>5, ZenonT(60) DEF PCInv, CallTypeOK, OnItsWay
  <2> QED
    BY <1>8, <2>1, <2>2, ZenonT(60) DEF CreateStatus
<1>9. CASE Return
  BY <1>9, NoCallType, ZenonT(60) DEF Return, PCInv, CallTypeOK, OnItsWay
<1>10. CASE UNCHANGED vars
  BY <1>10, ZenonT(60) DEF vars, PCInv, CallTypeOK, OnItsWay, Answered
<1> QED
  BY <1>1, <1>2, <1>3, <1>r, <1>4, <1>5, <1>6, <1>7, <1>8, <1>9, <1>10, ZenonT(60) DEF Next

\* The command line is what it was, and the server has what it says.
ServerInv ==
    /\ flags.min \in Seq(Entry) /\ flags.grpc \in GrpcFlag
    /\ server.state \in {"down", "serving", "exited"}
    /\ server = [state |-> server.state, min |-> server.min, grpc |-> server.grpc]
    /\ DOMAIN server.min \subseteq Provider /\ server.grpc \subseteq Provider
    /\ FlagsAreObeyedOrRefused

LEMMA InitServerInv == Init => ServerInv
<1> SUFFICES ASSUME Init PROVE ServerInv
  OBVIOUS
<1>1. flags.min \in Seq(Entry) /\ flags.grpc \in GrpcFlag
  <2>1. PICK n \in 0..MaxEntries : flags.min \in [1..n -> Entry]
    BY DEF Init
  <2>2. n \in Nat
    BY MaxEntriesType
  <2>3. flags.grpc \in GrpcFlag
    BY DEF Init
  <2> QED
    BY <2>1, <2>2, <2>3
<1>2. server = [state |-> "down", min |-> << >>, grpc |-> {}]
  BY DEF Init
<1>3. /\ server.state = "down" /\ server.grpc = {} /\ DOMAIN server.min = {}
      /\ server = [state |-> server.state, min |-> server.min, grpc |-> server.grpc]
  BY <1>2
<1> QED
  BY <1>1, <1>3 DEF ServerInv, FlagsAreObeyedOrRefused

\* newNodeServer obeys the command line or exits.
LEMMA newNodeServerObeys == ServerInv /\ newNodeServer => ServerInv'
<1> SUFFICES ASSUME ServerInv, newNodeServer PROVE ServerInv'
  OBVIOUS
<1> DEFINE e == flags.min
           parsed == GetMinimumProviderVersions(e)
           good == /\ \A i \in DOMAIN e : e[i].wellFormed /\ e[i].version.parses /\ e[i].version.vs = 0
                   /\ \A i, j \in DOMAIN e : e[i].provider = e[j].provider => i = j
<1>1. /\ UNCHANGED flags
      /\ server' = IF parsed.err THEN [server EXCEPT !.state = "exited"]
                   ELSE [state |-> "serving", min |-> parsed.min, grpc |-> flags.grpc]
  BY DEF newNodeServer
<1>2. e \in Seq(Entry) /\ flags.grpc \in GrpcFlag
  BY DEF ServerInv
<1>3. Parsed(e, Len(e), parsed)
  BY <1>2, FlagIsKeptOrRefused, Zenon
<1>4. DOMAIN e = 1..Len(e) /\ \A i \in DOMAIN e : e[i] \in Entry
  BY <1>2
<1>5. Obeyable(e, Len(e)) <=> good
  BY <1>4, Zenon DEF Obeyable, isValidSemver
<1>6. \A i \in DOMAIN e : e[i].provider \in Provider
  BY <1>4, EntryType
<1>7. CASE parsed.err
  <2>1. server = [state |-> server.state, min |-> server.min, grpc |-> server.grpc]
    BY DEF ServerInv
  <2>2. server' = [state |-> "exited", min |-> server.min, grpc |-> server.grpc]
    BY <1>1, <1>7, <2>1
  <2>3. /\ server'.state = "exited" /\ server'.min = server.min /\ server'.grpc = server.grpc
        /\ server' = [state |-> server'.state, min |-> server'.min, grpc |-> server'.grpc]
    BY <2>2
  <2>4. ~good
    BY <1>3, <1>5, <1>7, Zenon DEF Parsed
  <2>5. FlagsAreObeyedOrRefused'
    BY <1>1, <2>3, <2>4, Zenon DEF FlagsAreObeyedOrRefused
  <2>6. DOMAIN server.min \subseteq Provider /\ server.grpc \subseteq Provider
    BY DEF ServerInv
  <2> QED
    BY <1>1, <1>2, <2>3, <2>5, <2>6 DEF ServerInv
<1>8. CASE ~parsed.err
  <2>1. server' = [state |-> "serving", min |-> parsed.min, grpc |-> flags.grpc]
    BY <1>1, <1>8, Zenon
  <2>2. /\ server'.state = "serving" /\ server'.min = parsed.min /\ server'.grpc = flags.grpc
        /\ server' = [state |-> server'.state, min |-> server'.min, grpc |-> server'.grpc]
    BY <2>1
  <2>3. /\ good /\ DOMAIN parsed.min = {e[i].provider : i \in DOMAIN e}
        /\ \A i \in DOMAIN e : parsed.min[e[i].provider] = e[i].version
    BY <1>3, <1>4, <1>5, <1>8, Zenon DEF Parsed
  <2>4. FlagsAreObeyedOrRefused'
    <3>1. /\ flags'.min = e /\ server'.state # "exited"
          /\ DOMAIN server'.min = {e[i].provider : i \in DOMAIN e}
          /\ \A i \in DOMAIN e : server'.min[e[i].provider] = e[i].version
      BY <1>1, <2>2, <2>3
    <3> QED
      BY <2>3, <3>1 DEF FlagsAreObeyedOrRefused
  <2>5. DOMAIN parsed.min \subseteq Provider /\ flags.grpc \subseteq Provider
    BY <1>2, <1>6, <2>3, GrpcFlagType
  <2> QED
    BY <1>1, <1>2, <2>2, <2>4, <2>5 DEF ServerInv
<1> QED
  BY <1>7, <1>8

LEMMA NextServerInv == ServerInv /\ [Next]_vars => ServerInv'
<1> SUFFICES ASSUME ServerInv, [Next]_vars, ~newNodeServer PROVE ServerInv'
  BY newNodeServerObeys, Zenon
<1>1. UNCHANGED flags /\ UNCHANGED server
  BY Zenon DEF Next, vars, mountSecretsStoreObjectContent, Replace, RemoveStatus, MountContent, StatBinary,
               CheckVersion, RunProvider, CreateStatus, Return
<1>2. FlagsAreObeyedOrRefused'
  BY <1>1 DEF ServerInv, FlagsAreObeyedOrRefused
<1> QED
  BY <1>1, <1>2 DEF ServerInv

\* The node server, the command line, the installed binaries, the statuses and the
\* call keep their types; a call needs a server, and one that succeeds has no
\* reason to report.
THEOREM ProviderCallTypes == Spec => []TypeOK
<1>1. PCInv /\ ServerInv => TypeOK
  <2> SUFFICES ASSUME PCInv, ServerInv PROVE TypeOK
    OBVIOUS
  <2>1. /\ flags.grpc \in GrpcFlag /\ server.state \in {"down", "serving", "exited"}
        /\ DOMAIN server.min \subseteq Provider /\ server.grpc \subseteq Provider
    BY DEF ServerInv
  <2>2. /\ CallTypeOK
        /\ call.pc # "idle" => server.state = "serving"
        /\ call.pc = "done" => call.reason = ""
    BY DEF PCInv, OnItsWay
  <2> QED
    BY <2>1, <2>2, Zenon DEF TypeOK, CallTypeOK, Call
<1> QED
  BY <1>1, InitPCInv, NextPCInv, InitServerInv, NextServerInv, PTL DEF Spec

\* newNodeServer serves exactly the command lines that can be obeyed, and with
\* the versions they name, for command lines of any length.
THEOREM FlagsObeyedOrRefused == Spec => []FlagsAreObeyedOrRefused
<1>1. ServerInv => FlagsAreObeyedOrRefused
  BY DEF ServerInv
<1> QED
  BY <1>1, InitServerInv, NextServerInv, PTL DEF Spec

\* Every publish that succeeds with a gRPC provider had a response of its own with
\* objects and without error and error code, and leaves a status; a status is only
\* made by a success and records what that call was told, whatever providers answer
\* and for any pods, namesakes included.
THEOREM StatusesRecordReports == Spec => StatusRecordsReport
<1> DEFINE succeeds == call.pc = "status" /\ call'.pc = "done"
           reported == UNION {s.objects : s \in call.setup}
           m0 == NameOf[call.pod]
           A == /\ succeeds => recorded'[m0] # {}
                /\ succeeds /\ call.provider \in server.grpc => \E s \in call.setup : Reports(s)
                /\ \A m \in StatusName : recorded'[m] \notin {recorded[m], {}} =>
                      /\ succeeds /\ m = m0 /\ recorded[m] = {}
                      /\ recorded'[m] = {[pod |-> call.pod, objects |-> reported]}
<1>1. ASSUME PCInv, CreateStatus PROVE A
  <2>t. /\ call \in Call /\ recorded \in [StatusName -> SUBSET StatusObject]
        /\ call.pc = "status" /\ m0 \in StatusName
    BY <1>1, NameOfType, ZenonT(60) DEF PCInv, CallTypeOK, Call, CreateStatus
  <2>1. CASE Fail("") /\ UNCHANGED recorded
    <3>1. call'.pc = "failed"
      BY <2>t, <2>1 DEF Fail, Call
    <3> QED
      BY <2>1, <3>1, ZenonT(60)
  <2>2. CASE Step("done") /\ recorded' = IF recorded[m0] = {}
                         THEN [recorded EXCEPT ![m0] = {[pod |-> call.pod, objects |-> call.objects]}]
                         ELSE recorded
    <3>1. recorded'[m0] # {}
      BY <2>t, <2>2, ZenonT(60)
    <3>2. \A m \in StatusName : recorded'[m] # recorded[m] =>
              m = m0 /\ recorded[m] = {}
                /\ recorded'[m] = {[pod |-> call.pod, objects |-> call.objects]}
      BY <2>t, <2>2
    <3>3. /\ call.objects = reported
          /\ call.provider \in server.grpc => \E s \in Setup : Reports(s) /\ call.setup = {s}
      BY <1>1, <2>t, ZenonT(60) DEF PCInv, OnItsWay
    <3>4. succeeds
      BY <2>t, <2>2 DEF Step, Call
    <3>5. succeeds /\ call.provider \in server.grpc => \E s \in call.setup : Reports(s)
      BY <3>3, ZenonT(60)
    <3>6. \A m \in StatusName : recorded'[m] \notin {recorded[m], {}} =>
              /\ succeeds /\ m = m0 /\ recorded[m] = {}
              /\ recorded'[m] = {[pod |-> call.pod, objects |-> reported]}
      BY <3>2, <3>3, <3>4, ZenonT(60)
    <3> QED
      BY <3>1, <3>5, <3>6, ZenonT(60)
  <2> QED
    BY <1>1, <2>1, <2>2, ZenonT(60) DEF CreateStatus
<1>2. ASSUME UNCHANGED recorded, call.pc # "status" PROVE A
  BY <1>2, ZenonT(60)
<1>3. PCInv /\ [Next]_vars => [A]_vars
  <2> SUFFICES ASSUME PCInv, Next PROVE A
    BY ZenonT(60)
  <2>0. ASSUME call' = call, \A m \in StatusName : recorded'[m] \in {recorded[m], {}} PROVE A
    <3>1. ~succeeds
      BY <2>0, ZenonT(60)
    <3> QED
      BY <2>0, <3>1, ZenonT(60)
  <2>1. ASSUME NEW p \in Provider, NEW q \in Pod, mountSecretsStoreObjectContent(p, q) PROVE A
    BY <1>2, <2>1, ZenonT(60) DEF mountSecretsStoreObjectContent
  <2>r. ASSUME NEW p \in Provider, Replace(p) PROVE A
    <3>1. UNCHANGED <<call, recorded>>
      BY <2>r, ZenonT(60) DEF Replace
    <3> QED
      BY <2>0, <3>1, ZenonT(60)
  <2>s. ASSUME NEW m \in StatusName, RemoveStatus(m) PROVE A
    <3>1. call' = call /\ recorded \in [StatusName -> SUBSET StatusObject]
      BY <2>s, ZenonT(60) DEF RemoveStatus, PCInv, CallTypeOK
    <3>2. \A l \in StatusName : recorded'[l] \in {recorded[l], {}}
      BY <2>s, <3>1 DEF RemoveStatus
    <3> QED
      BY <2>0, <3>1, <3>2, ZenonT(60)
  <2>2. ASSUME NEW s \in Setup, MountContent(s) PROVE A
    BY <1>2, <2>2, ZenonT(60) DEF MountContent
  <2>3. CASE newNodeServer
    <3>1. UNCHANGED <<call, recorded>>
      BY <2>3, ZenonT(60) DEF newNodeServer
    <3> QED
      BY <2>0, <3>1, ZenonT(60)
  <2>4. CASE StatBinary \/ CheckVersion \/ RunProvider \/ Return
    BY <1>2, <2>4, ZenonT(60) DEF StatBinary, CheckVersion, RunProvider, Return
  <2> QED
    BY <1>1, <2>1, <2>r, <2>s, <2>2, <2>3, <2>4, ZenonT(60) DEF Next
<1> QED
  BY <1>3, InitPCInv, NextPCInv, PTL DEF Spec, StatusRecordsReport

\* No binary is run for a mount before one of that provider has answered with a
\* version that the command line allows, while binaries come and go.
THEOREM OnlyCheckedRun == Spec => []OnlyCheckedProvidersRun
<1>1. ASSUME PCInv, ServerInv PROVE OnlyCheckedProvidersRun
  <2> SUFFICES ASSUME call.ran # {} \/ call.reason = "ProviderError",
                      NEW i \in DOMAIN flags.min, flags.min[i].provider = call.provider
               PROVE  LET min == flags.min[i].version IN
                      \E b \in call.answered : /\ b.version.parses /\ b.version.vs < 2
                                               /\ ~Before(b.version.semver, min.semver)
    BY DEF OnlyCheckedProvidersRun, Asked
  <2>1. server.state = "serving" /\ Answered
    BY <1>1, ZenonT(60) DEF PCInv, OnItsWay
  <2>2. /\ call.provider \in DOMAIN server.min
        /\ server.min[call.provider] = flags.min[i].version
        /\ isValidSemver(flags.min[i].version)
    BY <1>1, <2>1, ZenonT(60) DEF ServerInv, FlagsAreObeyedOrRefused, isValidSemver
  <2>3. PICK b \in call.answered :
          IsProviderCompatible(b.version, flags.min[i].version) = "compatible"
    BY <2>1, <2>2 DEF Answered
  <2>4. b.version \in Text /\ flags.min[i].version \in Text
    BY <1>1, BinaryType, EntryType DEF PCInv, CallTypeOK, Call
  <2> QED
    BY <2>2, <2>3, <2>4, VerdictMeans, ZenonT(60)
<1> QED
  BY <1>1, InitPCInv, NextPCInv, InitServerInv, NextServerInv, PTL DEF Spec
=============================================================================
