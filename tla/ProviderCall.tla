---------------------------- MODULE ProviderCall ----------------------------
(***************************************************************************)
(* How the node server gets content from a provider                        *)
(* (mountSecretsStoreObjectContent in nodeserver.go, provider_client.go):  *)
(* by gRPC, or by running a binary after a check of its version.  The      *)
(* flags are parsed once, by newNodeServer; the binaries live in a         *)
(* directory where providers install, upgrade and remove them at any time, *)
(* also between two steps of a call.  NodeServer has the rest of           *)
(* NodePublishVolume; here a call ends with the creation of the pod's      *)
(* status, which records what the provider reported and decides about the  *)
(* error_type.  A gRPC provider is the fake one of the repository.         *)
(***************************************************************************)
EXTENDS ProviderVersion

CONSTANTS
    Provider,
    Entry,        \* entries of the flag --min-provider-version
    MaxEntries,   \* bound: its length
    GrpcFlag,     \* values of --grpc-supported-providers, as sets
    Binary,       \* what may be installed under a provider's name
    Object,       \* objects with their versions, as a gRPC provider reports them
    Pod,          \* a pod is an incarnation: its UID
    StatusName,   \* names podname-namespace-spcName of status objects
    NameOf        \* NameOf[q]: the one for pod q; pods may be namesakes

BinaryKind == {"missing", "broken", "runs"}

ASSUME ProviderNonempty == Provider # {}
ASSUME EntryType == Entry \subseteq [wellFormed : BOOLEAN, provider : Provider, version : Text]
ASSUME MaxEntriesType == MaxEntries \in Nat
ASSUME GrpcFlagType == GrpcFlag \subseteq SUBSET Provider
ASSUME PodNonempty == Pod # {}
ASSUME NameOfType == NameOf \in [Pod -> StatusName]
ASSUME BinaryType == Binary \subseteq [kind : BinaryKind, version : Text]

VARIABLES
    flags,        \* the command line
    server,       \* the node server; state "exited" after log.Fatalf
    installed,    \* installed[p]: the binary under the provider's name
    recorded,     \* recorded[m]: the pod and the objects in the status of that name, if any
    call          \* the one NodePublishVolume looked at

vars == <<flags, server, installed, recorded, call>>

\* The error codes of errors.go that occur here, one a gRPC provider returns, and none.
Reason == {"", "ProviderBinaryNotFound", "IncompatibleProviderVersion", "ProviderError",
           "FailedToCreateProviderGRPCClient", "GRPCProviderError", "code of the provider"}

\* How a gRPC provider may be set up: whether it listens, and what SetReturnError,
\* SetProviderErrorCode and SetObjects made it answer.
Setup == [up : BOOLEAN, returnErr : BOOLEAN, errorCode : {"", "code of the provider"},
          objects : SUBSET Object]

Steps == {"idle", "grpc", "stat", "version", "exec", "status", "done", "failed"}

StatusObject == [pod : Pod, objects : SUBSET Object]

\* objects: the map objectVersions.  answered: the binary that answered --version
\* in this call; ran: the one that was run to mount; setup: the gRPC provider
\* that was asked.  These three are history.
NoCall == [pc |-> "idle", provider |-> CHOOSE p \in Provider : TRUE,
           pod |-> CHOOSE q \in Pod : TRUE, reason |-> "",
           objects |-> {}, answered |-> {}, ran |-> {}, setup |-> {}]

\* The state is well typed; a call needs a server, and one that succeeds has no
\* reason to report.
TypeOK ==
    /\ flags.grpc \in GrpcFlag /\ \A i \in DOMAIN flags.min : flags.min[i] \in Entry
    /\ server.state \in {"down", "serving", "exited"}
    /\ DOMAIN server.min \subseteq Provider /\ server.grpc \subseteq Provider
    /\ installed \in [Provider -> Binary]
    /\ recorded \in [StatusName -> SUBSET StatusObject]
    /\ call \in [pc : Steps, provider : Provider, pod : Pod, reason : Reason,
                 objects : SUBSET Object, answered : SUBSET Binary, ran : SUBSET Binary,
                 setup : SUBSET Setup]
    /\ call.pc # "idle" => server.state = "serving"
    /\ call.pc = "done" => call.reason = ""

Init ==
    /\ flags \in [min : UNION {[1..n -> Entry] : n \in 0..MaxEntries}, grpc : GrpcFlag,
                  volumePath : BOOLEAN]
    /\ server = [state |-> "down", min |-> << >>, grpc |-> {}]
    /\ installed \in [Provider -> Binary]
    /\ recorded = [m \in StatusName |-> {}]
    /\ call = NoCall

-----------------------------------------------------------------------------

newNodeServer ==
    LET parsed == GetMinimumProviderVersions(flags.min) IN
    /\ server.state = "down"
    /\ server' = IF parsed.err
                 THEN [server EXCEPT !.state = "exited"]
                 ELSE [state |-> "serving", min |-> parsed.min, grpc |-> flags.grpc]
    /\ UNCHANGED <<flags, installed, recorded, call>>

Step(pc) == call' = [call EXCEPT !.pc = pc]

\* Mutant: a failure is answered as a success.
FailKeeping(reason) == call' = [call EXCEPT !.pc = "done", !.reason = reason]

Fail(reason) == call' = [call EXCEPT !.pc = "failed", !.reason = reason]

\* The volume of pod q, whose class names provider p by now, is mounted:
\* getProviderPath and os.Stat come next unless the provider is one that speaks
\* gRPC.  Attributes, target path and permission are never empty here;
\* --provider-volume may be.
mountSecretsStoreObjectContent(p, q) ==
    /\ server.state = "serving" /\ call.pc = "idle"
    /\ call' = [NoCall EXCEPT !.provider = p, !.pod = q,
                              !.pc = IF ~flags.volumePath THEN "failed"
                                     ELSE IF p \in server.grpc THEN "grpc" ELSE "stat"]
    /\ UNCHANGED <<flags, server, installed, recorded>>

\* The answer of Mount as it reaches the client: with an error there is no
\* response.  An empty list of objects arrives as nil.
Mount(s) ==
    IF ~s.up \/ s.returnErr
    THEN [err |-> TRUE, code |-> "", objects |-> {}]
    ELSE [err |-> FALSE, code |-> s.errorCode, objects |-> s.objects]

\* Mutant: a response without objects counts as a success.
MountContentUnchecked(s) ==
    LET resp == Mount(s) IN
    /\ call.pc = "grpc"
    /\ \/ Fail("FailedToCreateProviderGRPCClient")
       \/ resp.code # "" /\ Fail(resp.code)
       \/ resp.code = "" /\ resp.err /\ Fail("GRPCProviderError")
       \/ /\ resp.code = "" /\ ~resp.err
          /\ call' = [call EXCEPT !.pc = "status", !.objects = resp.objects, !.setup = {s}]
    /\ UNCHANGED <<flags, server, installed, recorded>>

\* The provider is asked as it is set up at that moment.
MountContent(s) ==
    LET resp == Mount(s) IN
    /\ call.pc = "grpc"
    /\ \/ Fail("FailedToCreateProviderGRPCClient")
       \/ resp.code # "" /\ Fail(resp.code)
       \/ resp.code = "" /\ (resp.err \/ resp.objects = {}) /\ Fail("GRPCProviderError")
       \/ /\ resp.code = "" /\ ~resp.err /\ resp.objects # {}
          /\ call' = [call EXCEPT !.pc = "status", !.objects = resp.objects, !.setup = {s}]
    /\ UNCHANGED <<flags, server, installed, recorded>>

\* Mutant: a binary that exists is run without a check of its version.
StatBinaryUnchecked ==
    LET p == call.provider IN
    /\ call.pc = "stat"
    /\ IF installed[p].kind = "missing"
       THEN Fail("ProviderBinaryNotFound")
       ELSE Step("exec")
    /\ UNCHANGED <<flags, server, installed, recorded>>

StatBinary ==
    LET p == call.provider IN
    /\ call.pc = "stat"
    /\ IF installed[p].kind = "missing"
       THEN Fail("ProviderBinaryNotFound")
       ELSE Step(IF p \in DOMAIN server.min THEN "version" ELSE "exec")
    /\ UNCHANGED <<flags, server, installed, recorded>>

\* The binary is run with --version.  An error of the check has no reason.
CheckVersion ==
    LET b == installed[call.provider]
        verdict == IF b.kind = "runs"
                   THEN IsProviderCompatible(b.version, server.min[call.provider])
                   ELSE "error"
    IN
    /\ call.pc = "version"
    /\ \/ verdict = "error" /\ Fail("")
       \/ verdict = "too old" /\ Fail("IncompatibleProviderVersion")
       \/ verdict = "compatible" /\ call' = [call EXCEPT !.pc = "exec", !.answered = {b}]
    /\ UNCHANGED <<flags, server, installed, recorded>>

\* The binary is run to mount; it may fail, and may be gone or replaced by now.
RunProvider ==
    LET b == installed[call.provider] IN
    /\ call.pc = "exec"
    /\ \/ b.kind = "runs" /\ call' = [call EXCEPT !.pc = "status", !.ran = {b}]
       \/ Fail("ProviderError")
    /\ UNCHANGED <<flags, server, installed, recorded>>

\* createSecretProviderClassPodStatus: AlreadyExists counts as success, be the
\* status the pod's own from an earlier publish or a namesake's.  The reason is
\* by now what mountSecretsStoreObjectContent returned.
CreateStatus ==
    LET m == NameOf[call.pod] IN
    /\ call.pc = "status"
    /\ \/ /\ Step("done")
          /\ recorded' = IF recorded[m] = {}
                         THEN [recorded EXCEPT ![m] = {[pod |-> call.pod, objects |-> call.objects]}]
                         ELSE recorded
       \/ Fail("") /\ UNCHANGED recorded
    /\ UNCHANGED <<flags, server, installed>>

\* reportNodePublishErrorCtMetric or reportNodePublishCtMetric, and the answer.
Return ==
    /\ call.pc \in {"done", "failed"}
    /\ call' = NoCall
    /\ UNCHANGED <<flags, server, installed, recorded>>

\* A provider is installed, upgraded, downgraded or removed.
Replace(p) ==
    /\ \E b \in Binary : b # installed[p] /\ installed' = [installed EXCEPT ![p] = b]
    /\ UNCHANGED <<flags, server, recorded, call>>

\* A status goes, with its pod or by a user's hand.
RemoveStatus(m) ==
    /\ recorded[m] # {}
    /\ recorded' = [recorded EXCEPT ![m] = {}]
    /\ UNCHANGED <<flags, server, installed, call>>

Next ==
    \/ newNodeServer
    \/ \E p \in Provider, q \in Pod : mountSecretsStoreObjectContent(p, q)
    \/ \E p \in Provider : Replace(p)
    \/ \E m \in StatusName : RemoveStatus(m)
    \/ \E s \in Setup : MountContent(s)
    \/ StatBinary \/ CheckVersion \/ RunProvider \/ CreateStatus \/ Return

Spec == Init /\ [][Next]_vars

-----------------------------------------------------------------------------

\* The versions that the command line asks for at least, entry by entry.
Asked(p) == {flags.min[i].version : i \in {j \in DOMAIN flags.min : flags.min[j].provider = p}}

\* A binary is run to mount, be it in vain, only if in this very call a binary
\* of that provider answered --version with a semantic version, with or without
\* a "v", that is not before any the command line asks for.  That another binary may
\* have taken its place in between is what the code cannot see.
OnlyCheckedProvidersRun ==
    call.ran # {} \/ call.reason = "ProviderError" =>
        \A min \in Asked(call.provider) : \E b \in call.answered :
            /\ b.version.parses /\ b.version.vs < 2
            /\ ~Before(b.version.semver, min.semver)

\* The driver serves exactly when the command line can be obeyed: every entry
\* is well formed, no provider has two, every version parses.  No version check
\* of a serving driver then fails because of the minimum.
FlagsAreObeyedOrRefused ==
    LET e == flags.min
        good == /\ \A i \in DOMAIN e : e[i].wellFormed /\ e[i].version.parses /\ e[i].version.vs = 0
                /\ \A i, j \in DOMAIN e : e[i].provider = e[j].provider => i = j
    IN /\ server.state = "serving" =>
            /\ good
            /\ DOMAIN server.min = {e[i].provider : i \in DOMAIN e}
            /\ \A i \in DOMAIN e : server.min[e[i].provider] = e[i].version
       /\ server.state = "exited" => ~good

\* A gRPC provider that has reported objects, and nothing else.
Reports(s) == s.up /\ ~s.returnErr /\ s.errorCode = "" /\ s.objects # {}

\* A publish, the first of its pod or a repeated one, succeeds with a gRPC provider
\* only on a response that reports objects and neither an error nor an error
\* code, and leaves a status under the pod's name.  A status is only ever made
\* by such a success, for the pod that is published and with exactly the objects
\* reported in this call, none if a binary mounted them; one that is there, the
\* pod's own or a namesake's, stays as it is.
StatusRecordsReport ==
    [][LET succeeds == call.pc = "status" /\ call'.pc = "done"
           reported == UNION {s.objects : s \in call.setup}
       IN /\ succeeds => recorded'[NameOf[call.pod]] # {}
          /\ succeeds /\ call.provider \in server.grpc => \E s \in call.setup : Reports(s)
          /\ \A m \in StatusName : recorded'[m] \notin {recorded[m], {}} =>
                /\ succeeds /\ m = NameOf[call.pod] /\ recorded[m] = {}
                /\ recorded'[m] = {[pod |-> call.pod, objects |-> reported]}]_vars
=============================================================================
