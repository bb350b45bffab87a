----------------------------- MODULE NodeServer -----------------------------
(***************************************************************************)
(* The CSI node service of the driver: NodePublishVolume and              *)
(* NodeUnpublishVolume (pkg/secrets-store/nodeserver.go), on a Linux node. *)
(*                                                                         *)
(* Each gRPC call runs in a goroutine of its own (a Handler) and the code  *)
(* holds no lock per target path, so the steps of the calls interleave.    *)
(* Kubelet has one call outstanding per target, but a call it has given up *)
(* on keeps running in the driver.  The driver may crash between any two   *)
(* steps; mounts and API objects outlive it.                               *)
(*                                                                         *)
(* External, modelled from its use here: kubelet, the mount library        *)
(* (Mount, Unmount, CleanupMountPoint), the provider, the API server.      *)
(***************************************************************************)
EXTENDS Naturals, Sequences, FiniteSets

CONSTANTS
    Target,     \* target paths, one per volume of a pod (the path holds the pod UID)
    Handler,    \* goroutines that can serve a call
    Object,     \* the objects a provider writes under the target path
    Request,    \* what kubelet sends for a target, see RequestKind
    FaultKind   \* the faults that may happen, see AllFaults

RequestKind == {"volume", "mock", "invalid"}

AllFaults == {"timeout", "crash", "unmount"}

ASSUME TargetNonempty == Target # {}
ASSUME HandlerFinite == IsFiniteSet(Handler)
ASSUME ObjectNonempty == Object # {}
ASSUME RequestType == Request \in [Target -> RequestKind]
ASSUME FaultKindType == FaultKind \subseteq AllFaults

VARIABLES
    dir,        \* dir[t]: the target directory exists
    disk,       \* disk[t]: objects in that directory itself, beneath any mount
    mounts,     \* mounts[t]: the tmpfs stacked on the directory, the last one visible
    stale,      \* targets whose visible mount cannot be read
    status,     \* targets with a SecretProviderClassPodStatus
    call,       \* call[h]: the call that handler h serves
    kubelet,    \* kubelet[t]: kubelet's view of the volume
    faults      \* history: faults[t] is the set of faults that hit target t

vars == <<dir, disk, mounts, stale, status, call, kubelet, faults>>

PublishStep == {"ensure", "unmountStale", "lookup", "mount", "provider", "status", "undo"}
UnpublishStep == {"cleanup", "remove"}
KubeletState == {"new", "publishing", "published", "failed",
                 "unpublishing", "leaving", "removed"}

\* The locals of a handler: its next step, the target path, the objects its
\* provider has written, and whether kubelet still waits for the answer.  Its
\* `mounted' is TRUE exactly in the steps "provider", "status" and "undo".
Call == [pc : {"idle"} \cup PublishStep \cup UnpublishStep, target : Target,
         written : SUBSET Object, waiting : BOOLEAN]

NewCall(pc, t, waiting) ==
    [pc |-> pc, target |-> t, written |-> {}, waiting |-> waiting]

Idle == NewCall("idle", CHOOSE t \in Target : TRUE, FALSE)

\* The state is well typed.
TypeOK ==
    /\ dir \in [Target -> BOOLEAN]
    /\ disk \in [Target -> SUBSET Object]
    /\ mounts \in [Target -> Seq(SUBSET Object)]
    /\ stale \subseteq Target
    /\ status \subseteq Target
    /\ call \in [Handler -> Call]
    /\ kubelet \in [Target -> KubeletState]
    /\ faults \in [Target -> SUBSET AllFaults]

Init ==
    /\ dir = [t \in Target |-> FALSE]
    /\ disk = [t \in Target |-> {}]
    /\ mounts = [t \in Target |-> << >>]
    /\ stale = {}
    /\ status = {}
    /\ call = [h \in Handler |-> Idle]
    /\ kubelet = [t \in Target |-> "new"]
    /\ faults = [t \in Target |-> {}]

-----------------------------------------------------------------------------
(* Helpers: mounting, and how a handler goes on or answers.                *)

Mounted(t) == mounts[t] # << >>

\* mounter.Mount("tmpfs", target, "tmpfs"): an empty layer on top.
PushMount(t) == mounts' = [mounts EXCEPT ![t] = Append(@, {})]

\* mounter.Unmount(target) succeeds: the visible layer goes, with its content.
PopMount(t) ==
    /\ Mounted(t)
    /\ mounts' = [mounts EXCEPT ![t] = SubSeq(@, 1, Len(@) - 1)]
    /\ stale' = stale \ {t}

Goto(h, pc) == call' = [call EXCEPT ![h].pc = pc]

\* The call returns; the answer reaches kubelet unless it gave up on the call.
Answer(h, view) ==
    /\ call' = [call EXCEPT ![h] = Idle]
    /\ kubelet' = IF call[h].waiting THEN [kubelet EXCEPT ![call[h].target] = view]
                                     ELSE kubelet

\* A publish returns an error before it has mounted anything.
Fail(h) == Answer(h, "failed")

\* Mutant: `mounted = true' is forgotten, so nothing is unmounted.
FailMountedForgotten(h) == Fail(h)

\* A publish returns an error with `mounted' set: the deferred function
\* unmounts before the answer goes out.
FailMounted(h) == Goto(h, "undo") /\ UNCHANGED kubelet

Succeed(h) == Answer(h, "published")

-----------------------------------------------------------------------------
(* NodePublishVolume.                                                      *)

\* Kubelet, having created the directory, calls NodePublishVolume.  A request
\* without capability, volume id, target path or attributes is refused.
NodePublishVolume(h, t) ==
    /\ call[h].pc = "idle"
    /\ kubelet[t] \in {"new", "failed", "published"}
    /\ dir' = [dir EXCEPT ![t] = TRUE]
    /\ IF Request[t] = "invalid"
       THEN /\ kubelet' = [kubelet EXCEPT ![t] = "failed"]
            /\ UNCHANGED call
       ELSE /\ kubelet' = [kubelet EXCEPT ![t] = "publishing"]
            /\ call' = [call EXCEPT ![h] = NewCall("ensure", t, TRUE)]
    /\ UNCHANGED <<disk, mounts, stale, status, faults>>

\* Mutant: a mounted target is taken for one that is not mounted.
EnsureMountPointUnchecked(h) ==
    /\ call[h].pc = "ensure"
    /\ \/ /\ Fail(h)
       \/ /\ Goto(h, "lookup")
          /\ UNCHANGED kubelet
    /\ UNCHANGED <<dir, disk, mounts, stale, status, faults>>

\* ensureMountPoint: a readable mount is taken as a finished publish; an
\* unreadable one is to be unmounted; the check itself may fail.
EnsureMountPoint(h) ==
    LET t == call[h].target IN
    /\ call[h].pc = "ensure"
    /\ \/ /\ Fail(h)
       \/ /\ Mounted(t) /\ t \notin stale
          /\ Succeed(h)
       \/ /\ Mounted(t) /\ t \in stale
          /\ Goto(h, "unmountStale")
          /\ UNCHANGED kubelet
       \/ /\ ~Mounted(t)
          /\ Goto(h, "lookup")
          /\ UNCHANGED kubelet
    /\ UNCHANGED <<dir, disk, mounts, stale, status, faults>>

\* Mutant: the stale mount is reported but not unmounted.
UnmountStaleSkipped(h) ==
    /\ call[h].pc = "unmountStale"
    /\ Fail(h)
    /\ UNCHANGED <<dir, disk, mounts, stale, status, faults>>

\* ensureMountPoint, lines 112-118: after a successful Unmount it returns the
\* error of ReadDir, so the call fails all the same; after a failed one
\* `mounted' is set and the deferred function tries once more.
UnmountStale(h) ==
    LET t == call[h].target IN
    /\ call[h].pc = "unmountStale"
    /\ \/ /\ PopMount(t)
          /\ Fail(h)
       \/ /\ FailMounted(h)
          /\ UNCHANGED <<mounts, stale>>
    /\ UNCHANGED <<dir, disk, status, faults>>

\* Mutant: the provider is called before the tmpfs is mounted.
LookupClassThenProvider(h) ==
    /\ call[h].pc = "lookup"
    /\ Goto(h, "provider")
    /\ UNCHANGED <<dir, disk, mounts, stale, status, kubelet, faults>>

\* Attributes, SecretProviderClass, provider, parameters, readonly, encoding:
\* nothing but an error can come of them.
LookupClass(h) ==
    /\ call[h].pc = "lookup"
    /\ \/ /\ Goto(h, "mount")
          /\ UNCHANGED kubelet
       \/ /\ Request[call[h].target] # "mock"
          /\ Fail(h)
    /\ UNCHANGED <<dir, disk, mounts, stale, status, faults>>

\* Mount needs the directory.  With the mock provider the call ends here.
MountTmpfs(h) ==
    LET t == call[h].target IN
    /\ call[h].pc = "mount"
    /\ \/ /\ dir[t]
          /\ PushMount(t)
          /\ stale' = stale \ {t}
          /\ IF Request[t] = "mock"
             THEN Succeed(h)
             ELSE /\ Goto(h, "provider")
                  /\ UNCHANGED kubelet
       \/ /\ Fail(h)
          /\ UNCHANGED <<mounts, stale>>
    /\ UNCHANGED <<dir, disk, status, faults>>

\* The provider writes one object by path: into the visible mount, or into
\* the directory itself where nothing is mounted any more.
ProviderWrite(h) ==
    LET t == call[h].target IN
    /\ call[h].pc = "provider"
    /\ dir[t] /\ t \notin stale
    /\ \E o \in Object \ call[h].written :
         /\ call' = [call EXCEPT ![h].written = @ \cup {o}]
         /\ IF Mounted(t)
            THEN /\ mounts' = [mounts EXCEPT ![t][Len(mounts[t])] = @ \cup {o}]
                 /\ UNCHANGED disk
            ELSE /\ disk' = [disk EXCEPT ![t] = @ \cup {o}]
                 /\ UNCHANGED mounts
    /\ UNCHANGED <<dir, stale, status, kubelet, faults>>

\* mountSecretsStoreObjectContent returns: without error once everything is
\* written, with one at any time.
ProviderReturn(h) ==
    /\ call[h].pc = "provider"
    /\ \/ /\ call[h].written = Object
          /\ Goto(h, "status")
          /\ UNCHANGED kubelet
       \/ FailMounted(h)
    /\ UNCHANGED <<dir, disk, mounts, stale, status, faults>>

\* Mutant: the error of createSecretProviderClassPodStatus is dropped.
CreateStatusUnchecked(h) ==
    /\ call[h].pc = "status"
    /\ \/ status' = status \cup {call[h].target}
       \/ UNCHANGED status
    /\ Succeed(h)
    /\ UNCHANGED <<dir, disk, mounts, stale, faults>>

\* createSecretProviderClassPodStatus: AlreadyExists counts as success.
CreateStatus(h) ==
    /\ call[h].pc = "status"
    /\ \/ /\ status' = status \cup {call[h].target}
          /\ Succeed(h)
       \/ /\ FailMounted(h)
          /\ UNCHANGED status
    /\ UNCHANGED <<dir, disk, mounts, stale, faults>>

\* Mutant: no deferred Unmount.
UndoMountSkipped(h) ==
    /\ call[h].pc = "undo"
    /\ Fail(h)
    /\ UNCHANGED <<dir, disk, mounts, stale, status, faults>>

\* The deferred function of a failed publish: Unmount, whose result is
\* dropped, before the answer.
UndoMount(h) ==
    LET t == call[h].target IN
    /\ call[h].pc = "undo"
    /\ Fail(h)
    /\ \/ /\ PopMount(t)
          /\ UNCHANGED faults
       \/ /\ ~Mounted(t)
          /\ UNCHANGED <<mounts, stale, faults>>
       \/ /\ Mounted(t) /\ "unmount" \in FaultKind
          /\ faults' = [faults EXCEPT ![t] = @ \cup {"unmount"}]
          /\ UNCHANGED <<mounts, stale>>
    /\ UNCHANGED <<dir, disk, status>>

-----------------------------------------------------------------------------
(* NodeUnpublishVolume.                                                    *)

\* The mock target path is left alone; a request without volume id or target
\* path, or with a path that holds no pod UID, is refused.
NodeUnpublishVolume(h, t) ==
    /\ call[h].pc = "idle"
    /\ kubelet[t] \in {"failed", "published", "leaving"}
    /\ IF Request[t] = "volume"
       THEN /\ call' = [call EXCEPT ![h] = NewCall("cleanup", t, TRUE)]
            /\ kubelet' = [kubelet EXCEPT ![t] = "unpublishing"]
       ELSE /\ kubelet' = [kubelet EXCEPT ![t] = IF Request[t] = "mock" THEN "removed"
                                                                        ELSE "leaving"]
            /\ UNCHANGED call
    /\ UNCHANGED <<dir, disk, mounts, stale, status, faults>>

\* Mutant: a target that is no longer mounted is an error.
CleanupMountPointStrict(h) ==
    LET t == call[h].target IN
    /\ call[h].pc = "cleanup"
    /\ \/ /\ PopMount(t)
          /\ Goto(h, "remove")
          /\ UNCHANGED kubelet
       \/ /\ ~Mounted(t)
          /\ Answer(h, "leaving")
          /\ UNCHANGED <<mounts, stale>>
    /\ UNCHANGED <<dir, disk, status, faults>>

\* mount.CleanupMountPoint, up to its Unmount.
CleanupMountPoint(h) ==
    LET t == call[h].target IN
    /\ call[h].pc = "cleanup"
    /\ \/ /\ ~dir[t]
          /\ Answer(h, "removed")
          /\ UNCHANGED <<mounts, stale>>
       \/ /\ dir[t] /\ ~Mounted(t)
          /\ Goto(h, "remove")
          /\ UNCHANGED <<mounts, stale, kubelet>>
       \/ /\ PopMount(t)
          /\ Goto(h, "remove")
          /\ UNCHANGED kubelet
       \/ /\ Mounted(t)
          /\ Answer(h, "leaving")
          /\ UNCHANGED <<mounts, stale>>
    /\ UNCHANGED <<dir, disk, status, faults>>

\* Mutant: the result of os.Remove is not looked at.
RemoveTargetUnchecked(h) ==
    LET t == call[h].target IN
    /\ call[h].pc = "remove"
    /\ Answer(h, "removed")
    /\ dir' = [dir EXCEPT ![t] = @ /\ (Mounted(t) \/ disk[t] # {})]
    /\ UNCHANGED <<disk, mounts, stale, status, faults>>

\* mount.CleanupMountPoint, os.Remove: refused while something is mounted on
\* the directory or left in it, or where it is gone already.
RemoveTarget(h) ==
    LET t == call[h].target IN
    /\ call[h].pc = "remove"
    /\ IF dir[t] /\ ~Mounted(t) /\ disk[t] = {}
       THEN /\ dir' = [dir EXCEPT ![t] = FALSE]
            /\ Answer(h, "removed")
       ELSE /\ Answer(h, "leaving")
            /\ UNCHANGED dir
    /\ UNCHANGED <<disk, mounts, stale, status, faults>>

-----------------------------------------------------------------------------
(* The environment.                                                        *)

\* Kubelet's deadline expires; the handler goes on.
Timeout(h) ==
    LET t == call[h].target IN
    /\ "timeout" \in FaultKind
    /\ call[h].waiting
    /\ call' = [call EXCEPT ![h].waiting = FALSE]
    /\ kubelet' = [kubelet EXCEPT ![t] = IF @ = "publishing" THEN "failed" ELSE "leaving"]
    /\ faults' = [faults EXCEPT ![t] = @ \cup {"timeout"}]
    /\ UNCHANGED <<dir, disk, mounts, stale, status>>

Serving(t) == {h \in Handler : call[h].pc # "idle" /\ call[h].target = t}

\* The driver restarts: every handler is gone, and no deferred function runs.
Crash ==
    /\ "crash" \in FaultKind
    /\ \E h \in Handler : call[h].pc # "idle"
    /\ call' = [h \in Handler |-> Idle]
    /\ kubelet' = [t \in Target |-> CASE kubelet[t] = "publishing" -> "failed"
                                      [] kubelet[t] = "unpublishing" -> "leaving"
                                      [] OTHER -> kubelet[t]]
    /\ faults' = [t \in Target |-> IF Serving(t) = {} THEN faults[t]
                                                      ELSE faults[t] \cup {"crash"}]
    /\ UNCHANGED <<dir, disk, mounts, stale, status>>

\* A mount can no longer be read or written.
MountGoesStale(t) ==
    /\ Mounted(t) /\ t \notin stale
    /\ stale' = stale \cup {t}
    /\ UNCHANGED <<dir, disk, mounts, status, call, kubelet, faults>>

HandlerStep(h) ==
    \/ EnsureMountPoint(h) \/ UnmountStale(h) \/ LookupClass(h) \/ MountTmpfs(h)
    \/ ProviderWrite(h) \/ ProviderReturn(h) \/ CreateStatus(h) \/ UndoMount(h)
    \/ CleanupMountPoint(h) \/ RemoveTarget(h)

Next ==
    \/ \E h \in Handler : HandlerStep(h)
    \/ \E h \in Handler, t \in Target : NodePublishVolume(h, t) \/ NodeUnpublishVolume(h, t)
    \/ \E h \in Handler : Timeout(h)
    \/ Crash
    \/ \E t \in Target : MountGoesStale(t)

Spec == Init /\ [][Next]_vars

-----------------------------------------------------------------------------
(* Safety.                                                                 *)

\* What a finished publish leaves behind.
Whole(t) == mounts[t] = <<Object>> /\ t \in status

\* A successful answer to NodePublishVolume means that the volume holds every
\* object and that the pod status is recorded, also when the answer comes from
\* the "already mounted" shortcut: the shortcut is sound because a failed
\* publish leaves no mount behind for it to find.
PublishedIsWhole ==
    \A t \in Target :
        Request[t] = "volume" /\ kubelet[t] = "published" /\ faults[t] = {} => Whole(t)

\* A failed NodePublishVolume is all or nothing: it leaves nothing mounted, so
\* that kubelet's retry does the entire publish, or it leaves a finished earlier
\* publish as it was.
FailedIsAllOrNothing ==
    \A t \in Target :
        Request[t] = "volume" /\ kubelet[t] = "failed" /\ faults[t] = {}
            => ~Mounted(t) \/ Whole(t)

\* Providers only ever write into a tmpfs ("mount before providers can write
\* content to it", nodeserver.go:179), so secrets stay out of kubelet's
\* directory on disk.
SecretsOffDisk == \A t \in Target : faults[t] = {} => disk[t] = {}

\* Once NodeUnpublishVolume has answered OK for a pod's volume nothing of it is
\* left on the node, and no call that is still running can put it back: whatever
\* timed out, crashed or failed to unmount before.
RemovedIsClean ==
    \A t \in Target :
        Request[t] = "volume" /\ kubelet[t] = "removed"
            => ~dir[t] /\ ~Mounted(t) /\ disk[t] = {}

\* Retries do not pile up mounts: at most one tmpfs is on a target unless
\* kubelet gave up on a call for it, whatever crashed or failed to unmount, and
\* never more than the calls that can run at once.  ensureMountPoint looks
\* before it mounts and takes no lock, so only calls that looked before any of
\* them mounted add a layer each; a retry after that finds the mount.
LayersAreBounded ==
    \A t \in Target :
        /\ "timeout" \notin faults[t] => Len(mounts[t]) <= 1
        /\ Len(mounts[t]) <= Cardinality(Handler)

-----------------------------------------------------------------------------
(* What a comment says and the code does not do.                           *)

\* nodeserver.go:72-74: after an error "entire node publish volume is
\* retried", so a successful publish is always a whole one.
RetryIsEntire ==
    \A t \in Target : Request[t] = "volume" /\ kubelet[t] = "published" => Whole(t)
=============================================================================
