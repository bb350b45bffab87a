# TLA+ models of the Secrets Store CSI driver

The driver mounts content from external secret stores into pods. This directory
holds TLA+ models of the parts of it that are hard to test, TLC configurations
that check small instances, and TLAPS proofs for instances of any size. Source
paths below are relative to the repository.

## The system

| Part | Source | State | Operations |
|---|---|---|---|
| Node service | `pkg/secrets-store/nodeserver.go`, `utils.go` | tmpfs mounts and directories on the node, one goroutine per call | `NodePublishVolume`, `NodeUnpublishVolume`; `NodeStageVolume` and `NodeUnstageVolume` only check arguments |
| Provider invocation | `nodeserver.go` (`mountSecretsStoreObjectContent`), `provider_client.go`, `pkg/version/version.go` | flags parsed at start, binaries on the host | gRPC `Mount`, or `Stat`, `--version`, run |
| Pod status | `utils.go` (`createSecretProviderClassPodStatus`) | one API object per pod and class | create (node service), delete (garbage collector) |
| Secret sync | `controllers/` | Secrets, informer caches, work queue | `Reconcile`: create a Secret, patch its owners |
| TLS parts | `controllers/utils.go` | none | `getCertPart`, `getCert`, `getPrivateKey` |
| Controller service | `controllerserver.go` | map of volumes under a mutex, atomic counter | `CreateVolume`, `ValidateVolumeCapabilities`, `DeleteVolume` (a no-op) |
| Process | `cmd/`, `secrets-store.go`, `pkg/csi-common/server.go`, `pkg/metrics` | three goroutines (main, manager, serve), the socket file, which outlives the process | `main`, `Run`, `NewMetricsExporter`, `serve`; every `log.Fatal`; signals |
| CSI driver helper, identity | `pkg/csi-common/driver.go` and the default servers | name, version, node id, capabilities, set once | `NewCSIDriver`, `Add...Capabilities`, the answers read from them |
| Fake provider | `provider/fake` | what it is set up to answer | `Mount` |
| API types, protocol | `apis/`, `provider/v1alpha1` | — | — |

Kubelet calls the node service, which calls a provider and then creates the pod
status; the reconciler of the same node watches pod statuses, reads the files
the provider wrote and creates Secrets, which the garbage collector deletes when
the last pod status that owns them is gone. Hard behaviours: calls for one
target may overlap, because kubelet's deadline does not stop a handler and the
driver has no lock per target; the driver may die between any two steps, by a
`log.Fatal` in any of its goroutines among others, while mounts, API objects and
the socket file survive; the reconcilers of several nodes write to one
Secret from caches that lag; create and patch are separate writes; names are
reused by later pods. `PROJECT.json` lists these hazards with their lines.

## Modules

| Module | Models | Correspondence |
|---|---|---|
| `NodeServer` | node service on Linux | a handler `h` is a goroutine; `call[h]` has its locals and next step. One action per step of the code that another process can observe: `EnsureMountPoint`, `UnmountStale` (ensureMountPoint), `LookupClass` (attributes, class, parameters, encoding), `MountTmpfs`, `ProviderWrite`, `ProviderReturn`, `CreateStatus`, `UndoMount` (the deferred function), `CleanupMountPoint`, `RemoveTarget`. `Timeout`, `Crash`, `MountGoesStale` are the environment. |
| `PodVolume` | what the node service promises of a pod's volume | abstract: what kubelet knows (`phase`) and what is on the node (`content`: none, partial, whole, suspect, gone), one action per thing that may happen to a volume. |
| `NodeServerVolume` | that `NodeServer` implements `PodVolume` | the refinement mapping: `phase` is kubelet's view, `content` is read from directory, disk, mounts, pod status and faults (`ContentOf`). |
| `DriverProcess` | `main`, `handle`, `Run`, `serve`, the manager's goroutine, signals | `main`, `mgr` and `serve` are the next steps of the three goroutines; `Exit` is the end of the process by `log.Fatal` or a signal, `ServeFails` that after `Serve` closed the listener; one action per call that may end it. |
| `Driver` | `NodeServer` inside `DriverProcess` | calls arrive only while `serve` serves; the end of the process drops the calls that run, which is `NodeServer`'s `Crash`. |
| `NodeServerLive`, `SecretSyncLive` | the same under fairness | see below |
| `SecretSync` | reconcilers of all nodes, the API server, pods | `work[n]` has the locals of `Reconcile` on node `n`; `ready`, `delayed` are its work queue; `cachedStatus`, `cachedSecret` its informers. |
| `ProviderCall`, `ProviderVersion` | flags, choice of the provider's interface, gRPC client and fake provider, version check, object versions, `error_type` | one call at a time, of any pod, against binaries that are replaced and gRPC providers that are set up anew at any time; `recorded` are the status objects by name, which pods may share; the functions of `version.go` are operators of the same names. |
| `CertParts` | extraction of certificate and key | one step per round of the loops; `Marshal` and `KeyBlock` are the re-encoding after them. |
| `ControllerServer` | `CreateVolume`, `ValidateVolumeCapabilities` and lookups | one step per critical section and one for the counter. |
| `NodeServerProofs`, `NodeServerVolumeProofs`, `DriverProofs`, `SecretSyncProofs`, `ProviderCallProofs`, `ProviderVersionProofs`, `CertPartsProofs`, `ControllerServerProofs` | theorems | |
| `MC*` | instances for TLC | |

### Abstractions

* Content is a set of objects. A provider writes them one by one, by path: into
  the visible mount, or into the directory where nothing is mounted. It creates
  no directory.
* Kubelet creates the target directory before it calls, has one call
  outstanding per target, retries errors, and may repeat a successful publish.
  It does not publish a target again once unpublish succeeded: the path holds
  the pod's UID. A target has one kind of request for good: `volume`, `mock`
  (the provider of the sanity tests), or `invalid` (refused by the argument
  checks).
* `faults[t]` in `NodeServer` is a history variable: which of timeout, crash and
  failed deferred Unmount have hit the target.
* A resourceVersion is only compared for equality with the object's own, so a
  cached Secret is the current version or not (`SecretCopy.current`).
  `cachedStatus` keeps what `Reconcile` tells apart: the pod of a status that
  exists, is not being deleted and has this node's label. Caches jump to the
  present value; intermediate ones are skipped. `class` is the
  SecretProviderClass as the caches have it; the reconciler reads it there.
* The data of a Secret is the set of its keys. An entry of `data` names an object
  and a key, `None` for an empty string; when two entries have one key, whose
  content it gets is left out. A volume is filled with one of the sets in
  `Content`, which need not have what a class names, now or after a change.
* Get and Patch of `patchSecretWithOwnerRef` are one step. An earlier Get is the
  same as a cache that lags.
* `Requeue`, `RequeueAfter` and a returned error all put the name into
  `delayed`; they differ in the time only.
* `controllerutil.SetOwnerReference` replaces a reference to an owner of the same
  name; the garbage collector acts on one object in one step.
* Kubelet is the client of the socket, too: a call that finds no server leaves
  nothing on the node, so `Driver` lets kubelet call only while `serve` serves.
  Flags are abstracted to what `main` and `Run` check of them. `UNIX` is a scheme
  of its own, because `ParseEndpoint` accepts it and `net.Listen` does not.
* A gRPC provider is `Setup`: whether it listens and what `SetReturnError`,
  `SetProviderErrorCode` and `SetObjects` made it answer. With an error the
  client gets no response, and an empty list of objects arrives as nil.
* A version string is its leading `v`s, whether the rest parses, and the parsed
  version; a PEM file is the sequence of its blocks, and a block what the x509
  parsers make of it.
* `overlap` in `ControllerServer` is a history variable: the names for which two
  `CreateVolume` calls ran at a time. The model is one life of the process;
  numbers start over after a restart.

## Runs

| Run | Instance | Checks |
|---|---|---|
| `node_calls` | one volume, two objects, two handlers, all faults | `PublishedIsWhole`, `FailedIsAllOrNothing`, `SecretsOffDisk`, `RemovedIsClean`, `LayersAreBounded`, the refinement `KeepsContract`, and that retries succeed: `PublishRecovers`, `TeardownEnds` |
| `driver` | the process with a volume and a refused request, a handler, timeouts and crashes; nine command lines, seven of them with one mistake | `ProcessTypeOK`, `ServesComplete`, `SocketIsServed`, `CallsHaveServer`, `DriverComesBack`, and `PublishRecovers`, `TeardownEnds` across restarts |
| `controller_race` | two callers, two names equal up to case, two capacities, four ids | `TypeOK`, `IdIdentifiesVolume`, `CreateIsIdempotent` |
| `sync_nodes` | two nodes with a pod each share a Secret; API errors, restarts, a user who deletes, strips and edits it | `TypeOK`, `NoStatusForgotten`, `OwnersAreReal`, `PatchKeepsOtherOwners`, `DataIsNeverOverwritten`, `SecretsGetOwned` |
| `sync_churn` | one node, two pods that come and go | `SecretsGetOwned` |
| `sync_class` | one pod with one of two objects; the class changes, goes, has no secretObjects, one without usable certificate, one that names the other object, or entries without objectName or key; slow deletion; resync | `SecretsGetOwned`, `CreatedWhole` |
| `provider_call` | two providers, two pods of one name, flags of up to two entries, eight binaries, a gRPC provider with two objects in every set-up | `TypeOK`, `OnlyCheckedProvidersRun`, `FlagsAreObeyedOrRefused`, `StatusRecordsReport` |
| `cert_parts` | all files of up to three blocks of seven kinds | `TypeOK`, `ChainIsWhole`, `LastKeyIsFound` |

Four runs are expected to fail; each checks what a comment or test of the
repository says, and TLC shows how the code departs from it.

| Run | Says | Happens |
|---|---|---|
| `node_unmount` | `RetryIsEntire`: after an error "entire node publish volume is retried" (`nodeserver.go:72-74`) | the deferred Unmount fails, its result is dropped, the retry finds a readable mount and answers OK |
| `sync_leak` | `SecretGoesWithPods`: "delete deployment, check secret is deleted" (`test/bats/vault.bats:194`) | the Secret is created, and the pod's status is gone before the patch that makes it the owner succeeds: nothing ever deletes the Secret |
| `sync_name` | `RunningPodHasStatus`: the mapping of status and pod "is 1 to 1" (`utils.go:173`) | a pod starts before the status of its namesake is collected; AlreadyExists counts as success and the pod never has a status |
| `sync_edit` | `EditedDataIsRestored`: the requeue after five minutes is "to check if secret and ownerRef exists and haven't been modified" (`secretproviderclasspodstatus_controller.go:213-214`) | a user empties the data of a Secret; every later `Reconcile` finds that it exists and patches its owner only |

### Limits that the properties state

Some guards in the properties are limits of the code rather than of the models.

* `PublishedIsWhole`, `FailedIsAllOrNothing` and `SecretsOffDisk` hold for targets
  that no fault has hit. After a crash between Mount and the provider's last
  write, or a failed deferred Unmount, a retry answers OK for an incomplete
  volume. After a timeout two calls work on one target: one may unmount what the
  other's provider is writing to, so that the rest lands in the directory on
  disk, which `CleanupMountPoint` then cannot remove (`TeardownEnds` allows for
  that). `RemovedIsClean` needs no such guard. In `PodVolume` such a volume is
  "suspect": it may be reported published or failed whatever is in it, but never
  removed with anything left.
* `LayersAreBounded`: calls that overlap after a timeout may mount one tmpfs each
  on a target. Without a timeout there is at most one, whatever crashed or failed
  to unmount, and never more than calls can run at once.
* Unmounting a stale mount ends in an error, and kubelet's next call mounts anew
  (`utils.go:118`); `PublishRecovers` is about the sequence of calls.
* `CreateIsIdempotent` holds for names whose calls do not overlap. Two
  overlapping calls with different capacities both succeed.
* A Secret that exists is never rewritten (`DataIsNeverOverwritten`): neither one
  that a user edited, which is what `sync_edit` is about, nor one made with fewer
  keys than its class lists.
* `CreatedWhole`: a running pod's Secret lacks the key of an entry without
  objectName or key, and of one whose object is not in the volume, be it a
  mistake in the class or an object added to it after the mount. The latter is
  only logged, and the key stays missing when the object is mounted by a later
  pod. For a pod on its way out, whose volume may be unmounted before it is
  listed, other keys may be missing too.
* `SecretsGetOwned` is about the entries before the first whose file is unusable
  (`Due`). That one makes `Reconcile` return
  (`secretproviderclasspodstatus_controller.go:170`), so the entries after it wait
  for as long as it stays so; an invalid entry is skipped.
* `StatusRecordsReport`: a status that exists is left as it is, so after a second
  publish it has the object versions of the first, and after one of a namesake
  (see `sync_name`) those of another pod. A binary reports no versions at all.
* `OnlyCheckedProvidersRun` is about the binary that answered `--version` in the
  same call. Another may have taken its place when it is run.
* `SocketIsServed` is about the file of the socket. That a process cannot listen
  for other reasons is left to the environment.
* `DriverComesBack` is about command lines that are good. An endpoint `UNIX://`
  passes `ParseEndpoint` and then ends every process at `net.Listen`.
* `LastKeyIsFound` is about the last block that is no certificate. A key before
  another such block is lost, and a PEM block without content is returned without
  an error. EC keys come back as SEC 1 in a block labelled "RSA PRIVATE KEY"
  (`privateKeyType`, `secretproviderclasspodstatus_controller.go:47`); the keys of
  `utils_test.go` are RSA.
* A failed version check, and a failed creation of the pod status after a
  successful mount, leave an empty `error_type` (`CheckVersion` and
  `CreateStatus` in `ProviderCall`).

### Bounds

Two handlers are the least that overlap; the safety properties are proved for any
number of them, liveness is checked for two. Two objects tell a part of the
content from all and from nothing. Two nodes are the least that race for a Secret.
Two attempts (`BackoffSteps`; the code has five) give a retry and its exhaustion in
`sync_nodes`; the other runs of `SecretSync` have one. Four ids let two callers race
twice.
Three PEM blocks put a block before, between and after others. `driver` has one
handler: overlapping calls are the subject of `node_calls`, and what
`NodeServer` promises is proved of the driver for any number of them. The mock
provider's volume is in no instance; the theorems cover it. Deadlock is not
checked where kubelet may leave a volume published or removed for good, where
ids run out, and where a function has returned.

### Fairness

That faults end is said in `NodeServerLive` and `SecretSyncLive` by
`<>[][Smooth]_vars` and `<>[][System]_vars`: from some point on every step is one
that a system without faults may take. It is not said by a formula that some
fault no longer happens, because two actions may allow the same step: a patch
that lost a race looks like an API error. In `Driver`, whose faults end with those
of the calls, a variable `calm` becomes TRUE at some time, and faults are only
enabled before.

`Driver`: kubelet starts the container again, and kills it when the grace period
of a SIGTERM is over; main, serve and the manager keep running, as do the
goroutines of the calls; kubelet retries. All of it is weak fairness. Failures of
libraries, signals and kills end with `calm`; a SIGTERM that was already handled
does not, which is why the kill is fair.

`NodeServerLive`: a goroutine that can take a step takes one (weak fairness of
`Step`), and kubelet retries failed publishes and unpublishes. Timeouts,
crashes, stale mounts and errors of the mount library, the provider and the API
server (`Trouble`) end. `SecretSyncLive`: the worker goes on; each watch and
timer fires; the garbage collector and kubelet do their work; a name that is
ready again and again is taken (strong fairness of `Reconcile` per name, which
the FIFO work queue with its single worker gives). API errors, restarts and user
changes end; lost races, pods that go and slow deletion do not. Timers are fair
because `RequeueAfter` is finite, the informers because they relist. Resync is
fair because the manager resyncs every ten hours; it matters in `sync_class`
only, where a status without secretObjects was dropped from the queue and the
class gets some later.

## Proofs

`NodeServerProofs`, for any targets, handlers, objects, requests and faults
(assumed: `Target` and `Object` are not empty, `Handler` is finite, `Request` and
`FaultKind` are well typed):

* `TypeCorrect`: `Spec => []TypeOK`.
* `RemovedStaysClean`: `Spec => []RemovedIsClean`. Inductive with
  `NothingWithoutDir`: a directory that is gone has no mount and no content, and
  a removed volume has no directory. It holds because os.Remove refuses a
  directory with a mount or content, Mount needs the directory, and kubelet does
  not create it again.
* `PublishedStaysWhole`, `FailedStaysAllOrNothing`, `SecretsStayOffDisk`: from
  `CallsInvariant`, `Spec => []IInv`. The properties speak of kubelet's view only
  and are not inductive. `IInv` adds `OneCall` (a target without timeouts is
  served by one call at most, and kubelet waits for that call) and `MountsFollow` (what
  is mounted at each step of that call: nothing before `MountTmpfs`, exactly what
  the provider wrote up to the pod status, at most one layer at the undo; between
  calls nothing or a whole volume). `OneCall` is where the absence of a lock is
  made good by kubelet; a timeout breaks it, which is what the guard excludes.
* `LayersStayBounded`: `Spec => []LayersAreBounded`, from `LayersInv`. The bound is
  not inductive, because a call that found no mount may still add one: `LeavesRoom`
  counts the mounts together with the calls between `EnsureMountPoint` and
  `MountTmpfs`. While something is mounted no call joins them, so the sum does not
  grow; once nothing is mounted it is at most the number of handlers. Without a
  timeout `OneCall` makes it one.

`NodeServerVolumeProofs`, from the same assumptions:

* `NodeServerKeepsContract`: `Spec => KeepsContract`, that is, `NodeServer`
  implements `PodVolume`. The invariant `VInv` is `IInv`, `NothingWithoutDir` and
  `Awaited`: also on a target that a fault has hit kubelet waits for one call at
  most, and knows the volume as in progress while it does, so that no late answer
  reaches it. Under `VInv` the content is a simple function of few variables
  (`View`), and each action is one or no step of `PodVolume` for every volume
  (`MayStep`).

`DriverProofs`, for any command lines as well (assumed: they are well typed, and
`FaultKind` has crashes):

* `CallsKeepServer`: `DriverSpec => []CallsHaveServer`. A call starts only while
  serve serves, and `ServesToTheEnd` shows that serving ends only with the process,
  which drops the calls: that every failure of one goroutine is a `log.Fatal` is
  what makes it so.
* `DriverRemovesAll` and `DriverKeepsContract` carry the theorems above over to the
  driver as a whole, and so does `DriverPublishesWhole` for `PublishedIsWhole`,
  `FailedIsAllOrNothing`, `SecretsOffDisk` and `LayersAreBounded`. They rest on a
  lemma, `DriverIsNodeServer`, that the composition only takes steps of `NodeServer`.
* `DriverServesComplete`: from `PInv`, that the step which main and serve have
  reached shows what was checked and set on the way. `ProcessTypes` is its typing
  part.
* `SocketsAreServed`: `DriverSpec => []SocketIsServed`, from `SocketFollows`, which
  adds that there is no socket file without a unix endpoint, and that serve removes
  one only with such an endpoint.

`SecretSyncProofs`, for any nodes, pods, names, Secrets, classes, number of
attempts and disturbances (assumed: there is a pod, `NodeOf`, `NameOf`, `Content` and
`Class` are well typed, `None` is none of the objects):

* `SyncTypeCorrect`: types hold together with `TodoLeft`, that create and patch
  run for an object of the class.
* `OtherOwnersAreKept`: `Spec => PatchKeepsOtherOwners`, from `CurrentCopies`: a
  cached copy that is current has the references of the Secret. This is the
  argument for the optimistic lock.
* `DataStays`: `Spec => DataIsNeverOverwritten`.
* `StatusesAreKept`: `Spec => []NoStatusForgotten`, which is inductive with the
  types.
* `SecretsAreCreatedWhole`: `Spec => CreatedWhole`, from `VolumesFollow`: a pod that
  a status, a cache or a worker knows has been started, a running pod has its
  volume, and what a worker listed of it is all of it. It assumes nothing of what
  the class names and the volume holds.
* `OwnersStayReal`: `Spec => []OwnersAreReal`, from `OwnPods` (what status, cache and
  worker take for the pod of a name has that name, and is on the node of the cache
  or worker) and `RefsStarted`. Nodes may share Secrets and pods may reuse names.
* `OwnersAreOnePerName`: `Spec => []OneOwnerPerName`, a Secret never names two pods of
  one status name. It needs instances with a reused name to say anything; with two
  nodes these are too large for a run, so the theorem stands alone.

`ProviderVersionProofs`:

* `FlagIsKeptOrRefused`: what `GetMinimumProviderVersions` returns for a flag of any
  length. The operator is a recursive function over the rounds of the loop;
  `AfterIsDefined` shows that the function exists, by induction on the length, and
  `OneMoreEntry` is one round. The induction is over a set of numbers
  (`P == {n \in Nat : ...}`, with 0 and closed under +1), which needs no operator as
  a parameter.
* `VerdictMeans`, `UpgradeStaysCompatible`: `IsProviderCompatible` says what it means,
  and neither an upgrade nor a lower minimum makes a usable provider unusable. They
  use that the comparison of the semver library, as `Before` renders it, is a strict
  total order.

`ProviderCallProofs`, for any providers, binaries, objects, pods, names and flags
(assumed: they are well typed, and there are a provider and a pod):

* `ProviderCallTypes`: `Spec => []TypeOK`.
* `FlagsObeyedOrRefused`: `Spec => []FlagsAreObeyedOrRefused`, from
  `FlagIsKeptOrRefused`; `ServerInv` says that the server then keeps what it has.
* `StatusesRecordReports`: `Spec => StatusRecordsReport`, from `OnItsWay`: where a
  call stands shows what has been checked and reported, in this call.
* `OnlyCheckedRun`: `Spec => []OnlyCheckedProvidersRun`, from `OnItsWay`,
  `ServerInv` and `VerdictMeans`: the minimum that the binary was
  compared with is the one of the command line.

`CertPartsProofs`, for files of any length (`MaxBlocks` is any number):

* `CertPartsTypes`, `ChainsAreWhole`, `LastKeysAreFound`: from `CPInv`, that `data` is
  the end of the file, `certs` are exactly the certificates before it in their order
  (`CertsOf`), and the block remembered for the key is the last one before it that is
  no certificate.

`ControllerServerProofs`, for any callers, names, case folding and capacities:

* `TypeCorrect`, `IdsAreUnique`: from `NumbersAreUnique`,
  that the numbers of all volumes answered, stored or about to be are counted and
  differ.
* `CreateStaysIdempotent`: from `AllSequential`, that for a name without
  overlapping calls what was answered is stored, and a call in progress either
  found nothing stored or holds what is stored.

Only model-checked: all liveness (`PublishRecovers`, `TeardownEnds`,
`DriverComesBack`, `SecretsGetOwned`), because fairness and ENABLED are beyond the
prover. Every other property of the passing runs has its theorem.

## Plan

1. Composition of `NodeServer` and `SecretSync`: the reconciler lists a volume
   while calls mount and unmount it. `SecretSync` has the pods' volumes in the
   abstract form of `PodVolume`'s "whole", so its pods could be given by
   `PodVolume` itself; the product with `NodeServer` is out of TLC's reach.
2. The Windows branches: targets that count as mounted when they hold a file, and
   files removed one by one.
3. That a Secret made for a pod gets its owner (`SecretsGetOwned`) by a
   well-founded argument, once the prover has fairness.

## Not modelled

The Windows branches; the identity service's `Probe` and capabilities, and default
methods that answer Unimplemented (constant answers); `Stop`, `ForceStop` and the
`Run...Server` helpers of `csi-common`, which nothing in the driver calls; the fake
provider's `Version`, which the driver does not call; counters of the metrics,
their HTTP endpoint and logging (I/O); API types, deep copies and protocol code
(declarations and generated code); labels of Secrets, types of Secrets other than
TLS or not, and several namespaces, on which no decision of the reconciler
depends.

## Running

    tlc -config MCNodeServer.cfg MCNodeServer
    tlapm NodeServerProofs.tla
