----------------------------- MODULE SecretSync -----------------------------
(***************************************************************************)
(* Syncing mounted content into Kubernetes Secrets: one                    *)
(* SecretProviderClassPodStatus reconciler per node                        *)
(* (controllers/secretproviderclasspodstatus_controller.go), each with one *)
(* worker, a work queue, and an informer cache that lags the API server.   *)
(* Pods on several nodes may share a Secret: every node then adds its own  *)
(* owner reference to the same object.                                     *)
(*                                                                         *)
(* External, modelled from its use here: the API server (optimistic lock   *)
(* by resourceVersion), the informers and the work queue of                *)
(* controller-runtime, the garbage collector, users, and the pods, whose   *)
(* volumes NodeServer models in detail.                                    *)
(***************************************************************************)
EXTENDS Naturals, Sequences

CONSTANTS
    Node, Pod,    \* a pod is an incarnation: its UID
    NodeOf,       \* NodeOf[p]: where the pod runs
    StatusName,   \* names podname-namespace-spcName of status objects
    NameOf,       \* NameOf[p]: the one for pod p
    Object,       \* names of files in volumes
    Content,      \* what a provider may fill a volume with: sets of objects
    Key,          \* keys in the data of Secrets
    Secret,       \* Secret names
    Class,        \* what the SecretProviderClass may say: sequences of SecretObject
    BackoffSteps, \* attempts of wait.ExponentialBackoff (5 in the code)
    Disturbance,  \* what may go wrong, see AllDisturbances
    None          \* no such object

\* An entry of the data of a secret object: None for an objectName or a key
\* that is empty; usable unless the Secret is of type TLS and the file has no
\* part for the key.
DataEntry == [object : Object \cup {None}, key : Key \cup {None}, usable : BOOLEAN]

\* An entry of spec.secretObjects, valid unless its name, type or data is empty.
SecretObject == [secret : Secret, data : SUBSET DataEntry, valid : BOOLEAN]

StatusObject == [pod : Pod, deleting : BOOLEAN]
SecretValue == [keys : SUBSET Key, refs : SUBSET Pod]

\* What a node's cache tells of a Secret.  A resourceVersion is only ever
\* compared with the object's own, so a cached copy is of the current version or
\* it is not.
SecretCopy == [refs : SUBSET Pod, current : BOOLEAN]

AllDisturbances == {"api", "restart", "resync", "terminate", "slowDelete", "deleteSecret",
                    "stripRefs", "editData", "setClass"}

ASSUME PodNonempty == Pod # {}
ASSUME NodeOfType == NodeOf \in [Pod -> Node]
ASSUME NameOfType == NameOf \in [Pod -> StatusName]
ASSUME ContentType == Content \subseteq SUBSET Object
ASSUME ClassType == Class \subseteq Seq(SecretObject)
ASSUME BackoffStepsType == BackoffSteps \in Nat \ {0}
ASSUME DisturbanceType == Disturbance \subseteq AllDisturbances
ASSUME NoneType ==
    /\ \A s \in StatusObject : s # None
    /\ \A s \in SecretValue \cup SecretCopy : s # None
    /\ \A p \in Pod : p # None
    /\ \A c \in Class : c # None
    /\ \A f \in SUBSET Object : f # None
    /\ None \notin Object \cup Key
    /\ << >> # None

VARIABLES
    pod,          \* pod[p]: the pod's life
    vol,          \* vol[p]: the files under the target path, None without directory
    class,        \* the SecretProviderClass of all pods as the caches have it, None without one
    status,       \* status[m]: the status object of that name
    secret,       \* secret[k]: the Secret of that name
    cachedStatus, \* cachedStatus[n][m]: the last Relevant(n, m) the watch of node n saw
    cachedSecret, \* cachedSecret[n][k]: what node n has cached of the Secret
    ready,        \* ready[n]: names the worker may take from the queue
    delayed,      \* delayed[n]: names to be queued again after a while
    work          \* work[n]: the locals of Reconcile

podVars == <<pod, vol>>
apiVars == <<class, status, secret>>
cacheVars == <<cachedStatus, cachedSecret>>
queueVars == <<ready, delayed>>
vars == <<podVars, apiVars, cacheVars, queueVars, work>>

PodPhase == {"pending", "mounted", "running", "terminating", "gone"}

\* todo: the secret objects left; files: the listing of the target path;
\* keys: the data map; tries: failed attempts of the current function.
Work == [pc : {"idle", "list", "object", "create", "patch"}, name : StatusName, pod : Pod,
         todo : Seq(SecretObject), files : SUBSET Object, keys : SUBSET Key,
         tries : 0..(BackoffSteps - 1)]

NoWork ==
    [pc |-> "idle", name |-> CHOOSE m \in StatusName : TRUE, pod |-> CHOOSE p \in Pod : TRUE,
     todo |-> << >>, files |-> {}, keys |-> {}, tries |-> 0]

\* The state is well typed; in particular no function is tried too often.
TypeOK ==
    /\ pod \in [Pod -> PodPhase]
    /\ vol \in [Pod -> (SUBSET Object) \cup {None}]
    /\ class \in Class \cup {None}
    /\ status \in [StatusName -> StatusObject \cup {None}]
    /\ secret \in [Secret -> SecretValue \cup {None}]
    /\ cachedStatus \in [Node -> [StatusName -> Pod \cup {None}]]
    /\ cachedSecret \in [Node -> [Secret -> SecretCopy \cup {None}]]
    /\ ready \in [Node -> SUBSET StatusName]
    /\ delayed \in [Node -> SUBSET StatusName]
    /\ work \in [Node -> Work]

Init ==
    /\ pod = [p \in Pod |-> "pending"]
    /\ vol = [p \in Pod |-> None]
    /\ class \in Class
    /\ status = [m \in StatusName |-> None]
    /\ secret = [k \in Secret |-> None]
    /\ cachedStatus = [n \in Node |-> status]
    /\ cachedSecret = [n \in Node |-> secret]
    /\ ready = [n \in Node |-> {}]
    /\ delayed = [n \in Node |-> {}]
    /\ work = [n \in Node |-> NoWork]

-----------------------------------------------------------------------------
(* The API server.                                                         *)

\* Every write gives k a new resourceVersion, which no cached copy has.
SetSecret(k, value) ==
    /\ secret' = [secret EXCEPT ![k] = value]
    /\ cachedSecret' = [n \in Node |->
          IF cachedSecret[n][k] = None
          THEN cachedSecret[n]
          ELSE [cachedSecret[n] EXCEPT ![k].current = FALSE]]

WriteSecret(k, keys, refs) == SetSecret(k, [keys |-> keys, refs |-> refs])

CopyOf(k) == IF secret[k] = None THEN None ELSE [refs |-> secret[k].refs, current |-> TRUE]

Live(p) == status[NameOf[p]] # None /\ status[NameOf[p]].pod = p

\* Mutant: the node label is not compared.
RelevantAnyNode(n, m) ==
    IF status[m] # None /\ ~status[m].deleting THEN status[m].pod ELSE None

\* The pod of status m as Reconcile on node n tells statuses apart: one that
\* does not exist, is being deleted or is labelled with another node is ignored.
Relevant(n, m) ==
    IF status[m] # None /\ ~status[m].deleting /\ NodeOf[status[m].pod] = n
    THEN status[m].pod
    ELSE None

-----------------------------------------------------------------------------
(* Reconcile.                                                              *)

\* Mutant: an error that exhausts the backoff is returned as done.
RequeueForgotten(n, m) ==
    /\ work' = [work EXCEPT ![n] = NoWork]
    /\ UNCHANGED delayed

\* Reconcile returns an error, Requeue or RequeueAfter: they differ only in
\* how long the name stays away from the queue.
Requeue(n, m) ==
    /\ delayed' = [delayed EXCEPT ![n] = @ \cup {m}]
    /\ work' = [work EXCEPT ![n] = NoWork]

Current(n) == Head(work[n].todo)

\* Mutant: the loop ends where it should go on.
NextObjectStops(n) ==
    /\ work' = [work EXCEPT ![n].pc = "object", ![n].todo = << >>,
                            ![n].keys = {}, ![n].tries = 0]
    /\ UNCHANGED delayed

\* Mutant: the listing of the volume does not outlive the first object.
NextObjectForgetsFiles(n) ==
    /\ work' = [work EXCEPT ![n].pc = "object", ![n].todo = Tail(@), ![n].files = {},
                            ![n].keys = {}, ![n].tries = 0]
    /\ UNCHANGED delayed

NextObject(n) ==
    /\ work' = [work EXCEPT ![n].pc = "object", ![n].todo = Tail(@),
                            ![n].keys = {}, ![n].tries = 0]
    /\ UNCHANGED delayed

\* Mutant: one attempt too many.
RetryOnceMore(n) ==
    IF work[n].tries < BackoffSteps
    THEN /\ work' = [work EXCEPT ![n].tries = @ + 1]
         /\ UNCHANGED delayed
    ELSE Requeue(n, work[n].name)

\* A function under ExponentialBackoff fails once more.
Retry(n) ==
    IF work[n].tries + 1 < BackoffSteps
    THEN /\ work' = [work EXCEPT ![n].tries = @ + 1]
         /\ UNCHANGED delayed
    ELSE Requeue(n, work[n].name)

\* The worker takes m: a status that is ignored, or whose class has no
\* secretObjects, is dropped; without the class it is tried again later, as
\* after any other error.
Reconcile(n, m) ==
    LET p == cachedStatus[n][m] IN
    /\ work[n].pc = "idle" /\ m \in ready[n]
    /\ ready' = [ready EXCEPT ![n] = @ \ {m}]
    /\ \/ /\ p = None \/ class = << >>
          /\ UNCHANGED <<delayed, work>>
       \/ /\ p # None /\ class = None
          /\ Requeue(n, m)
       \/ /\ p # None /\ class \notin {None, << >>}
          /\ work' = [work EXCEPT ![n] = [NoWork EXCEPT !.pc = "list", !.name = m,
                                                       !.pod = p, !.todo = class]]
          /\ UNCHANGED delayed
    /\ UNCHANGED <<podVars, apiVars, cacheVars>>

\* getMountedFiles on the target path of the status.
ListFiles(n) ==
    /\ work[n].pc = "list"
    /\ IF vol[work[n].pod] = None
       THEN Requeue(n, work[n].name)
       ELSE /\ work' = [work EXCEPT ![n].pc = "object", ![n].files = vol[work[n].pod]]
            /\ UNCHANGED delayed
    /\ UNCHANGED <<podVars, apiVars, cacheVars, ready>>

\* The entries that make it into the data map: one with an empty objectName or
\* key is an error that only makes the name queued again sooner, and one whose
\* file is not in the listing is skipped.
Found(data, files) == {e \in data : e.object # None /\ e.key # None /\ e.object \in files}

KeysOf(entries) == {e.key : e \in entries}

\* One round of the loop up to the functions under backoff.  A file that was
\* listed and cannot be read any more, or has no usable part, ends the reconcile.
SyncObject(n) ==
    LET w == work[n]
        found == Found(Current(n).data, w.files)
        gone(e) == vol[w.pod] = None \/ e.object \notin vol[w.pod]
    IN
    /\ w.pc = "object"
    /\ \/ /\ w.todo = << >>
          /\ Requeue(n, w.name)
       \/ /\ w.todo # << >>
          /\ ~Current(n).valid
          /\ NextObject(n)
       \/ /\ w.todo # << >> /\ Current(n).valid
          /\ IF cachedSecret[n][Current(n).secret] # None
             THEN /\ work' = [work EXCEPT ![n].pc = "patch"]
                  /\ UNCHANGED delayed
             ELSE IF \E e \in found : gone(e) \/ ~e.usable
             THEN Requeue(n, w.name)
             ELSE /\ work' = [work EXCEPT ![n].pc = "create", ![n].keys = KeysOf(found)]
                  /\ UNCHANGED delayed
    /\ UNCHANGED <<podVars, apiVars, cacheVars, ready>>

\* Mutant: an existing Secret is replaced.
CreateK8sSecretReplacing(n) ==
    LET k == Current(n).secret IN
    /\ work[n].pc = "create"
    /\ WriteSecret(k, work[n].keys, {})
    /\ work' = [work EXCEPT ![n].pc = "patch", ![n].tries = 0]
    /\ UNCHANGED <<podVars, class, status, cachedStatus, queueVars>>

\* createK8sSecret: AlreadyExists counts as success.
CreateK8sSecret(n) ==
    LET k == Current(n).secret IN
    /\ work[n].pc = "create"
    /\ IF secret[k] = None THEN WriteSecret(k, work[n].keys, {})
                            ELSE UNCHANGED <<secret, cachedSecret>>
    /\ work' = [work EXCEPT ![n].pc = "patch", ![n].tries = 0]
    /\ UNCHANGED <<podVars, class, status, cachedStatus, queueVars>>

\* SetOwnerReference: the reference replaces one to a status of the same name.
WithOwner(refs, p) == {q \in refs : NameOf[q] # NameOf[p]} \cup {p}

\* Mutant: a merge patch without the optimistic lock.
PatchSecretUnlocked(n) ==
    LET k == Current(n).secret
        cached == cachedSecret[n][k]
    IN
    /\ work[n].pc = "patch"
    /\ cached # None /\ secret[k] # None
    /\ WriteSecret(k, secret[k].keys, WithOwner(cached.refs, work[n].pod))
    /\ NextObject(n)
    /\ UNCHANGED <<podVars, class, status, cachedStatus, ready>>

\* patchSecretWithOwnerRef: the owner references of the cached copy and our
\* own replace those of the Secret, if it is still the version that was
\* cached.  Without a cached copy the patch names no object and fails.
PatchSecretWithOwnerRef(n) ==
    LET k == Current(n).secret
        cached == cachedSecret[n][k]
        refs == WithOwner(cached.refs, work[n].pod)
        fits == cached # None /\ secret[k] # None /\ cached.current
    IN
    /\ work[n].pc = "patch"
    /\ \/ /\ fits
          /\ IF refs = secret[k].refs THEN UNCHANGED <<secret, cachedSecret>>
                                      ELSE WriteSecret(k, secret[k].keys, refs)
          /\ NextObject(n)
       \/ /\ ~fits
          /\ Retry(n)
          /\ UNCHANGED <<secret, cachedSecret>>
    /\ UNCHANGED <<podVars, class, status, cachedStatus, ready>>

\* A call to the API server fails: while the status or its class is read,
\* in secretExists (the loop goes on with the next object), or in one of the
\* functions under backoff.
ApiFails(n) ==
    /\ "api" \in Disturbance
    /\ \/ \E m \in ready[n] :
             /\ work[n].pc = "idle"
             /\ ready' = [ready EXCEPT ![n] = @ \ {m}]
             /\ Requeue(n, m)
       \/ /\ work[n].pc = "object" /\ work[n].todo # << >> /\ Current(n).valid
          /\ NextObject(n)
          /\ UNCHANGED ready
       \/ /\ work[n].pc \in {"create", "patch"}
          /\ Retry(n)
          /\ UNCHANGED ready
    /\ UNCHANGED <<podVars, apiVars, cacheVars>>

Worker(n) ==
    \/ ListFiles(n) \/ SyncObject(n) \/ CreateK8sSecret(n) \/ PatchSecretWithOwnerRef(n)

-----------------------------------------------------------------------------
(* controller-runtime: watches, timers, restart of the driver.             *)

SeeStatus(n, m) ==
    /\ cachedStatus[n][m] # Relevant(n, m)
    /\ cachedStatus' = [cachedStatus EXCEPT ![n][m] = Relevant(n, m)]
    /\ ready' = [ready EXCEPT ![n] = @ \cup {m}]
    /\ UNCHANGED <<podVars, apiVars, cachedSecret, delayed, work>>

SeeSecret(n, k) ==
    /\ cachedSecret[n][k] # CopyOf(k)
    /\ cachedSecret' = [cachedSecret EXCEPT ![n][k] = CopyOf(k)]
    /\ UNCHANGED <<podVars, apiVars, cachedStatus, queueVars, work>>

\* The informer's resync, or an update that changes nothing Reconcile reads.
Resync(n, m) ==
    /\ "resync" \in Disturbance
    /\ cachedStatus[n][m] # None
    /\ ready' = [ready EXCEPT ![n] = @ \cup {m}]
    /\ UNCHANGED <<podVars, apiVars, cacheVars, delayed, work>>

DelayEnds(n, m) ==
    /\ m \in delayed[n]
    /\ delayed' = [delayed EXCEPT ![n] = @ \ {m}]
    /\ ready' = [ready EXCEPT ![n] = @ \cup {m}]
    /\ UNCHANGED <<podVars, apiVars, cacheVars, work>>

Restart(n) ==
    /\ "restart" \in Disturbance
    /\ work' = [work EXCEPT ![n] = NoWork]
    /\ cachedStatus' = [cachedStatus EXCEPT ![n] = [m \in StatusName |-> Relevant(n, m)]]
    /\ cachedSecret' = [cachedSecret EXCEPT ![n] = [k \in Secret |-> CopyOf(k)]]
    /\ ready' = [ready EXCEPT ![n] = {m \in StatusName : Relevant(n, m) # None}]
    /\ delayed' = [delayed EXCEPT ![n] = {}]
    /\ UNCHANGED <<podVars, apiVars>>

-----------------------------------------------------------------------------
(* Pods, as NodePublishVolume and NodeUnpublishVolume see them.            *)

\* The volume is mounted and filled with what the provider has by then, be it
\* what the class names or not.  A pod takes a name only when the last pod of
\* that name is gone.
MountVolume(p) ==
    /\ pod[p] = "pending"
    /\ \A q \in Pod \ {p} : NameOf[q] = NameOf[p] => pod[q] \in {"pending", "gone"}
    /\ pod' = [pod EXCEPT ![p] = "mounted"]
    /\ \E files \in Content : vol' = [vol EXCEPT ![p] = files]
    /\ UNCHANGED <<apiVars, cacheVars, queueVars, work>>

\* createSecretProviderClassPodStatus: AlreadyExists counts as success.
CreatePodStatus(p) ==
    /\ pod[p] = "mounted"
    /\ pod' = [pod EXCEPT ![p] = "running"]
    /\ status' = IF status[NameOf[p]] = None
                 THEN [status EXCEPT ![NameOf[p]] = [pod |-> p, deleting |-> FALSE]]
                 ELSE status
    /\ UNCHANGED <<vol, class, secret, cacheVars, queueVars, work>>

TerminatePod(p) ==
    /\ "terminate" \in Disturbance
    /\ pod[p] = "running"
    /\ pod' = [pod EXCEPT ![p] = "terminating"]
    /\ UNCHANGED <<vol, apiVars, cacheVars, queueVars, work>>

\* CleanupMountPoint: first Unmount, which leaves an empty directory, then
\* Remove.
UnmountVolume(p) ==
    /\ pod[p] \in {"terminating", "gone"}
    /\ vol[p] # None
    /\ vol' = [vol EXCEPT ![p] = IF @ = {} THEN None ELSE {}]
    /\ UNCHANGED <<pod, apiVars, cacheVars, queueVars, work>>

\* The pod object goes, perhaps (forced) before its volume does.
RemovePod(p) ==
    /\ pod[p] = "terminating"
    /\ pod' = [pod EXCEPT ![p] = "gone"]
    /\ UNCHANGED <<vol, apiVars, cacheVars, queueVars, work>>

-----------------------------------------------------------------------------
(* The garbage collector, and users.                                       *)

\* The owner of a status is its pod.  It goes at once, or by way of a
\* deletionTimestamp.
CollectStatus(m) ==
    /\ status[m] # None /\ pod[status[m].pod] = "gone"
    /\ \/ status' = [status EXCEPT ![m] = None]
       \/ "slowDelete" \in Disturbance /\ ~status[m].deleting
          /\ status' = [status EXCEPT ![m].deleting = TRUE]
    /\ UNCHANGED <<podVars, class, secret, cacheVars, queueVars, work>>

\* A Secret goes when it has owners and none of them exists; dead references
\* are dropped from one that has a live owner.
CollectSecret(k) ==
    /\ secret[k] # None
    /\ \E p \in secret[k].refs : ~Live(p)
    /\ IF \E p \in secret[k].refs : Live(p)
       THEN WriteSecret(k, secret[k].keys, {p \in secret[k].refs : Live(p)})
       ELSE SetSecret(k, None)
    /\ UNCHANGED <<podVars, class, status, cachedStatus, queueVars, work>>

UserChangesSecret(k) ==
    /\ secret[k] # None
    /\ \/ "deleteSecret" \in Disturbance /\ SetSecret(k, None)
       \/ "stripRefs" \in Disturbance /\ WriteSecret(k, secret[k].keys, {})
       \/ "editData" \in Disturbance /\ WriteSecret(k, {}, secret[k].refs)
    /\ UNCHANGED <<podVars, class, status, cachedStatus, queueVars, work>>

UserSetsClass ==
    /\ "setClass" \in Disturbance
    /\ class' \in (Class \cup {None}) \ {class}
    /\ UNCHANGED <<podVars, status, secret, cacheVars, queueVars, work>>

\* What goes on for ever.
System ==
    \/ \E n \in Node : Worker(n)
    \/ \E n \in Node, m \in StatusName :
          Reconcile(n, m) \/ SeeStatus(n, m) \/ Resync(n, m) \/ DelayEnds(n, m)
    \/ \E n \in Node, k \in Secret : SeeSecret(n, k)
    \/ \E p \in Pod : \/ MountVolume(p) \/ CreatePodStatus(p) \/ TerminatePod(p)
                      \/ UnmountVolume(p) \/ RemovePod(p)
    \/ \E m \in StatusName : CollectStatus(m)
    \/ \E k \in Secret : CollectSecret(k)

Disturb ==
    \/ \E n \in Node : ApiFails(n) \/ Restart(n)
    \/ \E k \in Secret : UserChangesSecret(k)
    \/ UserSetsClass

Next == System \/ Disturb

Spec == Init /\ [][Next]_vars

-----------------------------------------------------------------------------
(* Safety.                                                                 *)

\* The merge patch that adds an owner reference replaces the whole list.  It
\* never drops the reference of another pod's status, however nodes that share
\* the Secret overlap and however old their caches are: a lost reference would
\* let the garbage collector delete a Secret that a running pod needs.
PatchKeepsOtherOwners ==
    [][\A n \in Node, k \in Secret :
          PatchSecretWithOwnerRef(n) /\ secret[k] # None
              => \A p \in secret[k].refs :
                    NameOf[p] # NameOf[work[n].pod]
                        => secret'[k] # None /\ p \in secret'[k].refs]_vars

\* The reconciler never changes the data of a Secret that exists, whoever made
\* it: createK8sSecret takes AlreadyExists for success and the patch only
\* touches owner references.  So a Secret of somebody else that has the same name
\* is safe.  It also means that data a user has modified stays modified, although
\* secretproviderclasspodstatus_controller.go:213 requeues "to check if secret and
\* ownerRef exists and haven't been modified": EditedDataIsRestored of
\* SecretSyncLive states that reading, and the code does not satisfy it.
DataIsNeverOverwritten ==
    [][\A n \in Node, k \in Secret :
          Worker(n) /\ secret[k] # None
              => secret'[k] # None /\ secret'[k].keys = secret[k].keys]_vars

\* A status that a node has cached as its own is never forgotten, whatever
\* fails: its name is queued, waits to be queued again, or is being worked on.
\* This is what makes "requeue the spc pod status again after 5mins"
\* (secretproviderclasspodstatus_controller.go:213) repair Secrets.  It needs
\* secretObjects in the class: without any, Reconcile drops the status.
NoStatusForgotten ==
    << >> \notin Class =>
        \A n \in Node, m \in StatusName :
            cachedStatus[n][m] # None
                => \/ m \in ready[n] \cup delayed[n]
                   \/ work[n].pc # "idle" /\ work[n].name = m

\* Every reconciler works for the pods of its own node only, whose volumes it can
\* read, and under their own status names, although it reads labels, name and
\* target path from a cache that lags; and no
\* Secret ever names an owner that was not there: each reference is to a pod
\* whose publish got as far as its status.
OwnersAreReal ==
    /\ \A n \in Node :
         work[n].pc # "idle" => NodeOf[work[n].pod] = n /\ NameOf[work[n].pod] = work[n].name
    /\ \A k \in Secret :
         secret[k] # None =>
             \A p \in secret[k].refs : pod[p] \in {"running", "terminating", "gone"}

\* For a pod that runs, a Secret is made with exactly the keys of the complete
\* entries whose object is in the pod's volume, although the listing is taken once
\* and used for all objects of the class (secretproviderclasspodstatus_controller.go:109),
\* reads come later, and volumes come and go.  An entry that is not complete, or
\* names an object that was not mounted, leaves its key out (lines 144 to 158); only
\* for a pod on its way out may others be missing.
CreatedWhole ==
    [][\A n \in Node :
          LET k == Current(n).secret
              p == work[n].pod
          IN CreateK8sSecret(n) /\ secret[k] = None
                => \/ /\ vol[p] # None
                      /\ secret'[k].keys = KeysOf(Found(Current(n).data, vol[p]))
                   \/ pod[p] \in {"terminating", "gone"}]_vars
=============================================================================
