-------------------------- MODULE SecretSyncProofs --------------------------
(***************************************************************************)
(* What the reconcilers never do, for any nodes, pods, Secrets and classes *)
(* and any of the disturbances.                                            *)
(***************************************************************************)
EXTENDS SecretSyncLive, TLAPS

-----------------------------------------------------------------------------
(* Types.  They hold only together with what the loop over secretObjects   *)
(* keeps: createK8sSecret and patchSecretWithOwnerRef run for an object.   *)

TodoLeft == \A n \in Node : work[n].pc \in {"create", "patch"} => work[n].todo # << >>

SyncTypeOK == TypeOK /\ TodoLeft

\* The locals of Reconcile.
WorkOK == work \in [Node -> Work] /\ TodoLeft

LEMMA NoWorkType == NoWork \in Work /\ NoWork.pc = "idle"
<1>1. StatusName # {}
  BY PodNonempty, NameOfType
<1>2. (CHOOSE m \in StatusName : TRUE) \in StatusName /\ (CHOOSE p \in Pod : TRUE) \in Pod
  BY <1>1, PodNonempty
<1>3. 0 \in 0..(BackoffSteps - 1)
  BY BackoffStepsType
<1> QED
  BY <1>2, <1>3 DEF NoWork, Work

LEMMA CurrentType ==
    ASSUME TypeOK, NEW n \in Node, work[n].todo # << >>
    PROVE  Current(n) \in SecretObject /\ Tail(work[n].todo) \in Seq(SecretObject)
<1>1. work[n].todo \in Seq(SecretObject)
  BY DEF TypeOK, Work
<1> QED
  BY <1>1 DEF Current

\* One worker sets its locals to w.
LEMMA SetWork ==
    ASSUME WorkOK, NEW n \in Node, NEW w \in Work, work' = [work EXCEPT ![n] = w],
           w.pc \in {"create", "patch"} => w.todo # << >>
    PROVE  WorkOK'
BY DEF WorkOK, TodoLeft

LEMMA RequeueType ==
    ASSUME SyncTypeOK, NEW n \in Node, NEW m \in StatusName, Requeue(n, m)
    PROVE  WorkOK' /\ delayed' \in [Node -> SUBSET StatusName]
BY NoWorkType, SetWork, ZenonT(60) DEF SyncTypeOK, TypeOK, WorkOK, Requeue

LEMMA NextObjectType ==
    ASSUME SyncTypeOK, NEW n \in Node, work[n].todo # << >>, NextObject(n)
    PROVE  WorkOK' /\ delayed' \in [Node -> SUBSET StatusName]
<1> DEFINE w == [work[n] EXCEPT !.pc = "object", !.todo = Tail(work[n].todo), !.keys = {},
                                !.tries = 0]
<1>1. work' = [work EXCEPT ![n] = w]
  BY ZenonT(60) DEF NextObject
<1>2. work[n] \in Work /\ Tail(work[n].todo) \in Seq(SecretObject)
  BY CurrentType DEF SyncTypeOK, TypeOK
<1>3. 0 \in 0..(BackoffSteps - 1)
  BY BackoffStepsType
<1>4. w \in Work /\ w.pc = "object"
  BY <1>2, <1>3, ZenonT(60) DEF Work
<1> QED
  BY <1>1, <1>4, SetWork, ZenonT(60) DEF SyncTypeOK, TypeOK, WorkOK, NextObject

LEMMA RetryType ==
    ASSUME SyncTypeOK, NEW n \in Node, Retry(n)
    PROVE  WorkOK' /\ delayed' \in [Node -> SUBSET StatusName]
<1>0. work[n] \in Work /\ work[n].name \in StatusName
  BY DEF SyncTypeOK, TypeOK, Work
<1>1. CASE work[n].tries + 1 < BackoffSteps
  <2> DEFINE w == [work[n] EXCEPT !.tries = work[n].tries + 1]
  <2>1. work' = [work EXCEPT ![n] = w] /\ UNCHANGED delayed
    BY <1>1 DEF Retry
  <2>2. work[n].tries + 1 \in 0..(BackoffSteps - 1)
    BY <1>0, <1>1, BackoffStepsType DEF Work
  <2>3. w \in Work /\ w.pc = work[n].pc /\ w.todo = work[n].todo
    BY <1>0, <2>2, ZenonT(60) DEF Work
  <2> QED
    BY <2>1, <2>3, SetWork DEF SyncTypeOK, TypeOK, WorkOK, TodoLeft
<1>2. CASE ~(work[n].tries + 1 < BackoffSteps)
  BY <1>0, <1>2, RequeueType DEF Retry
<1> QED
  BY <1>1, <1>2

LEMMA SetSecretType ==
    ASSUME TypeOK, NEW k \in Secret, NEW value \in SecretValue \cup {None}, SetSecret(k, value)
    PROVE  /\ secret' \in [Secret -> SecretValue \cup {None}]
           /\ cachedSecret' \in [Node -> [Secret -> SecretCopy \cup {None}]]
<1>1. ASSUME NEW n \in Node, cachedSecret[n][k] # None
      PROVE  [cachedSecret[n] EXCEPT ![k].current = FALSE] \in [Secret -> SecretCopy \cup {None}]
  <2>1. cachedSecret[n] \in [Secret -> SecretCopy \cup {None}] /\ cachedSecret[n][k] \in SecretCopy
    BY <1>1 DEF TypeOK
  <2>2. [cachedSecret[n][k] EXCEPT !.current = FALSE] \in SecretCopy
    BY <2>1, ZenonT(60) DEF SecretCopy
  <2> QED
    BY <2>1, <2>2
<1> QED
  BY <1>1 DEF SetSecret, TypeOK

LEMMA CopyOfType == ASSUME TypeOK, NEW k \in Secret PROVE CopyOf(k) \in SecretCopy \cup {None}
BY DEF TypeOK, CopyOf, SecretCopy, SecretValue

LEMMA RelevantType ==
    ASSUME TypeOK, NEW n, NEW m \in StatusName PROVE Relevant(n, m) \in Pod \cup {None}
BY DEF TypeOK, Relevant, StatusObject

LEMMA InitSyncTypeOK == Init => SyncTypeOK
<1> SUFFICES ASSUME Init PROVE SyncTypeOK
  OBVIOUS
<1>1. /\ status \in [StatusName -> {None}] /\ secret \in [Secret -> {None}]
      /\ cachedStatus \in [Node -> [StatusName -> {None}]]
      /\ cachedSecret \in [Node -> [Secret -> {None}]]
  BY DEF Init
<1>2. work \in [Node -> Work] /\ TodoLeft
  BY NoWorkType DEF Init, TodoLeft
<1>3. /\ pod \in [Pod -> PodPhase] /\ vol \in [Pod -> (SUBSET Object) \cup {None}]
      /\ class \in Class \cup {None}
      /\ ready \in [Node -> SUBSET StatusName] /\ delayed \in [Node -> SUBSET StatusName]
  BY DEF Init, PodPhase
<1> QED
  BY <1>1, <1>2, <1>3 DEF SyncTypeOK, TypeOK

\* The keys that a round of the loop finds files for.
FoundKeys(n) == KeysOf(Found(Current(n).data, work[n].files))

LEMMA FoundKeysType ==
    ASSUME TypeOK, NEW n \in Node, work[n].todo # << >>
    PROVE  FoundKeys(n) \in SUBSET Key
<1>1. Current(n).data \in SUBSET DataEntry
  BY CurrentType DEF SecretObject
<1> QED
  BY <1>1 DEF FoundKeys, KeysOf, Found, DataEntry

\* What is left to show of a step is the type of what it changes.
LEMMA WorkerTypes ==
    ASSUME SyncTypeOK, NEW n \in Node, Worker(n)
    PROVE  SyncTypeOK'
<1>t. work[n] \in Work /\ work[n].name \in StatusName /\ work[n].pod \in Pod
  BY DEF SyncTypeOK, TypeOK, Work
<1>w. WorkOK
  BY DEF SyncTypeOK, TypeOK, WorkOK
<1>1. CASE ListFiles(n)
  <2>1. CASE vol[work[n].pod] = None
    BY <1>1, <1>t, <2>1, RequeueType
       DEF ListFiles, SyncTypeOK, TypeOK, WorkOK, podVars, apiVars, cacheVars
  <2>2. CASE vol[work[n].pod] # None
    <3> DEFINE w == [work[n] EXCEPT !.pc = "object", !.files = vol[work[n].pod]]
    <3>1. work' = [work EXCEPT ![n] = w] /\ UNCHANGED delayed
      BY <1>1, <2>2, ZenonT(60) DEF ListFiles
    <3>2. w \in Work /\ w.pc = "object"
      BY <1>t, <2>2, ZenonT(60) DEF SyncTypeOK, TypeOK, Work
    <3>3. WorkOK'
      BY <1>w, <3>1, <3>2, SetWork, ZenonT(60)
    <3> QED
      BY <1>1, <3>1, <3>3 DEF ListFiles, SyncTypeOK, TypeOK, WorkOK, podVars, apiVars, cacheVars
  <2> QED
    BY <2>1, <2>2
<1>2. CASE SyncObject(n)
  <2>1. WorkOK' /\ delayed' \in [Node -> SUBSET StatusName]
    <3>1. CASE Requeue(n, work[n].name)
      BY <1>t, <3>1, RequeueType
    <3>2. CASE work[n].todo # << >> /\ NextObject(n)
      BY <3>2, NextObjectType
    <3>3. CASE work[n].todo # << >> /\ work' = [work EXCEPT ![n].pc = "patch"] /\ UNCHANGED delayed
      <4> DEFINE w == [work[n] EXCEPT !.pc = "patch"]
      <4>1. w \in Work /\ w.todo # << >>
        BY <1>t, <3>3 DEF Work
      <4> QED
        BY <1>w, <3>3, <4>1, SetWork, ZenonT(60) DEF SyncTypeOK, TypeOK
    <3>4. CASE /\ work[n].todo # << >> /\ UNCHANGED delayed
               /\ work' = [work EXCEPT ![n].pc = "create",
                                       ![n].keys = FoundKeys(n)]
      <4> DEFINE w == [work[n] EXCEPT !.pc = "create",
                                      !.keys = FoundKeys(n)]
      <4>0. FoundKeys(n) \in SUBSET Key
        BY <3>4, FoundKeysType DEF SyncTypeOK
      <4>1. w \in Work /\ w.todo # << >>
        BY <1>t, <3>4, <4>0, ZenonT(60) DEF Work
      <4>2. work' = [work EXCEPT ![n] = w]
        BY <3>4, ZenonT(60)
      <4> QED
        BY <1>w, <3>4, <4>1, <4>2, SetWork, ZenonT(60) DEF SyncTypeOK, TypeOK
    <3> QED
      BY <1>2, <3>1, <3>2, <3>3, <3>4, ZenonT(60) DEF SyncObject, FoundKeys
  <2> QED
    BY <1>2, <2>1 DEF SyncObject, SyncTypeOK, TypeOK, WorkOK, podVars, apiVars, cacheVars
<1>3. CASE CreateK8sSecret(n)
  <2>1. work[n].todo # << >> /\ Current(n).secret \in Secret
    BY <1>3, CurrentType DEF CreateK8sSecret, SyncTypeOK, TodoLeft, SecretObject
  <2>2. [keys |-> work[n].keys, refs |-> {}] \in SecretValue
    BY <1>t DEF Work, SecretValue
  <2>3. /\ secret' \in [Secret -> SecretValue \cup {None}]
        /\ cachedSecret' \in [Node -> [Secret -> SecretCopy \cup {None}]]
    BY <1>3, <2>1, <2>2, SetSecretType DEF CreateK8sSecret, WriteSecret, SyncTypeOK, TypeOK
  <2>4. WorkOK'
    <3> DEFINE w == [work[n] EXCEPT !.pc = "patch", !.tries = 0]
    <3>1. 0 \in 0..(BackoffSteps - 1)
      BY BackoffStepsType
    <3>2. w \in Work /\ w.todo # << >>
      BY <1>t, <2>1, <3>1, ZenonT(60) DEF Work
    <3> QED
      BY <1>w, <1>3, <3>2, SetWork, ZenonT(60) DEF CreateK8sSecret
  <2> QED
    BY <1>3, <2>3, <2>4 DEF CreateK8sSecret, SyncTypeOK, TypeOK, WorkOK, podVars, queueVars
<1>4. CASE PatchSecretWithOwnerRef(n)
  <2> DEFINE k == Current(n).secret
             cached == cachedSecret[n][k]
  <2>1. work[n].todo # << >> /\ k \in Secret
    BY <1>4, CurrentType DEF PatchSecretWithOwnerRef, SyncTypeOK, TodoLeft, SecretObject
  <2>2. WorkOK' /\ delayed' \in [Node -> SUBSET StatusName]
    BY <1>4, <2>1, NextObjectType, RetryType DEF PatchSecretWithOwnerRef
  <2>3. cached # None => WithOwner(cached.refs, work[n].pod) \in SUBSET Pod
    BY <1>t, <2>1 DEF WithOwner, SyncTypeOK, TypeOK, SecretCopy
  <2>4. secret[k] # None => secret[k].keys \in SUBSET Key
    BY <2>1 DEF SyncTypeOK, TypeOK, SecretValue
  <2>5. /\ secret' \in [Secret -> SecretValue \cup {None}]
        /\ cachedSecret' \in [Node -> [Secret -> SecretCopy \cup {None}]]
    <3>1. CASE UNCHANGED <<secret, cachedSecret>>
      BY <3>1 DEF SyncTypeOK, TypeOK
    <3>2. CASE /\ cached # None /\ secret[k] # None
               /\ WriteSecret(k, secret[k].keys, WithOwner(cached.refs, work[n].pod))
      <4>1. [keys |-> secret[k].keys, refs |-> WithOwner(cached.refs, work[n].pod)] \in SecretValue
        BY <2>3, <2>4, <3>2 DEF SecretValue
      <4> QED
        BY <2>1, <3>2, <4>1, SetSecretType DEF WriteSecret, SyncTypeOK
    <3> QED
      BY <1>4, <3>1, <3>2 DEF PatchSecretWithOwnerRef
  <2> QED
    BY <1>4, <2>2, <2>5 DEF PatchSecretWithOwnerRef, SyncTypeOK, TypeOK, WorkOK, podVars
<1> QED
  BY <1>1, <1>2, <1>3, <1>4 DEF Worker
\* The queue and the watches.
LEMMA RuntimeTypes ==
    ASSUME SyncTypeOK, NEW n \in Node,
           \/ \E m \in StatusName : \/ Reconcile(n, m) \/ SeeStatus(n, m) \/ Resync(n, m)
                                    \/ DelayEnds(n, m)
           \/ \E k \in Secret : SeeSecret(n, k)
           \/ ApiFails(n) \/ Restart(n)
    PROVE  SyncTypeOK'
<1>t. TypeOK /\ WorkOK
  BY ZenonT(60) DEF SyncTypeOK, TypeOK, WorkOK
<1>1. ASSUME NEW m \in StatusName, Reconcile(n, m) PROVE SyncTypeOK'
  <2>1. ready' \in [Node -> SUBSET StatusName]
    BY <1>1, <1>t, ZenonT(60) DEF Reconcile, TypeOK
  <2>2. WorkOK' /\ delayed' \in [Node -> SUBSET StatusName]
    <3> DEFINE p == cachedStatus[n][m]
               w == [NoWork EXCEPT !.pc = "list", !.name = m, !.pod = p, !.todo = class]
    <3>1. CASE UNCHANGED <<delayed, work>>
      BY <1>t, <3>1 DEF WorkOK, TodoLeft, TypeOK
    <3>2. CASE Requeue(n, m)
      BY <3>2, RequeueType
    <3>3. CASE /\ p # None /\ class # None /\ work' = [work EXCEPT ![n] = w]
               /\ UNCHANGED delayed
      <4>1. p \in Pod /\ class \in Seq(SecretObject)
        BY <1>t, <3>3, ClassType DEF TypeOK
      <4>2. w \in Work /\ w.pc = "list"
        BY <4>1, NoWorkType, ZenonT(60) DEF Work
      <4> QED
        BY <1>t, <3>3, <4>2, SetWork, ZenonT(60) DEF TypeOK
    <3> QED
      BY <1>1, <3>1, <3>2, <3>3, ZenonT(60) DEF Reconcile
  <2> QED
    BY <1>1, <1>t, <2>1, <2>2, ZenonT(60)
       DEF Reconcile, SyncTypeOK, TypeOK, WorkOK, podVars, apiVars, cacheVars
<1>2. ASSUME NEW m \in StatusName, SeeStatus(n, m) PROVE SyncTypeOK'
  <2>1. /\ ready' \in [Node -> SUBSET StatusName]
        /\ cachedStatus' \in [Node -> [StatusName -> Pod \cup {None}]]
    BY <1>2, <1>t, RelevantType, ZenonT(60) DEF SeeStatus, TypeOK
  <2> QED
    BY <1>2, <1>t, <2>1, ZenonT(60) DEF SeeStatus, SyncTypeOK, TypeOK, TodoLeft, podVars, apiVars
<1>3. ASSUME NEW m \in StatusName, Resync(n, m) \/ DelayEnds(n, m) PROVE SyncTypeOK'
  <2>0. /\ ready' = [ready EXCEPT ![n] = ready[n] \cup {m}]
        /\ delayed' = delayed \/ delayed' = [delayed EXCEPT ![n] = delayed[n] \ {m}]
    BY <1>3 DEF Resync, DelayEnds
  <2>t. ready \in [Node -> SUBSET StatusName] /\ delayed \in [Node -> SUBSET StatusName]
    BY <1>t DEF TypeOK
  <2>1. ready' \in [Node -> SUBSET StatusName]
    BY <2>t, <2>0
  <2>2. delayed' \in [Node -> SUBSET StatusName]
    BY <2>t, <2>0, ZenonT(60)
  <2> QED
    BY <1>3, <1>t, <2>1, <2>2
       DEF Resync, DelayEnds, SyncTypeOK, TypeOK, TodoLeft, podVars, apiVars, cacheVars
<1>4. ASSUME NEW k \in Secret, SeeSecret(n, k) PROVE SyncTypeOK'
  <2>1. cachedSecret' \in [Node -> [Secret -> SecretCopy \cup {None}]]
    BY <1>4, <1>t, CopyOfType, ZenonT(60) DEF SeeSecret, TypeOK
  <2> QED
    BY <1>4, <1>t, <2>1 DEF SeeSecret, SyncTypeOK, TypeOK, TodoLeft, podVars, apiVars, queueVars
<1>5. CASE ApiFails(n)
  <2>1. ready' \in [Node -> SUBSET StatusName]
    BY <1>5, <1>t DEF ApiFails, TypeOK
  <2>2. ready[n] \subseteq StatusName
    BY <1>t, ZenonT(60) DEF TypeOK
  <2>3. WorkOK' /\ delayed' \in [Node -> SUBSET StatusName]
    BY <1>5, <2>2, RequeueType, NextObjectType, RetryType DEF ApiFails
  <2> QED
    BY <1>5, <1>t, <2>1, <2>3, ZenonT(60)
       DEF ApiFails, SyncTypeOK, TypeOK, WorkOK, podVars, apiVars, cacheVars
<1>6. CASE Restart(n)
  <2>1. WorkOK'
    BY <1>6, <1>t, NoWorkType, SetWork, ZenonT(60) DEF Restart
  <2>2. /\ cachedStatus' \in [Node -> [StatusName -> Pod \cup {None}]]
        /\ cachedSecret' \in [Node -> [Secret -> SecretCopy \cup {None}]]
    BY <1>6, <1>t, RelevantType, CopyOfType DEF Restart, TypeOK
  <2>3. /\ ready' \in [Node -> SUBSET StatusName] /\ delayed' \in [Node -> SUBSET StatusName]
    BY <1>6, <1>t DEF Restart, TypeOK
  <2> QED
    BY <1>6, <1>t, <2>1, <2>2, <2>3 DEF Restart, SyncTypeOK, TypeOK, WorkOK, podVars, apiVars
<1> QED
  BY <1>1, <1>2, <1>3, <1>4, <1>5, <1>6

\* Pods, the garbage collector and users.
LEMMA OutsideTypes ==
    ASSUME SyncTypeOK,
           \/ \E p \in Pod : \/ MountVolume(p) \/ CreatePodStatus(p) \/ TerminatePod(p)
                             \/ UnmountVolume(p) \/ RemovePod(p)
           \/ \E m \in StatusName : CollectStatus(m)
           \/ \E k \in Secret : CollectSecret(k) \/ UserChangesSecret(k)
           \/ UserSetsClass
    PROVE  SyncTypeOK'
<1>t. TypeOK /\ TodoLeft
  BY ZenonT(60) DEF SyncTypeOK
<1>1. ASSUME NEW p \in Pod, MountVolume(p) \/ TerminatePod(p) \/ UnmountVolume(p) \/ RemovePod(p)
      PROVE  SyncTypeOK'
  <2>1. pod' \in [Pod -> PodPhase] /\ vol' \in [Pod -> (SUBSET Object) \cup {None}]
    <3>1. CASE MountVolume(p)
      <4>1. PICK files \in Content : vol' = [vol EXCEPT ![p] = files]
        BY <3>1, ZenonT(60) DEF MountVolume
      <4>2. files \in SUBSET Object
        BY ContentType
      <4> QED
        BY <1>t, <3>1, <4>1, <4>2, ZenonT(60) DEF MountVolume, TypeOK, PodPhase
    <3>2. CASE TerminatePod(p) \/ UnmountVolume(p) \/ RemovePod(p)
      BY <1>t, <3>2, ZenonT(60) DEF TerminatePod, UnmountVolume, RemovePod, TypeOK, PodPhase
    <3> QED
      BY <1>1, <3>1, <3>2, ZenonT(60)
  <2>2. UNCHANGED <<class, status, secret, cachedStatus, cachedSecret, ready, delayed, work>>
    BY <1>1, ZenonT(60)
       DEF MountVolume, TerminatePod, UnmountVolume, RemovePod, apiVars, cacheVars, queueVars
  <2> QED
    BY <1>t, <2>1, <2>2 DEF SyncTypeOK, TypeOK, TodoLeft
<1>2. ASSUME NEW p \in Pod, CreatePodStatus(p) PROVE SyncTypeOK'
  <2>1. pod' \in [Pod -> PodPhase]
    BY <1>2, <1>t, ZenonT(60) DEF CreatePodStatus, TypeOK, PodPhase
  <2>2. status' \in [StatusName -> StatusObject \cup {None}]
    BY <1>2, <1>t, NameOfType DEF CreatePodStatus, TypeOK, StatusObject
  <2> QED
    BY <1>2, <1>t, <2>1, <2>2, ZenonT(60)
       DEF CreatePodStatus, SyncTypeOK, TypeOK, TodoLeft, cacheVars, queueVars
<1>3. ASSUME NEW m \in StatusName, CollectStatus(m) PROVE SyncTypeOK'
  <2>0. status[m] \in StatusObject
    BY <1>3, <1>t DEF CollectStatus, TypeOK
  <2>1. [status[m] EXCEPT !.deleting = TRUE] \in StatusObject
    BY <2>0, ZenonT(60) DEF StatusObject
  <2>2. status' \in [StatusName -> StatusObject \cup {None}]
    BY <1>3, <1>t, <2>1, ZenonT(60) DEF CollectStatus, TypeOK
  <2> QED
    BY <1>3, <1>t, <2>2
       DEF CollectStatus, SyncTypeOK, TypeOK, TodoLeft, podVars, cacheVars, queueVars
<1>4. ASSUME NEW k \in Secret, CollectSecret(k) \/ UserChangesSecret(k) PROVE SyncTypeOK'
  <2>1. secret[k] \in SecretValue
    BY <1>4, <1>t, ZenonT(60) DEF CollectSecret, UserChangesSecret, TypeOK
  <2>2. ASSUME NEW keys \in SUBSET Key, NEW refs \in SUBSET Pod, WriteSecret(k, keys, refs)
        PROVE  /\ secret' \in [Secret -> SecretValue \cup {None}]
               /\ cachedSecret' \in [Node -> [Secret -> SecretCopy \cup {None}]]
    <3>1. [keys |-> keys, refs |-> refs] \in SecretValue
      BY ZenonT(60) DEF SecretValue
    <3> QED
      BY <1>t, <2>2, <3>1, SetSecretType DEF WriteSecret
  <2>3. /\ secret' \in [Secret -> SecretValue \cup {None}]
        /\ cachedSecret' \in [Node -> [Secret -> SecretCopy \cup {None}]]
    <3>1. /\ secret[k].keys \in SUBSET Key /\ secret[k].refs \in SUBSET Pod
          /\ {p \in secret[k].refs : Live(p)} \in SUBSET Pod
      BY <2>1 DEF SecretValue
    <3>2. CASE SetSecret(k, None)
      BY <1>t, <3>2, SetSecretType
    <3>3. CASE WriteSecret(k, secret[k].keys, {p \in secret[k].refs : Live(p)})
      BY <2>2, <3>1, <3>3, ZenonT(60)
    <3>4. CASE WriteSecret(k, secret[k].keys, {}) \/ WriteSecret(k, {}, secret[k].refs)
      BY <2>2, <3>1, <3>4, SMTT(30)
    <3> QED
      BY <1>4, <3>2, <3>3, <3>4, ZenonT(60) DEF CollectSecret, UserChangesSecret
  <2> QED
    BY <1>4, <1>t, <2>3, ZenonT(60)
       DEF CollectSecret, UserChangesSecret, SyncTypeOK, TypeOK, TodoLeft, podVars, queueVars
<1>5. CASE UserSetsClass
  BY <1>5, <1>t, ZenonT(60)
     DEF UserSetsClass, SyncTypeOK, TypeOK, TodoLeft, podVars, cacheVars, queueVars
<1> QED
  BY <1>1, <1>2, <1>3, <1>4, <1>5

LEMMA NextSyncTypeOK == SyncTypeOK /\ [Next]_vars => SyncTypeOK'
<1>1. SyncTypeOK /\ UNCHANGED vars => SyncTypeOK'
  BY DEF SyncTypeOK, TypeOK, TodoLeft, vars, podVars, apiVars, cacheVars, queueVars
<1> QED
  BY <1>1, WorkerTypes, RuntimeTypes, OutsideTypes, ZenonT(60) DEF Next, System, Disturb

\* All state of the reconcilers is well typed: in particular no function under
\* ExponentialBackoff is tried more often than the backoff has steps.
THEOREM SyncTypeCorrect == Spec => []TypeOK
<1>1. SyncTypeOK => TypeOK
  BY DEF SyncTypeOK
<1> QED
  BY <1>1, InitSyncTypeOK, NextSyncTypeOK, PTL DEF Spec

-----------------------------------------------------------------------------
(* Owner references.                                                       *)

\* A cached copy that is current has the references of the Secret: this is what
\* the optimistic lock of the patch rests on.
CurrentCopies ==
    \A n \in Node, k \in Secret :
        cachedSecret[n][k] # None /\ cachedSecret[n][k].current
            => secret[k] # None /\ cachedSecret[n][k].refs = secret[k].refs

LEMMA SetSecretCopies ==
    ASSUME TypeOK, CurrentCopies, NEW k \in Secret, NEW value, SetSecret(k, value)
    PROVE  CurrentCopies'
<1> SUFFICES ASSUME NEW n \in Node, NEW j \in Secret, cachedSecret'[n][j] # None,
                    cachedSecret'[n][j].current
             PROVE  secret'[j] # None /\ cachedSecret'[n][j].refs = secret'[j].refs
  BY DEF CurrentCopies
<1>1. cachedSecret[n] \in [Secret -> SecretCopy \cup {None}]
  BY DEF TypeOK
<1>2. CASE cachedSecret[n][k] = None
  <2>1. cachedSecret'[n] = cachedSecret[n] /\ j # k
    BY <1>2 DEF SetSecret
  <2> QED
    BY <2>1 DEF SetSecret, TypeOK, CurrentCopies
<1>3. CASE cachedSecret[n][k] # None
  <2>1. cachedSecret'[n] = [cachedSecret[n] EXCEPT ![k] = [cachedSecret[n][k] EXCEPT !.current = FALSE]]
    BY <1>3 DEF SetSecret
  <2>2. [cachedSecret[n][k] EXCEPT !.current = FALSE].current = FALSE
    BY <1>1, <1>3 DEF SecretCopy
  <2>3. j # k
    BY <1>1, <2>1, <2>2
  <2>4. cachedSecret'[n][j] = cachedSecret[n][j] /\ secret'[j] = secret[j]
    BY <1>1, <2>1, <2>3 DEF SetSecret, TypeOK
  <2> QED
    BY <2>4 DEF CurrentCopies
<1> QED
  BY <1>2, <1>3

\* Who writes Secrets, and who reads them anew.
LEMMA SecretSteps ==
    ASSUME SyncTypeOK, [Next]_vars
    PROVE  \/ UNCHANGED <<secret, cachedSecret>>
           \/ \E k \in Secret : \E value : SetSecret(k, value)
           \/ \E n \in Node : Restart(n) \/ \E k \in Secret : SeeSecret(n, k)
<1> DEFINE Goal == \/ UNCHANGED <<secret, cachedSecret>>
                   \/ \E k \in Secret : \E value : SetSecret(k, value)
                   \/ \E n \in Node : Restart(n) \/ \E k \in Secret : SeeSecret(n, k)
<1>1. ASSUME NEW n \in Node, CreateK8sSecret(n) \/ PatchSecretWithOwnerRef(n) PROVE Goal
  <2>1. Current(n).secret \in Secret
    BY <1>1, CurrentType, ZenonT(60)
       DEF CreateK8sSecret, PatchSecretWithOwnerRef, SyncTypeOK, TodoLeft, SecretObject
  <2> QED
    BY <1>1, <2>1 DEF CreateK8sSecret, PatchSecretWithOwnerRef, WriteSecret
<1>2. ASSUME NEW k \in Secret, CollectSecret(k) \/ UserChangesSecret(k) PROVE Goal
  BY <1>2 DEF CollectSecret, UserChangesSecret, WriteSecret
<1>3. ASSUME NEW n \in Node, ListFiles(n) \/ SyncObject(n) \/ ApiFails(n)
      PROVE  UNCHANGED <<secret, cachedSecret>>
  BY <1>3 DEF ListFiles, SyncObject, ApiFails, apiVars, cacheVars
<1>4. ASSUME NEW n \in Node, NEW m \in StatusName,
             Reconcile(n, m) \/ SeeStatus(n, m) \/ Resync(n, m) \/ DelayEnds(n, m)
      PROVE  UNCHANGED <<secret, cachedSecret>>
  BY <1>4 DEF Reconcile, SeeStatus, Resync, DelayEnds, apiVars, cacheVars
<1>5. ASSUME NEW p \in Pod, \/ MountVolume(p) \/ CreatePodStatus(p) \/ TerminatePod(p)
                            \/ UnmountVolume(p) \/ RemovePod(p)
      PROVE  UNCHANGED <<secret, cachedSecret>>
  BY <1>5
     DEF MountVolume, CreatePodStatus, TerminatePod, UnmountVolume, RemovePod, apiVars, cacheVars
<1>6. ASSUME (\E m \in StatusName : CollectStatus(m)) \/ UserSetsClass \/ UNCHANGED vars
      PROVE  UNCHANGED <<secret, cachedSecret>>
  BY <1>6 DEF CollectStatus, UserSetsClass, cacheVars, apiVars, vars
<1> QED
  BY <1>1, <1>2, <1>3, <1>4, <1>5, <1>6 DEF Next, System, Disturb, Worker

LEMMA InitCopies == Init => CurrentCopies
BY DEF Init, CurrentCopies

LEMMA NextCopies == SyncTypeOK /\ CurrentCopies /\ [Next]_vars => CurrentCopies'
<1> SUFFICES ASSUME SyncTypeOK, CurrentCopies, [Next]_vars PROVE CurrentCopies'
  OBVIOUS
<1>t. TypeOK
  BY DEF SyncTypeOK
<1>1. \A k \in Secret : CopyOf(k) # None => secret[k] # None /\ CopyOf(k).refs = secret[k].refs
  BY DEF CopyOf
<1>2. CASE UNCHANGED <<secret, cachedSecret>>
  BY <1>2 DEF CurrentCopies
<1>3. ASSUME NEW n \in Node, NEW j \in Secret, SeeSecret(n, j) PROVE CurrentCopies'
  <2>1. /\ cachedSecret'[n][j] = CopyOf(j) /\ UNCHANGED secret
        /\ \A i \in Node, k \in Secret :
              <<i, k>> # <<n, j>> => cachedSecret'[i][k] = cachedSecret[i][k]
    BY <1>3, <1>t DEF SeeSecret, apiVars, TypeOK
  <2> QED
    BY <1>1, <2>1 DEF CurrentCopies
<1>4. ASSUME NEW n \in Node, Restart(n) PROVE CurrentCopies'
  <2>1. /\ \A k \in Secret : cachedSecret'[n][k] = CopyOf(k)
        /\ \A i \in Node \ {n} : cachedSecret'[i] = cachedSecret[i]
        /\ UNCHANGED secret
    BY <1>4, <1>t DEF Restart, apiVars, TypeOK
  <2> QED
    BY <1>1, <2>1 DEF CurrentCopies
<1> QED
  BY <1>t, <1>2, <1>3, <1>4, SecretSteps, SetSecretCopies

\* The patch of an owner reference never drops the reference of a status with
\* another name, for any number of nodes that share the Secret and caches of
\* any age.
THEOREM OtherOwnersAreKept == Spec => PatchKeepsOtherOwners
<1>1. ASSUME SyncTypeOK, CurrentCopies, NEW n \in Node, NEW k \in Secret,
             PatchSecretWithOwnerRef(n), secret[k] # None, NEW p \in secret[k].refs,
             NameOf[p] # NameOf[work[n].pod]
      PROVE  secret'[k] # None /\ p \in secret'[k].refs
  <2> DEFINE j == Current(n).secret
             cached == cachedSecret[n][j]
             value == [keys |-> secret[j].keys, refs |-> WithOwner(cached.refs, work[n].pod)]
  <2>1. j \in Secret /\ work[n].pod \in Pod
    BY <1>1, CurrentType, ZenonT(60)
       DEF PatchSecretWithOwnerRef, SyncTypeOK, TodoLeft, SecretObject, TypeOK, Work
  <2>2. CASE secret'[k] = secret[k]
    BY <1>1, <2>2
  <2>3. CASE /\ cached # None /\ secret[j] # None /\ cached.current
             /\ secret' = [secret EXCEPT ![j] = value]
    <3>1. CASE k # j
      BY <1>1, <2>3, <3>1 DEF SyncTypeOK, TypeOK
    <3>2. CASE k = j
      <4>1. cached.refs = secret[j].refs
        BY <1>1, <2>1, <2>3, ZenonT(60) DEF CurrentCopies
      <4>2. secret[j] \in SecretValue
        BY <2>1, <2>3 , <1>1 DEF SyncTypeOK, TypeOK
      <4>3. value \in SecretValue
        BY <2>1, <4>1, <4>2, ZenonT(60) DEF SecretValue, WithOwner
      <4>4. secret'[k] = value /\ value # None
        BY <1>1, <2>3, <3>2, <4>3, NoneType, ZenonT(60) DEF SyncTypeOK, TypeOK
      <4>5. p \in WithOwner(cached.refs, work[n].pod)
        BY <1>1, <3>2, <4>1 DEF WithOwner
      <4> QED
        BY <4>4, <4>5
    <3> QED
      BY <3>1, <3>2
  <2> QED
    BY <1>1, <2>2, <2>3, ZenonT(60) DEF PatchSecretWithOwnerRef, WriteSecret, SetSecret
<1>2. SyncTypeOK /\ CurrentCopies =>
        \A n \in Node, k \in Secret :
            PatchSecretWithOwnerRef(n) /\ secret[k] # None
                => \A p \in secret[k].refs :
                      NameOf[p] # NameOf[work[n].pod]
                          => secret'[k] # None /\ p \in secret'[k].refs
  BY <1>1
<1> QED
  BY <1>2, InitSyncTypeOK, NextSyncTypeOK, InitCopies, NextCopies, PTL
     DEF Spec, PatchKeepsOtherOwners

\* No reconciler changes the data of a Secret that exists, or deletes it.
THEOREM DataStays == Spec => DataIsNeverOverwritten
<1>1. ASSUME SyncTypeOK, NEW n \in Node, NEW k \in Secret, Worker(n), secret[k] # None
      PROVE  secret'[k] # None /\ secret'[k].keys = secret[k].keys
  <2>1. CASE ListFiles(n) \/ SyncObject(n)
    BY <1>1, <2>1 DEF ListFiles, SyncObject, apiVars
  <2>2. CASE CreateK8sSecret(n)
    BY <1>1, <2>2, ZenonT(60) DEF CreateK8sSecret, WriteSecret, SetSecret, SyncTypeOK, TypeOK
  <2>3. CASE PatchSecretWithOwnerRef(n)
    <3> DEFINE j == Current(n).secret
               value == [keys |-> secret[j].keys,
                         refs |-> WithOwner(cachedSecret[n][j].refs, work[n].pod)]
    <3>1. j \in Secret /\ work[n].pod \in Pod
      BY <1>1, <2>3, CurrentType, ZenonT(60)
         DEF PatchSecretWithOwnerRef, SyncTypeOK, TodoLeft, SecretObject, TypeOK, Work
    <3>2. CASE UNCHANGED secret
      BY <1>1, <3>2
    <3>3. CASE /\ cachedSecret[n][j] # None /\ secret[j] # None
               /\ secret' = [secret EXCEPT ![j] = value]
      <4>1. value \in SecretValue
        BY <1>1, <3>1, <3>3 DEF SyncTypeOK, TypeOK, SecretValue, SecretCopy, WithOwner
      <4> QED
        BY <1>1, <3>3, <4>1, NoneType, ZenonT(60) DEF SyncTypeOK, TypeOK
    <3> QED
      BY <2>3, <3>2, <3>3 DEF PatchSecretWithOwnerRef, WriteSecret, SetSecret
  <2> QED
    BY <1>1, <2>1, <2>2, <2>3 DEF Worker
<1>2. SyncTypeOK =>
        \A n \in Node, k \in Secret :
            Worker(n) /\ secret[k] # None
                => secret'[k] # None /\ secret'[k].keys = secret[k].keys
  BY <1>1
<1> QED
  BY <1>2, InitSyncTypeOK, NextSyncTypeOK, PTL DEF Spec, DataIsNeverOverwritten

-----------------------------------------------------------------------------
(* The queue.                                                              *)

\* How a worker leaves a step: it goes on with the same status, or puts it off.
GoesOn(n) ==
    /\ work'[n].pc # "idle"
    /\ work'[n].name = work[n].name /\ work'[n].pod = work[n].pod
    /\ UNCHANGED delayed

LEMMA NextObjectGoesOn == ASSUME TypeOK, NEW n \in Node, NextObject(n) PROVE GoesOn(n)
<1>1. work[n] \in Work
  BY DEF TypeOK
<1>2. work'[n] = [work[n] EXCEPT !.pc = "object", !.todo = Tail(work[n].todo), !.keys = {},
                                 !.tries = 0]
  BY DEF NextObject, TypeOK
<1>3. /\ work'[n].pc = "object"
      /\ work'[n].name = work[n].name /\ work'[n].pod = work[n].pod
  BY <1>1, <1>2 DEF Work
<1> QED
  BY <1>3 DEF GoesOn, NextObject

LEMMA RetryGoesOn ==
    ASSUME TypeOK, NEW n \in Node, work[n].pc # "idle", Retry(n)
    PROVE  GoesOn(n) \/ Requeue(n, work[n].name)
<1>1. CASE work[n].tries + 1 < BackoffSteps
  <2>1. work[n] \in Work
    BY DEF TypeOK
  <2>2. work'[n] = [work[n] EXCEPT !.tries = work[n].tries + 1] /\ UNCHANGED delayed
    BY <1>1, ZenonT(60) DEF Retry, TypeOK
  <2> QED
    BY <2>1, <2>2 DEF GoesOn, Work
<1> QED
  BY <1>1 DEF Retry

LEMMA WorkerGoesOn ==
    ASSUME SyncTypeOK, NEW n \in Node, Worker(n)
    PROVE  /\ UNCHANGED <<cachedStatus, ready>>
           /\ work[n].pc # "idle"
           /\ \A i \in Node \ {n} : work'[i] = work[i]
           /\ GoesOn(n) \/ Requeue(n, work[n].name)
<1>t. TypeOK /\ work[n] \in Work /\ work \in [Node -> Work]
  BY DEF SyncTypeOK, TypeOK
<1>1. UNCHANGED <<cachedStatus, ready>> /\ work[n].pc # "idle"
  BY DEF Worker, ListFiles, SyncObject, CreateK8sSecret, PatchSecretWithOwnerRef, cacheVars, queueVars
<1>2. CASE ListFiles(n)
  <2>1. CASE Requeue(n, work[n].name)
    BY <1>1, <1>t, <2>1 DEF Requeue
  <2>2. CASE /\ work' = [work EXCEPT ![n].pc = "object", ![n].files = vol[work[n].pod]]
             /\ UNCHANGED delayed
    BY <1>1, <1>t, <2>2 DEF GoesOn, Work
  <2> QED
    BY <1>2, <2>1, <2>2 DEF ListFiles
<1>3. CASE SyncObject(n)
  <2>1. CASE Requeue(n, work[n].name)
    BY <1>1, <1>t, <2>1 DEF Requeue
  <2>2. CASE NextObject(n)
    BY <1>1, <1>t, <2>2, NextObjectGoesOn, ZenonT(60) DEF NextObject
  <2>3. CASE work' = [work EXCEPT ![n].pc = "patch"] /\ UNCHANGED delayed
    BY <1>1, <1>t, <2>3 DEF GoesOn, Work
  <2>4. CASE /\ work' = [work EXCEPT ![n].pc = "create",
                                     ![n].keys = FoundKeys(n)]
             /\ UNCHANGED delayed
    BY <1>1, <1>t, <2>4 DEF GoesOn, Work
  <2> QED
    BY <1>3, <2>1, <2>2, <2>3, <2>4, ZenonT(60) DEF SyncObject, FoundKeys
<1>4. CASE CreateK8sSecret(n)
  <2>1. work' = [work EXCEPT ![n].pc = "patch", ![n].tries = 0] /\ UNCHANGED delayed
    BY <1>4 DEF CreateK8sSecret, queueVars
  <2> QED
    BY <1>1, <1>t, <2>1 DEF GoesOn, Work
<1>5. CASE PatchSecretWithOwnerRef(n)
  <2>1. NextObject(n) \/ Retry(n)
    BY <1>5 DEF PatchSecretWithOwnerRef
  <2>2. \A i \in Node \ {n} : work'[i] = work[i]
    BY <1>t, <2>1 DEF NextObject, Retry, Requeue
  <2> QED
    BY <1>1, <1>t, <2>1, <2>2, NextObjectGoesOn, RetryGoesOn, ZenonT(60)
<1> QED
  BY <1>2, <1>3, <1>4, <1>5 DEF Worker

\* The status is not forgotten.
Kept(n, m) ==
    cachedStatus[n][m] # None =>
        \/ m \in ready[n] \cup delayed[n]
        \/ work[n].pc # "idle" /\ work[n].name = m

AllKept == \A n \in Node, m \in StatusName : Kept(n, m)

\* Worker n puts m off or goes on with its status, and touches nothing else.
LEMMA WorkKept ==
    ASSUME TypeOK, AllKept, NEW n \in Node, UNCHANGED cachedStatus,
           \A i \in Node \ {n} : work'[i] = work[i] /\ ready'[i] = ready[i],
           \/ GoesOn(n) /\ ready'[n] = ready[n]
           \/ \E m \in StatusName :
                 /\ Requeue(n, m)
                 /\ ready[n] \ {m} \subseteq ready'[n]
                 /\ work[n].pc # "idle" => m = work[n].name
    PROVE  AllKept'
<1>1. CASE GoesOn(n) /\ ready'[n] = ready[n]
  BY <1>1 DEF AllKept, Kept, GoesOn
<1>2. ASSUME NEW m \in StatusName, Requeue(n, m), ready[n] \ {m} \subseteq ready'[n],
             work[n].pc # "idle" => m = work[n].name
      PROVE  AllKept'
  <2>1. /\ delayed'[n] = delayed[n] \cup {m}
        /\ \A i \in Node \ {n} : delayed'[i] = delayed[i]
    BY <1>2 DEF Requeue, TypeOK
  <2>2. ASSUME NEW j \in StatusName PROVE Kept(n, j)'
    BY <1>2, <2>1 DEF AllKept, Kept
  <2>3. ASSUME NEW i \in Node \ {n}, NEW j \in StatusName PROVE Kept(i, j)'
    BY <1>2, <2>1 DEF AllKept, Kept
  <2> QED
    BY <2>2, <2>3, ZenonT(60) DEF AllKept
<1> QED
  BY <1>1, <1>2

LEMMA NextKept ==
    ASSUME << >> \notin Class, SyncTypeOK, AllKept, [Next]_vars
    PROVE  AllKept'
<1>t. TypeOK /\ work \in [Node -> Work]
  BY DEF SyncTypeOK, TypeOK
<1>n. \A n \in Node : work[n].name \in StatusName
  BY <1>t DEF Work
<1>1. ASSUME NEW n \in Node, Worker(n) PROVE AllKept'
  <2>1. /\ UNCHANGED <<cachedStatus, ready>>
        /\ work[n].pc # "idle"
        /\ \A i \in Node \ {n} : work'[i] = work[i]
        /\ GoesOn(n) \/ Requeue(n, work[n].name)
    BY <1>1, WorkerGoesOn
  <2> QED
    BY <1>n, <1>t, <2>1, WorkKept
<1>2. ASSUME NEW n \in Node, ApiFails(n) PROVE AllKept'
  <2>0. UNCHANGED cachedStatus
    BY <1>2 DEF ApiFails, cacheVars
  <2>1. ASSUME NEW m \in ready[n], work[n].pc = "idle",
               ready' = [ready EXCEPT ![n] = @ \ {m}], Requeue(n, m)
        PROVE  AllKept'
    <3>1. m \in StatusName /\ ready'[n] = ready[n] \ {m}
      BY <1>t, <2>1 DEF TypeOK
    <3>2. \A i \in Node \ {n} : work'[i] = work[i] /\ ready'[i] = ready[i]
      BY <1>t, <2>1 DEF Requeue, TypeOK
    <3> QED
      BY <1>t, <2>0, <2>1, <3>1, <3>2, WorkKept
  <2>2. ASSUME work[n].pc # "idle", NextObject(n) \/ Retry(n), UNCHANGED ready
        PROVE  AllKept'
    <3>1. \A i \in Node \ {n} : work'[i] = work[i]
      BY <1>t, <2>2 DEF NextObject, Retry, Requeue
    <3>2. GoesOn(n) \/ Requeue(n, work[n].name)
      BY <1>t, <2>2, NextObjectGoesOn, RetryGoesOn
    <3> QED
      BY <1>n, <1>t, <2>0, <2>2, <3>1, <3>2, WorkKept
  <2> QED
    BY <1>2, <2>1, <2>2 DEF ApiFails
<1>3. ASSUME NEW n \in Node, NEW m \in StatusName, Reconcile(n, m) PROVE AllKept'
  <2>1. /\ work[n].pc = "idle" /\ UNCHANGED cachedStatus
        /\ ready'[n] = ready[n] \ {m} /\ \A i \in Node \ {n} : ready'[i] = ready[i]
    BY <1>3, <1>t DEF Reconcile, TypeOK, cacheVars
  <2>2. class # << >>
    BY <1>t, NoneType DEF TypeOK
  <2>3. CASE cachedStatus[n][m] = None /\ UNCHANGED <<delayed, work>>
    BY <2>1, <2>3 DEF AllKept, Kept
  <2>4. CASE Requeue(n, m)
    <3>1. \A i \in Node \ {n} : work'[i] = work[i]
      BY <1>t, <2>4 DEF Requeue
    <3> QED
      BY <1>t, <2>1, <2>4, <3>1, WorkKept
  <2>5. CASE /\ work' = [work EXCEPT ![n] = [NoWork EXCEPT !.pc = "list", !.name = m,
                                   !.pod = cachedStatus[n][m], !.todo = class]]
             /\ UNCHANGED delayed
    <3>1. /\ work'[n].pc = "list" /\ work'[n].name = m
          /\ \A i \in Node \ {n} : work'[i] = work[i]
      BY <1>t, <2>5, NoWorkType DEF Work
    <3> QED
      BY <2>1, <2>5, <3>1 DEF AllKept, Kept
  <2> QED
    BY <1>3, <2>2, <2>3, <2>4, <2>5 DEF Reconcile
<1>4. ASSUME NEW n \in Node, NEW m \in StatusName, SeeStatus(n, m) PROVE AllKept'
  <2>1. /\ \A j \in StatusName \ {m} : cachedStatus'[n][j] = cachedStatus[n][j]
        /\ \A i \in Node \ {n} : cachedStatus'[i] = cachedStatus[i] /\ ready'[i] = ready[i]
        /\ ready'[n] = ready[n] \cup {m} /\ UNCHANGED <<delayed, work>>
    BY <1>4, <1>t DEF SeeStatus, TypeOK
  <2> QED
    BY <2>1, SMTT(30) DEF AllKept, Kept
<1>5. ASSUME NEW n \in Node, NEW m \in StatusName, Resync(n, m) PROVE AllKept'
  <2>1. /\ \A i \in Node : ready[i] \subseteq ready'[i]
        /\ UNCHANGED <<cachedStatus, delayed, work>>
    BY <1>5, <1>t DEF Resync, TypeOK, cacheVars
  <2> QED
    BY <2>1 DEF AllKept, Kept
<1>6. ASSUME NEW n \in Node, NEW m \in StatusName, DelayEnds(n, m) PROVE AllKept'
  <2>1. /\ ready'[n] = ready[n] \cup {m} /\ delayed'[n] = delayed[n] \ {m}
        /\ \A i \in Node \ {n} : ready'[i] = ready[i] /\ delayed'[i] = delayed[i]
        /\ UNCHANGED <<cachedStatus, work>>
    BY <1>6, <1>t DEF DelayEnds, TypeOK, cacheVars
  <2> QED
    BY <2>1 DEF AllKept, Kept
<1>7. ASSUME NEW n \in Node, Restart(n) PROVE AllKept'
  <2>1. /\ \A m \in StatusName : cachedStatus'[n][m] # None => m \in ready'[n]
        /\ \A i \in Node \ {n} : /\ cachedStatus'[i] = cachedStatus[i] /\ ready'[i] = ready[i]
                                  /\ delayed'[i] = delayed[i] /\ work'[i] = work[i]
    BY <1>7, <1>t DEF Restart, TypeOK
  <2> QED
    BY <2>1 DEF AllKept, Kept
<1>8. ASSUME UNCHANGED <<cachedStatus, ready, delayed, work>> PROVE AllKept'
  BY <1>8 DEF AllKept, Kept
<1>9. ASSUME NEW p \in Pod, \/ MountVolume(p) \/ CreatePodStatus(p) \/ TerminatePod(p)
                            \/ UnmountVolume(p) \/ RemovePod(p)
      PROVE  AllKept'
  BY <1>8, <1>9 DEF MountVolume, CreatePodStatus, TerminatePod, UnmountVolume, RemovePod,
     cacheVars, queueVars
<1>10. ASSUME \/ \E n \in Node, k \in Secret : SeeSecret(n, k)
              \/ \E m \in StatusName : CollectStatus(m)
              \/ \E k \in Secret : CollectSecret(k) \/ UserChangesSecret(k)
              \/ UserSetsClass \/ UNCHANGED vars
      PROVE  AllKept'
  BY <1>8, <1>10, ZenonT(60)
     DEF SeeSecret, CollectStatus, CollectSecret, UserChangesSecret, UserSetsClass,
     cacheVars, queueVars, vars
<1> QED
  BY <1>1, <1>2, <1>3, <1>4, <1>5, <1>6, <1>7, <1>9, <1>10, ZenonT(60) DEF Next, System, Disturb

\* No status that a node has cached as its own is ever forgotten, whatever
\* fails and whenever the driver restarts.
THEOREM StatusesAreKept == Spec => []NoStatusForgotten
<1>1. Init => AllKept
  BY DEF Init, AllKept, Kept
<1>2. CASE << >> \notin Class
  <2>1. SyncTypeOK /\ AllKept /\ [Next]_vars => AllKept'
    BY <1>2, NextKept
  <2>2. AllKept => NoStatusForgotten
    BY DEF AllKept, Kept, NoStatusForgotten
  <2> QED
    BY <1>1, <2>1, <2>2, InitSyncTypeOK, NextSyncTypeOK, PTL DEF Spec
<1>3. CASE << >> \in Class
  <2>1. NoStatusForgotten
    BY <1>3, ZenonT(60) DEF NoStatusForgotten
  <2> QED
    BY <2>1, PTL
<1> QED
  BY <1>2, <1>3

-----------------------------------------------------------------------------
(* The content of new Secrets.                                             *)

\* A pod that has a status, for the API server, a cache or a worker.
Started(p) == pod[p] \in {"running", "terminating", "gone"}

\* What a worker has listed of the volume of a pod that still runs is all of it.
SyncsWhole(n) ==
    LET w == work[n] IN
    /\ w.pc # "idle" => Started(w.pod)
    /\ w.pc \in {"object", "create", "patch"} /\ pod[w.pod] = "running"
            => w.files = vol[w.pod]
    /\ w.pc = "create" => w.keys = FoundKeys(n)

VolumesFollow ==
    /\ \A p \in Pod : pod[p] \in {"mounted", "running"} => vol[p] # None
    /\ \A m \in StatusName : status[m] # None => Started(status[m].pod)
    /\ \A n \in Node, m \in StatusName : cachedStatus[n][m] # None => Started(cachedStatus[n][m])
    /\ \A n \in Node : SyncsWhole(n)

\* What a step may make of the locals of worker n, as long as pods stay.
WorkChange(n) ==
    LET w == work[n] IN
    \/ work'[n] = w
    \/ work'[n].pc = "idle"
    \/ work'[n].pc = "list" /\ Started(work'[n].pod)
    \/ /\ w.pc = "list" /\ work'[n].pc = "object"
       /\ work'[n].pod = w.pod /\ work'[n].files = vol[w.pod]
    \/ /\ w.pc \in {"object", "create", "patch"} /\ work'[n].pc \in {"object", "patch"}
       /\ work'[n].pod = w.pod /\ work'[n].files = w.files
    \/ /\ w.pc = "object" /\ work'[n].pc = "create"
       /\ work'[n].pod = w.pod /\ work'[n].files = w.files /\ work'[n].todo = w.todo
       /\ work'[n].keys = FoundKeys(n)
    \/ /\ work'[n].pc = w.pc /\ work'[n].pod = w.pod /\ work'[n].files = w.files
       /\ work'[n].todo = w.todo /\ work'[n].keys = w.keys

LEMMA WorkChangeWhole ==
    ASSUME TypeOK, VolumesFollow, NEW n \in Node, UNCHANGED <<pod, vol>>, WorkChange(n)
    PROVE  SyncsWhole(n)'
<1>1. work[n] \in Work /\ work[n].pod \in Pod
  BY DEF TypeOK, Work
<1>2. SyncsWhole(n)
  BY <1>1 DEF VolumesFollow
<1>3. \A p : Started(p)' <=> Started(p)
  BY ZenonT(60) DEF Started
<1> QED
  BY <1>1, <1>2, <1>3, ZenonT(60) DEF WorkChange, SyncsWhole, FoundKeys, Current

LEMMA RequeueChange ==
    ASSUME TypeOK, NEW n \in Node, NEW m, Requeue(n, m)
    PROVE  \A i \in Node : WorkChange(i)
BY NoWorkType, ZenonT(60) DEF TypeOK, Requeue, WorkChange

LEMMA NextObjectChange ==
    ASSUME TypeOK, NEW n \in Node, work[n].pc \in {"object", "create", "patch"}, NextObject(n)
    PROVE  \A i \in Node : WorkChange(i)
<1>1. work[n] \in Work /\ \A i \in Node \ {n} : work'[i] = work[i]
  BY DEF NextObject, TypeOK
<1>2. work'[n] = [work[n] EXCEPT !.pc = "object", !.todo = Tail(work[n].todo), !.keys = {},
                                 !.tries = 0]
  BY DEF NextObject, TypeOK
<1>3. /\ work'[n].pc = "object"
      /\ work'[n].files = work[n].files /\ work'[n].pod = work[n].pod
  BY <1>1, <1>2 DEF Work
<1> QED
  BY <1>1, <1>3 DEF WorkChange

LEMMA RetryChange ==
    ASSUME TypeOK, NEW n \in Node, Retry(n)
    PROVE  \A i \in Node : WorkChange(i)
<1>1. CASE work[n].tries + 1 < BackoffSteps
  <2>1. work[n] \in Work /\ \A i \in Node \ {n} : work'[i] = work[i]
    BY <1>1 DEF Retry, TypeOK
  <2>2. work'[n] = [work[n] EXCEPT !.tries = work[n].tries + 1]
    BY <1>1 DEF Retry, TypeOK
  <2>3. /\ work'[n].pc = work[n].pc /\ work'[n].pod = work[n].pod
        /\ work'[n].files = work[n].files /\ work'[n].todo = work[n].todo
        /\ work'[n].keys = work[n].keys
    BY <2>1, <2>2 DEF Work
  <2> QED
    BY <2>1, <2>3 DEF WorkChange
<1> QED
  BY <1>1, RequeueChange, ZenonT(60) DEF Retry

LEMMA WorkerChange ==
    ASSUME SyncTypeOK, NEW n \in Node, Worker(n)
    PROVE  \A i \in Node : WorkChange(i)
<1>t. TypeOK /\ work[n] \in Work /\ work \in [Node -> Work]
  BY DEF SyncTypeOK, TypeOK
<1>1. CASE ListFiles(n)
  <2>1. CASE Requeue(n, work[n].name)
    BY <1>t, <2>1, RequeueChange
  <2>2. CASE work' = [work EXCEPT ![n].pc = "object", ![n].files = vol[work[n].pod]]
    <3>1. /\ work'[n].pc = "object" /\ work'[n].pod = work[n].pod
          /\ work'[n].files = vol[work[n].pod]
          /\ \A i \in Node \ {n} : work'[i] = work[i]
      BY <1>t, <2>2 DEF Work
    <3> QED
      BY <1>1, <3>1 DEF ListFiles, WorkChange
  <2> QED
    BY <1>1, <2>1, <2>2 DEF ListFiles
<1>2. CASE SyncObject(n)
  <2>1. CASE Requeue(n, work[n].name)
    BY <1>t, <2>1, RequeueChange
  <2>2. CASE NextObject(n)
    BY <1>2, <1>t, <2>2, NextObjectChange DEF SyncObject
  <2>3. CASE work' = [work EXCEPT ![n].pc = "patch"]
    <3>1. /\ work'[n].pc = "patch" /\ work'[n].pod = work[n].pod
          /\ work'[n].files = work[n].files
          /\ \A i \in Node \ {n} : work'[i] = work[i]
      BY <1>t, <2>3 DEF Work
    <3> QED
      BY <1>2, <3>1 DEF SyncObject, WorkChange
  <2>4. CASE work' = [work EXCEPT ![n].pc = "create",
                                  ![n].keys = FoundKeys(n)]
    <3>1. /\ work'[n].pc = "create" /\ work'[n].pod = work[n].pod
          /\ work'[n].files = work[n].files /\ work'[n].todo = work[n].todo
          /\ work'[n].keys = FoundKeys(n)
          /\ \A i \in Node \ {n} : work'[i] = work[i]
      BY <1>t, <2>4 DEF Work
    <3> QED
      BY <1>2, <3>1 DEF SyncObject, WorkChange
  <2> QED
    BY <1>2, <2>1, <2>2, <2>3, <2>4, ZenonT(60) DEF SyncObject, FoundKeys
<1>3. CASE CreateK8sSecret(n)
  <2>1. /\ work'[n].pc = "patch" /\ work'[n].pod = work[n].pod
        /\ work'[n].files = work[n].files
        /\ \A i \in Node \ {n} : work'[i] = work[i]
    BY <1>3, <1>t DEF CreateK8sSecret, Work
  <2> QED
    BY <1>3, <2>1, ZenonT(60) DEF CreateK8sSecret, WorkChange
<1>4. CASE PatchSecretWithOwnerRef(n)
  BY <1>4, <1>t, NextObjectChange, RetryChange, ZenonT(60) DEF PatchSecretWithOwnerRef
<1> QED
  BY <1>1, <1>2, <1>3, <1>4, ZenonT(60) DEF Worker

LEMMA RuntimeChange ==
    ASSUME SyncTypeOK, VolumesFollow, NEW n \in Node,
           ApiFails(n) \/ Restart(n) \/ \E m \in StatusName : Reconcile(n, m)
    PROVE  \A i \in Node : WorkChange(i)
<1>t. TypeOK /\ work \in [Node -> Work]
  BY ZenonT(60) DEF SyncTypeOK, TypeOK
<1>1. CASE ApiFails(n)
  BY <1>1, <1>t, RequeueChange, NextObjectChange, RetryChange, ZenonT(60) DEF ApiFails
<1>2. CASE Restart(n)
  BY <1>2, <1>t, NoWorkType, ZenonT(60) DEF Restart, WorkChange
<1>3. ASSUME NEW m \in StatusName, Reconcile(n, m) PROVE \A i \in Node : WorkChange(i)
  <2> DEFINE p == cachedStatus[n][m]
  <2>1. CASE UNCHANGED work
    BY <2>1 DEF WorkChange
  <2>2. CASE Requeue(n, m)
    BY <1>t, <2>2, RequeueChange, ZenonT(60)
  <2>3. CASE /\ p # None
             /\ work' = [work EXCEPT ![n] = [NoWork EXCEPT !.pc = "list", !.name = m,
                                                           !.pod = p, !.todo = class]]
    <3>1. work'[n].pc = "list" /\ work'[n].pod = p /\ \A i \in Node \ {n} : work'[i] = work[i]
      BY <1>t, <2>3, NoWorkType DEF Work
    <3>2. Started(p)
      BY <2>3, ZenonT(60) DEF VolumesFollow
    <3> QED
      BY <3>1, <3>2 DEF WorkChange
  <2> QED
    BY <1>3, <2>1, <2>2, <2>3, ZenonT(60) DEF Reconcile
<1> QED
  BY <1>1, <1>2, <1>3, ZenonT(60)

LEMMA RelevantStarted ==
    ASSUME VolumesFollow, NEW n, NEW m \in StatusName, Relevant(n, m) # None
    PROVE  Started(Relevant(n, m))
BY DEF VolumesFollow, Relevant

\* A step that leaves pods, volumes and statuses alone.
LEMMA SyncVolumes ==
    ASSUME SyncTypeOK, VolumesFollow, UNCHANGED <<pod, vol, status>>,
           \A n \in Node : WorkChange(n),
           \A n \in Node, m \in StatusName : cachedStatus'[n][m] \in {cachedStatus[n][m], Relevant(n, m)}
    PROVE  VolumesFollow'
<1>t. TypeOK
  BY DEF SyncTypeOK
<1>1. \A n \in Node : SyncsWhole(n)'
  BY <1>t, WorkChangeWhole
<1>2. \A p : Started(p)' <=> Started(p)
  BY ZenonT(60) DEF Started
<1>3. \A n \in Node, m \in StatusName : cachedStatus'[n][m] # None => Started(cachedStatus'[n][m])
  BY RelevantStarted DEF VolumesFollow
<1>4. \A n \in Node, m \in StatusName : cachedStatus'[n][m] # None => Started(cachedStatus[n][m])'
  BY <1>3 DEF Started
<1>5. /\ \A p \in Pod : pod'[p] \in {"mounted", "running"} => vol'[p] # None
      /\ \A m \in StatusName : status'[m] # None => Started(status[m].pod)'
  BY <1>2, ZenonT(60) DEF VolumesFollow, Started
<1> QED
  BY <1>1, <1>4, <1>5 DEF VolumesFollow

\* A step of a pod.
LEMMA PodVolumes ==
    ASSUME SyncTypeOK, VolumesFollow, UNCHANGED <<cachedStatus, work>>, NEW p \in Pod,
           \A q \in Pod \ {p} : pod'[q] = pod[q] /\ vol'[q] = vol[q],
           Started(p) => /\ Started(p)'
                         /\ pod'[p] = "running" => pod[p] = "running" /\ vol'[p] = vol[p],
           pod'[p] \in {"mounted", "running"} => vol'[p] # None,
           \A m \in StatusName : \/ status'[m] = status[m]
                                 \/ status'[m] # None /\ status'[m].pod = p /\ Started(p)'
    PROVE  VolumesFollow'
<1>t. TypeOK
  BY DEF SyncTypeOK
<1>1. \A q \in Pod : Started(q) => /\ pod'[q] \in {"running", "terminating", "gone"}
                                   /\ pod'[q] = "running" => pod[q] = "running" /\ vol'[q] = vol[q]
  BY ZenonT(60) DEF Started
<1>2. \A q \in Pod : pod'[q] \in {"mounted", "running"} => vol'[q] # None
  BY DEF VolumesFollow
<1>3. \A m \in StatusName : status'[m] # None => Started(status[m].pod)'
  <2> SUFFICES ASSUME NEW m \in StatusName, status'[m] # None
               PROVE  pod'[status'[m].pod] \in {"running", "terminating", "gone"}
    BY DEF Started
  <2>1. CASE status'[m] = status[m]
    <3>1. status[m].pod \in Pod /\ Started(status[m].pod)
      BY <1>t, <2>1 DEF TypeOK, StatusObject, VolumesFollow
    <3> QED
      BY <1>1, <2>1, <3>1, SMTT(30)
  <2>2. CASE status'[m] # status[m]
    BY <2>2, ZenonT(60) DEF Started
  <2> QED
    BY <2>1, <2>2
<1>4. \A n \in Node, m \in StatusName : cachedStatus'[n][m] # None => Started(cachedStatus[n][m])'
  BY <1>t, <1>1, SMTT(30) DEF TypeOK, VolumesFollow, Started
<1>5. ASSUME NEW n \in Node PROVE SyncsWhole(n)'
  <2>1. work[n].pod \in Pod /\ SyncsWhole(n) /\ work'[n] = work[n]
    BY <1>t, ZenonT(60) DEF TypeOK, Work, VolumesFollow
  <2>2. work[n].pc # "idle" =>
          /\ pod'[work[n].pod] \in {"running", "terminating", "gone"}
          /\ pod'[work[n].pod] = "running" =>
                pod[work[n].pod] = "running" /\ vol'[work[n].pod] = vol[work[n].pod]
    BY <1>1, <2>1, ZenonT(60) DEF SyncsWhole
  <2> QED
    BY <2>1, <2>2, ZenonT(60) DEF SyncsWhole, Started, FoundKeys, Current
<1> QED
  BY <1>2, <1>3, <1>4, <1>5, ZenonT(60) DEF VolumesFollow

LEMMA InitVolumes == Init => VolumesFollow
<1> SUFFICES ASSUME Init PROVE VolumesFollow
  OBVIOUS
<1>1. \A n \in Node : SyncsWhole(n)
  BY NoWorkType, ZenonT(60) DEF Init, SyncsWhole
<1> QED
  BY <1>1, ZenonT(60) DEF Init, VolumesFollow

LEMMA NextVolumes == SyncTypeOK /\ VolumesFollow /\ [Next]_vars => VolumesFollow'
<1> SUFFICES ASSUME SyncTypeOK, VolumesFollow, [Next]_vars PROVE VolumesFollow'
  OBVIOUS
<1>t. TypeOK
  BY DEF SyncTypeOK
<1>s. UNCHANGED work => \A n \in Node : WorkChange(n)
  BY DEF WorkChange
<1>1. ASSUME NEW n \in Node, Worker(n) PROVE VolumesFollow'
  <2>1. UNCHANGED <<pod, vol, status, cachedStatus>>
    BY <1>1 DEF Worker, ListFiles, SyncObject, CreateK8sSecret, PatchSecretWithOwnerRef,
       podVars, apiVars, cacheVars
  <2> QED
    BY <1>1, <2>1, WorkerChange, SyncVolumes
<1>2. ASSUME NEW n \in Node, ApiFails(n) \/ \E m \in StatusName : Reconcile(n, m)
      PROVE  VolumesFollow'
  <2>1. UNCHANGED <<pod, vol, status, cachedStatus>>
    BY <1>2, ZenonT(60) DEF ApiFails, Reconcile, podVars, apiVars, cacheVars
  <2> QED
    BY <1>2, <2>1, RuntimeChange, SyncVolumes, ZenonT(60)
<1>3. ASSUME NEW n \in Node, Restart(n) PROVE VolumesFollow'
  <2>1. /\ UNCHANGED <<pod, vol, status>>
        /\ \A i \in Node, m \in StatusName :
              cachedStatus'[i][m] \in {cachedStatus[i][m], Relevant(i, m)}
    BY <1>3, <1>t DEF Restart, podVars, apiVars, TypeOK
  <2> QED
    BY <1>3, <2>1, RuntimeChange, SyncVolumes
<1>4. ASSUME NEW n \in Node, NEW m \in StatusName, SeeStatus(n, m) PROVE VolumesFollow'
  <2>1. /\ UNCHANGED <<pod, vol, status, work>>
        /\ \A i \in Node, j \in StatusName :
              cachedStatus'[i][j] \in {cachedStatus[i][j], Relevant(i, j)}
    BY <1>4, <1>t DEF SeeStatus, podVars, apiVars, TypeOK
  <2> QED
    BY <1>s, <2>1, SyncVolumes, ZenonT(60)
<1>5. CASE UNCHANGED <<pod, vol, status, work, cachedStatus>>
  BY <1>5, <1>s, SyncVolumes
<1>6. ASSUME NEW p \in Pod, MountVolume(p) PROVE VolumesFollow'
  <2>1. /\ pod[p] = "pending" /\ pod'[p] = "mounted" /\ vol'[p] # None
        /\ \A q \in Pod \ {p} : pod'[q] = pod[q] /\ vol'[q] = vol[q]
        /\ UNCHANGED <<status, cachedStatus, work>>
    <3>1. PICK files \in Content : vol' = [vol EXCEPT ![p] = files]
      BY <1>6, ZenonT(60) DEF MountVolume
    <3>2. files # None
      BY ContentType, NoneType
    <3> QED
      BY <1>6, <1>t, <3>1, <3>2 DEF MountVolume, TypeOK, apiVars, cacheVars
  <2>2. ~Started(p)
    BY <2>1, ZenonT(60) DEF Started
  <2> QED
    BY <2>1, <2>2, PodVolumes, ZenonT(60)
<1>7. ASSUME NEW p \in Pod, CreatePodStatus(p) PROVE VolumesFollow'
  <2>1. /\ pod[p] = "mounted" /\ pod'[p] = "running" /\ UNCHANGED <<vol, cachedStatus, work>>
        /\ \A q \in Pod \ {p} : pod'[q] = pod[q]
    BY <1>7, <1>t, ZenonT(60) DEF CreatePodStatus, TypeOK, cacheVars
  <2>2. ~Started(p) /\ Started(p)' /\ vol'[p] # None
    BY <2>1 DEF Started, VolumesFollow
  <2> DEFINE new == [pod |-> p, deleting |-> FALSE]
  <2>3. new # None /\ new.pod = p
    <3>1. new \in StatusObject
      BY ZenonT(60) DEF StatusObject
    <3> QED
      BY <3>1, NoneType, ZenonT(60)
  <2>4. \A m \in StatusName : status'[m] = status[m] \/ status'[m] = new
    BY <1>7, <1>t, NameOfType DEF CreatePodStatus, TypeOK
  <2>5. \A m \in StatusName : \/ status'[m] = status[m]
                              \/ status'[m] # None /\ status'[m].pod = p /\ Started(p)'
    BY <2>2, <2>3, <2>4, ZenonT(60)
  <2> QED
    BY <2>1, <2>2, <2>5, PodVolumes, ZenonT(60)
<1>8. ASSUME NEW p \in Pod, TerminatePod(p) \/ RemovePod(p) PROVE VolumesFollow'
  <2>1. /\ pod'[p] \in {"terminating", "gone"}
        /\ UNCHANGED <<vol, status, cachedStatus, work>>
        /\ \A q \in Pod \ {p} : pod'[q] = pod[q]
    BY <1>8, <1>t DEF TerminatePod, RemovePod, TypeOK, apiVars, cacheVars
  <2>2. Started(p)'
    BY <2>1, ZenonT(60) DEF Started
  <2> QED
    BY <2>1, <2>2, PodVolumes
<1>9. ASSUME NEW p \in Pod, UnmountVolume(p) PROVE VolumesFollow'
  <2>1. /\ pod[p] \in {"terminating", "gone"} /\ UNCHANGED <<pod, status, cachedStatus, work>>
        /\ \A q \in Pod \ {p} : vol'[q] = vol[q]
    BY <1>9, <1>t DEF UnmountVolume, TypeOK, apiVars, cacheVars
  <2>2. Started(p)'
    BY <2>1 DEF Started
  <2> QED
    BY <2>1, <2>2, PodVolumes
<1>10. ASSUME NEW m \in StatusName, CollectStatus(m) PROVE VolumesFollow'
  <2>1. status[m] \in StatusObject /\ status[m].pod \in Pod /\ Started(status[m].pod)
    BY <1>10, <1>t DEF CollectStatus, TypeOK, StatusObject, VolumesFollow
  <2>2. PICK p \in Pod : p = status[m].pod
    BY <2>1
  <2>3. [status[m] EXCEPT !.deleting = TRUE] \in StatusObject
        /\ [status[m] EXCEPT !.deleting = TRUE].pod = p
    BY <2>1, <2>2, ZenonT(60) DEF StatusObject
  <2>4. UNCHANGED <<pod, vol, cachedStatus, work>> /\ Started(p)'
    BY <1>10, <2>1, <2>2, ZenonT(60) DEF CollectStatus, podVars, cacheVars, Started
  <2>5. CASE status' = [status EXCEPT ![m] = [status[m] EXCEPT !.deleting = TRUE]]
    <3>1. \A j \in StatusName : \/ status'[j] = status[j]
                                \/ status'[j] # None /\ status'[j].pod = p /\ Started(p)'
      BY <1>t, <2>3, <2>4, <2>5, NoneType, ZenonT(60) DEF TypeOK
    <3>2. \A q \in Pod : pod'[q] \in {"mounted", "running"} => vol'[q] # None
      BY <2>4, ZenonT(60) DEF VolumesFollow
    <3> QED
      BY <2>4, <3>1, <3>2, PodVolumes
  <2>6. CASE status' = [status EXCEPT ![m] = None]
    <3>1. \A j \in StatusName : status'[j] # None => status'[j] = status[j]
      BY <1>t, <2>6, ZenonT(60) DEF TypeOK
    <3>2. \A j \in StatusName : status'[j] # None => Started(status[j].pod)'
      BY <2>4, <3>1 DEF VolumesFollow, Started
    <3>3. \A n \in Node : SyncsWhole(n)'
      BY <1>s, <1>t, <2>4, WorkChangeWhole
    <3> QED
      BY <2>4, <3>2, <3>3, ZenonT(60) DEF VolumesFollow, Started
  <2> QED
    BY <1>10, <2>5, <2>6 DEF CollectStatus
<1>11. ASSUME NEW n \in Node, \/ \E m \in StatusName : Resync(n, m) \/ DelayEnds(n, m)
                              \/ \E k \in Secret : SeeSecret(n, k)
       PROVE  VolumesFollow'
  BY <1>5, <1>11 DEF Resync, DelayEnds, SeeSecret, podVars, apiVars, cacheVars
<1>12. ASSUME \/ \E k \in Secret : CollectSecret(k) \/ UserChangesSecret(k)
              \/ UserSetsClass \/ UNCHANGED vars
       PROVE  VolumesFollow'
  BY <1>5, <1>12, ZenonT(60)
     DEF CollectSecret, UserChangesSecret, UserSetsClass, podVars, apiVars, cacheVars, vars
<1> QED
  BY <1>1, <1>2, <1>3, <1>4, <1>6, <1>7, <1>8, <1>9, <1>10, <1>11, <1>12, ZenonT(60)
     DEF Next, System, Disturb

\* A new Secret of a running pod has the keys of exactly the complete entries whose
\* object is in the pod's volume, for any class, whatever it names and leaves empty,
\* any content of volumes and any number of nodes that race to make the Secret.
THEOREM SecretsAreCreatedWhole == Spec => CreatedWhole
<1>1. ASSUME SyncTypeOK, VolumesFollow, NEW n \in Node, CreateK8sSecret(n),
             secret[Current(n).secret] = None, pod[work[n].pod] \notin {"terminating", "gone"}
      PROVE  /\ vol[work[n].pod] # None
             /\ secret'[Current(n).secret].keys = KeysOf(Found(Current(n).data, vol[work[n].pod]))
  <2>1. Current(n).secret \in Secret /\ work[n].pod \in Pod
    BY <1>1, CurrentType, ZenonT(60) DEF CreateK8sSecret, SyncTypeOK, TypeOK, TodoLeft, SecretObject, Work
  <2>2. /\ vol[work[n].pod] # None
        /\ work[n].keys = KeysOf(Found(Current(n).data, vol[work[n].pod]))
    <3>1. work[n].pc = "create" /\ SyncsWhole(n)
      BY <1>1 DEF CreateK8sSecret, VolumesFollow
    <3>2. pod[work[n].pod] = "running"
      BY <1>1, <3>1 DEF SyncsWhole, Started
    <3>3. work[n].files = vol[work[n].pod] /\ work[n].keys = FoundKeys(n)
      BY <3>1, <3>2 DEF SyncsWhole
    <3>4. vol[work[n].pod] # None
      BY <1>1, <2>1, <3>2 DEF VolumesFollow
    <3> QED
      BY <3>3, <3>4, ZenonT(60) DEF FoundKeys
  <2>3. secret' = [secret EXCEPT ![Current(n).secret] = [keys |-> work[n].keys, refs |-> {}]]
    BY <1>1, SMTT(30) DEF CreateK8sSecret, WriteSecret, SetSecret
  <2>4. secret'[Current(n).secret].keys = work[n].keys
    BY <1>1, <2>1, <2>3 DEF SyncTypeOK, TypeOK
  <2> QED
    BY <2>2, <2>4, ZenonT(60)
<1> DEFINE A == \A n \in Node :
                  LET k == Current(n).secret
                      p == work[n].pod
                  IN CreateK8sSecret(n) /\ secret[k] = None
                        => \/ /\ vol[p] # None
                              /\ secret'[k].keys = KeysOf(Found(Current(n).data, vol[p]))
                           \/ pod[p] \in {"terminating", "gone"}
<1>2. SyncTypeOK /\ VolumesFollow => A
  BY <1>1, ZenonT(60)
<1> QED
  BY <1>2, InitSyncTypeOK, NextSyncTypeOK, InitVolumes, NextVolumes, PTL DEF Spec, CreatedWhole

-----------------------------------------------------------------------------
(* Who owns Secrets.                                                       *)

\* Pods of the same name follow one another; a Secret names one of them at most.
OneOwnerPerName ==
    \A k \in Secret :
        secret[k] # None =>
            \A p, q \in secret[k].refs : NameOf[p] = NameOf[q] => p = q

\* What is known of a pod that node n takes for the one of status m.
OwnPod(n, m, p) == NodeOf[p] = n /\ NameOf[p] = m

OwnPods ==
    /\ \A m \in StatusName : status[m] # None => NameOf[status[m].pod] = m
    /\ \A n \in Node, m \in StatusName :
         cachedStatus[n][m] # None => OwnPod(n, m, cachedStatus[n][m])
    /\ \A n \in Node : work[n].pc # "idle" => OwnPod(n, work[n].name, work[n].pod)

RefsStarted ==
    \A k \in Secret : secret[k] # None => \A p \in secret[k].refs : Started(p)

\* Where the pod of a worker comes from.
OwnWork(n) ==
    \/ work'[n].pc = "idle"
    \/ work'[n] = work[n]
    \/ work[n].pc # "idle" /\ work'[n].name = work[n].name /\ work'[n].pod = work[n].pod
    \/ \E m \in StatusName : /\ cachedStatus[n][m] # None
                             /\ work'[n].name = m /\ work'[n].pod = cachedStatus[n][m]

LEMMA RequeueOwnWork ==
    ASSUME TypeOK, NEW n \in Node, NEW m, Requeue(n, m)
    PROVE  \A i \in Node : OwnWork(i)
BY NoWorkType, ZenonT(60) DEF TypeOK, Requeue, OwnWork

LEMMA NextOwnWork ==
    ASSUME SyncTypeOK, [Next]_vars
    PROVE  \A n \in Node : OwnWork(n)
<1> DEFINE Goal == \A n \in Node : OwnWork(n)
<1>t. TypeOK /\ work \in [Node -> Work]
  BY DEF SyncTypeOK, TypeOK
<1>g. ASSUME NEW n \in Node, work[n].pc # "idle", \A i \in Node \ {n} : work'[i] = work[i], GoesOn(n)
      PROVE  Goal
  BY <1>g, ZenonT(60) DEF GoesOn, OwnWork
<1>1. ASSUME NEW n \in Node, Worker(n) PROVE Goal
  <2>1. /\ work[n].pc # "idle" /\ \A i \in Node \ {n} : work'[i] = work[i]
        /\ GoesOn(n) \/ Requeue(n, work[n].name)
    BY <1>1, WorkerGoesOn
  <2> QED
    BY <1>t, <1>g, <2>1, RequeueOwnWork
<1>2. ASSUME NEW n \in Node, ApiFails(n) PROVE Goal
  <2>1. ASSUME work[n].pc # "idle", NextObject(n) \/ Retry(n) PROVE Goal
    <3>1. \A i \in Node \ {n} : work'[i] = work[i]
      BY <1>t, <2>1 DEF NextObject, Retry, Requeue
    <3>2. GoesOn(n) \/ Requeue(n, work[n].name)
      BY <1>t, <2>1, NextObjectGoesOn, RetryGoesOn
    <3> QED
      BY <1>t, <1>g, <2>1, <3>1, <3>2, RequeueOwnWork
  <2>2. ASSUME NEW m, Requeue(n, m) PROVE Goal
    BY <1>t, <2>2, RequeueOwnWork
  <2> QED
    BY <1>2, <2>1, <2>2 DEF ApiFails
<1>3. ASSUME NEW n \in Node, NEW m \in StatusName, Reconcile(n, m) PROVE Goal
  <2>1. CASE UNCHANGED work
    BY <2>1 DEF OwnWork
  <2>2. CASE Requeue(n, m)
    BY <1>t, <2>2, RequeueOwnWork
  <2>3. CASE /\ cachedStatus[n][m] # None
             /\ work' = [work EXCEPT ![n] = [NoWork EXCEPT !.pc = "list", !.name = m,
                                   !.pod = cachedStatus[n][m], !.todo = class]]
    <3>1. /\ work'[n].name = m /\ work'[n].pod = cachedStatus[n][m]
          /\ \A i \in Node \ {n} : work'[i] = work[i]
      BY <1>t, <2>3, NoWorkType DEF Work
    <3> QED
      BY <2>3, <3>1, ZenonT(60) DEF OwnWork
  <2> QED
    BY <1>3, <2>1, <2>2, <2>3, ZenonT(60) DEF Reconcile
<1>4. ASSUME NEW n \in Node, Restart(n) PROVE Goal
  BY <1>4, <1>t, NoWorkType, ZenonT(60) DEF Restart, OwnWork
<1>5. CASE UNCHANGED work
  BY <1>5 DEF OwnWork
<1>6. ASSUME NEW n \in Node, NEW m \in StatusName, SeeStatus(n, m) \/ Resync(n, m) \/ DelayEnds(n, m)
      PROVE  UNCHANGED work
  BY <1>6 DEF SeeStatus, Resync, DelayEnds
<1>7. ASSUME NEW p \in Pod, \/ MountVolume(p) \/ CreatePodStatus(p) \/ TerminatePod(p)
                            \/ UnmountVolume(p) \/ RemovePod(p)
      PROVE  UNCHANGED work
  BY <1>7 DEF MountVolume, CreatePodStatus, TerminatePod, UnmountVolume, RemovePod
<1>8. ASSUME \/ \E n \in Node, k \in Secret : SeeSecret(n, k)
             \/ \E m \in StatusName : CollectStatus(m)
             \/ \E k \in Secret : CollectSecret(k) \/ UserChangesSecret(k)
             \/ UserSetsClass \/ UNCHANGED vars
      PROVE  UNCHANGED work
  BY <1>8, ZenonT(60) DEF SeeSecret, CollectStatus, CollectSecret, UserChangesSecret, UserSetsClass, vars
<1> QED
  BY <1>1, <1>2, <1>3, <1>4, <1>5, <1>6, <1>7, <1>8, ZenonT(60) DEF Next, System, Disturb

\* Statuses keep their pods, and caches hold what the reconcilers were shown.
LEMMA NextStatuses ==
    ASSUME SyncTypeOK, [Next]_vars
    PROVE  /\ \A m \in StatusName :
                 \/ status'[m] = status[m] \/ status'[m] = None
                 \/ status[m] # None /\ status'[m].pod = status[m].pod
                 \/ NameOf[status'[m].pod] = m
           /\ \A n \in Node, m \in StatusName :
                 cachedStatus'[n][m] \in {cachedStatus[n][m], Relevant(n, m)}
           /\ \A p \in Pod : Started(p) => Started(p)'
<1> DEFINE Goal1 == \A m \in StatusName :
                      \/ status'[m] = status[m] \/ status'[m] = None
                      \/ status[m] # None /\ status'[m].pod = status[m].pod
                      \/ NameOf[status'[m].pod] = m
           Goal2 == \A n \in Node, m \in StatusName :
                      cachedStatus'[n][m] \in {cachedStatus[n][m], Relevant(n, m)}
           Goal3 == \A p \in Pod : Started(p) => Started(p)'
<1>t. TypeOK
  BY DEF SyncTypeOK
<1>u. /\ UNCHANGED status => Goal1
      /\ UNCHANGED cachedStatus => Goal2
      /\ UNCHANGED pod => Goal3
  BY ZenonT(60) DEF Started
<1> DEFINE Goal == Goal1 /\ Goal2 /\ Goal3
<1>1. ASSUME NEW n \in Node, Worker(n) \/ ApiFails(n) PROVE UNCHANGED <<pod, status, cachedStatus>>
  BY <1>1, ZenonT(60) DEF Worker, ListFiles, SyncObject, CreateK8sSecret, PatchSecretWithOwnerRef, ApiFails,
     podVars, apiVars, cacheVars
<1>2. ASSUME NEW n \in Node, NEW m \in StatusName, Reconcile(n, m) \/ Resync(n, m) \/ DelayEnds(n, m)
      PROVE UNCHANGED <<pod, status, cachedStatus>>
  BY <1>2 DEF Reconcile, Resync, DelayEnds, podVars, apiVars, cacheVars
<1>3. ASSUME NEW n \in Node, NEW m \in StatusName, SeeStatus(n, m) PROVE Goal
  <2>1. UNCHANGED <<pod, status>>
    BY <1>3, ZenonT(60) DEF SeeStatus, podVars, apiVars
  <2>2. Goal2
    BY <1>3, <1>t, ZenonT(60) DEF SeeStatus, TypeOK
  <2> QED
    BY <1>u, <2>1, <2>2
<1>4. ASSUME NEW n \in Node, Restart(n) PROVE Goal
  <2>1. UNCHANGED <<pod, status>>
    BY <1>4 DEF Restart, podVars, apiVars
  <2>2. Goal2
    BY <1>4, <1>t DEF Restart, TypeOK
  <2> QED
    BY <1>u, <2>1, <2>2
<1>5. ASSUME NEW p \in Pod, MountVolume(p) \/ TerminatePod(p) \/ UnmountVolume(p) \/ RemovePod(p) PROVE Goal
  <2>1. UNCHANGED <<status, cachedStatus>>
    BY <1>5 DEF MountVolume, TerminatePod, UnmountVolume, RemovePod, apiVars, cacheVars
  <2>2. \/ UNCHANGED pod
        \/ pod' = [pod EXCEPT ![p] = "mounted"] /\ pod[p] = "pending"
        \/ pod' = [pod EXCEPT ![p] = "terminating"]
        \/ pod' = [pod EXCEPT ![p] = "gone"]
    BY <1>5, ZenonT(60) DEF MountVolume, TerminatePod, UnmountVolume, RemovePod
  <2>3. Goal3
    BY <1>t, <2>2, ZenonT(60) DEF Started, TypeOK
  <2> QED
    BY <1>u, <2>1, <2>3
<1>6. ASSUME NEW p \in Pod, CreatePodStatus(p) PROVE Goal
  <2>1. UNCHANGED cachedStatus /\ pod' = [pod EXCEPT ![p] = "running"]
    BY <1>6 DEF CreatePodStatus, cacheVars
  <2>2. Goal3
    BY <1>t, <2>1, ZenonT(60) DEF Started, TypeOK
  <2>3. CASE UNCHANGED status
    BY <1>u, <2>1, <2>2, <2>3
  <2>4. CASE status' = [status EXCEPT ![NameOf[p]] = [pod |-> p, deleting |-> FALSE]]
    <3>1. /\ status'[NameOf[p]].pod = p
          /\ \A m \in StatusName : m # NameOf[p] => status'[m] = status[m]
      BY <1>t, <2>4, NameOfType, ZenonT(60) DEF TypeOK
    <3>2. Goal1
      BY <3>1, ZenonT(60)
    <3> QED
      BY <1>u, <2>1, <2>2, <3>2, ZenonT(60)
  <2> QED
    BY <1>6, <2>3, <2>4, ZenonT(60) DEF CreatePodStatus
<1>7. ASSUME NEW m \in StatusName, CollectStatus(m) PROVE Goal
  <2>1. UNCHANGED <<pod, cachedStatus>>
    BY <1>7, ZenonT(60) DEF CollectStatus, podVars, cacheVars
  <2>2. CASE status' = [status EXCEPT ![m] = None]
    <3>1. Goal1
      BY <1>t, <2>2, ZenonT(60) DEF TypeOK
    <3> QED
      BY <1>u, <2>1, <3>1, ZenonT(60)
  <2>3. CASE status[m] # None /\ status' = [status EXCEPT ![m] = [status[m] EXCEPT !.deleting = TRUE]]
    <3>1. status[m] \in StatusObject
      BY <1>t, <2>3 DEF TypeOK
    <3>2. [status[m] EXCEPT !.deleting = TRUE].pod = status[m].pod
      BY <3>1 DEF StatusObject
    <3>3. status'[m].pod = status[m].pod /\ \A j \in StatusName \ {m} : status'[j] = status[j]
      BY <1>t, <2>3, <3>2 DEF TypeOK
    <3>4. Goal1
      BY <2>3, <3>3, ZenonT(60)
    <3> QED
      BY <1>u, <2>1, <3>4
  <2> QED
    BY <1>7, <2>2, <2>3 DEF CollectStatus
<1>8. ASSUME \/ \E n \in Node, k \in Secret : SeeSecret(n, k)
             \/ \E k \in Secret : CollectSecret(k) \/ UserChangesSecret(k)
             \/ UserSetsClass \/ UNCHANGED vars
      PROVE  UNCHANGED <<pod, status, cachedStatus>>
  BY <1>8, ZenonT(60) DEF SeeSecret, CollectSecret, UserChangesSecret, UserSetsClass,
     podVars, apiVars, cacheVars, vars
<1>9. ASSUME UNCHANGED <<pod, status, cachedStatus>> PROVE Goal
  BY <1>u, <1>9
<1> HIDE DEF Goal1, Goal2, Goal3
<1>10. Goal
  <2> HIDE DEF Goal
  <2>1. CASE System
    <3>1. \/ \E n \in Node : Worker(n)
          \/ \E n \in Node, m \in StatusName :
                Reconcile(n, m) \/ SeeStatus(n, m) \/ Resync(n, m) \/ DelayEnds(n, m)
          \/ \E n \in Node, k \in Secret : SeeSecret(n, k)
          \/ \E p \in Pod : \/ MountVolume(p) \/ CreatePodStatus(p) \/ TerminatePod(p)
                            \/ UnmountVolume(p) \/ RemovePod(p)
          \/ \E m \in StatusName : CollectStatus(m)
          \/ \E k \in Secret : CollectSecret(k)
      BY <2>1 DEF System
    <3> QED
      BY <1>1, <1>2, <1>3, <1>5, <1>6, <1>7, <1>8, <1>9, <3>1
  <2>2. CASE Disturb \/ UNCHANGED vars
    BY <1>1, <1>4, <1>8, <1>9, <2>2 DEF Disturb
  <2> QED
    BY <2>1, <2>2 DEF Next
<1> QED
  BY <1>10 DEF Goal1, Goal2, Goal3

LEMMA NextOwnPods == SyncTypeOK /\ OwnPods /\ [Next]_vars => OwnPods'
<1> SUFFICES ASSUME SyncTypeOK, OwnPods, [Next]_vars PROVE OwnPods'
  OBVIOUS
<1>1. \A n \in Node, m \in StatusName : Relevant(n, m) # None => OwnPod(n, m, Relevant(n, m))
  BY DEF OwnPods, Relevant, OwnPod
<1>2. \A m \in StatusName : status'[m] # None => NameOf[status'[m].pod] = m
  BY NextStatuses, ZenonT(60) DEF OwnPods
<1>3. \A n \in Node, m \in StatusName : cachedStatus'[n][m] # None => OwnPod(n, m, cachedStatus'[n][m])
  BY <1>1, NextStatuses DEF OwnPods
<1>4. ASSUME NEW n \in Node, work'[n].pc # "idle" PROVE OwnPod(n, work'[n].name, work'[n].pod)
  BY <1>4, NextOwnWork, ZenonT(60) DEF OwnPods, OwnWork
<1> QED
  BY <1>2, <1>3, <1>4, ZenonT(60) DEF OwnPods, OwnPod

\* What a step may make of the owners of a Secret: nothing or fewer of them, or
\* the pod of a worker is added.
RefsStep(k) ==
    \/ secret'[k] = None
    \/ secret'[k].refs = {}
    \/ secret[k] # None /\ secret'[k].refs \subseteq secret[k].refs
    \/ \E n \in Node : /\ work[n].pc # "idle" /\ secret[k] # None
                       /\ secret'[k].refs = WithOwner(secret[k].refs, work[n].pod)

LEMMA NextRefs ==
    ASSUME SyncTypeOK, CurrentCopies, [Next]_vars, NEW k \in Secret
    PROVE  RefsStep(k)
<1>t. TypeOK
  BY DEF SyncTypeOK
<1>u. ASSUME secret'[k] = secret[k] PROVE RefsStep(k)
  BY <1>u, ZenonT(60) DEF RefsStep
<1>w. ASSUME NEW j \in Secret, NEW keys, NEW refs, WriteSecret(j, keys, refs)
      PROVE  IF k = j THEN secret'[k].refs = refs ELSE secret'[k] = secret[k]
  BY <1>w, <1>t DEF WriteSecret, SetSecret, TypeOK
<1>d. ASSUME NEW j \in Secret, SetSecret(j, None) PROVE RefsStep(k)
  <2>1. secret'[k] = None \/ secret'[k] = secret[k]
    BY <1>d, <1>t DEF SetSecret, TypeOK
  <2> QED
    BY <2>1, <1>u, ZenonT(60) DEF RefsStep
<1>1. ASSUME NEW n \in Node, CreateK8sSecret(n) PROVE RefsStep(k)
  <2>1. Current(n).secret \in Secret
    BY <1>1, CurrentType, ZenonT(60) DEF CreateK8sSecret, SyncTypeOK, TodoLeft, SecretObject
  <2>2. CASE UNCHANGED secret
    BY <1>u, <2>2
  <2>3. CASE WriteSecret(Current(n).secret, work[n].keys, {})
    <3>1. secret'[k].refs = {} \/ secret'[k] = secret[k]
      BY <1>w, <2>1, <2>3, ZenonT(60)
    <3> QED
      BY <1>u, <3>1, ZenonT(60) DEF RefsStep
  <2> QED
    BY <1>1, <2>2, <2>3 DEF CreateK8sSecret
<1>2. ASSUME NEW n \in Node, PatchSecretWithOwnerRef(n) PROVE RefsStep(k)
  <2> DEFINE j == Current(n).secret
             new == WithOwner(cachedSecret[n][j].refs, work[n].pod)
  <2>1. j \in Secret /\ work[n].pc # "idle"
    BY <1>2, CurrentType, ZenonT(60) DEF PatchSecretWithOwnerRef, SyncTypeOK, TodoLeft, SecretObject
  <2>2. CASE UNCHANGED secret
    BY <1>u, <2>2
  <2>3. CASE /\ cachedSecret[n][j] # None /\ secret[j] # None /\ cachedSecret[n][j].current
             /\ WriteSecret(j, secret[j].keys, new)
    <3>1. cachedSecret[n][j].refs = secret[j].refs
      BY <2>1, <2>3, ZenonT(60) DEF CurrentCopies
    <3>2. CASE k = j
      <4>1. secret'[k].refs = new
        BY <1>w, <2>1, <2>3, <3>2, ZenonT(60)
      <4>2. secret'[k].refs = WithOwner(secret[k].refs, work[n].pod) /\ secret[k] # None
        BY <2>3, <3>1, <3>2, <4>1, ZenonT(60)
      <4> QED
        BY <2>1, <4>2, ZenonT(60) DEF RefsStep
    <3>3. CASE k # j
      <4>1. secret'[k] = secret[k]
        BY <1>w, <2>1, <2>3, <3>3, ZenonT(60)
      <4> QED
        BY <1>u, <4>1, ZenonT(60)
    <3> QED
      BY <3>2, <3>3
  <2>4. \/ UNCHANGED secret
        \/ /\ cachedSecret[n][j] # None /\ secret[j] # None /\ cachedSecret[n][j].current
           /\ WriteSecret(j, secret[j].keys, new)
    BY <1>2, ZenonT(60) DEF PatchSecretWithOwnerRef
  <2> QED
    BY <2>2, <2>3, <2>4, ZenonT(60)
<1>3. ASSUME NEW j \in Secret, CollectSecret(j) PROVE RefsStep(k)
  <2>1. CASE WriteSecret(j, secret[j].keys, {p \in secret[j].refs : Live(p)})
    <3>1. secret[j] # None
      BY <1>3, ZenonT(60) DEF CollectSecret
    <3>2. \/ k = j /\ secret'[k].refs = {p \in secret[j].refs : Live(p)}
          \/ secret'[k] = secret[k]
      BY <1>w, <2>1, ZenonT(60)
    <3> QED
      BY <1>u, <3>1, <3>2, ZenonT(60) DEF RefsStep
  <2> QED
    BY <1>3, <1>d, <2>1, ZenonT(60) DEF CollectSecret
<1>4. ASSUME NEW j \in Secret, UserChangesSecret(j) PROVE RefsStep(k)
  <2>1. CASE WriteSecret(j, secret[j].keys, {})
    <3>1. secret'[k].refs = {} \/ secret'[k] = secret[k]
      BY <1>w, <2>1, ZenonT(60)
    <3> QED
      BY <1>u, <3>1, ZenonT(60) DEF RefsStep
  <2>2. CASE WriteSecret(j, {}, secret[j].refs)
    <3>1. secret[j] # None
      BY <1>4 DEF UserChangesSecret
    <3>2. (k = j /\ secret'[k].refs = secret[j].refs) \/ secret'[k] = secret[k]
      BY <1>w, <2>2, ZenonT(60)
    <3> QED
      BY <1>u, <3>1, <3>2, ZenonT(60) DEF RefsStep
  <2> QED
    BY <1>4, <1>d, <2>1, <2>2, ZenonT(60) DEF UserChangesSecret
<1>5. ASSUME NEW n \in Node, ListFiles(n) \/ SyncObject(n) \/ ApiFails(n) \/ Restart(n)
      PROVE  UNCHANGED secret
  BY <1>5 DEF ListFiles, SyncObject, ApiFails, Restart, apiVars
<1>6. ASSUME NEW n \in Node, NEW m \in StatusName,
             Reconcile(n, m) \/ SeeStatus(n, m) \/ Resync(n, m) \/ DelayEnds(n, m)
      PROVE  UNCHANGED secret
  BY <1>6, ZenonT(60) DEF Reconcile, SeeStatus, Resync, DelayEnds, apiVars
<1>7. ASSUME NEW p \in Pod, \/ MountVolume(p) \/ CreatePodStatus(p) \/ TerminatePod(p)
                            \/ UnmountVolume(p) \/ RemovePod(p)
      PROVE  UNCHANGED secret
  BY <1>7 DEF MountVolume, CreatePodStatus, TerminatePod, UnmountVolume, RemovePod, apiVars
<1>8. ASSUME \/ \E m \in StatusName : CollectStatus(m)
             \/ \E n \in Node, j \in Secret : SeeSecret(n, j)
             \/ UserSetsClass \/ UNCHANGED vars
      PROVE  UNCHANGED secret
  BY <1>8 DEF CollectStatus, SeeSecret, UserSetsClass, apiVars, vars
<1>9. CASE UNCHANGED secret
  BY <1>u, <1>9, ZenonT(60)
<1> QED
  BY <1>1, <1>2, <1>3, <1>4, <1>5, <1>6, <1>7, <1>8, <1>9, ZenonT(60) DEF Next, System, Disturb, Worker

LEMMA NextRefsStarted ==
    SyncTypeOK /\ VolumesFollow /\ CurrentCopies /\ RefsStarted /\ [Next]_vars => RefsStarted'
<1> SUFFICES ASSUME SyncTypeOK, VolumesFollow, CurrentCopies, RefsStarted, [Next]_vars,
                    NEW k \in Secret, secret'[k] # None, NEW p \in secret'[k].refs
             PROVE  Started(p)'
  BY ZenonT(60) DEF RefsStarted, Started
<1>1. p \in Pod /\ Started(p)
  <2>0. \/ secret[k] # None /\ p \in secret[k].refs
        \/ \E n \in Node : work[n].pc # "idle" /\ p = work[n].pod
    BY NextRefs, ZenonT(60) DEF RefsStep, WithOwner
  <2>1. CASE secret[k] # None /\ p \in secret[k].refs
    <3>1. secret[k] \in SecretValue
      BY <2>1 DEF SyncTypeOK, TypeOK
    <3> QED
      BY <2>1, <3>1, ZenonT(60) DEF RefsStarted, SecretValue
  <2>2. ASSUME NEW n \in Node, work[n].pc # "idle", p = work[n].pod PROVE p \in Pod /\ Started(p)
    <3>1. work[n] \in Work /\ SyncsWhole(n)
      BY ZenonT(60) DEF SyncTypeOK, TypeOK, VolumesFollow
    <3> QED
      BY <2>2, <3>1, ZenonT(60) DEF Work, SyncsWhole
  <2> QED
    BY <2>0, <2>1, <2>2
<1> QED
  BY <1>1, NextStatuses

LEMMA NextOneOwner ==
    SyncTypeOK /\ CurrentCopies /\ OneOwnerPerName /\ [Next]_vars => OneOwnerPerName'
<1> SUFFICES ASSUME SyncTypeOK, CurrentCopies, OneOwnerPerName, [Next]_vars,
                    NEW k \in Secret, secret'[k] # None,
                    NEW p \in secret'[k].refs, NEW q \in secret'[k].refs, NameOf[p] = NameOf[q]
             PROVE  p = q
  BY ZenonT(60) DEF OneOwnerPerName
<1>1. RefsStep(k)
  BY NextRefs
<1>2. CASE secret[k] # None /\ secret'[k].refs \subseteq secret[k].refs
  BY <1>2 DEF OneOwnerPerName
<1>3. ASSUME NEW n \in Node, secret[k] # None,
             secret'[k].refs = WithOwner(secret[k].refs, work[n].pod)
      PROVE  p = q
  <2>1. /\ p = work[n].pod \/ (p \in secret[k].refs /\ NameOf[p] # NameOf[work[n].pod])
        /\ q = work[n].pod \/ (q \in secret[k].refs /\ NameOf[q] # NameOf[work[n].pod])
    BY <1>3 DEF WithOwner
  <2> QED
    BY <1>3, <2>1, ZenonT(60) DEF OneOwnerPerName
<1> QED
  BY <1>1, <1>2, <1>3 DEF RefsStep

\* Each reconciler works for pods of its own node under their own status names,
\* and each owner of a Secret is a pod that had its status recorded, for any
\* nodes and pods, whatever names are used again and however old the caches are.
THEOREM OwnersStayReal == Spec => []OwnersAreReal
<1>1. Init => OwnPods /\ RefsStarted
  <2> SUFFICES ASSUME Init PROVE OwnPods /\ RefsStarted
    OBVIOUS
  <2>1. /\ \A m \in StatusName : status[m] = None
        /\ \A n \in Node, m \in StatusName : cachedStatus[n][m] = None
        /\ \A n \in Node : work[n].pc = "idle"
        /\ \A k \in Secret : secret[k] = None
    BY NoWorkType DEF Init
  <2> QED
    BY <2>1, ZenonT(60) DEF OwnPods, RefsStarted
<1>2. OwnPods /\ RefsStarted => OwnersAreReal
  BY ZenonT(60) DEF OwnPods, OwnPod, RefsStarted, Started, OwnersAreReal
<1> QED
  BY <1>1, <1>2, InitSyncTypeOK, NextSyncTypeOK, InitVolumes, NextVolumes, InitCopies, NextCopies,
     NextOwnPods, NextRefsStarted, PTL DEF Spec

\* A Secret never names two pods of one status name as owners, however often a
\* pod of that name is replaced: SetOwnerReference replaces the reference of the
\* same name, and the optimistic lock lets no older list back in.
THEOREM OwnersAreOnePerName == Spec => []OneOwnerPerName
<1>1. Init => OneOwnerPerName
  BY ZenonT(60) DEF Init, OneOwnerPerName
<1> QED
  BY <1>1, InitSyncTypeOK, NextSyncTypeOK, InitCopies, NextCopies, NextOneOwner, PTL DEF Spec

=============================================================================
