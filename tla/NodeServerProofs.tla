-------------------------- MODULE NodeServerProofs --------------------------
(***************************************************************************)
(* Safety of the node service, for any targets, handlers and objects.      *)
(***************************************************************************)
EXTENDS NodeServer, FiniteSetTheorems, TLAPS

-----------------------------------------------------------------------------
(* The inductive invariant.                                                *)

\* Nothing is mounted on or written to a directory that is not there, and a
\* volume that is gone for kubelet has none.
NothingWithoutDir ==
    \A t \in Target :
        /\ ~dir[t] => ~Mounted(t) /\ disk[t] = {}
        /\ Request[t] = "volume" /\ kubelet[t] = "removed" => ~dir[t]

Busy(h) == call[h].pc # "idle"

\* A target for which kubelet has given up on no call is served by one call at
\* most, kubelet waits for that call, and knows no other state of the volume
\* than "in progress" while it runs.
ServedAlone(h) ==
    LET t == call[h].target IN
    /\ call[h].waiting => Busy(h)
    /\ Busy(h) /\ "timeout" \notin faults[t] =>
         /\ call[h].waiting
         /\ kubelet[t] = IF call[h].pc \in PublishStep THEN "publishing" ELSE "unpublishing"
         /\ \A g \in Handler : Busy(g) /\ call[g].target = t => g = h

IsServed(t) ==
    "timeout" \notin faults[t] /\ kubelet[t] \in {"publishing", "unpublishing"}
        => \E h \in Handler : Busy(h) /\ call[h].target = t

OneCall == (\A h \in Handler : ServedAlone(h)) /\ (\A t \in Target : IsServed(t))

AllOrNothing(t) == ~Mounted(t) \/ Whole(t)

\* What is mounted on such a target at every step of a call.
FollowsCall(h) ==
    LET t == call[h].target IN
    Busy(h) /\ faults[t] = {} =>
        /\ call[h].pc \in {"ensure", "lookup", "mount"} => call[h].written = {}
        /\ Request[t] # "invalid"
        /\ call[h].pc \in {"provider", "status"} =>
             Request[t] = "volume" /\ mounts[t] = <<call[h].written>>
        /\ call[h].pc = "status" => call[h].written = Object
        /\ Request[t] = "volume" =>
             /\ call[h].pc \in {"ensure", "unmountStale", "cleanup"} => AllOrNothing(t)
             /\ call[h].pc \in {"lookup", "mount", "remove"} => ~Mounted(t)
             /\ call[h].pc = "undo" => Len(mounts[t]) <= 1

\* What is mounted on it between calls.
AtRest(t) ==
    faults[t] = {} =>
        /\ disk[t] = {}
        /\ Request[t] = "volume" /\ kubelet[t] \notin {"publishing", "unpublishing"} =>
             /\ AllOrNothing(t)
             /\ kubelet[t] = "published" => Whole(t)

MountsFollow == (\A h \in Handler : FollowsCall(h)) /\ (\A t \in Target : AtRest(t))

IInv == TypeOK /\ OneCall /\ MountsFollow

-----------------------------------------------------------------------------
(* Type correctness.                                                       *)

LEMMA PopType ==
    ASSUME NEW S, NEW s \in Seq(S), s # << >>
    PROVE  /\ SubSeq(s, 1, Len(s) - 1) \in Seq(S)
           /\ Len(s) <= 1 => SubSeq(s, 1, Len(s) - 1) = << >>
<1>1. Len(s) \in Nat /\ Len(s) > 0
  OBVIOUS
<1> QED
  BY <1>1

LEMMA IdleType == Idle \in Call /\ Idle.pc = "idle" /\ ~Idle.waiting
<1>1. (CHOOSE t \in Target : TRUE) \in Target
  BY TargetNonempty
<1> QED
  BY <1>1 DEF Idle, NewCall, Call

LEMMA InitTypeOK == Init => TypeOK
BY IdleType DEF Init, TypeOK, KubeletState

LEMMA AnswerType ==
    ASSUME TypeOK, NEW h \in Handler, NEW view \in KubeletState, Answer(h, view)
    PROVE  call' \in [Handler -> Call] /\ kubelet' \in [Target -> KubeletState]
BY IdleType DEF Answer, TypeOK, Call

LEMMA GotoType ==
    ASSUME TypeOK, NEW h \in Handler, NEW pc \in PublishStep \cup UnpublishStep, Goto(h, pc)
    PROVE  call' \in [Handler -> Call]
BY ZenonT(30) DEF Goto, TypeOK, Call

LEMMA PopMountType ==
    ASSUME TypeOK, NEW t \in Target, PopMount(t)
    PROVE  mounts' \in [Target -> Seq(SUBSET Object)] /\ stale' \subseteq Target
<1>1. SubSeq(mounts[t], 1, Len(mounts[t]) - 1) \in Seq(SUBSET Object)
  BY PopType DEF PopMount, Mounted, TypeOK
<1> QED
  BY <1>1 DEF PopMount, TypeOK

LEMMA NextTypeOK == TypeOK /\ [Next]_vars => TypeOK'
<1> SUFFICES ASSUME TypeOK, [Next]_vars PROVE TypeOK'
  OBVIOUS
<1> USE DEF KubeletState
<1>t. \A h \in Handler : call[h].target \in Target
  BY DEF TypeOK, Call
<1>1. ASSUME NEW h \in Handler, NEW t \in Target, NodePublishVolume(h, t) PROVE TypeOK'
  <2>1. NewCall("ensure", t, TRUE) \in Call
    BY DEF NewCall, Call, PublishStep
  <2>2. call' \in [Handler -> Call]
    BY <1>1, <2>1, ZenonT(60) DEF NodePublishVolume, TypeOK
  <2>3. kubelet' \in [Target -> KubeletState] /\ dir' \in [Target -> BOOLEAN]
    BY <1>1, ZenonT(60) DEF NodePublishVolume, TypeOK
  <2> QED
    BY <1>1, <2>2, <2>3 DEF NodePublishVolume, TypeOK
<1>2. ASSUME NEW h \in Handler, NEW t \in Target, NodeUnpublishVolume(h, t) PROVE TypeOK'
  <2>1. NewCall("cleanup", t, TRUE) \in Call
    BY DEF NewCall, Call, UnpublishStep
  <2>2. call' \in [Handler -> Call]
    BY <1>2, <2>1, ZenonT(60) DEF NodeUnpublishVolume, TypeOK
  <2>3. kubelet' \in [Target -> KubeletState]
    BY <1>2, ZenonT(60) DEF NodeUnpublishVolume, TypeOK
  <2> QED
    BY <1>2, <2>2, <2>3 DEF NodeUnpublishVolume, TypeOK
<1>3. ASSUME NEW h \in Handler, EnsureMountPoint(h) PROVE TypeOK'
  <2>1. call' \in [Handler -> Call] /\ kubelet' \in [Target -> KubeletState]
    BY <1>3, AnswerType, GotoType DEF EnsureMountPoint, Fail, Succeed, PublishStep, TypeOK
  <2> QED
    BY <1>3, <2>1 DEF EnsureMountPoint, TypeOK
<1>4. ASSUME NEW h \in Handler, UnmountStale(h) PROVE TypeOK'
  <2>1. call' \in [Handler -> Call] /\ kubelet' \in [Target -> KubeletState]
    BY <1>4, AnswerType, GotoType DEF UnmountStale, Fail, FailMounted, PublishStep, TypeOK
  <2>2. mounts' \in [Target -> Seq(SUBSET Object)] /\ stale' \subseteq Target
    BY <1>4, <1>t, PopMountType DEF UnmountStale, TypeOK
  <2> QED
    BY <1>4, <2>1, <2>2 DEF UnmountStale, TypeOK
<1>5. ASSUME NEW h \in Handler, LookupClass(h) PROVE TypeOK'
  <2>1. call' \in [Handler -> Call] /\ kubelet' \in [Target -> KubeletState]
    BY <1>5, AnswerType, GotoType DEF LookupClass, Fail, PublishStep, TypeOK
  <2> QED
    BY <1>5, <2>1 DEF LookupClass, TypeOK
<1>6. ASSUME NEW h \in Handler, MountTmpfs(h) PROVE TypeOK'
  <2>1. call' \in [Handler -> Call] /\ kubelet' \in [Target -> KubeletState]
    BY <1>6, AnswerType, GotoType DEF MountTmpfs, Fail, Succeed, PublishStep, TypeOK
  <2>2. Append(mounts[call[h].target], {}) \in Seq(SUBSET Object)
    BY <1>t DEF TypeOK
  <2>3. mounts' \in [Target -> Seq(SUBSET Object)] /\ stale' \subseteq Target
    BY <1>6, <1>t, <2>2, ZenonT(30) DEF MountTmpfs, PushMount, TypeOK
  <2> QED
    BY <1>6, <2>1, <2>3 DEF MountTmpfs, TypeOK
<1>7. ASSUME NEW h \in Handler, ProviderWrite(h) PROVE TypeOK'
  <2> DEFINE t == call[h].target
  <2>1. PICK o \in Object :
          /\ call' = [call EXCEPT ![h].written = @ \cup {o}]
          /\ IF Mounted(t)
             THEN /\ mounts' = [mounts EXCEPT ![t][Len(mounts[t])] = @ \cup {o}]
                  /\ UNCHANGED disk
             ELSE /\ disk' = [disk EXCEPT ![t] = @ \cup {o}]
                  /\ UNCHANGED mounts
    BY <1>7, ZenonT(60) DEF ProviderWrite
  <2>2. call' \in [Handler -> Call]
    <3>1. call[h] \in Call
      BY DEF TypeOK
    <3>2. [call[h] EXCEPT !.written = @ \cup {o}] \in Call
      BY <3>1 DEF Call
    <3>3. call' = [call EXCEPT ![h] = [call[h] EXCEPT !.written = @ \cup {o}]]
      BY <2>1
    <3> QED
      BY <3>2, <3>3 DEF TypeOK
  <2>3. disk' \in [Target -> SUBSET Object]
    BY <2>1, <1>t DEF TypeOK
  <2>4. mounts' \in [Target -> Seq(SUBSET Object)]
    <3>1. CASE Mounted(t)
      <4>1. Len(mounts[t]) \in 1..Len(mounts[t])
        BY <3>1, <1>t DEF Mounted, TypeOK
      <4>2. [mounts[t] EXCEPT ![Len(mounts[t])] = @ \cup {o}] \in Seq(SUBSET Object)
        BY <4>1, <1>t DEF TypeOK
      <4>3. mounts' = [mounts EXCEPT ![t] = [mounts[t] EXCEPT ![Len(mounts[t])] = @ \cup {o}]]
        BY <2>1, <3>1
      <4> QED
        BY <4>2, <4>3, <1>t DEF TypeOK
    <3>2. CASE ~Mounted(t)
      BY <2>1, <3>2 DEF TypeOK
    <3> QED
      BY <3>1, <3>2
  <2> QED
    BY <1>7, <2>2, <2>3, <2>4 DEF ProviderWrite, TypeOK
<1>8. ASSUME NEW h \in Handler, ProviderReturn(h) PROVE TypeOK'
  <2>1. call' \in [Handler -> Call] /\ kubelet' \in [Target -> KubeletState]
    BY <1>8, GotoType DEF ProviderReturn, FailMounted, PublishStep, TypeOK
  <2> QED
    BY <1>8, <2>1 DEF ProviderReturn, TypeOK
<1>9. ASSUME NEW h \in Handler, CreateStatus(h) PROVE TypeOK'
  <2>1. call' \in [Handler -> Call] /\ kubelet' \in [Target -> KubeletState]
    BY <1>9, AnswerType, GotoType DEF CreateStatus, Succeed, FailMounted, PublishStep, TypeOK
  <2> QED
    BY <1>9, <1>t, <2>1, ZenonT(60) DEF CreateStatus, TypeOK
<1>10. ASSUME NEW h \in Handler, UndoMount(h) PROVE TypeOK'
  <2>1. call' \in [Handler -> Call] /\ kubelet' \in [Target -> KubeletState]
    BY <1>10, AnswerType DEF UndoMount, Fail
  <2>2. mounts' \in [Target -> Seq(SUBSET Object)] /\ stale' \subseteq Target
    BY <1>10, <1>t, PopMountType DEF UndoMount, TypeOK
  <2>3. faults' \in [Target -> SUBSET AllFaults]
    BY <1>10, <1>t DEF UndoMount, TypeOK, AllFaults
  <2> QED
    BY <1>10, <2>1, <2>2, <2>3 DEF UndoMount, TypeOK
<1>11. ASSUME NEW h \in Handler, CleanupMountPoint(h) PROVE TypeOK'
  <2>1. call' \in [Handler -> Call] /\ kubelet' \in [Target -> KubeletState]
    BY <1>11, AnswerType, GotoType DEF CleanupMountPoint, UnpublishStep, TypeOK
  <2>2. mounts' \in [Target -> Seq(SUBSET Object)] /\ stale' \subseteq Target
    BY <1>11, <1>t, PopMountType DEF CleanupMountPoint, TypeOK
  <2> QED
    BY <1>11, <2>1, <2>2 DEF CleanupMountPoint, TypeOK
<1>12. ASSUME NEW h \in Handler, RemoveTarget(h) PROVE TypeOK'
  <2>1. call' \in [Handler -> Call] /\ kubelet' \in [Target -> KubeletState]
    BY <1>12, AnswerType DEF RemoveTarget
  <2> QED
    BY <1>12, <1>t, <2>1, ZenonT(60) DEF RemoveTarget, TypeOK
<1>13. ASSUME NEW h \in Handler, Timeout(h) PROVE TypeOK'
  BY <1>13, <1>t, ZenonT(30) DEF Timeout, TypeOK, Call, AllFaults
<1>14. ASSUME Crash PROVE TypeOK'
  BY <1>14, IdleType DEF Crash, TypeOK, AllFaults
<1>15. ASSUME NEW t \in Target, MountGoesStale(t) PROVE TypeOK'
  BY <1>15 DEF MountGoesStale, TypeOK
<1>16. ASSUME UNCHANGED vars PROVE TypeOK'
  BY <1>16 DEF vars, TypeOK
<1> QED
  BY <1>1, <1>2, <1>3, <1>4, <1>5, <1>6, <1>7, <1>8, <1>9, <1>10, <1>11, <1>12, <1>13,
     <1>14, <1>15, <1>16 DEF Next, HandlerStep

\* The state of the node service is well typed, whatever requests, faults and
\* overlapping calls there are.
THEOREM TypeCorrect == Spec => []TypeOK
BY InitTypeOK, NextTypeOK, PTL DEF Spec

-----------------------------------------------------------------------------
(* Nothing is left of a volume that was removed.                           *)

LEMMA NextNothingWithoutDir ==
    TypeOK /\ NothingWithoutDir /\ [Next]_vars => NothingWithoutDir'
<1> SUFFICES ASSUME TypeOK, NothingWithoutDir, [Next]_vars PROVE NothingWithoutDir'
  OBVIOUS
<1> USE DEF NothingWithoutDir, Mounted
<1>t. \A h \in Handler : call[h].target \in Target
  BY DEF TypeOK, Call
<1>a. ASSUME NEW h \in Handler, NEW view \in KubeletState \ {"removed"}, Answer(h, view)
      PROVE \A t \in Target : kubelet'[t] = "removed" => kubelet[t] = "removed"
  BY <1>a, <1>t DEF Answer, TypeOK
<1>p. ASSUME NEW t \in Target, PopMount(t)
      PROVE \A u \in Target : mounts[u] = << >> => mounts'[u] = << >>
  BY <1>p DEF PopMount, TypeOK
<1> USE DEF KubeletState
<1>1. ASSUME NEW h \in Handler, NEW t \in Target, NodePublishVolume(h, t)
      PROVE NothingWithoutDir'
  BY <1>1, ZenonT(60) DEF NodePublishVolume, TypeOK
<1>2. ASSUME NEW h \in Handler, NEW t \in Target, NodeUnpublishVolume(h, t)
      PROVE NothingWithoutDir'
  BY <1>2, ZenonT(60) DEF NodeUnpublishVolume, TypeOK
<1>3. ASSUME NEW h \in Handler, EnsureMountPoint(h) PROVE NothingWithoutDir'
  BY <1>3, <1>a DEF EnsureMountPoint, Fail, Succeed
<1>4. ASSUME NEW h \in Handler, UnmountStale(h) PROVE NothingWithoutDir'
  BY <1>4, <1>a, <1>p, <1>t DEF UnmountStale, Fail, FailMounted
<1>5. ASSUME NEW h \in Handler, LookupClass(h) PROVE NothingWithoutDir'
  BY <1>5, <1>a DEF LookupClass, Fail
<1>6. ASSUME NEW h \in Handler, MountTmpfs(h) PROVE NothingWithoutDir'
  <2>1. \A u \in Target : ~dir[u] => mounts'[u] = mounts[u]
    BY <1>6, <1>t DEF MountTmpfs, PushMount, TypeOK
  <2> QED
    BY <1>6, <1>a, <2>1 DEF MountTmpfs, Fail, Succeed
<1>7. ASSUME NEW h \in Handler, ProviderWrite(h) PROVE NothingWithoutDir'
  <2>1. \A u \in Target : ~dir[u] => mounts'[u] = mounts[u] /\ disk'[u] = disk[u]
    BY <1>7, <1>t DEF ProviderWrite, TypeOK
  <2> QED
    BY <1>7, <2>1 DEF ProviderWrite
<1>8. ASSUME NEW h \in Handler, ProviderReturn(h) PROVE NothingWithoutDir'
  BY <1>8 DEF ProviderReturn, FailMounted
<1>9. ASSUME NEW h \in Handler, CreateStatus(h) PROVE NothingWithoutDir'
  BY <1>9, <1>a DEF CreateStatus, FailMounted, Succeed
<1>10. ASSUME NEW h \in Handler, UndoMount(h) PROVE NothingWithoutDir'
  BY <1>10, <1>a, <1>p, <1>t DEF UndoMount, Fail
<1>11. ASSUME NEW h \in Handler, CleanupMountPoint(h) PROVE NothingWithoutDir'
  <2>1. \A u \in Target : kubelet'[u] = "removed" => kubelet[u] = "removed" \/ ~dir[u]
    BY <1>11, <1>a, <1>t DEF CleanupMountPoint, Answer, TypeOK
  <2> QED
    BY <1>11, <1>p, <1>t, <2>1 DEF CleanupMountPoint
<1>12. ASSUME NEW h \in Handler, RemoveTarget(h) PROVE NothingWithoutDir'
  BY <1>12, <1>t, ZenonT(30) DEF RemoveTarget, Answer, TypeOK
<1>13. ASSUME NEW h \in Handler, Timeout(h) PROVE NothingWithoutDir'
  BY <1>13, <1>t DEF Timeout, TypeOK
<1>14. ASSUME Crash PROVE NothingWithoutDir'
  <2>1. \A t \in Target : kubelet'[t] = "removed" => kubelet[t] = "removed"
    BY <1>14 DEF Crash, TypeOK
  <2> QED
    BY <1>14, <2>1 DEF Crash
<1>15. ASSUME NEW t \in Target, MountGoesStale(t) PROVE NothingWithoutDir'
  BY <1>15 DEF MountGoesStale
<1>16. ASSUME UNCHANGED vars PROVE NothingWithoutDir'
  BY <1>16 DEF vars
<1> QED
  BY <1>1, <1>2, <1>3, <1>4, <1>5, <1>6, <1>7, <1>8, <1>9, <1>10, <1>11, <1>12, <1>13,
     <1>14, <1>15, <1>16, ZenonT(60) DEF Next, HandlerStep

\* Once NodeUnpublishVolume has answered OK for a pod's volume, nothing of it
\* is left or comes back, whatever calls still run and whatever faults there
\* were: mounting and writing need the directory, os.Remove deletes it only
\* when nothing is on it or in it, and kubelet does not create it again.
THEOREM RemovedStaysClean == Spec => []RemovedIsClean
<1>1. Init => NothingWithoutDir
  BY ZenonT(60) DEF Init, NothingWithoutDir, Mounted
<1>2. TypeOK /\ NothingWithoutDir => RemovedIsClean
  BY DEF NothingWithoutDir, RemovedIsClean
<1> QED
  BY <1>1, <1>2, InitTypeOK, NextTypeOK, NextNothingWithoutDir, PTL DEF Spec

-----------------------------------------------------------------------------
(* One call per target.                                                    *)

LEMMA GotoOneCall ==
    ASSUME TypeOK, OneCall, NEW h \in Handler, NEW pc \in PublishStep \cup UnpublishStep,
           Busy(h), call[h].pc \in PublishStep <=> pc \in PublishStep,
           Goto(h, pc), UNCHANGED <<kubelet, faults>>
    PROVE  OneCall'
<1>1. call' = [call EXCEPT ![h] = [call[h] EXCEPT !.pc = pc]]
  BY DEF Goto
<1>2. call \in [Handler -> Call] /\ call[h] \in Call
  BY DEF TypeOK
<1>3. /\ call'[h].pc = pc /\ call'[h].target = call[h].target
      /\ call'[h].waiting = call[h].waiting
  BY <1>1, <1>2 DEF Call
<1>4. \A g \in Handler : g # h => call'[g] = call[g]
  BY <1>1, <1>2
<1>5. pc # "idle"
  BY DEF PublishStep, UnpublishStep
<1>6. \A g \in Handler : Busy(g)' <=> Busy(g)
  BY <1>3, <1>4, <1>5 DEF Busy
<1>7. ASSUME NEW g \in Handler PROVE ServedAlone(g)'
  BY <1>3, <1>4, <1>6 DEF OneCall, ServedAlone
<1>8. ASSUME NEW t \in Target PROVE IsServed(t)'
  <2>1. \A g \in Handler : call'[g].target = call[g].target
    BY <1>3, <1>4
  <2> QED
    BY <2>1, <1>6 DEF OneCall, IsServed
<1> QED
  BY <1>7, <1>8 DEF OneCall

LEMMA AnswerOneCall ==
    ASSUME TypeOK, OneCall, NEW h \in Handler, Busy(h),
           NEW view \in KubeletState \ {"publishing", "unpublishing"}, Answer(h, view),
           \A t \in Target : "timeout" \notin faults'[t] => "timeout" \notin faults[t]
    PROVE  OneCall'
<1> DEFINE t0 == call[h].target
<1>1. t0 \in Target /\ call \in [Handler -> Call] /\ kubelet \in [Target -> KubeletState]
  BY DEF TypeOK, Call
<1>2. call'[h] = Idle /\ \A g \in Handler : g # h => call'[g] = call[g]
  BY <1>1 DEF Answer
<1>3. \A t \in Target : t # t0 => kubelet'[t] = kubelet[t]
  BY <1>1 DEF Answer
<1>4. call[h].waiting => kubelet'[t0] = view
  BY <1>1 DEF Answer
<1>5. ~Busy(h)' /\ ~call'[h].waiting
  BY <1>2, IdleType DEF Busy
<1>6. \A g \in Handler : g # h => (Busy(g)' <=> Busy(g))
  BY <1>2 DEF Busy
<1>7. ASSUME NEW g \in Handler PROVE ServedAlone(g)'
  <2>1. CASE g = h
    BY <2>1, <1>5 DEF ServedAlone
  <2>2. CASE g # h /\ Busy(g) /\ "timeout" \notin faults'[call[g].target]
    <3>1. call[g].target \in Target
      BY <1>1 DEF Call
    <3>2. "timeout" \notin faults[call[g].target]
      BY <2>2, <3>1
    <3>3. call[g].target # t0
      BY <2>2, <3>2 DEF OneCall, ServedAlone
    <3> QED
      BY <2>2, <3>1, <3>2, <3>3, <1>2, <1>3, <1>5, <1>6 DEF OneCall, ServedAlone
  <2>3. CASE g # h /\ ~(Busy(g) /\ "timeout" \notin faults'[call[g].target])
    BY <2>3, <1>2, <1>6 DEF OneCall, ServedAlone
  <2> QED
    BY <2>1, <2>2, <2>3
<1>8. ASSUME NEW t \in Target PROVE IsServed(t)'
  <2> SUFFICES ASSUME "timeout" \notin faults'[t], kubelet'[t] \in {"publishing", "unpublishing"}
               PROVE \E g \in Handler : Busy(g)' /\ call'[g].target = t
    BY DEF IsServed
  <2>1. "timeout" \notin faults[t]
    OBVIOUS
  <2>2. t # t0
    BY <2>1, <1>4 DEF OneCall, ServedAlone
  <2>3. PICK g \in Handler : Busy(g) /\ call[g].target = t
    BY <2>1, <2>2, <1>3 DEF OneCall, IsServed
  <2> QED
    BY <2>2, <2>3, <1>2, <1>6
<1> QED
  BY <1>7, <1>8 DEF OneCall

LEMMA BeginOneCall ==
    ASSUME TypeOK, OneCall, NEW h \in Handler, NEW t \in Target, ~Busy(h),
           NEW pc \in {"ensure", "cleanup"},
           kubelet[t] \notin {"publishing", "unpublishing"},
           call' = [call EXCEPT ![h] = NewCall(pc, t, TRUE)],
           kubelet' = [kubelet EXCEPT ![t] = IF pc = "ensure" THEN "publishing" ELSE "unpublishing"],
           UNCHANGED faults
    PROVE  OneCall'
<1>1. call \in [Handler -> Call] /\ kubelet \in [Target -> KubeletState]
  BY DEF TypeOK
<1>2. /\ call'[h].pc = pc /\ call'[h].target = t /\ call'[h].waiting
      /\ \A g \in Handler : g # h => call'[g] = call[g]
  BY <1>1 DEF NewCall
<1>3. Busy(h)' /\ \A g \in Handler : g # h => (Busy(g)' <=> Busy(g))
  BY <1>2, ZenonT(60) DEF Busy
<1>4. "timeout" \notin faults[t] => \A g \in Handler : ~(Busy(g) /\ call[g].target = t)
  BY DEF OneCall, ServedAlone
<1>5. kubelet'[t] = (IF pc \in PublishStep THEN "publishing" ELSE "unpublishing")
  BY <1>1 DEF PublishStep
<1>6. \A u \in Target : u # t => kubelet'[u] = kubelet[u]
  BY <1>1
<1>7. ASSUME NEW g \in Handler PROVE ServedAlone(g)'
  <2>1. CASE g = h
    <3>1. "timeout" \notin faults'[t] => \A x \in Handler : Busy(x)' /\ call'[x].target = t => x = h
      BY <1>2, <1>3, <1>4, ZenonT(60)
    <3>2. ServedAlone(h)'
      BY <3>1, <1>2, <1>3, <1>5, ZenonT(60) DEF ServedAlone
    <3> QED
      BY <2>1, <3>2
  <2>2. CASE g # h
    <3>1. call[g].target \in Target
      BY <1>1 DEF Call
    <3>2. CASE call[g].target = t
      BY <2>2, <3>2, <1>2, <1>3, <1>4, ZenonT(60) DEF OneCall, ServedAlone
    <3>3. CASE call[g].target # t
      <4>1. /\ call'[g] = call[g] /\ (Busy(g)' <=> Busy(g))
            /\ kubelet'[call[g].target] = kubelet[call[g].target]
        BY <2>2, <3>1, <3>3, <1>2, <1>3, <1>6
      <4>2. \A x \in Handler : Busy(x)' /\ call'[x].target = call[g].target
                => Busy(x) /\ call[x].target = call[g].target
        BY <3>3, <1>2, <1>3, ZenonT(60)
      <4>3. ServedAlone(g)
        BY DEF OneCall
      <4> QED
        BY <4>1, <4>2, <4>3, ZenonT(60) DEF ServedAlone
    <3> QED
      BY <3>2, <3>3
  <2> QED
    BY <2>1, <2>2
<1>8. ASSUME NEW u \in Target PROVE IsServed(u)'
  <2>1. CASE u = t
    BY <2>1, <1>2, <1>3, ZenonT(60) DEF IsServed
  <2>2. CASE u # t
    <3>1. \A x \in Handler : Busy(x) /\ call[x].target = u => Busy(x)' /\ call'[x].target = u
      BY <1>2, <1>3, ZenonT(60)
    <3>2. IsServed(u) /\ kubelet'[u] = kubelet[u]
      BY <2>2, <1>6 DEF OneCall
    <3> QED
      BY <3>1, <3>2, ZenonT(60) DEF IsServed
  <2> QED
    BY <2>1, <2>2
<1> QED
  BY <1>7, <1>8 DEF OneCall

LEMMA NextOneCall == TypeOK /\ OneCall /\ [Next]_vars => OneCall'
<1> SUFFICES ASSUME TypeOK, OneCall, [Next]_vars PROVE OneCall'
  OBVIOUS
<1>t. \A h \in Handler : call[h].target \in Target
  BY DEF TypeOK, Call
<1>r. ASSUME NEW h \in Handler, NEW t \in Target, UNCHANGED <<call, faults>>,
             NEW view \in KubeletState \ {"publishing", "unpublishing"},
             kubelet[t] \notin {"publishing", "unpublishing"},
             kubelet' = [kubelet EXCEPT ![t] = view]
      PROVE OneCall'
  <2>1. \A u \in Target : u # t => kubelet'[u] = kubelet[u]
    BY <1>r DEF TypeOK
  <2>2. kubelet'[t] = view
    BY <1>r DEF TypeOK
  <2>3. ASSUME NEW g \in Handler PROVE ServedAlone(g)'
    BY <1>r, <1>t, <2>1, <2>2 DEF OneCall, ServedAlone, Busy
  <2>4. ASSUME NEW u \in Target PROVE IsServed(u)'
    BY <1>r, <2>1, <2>2 DEF OneCall, IsServed, Busy
  <2> QED
    BY <2>3, <2>4 DEF OneCall
<1> USE DEF KubeletState, PublishStep, UnpublishStep
<1>1. ASSUME NEW h \in Handler, NEW t \in Target, NodePublishVolume(h, t) PROVE OneCall'
  <2>1. CASE Request[t] = "invalid"
    BY <1>1, <1>r, <2>1 DEF NodePublishVolume
  <2>2. CASE Request[t] # "invalid"
    BY <1>1, <2>2, BeginOneCall, ZenonT(60) DEF NodePublishVolume, Busy
  <2> QED
    BY <2>1, <2>2
<1>2. ASSUME NEW h \in Handler, NEW t \in Target, NodeUnpublishVolume(h, t) PROVE OneCall'
  <2>1. CASE Request[t] # "volume"
    BY <1>2, <1>r, <2>1 DEF NodeUnpublishVolume
  <2>2. CASE Request[t] = "volume"
    BY <1>2, <2>2, BeginOneCall, ZenonT(60) DEF NodeUnpublishVolume, Busy
  <2> QED
    BY <2>1, <2>2
<1>3. ASSUME NEW h \in Handler, EnsureMountPoint(h) PROVE OneCall'
  BY <1>3, AnswerOneCall, GotoOneCall DEF EnsureMountPoint, Fail, Succeed, Busy
<1>4. ASSUME NEW h \in Handler, UnmountStale(h) PROVE OneCall'
  BY <1>4, AnswerOneCall, GotoOneCall DEF UnmountStale, Fail, FailMounted, Busy
<1>5. ASSUME NEW h \in Handler, LookupClass(h) PROVE OneCall'
  BY <1>5, AnswerOneCall, GotoOneCall DEF LookupClass, Fail, Busy
<1>6. ASSUME NEW h \in Handler, MountTmpfs(h) PROVE OneCall'
  BY <1>6, AnswerOneCall, GotoOneCall DEF MountTmpfs, Fail, Succeed, Busy
<1>7. ASSUME NEW h \in Handler, ProviderWrite(h) PROVE OneCall'
  <2>1. PICK o \in Object : call' = [call EXCEPT ![h].written = @ \cup {o}]
    BY <1>7, ZenonT(60) DEF ProviderWrite
  <2>2. \A g \in Handler : /\ call'[g].pc = call[g].pc
                          /\ call'[g].target = call[g].target
                          /\ call'[g].waiting = call[g].waiting
    <3>1. call' = [call EXCEPT ![h] = [call[h] EXCEPT !.written = @ \cup {o}]]
      BY <2>1
    <3> QED
      BY <3>1 DEF TypeOK, Call
  <2>3. \A g \in Handler : Busy(g)' <=> Busy(g)
    BY <2>2 DEF Busy
  <2>4. UNCHANGED <<kubelet, faults>>
    BY <1>7 DEF ProviderWrite
  <2>5. ASSUME NEW g \in Handler PROVE ServedAlone(g)'
    BY <2>2, <2>3, <2>4 DEF OneCall, ServedAlone
  <2>6. ASSUME NEW t \in Target PROVE IsServed(t)'
    BY <2>2, <2>3, <2>4 DEF OneCall, IsServed
  <2> QED
    BY <2>5, <2>6 DEF OneCall
<1>8. ASSUME NEW h \in Handler, ProviderReturn(h) PROVE OneCall'
  BY <1>8, GotoOneCall DEF ProviderReturn, FailMounted, Busy
<1>9. ASSUME NEW h \in Handler, CreateStatus(h) PROVE OneCall'
  BY <1>9, AnswerOneCall, GotoOneCall DEF CreateStatus, FailMounted, Succeed, Busy
<1>10. ASSUME NEW h \in Handler, UndoMount(h) PROVE OneCall'
  <2>1. \A t \in Target : "timeout" \notin faults'[t] => "timeout" \notin faults[t]
    BY <1>10, <1>t, ZenonT(60) DEF UndoMount, TypeOK
  <2> QED
    BY <1>10, <2>1, AnswerOneCall DEF UndoMount, Fail, Busy
<1>11. ASSUME NEW h \in Handler, CleanupMountPoint(h) PROVE OneCall'
  BY <1>11, AnswerOneCall, GotoOneCall DEF CleanupMountPoint, Busy
<1>12. ASSUME NEW h \in Handler, RemoveTarget(h) PROVE OneCall'
  BY <1>12, AnswerOneCall DEF RemoveTarget, Busy
<1>13. ASSUME NEW h \in Handler, Timeout(h) PROVE OneCall'
  <2> DEFINE t0 == call[h].target
  <2>1. /\ \A g \in Handler : call'[g].pc = call[g].pc /\ call'[g].target = call[g].target
        /\ \A g \in Handler : g # h => call'[g] = call[g]
        /\ ~call'[h].waiting
    <3>1. call' = [call EXCEPT ![h] = [call[h] EXCEPT !.waiting = FALSE]]
      BY <1>13 DEF Timeout
    <3> QED
      BY <3>1 DEF TypeOK, Call
  <2>2. "timeout" \in faults'[t0]
    BY <1>13, <1>t, ZenonT(60) DEF Timeout, TypeOK
  <2>3. \A t \in Target : t # t0 => faults'[t] = faults[t] /\ kubelet'[t] = kubelet[t]
    BY <1>13, <1>t DEF Timeout, TypeOK
  <2>4. \A g \in Handler : Busy(g)' <=> Busy(g)
    BY <2>1 DEF Busy
  <2>5. ASSUME NEW g \in Handler PROVE ServedAlone(g)'
    <3>1. CASE call[g].target = t0
      BY <3>1, <2>1, <2>2, <2>4 DEF OneCall, ServedAlone
    <3>2. CASE call[g].target # t0
      BY <3>2, <1>t, <2>1, <2>3, <2>4 DEF OneCall, ServedAlone
    <3> QED
      BY <3>1, <3>2
  <2>6. ASSUME NEW t \in Target PROVE IsServed(t)'
    BY <2>1, <2>2, <2>3, <2>4 DEF OneCall, IsServed
  <2> QED
    BY <2>5, <2>6 DEF OneCall
<1>14. ASSUME Crash PROVE OneCall'
  <2>1. \A g \in Handler : ~Busy(g)' /\ ~call'[g].waiting
    BY <1>14, IdleType DEF Crash, Busy
  <2>2. \A t \in Target : kubelet'[t] \notin {"publishing", "unpublishing"}
    BY <1>14 DEF Crash, TypeOK
  <2> QED
    BY <2>1, <2>2 DEF OneCall, ServedAlone, IsServed
<1>15. ASSUME NEW t \in Target, MountGoesStale(t) PROVE OneCall'
  BY <1>15 DEF MountGoesStale, OneCall, ServedAlone, IsServed, Busy
<1>16. ASSUME UNCHANGED vars PROVE OneCall'
  BY <1>16 DEF vars, OneCall, ServedAlone, IsServed, Busy
<1> QED
  BY <1>1, <1>2, <1>3, <1>4, <1>5, <1>6, <1>7, <1>8, <1>9, <1>10, <1>11, <1>12, <1>13,
     <1>14, <1>15, <1>16, ZenonT(60) DEF Next, HandlerStep

-----------------------------------------------------------------------------
(* What is mounted, on targets that no fault has hit.                      *)

LEMMA NothingToFollow ==
    ASSUME NEW h \in Handler, ~Busy(h)' \/ faults'[call'[h].target] # {}
    PROVE  FollowsCall(h)'
BY DEF FollowsCall

\* A step of h on target t0 that is served by no other call need only be
\* looked at there.
LEMMA LocalStep ==
    ASSUME TypeOK, MountsFollow, NEW h \in Handler, NEW t0 \in Target,
           \A g \in Handler \ {h} : Busy(g) /\ call[g].target = t0 => faults[t0] # {},
           \A g \in Handler \ {h} : call'[g] = call[g],
           \A t \in Target \ {t0} : /\ kubelet'[t] = kubelet[t] /\ mounts'[t] = mounts[t]
                                    /\ disk'[t] = disk[t] /\ (t \in status' <=> t \in status),
           \A t \in Target : faults'[t] = {} => faults[t] = {},
           FollowsCall(h)', AtRest(t0)'
    PROVE  MountsFollow'
<1>1. ASSUME NEW g \in Handler PROVE FollowsCall(g)'
  <2>1. CASE g = h
    BY <2>1
  <2>2. CASE g # h /\ call[g].target = t0
    <3>1. call'[g] = call[g] /\ (Busy(g) => faults'[t0] # {})
      BY <2>2
    <3> QED
      BY <2>2, <3>1, NothingToFollow DEF Busy
  <2>3. CASE g # h /\ call[g].target # t0
    <3> DEFINE u == call[g].target
    <3>1. u \in Target /\ call'[g] = call[g]
      BY <2>3 DEF TypeOK, Call
    <3>2. mounts'[u] = mounts[u] /\ (u \in status' <=> u \in status) /\ (faults'[u] = {} => faults[u] = {})
      BY <2>3, <3>1
    <3>3. FollowsCall(g)
      BY DEF MountsFollow
    <3> QED
      BY <3>1, <3>2, <3>3, ZenonT(30) DEF FollowsCall, Busy, AllOrNothing, Whole, Mounted
  <2> QED
    BY <2>1, <2>2, <2>3
<1>2. ASSUME NEW t \in Target PROVE AtRest(t)'
  <2>1. CASE t = t0
    BY <2>1
  <2>2. CASE t # t0
    <3>1. AtRest(t)
      BY DEF MountsFollow
    <3> QED
      BY <2>2, <3>1 DEF AtRest, AllOrNothing, Whole, Mounted
  <2> QED
    BY <2>1, <2>2
<1> QED
  BY <1>1, <1>2 DEF MountsFollow

\* Busy calls on the target of a busy call h, other than h, are on a target
\* that a fault has hit.
LEMMA Alone ==
    ASSUME TypeOK, OneCall, NEW h \in Handler, Busy(h)
    PROVE  \A g \in Handler \ {h} :
               Busy(g) /\ call[g].target = call[h].target => faults[call[h].target] # {}
BY DEF OneCall, ServedAlone

LEMMA AnswerFrame ==
    ASSUME TypeOK, NEW h \in Handler, NEW view, Answer(h, view)
    PROVE  /\ ~Busy(h)'
           /\ \A g \in Handler \ {h} : call'[g] = call[g]
           /\ \A t \in Target \ {call[h].target} : kubelet'[t] = kubelet[t]
           /\ call[h].waiting => kubelet'[call[h].target] = view
BY IdleType DEF Answer, TypeOK, Busy, Call

LEMMA GotoFrame ==
    ASSUME TypeOK, NEW h \in Handler, NEW pc, Goto(h, pc)
    PROVE  /\ call'[h].pc = pc /\ call'[h].target = call[h].target
           /\ call'[h].written = call[h].written
           /\ \A g \in Handler \ {h} : call'[g] = call[g]
<1>1. call' = [call EXCEPT ![h] = [call[h] EXCEPT !.pc = pc]]
  BY DEF Goto
<1> QED
  BY <1>1 DEF TypeOK, Call

LEMMA PopFrame ==
    ASSUME TypeOK, NEW t \in Target, PopMount(t)
    PROVE  /\ Len(mounts[t]) <= 1 => mounts'[t] = << >>
           /\ \A u \in Target \ {t} : mounts'[u] = mounts[u]
<1>1. Len(mounts[t]) <= 1 => SubSeq(mounts[t], 1, Len(mounts[t]) - 1) = << >>
  BY PopType, ZenonT(30) DEF PopMount, Mounted, TypeOK
<1> QED
  BY <1>1 DEF PopMount, TypeOK

\* An answer on t0 = call[h].target that leaves AllOrNothing mounted.
LEMMA AnswerMounts ==
    ASSUME TypeOK, OneCall, MountsFollow, NEW h \in Handler, Busy(h),
           NEW t0 \in Target, t0 = call[h].target,
           NEW view, Answer(h, view),
           \A t \in Target \ {t0} : mounts'[t] = mounts[t] /\ (t \in status' <=> t \in status),
           UNCHANGED disk,
           \A t \in Target : faults'[t] = {} => faults[t] = {},
           faults'[t0] = {} /\ Request[t0] = "volume" =>
               AllOrNothing(t0)' /\ (view = "published" => Whole(t0)')
    PROVE  MountsFollow'
<1>1. ~Busy(h)' /\ (call[h].waiting => kubelet'[t0] = view)
  BY AnswerFrame, ZenonT(30)
<1>2. FollowsCall(h)'
  BY <1>1, NothingToFollow, ZenonT(30)
<1>3. faults[t0] = {} => call[h].waiting
  BY DEF OneCall, ServedAlone
<1>4. AtRest(t0)
  BY DEF MountsFollow
<1>5. AtRest(t0)'
  BY <1>1, <1>3, <1>4 DEF AtRest
<1>6. \A g \in Handler \ {h} : Busy(g) /\ call[g].target = t0 => faults[t0] # {}
  BY Alone, ZenonT(30)
<1>7. /\ \A g \in Handler \ {h} : call'[g] = call[g]
      /\ \A t \in Target \ {t0} : kubelet'[t] = kubelet[t]
  BY AnswerFrame
<1> QED
  BY <1>2, <1>5, <1>6, <1>7, LocalStep, ZenonT(60)

\* What the step to pc needs for the call to go on as FollowsCall has it.
LEMMA GotoFollows ==
    ASSUME TypeOK, MountsFollow, NEW h \in Handler, Busy(h),
           NEW t0 \in Target, t0 = call[h].target,
           NEW pc, Goto(h, pc), UNCHANGED faults,
           faults[t0] = {} =>
               /\ pc \in {"ensure", "lookup", "mount"} => call[h].written = {}
               /\ pc \in {"provider", "status"} =>
                    Request[t0] = "volume" /\ mounts'[t0] = <<call[h].written>>
               /\ pc = "status" => call[h].written = Object
               /\ Request[t0] = "volume" =>
                    /\ pc \in {"ensure", "unmountStale", "cleanup"} => AllOrNothing(t0)'
                    /\ pc \in {"lookup", "mount", "remove"} => ~Mounted(t0)'
                    /\ pc = "undo" => Len(mounts'[t0]) <= 1
    PROVE  FollowsCall(h)'
<1>1. call'[h].pc = pc /\ call'[h].target = t0 /\ call'[h].written = call[h].written
  BY GotoFrame
<1>2. faults[t0] = {} => Request[t0] # "invalid"
  BY ZenonT(30) DEF MountsFollow, FollowsCall
<1> QED
  BY <1>1, <1>2, ZenonT(30) DEF FollowsCall

\* A step on t0 = call[h].target after which the call goes on.
LEMMA GotoMounts ==
    ASSUME TypeOK, OneCall, MountsFollow, NEW h \in Handler, Busy(h),
           NEW t0 \in Target, t0 = call[h].target,
           NEW pc, Goto(h, pc),
           \A t \in Target \ {t0} : mounts'[t] = mounts[t],
           UNCHANGED <<disk, status, kubelet, faults>>,
           FollowsCall(h)'
    PROVE  MountsFollow'
<1>1. faults[t0] = {} => kubelet[t0] \in {"publishing", "unpublishing"}
  BY DEF OneCall, ServedAlone
<1>2. AtRest(t0)
  BY DEF MountsFollow
<1>3. AtRest(t0)'
  BY <1>1, <1>2 DEF AtRest
<1>4. \A g \in Handler \ {h} : Busy(g) /\ call[g].target = t0 => faults[t0] # {}
  BY Alone
<1>5. \A g \in Handler \ {h} : call'[g] = call[g]
  BY GotoFrame
<1> QED
  BY <1>3, <1>4, <1>5, LocalStep

LEMMA FirstLayer == Append(<< >>, {}) = <<{}>>
OBVIOUS

LEMMA OneLayerGrows == \A x, o : [<<x>> EXCEPT ![1] = @ \cup {o}] = <<x \cup {o}>>
OBVIOUS

LEMMA OneLayer == \A x : Len(<<x>>) = 1 /\ Len(<<x>>) <= 1 /\ <<x>> # << >>
OBVIOUS

LEMMA BeginMounts ==
    ASSUME TypeOK, OneCall, MountsFollow, NEW h \in Handler, NEW t \in Target,
           NodePublishVolume(h, t) \/ NodeUnpublishVolume(h, t)
    PROVE  MountsFollow'
<1>1. ~Busy(h) /\ kubelet[t] \notin {"publishing", "unpublishing"}
  BY ZenonT(60) DEF NodePublishVolume, NodeUnpublishVolume, Busy
<1>2. \A g \in Handler \ {h} : Busy(g) /\ call[g].target = t => faults[t] # {}
  BY <1>1 DEF OneCall, ServedAlone
<1>3. UNCHANGED <<mounts, disk, status, faults>>
  BY ZenonT(60) DEF NodePublishVolume, NodeUnpublishVolume
<1>4. \A g \in Handler \ {h} : call'[g] = call[g]
  BY ZenonT(60) DEF NodePublishVolume, NodeUnpublishVolume, TypeOK
<1>5. \A u \in Target \ {t} : kubelet'[u] = kubelet[u]
  BY ZenonT(60) DEF NodePublishVolume, NodeUnpublishVolume, TypeOK
<1>6. AtRest(t)
  BY DEF MountsFollow
<1>7. \/ call'[h] = call[h]
      \/ Request[t] # "invalid" /\ call'[h] = NewCall("ensure", t, TRUE)
      \/ Request[t] # "invalid" /\ call'[h] = NewCall("cleanup", t, TRUE)
  BY ZenonT(60) DEF NodePublishVolume, NodeUnpublishVolume, TypeOK
<1>8. FollowsCall(h)'
  <2>1. CASE call'[h] = call[h]
    BY <1>1, <2>1 DEF FollowsCall, Busy
  <2>2. ASSUME NEW pc \in {"ensure", "cleanup"}, Request[t] # "invalid", call'[h] = NewCall(pc, t, TRUE)
        PROVE  FollowsCall(h)'
    <3>1. call'[h].pc = pc /\ call'[h].target = t /\ call'[h].written = {}
      BY <2>2 DEF NewCall
    <3>2. faults[t] = {} /\ Request[t] = "volume" => AllOrNothing(t)'
      BY <1>1, <1>3, <1>6 DEF AtRest, AllOrNothing, Whole, Mounted
    <3> QED
      BY <1>3, <2>2, <3>1, <3>2, ZenonT(60) DEF FollowsCall
  <2> QED
    BY <1>7, <2>1, <2>2, ZenonT(60)
<1>9. Request[t] = "volume" => kubelet'[t] \in {"publishing", "unpublishing"}
  BY ZenonT(60) DEF NodePublishVolume, NodeUnpublishVolume, TypeOK
<1>10. AtRest(t)'
  BY <1>3, <1>6, <1>9, ZenonT(60) DEF AtRest
<1> QED
  BY <1>2, <1>3, <1>4, <1>5, <1>8, <1>10, LocalStep

LEMMA NextMountsFollow == TypeOK /\ OneCall /\ MountsFollow /\ [Next]_vars => MountsFollow'
<1> SUFFICES ASSUME TypeOK, OneCall, MountsFollow, [Next]_vars PROVE MountsFollow'
  OBVIOUS
<1>t. \A h \in Handler : call[h].target \in Target
  BY DEF TypeOK, Call
<1>f. \A h \in Handler : FollowsCall(h)
  BY DEF MountsFollow
<1>w. \A t \in Target : AllOrNothing(t) => Len(mounts[t]) <= 1
  <2>1. Len(<< >>) <= 1
    OBVIOUS
  <2> QED
    BY <2>1, OneLayer, ZenonT(30) DEF AllOrNothing, Whole, Mounted
<1>1. ASSUME NEW h \in Handler, NEW t \in Target, NodePublishVolume(h, t) PROVE MountsFollow'
  BY <1>1, BeginMounts
<1>2. ASSUME NEW h \in Handler, NEW t \in Target, NodeUnpublishVolume(h, t) PROVE MountsFollow'
  BY <1>2, BeginMounts, ZenonT(60)
<1>3. ASSUME NEW h \in Handler, EnsureMountPoint(h) PROVE MountsFollow'
  <2>0. PICK t0 \in Target : t0 = call[h].target
    BY <1>t
  <2>1. Busy(h) /\ UNCHANGED <<mounts, status, disk, faults>>
    BY <1>3, ZenonT(60) DEF EnsureMountPoint, Busy
  <2>2. faults[t0] = {} /\ Request[t0] = "volume" => AllOrNothing(t0)
    BY <1>3, <1>f, <2>0, <2>1, ZenonT(60) DEF EnsureMountPoint, FollowsCall
  <2>3. CASE Fail(h)
    BY <2>0, <2>1, <2>2, <2>3, AnswerMounts, ZenonT(60) DEF Fail, AllOrNothing, Whole, Mounted
  <2>4. CASE Mounted(t0) /\ Succeed(h)
    BY <2>0, <2>1, <2>2, <2>4, AnswerMounts DEF Succeed, AllOrNothing, Whole, Mounted
  <2>5. CASE Mounted(t0) /\ Goto(h, "unmountStale") /\ UNCHANGED kubelet
    <3>1. FollowsCall(h)'
      BY <2>0, <2>1, <2>2, <2>5, GotoFollows, ZenonT(30) DEF AllOrNothing, Whole, Mounted
    <3> QED
      BY <2>0, <2>1, <2>5, <3>1, GotoMounts
  <2>6. CASE ~Mounted(t0) /\ Goto(h, "lookup") /\ UNCHANGED kubelet
    <3>1. faults[t0] = {} => call[h].written = {}
      BY <1>3, <1>f, <2>0, <2>1, ZenonT(30) DEF EnsureMountPoint, FollowsCall
    <3>2. FollowsCall(h)'
      BY <2>0, <2>1, <2>6, <3>1, GotoFollows DEF Mounted
    <3> QED
      BY <2>0, <2>1, <2>6, <3>2, GotoMounts
  <2> QED
    BY <1>3, <2>0, <2>3, <2>4, <2>5, <2>6 DEF EnsureMountPoint
<1>4. ASSUME NEW h \in Handler, UnmountStale(h) PROVE MountsFollow'
  <2>0. PICK t0 \in Target : t0 = call[h].target
    BY <1>t
  <2>1. Busy(h) /\ UNCHANGED <<status, disk, faults>>
    BY <1>4 DEF UnmountStale, Busy
  <2>2. faults[t0] = {} /\ Request[t0] = "volume" => Len(mounts[t0]) <= 1
    BY <1>4, <1>f, <1>w, <2>0, <2>1, ZenonT(30) DEF UnmountStale, FollowsCall
  <2>3. CASE PopMount(t0) /\ Fail(h)
    <3>1. /\ faults[t0] = {} /\ Request[t0] = "volume" => mounts'[t0] = << >>
          /\ \A u \in Target \ {t0} : mounts'[u] = mounts[u]
      BY <2>2, <2>3, PopFrame
    <3> QED
      BY <2>0, <2>1, <2>3, <3>1, AnswerMounts DEF Fail, AllOrNothing, Mounted
  <2>4. CASE FailMounted(h) /\ UNCHANGED mounts
    <3>1. FollowsCall(h)'
      BY <2>0, <2>1, <2>2, <2>4, GotoFollows, ZenonT(60) DEF FailMounted
    <3> QED
      BY <2>0, <2>1, <2>4, <3>1, GotoMounts DEF FailMounted
  <2> QED
    BY <1>4, <2>0, <2>3, <2>4 DEF UnmountStale
<1>5. ASSUME NEW h \in Handler, LookupClass(h) PROVE MountsFollow'
  <2>0. PICK t0 \in Target : t0 = call[h].target
    BY <1>t
  <2>1. Busy(h) /\ UNCHANGED <<mounts, status, disk, faults>>
    BY <1>5, ZenonT(30) DEF LookupClass, Busy
  <2>2. faults[t0] = {} => /\ call[h].written = {}
                           /\ Request[t0] = "volume" => ~Mounted(t0)
    BY <1>5, <1>f, <2>0, <2>1 DEF LookupClass, FollowsCall
  <2>3. CASE Goto(h, "mount") /\ UNCHANGED kubelet
    <3>1. FollowsCall(h)'
      BY <2>0, <2>1, <2>2, <2>3, GotoFollows, ZenonT(60) DEF Mounted
    <3> QED
      BY <2>0, <2>1, <2>3, <3>1, GotoMounts, ZenonT(30)
  <2>4. CASE Fail(h)
    BY <2>0, <2>1, <2>2, <2>4, AnswerMounts, ZenonT(60) DEF Fail, AllOrNothing, Mounted
  <2> QED
    BY <1>5, <2>3, <2>4 DEF LookupClass
<1>6. ASSUME NEW h \in Handler, MountTmpfs(h) PROVE MountsFollow'
  <2>0. PICK t0 \in Target : t0 = call[h].target
    BY <1>t
  <2>1. Busy(h) /\ UNCHANGED <<status, disk, faults>>
    BY <1>6, ZenonT(30) DEF MountTmpfs, Busy
  <2>2. faults[t0] = {} => /\ call[h].written = {}
                           /\ Request[t0] = "volume" => mounts[t0] = << >>
    BY <1>6, <1>f, <2>0, <2>1, ZenonT(30) DEF MountTmpfs, FollowsCall, Mounted
  <2>3. CASE PushMount(t0) /\ Request[t0] = "mock" /\ Succeed(h)
    <3>1. \A u \in Target \ {t0} : mounts'[u] = mounts[u]
      BY <2>3 DEF PushMount, TypeOK
    <3> QED
      BY <2>0, <2>1, <2>3, <3>1, AnswerMounts DEF Succeed
  <2>4. CASE PushMount(t0) /\ Request[t0] # "mock" /\ Goto(h, "provider") /\ UNCHANGED kubelet
    <3>1. /\ mounts'[t0] = Append(mounts[t0], {})
          /\ \A u \in Target \ {t0} : mounts'[u] = mounts[u]
      BY <2>4 DEF PushMount, TypeOK
    <3>2. Request[t0] \in {"volume", "invalid"}
      BY <2>4, RequestType DEF RequestKind
    <3>3. Append(<< >>, {}) = <<{}>>
      BY FirstLayer, ZenonT(30)
    <3>4. faults[t0] = {} => Request[t0] # "invalid"
      BY <1>6, <1>f, <2>0, <2>1 DEF FollowsCall, MountTmpfs
    <3>5. faults[t0] = {} => Request[t0] = "volume" /\ mounts'[t0] = <<call[h].written>>
      BY <2>2, <3>1, <3>2, <3>3, <3>4, ZenonT(60)
    <3>6. FollowsCall(h)'
      BY <2>0, <2>1, <2>4, <3>5, GotoFollows, ZenonT(60)
    <3> QED
      BY <2>0, <2>1, <2>4, <3>1, <3>6, GotoMounts
  <2>5. CASE Fail(h) /\ UNCHANGED mounts
    BY <2>0, <2>1, <2>2, <2>5, AnswerMounts, ZenonT(60) DEF Fail, AllOrNothing, Mounted
  <2> QED
    BY <1>6, <2>0, <2>3, <2>4, <2>5 DEF MountTmpfs
<1>7. ASSUME NEW h \in Handler, ProviderWrite(h) PROVE MountsFollow'
  <2>0. PICK t0 \in Target : t0 = call[h].target
    BY <1>t
  <2>1. Busy(h) /\ call[h].pc = "provider" /\ UNCHANGED <<status, kubelet, faults>>
    BY <1>7 DEF ProviderWrite, Busy
  <2>2. PICK o \in Object :
          /\ call' = [call EXCEPT ![h].written = @ \cup {o}]
          /\ IF Mounted(t0)
             THEN /\ mounts' = [mounts EXCEPT ![t0][Len(mounts[t0])] = @ \cup {o}]
                  /\ UNCHANGED disk
             ELSE /\ disk' = [disk EXCEPT ![t0] = @ \cup {o}]
                  /\ UNCHANGED mounts
    BY <1>7, <2>0, ZenonT(60) DEF ProviderWrite
  <2>3. /\ call'[h].pc = "provider" /\ call'[h].target = t0
        /\ call'[h].written = call[h].written \cup {o}
        /\ \A g \in Handler \ {h} : call'[g] = call[g]
    <3>1. call' = [call EXCEPT ![h] = [call[h] EXCEPT !.written = @ \cup {o}]]
      BY <2>2
    <3> QED
      BY <3>1, <2>0, <2>1 DEF TypeOK, Call
  <2>4. \A u \in Target \ {t0} : mounts'[u] = mounts[u] /\ disk'[u] = disk[u]
    BY <2>2, ZenonT(60) DEF TypeOK
  <2>5. faults[t0] = {} => Request[t0] = "volume" /\ mounts[t0] = <<call[h].written>>
    BY <1>f, <2>0, <2>1 DEF FollowsCall
  <2>6. ASSUME faults[t0] = {} PROVE mounts'[t0] = <<call'[h].written>> /\ disk' = disk
    <3>1. mounts[t0] = <<call[h].written>> /\ Len(mounts[t0]) = 1 /\ Mounted(t0)
      BY <2>5, <2>6, OneLayer, ZenonT(60) DEF Mounted
    <3>2. mounts' = [mounts EXCEPT ![t0] = [mounts[t0] EXCEPT ![1] = @ \cup {o}]]
      BY <2>2, <3>1
    <3>3. mounts'[t0] = [mounts[t0] EXCEPT ![1] = @ \cup {o}]
      BY <3>2 DEF TypeOK
    <3>4. [<<call[h].written>> EXCEPT ![1] = @ \cup {o}] = <<call[h].written \cup {o}>>
      BY OneLayerGrows, ZenonT(30)
    <3> QED
      BY <2>2, <2>3, <3>1, <3>3, <3>4, ZenonT(60)
  <2>7. FollowsCall(h)'
    BY <2>1, <2>3, <2>5, <2>6, ZenonT(60) DEF FollowsCall
  <2>8. faults[t0] = {} => kubelet[t0] = "publishing"
    BY <2>0, <2>1 DEF OneCall, ServedAlone, PublishStep
  <2>9. AtRest(t0)'
    <3>1. AtRest(t0)
      BY DEF MountsFollow
    <3> QED
      BY <2>1, <2>6, <2>8, <3>1 DEF AtRest
  <2>10. \A g \in Handler \ {h} : Busy(g) /\ call[g].target = t0 => faults[t0] # {}
    BY <2>0, <2>1, Alone
  <2> QED
    BY <2>1, <2>3, <2>4, <2>7, <2>9, <2>10, LocalStep, ZenonT(60)
<1>8. ASSUME NEW h \in Handler, ProviderReturn(h) PROVE MountsFollow'
  <2>0. PICK t0 \in Target : t0 = call[h].target
    BY <1>t
  <2>1. Busy(h) /\ UNCHANGED <<mounts, status, disk, faults, kubelet>>
    BY <1>8, ZenonT(30) DEF ProviderReturn, FailMounted, Busy
  <2>2. faults[t0] = {} => Request[t0] = "volume" /\ mounts[t0] = <<call[h].written>>
    BY <1>8, <1>f, <2>0, <2>1, ZenonT(30) DEF ProviderReturn, FollowsCall
  <2>3. CASE call[h].written = Object /\ Goto(h, "status")
    <3>1. FollowsCall(h)'
      BY <2>0, <2>1, <2>2, <2>3, GotoFollows, ZenonT(60)
    <3> QED
      BY <2>0, <2>1, <2>3, <3>1, GotoMounts
  <2>4. CASE Goto(h, "undo")
    <3>1. faults[t0] = {} => Len(mounts[t0]) <= 1
      BY <2>2, OneLayer, ZenonT(30)
    <3>2. FollowsCall(h)'
      BY <2>0, <2>1, <2>4, <3>1, GotoFollows, ZenonT(30)
    <3> QED
      BY <2>0, <2>1, <2>4, <3>2, GotoMounts
  <2> QED
    BY <1>8, <2>3, <2>4 DEF ProviderReturn, FailMounted
<1>9. ASSUME NEW h \in Handler, CreateStatus(h) PROVE MountsFollow'
  <2>0. PICK t0 \in Target : t0 = call[h].target
    BY <1>t
  <2>1. Busy(h) /\ UNCHANGED <<mounts, disk, faults>>
    BY <1>9, ZenonT(60) DEF CreateStatus, Busy
  <2>2. faults[t0] = {} => mounts[t0] = <<Object>>
    BY <1>9, <1>f, <2>0, <2>1 DEF CreateStatus, FollowsCall
  <2>3. CASE status' = status \cup {t0} /\ Succeed(h)
    <3>1. faults[t0] = {} => Whole(t0)'
      BY <2>1, <2>2, <2>3 DEF Whole
    <3>2. \A t \in Target \ {t0} : t \in status' <=> t \in status
      BY <2>3, ZenonT(30)
    <3> QED
      BY <2>0, <2>1, <2>3, <3>1, <3>2, AnswerMounts, ZenonT(30) DEF Succeed, AllOrNothing
  <2>4. CASE FailMounted(h) /\ UNCHANGED status
    <3>1. faults[t0] = {} => Len(mounts[t0]) <= 1
      BY <2>2, OneLayer, ZenonT(60)
    <3>2. FollowsCall(h)'
      BY <2>0, <2>1, <2>4, <3>1, GotoFollows, ZenonT(60) DEF FailMounted
    <3> QED
      BY <2>0, <2>1, <2>4, <3>2, GotoMounts DEF FailMounted
  <2> QED
    BY <1>9, <2>0, <2>3, <2>4 DEF CreateStatus
<1>10. ASSUME NEW h \in Handler, UndoMount(h) PROVE MountsFollow'
  <2>0. PICK t0 \in Target : t0 = call[h].target
    BY <1>t
  <2>1. Busy(h) /\ UNCHANGED <<status, disk>> /\ Fail(h)
    BY <1>10, ZenonT(30) DEF UndoMount, Busy
  <2>2. faults[t0] = {} /\ Request[t0] = "volume" => Len(mounts[t0]) <= 1
    BY <1>10, <1>f, <2>0, <2>1, ZenonT(60) DEF UndoMount, FollowsCall
  <2>3. \A t \in Target : faults'[t] = {} => faults[t] = {}
    BY <1>10, <2>0, ZenonT(30) DEF UndoMount, TypeOK
  <2>4. \A u \in Target \ {t0} : mounts'[u] = mounts[u]
    BY <1>10, <2>0, PopFrame DEF UndoMount
  <2>5. faults'[t0] = {} /\ Request[t0] = "volume" => mounts'[t0] = << >>
    <3>1. CASE PopMount(t0)
      BY <2>2, <2>3, <3>1, PopFrame
    <3>2. CASE ~Mounted(t0) /\ UNCHANGED mounts
      BY <3>2 DEF Mounted
    <3>3. CASE faults' = [faults EXCEPT ![t0] = @ \cup {"unmount"}]
      BY <3>3, ZenonT(30) DEF TypeOK
    <3> QED
      BY <1>10, <2>0, <3>1, <3>2, <3>3 DEF UndoMount
  <2> QED
    BY <2>0, <2>1, <2>3, <2>4, <2>5, AnswerMounts DEF Fail, AllOrNothing, Mounted
<1>11. ASSUME NEW h \in Handler, CleanupMountPoint(h) PROVE MountsFollow'
  <2>0. PICK t0 \in Target : t0 = call[h].target
    BY <1>t
  <2>1. Busy(h) /\ UNCHANGED <<status, disk, faults>>
    BY <1>11, ZenonT(30) DEF CleanupMountPoint, Busy
  <2>2. faults[t0] = {} /\ Request[t0] = "volume" => AllOrNothing(t0)
    BY <1>11, <1>f, <2>0, <2>1, ZenonT(60) DEF CleanupMountPoint, FollowsCall
  <2>3. ASSUME NEW view \in {"removed", "leaving"}, Answer(h, view), UNCHANGED mounts
        PROVE MountsFollow'
    BY <2>0, <2>1, <2>2, <2>3, AnswerMounts, ZenonT(30) DEF AllOrNothing, Whole, Mounted
  <2>4. CASE ~Mounted(t0) /\ Goto(h, "remove") /\ UNCHANGED <<mounts, kubelet>>
    <3>1. FollowsCall(h)'
      BY <2>0, <2>1, <2>4, GotoFollows, ZenonT(60) DEF Mounted
    <3> QED
      BY <2>0, <2>1, <2>4, <3>1, GotoMounts, ZenonT(30)
  <2>5. CASE PopMount(t0) /\ Goto(h, "remove") /\ UNCHANGED kubelet
    <3>1. /\ faults[t0] = {} /\ Request[t0] = "volume" => mounts'[t0] = << >>
          /\ \A u \in Target \ {t0} : mounts'[u] = mounts[u]
      BY <1>w, <2>2, <2>5, PopFrame
    <3>2. FollowsCall(h)'
      BY <2>0, <2>1, <2>5, <3>1, GotoFollows, ZenonT(30) DEF Mounted
    <3> QED
      BY <2>0, <2>1, <2>5, <3>1, <3>2, GotoMounts
  <2> QED
    BY <1>11, <2>0, <2>3, <2>4, <2>5 DEF CleanupMountPoint
<1>12. ASSUME NEW h \in Handler, RemoveTarget(h) PROVE MountsFollow'
  <2>0. PICK t0 \in Target : t0 = call[h].target
    BY <1>t
  <2>1. Busy(h) /\ UNCHANGED <<mounts, status, disk, faults>>
    BY <1>12, ZenonT(30) DEF RemoveTarget, Busy
  <2>2. faults[t0] = {} /\ Request[t0] = "volume" => ~Mounted(t0)
    BY <1>12, <1>f, <2>0, <2>1, ZenonT(60) DEF RemoveTarget, FollowsCall
  <2>3. PICK view \in {"removed", "leaving"} : Answer(h, view)
    BY <1>12, ZenonT(30) DEF RemoveTarget
  <2> QED
    BY <2>0, <2>1, <2>2, <2>3, AnswerMounts DEF AllOrNothing, Mounted
<1>13. ASSUME NEW h \in Handler, Timeout(h) PROVE MountsFollow'
  <2>0. PICK t0 \in Target : t0 = call[h].target
    BY <1>t
  <2>1. call[h].waiting /\ Busy(h)
    BY <1>13 DEF Timeout, OneCall, ServedAlone
  <2>2. call'[h].target = t0 /\ \A g \in Handler \ {h} : call'[g] = call[g]
    <3>1. call' = [call EXCEPT ![h] = [call[h] EXCEPT !.waiting = FALSE]]
      BY <1>13 DEF Timeout
    <3> QED
      BY <3>1, <2>0 DEF TypeOK, Call
  <2>3. faults'[t0] # {} /\ \A t \in Target : faults'[t] = {} => faults[t] = {}
    BY <1>13, <2>0, ZenonT(30) DEF Timeout, TypeOK
  <2>4. FollowsCall(h)' /\ AtRest(t0)'
    BY <2>2, <2>3 DEF FollowsCall, AtRest
  <2>5. \A t \in Target \ {t0} : kubelet'[t] = kubelet[t]
    BY <1>13, <2>0 DEF Timeout, TypeOK
  <2>6. UNCHANGED <<mounts, disk, status>>
    BY <1>13 DEF Timeout
  <2>7. \A g \in Handler \ {h} : Busy(g) /\ call[g].target = t0 => faults[t0] # {}
    BY <2>0, <2>1, Alone, ZenonT(60)
  <2> QED
    BY <2>2, <2>3, <2>4, <2>5, <2>6, <2>7, LocalStep
<1>14. ASSUME Crash PROVE MountsFollow'
  <2>1. \A g \in Handler : ~Busy(g)'
    BY <1>14, IdleType DEF Crash, Busy
  <2>2. UNCHANGED <<mounts, disk, status>>
    BY <1>14 DEF Crash
  <2>3. ASSUME NEW t \in Target, faults'[t] = {}
        PROVE faults[t] = {} /\ kubelet'[t] = kubelet[t] /\ kubelet[t] \notin {"publishing", "unpublishing"}
    <3>1. faults[t] = {} /\ Serving(t) = {}
      BY <1>14, <2>3, ZenonT(60) DEF Crash, TypeOK
    <3>2. kubelet[t] \notin {"publishing", "unpublishing"}
      BY <3>1, ZenonT(60) DEF OneCall, IsServed, Busy, Serving
    <3> QED
      BY <1>14, <3>1, <3>2 DEF Crash
  <2>4. ASSUME NEW t \in Target PROVE AtRest(t)'
    <3>1. AtRest(t)
      BY ZenonT(30) DEF MountsFollow
    <3> QED
      BY <2>2, <2>3, <3>1 DEF AtRest, AllOrNothing, Whole, Mounted
  <2> QED
    BY <2>1, <2>4 DEF MountsFollow, FollowsCall
<1>15. ASSUME NEW t \in Target, MountGoesStale(t) PROVE MountsFollow'
  BY <1>15, ZenonT(30)
     DEF MountGoesStale, MountsFollow, FollowsCall, AtRest, AllOrNothing, Whole, Mounted, Busy
<1>16. ASSUME UNCHANGED vars PROVE MountsFollow'
  BY <1>16, ZenonT(60)
     DEF vars, MountsFollow, FollowsCall, AtRest, AllOrNothing, Whole, Mounted, Busy
<1> QED
  BY <1>1, <1>2, <1>3, <1>4, <1>5, <1>6, <1>7, <1>8, <1>9, <1>10, <1>11, <1>12, <1>13,
     <1>14, <1>15, <1>16 DEF Next, HandlerStep

-----------------------------------------------------------------------------
(* What a target that no fault has hit can rely on.                        *)

LEMMA InitIInv == Init => IInv
<1> SUFFICES ASSUME Init PROVE IInv
  OBVIOUS
<1>1. \A h \in Handler : ~Busy(h) /\ ~call[h].waiting
  BY IdleType DEF Init, Busy
<1>2. OneCall
  BY <1>1, ZenonT(30) DEF Init, OneCall, ServedAlone, IsServed
<1>3. MountsFollow
  BY <1>1, ZenonT(60) DEF Init, MountsFollow, FollowsCall, AtRest, AllOrNothing, Mounted
<1> QED
  BY <1>2, <1>3, InitTypeOK DEF IInv

LEMMA NextIInv == IInv /\ [Next]_vars => IInv'
BY NextTypeOK, NextOneCall, NextMountsFollow DEF IInv

\* The invariant that carries the three theorems below: on a target without
\* faults one call runs at a time, and the mounts follow its progress.
THEOREM CallsInvariant == Spec => []IInv
BY InitIInv, NextIInv, PTL DEF Spec

\* NodePublishVolume answers OK only for a volume that holds every object of
\* its provider and has its pod status, for any number of volumes, concurrent
\* calls and objects, as long as no fault hit that volume.
THEOREM PublishedStaysWhole == Spec => []PublishedIsWhole
<1>1. IInv => PublishedIsWhole
  BY DEF IInv, MountsFollow, AtRest, PublishedIsWhole
<1> QED
  BY <1>1, CallsInvariant, PTL

\* A NodePublishVolume that failed left nothing mounted, or a finished earlier
\* publish untouched: kubelet's retry never meets half a volume.
THEOREM FailedStaysAllOrNothing == Spec => []FailedIsAllOrNothing
<1>1. IInv => FailedIsAllOrNothing
  BY DEF IInv, MountsFollow, AtRest, AllOrNothing, FailedIsAllOrNothing
<1> QED
  BY <1>1, CallsInvariant, PTL

\* Providers write into the tmpfs only (nodeserver.go:179), whatever the other
\* volumes of the node go through.
THEOREM SecretsStayOffDisk == Spec => []SecretsOffDisk
<1>1. IInv => SecretsOffDisk
  BY DEF IInv, MountsFollow, AtRest, SecretsOffDisk
<1> QED
  BY <1>1, CallsInvariant, PTL
-----------------------------------------------------------------------------
(* How many mounts can lie on one target.                                  *)

\* The calls that found t without a mount and have not mounted it yet.
Mounting(t) == {h \in Handler : call[h].pc \in {"lookup", "mount"} /\ call[h].target = t}

\* Every such call may still add a layer, so the layers that are there leave
\* room for them; where kubelet was patient there is at most one such call, and
\* then no layer.
LeavesRoom(t) ==
    /\ Mounted(t) => Len(mounts[t]) + Cardinality(Mounting(t)) <= Cardinality(Handler)
    /\ "timeout" \notin faults[t] =>
         Len(mounts[t]) <= 1 /\ (Mounted(t) => Mounting(t) = {})

LayersInv == TypeOK /\ OneCall /\ \A t \in Target : LeavesRoom(t)

\* What a step does to the layers of a target: it leaves or lowers them and
\* lets no further call mount, or leaves none, or one of the calls that were
\* about to mount does so.
LayerStep(t) ==
    \/ Len(mounts'[t]) <= Len(mounts[t]) /\ Mounting(t)' \subseteq Mounting(t)
    \/ ~Mounted(t)'
    \/ \E h \in Mounting(t) :
         Len(mounts'[t]) = Len(mounts[t]) + 1 /\ Mounting(t)' = Mounting(t) \ {h}

LEMMA LayersSize ==
    /\ Cardinality(Handler) \in Nat
    /\ \A S : S \subseteq Handler =>
         /\ IsFiniteSet(S) /\ Cardinality(S) \in Nat
         /\ Cardinality(S) <= Cardinality(Handler)
    /\ \A S, T : S \subseteq T /\ T \subseteq Handler => Cardinality(S) <= Cardinality(T)
    /\ \A S, h : S \subseteq Handler /\ h \in S => Cardinality(S \ {h}) = Cardinality(S) - 1
<1>1. \A S : S \subseteq Handler => IsFiniteSet(S) /\ Cardinality(S) <= Cardinality(Handler)
  BY HandlerFinite, FS_Subset
<1>2. \A S : IsFiniteSet(S) => Cardinality(S) \in Nat
  BY FS_CardinalityType
<1>3. \A S, T : S \subseteq T /\ T \subseteq Handler => Cardinality(S) <= Cardinality(T)
  BY <1>1, FS_Subset
<1>4. \A S, h : S \subseteq Handler /\ h \in S => Cardinality(S \ {h}) = Cardinality(S) - 1
  BY <1>1, FS_RemoveElement
<1> QED
  BY <1>1, <1>2, <1>3, <1>4, HandlerFinite

LEMMA LayersLen ==
    ASSUME TypeOK, NEW t \in Target
    PROVE  Len(mounts[t]) \in Nat /\ (Mounted(t) <=> Len(mounts[t]) > 0)
BY DEF TypeOK, Mounted

\* n mounts and c calls that may add to them, before and after a step that adds
\* to neither, and one in which a call mounts.
LEMMA RoomIsKept ==
    \A n, c, n2, c2, max \in Nat :
        (n > 0 => n + c <= max) /\ n2 > 0 /\ n2 <= n /\ c2 <= c => n2 + c2 <= max
OBVIOUS

LEMMA RoomIsTaken ==
    \A n, c, n2, c2, max \in Nat :
        (n > 0 => n + c <= max) /\ c <= max /\ n2 = n + 1 /\ c2 = c - 1 => n2 + c2 <= max
OBVIOUS

\* A step of that kind keeps the room.
LEMMA LayerStepLeavesRoom ==
    ASSUME LayersInv, TypeOK', NEW t \in Target, LayerStep(t),
           "timeout" \notin faults'[t] => "timeout" \notin faults[t]
    PROVE  LeavesRoom(t)'
<1>1. LeavesRoom(t)
  BY DEF LayersInv
<1>2. Len(mounts[t]) \in Nat /\ (Mounted(t) <=> Len(mounts[t]) > 0)
  BY LayersLen DEF LayersInv
<1>3. Len(mounts'[t]) \in Nat /\ (Mounted(t)' <=> Len(mounts'[t]) > 0)
  BY DEF TypeOK, Mounted
<1>4. Mounting(t) \subseteq Handler /\ Mounting(t)' \subseteq Handler
  BY DEF Mounting
<1>5. Cardinality(Handler) \in Nat /\ Cardinality(Mounting(t)) \in Nat /\ Cardinality(Mounting(t)') \in Nat
  BY <1>4, LayersSize
<1>6. Cardinality(Mounting(t)) <= Cardinality(Handler)
  BY <1>4, LayersSize
<1>7. CASE Len(mounts'[t]) <= Len(mounts[t]) /\ Mounting(t)' \subseteq Mounting(t)
  <2>1. Cardinality(Mounting(t)') <= Cardinality(Mounting(t))
    BY <1>4, <1>7, LayersSize, ZenonT(60)
  <2>2. Mounted(t)' => Len(mounts'[t]) + Cardinality(Mounting(t)') <= Cardinality(Handler)
    BY <1>1, <1>2, <1>3, <1>5, <1>7, <2>1, RoomIsKept, ZenonT(60) DEF LeavesRoom
  <2>3. "timeout" \notin faults'[t] => Len(mounts'[t]) <= 1 /\ (Mounted(t)' => Mounting(t)' = {})
    BY <1>1, <1>2, <1>3, <1>7 DEF LeavesRoom
  <2> QED
    BY <2>2, <2>3, ZenonT(60) DEF LeavesRoom
<1>8. CASE ~Mounted(t)'
  BY <1>3, <1>8 DEF LeavesRoom
<1>9. CASE \E h \in Mounting(t) :
             Len(mounts'[t]) = Len(mounts[t]) + 1 /\ Mounting(t)' = Mounting(t) \ {h}
  <2>1. PICK h \in Mounting(t) :
             Len(mounts'[t]) = Len(mounts[t]) + 1 /\ Mounting(t)' = Mounting(t) \ {h}
    BY <1>9
  <2>2. Cardinality(Mounting(t)') = Cardinality(Mounting(t)) - 1
    BY <1>4, <2>1, LayersSize, ZenonT(60)
  <2>3. Mounted(t)' => Len(mounts'[t]) + Cardinality(Mounting(t)') <= Cardinality(Handler)
    BY <1>1, <1>2, <1>3, <1>5, <1>6, <2>1, <2>2, RoomIsTaken, ZenonT(60) DEF LeavesRoom
  <2>4. "timeout" \notin faults[t] => Mounting(t) \ {h} = {}
    BY <2>1, ZenonT(60) DEF LayersInv, OneCall, ServedAlone, Busy, Mounting
  <2>5. "timeout" \notin faults'[t] => Len(mounts'[t]) <= 1 /\ (Mounted(t)' => Mounting(t)' = {})
    BY <1>1, <1>2, <2>1, <2>4 DEF LeavesRoom
  <2> QED
    BY <2>3, <2>5 DEF LeavesRoom
<1> QED
  BY <1>7, <1>8, <1>9, ZenonT(60) DEF LayerStep

\* A handler that answers is no longer about to mount anything.
LEMMA AnswerLayers ==
    ASSUME TypeOK, NEW h \in Handler, NEW view, Answer(h, view)
    PROVE  \A t \in Target : Mounting(t)' \subseteq Mounting(t)
<1>1. ~Busy(h)' /\ \A g \in Handler \ {h} : call'[g] = call[g]
  BY AnswerFrame, ZenonT(30)
<1> QED
  BY <1>1, ZenonT(30) DEF Mounting, Busy

\* Nor is one that goes on with anything but the way to the mount.
LEMMA GotoLayers ==
    ASSUME TypeOK, NEW h \in Handler, NEW pc, Goto(h, pc),
           pc \in {"lookup", "mount"} => call[h].pc \in {"lookup", "mount"}
    PROVE  \A t \in Target : Mounting(t)' \subseteq Mounting(t)
<1>1. /\ call'[h].pc = pc /\ call'[h].target = call[h].target
      /\ \A g \in Handler \ {h} : call'[g] = call[g]
  BY GotoFrame
<1> QED
  BY <1>1, ZenonT(30) DEF Mounting

LEMMA PopLayers ==
    ASSUME TypeOK, NEW t \in Target, PopMount(t)
    PROVE  \A u \in Target : Len(mounts'[u]) <= Len(mounts[u])
<1>1. mounts[t] \in Seq(SUBSET Object) /\ mounts[t] # << >>
  BY DEF TypeOK, PopMount, Mounted
<1>2. Len(SubSeq(mounts[t], 1, Len(mounts[t]) - 1)) <= Len(mounts[t])
  BY <1>1
<1>3. \A u \in Target : Len(mounts[u]) \in Nat
  BY DEF TypeOK
<1> QED
  BY <1>2, <1>3 DEF PopMount, TypeOK

LEMMA NextLayers ==
    ASSUME TypeOK, [Next]_vars, NEW t \in Target
    PROVE  LayerStep(t)
<1>t. \A h \in Handler : call[h].target \in Target
  BY DEF TypeOK, Call
<1>l. Len(mounts[t]) <= Len(mounts[t])
  BY DEF TypeOK
<1>s. ASSUME mounts' = mounts, Mounting(t)' \subseteq Mounting(t) PROVE LayerStep(t)
  BY <1>s, <1>l DEF LayerStep
<1>u. ASSUME mounts' = mounts, \A g \in Handler : call'[g].pc = call[g].pc /\ call'[g].target = call[g].target
      PROVE  LayerStep(t)
  BY <1>u, <1>s, ZenonT(30) DEF Mounting
<1>n. ASSUME NEW h \in Handler, NEW u \in Target, NEW pc \in {"ensure", "cleanup"},
             call' = [call EXCEPT ![h] = NewCall(pc, u, TRUE)]
      PROVE  Mounting(t)' \subseteq Mounting(t)
  <2>1. call'[h].pc = pc /\ \A g \in Handler \ {h} : call'[g] = call[g]
    BY <1>n DEF TypeOK, NewCall
  <2> QED
    BY <2>1 DEF Mounting
<1>1. ASSUME NEW h \in Handler, NEW u \in Target, NodePublishVolume(h, u) PROVE LayerStep(t)
  <2>1. mounts' = mounts /\ (UNCHANGED call \/ call' = [call EXCEPT ![h] = NewCall("ensure", u, TRUE)])
    BY <1>1, ZenonT(30) DEF NodePublishVolume
  <2> QED
    BY <2>1, <1>n, <1>s, <1>u, ZenonT(60)
<1>2. ASSUME NEW h \in Handler, NEW u \in Target, NodeUnpublishVolume(h, u) PROVE LayerStep(t)
  <2>1. mounts' = mounts /\ (UNCHANGED call \/ call' = [call EXCEPT ![h] = NewCall("cleanup", u, TRUE)])
    BY <1>2, ZenonT(30) DEF NodeUnpublishVolume
  <2> QED
    BY <2>1, <1>n, <1>s, <1>u, ZenonT(60)
<1>3. ASSUME NEW h \in Handler, EnsureMountPoint(h) PROVE LayerStep(t)
  <2>1. mounts' = mounts
    BY <1>3 DEF EnsureMountPoint
  <2>2. CASE Goto(h, "lookup") /\ ~Mounted(call[h].target)
    <3>1. CASE call[h].target = t
      BY <2>1, <2>2, <3>1 DEF LayerStep, Mounted
    <3>2. CASE call[h].target # t
      <4>1. /\ call'[h].target = call[h].target
            /\ \A g \in Handler \ {h} : call'[g] = call[g]
        BY <2>2, GotoFrame, ZenonT(30)
      <4> QED
        BY <2>1, <3>2, <4>1, <1>s, ZenonT(30) DEF Mounting
    <3> QED
      BY <3>1, <3>2
  <2>3. CASE \E view \in KubeletState : Answer(h, view)
    BY <2>1, <2>3, <1>s, AnswerLayers
  <2>4. CASE Goto(h, "unmountStale")
    BY <2>1, <2>4, <1>s, GotoLayers
  <2> QED
    BY <1>3, <2>2, <2>3, <2>4, ZenonT(30) DEF EnsureMountPoint, Fail, Succeed, KubeletState
<1>4. ASSUME NEW h \in Handler, UnmountStale(h) PROVE LayerStep(t)
  <2>1. Mounting(t)' \subseteq Mounting(t)
    BY <1>4, AnswerLayers, GotoLayers DEF UnmountStale, Fail, FailMounted
  <2>2. CASE PopMount(call[h].target)
    BY <2>1, <2>2, <1>t, PopLayers DEF LayerStep
  <2>3. CASE mounts' = mounts
    BY <2>1, <2>3, <1>s
  <2> QED
    BY <1>4, <2>2, <2>3 DEF UnmountStale
<1>5. ASSUME NEW h \in Handler, LookupClass(h) PROVE LayerStep(t)
  BY <1>5, <1>s, AnswerLayers, GotoLayers, ZenonT(60) DEF LookupClass, Fail
<1>6. ASSUME NEW h \in Handler, MountTmpfs(h) PROVE LayerStep(t)
  <2>1. CASE PushMount(call[h].target) /\ call[h].target = t
    <3>1. Len(mounts'[t]) = Len(mounts[t]) + 1
      BY <2>1 DEF PushMount, TypeOK
    <3>2. h \in Mounting(t)
      BY <1>6, <2>1, ZenonT(60) DEF MountTmpfs, Mounting
    <3>3. /\ call'[h].pc \notin {"lookup", "mount"}
          /\ \A g \in Handler \ {h} : call'[g] = call[g]
      BY <1>6, AnswerFrame, GotoFrame DEF MountTmpfs, Succeed, Fail, Busy
    <3>4. Mounting(t)' = Mounting(t) \ {h}
      BY <3>3, ZenonT(30) DEF Mounting
    <3> QED
      BY <3>1, <3>2, <3>4 DEF LayerStep
  <2>2. CASE PushMount(call[h].target) /\ call[h].target # t
    <3>1. mounts'[t] = mounts[t]
      BY <2>2, <1>t DEF PushMount, TypeOK
    <3>2. Mounting(t)' \subseteq Mounting(t)
      BY <1>6, AnswerLayers, GotoLayers DEF MountTmpfs, Succeed, Fail
    <3> QED
      BY <3>1, <3>2, <1>l DEF LayerStep
  <2>3. CASE Fail(h) /\ mounts' = mounts
    BY <2>3, <1>s, AnswerLayers DEF Fail
  <2> QED
    BY <1>6, <2>1, <2>2, <2>3 DEF MountTmpfs
<1>7. ASSUME NEW h \in Handler, ProviderWrite(h) PROVE LayerStep(t)
  <2>1. PICK o \in Object :
          /\ call' = [call EXCEPT ![h].written = @ \cup {o}]
          /\ \/ mounts' = [mounts EXCEPT ![call[h].target][Len(mounts[call[h].target])] = @ \cup {o}]
             \/ UNCHANGED mounts
    BY <1>7, ZenonT(60) DEF ProviderWrite
  <2>2. \A g \in Handler : call'[g].pc = call[g].pc /\ call'[g].target = call[g].target
    <3>1. call' = [call EXCEPT ![h] = [call[h] EXCEPT !.written = @ \cup {o}]]
      BY <2>1
    <3> QED
      BY <3>1 DEF TypeOK, Call
  <2>3. Mounting(t)' \subseteq Mounting(t)
    BY <2>2 DEF Mounting
  <2>4. CASE mounts' = [mounts EXCEPT ![call[h].target][Len(mounts[call[h].target])] = @ \cup {o}]
    <3> DEFINE u == call[h].target
    <3>1. mounts' = [mounts EXCEPT ![u] = [mounts[u] EXCEPT ![Len(mounts[u])] = @ \cup {o}]]
      BY <2>4
    <3>2. Len([mounts[u] EXCEPT ![Len(mounts[u])] = @ \cup {o}]) = Len(mounts[u])
      BY <1>t DEF TypeOK
    <3>3. Len(mounts'[t]) = Len(mounts[t])
      BY <3>1, <3>2, <1>t DEF TypeOK
    <3> QED
      BY <2>3, <3>3, <1>l DEF LayerStep
  <2> QED
    BY <2>1, <2>3, <2>4, <1>s
<1>8. ASSUME NEW h \in Handler, ProviderReturn(h) PROVE LayerStep(t)
  BY <1>8, <1>s, GotoLayers DEF ProviderReturn, FailMounted
<1>9. ASSUME NEW h \in Handler, CreateStatus(h) PROVE LayerStep(t)
  BY <1>9, <1>s, AnswerLayers, GotoLayers DEF CreateStatus, FailMounted, Succeed
<1>10. ASSUME NEW h \in Handler, UndoMount(h) PROVE LayerStep(t)
  <2>1. Mounting(t)' \subseteq Mounting(t)
    BY <1>10, AnswerLayers, ZenonT(60) DEF UndoMount, Fail
  <2>2. CASE PopMount(call[h].target)
    BY <2>1, <2>2, <1>t, PopLayers DEF LayerStep
  <2>3. CASE mounts' = mounts
    BY <2>1, <2>3, <1>s
  <2> QED
    BY <1>10, <2>2, <2>3 DEF UndoMount
<1>11. ASSUME NEW h \in Handler, CleanupMountPoint(h) PROVE LayerStep(t)
  <2>1. Mounting(t)' \subseteq Mounting(t)
    BY <1>11, AnswerLayers, GotoLayers, ZenonT(60) DEF CleanupMountPoint
  <2>2. CASE PopMount(call[h].target)
    BY <2>1, <2>2, <1>t, PopLayers DEF LayerStep
  <2>3. CASE mounts' = mounts
    BY <2>1, <2>3, <1>s
  <2> QED
    BY <1>11, <2>2, <2>3, ZenonT(60) DEF CleanupMountPoint
<1>12. ASSUME NEW h \in Handler, RemoveTarget(h) PROVE LayerStep(t)
  BY <1>12, <1>s, AnswerLayers DEF RemoveTarget
<1>13. ASSUME NEW h \in Handler, Timeout(h) PROVE LayerStep(t)
  <2>1. call' = [call EXCEPT ![h] = [call[h] EXCEPT !.waiting = FALSE]]
    BY <1>13 DEF Timeout
  <2>2. \A g \in Handler : call'[g].pc = call[g].pc /\ call'[g].target = call[g].target
    BY <2>1 DEF TypeOK, Call
  <2> QED
    BY <1>13, <2>2, <1>u DEF Timeout
<1>14. ASSUME Crash PROVE LayerStep(t)
  <2>1. \A g \in Handler : call'[g].pc = "idle"
    BY <1>14, IdleType DEF Crash
  <2> QED
    BY <1>14, <2>1, <1>s DEF Crash, Mounting
<1>15. ASSUME NEW u \in Target, MountGoesStale(u) PROVE LayerStep(t)
  BY <1>15, <1>u DEF MountGoesStale
<1>16. ASSUME UNCHANGED vars PROVE LayerStep(t)
  BY <1>16, <1>u DEF vars
<1> QED
  BY <1>1, <1>2, <1>3, <1>4, <1>5, <1>6, <1>7, <1>8, <1>9, <1>10, <1>11, <1>12, <1>13,
     <1>14, <1>15, <1>16, ZenonT(60) DEF Next, HandlerStep

\* What kubelet gave up on stays recorded.
LEMMA NextTimeouts ==
    ASSUME TypeOK, [Next]_vars, NEW t \in Target, "timeout" \notin faults'[t]
    PROVE  "timeout" \notin faults[t]
<1>t. \A h \in Handler : call[h].target \in Target
  BY DEF TypeOK, Call
<1>1. ASSUME NEW h \in Handler, UndoMount(h) PROVE "timeout" \notin faults[t]
  BY <1>1, <1>t, ZenonT(30) DEF UndoMount, TypeOK
<1>2. ASSUME NEW h \in Handler, Timeout(h) PROVE "timeout" \notin faults[t]
  BY <1>2, <1>t, ZenonT(30) DEF Timeout, TypeOK
<1>3. ASSUME Crash PROVE "timeout" \notin faults[t]
  BY <1>3, ZenonT(30) DEF Crash
<1>4. CASE UNCHANGED faults
  BY <1>4, ZenonT(60)
<1>5. ASSUME NEW h \in Handler, HandlerStep(h) PROVE UndoMount(h) \/ UNCHANGED faults
  BY <1>5, ZenonT(60) DEF HandlerStep, EnsureMountPoint, UnmountStale, LookupClass, MountTmpfs, ProviderWrite,
              ProviderReturn, CreateStatus, CleanupMountPoint, RemoveTarget
<1> QED
  BY <1>1, <1>2, <1>3, <1>4, <1>5, ZenonT(60) DEF Next, vars, NodePublishVolume, NodeUnpublishVolume, MountGoesStale

\* At most one tmpfs lies on a target unless kubelet gave up on a call for it,
\* and never more of them than there are calls at once, for any number of
\* volumes, calls and retries: a call that mounts had found no mount before.
THEOREM LayersStayBounded == Spec => []LayersAreBounded
<1>1. Init => LayersInv
  <2> SUFFICES ASSUME Init PROVE LayersInv
    OBVIOUS
  <2>1. TypeOK /\ OneCall
    BY InitIInv DEF IInv
  <2>2. ASSUME NEW t \in Target PROVE LeavesRoom(t)
    <3>1. ~Mounted(t) /\ Len(mounts[t]) = 0
      BY DEF Init, Mounted
    <3> QED
      BY <3>1 DEF LeavesRoom
  <2> QED
    BY <2>1, <2>2 DEF LayersInv
<1>2. LayersInv /\ [Next]_vars => LayersInv'
  <2> SUFFICES ASSUME LayersInv, [Next]_vars PROVE LayersInv'
    OBVIOUS
  <2>1. TypeOK' /\ OneCall'
    BY NextTypeOK, NextOneCall DEF LayersInv
  <2>2. ASSUME NEW t \in Target PROVE LeavesRoom(t)'
    <3>1. TypeOK
      BY DEF LayersInv
    <3>2. LayerStep(t) /\ ("timeout" \notin faults'[t] => "timeout" \notin faults[t])
      BY <3>1, NextLayers, NextTimeouts
    <3> QED
      BY <2>1, <3>2, LayerStepLeavesRoom
  <2> QED
    BY <2>1, <2>2 DEF LayersInv
<1>3. LayersInv => LayersAreBounded
  <2> SUFFICES ASSUME LayersInv, NEW t \in Target
               PROVE /\ "timeout" \notin faults[t] => Len(mounts[t]) <= 1
                     /\ Len(mounts[t]) <= Cardinality(Handler)
    BY DEF LayersAreBounded
  <2>1. LeavesRoom(t) /\ Len(mounts[t]) \in Nat /\ (Mounted(t) <=> Len(mounts[t]) > 0)
    BY LayersLen DEF LayersInv
  <2>2. Mounting(t) \subseteq Handler
    BY DEF Mounting
  <2>3. Cardinality(Handler) \in Nat /\ Cardinality(Mounting(t)) \in Nat
    BY <2>2, LayersSize
  <2> QED
    BY <2>1, <2>3 DEF LeavesRoom
<1> QED
  BY <1>1, <1>2, <1>3, PTL DEF Spec
=============================================================================
