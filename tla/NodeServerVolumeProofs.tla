----------------------- MODULE NodeServerVolumeProofs -----------------------
(***************************************************************************)
(* NodeServer implements PodVolume, for any targets, handlers and objects. *)
(***************************************************************************)
EXTENDS NodeServerVolume, NodeServerProofs

-----------------------------------------------------------------------------
(* The invariant: that of NodeServerProofs, and for targets that a fault   *)
(* has hit as well, who is answered.                                       *)

\* Kubelet waits for the call only while the volume is "in progress" for it.
AwaitedAsKnown(h) ==
    call[h].waiting =>
        /\ Busy(h)
        /\ kubelet[call[h].target] =
               IF call[h].pc \in PublishStep THEN "publishing" ELSE "unpublishing"

\* It waits for one call per target, though more may run.
OneAwaited ==
    \A g, h \in Handler :
        call[g].waiting /\ call[h].waiting /\ call[g].target = call[h].target => g = h

Awaited == (\A h \in Handler : AwaitedAsKnown(h)) /\ OneAwaited

VInv == IInv /\ NothingWithoutDir /\ Awaited

LEMMA AnswerAwaited ==
    ASSUME TypeOK, Awaited, NEW h \in Handler, NEW view, Answer(h, view)
    PROVE  Awaited'
<1>1. call'[h] = Idle /\ \A g \in Handler \ {h} : call'[g] = call[g]
  BY DEF Answer, TypeOK
<1>2. ~call'[h].waiting
  BY <1>1, IdleType, ZenonT(60)
<1>3. ASSUME NEW g \in Handler, call'[g].waiting
      PROVE  AwaitedAsKnown(g)'
  <2>1. g # h /\ call'[g] = call[g] /\ call[g].target \in Target
    BY <1>1, <1>2, <1>3, ZenonT(60) DEF TypeOK, Call
  <2>2. kubelet'[call[g].target] = kubelet[call[g].target]
    BY <1>3, <2>1, ZenonT(60) DEF Answer, Awaited, OneAwaited, TypeOK
  <2> QED
    BY <1>3, <2>1, <2>2, ZenonT(60) DEF Awaited, AwaitedAsKnown, Busy
<1>4. OneAwaited'
  BY <1>1, <1>2 DEF Awaited, OneAwaited
<1> QED
  BY <1>3, <1>4, ZenonT(60) DEF Awaited, AwaitedAsKnown

\* A call that goes on, with its target and its awaited answer.
LEMMA SameCallAwaited ==
    ASSUME TypeOK, Awaited, NEW h \in Handler, Busy(h), Busy(h)', UNCHANGED kubelet,
           call'[h].target = call[h].target, call'[h].waiting = call[h].waiting,
           call'[h].pc \in PublishStep <=> call[h].pc \in PublishStep,
           \A g \in Handler \ {h} : call'[g] = call[g]
    PROVE  Awaited'
<1>1. ASSUME NEW g \in Handler
      PROVE  /\ call'[g].target = call[g].target /\ call'[g].waiting = call[g].waiting
             /\ Busy(g)' <=> Busy(g)
             /\ call'[g].pc \in PublishStep <=> call[g].pc \in PublishStep
  BY DEF Busy
<1>2. \A g \in Handler : AwaitedAsKnown(g)'
  BY <1>1 DEF Awaited, AwaitedAsKnown
<1>3. OneAwaited'
  BY <1>1 DEF Awaited, OneAwaited
<1> QED
  BY <1>2, <1>3 DEF Awaited

LEMMA GotoAwaited ==
    ASSUME TypeOK, Awaited, NEW h \in Handler, NEW pc \in PublishStep \cup UnpublishStep,
           Busy(h), call[h].pc \in PublishStep <=> pc \in PublishStep,
           Goto(h, pc), UNCHANGED kubelet
    PROVE  Awaited'
<1>1. call' = [call EXCEPT ![h] = [call[h] EXCEPT !.pc = pc]]
  BY DEF Goto
<1>2. call \in [Handler -> Call] /\ call[h] \in Call
  BY DEF TypeOK
<1>3. /\ call'[h].pc = pc /\ call'[h].target = call[h].target
      /\ call'[h].waiting = call[h].waiting
      /\ \A g \in Handler \ {h} : call'[g] = call[g]
  BY <1>1, <1>2 DEF Call
<1>4. Busy(h)'
  BY <1>3 DEF Busy, PublishStep, UnpublishStep
<1> QED
  BY <1>3, <1>4, SameCallAwaited

\* Kubelet sends a call for a target only while it waits for no other one.
LEMMA BeginAwaited ==
    ASSUME TypeOK, Awaited, NEW h \in Handler, NEW t \in Target, ~Busy(h),
           NEW pc \in {"ensure", "cleanup"},
           kubelet[t] \notin {"publishing", "unpublishing"},
           call' = [call EXCEPT ![h] = NewCall(pc, t, TRUE)],
           kubelet' = [kubelet EXCEPT ![t] = IF pc = "ensure" THEN "publishing"
                                                              ELSE "unpublishing"]
    PROVE  Awaited'
<1>1. /\ call'[h] = NewCall(pc, t, TRUE)
      /\ \A g \in Handler \ {h} : call'[g] = call[g]
  BY DEF TypeOK
<1>2. /\ call'[h].pc = pc /\ call'[h].target = t /\ call'[h].waiting
      /\ pc # "idle" /\ (pc \in PublishStep <=> pc = "ensure")
  BY <1>1 DEF NewCall, PublishStep
<1>3. /\ kubelet'[t] = IF pc = "ensure" THEN "publishing" ELSE "unpublishing"
      /\ \A u \in Target \ {t} : kubelet'[u] = kubelet[u]
  BY DEF TypeOK
<1>4. \A g \in Handler : call[g].target \in Target /\ (call[g].waiting => call[g].target # t)
  BY DEF Awaited, AwaitedAsKnown, TypeOK, Call
<1>5. AwaitedAsKnown(h)'
  BY <1>2, <1>3, ZenonT(30) DEF AwaitedAsKnown, Busy
<1>6. \A g \in Handler \ {h} : AwaitedAsKnown(g)'
  BY <1>1, <1>3, <1>4 DEF Awaited, AwaitedAsKnown, Busy
<1>7. \A g \in Handler \ {h} : call'[g].waiting => call'[g].target # call'[h].target
  BY <1>1, <1>2, <1>4, ZenonT(30)
<1>8. \A g, k \in Handler \ {h} :
          call'[g].waiting /\ call'[k].waiting /\ call'[g].target = call'[k].target => g = k
  BY <1>1 DEF Awaited, OneAwaited
<1>9. OneAwaited'
  BY <1>7, <1>8, ZenonT(30) DEF OneAwaited
<1> QED
  BY <1>5, <1>6, <1>9 DEF Awaited

LEMMA NextAwaited == TypeOK /\ Awaited /\ [Next]_vars => Awaited'
<1> SUFFICES ASSUME TypeOK, Awaited, [Next]_vars PROVE Awaited'
  OBVIOUS
<1>1. ASSUME NEW h \in Handler, NEW t \in Target, NodePublishVolume(h, t) PROVE Awaited'
  <2>1. ~Busy(h) /\ kubelet[t] \notin {"publishing", "unpublishing"}
    BY <1>1 DEF NodePublishVolume, Busy
  <2>2. CASE Request[t] = "invalid"
    <3>1. UNCHANGED call /\ \A u \in Target \ {t} : kubelet'[u] = kubelet[u]
      BY <1>1, <2>2 DEF NodePublishVolume, TypeOK
    <3>2. \A g \in Handler : call[g].target \in Target /\ (call[g].waiting => call[g].target # t)
      BY <2>1 DEF Awaited, AwaitedAsKnown, TypeOK, Call
    <3> QED
      BY <3>1, <3>2 DEF Awaited, AwaitedAsKnown, OneAwaited, Busy
  <2>3. CASE Request[t] # "invalid"
    BY <1>1, <2>1, <2>3, BeginAwaited, ZenonT(30) DEF NodePublishVolume
  <2> QED
    BY <2>2, <2>3
<1>2. ASSUME NEW h \in Handler, NEW t \in Target, NodeUnpublishVolume(h, t) PROVE Awaited'
  <2>1. ~Busy(h) /\ kubelet[t] \notin {"publishing", "unpublishing"}
    BY <1>2 DEF NodeUnpublishVolume, Busy
  <2>2. CASE Request[t] # "volume"
    <3>1. UNCHANGED call /\ \A u \in Target \ {t} : kubelet'[u] = kubelet[u]
      BY <1>2, <2>2 DEF NodeUnpublishVolume, TypeOK
    <3>2. \A g \in Handler : call[g].target \in Target /\ (call[g].waiting => call[g].target # t)
      BY <2>1 DEF Awaited, AwaitedAsKnown, TypeOK, Call
    <3> QED
      BY <3>1, <3>2 DEF Awaited, AwaitedAsKnown, OneAwaited, Busy
  <2>3. CASE Request[t] = "volume"
    BY <1>2, <2>1, <2>3, BeginAwaited, ZenonT(30) DEF NodeUnpublishVolume
  <2> QED
    BY <2>2, <2>3
<1> USE AnswerAwaited, GotoAwaited DEF Busy, PublishStep, UnpublishStep
<1>3. ASSUME NEW h \in Handler, EnsureMountPoint(h) PROVE Awaited'
  BY <1>3 DEF EnsureMountPoint, Fail, Succeed
<1>4. ASSUME NEW h \in Handler, UnmountStale(h) PROVE Awaited'
  BY <1>4 DEF UnmountStale, Fail, FailMounted
<1>5. ASSUME NEW h \in Handler, LookupClass(h) PROVE Awaited'
  BY <1>5 DEF LookupClass, Fail
<1>6. ASSUME NEW h \in Handler, MountTmpfs(h) PROVE Awaited'
  BY <1>6 DEF MountTmpfs, Fail, Succeed
<1>7. ASSUME NEW h \in Handler, ProviderReturn(h) PROVE Awaited'
  BY <1>7 DEF ProviderReturn, FailMounted
<1>8. ASSUME NEW h \in Handler, CreateStatus(h) PROVE Awaited'
  BY <1>8 DEF CreateStatus, FailMounted, Succeed
<1>9. ASSUME NEW h \in Handler, UndoMount(h) PROVE Awaited'
  BY <1>9 DEF UndoMount, Fail
<1>10. ASSUME NEW h \in Handler, CleanupMountPoint(h) PROVE Awaited'
  BY <1>10 DEF CleanupMountPoint
<1>11. ASSUME NEW h \in Handler, RemoveTarget(h) PROVE Awaited'
  BY <1>11, ZenonT(60) DEF RemoveTarget
<1>12. ASSUME NEW h \in Handler, ProviderWrite(h) PROVE Awaited'
  <2>1. PICK o \in Object : call' = [call EXCEPT ![h].written = @ \cup {o}]
    BY <1>12, ZenonT(30) DEF ProviderWrite
  <2>2. /\ call'[h].pc = call[h].pc /\ call'[h].target = call[h].target
        /\ call'[h].waiting = call[h].waiting
        /\ \A g \in Handler \ {h} : call'[g] = call[g]
    BY <2>1 DEF TypeOK, Call
  <2> QED
    BY <1>12, <2>2, SameCallAwaited DEF ProviderWrite
<1>13. ASSUME NEW h \in Handler, Timeout(h) PROVE Awaited'
  <2>1. /\ ~call'[h].waiting
        /\ \A g \in Handler \ {h} : call'[g] = call[g]
        /\ \A u \in Target \ {call[h].target} : kubelet'[u] = kubelet[u]
    BY <1>13, ZenonT(60) DEF Timeout, TypeOK, Call
  <2>2. \A g \in Handler \ {h} : call[g].waiting => call[g].target \in Target \ {call[h].target}
    BY <1>13, ZenonT(60) DEF Timeout, Awaited, OneAwaited, TypeOK, Call
  <2>3. \A g \in Handler : AwaitedAsKnown(g)'
    BY <2>1, <2>2 DEF Awaited, AwaitedAsKnown
  <2>4. OneAwaited'
    BY <2>1, ZenonT(60) DEF Awaited, OneAwaited
  <2> QED
    BY <2>3, <2>4 DEF Awaited
<1>14. ASSUME Crash PROVE Awaited'
  BY <1>14, IdleType, ZenonT(60) DEF Crash, Awaited, AwaitedAsKnown, OneAwaited
<1>15. ASSUME NEW t \in Target, MountGoesStale(t) PROVE Awaited'
  BY <1>15, ZenonT(60) DEF MountGoesStale, Awaited, AwaitedAsKnown, OneAwaited
<1>16. ASSUME UNCHANGED vars PROVE Awaited'
  BY <1>16 DEF vars, Awaited, AwaitedAsKnown, OneAwaited
<1> QED
  BY <1>1, <1>2, <1>3, <1>4, <1>5, <1>6, <1>7, <1>8, <1>9, <1>10, <1>11, <1>12, <1>13,
     <1>14, <1>15, <1>16, ZenonT(60) DEF Next, HandlerStep

-----------------------------------------------------------------------------
(* What PodVolume sees, once the invariant is used.                        *)

View(t) ==
    IF kubelet[t] = "removed" THEN "gone"
    ELSE IF faults[t] # {} THEN "suspect"
    ELSE IF ~Mounted(t) THEN "none"
    ELSE IF Whole(t) THEN "whole"
    ELSE "partial"

ContentIsView == \A t \in Volumes : ContentOf(t) = View(t)

LEMMA ViewIsEnough == VInv => ContentIsView
<1> SUFFICES ASSUME VInv, NEW t \in Volumes
             PROVE  ContentOf(t) = View(t)
  BY DEF ContentIsView
<1>1. t \in Target /\ Request[t] = "volume"
  BY DEF Volumes
<1>2. kubelet[t] = "removed" => ~dir[t] /\ ~Mounted(t) /\ disk[t] = {}
  BY <1>1 DEF VInv, NothingWithoutDir
<1>3. faults[t] = {} => disk[t] = {}
  BY <1>1 DEF VInv, IInv, MountsFollow, AtRest
<1> QED
  BY <1>2, <1>3 DEF ContentOf, View

\* PodVolume's steps of one volume, from phase p and content c to q and d.
Allowed(p, c, q, d) ==
    \/ q = p /\ d = c
    \/ p \in {"new", "failed", "published"} /\ q = "publishing" /\ d = c
    \/ p = "publishing" /\ q = p /\ c = "none" /\ d = "partial"
    \/ p = "publishing" /\ q = p /\ c = "partial" /\ d = "whole"
    \/ p = "publishing" /\ q = "published" /\ c \in {"partial", "whole"} /\ d = "whole"
    \/ p = "publishing" /\ q \in {"published", "failed"} /\ c = "suspect" /\ d = c
    \/ p = "publishing" /\ q = "failed" /\ c \in {"none", "whole"} /\ d = c
    \/ p = "publishing" /\ q = "failed" /\ c \in {"partial", "whole"} /\ d = "none"
    \/ p \in {"failed", "published", "leaving"} /\ q = "unpublishing" /\ d = c
    \/ p = "unpublishing" /\ q = p /\ c = "whole" /\ d = "none"
    \/ p = "unpublishing" /\ q = "leaving" /\ d = c
    \/ p = "unpublishing" /\ q = "removed" /\ c \in {"none", "suspect"} /\ d = "gone"
    \/ /\ p # "removed" /\ d = "suspect"
       /\ \/ q = p
          \/ p = "publishing" /\ q = "failed"
          \/ p = "unpublishing" /\ q = "leaving"

MayStep(t) == Allowed(kubelet[t], View(t), kubelet'[t], View(t)')

\* It is PodVolume's next-state relation that Allowed spells out.
LEMMA AllowedIsContract ==
    ASSUME ContentIsView, ContentIsView', TypeOK', \A t \in Volumes : MayStep(t)
    PROVE  Contract!Next
<1> DEFINE phase == [t \in Volumes |-> kubelet[t]]
           content == [t \in Volumes |-> ContentOf(t)]
<1>0. Volumes' = Volumes
  BY DEF Volumes
<1>1. phase' \in [Volumes -> Contract!Phase]
  BY <1>0 DEF TypeOK, KubeletState, Contract!Phase, Volumes
<1>2. content' \in [Volumes -> Contract!Content]
  BY <1>0 DEF ContentOf, Contract!Content
<1>3. ASSUME NEW t \in Volumes
      PROVE  /\ phase[t] = kubelet[t] /\ phase'[t] = kubelet'[t]
             /\ content[t] = View(t) /\ content'[t] = View(t)'
  BY <1>0, ZenonT(60) DEF ContentIsView
<1> HIDE DEF phase, content
<1>4. ASSUME NEW t \in Volumes
      PROVE  Contract!Step(t) \/ Contract!To(t, phase[t], content[t])
  <2>1. Allowed(phase[t], content[t], phase'[t], content'[t])
    BY <1>3 DEF MayStep
  <2> QED
    BY <2>1, ZenonT(60) DEF Allowed, phase, content, Contract!Step, Contract!To, Contract!Publish,
       Contract!Progress, Contract!PublishSucceeds, Contract!PublishFails, Contract!Unpublish,
       Contract!Unmount, Contract!UnpublishFails, Contract!UnpublishSucceeds, Contract!Fault
<1> QED
  BY <1>1, <1>2, <1>4 DEF Contract!Next, Contract!To, phase, content

-----------------------------------------------------------------------------
(* The steps, as one volume sees them.                                     *)

\* View(t), before and after a step, where kubelet still knows the volume.
LEMMA ViewNow ==
    ASSUME NEW t, kubelet[t] # "removed"
    PROVE  /\ faults[t] # {} => View(t) = "suspect"
           /\ faults[t] = {} /\ ~Mounted(t) => View(t) = "none"
           /\ faults[t] = {} /\ Mounted(t) /\ Whole(t) => View(t) = "whole"
           /\ faults[t] = {} /\ Mounted(t) /\ ~Whole(t) => View(t) = "partial"
BY DEF View

LEMMA ViewNext ==
    ASSUME NEW t, kubelet'[t] # "removed"
    PROVE  /\ faults'[t] # {} => View(t)' = "suspect"
           /\ faults'[t] = {} /\ ~Mounted(t)' => View(t)' = "none"
           /\ faults'[t] = {} /\ Mounted(t)' /\ Whole(t)' => View(t)' = "whole"
           /\ faults'[t] = {} /\ Mounted(t)' /\ ~Whole(t)' => View(t)' = "partial"
BY DEF View

\* What is mounted on t and recorded for it stays.
Kept(t) ==
    /\ faults'[t] = faults[t] /\ mounts'[t] = mounts[t]
    /\ t \in status' <=> t \in status

LEMMA KeptView ==
    ASSUME NEW t, Kept(t)
    PROVE  /\ (kubelet[t] = "removed" <=> kubelet'[t] = "removed") => View(t)' = View(t)
           /\ Mounted(t)' <=> Mounted(t)
           /\ Whole(t)' <=> Whole(t)
<1>1. (Mounted(t)' <=> Mounted(t)) /\ (Whole(t)' <=> Whole(t)) /\ faults'[t] = faults[t]
  BY DEF Kept, Mounted, Whole
<1> QED
  BY <1>1 DEF View

\* A volume that the step does not touch.
LEMMA Untouched ==
    ASSUME NEW t, kubelet'[t] = kubelet[t], Kept(t)
    PROVE  MayStep(t)
<1>1. View(t)' = View(t)
  BY KeptView, ZenonT(60)
<1> QED
  BY <1>1 DEF MayStep, Allowed

\* A volume that a fault has hit may be told anything but a removal too many.
LEMMA Suspect ==
    ASSUME NEW t, faults[t] # {}, faults'[t] # {},
           \/ kubelet'[t] = kubelet[t]
           \/ kubelet[t] = "publishing" /\ kubelet'[t] \in {"published", "failed"}
           \/ kubelet[t] = "unpublishing" /\ kubelet'[t] \in {"leaving", "removed"}
    PROVE  MayStep(t)
<1>1. View(t) = IF kubelet[t] = "removed" THEN "gone" ELSE "suspect"
  BY DEF View
<1>2. View(t)' = IF kubelet'[t] = "removed" THEN "gone" ELSE "suspect"
  BY DEF View
<1> QED
  BY <1>1, <1>2 DEF MayStep, Allowed

\* What an answer tells kubelet, and that it is told at all of a volume that no
\* fault has hit.
LEMMA Told ==
    ASSUME VInv, NEW h \in Handler, Busy(h), NEW view, Answer(h, view), NEW t,
           t = call[h].target, NEW p,
           p = IF call[h].pc \in PublishStep THEN "publishing" ELSE "unpublishing"
    PROVE  /\ t \in Target
           /\ kubelet'[t] = kubelet[t] \/ (kubelet[t] = p /\ kubelet'[t] = view)
           /\ faults[t] = {} => kubelet[t] = p /\ kubelet'[t] = view
           /\ \A u \in Target \ {t} : kubelet'[u] = kubelet[u]
<1>0. t \in Target /\ kubelet \in [Target -> KubeletState]
  BY DEF VInv, IInv, TypeOK, Call
<1>1. kubelet' = IF call[h].waiting THEN [kubelet EXCEPT ![t] = view] ELSE kubelet
  BY DEF Answer
<1>2. faults[t] = {} => call[h].waiting
  BY DEF VInv, IInv, OneCall, ServedAlone
<1>3. call[h].waiting => kubelet[t] = p
  BY DEF VInv, Awaited, AwaitedAsKnown
<1>4. CASE call[h].waiting
  BY <1>0, <1>1, <1>3, <1>4
<1>5. CASE ~call[h].waiting
  BY <1>0, <1>1, <1>2, <1>5, ZenonT(60)
<1> QED
  BY <1>4, <1>5

OthersKept(t0) == \A t \in Target \ {t0} : Kept(t)

\* A handler answers a call for volume t0: it is enough to look at t0, and to
\* assume that no fault has hit it.
LEMMA AnswerStep ==
    ASSUME VInv, NEW h \in Handler, NEW t0, t0 = call[h].target, Busy(h), NEW view, Answer(h, view),
           NEW p, p = IF call[h].pc \in PublishStep THEN "publishing" ELSE "unpublishing",
           view \in IF call[h].pc \in PublishStep THEN {"published", "failed"}
                                                  ELSE {"leaving", "removed"},
           OthersKept(t0), faults[t0] # {} => faults'[t0] # {},
           /\ t0 \in Volumes /\ faults[t0] = {} /\ kubelet[t0] = p /\ kubelet'[t0] = view
           => MayStep(t0)
    PROVE  \A t \in Volumes : MayStep(t)
<1>0. /\ t0 \in Target
      /\ kubelet'[t0] = kubelet[t0] \/ (kubelet[t0] = p /\ kubelet'[t0] = view)
      /\ faults[t0] = {} => kubelet[t0] = p /\ kubelet'[t0] = view
      /\ \A u \in Target \ {t0} : kubelet'[u] = kubelet[u]
  BY Told
<1>1. ASSUME NEW t \in Volumes, t # t0 PROVE MayStep(t)
  <2>1. Kept(t) /\ kubelet'[t] = kubelet[t]
    BY <1>0, <1>1 DEF OthersKept, Volumes
  <2> QED
    BY <2>1, Untouched, ZenonT(60)
<1>2. CASE faults[t0] = {}
  BY <1>0, <1>1, <1>2
<1>3. CASE faults[t0] # {}
  <2>1. \/ kubelet'[t0] = kubelet[t0]
        \/ kubelet[t0] = "publishing" /\ kubelet'[t0] \in {"published", "failed"}
        \/ kubelet[t0] = "unpublishing" /\ kubelet'[t0] \in {"leaving", "removed"}
    BY <1>0
  <2>2. MayStep(t0)
    BY <1>3, <2>1, Suspect
  <2> QED
    BY <1>1, <2>2, ZenonT(60)
<1> QED
  BY <1>2, <1>3, ZenonT(60)

LEMMA PublishAnswered ==
    ASSUME VInv, NEW h \in Handler, NEW t0, t0 = call[h].target, call[h].pc \in PublishStep,
           NEW view \in {"published", "failed"}, Answer(h, view),
           OthersKept(t0), faults[t0] # {} => faults'[t0] # {},
           /\ t0 \in Volumes /\ faults[t0] = {}
           /\ kubelet[t0] = "publishing" /\ kubelet'[t0] = view
           => MayStep(t0)
    PROVE  \A t \in Volumes : MayStep(t)
<1>1. Busy(h)
  BY DEF Busy, PublishStep
<1> QED
  BY <1>1, AnswerStep

LEMMA UnpublishAnswered ==
    ASSUME VInv, NEW h \in Handler, NEW t0, t0 = call[h].target, call[h].pc \in UnpublishStep,
           NEW view \in {"leaving", "removed"}, Answer(h, view),
           OthersKept(t0), faults' = faults,
           /\ t0 \in Volumes /\ faults[t0] = {}
           /\ kubelet[t0] = "unpublishing" /\ kubelet'[t0] = view
           => MayStep(t0)
    PROVE  \A t \in Volumes : MayStep(t)
<1>1. Busy(h) /\ call[h].pc \notin PublishStep
  BY DEF Busy, PublishStep, UnpublishStep
<1> QED
  BY <1>1, AnswerStep

\* A handler goes on with its call.
LEMMA GotoStep ==
    ASSUME VInv, NEW h \in Handler, NEW t0, t0 = call[h].target, Busy(h),
           UNCHANGED <<kubelet, faults>>, OthersKept(t0),
           /\ t0 \in Volumes /\ faults[t0] = {}
           /\ kubelet[t0] = IF call[h].pc \in PublishStep THEN "publishing" ELSE "unpublishing"
           => MayStep(t0)
    PROVE  \A t \in Volumes : MayStep(t)
<1>1. ASSUME NEW t \in Volumes, t # t0 PROVE MayStep(t)
  <2>1. Kept(t) /\ kubelet'[t] = kubelet[t]
    BY <1>1 DEF OthersKept, Volumes
  <2> QED
    BY <2>1, Untouched
<1>2. CASE faults[t0] = {}
  <2>1. kubelet[t0] = IF call[h].pc \in PublishStep THEN "publishing" ELSE "unpublishing"
    BY <1>2 DEF VInv, IInv, OneCall, ServedAlone
  <2> QED
    BY <1>1, <1>2, <2>1, ZenonT(60)
<1>3. CASE faults[t0] # {}
  <2>1. MayStep(t0)
    BY <1>3, Suspect
  <2> QED
    BY <1>1, <2>1
<1> QED
  BY <1>2, <1>3

\* A step that changes nothing a volume is seen by.
LEMMA NothingSeen ==
    ASSUME UNCHANGED <<kubelet, faults, mounts, status>>
    PROVE  \A t \in Volumes : MayStep(t)
<1>1. \A t : Kept(t) /\ kubelet'[t] = kubelet[t]
  BY DEF Kept
<1> QED
  BY <1>1, Untouched

\* What the invariant says of the volume a handler works on.
LEMMA Followed ==
    ASSUME VInv, NEW h \in Handler, NEW t, t = call[h].target, Busy(h), t \in Volumes,
           faults[t] = {}
    PROVE  /\ call[h].pc \in {"ensure", "unmountStale", "cleanup"} => AllOrNothing(t)
           /\ call[h].pc \in {"lookup", "mount", "remove"} => ~Mounted(t)
           /\ call[h].pc \in {"provider", "status"} => mounts[t] = <<call[h].written>>
           /\ call[h].pc = "status" => call[h].written = Object
           /\ call[h].pc = "undo" => Len(mounts[t]) <= 1
           /\ Request[t] = "volume"
BY DEF VInv, IInv, MountsFollow, FollowsCall, Volumes

LEMMA TargetTyped ==
    ASSUME VInv, NEW h \in Handler
    PROVE  TypeOK /\ call[h].target \in Target
BY DEF VInv, IInv, TypeOK, Call

LEMMA EnsureMountPointStep ==
    ASSUME VInv, NEW h \in Handler, NEW t0, t0 = call[h].target, EnsureMountPoint(h)
    PROVE  \A t \in Volumes : MayStep(t)
<1>1. /\ call[h].pc = "ensure" /\ UNCHANGED <<mounts, status, faults>>
      /\ Answer(h, "failed") \/ (Mounted(t0) /\ Answer(h, "published")) \/ UNCHANGED kubelet
  BY DEF EnsureMountPoint, Fail, Succeed
<1>2. call[h].pc \in PublishStep /\ Busy(h)
  BY <1>1 DEF PublishStep, Busy
<1>3. OthersKept(t0) /\ Kept(t0)
  BY <1>1 DEF OthersKept, Kept
<1>4. t0 \in Volumes /\ faults[t0] = {} => AllOrNothing(t0)
  BY <1>1, <1>2, Followed
<1>5. CASE Answer(h, "failed")
  <2>1. ASSUME t0 \in Volumes, faults[t0] = {},
               kubelet[t0] = "publishing", kubelet'[t0] = "failed"
        PROVE  MayStep(t0)
    <3>1. View(t0) \in {"none", "whole"} /\ View(t0)' = View(t0)
      BY <1>3, <1>4, <2>1, ViewNow, KeptView DEF AllOrNothing
    <3> QED
      BY <2>1, <3>1, ZenonT(60) DEF MayStep, Allowed
  <2> QED
    BY <1>1, <1>2, <1>3, <1>5, <2>1, PublishAnswered, ZenonT(60)
<1>6. CASE Mounted(t0) /\ Answer(h, "published")
  <2>1. ASSUME t0 \in Volumes, faults[t0] = {},
               kubelet[t0] = "publishing", kubelet'[t0] = "published"
        PROVE  MayStep(t0)
    <3>1. View(t0) = "whole" /\ View(t0)' = View(t0)
      BY <1>3, <1>4, <1>6, <2>1, ViewNow, KeptView, ZenonT(60) DEF AllOrNothing
    <3> QED
      BY <2>1, <3>1, ZenonT(60) DEF MayStep, Allowed
  <2> QED
    BY <1>1, <1>2, <1>3, <1>6, <2>1, PublishAnswered, ZenonT(60)
<1>7. CASE UNCHANGED kubelet
  BY <1>1, <1>7, NothingSeen
<1> QED
  BY <1>1, <1>5, <1>6, <1>7

\* A publish fails after it has unmounted the one layer that is there.
LEMMA PoppedAnswered ==
    ASSUME VInv, NEW h \in Handler, NEW t0, t0 = call[h].target, call[h].pc \in PublishStep,
           PopMount(t0), Answer(h, "failed"), UNCHANGED <<status, faults>>,
           t0 \in Volumes /\ faults[t0] = {} => Len(mounts[t0]) <= 1
    PROVE  \A t \in Volumes : MayStep(t)
<1>1. TypeOK /\ t0 \in Target
  BY TargetTyped
<1>2. /\ Len(mounts[t0]) <= 1 => mounts'[t0] = << >>
      /\ \A t \in Target \ {t0} : mounts'[t] = mounts[t]
  BY <1>1, PopFrame
<1>3. OthersKept(t0)
  BY <1>2 DEF OthersKept, Kept
<1>4. Mounted(t0)
  BY DEF PopMount
<1>5. ASSUME t0 \in Volumes, faults[t0] = {},
             kubelet[t0] = "publishing", kubelet'[t0] = "failed"
      PROVE  MayStep(t0)
  <2>1. ~Mounted(t0)' /\ faults'[t0] = {}
    BY <1>2, <1>5 DEF Mounted
  <2>2. View(t0) \in {"partial", "whole"}
    BY <1>4, <1>5, ViewNow
  <2>3. View(t0)' = "none"
    BY <1>5, <2>1, ViewNext
  <2> QED
    BY <1>5, <2>2, <2>3 DEF MayStep, Allowed
<1> QED
  BY <1>3, <1>5, PublishAnswered, ZenonT(30)

LEMMA UnmountStaleStep ==
    ASSUME VInv, NEW h \in Handler, NEW t0, t0 = call[h].target, UnmountStale(h)
    PROVE  \A t \in Volumes : MayStep(t)
<1>1. /\ call[h].pc = "unmountStale" /\ UNCHANGED <<status, faults>>
      /\ (PopMount(t0) /\ Answer(h, "failed")) \/ UNCHANGED <<kubelet, mounts>>
  BY DEF UnmountStale, Fail, FailMounted
<1>2. call[h].pc \in PublishStep /\ Busy(h)
  BY <1>1 DEF PublishStep, Busy
<1>3. CASE PopMount(t0) /\ Answer(h, "failed")
  <2>1. ASSUME t0 \in Volumes, faults[t0] = {}
        PROVE  Len(mounts[t0]) <= 1
    <3>1. AllOrNothing(t0) /\ Mounted(t0)
      BY <1>1, <1>2, <1>3, <2>1, Followed DEF PopMount
    <3>2. mounts[t0] = <<Object>>
      BY <3>1 DEF AllOrNothing, Whole
    <3> QED
      BY <3>2, OneLayer, ZenonT(60)
  <2> QED
    BY <1>1, <1>2, <1>3, <2>1, PoppedAnswered
<1>4. CASE UNCHANGED <<kubelet, mounts>>
  BY <1>1, <1>4, NothingSeen, ZenonT(60)
<1> QED
  BY <1>1, <1>3, <1>4

\* A publish fails where nothing is mounted.
LEMMA EmptyAnswered ==
    ASSUME VInv, NEW h \in Handler, NEW t0, t0 = call[h].target, call[h].pc \in PublishStep,
           Answer(h, "failed"), UNCHANGED <<mounts, status, faults>>,
           t0 \in Volumes /\ faults[t0] = {} => ~Mounted(t0)
    PROVE  \A t \in Volumes : MayStep(t)
<1>1. OthersKept(t0) /\ Kept(t0)
  BY DEF OthersKept, Kept
<1>2. ASSUME t0 \in Volumes, faults[t0] = {},
             kubelet[t0] = "publishing", kubelet'[t0] = "failed"
      PROVE  MayStep(t0)
  <2>1. View(t0) = "none" /\ View(t0)' = View(t0)
    BY <1>1, <1>2, ViewNow, KeptView, ZenonT(60)
  <2> QED
    BY <1>2, <2>1, ZenonT(60) DEF MayStep, Allowed
<1> QED
  BY <1>1, <1>2, PublishAnswered

LEMMA LookupClassStep ==
    ASSUME VInv, NEW h \in Handler, NEW t0, t0 = call[h].target, LookupClass(h)
    PROVE  \A t \in Volumes : MayStep(t)
<1>1. /\ call[h].pc = "lookup" /\ UNCHANGED <<mounts, status, faults>>
      /\ Answer(h, "failed") \/ UNCHANGED kubelet
  BY DEF LookupClass, Fail
<1>2. call[h].pc \in PublishStep /\ Busy(h)
  BY <1>1 DEF PublishStep, Busy
<1>3. t0 \in Volumes /\ faults[t0] = {} => ~Mounted(t0)
  BY <1>1, <1>2, Followed
<1> QED
  BY <1>1, <1>2, <1>3, EmptyAnswered, NothingSeen, ZenonT(60)

LEMMA MountTmpfsStep ==
    ASSUME VInv, NEW h \in Handler, NEW t0, t0 = call[h].target, MountTmpfs(h)
    PROVE  \A t \in Volumes : MayStep(t)
<1>1. /\ call[h].pc = "mount" /\ UNCHANGED <<status, faults>>
      /\ \/ Answer(h, "failed") /\ UNCHANGED mounts
         \/ PushMount(t0) /\ Request[t0] = "mock" /\ Answer(h, "published")
         \/ PushMount(t0) /\ UNCHANGED kubelet
  BY DEF MountTmpfs, Fail, Succeed
<1>2. call[h].pc \in PublishStep /\ Busy(h)
  BY <1>1 DEF PublishStep, Busy
<1>3. t0 \in Volumes /\ faults[t0] = {} => ~Mounted(t0)
  BY <1>1, <1>2, Followed
<1>4. CASE Answer(h, "failed") /\ UNCHANGED mounts
  BY <1>1, <1>2, <1>3, <1>4, EmptyAnswered, SMTT(30)
<1>5. ASSUME PushMount(t0)
      PROVE  OthersKept(t0) /\ mounts'[t0] = Append(mounts[t0], {})
  <2>1. t0 \in Target /\ mounts \in [Target -> Seq(SUBSET Object)]
    BY TargetTyped DEF TypeOK
  <2>2. /\ \A t \in Target \ {t0} : mounts'[t] = mounts[t]
        /\ mounts'[t0] = Append(mounts[t0], {})
    BY <1>5, <2>1 DEF PushMount
  <2> QED
    BY <1>1, <2>2 DEF OthersKept, Kept
<1>6. CASE PushMount(t0) /\ Request[t0] = "mock" /\ Answer(h, "published")
  <2>1. t0 \notin Volumes
    BY <1>6 DEF Volumes
  <2> QED
    BY <1>1, <1>2, <1>5, <1>6, <2>1, PublishAnswered, ZenonT(30)
<1>7. CASE PushMount(t0) /\ UNCHANGED kubelet
  <2>1. ASSUME t0 \in Volumes, faults[t0] = {}, kubelet[t0] = "publishing"
        PROVE  MayStep(t0)
    <3>1. mounts'[t0] = <<{}>>
      BY <1>3, <1>5, <1>7, <2>1, FirstLayer DEF Mounted
    <3>2. <<{}>> # <<Object>> /\ <<{}>> # << >>
      BY ObjectNonempty
    <3>3. Mounted(t0)' /\ ~Whole(t0)' /\ faults'[t0] = {} /\ kubelet'[t0] = "publishing"
      BY <1>1, <1>7, <2>1, <3>1, <3>2, ZenonT(60) DEF Mounted, Whole
    <3>4. View(t0) = "none"
      BY <1>3, <2>1, ViewNow
    <3>5. View(t0)' = "partial"
      BY <3>3, ViewNext, ZenonT(60)
    <3> QED
      BY <2>1, <3>3, <3>4, <3>5, ZenonT(60) DEF MayStep, Allowed
  <2> QED
    BY <1>1, <1>2, <1>5, <1>7, <2>1, GotoStep, ZenonT(60)
<1> QED
  BY <1>1, <1>4, <1>6, <1>7

LEMMA ProviderWriteStep ==
    ASSUME VInv, NEW h \in Handler, NEW t0, t0 = call[h].target, ProviderWrite(h)
    PROVE  \A t \in Volumes : MayStep(t)
<1>0. TypeOK /\ t0 \in Target
  BY TargetTyped
<1>1. call[h].pc = "provider" /\ UNCHANGED <<kubelet, status, faults>>
  BY DEF ProviderWrite
<1>2. call[h].pc \in PublishStep /\ Busy(h)
  BY <1>1 DEF PublishStep, Busy
<1>3. PICK o \in Object \ call[h].written :
        IF Mounted(t0)
        THEN mounts' = [mounts EXCEPT ![t0][Len(mounts[t0])] = @ \cup {o}]
        ELSE UNCHANGED mounts
  BY ZenonT(30) DEF ProviderWrite
<1>4. OthersKept(t0)
  <2>1. \A t \in Target \ {t0} : mounts'[t] = mounts[t]
    BY <1>0, <1>3, ZenonT(60) DEF TypeOK
  <2> QED
    BY <1>1, <2>1 DEF OthersKept, Kept
<1>5. ASSUME t0 \in Volumes, faults[t0] = {}, kubelet[t0] = "publishing"
      PROVE  MayStep(t0)
  <2>1. mounts[t0] = <<call[h].written>>
    BY <1>1, <1>2, <1>5, Followed, ZenonT(30)
  <2>2. mounts[t0] # << >> /\ Len(mounts[t0]) = 1
    BY <2>1, OneLayer
  <2>3. mounts'[t0] = <<call[h].written \cup {o}>>
    <3>1. mounts' = [mounts EXCEPT ![t0] = [mounts[t0] EXCEPT ![1] = @ \cup {o}]]
      BY <1>3, <2>2 DEF Mounted
    <3>2. mounts'[t0] = [mounts[t0] EXCEPT ![1] = @ \cup {o}]
      BY <1>0, <3>1, ZenonT(30) DEF TypeOK
    <3> QED
      BY <2>1, <3>2, OneLayerGrows, ZenonT(60)
  <2>4. mounts[t0] # <<Object>>
    BY <1>3, <2>1
  <2>5. Mounted(t0) /\ ~Whole(t0)
    BY <2>2, <2>4 DEF Mounted, Whole
  <2>6. Mounted(t0)'
    BY <2>3, OneLayer DEF Mounted
  <2>7. kubelet'[t0] = "publishing" /\ faults'[t0] = {}
    BY <1>1, <1>5
  <2>8. View(t0) = "partial"
    BY <1>5, <2>5, ViewNow, ZenonT(60)
  <2>9. View(t0)' \in {"partial", "whole"}
    BY <2>6, <2>7, ViewNext
  <2> QED
    BY <1>5, <2>7, <2>8, <2>9, ZenonT(60) DEF MayStep, Allowed
<1> QED
  BY <1>1, <1>2, <1>4, <1>5, GotoStep, ZenonT(60)

LEMMA ProviderReturnStep ==
    ASSUME NEW h, ProviderReturn(h)
    PROVE  \A t \in Volumes : MayStep(t)
<1>1. UNCHANGED <<kubelet, mounts, status, faults>>
  BY DEF ProviderReturn, FailMounted
<1> QED
  BY <1>1, NothingSeen

LEMMA CreateStatusStep ==
    ASSUME VInv, NEW h \in Handler, NEW t0, t0 = call[h].target, CreateStatus(h)
    PROVE  \A t \in Volumes : MayStep(t)
<1>1. /\ call[h].pc = "status" /\ UNCHANGED <<mounts, faults>>
      /\ \/ status' = status \cup {t0} /\ Answer(h, "published")
         \/ UNCHANGED <<kubelet, status>>
  BY DEF CreateStatus, Succeed, FailMounted
<1>2. call[h].pc \in PublishStep /\ Busy(h)
  BY <1>1 DEF PublishStep, Busy
<1>3. CASE status' = status \cup {t0} /\ Answer(h, "published")
  <2>1. OthersKept(t0)
    BY <1>1, <1>3, ZenonT(60) DEF OthersKept, Kept
  <2>2. ASSUME t0 \in Volumes, faults[t0] = {},
               kubelet[t0] = "publishing", kubelet'[t0] = "published"
        PROVE  MayStep(t0)
    <3>1. mounts[t0] = <<Object>>
      BY <1>1, <1>2, <2>2, Followed, ZenonT(60)
    <3>2. mounts[t0] # << >>
      BY <3>1, OneLayer, ZenonT(60)
    <3>3. Mounted(t0) /\ Mounted(t0)' /\ Whole(t0)' /\ faults'[t0] = {}
      BY <1>1, <1>3, <2>2, <3>1, <3>2, ZenonT(60) DEF Mounted, Whole
    <3>4. View(t0) \in {"partial", "whole"}
      BY <2>2, <3>3, ViewNow, ZenonT(60)
    <3>5. View(t0)' = "whole"
      BY <2>2, <3>3, ViewNext
    <3> QED
      BY <2>2, <3>4, <3>5, ZenonT(60) DEF MayStep, Allowed
  <2> QED
    BY <1>1, <1>2, <1>3, <2>1, <2>2, PublishAnswered, ZenonT(60)
<1>4. CASE UNCHANGED <<kubelet, status>>
  BY <1>1, <1>4, NothingSeen, ZenonT(60)
<1> QED
  BY <1>1, <1>3, <1>4

LEMMA UndoMountStep ==
    ASSUME VInv, NEW h \in Handler, NEW t0, t0 = call[h].target, UndoMount(h)
    PROVE  \A t \in Volumes : MayStep(t)
<1>1. /\ call[h].pc = "undo" /\ UNCHANGED status /\ Answer(h, "failed")
      /\ \/ PopMount(t0) /\ UNCHANGED faults
         \/ ~Mounted(t0) /\ UNCHANGED <<mounts, faults>>
         \/ faults' = [faults EXCEPT ![t0] = @ \cup {"unmount"}] /\ UNCHANGED mounts
  BY DEF UndoMount, Fail
<1>2. call[h].pc \in PublishStep /\ Busy(h)
  BY <1>1 DEF PublishStep, Busy
<1>3. CASE PopMount(t0) /\ UNCHANGED faults
  <2>1. t0 \in Volumes /\ faults[t0] = {} => Len(mounts[t0]) <= 1
    BY <1>1, <1>2, Followed, ZenonT(60)
  <2> QED
    BY <1>1, <1>2, <1>3, <2>1, PoppedAnswered, ZenonT(30)
<1>4. CASE ~Mounted(t0) /\ UNCHANGED <<mounts, faults>>
  BY <1>1, <1>2, <1>4, EmptyAnswered, ZenonT(60)
<1>5. CASE faults' = [faults EXCEPT ![t0] = @ \cup {"unmount"}] /\ UNCHANGED mounts
  <2>1. t0 \in Target /\ faults \in [Target -> SUBSET AllFaults]
    BY TargetTyped DEF TypeOK
  <2>2. faults'[t0] # {} /\ \A t \in Target \ {t0} : faults'[t] = faults[t]
    BY <1>5, <2>1
  <2>3. OthersKept(t0)
    BY <1>1, <1>5, <2>2, ZenonT(60) DEF OthersKept, Kept
  <2>4. ASSUME kubelet[t0] = "publishing", kubelet'[t0] = "failed"
        PROVE  MayStep(t0)
    <3>1. View(t0)' = "suspect"
      BY <2>2, <2>4, ViewNext
    <3> QED
      BY <2>4, <3>1 DEF MayStep, Allowed
  <2> QED
    BY <1>1, <1>2, <2>2, <2>3, <2>4, PublishAnswered, ZenonT(60)
<1> QED
  BY <1>1, <1>3, <1>4, <1>5, ZenonT(60)

\* The volume is given up where nothing is mounted.
LEMMA RemovedAnswered ==
    ASSUME VInv, NEW h \in Handler, NEW t0, t0 = call[h].target, call[h].pc \in UnpublishStep,
           Answer(h, "removed"), UNCHANGED <<mounts, status, faults>>, ~Mounted(t0)
    PROVE  \A t \in Volumes : MayStep(t)
<1>1. OthersKept(t0)
  BY ZenonT(60) DEF OthersKept, Kept
<1>2. ASSUME faults[t0] = {}, kubelet[t0] = "unpublishing", kubelet'[t0] = "removed"
      PROVE  MayStep(t0)
  <2>1. View(t0) = "none"
    BY <1>2, ViewNow, ZenonT(60)
  <2>2. View(t0)' = "gone"
    BY <1>2 DEF View
  <2> QED
    BY <1>2, <2>1, <2>2, ZenonT(60) DEF MayStep, Allowed
<1> QED
  BY <1>1, <1>2, UnpublishAnswered

LEMMA LeavingAnswered ==
    ASSUME VInv, NEW h \in Handler, NEW t0, t0 = call[h].target, call[h].pc \in UnpublishStep,
           Answer(h, "leaving"), UNCHANGED <<mounts, status, faults>>
    PROVE  \A t \in Volumes : MayStep(t)
<1>1. OthersKept(t0) /\ Kept(t0)
  BY DEF OthersKept, Kept
<1>2. ASSUME kubelet[t0] = "unpublishing", kubelet'[t0] = "leaving"
      PROVE  MayStep(t0)
  <2>1. View(t0)' = View(t0)
    BY <1>1, <1>2, KeptView, ZenonT(60)
  <2> QED
    BY <1>2, <2>1 DEF MayStep, Allowed
<1> QED
  BY <1>1, <1>2, UnpublishAnswered

LEMMA CleanupMountPointStep ==
    ASSUME VInv, NEW h \in Handler, NEW t0, t0 = call[h].target, CleanupMountPoint(h)
    PROVE  \A t \in Volumes : MayStep(t)
<1>0. TypeOK /\ t0 \in Target
  BY TargetTyped
<1>1. /\ call[h].pc = "cleanup" /\ UNCHANGED <<status, faults>>
      /\ \/ ~dir[t0] /\ Answer(h, "removed") /\ UNCHANGED mounts
         \/ UNCHANGED <<mounts, kubelet>>
         \/ PopMount(t0) /\ UNCHANGED kubelet
         \/ Answer(h, "leaving") /\ UNCHANGED mounts
  BY DEF CleanupMountPoint
<1>2. call[h].pc \in UnpublishStep /\ Busy(h) /\ call[h].pc \notin PublishStep
  BY <1>1, ZenonT(60) DEF UnpublishStep, PublishStep, Busy
<1>3. CASE ~dir[t0] /\ Answer(h, "removed") /\ UNCHANGED mounts
  <2>1. ~Mounted(t0)
    BY <1>0, <1>3 DEF VInv, NothingWithoutDir
  <2> QED
    BY <1>1, <1>2, <1>3, <2>1, RemovedAnswered, ZenonT(60)
<1>4. CASE UNCHANGED <<mounts, kubelet>>
  BY <1>1, <1>4, NothingSeen, ZenonT(60)
<1>5. CASE PopMount(t0) /\ UNCHANGED kubelet
  <2>1. /\ Len(mounts[t0]) <= 1 => mounts'[t0] = << >>
        /\ \A t \in Target \ {t0} : mounts'[t] = mounts[t]
    BY <1>0, <1>5, PopFrame, ZenonT(60)
  <2>2. OthersKept(t0)
    BY <1>1, <2>1, ZenonT(60) DEF OthersKept, Kept
  <2>3. ASSUME t0 \in Volumes, faults[t0] = {}, kubelet[t0] = "unpublishing"
        PROVE  MayStep(t0)
    <3>1. AllOrNothing(t0) /\ Mounted(t0)
      BY <1>1, <1>2, <1>5, <2>3, Followed, ZenonT(60) DEF PopMount
    <3>2. Whole(t0)
      BY <3>1 DEF AllOrNothing
    <3>3. Len(mounts[t0]) <= 1
      BY <3>2, OneLayer, ZenonT(60) DEF Whole
    <3>4. ~Mounted(t0)' /\ faults'[t0] = {} /\ kubelet'[t0] = "unpublishing"
      BY <1>1, <1>5, <2>1, <2>3, <3>3 DEF Mounted
    <3>5. View(t0) = "whole"
      BY <2>3, <3>1, <3>2, ViewNow, ZenonT(60)
    <3>6. View(t0)' = "none"
      BY <3>4, ViewNext
    <3> QED
      BY <2>3, <3>4, <3>5, <3>6, ZenonT(60) DEF MayStep, Allowed
  <2> QED
    BY <1>1, <1>2, <1>5, <2>2, <2>3, GotoStep, ZenonT(60)
<1>6. CASE Answer(h, "leaving") /\ UNCHANGED mounts
  BY <1>1, <1>2, <1>6, LeavingAnswered, ZenonT(60)
<1> QED
  BY <1>1, <1>3, <1>4, <1>5, <1>6, ZenonT(60)

LEMMA RemoveTargetStep ==
    ASSUME VInv, NEW h \in Handler, NEW t0, t0 = call[h].target, RemoveTarget(h)
    PROVE  \A t \in Volumes : MayStep(t)
<1>1. /\ call[h].pc = "remove" /\ UNCHANGED <<mounts, status, faults>>
      /\ (~Mounted(t0) /\ Answer(h, "removed")) \/ Answer(h, "leaving")
  BY DEF RemoveTarget
<1>2. call[h].pc \in UnpublishStep
  BY <1>1 DEF UnpublishStep
<1> QED
  BY <1>1, <1>2, RemovedAnswered, LeavingAnswered, ZenonT(60)

\* Kubelet's own steps: it sends a call, or gives up waiting for one.
LEMMA PublishSent ==
    ASSUME VInv, NEW h \in Handler, NEW t0 \in Target, NodePublishVolume(h, t0)
    PROVE  \A t \in Volumes : MayStep(t)
<1>0. kubelet \in [Target -> KubeletState]
  BY DEF VInv, IInv, TypeOK
<1>1. /\ kubelet[t0] \in {"new", "failed", "published"} /\ UNCHANGED <<mounts, status, faults>>
      /\ \A t \in Target \ {t0} : kubelet'[t] = kubelet[t]
      /\ Request[t0] # "invalid" => kubelet'[t0] = "publishing"
  BY <1>0, ZenonT(30) DEF NodePublishVolume
<1>2. \A t : Kept(t)
  BY <1>1, ZenonT(60) DEF Kept
<1>3. ASSUME t0 \in Volumes PROVE MayStep(t0)
  <2>1. kubelet'[t0] = "publishing"
    BY <1>1, <1>3 DEF Volumes
  <2>2. View(t0)' = View(t0)
    BY <1>1, <1>2, <2>1, KeptView, ZenonT(60)
  <2> QED
    BY <1>1, <2>1, <2>2, ZenonT(60) DEF MayStep, Allowed
<1>4. \A t \in Volumes : t # t0 => kubelet'[t] = kubelet[t]
  BY <1>1, ZenonT(60) DEF Volumes
<1> QED
  BY <1>2, <1>3, <1>4, Untouched, ZenonT(60)

LEMMA UnpublishSent ==
    ASSUME VInv, NEW h \in Handler, NEW t0 \in Target, NodeUnpublishVolume(h, t0)
    PROVE  \A t \in Volumes : MayStep(t)
<1>0. kubelet \in [Target -> KubeletState]
  BY DEF VInv, IInv, TypeOK
<1>1. /\ kubelet[t0] \in {"failed", "published", "leaving"} /\ UNCHANGED <<mounts, status, faults>>
      /\ \A t \in Target \ {t0} : kubelet'[t] = kubelet[t]
      /\ Request[t0] = "volume" => kubelet'[t0] = "unpublishing"
  BY <1>0, ZenonT(30) DEF NodeUnpublishVolume
<1>2. \A t : Kept(t)
  BY <1>1, ZenonT(60) DEF Kept
<1>3. ASSUME t0 \in Volumes PROVE MayStep(t0)
  <2>1. kubelet'[t0] = "unpublishing"
    BY <1>1, <1>3, ZenonT(60) DEF Volumes
  <2>2. View(t0)' = View(t0)
    BY <1>1, <1>2, <2>1, KeptView, ZenonT(60)
  <2> QED
    BY <1>1, <2>1, <2>2, ZenonT(60) DEF MayStep, Allowed
<1>4. \A t \in Volumes : t # t0 => kubelet'[t] = kubelet[t]
  BY <1>1, ZenonT(60) DEF Volumes
<1> QED
  BY <1>2, <1>3, <1>4, Untouched

LEMMA TimeoutStep ==
    ASSUME VInv, NEW h \in Handler, NEW t0 \in Target, t0 = call[h].target, Timeout(h)
    PROVE  \A t \in Volumes : MayStep(t)
<1>0. TypeOK
  BY DEF VInv, IInv
<1>1. /\ UNCHANGED <<mounts, status>>
      /\ \A t \in Target \ {t0} : kubelet'[t] = kubelet[t] /\ faults'[t] = faults[t]
  BY <1>0 DEF Timeout, TypeOK
<1>2. kubelet[t0] \in {"publishing", "unpublishing"}
  BY DEF Timeout, VInv, Awaited, AwaitedAsKnown
<1>3. /\ kubelet'[t0] = IF kubelet[t0] = "publishing" THEN "failed" ELSE "leaving"
      /\ faults'[t0] # {}
  BY <1>0, ZenonT(60) DEF Timeout, TypeOK
<1>4. View(t0)' = "suspect"
  BY <1>2, <1>3, ViewNext, ZenonT(60)
<1>5. MayStep(t0)
  BY <1>2, <1>3, <1>4, ZenonT(60) DEF MayStep, Allowed
<1>6. \A t \in Volumes : t # t0 => Kept(t) /\ kubelet'[t] = kubelet[t]
  BY <1>1 DEF Kept, Volumes
<1> QED
  BY <1>5, <1>6, Untouched

LEMMA CrashStep ==
    ASSUME VInv, Crash
    PROVE  \A t \in Volumes : MayStep(t)
<1> SUFFICES ASSUME NEW t \in Target PROVE MayStep(t)
  BY DEF Volumes
<1>1. /\ kubelet'[t] = CASE kubelet[t] = "publishing" -> "failed"
                          [] kubelet[t] = "unpublishing" -> "leaving"
                          [] OTHER -> kubelet[t]
      /\ faults'[t] = IF Serving(t) = {} THEN faults[t] ELSE faults[t] \cup {"crash"}
      /\ UNCHANGED <<mounts, status>>
  BY DEF Crash
<1>2. CASE Serving(t) = {} /\ faults[t] = {}
  <2>1. kubelet[t] \notin {"publishing", "unpublishing"}
    BY <1>2 DEF VInv, IInv, OneCall, IsServed, Serving, Busy
  <2>2. Kept(t) /\ kubelet'[t] = kubelet[t]
    BY <1>1, <1>2, <2>1 DEF Kept
  <2> QED
    BY <2>2, Untouched
<1>3. CASE Serving(t) # {} \/ faults[t] # {}
  <2>1. faults'[t] # {}
    BY <1>1, <1>3, ZenonT(60)
  <2>2. CASE kubelet[t] = "removed"
    <3>1. kubelet'[t] = "removed"
      BY <1>1, <2>2
    <3>2. View(t) = "gone" /\ View(t)' = "gone"
      BY <2>2, <3>1, ZenonT(60) DEF View
    <3> QED
      BY <2>2, <3>1, <3>2, ZenonT(60) DEF MayStep, Allowed
  <2>3. CASE kubelet[t] # "removed"
    <3>1. /\ kubelet'[t] # "removed"
          /\ \/ kubelet'[t] = kubelet[t]
             \/ kubelet[t] = "publishing" /\ kubelet'[t] = "failed"
             \/ kubelet[t] = "unpublishing" /\ kubelet'[t] = "leaving"
      BY <1>1, <2>3, ZenonT(60)
    <3>2. View(t)' = "suspect"
      BY <2>1, <3>1, ViewNext
    <3> QED
      BY <2>3, <3>1, <3>2, ZenonT(60) DEF MayStep, Allowed
  <2> QED
    BY <2>2, <2>3
<1> QED
  BY <1>2, <1>3

LEMMA NextMayStep == VInv /\ Next => \A t \in Volumes : MayStep(t)
<1> SUFFICES ASSUME VInv, Next PROVE \A t \in Volumes : MayStep(t)
  OBVIOUS
<1>1. ASSUME NEW h \in Handler, HandlerStep(h) PROVE \A t \in Volumes : MayStep(t)
  <2>1. PICK t0 : t0 = call[h].target
    OBVIOUS
  <2> QED
    BY <1>1, <2>1, EnsureMountPointStep, UnmountStaleStep, LookupClassStep, MountTmpfsStep,
       ProviderWriteStep, ProviderReturnStep, CreateStatusStep, UndoMountStep,
       CleanupMountPointStep, RemoveTargetStep, ZenonT(60) DEF HandlerStep
<1>2. ASSUME NEW h \in Handler, Timeout(h) PROVE \A t \in Volumes : MayStep(t)
  <2>1. PICK t0 \in Target : t0 = call[h].target
    BY DEF VInv, IInv, TypeOK, Call
  <2> QED
    BY <1>2, <2>1, TimeoutStep
<1>3. ASSUME NEW t0 \in Target, MountGoesStale(t0) PROVE \A t \in Volumes : MayStep(t)
  <2>1. UNCHANGED <<kubelet, faults, mounts, status>>
    BY <1>3 DEF MountGoesStale
  <2> QED
    BY <2>1, NothingSeen
<1> QED
  BY <1>1, <1>2, <1>3, PublishSent, UnpublishSent, CrashStep, ZenonT(60) DEF Next

-----------------------------------------------------------------------------
(* The refinement.                                                         *)

LEMMA InitVInv == Init => VInv
<1> SUFFICES ASSUME Init PROVE VInv
  OBVIOUS
<1>1. IInv
  BY InitIInv
<1>2. NothingWithoutDir
  BY DEF Init, NothingWithoutDir, Mounted
<1>3. \A h \in Handler : call[h] = Idle /\ ~call[h].waiting
  BY IdleType DEF Init
<1> QED
  BY <1>1, <1>2, <1>3 DEF VInv, Awaited, AwaitedAsKnown, OneAwaited

LEMMA NextVInv == VInv /\ [Next]_vars => VInv'
BY NextIInv, NextNothingWithoutDir, NextAwaited DEF VInv, IInv

\* Every behaviour of NodeServer, on any number of targets with any number of
\* concurrent handlers, errors, timeouts and crashes, is one that PodVolume
\* allows: the promise on which kubelet and the reconciler rely.
THEOREM NodeServerKeepsContract == Spec => KeepsContract
<1>1. Init => Contract!Init
  <2> SUFFICES ASSUME Init PROVE Contract!Init
    OBVIOUS
  <2>1. \A t \in Volumes : kubelet[t] = "new" /\ ContentOf(t) = "none"
    BY DEF Init, Volumes, ContentOf, Mounted
  <2> QED
    BY <2>1 DEF Contract!Init
<1>2. VInv /\ VInv' /\ Next => Contract!Next
  <2> SUFFICES ASSUME VInv, VInv', Next PROVE Contract!Next
    OBVIOUS
  <2>1. ContentIsView
    BY ViewIsEnough
  <2>2. ContentIsView'
    BY ViewIsEnough, PTL
  <2>3. TypeOK'
    BY ZenonT(60) DEF VInv, IInv
  <2> QED
    BY <2>1, <2>2, <2>3, NextMayStep, AllowedIsContract, ZenonT(60)
<1>3. UNCHANGED vars => UNCHANGED Contract!vars
  BY DEF vars, Contract!vars, ContentOf, Mounted, Whole, Volumes
<1> QED
  BY <1>1, <1>2, <1>3, InitVInv, NextVInv, PTL DEF Spec, KeepsContract, Contract!Spec

=============================================================================
