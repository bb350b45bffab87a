--------------------------- MODULE NodeServerLive ---------------------------
(***************************************************************************)
(* What NodeServer gets done once faults and errors have come to an end.   *)
(***************************************************************************)
EXTENDS NodeServer

\* The call ends in an error, or turns to undoing its mount.
EndsInError(h) ==
    \/ call'[h].pc = "undo"
    \/ call'[h].pc = "idle" /\ call[h].waiting
           /\ kubelet'[call[h].target] \in {"failed", "leaving"}

\* In this step of the call the mount library, the provider or the API server
\* fails where it could have done what it was asked for.
Trouble(h) ==
    LET t == call[h].target
        pc == call[h].pc IN
    \/ pc \in {"ensure", "lookup", "status"} /\ EndsInError(h)
    \/ pc = "cleanup" /\ Mounted(t) /\ EndsInError(h)
    \/ pc = "mount" /\ dir[t] /\ EndsInError(h)
    \/ pc = "provider" /\ dir[t] /\ t \notin stale /\ EndsInError(h)
    \/ pc = "unmountStale" /\ Mounted(t) /\ call'[h].pc = "undo"
    \/ pc = "undo" /\ Mounted(t) /\ UNCHANGED mounts

Step(h) == HandlerStep(h) /\ ~Trouble(h)

\* A step without fault or trouble.
Smooth ==
    \/ \E h \in Handler, t \in Target : NodePublishVolume(h, t) \/ NodeUnpublishVolume(h, t)
    \/ \E h \in Handler : Step(h)

\* Faults and trouble end some time, as they may in every state; handlers keep
\* running and kubelet keeps retrying.
Fairness ==
    /\ <>[][Smooth]_vars
    /\ \A h \in Handler : WF_vars(Step(h))
    /\ \A t \in Target :
           /\ WF_vars(kubelet[t] = "failed" /\ \E h \in Handler : NodePublishVolume(h, t))
           /\ WF_vars(kubelet[t] = "leaving" /\ \E h \in Handler : NodeUnpublishVolume(h, t))

FairSpec == Spec /\ Fairness

-----------------------------------------------------------------------------

\* Kubelet's retries of a failed publish succeed at last, unless the pod is
\* taken down first: a stale mount, one left by a crash or one left by a call
\* that overlapped never blocks the target for good.
PublishRecovers ==
    \A t \in Target :
        Request[t] = "volume" /\ kubelet[t] = "failed"
            ~> kubelet[t] \in {"published", "unpublishing"}

\* Kubelet's retries of a failed unpublish succeed at last, also where two
\* overlapping publishes stacked two mounts, unless something was written to
\* the directory beneath them, which os.Remove then refuses to delete.
TeardownEnds ==
    \A t \in Target :
        Request[t] = "volume" /\ kubelet[t] = "leaving"
            ~> kubelet[t] = "removed" \/ disk[t] # {}
=============================================================================
