-------------------------- MODULE NodeServerVolume --------------------------
(***************************************************************************)
(* NodeServer keeps the promise of PodVolume for the volumes of pods.      *)
(***************************************************************************)
EXTENDS NodeServer

Volumes == {t \in Target : Request[t] = "volume"}

\* What PodVolume sees of the target directory and of the pod status.
ContentOf(t) ==
    IF kubelet[t] = "removed" /\ ~dir[t] /\ ~Mounted(t) /\ disk[t] = {} THEN "gone"
    ELSE IF faults[t] # {} THEN "suspect"
    ELSE IF ~Mounted(t) /\ disk[t] = {} THEN "none"
    ELSE IF Whole(t) /\ disk[t] = {} THEN "whole"
    ELSE "partial"

Contract == INSTANCE PodVolume WITH
    Volume <- Volumes,
    phase <- [t \in Volumes |-> kubelet[t]],
    content <- [t \in Volumes |-> ContentOf(t)]

\* NodePublishVolume and NodeUnpublishVolume, with all their interleavings,
\* errors and faults, do to a volume only what PodVolume allows: a publish
\* succeeds with the whole volume and fails with all or nothing of it, what
\* was whole is never seen in part, and the volume is given up only when
\* nothing is left of it, whatever happened before.
KeepsContract == Contract!Spec
=============================================================================
