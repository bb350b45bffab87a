----------------------------- MODULE PodVolume -----------------------------
(***************************************************************************)
(* What the node service promises about the volumes of pods, to kubelet    *)
(* that calls it and to the reconciler that reads what is mounted.  The    *)
(* volumes are independent of each other; one step of the node (a crash)   *)
(* may be a step of several of them.                                       *)
(***************************************************************************)

CONSTANT Volume

VARIABLES
    phase,      \* phase[v]: what kubelet knows of the volume
    content     \* content[v]: what is on the node

vars == <<phase, content>>

\* "partial" is a mount that is not filled or not recorded yet.  "suspect" is
\* a volume that a fault has hit: a timeout, a crash, an Unmount that failed.
\* "gone" has no mount, no directory and no way back.
Content == {"none", "partial", "whole", "suspect", "gone"}

Phase == {"new", "publishing", "published", "failed", "unpublishing", "leaving", "removed"}

Init ==
    /\ phase = [v \in Volume |-> "new"]
    /\ content = [v \in Volume |-> "none"]

To(v, p, c) == phase'[v] = p /\ content'[v] = c

Publish(v) ==
    /\ phase[v] \in {"new", "failed", "published"}
    /\ To(v, "publishing", content[v])

\* A publish makes the volume step by step: it mounts only where nothing is
\* mounted, and what is whole is never seen in part again.
Progress(v) ==
    /\ phase[v] = "publishing"
    /\ \/ content[v] = "none" /\ To(v, phase[v], "partial")
       \/ content[v] = "partial" /\ To(v, phase[v], "whole")

PublishSucceeds(v) ==
    /\ phase[v] = "publishing"
    /\ \/ content[v] \in {"partial", "whole"} /\ To(v, "published", "whole")
       \/ content[v] = "suspect" /\ To(v, "published", content[v])

\* All or nothing, again unless the volume is suspect.
PublishFails(v) ==
    /\ phase[v] = "publishing"
    /\ \/ content[v] \in {"none", "whole"} /\ To(v, "failed", content[v])
       \/ content[v] \in {"partial", "whole"} /\ To(v, "failed", "none")
       \/ content[v] = "suspect" /\ To(v, "failed", content[v])

Unpublish(v) ==
    /\ phase[v] \in {"failed", "published", "leaving"}
    /\ To(v, "unpublishing", content[v])

Unmount(v) ==
    /\ phase[v] = "unpublishing"
    /\ content[v] = "whole" /\ To(v, phase[v], "none")

UnpublishFails(v) ==
    /\ phase[v] = "unpublishing"
    /\ To(v, "leaving", content[v])

\* Whatever happened to the volume before.
UnpublishSucceeds(v) ==
    /\ phase[v] = "unpublishing"
    /\ content[v] \in {"none", "suspect"}
    /\ To(v, "removed", "gone")

\* A fault may end the call that kubelet waits for.
Fault(v) ==
    /\ phase[v] # "removed"
    /\ content'[v] = "suspect"
    /\ \/ phase'[v] = phase[v]
       \/ phase[v] = "publishing" /\ phase'[v] = "failed"
       \/ phase[v] = "unpublishing" /\ phase'[v] = "leaving"

Step(v) ==
    \/ Publish(v) \/ Progress(v) \/ PublishSucceeds(v) \/ PublishFails(v)
    \/ Unpublish(v) \/ Unmount(v) \/ UnpublishFails(v) \/ UnpublishSucceeds(v)
    \/ Fault(v)

Next ==
    /\ phase' \in [Volume -> Phase] /\ content' \in [Volume -> Content]
    /\ \A v \in Volume : Step(v) \/ To(v, phase[v], content[v])

Spec == Init /\ [][Next]_vars
=============================================================================
