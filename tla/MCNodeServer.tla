---------------------------- MODULE MCNodeServer ----------------------------
(* Instances of NodeServer for TLC.                                        *)
EXTENDS NodeServerLive, NodeServerVolume, TLC

CONSTANTS t1, t2, h1, h2, o1, o2

\* One pod volume.
OneVolume == (t1 :> "volume")

\* A pod volume beside a request that is refused.
VolumeInvalid == (t1 :> "volume") @@ (t2 :> "invalid")
=============================================================================
