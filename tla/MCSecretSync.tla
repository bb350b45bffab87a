---------------------------- MODULE MCSecretSync ----------------------------
(* Instances of SecretSync and SecretSyncLive for TLC.                     *)
EXTENDS SecretSyncLive, TLC

CONSTANTS n1, n2, p1, p2, m1, m2, o1, o2, k1, k2, t1, t2

\* A pod on each of two nodes.
TwoNodes == (p1 :> n1) @@ (p2 :> n2)
OneNode == (p1 :> n1) @@ (p2 :> n1)
TwoNames == (p1 :> m1) @@ (p2 :> m2)

\* The second pod has the name of the first.
OneName == (p1 :> m1) @@ (p2 :> m1)
OnePodNode == (p1 :> n1)
OnePodName == (p1 :> m1)

Part(o, t) == [object |-> o, key |-> t, usable |-> TRUE]
Valid(k, data) == [secret |-> k, data |-> data, valid |-> TRUE]
Invalid(k) == [secret |-> k, data |-> {}, valid |-> FALSE]

OneSecret == {<<Valid(k1, {Part(o1, t1)})>>}

\* An entry that cannot be synced before one that can.
SkipInvalid == {<<Invalid(k2), Valid(k1, {Part(o1, t1)})>>}

\* Classes that differ from what is mounted: one with an object that only some
\* volumes have and with entries without objectName or key, one whose second
\* Secret cannot be made, and one without secretObjects.
Classes ==
    {<<Invalid(k2), Valid(k1, {Part(o1, t1), Part(o2, t2), Part(None, t2), Part(o1, None)})>>,
     <<Valid(k1, {Part(o2, t2)}), Valid(k2, {[Part(o1, t1) EXCEPT !.usable = FALSE]})>>,
     << >>}
=============================================================================
