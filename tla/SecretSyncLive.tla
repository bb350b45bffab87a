--------------------------- MODULE SecretSyncLive ---------------------------
(***************************************************************************)
(* What SecretSync gets done when failures, restarts and changes by users  *)
(* come to an end.                                                         *)
(***************************************************************************)
EXTENDS SecretSync

\* The work queue is fair to every name; watches, timers, kubelet and the
\* garbage collector get round to what they have to do.  Disturbances end: from
\* some point on every step is one of the system.
Fairness ==
    /\ <>[][System]_vars
    /\ \A n \in Node :
         /\ WF_vars(Worker(n))
         /\ \A m \in StatusName : /\ SF_vars(Reconcile(n, m))
                                  /\ WF_vars(SeeStatus(n, m))
                                  /\ WF_vars(DelayEnds(n, m))
                                  /\ WF_vars(Resync(n, m))
         /\ \A k \in Secret : WF_vars(SeeSecret(n, k))
    /\ \A p \in Pod :
         /\ WF_vars(CreatePodStatus(p)) /\ WF_vars(UnmountVolume(p)) /\ WF_vars(RemovePod(p))
    /\ \A m \in StatusName : WF_vars(CollectStatus(m))
    /\ \A k \in Secret : WF_vars(CollectSecret(k))

FairSpec == Spec /\ Fairness

-----------------------------------------------------------------------------

\* The entries of a class whose Secrets a pod is to own: the valid ones before
\* the first that may make Reconcile give up.
Due(c) ==
    LET givesUp(h) == c[h].valid /\ \E e \in c[h].data : ~e.usable
    IN {j \in DOMAIN c : c[j].valid /\ \A h \in 1..j : ~givesUp(h)}

Owns(p, k) == secret[k] # None /\ p \in secret[k].refs

Established(p) == pod[p] = "running" /\ Live(p)

\* While a pod runs and has its status, each of its Secrets comes to exist with
\* the pod's owner reference, again and again: after lost races for the patch,
\* after a user deleted the Secret or stripped it, after a restart.
SecretsGetOwned ==
    \A p \in Pod, c \in Class : \A i \in Due(c) :
        Established(p) /\ class = c ~> Owns(p, c[i].secret) \/ ~Established(p) \/ class # c

-----------------------------------------------------------------------------
(* What a comment and a test say and the code does not do.                 *)

\* secretproviderclasspodstatus_controller.go:213: "requeue the spc pod status again
\* after 5mins to check if secret and ownerRef exists and haven't been modified":
\* a Secret of a running pod whose data was modified has the keys of the pod's
\* volume again some time later.
EditedDataIsRestored ==
    \A p \in Pod, c \in Class : \A i \in Due(c) :
        Established(p) /\ class = c
            ~> \/ /\ Owns(p, c[i].secret)
                  /\ KeysOf(Found(c[i].data, vol[p])) \subseteq secret[c[i].secret].keys
               \/ ~Established(p) \/ class # c

\* test/bats/vault.bats:194: "delete deployment, check secret is deleted".
SecretGoesWithPods ==
    \A k \in Secret : (\A p \in Pod : pod[p] = "gone") ~> secret[k] = None

\* utils.go:173: "the mapping between secret provider class pod status and pod
\* is 1 to 1".
RunningPodHasStatus ==
    \A p \in Pod : pod[p] = "running" ~> Live(p) \/ pod[p] # "running"
=============================================================================
