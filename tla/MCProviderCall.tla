--------------------------- MODULE MCProviderCall ---------------------------
(* Instances of ProviderCall for TLC.                                      *)
EXTENDS ProviderCall, TLC

CONSTANTS azure, vault, o1, o2, p1, p2, m1

\* The second pod has the name of the first.
OneName == (p1 :> m1) @@ (p2 :> m1)

\* vs times "v", then 0.minor.patch and perhaps a pre-release tag.
V(vs, minor, patch, pre) ==
    [vs |-> vs, parses |-> TRUE,
     semver |-> [major |-> 0, minor |-> minor, patch |-> patch, pre |-> pre]]
Garbage == [V(0, 0, 0, 0) EXCEPT !.parses = FALSE]

AtLeast(p, v) == [wellFormed |-> TRUE, provider |-> p, version |-> v]

Entries ==
    {AtLeast(azure, V(0, 0, 4, 0)), AtLeast(azure, V(0, 0, 5, 1)), AtLeast(azure, V(1, 0, 4, 0)),
     AtLeast(azure, Garbage),
     AtLeast(vault, V(0, 1, 0, 0)), [AtLeast(vault, V(0, 1, 0, 0)) EXCEPT !.wellFormed = FALSE]}

Installed(v) == [kind |-> "runs", version |-> v]

Binaries ==
    {Installed(v) : v \in {V(0, 0, 4, 0), V(1, 0, 4, 0), V(2, 0, 4, 0), V(0, 0, 4, 1),
                           V(0, 1, 0, 0), Garbage}}
        \cup {[kind |-> k, version |-> Garbage] : k \in {"missing", "broken"}}
=============================================================================
