-------------------------- MODULE ProviderVersion --------------------------
(***************************************************************************)
(* Minimum provider versions (pkg/version/version.go): the flag            *)
(* --min-provider-version, and the check of a provider binary against it.  *)
(*                                                                         *)
(* The text of a version is abstracted to what the code tells apart: its   *)
(* leading "v"s, whether the rest is a semantic version, and that version. *)
(***************************************************************************)
EXTENDS Naturals, Sequences

\* pre is the rank of the pre-release tag, 0 without one.
Semver == [major : Nat, minor : Nat, patch : Nat, pre : Nat]

Text == [vs : Nat, parses : BOOLEAN, semver : Semver]

\* semver.Version.Compare: a pre-release comes before its release.
PreBefore(a, b) == a # 0 /\ (b = 0 \/ a < b)

Before(s, t) ==
    \/ s.major < t.major
    \/ s.major = t.major /\ s.minor < t.minor
    \/ s.major = t.major /\ s.minor = t.minor /\ s.patch < t.patch
    \/ s.major = t.major /\ s.minor = t.minor /\ s.patch = t.patch /\ PreBefore(s.pre, t.pre)

\* semver.Make takes no leading "v".
isValidSemver(t) == t.vs = 0 /\ t.parses

\* strings.TrimPrefix removes one "v".
normalizeVersion(t) == [t EXCEPT !.vs = IF @ = 0 THEN 0 ELSE @ - 1]

isProviderCompatible(curr, min) ==
    IF ~isValidSemver(curr) \/ ~isValidSemver(min)
    THEN "error"
    ELSE IF Before(curr.semver, min.semver) THEN "too old" ELSE "compatible"

\* curr is what the binary answers to --version.
IsProviderCompatible(curr, min) ==
    isProviderCompatible(normalizeVersion(curr), normalizeVersion(min))

\* Mutant: the version in the flag is not looked at.
AddMinimumUnchecked(acc, e) ==
    IF acc.err \/ ~e.wellFormed \/ e.provider \in DOMAIN acc.min
    THEN [acc EXCEPT !.err = TRUE]
    ELSE [err |-> FALSE, min |-> [p \in DOMAIN acc.min \cup {e.provider} |->
                                     IF p = e.provider THEN e.version ELSE acc.min[p]]]

\* One round of the loop below.  wellFormed says that an entry has one "=" with
\* something on either side.  The first bad entry ends the loop.
AddMinimum(acc, e) ==
    IF \/ acc.err
       \/ ~e.wellFormed
       \/ e.provider \in DOMAIN acc.min
       \/ ~isValidSemver(e.version)
    THEN [acc EXCEPT !.err = TRUE]
    ELSE [err |-> FALSE, min |-> [p \in DOMAIN acc.min \cup {e.provider} |->
                                     IF p = e.provider THEN e.version ELSE acc.min[p]]]

\* The flag is split at "," into entries; after[n] is what the first n make.
GetMinimumProviderVersions(entries) ==
    LET after[n \in 0..Len(entries)] ==
            IF n = 0 THEN [err |-> FALSE, min |-> << >>]
                     ELSE AddMinimum(after[n - 1], entries[n])
    IN after[Len(entries)]
=============================================================================
