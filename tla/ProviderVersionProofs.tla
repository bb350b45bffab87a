----------------------- MODULE ProviderVersionProofs -----------------------
(***************************************************************************)
(* What the functions of pkg/version compute, for flags of any length and  *)
(* all versions.  A loop over a sequence is a recursive function here, so  *)
(* its results take induction; the induction is over a set of numbers.     *)
(***************************************************************************)
EXTENDS ProviderVersion, WellFoundedInduction, TLAPS

\* A set of numbers that is not empty has a least one.
LEMMA LeastNumber ==
    ASSUME NEW T, T \subseteq Nat, T # {}
    PROVE  \E n \in T : \A m \in T : n <= m
<1>1. \E n \in T : \A m \in T : ~(<<m, n>> \in OpToRel(<, Nat))
  BY WFMin, NatLessThanWellFounded, Zenon
<1>2. PICK n \in T : \A m \in T : ~(<<m, n>> \in OpToRel(<, Nat))
  BY <1>1, Zenon
<1>3. \A m \in T : ~(m < n)
  BY <1>2, Zenon DEF OpToRel
<1> QED
  BY <1>3

LEMMA SetInduction ==
    ASSUME NEW P, 0 \in P, \A n \in Nat : n \in P => n + 1 \in P
    PROVE  Nat \subseteq P
<1> DEFINE T == Nat \ P
<1> SUFFICES ASSUME T # {} PROVE FALSE
  OBVIOUS
<1>1. PICK n \in T : \A m \in T : n <= m
  BY LeastNumber, ZenonT(60)
<1>2. n \in Nat /\ n # 0 /\ n - 1 \in Nat /\ n - 1 \notin T
  BY <1>1
<1>3. (n - 1) + 1 = n
  BY <1>2
<1> QED
  BY <1>1, <1>2, <1>3

-----------------------------------------------------------------------------

\* The state of the loop in GetMinimumProviderVersions after n rounds.
Round(entries, f, n) ==
    IF n = 0 THEN [err |-> FALSE, min |-> << >>] ELSE AddMinimum(f[n - 1], entries[n])

After(entries) == CHOOSE f : f = [n \in 0..Len(entries) |-> Round(entries, f, n)]

\* The loop runs to its end, whatever the entries are.
LEMMA AfterIsDefined ==
    ASSUME NEW E, NEW entries \in Seq(E)
    PROVE  After(entries) = [n \in 0..Len(entries) |-> Round(entries, After(entries), n)]
<1> DEFINE Upto(n) == \E f : f = [m \in 0..n |-> Round(entries, f, m)]
           P == {n \in Nat : Upto(n)}
<1>1. 0 \in P
  <2> DEFINE f == [m \in 0..0 |-> [err |-> FALSE, min |-> << >>]]
  <2>1. f = [m \in 0..0 |-> Round(entries, f, m)]
    BY DEF Round
  <2> QED
    BY <2>1, ZenonT(60)
<1>2. ASSUME NEW n \in Nat, n \in P PROVE n + 1 \in P
  <2>1. PICK f : f = [m \in 0..n |-> Round(entries, f, m)]
    BY <1>2
  <2> DEFINE g == [m \in 0..(n + 1) |-> IF m = n + 1 THEN Round(entries, f, m) ELSE f[m]]
  <2>2. /\ \A m \in 0..n : g[m] = f[m] /\ f[m] = Round(entries, f, m)
        /\ g[n + 1] = Round(entries, f, n + 1)
    <3>1. \A m \in 0..n : f[m] = Round(entries, f, m)
      BY <2>1, Zenon
    <3>2. \A m \in 0..n : m \in 0..(n + 1) /\ m # n + 1
      OBVIOUS
    <3>3. n + 1 \in 0..(n + 1)
      OBVIOUS
    <3> QED
      BY <3>1, <3>2, <3>3, Zenon
  <2> HIDE DEF g
  <2>3. \A m \in 0..(n + 1) : m # 0 => g[m - 1] = f[m - 1]
    BY <2>2
  <2>4. \A m \in 0..(n + 1) : Round(entries, g, m) = Round(entries, f, m)
    BY <2>3 DEF Round
  <2>5. \A m \in 0..(n + 1) : g[m] = Round(entries, g, m)
    BY <2>2, <2>4
  <2>6. g = [m \in 0..(n + 1) |-> Round(entries, g, m)]
    BY <2>5 DEF g
  <2> QED
    BY <2>6
<1>3. Len(entries) \in P
  <2>1. Nat \subseteq P
    <3> HIDE DEF P
    <3> QED
      BY <1>1, <1>2, SetInduction
  <2> QED
    BY <2>1
<1>4. \E f : f = [m \in 0..Len(entries) |-> Round(entries, f, m)]
  BY <1>3
<1> QED
  BY <1>4, Zenon DEF After

LEMMA LoopRounds ==
    ASSUME NEW E, NEW entries \in Seq(E)
    PROVE  /\ GetMinimumProviderVersions(entries) = After(entries)[Len(entries)]
           /\ After(entries)[0] = [err |-> FALSE, min |-> << >>]
           /\ \A n \in 1..Len(entries) :
                After(entries)[n] = AddMinimum(After(entries)[n - 1], entries[n])
<1>1. GetMinimumProviderVersions(entries) = After(entries)[Len(entries)]
  BY Zenon DEF GetMinimumProviderVersions, After, Round
<1>2. \A n \in 0..Len(entries) : After(entries)[n] = Round(entries, After(entries), n)
  BY AfterIsDefined
<1> QED
  BY <1>1, <1>2 DEF Round

\* The first n entries can be obeyed: each is well formed and has a semantic
\* version, and no provider has two.
Obeyable(entries, n) ==
    /\ \A i \in 1..n : entries[i].wellFormed /\ isValidSemver(entries[i].version)
    /\ \A i, j \in 1..n : entries[i].provider = entries[j].provider => i = j

\* The loop has either refused the first n entries or kept what they say.
Parsed(entries, n, acc) ==
    /\ acc = [err |-> acc.err, min |-> acc.min]
    /\ acc.err \in BOOLEAN
    /\ acc.err <=> ~Obeyable(entries, n)
    /\ ~acc.err => /\ DOMAIN acc.min = {entries[i].provider : i \in 1..n}
                   /\ \A i \in 1..n : acc.min[entries[i].provider] = entries[i].version

\* One round of the loop.
LEMMA OneMoreEntry ==
    ASSUME NEW entries, NEW n \in Nat, NEW acc, Parsed(entries, n, acc)
    PROVE  Parsed(entries, n + 1, AddMinimum(acc, entries[n + 1]))
<1> DEFINE e == entries[n + 1]
           next == AddMinimum(acc, e)
           bad == \/ acc.err
                  \/ ~e.wellFormed
                  \/ e.provider \in DOMAIN acc.min
                  \/ ~isValidSemver(e.version)
<1>0. /\ n + 1 \in 1..(n + 1) /\ \A i \in 1..n : i \in 1..(n + 1) /\ i # n + 1
      /\ \A i \in 1..(n + 1) : i \in 1..n \/ i = n + 1
  OBVIOUS
<1>1. CASE bad
  <2>1. next = [acc EXCEPT !.err = TRUE]
    BY <1>1, Zenon DEF AddMinimum
  <2>2. acc = [err |-> acc.err, min |-> acc.min]
    BY DEF Parsed
  <2>3. next = [err |-> TRUE, min |-> acc.min]
    BY <2>1, <2>2, ZenonT(60)
  <2>4. ~Obeyable(entries, n + 1)
    <3>1. CASE acc.err
      <4>1. ~Obeyable(entries, n)
        BY <3>1, Zenon DEF Parsed
      <4> QED
        BY <1>0, <4>1, Zenon DEF Obeyable
    <3>2. CASE ~e.wellFormed \/ ~isValidSemver(e.version)
      BY <1>0, <3>2, Zenon DEF Obeyable
    <3>3. CASE ~acc.err /\ e.provider \in DOMAIN acc.min
      <4>1. PICK i \in 1..n : entries[i].provider = e.provider
        BY <3>3, ZenonT(60) DEF Parsed
      <4> QED
        BY <1>0, <4>1, Zenon DEF Obeyable
    <3> QED
      BY <1>1, <3>1, <3>2, <3>3, Zenon
  <2> HIDE DEF next
  <2>5. next.err = TRUE /\ next.min = acc.min
    BY <2>3
  <2> QED
    BY <2>3, <2>4, <2>5 DEF Parsed, next
<1>2. CASE ~bad
  <2>1. next = [err |-> FALSE, min |-> [p \in DOMAIN acc.min \cup {e.provider} |->
                                           IF p = e.provider THEN e.version ELSE acc.min[p]]]
    BY <1>2, Zenon DEF AddMinimum
  <2>2. /\ Obeyable(entries, n)
        /\ DOMAIN acc.min = {entries[i].provider : i \in 1..n}
        /\ \A i \in 1..n : acc.min[entries[i].provider] = entries[i].version
    BY <1>2, Zenon DEF Parsed
  <2>3. \A i \in 1..n : entries[i].provider \in DOMAIN acc.min /\ entries[i].provider # e.provider
    BY <1>2, <2>2, Zenon
  <2>4. Obeyable(entries, n + 1)
    <3>1. \A i \in 1..(n + 1) : entries[i].wellFormed /\ isValidSemver(entries[i].version)
      BY <1>0, <1>2, <2>2, Zenon DEF Obeyable
    <3>2. ASSUME NEW i \in 1..(n + 1), NEW j \in 1..(n + 1), entries[i].provider = entries[j].provider
          PROVE  i = j
      BY <1>0, <2>2, <2>3, <3>2, Zenon DEF Obeyable
    <3> QED
      BY <3>1, <3>2, Zenon DEF Obeyable
  <2> HIDE DEF next
  <2>5. /\ next = [err |-> next.err, min |-> next.min] /\ next.err = FALSE
        /\ next.min = [p \in DOMAIN acc.min \cup {e.provider} |->
                          IF p = e.provider THEN e.version ELSE acc.min[p]]
    BY <2>1, Zenon
  <2>6. DOMAIN next.min = {entries[i].provider : i \in 1..(n + 1)}
    <3>1. DOMAIN next.min = DOMAIN acc.min \cup {e.provider}
      BY <2>5, Zenon
    <3> QED
      BY <1>0, <2>2, <3>1, ZenonT(60)
  <2>7. \A i \in 1..(n + 1) : next.min[entries[i].provider] = entries[i].version
    <3>1. next.min[e.provider] = e.version
      BY <2>5, Zenon
    <3>2. \A i \in 1..n : next.min[entries[i].provider] = acc.min[entries[i].provider]
      BY <2>3, <2>5, Zenon
    <3> QED
      BY <1>0, <2>2, <3>1, <3>2, Zenon
  <2> QED
    BY <2>4, <2>5, <2>6, <2>7, Zenon DEF Parsed, next
<1> QED
  BY <1>1, <1>2, Zenon

\* GetMinimumProviderVersions refuses a flag of any length exactly when one of its
\* entries is malformed or no semantic version, or a provider has two; otherwise
\* its map has the version of every entry, and no other.
THEOREM FlagIsKeptOrRefused ==
    ASSUME NEW E, NEW entries \in Seq(E)
    PROVE  Parsed(entries, Len(entries), GetMinimumProviderVersions(entries))
<1> DEFINE f == After(entries)
           P == {n \in Nat : n <= Len(entries) => Parsed(entries, n, f[n])}
<1>0. Len(entries) \in Nat
  OBVIOUS
<1>1. 0 \in P
  <2>1. f[0] = [err |-> FALSE, min |-> << >>] /\ 1..0 = {} /\ DOMAIN << >> = {}
    BY LoopRounds
  <2> HIDE DEF f
  <2>2. /\ f[0] = [err |-> f[0].err, min |-> f[0].min]
        /\ f[0].err = FALSE /\ DOMAIN f[0].min = {}
    BY <2>1
  <2>3. Parsed(entries, 0, f[0])
    BY <2>1, <2>2, Zenon DEF Parsed, Obeyable
  <2> QED
    BY <2>3
<1>2. ASSUME NEW n \in Nat, n \in P PROVE n + 1 \in P
  <2> SUFFICES ASSUME n + 1 <= Len(entries) PROVE Parsed(entries, n + 1, f[n + 1])
    OBVIOUS
  <2>1. n <= Len(entries) /\ n + 1 \in 1..Len(entries) /\ (n + 1) - 1 = n
    BY <1>0
  <2>2. f[n + 1] = AddMinimum(f[n], entries[n + 1])
    BY <2>1, LoopRounds
  <2>3. Parsed(entries, n, f[n])
    BY <1>2, <2>1
  <2> QED
    BY <2>2, <2>3, OneMoreEntry, Zenon
<1>3. Nat \subseteq P
  <2> HIDE DEF P
  <2> QED
    BY <1>1, <1>2, SetInduction
<1>4. Parsed(entries, Len(entries), f[Len(entries)])
  BY <1>0, <1>3
<1> QED
  BY <1>4, LoopRounds

-----------------------------------------------------------------------------

\* The order that isProviderCompatible compares with is a strict total order on
\* versions, pre-releases included: of two versions one is older, or they are equal.
LEMMA VersionsAreOrdered ==
    /\ \A s \in Semver : ~Before(s, s)
    /\ \A s, t, u \in Semver : Before(s, t) /\ Before(t, u) => Before(s, u)
    /\ \A s, t \in Semver : s = t \/ Before(s, t) \/ Before(t, s)
<1>1. \A s \in Semver : /\ s.major \in Nat /\ s.minor \in Nat /\ s.patch \in Nat /\ s.pre \in Nat
                        /\ s = [major |-> s.major, minor |-> s.minor, patch |-> s.patch, pre |-> s.pre]
  BY DEF Semver
<1>2. ASSUME NEW s \in Semver PROVE ~Before(s, s)
  <2>1. s.major \in Nat /\ s.minor \in Nat /\ s.patch \in Nat /\ s.pre \in Nat
    BY <1>1
  <2> QED
    BY <2>1 DEF Before, PreBefore
<1>3. \A s, t, u \in Semver : Before(s, t) /\ Before(t, u) => Before(s, u)
  BY <1>1 DEF Before, PreBefore
<1>4. ASSUME NEW s \in Semver, NEW t \in Semver, ~Before(s, t), ~Before(t, s) PROVE s = t
  <2>1. s.major = t.major /\ s.minor = t.minor /\ s.patch = t.patch /\ s.pre = t.pre
    BY <1>1, <1>4 DEF Before, PreBefore
  <2> QED
    BY <1>1, <2>1
<1> QED
  BY <1>2, <1>3, <1>4

\* What IsProviderCompatible tells of a binary, for a minimum that the flag may
\* hold: it errs on an answer that is no version, with one "v" allowed, and else
\* compares.
THEOREM VerdictMeans ==
    ASSUME NEW curr \in Text, NEW min \in Text, isValidSemver(min)
    PROVE  LET verdict == IsProviderCompatible(curr, min)
               version == curr.parses /\ curr.vs < 2
           IN /\ verdict = "compatible" <=> version /\ ~Before(curr.semver, min.semver)
              /\ verdict = "too old" <=> version /\ Before(curr.semver, min.semver)
              /\ verdict = "error" <=> ~version
<1> DEFINE c == normalizeVersion(curr)
           m == normalizeVersion(min)
<1>1. /\ c.vs = (IF curr.vs = 0 THEN 0 ELSE curr.vs - 1)
      /\ c.parses = curr.parses /\ c.semver = curr.semver
      /\ m.vs = 0 /\ m.parses /\ m.semver = min.semver
  BY DEF normalizeVersion, Text, isValidSemver
<1>2. curr.vs \in Nat
  BY DEF Text
<1>3. isValidSemver(c) <=> curr.parses /\ curr.vs < 2
  BY <1>1, <1>2 DEF isValidSemver
<1>4. isValidSemver(m)
  BY <1>1 DEF isValidSemver
<1>5. IsProviderCompatible(curr, min) =
          IF ~isValidSemver(c) THEN "error"
          ELSE IF Before(curr.semver, min.semver) THEN "too old" ELSE "compatible"
  BY <1>1, <1>4, Zenon DEF IsProviderCompatible, isProviderCompatible
<1> QED
  BY <1>3, <1>5, ZenonT(60)

\* A provider that may be used stays usable when its binary is upgraded, and when
\* the minimum is lowered.
THEOREM UpgradeStaysCompatible ==
    ASSUME NEW curr \in Text, NEW newer \in Text, NEW min \in Text, NEW lower \in Text,
           isValidSemver(min), isValidSemver(lower),
           IsProviderCompatible(curr, min) = "compatible",
           newer.parses, newer.vs < 2,
           ~Before(newer.semver, curr.semver), ~Before(min.semver, lower.semver)
    PROVE  IsProviderCompatible(newer, lower) = "compatible"
<1>1. /\ curr.semver \in Semver /\ newer.semver \in Semver
      /\ min.semver \in Semver /\ lower.semver \in Semver
  BY DEF Text
<1>2. ~Before(curr.semver, min.semver)
  BY VerdictMeans, ZenonT(60)
<1>3. ASSUME NEW s \in Semver, NEW t \in Semver, NEW u \in Semver, ~Before(s, t), ~Before(t, u)
      PROVE  ~Before(s, u)
  BY <1>3, VersionsAreOrdered, Zenon
<1>4. ~Before(newer.semver, lower.semver)
  BY <1>1, <1>2, <1>3, Zenon
<1> QED
  BY <1>4, VerdictMeans, ZenonT(60)
=============================================================================
