----------------------- MODULE ControllerServerProofs -----------------------
(***************************************************************************)
(* Volume ids are unique, and CreateVolume is idempotent where its calls   *)
(* do not overlap, for any number of callers, names and capacities.        *)
(***************************************************************************)
EXTENDS ControllerServer, TLAPS

\* The volumes that have their number: answered, stored, or about to be.
Known == vols \cup created \cup {vol[c] : c \in {d \in Caller : pc[d] = "add"}}

\* The inductive strengthening: the numbers of all known volumes have been
\* counted, and each belongs to one volume.
NumbersAreUnique ==
    /\ \A v \in Known : v.number \in 1..counter
    /\ \A v, w \in Known : v.number = w.number => v = w

IInv == TypeOK /\ NumbersAreUnique

LEMMA NoVolumeType == NoVolume \in Volume
<1>1. PICK n \in Name, k \in Capacity : TRUE
  BY NameNonempty, CapacityNonempty
<1>2. [name |-> n, number |-> 0, capacity |-> k] \in [name : Name, number : {0}, capacity : Capacity]
  OBVIOUS
<1>3. NoVolume \in [name : Name, number : {0}, capacity : Capacity]
  BY <1>2, ZenonT(60) DEF NoVolume
<1> QED
  BY <1>3 DEF Volume

LEMMA InitIInv == Init => IInv
<1> SUFFICES ASSUME Init PROVE IInv
  OBVIOUS
<1>1. TypeOK
  BY NoVolumeType DEF Init, TypeOK
<1>2. Known = {}
  BY DEF Init, Known
<1> QED
  BY <1>1, <1>2 DEF IInv, NumbersAreUnique

LEMMA NextIInv == IInv /\ [Next]_vars => IInv'
<1> SUFFICES ASSUME IInv, [Next]_vars PROVE IInv'
  OBVIOUS
<1> USE DEF IInv
<1>1. ASSUME NEW c \in Caller, NEW n \in Name, NEW k \in Capacity, FindForCreate(c, n, k)
      PROVE IInv'
  <2>1. vol'[c] \in Volume /\ vol' = [vol EXCEPT ![c] = vol'[c]]
    BY <1>1 DEF FindForCreate, TypeOK, FindVolumeByName, Volume
  <2>2. pc'[c] \in {"allocate", "add"} /\ pc' = [pc EXCEPT ![c] = pc'[c]]
    BY <1>1 DEF FindForCreate, TypeOK
  <2>3. TypeOK'
    BY <1>1, <2>1, <2>2 DEF FindForCreate, TypeOK, NoteOverlap
  <2>4. pc'[c] = "add" => vol'[c] \in vols
    BY <1>1 DEF FindForCreate, TypeOK, FindVolumeByName
  <2>5. Known' \subseteq Known
    BY <1>1, <2>1, <2>2, <2>4 DEF Known, FindForCreate, TypeOK
  <2> QED
    BY <1>1, <2>3, <2>5 DEF NumbersAreUnique, FindForCreate
<1>2. ASSUME NEW c \in Caller, AllocateID(c) PROVE IInv'
  <2>1. vol'[c] \in Volume /\ vol'[c].number = counter + 1
    BY <1>2 DEF AllocateID, TypeOK, Volume
  <2>2. TypeOK'
    BY <1>2 DEF AllocateID, TypeOK, Volume
  <2>3. Known' = Known \cup {vol'[c]}
    BY <1>2 DEF AllocateID, TypeOK, Known
  <2>4. counter \in Nat /\ counter' = counter + 1
    BY <1>2 DEF AllocateID, TypeOK
  <2>5. \A v \in Known : v.number \in 1..counter
    BY DEF NumbersAreUnique
  <2>6. \A v \in Known' : v.number \in 1..counter'
    BY <2>1, <2>3, <2>4, <2>5
  <2>7. \A v \in Known : v.number # vol'[c].number
    BY <2>1, <2>4, <2>5
  <2>8. \A v, w \in Known' : v.number = w.number => v = w
    BY <2>3, <2>7 DEF NumbersAreUnique
  <2> QED
    BY <2>2, <2>6, <2>8 DEF NumbersAreUnique
<1>3. ASSUME NEW c \in Caller, AddVolume(c) PROVE IInv'
  <2>1. TypeOK'
    BY <1>3, NoVolumeType DEF AddVolume, TypeOK, FindVolumeByName
  <2>2. Known' \subseteq Known
    BY <1>3 DEF AddVolume, TypeOK, Known, FindVolumeByName
  <2> QED
    BY <1>3, <2>1, <2>2 DEF NumbersAreUnique, AddVolume
<1>4. ASSUME UNCHANGED vars PROVE IInv'
  BY <1>4 DEF vars, TypeOK, NumbersAreUnique, Known
<1> QED
  BY <1>1, <1>2, <1>3, <1>4 DEF Next

\* The state of the controller service is well typed: its map of volumes is a
\* map, however many CreateVolume calls overlap.
THEOREM TypeCorrect == Spec => []TypeOK
<1>1. IInv => TypeOK
  BY DEF IInv
<1> QED
  BY <1>1, InitIInv, NextIInv, PTL DEF Spec

\* CreateVolume never answers with one id for two different volumes: the number
\* in an id comes from an atomic increment, and a stored volume is only ever
\* stored again as it is.
THEOREM IdsAreUnique == Spec => []IdIdentifiesVolume
<1>1. IInv => IdIdentifiesVolume
  BY DEF IInv, NumbersAreUnique, Known, IdIdentifiesVolume, EqualFoldId
<1> QED
  BY <1>1, InitIInv, NextIInv, PTL DEF Spec

-----------------------------------------------------------------------------
(* Idempotence.                                                            *)

\* What holds for a name whose calls never overlapped: there is one call for it
\* at most, what was answered is stored, and the call is about to allocate where
\* nothing is stored, or to store what is stored already.
Sequential(n) ==
    /\ \A c, d \in Caller : InProgress(c, n) /\ InProgress(d, n) => c = d
    /\ \A v \in created : v.name = n => v \in vols
    /\ \A c \in Caller : InProgress(c, n) =>
         \A v \in vols : v.name = n => pc[c] = "add" /\ v = vol[c]

AllSequential == \A n \in Name \ overlap : Sequential(n)

LEMMA NextSequential == IInv /\ AllSequential /\ [Next]_vars => AllSequential'
<1> SUFFICES ASSUME IInv, AllSequential, [Next]_vars, NEW m \in Name, m \notin overlap'
             PROVE  Sequential(m)'
  BY DEF AllSequential
<1>0. TypeOK /\ (m \notin overlap => Sequential(m))
  BY DEF IInv, AllSequential
<1>1. ASSUME NEW c \in Caller, NEW n \in Name, NEW k \in Capacity, FindForCreate(c, n, k)
      PROVE Sequential(m)'
  <2>1. m \notin overlap
    BY <1>1 DEF FindForCreate, NoteOverlap
  <2>2. UNCHANGED <<vols, created>> /\ pc[c] = "idle"
    BY <1>1 DEF FindForCreate
  <2>3. \A d \in Caller \ {c} : pc'[d] = pc[d] /\ vol'[d] = vol[d]
    BY <1>1 DEF FindForCreate, TypeOK, IInv
  <2>4. vol'[c].name = n
    BY <1>0, <1>1 DEF FindForCreate, FindVolumeByName, TypeOK
  <2>5. \A d \in Caller \ {c} : InProgress(d, m)' <=> InProgress(d, m)
    BY <2>3 DEF InProgress
  <2>6. CASE m # n
    <3>1. ~InProgress(c, m)'
      BY <2>4, <2>6 DEF InProgress
    <3> QED
      BY <1>0, <2>1, <2>2, <2>3, <2>5, <3>1 DEF Sequential
  <2>7. CASE m = n
    <3>1. \A d \in Caller \ {c} : ~InProgress(d, m)
      BY <1>1, <2>1, <2>7 DEF FindForCreate, NoteOverlap
    <3>2. \A v \in vols : v.name = m => pc'[c] = "add" /\ v = vol'[c]
      BY <1>0, <1>1, <2>7 DEF FindForCreate, FindVolumeByName, TypeOK
    <3> QED
      BY <1>0, <2>1, <2>2, <2>5, <3>1, <3>2 DEF Sequential
  <2> QED
    BY <2>6, <2>7
<1>2. ASSUME NEW c \in Caller, AllocateID(c) PROVE Sequential(m)'
  <2>1. UNCHANGED <<vols, created, overlap>> /\ pc[c] = "allocate" /\ pc'[c] = "add"
    BY <1>0, <1>2 DEF AllocateID, TypeOK
  <2>2. \A d \in Caller \ {c} : pc'[d] = pc[d] /\ vol'[d] = vol[d]
    BY <1>0, <1>2 DEF AllocateID, TypeOK
  <2>3. vol'[c].name = vol[c].name
    BY <1>0, <1>2 DEF AllocateID, TypeOK, Volume
  <2>4. \A d \in Caller : InProgress(d, m)' <=> InProgress(d, m)
    BY <2>1, <2>2, <2>3 DEF InProgress
  <2>5. InProgress(c, m) => \A v \in vols : v.name # m
    BY <1>0, <2>1 DEF Sequential
  <2> QED
    BY <1>0, <2>1, <2>2, <2>4, <2>5 DEF Sequential
<1>3. ASSUME NEW c \in Caller, AddVolume(c) PROVE Sequential(m)'
  <2>1. UNCHANGED overlap /\ pc[c] = "add" /\ pc'[c] = "idle"
    BY <1>0, <1>3 DEF AddVolume, TypeOK
  <2>2. \A d \in Caller \ {c} : pc'[d] = pc[d] /\ vol'[d] = vol[d]
    BY <1>0, <1>3 DEF AddVolume, TypeOK
  <2>3. /\ vols' = {v \in vols : v.name # vol[c].name} \cup {vol[c]}
        /\ created' = created \cup {vol[c]}
    BY <1>3 DEF AddVolume, FindVolumeByName
  <2>4. ~InProgress(c, m)' /\ \A d \in Caller \ {c} : InProgress(d, m)' <=> InProgress(d, m)
    BY <2>1, <2>2 DEF InProgress
  <2>5. Sequential(m)
    BY <1>0, <2>1
  <2>6. CASE vol[c].name # m
    BY <2>2, <2>3, <2>4, <2>5, <2>6 DEF Sequential
  <2>7. CASE vol[c].name = m
    <3>1. InProgress(c, m)
      BY <2>1, <2>7 DEF InProgress
    <3>2. \A d \in Caller : ~InProgress(d, m)'
      BY <2>4, <2>5, <3>1 DEF Sequential
    <3>3. \A v \in vols : v.name = m => v = vol[c]
      BY <2>5, <3>1 DEF Sequential
    <3>4. \A v \in created' : v.name = m => v \in vols'
      BY <2>3, <2>5, <3>3 DEF Sequential
    <3> QED
      BY <3>2, <3>4 DEF Sequential
  <2> QED
    BY <2>6, <2>7
<1>4. ASSUME UNCHANGED vars PROVE Sequential(m)'
  BY <1>0, <1>4 DEF vars, Sequential, InProgress
<1> QED
  BY <1>1, <1>2, <1>3, <1>4 DEF Next

\* CreateVolume is idempotent for every name whose calls do not overlap: equal
\* calls get equal answers, and the id that was answered can be looked up.
THEOREM CreateStaysIdempotent == Spec => []CreateIsIdempotent
<1>1. Init => AllSequential
  BY DEF Init, AllSequential, Sequential, InProgress
<1>2. IInv /\ AllSequential => CreateIsIdempotent
  <2> SUFFICES ASSUME IInv, AllSequential, NEW v \in created, v.name \notin overlap
               PROVE  /\ \A w \in created : w.name = v.name => w = v
                      /\ FindVolumeByID(v) = {v}
    BY DEF CreateIsIdempotent, ValidateVolumeCapabilities
  <2>1. Sequential(v.name)
    BY DEF AllSequential, IInv, TypeOK, Volume
  <2>2. \A w \in created : w.name = v.name => w \in vols
    BY <2>1 DEF Sequential
  <2>3. \A w \in vols : w.name = v.name => w = v
    BY <2>2 DEF IInv, TypeOK
  <2>4. \A w \in vols : EqualFoldId(v, w) => w = v
    BY DEF IInv, NumbersAreUnique, Known, EqualFoldId
  <2>5. FindVolumeByID(v) = {v}
    BY <2>2, <2>4 DEF FindVolumeByID, EqualFoldId
  <2> QED
    BY <2>2, <2>3, <2>5
<1> QED
  BY <1>1, <1>2, InitIInv, NextIInv, NextSequential, PTL DEF Spec
=============================================================================
