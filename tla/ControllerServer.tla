-------------------------- MODULE ControllerServer --------------------------
(***************************************************************************)
(* The CSI controller service (pkg/secrets-store/controllerserver.go):     *)
(* CreateVolume looks a volume up by name and stores it again in two       *)
(* critical sections of one mutex, with an atomic counter in between, so   *)
(* concurrent calls interleave there.  DeleteVolume changes nothing, and   *)
(* ValidateVolumeCapabilities only looks a volume up by its id.  Requests  *)
(* that fail validation change nothing and are left out.                   *)
(***************************************************************************)
EXTENDS Naturals

CONSTANTS
    Caller,     \* goroutines serving CreateVolume
    Name,       \* volume names
    Fold,       \* Fold[n]: the name n in lower case
    Capacity,   \* required capacities
    MaxCounter  \* bound on the ids handed out

ASSUME NameNonempty == Name # {}
ASSUME CapacityNonempty == Capacity # {}
ASSUME FoldType == Fold \in [Name -> Name]
ASSUME MaxCounterType == MaxCounter \in Nat

VARIABLES
    vols,       \* the map cs.vols, as the set of its values: one per name
    counter,    \* the package variable counter
    pc,         \* pc[c]: where CreateVolume is in call c
    vol,        \* vol[c]: the volume call c is about to store
    created,    \* history: the volumes that calls returned
    overlap     \* history: the names that two calls have asked for at a time

vars == <<vols, counter, pc, vol, created, overlap>>

\* The id "%s-%d" of a volume is the pair of its name and number: no decimal
\* holds a "-", so the last one tells the two apart.
Volume == [name : Name, number : Nat, capacity : Capacity]

\* strings.EqualFold on two ids.
EqualFoldId(v, w) == Fold[v.name] = Fold[w.name] /\ v.number = w.number

\* What vol[c] holds between calls: numbers start at 1.
NoVolume == CHOOSE v \in [name : Name, number : {0}, capacity : Capacity] : TRUE

\* The state is well typed; in particular vols is a map and has one volume for a
\* name.
TypeOK ==
    /\ vols \subseteq Volume
    /\ \A v, w \in vols : v.name = w.name => v = w
    /\ counter \in Nat
    /\ pc \in [Caller -> {"idle", "allocate", "add"}]
    /\ vol \in [Caller -> Volume]
    /\ created \subseteq Volume
    /\ overlap \subseteq Name

Init ==
    /\ vols = {}
    /\ counter = 0
    /\ pc = [c \in Caller |-> "idle"]
    /\ vol = [c \in Caller |-> NoVolume]
    /\ created = {}
    /\ overlap = {}

InProgress(c, n) == pc[c] # "idle" /\ vol[c].name = n

NoteOverlap(c, n) ==
    overlap' = IF \E d \in Caller \ {c} : InProgress(d, n) THEN overlap \cup {n} ELSE overlap

FindVolumeByName(n) == {v \in vols : v.name = n}

FindVolumeByID(w) == {v \in vols : EqualFoldId(w, v)}

\* What a request with the id of w and some capabilities is answered.
ValidateVolumeCapabilities(w) == IF FindVolumeByID(w) # {} THEN "OK" ELSE "NotFound"

\* Mutant: the capacity of the existing volume is not compared.
FindForCreateUnchecked(c, n, k) ==
    /\ pc[c] = "idle"
    /\ LET found == FindVolumeByName(n) IN
         IF found = {}
         THEN /\ pc' = [pc EXCEPT ![c] = "allocate"]
              /\ vol' = [vol EXCEPT ![c] = [name |-> n, number |-> 0, capacity |-> k]]
         ELSE /\ pc' = [pc EXCEPT ![c] = "add"]
              /\ \E v \in found : vol' = [vol EXCEPT ![c] = [v EXCEPT !.capacity = k]]
    /\ NoteOverlap(c, n)
    /\ UNCHANGED <<vols, counter, created>>

\* CreateVolume up to the end of its first critical section and the check of
\* what it found: a volume of that name with another capacity is an error.
FindForCreate(c, n, k) ==
    /\ pc[c] = "idle"
    /\ LET found == FindVolumeByName(n) IN
         \/ /\ found = {}
            /\ pc' = [pc EXCEPT ![c] = "allocate"]
            /\ vol' = [vol EXCEPT ![c] = [name |-> n, number |-> 0, capacity |-> k]]
         \/ \E v \in found :
               /\ v.capacity = k
               /\ pc' = [pc EXCEPT ![c] = "add"]
               /\ vol' = [vol EXCEPT ![c] = v]
    /\ NoteOverlap(c, n)
    /\ UNCHANGED <<vols, counter, created>>

\* atomic.AddUint64(&counter, 1).
AllocateID(c) ==
    /\ pc[c] = "allocate"
    /\ counter < MaxCounter
    /\ counter' = counter + 1
    /\ vol' = [vol EXCEPT ![c].number = counter + 1]
    /\ pc' = [pc EXCEPT ![c] = "add"]
    /\ UNCHANGED <<vols, created, overlap>>

\* Mutant: the volume is returned and not stored.
AddVolumeForgotten(c) ==
    /\ pc[c] = "add"
    /\ created' = created \cup {vol[c]}
    /\ pc' = [pc EXCEPT ![c] = "idle"]
    /\ vol' = [vol EXCEPT ![c] = NoVolume]
    /\ UNCHANGED <<vols, counter, overlap>>

\* Mutant: the volume is added beside another one of its name.
AddVolumeBeside(c) ==
    /\ pc[c] = "add"
    /\ vols' = vols \cup {vol[c]}
    /\ created' = created \cup {vol[c]}
    /\ pc' = [pc EXCEPT ![c] = "idle"]
    /\ vol' = [vol EXCEPT ![c] = NoVolume]
    /\ UNCHANGED <<counter, overlap>>

\* The second critical section: the map entry is overwritten; then the answer.
AddVolume(c) ==
    /\ pc[c] = "add"
    /\ vols' = (vols \ FindVolumeByName(vol[c].name)) \cup {vol[c]}
    /\ created' = created \cup {vol[c]}
    /\ pc' = [pc EXCEPT ![c] = "idle"]
    /\ vol' = [vol EXCEPT ![c] = NoVolume]
    /\ UNCHANGED <<counter, overlap>>

Next ==
    \E c \in Caller :
        \/ \E n \in Name, k \in Capacity : FindForCreate(c, n, k)
        \/ AllocateID(c)
        \/ AddVolume(c)

Spec == Init /\ [][Next]_vars

-----------------------------------------------------------------------------

\* In one life of the process an id is never handed out for two different
\* volumes, however CreateVolume calls overlap: two answers whose ids are equal,
\* even only up to case as findVolumeByID compares them, describe the same
\* volume.  So findVolumeByID, which takes the first match of a range over a Go
\* map, has one possible answer although the order of the range is random.
IdIdentifiesVolume == \A v, w \in created : EqualFoldId(v, w) => v = w

\* CreateVolume is idempotent for every name whose calls do not overlap,
\* whatever calls for other names do: all answers are the volume that was created
\* first (so all have one capacity), and its id stays known to
\* ValidateVolumeCapabilities.
CreateIsIdempotent ==
    \A v \in created : v.name \notin overlap =>
        /\ \A w \in created : w.name = v.name => w = v
        /\ FindVolumeByID(v) = {v} /\ ValidateVolumeCapabilities(v) = "OK"
=============================================================================
