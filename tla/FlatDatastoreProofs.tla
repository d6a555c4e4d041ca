------------------------- MODULE FlatDatastoreProofs -------------------------
(***************************************************************************)
(* Theorems about FlatDatastore, for every set of processes, objects and   *)
(* props and every number of crashes and failures.                         *)
(***************************************************************************)
EXTENDS FlatDatastore, TLAPS

-----------------------------------------------------------------------------
(* Lemmas about storage maps.                                              *)

\* The map of a new datastore is a storage map without IDs.
LEMMA EmptyMapType == EmptyMap \in StorageMaps /\ Ids(EmptyMap) = {}
  BY DEF EmptyMap, StorageMaps, Entries, Absent, Ids, Linkages

\* What an interrupted transfer of the index leaves is a storage map.
LEMMA PartType ==
  ASSUME NEW map \in StorageMaps, NEW ids
  PROVE  Part(map, ids) \in StorageMaps
  BY DEF Part, StorageMaps, Entries

\* An entry that is not Absent is a StorageInfo.
LEMMA EntryOfId ==
  ASSUME NEW map \in StorageMaps, NEW o \in Ids(map)
  PROVE  /\ o \in Objects
         /\ map[o] \in [linkage : Linkages, ready : SUBSET Props]
  BY DEF Ids, StorageMaps, Entries, Absent, Linkages

\* Marking a prop of a listed object as initialized keeps the map a storage
\* map, its IDs, and every linkage.
LEMMA MarkReady ==
  ASSUME NEW map \in StorageMaps, NEW o \in Ids(map), NEW q \in Props
  PROVE  /\ Mark(map, o, q) \in StorageMaps
         /\ Ids(Mark(map, o, q)) = Ids(map)
         /\ \A x \in Objects : Mark(map, o, q)[x].linkage = map[x].linkage
         /\ Mark(map, o, q)[o].ready = map[o].ready \cup {q}
         /\ \A x \in Objects \ {o} : Mark(map, o, q)[x] = map[x]
  <1> DEFINE entry == [linkage |-> map[o].linkage, ready |-> map[o].ready \cup {q}]
  <1>1. /\ o \in Objects
        /\ map[o] \in [linkage : Linkages, ready : SUBSET Props]
    BY EntryOfId
  <1>2. [map[o] EXCEPT !.ready = map[o].ready \cup {q}] = entry
    BY <1>1
  <1>3. Mark(map, o, q) = [map EXCEPT ![o] = entry]
    BY <1>1, <1>2 DEF StorageMaps, Mark
  <1>4. /\ Mark(map, o, q)[o] = entry
        /\ \A x \in Objects \ {o} : Mark(map, o, q)[x] = map[x]
        /\ Mark(map, o, q) \in StorageMaps
    BY <1>1, <1>3 DEF StorageMaps, Entries
  <1> QED BY <1>1, <1>4 DEF Ids

-----------------------------------------------------------------------------
(* Type correctness.                                                       *)

LEMMA TypeInit == Init => TypeOK
  <1> SUFFICES ASSUME Init PROVE TypeOK
    OBVIOUS
  <1>1. damaged \in BOOLEAN
    BY Zenon DEF Init
  <1>2. /\ stubs \subseteq Linkages
        /\ indexState \in {"absent", "torn", "whole"}
        /\ crashes \in 0..MaxCrashes
        /\ faults \in 0..MaxFaults
    BY BoundsAssumption DEF Init
  <1> QED BY EmptyMapType, <1>1, <1>2 DEF Init, TypeOK

\* What ReleaseStream does to the map of its process; it needs the StorageInfo
\* pointer to be live, since marking an absent entry would make no StorageInfo.
LEMMA ReleaseMarks ==
  ASSUME TypeOK, PropPointerLive, NEW p \in Procs, ReleaseStream(p)
  PROVE  LET s == stream[p] IN
         /\ s \in Streams
         /\ s.object \in Ids(storage[p])
         /\ s.linkage = storage[p][s.object].linkage
         /\ storage' \in [Procs -> StorageMaps]
         /\ \A u \in Procs \ {p} : storage'[u] = storage[u]
         /\ Ids(storage'[p]) = Ids(storage[p])
         /\ \A o \in Objects : storage'[p][o].linkage = storage[p][o].linkage
         /\ storage'[p][s.object].ready = storage[p][s.object].ready \cup {s.prop}
         /\ \A o \in Objects \ {s.object} : storage'[p][o] = storage[p][o]
  <1> DEFINE s == stream[p]
             map == Mark(storage[p], s.object, s.prop)
  <1>1. s \in Streams
    BY DEF TypeOK, ReleaseStream, Unlocked
  <1>2. s.prop \in Props
    BY <1>1 DEF Streams
  <1>3. s.object \in Ids(storage[p]) /\ s.linkage = storage[p][s.object].linkage
    BY DEF PropPointerLive, ReleaseStream
  <1>4. storage[p] \in StorageMaps
    BY DEF TypeOK
  <1>5. /\ map \in StorageMaps
        /\ Ids(map) = Ids(storage[p])
        /\ \A x \in Objects : map[x].linkage = storage[p][x].linkage
        /\ map[s.object].ready = storage[p][s.object].ready \cup {s.prop}
        /\ \A x \in Objects \ {s.object} : map[x] = storage[p][x]
    BY <1>2, <1>3, <1>4, MarkReady
  <1>6. storage' = [storage EXCEPT ![p] = map]
    BY DEF ReleaseStream
  <1>7. /\ storage'[p] = map
        /\ storage' \in [Procs -> StorageMaps]
        /\ \A u \in Procs \ {p} : storage'[u] = storage[u]
    BY <1>5, <1>6 DEF TypeOK
  <1> QED BY <1>1, <1>3, <1>5, <1>7

\* One step of one process keeps the types.
LEMMA TypeStep ==
  ASSUME TypeOK, PropPointerLive, NEW p \in Procs, Step(p)
  PROVE  TypeOK'
  <1> USE DEF TypeOK, indexFile, propFiles, history, GoTo, Fault, NoFault, Unlock
  <1>1. CASE \E create \in CreateArgs : OpenStart(p, create)
    BY <1>1 DEF OpenStart
  <1>2. CASE CreateStub(p)
    <2>1. pc[p] \in {"resident", "orphan"} /\ Linkages = {"resident", "orphan"}
      BY <1>2 DEF CreateStub, Linkages
    <2>2. stubs' \subseteq Linkages /\ faults' \in 0..MaxFaults
      BY <1>2, BoundsAssumption DEF CreateStub
    <2>3. pc' \in [Procs -> {"idle", "resident", "orphan", "lock", "index", "write"}]
      BY <1>2, <2>1 DEF CreateStub
    <2> QED BY <1>2, <2>2, <2>3 DEF CreateStub
  <1>3. CASE AcquireLock(p)
    BY <1>3 DEF AcquireLock
  <1>4. CASE LockFails(p)
    BY <1>4, BoundsAssumption DEF LockFails
  <1>5. CASE ReadIndex(p)
    BY <1>5 DEF ReadIndex
  <1>6. CASE ReadIndexFails(p)
    <2>1. storage' \in [Procs -> StorageMaps]
      <3>1. \A ids : Part(index, ids) \in StorageMaps
        BY PartType
      <3> QED BY <1>6, <3>1 DEF ReadIndexFails
    <2>2. faults' \in 0..MaxFaults
      BY <1>6, BoundsAssumption DEF ReadIndexFails
    <2>3. damaged' \in BOOLEAN
      BY <1>6, Zenon DEF ReadIndexFails
    <2> QED BY <1>6, <2>1, <2>2, <2>3 DEF ReadIndexFails
  <1>7. CASE TruncateIndex(p)
    BY <1>7, EmptyMapType DEF TruncateIndex
  <1>8. CASE WriteIndex(p)
    <2>1. index' \in StorageMaps
      <3>1. \A ids : Part(storage[p], ids) \in StorageMaps
        BY PartType
      <3> QED BY <1>8, <3>1 DEF WriteIndex
    <2>2. faults' \in 0..MaxFaults
      BY <1>8, BoundsAssumption DEF WriteIndex
    <2>3. damaged' \in BOOLEAN
      BY <1>8, Zenon DEF WriteIndex
    <2> QED BY <1>8, <2>1, <2>2, <2>3 DEF WriteIndex
  <1>9. CASE CloseWithoutIndex(p)
    BY <1>9, BoundsAssumption DEF CloseWithoutIndex
  <1>10. CASE \E s \in Streams : AcquireInput(p, s)
    BY <1>10 DEF AcquireInput, AcquireStream
  <1>11. CASE \E s \in Streams : AcquireOutput(p, s)
    <2>1. PICK s \in Streams : AcquireOutput(p, s)
      BY <1>11
    <2>2. FileOf(s) \in Files
      BY DEF FileOf, Files, Streams
    <2> QED BY <2>1, <2>2 DEF AcquireOutput, AcquireStream
  <1>12. CASE ReleaseStream(p)
    <2>1. storage' \in [Procs -> StorageMaps]
      BY <1>12, ReleaseMarks
    <2> QED BY <1>12, <2>1, BoundsAssumption DEF ReleaseStream
  <1>13. CASE \E o \in Objects, l \in Linkages : CreateObject(p, o, l)
    <2>1. PICK o \in Objects, l \in Linkages : CreateObject(p, o, l)
      BY <1>13
    <2>2. [linkage |-> l, ready |-> {}] \in Entries
      BY DEF Entries
    <2>3. storage' \in [Procs -> StorageMaps]
      BY <2>1, <2>2 DEF CreateObject, StorageMaps
    <2> QED BY <2>1, <2>3 DEF CreateObject
  <1>14. CASE \E o \in Objects : DestroyObject(p, o)
    <2>1. PICK o \in Objects : DestroyObject(p, o)
      BY <1>14
    <2>2. storage' \in [Procs -> StorageMaps]
      BY <2>1 DEF DestroyObject, StorageMaps, Entries
    <2> QED BY <2>1, <2>2 DEF DestroyObject
  <1>15. CASE Crash(p)
    BY <1>15, EmptyMapType, BoundsAssumption DEF Crash, Ids
  <1> QED BY <1>1, <1>2, <1>3, <1>4, <1>5, <1>6, <1>7, <1>8, <1>9, <1>10, <1>11,
             <1>12, <1>13, <1>14, <1>15 DEF Step

-----------------------------------------------------------------------------
(* The inductive invariant.                                                *)

\* The stream of a process is open on a file.
StreamHasFile ==
    \A p \in Procs : ~Unlocked(p) => FileOf(stream[p]) \in files

\* Where a process is in open_impl or close_impl agrees with State::opened.
PhaseMatches ==
    \A p \in Procs :
        /\ pc[p] \in {"index", "write"} => opened[p]
        /\ pc[p] \in {"resident", "orphan", "lock"} => ~opened[p]

\* Whoever holds the lock has the datastore open.
HolderOpened ==
    \A p \in Procs : lock = p => opened[p]

IInv ==
    /\ TypeOK
    /\ PropPointerLive
    /\ StreamHasFile
    /\ InitializedHasFile
    /\ HolderOpened
    /\ PhaseMatches

\* A step of one process changes nothing that belongs to another, and neither
\* gives the lock of another away nor removes a file.
LEMMA StepFrame ==
  ASSUME TypeOK, NEW p \in Procs, Step(p)
  PROVE  /\ \A u \in Procs \ {p} :
               /\ pc'[u] = pc[u]
               /\ opened'[u] <=> opened[u]
               /\ storage'[u] = storage[u]
               /\ stream'[u] = stream[u]
         /\ \/ lock' = lock
            \/ lock = NoProc /\ lock' = p
            \/ lock = p /\ lock' = NoProc
         /\ files \subseteq files'
  <1> USE DEF TypeOK, indexFile, propFiles, history, GoTo, Unlock
  <1>1. CASE \E create \in CreateArgs : OpenStart(p, create)
    BY <1>1 DEF OpenStart
  <1>2. CASE CreateStub(p)
    BY <1>2 DEF CreateStub
  <1>3. CASE AcquireLock(p)
    BY <1>3 DEF AcquireLock
  <1>4. CASE LockFails(p)
    BY <1>4 DEF LockFails
  <1>5. CASE ReadIndex(p)
    BY <1>5 DEF ReadIndex
  <1>6. CASE ReadIndexFails(p)
    BY <1>6 DEF ReadIndexFails
  <1>7. CASE TruncateIndex(p)
    BY <1>7 DEF TruncateIndex
  <1>8. CASE WriteIndex(p)
    BY <1>8 DEF WriteIndex
  <1>9. CASE CloseWithoutIndex(p)
    BY <1>9 DEF CloseWithoutIndex
  <1>10. CASE \E s \in Streams : AcquireInput(p, s)
    BY <1>10 DEF AcquireInput, AcquireStream
  <1>11. CASE \E s \in Streams : AcquireOutput(p, s)
    BY <1>11 DEF AcquireOutput, AcquireStream
  <1>12. CASE ReleaseStream(p)
    BY <1>12 DEF ReleaseStream
  <1>13. CASE \E o \in Objects, l \in Linkages : CreateObject(p, o, l)
    BY <1>13 DEF CreateObject
  <1>14. CASE \E o \in Objects : DestroyObject(p, o)
    BY <1>14 DEF DestroyObject
  <1>15. CASE Crash(p)
    BY <1>15 DEF Crash
  <1> QED BY <1>1, <1>2, <1>3, <1>4, <1>5, <1>6, <1>7, <1>8, <1>9, <1>10, <1>11,
             <1>12, <1>13, <1>14, <1>15 DEF Step

\* The stream of the stepping process stays on a listed object and on a file.
LEMMA PointerStep ==
  ASSUME IInv, NEW p \in Procs, Step(p)
  PROVE  (PropPointerLive /\ StreamHasFile)'
  <1> USE DEF IInv
  <1> DEFINE Good(u) ==
        stream[u] # NoStream =>
            /\ opened[u] /\ pc[u] = "idle"
            /\ stream[u].object \in Ids(storage[u])
            /\ storage[u][stream[u].object].linkage = stream[u].linkage
            /\ FileOf(stream[u]) \in files
  <1>1. \A u \in Procs : Good(u)
    BY DEF PropPointerLive, StreamHasFile, Unlocked, Usable
  <1>2. \A u \in Procs \ {p} : Good(u)'
    BY <1>1, StepFrame
  <1>3. Good(p)'
    <2> USE DEF TypeOK, indexFile, propFiles, history, GoTo, Unlock, Linkages,
                Usable, Unlocked
    <2>1. CASE \E create \in CreateArgs : OpenStart(p, create)
      BY <1>1, <2>1 DEF OpenStart
    <2>2. CASE CreateStub(p)
      BY <1>1, <2>2 DEF CreateStub
    <2>3. CASE AcquireLock(p)
      BY <1>1, <2>3 DEF AcquireLock
    <2>4. CASE LockFails(p)
      BY <1>1, <2>4 DEF LockFails
    <2>5. CASE ReadIndex(p)
      BY <1>1, <2>5 DEF ReadIndex
    <2>6. CASE ReadIndexFails(p)
      BY <1>1, <2>6 DEF ReadIndexFails
    <2>7. CASE TruncateIndex(p)
      BY <1>1, <2>7 DEF TruncateIndex
    <2>8. CASE WriteIndex(p)
      BY <1>1, <2>8 DEF WriteIndex
    <2>9. CASE CloseWithoutIndex(p)
      BY <1>1, <2>9 DEF CloseWithoutIndex
    <2>10. CASE \E s \in Streams : AcquireInput(p, s)
      BY <1>1, <2>10 DEF AcquireInput, AcquireStream
    <2>11. CASE \E s \in Streams : AcquireOutput(p, s)
      BY <1>1, <2>11 DEF AcquireOutput, AcquireStream
    <2>12. CASE ReleaseStream(p)
      BY <1>1, <2>12 DEF ReleaseStream
    <2>13. CASE \E o \in Objects, l \in Linkages : CreateObject(p, o, l)
      BY <1>1, <2>13 DEF CreateObject
    <2>14. CASE \E o \in Objects : DestroyObject(p, o)
      BY <1>1, <2>14 DEF DestroyObject
    <2>15. CASE Crash(p)
      BY <1>1, <2>15 DEF Crash
    <2> QED BY <2>1, <2>2, <2>3, <2>4, <2>5, <2>6, <2>7, <2>8, <2>9, <2>10,
               <2>11, <2>12, <2>13, <2>14, <2>15 DEF Step
  <1> QED BY <1>2, <1>3 DEF PropPointerLive, StreamHasFile, Unlocked, Usable

\* The maps that change gain only props whose file exists.
LEMMA FilesStep ==
  ASSUME IInv, NEW p \in Procs, Step(p)
  PROVE  InitializedHasFile'
  <1> USE DEF IInv
  <1> DEFINE Backed(map, fs) ==
        \A o \in Ids(map) : \A q \in map[o].ready : <<o, map[o].linkage, q>> \in fs
  <1>1. Backed(index, files) /\ \A u \in Procs : Backed(storage[u], files)
    BY DEF InitializedHasFile
  <1>2. files \subseteq files' /\ \A u \in Procs \ {p} : storage'[u] = storage[u]
    BY StepFrame
  <1>3. \A map : Backed(map, files) => Backed(map, files')
    BY <1>2
  <1>4. Backed(EmptyMap, files')
    BY EmptyMapType
  <1>5. \A map \in StorageMaps : \A ids :
           Backed(map, files) => Backed(Part(map, ids), files')
    BY <1>2 DEF Part, Ids, Absent, Linkages
  <1>6. Backed(storage'[p], files') /\ Backed(index', files')
    <2> HIDE DEF Backed
    <2> USE DEF TypeOK, indexFile, propFiles, history
    <2>1. CASE \E create \in CreateArgs : OpenStart(p, create)
      BY <1>1, <1>3, <2>1 DEF OpenStart
    <2>2. CASE CreateStub(p)
      BY <1>1, <1>3, <2>2 DEF CreateStub
    <2>3. CASE AcquireLock(p)
      BY <1>1, <1>3, <2>3 DEF AcquireLock
    <2>4. CASE LockFails(p)
      BY <1>1, <1>3, <2>4 DEF LockFails
    <2>5. CASE ReadIndex(p)
      BY <1>1, <1>3, <2>5 DEF ReadIndex
    <2>6. CASE ReadIndexFails(p)
      BY <1>1, <1>3, <1>5, <2>6 DEF ReadIndexFails
    <2>7. CASE TruncateIndex(p)
      BY <1>1, <1>3, <1>4, <2>7 DEF TruncateIndex
    <2>8. CASE WriteIndex(p)
      BY <1>1, <1>3, <1>5, <2>8 DEF WriteIndex
    <2>9. CASE CloseWithoutIndex(p)
      BY <1>1, <1>3, <2>9 DEF CloseWithoutIndex
    <2>10. CASE \E s \in Streams : AcquireInput(p, s)
      BY <1>1, <1>3, <2>10 DEF AcquireInput, AcquireStream
    <2>11. CASE \E s \in Streams : AcquireOutput(p, s)
      BY <1>1, <1>3, <2>11 DEF AcquireOutput, AcquireStream
    <2>12. CASE ReleaseStream(p)
      <3>1. FileOf(stream[p]) \in files /\ files' = files /\ index' = index
        BY <2>12 DEF StreamHasFile, ReleaseStream
      <3> DEFINE s == stream[p]
                 old == storage[p]
                 new == storage'[p]
      <3>2. /\ s.object \in Ids(old) /\ s.linkage = old[s.object].linkage
            /\ Ids(new) = Ids(old)
            /\ \A o \in Objects : new[o].linkage = old[o].linkage
            /\ new[s.object].ready = old[s.object].ready \cup {s.prop}
            /\ \A o \in Objects \ {s.object} : new[o] = old[o]
        BY <2>12, ReleaseMarks
      <3>3. Backed(old, files)
        BY <1>1
      <3>4. Ids(old) \subseteq Objects /\ <<s.object, s.linkage, s.prop>> \in files
        BY <3>1 DEF Ids, FileOf
      <3>5. Backed(new, files)
        <4> HIDE DEF s, old, new
        <4> QED BY <3>2, <3>3, <3>4 DEF Backed
      <3> QED BY <1>1, <3>1, <3>5
    <2>13. CASE \E o \in Objects, l \in Linkages : CreateObject(p, o, l)
      BY <1>1, <1>3, <2>13 DEF CreateObject, Backed, StorageMaps, Ids
    <2>14. CASE \E o \in Objects : DestroyObject(p, o)
      BY <1>1, <1>3, <2>14 DEF DestroyObject, Backed, StorageMaps, Ids, Absent
    <2>15. CASE Crash(p)
      BY <1>1, <1>3, <1>4, <2>15 DEF Crash
    <2> QED BY <2>1, <2>2, <2>3, <2>4, <2>5, <2>6, <2>7, <2>8, <2>9, <2>10,
               <2>11, <2>12, <2>13, <2>14, <2>15 DEF Step
  <1> QED BY <1>1, <1>2, <1>3, <1>6 DEF InitializedHasFile

\* The lock and the phases of the stepping process.
LEMMA LockStep ==
  ASSUME IInv, NEW p \in Procs, Step(p)
  PROVE  (HolderOpened /\ PhaseMatches)'
  <1> USE DEF IInv
  <1> DEFINE Good(u) ==
        /\ lock = u => opened[u]
        /\ pc[u] \in {"index", "write"} => opened[u]
        /\ pc[u] \in {"resident", "orphan", "lock"} => ~opened[u]
  <1>1. \A u \in Procs : Good(u)
    BY DEF HolderOpened, PhaseMatches
  <1>2. \A u \in Procs \ {p} : Good(u)'
    BY <1>1, StepFrame, NoProcAssumption
  <1>3. Good(p)'
    <2> USE NoProcAssumption DEF TypeOK, indexFile, propFiles, history, GoTo,
            Unlock, Linkages, Usable
    <2>1. CASE \E create \in CreateArgs : OpenStart(p, create)
      BY <1>1, <2>1 DEF OpenStart
    <2>2. CASE CreateStub(p)
      BY <1>1, <2>2 DEF CreateStub
    <2>3. CASE AcquireLock(p)
      BY <1>1, <2>3 DEF AcquireLock
    <2>4. CASE LockFails(p)
      BY <1>1, <2>4 DEF LockFails
    <2>5. CASE ReadIndex(p)
      BY <1>1, <2>5 DEF ReadIndex
    <2>6. CASE ReadIndexFails(p)
      BY <1>1, <2>6 DEF ReadIndexFails
    <2>7. CASE TruncateIndex(p)
      BY <1>1, <2>7 DEF TruncateIndex
    <2>8. CASE WriteIndex(p)
      BY <1>1, <2>8 DEF WriteIndex
    <2>9. CASE CloseWithoutIndex(p)
      BY <1>1, <2>9 DEF CloseWithoutIndex
    <2>10. CASE \E s \in Streams : AcquireInput(p, s)
      BY <1>1, <2>10 DEF AcquireInput, AcquireStream
    <2>11. CASE \E s \in Streams : AcquireOutput(p, s)
      BY <1>1, <2>11 DEF AcquireOutput, AcquireStream
    <2>12. CASE ReleaseStream(p)
      BY <1>1, <2>12 DEF ReleaseStream
    <2>13. CASE \E o \in Objects, l \in Linkages : CreateObject(p, o, l)
      BY <1>1, <2>13 DEF CreateObject
    <2>14. CASE \E o \in Objects : DestroyObject(p, o)
      BY <1>1, <2>14 DEF DestroyObject
    <2>15. CASE Crash(p)
      BY <1>1, <2>15 DEF Crash
    <2> QED BY <2>1, <2>2, <2>3, <2>4, <2>5, <2>6, <2>7, <2>8, <2>9, <2>10,
               <2>11, <2>12, <2>13, <2>14, <2>15 DEF Step
  <1> QED BY <1>2, <1>3 DEF HolderOpened, PhaseMatches

LEMMA IInvInit == Init => IInv
  <1> SUFFICES ASSUME Init PROVE IInv
    OBVIOUS
  <1>1. TypeOK
    BY TypeInit
  <1>2. PropPointerLive /\ StreamHasFile
    BY DEF Init, PropPointerLive, StreamHasFile, Unlocked
  <1>3. InitializedHasFile
    BY EmptyMapType DEF Init, InitializedHasFile
  <1>4. HolderOpened /\ PhaseMatches
    BY NoProcAssumption DEF Init, HolderOpened, PhaseMatches
  <1> QED BY <1>1, <1>2, <1>3, <1>4 DEF IInv

LEMMA IInvStep == IInv /\ [Next]_vars => IInv'
  <1> SUFFICES ASSUME IInv, [Next]_vars PROVE IInv'
    OBVIOUS
  <1>1. CASE Next
    <2>1. PICK p \in Procs : Step(p)
      BY <1>1 DEF Next
    <2>2. TypeOK'
      BY <2>1, TypeStep DEF IInv
    <2> QED BY <2>1, <2>2, PointerStep, FilesStep, LockStep DEF IInv
  <1>2. CASE UNCHANGED vars
    BY <1>2 DEF vars, IInv, TypeOK, PropPointerLive, StreamHasFile,
       InitializedHasFile, HolderOpened, PhaseMatches, Unlocked, Usable
  <1> QED BY <1>1, <1>2

\* The inductive invariant holds in every behaviour.
THEOREM InductiveInvariant == Spec => []IInv
  BY IInvInit, IInvStep, PTL DEF Spec

\* Every variable keeps its type.
THEOREM TypeCorrect == Spec => []TypeOK
  BY InductiveInvariant, PTL DEF IInv

\* m_prop.sinfo points at the StorageInfo of a listed object for as long as
\* the stream is open, under any crashes and failures.
THEOREM PropPointerStaysLive == Spec => []PropPointerLive
  BY InductiveInvariant, PTL DEF IInv

\* What a map calls initialized can be opened, under any crashes and failures.
THEOREM InitializedPropsExist == Spec => []InitializedHasFile
  BY InductiveInvariant, PTL DEF IInv

\* What LockGivenBack says of a step of p, of p itself.
LEMMA LockGivenBackStep ==
  ASSUME IInv, NEW p \in Procs, Step(p), lock' = p
  PROVE  /\ opened'[p]
         /\ pc[p] # "idle" /\ pc'[p] = "idle" /\ doIndex[p] =>
                indexState = "whole" /\ storage'[p] = index
  <1>1. opened'[p]
    BY LockStep DEF HolderOpened
  <1>2. ASSUME pc[p] # "idle", pc'[p] = "idle", doIndex[p]
        PROVE  indexState = "whole" /\ storage'[p] = index
    <2> USE <1>2, NoProcAssumption
        DEF IInv, TypeOK, indexFile, propFiles, history, GoTo, Unlock, Linkages, Usable
    <2>1. CASE \E create \in CreateArgs : OpenStart(p, create)
      BY <2>1 DEF OpenStart
    <2>2. CASE CreateStub(p)
      BY <1>1, <2>2 DEF CreateStub, PhaseMatches
    <2>3. CASE AcquireLock(p)
      BY <2>3 DEF AcquireLock
    <2>4. CASE LockFails(p)
      BY <1>1, <2>4 DEF LockFails, PhaseMatches
    <2>5. CASE ReadIndex(p)
      BY <2>5 DEF ReadIndex
    <2>6. CASE ReadIndexFails(p)
      BY <2>6 DEF ReadIndexFails
    <2>7. CASE TruncateIndex(p)
      BY <2>7 DEF TruncateIndex
    <2>8. CASE WriteIndex(p)
      BY <2>8 DEF WriteIndex
    <2>9. CASE CloseWithoutIndex(p)
      BY <2>9 DEF CloseWithoutIndex
    <2>10. CASE \E s \in Streams : AcquireInput(p, s)
      BY <2>10 DEF AcquireInput, AcquireStream
    <2>11. CASE \E s \in Streams : AcquireOutput(p, s)
      BY <2>11 DEF AcquireOutput, AcquireStream
    <2>12. CASE ReleaseStream(p)
      BY <2>12 DEF ReleaseStream
    <2>13. CASE \E o \in Objects, l \in Linkages : CreateObject(p, o, l)
      BY <2>13 DEF CreateObject
    <2>14. CASE \E o \in Objects : DestroyObject(p, o)
      BY <2>14 DEF DestroyObject
    <2>15. CASE Crash(p)
      BY <2>15 DEF Crash
    <2> QED BY <2>1, <2>2, <2>3, <2>4, <2>5, <2>6, <2>7, <2>8, <2>9, <2>10,
               <2>11, <2>12, <2>13, <2>14, <2>15 DEF Step
  <1> QED BY <1>1, <1>2

\* Every way out of open_impl and close_impl gives the lock back, but for those
\* that leave the datastore open and whole.
THEOREM NoLockLeak == Spec => LockGivenBack
  <1>1. IInv /\ [Next]_vars =>
          [\A p \in Procs : lock' = p =>
              /\ opened'[p]
              /\ pc[p] # "idle" /\ pc'[p] = "idle" /\ doIndex[p] =>
                     indexState = "whole" /\ storage'[p] = index]_vars
    <2> SUFFICES ASSUME IInv, Next, NEW p \in Procs, lock' = p
                 PROVE  /\ opened'[p]
                        /\ pc[p] # "idle" /\ pc'[p] = "idle" /\ doIndex[p] =>
                               indexState = "whole" /\ storage'[p] = index
      OBVIOUS
    <2>1. PICK u \in Procs : Step(u)
      BY DEF Next
    <2>2. CASE u = p
      BY <2>1, <2>2, LockGivenBackStep
    <2>3. CASE u # p
      <3>1. lock = p /\ (opened'[p] <=> opened[p]) /\ pc'[p] = pc[p]
        BY <2>1, <2>3, StepFrame, NoProcAssumption DEF IInv
      <3> QED
        BY <3>1 DEF IInv, HolderOpened
    <2> QED
      BY <2>2, <2>3
  <1> QED
    BY <1>1, InductiveInvariant, PTL DEF Spec, LockGivenBack

-----------------------------------------------------------------------------
(* A root that holds a datastore, up to the first time its index cannot be *)
(* read or written in full: who may have it open, and what the index and   *)
(* the maps list.                                                          *)

\* A root that holds a datastore never looks empty, so every open_impl reads
\* the index.
AlwaysIndexed ==
    ~damaged =>
        /\ stubs = Linkages
        /\ indexState # "absent"
        /\ \A p \in Procs : pc[p] \notin Linkages /\ (pc[p] = "lock" => doIndex[p])

\* Whoever is open holds the lock; the index is incomplete only while its
\* holder writes it; and index and maps list the live objects.
Intact ==
    ~damaged =>
        /\ \A p \in Procs : opened[p] => lock = p
        /\ indexState # "whole" => \E p \in Procs : pc[p] = "write"
        /\ lock = NoProc => Ids(index) = live
        /\ \A p \in Procs :
              /\ pc[p] = "write" => indexState = "torn"
              /\ pc[p] = "index" => Ids(index) = live
              /\ opened[p] /\ pc[p] # "index" => Ids(storage[p]) = live

IntactInv == IInv /\ AlwaysIndexed /\ Intact

LEMMA IntactInit == Init => IntactInv
  BY IInvInit, EmptyMapType DEF Init, IntactInv, AlwaysIndexed, Intact, Linkages

\* What was damaged stays so.
LEMMA StaysDamaged == ASSUME NEW p \in Procs, Step(p), damaged PROVE damaged'
  BY Zenon DEF Step, OpenStart, CreateStub, AcquireLock, LockFails, ReadIndex,
     ReadIndexFails, TruncateIndex, WriteIndex, CloseWithoutIndex, AcquireInput,
     AcquireOutput, AcquireStream, ReleaseStream, CreateObject, DestroyObject,
     Crash, history

\* The root of a datastore never becomes empty.
LEMMA IndexedStep ==
  ASSUME IInv, AlwaysIndexed, NEW p \in Procs, Step(p)
  PROVE  AlwaysIndexed'
  <1> SUFFICES ASSUME ~damaged' PROVE AlwaysIndexed'
    BY DEF AlwaysIndexed
  <1>0. ~damaged
    BY StaysDamaged
  <1> USE <1>0 DEF IInv, AlwaysIndexed, TypeOK, indexFile, propFiles, history, GoTo,
          Linkages
  <1>1. CASE \E create \in CreateArgs : OpenStart(p, create)
    BY <1>1 DEF OpenStart, RootEmpty
  <1>2. CASE CreateStub(p)
    BY <1>2 DEF CreateStub
  <1>3. CASE AcquireLock(p)
    BY <1>3 DEF AcquireLock
  <1>4. CASE LockFails(p)
    BY <1>4 DEF LockFails
  <1>5. CASE ReadIndex(p)
    BY <1>5 DEF ReadIndex
  <1>6. CASE ReadIndexFails(p)
    BY <1>6 DEF ReadIndexFails
  <1>7. CASE TruncateIndex(p)
    BY <1>7 DEF TruncateIndex
  <1>8. CASE WriteIndex(p)
    BY <1>8 DEF WriteIndex
  <1>9. CASE CloseWithoutIndex(p)
    BY <1>9 DEF CloseWithoutIndex
  <1>10. CASE \E s \in Streams : AcquireInput(p, s)
    BY <1>10 DEF AcquireInput, AcquireStream
  <1>11. CASE \E s \in Streams : AcquireOutput(p, s)
    BY <1>11 DEF AcquireOutput, AcquireStream
  <1>12. CASE ReleaseStream(p)
    BY <1>12 DEF ReleaseStream
  <1>13. CASE \E o \in Objects, l \in Linkages : CreateObject(p, o, l)
    BY <1>13 DEF CreateObject
  <1>14. CASE \E o \in Objects : DestroyObject(p, o)
    BY <1>14 DEF DestroyObject
  <1>15. CASE Crash(p)
    BY <1>15 DEF Crash
  <1> QED BY <1>1, <1>2, <1>3, <1>4, <1>5, <1>6, <1>7, <1>8, <1>9, <1>10, <1>11,
             <1>12, <1>13, <1>14, <1>15 DEF Step

\* What Intact says, as facts about the state, for the step below.
LEMMA IntactStep ==
  ASSUME IntactInv, NEW p \in Procs, Step(p)
  PROVE  Intact'
  <1> SUFFICES ASSUME ~damaged' PROVE Intact'
    BY DEF Intact
  <1>0. ~damaged
    BY StaysDamaged
  <1> DEFINE Good(u) ==
        /\ opened[u] => lock = u
        /\ pc[u] = "write" => indexState = "torn"
        /\ pc[u] = "index" => Ids(index) = live
        /\ opened[u] /\ pc[u] # "index" => Ids(storage[u]) = live
        Whole == /\ indexState # "whole" => \E u \in Procs : pc[u] = "write"
                 /\ lock = NoProc => Ids(index) = live
  <1>1. (\A u \in Procs : Good(u)) /\ Whole
    BY <1>0 DEF IntactInv, Intact
  <1>2. TypeOK /\ PhaseMatches /\ HolderOpened
    BY DEF IntactInv, IInv
  <1>3. opened[p] => \A u \in Procs \ {p} : ~opened[u] /\ pc[u] \notin {"index", "write"}
    BY <1>1, <1>2 DEF PhaseMatches
  <1> USE NoProcAssumption DEF TypeOK, indexFile, propFiles, history, GoTo, Unlock,
          Linkages, Usable
  <1>4. (\A u \in Procs : Good(u))' /\ Whole'
    <2>1. CASE \E create \in CreateArgs : OpenStart(p, create)
      BY <1>1, <1>2, <2>1 DEF OpenStart
    <2>2. CASE CreateStub(p)
      BY <1>1, <1>2, <2>2 DEF CreateStub, PhaseMatches
    <2>3. CASE AcquireLock(p)
      BY <1>1, <1>2, <2>3 DEF AcquireLock, PhaseMatches, IntactInv, AlwaysIndexed
    <2>4. CASE LockFails(p)
      BY <1>1, <1>2, <2>4 DEF LockFails, PhaseMatches
    <2>5. CASE ReadIndex(p)
      BY <1>1, <1>2, <1>3, <2>5 DEF ReadIndex, PhaseMatches
    <2>6. CASE ReadIndexFails(p)
      BY <1>1, <1>2, <1>3, <2>6 DEF ReadIndexFails, PhaseMatches, IntactInv, AlwaysIndexed
    <2>7. CASE TruncateIndex(p)
      BY <1>1, <1>2, <1>3, <2>7 DEF TruncateIndex, PhaseMatches
    <2>8. CASE WriteIndex(p)
      BY <1>1, <1>2, <1>3, <2>8 DEF WriteIndex, PhaseMatches
    <2>9. CASE CloseWithoutIndex(p)
      BY <2>9 DEF CloseWithoutIndex
    <2>10. CASE \E s \in Streams : AcquireInput(p, s)
      BY <1>1, <1>2, <2>10 DEF AcquireInput, AcquireStream
    <2>11. CASE \E s \in Streams : AcquireOutput(p, s)
      BY <1>1, <1>2, <2>11 DEF AcquireOutput, AcquireStream
    <2>12. CASE ReleaseStream(p)
      <3>1. /\ Ids(storage'[p]) = Ids(storage[p])
            /\ \A u \in Procs \ {p} : storage'[u] = storage[u]
        BY <2>12, ReleaseMarks DEF IntactInv, IInv
      <3> QED BY <1>1, <1>2, <2>12, <3>1 DEF ReleaseStream
    <2>13. CASE \E o \in Objects, l \in Linkages : CreateObject(p, o, l)
      <3>1. PICK o \in Objects, l \in Linkages : CreateObject(p, o, l)
        BY <2>13
      <3>2. /\ storage[p] \in StorageMaps
            /\ storage'[p] = [storage[p] EXCEPT ![o] = [linkage |-> l, ready |-> {}]]
            /\ \A u \in Procs \ {p} : storage'[u] = storage[u]
        BY <1>2, <3>1 DEF CreateObject
      <3>3. Ids(storage'[p]) = Ids(storage[p]) \cup {o}
        BY <3>2 DEF Ids, StorageMaps
      <3>4. opened[p] /\ pc[p] = "idle" /\ Ids(storage'[p]) = live'
        BY <1>1, <3>1, <3>3 DEF CreateObject
      <3>5. /\ pc' = pc /\ opened' = opened /\ lock' = lock
            /\ index' = index /\ indexState' = indexState
        BY <1>2, <3>1 DEF CreateObject
      <3>6. lock = p /\ \A u \in Procs \ {p} : ~opened[u] /\ pc[u] # "index"
        BY <1>1, <1>3, <3>4
      <3> QED BY <1>1, <3>4, <3>5, <3>6
    <2>14. CASE \E o \in Objects : DestroyObject(p, o)
      <3>1. PICK o \in Objects : DestroyObject(p, o)
        BY <2>14
      <3>2. /\ storage[p] \in StorageMaps
            /\ storage'[p] = [storage[p] EXCEPT ![o] = Absent]
            /\ \A u \in Procs \ {p} : storage'[u] = storage[u]
        BY <1>2, <3>1 DEF DestroyObject
      <3>3. Ids(storage'[p]) = Ids(storage[p]) \ {o}
        BY <3>2 DEF Ids, StorageMaps, Absent
      <3>4. opened[p] /\ pc[p] = "idle" /\ Ids(storage'[p]) = live'
        BY <1>1, <3>1, <3>3 DEF DestroyObject
      <3>5. /\ pc' = pc /\ opened' = opened /\ lock' = lock
            /\ index' = index /\ indexState' = indexState
        BY <1>2, <3>1 DEF DestroyObject
      <3>6. lock = p /\ \A u \in Procs \ {p} : ~opened[u] /\ pc[u] # "index"
        BY <1>1, <1>3, <3>4
      <3> QED BY <1>1, <3>4, <3>5, <3>6
    <2>15. CASE Crash(p)
      BY <1>1, <1>2, <1>3, <2>15 DEF Crash, PhaseMatches
    <2> QED BY <2>1, <2>2, <2>3, <2>4, <2>5, <2>6, <2>7, <2>8, <2>9, <2>10,
               <2>11, <2>12, <2>13, <2>14, <2>15 DEF Step
  <1> QED BY <1>4 DEF Intact

LEMMA IntactInvStep == IntactInv /\ [Next]_vars => IntactInv'
  <1> SUFFICES ASSUME IntactInv, [Next]_vars PROVE IntactInv'
    OBVIOUS
  <1>1. IInv'
    BY IInvStep DEF IntactInv
  <1>2. CASE Next
    <2>1. PICK p \in Procs : Step(p)
      BY <1>2 DEF Next
    <2> QED BY <1>1, <2>1, IndexedStep, IntactStep DEF IntactInv
  <1>3. CASE UNCHANGED vars
    BY <1>1, <1>3 DEF vars, IntactInv, AlwaysIndexed, Intact
  <1> QED BY <1>2, <1>3

\* The strengthened invariant holds in every behaviour.
THEOREM IntactInvariant == Spec => []IntactInv
  BY IntactInit, IntactInvStep, PTL DEF Spec

\* Up to the first damaged index, whoever has the datastore open holds the lock.
THEOREM OpenIsExclusive == Spec => []OpenHoldsLock
  <1>1. IntactInv => OpenHoldsLock
    BY DEF IntactInv, Intact, OpenHoldsLock
  <1> QED BY <1>1, IntactInvariant, PTL

\* Up to the first damaged index, nothing but the open changes of a process
\* that dies is ever lost.
THEOREM ObjectsAreKept == Spec => []NoObjectLost
  <1>1. IntactInv => NoObjectLost
    BY DEF IntactInv, IInv, Intact, NoObjectLost, Usable
  <1> QED BY <1>1, IntactInvariant, PTL

-----------------------------------------------------------------------------
(* FlatDatastore implements ObjectStore: up to the first time an index is  *)
(* damaged, its processes check the store out one at a time, and a close   *)
(* saves what they did.  And: no process reads a prop that is not whole.   *)

(* The state of the abstract store and its steps, in terms of the lock.    *)

Saved == IF indexState = "torn" /\ User # NoProc THEN storage[User] ELSE index
Working == IF User = NoProc THEN EmptyMap ELSE storage[User]

LEMMA StoreSteps ==
  ASSUME UNCHANGED damaged
  PROVE  /\ UNCHANGED <<User, Saved, Working, crashes>> => UNCHANGED Store!vars
         /\ \A p \in Procs :
              /\ User = NoProc /\ User' = p /\ Working' = Saved /\ UNCHANGED <<Saved, crashes>>
                    => Store!Next
              /\ User = p /\ Working' \in StorageMaps /\ UNCHANGED <<User, Saved, crashes>>
                    => Store!Next
              /\ User = p /\ Saved' = Working /\ UNCHANGED <<User, Working, crashes>>
                    => Store!Next
              /\ User = p /\ Saved = Working /\ User' = NoProc /\ UNCHANGED <<Saved, crashes>>
                    => Store!Next
              /\ crashes' = crashes + 1 /\ UNCHANGED Saved
                 /\ (IF User = p THEN User' = NoProc ELSE UNCHANGED <<User, Working>>)
                    => Store!Next
  BY DEF Saved, Working, Store!vars, Store!Next, Store!CheckOut, Store!Edit, Store!Save,
     Store!Leave, Store!Die

LEMMA StoreInit == Init => Store!Init
  BY NoProcAssumption DEF Init, Store!Init, User

\* A process that is open with its index read is in.
LEMMA OpenIsIn ==
  ASSUME IntactInv, ~damaged, NEW p \in Procs, opened[p], pc[p] # "index"
  PROVE  User = p /\ lock = p /\ p # NoProc
  BY NoProcAssumption DEF IntactInv, Intact, User

\* The index is torn only while the process that is in writes it.
LEMMA TornIsWriting ==
  ASSUME IntactInv, ~damaged, indexState # "whole"
  PROVE  indexState = "torn" /\ User \in Procs /\ pc[User] = "write"
  <1>1. PICK p \in Procs : pc[p] = "write"
    BY DEF IntactInv, Intact
  <1>2. opened[p]
    BY <1>1 DEF IntactInv, IInv, PhaseMatches
  <1>3. indexState = "torn"
    BY DEF IntactInv, IInv, TypeOK, AlwaysIndexed
  <1> QED BY <1>1, <1>2, <1>3, OpenIsIn

\* Every step of a process is one of the store or none, as long as no index is
\* damaged.
LEMMA StoreStep ==
  ASSUME IntactInv, NEW p \in Procs, Step(p), ~damaged'
  PROVE  Store!Next \/ UNCHANGED Store!vars
  <1>1. ~damaged
    BY StaysDamaged
  <1>2. UNCHANGED damaged
    BY <1>1, IInvStep DEF IntactInv, IInv, TypeOK, Next
  <1>3. IntactInv'
    BY IntactInvStep DEF Next
  <1>4. TypeOK /\ TypeOK' /\ PhaseMatches /\ HolderOpened /\ AlwaysIndexed
    BY <1>3 DEF IntactInv, IInv
  <1>5. \A u \in Procs \ {p} : pc'[u] = pc[u] /\ storage'[u] = storage[u]
    BY <1>4, StepFrame
  <1> USE NoProcAssumption
  <1>6. ASSUME ~opened[p], pc'[p] # "index", lock' = lock, UNCHANGED <<indexFile, crashes>>
        PROVE  UNCHANGED Store!vars
    <2>1. lock # p
      BY <1>4, <1>6 DEF HolderOpened
    <2>2. UNCHANGED User /\ User # p
      BY <1>5, <1>6, <2>1 DEF User
    <2>3. UNCHANGED <<Saved, Working>>
      BY <1>5, <1>6, <2>2 DEF Saved, Working, User, indexFile
    <2> QED BY <1>2, <1>6, <2>2, <2>3, StoreSteps
  <1>7. ASSUME Usable(p), lock' = lock, pc' = pc, storage'[p] \in StorageMaps,
               UNCHANGED <<indexFile, crashes>>
        PROVE  Store!Next
    <2>1. User = p /\ lock = p /\ p # NoProc /\ User' = p
      BY <1>1, <1>7, OpenIsIn DEF User, Usable
    <2>2. indexState = "whole"
      BY <1>1, <1>7, <2>1, TornIsWriting DEF Usable
    <2> QED BY <1>2, <1>7, <2>1, <2>2, StoreSteps DEF Saved, Working, indexFile
  <1> USE DEF GoTo, Unlock, propFiles, history
  <1>8. CASE \E create \in CreateArgs : OpenStart(p, create)
    BY <1>4, <1>6, <1>8 DEF OpenStart, TypeOK
  <1>9. CASE CreateStub(p)
    BY <1>4, <1>6, <1>9 DEF CreateStub, TypeOK, PhaseMatches, Linkages
  <1>10. CASE AcquireLock(p)
    <2>1. pc'[p] = "index"
      BY <1>1, <1>4, <1>10 DEF AcquireLock, AlwaysIndexed, TypeOK
    <2>2. User = NoProc /\ User' = NoProc
      BY <1>10, <2>1 DEF AcquireLock, User
    <2> QED BY <1>2, <1>10, <2>2, StoreSteps DEF AcquireLock, Saved, Working, indexFile
  <1>11. CASE LockFails(p)
    BY <1>4, <1>6, <1>11 DEF LockFails, TypeOK, PhaseMatches
  <1>12. CASE ReadIndex(p)
    <2>1. opened'[p] /\ pc'[p] = "idle" /\ indexState = "whole"
      BY <1>4, <1>12 DEF ReadIndex, TypeOK, PhaseMatches
    <2>2. lock = p /\ lock' = p /\ p # NoProc
      BY <1>1, <1>12, <2>1 DEF ReadIndex, IntactInv, Intact
    <2>3. User = NoProc /\ User' = p
      BY <1>12, <2>1, <2>2 DEF ReadIndex, User
    <2>4. storage'[p] = index /\ index' = index /\ indexState' = indexState
      BY <1>4, <1>12 DEF ReadIndex, TypeOK, indexFile
    <2> QED BY <1>2, <1>12, <2>1, <2>3, <2>4, StoreSteps DEF ReadIndex, Saved, Working
  <1>13. CASE ReadIndexFails(p)
    <2>1. opened[p]
      BY <1>4, <1>13 DEF ReadIndexFails, PhaseMatches
    <2>2. lock = p /\ lock' = NoProc /\ opened'[p]
      BY <1>1, <1>13, <2>1 DEF ReadIndexFails, IntactInv, Intact
    <2> QED BY <1>3, <2>2 DEF IntactInv, Intact
  <1>14. CASE TruncateIndex(p)
    <2>1. User = p /\ lock = p /\ p # NoProc
      BY <1>1, <1>14, OpenIsIn DEF TruncateIndex, Usable
    <2>2. User' = p
      BY <1>4, <1>14, <2>1 DEF TruncateIndex, User, TypeOK
    <2> QED BY <1>2, <1>14, <2>1, <2>2, StoreSteps DEF TruncateIndex, Saved, Working
  <1>15. CASE WriteIndex(p)
    <2>1. opened[p]
      BY <1>4, <1>15 DEF WriteIndex, PhaseMatches
    <2>2. User = p /\ lock = p /\ p # NoProc
      BY <1>1, <1>15, <2>1, OpenIsIn DEF WriteIndex
    <2>3. User' = NoProc /\ index' = storage[p] /\ crashes' = crashes
      BY <1>15, <2>2 DEF WriteIndex, User
    <2>4. Saved' = index' /\ Working = storage[p] /\ Saved = storage[p] /\ Working' = EmptyMap
      BY <1>1, <1>15, <2>2, <2>3 DEF WriteIndex, Saved, Working, IntactInv, Intact
    <2> QED BY <1>2, <2>2, <2>3, <2>4, StoreSteps
  <1>16. CASE CloseWithoutIndex(p)
    BY <1>16 DEF CloseWithoutIndex
  <1>17. CASE \E s \in Streams : AcquireInput(p, s)
    BY <1>4, <1>7, <1>17 DEF AcquireInput, AcquireStream, TypeOK
  <1>18. CASE \E s \in Streams : AcquireOutput(p, s)
    BY <1>4, <1>7, <1>18 DEF AcquireOutput, AcquireStream, TypeOK
  <1>19. CASE ReleaseStream(p)
    BY <1>4, <1>7, <1>19 DEF ReleaseStream, TypeOK
  <1>20. CASE \E o \in Objects, l \in Linkages : CreateObject(p, o, l)
    BY <1>4, <1>7, <1>20 DEF CreateObject, TypeOK
  <1>21. CASE \E o \in Objects : DestroyObject(p, o)
    BY <1>4, <1>7, <1>21 DEF DestroyObject, TypeOK
  <1>22. CASE Crash(p)
    <2>1. pc[p] # "write" /\ crashes' = crashes + 1
      BY <1>22 DEF Crash
    <2>2. index' = index /\ indexState' = indexState
      BY <1>22 DEF Crash, indexFile
    <2>3. User # p => UNCHANGED User
      BY <1>4, <1>5, <1>22 DEF Crash, User, HolderOpened
    <2>4. User = p => User' = NoProc
      BY <1>22 DEF Crash, User
    <2>5. CASE indexState = "whole"
      BY <1>2, <1>5, <2>1, <2>2, <2>3, <2>4, <2>5, StoreSteps DEF Saved, Working, User
    <2>6. CASE indexState # "whole"
      <3>1. User \in Procs \ {p}
        BY <1>1, <2>1, <2>6, TornIsWriting
      <3> QED BY <1>2, <1>5, <2>1, <2>2, <2>3, <3>1, StoreSteps DEF Saved, Working
    <2> QED BY <2>5, <2>6
  <1> QED BY <1>8, <1>9, <1>10, <1>11, <1>12, <1>13, <1>14, <1>15, <1>16, <1>17,
             <1>18, <1>19, <1>20, <1>21, <1>22 DEF Step

LEMMA StoreNext == IntactInv /\ [Next]_vars => [Store!Next]_(Store!vars)
  <1> SUFFICES ASSUME IntactInv, [Next]_vars
               PROVE  Store!Next \/ UNCHANGED Store!vars
    OBVIOUS
  <1>1. CASE UNCHANGED vars
    BY <1>1 DEF vars, Store!vars, User
  <1>2. CASE Next /\ ~damaged'
    BY <1>2, StoreStep DEF Next
  <1>3. CASE damaged'
    <2>1. damaged' = TRUE
      BY <1>3, IInvStep DEF IntactInv, IInv, TypeOK
    <2> QED BY <2>1 DEF Store!Next, Store!Break
  <1> QED BY <1>1, <1>2, <1>3

\* However opens, closes, streams, failures and crashes of the processes
\* interleave, the index and the maps are those of a store that is checked out
\* by one process at a time and saved when it is closed, until an index is
\* damaged.
THEOREM ImplementsStore == Spec => ImplementsObjectStore
  BY StoreInit, StoreNext, IntactInvariant, PTL DEF Spec, ImplementsObjectStore, Store!Spec

-----------------------------------------------------------------------------
(* What can be read from a prop.                                           *)

\* Without crashes and failures, an incomplete file is one being written.
TornIsOpen ==
    ~damaged /\ crashes = 0 /\ faults = 0 =>
        \A f \in torn : \E p \in Procs :
            ~Unlocked(p) /\ stream[p].mode = "output" /\ FileOf(stream[p]) = f

\* Streams of two processes are never open at once.
LEMMA OneStream ==
  ASSUME IntactInv, ~damaged, NEW p \in Procs, Usable(p),
         NEW u \in Procs, ~Unlocked(u)
  PROVE  u = p
  <1>1. opened[u] /\ opened[p]
    BY DEF IntactInv, IInv, PropPointerLive, Usable
  <1> QED BY <1>1 DEF IntactInv, Intact

\* The counters never go back, and a crash counts.
LEMMA StepCounts ==
  ASSUME TypeOK, NEW p \in Procs, Step(p), crashes' = 0, faults' = 0
  PROVE  crashes = 0 /\ NoFault /\ ~Crash(p)
  <1>1. crashes \in Nat /\ faults \in Nat
    BY BoundsAssumption DEF TypeOK
  <1>2. faults' = faults \/ faults' = faults + 1
    BY DEF Step, OpenStart, CreateStub, AcquireLock, LockFails, ReadIndex, ReadIndexFails,
       TruncateIndex, WriteIndex, CloseWithoutIndex, AcquireInput, AcquireOutput,
       AcquireStream, ReleaseStream, CreateObject, DestroyObject, Crash, Fault, NoFault
  <1>3. crashes' = crashes \/ Crash(p)
    BY DEF Step, OpenStart, CreateStub, AcquireLock, LockFails, ReadIndex, ReadIndexFails,
       TruncateIndex, WriteIndex, CloseWithoutIndex, AcquireInput, AcquireOutput,
       AcquireStream, ReleaseStream, CreateObject, DestroyObject, history
  <1>4. ~Crash(p)
    BY <1>1 DEF Crash
  <1> QED BY <1>1, <1>2, <1>3, <1>4 DEF NoFault

LEMMA TornStep ==
  ASSUME IntactInv, TornIsOpen, NEW p \in Procs, Step(p)
  PROVE  TornIsOpen'
  <1> DEFINE Writing(u) == ~Unlocked(u) /\ stream[u].mode = "output"
  <1> SUFFICES ASSUME ~damaged', crashes' = 0, faults' = 0
               PROVE  (\A f \in torn : \E u \in Procs : Writing(u) /\ FileOf(stream[u]) = f)'
    BY DEF TornIsOpen
  <1>1. TypeOK /\ ~damaged /\ crashes = 0 /\ faults = 0 /\ NoFault /\ ~Crash(p)
    BY StaysDamaged, StepCounts DEF IntactInv, IInv, NoFault
  <1>2. \A f \in torn : \E u \in Procs : Writing(u) /\ FileOf(stream[u]) = f
    BY <1>1 DEF TornIsOpen
  <1>3. ASSUME Usable(p) PROVE \A f \in torn : Writing(p) /\ FileOf(stream[p]) = f
    BY <1>1, <1>2, <1>3, OneStream
  <1>4. CASE UNCHANGED <<torn, stream>>
    BY <1>2, <1>4 DEF Unlocked
  <1>5. CASE \E s \in Streams : AcquireInput(p, s)
    <2>1. torn = {} /\ torn' = torn
      BY <1>3, <1>5 DEF AcquireInput, AcquireStream, propFiles
    <2> QED BY <2>1
  <1>6. CASE \E s \in Streams : AcquireOutput(p, s)
    <2>1. PICK s \in Streams : AcquireOutput(p, s)
      BY <1>6
    <2>2. torn = {} /\ torn' = torn \cup {FileOf(s)}
      BY <1>3, <2>1 DEF AcquireOutput, AcquireStream
    <2>3. stream'[p] = s /\ s.mode = "output" /\ NoStream.mode = "none"
      BY <1>1, <2>1 DEF NoStream, AcquireOutput, AcquireStream, TypeOK
    <2> QED BY <2>2, <2>3 DEF Unlocked, FileOf
  <1>7. CASE ReleaseStream(p)
    <2>1. faults' # faults + 1
      BY <1>1
    <2>2. \/ stream[p].mode = "output" /\ torn' = torn \ {FileOf(stream[p])}
          \/ stream[p].mode = "input" /\ torn' = torn
      BY <1>7, <2>1 DEF ReleaseStream, Fault
    <2>3. Usable(p)
      BY <1>7 DEF ReleaseStream
    <2>4. torn' = {}
      BY <1>3, <2>2, <2>3
    <2> QED BY <2>4
  <1> QED
    BY <1>1, <1>4, <1>5, <1>6, <1>7
    DEF Step, OpenStart, CreateStub, AcquireLock, LockFails, ReadIndex, ReadIndexFails,
        TruncateIndex, WriteIndex, CloseWithoutIndex, CreateObject, DestroyObject, propFiles

\* Without crashes and failures, what a process reads from a prop was written
\* in full, whoever wrote it.
THEOREM ReadsAreWhole == Spec => []NoTornRead
  <1>1. Init => TornIsOpen
    BY DEF Init, TornIsOpen
  <1>2. IntactInv /\ TornIsOpen /\ [Next]_vars => TornIsOpen'
    <2> SUFFICES ASSUME IntactInv, TornIsOpen, [Next]_vars PROVE TornIsOpen'
      OBVIOUS
    <2>1. CASE Next
      BY <2>1, TornStep DEF Next
    <2>2. CASE UNCHANGED vars
      BY <2>2 DEF vars, TornIsOpen, Unlocked
    <2> QED BY <2>1, <2>2
  <1>3. IntactInv /\ TornIsOpen => NoTornRead
    <2> SUFFICES ASSUME IntactInv, TornIsOpen, ~damaged, crashes = 0, faults = 0,
                        NEW p \in Procs, ~Unlocked(p), stream[p].mode = "input",
                        FileOf(stream[p]) \in torn
                 PROVE  FALSE
      BY DEF NoTornRead
    <2>1. PICK u \in Procs : ~Unlocked(u) /\ stream[u].mode = "output"
      BY DEF TornIsOpen
    <2>2. Usable(p)
      BY DEF IntactInv, IInv, PropPointerLive
    <2> QED BY <2>1, <2>2, OneStream
  <1> QED BY <1>1, <1>2, <1>3, IntactInvariant, PTL DEF Spec
=============================================================================
