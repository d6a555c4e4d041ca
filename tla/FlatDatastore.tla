---------------------------- MODULE FlatDatastore ----------------------------
(***************************************************************************)
(* The flat-file datastore of IO/FlatDatastore.cpp: one root directory,    *)
(* opened and closed by several processes, each with a FlatDatastore       *)
(* object of its own.  The state on the disk (the stub directories, the    *)
(* index, the prop files, the lock file) is shared; the storage_info() map *)
(* and the one open prop stream (m_prop) belong to a process.              *)
(*                                                                         *)
(* open_impl and close_impl touch the disk several times, so each of them  *)
(* is several steps here, and the steps of the processes interleave.  A    *)
(* process may crash between any two steps; a step that does I/O may fail. *)
(*                                                                         *)
(* Hord::IO::Datastore, the base class, is not in this repository.  Its    *)
(* guards (Usable, Unlocked) are those the comments in FlatDatastore.cpp   *)
(* at lines 289, 334, 423 and 501 say it checks.  Hord::LockFile is        *)
(* external too: one holder at a time, acquire() throws when another       *)
(* process holds it, release() does nothing when it is not held, and the   *)
(* system frees the lock of a process that dies.                           *)
(***************************************************************************)
EXTENDS Naturals

CONSTANTS
    Procs,          \* processes that use the root path
    NoProc,         \* "nobody holds the lock file"
    Objects,        \* object IDs
    Props,          \* prop types of an object
    CreateArgs,     \* the values of create_if_nonexistent they open with
    MaxCrashes,     \* bound on the number of crashes
    MaxFaults       \* bound on the number of failing I/O operations

ASSUME NoProcAssumption == NoProc \notin Procs
ASSUME CreateArgsAssumption == CreateArgs \subseteq BOOLEAN
ASSUME BoundsAssumption == MaxCrashes \in Nat /\ MaxFaults \in Nat

Linkages == {"resident", "orphan"}

\* A StorageInfo: the object's linkage and its initialized props.
\* Absent stands for "the map has no such key".
Absent == [linkage |-> "none", ready |-> {}]
Entries == [linkage : Linkages, ready : SUBSET Props] \cup {Absent}
StorageMaps == [Objects -> Entries]
EmptyMap == [o \in Objects |-> Absent]
Ids(map) == {o \in Objects : map[o].linkage \in Linkages}

Part(map, ids) == [o \in Objects |-> IF o \in ids THEN map[o] ELSE Absent]

\* prop_storage.assign(q, PropState::original)
Mark(map, o, q) == [map EXCEPT ![o].ready = @ \cup {q}]

\* root/<linkage>/<object>/<prop>
Files == Objects \X Linkages \X Props

\* m_prop: what the one stream of a datastore is open on.
NoStream == [mode |-> "none"]
Streams == [mode : {"input", "output"}, object : Objects,
            linkage : Linkages, prop : Props]
FileOf(s) == <<s.object, s.linkage, s.prop>>

VARIABLES
    stubs,          \* stub directories that exist
    indexState,     \* the file root/index: "absent", "torn" or "whole"
    index,          \* the map the index holds (of a torn one: its readable part)
    files,          \* prop files that exist
    torn,           \* those whose contents are incomplete
    lock,           \* holder of root/.lock
    pc,             \* where a process is in open_impl or close_impl
    opened,         \* State::opened
    doIndex,        \* do_index of the last open_impl
    storage,        \* storage_info()
    stream,         \* m_prop; State::locked is: not NoStream
    live,           \* history: objects created and not destroyed since
    damaged,        \* history: the root was found empty, or an index could not be
                    \* read or written in full
    crashes,        \* history: number of crashes
    faults          \* history: number of failed I/O operations

indexFile == <<indexState, index>>
propFiles == <<files, torn>>
history == <<live, damaged, crashes>>
vars == <<stubs, indexState, index, files, torn, lock, pc, opened, doIndex,
          storage, stream, live, damaged, crashes, faults>>

TypeOK ==
    /\ stubs \subseteq Linkages
    /\ indexState \in {"absent", "torn", "whole"}
    /\ index \in StorageMaps
    /\ files \subseteq Files
    /\ torn \subseteq files
    /\ lock \in Procs \cup {NoProc}
    /\ pc \in [Procs -> {"idle", "resident", "orphan", "lock", "index", "write"}]
    /\ opened \in [Procs -> BOOLEAN]
    /\ doIndex \in [Procs -> BOOLEAN]
    /\ storage \in [Procs -> StorageMaps]
    /\ stream \in [Procs -> Streams \cup {NoStream}]
    /\ live \subseteq Objects
    /\ damaged \in BOOLEAN
    /\ crashes \in 0..MaxCrashes
    /\ faults \in 0..MaxFaults

Init ==
    /\ \/ stubs = Linkages /\ indexState = "whole" /\ damaged = FALSE
       \/ stubs = {} /\ indexState = "absent" /\ damaged = TRUE
    /\ index = EmptyMap
    /\ files = {}
    /\ torn = {}
    /\ lock = NoProc
    /\ pc = [p \in Procs |-> "idle"]
    /\ opened = [p \in Procs |-> FALSE]
    /\ doIndex = [p \in Procs |-> TRUE]
    /\ storage = [p \in Procs |-> EmptyMap]
    /\ stream = [p \in Procs |-> NoStream]
    /\ live = {}
    /\ crashes = 0
    /\ faults = 0

-----------------------------------------------------------------------------
(* Parts of the steps.                                                     *)

RootEmpty == stubs = {} /\ indexState = "absent" /\ lock = NoProc

GoTo(p, l) == pc' = [pc EXCEPT ![p] = l]

\* m_lock.release()
Unlock(p) == lock' = IF lock = p THEN NoProc ELSE lock

\* An I/O operation fails (Fault) or succeeds (NoFault).
Fault == faults < MaxFaults /\ faults' = faults + 1
NoFault == UNCHANGED faults

\* What the base class checks before it calls an *_impl.
Usable(p) == opened[p] /\ pc[p] = "idle"
Unlocked(p) == stream[p] = NoStream

-----------------------------------------------------------------------------
(* open_impl                                                               *)

\* The checks on the root path.  Nothing is locked yet: what RootEmpty says
\* here may be false when the stubs are made and the lock is taken.
OpenStart(p, create) ==
    /\ pc[p] = "idle" /\ ~opened[p]
    /\ doIndex' = [doIndex EXCEPT ![p] = ~(create /\ RootEmpty)]
    /\ GoTo(p, IF create /\ RootEmpty THEN "resident" ELSE "lock")
    /\ NoFault
    /\ UNCHANGED <<stubs, indexFile, propFiles, lock, opened, storage, stream,
                   history>>

\* One create_directory; one that exists is not an error.
CreateStub(p) ==
    /\ pc[p] \in Linkages
    /\ \/ /\ NoFault
          /\ stubs' = stubs \cup {pc[p]}
          /\ GoTo(p, IF pc[p] = "resident" THEN "orphan" ELSE "lock")
       \/ /\ Fault
          /\ GoTo(p, "idle")
          /\ UNCHANGED stubs
    /\ UNCHANGED <<indexFile, propFiles, lock, opened, doIndex, storage, stream,
                   history>>

\* m_lock.acquire() returns: the state is opened before the index is read.
AcquireLock(p) ==
    /\ pc[p] = "lock"
    /\ lock = NoProc
    /\ lock' = p
    /\ opened' = [opened EXCEPT ![p] = TRUE]
    /\ GoTo(p, IF doIndex[p] THEN "index" ELSE "idle")
    /\ NoFault
    /\ UNCHANGED <<stubs, indexFile, propFiles, doIndex, storage, stream, history>>

\* Mutant: the state is opened before the lock is acquired.
LockFailsOpened(p) ==
    /\ pc[p] = "lock"
    /\ \/ lock # NoProc /\ NoFault
       \/ Fault
    /\ opened' = [opened EXCEPT ![p] = TRUE]
    /\ GoTo(p, "idle")
    /\ UNCHANGED <<stubs, indexFile, propFiles, lock, doIndex, storage, stream,
                   history>>

\* m_lock.acquire() throws.
LockFails(p) ==
    /\ pc[p] = "lock"
    /\ \/ lock # NoProc /\ NoFault
       \/ Fault
    /\ GoTo(p, "idle")
    /\ UNCHANGED <<stubs, indexFile, propFiles, lock, opened, doIndex, storage,
                   stream, history>>

\* Mutant: read_index without si_map.clear(); emplace keeps what is there.
ReadIndexMerging(p) ==
    /\ pc[p] = "index"
    /\ indexState = "whole"
    /\ storage' = [storage EXCEPT ![p] =
          [o \in Objects |-> IF o \in Ids(@) THEN @[o] ELSE index[o]]]
    /\ GoTo(p, "idle")
    /\ NoFault
    /\ UNCHANGED <<stubs, indexFile, propFiles, lock, opened, doIndex, stream,
                   history>>

ReadIndex(p) ==
    /\ pc[p] = "index"
    /\ indexState = "whole"
    /\ storage' = [storage EXCEPT ![p] = index]
    /\ GoTo(p, "idle")
    /\ NoFault
    /\ UNCHANGED <<stubs, indexFile, propFiles, lock, opened, doIndex, stream,
                   history>>

\* Mutant: the handler does not release the lock.
ReadIndexFailsLocked(p) ==
    /\ pc[p] = "index"
    /\ \/ /\ indexState = "absent"
          /\ NoFault
          /\ UNCHANGED <<storage, damaged>>
       \/ /\ indexState = "torn"
          /\ NoFault
          /\ storage' = [storage EXCEPT ![p] = index]
          /\ UNCHANGED damaged
    /\ GoTo(p, "idle")
    /\ UNCHANGED <<stubs, indexFile, propFiles, lock, opened, doIndex, stream, live,
                   crashes>>

\* The index cannot be opened (the map stays as it was) or its reading throws
\* (the map holds what was read).  The handler of open_impl gives the lock
\* back and leaves State::opened set.
ReadIndexFails(p) ==
    /\ pc[p] = "index"
    /\ \/ /\ indexState = "absent"
          /\ NoFault
          /\ UNCHANGED <<storage, damaged>>
       \/ /\ indexState = "torn"
          /\ NoFault
          /\ storage' = [storage EXCEPT ![p] = index]
          /\ UNCHANGED damaged
       \/ /\ indexState # "absent"
          /\ Fault
          /\ \E read \in SUBSET Ids(index) :
                storage' = [storage EXCEPT ![p] = Part(index, read)]
          /\ damaged' = TRUE
    /\ Unlock(p)
    /\ GoTo(p, "idle")
    /\ UNCHANGED <<stubs, indexFile, propFiles, opened, doIndex, stream, live,
                   crashes>>

-----------------------------------------------------------------------------
(* close_impl                                                              *)

\* Mutant: the lock is released before the index is written.
TruncateIndexUnlocking(p) ==
    /\ Usable(p) /\ Unlocked(p)
    /\ indexState' = "torn"
    /\ index' = EmptyMap
    /\ Unlock(p)
    /\ GoTo(p, "write")
    /\ NoFault
    /\ UNCHANGED <<stubs, propFiles, opened, doIndex, storage, stream, history>>

\* Mutant: closed while a stream is open.
TruncateIndexStreaming(p) ==
    /\ Usable(p)
    /\ indexState' = "torn"
    /\ index' = EmptyMap
    /\ GoTo(p, "write")
    /\ NoFault
    /\ UNCHANGED <<stubs, propFiles, lock, opened, doIndex, storage, stream, history>>

\* std::ofstream index_stream{index_path}: an existing index is truncated.
TruncateIndex(p) ==
    /\ Usable(p) /\ Unlocked(p)
    /\ indexState' = "torn"
    /\ index' = EmptyMap
    /\ GoTo(p, "write")
    /\ NoFault
    /\ UNCHANGED <<stubs, propFiles, lock, opened, doIndex, storage, stream, history>>

\* write_index, then the lock is released and the state is no longer opened.
\* A failure to write is logged and nothing else.
WriteIndex(p) ==
    /\ pc[p] = "write"
    /\ \/ /\ NoFault
          /\ index' = storage[p]
          /\ indexState' = "whole"
          /\ UNCHANGED damaged
       \/ /\ Fault
          /\ \E written \in SUBSET Ids(storage[p]) :
                index' = Part(storage[p], written)
          /\ indexState' = "torn"
          /\ damaged' = TRUE
    /\ Unlock(p)
    /\ opened' = [opened EXCEPT ![p] = FALSE]
    /\ GoTo(p, "idle")
    /\ UNCHANGED <<stubs, propFiles, doIndex, storage, stream, live, crashes>>

\* The index cannot be opened for writing: logged, and the rest is the same.
CloseWithoutIndex(p) ==
    /\ Usable(p) /\ Unlocked(p)
    /\ Fault
    /\ Unlock(p)
    /\ opened' = [opened EXCEPT ![p] = FALSE]
    /\ damaged' = TRUE
    /\ UNCHANGED <<stubs, indexFile, propFiles, pc, doIndex, storage, stream,
                   live, crashes>>

-----------------------------------------------------------------------------
(* Prop streams.  An acquisition that throws leaves the state as it was.   *)

AcquireStream(p, s) ==
    /\ Usable(p) /\ Unlocked(p)
    /\ s.object \in Ids(storage[p])
    /\ s.linkage = storage[p][s.object].linkage
    /\ stream' = [stream EXCEPT ![p] = s]
    /\ NoFault
    /\ UNCHANGED <<stubs, indexFile, lock, pc, opened, doIndex, storage, history>>

AcquireInput(p, s) ==
    /\ s.mode = "input"
    /\ AcquireStream(p, s)
    /\ s.prop \in storage[p][s.object].ready
    /\ FileOf(s) \in files
    /\ UNCHANGED propFiles

\* Mutant: neither the directory nor the stream is checked.
AcquireOutputUnchecked(p, s) ==
    /\ s.mode = "output"
    /\ AcquireStream(p, s)
    /\ \/ files' = files \cup {FileOf(s)} /\ torn' = torn \cup {FileOf(s)}
       \/ UNCHANGED propFiles

\* create_directory fails when the stub is missing; opening truncates.
AcquireOutput(p, s) ==
    /\ s.mode = "output"
    /\ AcquireStream(p, s)
    /\ s.linkage \in stubs
    /\ files' = files \cup {FileOf(s)}
    /\ torn' = torn \cup {FileOf(s)}

\* Mutant: the stream is not closed.
ReleaseStreamUnclosed(p) ==
    /\ Usable(p) /\ ~Unlocked(p)
    /\ storage' = [storage EXCEPT ![p] = Mark(@, stream[p].object, stream[p].prop)]
    /\ stream' = [stream EXCEPT ![p] = NoStream]
    /\ NoFault
    /\ UNCHANGED <<stubs, indexFile, propFiles, lock, pc, opened, doIndex, history>>

\* Whatever the stream was and however its close() went, the prop becomes
\* "original" through the StorageInfo pointer taken at acquisition.
ReleaseStream(p) ==
    /\ Usable(p) /\ ~Unlocked(p)
    /\ LET s == stream[p] IN
       /\ storage' = [storage EXCEPT ![p] = Mark(@, s.object, s.prop)]
       /\ \/ s.mode = "output" /\ NoFault /\ torn' = torn \ {FileOf(s)}
          \/ s.mode = "output" /\ Fault /\ UNCHANGED torn
          \/ s.mode = "input" /\ NoFault /\ UNCHANGED torn
    /\ stream' = [stream EXCEPT ![p] = NoStream]
    /\ UNCHANGED <<stubs, indexFile, files, lock, pc, opened, doIndex, history>>

-----------------------------------------------------------------------------
(* Objects.  Neither operation touches the disk.                           *)

CreateObject(p, o, linkage) ==
    /\ Usable(p) /\ Unlocked(p)
    /\ o \notin Ids(storage[p])
    /\ storage' = [storage EXCEPT ![p][o] = [linkage |-> linkage, ready |-> {}]]
    /\ live' = live \cup {o}
    /\ NoFault
    /\ UNCHANGED <<stubs, indexFile, propFiles, lock, pc, opened, doIndex, stream,
                   damaged, crashes>>

\* Mutant: an object is destroyed while one of its props is open.
DestroyObjectStreaming(p, o) ==
    /\ Usable(p)
    /\ o \in Ids(storage[p])
    /\ storage' = [storage EXCEPT ![p][o] = Absent]
    /\ live' = live \ {o}
    /\ NoFault
    /\ UNCHANGED <<stubs, indexFile, propFiles, lock, pc, opened, doIndex, stream,
                   damaged, crashes>>

DestroyObject(p, o) ==
    /\ Usable(p) /\ Unlocked(p)
    /\ o \in Ids(storage[p])
    /\ storage' = [storage EXCEPT ![p][o] = Absent]
    /\ live' = live \ {o}
    /\ NoFault
    /\ UNCHANGED <<stubs, indexFile, propFiles, lock, pc, opened, doIndex, stream,
                   damaged, crashes>>

-----------------------------------------------------------------------------
(* A process dies and is started again: the disk stays as it is.  What the *)
(* dead holder of the lock had not closed is lost, by design.              *)

Crash(p) ==
    /\ crashes < MaxCrashes
    /\ pc[p] # "idle" \/ opened[p]
    /\ Unlock(p)
    /\ GoTo(p, "idle")
    /\ opened' = [opened EXCEPT ![p] = FALSE]
    /\ doIndex' = [doIndex EXCEPT ![p] = TRUE]
    /\ storage' = [storage EXCEPT ![p] = EmptyMap]
    /\ stream' = [stream EXCEPT ![p] = NoStream]
    /\ live' = IF lock = p THEN Ids(index) ELSE live
    /\ damaged' = (damaged \/ pc[p] = "write")
    /\ crashes' = crashes + 1
    /\ NoFault
    /\ UNCHANGED <<stubs, indexFile, propFiles>>

Step(p) ==
    \/ \E create \in CreateArgs : OpenStart(p, create)
    \/ CreateStub(p)
    \/ AcquireLock(p)
    \/ LockFails(p)
    \/ ReadIndex(p)
    \/ ReadIndexFails(p)
    \/ TruncateIndex(p)
    \/ WriteIndex(p)
    \/ CloseWithoutIndex(p)
    \/ \E s \in Streams : AcquireInput(p, s) \/ AcquireOutput(p, s)
    \/ ReleaseStream(p)
    \/ \E o \in Objects, l \in Linkages : CreateObject(p, o, l)
    \/ \E o \in Objects : DestroyObject(p, o)
    \/ Crash(p)

Next == \E p \in Procs : Step(p)

Spec == Init /\ [][Next]_vars
-----------------------------------------------------------------------------
(* Properties.                                                             *)

\* While a stream is open the StorageInfo that m_prop.sinfo points at stays in
\* the map and stays the one the path was made from: release_stream writes
\* through it (FlatDatastore.cpp:312).
PropPointerLive ==
    \A p \in Procs : ~Unlocked(p) =>
        /\ Usable(p)
        /\ stream[p].object \in Ids(storage[p])
        /\ storage[p][stream[p].object].linkage = stream[p].linkage

\* A prop a map calls initialized has a file, whatever crashed or failed, and
\* also in the map of a process that is open without the lock: an
\* acquire_input_stream of it is never refused for want of a file.
InitializedHasFile ==
    \A map \in {index} \cup {storage[p] : p \in Procs} :
        \A o \in Ids(map) : \A q \in map[o].ready :
            <<o, map[o].linkage, q>> \in files

\* However open_impl or close_impl ends, a process comes out of it with the lock
\* only if the datastore is open and whole: the process found the root empty and
\* read no index, or its map is all of an index that can be read.  A way out that
\* forgets the lock would keep every other process from the root for nothing.
LockGivenBack ==
    [][\A p \in Procs : lock' = p =>
        /\ opened'[p]
        /\ pc[p] # "idle" /\ pc'[p] = "idle" /\ doIndex[p] =>
               indexState = "whole" /\ storage'[p] = index]_vars

\* Unless an index was damaged, a process whose datastore is open holds the
\* lock, so that no two of them are open at once.  (A root without an index is
\* excepted: open_impl leaves State::opened set when it finds none.)
OpenHoldsLock ==
    ~damaged => \A p \in Procs : opened[p] => lock = p

\* Unless an index was damaged, no object that was created and not destroyed
\* is forgotten: the index lists exactly those while nobody has the datastore
\* open, and so does the map of a process that has it open.  A crash loses the
\* changes of the dead process and no others.
NoObjectLost ==
    ~damaged =>
        /\ lock = NoProc => Ids(index) = live
        /\ \A p \in Procs : Usable(p) => Ids(storage[p]) = live

\* Without crashes and failures, what is read from a prop was written in full.
NoTornRead ==
    ~damaged /\ crashes = 0 /\ faults = 0 =>
        \A p \in Procs : ~Unlocked(p) /\ stream[p].mode = "input" =>
            FileOf(stream[p]) \notin torn

\* The process that has the datastore open and its index read.
User == IF lock \in Procs /\ pc[lock] # "index" THEN lock ELSE NoProc

\* Unless an index was damaged, the processes see a store that is checked out
\* by one of them at a time, whole, and whose edits become the contents the next
\* one finds exactly when it is closed.  Between the truncation of the index and
\* its writing the contents are those in the map of the process that closes.
Store == INSTANCE ObjectStore WITH
    Users <- Procs,
    Nobody <- NoProc,
    Contents <- StorageMaps,
    Initial <- EmptyMap,
    holder <- User,
    saved <- IF indexState = "torn" /\ User # NoProc THEN storage[User] ELSE index,
    working <- IF User = NoProc THEN EmptyMap ELSE storage[User],
    deaths <- crashes,
    broken <- damaged

ImplementsObjectStore == Store!Spec

\* "Creates the datastore if the root path is empty" (FlatDatastore.hpp:180):
\* a process that gets the datastore open without reading an index does so
\* only where no complete one is.  The emptiness check precedes the lock.
FreshOnlyIfNew ==
    [][\A p \in Procs : AcquireLock(p) /\ ~doIndex[p] => indexState # "whole"]_vars
=============================================================================
