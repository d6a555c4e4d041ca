------------------------------ MODULE Sessions ------------------------------
(***************************************************************************)
(* The program of App over datastores of FlatDatastore.  Its sessions and  *)
(* other programs use one root path; what App states in one step (a        *)
(* session opens or fails to, a datastore is closed) is here the steps of  *)
(* open_impl and close_impl, with those of the other programs in between.  *)
(* The one thread of the program opens or closes one datastore at a time.  *)
(*                                                                         *)
(* Objects are left out: what is open and what is on the disk is all that  *)
(* App knows of a datastore.                                               *)
(***************************************************************************)
EXTENDS Naturals, Sequences, FiniteSets

CONSTANTS
    Sessions,       \* the sessions the configuration names
    Programs,       \* other programs that use the root path
    Nobody,         \* the null session; nobody holds the lock file
    Others,         \* what App calls the other programs
    AutoOpen,
    AutoCreate,
    MaxCrashes,
    MaxFaults

ASSUME SessionsAssumption ==
    /\ Sessions \cap Programs = {}
    /\ Nobody \notin Sessions \cup Programs
    /\ Others \notin Sessions \cup {Nobody}
    /\ AutoOpen \subseteq Sessions /\ AutoCreate \subseteq Sessions
    /\ MaxCrashes \in Nat /\ MaxFaults \in Nat

VARIABLES
    stubs, indexState, index, files, torn, lock,            \* the root path
    pc, opened, doIndex, storage, stream,                   \* each datastore
    live, damaged, crashes, faults,
    phase, todo, busy, noStdout, stdout, uiOpen, running,   \* the program
    managed, viewed, current, viewc, stored, kept

datastores == <<stubs, indexState, index, files, torn, lock, pc, opened, doIndex, storage,
                stream, live, damaged, crashes>>
loops == <<todo, busy>>
program == <<phase, noStdout, stdout, uiOpen, running, managed, current, viewc, stored, kept>>
vars == <<datastores, faults, loops, viewed, program>>

D == INSTANCE FlatDatastore WITH
    Procs <- Sessions \cup Programs,
    NoProc <- Nobody,
    Objects <- {},
    Props <- {},
    CreateArgs <- BOOLEAN

\* The steps of open_impl a session can be between.
Opening(s) == pc[s] \in {"resident", "orphan", "lock", "index"}

OpenSessions == {s \in Sessions : opened[s] /\ ~Opening(s)}
HalfOpen == {s \in OpenSessions : lock # s}

Holder ==
    CASE lock \in Programs -> Others
      [] lock \in Sessions /\ ~Opening(lock) -> lock
      [] OTHER -> Nobody

\* A session that found the root empty goes on to treat it as empty.
Found ==
    IF \E s \in Sessions : Opening(s) /\ ~doIndex[s] THEN "empty"
    ELSE IF stubs = {} /\ indexState = "absent" THEN "empty"
    ELSE IF indexState = "whole" THEN "whole"
    ELSE "unreadable"

A == INSTANCE App WITH
    NoSession <- Nobody,
    Roots <- {"root"},
    RootOf <- [s \in Sessions |-> "root"],
    opened <- OpenSessions,
    half <- HalfOpen,
    disk <- [r \in {"root"} |-> Found],
    lock <- [r \in {"root"} |-> Holder]

Init ==
    /\ D!Init
    /\ phase = "args"
    /\ todo = {}
    /\ busy = Nobody
    /\ noStdout = FALSE
    /\ stdout = TRUE
    /\ uiOpen = FALSE
    /\ running = FALSE
    /\ managed = {}
    /\ viewed = {}
    /\ current = Nobody
    /\ viewc = <<>>
    /\ stored = {}
    /\ kept = {}

-----------------------------------------------------------------------------
(* What the program does apart from opening and closing a datastore.       *)

InitCommand(s) == A!InitCommand(s)
CloseSession(s) == A!CloseSession(s)

ProgramStep ==
    /\ UNCHANGED datastores
    /\ \A s \in Sessions : pc[s] = "idle"
    /\ \/ A!ReadArgs \/ A!LoadConfig \/ A!InitReturns \/ A!StartUi
       \/ A!EnterLoop \/ A!Quit \/ A!LeaveLoop \/ A!CloseUi \/ A!UiThrows
       \/ \E s \in Sessions :
             A!AddSession(s) \/ InitCommand(s) \/ CloseSession(s) \/ A!CloseRefused(s)

-----------------------------------------------------------------------------
(* init_session: Session::open, step by step.                              *)

OpenGoesOn(s) ==
    /\ D!OpenStart(s, s \in AutoCreate) \/ D!CreateStub(s) \/ D!AcquireLock(s)
    /\ Opening(s)'
    /\ UNCHANGED <<loops, viewed>>

OpenReturns(s) ==
    /\ D!AcquireLock(s) \/ D!ReadIndex(s)
    /\ ~Opening(s)'
    /\ todo' = todo \ {s}
    /\ busy' = s
    /\ viewed' = viewed \cup {s}

OpenThrows(s) ==
    /\ D!CreateStub(s) \/ D!LockFails(s) \/ D!ReadIndexFails(s)
    /\ ~Opening(s)'
    /\ todo' = todo \ {s}
    /\ UNCHANGED <<busy, viewed>>

InitSession(s) ==
    /\ phase = "init" /\ s \in todo /\ busy = Nobody
    /\ \A t \in Sessions \ {s} : pc[t] = "idle"
    /\ OpenGoesOn(s) \/ OpenReturns(s) \/ OpenThrows(s)
    /\ UNCHANGED program

-----------------------------------------------------------------------------
(* Session::close, step by step; the view is gone already.                 *)

\* Mutant: the datastore is left open.
CloseDatastoreForgotten(s) ==
    /\ phase = "close" /\ busy = s
    /\ busy' = Nobody
    /\ UNCHANGED <<datastores, faults, todo, viewed, program>>

CloseDatastore(s) ==
    /\ phase = "close" /\ busy = s
    /\ D!TruncateIndex(s) \/ D!WriteIndex(s) \/ D!CloseWithoutIndex(s)
    /\ busy' = IF opened'[s] THEN s ELSE Nobody
    /\ UNCHANGED <<todo, viewed, program>>

-----------------------------------------------------------------------------
OtherProgram(x) ==
    /\ UNCHANGED <<faults, loops, viewed, program>>
    /\ D!Step(x)

Next ==
    \/ ProgramStep
    \/ \E s \in Sessions : InitSession(s) \/ CloseDatastore(s)
    \/ \E x \in Programs : OtherProgram(x)

Spec == Init /\ [][Next]_vars

-----------------------------------------------------------------------------
(* Properties.                                                             *)

\* What App says in one step of a session that is opened or closed is what the
\* steps of open_impl and close_impl amount to, whatever other programs do
\* between them and wherever they die.
ImplementsApp == A!Spec

\* A program that ends after it stored a session leaves a complete index, if
\* nothing failed and no other program died or is writing one: also when the
\* session was open without the lock.
IndexAtEnd ==
    phase = "done" /\ stored # {} /\ faults = 0 /\ crashes = 0 =>
        indexState = "whole" \/ \E x \in Programs : pc[x] = "write"
=============================================================================
