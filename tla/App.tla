--------------------------------- MODULE App ---------------------------------
(***************************************************************************)
(* The life of the program: main, App::init, App::start and the sessions   *)
(* they add, initialize, show and close (App.cpp, main.cpp,                *)
(* System/Session.cpp, System/SessionManager.cpp).  One thread runs all of *)
(* it; other programs use the same root paths meanwhile.                   *)
(*                                                                         *)
(* A datastore is modelled by what FlatDatastore.cpp lets a session see of *)
(* it: whether its root can be opened, who holds its lock, and             *)
(* State::opened.  Hord::Cmd::Datastore::Init and Store, and the           *)
(* Beard UI context, are external: a command succeeds or is bad, a UI call *)
(* returns or throws.                                                      *)
(***************************************************************************)
EXTENDS Naturals, Sequences, FiniteSets

CONSTANTS
    Sessions,       \* the sessions the configuration names
    NoSession,      \* the null session
    Roots,          \* root paths
    Others,         \* "another program" as a holder of a lock
    RootOf,         \* the root path of each session
    AutoOpen,       \* sessions with auto-open
    AutoCreate,     \* sessions with auto-create
    MaxFaults       \* bound on commands and UI calls that fail

ASSUME NoSessionAssumption == NoSession \notin Sessions
ASSUME OthersAssumption == Others \notin Sessions \cup {NoSession}
ASSUME RootOfAssumption == RootOf \in [Sessions -> Roots]
ASSUME AutoAssumption == AutoOpen \subseteq Sessions /\ AutoCreate \subseteq Sessions
ASSUME MaxFaultsAssumption == MaxFaults \in Nat

VARIABLES
    phase,          \* where main is
    todo,           \* sessions the loop of this phase has not reached
    busy,           \* the session that was opened and not yet initialized, or
                    \* stored and not yet closed
    noStdout,       \* Flags::no_stdout
    stdout,         \* whether the log writes to stdout
    uiOpen,         \* the UI context is open
    running,        \* m_running
    managed,        \* sessions in m_session_manager
    opened,         \* sessions whose datastore is in State::opened
    viewed,         \* sessions with an m_view
    current,        \* m_session
    viewc,          \* m_ui.viewc: the sessions whose views it contains
    disk,           \* what is at each root path
    lock,           \* holder of each root's lock file
    half,           \* those of them whose index was not read
    stored,         \* history: sessions whose last Store command succeeded
    kept,           \* history: sessions that failed to close
    faults          \* number of failed commands and UI calls

ui == <<stdout, uiOpen, running>>
sessions == <<opened, viewed, disk, lock, half>>
shown == <<current, viewc>>
closing == <<stored, kept>>
vars == <<phase, todo, busy, noStdout, stdout, uiOpen, running, managed, opened, viewed,
          current, viewc, disk, lock, half, stored, kept, faults>>

TypeOK ==
    /\ phase \in {"args", "config", "sessions", "ui", "init", "loop", "close",
                  "done", "failed"}
    /\ todo \subseteq Sessions
    /\ busy \in Sessions \cup {NoSession}
    /\ noStdout \in BOOLEAN /\ stdout \in BOOLEAN
    /\ uiOpen \in BOOLEAN /\ running \in BOOLEAN
    /\ managed \subseteq Sessions
    /\ opened \subseteq managed /\ viewed \subseteq managed
    /\ current \in Sessions \cup {NoSession}
    /\ viewc \in Seq(Sessions)
    /\ disk \in [Roots -> {"missing", "empty", "whole", "unreadable"}]
    /\ lock \in [Roots -> Sessions \cup {NoSession, Others}]
    /\ half \subseteq opened
    /\ stored \subseteq Sessions
    /\ kept \subseteq Sessions
    /\ faults \in 0..MaxFaults

Init ==
    /\ phase = "args"
    /\ todo = {}
    /\ busy = NoSession
    /\ noStdout = FALSE
    /\ stdout = TRUE
    /\ uiOpen = FALSE
    /\ running = FALSE
    /\ managed = {}
    /\ opened = {}
    /\ viewed = {}
    /\ current = NoSession
    /\ viewc = <<>>
    /\ disk \in [Roots -> {"missing", "empty", "whole", "unreadable"}]
    /\ lock = [r \in Roots |-> NoSession]
    /\ half = {}
    /\ stored = {}
    /\ kept = {}
    /\ faults = 0

Fault == faults < MaxFaults /\ faults' = faults + 1
NoFault == UNCHANGED faults

\* toggle_stdout; with --no-stdout it does nothing.
ToggleStdout(enable) == stdout' = IF noStdout THEN stdout ELSE enable

-----------------------------------------------------------------------------
(* App::init                                                               *)

\* Imports the arguments.  --no-stdout takes effect before they are validated.
ReadArgs ==
    /\ phase = "args"
    /\ \E arg \in BOOLEAN : noStdout' = arg /\ stdout' = ~arg
    /\ phase' \in {"config", "failed"}
    /\ UNCHANGED <<todo, busy, uiOpen, running, managed, sessions, shown, closing, faults>>

\* Parses, imports and validates the configuration, loads the terminfo.
LoadConfig ==
    /\ phase = "config"
    /\ phase' \in {"sessions", "failed"}
    /\ todo' = IF phase' = "sessions" THEN Sessions ELSE {}
    /\ UNCHANGED <<busy, noStdout, ui, managed, sessions, shown, closing, faults>>

\* add_session: a session of an unknown type is logged and left out.
AddSession(s) ==
    /\ phase = "sessions" /\ s \in todo
    /\ todo' = todo \ {s}
    /\ managed' \in {managed, managed \cup {s}}
    /\ UNCHANGED <<phase, busy, noStdout, ui, sessions, shown, closing, faults>>

InitReturns ==
    /\ phase = "sessions" /\ todo = {}
    /\ phase' = "ui"
    /\ UNCHANGED <<todo, busy, noStdout, ui, managed, sessions, shown, closing, faults>>

-----------------------------------------------------------------------------
(* App::start, first part: the UI and the sessions.                        *)

\* Mutant: initializes sessions that add_session left out.
StartUiUnmanaged ==
    /\ phase = "ui"
    /\ ToggleStdout(FALSE)
    /\ uiOpen' = TRUE
    /\ phase' = "init"
    /\ todo' = AutoOpen
    /\ NoFault
    /\ UNCHANGED <<busy, noStdout, running, managed, sessions, shown, closing>>

\* Disables stdout, opens the UI context and builds the root and its widgets.
StartUi ==
    /\ phase = "ui"
    /\ ToggleStdout(FALSE)
    /\ uiOpen' = TRUE
    /\ phase' = "init"
    /\ todo' = managed \cap AutoOpen
    /\ NoFault
    /\ UNCHANGED <<busy, noStdout, running, managed, sessions, shown, closing>>

\* set_session: only an open session gets its view shown.
SetSession(s) ==
    IF current = s
    THEN UNCHANGED shown
    ELSE /\ current' = s
         /\ viewc' = IF s \in opened THEN <<s>> ELSE <<>>

\* What open_impl may leave at a root that is empty: other programs may have
\* made it a datastore since it was looked at.
Created == {"empty", "unreadable", "whole"}

\* FlatDatastore::open_impl throws before the lock is taken.
OpenRefused(s) ==
    LET r == RootOf[s] IN
    /\ \/ (disk[r] = "missing" \/ lock[r] # NoSession) /\ NoFault
       \/ Fault
    /\ \/ UNCHANGED disk
       \/ /\ disk[r] = "empty" /\ s \in AutoCreate
          /\ \E d \in Created : disk' = [disk EXCEPT ![r] = d]
    /\ UNCHANGED <<opened, half>>

\* It throws for want of an index: the lock is given back, the state is opened.
OpenHalf(s) ==
    LET r == RootOf[s] IN
    /\ disk[r] # "missing" /\ lock[r] = NoSession
    /\ \/ disk[r] \in {"empty", "unreadable"} /\ NoFault
       \/ disk[r] \in {"whole", "unreadable"} /\ Fault
    /\ opened' = opened \cup {s}
    /\ half' = half \cup {s}
    /\ UNCHANGED disk

OpenThrows(s) ==
    /\ OpenRefused(s) \/ OpenHalf(s)
    /\ UNCHANGED <<busy, viewed, lock>>

\* It returns: the lock is the session's and the index was read or is new.
Opens(s) ==
    LET r == RootOf[s] IN
    /\ lock[r] = NoSession
    /\ \/ disk[r] = "whole" /\ UNCHANGED disk
       \/ /\ disk[r] = "empty" /\ s \in AutoCreate
          /\ \E d \in Created \ {"empty"} : disk' = [disk EXCEPT ![r] = d]
    /\ opened' = opened \cup {s}
    /\ lock' = [lock EXCEPT ![r] = s]
    /\ UNCHANGED half

\* Session::open returns.
OpenReturns(s) ==
    /\ Opens(s)
    /\ viewed' = viewed \cup {s}
    /\ busy' = s
    /\ NoFault

\* init_session, up to the Init command; its handler reports what was thrown.
InitSession(s) ==
    /\ phase = "init" /\ s \in todo /\ busy = NoSession
    /\ todo' = todo \ {s}
    /\ \/ s \in opened /\ NoFault /\ UNCHANGED <<busy, sessions>>
       \/ s \notin opened /\ (OpenThrows(s) \/ OpenReturns(s))
    /\ UNCHANGED <<phase, noStdout, ui, managed, shown, closing>>

\* The Init command; the first session for which it succeeds becomes the
\* current one.
InitCommand(s) ==
    /\ phase = "init" /\ busy = s
    /\ busy' = NoSession
    /\ \/ /\ NoFault
          /\ IF current = NoSession THEN SetSession(s) ELSE UNCHANGED shown
       \/ Fault /\ UNCHANGED shown
    /\ UNCHANGED <<phase, todo, noStdout, ui, managed, sessions, closing>>

EnterLoop ==
    /\ phase = "init" /\ todo = {} /\ busy = NoSession
    /\ phase' = "loop"
    /\ running' = TRUE
    /\ UNCHANGED <<todo, busy, noStdout, stdout, uiOpen, managed, sessions, shown, closing,
                   faults>>

-----------------------------------------------------------------------------
(* App::start, the event loop and the end.                                 *)

\* ctrl-c.  The other keys act on views, which are modules of their own.
Quit ==
    /\ phase = "loop" /\ running
    /\ running' = FALSE
    /\ UNCHANGED <<phase, todo, busy, noStdout, stdout, uiOpen, managed, sessions, shown,
                   closing, faults>>

\* Mutant: without set_session(nullptr).
LeaveLoopShowing ==
    /\ phase = "loop" /\ ~running
    /\ phase' = "close"
    /\ todo' = managed
    /\ UNCHANGED <<busy, noStdout, ui, managed, sessions, shown, closing, faults>>

\* Mutant: only the current session is closed.
LeaveLoopCurrent ==
    /\ phase = "loop" /\ ~running
    /\ phase' = "close"
    /\ todo' = managed \cap {current}
    /\ current' = NoSession
    /\ viewc' = <<>>
    /\ UNCHANGED <<busy, noStdout, ui, managed, sessions, closing, faults>>

\* The loop ends: set_session(nullptr), then every session is closed.
LeaveLoop ==
    /\ phase = "loop" /\ ~running
    /\ phase' = "close"
    /\ todo' = managed
    /\ current' = NoSession
    /\ viewc' = IF current = NoSession THEN viewc ELSE <<>>
    /\ UNCHANGED <<busy, noStdout, ui, managed, sessions, closing, faults>>

\* The Store command is bad: the session stays as it is.
StoreFails(s) ==
    /\ Fault
    /\ stored' = stored \ {s}
    /\ kept' = kept \cup {s}
    /\ UNCHANGED <<busy, viewed, shown>>

\* It is good, and Session::close drops the view.
Stored(s) ==
    /\ NoFault
    /\ stored' = stored \cup {s}
    /\ IF s = current THEN current' = NoSession /\ viewc' = <<>> ELSE UNCHANGED shown
    /\ viewed' = viewed \ {s}
    /\ busy' = s
    /\ UNCHANGED kept

\* Mutant: a session that is not open is never passed over.
CloseSessionOpen(s) ==
    /\ phase = "close" /\ s \in todo \cap opened /\ busy = NoSession
    /\ todo' = todo \ {s}
    /\ StoreFails(s) \/ Stored(s)
    /\ UNCHANGED <<phase, noStdout, ui, managed, opened, disk, lock, half>>

\* close_session, up to the closing of the datastore; its handler reports what
\* was thrown and goes on.
CloseSession(s) ==
    /\ phase = "close" /\ s \in todo /\ busy = NoSession
    /\ todo' = todo \ {s}
    /\ \/ s \notin opened /\ NoFault /\ UNCHANGED <<busy, viewed, shown, closing>>
       \/ s \in opened /\ (StoreFails(s) \/ Stored(s))
    /\ UNCHANGED <<phase, noStdout, ui, managed, opened, disk, lock, half>>

\* Mutant: the datastore is closed and its lock kept.
CloseDatastoreLocked(s) ==
    /\ phase = "close" /\ busy = s
    /\ busy' = NoSession
    /\ opened' = opened \ {s}
    /\ half' = half \ {s}
    /\ disk' = [disk EXCEPT ![RootOf[s]] = "whole"]
    /\ NoFault
    /\ UNCHANGED <<phase, todo, noStdout, ui, managed, viewed, lock, shown, closing>>

\* FlatDatastore::close_impl writes the index whether or not the session holds
\* the lock.  If that fails the datastore closes all the same.
CloseDatastore(s) ==
    /\ phase = "close" /\ busy = s
    /\ busy' = NoSession
    /\ opened' = opened \ {s}
    /\ half' = half \ {s}
    /\ lock' = [lock EXCEPT ![RootOf[s]] = IF @ = s THEN NoSession ELSE @]
    /\ \/ NoFault /\ disk' = [disk EXCEPT ![RootOf[s]] = "whole"]
       \/ Fault /\ disk' = [disk EXCEPT ![RootOf[s]] = "unreadable"]
       \/ Fault /\ UNCHANGED disk
    /\ UNCHANGED <<phase, todo, noStdout, ui, managed, viewed, shown, closing>>

\* Hord refuses to close it: the session is open without a view.
CloseRefused(s) ==
    /\ phase = "close" /\ busy = s
    /\ busy' = NoSession
    /\ Fault
    /\ kept' = kept \cup {s}
    /\ UNCHANGED <<phase, todo, noStdout, ui, managed, sessions, stored, shown>>

CloseUi ==
    /\ phase = "close" /\ todo = {} /\ busy = NoSession
    /\ phase' = "done"
    /\ viewc' = <<>>
    /\ uiOpen' = FALSE
    /\ ToggleStdout(TRUE)
    /\ UNCHANGED <<todo, busy, noStdout, running, managed, sessions, current, closing, faults>>

\* A UI call throws, those that open and close the context among them: the
\* handler of start enables stdout and throws again.
UiThrows ==
    /\ phase \in {"ui", "init", "loop", "close"}
    /\ phase \in {"init", "close"} => todo = {} /\ busy = NoSession
    /\ Fault
    /\ \/ phase \in {"ui", "close"} /\ uiOpen' \in BOOLEAN
       \/ phase \in {"init", "loop"} /\ UNCHANGED uiOpen
    /\ ToggleStdout(TRUE)
    /\ phase' = "failed"
    /\ todo' = {}
    /\ UNCHANGED <<busy, noStdout, running, managed, sessions, shown, closing>>

-----------------------------------------------------------------------------
(* Other programs at the root paths.                                       *)

OthersUnchanged == UNCHANGED <<phase, todo, busy, noStdout, ui, managed, opened, viewed, half,
                               shown, closing, faults>>

\* A lock is taken before the index is read.
OthersLock(r) ==
    /\ lock[r] = NoSession /\ disk[r] # "missing"
    /\ lock' = [lock EXCEPT ![r] = Others]
    /\ UNCHANGED disk
    /\ OthersUnchanged

\* They make an empty root a datastore, and write indexes or fail to, with or
\* without the lock (their datastores can be open without it as well).
OthersWrite(r) ==
    /\ disk[r] # "missing"
    /\ \E d \in {"unreadable", "whole"} : disk' = [disk EXCEPT ![r] = d]
    /\ \/ UNCHANGED lock
       \/ lock[r] = Others /\ lock' = [lock EXCEPT ![r] = NoSession]
    /\ OthersUnchanged

\* They give a lock back or die.
OthersUnlock(r) ==
    /\ lock[r] = Others
    /\ lock' = [lock EXCEPT ![r] = NoSession]
    /\ UNCHANGED disk
    /\ OthersUnchanged

Work ==
    \/ ReadArgs \/ LoadConfig \/ InitReturns \/ StartUi \/ EnterLoop
    \/ LeaveLoop \/ CloseUi
    \/ \E s \in Sessions :
          \/ AddSession(s) \/ InitSession(s) \/ InitCommand(s)
          \/ CloseSession(s) \/ CloseDatastore(s) \/ CloseRefused(s)

Next ==
    \/ Work \/ Quit \/ UiThrows
    \/ \E r \in Roots : OthersLock(r) \/ OthersWrite(r) \/ OthersUnlock(r)

Spec == Init /\ [][Next]_vars

\* The one thread keeps running; nobody is obliged to press ctrl-c.
FairSpec == Spec /\ WF_vars(Work)

-----------------------------------------------------------------------------
(* Properties.                                                             *)

\* The event filter dereferences m_session->view() without a check
\* (App.cpp:562): the current session is open, its index was read, it has a
\* view, and that view is the one displayed; without a current session nothing
\* is.
CurrentUsable ==
    IF current = NoSession
    THEN viewc = <<>>
    ELSE current \in (opened \cap viewed) \ half /\ viewc = <<current>>

\* Sessions that share a root are never open together with a good index, and a
\* session whose datastore is closed holds no lock.
RootsExclusive ==
    /\ \A s \in opened \ half : lock[RootOf[s]] = s
    /\ \A r \in Roots : lock[r] \in Sessions => lock[r] \in opened

\* A program that stops in good order leaves no session open and no root
\* locked, except those whose closing failed; the terminal is given back and
\* stdout is what the arguments say.
ClosedAtEnd ==
    phase = "done" =>
        /\ opened \subseteq kept
        /\ \A r \in Roots : lock[r] \in kept \cup {NoSession, Others}
        /\ ~uiOpen /\ stdout = ~noStdout

\* "The terminal will get all screwy if we don't disable stdout" (App.cpp:614):
\* stdout is off for as long as the UI context is open.
StdoutOffWithUi == uiOpen => ~stdout

\* Once the user quits, the program ends, whatever fails and whatever other
\* programs do.
QuitEnds == (phase = "loop" /\ ~running) ~> phase \in {"done", "failed"}
=============================================================================
