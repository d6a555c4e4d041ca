--------------------------- MODULE SessionsProofs ---------------------------
(***************************************************************************)
(* Theorems about Sessions, for any sessions and other programs, and any   *)
(* number of crashes and failures: the steps of the datastores implement   *)
(* what App says of them, and a program that ends leaves a good index.     *)
(***************************************************************************)
EXTENDS Sessions, TLAPS

-----------------------------------------------------------------------------
(* The inductive invariant.                                                *)

Users == Sessions \cup Programs

TypeInv ==
    /\ stubs \subseteq {"resident", "orphan"}
    /\ indexState \in {"absent", "torn", "whole"}
    /\ lock \in Users \cup {Nobody}
    /\ pc \in [Users -> {"idle", "resident", "orphan", "lock", "index", "write"}]
    /\ opened \in [Users -> BOOLEAN]
    /\ doIndex \in [Users -> BOOLEAN]
    /\ crashes \in Nat
    /\ faults \in Nat

\* The program is in open_impl or close_impl of one session at a time, and where
\* it is in those agrees with where main is.
OneAtATime ==
    \A s \in Sessions : pc[s] # "idle" =>
        /\ \A t \in Sessions \ {s} : pc[t] = "idle"
        /\ Opening(s) => phase = "init" /\ s \in todo /\ busy = Nobody
        /\ pc[s] = "write" => phase = "close" /\ busy = s

\* Where a session is in open_impl or close_impl agrees with State::opened and
\* with the lock.
PhaseMatches ==
    \A s \in Sessions :
        /\ pc[s] \in {"resident", "orphan", "lock"} => ~opened[s]
        /\ pc[s] \in {"index", "write"} => opened[s]
        /\ pc[s] = "index" => lock = s
        /\ lock = s => opened[s]

\* What a session goes on by that found its root empty: nobody removes a stub.
FreshRoot ==
    \A s \in Sessions :
        /\ pc[s] \in {"resident", "orphan"} => ~doIndex[s]
        /\ pc[s] = "index" => doIndex[s]
        /\ Opening(s) /\ ~doIndex[s] => s \in AutoCreate
        /\ pc[s] = "lock" /\ ~doIndex[s] => stubs # {}

\* Sessions are stored as the program ends, and what was stored is closed next.
StoredAtEnd ==
    /\ stored # {} => phase \in {"close", "done", "failed"}
    /\ phase = "done" => busy = Nobody

\* Once a session was stored and closed, an index that is not whole is one that
\* another program is writing.
IndexKept ==
    stored # {} /\ busy = Nobody /\ faults = 0 /\ crashes = 0 =>
        indexState = "whole" \/ \E x \in Programs : pc[x] = "write"

IInv ==
    /\ TypeInv
    /\ OneAtATime
    /\ PhaseMatches
    /\ FreshRoot
    /\ StoredAtEnd
    /\ IndexKept

-----------------------------------------------------------------------------
(* Steps of the datastores.                                                *)

\* A step of one process keeps the types, changes nothing that belongs to
\* another, and neither takes the lock of another nor removes a stub.
LEMMA StepFrame ==
  ASSUME TypeInv, NEW p \in Users, D!Step(p)
  PROVE  /\ TypeInv'
         /\ \A u \in Users \ {p} :
               /\ pc'[u] = pc[u]
               /\ opened'[u] <=> opened[u]
               /\ doIndex'[u] <=> doIndex[u]
         /\ \/ lock' = lock
            \/ lock = Nobody /\ lock' = p
            \/ lock = p /\ lock' = Nobody
         /\ stubs \subseteq stubs'
         /\ indexState' = "absent" => indexState = "absent"
         /\ lock = Nobody /\ lock' = p => UNCHANGED <<stubs, indexState>>
         /\ faults' \in {faults, faults + 1} /\ crashes' \in {crashes, crashes + 1}
  <1> USE SessionsAssumption DEF TypeInv, Users, D!indexFile, D!propFiles, D!history, D!GoTo,
              D!Fault, D!NoFault, D!Unlock
  <1>1. CASE \E create \in BOOLEAN : D!OpenStart(p, create)
    BY <1>1 DEF D!OpenStart
  <1>2. CASE D!CreateStub(p)
    <2>1. pc[p] \in {"resident", "orphan"}
      BY <1>2 DEF D!CreateStub, D!Linkages
    <2>2. stubs' \subseteq {"resident", "orphan"} /\ stubs \subseteq stubs'
      BY <1>2, <2>1 DEF D!CreateStub
    <2>3. pc' \in [Users -> {"idle", "resident", "orphan", "lock", "index", "write"}]
      BY <1>2 DEF D!CreateStub
    <2> QED
      BY <1>2, <2>2, <2>3 DEF D!CreateStub
  <1>3. CASE D!AcquireLock(p)
    BY <1>3 DEF D!AcquireLock
  <1>4. CASE D!LockFails(p)
    BY <1>4 DEF D!LockFails
  <1>5. CASE D!ReadIndex(p)
    BY <1>5 DEF D!ReadIndex
  <1>6. CASE D!ReadIndexFails(p)
    BY <1>6 DEF D!ReadIndexFails
  <1>7. CASE D!TruncateIndex(p)
    BY <1>7 DEF D!TruncateIndex, D!Usable
  <1>8. CASE D!WriteIndex(p)
    BY <1>8 DEF D!WriteIndex
  <1>9. CASE D!CloseWithoutIndex(p)
    BY <1>9 DEF D!CloseWithoutIndex, D!Usable
  <1>10. CASE \E s \in D!Streams : D!AcquireInput(p, s) \/ D!AcquireOutput(p, s)
    BY <1>10 DEF D!AcquireInput, D!AcquireOutput, D!AcquireStream
  <1>11. CASE D!ReleaseStream(p)
    BY <1>11 DEF D!ReleaseStream
  <1>12. CASE D!Crash(p)
    BY <1>12 DEF D!Crash
  <1> QED
    BY <1>1, <1>2, <1>3, <1>4, <1>5, <1>6, <1>7, <1>8, <1>9, <1>10, <1>11, <1>12 DEF D!Step

\* A process that does not crash and does not fail writes the index it truncated
\* before it does anything else.
LEMMA IndexStep ==
  ASSUME TypeInv, NEW p \in Users, D!Step(p)
  PROVE  \/ UNCHANGED indexState /\ pc[p] # "write"
         \/ pc'[p] = "write"
         \/ indexState' = "whole"
         \/ faults' = faults + 1 \/ crashes' = crashes + 1
  <1> USE DEF TypeInv, D!indexFile, D!GoTo, D!Fault, D!NoFault, D!Usable
  <1>1. CASE \E create \in BOOLEAN : D!OpenStart(p, create)
    BY <1>1 DEF D!OpenStart
  <1>2. CASE D!CreateStub(p)
    BY <1>2 DEF D!CreateStub, D!Linkages
  <1>3. CASE D!AcquireLock(p)
    BY <1>3 DEF D!AcquireLock
  <1>4. CASE D!LockFails(p)
    BY <1>4 DEF D!LockFails
  <1>5. CASE D!ReadIndex(p)
    BY <1>5 DEF D!ReadIndex
  <1>6. CASE D!ReadIndexFails(p)
    BY <1>6 DEF D!ReadIndexFails
  <1>7. CASE D!TruncateIndex(p)
    BY <1>7 DEF D!TruncateIndex
  <1>8. CASE D!WriteIndex(p)
    BY <1>8 DEF D!WriteIndex
  <1>9. CASE D!CloseWithoutIndex(p)
    BY <1>9 DEF D!CloseWithoutIndex
  <1>10. CASE \E s \in D!Streams : D!AcquireInput(p, s) \/ D!AcquireOutput(p, s)
    BY <1>10 DEF D!AcquireInput, D!AcquireOutput, D!AcquireStream
  <1>11. CASE D!ReleaseStream(p)
    BY <1>11 DEF D!ReleaseStream
  <1>12. CASE D!Crash(p)
    BY <1>12 DEF D!Crash
  <1> QED
    BY <1>1, <1>2, <1>3, <1>4, <1>5, <1>6, <1>7, <1>8, <1>9, <1>10, <1>11, <1>12 DEF D!Step

-----------------------------------------------------------------------------
(* The invariant is inductive.                                             *)

LEMMA IInvInit == Init => IInv
  <1> SUFFICES ASSUME Init PROVE IInv
    OBVIOUS
  <1> USE SessionsAssumption DEF Init, D!Init, D!Linkages
  <1>1. TypeInv
    BY DEF TypeInv, Users
  <1>2. OneAtATime /\ PhaseMatches /\ FreshRoot
    BY DEF OneAtATime, PhaseMatches, FreshRoot, Opening, Users
  <1>3. StoredAtEnd /\ IndexKept
    BY DEF StoredAtEnd, IndexKept
  <1> QED BY <1>1, <1>2, <1>3 DEF IInv

\* What the program does beside its datastores leaves a stored session the busy
\* one, unless something fails.
LEMMA ProgramKeeps ==
  ASSUME IInv, ProgramStep
  PROVE  IInv'
  <1> USE SessionsAssumption DEF IInv
  <1>1. faults' \in Nat /\ StoredAtEnd' /\ IndexKept'
    <2> USE DEF ProgramStep, datastores, TypeInv, StoredAtEnd, IndexKept, A!ui, A!sessions, A!shown,
                A!closing, A!Fault, A!NoFault
    <2>0. StoredAtEnd /\ IndexKept
      OBVIOUS
    <2>1. CASE A!ReadArgs
      BY <2>1 DEF A!ReadArgs
    <2>2. CASE A!LoadConfig
      BY <2>2 DEF A!LoadConfig
    <2>3. CASE A!InitReturns
      BY <2>3 DEF A!InitReturns
    <2>4. CASE A!StartUi
      BY <2>4 DEF A!StartUi
    <2>5. CASE A!EnterLoop
      BY <2>5 DEF A!EnterLoop
    <2>6. CASE A!Quit
      BY <2>6 DEF A!Quit
    <2>7. CASE A!LeaveLoop
      BY <2>7 DEF A!LeaveLoop
    <2>8. CASE A!CloseUi
      BY <2>8 DEF A!CloseUi
    <2>9. CASE A!UiThrows
      BY <2>9 DEF A!UiThrows
    <2>10. ASSUME NEW s \in Sessions, A!AddSession(s)
          PROVE  faults' \in Nat /\ StoredAtEnd' /\ IndexKept'
      BY <2>10 DEF A!AddSession
    <2>11. ASSUME NEW s \in Sessions, InitCommand(s)
          PROVE  faults' \in Nat /\ StoredAtEnd' /\ IndexKept'
      BY <2>11 DEF A!InitCommand, InitCommand
    <2>12. ASSUME NEW s \in Sessions, CloseSession(s)
          PROVE  faults' \in Nat /\ StoredAtEnd' /\ IndexKept'
      BY <2>12 DEF A!CloseSession, CloseSession, A!StoreFails, A!Stored
    <2>13. ASSUME NEW s \in Sessions, A!CloseRefused(s)
          PROVE  faults' \in Nat /\ StoredAtEnd' /\ IndexKept'
      BY <2>13 DEF A!CloseRefused
    <2> QED
      BY <2>1, <2>2, <2>3, <2>4, <2>5, <2>6, <2>7, <2>8, <2>9, <2>10, <2>11, <2>12, <2>13
  <1>2. TypeInv'
    BY <1>1 DEF ProgramStep, datastores, TypeInv
  <1>3. (OneAtATime /\ PhaseMatches /\ FreshRoot)'
    BY DEF ProgramStep, datastores, OneAtATime, PhaseMatches, FreshRoot, Opening
  <1> QED
    BY <1>1, <1>2, <1>3

\* Another program takes nothing from a session, and writes the index it truncates.
LEMMA OthersKeep ==
  ASSUME IInv, NEW x \in Programs, OtherProgram(x)
  PROVE  IInv'
  <1> USE SessionsAssumption DEF IInv
  <1>1. /\ TypeInv'
        /\ \A u \in Users \ {x} :
              pc'[u] = pc[u] /\ (opened'[u] <=> opened[u]) /\ (doIndex'[u] <=> doIndex[u])
        /\ \/ lock' = lock
           \/ lock = Nobody /\ lock' = x
           \/ lock = x /\ lock' = Nobody
        /\ stubs \subseteq stubs'
    BY StepFrame DEF OtherProgram, Users
  <1>2. UNCHANGED <<faults, loops, viewed, program>> /\ D!Step(x)
    BY DEF OtherProgram
  <1>3. \A s \in Sessions : s \in Users /\ s # x /\ s # Nobody
    BY DEF Users
  <1>4. (OneAtATime /\ PhaseMatches /\ FreshRoot)'
    BY <1>1, <1>2, <1>3 DEF OneAtATime, PhaseMatches, FreshRoot, Opening, loops, program
  <1>5. StoredAtEnd'
    BY <1>2 DEF StoredAtEnd, loops, program
  <1>6. IndexKept'
    <2>1. \A y \in Programs \ {x} : pc'[y] = pc[y]
      BY <1>1 DEF Users
    <2>2. \/ UNCHANGED indexState /\ pc[x] # "write"
          \/ pc'[x] = "write"
          \/ indexState' = "whole"
          \/ faults' = faults + 1 \/ crashes' = crashes + 1
      BY <1>2, IndexStep DEF Users
    <2>3. faults' = faults /\ faults \in Nat /\ crashes \in Nat
          /\ crashes' \in {crashes, crashes + 1}
      BY <1>2, StepFrame DEF TypeInv, Users
    <2> QED
      BY <1>2, <2>1, <2>2, <2>3 DEF IndexKept, loops, program
  <1> QED
    BY <1>1, <1>4, <1>5, <1>6

LEMMA OpeningKeeps ==
  ASSUME IInv, NEW s \in Sessions, InitSession(s)
  PROVE  IInv'
  <1> USE SessionsAssumption DEF IInv
  <1>1. D!Step(s) /\ s \in Users /\ \A t \in Sessions : t \in Users /\ t # Nobody
    <2>1. D!OpenStart(s, s \in AutoCreate) => \E create \in BOOLEAN : D!OpenStart(s, create)
      <3>1. (s \in AutoCreate) \in BOOLEAN
        OBVIOUS
      <3> QED
        BY <3>1, Zenon
    <2> QED
      BY <2>1 DEF InitSession, OpenGoesOn, OpenReturns, OpenThrows, D!Step, Users
  <1>2. /\ TypeInv'
        /\ \A u \in Users \ {s} :
              pc'[u] = pc[u] /\ (opened'[u] <=> opened[u]) /\ (doIndex'[u] <=> doIndex[u])
        /\ \/ lock' = lock
           \/ lock = Nobody /\ lock' = s
           \/ lock = s /\ lock' = Nobody
        /\ stubs \subseteq stubs'
    BY <1>1, StepFrame
  <1>3. phase' = "init" /\ stored' = {} /\ busy = Nobody /\ s \in todo
    BY DEF InitSession, program, StoredAtEnd
  <1>4. \A t \in Sessions \ {s} : pc[t] = "idle" /\ pc'[t] = "idle"
    BY <1>1, <1>2 DEF InitSession
  <1>5. pc'[s] # "write" /\ (Opening(s)' => s \in todo' /\ busy' = Nobody)
    BY <1>1, <1>3 DEF InitSession, OpenGoesOn, OpenReturns, OpenThrows, Opening, loops,
       D!OpenStart, D!CreateStub, D!AcquireLock, D!LockFails, D!ReadIndex, D!ReadIndexFails,
       D!GoTo, D!Linkages, TypeInv
  <1>6. OneAtATime'
    BY <1>3, <1>4, <1>5 DEF OneAtATime, Opening
  <1>7. /\ pc'[s] \in {"resident", "orphan", "lock"} => ~opened'[s]
        /\ pc'[s] \in {"index", "write"} => opened'[s]
        /\ pc'[s] = "index" => lock' = s
        /\ lock' = s => opened'[s]
    BY <1>1 DEF InitSession, OpenGoesOn, OpenReturns, OpenThrows, PhaseMatches,
       D!OpenStart, D!CreateStub, D!AcquireLock, D!LockFails, D!ReadIndex, D!ReadIndexFails,
       D!GoTo, D!Linkages, D!Unlock, TypeInv
  <1>8. PhaseMatches'
    BY <1>1, <1>2, <1>4, <1>7 DEF PhaseMatches
  <1>9. /\ pc'[s] \in {"resident", "orphan"} => ~doIndex'[s]
        /\ pc'[s] = "index" => doIndex'[s]
        /\ Opening(s)' /\ ~doIndex'[s] => s \in AutoCreate
        /\ pc'[s] = "lock" /\ ~doIndex'[s] => stubs' # {}
    <2> USE <1>1 DEF FreshRoot, Opening, D!GoTo, TypeInv
    <2>1. CASE D!OpenStart(s, s \in AutoCreate)
      BY <2>1 DEF D!OpenStart
    <2>2. CASE D!CreateStub(s)
      BY <2>2 DEF D!CreateStub, D!Linkages
    <2>3. CASE D!AcquireLock(s)
      BY <2>3 DEF D!AcquireLock
    <2>4. CASE D!LockFails(s)
      BY <2>4 DEF D!LockFails
    <2>5. CASE D!ReadIndex(s) \/ D!ReadIndexFails(s)
      BY <2>5 DEF D!ReadIndex, D!ReadIndexFails
    <2> QED
      BY <2>1, <2>2, <2>3, <2>4, <2>5 DEF InitSession, OpenGoesOn, OpenReturns, OpenThrows
  <1>10. FreshRoot'
    BY <1>4, <1>9 DEF FreshRoot, Opening
  <1> QED
    BY <1>2, <1>3, <1>6, <1>8, <1>10 DEF StoredAtEnd, IndexKept

LEMMA ClosingKeeps ==
  ASSUME IInv, NEW s \in Sessions, CloseDatastore(s)
  PROVE  IInv'
  <1> USE SessionsAssumption DEF IInv
  <1>1. D!Step(s) /\ s \in Users /\ \A t \in Sessions : t \in Users /\ t # Nobody
    BY DEF CloseDatastore, D!Step, Users
  <1>2. /\ TypeInv'
        /\ \A u \in Users \ {s} :
              pc'[u] = pc[u] /\ (opened'[u] <=> opened[u]) /\ (doIndex'[u] <=> doIndex[u])
        /\ \/ lock' = lock
           \/ lock = Nobody /\ lock' = s
           \/ lock = s /\ lock' = Nobody
    BY <1>1, StepFrame
  <1>3. phase = "close" /\ phase' = "close" /\ stored' = stored /\ busy = s
    BY DEF CloseDatastore, program
  <1>4. \A t \in Sessions \ {s} : pc'[t] = "idle"
    BY <1>1, <1>2, <1>3 DEF OneAtATime, Opening, TypeInv
  <1>5. \/ pc'[s] = "write" /\ opened'[s] /\ busy' = s
        \/ pc'[s] = "idle" /\ ~opened'[s] /\ lock' # s
    BY <1>1 DEF CloseDatastore, D!TruncateIndex, D!WriteIndex, D!CloseWithoutIndex,
       D!GoTo, D!Usable, D!Unlock, TypeInv
  <1>6. OneAtATime'
    BY <1>3, <1>4, <1>5 DEF OneAtATime, Opening
  <1>7. PhaseMatches'
    BY <1>1, <1>2, <1>4, <1>5 DEF PhaseMatches
  <1>8. FreshRoot'
    BY <1>4, <1>5 DEF FreshRoot, Opening
  <1>9. \/ busy' = s
        \/ indexState' = "whole"
        \/ faults' = faults + 1
    BY DEF CloseDatastore, D!TruncateIndex, D!WriteIndex, D!CloseWithoutIndex, D!Fault,
       D!NoFault, D!Usable
  <1> QED
    BY <1>1, <1>2, <1>3, <1>6, <1>7, <1>8, <1>9 DEF StoredAtEnd, IndexKept, TypeInv

LEMMA IInvNext == IInv /\ [Next]_vars => IInv'
  <1> SUFFICES ASSUME IInv, [Next]_vars PROVE IInv'
    OBVIOUS
  <1>1. CASE UNCHANGED vars
    BY <1>1 DEF vars, datastores, loops, program, IInv, TypeInv, OneAtATime, PhaseMatches,
       FreshRoot, StoredAtEnd, IndexKept, Opening
  <1>2. CASE Next
    BY <1>2, ProgramKeeps, OthersKeep, OpeningKeeps, ClosingKeeps DEF Next
  <1> QED BY <1>1, <1>2

LEMMA Invariance == Spec => []IInv
  BY IInvInit, IInvNext, PTL DEF Spec

\* A program that ends in good order leaves a good index, or one that another
\* program is writing.
THEOREM IndexIsLeft == Spec => []IndexAtEnd
  <1>1. IInv => IndexAtEnd
    BY DEF IInv, StoredAtEnd, IndexKept, IndexAtEnd
  <1> QED BY <1>1, Invariance, PTL

-----------------------------------------------------------------------------
(* The steps of App, in terms of what App sees of the root path.           *)

Kept == UNCHANGED <<program, loops, viewed, faults, OpenSessions, HalfOpen>>

\* What other programs do to the root path are steps of App, or none.
LEMMA OthersSteps ==
  ASSUME Kept
  PROVE  /\ UNCHANGED <<Found, Holder>> => UNCHANGED A!vars
         /\ UNCHANGED Found /\ Found # "missing" /\ Holder = Nobody /\ Holder' = Others => A!Next
         /\ UNCHANGED Found /\ Holder = Others /\ Holder' = Nobody => A!Next
         /\ Found # "missing" /\ Found' \in {"unreadable", "whole"} /\ UNCHANGED Holder => A!Next
         /\ /\ Found # "missing" /\ Found' \in {"unreadable", "whole"}
            /\ Holder = Others /\ Holder' = Nobody
            => A!Next
  <1> USE DEF Kept, program, loops, A!ui, A!shown, A!closing, A!OthersUnchanged, A!vars
  <1>1. UNCHANGED <<Found, Holder>> => UNCHANGED A!vars
    OBVIOUS
  <1>2. ASSUME UNCHANGED Found, Found # "missing", Holder = Nobody, Holder' = Others PROVE A!Next
    <2>1. A!OthersLock("root")
      BY <1>2 DEF A!OthersLock
    <2> QED
      BY <2>1 DEF A!Next
  <1>3. ASSUME UNCHANGED Found, Holder = Others, Holder' = Nobody PROVE A!Next
    <2>1. A!OthersUnlock("root")
      BY <1>3 DEF A!OthersUnlock
    <2> QED
      BY <2>1 DEF A!Next
  <1>4. ASSUME Found # "missing", Found' \in {"unreadable", "whole"},
               UNCHANGED Holder \/ (Holder = Others /\ Holder' = Nobody)
        PROVE  A!Next
    <2>1. A!OthersWrite("root")
      BY <1>4 DEF A!OthersWrite
    <2> QED
      BY <2>1 DEF A!Next
  <1> QED
    BY <1>1, <1>2, <1>3, <1>4

\* How a session that is opened or fails to, and one that is closed, look to App.
LEMMA OpenSteps ==
  ASSUME NEW s \in Sessions, phase = "init", s \in todo, busy = Nobody, s \notin OpenSessions,
         UNCHANGED program, todo' = todo \ {s}, Found \in {"empty", "whole", "unreadable"}
  PROVE  /\ /\ (Holder # Nobody /\ UNCHANGED faults) \/ D!Fault
            /\ \/ UNCHANGED Found
               \/ /\ Found = "empty" /\ s \in AutoCreate
                  /\ Found' \in {"empty", "unreadable", "whole"}
            /\ UNCHANGED <<OpenSessions, HalfOpen, busy, viewed, Holder>>
            => A!Next
         /\ /\ Holder = Nobody
            /\ \/ Found \in {"empty", "unreadable"} /\ UNCHANGED faults
               \/ Found \in {"whole", "unreadable"} /\ D!Fault
            /\ OpenSessions' = OpenSessions \cup {s}
            /\ HalfOpen' = HalfOpen \cup {s}
            /\ UNCHANGED <<busy, viewed, Found, Holder>>
            => A!Next
         /\ /\ Holder = Nobody /\ Holder' = s
            /\ \/ Found = "whole" /\ UNCHANGED Found
               \/ /\ Found = "empty" /\ s \in AutoCreate
                  /\ Found' \in {"unreadable", "whole"}
            /\ OpenSessions' = OpenSessions \cup {s}
            /\ UNCHANGED <<HalfOpen, faults>>
            /\ viewed' = viewed \cup {s} /\ busy' = s
            => A!Next
  <1> USE DEF program, A!ui, A!shown, A!closing, A!Created, A!NoFault
  <1>1. ASSUME (Holder # Nobody /\ UNCHANGED faults) \/ D!Fault,
               \/ UNCHANGED Found
               \/ /\ Found = "empty" /\ s \in AutoCreate
                  /\ Found' \in {"empty", "unreadable", "whole"},
               UNCHANGED <<OpenSessions, HalfOpen, busy, viewed, Holder>>
        PROVE  A!InitSession(s)
    <2>1. A!OpenRefused(s)
      BY <1>1 DEF A!OpenRefused, D!Fault, A!Fault
    <2> QED
      BY <1>1, <2>1 DEF A!InitSession, A!OpenThrows
  <1>2. ASSUME Holder = Nobody,
               \/ Found \in {"empty", "unreadable"} /\ UNCHANGED faults
               \/ Found \in {"whole", "unreadable"} /\ D!Fault,
               OpenSessions' = OpenSessions \cup {s}, HalfOpen' = HalfOpen \cup {s},
               UNCHANGED <<busy, viewed, Found, Holder>>
        PROVE  A!InitSession(s)
    <2>1. A!OpenHalf(s)
      BY <1>2 DEF A!OpenHalf, D!Fault, A!Fault
    <2> QED
      BY <1>2, <2>1 DEF A!InitSession, A!OpenThrows
  <1>3. ASSUME Holder = Nobody, Holder' = s,
               \/ Found = "whole" /\ UNCHANGED Found
               \/ Found = "empty" /\ s \in AutoCreate /\ Found' \in {"unreadable", "whole"},
               OpenSessions' = OpenSessions \cup {s}, UNCHANGED <<HalfOpen, faults>>,
               viewed' = viewed \cup {s}, busy' = s
        PROVE  A!InitSession(s)
    <2>1. A!Opens(s)
      BY <1>3 DEF A!Opens
    <2> QED
      BY <1>3, <2>1 DEF A!InitSession, A!OpenReturns
  <1>4. A!InitSession(s) => A!Next
    BY DEF A!Next, A!Work
  <1> QED
    BY <1>1, <1>2, <1>3, <1>4

LEMMA CloseStep ==
  ASSUME NEW s \in Sessions, phase = "close", busy = s, busy' = Nobody,
         UNCHANGED <<program, todo, viewed>>,
         OpenSessions' = OpenSessions \ {s}, HalfOpen' = HalfOpen \ {s},
         Holder' = IF Holder = s THEN Nobody ELSE Holder,
         \/ UNCHANGED faults /\ Found' = "whole"
         \/ D!Fault /\ Found' = "unreadable"
         \/ D!Fault /\ UNCHANGED Found
  PROVE  A!Next
  <1>1. A!CloseDatastore(s)
    BY DEF program, A!ui, A!shown, A!closing, A!CloseDatastore, A!NoFault, A!Fault, D!Fault
  <1> QED
    BY <1>1 DEF A!Next, A!Work

-----------------------------------------------------------------------------
(* Every step is one of App, or none.                                      *)

LEMMA ProgramMaps ==
  ASSUME ProgramStep
  PROVE  A!Next
  BY DEF ProgramStep, InitCommand, CloseSession, A!Next, A!Work

LEMMA OthersMap ==
  ASSUME IInv, NEW x \in Programs, OtherProgram(x)
  PROVE  A!Next \/ UNCHANGED A!vars
  <1> USE SessionsAssumption DEF IInv
  <1>1. /\ \A u \in Users \ {x} :
              pc'[u] = pc[u] /\ (opened'[u] <=> opened[u]) /\ (doIndex'[u] <=> doIndex[u])
        /\ \/ lock' = lock
           \/ lock = Nobody /\ lock' = x
           \/ lock = x /\ lock' = Nobody
        /\ stubs \subseteq stubs'
        /\ indexState' = "absent" => indexState = "absent"
        /\ lock = Nobody /\ lock' = x => UNCHANGED <<stubs, indexState>>
    BY StepFrame DEF OtherProgram, Users
  <1>2. \A s \in Sessions :
           pc'[s] = pc[s] /\ (opened'[s] <=> opened[s]) /\ (doIndex'[s] <=> doIndex[s]) /\ s # x
    BY <1>1 DEF Users
  <1>3. OpenSessions' = OpenSessions
    BY <1>2 DEF OpenSessions, Opening
  <1>4. HalfOpen' = HalfOpen
    BY <1>1, <1>2, <1>3 DEF HalfOpen, OpenSessions
  <1>5. Kept
    BY <1>3, <1>4 DEF OtherProgram, Kept
  <1>6. /\ lock' = lock => Holder' = Holder
        /\ lock = Nobody /\ lock' = x => Holder = Nobody /\ Holder' = Others
        /\ lock = x /\ lock' = Nobody => Holder = Others /\ Holder' = Nobody
    BY <1>2 DEF Holder, Opening
  <1>7. Found # "missing"
    BY DEF Found
  <1>8. Found' = Found \/ Found' \in {"unreadable", "whole"}
    BY <1>1, <1>2 DEF Found, Opening
  <1>9. lock = Nobody /\ lock' = x => Found' = Found
    BY <1>1, <1>2 DEF Found, Opening
  <1> QED
    BY <1>1, <1>5, <1>6, <1>7, <1>8, <1>9, OthersSteps

LEMMA OpeningMaps ==
  ASSUME IInv, NEW s \in Sessions, InitSession(s)
  PROVE  A!Next \/ UNCHANGED A!vars
  <1> USE SessionsAssumption DEF IInv
  <1> DEFINE Bare == IF stubs = {} /\ indexState = "absent" THEN "empty"
                     ELSE IF indexState = "whole" THEN "whole" ELSE "unreadable"
  <1>1. D!Step(s) /\ s \in Users
        /\ \A t \in Sessions : t \in Users /\ t # Nobody /\ t \notin Programs
    <2>1. D!OpenStart(s, s \in AutoCreate) => \E create \in BOOLEAN : D!OpenStart(s, create)
      <3>1. (s \in AutoCreate) \in BOOLEAN
        OBVIOUS
      <3> QED
        BY <3>1, Zenon
    <2> QED
      BY <2>1 DEF InitSession, OpenGoesOn, OpenReturns, OpenThrows, D!Step, Users
  <1>2. /\ \A t \in Sessions \ {s} :
              pc[t] = "idle" /\ pc'[t] = "idle" /\ (opened'[t] <=> opened[t])
        /\ \/ lock' = lock
           \/ lock = Nobody /\ lock' = s
           \/ lock = s /\ lock' = Nobody
    <2>1. \A t \in Sessions \ {s} : pc[t] = "idle"
      BY DEF InitSession
    <2> QED
      BY <1>1, <2>1, StepFrame
  <1>3. phase = "init" /\ s \in todo /\ busy = Nobody /\ UNCHANGED program
    BY DEF InitSession
  <1>4. Found = IF Opening(s) /\ ~doIndex[s] THEN "empty" ELSE Bare
    BY <1>2 DEF Found, Opening
  <1>5. Found' = IF Opening(s)' /\ ~doIndex'[s] THEN "empty" ELSE Bare'
    BY <1>2 DEF Found, Opening
  <1>6. s \notin OpenSessions
    BY <1>1 DEF OpenSessions, Opening, PhaseMatches, InitSession, OpenGoesOn, OpenReturns,
       OpenThrows, D!OpenStart, D!CreateStub, D!AcquireLock, D!LockFails, D!ReadIndex,
       D!ReadIndexFails, D!Linkages, TypeInv
  <1>7. OpenSessions' = IF opened'[s] /\ ~Opening(s)' THEN OpenSessions \cup {s} ELSE OpenSessions
    BY <1>2, <1>6 DEF OpenSessions, Opening
  <1>8. \A t \in OpenSessions : t # s /\ t # Nobody /\ (lock' # t <=> lock # t)
    BY <1>1, <1>2, <1>6 DEF OpenSessions
  <1>9. HalfOpen' = IF opened'[s] /\ ~Opening(s)' /\ lock' # s THEN HalfOpen \cup {s} ELSE HalfOpen
    <2>1. HalfOpen = {t \in OpenSessions : lock # t}
          /\ HalfOpen' = {t \in OpenSessions' : lock' # t}
      BY DEF HalfOpen
    <2> QED
      BY <1>7, <1>8, <2>1
  <1>10. CASE OpenGoesOn(s)
    <2>1. CASE D!OpenStart(s, s \in AutoCreate)
      <3>1. lock # s /\ lock' = lock /\ UNCHANGED faults
        BY <1>1, <2>1 DEF D!OpenStart, D!NoFault, PhaseMatches
      <3>2. Holder' = Holder
        BY <1>2, <3>1 DEF Holder, Opening
      <3>3. Found' = Found
        BY <1>1, <1>4, <1>5, <2>1
           DEF D!OpenStart, D!RootEmpty, D!GoTo, D!indexFile, Opening, TypeInv
      <3> QED
        BY <1>3, <1>7, <1>9, <1>10, <3>1, <3>2, <3>3, OthersSteps DEF OpenGoesOn, Kept
    <2>2. CASE D!CreateStub(s)
      <3>1. lock # s /\ lock' = lock /\ UNCHANGED faults
        BY <1>1, <1>10, <2>2 DEF OpenGoesOn, D!CreateStub, D!NoFault, PhaseMatches, D!Linkages,
           D!GoTo, Opening, TypeInv
      <3>2. Holder' = Holder
        BY <1>2, <3>1 DEF Holder, Opening
      <3>3. Found' = Found
        BY <1>1, <1>4, <1>5, <1>10, <2>2 DEF OpenGoesOn, D!CreateStub, D!Linkages, Opening,
           FreshRoot
      <3> QED
        BY <1>3, <1>7, <1>9, <1>10, <3>1, <3>2, <3>3, OthersSteps DEF OpenGoesOn, Kept
    <2>3. CASE D!AcquireLock(s)
      <3>1. /\ lock = Nobody /\ lock' = s /\ pc[s] = "lock"
            /\ UNCHANGED <<faults, stubs, indexState, doIndex>>
        BY <2>3 DEF D!AcquireLock, D!NoFault, D!indexFile
      <3>2. Holder' = Holder
        BY <1>1, <1>10, <3>1 DEF Holder, OpenGoesOn
      <3>3. Found' = Found
        BY <1>4, <1>5, <1>10, <3>1 DEF OpenGoesOn, Opening
      <3> QED
        BY <1>3, <1>7, <1>9, <1>10, <3>1, <3>2, <3>3, OthersSteps DEF OpenGoesOn, Kept
    <2> QED
      BY <1>10, <2>1, <2>2, <2>3 DEF OpenGoesOn
  <1>11. CASE OpenReturns(s)
    <2>1. todo' = todo \ {s} /\ busy' = s /\ viewed' = viewed \cup {s} /\ ~Opening(s)'
      BY <1>11 DEF OpenReturns
    <2>2. CASE D!AcquireLock(s)
      <3>1. /\ lock = Nobody /\ lock' = s /\ UNCHANGED <<faults, stubs, indexState, doIndex>>
            /\ pc[s] = "lock" /\ opened'[s] /\ ~doIndex[s]
        BY <1>1, <2>1, <2>2 DEF D!AcquireLock, D!NoFault, D!indexFile, D!GoTo, Opening, TypeInv
      <3>2. Holder = Nobody /\ Holder' = s
        BY <1>1, <2>1, <3>1 DEF Holder
      <3>3. s \in AutoCreate /\ stubs # {}
        BY <3>1 DEF FreshRoot, Opening
      <3>4. Found = "empty" /\ Found' \in {"unreadable", "whole"}
        BY <1>4, <1>5, <2>1, <3>1, <3>3 DEF Opening
      <3> QED
        BY <1>3, <1>6, <1>7, <1>9, <2>1, <3>1, <3>2, <3>3, <3>4, OpenSteps
    <2>3. CASE D!ReadIndex(s)
      <3>1. /\ lock = s /\ lock' = s /\ UNCHANGED <<faults, stubs, indexState, doIndex>>
            /\ pc[s] = "index" /\ opened'[s] /\ doIndex[s] /\ indexState = "whole"
        BY <1>1, <2>3 DEF D!ReadIndex, D!NoFault, D!indexFile, PhaseMatches, FreshRoot
      <3>2. Holder = Nobody /\ Holder' = s
        BY <1>1, <2>1, <3>1 DEF Holder, Opening
      <3>3. Found = "whole" /\ Found' = "whole"
        BY <1>4, <1>5, <2>1, <3>1
      <3> QED
        BY <1>3, <1>6, <1>7, <1>9, <2>1, <3>1, <3>2, <3>3, OpenSteps
    <2> QED
      BY <1>11, <2>2, <2>3 DEF OpenReturns
  <1>12. CASE OpenThrows(s)
    <2>1. todo' = todo \ {s} /\ UNCHANGED <<busy, viewed>> /\ ~Opening(s)'
      BY <1>12 DEF OpenThrows
    <2>2. Found \in {"empty", "whole", "unreadable"} /\ Found' \in {"empty", "whole", "unreadable"}
      BY <1>4, <1>5
    <2>3. CASE D!CreateStub(s)
      <3>1. /\ lock # s /\ lock' = lock /\ D!Fault /\ ~doIndex[s] /\ Opening(s)
            /\ ~opened'[s]
        BY <1>1, <2>1, <2>3 DEF D!CreateStub, PhaseMatches, FreshRoot, D!Linkages, D!GoTo,
           Opening, TypeInv
      <3>2. Holder' = Holder
        BY <1>2, <3>1 DEF Holder, Opening
      <3>3. Found = "empty" /\ s \in AutoCreate
        BY <1>4, <3>1 DEF FreshRoot
      <3> QED
        BY <1>3, <1>6, <1>7, <1>9, <2>1, <2>2, <3>1, <3>2, <3>3, OpenSteps
    <2>4. CASE D!LockFails(s)
      <3>1. /\ lock # s /\ lock' = lock /\ ~opened'[s] /\ pc[s] = "lock"
            /\ UNCHANGED <<stubs, indexState>>
            /\ (lock # Nobody /\ UNCHANGED faults) \/ D!Fault
        BY <1>1, <2>4 DEF D!LockFails, D!NoFault, PhaseMatches, D!indexFile
      <3>2. Holder' = Holder
        BY <1>2, <3>1 DEF Holder, Opening
      <3>3. lock # Nobody => Holder # Nobody
        BY <1>1, <1>2, <3>1 DEF Holder, Opening, TypeInv, Users
      <3>4. UNCHANGED Found \/ (Found = "empty" /\ s \in AutoCreate)
        BY <1>4, <1>5, <2>1, <3>1 DEF FreshRoot, Opening
      <3> QED
        BY <1>3, <1>6, <1>7, <1>9, <2>1, <2>2, <3>1, <3>2, <3>3, <3>4, OpenSteps
    <2>5. CASE D!ReadIndexFails(s)
      <3>1. /\ lock = s /\ lock' = Nobody /\ opened'[s] /\ pc[s] = "index" /\ doIndex[s]
            /\ UNCHANGED <<stubs, indexState>>
            /\ \/ indexState \in {"absent", "torn"} /\ UNCHANGED faults
               \/ indexState # "absent" /\ D!Fault
        BY <1>1, <2>5 DEF D!ReadIndexFails, D!NoFault, D!Unlock, PhaseMatches, FreshRoot,
           D!indexFile
      <3>2. Holder = Nobody /\ Holder' = Nobody
        BY <1>1, <3>1 DEF Holder, Opening
      <3>3. /\ UNCHANGED Found
            /\ indexState \in {"absent", "torn"} => Found \in {"empty", "unreadable"}
            /\ indexState # "absent" => Found \in {"whole", "unreadable"}
        BY <1>4, <1>5, <2>1, <3>1
      <3> QED
        BY <1>1, <1>3, <1>6, <1>7, <1>9, <2>1, <2>2, <3>1, <3>2, <3>3, OpenSteps
    <2> QED
      BY <1>12, <2>3, <2>4, <2>5 DEF OpenThrows
  <1> QED
    BY <1>10, <1>11, <1>12 DEF InitSession

LEMMA ClosingMaps ==
  ASSUME IInv, NEW s \in Sessions, CloseDatastore(s)
  PROVE  A!Next \/ UNCHANGED A!vars
  <1> USE SessionsAssumption DEF IInv
  <1>1. /\ D!Step(s) /\ s \in Users
        /\ \A t \in Sessions : t \in Users /\ t # Nobody /\ t # Others /\ t \notin Programs
    BY DEF CloseDatastore, D!Step, Users
  <1>2. phase = "close" /\ busy = s /\ UNCHANGED <<program, todo, viewed>>
    BY DEF CloseDatastore
  <1>3. \A t \in Sessions \ {s} : pc[t] = "idle" /\ pc'[t] = "idle" /\ (opened'[t] <=> opened[t])
    <2>1. \A t \in Sessions \ {s} : pc[t] = "idle"
      BY <1>1, <1>2 DEF OneAtATime, Opening, TypeInv
    <2> QED
      BY <1>1, <2>1, StepFrame
  <1>4. pc[s] \in {"idle", "write"} /\ pc'[s] \in {"idle", "write"}
    BY <1>1 DEF CloseDatastore, D!TruncateIndex, D!WriteIndex, D!CloseWithoutIndex, D!Usable,
       D!GoTo, TypeInv
  <1>5. \A t \in Sessions : ~Opening(t) /\ ~Opening(t)'
    BY <1>3, <1>4 DEF Opening
  <1>6. Found = IF stubs = {} /\ indexState = "absent" THEN "empty"
                ELSE IF indexState = "whole" THEN "whole" ELSE "unreadable"
    BY <1>5 DEF Found
  <1>7. Found' = IF stubs' = {} /\ indexState' = "absent" THEN "empty"
                 ELSE IF indexState' = "whole" THEN "whole" ELSE "unreadable"
    BY <1>5 DEF Found
  <1>8. CASE D!TruncateIndex(s)
    <2>1. /\ indexState' = "torn" /\ lock' = lock /\ opened' = opened /\ UNCHANGED faults
          /\ busy' = s
      BY <1>8 DEF CloseDatastore, D!TruncateIndex, D!NoFault, D!Usable
    <2>2. OpenSessions' = OpenSessions
      BY <1>5, <2>1 DEF OpenSessions
    <2>3. HalfOpen' = HalfOpen
      BY <2>1, <2>2 DEF HalfOpen
    <2>4. Holder' = Holder
      BY <1>5, <2>1 DEF Holder
    <2>5. Found # "missing" /\ Found' = "unreadable"
      BY <1>6, <1>7, <2>1
    <2> QED
      BY <1>2, <2>1, <2>2, <2>3, <2>4, <2>5, OthersSteps DEF Kept, loops
  <1>9. CASE D!WriteIndex(s) \/ D!CloseWithoutIndex(s)
    <2>1. /\ lock' = IF lock = s THEN Nobody ELSE lock
          /\ ~opened'[s] /\ busy' = Nobody /\ stubs' = stubs
          /\ \/ UNCHANGED faults /\ indexState' = "whole"
             \/ D!Fault /\ indexState' = "torn"
             \/ D!Fault /\ UNCHANGED indexState
      BY <1>1, <1>9 DEF CloseDatastore, D!WriteIndex, D!CloseWithoutIndex, D!NoFault, D!Unlock,
         D!indexFile, TypeInv
    <2>2. OpenSessions' = OpenSessions \ {s}
      BY <1>3, <1>5, <2>1 DEF OpenSessions
    <2>3. HalfOpen' = HalfOpen \ {s}
      BY <1>1, <2>1, <2>2 DEF HalfOpen, OpenSessions
    <2>4. Holder' = IF Holder = s THEN Nobody ELSE Holder
      BY <1>1, <1>5, <2>1 DEF Holder
    <2>5. \/ UNCHANGED faults /\ Found' = "whole"
          \/ D!Fault /\ Found' = "unreadable"
          \/ D!Fault /\ UNCHANGED Found
      BY <1>6, <1>7, <2>1
    <2> QED
      BY <1>2, <2>1, <2>2, <2>3, <2>4, <2>5, CloseStep
  <1> QED
    BY <1>8, <1>9 DEF CloseDatastore

LEMMA InitMaps == Init => A!Init
  <1> SUFFICES ASSUME Init PROVE A!Init
    OBVIOUS
  <1>1. OpenSessions = {} /\ HalfOpen = {} /\ Holder = Nobody /\ Found \in {"empty", "whole"}
    BY SessionsAssumption DEF Init, D!Init, D!Linkages, OpenSessions, HalfOpen, Holder, Found,
       Opening
  <1> QED
    BY <1>1 DEF Init, D!Init, A!Init

\* The steps of open_impl and close_impl, with those of other programs between
\* them and their crashes, amount to what App says of a session that is opened
\* or closed.
THEOREM SessionsImplementApp == Spec => ImplementsApp
  <1>1. IInv /\ [Next]_vars => [A!Next]_A!vars
    <2> SUFFICES ASSUME IInv, [Next]_vars PROVE A!Next \/ UNCHANGED A!vars
      OBVIOUS
    <2>1. CASE UNCHANGED vars
      <3>1. UNCHANGED <<Found, Holder>> /\ Kept
        BY <2>1 DEF vars, datastores, loops, program, Kept, Found, Holder, OpenSessions, HalfOpen,
           Opening
      <3> QED
        BY <3>1, OthersSteps
    <2>2. CASE Next
      BY <2>2, ProgramMaps, OthersMap, OpeningMaps, ClosingMaps DEF Next
    <2> QED
      BY <2>1, <2>2
  <1> QED
    BY InitMaps, <1>1, Invariance, PTL DEF Spec, ImplementsApp, A!Spec
=============================================================================
