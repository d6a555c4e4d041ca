------------------------------ MODULE AppProofs ------------------------------
(***************************************************************************)
(* Theorems about App, for any sessions on any roots, any of them opened   *)
(* or created by themselves, and any number of failures.                   *)
(***************************************************************************)
EXTENDS App, TLAPS

-----------------------------------------------------------------------------
(* The inductive invariant.                                                *)

\* The loops over the sessions go over managed ones.
TodoManaged == phase \in {"init", "close"} => todo \subseteq managed

\* A session holds the lock of no other root than its own.
LocksAtRoots == \A r \in Roots : lock[r] \in Sessions => RootOf[lock[r]] = r

\* The session the Init command is for was opened in full and has a view.
BusyUsable ==
    busy # NoSession =>
        \/ phase = "init" /\ busy \in (opened \cap viewed) \ half
        \/ phase = "close"

\* Nothing is current once the loop has ended.
NoneCurrent == phase \in {"close", "done"} => current = NoSession

\* What is open while sessions are closed is yet to be reached, under way, or
\* failed to close.
OpenAccounted ==
    /\ phase = "close" => opened \subseteq kept \cup todo \cup {busy}
    /\ phase = "done" => opened \subseteq kept

\* --no-stdout silences the log for good; the end gives stdout and the terminal
\* back.
StdoutObeys ==
    /\ noStdout => ~stdout
    /\ phase = "done" => ~uiOpen /\ (noStdout \/ stdout)

IInv ==
    /\ TypeOK
    /\ CurrentUsable
    /\ RootsExclusive
    /\ TodoManaged
    /\ LocksAtRoots
    /\ BusyUsable
    /\ NoneCurrent
    /\ OpenAccounted
    /\ StdoutObeys

-----------------------------------------------------------------------------
\* toggle_stdout keeps StdoutObeys.
LEMMA Toggled ==
    ASSUME NEW enable \in BOOLEAN, noStdout \in BOOLEAN, stdout \in BOOLEAN,
           noStdout => ~stdout, ToggleStdout(enable)
    PROVE  /\ stdout' \in BOOLEAN
           /\ noStdout => ~stdout'
           /\ ~noStdout => stdout' = enable
  <1>1. CASE noStdout
    BY <1>1 DEF ToggleStdout
  <1>2. CASE ~noStdout
    BY <1>2 DEF ToggleStdout
  <1> QED BY <1>1, <1>2

\* What viewc can be.
LEMMA NoViews == <<>> \in Seq(Sessions)
  OBVIOUS

LEMMA OneView == ASSUME NEW s \in Sessions PROVE <<s>> \in Seq(Sessions)
  OBVIOUS

LEMMA InvInit == Init => IInv
  <1> SUFFICES ASSUME Init PROVE IInv
    OBVIOUS
  <1> USE DEF Init
  <1>1. TypeOK
    <2>1. noStdout \in BOOLEAN /\ stdout \in BOOLEAN /\ uiOpen \in BOOLEAN /\ running \in BOOLEAN
      OBVIOUS
    <2>2. viewc \in Seq(Sessions) /\ faults \in 0..MaxFaults
      BY MaxFaultsAssumption, NoViews
    <2>3. lock \in [Roots -> Sessions \cup {NoSession, Others}]
      OBVIOUS
    <2> QED
      BY <2>1, <2>2, <2>3 DEF TypeOK
  <1>2. CurrentUsable /\ RootsExclusive
    BY NoSessionAssumption DEF CurrentUsable, RootsExclusive
  <1>3. TodoManaged /\ LocksAtRoots /\ BusyUsable /\ NoneCurrent
    BY NoSessionAssumption DEF TodoManaged, LocksAtRoots, BusyUsable, NoneCurrent
  <1>4. OpenAccounted /\ StdoutObeys
    BY DEF OpenAccounted, StdoutObeys
  <1> QED BY <1>1, <1>2, <1>3, <1>4 DEF IInv

LEMMA InvNext == IInv /\ [Next]_vars => IInv'
  <1> SUFFICES ASSUME IInv, [Next]_vars PROVE IInv'
    OBVIOUS
  <1> USE DEF IInv, ui, sessions, shown, closing, NoFault, Fault
  <1> USE NoSessionAssumption, OthersAssumption, RootOfAssumption, AutoAssumption, MaxFaultsAssumption
  <1>1. CASE ReadArgs
    BY <1>1 DEF ReadArgs, TypeOK, CurrentUsable, RootsExclusive, TodoManaged,
       LocksAtRoots, BusyUsable, NoneCurrent, OpenAccounted, StdoutObeys
  <1>2. CASE LoadConfig
    BY <1>2 DEF LoadConfig, TypeOK, CurrentUsable, RootsExclusive, TodoManaged,
       LocksAtRoots, BusyUsable, NoneCurrent, OpenAccounted, StdoutObeys
  <1>3. CASE InitReturns
    BY <1>3 DEF InitReturns, TypeOK, CurrentUsable, RootsExclusive, TodoManaged,
       LocksAtRoots, BusyUsable, NoneCurrent, OpenAccounted, StdoutObeys
  <1>4. CASE StartUi
    <2>1. /\ stdout' \in BOOLEAN
          /\ noStdout => ~stdout'
          /\ ~noStdout => stdout' = FALSE
      BY <1>4, Toggled DEF StartUi, TypeOK, StdoutObeys
    <2>2. TypeOK'
      BY <1>4, <2>1, NoViews DEF StartUi, TypeOK
    <2>3. CurrentUsable' /\ RootsExclusive' /\ TodoManaged' /\ LocksAtRoots'
      BY <1>4 DEF StartUi, CurrentUsable, RootsExclusive, TodoManaged,
         LocksAtRoots, NoneCurrent, TypeOK
    <2>4. BusyUsable' /\ NoneCurrent' /\ OpenAccounted'
      BY <1>4 DEF StartUi, BusyUsable, NoneCurrent, OpenAccounted, TypeOK
    <2>5. StdoutObeys'
      BY <1>4, <2>1 DEF StartUi, StdoutObeys
    <2> QED
      BY <2>2, <2>3, <2>4, <2>5
  <1>5. CASE EnterLoop
    BY <1>5 DEF EnterLoop, TypeOK, CurrentUsable, RootsExclusive, TodoManaged,
       LocksAtRoots, BusyUsable, NoneCurrent, OpenAccounted, StdoutObeys
  <1>6. CASE LeaveLoop
    BY <1>6 DEF LeaveLoop, TypeOK, CurrentUsable, RootsExclusive, TodoManaged,
       LocksAtRoots, BusyUsable, NoneCurrent, OpenAccounted, StdoutObeys
  <1>7. CASE CloseUi
    <2>1. /\ stdout' \in BOOLEAN
          /\ noStdout => ~stdout'
          /\ ~noStdout => stdout' = TRUE
      BY <1>7, Toggled DEF CloseUi, TypeOK, StdoutObeys
    <2>2. TypeOK'
      BY <1>7, <2>1, NoViews DEF CloseUi, TypeOK
    <2>3. CurrentUsable' /\ RootsExclusive' /\ TodoManaged' /\ LocksAtRoots'
      BY <1>7 DEF CloseUi, CurrentUsable, RootsExclusive, TodoManaged,
         LocksAtRoots, NoneCurrent, TypeOK
    <2>4. BusyUsable' /\ NoneCurrent' /\ OpenAccounted'
      BY <1>7 DEF CloseUi, BusyUsable, NoneCurrent, OpenAccounted, TypeOK
    <2>5. StdoutObeys'
      BY <1>7, <2>1 DEF CloseUi, StdoutObeys
    <2> QED
      BY <2>2, <2>3, <2>4, <2>5
  <1>8. CASE Quit
    BY <1>8 DEF Quit, TypeOK, CurrentUsable, RootsExclusive, TodoManaged,
       LocksAtRoots, BusyUsable, NoneCurrent, OpenAccounted, StdoutObeys
  <1>9. CASE UiThrows
    <2>1. /\ stdout' \in BOOLEAN
          /\ noStdout => ~stdout'
          /\ ~noStdout => stdout' = TRUE
      BY <1>9, Toggled DEF UiThrows, TypeOK, StdoutObeys
    <2> QED
      BY <1>9, <2>1, NoViews DEF UiThrows, TypeOK, CurrentUsable,
         RootsExclusive, TodoManaged, LocksAtRoots, BusyUsable, NoneCurrent,
         OpenAccounted, StdoutObeys
  <1>10. ASSUME NEW s \in Sessions, AddSession(s) PROVE IInv'
    BY <1>10 DEF AddSession, TypeOK, CurrentUsable, RootsExclusive, TodoManaged,
       LocksAtRoots, BusyUsable, NoneCurrent, OpenAccounted, StdoutObeys
  <1>11. ASSUME NEW s \in Sessions, InitCommand(s) PROVE IInv'
    <2>1. s \in (opened \cap viewed) \ half
      BY <1>11 DEF InitCommand, BusyUsable
    <2>2. \/ UNCHANGED shown
          \/ current' = s /\ viewc' = <<s>>
      BY <1>11, <2>1 DEF InitCommand, SetSession
    <2>3. TypeOK'
      <3>1. viewc' \in Seq(Sessions) /\ current' \in Sessions \cup {NoSession}
        BY <2>2, OneView DEF TypeOK
      <3>2. busy' = NoSession /\ faults' \in 0..MaxFaults
        BY <1>11 DEF InitCommand, TypeOK
      <3> QED
        BY <1>11, <3>1, <3>2 DEF InitCommand, TypeOK
    <2>4. CurrentUsable'
      BY <1>11, <2>1, <2>2 DEF InitCommand, CurrentUsable
    <2> QED
      BY <1>11, <2>3, <2>4 DEF InitCommand, RootsExclusive, TodoManaged,
         LocksAtRoots, BusyUsable, NoneCurrent, OpenAccounted, StdoutObeys
  <1>12. ASSUME NEW s \in Sessions, CloseSession(s) PROVE IInv'
    <2>1. CASE s \notin opened /\ NoFault /\ UNCHANGED <<busy, viewed, shown, closing>>
      BY <1>12, <2>1 DEF CloseSession, TypeOK, CurrentUsable, RootsExclusive,
         TodoManaged, LocksAtRoots, BusyUsable, NoneCurrent, OpenAccounted,
         StdoutObeys
    <2>2. CASE s \in opened /\ StoreFails(s)
      BY <1>12, <2>2 DEF CloseSession, StoreFails, TypeOK, CurrentUsable,
         RootsExclusive, TodoManaged, LocksAtRoots, BusyUsable, NoneCurrent,
         OpenAccounted, StdoutObeys
    <2>3. CASE s \in opened /\ Stored(s)
      <3>1. UNCHANGED shown
        BY <1>12, <2>3 DEF CloseSession, Stored, NoneCurrent
      <3>2. TypeOK'
        BY <1>12, <2>3, <3>1 DEF CloseSession, Stored, TypeOK
      <3> QED
        BY <1>12, <2>3, <3>1, <3>2 DEF CloseSession, Stored, TypeOK,
           CurrentUsable, RootsExclusive, TodoManaged, LocksAtRoots, BusyUsable,
           NoneCurrent, OpenAccounted, StdoutObeys
    <2> QED
      BY <1>12, <2>1, <2>2, <2>3 DEF CloseSession
  <1>13. ASSUME NEW s \in Sessions, CloseRefused(s) PROVE IInv'
    BY <1>13 DEF CloseRefused, TypeOK, CurrentUsable, RootsExclusive,
       TodoManaged, LocksAtRoots, BusyUsable, NoneCurrent, OpenAccounted,
       StdoutObeys
  <1>14. ASSUME NEW s \in Sessions, CloseDatastore(s) PROVE IInv'
    BY <1>14 DEF CloseDatastore, TypeOK, CurrentUsable, RootsExclusive,
       TodoManaged, LocksAtRoots, BusyUsable, NoneCurrent, OpenAccounted,
       StdoutObeys
  <1>15. ASSUME NEW s \in Sessions, InitSession(s) PROVE IInv'
    <2>1. CASE s \in opened
      BY <1>15, <2>1 DEF InitSession, TypeOK, CurrentUsable, RootsExclusive,
         TodoManaged, LocksAtRoots, BusyUsable, NoneCurrent, OpenAccounted,
         StdoutObeys
    <2>2. CASE s \notin opened /\ OpenRefused(s) /\ UNCHANGED <<busy, viewed, lock>>
      <3>1. disk' \in [Roots -> {"missing", "empty", "whole", "unreadable"}] /\ faults' \in 0..MaxFaults
        BY <2>2 DEF OpenRefused, Created, TypeOK
      <3> QED
        BY <1>15, <2>2, <3>1 DEF InitSession, OpenRefused, TypeOK,
           CurrentUsable, RootsExclusive, TodoManaged, LocksAtRoots, BusyUsable,
           NoneCurrent, OpenAccounted, StdoutObeys
    <2>3. CASE s \notin opened /\ OpenHalf(s) /\ UNCHANGED <<busy, viewed, lock>>
      <3>1. s \in managed /\ s # current
        BY <1>15, <2>3 DEF InitSession, TodoManaged, CurrentUsable, TypeOK
      <3> QED
        BY <1>15, <2>3, <3>1 DEF InitSession, OpenHalf, TypeOK, CurrentUsable,
           RootsExclusive, TodoManaged, LocksAtRoots, BusyUsable, NoneCurrent,
           OpenAccounted, StdoutObeys
    <2>4. CASE s \notin opened /\ OpenReturns(s)
      <3>1. s \in managed /\ s # current
        BY <1>15, <2>4 DEF InitSession, TodoManaged, CurrentUsable, TypeOK
      <3>2. disk' \in [Roots -> {"missing", "empty", "whole", "unreadable"}]
        BY <2>4 DEF OpenReturns, Opens, Created, TypeOK
      <3>3. lock' = [lock EXCEPT ![RootOf[s]] = s] /\ lock[RootOf[s]] = NoSession
        BY <2>4 DEF OpenReturns, Opens
      <3>4. opened' = opened \cup {s} /\ half' = half /\ viewed' = viewed \cup {s} /\ busy' = s /\ faults' = faults
        BY <2>4 DEF OpenReturns, Opens
      <3>5. TypeOK'
        BY <1>15, <3>1, <3>2, <3>3, <3>4 DEF InitSession, TypeOK
      <3>6. s \notin half
        BY <2>4 DEF TypeOK
      <3>7. RootsExclusive'
        BY <3>3, <3>4, <3>6 DEF RootsExclusive, TypeOK
      <3> QED
        BY <1>15, <3>1, <3>3, <3>4, <3>5, <3>6, <3>7 DEF InitSession,
           CurrentUsable, TodoManaged, LocksAtRoots, BusyUsable, NoneCurrent,
           OpenAccounted, StdoutObeys, TypeOK
    <2> QED
      BY <1>15, <2>1, <2>2, <2>3, <2>4 DEF InitSession, OpenThrows
  <1>16. ASSUME NEW r \in Roots, OthersLock(r) \/ OthersWrite(r) \/ OthersUnlock(r) PROVE IInv'
    BY <1>16 DEF OthersLock, OthersWrite, OthersUnlock, OthersUnchanged, TypeOK,
       CurrentUsable, RootsExclusive, TodoManaged, LocksAtRoots, BusyUsable,
       NoneCurrent, OpenAccounted, StdoutObeys
  <1>17. CASE UNCHANGED vars
    BY <1>17 DEF vars, TypeOK, CurrentUsable, RootsExclusive, TodoManaged,
       LocksAtRoots, BusyUsable, NoneCurrent, OpenAccounted, StdoutObeys
  <1> QED
    BY <1>1, <1>2, <1>3, <1>4, <1>5, <1>6, <1>7, <1>8, <1>9, <1>10, <1>11, <1>12,
       <1>13, <1>14, <1>15, <1>16, <1>17 DEF Next, Work

LEMMA Invariance == Spec => []IInv
  BY InvInit, InvNext, PTL DEF Spec

-----------------------------------------------------------------------------
(* The theorems.                                                           *)

\* The variables keep their types; what is open and what has a view is managed.
THEOREM TypeCorrect == Spec => []TypeOK
  <1>1. IInv => TypeOK
    BY DEF IInv
  <1> QED BY <1>1, Invariance, PTL

\* However many sessions fail to open, initialize or close, and whatever other
\* programs do to their roots, the session the event filter hands events to is
\* open in full, has a view, and that view is the one displayed.
THEOREM CurrentIsUsable == Spec => []CurrentUsable
  <1>1. IInv => CurrentUsable
    BY DEF IInv
  <1> QED BY <1>1, Invariance, PTL

\* Sessions that are open with their index read hold the locks of their roots,
\* so that no two of them share one, and a closed session holds none.
THEOREM RootsAreExclusive == Spec => []RootsExclusive
  <1>1. IInv => RootsExclusive
    BY DEF IInv
  <1> QED BY <1>1, Invariance, PTL

\* At the end only sessions that failed to close are open or hold a lock, and
\* the terminal and stdout are given back.
THEOREM AllClosedAtEnd == Spec => []ClosedAtEnd
  <1>1. IInv => ClosedAtEnd
    BY DEF IInv, TypeOK, RootsExclusive, OpenAccounted, StdoutObeys, ClosedAtEnd
  <1> QED BY <1>1, Invariance, PTL
=============================================================================
