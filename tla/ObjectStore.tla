----------------------------- MODULE ObjectStore -----------------------------
(***************************************************************************)
(* What a datastore promises its users (an abstract specification: it      *)
(* models no code).  A user checks the whole contents out, alone; edits    *)
(* its working copy; saves it; and leaves.  A user may leave without       *)
(* having saved only by dying, and then the saved contents stay as they    *)
(* were.  Once the medium has lost the contents nothing is promised.       *)
(***************************************************************************)
EXTENDS Naturals

CONSTANTS
    Users,
    Nobody,         \* not one of the users
    Contents,       \* what a store may hold
    Initial         \* what it holds at first, one of the contents

VARIABLES
    saved,          \* the contents the next user will find
    working,        \* the copy of the user who is in (Initial when there is none)
    holder,         \* who is in
    deaths,         \* how often a user died
    broken          \* the medium lost the contents

vars == <<saved, working, holder, deaths, broken>>

TypeOK ==
    /\ saved \in Contents
    /\ working \in Contents
    /\ holder \in Users \cup {Nobody}
    /\ deaths \in Nat
    /\ broken \in BOOLEAN

Init ==
    /\ saved = Initial
    /\ working = Initial
    /\ holder = Nobody
    /\ deaths = 0
    /\ broken \in BOOLEAN

CheckOut(u) ==
    /\ holder = Nobody
    /\ holder' = u
    /\ working' = saved
    /\ UNCHANGED <<saved, deaths, broken>>

Edit(u) ==
    /\ holder = u
    /\ working' \in Contents
    /\ UNCHANGED <<saved, holder, deaths, broken>>

Save(u) ==
    /\ holder = u
    /\ saved' = working
    /\ UNCHANGED <<working, holder, deaths, broken>>

Leave(u) ==
    /\ holder = u
    /\ saved = working
    /\ holder' = Nobody
    /\ working' = Initial
    /\ UNCHANGED <<saved, deaths, broken>>

Die(u) ==
    /\ deaths' = deaths + 1
    /\ IF holder = u
       THEN holder' = Nobody /\ working' = Initial
       ELSE UNCHANGED <<holder, working>>
    /\ UNCHANGED <<saved, broken>>

Break == broken' = TRUE

Next ==
    \/ \E u \in Users : CheckOut(u) \/ Edit(u) \/ Save(u) \/ Leave(u) \/ Die(u)
    \/ Break

Spec == Init /\ [][Next]_vars
=============================================================================
