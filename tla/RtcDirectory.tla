---------------------------- MODULE RtcDirectory ----------------------------
(***************************************************************************)
(* What the program promises of the processes (README.md): there is one    *)
(* master, up or not; the slaves there are were created by the configurator *)
(* and outlive the master unless they are attached to it; only a slave     *)
(* that exists is attached, only while the master is up, and none is       *)
(* deleted while it is. Nothing is said of pids, tables or signals.        *)
(***************************************************************************)
EXTENDS Naturals, FiniteSets

CONSTANTS Slaves, Room

VARIABLES
    up,         \* the master serves
    members,    \* the slaves that exist
    attached    \* those that the master is connected to

Init == up = FALSE /\ members = {} /\ attached = {}

StartUp ==
    /\ ~up
    /\ up' = TRUE
    /\ UNCHANGED <<members, attached>>

(* The slaves that are attached end with the master.                       *)
ShutDown ==
    /\ up
    /\ up' = FALSE
    /\ members' = members \ attached
    /\ attached' = {}

Join(s) ==
    /\ s \notin members
    /\ Cardinality(members) < Room
    /\ members' = members \cup {s}
    /\ UNCHANGED <<up, attached>>

Leave(s) ==
    /\ s \in members \ attached
    /\ members' = members \ {s}
    /\ UNCHANGED <<up, attached>>

Attach(s) ==
    /\ up
    /\ s \in members \ attached
    /\ attached' = attached \cup {s}
    /\ UNCHANGED <<up, members>>

Detach(s) ==
    /\ s \in attached
    /\ attached' = attached \ {s}
    /\ UNCHANGED <<up, members>>

Next ==
    \/ StartUp
    \/ ShutDown
    \/ \E s \in Slaves : Join(s) \/ Leave(s) \/ Attach(s) \/ Detach(s)

Spec == Init /\ [][Next]_<<up, members, attached>>

=============================================================================
