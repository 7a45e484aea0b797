----------------------------- MODULE RtcSession -----------------------------
(***************************************************************************)
(* What the program promises of the session between the master and each    *)
(* slave (README.md): a slave is connected under a name that no other      *)
(* connected slave has, its communication cycle runs only while it is      *)
(* connected, and it is disconnected only when the cycle has been stopped. *)
(* Nothing is said here of signals, semaphores, threads or shared memory.  *)
(***************************************************************************)
EXTENDS TLAPS

CONSTANTS Slaves, NoName

VARIABLES
    phase,   \* "detached", "attaching", "connected" or "cycling"
    title    \* the name the slave goes by

sessionVars == <<phase, title>>

Phases == {"detached", "attaching", "connected", "cycling"}

InSession(s) == phase[s] \in {"connected", "cycling"}

Init ==
    /\ phase = [s \in Slaves |-> "detached"]
    /\ title = [s \in Slaves |-> NoName]

Move(s, from, to) ==
    /\ phase[s] = from
    /\ phase' = [phase EXCEPT ![s] = to]

(* The master gives the slave a segment.                                   *)
Attach(s) ==
    /\ Move(s, "detached", "attaching")
    /\ UNCHANGED title

(* The slave says its name, or changes it when asked to.                   *)
TakeName(s) ==
    /\ phase[s] = "attaching"
    /\ title' = [title EXCEPT ![s] = title'[s]]
    /\ UNCHANGED phase

Connect(s) ==
    /\ Move(s, "attaching", "connected")
    /\ \A t \in Slaves \ {s} : InSession(t) => title[t] # title[s]
    /\ UNCHANGED title

StartCycle(s) ==
    /\ Move(s, "connected", "cycling")
    /\ UNCHANGED title

StopCycle(s) ==
    /\ Move(s, "cycling", "connected")
    /\ UNCHANGED title

Disconnect(s) ==
    /\ Move(s, "connected", "detached")
    /\ title' = [title EXCEPT ![s] = NoName]

Next ==
    \E s \in Slaves :
        \/ Attach(s)
        \/ TakeName(s)
        \/ Connect(s)
        \/ StartCycle(s)
        \/ StopCycle(s)
        \/ Disconnect(s)

Spec == Init /\ [][Next]_sessionVars

-----------------------------------------------------------------------------
(* No two slaves in session go by the same name.                           *)
UniqueTitles ==
    \A s, t \in Slaves : s # t /\ InSession(s) /\ InSession(t) => title[s] # title[t]

(* Every slave has a phase and a name.                                     *)
Tables == phase \in [Slaves -> Phases] /\ title = [s \in Slaves |-> title[s]]

(* The names of slaves in session are different: a slave enters a session  *)
(* under a name that no other in session has, and names change only before *)
(* a session or at its end.                                                *)
THEOREM TitlesUnique == Spec => []UniqueTitles
<1> DEFINE Inv == Tables /\ UniqueTitles
<1>1. Init => Inv
    BY DEF Init, Tables, UniqueTitles, InSession, Phases
<1>2. Inv /\ [Next]_sessionVars => Inv'
    <2> SUFFICES ASSUME Inv, [Next]_sessionVars PROVE Inv'
        OBVIOUS
    <2> USE DEF Tables, UniqueTitles, InSession, Phases, Move
    <2>1. ASSUME NEW s \in Slaves, Attach(s) PROVE Inv'
        BY <2>1 DEF Attach
    <2>2. ASSUME NEW s \in Slaves, TakeName(s) PROVE Inv'
        BY <2>2 DEF TakeName
    <2>3. ASSUME NEW s \in Slaves, Connect(s) PROVE Inv'
        BY <2>3 DEF Connect
    <2>4. ASSUME NEW s \in Slaves, StartCycle(s) PROVE Inv'
        BY <2>4 DEF StartCycle
    <2>5. ASSUME NEW s \in Slaves, StopCycle(s) PROVE Inv'
        BY <2>5 DEF StopCycle
    <2>6. ASSUME NEW s \in Slaves, Disconnect(s) PROVE Inv'
        BY <2>6 DEF Disconnect
    <2>7. CASE UNCHANGED sessionVars
        BY <2>7 DEF sessionVars
    <2> QED
        BY <2>1, <2>2, <2>3, <2>4, <2>5, <2>6, <2>7 DEF Next
<1>3. Inv => UniqueTitles
    OBVIOUS
<1> QED
    BY <1>1, <1>2, <1>3, PTL DEF Spec

=============================================================================
