------------------------------- MODULE RtcShm -------------------------------
(***************************************************************************)
(* What the master, the slaves and the configurator share: the two shared  *)
(* memory zones (common.h, control.h), the process-shared semaphores that  *)
(* live inside them, and the signals the kernel keeps pending.             *)
(*                                                                         *)
(* A slave stands for its own segment: which of the MAX_SLAVES segments it *)
(* is given is not modelled here.                                          *)
(***************************************************************************)
EXTENDS Naturals, Sequences

CONSTANTS
    Slaves,      \* the slave processes, already forked by the configurator
    NoPid,       \* no process: no SIGUSR1 is pending for the master
    BaseName     \* the name each slave was given on its command line

ASSUME ShmAssumption ==
    /\ NoPid \notin Slaves
    /\ BaseName \in [Slaves -> Seq(Nat)]

(* Names are sequences of numbers: the first stands for a word, each later *)
(* one for a suffix "_<number>", so <<7, 1>> is the word 7 followed by _1. *)
NoName == << >>

(* OTHER stands for the commands that concern no slave that runs already.  *)
ConfiguratorRequests ==
    {"CONNECT_SLAVE", "DISCONNECT_SLAVE", "START_SLAVE_CYCLE",
     "STOP_SLAVE_CYCLE", "DELETE_SLAVE", "OTHER"}

(* request_t starts at START_MASTER, which no link request uses: it is what *)
(* a zeroed request field holds.                                            *)
LinkRequests ==
    {"START_MASTER", "CONNECT_SLAVE", "DISCONNECT_SLAVE", "CHANGE_SLAVE_NAME",
     "START_SLAVE_CYCLE", "STOP_SLAVE_CYCLE"}

SlaveRequests == {"START_MASTER", "SIGNAL_MASTER_PARAMETER"}

Responses == {"NACK", "ACK"}

-----------------------------------------------------------------------------
VARIABLES
    \* the segment of each slave (shmseg_t)
    owned,            \* its pid field holds the pid of the slave, not NO_PID
    is_connected,
    name,
    req_m_to_s,
    res_s_to_m,
    req_s_to_m,
    cycle_started,
    cycle_us_set,     \* communication_cycle_us has been given a value
    sem_m_to_s,
    sem_s_to_m,
    \* the control zone (control_shm_t)
    request,
    affected,
    response,
    \* the kernel: live processes and pending signals
    alive,             \* the slave processes that have not died
    master_alive,
    configurator_alive,
    slave_usr1,        \* SIGUSR1 pending for a slave (only the master sends it)
    master_usr1,       \* si_pid of the SIGUSR1 pending for the master, or NoPid
    master_usr2,       \* SIGUSR2 pending for the master
    configurator_usr2  \* SIGUSR2 pending for the configurator

segVars == <<owned, is_connected, name, req_m_to_s, res_s_to_m, req_s_to_m,
             cycle_started, cycle_us_set, sem_m_to_s, sem_s_to_m>>
ctlVars == <<request, affected, response>>
liveVars == <<alive, master_alive, configurator_alive>>
killVars == <<liveVars, slave_usr1, master_usr1, master_usr2, configurator_usr2>>
shmVars == <<segVars, ctlVars, killVars>>

ShmTypeOK ==
    /\ owned \in [Slaves -> BOOLEAN]
    /\ is_connected \in [Slaves -> BOOLEAN]
    /\ name \in [Slaves -> Seq(Nat)]
    /\ req_m_to_s \in [Slaves -> LinkRequests]
    /\ res_s_to_m \in [Slaves -> Responses]
    /\ req_s_to_m \in [Slaves -> SlaveRequests]
    /\ cycle_started \in [Slaves -> BOOLEAN]
    /\ cycle_us_set \in [Slaves -> BOOLEAN]
    /\ sem_m_to_s \in [Slaves -> Nat]
    /\ sem_s_to_m \in [Slaves -> Nat]
    /\ request \in ConfiguratorRequests
    /\ affected \in Slaves \cup {NoPid}
    /\ response \in Responses
    /\ alive \in [Slaves -> BOOLEAN]
    /\ master_alive \in BOOLEAN
    /\ configurator_alive \in BOOLEAN
    /\ slave_usr1 \in [Slaves -> BOOLEAN]
    /\ master_usr1 \in Slaves \cup {NoPid}
    /\ master_usr2 \in BOOLEAN
    /\ configurator_usr2 \in BOOLEAN

(* The master has initialised both zones and the semaphores, told the      *)
(* configurator so, and no command has been given yet.                     *)
ShmInit ==
    /\ owned = [s \in Slaves |-> FALSE]
    /\ is_connected = [s \in Slaves |-> FALSE]
    /\ name = [s \in Slaves |-> NoName]
    /\ req_m_to_s = [s \in Slaves |-> "START_MASTER"]
    /\ res_s_to_m = [s \in Slaves |-> "NACK"]
    /\ req_s_to_m = [s \in Slaves |-> "START_MASTER"]
    /\ cycle_started = [s \in Slaves |-> FALSE]
    /\ cycle_us_set = [s \in Slaves |-> FALSE]
    /\ sem_m_to_s = [s \in Slaves |-> 1]
    /\ sem_s_to_m = [s \in Slaves |-> 1]
    /\ request = "OTHER"
    /\ affected = NoPid
    /\ response = "NACK"
    /\ alive = [s \in Slaves |-> TRUE]
    /\ master_alive = TRUE
    /\ configurator_alive = TRUE
    /\ slave_usr1 = [s \in Slaves |-> FALSE]
    /\ master_usr1 = NoPid
    /\ master_usr2 = FALSE
    /\ configurator_usr2 = FALSE

-----------------------------------------------------------------------------
(* SIGUSR1 and SIGUSR2 are standard signals: one of each at most is pending *)
(* for a process, and a second one sent meanwhile is dropped together with  *)
(* its si_pid. A signal to a slave that has died is accepted (the parent    *)
(* never reaps it, so the pid stays valid) and has no effect.               *)

KillMaster(s) ==
    master_usr1' = IF master_usr1 = NoPid THEN s ELSE master_usr1

KillSlave(s) ==
    slave_usr1' = [slave_usr1 EXCEPT ![s] = @ \/ alive[s]]

KillConfigurator == configurator_usr2' = TRUE

=============================================================================
