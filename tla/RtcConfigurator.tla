-------------------------- MODULE RtcConfigurator --------------------------
(***************************************************************************)
(* The menu loop of the configurator (configurator.c): a command number is *)
(* read into the control zone, the slaves it can be given for are listed,  *)
(* the user picks one, the master is signalled, and its answer is awaited  *)
(* for WAIT_TIMEOUT_SECONDS.                                               *)
(***************************************************************************)
EXTENDS RtcShm

CONSTANTS
    Commands,     \* bound: the menu commands the user gives
    MaxCommands   \* bound: how many of them

ASSUME ConfiguratorAssumption ==
    /\ Commands \subseteq ConfiguratorRequests
    /\ MaxCommands \in Nat

VARIABLES
    left,         \* the commands the user may still give
    cfg_pc,       \* "menu", "pick" or "wait"
    offered,      \* the slaves the command at hand was listed for
    created,      \* created_slave[...].pid holds the pid of the slave
    connected     \* created_slave[...].connected

configuratorVars == <<left, cfg_pc, offered, created, connected>>

ConfiguratorTypeOK ==
    /\ left \in 0 .. MaxCommands
    /\ cfg_pc \in {"menu", "pick", "wait"}
    /\ offered \in SUBSET Slaves
    /\ created \in [Slaves -> BOOLEAN]
    /\ connected \in [Slaves -> BOOLEAN]

(* The slaves have been created and registered.                            *)
ConfiguratorInit ==
    /\ left = MaxCommands
    /\ cfg_pc = "menu"
    /\ offered = {}
    /\ created = [s \in Slaves |-> TRUE]
    /\ connected = [s \in Slaves |-> FALSE]

(* The slaves listed for a command, from what the configurator knows or    *)
(* from what the segments say at that moment.                              *)
DisconnectedSlaves == {s \in Slaves : created[s] /\ ~connected[s]}

(* Mutants: slaves whose cycle runs are listed; slaves that are not        *)
(* connected are listed.                                                   *)
StoppedSlaves_Cycling == {s \in Slaves : is_connected[s]}

StoppedSlaves_Unconnected == {s \in Slaves : ~cycle_started[s]}

StoppedSlaves == {s \in Slaves : is_connected[s] /\ ~cycle_started[s]}

StartedSlaves == {s \in Slaves : owned[s] /\ is_connected[s] /\ cycle_started[s]}

Listed(r) ==
    CASE r \in {"CONNECT_SLAVE", "DELETE_SLAVE"} -> DisconnectedSlaves
      [] r \in {"DISCONNECT_SLAVE", "START_SLAVE_CYCLE"} -> StoppedSlaves
      [] r = "STOP_SLAVE_CYCLE" -> StartedSlaves
      [] r = "OTHER" -> {}

(* The command number goes into the control zone as soon as it is typed.   *)
ReadReqCode(r) ==
    /\ cfg_pc = "menu"
    /\ left > 0
    /\ left' = left - 1
    /\ request' = r
    /\ offered' = Listed(r)
    /\ cfg_pc' = "pick"
    /\ UNCHANGED <<segVars, affected, response, killVars, created, connected>>

(* The user gives no pid that was listed.                                  *)
AbandonCommand ==
    /\ cfg_pc = "pick"
    /\ cfg_pc' = "menu"
    /\ offered' = {}
    /\ UNCHANGED <<shmVars, left, created, connected>>

(* The cycle time and the parameters are written first for START. The      *)
(* segment is searched again for that, and its index is not checked: with  *)
(* no segment it is -1, and the model ends the process there.              *)
SendCommand(s) ==
    /\ cfg_pc = "pick"
    /\ request # "DELETE_SLAVE"
    /\ s \in offered
    /\ offered' = {}
    /\ IF request = "START_SLAVE_CYCLE" /\ ~owned[s]
       THEN /\ configurator_alive' = FALSE
            /\ UNCHANGED <<cfg_pc, affected, cycle_us_set, master_usr2>>
       ELSE /\ cycle_us_set' = [cycle_us_set EXCEPT
                                  ![s] = @ \/ request = "START_SLAVE_CYCLE"]
            /\ affected' = s
            /\ master_usr2' = TRUE
            /\ cfg_pc' = "wait"
            /\ UNCHANGED configurator_alive
    /\ UNCHANGED <<owned, is_connected, name, req_m_to_s, res_s_to_m,
                   req_s_to_m, cycle_started, sem_m_to_s, sem_s_to_m, request,
                   response, alive, master_alive, slave_usr1, master_usr1,
                   configurator_usr2, left, created, connected>>

DeleteSlave(s) ==
    /\ cfg_pc = "pick"
    /\ request = "DELETE_SLAVE"
    /\ s \in offered
    /\ offered' = {}
    /\ alive' = [alive EXCEPT ![s] = FALSE]
    /\ created' = [created EXCEPT ![s] = FALSE]
    /\ connected' = [connected EXCEPT ![s] = FALSE]
    /\ cfg_pc' = "menu"
    /\ UNCHANGED <<segVars, ctlVars, master_alive, configurator_alive,
                   slave_usr1, master_usr1, master_usr2, configurator_usr2, left>>

(* Mutant: the record is not brought up to date after DISCONNECT_SLAVE.    *)
ConnectedAfter_ConnectOnly ==
    IF response = "ACK" /\ request = "CONNECT_SLAVE" /\ created[affected]
    THEN [connected EXCEPT ![affected] = TRUE]
    ELSE connected

(* For a slave that was deleted the index is -1, and the byte written is   *)
(* one of the count of slaves, which is not modelled: no record changes.   *)
ConnectedAfter ==
    IF /\ response = "ACK"
       /\ request \in {"CONNECT_SLAVE", "DISCONNECT_SLAVE"}
       /\ created[affected]
    THEN [connected EXCEPT ![affected] = (request = "CONNECT_SLAVE")]
    ELSE connected

(* The first SIGUSR2 that comes, or is pending already, ends the wait, and *)
(* the response is read then.                                              *)
ReceiveResponse ==
    /\ cfg_pc = "wait"
    /\ configurator_usr2
    /\ configurator_usr2' = FALSE
    /\ cfg_pc' = "menu"
    /\ connected' = ConnectedAfter
    /\ UNCHANGED <<segVars, ctlVars, liveVars, slave_usr1, master_usr1,
                   master_usr2, left, offered, created>>

(* sigtimedwait gives up; the command is not withdrawn.                    *)
WaitTimeout ==
    /\ cfg_pc = "wait"
    /\ ~configurator_usr2
    /\ cfg_pc' = "menu"
    /\ UNCHANGED <<shmVars, left, offered, created, connected>>

NextCommand == \E r \in Commands : ReadReqCode(r)

AnswerPrompt ==
    \/ AbandonCommand
    \/ \E s \in Slaves : SendCommand(s) \/ DeleteSlave(s)

=============================================================================
