----------------------------- MODULE RtcMaster -----------------------------
(***************************************************************************)
(* The master process (master.c) after init: the SIGUSR1 handler that runs *)
(* in async_signal_handler_thread, the sync_signal_handler_thread that     *)
(* takes the commands of the configurator, and one detached processor      *)
(* thread per connected slave.                                             *)
(***************************************************************************)
EXTENDS RtcShm

CONSTANTS
    MaxTokens,   \* bound: signals of one slave that wait for its thread
    MaxSpawned,  \* bound: processor threads created and not yet running
    Stale        \* what a new thread may read instead of the pid it was given

(* A word that is no pid of a slave: the pid of no process, 0, which kill() *)
(* takes for the whole process group, or a negative one.                   *)
Words == {"nobody", "group", "negative"}

ASSUME MasterAssumption ==
    /\ MaxTokens \in Nat \ {0}
    /\ MaxSpawned \in Nat \ {0}
    /\ Stale \subseteq Slaves \cup Words
    /\ Slaves \cap Words = {}

VARIABLES
    sig_semaphore,   \* for each slave, the signals its thread has to process
    spawned,         \* processor threads created for a slave, not yet running
    assigning,       \* those that found no segment of the slave, and have not
                     \* written its pid into a free one yet
    clash,           \* two threads serve one segment, or one slave
    thr_pc,          \* where slave_processor_detached_thread is, or "none"
    sync_pc,         \* where sync_signal_handler_thread is
    sync_req,        \* the request it has to send
    sync_slave       \* and the slave it has to send it to

startVars == <<spawned, assigning, clash>>
masterVars == <<sig_semaphore, startVars, thr_pc, sync_pc, sync_req, sync_slave>>

ThrPcs == {"none", "connect_lock", "connect_send", "wait", "check", "request",
           "response", "rename_lock", "rename_send"}
SyncPcs == {"sigwait", "lock", "send"}

MasterTypeOK ==
    /\ sig_semaphore \in [Slaves -> Nat]
    /\ spawned \in [Slaves -> Nat]
    /\ assigning \in [Slaves -> Nat]
    /\ clash \in BOOLEAN
    /\ thr_pc \in [Slaves -> ThrPcs]
    /\ sync_pc \in SyncPcs
    /\ sync_req \in LinkRequests
    /\ sync_slave \in Slaves \cup {NoPid}

MasterInit ==
    /\ sig_semaphore = [s \in Slaves |-> 0]
    /\ spawned = [s \in Slaves |-> 0]
    /\ assigning = [s \in Slaves |-> 0]
    /\ clash = FALSE
    /\ thr_pc = [s \in Slaves |-> "none"]
    /\ sync_pc = "sigwait"
    /\ sync_req = "START_MASTER"
    /\ sync_slave = NoPid

-----------------------------------------------------------------------------
(* async_signal_handler: the signal is counted for the thread of the slave *)
(* whose pid came with it; a pid that owns no segment is ignored.          *)
AsyncSignalHandler ==
    /\ master_usr1 # NoPid
    /\ master_usr1' = NoPid
    /\ \/ /\ owned[master_usr1]
          /\ sig_semaphore[master_usr1] < MaxTokens
          /\ sig_semaphore' = [sig_semaphore EXCEPT ![master_usr1] = @ + 1]
       \/ /\ ~owned[master_usr1]
          /\ UNCHANGED sig_semaphore
    /\ UNCHANGED <<segVars, ctlVars, liveVars, slave_usr1, master_usr2,
                   configurator_usr2, startVars, thr_pc, sync_pc, sync_req,
                   sync_slave>>

-----------------------------------------------------------------------------
(* sync_signal_handler_thread. What it does with a SIGUSR2 depends on the  *)
(* request and on the pid that the control zone holds at that time.        *)

CommandPending == sync_pc = "sigwait" /\ master_usr2

TakeCommand(to) ==
    /\ CommandPending
    /\ master_usr2' = FALSE
    /\ sync_pc' = to

(* Mutant: the configurator is signalled with the response of old.         *)
AnswerConfigurator_NotWritten(r) ==
    /\ response' = response
    /\ KillConfigurator

AnswerConfigurator(r) ==
    /\ response' = r
    /\ KillConfigurator

(* The new thread is given the address of the parameter that holds the pid, *)
(* and the function returns at once: see PidRead for what the thread reads. *)
HandleConfiguratorConnectSlaveRequest ==
    /\ request = "CONNECT_SLAVE"
    /\ TakeCommand("sigwait")
    /\ spawned[affected] < MaxSpawned
    /\ spawned' = [spawned EXCEPT ![affected] = @ + 1]
    /\ UNCHANGED <<req_m_to_s, sem_m_to_s, response, slave_usr1,
                   configurator_usr2, liveVars, sync_req, sync_slave>>

(* A request for a slave goes to the lock of its segment. It is refused    *)
(* when the slave has no segment, or has no cycle time to start with.      *)
HandleConfiguratorCycleSlaveRequest ==
    /\ CommandPending
    /\ request \in {"START_SLAVE_CYCLE", "STOP_SLAVE_CYCLE"}
    /\ IF owned[affected] /\ (request = "START_SLAVE_CYCLE" => cycle_us_set[affected])
       THEN /\ TakeCommand("lock")
            /\ sync_req' = request
            /\ sync_slave' = affected
            /\ UNCHANGED <<response, configurator_usr2>>
       ELSE /\ TakeCommand("sigwait")
            /\ AnswerConfigurator("NACK")
            /\ UNCHANGED <<sync_req, sync_slave>>
    /\ UNCHANGED <<req_m_to_s, sem_m_to_s, slave_usr1, liveVars, spawned>>

(* The index of the segment is not checked here: with no segment it is -1, *)
(* in front of the shared memory. What the process does then is undefined, *)
(* and the model ends it there.                                            *)
HandleConfiguratorDisconnectSlaveRequest ==
    /\ request = "DISCONNECT_SLAVE"
    /\ TakeCommand("lock")
    /\ master_alive' = owned[affected]
    /\ sync_req' = request
    /\ sync_slave' = affected
    /\ UNCHANGED <<req_m_to_s, sem_m_to_s, response, slave_usr1,
                   configurator_usr2, alive, configurator_alive, spawned>>

HandleUnknownCommand ==
    /\ request \in {"DELETE_SLAVE", "OTHER"}
    /\ TakeCommand("sigwait")
    /\ UNCHANGED <<req_m_to_s, sem_m_to_s, response, slave_usr1,
                   configurator_usr2, liveVars, spawned, sync_req, sync_slave>>

LockRequest ==
    /\ sync_pc = "lock"
    /\ sem_m_to_s[sync_slave] > 0
    /\ sem_m_to_s' = [sem_m_to_s EXCEPT ![sync_slave] = @ - 1]
    /\ sync_pc' = "send"
    /\ UNCHANGED <<req_m_to_s, response, slave_usr1, master_usr2,
                   configurator_usr2, liveVars, spawned, sync_req, sync_slave>>

(* DISCONNECT_SLAVE goes to the pid found in the segment. When the segment *)
(* has been reset meanwhile that pid is -1, which kill() takes for every   *)
(* process: all the slaves get the signal, and the configurator, which does *)
(* not block SIGUSR1, dies of it.                                          *)
SendRequest ==
    /\ sync_pc = "send"
    /\ sync_pc' = "sigwait"
    /\ req_m_to_s' = [req_m_to_s EXCEPT ![sync_slave] = sync_req]
    /\ IF sync_req = "DISCONNECT_SLAVE" /\ ~owned[sync_slave]
       THEN /\ slave_usr1' = [s \in Slaves |-> slave_usr1[s] \/ alive[s]]
            /\ configurator_alive' = FALSE
       ELSE /\ KillSlave(sync_slave)
            /\ UNCHANGED configurator_alive
    /\ UNCHANGED <<sem_m_to_s, response, master_usr2, configurator_usr2, alive,
                   master_alive, spawned, sync_req, sync_slave>>

SyncSignalHandlerThread ==
    /\ \/ HandleConfiguratorConnectSlaveRequest
       \/ HandleConfiguratorCycleSlaveRequest
       \/ HandleConfiguratorDisconnectSlaveRequest
       \/ HandleUnknownCommand
       \/ LockRequest
       \/ SendRequest
    /\ UNCHANGED <<owned, is_connected, name, res_s_to_m, req_s_to_m,
                   cycle_started, cycle_us_set, sem_s_to_m, request, affected,
                   master_usr1, sig_semaphore, assigning, clash, thr_pc>>

-----------------------------------------------------------------------------
(* slave_processor_detached_thread, one per segment in use.                *)

resetVars == <<name, res_s_to_m, req_s_to_m, cycle_started, cycle_us_set,
               sem_s_to_m>>
answerVars == <<response, configurator_usr2>>

ThrGoto(s, from, to) ==
    /\ thr_pc[s] = from
    /\ thr_pc' = [thr_pc EXCEPT ![s] = to]

PostRequest(s) == sem_m_to_s' = [sem_m_to_s EXCEPT ![s] = @ + 1]

(* The start of the thread. It reads the pid from a stack frame that may   *)
(* have been used again since.                                             *)
PidRead(s) == {s} \cup (Stale \cap Slaves)

(* Mutant: a slave that has a segment is given one more.                   *)
SearchSegment_Unchecked(s) ==
    /\ spawned[s] > 0
    /\ spawned' = [spawned EXCEPT ![s] = @ - 1]
    /\ \E t \in PidRead(s) : assigning' = [assigning EXCEPT ![t] = @ + 1]
    /\ UNCHANGED <<owned, is_connected, resetVars, answerVars, req_m_to_s,
                   sem_m_to_s, slave_usr1, sig_semaphore, clash, thr_pc>>

(* A thread for a slave that has a segment already ends at once, and the   *)
(* configurator is not told. Otherwise it searches for a free segment.     *)
SearchSegment(s) ==
    /\ spawned[s] > 0
    /\ spawned' = [spawned EXCEPT ![s] = @ - 1]
    /\ \E t \in PidRead(s) :
          \/ /\ owned[t]
             /\ UNCHANGED assigning
          \/ /\ ~owned[t]
             /\ assigning' = [assigning EXCEPT ![t] = @ + 1]
    /\ UNCHANGED <<owned, is_connected, resetVars, answerVars, req_m_to_s,
                   sem_m_to_s, slave_usr1, sig_semaphore, clash, thr_pc>>

WriteSegmentPid(s) ==
    /\ assigning[s] > 0
    /\ assigning' = [assigning EXCEPT ![s] = @ - 1]
    /\ ~owned[s]
    /\ owned' = [owned EXCEPT ![s] = TRUE]
    /\ ThrGoto(s, "none", "connect_lock")
    /\ UNCHANGED <<is_connected, resetVars, answerVars, req_m_to_s, sem_m_to_s,
                   slave_usr1, sig_semaphore, spawned, clash>>

(* Another thread is between its creation and the write of its pid.        *)
StartsOverlap(s) ==
    \/ spawned[s] > 0
    \/ assigning[s] > 1
    \/ \E t \in Slaves \ {s} : spawned[t] > 0 \/ assigning[t] > 0

(* The slave was given a segment between the search and the write, and is  *)
(* served by two threads now; or a thread that starts at the same time has *)
(* found the same free segment. The master goes on with a segment that two *)
(* threads post, lock and reset; the model ends the master there.          *)
ServeTwice(s) ==
    /\ assigning[s] > 0
    /\ assigning' = [assigning EXCEPT ![s] = @ - 1]
    /\ owned[s] \/ StartsOverlap(s)
    /\ clash' = TRUE
    /\ UNCHANGED <<owned, is_connected, resetVars, answerVars, req_m_to_s,
                   sem_m_to_s, slave_usr1, sig_semaphore, spawned, thr_pc>>

(* The thread has read the pid of no process: it takes a segment, fails to *)
(* signal its owner, resets the segment and ends. Nobody is told.          *)
LoseConnect(s) ==
    /\ "nobody" \in Stale
    /\ spawned[s] > 0
    /\ spawned' = [spawned EXCEPT ![s] = @ - 1]
    /\ UNCHANGED <<owned, is_connected, resetVars, answerVars, req_m_to_s,
                   sem_m_to_s, slave_usr1, sig_semaphore, assigning, clash,
                   thr_pc>>

LockOwnRequest(s) ==
    /\ sem_m_to_s[s] > 0
    /\ sem_m_to_s' = [sem_m_to_s EXCEPT ![s] = @ - 1]
    /\ \/ ThrGoto(s, "connect_lock", "connect_send")
       \/ ThrGoto(s, "rename_lock", "rename_send")
    /\ UNCHANGED <<owned, is_connected, resetVars, answerVars, req_m_to_s,
                   slave_usr1, sig_semaphore, startVars>>

SendConnectSlaveRequest(s) ==
    /\ ThrGoto(s, "connect_send", "wait")
    /\ req_m_to_s' = [req_m_to_s EXCEPT ![s] = "CONNECT_SLAVE"]
    /\ KillSlave(s)
    /\ UNCHANGED <<owned, is_connected, resetVars, answerVars, sem_m_to_s,
                   sig_semaphore, startVars>>

SendChangeNameSlaveRequest(s) ==
    /\ ThrGoto(s, "rename_send", "wait")
    /\ req_m_to_s' = [req_m_to_s EXCEPT ![s] = "CHANGE_SLAVE_NAME"]
    /\ KillSlave(s)
    /\ UNCHANGED <<owned, is_connected, resetVars, answerVars, sem_m_to_s,
                   sig_semaphore, startVars>>

(* One counted signal is processed. The first semaphore decides: locked    *)
(* means that the slave has a request.                                     *)
ProcessSignal(s) ==
    /\ sig_semaphore[s] > 0
    /\ sig_semaphore' = [sig_semaphore EXCEPT ![s] = @ - 1]
    /\ ThrGoto(s, "wait", IF sem_s_to_m[s] = 0 THEN "request" ELSE "check")
    /\ UNCHANGED <<owned, is_connected, resetVars, answerVars, req_m_to_s,
                   sem_m_to_s, slave_usr1, startVars>>

(* The second semaphore: locked means that the slave has responded.        *)
CheckSlaveResponse(s) ==
    /\ ThrGoto(s, "check", IF sem_m_to_s[s] = 0 THEN "response" ELSE "wait")
    /\ UNCHANGED <<owned, is_connected, resetVars, answerVars, req_m_to_s,
                   sem_m_to_s, slave_usr1, sig_semaphore, startVars>>

(* The values are taken over and the slave is answered; the request of a   *)
(* slave that is not connected, or an unknown request, is left unanswered. *)
HandleSlaveRequest(s) ==
    /\ ThrGoto(s, "request", "wait")
    /\ IF is_connected[s] /\ req_s_to_m[s] = "SIGNAL_MASTER_PARAMETER"
       THEN KillSlave(s)
       ELSE UNCHANGED slave_usr1
    /\ UNCHANGED <<owned, is_connected, resetVars, answerVars, req_m_to_s,
                   sem_m_to_s, sig_semaphore, startVars>>

(* handle_slave_response, by the state of the slave, the request the master *)
(* sent last and the response found in the segment.                        *)

(* The response to a command is passed on to the configurator; only a      *)
(* refusal of DISCONNECT_SLAVE comes here.                                 *)
ForwardResponse(s) ==
    /\ is_connected[s]
    /\ \/ req_m_to_s[s] \in {"START_SLAVE_CYCLE", "STOP_SLAVE_CYCLE"}
       \/ req_m_to_s[s] = "DISCONNECT_SLAVE" /\ res_s_to_m[s] = "NACK"
    /\ ThrGoto(s, "response", "wait")
    /\ AnswerConfigurator(res_s_to_m[s])
    /\ PostRequest(s)
    /\ UNCHANGED <<owned, is_connected, resetVars, req_m_to_s, slave_usr1,
                   sig_semaphore, startVars>>

(* Mutant: only the semaphore of the slave is set back.                    *)
ResetSemaphores_SlaveOnly(s) ==
    /\ sem_s_to_m' = [sem_s_to_m EXCEPT ![s] = 1]
    /\ UNCHANGED sem_m_to_s

(* Mutant: the response to DISCONNECT_SLAVE is followed by a post, as every *)
(* other response is.                                                      *)
ResetSemaphores_PostsToo(s) ==
    /\ sem_m_to_s' = [sem_m_to_s EXCEPT ![s] = 2]
    /\ sem_s_to_m' = [sem_s_to_m EXCEPT ![s] = 1]

ResetSemaphores(s) ==
    /\ sem_m_to_s' = [sem_m_to_s EXCEPT ![s] = 1]
    /\ sem_s_to_m' = [sem_s_to_m EXCEPT ![s] = 1]

(* reset_slave_shmseg, then the thread ends. The signals counted for the   *)
(* segment are not reset with it.                                          *)
FinishDisconnect(s) ==
    /\ is_connected[s]
    /\ req_m_to_s[s] = "DISCONNECT_SLAVE"
    /\ res_s_to_m[s] = "ACK"
    /\ ThrGoto(s, "response", "none")
    /\ owned' = [owned EXCEPT ![s] = FALSE]
    /\ is_connected' = [is_connected EXCEPT ![s] = FALSE]
    /\ name' = [name EXCEPT ![s] = NoName]
    /\ req_m_to_s' = [req_m_to_s EXCEPT ![s] = "START_MASTER"]
    /\ res_s_to_m' = [res_s_to_m EXCEPT ![s] = "NACK"]
    /\ req_s_to_m' = [req_s_to_m EXCEPT ![s] = "START_MASTER"]
    /\ cycle_started' = [cycle_started EXCEPT ![s] = FALSE]
    /\ cycle_us_set' = [cycle_us_set EXCEPT ![s] = FALSE]
    /\ ResetSemaphores(s)
    /\ AnswerConfigurator("ACK")
    /\ UNCHANGED <<slave_usr1, sig_semaphore, startVars>>

(* Mutant: a name that was changed once is not compared again.             *)
must_change_name_Once(s) ==
    /\ req_m_to_s[s] = "CONNECT_SLAVE"
    /\ \E t \in Slaves \ {s} : owned[t] /\ name[t] = name[s]

must_change_name(s) == \E t \in Slaves \ {s} : owned[t] /\ name[t] = name[s]

Connecting(s) ==
    /\ ~is_connected[s]
    /\ req_m_to_s[s] \in {"CONNECT_SLAVE", "CHANGE_SLAVE_NAME"}

RefuseConnect(s) ==
    /\ Connecting(s)
    /\ res_s_to_m[s] = "NACK"
    /\ ThrGoto(s, "response", "wait")
    /\ AnswerConfigurator("NACK")
    /\ PostRequest(s)
    /\ UNCHANGED <<owned, is_connected, resetVars, req_m_to_s, slave_usr1,
                   sig_semaphore, startVars>>

(* Mutants: the lock is not released; the configurator is told too early.  *)
AskForNewName_KeepsLock(s) ==
    /\ Connecting(s) /\ res_s_to_m[s] = "ACK" /\ must_change_name(s)
    /\ ThrGoto(s, "response", "rename_lock")
    /\ UNCHANGED <<owned, is_connected, resetVars, answerVars, req_m_to_s,
                   sem_m_to_s, slave_usr1, sig_semaphore, startVars>>

AskForNewName_AnswersToo(s) ==
    /\ Connecting(s) /\ res_s_to_m[s] = "ACK" /\ must_change_name(s)
    /\ ThrGoto(s, "response", "rename_lock")
    /\ PostRequest(s)
    /\ AnswerConfigurator("ACK")
    /\ UNCHANGED <<owned, is_connected, resetVars, req_m_to_s, slave_usr1,
                   sig_semaphore, startVars>>

(* The lock is released before it is taken again for CHANGE_SLAVE_NAME.    *)
AskForNewName(s) ==
    /\ Connecting(s)
    /\ res_s_to_m[s] = "ACK"
    /\ must_change_name(s)
    /\ ThrGoto(s, "response", "rename_lock")
    /\ PostRequest(s)
    /\ UNCHANGED <<owned, is_connected, resetVars, answerVars, req_m_to_s,
                   slave_usr1, sig_semaphore, startVars>>

FinishConnect(s) ==
    /\ Connecting(s)
    /\ res_s_to_m[s] = "ACK"
    /\ ~must_change_name(s)
    /\ ThrGoto(s, "response", "wait")
    /\ is_connected' = [is_connected EXCEPT ![s] = TRUE]
    /\ AnswerConfigurator("ACK")
    /\ PostRequest(s)
    /\ UNCHANGED <<owned, resetVars, req_m_to_s, slave_usr1, sig_semaphore,
                   startVars>>

(* A response that fits no request is only logged.                         *)
IgnoreResponse(s) ==
    /\ ~Connecting(s)
    /\ is_connected[s] =>
         req_m_to_s[s] \in {"START_MASTER", "CONNECT_SLAVE", "CHANGE_SLAVE_NAME"}
    /\ ThrGoto(s, "response", "wait")
    /\ PostRequest(s)
    /\ UNCHANGED <<owned, is_connected, resetVars, answerVars, req_m_to_s,
                   slave_usr1, sig_semaphore, startVars>>

SlaveProcessorThread(s) ==
    /\ \/ SearchSegment(s)
       \/ WriteSegmentPid(s)
       \/ ServeTwice(s)
       \/ LoseConnect(s)
       \/ LockOwnRequest(s)
       \/ SendConnectSlaveRequest(s)
       \/ SendChangeNameSlaveRequest(s)
       \/ ProcessSignal(s)
       \/ CheckSlaveResponse(s)
       \/ HandleSlaveRequest(s)
       \/ ForwardResponse(s)
       \/ FinishDisconnect(s)
       \/ RefuseConnect(s)
       \/ AskForNewName(s)
       \/ FinishConnect(s)
       \/ IgnoreResponse(s)
    /\ UNCHANGED <<request, affected, liveVars, master_usr1, master_usr2,
                   sync_pc, sync_req, sync_slave>>

-----------------------------------------------------------------------------
(* The thread has read a word that other processes pay for.                *)

(* 0: a segment is taken for the owner 0, and the whole process group gets *)
(* the signal. The configurator does not block SIGUSR1 and dies of it.     *)
SignalGroup ==
    /\ "group" \in Stale
    /\ slave_usr1' = [t \in Slaves |-> slave_usr1[t] \/ alive[t]]
    /\ configurator_alive' = FALSE
    /\ UNCHANGED master_alive

(* A negative number has a negative remainder: the search starts in front  *)
(* of the shared memory, and the model ends the master there.              *)
SearchInFront ==
    /\ "negative" \in Stale
    /\ master_alive' = FALSE
    /\ UNCHANGED <<slave_usr1, configurator_alive>>

StrayThread(s) ==
    /\ spawned[s] > 0
    /\ spawned' = [spawned EXCEPT ![s] = @ - 1]
    /\ SignalGroup \/ SearchInFront
    /\ UNCHANGED <<segVars, ctlVars, alive, master_usr1, master_usr2,
                   configurator_usr2, sig_semaphore, assigning, clash, thr_pc,
                   sync_pc, sync_req, sync_slave>>

=============================================================================
