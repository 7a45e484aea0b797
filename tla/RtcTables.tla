----------------------------- MODULE RtcTables -----------------------------
(***************************************************************************)
(* Processes and the tables that hold their pids: the configurator starts  *)
(* and stops the master, creates and deletes slaves, connects and          *)
(* disconnects them, one by one or in the automatic test; the master gives *)
(* a segment to a slave that is to be connected and takes it back.         *)
(*                                                                         *)
(* The exchange of requests and responses that connects or disconnects a   *)
(* slave is one step here, it is the subject of module Rtc. No cycle runs. *)
(* A command is given, and a wait times out, when all work is done         *)
(* (AtRest); pids are never used again, since nobody waits for the dead.   *)
(* The model does not go on when a second master runs, or when a thread    *)
(* has been misled by what it read in place of a pid (ThreadMisled).       *)
(***************************************************************************)
EXTENDS RtcProbe, FiniteSets

CONSTANTS
    Garbage,       \* a pid of no process, that a stale stack may hold
    Masters,       \* bound: the pids that fork gives to masters
    MaxTest,       \* bound: slaves the automatic test is asked for
    MasterFirst,   \* the user gives other commands only with a master running
    Overfill       \* the test may be asked for more slaves than have room

Slaves == Pids \ {Garbage}

ASSUME TablesAssumption ==
    /\ Garbage \in Pids
    /\ Masters \cap (Pids \cup {NO_PID}) = {}
    /\ MaxTest \in Nat
    /\ MasterFirst \in BOOLEAN
    /\ Overfill \in BOOLEAN

VARIABLES
    \* processes
    forked,         \* every pid fork has given
    alive,          \* the slaves that live
    masters,        \* the masters that live
    \* the shared memory zone
    shm_exists,
    seg_pid,        \* slave_shmseg[...].pid
    is_connected,   \* slave_shmseg[...].is_connected
    \* the configurator
    created_pid,    \* created_slave[...].pid
    connected,      \* created_slave[...].connected
    created_slaves_number,
    master_pid,
    cfg_pc,         \* "menu", "starting", "wait", "test_create", "test_connect"
    todo,           \* slaves the test has to create
    place,          \* where its loop over the records is; MAX_SLAVES without test
    \* the control zone and the SIGUSR2 that are pending
    request,
    affected,
    master_usr2,
    configurator_usr2,
    \* the master
    master_ready,   \* its init is done
    sync_pc,        \* "sigwait", or "created" while a stack frame is in use
    slot,           \* what the argument of the newest thread points to
    thr_pc,         \* where the thread created for a slave is, or "none"
    thr_pid,        \* its slave_pid
    thr_idx,        \* its shmsegIdx
    serving,        \* the threads in the loop of each segment
    exchange,       \* the segments whose slave has a request to answer
    misled          \* a thread works for another process than it was made for

procVars == <<forked, alive, masters>>
shmVars == <<shm_exists, seg_pid, is_connected>>
registryVars == <<created_pid, connected, created_slaves_number>>
testVars == <<todo, place>>
ctlVars == <<request, affected, configurator_usr2>>
threadVars == <<thr_pc, thr_pid, thr_idx, serving, exchange>>
syncVars == <<master_ready, sync_pc, slot>>
masterVars == <<threadVars, syncVars>>
tableVars == <<procVars, shmVars, registryVars, master_pid, cfg_pc, testVars,
               ctlVars, master_usr2, masterVars>>
vars == <<tableVars, misled>>

ThreadPcs == {"none", "start", "search", "assign", "write", "send"}

TypeOK ==
    /\ forked \subseteq Slaves \cup Masters
    /\ alive \subseteq Slaves
    /\ masters \subseteq Masters
    /\ shm_exists \in BOOLEAN
    /\ seg_pid \in Tables
    /\ is_connected \in [Indexes -> BOOLEAN]
    /\ created_pid \in Tables
    /\ connected \in [Indexes -> BOOLEAN]
    /\ created_slaves_number \in Nat
    /\ master_pid \in Masters \cup Slaves \cup {NO_PID}
    /\ cfg_pc \in {"menu", "starting", "wait", "test_create", "test_connect"}
    /\ todo \in Nat
    /\ place \in 0 .. MAX_SLAVES
    /\ request \in {"OTHER", "CONNECT_SLAVE", "DISCONNECT_SLAVE"}
    /\ affected \in Slaves \cup {NO_PID}
    /\ master_usr2 \in BOOLEAN
    /\ configurator_usr2 \in BOOLEAN
    /\ master_ready \in BOOLEAN
    /\ sync_pc \in {"sigwait", "created"}
    /\ slot \in Pids
    /\ thr_pc \in [Slaves -> ThreadPcs]
    /\ thr_pid \in [Slaves -> Pids]
    /\ thr_idx \in [Slaves -> Indexes]
    /\ serving \in [Indexes -> Int]
    /\ exchange \subseteq Indexes
    /\ misled \in BOOLEAN

(* The configurator has just started, and no shared memory zone is left    *)
(* from an earlier time.                                                   *)
Init ==
    /\ forked = {}
    /\ alive = {}
    /\ masters = {}
    /\ shm_exists = FALSE
    /\ seg_pid = [x \in Indexes |-> NO_PID]
    /\ is_connected = [x \in Indexes |-> FALSE]
    /\ created_pid = [x \in Indexes |-> NO_PID]
    /\ connected = [x \in Indexes |-> FALSE]
    /\ created_slaves_number = 0
    /\ master_pid = NO_PID
    /\ cfg_pc = "menu"
    /\ todo = 0
    /\ place = MAX_SLAVES
    /\ request = "OTHER"
    /\ affected = NO_PID
    /\ master_usr2 = FALSE
    /\ configurator_usr2 = FALSE
    /\ master_ready = FALSE
    /\ sync_pc = "sigwait"
    /\ slot = Garbage
    /\ thr_pc = [s \in Slaves |-> "none"]
    /\ thr_pid = [s \in Slaves |-> Garbage]
    /\ thr_idx = [s \in Slaves |-> 0]
    /\ serving = [x \in Indexes |-> 0]
    /\ exchange = {}
    /\ misled = FALSE

-----------------------------------------------------------------------------
(* Every thread of the master waits, and no slave has anything to answer.  *)
AtRest ==
    /\ masters # {} => master_ready
    /\ sync_pc = "sigwait" /\ ~master_usr2
    /\ \A s \in Slaves : thr_pc[s] = "none"
    /\ exchange = {}

AtMenu ==
    /\ cfg_pc = "menu"
    /\ AtRest
    /\ MasterFirst => master_pid # NO_PID

(* kill(pid, SIGINT) and kill(pid, SIGUSR2). NO_PID is -1, which kill takes *)
(* for every process but the caller. A slave blocks neither signal and     *)
(* ends; a master blocks SIGUSR2 and takes it for a command.               *)
KillInt(pid) ==
    /\ alive' = IF pid = NO_PID THEN {} ELSE alive \ {pid}
    /\ masters' = IF pid = NO_PID THEN {} ELSE masters \ {pid}

KillUsr2(pid) ==
    /\ alive' = IF pid = NO_PID THEN {} ELSE alive \ {pid}
    /\ master_usr2' = (master_usr2 \/ pid \in masters \/ (pid = NO_PID /\ masters # {}))

(* created_slave[-1] is what precedes the array in configurator_context_t: *)
(* pid is master_pid, connected the low byte of created_slaves_number.     *)
WithLowByte(n, b) == n - (n % 256) + b

SetRecord(x, pid, number) ==
    /\ created_pid' = [created_pid EXCEPT ![x] = pid]
    /\ connected' = [connected EXCEPT ![x] = FALSE]
    /\ created_slaves_number' =
         IF x = NO_IDX THEN WithLowByte(number, 0) ELSE number

-----------------------------------------------------------------------------
(* START_MASTER: the master is forked and its signal awaited.              *)
StartMaster(m) ==
    /\ cfg_pc = "menu"
    /\ AtRest
    /\ master_pid = NO_PID
    /\ m \notin forked
    /\ forked' = forked \cup {m}
    /\ masters' = masters \cup {m}
    /\ master_pid' = m
    /\ master_ready' = FALSE
    /\ cfg_pc' = "starting"
    /\ UNCHANGED <<alive, shmVars, registryVars, testVars, ctlVars, master_usr2,
                   sync_pc, slot, threadVars>>

(* Mutant: the zone is taken over as it was left.                          *)
MasterInit_NotCleared ==
    /\ cfg_pc = "starting"
    /\ ~master_ready
    /\ master_ready' = TRUE
    /\ shm_exists' = TRUE
    /\ configurator_usr2' = TRUE
    /\ UNCHANGED <<procVars, seg_pid, is_connected, registryVars, master_pid,
                   cfg_pc, testVars, request, affected, master_usr2, sync_pc,
                   slot, threadVars>>

(* The master creates the zone, or takes over the one that exists, clears  *)
(* it, and signals the configurator.                                       *)
MasterInit ==
    /\ cfg_pc = "starting"
    /\ ~master_ready
    /\ master_ready' = TRUE
    /\ shm_exists' = TRUE
    /\ seg_pid' = [x \in Indexes |-> NO_PID]
    /\ is_connected' = [x \in Indexes |-> FALSE]
    /\ configurator_usr2' = TRUE
    /\ UNCHANGED <<procVars, registryVars, master_pid, cfg_pc, testVars, request,
                   affected, master_usr2, sync_pc, slot, threadVars>>

MasterStarted ==
    /\ cfg_pc = "starting"
    /\ configurator_usr2
    /\ configurator_usr2' = FALSE
    /\ cfg_pc' = "menu"
    /\ UNCHANGED <<procVars, shmVars, registryVars, master_pid, testVars,
                   request, affected, master_usr2, masterVars>>

(* STOP_MASTER: every slave with a segment is killed and its record freed, *)
(* then the master is. A pid without a record has index -1, and freeing    *)
(* that record makes master_pid -1 before the master is signalled.         *)
Attached == {seg_pid[x] : x \in Indexes} \ {NO_PID}

Unrecorded == {p \in Attached : getAssignedIdx(created_pid, p) = NO_IDX}

Freed == {getAssignedIdx(created_pid, p) : p \in Attached}

StopMaster ==
    /\ AtMenu
    /\ master_pid # NO_PID
    /\ LET target == IF Unrecorded = {} THEN master_pid ELSE NO_PID
       IN  /\ alive' = IF target = NO_PID THEN {} ELSE alive \ (Attached \cup {target})
           /\ masters' = IF target = NO_PID THEN {} ELSE masters \ {target}
    /\ created_pid' = [x \in Indexes |-> IF x \in Freed THEN NO_PID ELSE created_pid[x]]
    /\ connected' = [x \in Indexes |-> connected[x] /\ x \notin Freed]
    /\ created_slaves_number' = IF Unrecorded = {} THEN created_slaves_number
                                ELSE WithLowByte(created_slaves_number, 0)
    /\ master_pid' = NO_PID
    /\ serving' = IF masters' = {} THEN [x \in Indexes |-> 0] ELSE serving
    /\ UNCHANGED <<forked, shmVars, cfg_pc, testVars, ctlVars, master_usr2,
                   syncVars, thr_pc, thr_pid, thr_idx, exchange>>

-----------------------------------------------------------------------------
(* A new slave ends at once when there is no zone it can attach.           *)
ForkSlave(s) ==
    /\ s \notin forked
    /\ forked' = forked \cup {s}
    /\ alive' = IF shm_exists THEN alive \cup {s} ELSE alive

(* Mutant: the place is taken without a search.                            *)
RegisterSlaveLocally_NoSearch(s) ==
    /\ SetRecord(Home[s], s, created_slaves_number + 1)
    /\ UNCHANGED master_pid

RegisterSlaveLocally(s) ==
    LET x == assignIdx(created_pid, s)
    IN  /\ SetRecord(x, s, created_slaves_number + 1)
        /\ master_pid' = IF x = NO_IDX THEN s ELSE master_pid

(* Mutant: the number of slaves is compared too late.                      *)
CreateSlave_OffByOne(s) ==
    /\ AtMenu
    /\ created_slaves_number <= MAX_SLAVES
    /\ ForkSlave(s)
    /\ RegisterSlaveLocally(s)
    /\ UNCHANGED <<masters, shmVars, cfg_pc, testVars, ctlVars, master_usr2,
                   masterVars>>

CreateSlave(s) ==
    /\ AtMenu
    /\ created_slaves_number < MAX_SLAVES
    /\ ForkSlave(s)
    /\ RegisterSlaveLocally(s)
    /\ UNCHANGED <<masters, shmVars, cfg_pc, testVars, ctlVars, master_usr2,
                   masterVars>>

Disconnected == {x \in Indexes : created_pid[x] # NO_PID /\ ~connected[x]}

DeleteSlave(s) ==
    LET x == getAssignedIdx(created_pid, s)
    IN  /\ AtMenu
        /\ x \in Disconnected
        /\ SetRecord(x, NO_PID, created_slaves_number)
        /\ KillInt(s)
        /\ UNCHANGED <<forked, shmVars, master_pid, cfg_pc, testVars, ctlVars,
                       master_usr2, masterVars>>

(* A command about a slave goes to whatever process master_pid names.      *)
SendCommand(r, s) ==
    /\ request' = r
    /\ affected' = s
    /\ KillUsr2(master_pid)
    /\ cfg_pc' = "wait"
    /\ UNCHANGED <<forked, masters, shmVars, registryVars, master_pid, todo,
                   configurator_usr2, masterVars>>

ConnectSlave(s) ==
    /\ AtMenu
    /\ \E x \in Disconnected : created_pid[x] = s
    /\ SendCommand("CONNECT_SLAVE", s)
    /\ UNCHANGED place

DisconnectSlave(s) ==
    /\ AtMenu
    /\ \E x \in Indexes : is_connected[x] /\ seg_pid[x] = s
    /\ SendCommand("DISCONNECT_SLAVE", s)
    /\ UNCHANGED place

(* The wait is over, in the menu or in the loop of the test.               *)
EndWait ==
    /\ IF place = MAX_SLAVES
       THEN cfg_pc' = "menu" /\ UNCHANGED place
       ELSE cfg_pc' = "test_connect" /\ place' = place + 1
    /\ UNCHANGED <<procVars, shmVars, created_pid, master_pid, todo, request,
                   affected, master_usr2, masterVars>>

(* Only ACK comes here; what is refused is the subject of module Rtc.      *)
ReceiveResponse ==
    LET x == getAssignedIdx(created_pid, affected)
        on == request = "CONNECT_SLAVE"
    IN  /\ cfg_pc = "wait"
        /\ configurator_usr2
        /\ configurator_usr2' = FALSE
        /\ connected' = [connected EXCEPT ![x] = on]
        /\ created_slaves_number' =
             IF x = NO_IDX
             THEN WithLowByte(created_slaves_number, IF on THEN 1 ELSE 0)
             ELSE created_slaves_number
        /\ EndWait

(* Mutant: the wait ends before the work can be done.                      *)
WaitTimeout_TooShort ==
    /\ cfg_pc = "wait"
    /\ UNCHANGED <<connected, created_slaves_number, configurator_usr2>>
    /\ EndWait

WaitTimeout ==
    /\ cfg_pc = "wait"
    /\ AtRest
    /\ ~configurator_usr2
    /\ UNCHANGED <<connected, created_slaves_number, configurator_usr2>>
    /\ EndWait

-----------------------------------------------------------------------------
(* AUTOMATIC_TEST, up to the stage where the slaves are connected.         *)
StartTest(n) ==
    /\ AtMenu
    /\ Overfill \/ created_slaves_number + n <= MAX_SLAVES
    /\ n <= Cardinality(Slaves \ forked)
    /\ todo' = n
    /\ cfg_pc' = "test_create"
    /\ UNCHANGED <<procVars, shmVars, registryVars, master_pid, place, ctlVars,
                   master_usr2, masterVars>>

(* Mutant: the loop goes round once more than the slaves asked for.        *)
TestCreate_OffByOne(s) ==
    /\ cfg_pc = "test_create"
    /\ ForkSlave(s)
    /\ RegisterSlaveLocally(s)
    /\ todo' = todo - 1
    /\ IF todo = 0
       THEN cfg_pc' = "test_connect" /\ place' = 0
       ELSE UNCHANGED <<cfg_pc, place>>
    /\ UNCHANGED <<masters, shmVars, ctlVars, master_usr2, masterVars>>

TestCreate(s) ==
    /\ cfg_pc = "test_create"
    /\ ForkSlave(s)
    /\ RegisterSlaveLocally(s)
    /\ todo' = todo - 1
    /\ IF todo = 1
       THEN cfg_pc' = "test_connect" /\ place' = 0
       ELSE UNCHANGED <<cfg_pc, place>>
    /\ UNCHANGED <<masters, shmVars, ctlVars, master_usr2, masterVars>>

TestConnect(x) ==
    /\ cfg_pc = "test_connect"
    /\ x >= place
    /\ x \in Disconnected
    /\ \A y \in Disconnected : y >= place => x <= y
    /\ place' = x
    /\ SendCommand("CONNECT_SLAVE", created_pid[x])

TestEnd ==
    /\ cfg_pc = "test_connect"
    /\ \A y \in Disconnected : y < place
    /\ place' = MAX_SLAVES
    /\ cfg_pc' = "menu"
    /\ UNCHANGED <<procVars, shmVars, registryVars, master_pid, todo, ctlVars,
                   master_usr2, masterVars>>

-----------------------------------------------------------------------------
(* The command thread. The new thread is given the address of a parameter  *)
(* of the function that creates it (master.c 182), which returns at once.  *)
CreateProcessorThread ==
    /\ sync_pc = "sigwait"
    /\ master_usr2
    /\ master_usr2' = FALSE
    /\ request = "CONNECT_SLAVE"
    /\ thr_pc[affected] = "none"
    /\ thr_pc' = [thr_pc EXCEPT ![affected] = "start"]
    /\ slot' = affected
    /\ sync_pc' = "created"
    /\ UNCHANGED <<procVars, shmVars, registryVars, master_pid, cfg_pc, testVars,
                   ctlVars, master_ready, thr_pid, thr_idx, serving, exchange>>

(* The stack frame is used again, for something else. What is left of it   *)
(* may be the pid of no process, or anything else: see ThreadMisled.       *)
SyncThreadReturns ==
    /\ sync_pc = "created"
    /\ sync_pc' = "sigwait"
    /\ slot' = Garbage
    /\ UNCHANGED <<procVars, shmVars, registryVars, master_pid, cfg_pc, testVars,
                   ctlVars, master_usr2, master_ready, threadVars>>

(* A slave that has died does not answer. A slave that listed has a segment. *)
SendDisconnect ==
    LET x == getAssignedIdx(seg_pid, affected)
    IN  /\ sync_pc = "sigwait"
        /\ master_usr2
        /\ master_usr2' = FALSE
        /\ request = "DISCONNECT_SLAVE"
        /\ exchange' = IF affected \in alive THEN exchange \cup {x} ELSE exchange
        /\ UNCHANGED <<procVars, shmVars, registryVars, master_pid, cfg_pc,
                       testVars, ctlVars, syncVars, thr_pc, thr_pid, thr_idx,
                       serving>>

-----------------------------------------------------------------------------
(* slave_processor_detached_thread up to its loop, for the CONNECT_SLAVE   *)
(* that was given for slave s.                                             *)
ThrGoto(s, from, to) ==
    /\ thr_pc[s] = from
    /\ thr_pc' = [thr_pc EXCEPT ![s] = to]

ReadSlavePid(s) ==
    /\ ThrGoto(s, "start", "search")
    /\ thr_pid' = [thr_pid EXCEPT ![s] = slot]
    /\ UNCHANGED <<seg_pid, is_connected, thr_idx, serving, exchange>>

SearchOwn(s) ==
    /\ ThrGoto(s, "search", IF getAssignedIdx(seg_pid, thr_pid[s]) = NO_IDX
                            THEN "assign" ELSE "none")
    /\ UNCHANGED <<seg_pid, is_connected, thr_pid, thr_idx, serving, exchange>>

(* Without a free place the thread ends, and the configurator is not told. *)
SearchFree(s) ==
    LET x == assignIdx(seg_pid, thr_pid[s])
    IN  /\ ThrGoto(s, "assign", IF x = NO_IDX THEN "none" ELSE "write")
        /\ thr_idx' = [thr_idx EXCEPT ![s] = IF x = NO_IDX THEN @ ELSE x]
        /\ UNCHANGED <<seg_pid, is_connected, thr_pid, serving, exchange>>

WriteSegmentPid(s) ==
    /\ ThrGoto(s, "write", "send")
    /\ seg_pid' = [seg_pid EXCEPT ![thr_idx[s]] = thr_pid[s]]
    /\ serving' = [serving EXCEPT ![thr_idx[s]] = @ + 1]
    /\ UNCHANGED <<is_connected, thr_pid, thr_idx, exchange>>

(* Mutant: the segment is kept when the slave cannot be signalled.         *)
SendConnect_NoReset(s) ==
    LET x == thr_idx[s]
    IN  /\ ThrGoto(s, "send", "none")
        /\ IF seg_pid[x] \in forked
           THEN /\ exchange' = IF seg_pid[x] \in alive THEN exchange \cup {x} ELSE exchange
                /\ UNCHANGED serving
           ELSE /\ serving' = [serving EXCEPT ![x] = @ - 1]
                /\ UNCHANGED exchange
        /\ UNCHANGED <<seg_pid, is_connected, thr_pid, thr_idx>>

(* CONNECT_SLAVE goes to the pid found in the segment. When no process has *)
(* it the segment is reset, the thread ends, and nobody is told.           *)
SendConnect(s) ==
    LET x == thr_idx[s]
    IN  /\ ThrGoto(s, "send", "none")
        /\ IF seg_pid[x] \in forked
           THEN /\ exchange' = IF seg_pid[x] \in alive THEN exchange \cup {x} ELSE exchange
                /\ UNCHANGED <<seg_pid, is_connected, serving>>
           ELSE /\ seg_pid' = [seg_pid EXCEPT ![x] = NO_PID]
                /\ is_connected' = [is_connected EXCEPT ![x] = FALSE]
                /\ serving' = [serving EXCEPT ![x] = @ - 1]
                /\ UNCHANGED exchange
        /\ UNCHANGED <<thr_pid, thr_idx>>

(* The word in the frame that is used again is 0, which kill() takes for   *)
(* the whole process group; or negative, so that the search starts in front *)
(* of the zone; or the pid of another process, which is then signalled and *)
(* keeps the segment and the thread, if it has none yet (master.c 36, 519). *)
ThreadMisled ==
    /\ sync_pc = "sigwait"
    /\ \E s \in Slaves : thr_pc[s] = "start"
    /\ misled' = TRUE
    /\ UNCHANGED tableVars

ProcessorThread ==
    /\ \E s \in Slaves :
          \/ ReadSlavePid(s) \/ SearchOwn(s) \/ SearchFree(s)
          \/ WriteSegmentPid(s) \/ SendConnect(s)
    /\ UNCHANGED <<procVars, shm_exists, registryVars, master_pid, cfg_pc,
                   testVars, ctlVars, master_usr2, syncVars>>

(* The slave finds the segment and answers, and the thread of the master   *)
(* completes what was asked: the slave is connected, or the segment reset. *)
CompleteExchange(x) ==
    /\ x \in exchange
    /\ seg_pid[x] \in alive
    /\ exchange' = exchange \ {x}
    /\ IF is_connected[x]
       THEN /\ seg_pid' = [seg_pid EXCEPT ![x] = NO_PID]
            /\ is_connected' = [is_connected EXCEPT ![x] = FALSE]
            /\ serving' = [serving EXCEPT ![x] = @ - 1]
       ELSE /\ is_connected' = [is_connected EXCEPT ![x] = TRUE]
            /\ UNCHANGED <<seg_pid, serving>>
    /\ configurator_usr2' = TRUE
    /\ UNCHANGED <<procVars, shm_exists, registryVars, master_pid, cfg_pc,
                   testVars, request, affected, master_usr2, syncVars, thr_pc,
                   thr_pid, thr_idx>>

-----------------------------------------------------------------------------
MasterSteps ==
    \/ MasterInit
    \/ CreateProcessorThread \/ SyncThreadReturns \/ SendDisconnect
    \/ ProcessorThread
    \/ \E x \in Indexes : CompleteExchange(x)

ConfiguratorSteps ==
    \/ \E m \in Masters : StartMaster(m)
    \/ MasterStarted
    \/ StopMaster
    \/ \E s \in Slaves :
          \/ CreateSlave(s) \/ DeleteSlave(s)
          \/ ConnectSlave(s) \/ DisconnectSlave(s)
          \/ TestCreate(s)
    \/ ReceiveResponse
    \/ WaitTimeout
    \/ \E n \in 1 .. MaxTest : StartTest(n)
    \/ \E x \in Indexes : TestConnect(x)
    \/ TestEnd

Next ==
    /\ Cardinality(masters) <= 1
    /\ ~misled
    /\ \/ (MasterSteps \/ ConfiguratorSteps) /\ UNCHANGED misled
       \/ ThreadMisled

Spec == Init /\ [][Next]_vars

=============================================================================
