-------------------------------- MODULE Rtc --------------------------------
(***************************************************************************)
(* The whole program: the master, its slaves and the configurator, each    *)
(* with its threads, over the shared memory and the signals of RtcShm.     *)
(***************************************************************************)
EXTENDS RtcSlave, RtcMaster, RtcConfigurator

CONSTANT Prompt   \* whether WAIT_TIMEOUT_SECONDS outlasts every other delay

ASSUME RtcAssumption == Prompt \in BOOLEAN

vars == <<shmVars, slaveVars, masterVars, configuratorVars>>

TypeOK == ShmTypeOK /\ SlaveTypeOK /\ MasterTypeOK /\ ConfiguratorTypeOK

Init == ShmInit /\ SlaveInit /\ MasterInit /\ ConfiguratorInit

-----------------------------------------------------------------------------
(* Time. In the code everything may take any time; with Prompt every sleep  *)
(* (usleep, sigtimedwait) outlasts the work that is under way when it ends. *)

SignalThreadIdle(s) ==
    \/ ~alive[s]
    \/ sig_pc[s] = "sigwait" /\ ~slave_usr1[s]
    \/ sig_pc[s] = "stop_wait" /\ allow[s] = 0

ProcessorIdle(s) ==
    /\ spawned[s] = 0 /\ assigning[s] = 0
    /\ \/ thr_pc[s] = "none"
       \/ thr_pc[s] = "wait" /\ sig_semaphore[s] = 0
       \/ thr_pc[s] \in {"connect_lock", "rename_lock"} /\ sem_m_to_s[s] = 0

SyncThreadIdle ==
    \/ sync_pc = "sigwait" /\ ~master_usr2
    \/ sync_pc = "lock" /\ sem_m_to_s[sync_slave] = 0

(* Nothing is under way that concerns the slave, but for its own cycle.    *)
Quiet(s) ==
    \/ ~master_alive
    \/ /\ SyncThreadIdle
       /\ master_usr1 # s
       /\ ProcessorIdle(s)
       /\ SignalThreadIdle(s)

Asleep(s) ==
    \/ cyc_pc[s] = "sample"
    \/ cyc_pc[s] = "trylock" /\ threshold[s] > 0

(* Nothing is under way at all, and no STOP waits for the end of a cycle.  *)
Settled ==
    \A s \in Slaves :
        /\ Quiet(s)
        /\ \/ ~alive[s]
           \/ cyc_pc[s] = "gate" /\ allow[s] = 0
           \/ Asleep(s) /\ sig_pc[s] # "stop_wait"

-----------------------------------------------------------------------------
SignalThread(s) ==
    SignalHandlerThread(s) /\ UNCHANGED <<masterVars, configuratorVars>>

CycleThread(s) ==
    /\ Prompt /\ Asleep(s) => Quiet(s)
    /\ CommunicationCycleThread(s)
    /\ UNCHANGED <<masterVars, configuratorVars>>

SlaveProcess(s) == SignalThread(s) \/ CycleThread(s)

(* Nothing is said of the master once two of its threads serve one segment. *)
MasterRuns == master_alive /\ ~clash

ProcessorThread(s) ==
    /\ MasterRuns
    /\ SlaveProcessorThread(s) \/ StrayThread(s)
    /\ UNCHANGED <<slaveVars, configuratorVars>>

AsyncThread ==
    /\ MasterRuns
    /\ AsyncSignalHandler
    /\ UNCHANGED <<slaveVars, configuratorVars>>

SyncThread ==
    /\ MasterRuns
    /\ SyncSignalHandlerThread
    /\ UNCHANGED <<slaveVars, configuratorVars>>

MasterProcess ==
    \/ AsyncThread
    \/ SyncThread
    \/ \E s \in Slaves : ProcessorThread(s)

(* With Prompt the user gives the next command, and the wait for a response *)
(* ends, only after everything has come to rest; the pid for the command is *)
(* given at any time.                                                      *)
UserOrTimer ==
    /\ Prompt => Settled
    /\ NextCommand \/ WaitTimeout

ConfiguratorProcess ==
    /\ configurator_alive
    /\ UserOrTimer \/ AnswerPrompt \/ ReceiveResponse
    /\ UNCHANGED <<slaveVars, masterVars>>

Next ==
    \/ \E s \in Slaves : SlaveProcess(s)
    \/ MasterProcess
    \/ ConfiguratorProcess

Spec == Init /\ [][Next]_vars

(* Every thread that can run runs, sleeps end, and the user finishes the   *)
(* command that was begun but owes no other.                               *)
Fairness ==
    /\ \A s \in Slaves :
         /\ WF_vars(SignalThread(s))
         /\ WF_vars(CycleThread(s))
         /\ WF_vars(ProcessorThread(s))
    /\ WF_vars(AsyncThread)
    /\ WF_vars(SyncThread)
    /\ WF_vars(ConfiguratorProcess /\ cfg_pc # "menu")

FairSpec == Spec /\ Fairness

=============================================================================
