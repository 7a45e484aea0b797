------------------------------ MODULE RtcSlave ------------------------------
(***************************************************************************)
(* The slave process (slave.c): the thread that waits for the signals of   *)
(* the master and handles its requests and responses, and the detached     *)
(* communication cycle thread that samples the parameters and sends them.  *)
(* The two threads meet in the semaphore allow_communication_cycle, in     *)
(* self.shmseg and in the segment.                                         *)
(***************************************************************************)
EXTENDS RtcShm

CONSTANTS
    Segments,      \* WAIT_MASTER_RESPONSE_TIMEOUT_SEGMENTS
    ChangeNameMax  \* the largest value of the unsigned change_name_idx

ASSUME SlaveAssumption ==
    /\ Segments \in Nat
    /\ ChangeNameMax \in Nat

VARIABLES
    sig_pc,           \* where signal_handler_thread is
    cyc_pc,           \* where slave_communication_cycle_detached_thread is
    threshold,        \* failed attempts to lock sem_s_to_m_request
    allow,            \* the value of allow_communication_cycle
    shmseg,           \* self.shmseg is not NULL
    self_name,        \* self.name
    change_name_idx

slaveVars == <<sig_pc, cyc_pc, threshold, allow, shmseg, self_name,
               change_name_idx>>

SigPcs == {"sigwait", "first", "check", "request", "response", "rename", "start_ack",
           "stop_wait", "detach"}
CycPcs == {"gate", "sample", "trylock", "check", "send"}

SlaveTypeOK ==
    /\ sig_pc \in [Slaves -> SigPcs]
    /\ cyc_pc \in [Slaves -> CycPcs]
    /\ threshold \in [Slaves -> 0 .. Segments]
    /\ allow \in [Slaves -> Nat]
    /\ shmseg \in [Slaves -> BOOLEAN]
    /\ self_name \in [Slaves -> Seq(Nat)]
    /\ change_name_idx \in [Slaves -> 0 .. ChangeNameMax]

SlaveInit ==
    /\ sig_pc = [s \in Slaves |-> "sigwait"]
    /\ cyc_pc = [s \in Slaves |-> "gate"]
    /\ threshold = [s \in Slaves |-> 0]
    /\ allow = [s \in Slaves |-> 0]
    /\ shmseg = [s \in Slaves |-> FALSE]
    /\ self_name = BaseName
    /\ change_name_idx = [s \in Slaves |-> 0]

SigGoto(s, from, to) ==
    /\ alive[s]
    /\ sig_pc[s] = from
    /\ sig_pc' = [sig_pc EXCEPT ![s] = to]

CycGoto(s, from, to) ==
    /\ alive[s]
    /\ cyc_pc[s] = from
    /\ cyc_pc' = [cyc_pc EXCEPT ![s] = to]

(* Writing the response and signalling the master.                         *)
Respond(s, r) ==
    /\ res_s_to_m' = [res_s_to_m EXCEPT ![s] = r]
    /\ KillMaster(s)

-----------------------------------------------------------------------------
(* signal_handler_thread. The groups below are what its actions leave alone *)
(* or change together.                                                     *)

responseVars == <<res_s_to_m, master_usr1>>
nameVars == <<name, self_name, change_name_idx>>
gateVars == <<cycle_started, allow>>

(* A signal of the master is taken. first_signal_ever_setup finds the      *)
(* segment by pid when self.shmseg is NULL; with no segment the signal is  *)
(* dropped.                                                                *)
ReceiveSignal(s) ==
    /\ slave_usr1[s]
    /\ slave_usr1' = [slave_usr1 EXCEPT ![s] = FALSE]
    /\ shmseg' = [shmseg EXCEPT ![s] = @ \/ owned[s]]
    /\ SigGoto(s, "sigwait", IF shmseg[s] \/ owned[s] THEN "first" ELSE "sigwait")
    /\ UNCHANGED <<responseVars, nameVars, gateVars, sem_s_to_m>>

(* The first semaphore: locked means that the signal is taken for the      *)
(* response to the request of this slave.                                  *)
CheckMasterResponse(s) ==
    /\ SigGoto(s, "first", IF sem_s_to_m[s] = 0 THEN "response" ELSE "check")
    /\ UNCHANGED <<responseVars, nameVars, gateVars, sem_s_to_m, slave_usr1, shmseg>>

(* The second semaphore: locked means that the master has a request.       *)
CheckMasterRequest(s) ==
    /\ SigGoto(s, "check", IF sem_m_to_s[s] = 0 THEN "request" ELSE "sigwait")
    /\ UNCHANGED <<responseVars, nameVars, gateVars, sem_s_to_m, slave_usr1, shmseg>>

(* Whatever the response is, the request of the slave is unlocked.         *)
HandleMasterResponse(s) ==
    /\ SigGoto(s, "response", "sigwait")
    /\ sem_s_to_m' = [sem_s_to_m EXCEPT ![s] = @ + 1]
    /\ UNCHANGED <<responseVars, nameVars, gateVars, slave_usr1, shmseg>>

HandleConnectSlaveRequest(s) ==
    /\ req_m_to_s[s] = "CONNECT_SLAVE"
    /\ SigGoto(s, "request", "sigwait")
    /\ name' = [name EXCEPT ![s] = self_name[s]]
    /\ Respond(s, "ACK")
    /\ UNCHANGED <<self_name, change_name_idx, gateVars, sem_s_to_m, slave_usr1, shmseg>>

(* The master is told before self.shmseg is cleared.                       *)
HandleDisconnectSlaveRequest(s) ==
    /\ req_m_to_s[s] = "DISCONNECT_SLAVE"
    /\ SigGoto(s, "request", "detach")
    /\ Respond(s, "ACK")
    /\ UNCHANGED <<nameVars, gateVars, sem_s_to_m, slave_usr1, shmseg>>

(* Mutant: the master is signalled once more after self.shmseg is cleared. *)
ClearShmseg_TellsAgain(s) ==
    /\ SigGoto(s, "detach", "sigwait")
    /\ shmseg' = [shmseg EXCEPT ![s] = FALSE]
    /\ Respond(s, "ACK")
    /\ UNCHANGED <<nameVars, gateVars, sem_s_to_m, slave_usr1>>

ClearShmseg(s) ==
    /\ SigGoto(s, "detach", "sigwait")
    /\ shmseg' = [shmseg EXCEPT ![s] = FALSE]
    /\ UNCHANGED <<responseVars, nameVars, gateVars, sem_s_to_m, slave_usr1>>

DropSuffix(n) == IF n = NoName THEN n ELSE SubSeq(n, 1, Len(n) - 1)

(* The number added by an earlier change is erased from both copies of the *)
(* name, and readers of the segment can see the shortened name. The request *)
(* is refused when the unsigned index would wrap around.                   *)
HandleChangeNameSlaveRequest(s) ==
    /\ req_m_to_s[s] = "CHANGE_SLAVE_NAME"
    /\ IF change_name_idx[s] > 0
       THEN /\ name' = [name EXCEPT ![s] = DropSuffix(@)]
            /\ self_name' = [self_name EXCEPT ![s] = DropSuffix(@)]
       ELSE UNCHANGED <<name, self_name>>
    /\ \/ /\ change_name_idx[s] = ChangeNameMax
          /\ SigGoto(s, "request", "sigwait")
          /\ Respond(s, "NACK")
       \/ /\ change_name_idx[s] < ChangeNameMax
          /\ SigGoto(s, "request", "rename")
          /\ UNCHANGED responseVars
    /\ UNCHANGED <<change_name_idx, gateVars, sem_s_to_m, slave_usr1, shmseg>>

(* The new name is the name found in the segment with the next number.     *)
WriteNewName(s) ==
    /\ SigGoto(s, "rename", "sigwait")
    /\ change_name_idx' = [change_name_idx EXCEPT ![s] = @ + 1]
    /\ self_name' = [self_name EXCEPT ![s] = Append(name[s], change_name_idx[s] + 1)]
    /\ name' = [name EXCEPT ![s] = self_name'[s]]
    /\ Respond(s, "ACK")
    /\ UNCHANGED <<gateVars, sem_s_to_m, slave_usr1, shmseg>>

(* A cycle that runs already is refused. Otherwise the cycle thread may run *)
(* as soon as the gate is open, before the master is answered.             *)
HandleStartCycleSlaveRequest(s) ==
    /\ req_m_to_s[s] = "START_SLAVE_CYCLE"
    /\ \/ /\ cycle_started[s]
          /\ SigGoto(s, "request", "sigwait")
          /\ Respond(s, "NACK")
          /\ UNCHANGED gateVars
       \/ /\ ~cycle_started[s]
          /\ SigGoto(s, "request", "start_ack")
          /\ cycle_started' = [cycle_started EXCEPT ![s] = TRUE]
          /\ allow' = [allow EXCEPT ![s] = @ + 1]
          /\ UNCHANGED responseVars
    /\ UNCHANGED <<nameVars, sem_s_to_m, slave_usr1, shmseg>>

AckStartCycle(s) ==
    /\ SigGoto(s, "start_ack", "sigwait")
    /\ Respond(s, "ACK")
    /\ UNCHANGED <<nameVars, gateVars, sem_s_to_m, slave_usr1, shmseg>>

(* A cycle that is stopped already is refused. Otherwise the thread blocks *)
(* on the gate, and no signal is handled, until the cycle thread opens it. *)
HandleStopCycleSlaveRequest(s) ==
    /\ req_m_to_s[s] = "STOP_SLAVE_CYCLE"
    /\ \/ /\ ~cycle_started[s]
          /\ SigGoto(s, "request", "sigwait")
          /\ Respond(s, "NACK")
          /\ UNCHANGED cycle_started
       \/ /\ cycle_started[s]
          /\ SigGoto(s, "request", "stop_wait")
          /\ cycle_started' = [cycle_started EXCEPT ![s] = FALSE]
          /\ UNCHANGED responseVars
    /\ UNCHANGED <<nameVars, allow, sem_s_to_m, slave_usr1, shmseg>>

(* Mutant: a STOP waits for the gate without taking its token.             *)
CloseGate_LeavesToken(s) ==
    /\ allow[s] > 0
    /\ SigGoto(s, "stop_wait", "sigwait")
    /\ Respond(s, "ACK")
    /\ UNCHANGED <<nameVars, gateVars, sem_s_to_m, slave_usr1, shmseg>>

CloseGate(s) ==
    /\ allow[s] > 0
    /\ SigGoto(s, "stop_wait", "sigwait")
    /\ allow' = [allow EXCEPT ![s] = @ - 1]
    /\ Respond(s, "ACK")
    /\ UNCHANGED <<nameVars, cycle_started, sem_s_to_m, slave_usr1, shmseg>>

(* The request field has been zeroed since the request was sent.           *)
HandleUnrecognizedRequest(s) ==
    /\ req_m_to_s[s] = "START_MASTER"
    /\ SigGoto(s, "request", "sigwait")
    /\ Respond(s, "NACK")
    /\ UNCHANGED <<nameVars, gateVars, sem_s_to_m, slave_usr1, shmseg>>

SignalHandlerThread(s) ==
    /\ \/ ReceiveSignal(s)
       \/ CheckMasterResponse(s)
       \/ CheckMasterRequest(s)
       \/ HandleMasterResponse(s)
       \/ HandleConnectSlaveRequest(s)
       \/ HandleDisconnectSlaveRequest(s)
       \/ ClearShmseg(s)
       \/ HandleChangeNameSlaveRequest(s)
       \/ WriteNewName(s)
       \/ HandleStartCycleSlaveRequest(s)
       \/ AckStartCycle(s)
       \/ HandleStopCycleSlaveRequest(s)
       \/ CloseGate(s)
       \/ HandleUnrecognizedRequest(s)
    /\ UNCHANGED <<owned, is_connected, req_m_to_s, req_s_to_m, cycle_us_set,
                   sem_m_to_s, ctlVars, liveVars, master_usr2,
                   configurator_usr2, cyc_pc, threshold>>

-----------------------------------------------------------------------------
(* slave_communication_cycle_detached_thread. Every step outside the gate  *)
(* reads the segment through self.shmseg, and the process dies when the    *)
(* signal thread has cleared it meanwhile.                                 *)

CycleAtGate(s) ==
    /\ allow[s] > 0
    /\ CycGoto(s, "gate", "sample")
    /\ allow' = [allow EXCEPT ![s] = @ - 1]
    /\ UNCHANGED <<sem_s_to_m, req_s_to_m, master_usr1, alive, threshold>>

(* Mutant: the token of the gate is not given back after the sampling.     *)
SampleParameters_KeepsToken(s) ==
    /\ shmseg[s]
    /\ CycGoto(s, "sample", "trylock")
    /\ UNCHANGED <<allow, sem_s_to_m, req_s_to_m, master_usr1, alive, threshold>>

(* usleep for the cycle time, the requested parameters are written, and the *)
(* gate is opened for whoever wants to stop the cycle.                     *)
SampleParameters(s) ==
    /\ shmseg[s]
    /\ CycGoto(s, "sample", "trylock")
    /\ allow' = [allow EXCEPT ![s] = @ + 1]
    /\ UNCHANGED <<sem_s_to_m, req_s_to_m, master_usr1, alive, threshold>>

(* Mutant: the loop waits for the lock as long as it takes.                *)
TryLockRequest_NeverGivesUp(s) ==
    /\ shmseg[s]
    /\ sem_s_to_m[s] > 0
    /\ CycGoto(s, "trylock", "check")
    /\ sem_s_to_m' = [sem_s_to_m EXCEPT ![s] = @ - 1]
    /\ UNCHANGED <<allow, req_s_to_m, master_usr1, alive, threshold>>

(* Mutant: the value of the semaphore is read, and the lock not taken.     *)
TryLockRequest_NotTaken(s) ==
    /\ shmseg[s]
    /\ \/ /\ sem_s_to_m[s] > 0 \/ threshold[s] = Segments
          /\ CycGoto(s, "trylock", "check")
          /\ threshold' = [threshold EXCEPT ![s] = 0]
       \/ /\ sem_s_to_m[s] = 0 /\ threshold[s] < Segments
          /\ CycGoto(s, "trylock", "trylock")
          /\ threshold' = [threshold EXCEPT ![s] = @ + 1]
    /\ UNCHANGED <<sem_s_to_m, allow, req_s_to_m, master_usr1, alive>>

(* Mutant: the sleeps are compared one too late.                           *)
TryLockRequest_OffByOne(s) ==
    /\ shmseg[s]
    /\ \/ /\ sem_s_to_m[s] > 0
          /\ CycGoto(s, "trylock", "check")
          /\ sem_s_to_m' = [sem_s_to_m EXCEPT ![s] = @ - 1]
          /\ threshold' = [threshold EXCEPT ![s] = 0]
       \/ /\ sem_s_to_m[s] = 0
          /\ threshold[s] > Segments
          /\ CycGoto(s, "trylock", "check")
          /\ threshold' = [threshold EXCEPT ![s] = 0]
          /\ UNCHANGED sem_s_to_m
       \/ /\ sem_s_to_m[s] = 0
          /\ threshold[s] <= Segments
          /\ CycGoto(s, "trylock", "trylock")
          /\ threshold' = [threshold EXCEPT ![s] = @ + 1]
          /\ UNCHANGED sem_s_to_m
    /\ UNCHANGED <<allow, req_s_to_m, master_usr1, alive>>

(* sem_trywait in a loop of at most Segments sleeps. When the master has   *)
(* not answered by then the cycle goes on without the lock.                *)
TryLockRequest(s) ==
    /\ shmseg[s]
    /\ \/ /\ sem_s_to_m[s] > 0
          /\ CycGoto(s, "trylock", "check")
          /\ sem_s_to_m' = [sem_s_to_m EXCEPT ![s] = @ - 1]
          /\ threshold' = [threshold EXCEPT ![s] = 0]
       \/ /\ sem_s_to_m[s] = 0
          /\ threshold[s] = Segments
          /\ CycGoto(s, "trylock", "check")
          /\ threshold' = [threshold EXCEPT ![s] = 0]
          /\ UNCHANGED sem_s_to_m
       \/ /\ sem_s_to_m[s] = 0
          /\ threshold[s] < Segments
          /\ CycGoto(s, "trylock", "trylock")
          /\ threshold' = [threshold EXCEPT ![s] = @ + 1]
          /\ UNCHANGED sem_s_to_m
    /\ UNCHANGED <<allow, req_s_to_m, master_usr1, alive>>

(* Mutant: the lock is kept when the request is dropped.                   *)
CheckGate_KeepsLock(s) ==
    /\ CycGoto(s, "check", IF allow[s] = 0 THEN "gate" ELSE "send")
    /\ UNCHANGED <<allow, sem_s_to_m, req_s_to_m, master_usr1, alive, threshold>>

(* A closed gate means that the cycle was stopped: the request is dropped. *)
CheckGate(s) ==
    /\ \/ /\ allow[s] = 0
          /\ shmseg[s]
          /\ CycGoto(s, "check", "gate")
          /\ sem_s_to_m' = [sem_s_to_m EXCEPT ![s] = @ + 1]
       \/ /\ allow[s] > 0
          /\ CycGoto(s, "check", "send")
          /\ UNCHANGED sem_s_to_m
    /\ UNCHANGED <<allow, req_s_to_m, master_usr1, alive, threshold>>

SendMasterSignalMasterParameterRequest(s) ==
    /\ shmseg[s]
    /\ CycGoto(s, "send", "gate")
    /\ req_s_to_m' = [req_s_to_m EXCEPT ![s] = "SIGNAL_MASTER_PARAMETER"]
    /\ KillMaster(s)
    /\ UNCHANGED <<allow, sem_s_to_m, alive, threshold>>

(* The step that would read the segment finds a NULL pointer instead.      *)
DereferenceNull(s) ==
    /\ alive[s]
    /\ ~shmseg[s]
    /\ cyc_pc[s] # "gate"
    /\ cyc_pc[s] = "check" => allow[s] = 0
    /\ alive' = [alive EXCEPT ![s] = FALSE]
    /\ UNCHANGED <<allow, sem_s_to_m, req_s_to_m, master_usr1, cyc_pc, threshold>>

CommunicationCycleThread(s) ==
    /\ \/ CycleAtGate(s)
       \/ SampleParameters(s)
       \/ TryLockRequest(s)
       \/ CheckGate(s)
       \/ SendMasterSignalMasterParameterRequest(s)
       \/ DereferenceNull(s)
    /\ UNCHANGED <<owned, is_connected, req_m_to_s, cycle_us_set, sem_m_to_s,
                   ctlVars, master_alive, configurator_alive, slave_usr1,
                   master_usr2, configurator_usr2, nameVars, res_s_to_m, cycle_started, sig_pc, shmseg>>

=============================================================================
