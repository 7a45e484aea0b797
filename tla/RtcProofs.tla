----------------------------- MODULE RtcProofs -----------------------------
(***************************************************************************)
(* Theorems of module Rtc, for any slaves, names, bounds and delays.       *)
(***************************************************************************)
EXTENDS RtcProperties, TLAPS

(* What TypeOK needs to be inductive: a command that is under way is for a *)
(* slave, so that the segment it leads to exists, and the number of a new  *)
(* name was checked before the name is written.                            *)
Targets ==
    /\ master_usr2 => affected \in Slaves
    /\ cfg_pc = "wait" => affected \in Slaves
    /\ sync_pc # "sigwait" => sync_slave \in Slaves

NumbersFit ==
    \A s \in Slaves : sig_pc[s] = "rename" => change_name_idx[s] < ChangeNameMax

TypeInv == TypeOK /\ Targets /\ NumbersFit

-----------------------------------------------------------------------------
LEMMA TypeInit == Init => TypeInv
<1> SUFFICES ASSUME Init PROVE TypeInv
    OBVIOUS
<1>1. NoName \in Seq(Nat)
    BY DEF NoName
<1>2. ShmTypeOK
    BY <1>1 DEF Init, ShmTypeOK, ShmInit, LinkRequests, SlaveRequests, Responses, ConfiguratorRequests
<1>3. SlaveTypeOK
    BY ShmAssumption, SlaveAssumption
    DEF Init, SlaveTypeOK, SlaveInit, SigPcs, CycPcs
<1>4. MasterTypeOK
    BY DEF Init, MasterTypeOK, MasterInit, ThrPcs, SyncPcs, LinkRequests
<1>5. ConfiguratorTypeOK
    BY ConfiguratorAssumption DEF Init, ConfiguratorTypeOK, ConfiguratorInit
<1>6. Targets
    BY DEF Init, Targets, ShmInit, MasterInit, ConfiguratorInit
<1>7. NumbersFit
    BY DEF Init, NumbersFit, SlaveInit
<1> QED
    BY <1>2, <1>3, <1>4, <1>5, <1>6, <1>7 DEF TypeInv, TypeOK

LEMMA SuffixDropped ==
    ASSUME NEW n \in Seq(Nat)
    PROVE  DropSuffix(n) \in Seq(Nat)
<1>1. CASE n = NoName
    BY <1>1 DEF DropSuffix
<1>2. CASE n # NoName
    <2>1. Len(n) \in Nat /\ Len(n) - 1 <= Len(n) /\ Len(n) - 1 \in Nat
        BY <1>2 DEF NoName
    <2>2. SubSeq(n, 1, Len(n) - 1) \in Seq(Nat)
        BY <2>1
    <2> QED
        BY <1>2, <2>2 DEF DropSuffix
<1> QED
    BY <1>1, <1>2

(* Every thread keeps what it changes within its type.                     *)
LEMMA TypeSignalThread ==
    ASSUME TypeInv, NEW s \in Slaves, SignalThread(s)
    PROVE  TypeInv'
<1>1. /\ ShmTypeOK /\ SlaveTypeOK /\ MasterTypeOK /\ ConfiguratorTypeOK
      /\ Targets /\ NumbersFit
    BY DEF TypeInv, TypeOK
<1>2. MasterTypeOK' /\ ConfiguratorTypeOK' /\ Targets'
    BY <1>1 DEF MasterTypeOK, ConfiguratorTypeOK, Targets, SignalThread,
                SignalHandlerThread, masterVars, startVars, configuratorVars, ctlVars
<1>3. /\ name[s] \in Seq(Nat)
      /\ self_name[s] \in Seq(Nat)
      /\ DropSuffix(name[s]) \in Seq(Nat)
      /\ DropSuffix(self_name[s]) \in Seq(Nat)
      /\ change_name_idx[s] \in 0 .. ChangeNameMax
      /\ Append(name[s], change_name_idx[s] + 1) \in Seq(Nat)
    <2>1. /\ name[s] \in Seq(Nat)
          /\ self_name[s] \in Seq(Nat)
          /\ change_name_idx[s] \in 0 .. ChangeNameMax
        BY <1>1 DEF ShmTypeOK, SlaveTypeOK
    <2>2. change_name_idx[s] + 1 \in Nat
        BY <2>1, SlaveAssumption
    <2>3. Append(name[s], change_name_idx[s] + 1) \in Seq(Nat)
        BY <2>1, <2>2
    <2> QED
        BY <2>1, <2>3, SuffixDropped
<1>4. sem_s_to_m[s] + 1 \in Nat /\ allow[s] \in Nat /\ allow[s] + 1 \in Nat
    <2>1. sem_s_to_m \in [Slaves -> Nat] /\ allow \in [Slaves -> Nat]
        BY <1>1 DEF ShmTypeOK, SlaveTypeOK
    <2> QED
        BY <2>1
<1> UNCHANGED <<owned, is_connected, req_m_to_s, req_s_to_m, cycle_us_set,
                sem_m_to_s, request, affected, response, alive, master_alive,
                configurator_alive, master_usr2, configurator_usr2, cyc_pc,
                threshold>>
    BY DEF SignalThread, SignalHandlerThread, ctlVars, liveVars
<1> USE DEF SigGoto, SigPcs, Respond, KillMaster, Responses, responseVars,
            nameVars, gateVars
<1>5. CASE ReceiveSignal(s)
    <2>1. ShmTypeOK'
        BY <1>1, <1>5 DEF ShmTypeOK, ReceiveSignal
    <2>2. SlaveTypeOK'
        BY <1>1, <1>5, SlaveAssumption DEF SlaveTypeOK, ReceiveSignal
    <2>3. NumbersFit'
        BY <1>1, <1>5 DEF SlaveTypeOK, NumbersFit, ReceiveSignal
    <2> QED
        BY <1>2, <2>1, <2>2, <2>3 DEF TypeInv, TypeOK
<1>6. CASE CheckMasterResponse(s)
    <2>1. ShmTypeOK'
        BY <1>1, <1>6 DEF ShmTypeOK, CheckMasterResponse
    <2>2. SlaveTypeOK'
        BY <1>1, <1>6, SlaveAssumption DEF SlaveTypeOK, CheckMasterResponse
    <2>3. NumbersFit'
        BY <1>1, <1>6 DEF SlaveTypeOK, NumbersFit, CheckMasterResponse
    <2> QED
        BY <1>2, <2>1, <2>2, <2>3 DEF TypeInv, TypeOK
<1>7. CASE CheckMasterRequest(s)
    <2>1. ShmTypeOK'
        BY <1>1, <1>7 DEF ShmTypeOK, CheckMasterRequest
    <2>2. SlaveTypeOK'
        BY <1>1, <1>7, SlaveAssumption DEF SlaveTypeOK, CheckMasterRequest
    <2>3. NumbersFit'
        BY <1>1, <1>7 DEF SlaveTypeOK, NumbersFit, CheckMasterRequest
    <2> QED
        BY <1>2, <2>1, <2>2, <2>3 DEF TypeInv, TypeOK
<1>8. CASE HandleMasterResponse(s)
    <2>1. ShmTypeOK'
        BY <1>1, <1>4, <1>8 DEF ShmTypeOK, HandleMasterResponse
    <2>2. SlaveTypeOK'
        BY <1>1, <1>4, <1>8, SlaveAssumption DEF SlaveTypeOK, HandleMasterResponse
    <2>3. NumbersFit'
        BY <1>1, <1>8 DEF SlaveTypeOK, NumbersFit, HandleMasterResponse
    <2> QED
        BY <1>2, <2>1, <2>2, <2>3 DEF TypeInv, TypeOK
<1>9. CASE HandleConnectSlaveRequest(s)
    <2>1. ShmTypeOK'
        BY <1>1, <1>3, <1>9 DEF ShmTypeOK, HandleConnectSlaveRequest
    <2>2. SlaveTypeOK'
        BY <1>1, <1>3, <1>9, SlaveAssumption DEF SlaveTypeOK, HandleConnectSlaveRequest
    <2>3. NumbersFit'
        BY <1>1, <1>9 DEF SlaveTypeOK, NumbersFit, HandleConnectSlaveRequest
    <2> QED
        BY <1>2, <2>1, <2>2, <2>3 DEF TypeInv, TypeOK
<1>10. CASE HandleDisconnectSlaveRequest(s)
    <2>1. ShmTypeOK'
        BY <1>1, <1>10 DEF ShmTypeOK, HandleDisconnectSlaveRequest
    <2>2. SlaveTypeOK'
        BY <1>1, <1>10, SlaveAssumption DEF SlaveTypeOK, HandleDisconnectSlaveRequest
    <2>3. NumbersFit'
        BY <1>1, <1>10 DEF SlaveTypeOK, NumbersFit, HandleDisconnectSlaveRequest
    <2> QED
        BY <1>2, <2>1, <2>2, <2>3 DEF TypeInv, TypeOK
<1>11. CASE ClearShmseg(s)
    <2>1. ShmTypeOK'
        BY <1>1, <1>11 DEF ShmTypeOK, ClearShmseg
    <2>2. SlaveTypeOK'
        BY <1>1, <1>11, SlaveAssumption DEF SlaveTypeOK, ClearShmseg
    <2>3. NumbersFit'
        BY <1>1, <1>11 DEF SlaveTypeOK, NumbersFit, ClearShmseg
    <2> QED
        BY <1>2, <2>1, <2>2, <2>3 DEF TypeInv, TypeOK
<1>12. CASE HandleChangeNameSlaveRequest(s)
    <2>1. ShmTypeOK'
        BY <1>1, <1>3, <1>12 DEF ShmTypeOK, HandleChangeNameSlaveRequest
    <2>2. SlaveTypeOK'
        BY <1>1, <1>3, <1>12, SlaveAssumption DEF SlaveTypeOK, HandleChangeNameSlaveRequest
    <2>3. NumbersFit'
        BY <1>1, <1>12 DEF SlaveTypeOK, NumbersFit, HandleChangeNameSlaveRequest
    <2> QED
        BY <1>2, <2>1, <2>2, <2>3 DEF TypeInv, TypeOK
<1>13. CASE WriteNewName(s)
    <2>1. ShmTypeOK'
        BY <1>1, <1>3, <1>13 DEF ShmTypeOK, WriteNewName
    <2>2. SlaveTypeOK'
        <3>1. change_name_idx[s] + 1 \in 0 .. ChangeNameMax
            BY <1>1, <1>3, <1>13, SlaveAssumption DEF NumbersFit, WriteNewName
        <3> QED
            BY <1>1, <1>3, <1>13, <3>1 DEF SlaveTypeOK, WriteNewName
    <2>3. NumbersFit'
        BY <1>1, <1>13 DEF SlaveTypeOK, NumbersFit, WriteNewName
    <2> QED
        BY <1>2, <2>1, <2>2, <2>3 DEF TypeInv, TypeOK
<1>14. CASE HandleStartCycleSlaveRequest(s)
    <2>1. ShmTypeOK'
        BY <1>1, <1>4, <1>14 DEF ShmTypeOK, HandleStartCycleSlaveRequest
    <2>2. SlaveTypeOK'
        BY <1>1, <1>4, <1>14, SlaveAssumption DEF SlaveTypeOK, HandleStartCycleSlaveRequest
    <2>3. NumbersFit'
        BY <1>1, <1>14 DEF SlaveTypeOK, NumbersFit, HandleStartCycleSlaveRequest
    <2> QED
        BY <1>2, <2>1, <2>2, <2>3 DEF TypeInv, TypeOK
<1>15. CASE AckStartCycle(s)
    <2>1. ShmTypeOK'
        BY <1>1, <1>15 DEF ShmTypeOK, AckStartCycle
    <2>2. SlaveTypeOK'
        BY <1>1, <1>15, SlaveAssumption DEF SlaveTypeOK, AckStartCycle
    <2>3. NumbersFit'
        BY <1>1, <1>15 DEF SlaveTypeOK, NumbersFit, AckStartCycle
    <2> QED
        BY <1>2, <2>1, <2>2, <2>3 DEF TypeInv, TypeOK
<1>16. CASE HandleStopCycleSlaveRequest(s)
    <2>1. ShmTypeOK'
        BY <1>1, <1>16 DEF ShmTypeOK, HandleStopCycleSlaveRequest
    <2>2. SlaveTypeOK'
        BY <1>1, <1>16, SlaveAssumption DEF SlaveTypeOK, HandleStopCycleSlaveRequest
    <2>3. NumbersFit'
        BY <1>1, <1>16 DEF SlaveTypeOK, NumbersFit, HandleStopCycleSlaveRequest
    <2> QED
        BY <1>2, <2>1, <2>2, <2>3 DEF TypeInv, TypeOK
<1>17. CASE CloseGate(s)
    <2>1. ShmTypeOK'
        BY <1>1, <1>4, <1>17 DEF ShmTypeOK, CloseGate
    <2>2. SlaveTypeOK'
        BY <1>1, <1>4, <1>17, SlaveAssumption DEF SlaveTypeOK, CloseGate
    <2>3. NumbersFit'
        BY <1>1, <1>17 DEF SlaveTypeOK, NumbersFit, CloseGate
    <2> QED
        BY <1>2, <2>1, <2>2, <2>3 DEF TypeInv, TypeOK
<1>18. CASE HandleUnrecognizedRequest(s)
    <2>1. ShmTypeOK'
        BY <1>1, <1>18 DEF ShmTypeOK, HandleUnrecognizedRequest
    <2>2. SlaveTypeOK'
        BY <1>1, <1>18, SlaveAssumption DEF SlaveTypeOK, HandleUnrecognizedRequest
    <2>3. NumbersFit'
        BY <1>1, <1>18 DEF SlaveTypeOK, NumbersFit, HandleUnrecognizedRequest
    <2> QED
        BY <1>2, <2>1, <2>2, <2>3 DEF TypeInv, TypeOK
<1> QED
    BY <1>5, <1>6, <1>7, <1>8, <1>9, <1>10, <1>11, <1>12, <1>13, <1>14, <1>15, <1>16, <1>17, <1>18
    DEF SignalThread, SignalHandlerThread

LEMMA TypeCycleThread ==
    ASSUME TypeInv, NEW s \in Slaves, CycleThread(s)
    PROVE  TypeInv'
<1>1. /\ ShmTypeOK /\ SlaveTypeOK /\ MasterTypeOK /\ ConfiguratorTypeOK
      /\ Targets /\ NumbersFit
    BY DEF TypeInv, TypeOK
<1>2. MasterTypeOK' /\ ConfiguratorTypeOK' /\ Targets' /\ NumbersFit'
    BY <1>1 DEF MasterTypeOK, ConfiguratorTypeOK, Targets, NumbersFit, CycleThread,
                CommunicationCycleThread, masterVars, startVars,
                configuratorVars, ctlVars,
                nameVars
<1>3. /\ sem_s_to_m[s] \in Nat /\ sem_s_to_m[s] + 1 \in Nat
      /\ allow[s] \in Nat /\ allow[s] + 1 \in Nat
      /\ sem_s_to_m[s] > 0 => sem_s_to_m[s] - 1 \in Nat
      /\ allow[s] > 0 => allow[s] - 1 \in Nat
    <2>1. sem_s_to_m \in [Slaves -> Nat] /\ allow \in [Slaves -> Nat]
        BY <1>1 DEF ShmTypeOK, SlaveTypeOK
    <2> QED
        BY <2>1
<1>4. /\ 0 \in 0 .. Segments
      /\ threshold[s] < Segments => threshold[s] + 1 \in 0 .. Segments
    BY <1>1, SlaveAssumption DEF SlaveTypeOK
<1> UNCHANGED <<owned, is_connected, req_m_to_s, cycle_us_set, sem_m_to_s,
                request, affected, response, master_alive, configurator_alive,
                slave_usr1, master_usr2, configurator_usr2, name, self_name,
                change_name_idx, res_s_to_m, cycle_started, sig_pc, shmseg>>
    BY DEF CycleThread, CommunicationCycleThread, ctlVars, nameVars
<1> USE DEF CycGoto, CycPcs, KillMaster, SlaveRequests
<1>5. CASE CycleAtGate(s)
    <2>1. ShmTypeOK'
        BY <1>1, <1>3, <1>5 DEF ShmTypeOK, CycleAtGate
    <2>2. SlaveTypeOK'
        BY <1>1, <1>3, <1>4, <1>5 DEF SlaveTypeOK, CycleAtGate
    <2> QED
        BY <1>2, <2>1, <2>2 DEF TypeInv, TypeOK
<1>6. CASE SampleParameters(s)
    <2>1. ShmTypeOK'
        BY <1>1, <1>3, <1>6 DEF ShmTypeOK, SampleParameters
    <2>2. SlaveTypeOK'
        BY <1>1, <1>3, <1>4, <1>6 DEF SlaveTypeOK, SampleParameters
    <2> QED
        BY <1>2, <2>1, <2>2 DEF TypeInv, TypeOK
<1>7. CASE TryLockRequest(s)
    <2>1. ShmTypeOK'
        BY <1>1, <1>3, <1>7 DEF ShmTypeOK, TryLockRequest
    <2>2. SlaveTypeOK'
        BY <1>1, <1>3, <1>4, <1>7 DEF SlaveTypeOK, TryLockRequest
    <2> QED
        BY <1>2, <2>1, <2>2 DEF TypeInv, TypeOK
<1>8. CASE CheckGate(s)
    <2>1. ShmTypeOK'
        BY <1>1, <1>3, <1>8 DEF ShmTypeOK, CheckGate
    <2>2. SlaveTypeOK'
        BY <1>1, <1>3, <1>4, <1>8 DEF SlaveTypeOK, CheckGate
    <2> QED
        BY <1>2, <2>1, <2>2 DEF TypeInv, TypeOK
<1>9. CASE SendMasterSignalMasterParameterRequest(s)
    <2>1. ShmTypeOK'
        BY <1>1, <1>3, <1>9 DEF ShmTypeOK, SendMasterSignalMasterParameterRequest
    <2>2. SlaveTypeOK'
        BY <1>1, <1>3, <1>4, <1>9 DEF SlaveTypeOK, SendMasterSignalMasterParameterRequest
    <2> QED
        BY <1>2, <2>1, <2>2 DEF TypeInv, TypeOK
<1>10. CASE DereferenceNull(s)
    <2>1. ShmTypeOK'
        BY <1>1, <1>3, <1>10 DEF ShmTypeOK, DereferenceNull
    <2>2. SlaveTypeOK'
        BY <1>1, <1>3, <1>4, <1>10 DEF SlaveTypeOK, DereferenceNull
    <2> QED
        BY <1>2, <2>1, <2>2 DEF TypeInv, TypeOK
<1> QED
    BY <1>5, <1>6, <1>7, <1>8, <1>9, <1>10
    DEF CycleThread, CommunicationCycleThread

LEMMA TypeServingThread ==
    ASSUME TypeInv, NEW s \in Slaves, ProcessorThread(s), SlaveProcessorThread(s)
    PROVE  TypeInv'
<1>1. /\ ShmTypeOK /\ SlaveTypeOK /\ MasterTypeOK /\ ConfiguratorTypeOK
      /\ Targets /\ NumbersFit
    BY DEF TypeInv, TypeOK
<1>2. SlaveTypeOK' /\ ConfiguratorTypeOK' /\ Targets' /\ NumbersFit'
    BY <1>1 DEF SlaveTypeOK, ConfiguratorTypeOK, Targets, NumbersFit,
                ProcessorThread, SlaveProcessorThread, slaveVars, configuratorVars
<1>3. /\ sem_m_to_s[s] + 1 \in Nat
      /\ sem_m_to_s[s] > 0 => sem_m_to_s[s] - 1 \in Nat
      /\ spawned[s] > 0 => spawned[s] - 1 \in Nat
      /\ \A t \in Slaves : assigning[t] + 1 \in Nat
      /\ assigning[s] > 0 => assigning[s] - 1 \in Nat
      /\ PidRead(s) \subseteq Slaves
      /\ sig_semaphore[s] > 0 => sig_semaphore[s] - 1 \in Nat
    <2>1. /\ sem_m_to_s \in [Slaves -> Nat]
          /\ spawned \in [Slaves -> Nat]
          /\ assigning \in [Slaves -> Nat]
          /\ sig_semaphore \in [Slaves -> Nat]
        BY <1>1 DEF ShmTypeOK, MasterTypeOK
    <2> QED
        BY <2>1 DEF PidRead
<1>4. NoName \in Seq(Nat)
    BY DEF NoName
<1> UNCHANGED <<request, affected, alive, master_alive, configurator_alive,
                master_usr1, master_usr2, sync_pc, sync_req, sync_slave>>
    BY DEF ProcessorThread, SlaveProcessorThread, liveVars
<1> USE DEF ThrGoto, ThrPcs, PostRequest, AnswerConfigurator, KillConfigurator,
            KillSlave, Responses, LinkRequests, SlaveRequests, resetVars,
            answerVars, startVars
<1>5. CASE SearchSegment(s)
    <2>1. ShmTypeOK'
        BY <1>1, <1>5 DEF ShmTypeOK, SearchSegment
    <2>2. MasterTypeOK'
        BY <1>1, <1>3, <1>5 DEF MasterTypeOK, SearchSegment
    <2> QED
        BY <1>2, <2>1, <2>2 DEF TypeInv, TypeOK
<1>18. CASE WriteSegmentPid(s)
    <2>1. ShmTypeOK'
        BY <1>1, <1>18 DEF ShmTypeOK, WriteSegmentPid
    <2>2. MasterTypeOK'
        BY <1>1, <1>3, <1>18 DEF MasterTypeOK, WriteSegmentPid
    <2> QED
        BY <1>2, <2>1, <2>2 DEF TypeInv, TypeOK
<1>19. CASE ServeTwice(s)
    <2>1. ShmTypeOK'
        BY <1>1, <1>19 DEF ShmTypeOK, ServeTwice
    <2>2. MasterTypeOK'
        BY <1>1, <1>3, <1>19 DEF MasterTypeOK, ServeTwice
    <2> QED
        BY <1>2, <2>1, <2>2 DEF TypeInv, TypeOK
<1>20. CASE LoseConnect(s)
    <2>1. ShmTypeOK'
        BY <1>1, <1>20 DEF ShmTypeOK, LoseConnect
    <2>2. MasterTypeOK'
        BY <1>1, <1>3, <1>20 DEF MasterTypeOK, LoseConnect
    <2> QED
        BY <1>2, <2>1, <2>2 DEF TypeInv, TypeOK
<1>6. CASE LockOwnRequest(s)
    <2>1. ShmTypeOK'
        BY <1>1, <1>3, <1>4, <1>6 DEF ShmTypeOK, LockOwnRequest
    <2>2. MasterTypeOK'
        BY <1>1, <1>3, <1>6 DEF MasterTypeOK, LockOwnRequest
    <2> QED
        BY <1>2, <2>1, <2>2 DEF TypeInv, TypeOK
<1>7. CASE SendConnectSlaveRequest(s)
    <2>1. ShmTypeOK'
        BY <1>1, <1>3, <1>4, <1>7 DEF ShmTypeOK, SendConnectSlaveRequest
    <2>2. MasterTypeOK'
        BY <1>1, <1>3, <1>7 DEF MasterTypeOK, SendConnectSlaveRequest
    <2> QED
        BY <1>2, <2>1, <2>2 DEF TypeInv, TypeOK
<1>8. CASE SendChangeNameSlaveRequest(s)
    <2>1. ShmTypeOK'
        BY <1>1, <1>3, <1>4, <1>8 DEF ShmTypeOK, SendChangeNameSlaveRequest
    <2>2. MasterTypeOK'
        BY <1>1, <1>3, <1>8 DEF MasterTypeOK, SendChangeNameSlaveRequest
    <2> QED
        BY <1>2, <2>1, <2>2 DEF TypeInv, TypeOK
<1>9. CASE ProcessSignal(s)
    <2>1. ShmTypeOK'
        BY <1>1, <1>3, <1>4, <1>9 DEF ShmTypeOK, ProcessSignal
    <2>2. MasterTypeOK'
        BY <1>1, <1>3, <1>9 DEF MasterTypeOK, ProcessSignal
    <2> QED
        BY <1>2, <2>1, <2>2 DEF TypeInv, TypeOK
<1>10. CASE CheckSlaveResponse(s)
    <2>1. ShmTypeOK'
        BY <1>1, <1>3, <1>4, <1>10 DEF ShmTypeOK, CheckSlaveResponse
    <2>2. MasterTypeOK'
        BY <1>1, <1>3, <1>10 DEF MasterTypeOK, CheckSlaveResponse
    <2> QED
        BY <1>2, <2>1, <2>2 DEF TypeInv, TypeOK
<1>11. CASE HandleSlaveRequest(s)
    <2>1. ShmTypeOK'
        BY <1>1, <1>3, <1>4, <1>11 DEF ShmTypeOK, HandleSlaveRequest
    <2>2. MasterTypeOK'
        BY <1>1, <1>3, <1>11 DEF MasterTypeOK, HandleSlaveRequest
    <2> QED
        BY <1>2, <2>1, <2>2 DEF TypeInv, TypeOK
<1>12. CASE ForwardResponse(s)
    <2>1. ShmTypeOK'
        BY <1>1, <1>3, <1>4, <1>12 DEF ShmTypeOK, ForwardResponse
    <2>2. MasterTypeOK'
        BY <1>1, <1>3, <1>12 DEF MasterTypeOK, ForwardResponse
    <2> QED
        BY <1>2, <2>1, <2>2 DEF TypeInv, TypeOK
<1>13. CASE FinishDisconnect(s)
    <2>1. ShmTypeOK'
        BY <1>1, <1>3, <1>4, <1>13 DEF ShmTypeOK, FinishDisconnect, ResetSemaphores
    <2>2. MasterTypeOK'
        BY <1>1, <1>3, <1>13 DEF MasterTypeOK, FinishDisconnect, ResetSemaphores
    <2> QED
        BY <1>2, <2>1, <2>2 DEF TypeInv, TypeOK
<1>14. CASE RefuseConnect(s)
    <2>1. ShmTypeOK'
        BY <1>1, <1>3, <1>4, <1>14 DEF ShmTypeOK, RefuseConnect
    <2>2. MasterTypeOK'
        BY <1>1, <1>3, <1>14 DEF MasterTypeOK, RefuseConnect
    <2> QED
        BY <1>2, <2>1, <2>2 DEF TypeInv, TypeOK
<1>15. CASE AskForNewName(s)
    <2>1. ShmTypeOK'
        BY <1>1, <1>3, <1>4, <1>15 DEF ShmTypeOK, AskForNewName
    <2>2. MasterTypeOK'
        BY <1>1, <1>3, <1>15 DEF MasterTypeOK, AskForNewName
    <2> QED
        BY <1>2, <2>1, <2>2 DEF TypeInv, TypeOK
<1>16. CASE FinishConnect(s)
    <2>1. ShmTypeOK'
        BY <1>1, <1>3, <1>4, <1>16 DEF ShmTypeOK, FinishConnect
    <2>2. MasterTypeOK'
        BY <1>1, <1>3, <1>16 DEF MasterTypeOK, FinishConnect
    <2> QED
        BY <1>2, <2>1, <2>2 DEF TypeInv, TypeOK
<1>17. CASE IgnoreResponse(s)
    <2>1. ShmTypeOK'
        BY <1>1, <1>3, <1>4, <1>17 DEF ShmTypeOK, IgnoreResponse
    <2>2. MasterTypeOK'
        BY <1>1, <1>3, <1>17 DEF MasterTypeOK, IgnoreResponse
    <2> QED
        BY <1>2, <2>1, <2>2 DEF TypeInv, TypeOK
<1> QED
    BY <1>5, <1>6, <1>7, <1>8, <1>9, <1>10, <1>11, <1>12, <1>13, <1>14, <1>15, <1>16,
       <1>17, <1>18, <1>19, <1>20
    DEF SlaveProcessorThread

LEMMA TypeProcessorThread ==
    ASSUME TypeInv, NEW s \in Slaves, ProcessorThread(s)
    PROVE  TypeInv'
<1>1. CASE SlaveProcessorThread(s)
    BY <1>1, TypeServingThread
<1>2. CASE StrayThread(s)
    <2>1. /\ ShmTypeOK /\ SlaveTypeOK /\ MasterTypeOK /\ ConfiguratorTypeOK
          /\ Targets /\ NumbersFit
        BY DEF TypeInv, TypeOK
    <2>2. SlaveTypeOK' /\ ConfiguratorTypeOK' /\ Targets' /\ NumbersFit'
        BY <1>2, <2>1 DEF SlaveTypeOK, ConfiguratorTypeOK, Targets, NumbersFit,
                    ProcessorThread, StrayThread, slaveVars, configuratorVars, ctlVars
    <2>3. ShmTypeOK'
        BY <1>2, <2>1 DEF ShmTypeOK, StrayThread, SignalGroup, SearchInFront,
                    segVars, ctlVars
    <2>4. spawned \in [Slaves -> Nat] /\ (spawned[s] > 0 => spawned[s] - 1 \in Nat)
        BY <2>1 DEF MasterTypeOK
    <2>5. MasterTypeOK'
        BY <1>2, <2>1, <2>4 DEF MasterTypeOK, StrayThread
    <2> QED
        BY <2>2, <2>3, <2>5 DEF TypeInv, TypeOK
<1> QED
    BY <1>1, <1>2 DEF ProcessorThread

LEMMA TypeAsyncThread ==
    ASSUME TypeInv, AsyncThread
    PROVE  TypeInv'
<1>1. /\ ShmTypeOK /\ SlaveTypeOK /\ MasterTypeOK /\ ConfiguratorTypeOK
      /\ Targets /\ NumbersFit
    BY DEF TypeInv, TypeOK
<1>2. SlaveTypeOK' /\ ConfiguratorTypeOK' /\ Targets' /\ NumbersFit'
    BY <1>1 DEF SlaveTypeOK, ConfiguratorTypeOK, Targets, NumbersFit, AsyncThread,
                AsyncSignalHandler, slaveVars, configuratorVars, ctlVars
<1>3. ShmTypeOK'
    BY <1>1 DEF ShmTypeOK, AsyncThread, AsyncSignalHandler, segVars, ctlVars,
                liveVars
<1>4. MasterTypeOK'
    <2>1. master_usr1 \in Slaves
        BY <1>1 DEF ShmTypeOK, AsyncThread, AsyncSignalHandler
    <2>2. sig_semaphore \in [Slaves -> Nat] /\ sig_semaphore[master_usr1] + 1 \in Nat
        BY <1>1, <2>1 DEF MasterTypeOK
    <2> QED
        BY <1>1, <2>1, <2>2 DEF MasterTypeOK, AsyncThread, AsyncSignalHandler, startVars
<1> QED
    BY <1>2, <1>3, <1>4 DEF TypeInv, TypeOK

LEMMA TypeSyncThread ==
    ASSUME TypeInv, SyncThread
    PROVE  TypeInv'
<1>1. /\ ShmTypeOK /\ SlaveTypeOK /\ MasterTypeOK /\ ConfiguratorTypeOK
      /\ Targets /\ NumbersFit
    BY DEF TypeInv, TypeOK
<1>2. SlaveTypeOK' /\ ConfiguratorTypeOK' /\ NumbersFit'
    BY <1>1 DEF SlaveTypeOK, ConfiguratorTypeOK, NumbersFit, SyncThread,
                slaveVars, configuratorVars
<1>3. /\ CommandPending => affected \in Slaves
      /\ sync_pc # "sigwait" => sync_slave \in Slaves
    BY <1>1 DEF Targets, CommandPending
<1>4. /\ sem_m_to_s \in [Slaves -> Nat]
      /\ spawned \in [Slaves -> Nat]
      /\ CommandPending => spawned[affected] + 1 \in Nat
    <2>1. sem_m_to_s \in [Slaves -> Nat]
        BY <1>1 DEF ShmTypeOK
    <2>2. spawned \in [Slaves -> Nat]
        BY <1>1 DEF MasterTypeOK
    <2> QED
        BY <1>3, <2>1, <2>2
<1> UNCHANGED <<owned, is_connected, name, res_s_to_m, req_s_to_m, cycle_started,
                cycle_us_set, sem_s_to_m, request, affected, master_usr1,
                sig_semaphore, assigning, clash, thr_pc, cfg_pc>>
    BY DEF SyncThread, SyncSignalHandlerThread, configuratorVars
<1> USE DEF TakeCommand, AnswerConfigurator, KillConfigurator, KillSlave,
            SyncPcs, Responses, LinkRequests, liveVars
<1>5. CASE HandleConfiguratorConnectSlaveRequest
    <2>1. ShmTypeOK'
        BY <1>1, <1>3, <1>4, <1>5 DEF ShmTypeOK, HandleConfiguratorConnectSlaveRequest
    <2>2. MasterTypeOK'
        BY <1>1, <1>3, <1>4, <1>5 DEF MasterTypeOK, CommandPending, HandleConfiguratorConnectSlaveRequest
    <2>3. Targets'
        BY <1>1, <1>3, <1>5 DEF Targets, CommandPending, HandleConfiguratorConnectSlaveRequest
    <2> QED
        BY <1>2, <2>1, <2>2, <2>3 DEF TypeInv, TypeOK
<1>6. CASE HandleConfiguratorCycleSlaveRequest
    <2>1. ShmTypeOK'
        BY <1>1, <1>3, <1>4, <1>6 DEF ShmTypeOK, HandleConfiguratorCycleSlaveRequest
    <2>2. MasterTypeOK'
        BY <1>1, <1>3, <1>4, <1>6 DEF MasterTypeOK, CommandPending, HandleConfiguratorCycleSlaveRequest
    <2>3. Targets'
        BY <1>1, <1>3, <1>6 DEF Targets, CommandPending, HandleConfiguratorCycleSlaveRequest
    <2> QED
        BY <1>2, <2>1, <2>2, <2>3 DEF TypeInv, TypeOK
<1>7. CASE HandleConfiguratorDisconnectSlaveRequest
    <2>1. ShmTypeOK'
        BY <1>1, <1>3, <1>4, <1>7 DEF ShmTypeOK, HandleConfiguratorDisconnectSlaveRequest
    <2>2. MasterTypeOK'
        BY <1>1, <1>3, <1>4, <1>7 DEF MasterTypeOK, CommandPending, HandleConfiguratorDisconnectSlaveRequest
    <2>3. Targets'
        BY <1>1, <1>3, <1>7 DEF Targets, CommandPending, HandleConfiguratorDisconnectSlaveRequest
    <2> QED
        BY <1>2, <2>1, <2>2, <2>3 DEF TypeInv, TypeOK
<1>8. CASE HandleUnknownCommand
    <2>1. ShmTypeOK'
        BY <1>1, <1>3, <1>4, <1>8 DEF ShmTypeOK, HandleUnknownCommand
    <2>2. MasterTypeOK'
        BY <1>1, <1>3, <1>4, <1>8 DEF MasterTypeOK, CommandPending, HandleUnknownCommand
    <2>3. Targets'
        BY <1>1, <1>3, <1>8 DEF Targets, CommandPending, HandleUnknownCommand
    <2> QED
        BY <1>2, <2>1, <2>2, <2>3 DEF TypeInv, TypeOK
<1>9. CASE LockRequest
    <2>1. ShmTypeOK'
        BY <1>1, <1>3, <1>4, <1>9 DEF ShmTypeOK, LockRequest
    <2>2. MasterTypeOK'
        BY <1>1, <1>3, <1>4, <1>9 DEF MasterTypeOK, CommandPending, LockRequest
    <2>3. Targets'
        BY <1>1, <1>3, <1>9 DEF Targets, CommandPending, LockRequest
    <2> QED
        BY <1>2, <2>1, <2>2, <2>3 DEF TypeInv, TypeOK
<1>10. CASE SendRequest
    <2>1. ShmTypeOK'
        <3>1. sync_req \in LinkRequests /\ sync_slave \in Slaves
            BY <1>1, <1>3, <1>10 DEF MasterTypeOK, SendRequest
        <3> QED
            BY <1>1, <1>10, <3>1 DEF ShmTypeOK, SendRequest
    <2>2. MasterTypeOK'
        BY <1>1, <1>3, <1>4, <1>10 DEF MasterTypeOK, CommandPending, SendRequest
    <2>3. Targets'
        BY <1>1, <1>3, <1>10 DEF Targets, CommandPending, SendRequest
    <2> QED
        BY <1>2, <2>1, <2>2, <2>3 DEF TypeInv, TypeOK
<1> QED
    BY <1>5, <1>6, <1>7, <1>8, <1>9, <1>10
    DEF SyncThread, SyncSignalHandlerThread

LEMMA ListedSlaves ==
    ASSUME NEW r \in ConfiguratorRequests
    PROVE  Listed(r) \in SUBSET Slaves
BY DEF Listed, DisconnectedSlaves, StoppedSlaves, StartedSlaves,
       ConfiguratorRequests

LEMMA TypeConfiguratorProcess ==
    ASSUME TypeInv, ConfiguratorProcess
    PROVE  TypeInv'
<1>1. /\ ShmTypeOK /\ SlaveTypeOK /\ MasterTypeOK /\ ConfiguratorTypeOK
      /\ Targets /\ NumbersFit
    BY DEF TypeInv, TypeOK
<1>2. SlaveTypeOK' /\ MasterTypeOK' /\ NumbersFit'
    BY <1>1 DEF SlaveTypeOK, MasterTypeOK, NumbersFit, ConfiguratorProcess,
                slaveVars, masterVars, startVars
<1>3. UNCHANGED <<sync_pc, sync_slave>>
    BY DEF ConfiguratorProcess, masterVars
<1> USE DEF shmVars, segVars, ctlVars, killVars, liveVars
<1>4. ASSUME NEW r \in Commands, ReadReqCode(r)
      PROVE  TypeInv'
    <2>1. r \in ConfiguratorRequests /\ Listed(r) \in SUBSET Slaves
        BY <1>4, ListedSlaves, ConfiguratorAssumption
    <2>2. ShmTypeOK'
        BY <1>1, <1>4, <2>1 DEF ShmTypeOK, ReadReqCode
    <2>3. ConfiguratorTypeOK' /\ Targets'
        BY <1>1, <1>3, <1>4, <2>1, ConfiguratorAssumption
        DEF ConfiguratorTypeOK, Targets, ReadReqCode
    <2> QED
        BY <1>2, <2>2, <2>3 DEF TypeInv, TypeOK
<1>5. CASE AbandonCommand
    <2>1. ShmTypeOK'
        BY <1>1, <1>5 DEF ShmTypeOK, AbandonCommand
    <2>2. ConfiguratorTypeOK' /\ Targets'
        BY <1>1, <1>3, <1>5 DEF ConfiguratorTypeOK, Targets, AbandonCommand
    <2> QED
        BY <1>2, <2>1, <2>2 DEF TypeInv, TypeOK
<1>6. ASSUME NEW s \in Slaves, SendCommand(s)
      PROVE  TypeInv'
    <2>1. ShmTypeOK'
        BY <1>1, <1>6 DEF ShmTypeOK, SendCommand
    <2>2. ConfiguratorTypeOK' /\ Targets'
        BY <1>1, <1>3, <1>6 DEF ConfiguratorTypeOK, Targets, SendCommand
    <2> QED
        BY <1>2, <2>1, <2>2 DEF TypeInv, TypeOK
<1>7. ASSUME NEW s \in Slaves, DeleteSlave(s)
      PROVE  TypeInv'
    <2>1. ShmTypeOK'
        BY <1>1, <1>7 DEF ShmTypeOK, DeleteSlave
    <2>2. ConfiguratorTypeOK' /\ Targets'
        BY <1>1, <1>3, <1>7 DEF ConfiguratorTypeOK, Targets, DeleteSlave
    <2> QED
        BY <1>2, <2>1, <2>2 DEF TypeInv, TypeOK
<1>8. CASE ReceiveResponse
    <2>1. ShmTypeOK'
        BY <1>1, <1>8 DEF ShmTypeOK, ReceiveResponse
    <2>2. ConfiguratorTypeOK' /\ Targets'
        BY <1>1, <1>3, <1>8 DEF ConfiguratorTypeOK, Targets, ReceiveResponse, ConnectedAfter
    <2> QED
        BY <1>2, <2>1, <2>2 DEF TypeInv, TypeOK
<1>9. CASE WaitTimeout
    <2>1. ShmTypeOK'
        BY <1>1, <1>9 DEF ShmTypeOK, WaitTimeout
    <2>2. ConfiguratorTypeOK' /\ Targets'
        BY <1>1, <1>3, <1>9 DEF ConfiguratorTypeOK, Targets, WaitTimeout
    <2> QED
        BY <1>2, <2>1, <2>2 DEF TypeInv, TypeOK
<1> QED
    BY <1>4, <1>5, <1>6, <1>7, <1>8, <1>9
    DEF ConfiguratorProcess, UserOrTimer, NextCommand, AnswerPrompt

LEMMA TypeStep == TypeInv /\ [Next]_vars => TypeInv'
<1> SUFFICES ASSUME TypeInv, [Next]_vars PROVE TypeInv'
    OBVIOUS
<1>1. CASE UNCHANGED vars
    BY <1>1 DEF vars, shmVars, segVars, ctlVars, killVars, liveVars, slaveVars,
                masterVars, startVars, configuratorVars, TypeInv, TypeOK, ShmTypeOK,
                SlaveTypeOK, MasterTypeOK, ConfiguratorTypeOK, Targets, NumbersFit
<1>2. CASE Next
    BY <1>2, TypeSignalThread, TypeCycleThread, TypeProcessorThread,
       TypeAsyncThread, TypeSyncThread, TypeConfiguratorProcess
    DEF Next, SlaveProcess, MasterProcess
<1> QED
    BY <1>1, <1>2

(* Every variable of the program keeps its type: the retries of the cycle  *)
(* thread and the numbers of the names stay within their bounds, and a     *)
(* request never goes to a slave that is none (try_lock_request, handle_   *)
(* change_name_slave_request).                                             *)
THEOREM TypeCorrect == Spec => []TypeOK
<1>1. TypeInv => TypeOK
    BY DEF TypeInv
<1> QED
    BY TypeInit, TypeStep, <1>1, PTL DEF Spec

-----------------------------------------------------------------------------
(* The lock of the requests to a slave. LinkLockBinary alone is not         *)
(* inductive: the lock is posted by the thread that handles a response, and *)
(* it is Served that says that the lock is held then, because no other     *)
(* thread serves the segment or posts the lock. This is so until two       *)
(* threads serve one segment, where the model ends the master; that they   *)
(* never do, and LinkLockBinary with it, is left to RtcConversationProofs. *)
LockInv == TypeInv /\ Served /\ LinkLockBinary

lockVars == <<owned, is_connected, thr_pc, sem_m_to_s>>

LEMMA LockInit == Init => LockInv
BY TypeInit DEF LockInv, Served, LinkLockBinary, Init, ShmInit, MasterInit

LEMMA LockUnchanged ==
    ASSUME Served, LinkLockBinary, UNCHANGED lockVars
    PROVE  Served' /\ LinkLockBinary'
BY DEF Served, LinkLockBinary, lockVars

LEMMA LockSyncThread ==
    ASSUME LockInv, SyncThread
    PROVE  Served' /\ LinkLockBinary'
<1>1. CASE LockRequest
    <2>1. sync_slave \in Slaves /\ sem_m_to_s \in [Slaves -> Nat]
        BY <1>1 DEF LockInv, TypeInv, TypeOK, ShmTypeOK, Targets, LockRequest
    <2>2. UNCHANGED <<owned, is_connected, thr_pc>>
        BY DEF SyncThread, SyncSignalHandlerThread
    <2>3. Served /\ LinkLockBinary
        BY DEF LockInv
    <2>4. sem_m_to_s[sync_slave] > 0
        BY <1>1 DEF LockRequest
    <2>5. sem_m_to_s' = [sem_m_to_s EXCEPT ![sync_slave] = @ - 1]
        BY <1>1 DEF LockRequest
    <2>6. Served'
        BY <2>1, <2>2, <2>3, <2>4, <2>5 DEF Served
    <2>7. LinkLockBinary'
        BY <2>1, <2>3, <2>4, <2>5 DEF LinkLockBinary
    <2> QED
        BY <2>6, <2>7
<1>2. CASE ~LockRequest
    <2>1. UNCHANGED lockVars
        BY <1>2 DEF SyncThread, SyncSignalHandlerThread, lockVars,
            HandleConfiguratorConnectSlaveRequest, HandleConfiguratorCycleSlaveRequest,
            HandleConfiguratorDisconnectSlaveRequest, HandleUnknownCommand, SendRequest
    <2> QED
        BY <2>1, LockUnchanged DEF LockInv
<1> QED
    BY <1>1, <1>2

LEMMA LockProcessorThread ==
    ASSUME LockInv, NEW s \in Slaves, ProcessorThread(s)
    PROVE  Served' /\ LinkLockBinary'
<1>1. /\ owned \in [Slaves -> BOOLEAN]
      /\ is_connected \in [Slaves -> BOOLEAN]
      /\ sem_m_to_s \in [Slaves -> Nat]
      /\ thr_pc \in [Slaves -> ThrPcs]
    BY DEF LockInv, TypeInv, TypeOK, ShmTypeOK, MasterTypeOK
<1>2. Served /\ LinkLockBinary
    BY DEF LockInv
<1> USE DEF Served, LinkLockBinary, ThrGoto, PostRequest, resetVars
<1>3. CASE SearchSegment(s)
    BY <1>1, <1>2, <1>3 DEF SearchSegment
<1>16. CASE WriteSegmentPid(s)
    BY <1>1, <1>2, <1>16 DEF WriteSegmentPid
<1>17. CASE ServeTwice(s)
    BY <1>1, <1>2, <1>17 DEF ServeTwice
<1>18. CASE LoseConnect(s)
    BY <1>1, <1>2, <1>18 DEF LoseConnect
<1>19. CASE StrayThread(s)
    BY <1>1, <1>2, <1>19 DEF StrayThread, segVars
<1>4. CASE LockOwnRequest(s)
    BY <1>1, <1>2, <1>4 DEF LockOwnRequest
<1>5. CASE SendConnectSlaveRequest(s)
    BY <1>1, <1>2, <1>5 DEF SendConnectSlaveRequest
<1>6. CASE SendChangeNameSlaveRequest(s)
    BY <1>1, <1>2, <1>6 DEF SendChangeNameSlaveRequest
<1>7. CASE ProcessSignal(s)
    BY <1>1, <1>2, <1>7 DEF ProcessSignal
<1>8. CASE CheckSlaveResponse(s)
    BY <1>1, <1>2, <1>8 DEF CheckSlaveResponse
<1>9. CASE HandleSlaveRequest(s)
    BY <1>1, <1>2, <1>9 DEF HandleSlaveRequest
<1>10. CASE ForwardResponse(s)
    BY <1>1, <1>2, <1>10 DEF ForwardResponse
<1>11. CASE FinishDisconnect(s)
    BY <1>1, <1>2, <1>11 DEF FinishDisconnect, ResetSemaphores
<1>12. CASE RefuseConnect(s)
    BY <1>1, <1>2, <1>12 DEF RefuseConnect
<1>13. CASE AskForNewName(s)
    BY <1>1, <1>2, <1>13 DEF AskForNewName
<1>14. CASE FinishConnect(s)
    BY <1>1, <1>2, <1>14 DEF FinishConnect
<1>15. CASE IgnoreResponse(s)
    BY <1>1, <1>2, <1>15 DEF IgnoreResponse
<1> QED
    BY <1>3, <1>4, <1>5, <1>6, <1>7, <1>8, <1>9, <1>10, <1>11, <1>12, <1>13, <1>14, <1>15,
       <1>16, <1>17, <1>18, <1>19
    DEF ProcessorThread, SlaveProcessorThread

LEMMA LockStep == LockInv /\ [Next]_vars => LockInv'
<1> SUFFICES ASSUME LockInv, [Next]_vars PROVE LockInv'
    OBVIOUS
<1>1. TypeInv'
    BY TypeStep DEF LockInv
<1>2. ASSUME NEW s \in Slaves, ProcessorThread(s)
      PROVE  Served' /\ LinkLockBinary'
    BY <1>2, LockProcessorThread
<1>3. ASSUME SyncThread
      PROVE  Served' /\ LinkLockBinary'
    BY <1>3, LockSyncThread
<1>4. ASSUME NEW s \in Slaves, SlaveProcess(s)
      PROVE  Served' /\ LinkLockBinary'
    <2>1. UNCHANGED lockVars
        BY <1>4 DEF SlaveProcess, SignalThread, SignalHandlerThread, CycleThread,
                    CommunicationCycleThread, masterVars, lockVars
    <2> QED
        BY <2>1, LockUnchanged DEF LockInv
<1>5. ASSUME AsyncThread
      PROVE  Served' /\ LinkLockBinary'
    <2>1. UNCHANGED lockVars
        BY <1>5 DEF AsyncThread, AsyncSignalHandler, segVars, lockVars
    <2> QED
        BY <2>1, LockUnchanged DEF LockInv
<1>6. ASSUME ConfiguratorProcess
      PROVE  Served' /\ LinkLockBinary'
    <2>1. UNCHANGED lockVars
        BY <1>6 DEF ConfiguratorProcess, UserOrTimer, NextCommand, AnswerPrompt,
                    ReadReqCode, AbandonCommand, SendCommand, DeleteSlave,
                    ReceiveResponse, WaitTimeout, masterVars, shmVars, segVars,
                    lockVars
    <2> QED
        BY <2>1, LockUnchanged DEF LockInv
<1>7. ASSUME UNCHANGED vars
      PROVE  Served' /\ LinkLockBinary'
    BY <1>7, LockUnchanged DEF LockInv, vars, shmVars, segVars, masterVars, lockVars
<1>8. Served' /\ LinkLockBinary'
    BY <1>2, <1>3, <1>4, <1>5, <1>6, <1>7 DEF Next, MasterProcess
<1> QED
    BY <1>1, <1>8 DEF LockInv

LEMMA LockInvariant == Spec => []LockInv
BY LockInit, LockStep, PTL DEF Spec

-----------------------------------------------------------------------------
(* What the abstract specification is worth: as long as the sessions go as *)
(* it says, no two connected slaves have the same name.                    *)
THEOREM NamesFromSession == Spec /\ SessionSpec => []UniqueNames
<1>1. Served /\ Session!UniqueTitles => UniqueNames
    BY DEF Served, UniqueNames, Session!UniqueTitles, Session!InSession,
           sessionPhase
<1>2. SessionSpec => []Session!UniqueTitles
    BY Session!TitlesUnique DEF SessionSpec
<1>3. LockInv => Served
    BY DEF LockInv
<1> QED
    BY LockInvariant, <1>1, <1>2, <1>3, PTL

=============================================================================
