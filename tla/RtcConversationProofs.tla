----------------------- MODULE RtcConversationProofs ------------------------
(***************************************************************************)
(* Theorems of module Rtc that need Prompt: Conversation is an invariant,  *)
(* and with it what RtcProperties says of the threads, of the gate, of the *)
(* locks, of the signals, of the records and answers of the configurator,  *)
(* and the refinement of RtcSession. For any slaves, names and bounds, as  *)
(* long as a new thread reads the pid it was given or that of no process   *)
(* (Stale).                                                                *)
(*                                                                         *)
(* A step of a thread is shown to keep SlaveInv of the slave it works for  *)
(* (the lemmas ...Here), to leave that of every other slave alone          *)
(* (Elsewhere, ElsewhereTalking), and then to keep Conversation (...Step). *)
(***************************************************************************)
EXTENDS RtcConversation, RtcProofs

(* The types of what is counted for a slave, as LockInv gives them.        *)
Typed(s) ==
    /\ s \in Slaves
    /\ sem_m_to_s[s] \in Nat /\ sem_s_to_m[s] \in Nat /\ allow[s] \in Nat
    /\ sig_semaphore[s] \in Nat /\ threshold[s] \in Nat
    /\ spawned[s] \in Nat /\ assigning[s] \in Nat
    /\ thr_pc[s] \in ThrPcs /\ sig_pc[s] \in SigPcs /\ cyc_pc[s] \in CycPcs

(* A step that changes nothing of a slave but the signal pending for the   *)
(* master.                                                                 *)
SameAt(s) ==
    /\ owned'[s] = owned[s] /\ is_connected'[s] = is_connected[s]
    /\ req_m_to_s'[s] = req_m_to_s[s] /\ res_s_to_m'[s] = res_s_to_m[s]
    /\ cycle_started'[s] = cycle_started[s]
    /\ sem_m_to_s'[s] = sem_m_to_s[s] /\ sem_s_to_m'[s] = sem_s_to_m[s]
    /\ alive'[s] = alive[s] /\ slave_usr1'[s] = slave_usr1[s]
    /\ sig_pc'[s] = sig_pc[s] /\ cyc_pc'[s] = cyc_pc[s]
    /\ threshold'[s] = threshold[s] /\ allow'[s] = allow[s] /\ shmseg'[s] = shmseg[s]
    /\ sig_semaphore'[s] = sig_semaphore[s] /\ thr_pc'[s] = thr_pc[s]
    /\ spawned'[s] = spawned[s] /\ assigning'[s] = assigning[s]
    /\ created'[s] = created[s] /\ connected'[s] = connected[s]

(* A step that leaves the conversation of the configurator alone.          *)
SameTalk ==
    UNCHANGED <<request, affected, response, cfg_pc, offered, configurator_usr2,
                master_usr2, sync_pc, sync_slave>>

(* What is under way for a slave stays as it is when a thread works for    *)
(* another one.                                                            *)
LEMMA Elsewhere ==
    ASSUME NEW s \in Slaves, SlaveInv(s), SameAt(s), SameTalk,
           master_usr1' = s <=> master_usr1 = s
    PROVE  SlaveInv(s)'
BY SMTT(60)
DEF SlaveInv, SameAt, SameTalk, Bounded, GateHeld, RestsUnlessSent, Detached,
    RequestLock, Answering, ListedRightly, HandlesRequest, Stage, CyclesAlive,
    Recorded, ToMaster, ToSlave, UnderWay, Sending, Free, Talking, Chosen, Sent,
    Awake, Calm, Resting, Closed, ConnectSent, RequestSent, RequestFound, StartSent,
    Count

(* The types hold before a step,                                           *)
LEMMA ConversationTyped ==
    ASSUME LockInv, NEW s \in Slaves
    PROVE  Typed(s)
<1>1. threshold[s] \in 0 .. Segments
    BY DEF LockInv, TypeInv, TypeOK, SlaveTypeOK
<1> QED
    BY <1>1, SlaveAssumption
    DEF LockInv, TypeInv, TypeOK, ShmTypeOK, SlaveTypeOK, MasterTypeOK, Typed

(* and after it.                                                           *)
LEMMA TypedNext ==
    ASSUME LockInv', NEW s \in Slaves
    PROVE  Typed(s)'
<1>1. (threshold[s] \in 0 .. Segments)'
    BY DEF LockInv, TypeInv, TypeOK, SlaveTypeOK
<1> QED
    BY <1>1, SlaveAssumption
    DEF LockInv, TypeInv, TypeOK, ShmTypeOK, SlaveTypeOK, MasterTypeOK, Typed

-----------------------------------------------------------------------------
(* Every step of the signal thread of a slave (slave.c,                    *)
(* signal_handler_thread and the handlers of requests) keeps what is said  *)
(* of that slave. A request is handled only while a command is under way,  *)
(* and the signal it takes from the slave is the one that goes back.       *)
LEMMA SignalThreadHere ==
    ASSUME LockInv, LockInv', NEW s \in Slaves, SlaveInv(s), CommandInv, SignalThread(s)
    PROVE  SlaveInv(s)'
<1>1. /\ Typed(s) /\ s # NoPid
      /\ thr_pc[s] = "response" => sem_m_to_s[s] = 0
      /\ sem_m_to_s[s] <= 1
      /\ owned[s] <=> thr_pc[s] # "none"
      /\ is_connected[s] => owned[s]
      /\ request \in ConfiguratorRequests
    BY ConversationTyped, ShmAssumption
    DEF LockInv, TypeInv, TypeOK, ShmTypeOK, Served, LinkLockBinary
<1>2. /\ sig_pc \in [Slaves -> SigPcs] /\ slave_usr1 \in [Slaves -> BOOLEAN]
      /\ shmseg \in [Slaves -> BOOLEAN] /\ sem_s_to_m \in [Slaves -> Nat]
      /\ allow \in [Slaves -> Nat] /\ cycle_started \in [Slaves -> BOOLEAN]
      /\ res_s_to_m \in [Slaves -> Responses]
    BY DEF LockInv, TypeInv, TypeOK, ShmTypeOK, SlaveTypeOK
<1>3. /\ alive[s]
      /\ UNCHANGED <<owned, is_connected, req_m_to_s, sem_m_to_s, request, affected,
                     response, alive, master_usr2, configurator_usr2, cyc_pc,
                     threshold,
                     sig_semaphore, spawned, assigning, thr_pc, sync_pc,
                     sync_req, sync_slave,
                     cfg_pc, offered, created, connected>>
    BY DEF SignalThread, SignalHandlerThread, ctlVars, liveVars, masterVars,
           startVars,
           configuratorVars, SigGoto, ReceiveSignal, CheckMasterResponse,
           CheckMasterRequest, HandleMasterResponse, HandleConnectSlaveRequest,
           HandleDisconnectSlaveRequest, ClearShmseg, HandleChangeNameSlaveRequest,
           WriteNewName, HandleStartCycleSlaveRequest, AckStartCycle,
           HandleStopCycleSlaveRequest, CloseGate, HandleUnrecognizedRequest
<1>4. Typed(s)'
    BY TypedNext
<1>5. /\ ToMaster(s) \in Nat /\ ToSlave(s) \in Nat /\ Free(s) \in Nat
      /\ Sending(s) \in Nat
      /\ Free(s) >= sem_s_to_m[s]
      /\ Sending(s)' = Sending(s)
      /\ thr_pc[s] \in {"check", "request", "response"} => ToMaster(s) > 0
      /\ sig_pc[s] \notin {"sigwait", "detach"} => ToSlave(s) > 0
    BY <1>1, <1>3 DEF Typed, ToMaster, ToSlave, Free, Sending, Count
<1> USE DEF ThrPcs, SlaveInv, Bounded, GateHeld, RestsUnlessSent, Detached,
            RequestLock, Answering, ListedRightly, HandlesRequest, Stage,
            CyclesAlive, Recorded, UnderWay, Talking, Chosen, Sent, Awake, Calm,
            Resting, Closed, ConnectSent, RequestSent, RequestFound, StartSent,
            Count, Typed, CommandInv, ConfiguratorRequests, startVars
<1>6. CASE ReceiveSignal(s)
    <2>1. /\ sig_pc[s] = "sigwait" /\ slave_usr1[s] /\ ~slave_usr1'[s]
          /\ shmseg'[s] <=> shmseg[s] \/ owned[s]
          /\ sig_pc'[s] = IF shmseg[s] \/ owned[s] THEN "first" ELSE "sigwait"
          /\ UNCHANGED <<sem_s_to_m, res_s_to_m, cycle_started, allow, master_usr1>>
        BY <1>2, <1>6 DEF ReceiveSignal, SigGoto, responseVars, nameVars, gateVars
    <2>2. /\ ToSlave(s)' = IF sig_pc'[s] = "first" THEN ToSlave(s) ELSE ToSlave(s) - 1
          /\ ToSlave(s) > 0
          /\ ToMaster(s)' = ToMaster(s)
          /\ Free(s)' = Free(s)
        BY <1>1, <1>3, <2>1 DEF ToSlave, ToMaster, Free
    <2>4. Bounded(s)'
        BY <1>1, <1>3, <1>4, <1>5, <2>1, <2>2, SMTT(40)
    <2>5. RestsUnlessSent(s)'
        BY <1>1, <1>3, <1>4, <1>5, <2>1, <2>2, SMTT(40)
    <2>6. Answering(s)'
        BY <1>1, <1>3, <1>4, <1>5, <2>1, <2>2, SMTT(40)
    <2>7. GateHeld(s)' /\ RequestLock(s)' /\ HandlesRequest(s)' /\ CyclesAlive(s)'
        BY <1>1, <1>3, <1>4, <1>5, <2>1, <2>2, SMTT(40)
    <2>8. Detached(s)' /\ ListedRightly(s)' /\ Recorded(s)'
        BY <1>1, <1>3, <1>4, <1>5, <2>1, <2>2, SMTT(40)
    <2>9. Stage(s)'
        BY <1>1, <1>3, <1>4, <1>5, <2>1, <2>2, SMTT(40)
    <2> QED
        BY <2>4, <2>5, <2>6, <2>7, <2>8, <2>9 DEF SlaveInv
<1>7. CASE CheckMasterResponse(s)
    <2>1. /\ sig_pc[s] = "first"
          /\ sig_pc'[s] = IF sem_s_to_m[s] = 0 THEN "response" ELSE "check"
          /\ UNCHANGED <<slave_usr1, shmseg, sem_s_to_m, res_s_to_m, cycle_started,
                         allow, master_usr1>>
        BY <1>2, <1>7
        DEF CheckMasterResponse, SigGoto, responseVars, nameVars, gateVars
    <2>2. /\ ToSlave(s)' = ToSlave(s)
          /\ ToSlave(s) > 0
          /\ ToMaster(s)' = ToMaster(s)
          /\ Free(s)' = Free(s)
        BY <1>1, <1>3, <2>1 DEF ToSlave, ToMaster, Free
    <2>4. Bounded(s)'
        BY <1>1, <1>3, <1>4, <1>5, <2>1, <2>2, SMTT(40)
    <2>5. RestsUnlessSent(s)'
        BY <1>1, <1>3, <1>4, <1>5, <2>1, <2>2, SMTT(40)
    <2>6. Answering(s)'
        BY <1>1, <1>3, <1>4, <1>5, <2>1, <2>2, SMTT(40)
    <2>7. GateHeld(s)' /\ RequestLock(s)' /\ HandlesRequest(s)' /\ CyclesAlive(s)'
        BY <1>1, <1>3, <1>4, <1>5, <2>1, <2>2, SMTT(40)
    <2>8. Detached(s)' /\ ListedRightly(s)' /\ Recorded(s)'
        BY <1>1, <1>3, <1>4, <1>5, <2>1, <2>2, SMTT(40)
    <2>9. Stage(s)'
        BY <1>1, <1>3, <1>4, <1>5, <2>1, <2>2, SMTT(40)
    <2> QED
        BY <2>4, <2>5, <2>6, <2>7, <2>8, <2>9 DEF SlaveInv
<1>8. CASE CheckMasterRequest(s)
    <2>1. /\ sig_pc[s] = "check"
          /\ sig_pc'[s] = IF sem_m_to_s[s] = 0 THEN "request" ELSE "sigwait"
          /\ UNCHANGED <<slave_usr1, shmseg, sem_s_to_m, res_s_to_m, cycle_started,
                         allow, master_usr1>>
        BY <1>2, <1>8
        DEF CheckMasterRequest, SigGoto, responseVars, nameVars, gateVars
    <2>2. /\ ToSlave(s)' = IF sig_pc'[s] = "request" THEN ToSlave(s) ELSE ToSlave(s) - 1
          /\ ToSlave(s) > 0
          /\ ToMaster(s)' = ToMaster(s)
          /\ Free(s)' = Free(s)
        BY <1>1, <1>3, <2>1 DEF ToSlave, ToMaster, Free
    <2>3. Sent(s)
        BY <1>1, <1>3, <1>4, <1>5, <2>1, <2>2, SMTT(40)
    <2>4. Bounded(s)'
        BY <1>1, <1>3, <1>4, <1>5, <2>1, <2>2, <2>3, SMTT(40)
    <2>5. RestsUnlessSent(s)'
        BY <1>1, <1>3, <1>4, <1>5, <2>1, <2>2, <2>3, SMTT(40)
    <2>6. Answering(s)'
        BY <1>1, <1>3, <1>4, <1>5, <2>1, <2>2, <2>3, SMTT(40)
    <2>7. GateHeld(s)' /\ RequestLock(s)' /\ HandlesRequest(s)' /\ CyclesAlive(s)'
        BY <1>1, <1>3, <1>4, <1>5, <2>1, <2>2, <2>3, SMTT(40)
    <2>8. Detached(s)' /\ ListedRightly(s)' /\ Recorded(s)'
        BY <1>1, <1>3, <1>4, <1>5, <2>1, <2>2, <2>3, SMTT(40)
    <2>9. Stage(s)'
        BY <1>1, <1>3, <1>4, <1>5, <2>1, <2>2, <2>3, SMTT(40)
    <2> QED
        BY <2>4, <2>5, <2>6, <2>7, <2>8, <2>9 DEF SlaveInv
<1>9. CASE HandleMasterResponse(s)
    <2>1. /\ sig_pc[s] = "response" /\ sig_pc'[s] = "sigwait"
          /\ sem_s_to_m'[s] = sem_s_to_m[s] + 1
          /\ UNCHANGED <<slave_usr1, shmseg, res_s_to_m, cycle_started, allow,
                         master_usr1>>
        BY <1>2, <1>9
        DEF HandleMasterResponse, SigGoto, responseVars, nameVars, gateVars
    <2>2. /\ ToSlave(s)' = ToSlave(s) - 1
          /\ ToSlave(s) > 0
          /\ ToMaster(s)' = ToMaster(s)
          /\ Free(s)' = Free(s) + 1
        BY <1>1, <1>3, <2>1 DEF ToSlave, ToMaster, Free
    <2>4. Bounded(s)'
        BY <1>1, <1>3, <1>4, <1>5, <2>1, <2>2, SMTT(40)
    <2>5. RestsUnlessSent(s)'
        BY <1>1, <1>3, <1>4, <1>5, <2>1, <2>2, SMTT(40)
    <2>6. Answering(s)'
        BY <1>1, <1>3, <1>4, <1>5, <2>1, <2>2, SMTT(40)
    <2>7. GateHeld(s)' /\ RequestLock(s)' /\ HandlesRequest(s)' /\ CyclesAlive(s)'
        BY <1>1, <1>3, <1>4, <1>5, <2>1, <2>2, SMTT(40)
    <2>8. Detached(s)' /\ ListedRightly(s)' /\ Recorded(s)'
        BY <1>1, <1>3, <1>4, <1>5, <2>1, <2>2, SMTT(40)
    <2>9. Stage(s)'
        BY <1>1, <1>3, <1>4, <1>5, <2>1, <2>2, SMTT(40)
    <2> QED
        BY <2>4, <2>5, <2>6, <2>7, <2>8, <2>9 DEF SlaveInv
<1>10. CASE HandleConnectSlaveRequest(s)
    <2>1. /\ req_m_to_s[s] = "CONNECT_SLAVE"
          /\ sig_pc[s] = "request" /\ sig_pc'[s] = "sigwait"
          /\ res_s_to_m'[s] = "ACK"
          /\ master_usr1' = IF master_usr1 = NoPid THEN s ELSE master_usr1
          /\ UNCHANGED <<slave_usr1, shmseg, sem_s_to_m, cycle_started, allow>>
        BY <1>2, <1>10
        DEF HandleConnectSlaveRequest, SigGoto, Respond, KillMaster, gateVars
    <2>2. /\ ToSlave(s)' = ToSlave(s) - 1
          /\ ToMaster(s)' \in {ToMaster(s), ToMaster(s) + 1}
          /\ ToSlave(s) > 0
          /\ Free(s)' = Free(s)
        BY <1>1, <1>3, <2>1 DEF ToSlave, ToMaster, Free
    <2>3. Sent(s) /\ request = "CONNECT_SLAVE" /\ Calm(s)
        BY <1>1, <1>3, <1>4, <1>5, <2>1, <2>2, SMTT(40)
    <2>4. Bounded(s)'
        BY <1>1, <1>3, <1>4, <1>5, <2>1, <2>2, <2>3, SMTT(40)
    <2>5. RestsUnlessSent(s)'
        BY <1>1, <1>3, <1>4, <1>5, <2>1, <2>2, <2>3, SMTT(40)
    <2>6. Answering(s)'
        BY <1>1, <1>3, <1>4, <1>5, <2>1, <2>2, <2>3, SMTT(40)
    <2>7. GateHeld(s)' /\ RequestLock(s)' /\ HandlesRequest(s)' /\ CyclesAlive(s)'
        BY <1>1, <1>3, <1>4, <1>5, <2>1, <2>2, <2>3, SMTT(40)
    <2>8. Detached(s)' /\ ListedRightly(s)' /\ Recorded(s)'
        BY <1>1, <1>3, <1>4, <1>5, <2>1, <2>2, <2>3, SMTT(40)
    <2>9. Stage(s)'
        BY <1>1, <1>3, <1>4, <1>5, <2>1, <2>2, <2>3, SMTT(40)
    <2> QED
        BY <2>4, <2>5, <2>6, <2>7, <2>8, <2>9 DEF SlaveInv
<1>11. CASE HandleDisconnectSlaveRequest(s)
    <2>1. /\ req_m_to_s[s] = "DISCONNECT_SLAVE"
          /\ sig_pc[s] = "request" /\ sig_pc'[s] = "detach"
          /\ res_s_to_m'[s] = "ACK"
          /\ master_usr1' = IF master_usr1 = NoPid THEN s ELSE master_usr1
          /\ UNCHANGED <<slave_usr1, shmseg, sem_s_to_m, cycle_started, allow>>
        BY <1>2, <1>11
        DEF HandleDisconnectSlaveRequest, SigGoto, Respond, KillMaster, nameVars,
            gateVars
    <2>2. /\ ToSlave(s)' = ToSlave(s) - 1
          /\ ToMaster(s)' \in {ToMaster(s), ToMaster(s) + 1}
          /\ ToSlave(s) > 0
          /\ Free(s)' = Free(s)
        BY <1>1, <1>3, <2>1 DEF ToSlave, ToMaster, Free
    <2>3. Sent(s) /\ request = "DISCONNECT_SLAVE" /\ Calm(s)
        BY <1>1, <1>3, <1>4, <1>5, <2>1, <2>2, SMTT(40)
    <2>4. Bounded(s)'
        BY <1>1, <1>3, <1>4, <1>5, <2>1, <2>2, <2>3, SMTT(40)
    <2>5. RestsUnlessSent(s)'
        BY <1>1, <1>3, <1>4, <1>5, <2>1, <2>2, <2>3, SMTT(40)
    <2>6. Answering(s)'
        BY <1>1, <1>3, <1>4, <1>5, <2>1, <2>2, <2>3, SMTT(40)
    <2>7. GateHeld(s)' /\ RequestLock(s)' /\ HandlesRequest(s)' /\ CyclesAlive(s)'
        BY <1>1, <1>3, <1>4, <1>5, <2>1, <2>2, <2>3, SMTT(40)
    <2>8. Detached(s)' /\ ListedRightly(s)' /\ Recorded(s)'
        BY <1>1, <1>3, <1>4, <1>5, <2>1, <2>2, <2>3, SMTT(40)
    <2>9. Stage(s)'
        BY <1>1, <1>3, <1>4, <1>5, <2>1, <2>2, <2>3, SMTT(40)
    <2> QED
        BY <2>4, <2>5, <2>6, <2>7, <2>8, <2>9 DEF SlaveInv
<1>12. CASE ClearShmseg(s)
    <2>1. /\ sig_pc[s] = "detach" /\ sig_pc'[s] = "sigwait"
          /\ UNCHANGED <<slave_usr1, sem_s_to_m, res_s_to_m, cycle_started, allow,
                         master_usr1>>
        BY <1>2, <1>12 DEF ClearShmseg, SigGoto, responseVars, nameVars, gateVars
    <2>2. /\ ToSlave(s)' = ToSlave(s)
          /\ ToMaster(s)' = ToMaster(s)
          /\ Free(s)' = Free(s)
        BY <1>1, <1>3, <2>1 DEF ToSlave, ToMaster, Free
    <2>4. Bounded(s)'
        BY <1>1, <1>3, <1>4, <1>5, <2>1, <2>2, SMTT(40)
    <2>5. RestsUnlessSent(s)'
        BY <1>1, <1>3, <1>4, <1>5, <2>1, <2>2, SMTT(40)
    <2>6. Answering(s)'
        BY <1>1, <1>3, <1>4, <1>5, <2>1, <2>2, SMTT(40)
    <2>7. GateHeld(s)' /\ RequestLock(s)' /\ HandlesRequest(s)' /\ CyclesAlive(s)'
        BY <1>1, <1>3, <1>4, <1>5, <2>1, <2>2, SMTT(40)
    <2>8. Detached(s)' /\ ListedRightly(s)' /\ Recorded(s)'
        BY <1>1, <1>3, <1>4, <1>5, <2>1, <2>2, SMTT(40)
    <2>9. Stage(s)'
        BY <1>1, <1>3, <1>4, <1>5, <2>1, <2>2, SMTT(40)
    <2> QED
        BY <2>4, <2>5, <2>6, <2>7, <2>8, <2>9 DEF SlaveInv
<1>13. CASE HandleChangeNameSlaveRequest(s)
    <2>1. /\ req_m_to_s[s] = "CHANGE_SLAVE_NAME"
          /\ sig_pc[s] = "request"
          /\ \/ /\ sig_pc'[s] = "sigwait" /\ res_s_to_m'[s] = "NACK"
                /\ master_usr1' = IF master_usr1 = NoPid THEN s ELSE master_usr1
             \/ /\ sig_pc'[s] = "rename" /\ res_s_to_m' = res_s_to_m
                /\ master_usr1' = master_usr1
          /\ UNCHANGED <<slave_usr1, shmseg, sem_s_to_m, cycle_started, allow>>
        BY <1>2, <1>13
        DEF HandleChangeNameSlaveRequest, SigGoto, Respond, KillMaster,
            responseVars, gateVars
    <2>2. /\ IF sig_pc'[s] = "rename"
             THEN ToSlave(s)' = ToSlave(s) /\ ToMaster(s)' = ToMaster(s)
             ELSE /\ ToSlave(s)' = ToSlave(s) - 1
                  /\ ToMaster(s)' \in {ToMaster(s), ToMaster(s) + 1}
          /\ ToSlave(s) > 0
          /\ Free(s)' = Free(s)
        <3>1. /\ ToSlave(s) > 0
              /\ ToSlave(s)' = IF sig_pc'[s] = "rename" THEN ToSlave(s) ELSE ToSlave(s) - 1
            BY <1>1, <1>3, <2>1 DEF ToSlave
        <3>2. IF sig_pc'[s] = "rename"
              THEN ToMaster(s)' = ToMaster(s)
              ELSE ToMaster(s)' \in {ToMaster(s), ToMaster(s) + 1}
            BY <1>1, <1>3, <2>1 DEF ToMaster
        <3>3. Free(s)' = Free(s)
            BY <1>3, <2>1 DEF Free
        <3> QED
            BY <3>1, <3>2, <3>3
    <2>3. Sent(s) /\ request = "CONNECT_SLAVE" /\ Calm(s)
        BY <1>1, <1>3, <1>4, <1>5, <2>1, <2>2, SMTT(40)
    <2>4. Bounded(s)'
        BY <1>1, <1>3, <1>4, <1>5, <2>1, <2>2, <2>3, SMTT(40)
    <2>5. RestsUnlessSent(s)'
        BY <1>1, <1>3, <1>4, <1>5, <2>1, <2>2, <2>3, SMTT(40)
    <2>6. Answering(s)'
        BY <1>1, <1>3, <1>4, <1>5, <2>1, <2>2, <2>3, SMTT(40)
    <2>7. GateHeld(s)' /\ RequestLock(s)' /\ HandlesRequest(s)' /\ CyclesAlive(s)'
        BY <1>1, <1>3, <1>4, <1>5, <2>1, <2>2, <2>3, SMTT(40)
    <2>8. Detached(s)' /\ ListedRightly(s)' /\ Recorded(s)'
        BY <1>1, <1>3, <1>4, <1>5, <2>1, <2>2, <2>3, SMTT(40)
    <2>9. Stage(s)'
        BY <1>1, <1>3, <1>4, <1>5, <2>1, <2>2, <2>3, SMTT(40)
    <2> QED
        BY <2>4, <2>5, <2>6, <2>7, <2>8, <2>9 DEF SlaveInv
<1>14. CASE WriteNewName(s)
    <2>1. /\ sig_pc[s] = "rename" /\ sig_pc'[s] = "sigwait"
          /\ res_s_to_m'[s] = "ACK"
          /\ master_usr1' = IF master_usr1 = NoPid THEN s ELSE master_usr1
          /\ UNCHANGED <<slave_usr1, shmseg, sem_s_to_m, cycle_started, allow>>
        BY <1>2, <1>14 DEF WriteNewName, SigGoto, Respond, KillMaster, gateVars
    <2>2. /\ ToSlave(s)' = ToSlave(s) - 1
          /\ ToMaster(s)' \in {ToMaster(s), ToMaster(s) + 1}
          /\ ToSlave(s) > 0
          /\ Free(s)' = Free(s)
        BY <1>1, <1>3, <2>1 DEF ToSlave, ToMaster, Free
    <2>3. Sent(s) /\ request = "CONNECT_SLAVE" /\ Calm(s)
        BY <1>1, <1>3, <1>4, <1>5, <2>1, <2>2, SMTT(40)
    <2>4. Bounded(s)'
        BY <1>1, <1>3, <1>4, <1>5, <2>1, <2>2, <2>3, SMTT(40)
    <2>5. RestsUnlessSent(s)'
        BY <1>1, <1>3, <1>4, <1>5, <2>1, <2>2, <2>3, SMTT(40)
    <2>6. Answering(s)'
        BY <1>1, <1>3, <1>4, <1>5, <2>1, <2>2, <2>3, SMTT(40)
    <2>7. GateHeld(s)' /\ RequestLock(s)' /\ HandlesRequest(s)' /\ CyclesAlive(s)'
        BY <1>1, <1>3, <1>4, <1>5, <2>1, <2>2, <2>3, SMTT(40)
    <2>8. Detached(s)' /\ ListedRightly(s)' /\ Recorded(s)'
        BY <1>1, <1>3, <1>4, <1>5, <2>1, <2>2, <2>3, SMTT(40)
    <2>9. Stage(s)'
        BY <1>1, <1>3, <1>4, <1>5, <2>1, <2>2, <2>3, SMTT(40)
    <2> QED
        BY <2>4, <2>5, <2>6, <2>7, <2>8, <2>9 DEF SlaveInv
<1>15. CASE HandleStartCycleSlaveRequest(s)
    <2>1. /\ req_m_to_s[s] = "START_SLAVE_CYCLE"
          /\ sig_pc[s] = "request"
          /\ \/ /\ cycle_started[s] /\ sig_pc'[s] = "sigwait" /\ res_s_to_m'[s] = "NACK"
                /\ master_usr1' = IF master_usr1 = NoPid THEN s ELSE master_usr1
                /\ cycle_started'[s] = cycle_started[s] /\ allow'[s] = allow[s]
             \/ /\ ~cycle_started[s] /\ cycle_started'[s] /\ sig_pc'[s] = "start_ack"
                /\ res_s_to_m' = res_s_to_m /\ master_usr1' = master_usr1
                /\ allow'[s] = allow[s] + 1
          /\ UNCHANGED <<slave_usr1, shmseg, sem_s_to_m>>
        BY <1>2, <1>15
        DEF HandleStartCycleSlaveRequest, SigGoto, Respond, KillMaster,
            responseVars, nameVars, gateVars
    <2>2. /\ IF sig_pc'[s] = "start_ack"
             THEN ToSlave(s)' = ToSlave(s) /\ ToMaster(s)' = ToMaster(s)
             ELSE /\ ToSlave(s)' = ToSlave(s) - 1
                  /\ ToMaster(s)' \in {ToMaster(s), ToMaster(s) + 1}
          /\ ToSlave(s) > 0
          /\ Free(s)' = Free(s)
        <3>1. /\ ToSlave(s) > 0
              /\ ToSlave(s)' = IF sig_pc'[s] = "start_ack" THEN ToSlave(s) ELSE ToSlave(s) - 1
            BY <1>1, <1>3, <2>1 DEF ToSlave
        <3>2. IF sig_pc'[s] = "start_ack"
              THEN ToMaster(s)' = ToMaster(s)
              ELSE ToMaster(s)' \in {ToMaster(s), ToMaster(s) + 1}
            BY <1>1, <1>3, <2>1 DEF ToMaster
        <3>3. Free(s)' = Free(s)
            BY <1>3, <2>1 DEF Free
        <3> QED
            BY <3>1, <3>2, <3>3
    <2>3. /\ Sent(s) /\ request = "START_SLAVE_CYCLE" /\ ~cycle_started[s] /\ Calm(s)
          /\ ToMaster(s) = 0
          /\ sem_s_to_m[s] > 0 /\ thr_pc[s] \notin {"check", "request", "response"}
        BY <1>1, <1>3, <1>4, <1>5, <2>1, <2>2, SMTT(40)
    <2>4. Bounded(s)'
        BY <1>1, <1>3, <1>4, <1>5, <2>1, <2>2, <2>3, SMTT(40)
    <2>5. RestsUnlessSent(s)'
        BY <1>1, <1>3, <1>4, <1>5, <2>1, <2>2, <2>3, SMTT(40)
    <2>6. Answering(s)'
        BY <1>1, <1>3, <1>4, <1>5, <2>1, <2>2, <2>3, SMTT(40)
    <2>7. GateHeld(s)' /\ RequestLock(s)' /\ HandlesRequest(s)' /\ CyclesAlive(s)'
        BY <1>1, <1>3, <1>4, <1>5, <2>1, <2>2, <2>3, SMTT(40)
    <2>8. Detached(s)' /\ ListedRightly(s)' /\ Recorded(s)'
        <3>1. Detached(s)'
            BY <1>1, <1>3, <1>4, <1>5, <2>1, <2>2, <2>3, SMTT(40)
        <3>2. ListedRightly(s)'
            BY <1>1, <1>3, <1>4, <2>1, <2>3, SMTT(40)
        <3>3. Recorded(s)'
            BY <1>3, SMTT(40)
        <3> QED
            BY <3>1, <3>2, <3>3
    <2>9. Stage(s)'
        <3>1. /\ sig_pc'[s] = "start_ack" /\ cycle_started'[s]
              /\ ToSlave(s)' = ToSlave(s) /\ ToMaster(s)' = 0
            BY <2>1, <2>2, <2>3
        <3>2. sem_s_to_m[s] = 1 /\ ToSlave(s) = 1
            BY <1>1, <1>5, <2>2, <2>3
        <3>3. ~Awake(s)
            BY <1>3, <2>1, <2>3
        <3>4. StartSent(s)'
            BY <1>3, <2>1, <2>3, <3>1, <3>2, <3>3
        <3>5. RequestSent(s)'
            BY <1>3, <2>3
        <3> QED
            BY <1>3, <2>3, <3>4, <3>5
    <2> QED
        BY <2>4, <2>5, <2>6, <2>7, <2>8, <2>9 DEF SlaveInv
<1>16. CASE AckStartCycle(s)
    <2>1. /\ sig_pc[s] = "start_ack" /\ sig_pc'[s] = "sigwait"
          /\ res_s_to_m'[s] = "ACK"
          /\ master_usr1' = IF master_usr1 = NoPid THEN s ELSE master_usr1
          /\ UNCHANGED <<slave_usr1, shmseg, sem_s_to_m, cycle_started, allow>>
        BY <1>2, <1>16
        DEF AckStartCycle, SigGoto, Respond, KillMaster, nameVars, gateVars
    <2>2. /\ ToSlave(s)' = ToSlave(s) - 1
          /\ ToMaster(s)' \in {ToMaster(s), ToMaster(s) + 1}
          /\ ToSlave(s) > 0
          /\ Free(s)' = Free(s)
        BY <1>1, <1>3, <2>1 DEF ToSlave, ToMaster, Free
    <2>3. /\ Sent(s) /\ request = "START_SLAVE_CYCLE" /\ cycle_started[s]
          /\ ToMaster(s) = 0 /\ ToSlave(s) = 1 /\ sem_s_to_m[s] = 1 /\ ~Awake(s)
          /\ thr_pc[s] \notin {"check", "request", "response"}
        BY <1>1, <1>3, <1>4, <1>5, <2>1, <2>2, SMTT(40)
    <2>4. Bounded(s)'
        BY <1>1, <1>3, <1>4, <1>5, <2>1, <2>2, <2>3, SMTT(40)
    <2>5. RestsUnlessSent(s)'
        BY <1>1, <1>3, <1>4, <1>5, <2>1, <2>2, <2>3, SMTT(40)
    <2>6. Answering(s)'
        BY <1>1, <1>3, <1>4, <1>5, <2>1, <2>2, <2>3, SMTT(40)
    <2>7. GateHeld(s)' /\ RequestLock(s)' /\ HandlesRequest(s)' /\ CyclesAlive(s)'
        BY <1>1, <1>3, <1>4, <1>5, <2>1, <2>2, <2>3, SMTT(40)
    <2>8. Detached(s)' /\ ListedRightly(s)' /\ Recorded(s)'
        BY <1>1, <1>3, <1>4, <1>5, <2>1, <2>2, <2>3, SMTT(40)
    <2>9. Stage(s)'
        <3>1. /\ Free(s) <= 1 /\ RequestSent(s)' /\ is_connected[s]
              /\ thr_pc[s] \in {"none", "wait"}
            BY <1>1, <1>3, <1>4, <1>5, <2>1, <2>2, <2>3
        <3>2. ToMaster(s)' = 0 => Resting(s)'
            BY <1>3, <1>5, <2>1, <2>2, <2>3, <3>1
        <3>3. StartSent(s)'
            BY <1>1, <1>3, <1>4, <1>5, <2>1, <2>2, <2>3, <3>1, <3>2
        <3> QED
            BY <1>3, <2>3, <3>1, <3>3
    <2> QED
        BY <2>4, <2>5, <2>6, <2>7, <2>8, <2>9 DEF SlaveInv
<1>17. CASE HandleStopCycleSlaveRequest(s)
    <2>1. /\ req_m_to_s[s] = "STOP_SLAVE_CYCLE"
          /\ sig_pc[s] = "request"
          /\ \/ /\ ~cycle_started[s] /\ ~cycle_started'[s] /\ sig_pc'[s] = "sigwait"
                /\ res_s_to_m'[s] = "NACK"
                /\ master_usr1' = IF master_usr1 = NoPid THEN s ELSE master_usr1
             \/ /\ cycle_started[s] /\ ~cycle_started'[s] /\ sig_pc'[s] = "stop_wait"
                /\ res_s_to_m' = res_s_to_m /\ master_usr1' = master_usr1
          /\ UNCHANGED <<slave_usr1, shmseg, sem_s_to_m, allow>>
        BY <1>2, <1>17
        DEF HandleStopCycleSlaveRequest, SigGoto, Respond, KillMaster, responseVars,
            nameVars
    <2>2. /\ IF sig_pc'[s] = "stop_wait"
             THEN ToSlave(s)' = ToSlave(s) /\ ToMaster(s)' = ToMaster(s)
             ELSE /\ ToSlave(s)' = ToSlave(s) - 1
                  /\ ToMaster(s)' \in {ToMaster(s), ToMaster(s) + 1}
          /\ ToSlave(s) > 0
          /\ Free(s)' = Free(s)
        BY <1>1, <1>3, <2>1 DEF ToSlave, ToMaster, Free
    <2>3. Sent(s) /\ request = "STOP_SLAVE_CYCLE"
        BY <1>1, <1>3, <1>4, <1>5, <2>1, <2>2, SMTT(40)
    <2>4. Bounded(s)'
        BY <1>1, <1>3, <1>4, <1>5, <2>1, <2>2, <2>3, SMTT(40)
    <2>5. RestsUnlessSent(s)'
        BY <1>1, <1>3, <1>4, <1>5, <2>1, <2>2, <2>3, SMTT(40)
    <2>6. Answering(s)'
        BY <1>1, <1>3, <1>4, <1>5, <2>1, <2>2, <2>3, SMTT(40)
    <2>7. GateHeld(s)' /\ RequestLock(s)' /\ HandlesRequest(s)' /\ CyclesAlive(s)'
        BY <1>1, <1>3, <1>4, <1>5, <2>1, <2>2, <2>3, SMTT(40)
    <2>8. Detached(s)' /\ ListedRightly(s)' /\ Recorded(s)'
        BY <1>1, <1>3, <1>4, <1>5, <2>1, <2>2, <2>3, SMTT(40)
    <2>9. Stage(s)'
        BY <1>1, <1>3, <1>4, <1>5, <2>1, <2>2, <2>3, SMTT(40)
    <2> QED
        BY <2>4, <2>5, <2>6, <2>7, <2>8, <2>9 DEF SlaveInv
<1>18. CASE CloseGate(s)
    <2>1. /\ sig_pc[s] = "stop_wait" /\ sig_pc'[s] = "sigwait"
          /\ allow[s] > 0 /\ allow'[s] = allow[s] - 1
          /\ res_s_to_m'[s] = "ACK"
          /\ master_usr1' = IF master_usr1 = NoPid THEN s ELSE master_usr1
          /\ UNCHANGED <<slave_usr1, shmseg, sem_s_to_m, cycle_started>>
        BY <1>2, <1>18 DEF CloseGate, SigGoto, Respond, KillMaster, nameVars
    <2>2. /\ ToSlave(s)' = ToSlave(s) - 1
          /\ ToMaster(s)' \in {ToMaster(s), ToMaster(s) + 1}
          /\ ToSlave(s) > 0
          /\ Free(s)' = Free(s)
        BY <1>1, <1>3, <2>1 DEF ToSlave, ToMaster, Free
    <2>3. Sent(s) /\ request = "STOP_SLAVE_CYCLE"
        BY <1>1, <1>3, <1>4, <1>5, <2>1, <2>2, SMTT(40)
    <2>4. Bounded(s)'
        BY <1>1, <1>3, <1>4, <1>5, <2>1, <2>2, <2>3, SMTT(40)
    <2>5. RestsUnlessSent(s)'
        BY <1>1, <1>3, <1>4, <1>5, <2>1, <2>2, <2>3, SMTT(40)
    <2>6. Answering(s)'
        BY <1>1, <1>3, <1>4, <1>5, <2>1, <2>2, <2>3, SMTT(40)
    <2>7. GateHeld(s)' /\ RequestLock(s)' /\ HandlesRequest(s)' /\ CyclesAlive(s)'
        BY <1>1, <1>3, <1>4, <1>5, <2>1, <2>2, <2>3, SMTT(40)
    <2>8. Detached(s)' /\ ListedRightly(s)' /\ Recorded(s)'
        BY <1>1, <1>3, <1>4, <1>5, <2>1, <2>2, <2>3, SMTT(40)
    <2>9. Stage(s)'
        BY <1>1, <1>3, <1>4, <1>5, <2>1, <2>2, <2>3, SMTT(40)
    <2> QED
        BY <2>4, <2>5, <2>6, <2>7, <2>8, <2>9 DEF SlaveInv
<1>19. CASE HandleUnrecognizedRequest(s)
    <2>1. /\ req_m_to_s[s] = "START_MASTER"
          /\ sig_pc[s] = "request" /\ sig_pc'[s] = "sigwait"
          /\ res_s_to_m'[s] = "NACK"
          /\ master_usr1' = IF master_usr1 = NoPid THEN s ELSE master_usr1
          /\ UNCHANGED <<slave_usr1, shmseg, sem_s_to_m, cycle_started, allow>>
        BY <1>2, <1>19
        DEF HandleUnrecognizedRequest, SigGoto, Respond, KillMaster, nameVars,
            gateVars
    <2>2. /\ ToSlave(s)' = ToSlave(s) - 1
          /\ ToMaster(s)' \in {ToMaster(s), ToMaster(s) + 1}
          /\ ToSlave(s) > 0
          /\ Free(s)' = Free(s)
        BY <1>1, <1>3, <2>1 DEF ToSlave, ToMaster, Free
    <2>3. FALSE
        BY <1>1, <1>3, <1>4, <1>5, <2>1, <2>2, SMTT(40)
    <2> QED
        BY <2>3
<1> HIDE DEF ThrPcs, SlaveInv, Bounded, GateHeld, RestsUnlessSent, Detached,
             RequestLock, Answering, ListedRightly, HandlesRequest, Stage,
             CyclesAlive, Recorded, UnderWay, Talking, Chosen, Sent, Awake, Calm,
             Resting, Closed, ConnectSent, RequestSent, RequestFound, StartSent,
             Count, Typed, CommandInv, ConfiguratorRequests, startVars
<1> QED
    BY <1>6, <1>7, <1>8, <1>9, <1>10, <1>11, <1>12, <1>13, <1>14, <1>15, <1>16,
       <1>17, <1>18, <1>19
    DEF SignalThread, SignalHandlerThread

-----------------------------------------------------------------------------
(* Where a sleep may end, the work for the slave is done: nothing is under *)
(* way but a STOP that waits for the gate.                                 *)
LEMMA QuietSlave ==
    ASSUME NEW s \in Slaves, Typed(s), Served, SlaveInv(s), master_alive, Quiet(s)
    PROVE  /\ ToMaster(s) = 0 /\ Sending(s) = 0 /\ spawned[s] = 0 /\ assigning[s] = 0
           /\ thr_pc[s] \in {"none", "wait"}
           /\ alive[s] /\ ~(sig_pc[s] = "stop_wait" /\ allow[s] = 0) =>
                 sig_pc[s] = "sigwait" /\ ~slave_usr1[s] /\ ToSlave(s) = 0
BY SMTT(40)
DEF Quiet, ProcessorIdle, SignalThreadIdle, SyncThreadIdle, SlaveInv, Detached,
    Served, Typed, ToMaster, ToSlave, Sending, Count

(* Every step of the communication cycle of a slave keeps what is said of  *)
(* that slave. With Prompt the response to the last request has been       *)
(* handled when a sleep ends, so that the lock is there at the first       *)
(* attempt (this is where Segments > 0 is needed: with no attempt at all   *)
(* every request would be given up).                                       *)
LEMMA CycleThreadHere ==
    ASSUME LockInv, LockInv', NEW s \in Slaves, SlaveInv(s), CommandInv, master_alive,
           Prompt, Segments > 0, CycleThread(s)
    PROVE  SlaveInv(s)'
<1>1. /\ Typed(s) /\ Typed(s)' /\ s # NoPid
      /\ thr_pc[s] = "response" => sem_m_to_s[s] = 0
      /\ sem_m_to_s[s] <= 1
      /\ owned[s] <=> thr_pc[s] # "none"
      /\ is_connected[s] => owned[s]
      /\ request \in ConfiguratorRequests
    BY ConversationTyped, TypedNext, ShmAssumption
    DEF LockInv, TypeInv, TypeOK, ShmTypeOK, Served, LinkLockBinary
<1>2. /\ cyc_pc \in [Slaves -> CycPcs] /\ threshold \in [Slaves -> 0 .. Segments]
      /\ alive \in [Slaves -> BOOLEAN] /\ sem_s_to_m \in [Slaves -> Nat]
      /\ allow \in [Slaves -> Nat]
    BY DEF LockInv, TypeInv, TypeOK, ShmTypeOK, SlaveTypeOK
<1>3. /\ alive[s]
      /\ UNCHANGED <<owned, is_connected, req_m_to_s, res_s_to_m, cycle_started,
                     sem_m_to_s, request, affected, response, slave_usr1,
                     master_usr2,
                     configurator_usr2, sig_pc, shmseg, sig_semaphore, spawned,
                     assigning, thr_pc,
                     sync_pc, sync_req, sync_slave, cfg_pc, offered, created, connected>>
    BY DEF CycleThread, CommunicationCycleThread, ctlVars, masterVars, startVars,
           configuratorVars, CycGoto, CycleAtGate, SampleParameters, TryLockRequest,
           CheckGate, SendMasterSignalMasterParameterRequest, DereferenceNull
<1>4. /\ Asleep(s) => Quiet(s)
      /\ Asleep(s) <=> cyc_pc[s] = "sample" \/ (cyc_pc[s] = "trylock" /\ threshold[s] > 0)
    BY DEF CycleThread, Asleep
<1>5. /\ ToMaster(s) \in Nat /\ ToSlave(s) \in Nat /\ Free(s) \in Nat
      /\ Sending(s) \in Nat
      /\ Free(s) >= sem_s_to_m[s]
      /\ cyc_pc[s] \in {"check", "send"} => Free(s) = sem_s_to_m[s] + 1
      /\ Sending(s)' = Sending(s)
      /\ thr_pc[s] \in {"check", "request", "response"} => ToMaster(s) > 0
      /\ sig_pc[s] \notin {"sigwait", "detach"} => ToSlave(s) > 0
    BY <1>1, <1>3 DEF Typed, ToMaster, ToSlave, Free, Sending, Count
<1>6. Asleep(s) =>
      /\ ToMaster(s) = 0 /\ Sending(s) = 0 /\ spawned[s] = 0 /\ assigning[s] = 0
      /\ thr_pc[s] \in {"none", "wait"}
      /\ ~(sig_pc[s] = "stop_wait" /\ allow[s] = 0) =>
            sig_pc[s] = "sigwait" /\ ~slave_usr1[s] /\ ToSlave(s) = 0
    BY <1>1, <1>3, <1>4, QuietSlave DEF LockInv
<1> USE DEF ThrPcs, SlaveInv, Bounded, GateHeld, RestsUnlessSent, Detached,
            RequestLock, Answering, ListedRightly, HandlesRequest, Stage,
            CyclesAlive, Recorded, UnderWay, Talking, Chosen, Sent, Awake, Calm,
            Resting, Closed, ConnectSent, RequestSent, RequestFound, StartSent,
            Count, Typed, CommandInv, ConfiguratorRequests, startVars
<1>7. CASE CycleAtGate(s)
    <2>1. /\ cyc_pc[s] = "gate" /\ cyc_pc'[s] = "sample"
          /\ allow[s] > 0 /\ allow'[s] = allow[s] - 1
          /\ UNCHANGED <<sem_s_to_m, threshold, alive, master_usr1>>
        BY <1>1, <1>2, <1>7, SlaveAssumption DEF CycleAtGate, CycGoto
    <2>2. /\ ToMaster(s)' = ToMaster(s)
          /\ ToSlave(s)' = ToSlave(s)
          /\ Free(s)' = Free(s)
        BY <1>1, <1>3, <1>7, <2>1 DEF ToSlave, ToMaster, Free
    <2>3. Bounded(s)'
        BY <1>1, <1>3, <1>4, <1>5, <1>6, <1>7, <2>1, <2>2, SMTT(40)
    <2>4. RestsUnlessSent(s)'
        BY <1>1, <1>3, <1>4, <1>5, <1>6, <1>7, <2>1, <2>2, SMTT(40)
    <2>5. Answering(s)'
        BY <1>1, <1>3, <1>4, <1>5, <1>6, <1>7, <2>1, <2>2, SMTT(40)
    <2>6. GateHeld(s)' /\ RequestLock(s)' /\ HandlesRequest(s)' /\ CyclesAlive(s)'
        <3>1. GateHeld(s)'
            BY <1>1, <1>3, <2>1, SMTT(40)
        <3>2. RequestLock(s)'
            BY <1>1, <1>3, <2>1, SMTT(40)
        <3>3. HandlesRequest(s)' /\ CyclesAlive(s)'
            BY <1>1, <1>3, <2>1, SMTT(40)
        <3> QED
            BY <3>1, <3>2, <3>3
    <2>7. Detached(s)' /\ ListedRightly(s)' /\ Recorded(s)'
        BY <1>1, <1>3, <1>4, <1>5, <1>6, <1>7, <2>1, <2>2, SMTT(40)
    <2>8. Stage(s)'
        BY <1>1, <1>3, <1>4, <1>5, <1>6, <1>7, <2>1, <2>2, SMTT(40)
    <2> QED
        BY <2>3, <2>4, <2>5, <2>6, <2>7, <2>8 DEF SlaveInv
<1>8. CASE SampleParameters(s)
    <2>1. /\ cyc_pc[s] = "sample" /\ cyc_pc'[s] = "trylock"
          /\ allow'[s] = allow[s] + 1
          /\ UNCHANGED <<sem_s_to_m, threshold, alive, master_usr1>>
        BY <1>1, <1>2, <1>8, SlaveAssumption DEF SampleParameters, CycGoto
    <2>2. /\ ToMaster(s)' = ToMaster(s)
          /\ ToSlave(s)' = ToSlave(s)
          /\ Free(s)' = Free(s)
        BY <1>1, <1>3, <1>8, <2>1 DEF ToSlave, ToMaster, Free
    <2>3. Bounded(s)'
        BY <1>1, <1>3, <1>4, <1>5, <1>6, <1>8, <2>1, <2>2, SMTT(40)
    <2>4. RestsUnlessSent(s)'
        BY <1>1, <1>3, <1>4, <1>5, <1>6, <1>8, <2>1, <2>2, SMTT(40)
    <2>5. Answering(s)'
        BY <1>1, <1>3, <1>4, <1>5, <1>6, <1>8, <2>1, <2>2, SMTT(40)
    <2>6. GateHeld(s)' /\ RequestLock(s)' /\ HandlesRequest(s)' /\ CyclesAlive(s)'
        BY <1>1, <1>3, <1>4, <1>5, <1>6, <1>8, <2>1, <2>2, SMTT(40)
    <2>7. Detached(s)' /\ ListedRightly(s)' /\ Recorded(s)'
        BY <1>1, <1>3, <1>4, <1>5, <1>6, <1>8, <2>1, <2>2, SMTT(40)
    <2>8. Stage(s)'
        BY <1>1, <1>3, <1>4, <1>5, <1>6, <1>8, <2>1, <2>2, SMTT(40)
    <2> QED
        BY <2>3, <2>4, <2>5, <2>6, <2>7, <2>8 DEF SlaveInv
<1>9. ASSUME TryLockRequest(s), sem_s_to_m[s] > 0 PROVE SlaveInv(s)'
    <2>1. /\ cyc_pc[s] = "trylock" /\ cyc_pc'[s] = "check"
          /\ sem_s_to_m'[s] = sem_s_to_m[s] - 1
          /\ threshold'[s] = 0
          /\ UNCHANGED <<allow, alive, master_usr1>>
        BY <1>1, <1>2, <1>9, SlaveAssumption DEF TryLockRequest, CycGoto
    <2>2. /\ ToMaster(s)' = ToMaster(s)
          /\ ToSlave(s)' = ToSlave(s)
          /\ Free(s)' = Free(s)
        BY <1>1, <1>3, <1>9, <2>1 DEF ToSlave, ToMaster, Free
    <2>3. Bounded(s)'
        BY <1>1, <1>3, <1>4, <1>5, <1>6, <1>9, <2>1, <2>2, SMTT(40)
    <2>4. RestsUnlessSent(s)'
        BY <1>1, <1>3, <1>4, <1>5, <1>6, <1>9, <2>1, <2>2, SMTT(40)
    <2>5. Answering(s)'
        BY <1>1, <1>3, <1>4, <1>5, <1>6, <1>9, <2>1, <2>2, SMTT(40)
    <2>6. GateHeld(s)' /\ RequestLock(s)' /\ HandlesRequest(s)' /\ CyclesAlive(s)'
        BY <1>1, <1>3, <1>4, <1>5, <1>6, <1>9, <2>1, <2>2, SMTT(40)
    <2>7. Detached(s)' /\ ListedRightly(s)' /\ Recorded(s)'
        BY <1>1, <1>3, <1>4, <1>5, <1>6, <1>9, <2>1, <2>2, SMTT(40)
    <2>8. Stage(s)'
        <3>1. Sent(s) /\ request \in {"CONNECT_SLAVE", "DISCONNECT_SLAVE"}
                  => Asleep(s) /\ sig_pc[s] = "sigwait"
            BY <1>1, <1>3, <1>4, <1>5, <1>6, <1>9, <2>1, <2>2, SMTT(40)
        <3>2. Sent(s) /\ request = "START_SLAVE_CYCLE" =>
                 (Asleep(s) /\ Calm(s)) \/ (cycle_started[s] /\ Resting(s))
            BY <1>1, <1>3, <1>4, <1>5, <1>6, <1>9, <2>1, <2>2, SMTT(40)
        <3>3. Sent(s) /\ request = "START_SLAVE_CYCLE" => StartSent(s)'
            BY <1>1, <1>3, <1>4, <1>5, <1>6, <1>9, <2>1, <2>2, <3>2, SMTT(40)
        <3> QED
            BY <1>1, <1>3, <1>4, <1>5, <1>6, <1>9, <2>1, <2>2, <3>1, <3>2, <3>3,
               SMTT(40)
    <2> QED
        BY <2>3, <2>4, <2>5, <2>6, <2>7, <2>8 DEF SlaveInv
<1>10. ASSUME TryLockRequest(s), sem_s_to_m[s] = 0 /\ threshold[s] = Segments
       PROVE  SlaveInv(s)'
    <2>1. /\ cyc_pc[s] = "trylock" /\ cyc_pc'[s] = "check"
          /\ threshold'[s] = 0
          /\ UNCHANGED <<allow, alive, master_usr1, sem_s_to_m>>
        BY <1>1, <1>2, <1>10, SlaveAssumption DEF TryLockRequest, CycGoto
    <2>2. /\ ToMaster(s)' = ToMaster(s)
          /\ ToSlave(s)' = ToSlave(s)
          /\ Free(s) = 0 /\ Free(s)' = 1
        BY <1>1, <1>3, <1>10, <2>1 DEF ToSlave, ToMaster, Free
    <2>3. Bounded(s)'
        BY <1>1, <1>3, <1>4, <1>5, <1>6, <1>10, <2>1, <2>2, SMTT(40)
    <2>4. RestsUnlessSent(s)'
        BY <1>1, <1>3, <1>4, <1>5, <1>6, <1>10, <2>1, <2>2, SMTT(40)
    <2>5. Answering(s)'
        BY <1>1, <1>3, <1>4, <1>5, <1>6, <1>10, <2>1, <2>2, SMTT(40)
    <2>6. GateHeld(s)' /\ RequestLock(s)' /\ HandlesRequest(s)' /\ CyclesAlive(s)'
        BY <1>1, <1>3, <1>4, <1>5, <1>6, <1>10, <2>1, <2>2, SMTT(40)
    <2>7. Detached(s)' /\ ListedRightly(s)' /\ Recorded(s)'
        BY <1>1, <1>3, <1>4, <1>5, <1>6, <1>10, <2>1, <2>2, SMTT(40)
    <2>8. Stage(s)'
        BY <1>1, <1>3, <1>4, <1>5, <1>6, <1>10, <2>1, <2>2, SMTT(40)
    <2> QED
        BY <2>3, <2>4, <2>5, <2>6, <2>7, <2>8 DEF SlaveInv
<1>11. ASSUME TryLockRequest(s), sem_s_to_m[s] = 0 /\ threshold[s] # Segments
       PROVE  SlaveInv(s)'
    <2>1. /\ cyc_pc[s] = "trylock" /\ cyc_pc'[s] = "trylock"
          /\ threshold'[s] = threshold[s] + 1
          /\ UNCHANGED <<allow, alive, master_usr1, sem_s_to_m>>
        BY <1>1, <1>2, <1>11, SlaveAssumption DEF TryLockRequest, CycGoto
    <2>2. /\ ToMaster(s)' = ToMaster(s)
          /\ ToSlave(s)' = ToSlave(s)
          /\ Free(s)' = Free(s)
        BY <1>1, <1>3, <1>11, <2>1 DEF ToSlave, ToMaster, Free
    <2>3. Bounded(s)'
        BY <1>1, <1>3, <1>4, <1>5, <1>6, <1>11, <2>1, <2>2, SMTT(40)
    <2>4. RestsUnlessSent(s)'
        BY <1>1, <1>3, <1>4, <1>5, <1>6, <1>11, <2>1, <2>2, SMTT(40)
    <2>5. Answering(s)'
        BY <1>1, <1>3, <1>4, <1>5, <1>6, <1>11, <2>1, <2>2, SMTT(40)
    <2>6. GateHeld(s)' /\ RequestLock(s)' /\ HandlesRequest(s)' /\ CyclesAlive(s)'
        BY <1>1, <1>3, <1>4, <1>5, <1>6, <1>11, <2>1, <2>2, SMTT(40)
    <2>7. Detached(s)' /\ ListedRightly(s)' /\ Recorded(s)'
        BY <1>1, <1>3, <1>4, <1>5, <1>6, <1>11, <2>1, <2>2, SMTT(40)
    <2>8. Stage(s)'
        BY <1>1, <1>3, <1>4, <1>5, <1>6, <1>11, <2>1, <2>2, SMTT(40)
    <2> QED
        BY <2>3, <2>4, <2>5, <2>6, <2>7, <2>8 DEF SlaveInv
<1>12. ASSUME CheckGate(s), allow[s] = 0 PROVE SlaveInv(s)'
    <2>1. /\ cyc_pc[s] = "check" /\ cyc_pc'[s] = "gate"
          /\ sem_s_to_m'[s] = sem_s_to_m[s] + 1
          /\ UNCHANGED <<allow, alive, master_usr1, threshold>>
        BY <1>1, <1>2, <1>12, SlaveAssumption DEF CheckGate, CycGoto
    <2>2. /\ ToMaster(s)' = ToMaster(s)
          /\ ToSlave(s)' = ToSlave(s)
          /\ Free(s)' = Free(s)
        BY <1>1, <1>3, <1>12, <2>1 DEF ToSlave, ToMaster, Free
    <2>3. Bounded(s)'
        BY <1>1, <1>3, <1>4, <1>5, <1>6, <1>12, <2>1, <2>2, SMTT(40)
    <2>4. RestsUnlessSent(s)'
        BY <1>1, <1>3, <1>4, <1>5, <1>6, <1>12, <2>1, <2>2, SMTT(40)
    <2>5. Answering(s)'
        BY <1>1, <1>3, <1>4, <1>5, <1>6, <1>12, <2>1, <2>2, SMTT(40)
    <2>6. GateHeld(s)' /\ RequestLock(s)' /\ HandlesRequest(s)' /\ CyclesAlive(s)'
        BY <1>1, <1>3, <1>4, <1>5, <1>6, <1>12, <2>1, <2>2, SMTT(40)
    <2>7. Detached(s)' /\ ListedRightly(s)' /\ Recorded(s)'
        BY <1>1, <1>3, <1>4, <1>5, <1>6, <1>12, <2>1, <2>2, SMTT(40)
    <2>8. Stage(s)'
        BY <1>1, <1>3, <1>4, <1>5, <1>6, <1>12, <2>1, <2>2, SMTT(40)
    <2> QED
        BY <2>3, <2>4, <2>5, <2>6, <2>7, <2>8 DEF SlaveInv
<1>13. ASSUME CheckGate(s), allow[s] # 0 PROVE SlaveInv(s)'
    <2>1. /\ cyc_pc[s] = "check" /\ cyc_pc'[s] = "send"
          /\ UNCHANGED <<allow, alive, master_usr1, threshold, sem_s_to_m>>
        BY <1>1, <1>2, <1>13, SlaveAssumption DEF CheckGate, CycGoto
    <2>2. /\ ToMaster(s)' = ToMaster(s)
          /\ ToSlave(s)' = ToSlave(s)
          /\ Free(s)' = Free(s)
        BY <1>1, <1>3, <1>13, <2>1 DEF ToSlave, ToMaster, Free
    <2>3. Bounded(s)'
        BY <1>1, <1>3, <1>4, <1>5, <1>6, <1>13, <2>1, <2>2, SMTT(40)
    <2>4. RestsUnlessSent(s)'
        BY <1>1, <1>3, <1>4, <1>5, <1>6, <1>13, <2>1, <2>2, SMTT(40)
    <2>5. Answering(s)'
        BY <1>1, <1>3, <1>4, <1>5, <1>6, <1>13, <2>1, <2>2, SMTT(40)
    <2>6. GateHeld(s)' /\ RequestLock(s)' /\ HandlesRequest(s)' /\ CyclesAlive(s)'
        BY <1>1, <1>3, <1>4, <1>5, <1>6, <1>13, <2>1, <2>2, SMTT(40)
    <2>7. Detached(s)' /\ ListedRightly(s)' /\ Recorded(s)'
        BY <1>1, <1>3, <1>4, <1>5, <1>6, <1>13, <2>1, <2>2, SMTT(40)
    <2>8. Stage(s)'
        BY <1>1, <1>3, <1>4, <1>5, <1>6, <1>13, <2>1, <2>2, SMTT(40)
    <2> QED
        BY <2>3, <2>4, <2>5, <2>6, <2>7, <2>8 DEF SlaveInv
<1>14. CASE SendMasterSignalMasterParameterRequest(s)
    <2>1. /\ cyc_pc[s] = "send" /\ cyc_pc'[s] = "gate"
          /\ master_usr1' = IF master_usr1 = NoPid THEN s ELSE master_usr1
          /\ UNCHANGED <<allow, alive, threshold, sem_s_to_m>>
        BY <1>1, <1>2, <1>14, SlaveAssumption
        DEF SendMasterSignalMasterParameterRequest, CycGoto, KillMaster
    <2>2. /\ ToMaster(s)' \in {ToMaster(s), ToMaster(s) + 1}
          /\ ToSlave(s)' = ToSlave(s)
          /\ Free(s)' = Free(s) - 1
        BY <1>1, <1>3, <1>14, <2>1 DEF ToSlave, ToMaster, Free
    <2>3. Bounded(s)'
        BY <1>1, <1>3, <1>4, <1>5, <1>6, <1>14, <2>1, <2>2, SMTT(40)
    <2>4. RestsUnlessSent(s)'
        BY <1>1, <1>3, <1>4, <1>5, <1>6, <1>14, <2>1, <2>2, SMTT(40)
    <2>5. Answering(s)'
        BY <1>1, <1>3, <1>4, <1>5, <1>6, <1>14, <2>1, <2>2, SMTT(40)
    <2>6. GateHeld(s)' /\ RequestLock(s)' /\ HandlesRequest(s)' /\ CyclesAlive(s)'
        BY <1>1, <1>3, <1>4, <1>5, <1>6, <1>14, <2>1, <2>2, SMTT(40)
    <2>7. Detached(s)' /\ ListedRightly(s)' /\ Recorded(s)'
        BY <1>1, <1>3, <1>4, <1>5, <1>6, <1>14, <2>1, <2>2, SMTT(40)
    <2>8. Stage(s)'
        <3>1. Sent(s) =>
                 \/ request = "STOP_SLAVE_CYCLE"
                 \/ request = "START_SLAVE_CYCLE" /\ cycle_started[s] /\ Resting(s)
            BY <1>1, <1>3, <1>4, <1>5, <1>6, <1>14, <2>1, <2>2, SMTT(40)
        <3>2. Sent(s) /\ request # "STOP_SLAVE_CYCLE" => Resting(s)' /\ RequestSent(s)'
            BY <1>1, <1>3, <1>4, <1>5, <1>6, <1>14, <2>1, <2>2, <3>1, SMTT(40)
        <3> QED
            BY <1>1, <1>3, <1>4, <1>5, <1>6, <1>14, <2>1, <2>2, <3>1, <3>2, SMTT(40)
    <2> QED
        BY <2>3, <2>4, <2>5, <2>6, <2>7, <2>8 DEF SlaveInv
<1>15. CASE DereferenceNull(s)
    <2>1. /\ ~shmseg[s] /\ ~alive'[s]
          /\ UNCHANGED <<allow, cyc_pc, threshold, sem_s_to_m, master_usr1>>
        BY <1>1, <1>2, <1>15, SlaveAssumption DEF DereferenceNull
    <2>2. /\ ToMaster(s)' = ToMaster(s)
          /\ ToSlave(s)' = 0
          /\ Free(s)' = Free(s)
        BY <1>1, <1>3, <1>15, <2>1 DEF ToSlave, ToMaster, Free
    <2>3. Bounded(s)'
        BY <1>1, <1>3, <1>4, <1>5, <1>6, <1>15, <2>1, <2>2, SMTT(40)
    <2>4. RestsUnlessSent(s)'
        BY <1>1, <1>3, <1>4, <1>5, <1>6, <1>15, <2>1, <2>2, SMTT(40)
    <2>5. Answering(s)'
        BY <1>1, <1>3, <1>4, <1>5, <1>6, <1>15, <2>1, <2>2, SMTT(40)
    <2>6. GateHeld(s)' /\ RequestLock(s)' /\ HandlesRequest(s)' /\ CyclesAlive(s)'
        BY <1>1, <1>3, <1>4, <1>5, <1>6, <1>15, <2>1, <2>2, SMTT(40)
    <2>7. Detached(s)' /\ ListedRightly(s)' /\ Recorded(s)'
        BY <1>1, <1>3, <1>4, <1>5, <1>6, <1>15, <2>1, <2>2, SMTT(40)
    <2>8. Stage(s)'
        BY <1>1, <1>3, <1>4, <1>5, <1>6, <1>15, <2>1, <2>2, SMTT(40)
    <2> QED
        BY <2>3, <2>4, <2>5, <2>6, <2>7, <2>8 DEF SlaveInv
<1> HIDE DEF ThrPcs, SlaveInv, Bounded, GateHeld, RestsUnlessSent, Detached,
             RequestLock, Answering, ListedRightly, HandlesRequest, Stage,
             CyclesAlive, Recorded, UnderWay, Talking, Chosen, Sent, Awake, Calm,
             Resting, Closed, ConnectSent, RequestSent, RequestFound, StartSent,
             Count, Typed, CommandInv, ConfiguratorRequests, startVars
<1> QED
    BY <1>1, <1>7, <1>8, <1>9, <1>10, <1>11, <1>12, <1>13, <1>14, <1>15
    DEF CycleThread, CommunicationCycleThread, Typed

-----------------------------------------------------------------------------
(* When a thread of the master handles a response it holds the only signal *)
(* of the conversation, and both sides have finished with their locks.     *)
LEMMA ResponseHandled ==
    ASSUME LockInv, NEW s \in Slaves, SlaveInv(s), thr_pc[s] = "response"
    PROVE  /\ Sent(s)
           /\ sem_m_to_s[s] = 0 /\ Sending(s) = 0 /\ Free(s) = 1
           /\ ToMaster(s) = 1 /\ ToSlave(s) = 0 /\ sig_semaphore[s] = 0
           /\ cyc_pc[s] # "send"
           /\ alive[s] => sig_pc[s] \in {"sigwait", "detach"}
<1>1. Typed(s) /\ sem_m_to_s[s] = 0
    BY ConversationTyped DEF LockInv, Served
<1>2. /\ ToMaster(s) \in Nat /\ ToSlave(s) \in Nat /\ Free(s) \in Nat
      /\ Sending(s) \in Nat
      /\ cyc_pc[s] \in {"check", "send"} => Free(s) = sem_s_to_m[s] + 1
      /\ cyc_pc[s] \notin {"check", "send"} => Free(s) = sem_s_to_m[s]
      /\ ToMaster(s) > 0
      /\ sig_pc[s] \notin {"sigwait", "detach"} /\ alive[s] => ToSlave(s) > 0
      /\ sig_semaphore[s] > 0 => ToMaster(s) > 1
    BY <1>1 DEF Typed, ToMaster, ToSlave, Free, Sending, Count
<1>3. Sending(s) + Free(s) + (ToMaster(s) + ToSlave(s)) <= 2
    BY <1>1, <1>2 DEF SlaveInv, Bounded, UnderWay
<1>4. sem_s_to_m[s] \in Nat /\ (sem_s_to_m[s] > 0 \/ cyc_pc[s] = "check")
    BY <1>1 DEF SlaveInv, Answering, Typed
<1>5. Free(s) > 0
    BY <1>2, <1>4
<1>6. Sending(s) = 0 /\ Free(s) = 1 /\ ToMaster(s) = 1 /\ ToSlave(s) = 0
    BY <1>2, <1>3, <1>5
<1>7. sig_semaphore[s] = 0
    BY <1>1, <1>2, <1>6 DEF Typed
<1>8. cyc_pc[s] # "send"
    BY <1>2, <1>4, <1>6
<1>9. alive[s] => sig_pc[s] \in {"sigwait", "detach"}
    BY <1>2, <1>6
<1>10. Sent(s)
    BY DEF SlaveInv, RestsUnlessSent, Resting
<1> QED
    BY <1>1, <1>6, <1>7, <1>8, <1>9, <1>10

(* That response is to the command the configurator waits for, and says of *)
(* the slave what the command asked for.                                   *)
LEMMA CommandAnswered ==
    ASSUME LockInv, CommandInv, NEW s \in Slaves, SlaveInv(s), thr_pc[s] = "response"
    PROVE  /\ request = "CONNECT_SLAVE" => ~is_connected[s]
           /\ request # "CONNECT_SLAVE" => is_connected[s] /\ req_m_to_s[s] = request
           /\ request = "START_SLAVE_CYCLE" => cycle_started[s] /\ res_s_to_m[s] = "ACK"
           /\ request \notin {"DELETE_SLAVE", "OTHER"}
<1>1. /\ Sent(s) /\ ToMaster(s) = 1 /\ ToSlave(s) = 0
      /\ alive[s] => sig_pc[s] \in {"sigwait", "detach"}
    BY ResponseHandled
<1>2. Chosen(s) /\ cfg_pc = "wait" /\ ~configurator_usr2
    BY <1>1 DEF Sent, Talking, Chosen
<1>3. request \in ConfiguratorRequests \ {"DELETE_SLAVE", "OTHER"}
    BY <1>2 DEF LockInv, TypeInv, TypeOK, ShmTypeOK, CommandInv
<1>4. request # "CONNECT_SLAVE" => is_connected[s] /\ req_m_to_s[s] = request
    BY <1>1, <1>2, <1>3
    DEF SlaveInv, ListedRightly, Stage, RequestSent, ConfiguratorRequests
<1>5. request = "CONNECT_SLAVE" => ~is_connected[s]
    BY <1>2 DEF SlaveInv, ListedRightly
<1>6. request = "START_SLAVE_CYCLE" => cycle_started[s] /\ res_s_to_m[s] = "ACK"
    BY <1>1 DEF SlaveInv, Stage, StartSent, Resting
<1> QED
    BY <1>3, <1>4, <1>5, <1>6

(* A new thread that reads no pid of another slave, no 0 and nothing       *)
(* negative works for its own slave only.                                  *)
LEMMA ThreadOfSlave ==
    ASSUME Stale \subseteq {"nobody"}, NEW s \in Slaves, ProcessorThread(s)
    PROVE  SlaveProcessorThread(s) /\ PidRead(s) = {s}
<1>1. "group" \notin Stale /\ "negative" \notin Stale
    OBVIOUS
<1>2. Stale \cap Slaves = {}
    BY MasterAssumption DEF Words
<1> QED
    BY <1>1, <1>2
    DEF ProcessorThread, StrayThread, SignalGroup, SearchInFront, PidRead

(* Only the slave whose CONNECT_SLAVE is under way has a thread that       *)
(* starts, and it has one and no segment yet, so that no two threads serve *)
(* one slave.                                                              *)
LEMMA NotServedTwice ==
    ASSUME LockInv, NEW s \in Slaves, \A t \in Slaves : SlaveInv(t), CommandInv
    PROVE  ~ServeTwice(s)
<1> SUFFICES ASSUME assigning[s] > 0
             PROVE  ~owned[s] /\ ~StartsOverlap(s)
    BY DEF ServeTwice
<1>1. spawned[s] \in Nat /\ assigning[s] \in Nat
    BY ConversationTyped DEF Typed
<1>2. Sent(s)
    BY DEF SlaveInv, RestsUnlessSent, Resting
<1>3. ConnectSent(s)
    BY <1>2 DEF SlaveInv, Stage, RequestSent
<1>4. ~owned[s] /\ spawned[s] = 0 /\ assigning[s] = 1
    BY <1>1, <1>3 DEF ConnectSent
<1>5. ASSUME NEW t \in Slaves \ {s} PROVE spawned[t] = 0 /\ assigning[t] = 0
    BY <1>2, <1>5 DEF SlaveInv, RestsUnlessSent, Resting, Sent, Talking
<1> QED
    BY <1>4, <1>5 DEF StartsOverlap

(* Every step of the thread that serves a slave (master.c,                 *)
(* slave_processor_detached_thread with handle_slave_request and           *)
(* handle_slave_response) keeps what is said of that slave.                *)
LEMMA ProcessorThreadHere ==
    ASSUME LockInv, LockInv', NEW s \in Slaves, SlaveInv(s), CommandInv,
           Stale \subseteq {"nobody"}, ProcessorThread(s),
           ~ServeTwice(s)
    PROVE  SlaveInv(s)'
<1>1. /\ Typed(s) /\ Typed(s)' /\ s # NoPid
      /\ thr_pc[s] = "response" => sem_m_to_s[s] = 0
      /\ sem_m_to_s[s] <= 1
      /\ owned[s] <=> thr_pc[s] # "none"
      /\ is_connected[s] => owned[s]
      /\ request \in ConfiguratorRequests
    BY ConversationTyped, TypedNext, ShmAssumption
    DEF LockInv, TypeInv, TypeOK, ShmTypeOK, Served, LinkLockBinary
<1>2. /\ owned \in [Slaves -> BOOLEAN] /\ is_connected \in [Slaves -> BOOLEAN]
      /\ req_m_to_s \in [Slaves -> LinkRequests] /\ res_s_to_m \in [Slaves -> Responses]
      /\ cycle_started \in [Slaves -> BOOLEAN]
      /\ sem_m_to_s \in [Slaves -> Nat] /\ sem_s_to_m \in [Slaves -> Nat]
      /\ slave_usr1 \in [Slaves -> BOOLEAN] /\ sig_semaphore \in [Slaves -> Nat]
      /\ spawned \in [Slaves -> Nat] /\ assigning \in [Slaves -> Nat]
      /\ thr_pc \in [Slaves -> ThrPcs]
    BY DEF LockInv, TypeInv, TypeOK, ShmTypeOK, MasterTypeOK
<1>3. UNCHANGED <<alive, sig_pc, cyc_pc, threshold, allow, shmseg, request, affected,
                  master_usr1, master_usr2, sync_pc, sync_req, sync_slave, cfg_pc,
                  offered, created, connected>>
    BY ThreadOfSlave
    DEF ProcessorThread, SlaveProcessorThread, liveVars, slaveVars, configuratorVars
<1>4. thr_pc[s] = "response" =>
         /\ sem_m_to_s[s] = 0 /\ Sending(s) = 0 /\ Free(s) = 1
         /\ ToMaster(s) = 1 /\ ToSlave(s) = 0 /\ sig_semaphore[s] = 0
         /\ cyc_pc[s] # "send"
    BY ResponseHandled
<1>5. /\ ToMaster(s) \in Nat /\ ToSlave(s) \in Nat /\ Free(s) \in Nat
      /\ Sending(s) \in Nat
      /\ Free(s) >= sem_s_to_m[s]
      /\ cyc_pc[s] \in {"check", "send"} => Free(s) = sem_s_to_m[s] + 1
      /\ cyc_pc[s] \notin {"check", "send"} => Free(s) = sem_s_to_m[s]
      /\ thr_pc[s] \in {"check", "request", "response"} => ToMaster(s) > 0
      /\ sig_pc[s] \notin {"sigwait", "detach"} /\ alive[s] => ToSlave(s) > 0
      /\ thr_pc[s] \in {"connect_send", "rename_send"} => Sending(s) > 0
      /\ sig_semaphore[s] > 0 => ToMaster(s) > 0
      /\ thr_pc[s] \in {"check", "request", "response"} /\ sig_semaphore[s] > 0
            => ToMaster(s) > 1
    BY <1>1, <1>3 DEF Typed, ToMaster, ToSlave, Free, Sending, Count
<1> USE DEF ThrPcs, SlaveInv, Bounded, GateHeld, RestsUnlessSent, Detached,
            RequestLock, Answering, ListedRightly, HandlesRequest, Stage,
            CyclesAlive, Recorded, UnderWay, Talking, Chosen, Sent, Awake, Calm,
            Resting, Closed, ConnectSent, RequestSent, RequestFound, StartSent,
            Count, Typed, CommandInv, ConfiguratorRequests, startVars
<1>6. CASE WriteSegmentPid(s)
    <2>1. /\ assigning[s] > 0 /\ assigning'[s] = assigning[s] - 1
          /\ ~owned[s] /\ owned'[s] /\ thr_pc[s] = "none" /\ thr_pc'[s] = "connect_lock"
          /\ UNCHANGED <<is_connected, req_m_to_s, res_s_to_m, cycle_started,
                         sem_m_to_s, sem_s_to_m, response, slave_usr1,
                         configurator_usr2, sig_semaphore, spawned>>
        BY <1>1, <1>2, <1>6 DEF WriteSegmentPid, ThrGoto, resetVars, answerVars
    <2>2. /\ ToMaster(s)' = ToMaster(s)
          /\ ToSlave(s)' = ToSlave(s)
          /\ Free(s)' = Free(s)
          /\ Sending(s)' = Sending(s)
        BY <1>1, <1>3, <2>1 DEF ToSlave, ToMaster, Free, Sending
    <2>3. /\ Sent(s) /\ request = "CONNECT_SLAVE" /\ ~is_connected[s] /\ Calm(s)
          /\ UnderWay(s) = 0 /\ spawned[s] = 0 /\ assigning[s] = 1
        BY <1>1, <1>3, <1>5, <2>1, <2>2, SMTT(40)
    <2>4. Bounded(s)'
        BY <1>1, <1>3, <1>5, <2>1, <2>2, <2>3, SMTT(40)
    <2>5. RestsUnlessSent(s)'
        BY <1>1, <1>3, <1>5, <2>1, <2>2, <2>3, SMTT(40)
    <2>6. Answering(s)'
        BY <1>1, <1>3, <1>5, <2>1, <2>2, <2>3, SMTT(40)
    <2>7. GateHeld(s)' /\ RequestLock(s)' /\ HandlesRequest(s)' /\ CyclesAlive(s)'
        BY <1>1, <1>3, <1>5, <2>1, <2>2, <2>3, SMTT(40)
    <2>8. Detached(s)' /\ ListedRightly(s)' /\ Recorded(s)'
        BY <1>1, <1>3, <1>5, <2>1, <2>2, <2>3, SMTT(40)
    <2>9. Stage(s)'
        BY <1>1, <1>3, <1>5, <2>1, <2>2, <2>3, SMTT(40)
    <2> QED
        BY <2>4, <2>5, <2>6, <2>7, <2>8, <2>9 DEF SlaveInv
<1>7. CASE SearchSegment(s)
    <2>1. /\ spawned[s] > 0 /\ spawned'[s] = spawned[s] - 1
          /\ \/ owned[s] /\ assigning'[s] = assigning[s]
             \/ ~owned[s] /\ assigning'[s] = assigning[s] + 1
          /\ UNCHANGED <<owned, is_connected, req_m_to_s, res_s_to_m, cycle_started,
                         sem_m_to_s, sem_s_to_m, response, slave_usr1, thr_pc,
                         configurator_usr2, sig_semaphore>>
        BY <1>1, <1>2, <1>7, ThreadOfSlave DEF SearchSegment, resetVars, answerVars
    <2>2. /\ ToMaster(s)' = ToMaster(s)
          /\ ToSlave(s)' = ToSlave(s)
          /\ Free(s)' = Free(s)
          /\ Sending(s)' = Sending(s)
        BY <1>1, <1>3, <2>1 DEF ToSlave, ToMaster, Free, Sending
    <2>3. /\ Sent(s) /\ request = "CONNECT_SLAVE" /\ ~is_connected[s] /\ Calm(s)
          /\ UnderWay(s) = 0
        BY <1>1, <1>3, <1>5, <2>1, <2>2, SMTT(40)
    <2>4. Bounded(s)'
        BY <1>1, <1>3, <1>5, <2>1, <2>2, <2>3, SMTT(40)
    <2>5. RestsUnlessSent(s)'
        BY <1>1, <1>3, <1>5, <2>1, <2>2, <2>3, SMTT(40)
    <2>6. Answering(s)'
        BY <1>1, <1>3, <1>5, <2>1, <2>2, <2>3, SMTT(40)
    <2>7. GateHeld(s)' /\ RequestLock(s)' /\ HandlesRequest(s)' /\ CyclesAlive(s)'
        BY <1>1, <1>3, <1>5, <2>1, <2>2, <2>3, SMTT(40)
    <2>8. Detached(s)' /\ ListedRightly(s)' /\ Recorded(s)'
        BY <1>1, <1>3, <1>5, <2>1, <2>2, <2>3, SMTT(40)
    <2>9. Stage(s)'
        BY <1>1, <1>3, <1>5, <2>1, <2>2, <2>3, SMTT(40)
    <2> QED
        BY <2>4, <2>5, <2>6, <2>7, <2>8, <2>9 DEF SlaveInv
<1>8. CASE LoseConnect(s)
    <2>1. /\ spawned[s] > 0 /\ spawned'[s] = spawned[s] - 1
          /\ UNCHANGED <<owned, is_connected, req_m_to_s, res_s_to_m, cycle_started,
                         sem_m_to_s, sem_s_to_m, response, slave_usr1, thr_pc,
                         configurator_usr2, sig_semaphore, assigning>>
        BY <1>1, <1>2, <1>8 DEF LoseConnect, resetVars, answerVars
    <2>2. /\ ToMaster(s)' = ToMaster(s)
          /\ ToSlave(s)' = ToSlave(s)
          /\ Free(s)' = Free(s)
          /\ Sending(s)' = Sending(s)
        BY <1>1, <1>3, <2>1 DEF ToSlave, ToMaster, Free, Sending
    <2>3. /\ Sent(s) /\ request = "CONNECT_SLAVE" /\ ~is_connected[s] /\ Calm(s)
          /\ UnderWay(s) = 0
        BY <1>1, <1>3, <1>5, <2>1, <2>2, SMTT(40)
    <2>4. Bounded(s)'
        BY <1>1, <1>3, <1>5, <2>1, <2>2, <2>3, SMTT(40)
    <2>5. RestsUnlessSent(s)'
        BY <1>1, <1>3, <1>5, <2>1, <2>2, <2>3, SMTT(40)
    <2>6. Answering(s)'
        BY <1>1, <1>3, <1>5, <2>1, <2>2, <2>3, SMTT(40)
    <2>7. GateHeld(s)' /\ RequestLock(s)' /\ HandlesRequest(s)' /\ CyclesAlive(s)'
        BY <1>1, <1>3, <1>5, <2>1, <2>2, <2>3, SMTT(40)
    <2>8. Detached(s)' /\ ListedRightly(s)' /\ Recorded(s)'
        BY <1>1, <1>3, <1>5, <2>1, <2>2, <2>3, SMTT(40)
    <2>9. Stage(s)'
        BY <1>1, <1>3, <1>5, <2>1, <2>2, <2>3, SMTT(40)
    <2> QED
        BY <2>4, <2>5, <2>6, <2>7, <2>8, <2>9 DEF SlaveInv
<1>9. CASE LockOwnRequest(s)
    <2>1. /\ sem_m_to_s[s] > 0 /\ sem_m_to_s'[s] = sem_m_to_s[s] - 1
          /\ \/ thr_pc[s] = "connect_lock" /\ thr_pc'[s] = "connect_send"
             \/ thr_pc[s] = "rename_lock" /\ thr_pc'[s] = "rename_send"
          /\ UNCHANGED <<owned, is_connected, req_m_to_s, res_s_to_m, cycle_started,
                         sem_s_to_m, response, slave_usr1, configurator_usr2,
                         sig_semaphore, spawned, assigning>>
        BY <1>1, <1>2, <1>9 DEF LockOwnRequest, ThrGoto, resetVars, answerVars
    <2>2. /\ ToMaster(s)' = ToMaster(s)
          /\ ToSlave(s)' = ToSlave(s)
          /\ Free(s)' = Free(s)
          /\ Sending(s)' = Sending(s) + 1
        <3>1. ToMaster(s)' = ToMaster(s)
            BY <1>1, <1>3, <2>1 DEF ToMaster
        <3>2. ToSlave(s)' = ToSlave(s)
            BY <1>1, <1>3, <2>1 DEF ToSlave
        <3>3. Free(s)' = Free(s)
            BY <1>1, <1>3, <2>1 DEF Free
        <3>4. Sending(s)' = Sending(s) + 1
            BY <1>1, <1>3, <2>1 DEF Sending
        <3> QED
            BY <3>1, <3>2, <3>3, <3>4
    <2>3. /\ Sent(s) /\ request = "CONNECT_SLAVE" /\ ~is_connected[s] /\ Calm(s)
          /\ UnderWay(s) = 0 /\ sem_m_to_s[s] = 1
        BY <1>1, <1>3, <1>5, <2>1, <2>2, SMTT(40)
    <2>4. Bounded(s)'
        BY <1>1, <1>3, <1>5, <2>1, <2>2, <2>3, SMTT(40)
    <2>5. RestsUnlessSent(s)'
        BY <1>1, <1>3, <1>5, <2>1, <2>2, <2>3, SMTT(40)
    <2>6. Answering(s)'
        BY <1>1, <1>3, <1>5, <2>1, <2>2, <2>3, SMTT(40)
    <2>7. GateHeld(s)' /\ RequestLock(s)' /\ HandlesRequest(s)' /\ CyclesAlive(s)'
        BY <1>1, <1>3, <1>5, <2>1, <2>2, <2>3, SMTT(40)
    <2>8. Detached(s)' /\ ListedRightly(s)' /\ Recorded(s)'
        BY <1>1, <1>3, <1>5, <2>1, <2>2, <2>3, SMTT(40)
    <2>9. Stage(s)'
        BY <1>1, <1>3, <1>5, <2>1, <2>2, <2>3, SMTT(40)
    <2> QED
        BY <2>4, <2>5, <2>6, <2>7, <2>8, <2>9 DEF SlaveInv
<1>10. CASE SendConnectSlaveRequest(s)
    <2>1. /\ thr_pc[s] = "connect_send" /\ thr_pc'[s] = "wait"
          /\ req_m_to_s'[s] = "CONNECT_SLAVE"
          /\ slave_usr1'[s] <=> slave_usr1[s] \/ alive[s]
          /\ UNCHANGED <<owned, is_connected, res_s_to_m, cycle_started, sem_m_to_s,
                         sem_s_to_m, response, configurator_usr2, sig_semaphore,
                         spawned, assigning>>
        BY <1>1, <1>2, <1>10
        DEF SendConnectSlaveRequest, ThrGoto, KillSlave, resetVars, answerVars
    <2>2. /\ ToMaster(s)' = ToMaster(s)
          /\ ToSlave(s)' \in {ToSlave(s), ToSlave(s) + 1}
          /\ Free(s)' = Free(s)
          /\ Sending(s)' = Sending(s) - 1
        BY <1>1, <1>3, <2>1 DEF ToSlave, ToMaster, Free, Sending
    <2>3. /\ Sent(s) /\ request = "CONNECT_SLAVE" /\ ~is_connected[s] /\ Calm(s)
          /\ UnderWay(s) = 0 /\ sem_m_to_s[s] = 0
        BY <1>1, <1>3, <1>5, <2>1, <2>2, SMTT(40)
    <2>4. Bounded(s)'
        BY <1>1, <1>3, <1>5, <2>1, <2>2, <2>3, SMTT(40)
    <2>5. RestsUnlessSent(s)'
        BY <1>1, <1>3, <1>5, <2>1, <2>2, <2>3, SMTT(40)
    <2>6. Answering(s)'
        BY <1>1, <1>3, <1>5, <2>1, <2>2, <2>3, SMTT(40)
    <2>7. GateHeld(s)' /\ RequestLock(s)' /\ HandlesRequest(s)' /\ CyclesAlive(s)'
        BY <1>1, <1>3, <1>5, <2>1, <2>2, <2>3, SMTT(40)
    <2>8. Detached(s)' /\ ListedRightly(s)' /\ Recorded(s)'
        BY <1>1, <1>3, <1>5, <2>1, <2>2, <2>3, SMTT(40)
    <2>9. Stage(s)'
        BY <1>1, <1>3, <1>5, <2>1, <2>2, <2>3, SMTT(40)
    <2> QED
        BY <2>4, <2>5, <2>6, <2>7, <2>8, <2>9 DEF SlaveInv
<1>11. CASE SendChangeNameSlaveRequest(s)
    <2>1. /\ thr_pc[s] = "rename_send" /\ thr_pc'[s] = "wait"
          /\ req_m_to_s'[s] = "CHANGE_SLAVE_NAME"
          /\ slave_usr1'[s] <=> slave_usr1[s] \/ alive[s]
          /\ UNCHANGED <<owned, is_connected, res_s_to_m, cycle_started, sem_m_to_s,
                         sem_s_to_m, response, configurator_usr2, sig_semaphore,
                         spawned, assigning>>
        BY <1>1, <1>2, <1>11
        DEF SendChangeNameSlaveRequest, ThrGoto, KillSlave, resetVars, answerVars
    <2>2. /\ ToMaster(s)' = ToMaster(s)
          /\ ToSlave(s)' \in {ToSlave(s), ToSlave(s) + 1}
          /\ Free(s)' = Free(s)
          /\ Sending(s)' = Sending(s) - 1
        BY <1>1, <1>3, <2>1 DEF ToSlave, ToMaster, Free, Sending
    <2>3. /\ Sent(s) /\ request = "CONNECT_SLAVE" /\ ~is_connected[s] /\ Calm(s)
          /\ UnderWay(s) = 0 /\ sem_m_to_s[s] = 0
        BY <1>1, <1>3, <1>5, <2>1, <2>2, SMTT(40)
    <2>4. Bounded(s)'
        BY <1>1, <1>3, <1>5, <2>1, <2>2, <2>3, SMTT(40)
    <2>5. RestsUnlessSent(s)'
        BY <1>1, <1>3, <1>5, <2>1, <2>2, <2>3, SMTT(40)
    <2>6. Answering(s)'
        BY <1>1, <1>3, <1>5, <2>1, <2>2, <2>3, SMTT(40)
    <2>7. GateHeld(s)' /\ RequestLock(s)' /\ HandlesRequest(s)' /\ CyclesAlive(s)'
        BY <1>1, <1>3, <1>5, <2>1, <2>2, <2>3, SMTT(40)
    <2>8. Detached(s)' /\ ListedRightly(s)' /\ Recorded(s)'
        BY <1>1, <1>3, <1>5, <2>1, <2>2, <2>3, SMTT(40)
    <2>9. Stage(s)'
        BY <1>1, <1>3, <1>5, <2>1, <2>2, <2>3, SMTT(40)
    <2> QED
        BY <2>4, <2>5, <2>6, <2>7, <2>8, <2>9 DEF SlaveInv
<1>12. CASE ProcessSignal(s)
    <2>1. /\ sig_semaphore[s] > 0 /\ sig_semaphore'[s] = sig_semaphore[s] - 1
          /\ thr_pc[s] = "wait"
          /\ thr_pc'[s] = IF sem_s_to_m[s] = 0 THEN "request" ELSE "check"
          /\ UNCHANGED <<owned, is_connected, req_m_to_s, res_s_to_m, cycle_started,
                         sem_m_to_s, sem_s_to_m, response, slave_usr1,
                         configurator_usr2, spawned, assigning>>
        BY <1>1, <1>2, <1>12 DEF ProcessSignal, ThrGoto, resetVars, answerVars
    <2>2. /\ ToMaster(s)' = ToMaster(s)
          /\ ToMaster(s) > 0
          /\ ToSlave(s)' = ToSlave(s)
          /\ Free(s)' = Free(s)
          /\ Sending(s)' = Sending(s)
        BY <1>1, <1>3, <2>1 DEF ToSlave, ToMaster, Free, Sending
    <2>4. Bounded(s)'
        BY <1>1, <1>3, <1>5, <2>1, <2>2, SMTT(40)
    <2>5. RestsUnlessSent(s)'
        BY <1>1, <1>3, <1>5, <2>1, <2>2, SMTT(40)
    <2>6. Answering(s)'
        BY <1>1, <1>3, <1>5, <2>1, <2>2, SMTT(40)
    <2>7. GateHeld(s)' /\ RequestLock(s)' /\ HandlesRequest(s)' /\ CyclesAlive(s)'
        BY <1>1, <1>3, <1>5, <2>1, <2>2, SMTT(40)
    <2>8. Detached(s)' /\ ListedRightly(s)' /\ Recorded(s)'
        BY <1>1, <1>3, <1>5, <2>1, <2>2, SMTT(40)
    <2>9. Stage(s)'
        BY <1>1, <1>3, <1>5, <2>1, <2>2, SMTT(40)
    <2> QED
        BY <2>4, <2>5, <2>6, <2>7, <2>8, <2>9 DEF SlaveInv
<1>13. CASE CheckSlaveResponse(s)
    <2>1. /\ thr_pc[s] = "check"
          /\ thr_pc'[s] = IF sem_m_to_s[s] = 0 THEN "response" ELSE "wait"
          /\ UNCHANGED <<owned, is_connected, req_m_to_s, res_s_to_m, cycle_started,
                         sem_m_to_s, sem_s_to_m, response, slave_usr1,
                         configurator_usr2, sig_semaphore, spawned, assigning>>
        BY <1>1, <1>2, <1>13 DEF CheckSlaveResponse, ThrGoto, resetVars, answerVars
    <2>2. /\ ToMaster(s)' = IF sem_m_to_s[s] = 0 THEN ToMaster(s) ELSE ToMaster(s) - 1
          /\ ToSlave(s)' = ToSlave(s)
          /\ Free(s)' = Free(s)
          /\ Sending(s)' = Sending(s)
        BY <1>1, <1>3, <2>1 DEF ToSlave, ToMaster, Free, Sending
    <2>3. Sent(s)
        BY <1>1, <1>3, <1>5, <2>1, <2>2, SMTT(40)
    <2>4. Bounded(s)'
        BY <1>1, <1>3, <1>5, <2>1, <2>2, <2>3, SMTT(40)
    <2>5. RestsUnlessSent(s)'
        BY <1>1, <1>3, <1>5, <2>1, <2>2, <2>3, SMTT(40)
    <2>6. Answering(s)'
        BY <1>1, <1>3, <1>5, <2>1, <2>2, <2>3, SMTT(40)
    <2>7. GateHeld(s)' /\ RequestLock(s)' /\ HandlesRequest(s)' /\ CyclesAlive(s)'
        BY <1>1, <1>3, <1>5, <2>1, <2>2, <2>3, SMTT(40)
    <2>8. Detached(s)' /\ ListedRightly(s)' /\ Recorded(s)'
        BY <1>1, <1>3, <1>5, <2>1, <2>2, <2>3, SMTT(40)
    <2>9. Stage(s)'
        BY <1>1, <1>3, <1>5, <2>1, <2>2, <2>3, SMTT(40)
    <2> QED
        BY <2>4, <2>5, <2>6, <2>7, <2>8, <2>9 DEF SlaveInv
<1>14. CASE HandleSlaveRequest(s)
    <2>1. /\ thr_pc[s] = "request" /\ thr_pc'[s] = "wait"
          /\ \/ slave_usr1'[s] <=> slave_usr1[s]
             \/ slave_usr1'[s] <=> slave_usr1[s] \/ alive[s]
          /\ UNCHANGED <<owned, is_connected, req_m_to_s, res_s_to_m, cycle_started,
                         sem_m_to_s, sem_s_to_m, response, configurator_usr2,
                         sig_semaphore, spawned, assigning>>
        BY <1>1, <1>2, <1>14
        DEF HandleSlaveRequest, ThrGoto, KillSlave, resetVars, answerVars
    <2>2. /\ ToMaster(s)' = ToMaster(s) - 1
          /\ ToSlave(s)' \in {ToSlave(s), ToSlave(s) + 1}
          /\ Free(s)' = Free(s)
          /\ Sending(s)' = Sending(s)
        BY <1>1, <1>3, <2>1 DEF ToSlave, ToMaster, Free, Sending
    <2>4. Bounded(s)'
        BY <1>1, <1>3, <1>5, <2>1, <2>2, SMTT(40)
    <2>5. RestsUnlessSent(s)'
        BY <1>1, <1>3, <1>5, <2>1, <2>2, SMTT(40)
    <2>6. Answering(s)'
        BY <1>1, <1>3, <1>5, <2>1, <2>2, SMTT(40)
    <2>7. GateHeld(s)' /\ RequestLock(s)' /\ HandlesRequest(s)' /\ CyclesAlive(s)'
        BY <1>1, <1>3, <1>5, <2>1, <2>2, SMTT(40)
    <2>8. Detached(s)' /\ ListedRightly(s)' /\ Recorded(s)'
        BY <1>1, <1>3, <1>5, <2>1, <2>2, SMTT(40)
    <2>9. Stage(s)'
        BY <1>1, <1>3, <1>5, <2>1, <2>2, SMTT(40)
    <2> QED
        BY <2>4, <2>5, <2>6, <2>7, <2>8, <2>9 DEF SlaveInv
<1>15. CASE ForwardResponse(s)
    <2>1. /\ thr_pc[s] = "response" /\ thr_pc'[s] = "wait"
          /\ is_connected[s]
          /\ req_m_to_s[s] \in {"START_SLAVE_CYCLE", "STOP_SLAVE_CYCLE", "DISCONNECT_SLAVE"}
          /\ response' = res_s_to_m[s] /\ configurator_usr2'
          /\ sem_m_to_s'[s] = sem_m_to_s[s] + 1
          /\ UNCHANGED <<owned, is_connected, req_m_to_s, res_s_to_m, cycle_started,
                         sem_s_to_m, slave_usr1, sig_semaphore, spawned, assigning>>
        BY <1>1, <1>2, <1>15
        DEF ForwardResponse, ThrGoto, PostRequest, AnswerConfigurator,
            KillConfigurator, resetVars
    <2>2. /\ ToMaster(s)' = ToMaster(s) - 1
          /\ ToSlave(s)' = ToSlave(s)
          /\ Free(s)' = Free(s)
          /\ Sending(s)' = Sending(s)
        <3>1. ToMaster(s)' = ToMaster(s) - 1
            BY <1>1, <1>3, <2>1 DEF ToMaster
        <3>2. ToSlave(s)' = ToSlave(s)
            BY <1>1, <1>3, <2>1 DEF ToSlave
        <3>3. Free(s)' = Free(s)
            BY <1>1, <1>3, <2>1 DEF Free
        <3>4. Sending(s)' = Sending(s)
            BY <1>1, <1>3, <2>1 DEF Sending
        <3> QED
            BY <3>1, <3>2, <3>3, <3>4
    <2>3. /\ Sent(s) /\ request = req_m_to_s[s]
        BY <1>1, <1>3, <1>4, <1>5, <2>1, <2>2, SMTT(40)
    <2>4. Bounded(s)'
        BY <1>1, <1>3, <1>4, <1>5, <2>1, <2>2, <2>3, SMTT(40)
    <2>5. RestsUnlessSent(s)'
        BY <1>1, <1>3, <1>4, <1>5, <2>1, <2>2, <2>3, SMTT(40)
    <2>6. Answering(s)'
        BY <1>1, <1>3, <1>4, <1>5, <2>1, <2>2, <2>3, SMTT(40)
    <2>7. GateHeld(s)' /\ RequestLock(s)' /\ HandlesRequest(s)' /\ CyclesAlive(s)'
        BY <1>1, <1>3, <1>4, <1>5, <2>1, <2>2, <2>3, SMTT(40)
    <2>8. Detached(s)' /\ ListedRightly(s)' /\ Recorded(s)'
        BY <1>1, <1>3, <1>4, <1>5, <2>1, <2>2, <2>3, SMTT(40)
    <2>9. Stage(s)'
        BY <1>1, <1>3, <1>4, <1>5, <2>1, <2>2, <2>3, SMTT(40)
    <2> QED
        BY <2>4, <2>5, <2>6, <2>7, <2>8, <2>9 DEF SlaveInv
<1>16. CASE FinishDisconnect(s)
    <2>1. /\ thr_pc[s] = "response" /\ thr_pc'[s] = "none"
          /\ is_connected[s] /\ req_m_to_s[s] = "DISCONNECT_SLAVE"
          /\ ~owned'[s] /\ ~is_connected'[s] /\ ~cycle_started'[s]
          /\ sem_m_to_s'[s] = 1 /\ sem_s_to_m'[s] = 1
          /\ response' = "ACK" /\ configurator_usr2'
          /\ UNCHANGED <<slave_usr1, sig_semaphore, spawned, assigning>>
        BY <1>1, <1>2, <1>16
        DEF FinishDisconnect, ThrGoto, AnswerConfigurator, KillConfigurator,
            ResetSemaphores
    <2>2. /\ ToMaster(s)' = ToMaster(s) - 1
          /\ ToSlave(s)' = ToSlave(s)
          /\ Free(s)' = Free(s) - sem_s_to_m[s] + 1
          /\ Sending(s)' = Sending(s)
        <3>1. ToMaster(s)' = ToMaster(s) - 1
            BY <1>1, <1>3, <2>1 DEF ToMaster
        <3>2. ToSlave(s)' = ToSlave(s)
            BY <1>1, <1>3, <2>1 DEF ToSlave
        <3>3. Free(s)' = Free(s) - sem_s_to_m[s] + 1
            BY <1>1, <1>3, <2>1 DEF Free
        <3>4. Sending(s)' = Sending(s)
            BY <1>1, <1>3, <2>1 DEF Sending
        <3> QED
            BY <3>1, <3>2, <3>3, <3>4
    <2>3. /\ Sent(s) /\ request = "DISCONNECT_SLAVE" /\ Calm(s)
          /\ sem_m_to_s[s] = 0 /\ sem_s_to_m[s] = 1 /\ Free(s) = 1
          /\ ToMaster(s) = 1 /\ ToSlave(s) = 0
        BY <1>1, <1>3, <1>4, <1>5, <2>1, <2>2, SMTT(40)
    <2>4. Bounded(s)'
        BY <1>1, <1>3, <1>4, <1>5, <2>1, <2>2, <2>3, SMTT(40)
    <2>5. RestsUnlessSent(s)'
        BY <1>1, <1>3, <1>4, <1>5, <2>1, <2>2, <2>3, SMTT(40)
    <2>6. Answering(s)'
        BY <1>1, <1>3, <1>4, <1>5, <2>1, <2>2, <2>3, SMTT(40)
    <2>7. GateHeld(s)' /\ RequestLock(s)' /\ HandlesRequest(s)' /\ CyclesAlive(s)'
        BY <1>1, <1>3, <1>4, <1>5, <2>1, <2>2, <2>3, SMTT(40)
    <2>8. Detached(s)' /\ ListedRightly(s)' /\ Recorded(s)'
        BY <1>1, <1>3, <1>4, <1>5, <2>1, <2>2, <2>3, SMTT(40)
    <2>9. Stage(s)'
        BY <1>1, <1>3, <1>4, <1>5, <2>1, <2>2, <2>3, SMTT(40)
    <2> QED
        BY <2>4, <2>5, <2>6, <2>7, <2>8, <2>9 DEF SlaveInv
<1>17. CASE RefuseConnect(s)
    <2>1. /\ thr_pc[s] = "response" /\ thr_pc'[s] = "wait"
          /\ ~is_connected[s]
          /\ response' = "NACK" /\ configurator_usr2'
          /\ sem_m_to_s'[s] = sem_m_to_s[s] + 1
          /\ UNCHANGED <<owned, is_connected, req_m_to_s, res_s_to_m, cycle_started,
                         sem_s_to_m, slave_usr1, sig_semaphore, spawned, assigning>>
        BY <1>1, <1>2, <1>17
        DEF RefuseConnect, ThrGoto, PostRequest, AnswerConfigurator,
            KillConfigurator, resetVars, Connecting
    <2>2. /\ ToMaster(s)' = ToMaster(s) - 1
          /\ ToSlave(s)' = ToSlave(s)
          /\ Free(s)' = Free(s)
          /\ Sending(s)' = Sending(s)
        BY <1>1, <1>3, <2>1 DEF ToSlave, ToMaster, Free, Sending
    <2>3. /\ Sent(s) /\ request = "CONNECT_SLAVE" /\ ~is_connected[s] /\ Calm(s)
        BY <1>1, <1>3, <1>4, <1>5, <2>1, <2>2, SMTT(40)
    <2>4. Bounded(s)'
        BY <1>1, <1>3, <1>4, <1>5, <2>1, <2>2, <2>3, SMTT(40)
    <2>5. RestsUnlessSent(s)'
        BY <1>1, <1>3, <1>4, <1>5, <2>1, <2>2, <2>3, SMTT(40)
    <2>6. Answering(s)'
        BY <1>1, <1>3, <1>4, <1>5, <2>1, <2>2, <2>3, SMTT(40)
    <2>7. GateHeld(s)' /\ RequestLock(s)' /\ HandlesRequest(s)' /\ CyclesAlive(s)'
        BY <1>1, <1>3, <1>4, <1>5, <2>1, <2>2, <2>3, SMTT(40)
    <2>8. Detached(s)' /\ ListedRightly(s)' /\ Recorded(s)'
        BY <1>1, <1>3, <1>4, <1>5, <2>1, <2>2, <2>3, SMTT(40)
    <2>9. Stage(s)'
        BY <1>1, <1>3, <1>4, <1>5, <2>1, <2>2, <2>3, SMTT(40)
    <2> QED
        BY <2>4, <2>5, <2>6, <2>7, <2>8, <2>9 DEF SlaveInv
<1>18. CASE AskForNewName(s)
    <2>1. /\ thr_pc[s] = "response" /\ thr_pc'[s] = "rename_lock"
          /\ ~is_connected[s]
          /\ sem_m_to_s'[s] = sem_m_to_s[s] + 1
          /\ UNCHANGED <<owned, is_connected, req_m_to_s, res_s_to_m, cycle_started,
                         sem_s_to_m, response, slave_usr1, configurator_usr2,
                         sig_semaphore, spawned, assigning>>
        BY <1>1, <1>2, <1>18
        DEF AskForNewName, ThrGoto, PostRequest, resetVars, answerVars, Connecting
    <2>2. /\ ToMaster(s)' = ToMaster(s) - 1
          /\ ToSlave(s)' = ToSlave(s)
          /\ Free(s)' = Free(s)
          /\ Sending(s)' = Sending(s)
        BY <1>1, <1>3, <2>1 DEF ToSlave, ToMaster, Free, Sending
    <2>3. /\ Sent(s) /\ request = "CONNECT_SLAVE" /\ ~is_connected[s] /\ Calm(s)
          /\ sem_s_to_m[s] > 0 /\ UnderWay(s) = 1
        BY <1>1, <1>3, <1>4, <1>5, <2>1, <2>2, SMTT(40)
    <2>4. Bounded(s)'
        BY <1>1, <1>3, <1>4, <1>5, <2>1, <2>2, <2>3, SMTT(40)
    <2>5. RestsUnlessSent(s)'
        BY <1>1, <1>3, <1>4, <1>5, <2>1, <2>2, <2>3, SMTT(40)
    <2>6. Answering(s)'
        BY <1>1, <1>3, <1>4, <1>5, <2>1, <2>2, <2>3, SMTT(40)
    <2>7. GateHeld(s)' /\ RequestLock(s)' /\ HandlesRequest(s)' /\ CyclesAlive(s)'
        BY <1>1, <1>3, <1>4, <1>5, <2>1, <2>2, <2>3, SMTT(40)
    <2>8. Detached(s)' /\ ListedRightly(s)' /\ Recorded(s)'
        BY <1>1, <1>3, <1>4, <1>5, <2>1, <2>2, <2>3, SMTT(40)
    <2>9. Stage(s)'
        BY <1>1, <1>3, <1>4, <1>5, <2>1, <2>2, <2>3, SMTT(40)
    <2> QED
        BY <2>4, <2>5, <2>6, <2>7, <2>8, <2>9 DEF SlaveInv
<1>19. CASE FinishConnect(s)
    <2>1. /\ thr_pc[s] = "response" /\ thr_pc'[s] = "wait"
          /\ ~is_connected[s] /\ is_connected'[s]
          /\ response' = "ACK" /\ configurator_usr2'
          /\ sem_m_to_s'[s] = sem_m_to_s[s] + 1
          /\ UNCHANGED <<owned, req_m_to_s, res_s_to_m, cycle_started, sem_s_to_m,
                         slave_usr1, sig_semaphore, spawned, assigning>>
        BY <1>1, <1>2, <1>19
        DEF FinishConnect, ThrGoto, PostRequest, AnswerConfigurator,
            KillConfigurator, resetVars, Connecting
    <2>2. /\ ToMaster(s)' = ToMaster(s) - 1
          /\ ToSlave(s)' = ToSlave(s)
          /\ Free(s)' = Free(s)
          /\ Sending(s)' = Sending(s)
        BY <1>1, <1>3, <2>1 DEF ToSlave, ToMaster, Free, Sending
    <2>3. /\ Sent(s) /\ request = "CONNECT_SLAVE" /\ ~is_connected[s] /\ Calm(s)
        BY <1>1, <1>3, <1>4, <1>5, <2>1, <2>2, SMTT(40)
    <2>4. Bounded(s)'
        BY <1>1, <1>3, <1>4, <1>5, <2>1, <2>2, <2>3, SMTT(40)
    <2>5. RestsUnlessSent(s)'
        BY <1>1, <1>3, <1>4, <1>5, <2>1, <2>2, <2>3, SMTT(40)
    <2>6. Answering(s)'
        BY <1>1, <1>3, <1>4, <1>5, <2>1, <2>2, <2>3, SMTT(40)
    <2>7. GateHeld(s)' /\ RequestLock(s)' /\ HandlesRequest(s)' /\ CyclesAlive(s)'
        BY <1>1, <1>3, <1>4, <1>5, <2>1, <2>2, <2>3, SMTT(40)
    <2>8. Detached(s)' /\ ListedRightly(s)' /\ Recorded(s)'
        BY <1>1, <1>3, <1>4, <1>5, <2>1, <2>2, <2>3, SMTT(40)
    <2>9. Stage(s)'
        BY <1>1, <1>3, <1>4, <1>5, <2>1, <2>2, <2>3, SMTT(40)
    <2> QED
        BY <2>4, <2>5, <2>6, <2>7, <2>8, <2>9 DEF SlaveInv
<1>20. CASE IgnoreResponse(s)
    <2>1. /\ thr_pc[s] = "response" /\ thr_pc'[s] = "wait"
          /\ ~is_connected[s]
                 => req_m_to_s[s] \notin {"CONNECT_SLAVE", "CHANGE_SLAVE_NAME"}
          /\ is_connected[s] =>
                req_m_to_s[s] \in {"START_MASTER", "CONNECT_SLAVE", "CHANGE_SLAVE_NAME"}
        BY <1>1, <1>2, <1>20
        DEF IgnoreResponse, ThrGoto, PostRequest, resetVars, answerVars, Connecting
    <2>3. FALSE
        BY <1>1, <1>3, <1>5, <2>1, SMTT(40)
    <2> QED
        BY <2>3
<1> HIDE DEF ThrPcs, SlaveInv, Bounded, GateHeld, RestsUnlessSent, Detached,
             RequestLock, Answering, ListedRightly, HandlesRequest, Stage,
             CyclesAlive, Recorded, UnderWay, Talking, Chosen, Sent, Awake, Calm,
             Resting, Closed, ConnectSent, RequestSent, RequestFound, StartSent,
             Count, Typed, CommandInv, ConfiguratorRequests, startVars
<1> QED
    BY <1>6, <1>7, <1>8, <1>9, <1>10, <1>11, <1>12, <1>13, <1>14, <1>15, <1>16,
       <1>17, <1>18, <1>19, <1>20, ThreadOfSlave
    DEF SlaveProcessorThread

-----------------------------------------------------------------------------
(* As Elsewhere, while the configurator waits for the answer about another *)
(* slave: the command may be taken, passed on and answered.                *)
LEMMA ElsewhereTalking ==
    ASSUME NEW s \in Slaves, SlaveInv(s), SameAt(s),
           cfg_pc = "wait", cfg_pc' = "wait", affected # s, affected' = affected,
           (sync_pc = "send" /\ sync_slave = s)' <=> sync_pc = "send" /\ sync_slave = s,
           master_usr1' = s <=> master_usr1 = s
    PROVE  SlaveInv(s)'
BY SMTT(60)
DEF SlaveInv, SameAt, Bounded, GateHeld, RestsUnlessSent, Detached, RequestLock,
    Answering, ListedRightly, HandlesRequest, Stage, CyclesAlive, Recorded,
    ToMaster, ToSlave, UnderWay, Sending, Free, Talking, Chosen, Sent, Awake, Calm,
    Resting, Closed, ConnectSent, RequestSent, RequestFound, StartSent, Count

(* The handler that counts a signal (async_signal_handler) keeps what is   *)
(* said of the slave that sent it.                                         *)
LEMMA AsyncThreadHere ==
    ASSUME LockInv, LockInv', NEW s \in Slaves, SlaveInv(s), CommandInv, AsyncThread,
           master_usr1 = s
    PROVE  SlaveInv(s)'
<1>1. /\ Typed(s) /\ Typed(s)' /\ s # NoPid
      /\ thr_pc[s] = "response" => sem_m_to_s[s] = 0
      /\ sem_m_to_s[s] <= 1
      /\ owned[s] <=> thr_pc[s] # "none"
      /\ is_connected[s] => owned[s]
      /\ request \in ConfiguratorRequests
    BY ConversationTyped, TypedNext, ShmAssumption
    DEF LockInv, TypeInv, TypeOK, ShmTypeOK, Served, LinkLockBinary
<1>2. /\ sig_semaphore \in [Slaves -> Nat]
      /\ master_usr1' # s
      /\ \/ owned[s] /\ sig_semaphore'[s] = sig_semaphore[s] + 1
         \/ ~owned[s] /\ sig_semaphore'[s] = sig_semaphore[s]
      /\ UNCHANGED <<alive, sig_pc, cyc_pc, threshold, allow, shmseg, request, affected,
                     response, configurator_usr2, slave_usr1, spawned, assigning,
                     thr_pc, owned,
                     is_connected, req_m_to_s, res_s_to_m, cycle_started,
                     sem_m_to_s,
                     sem_s_to_m,
                     master_usr2, sync_pc, sync_req, sync_slave, cfg_pc, offered,
                     created,
                     connected>>
    BY ShmAssumption
    DEF LockInv, TypeInv, TypeOK, MasterTypeOK, AsyncThread, AsyncSignalHandler,
        segVars, ctlVars, liveVars, slaveVars, configuratorVars, startVars
<1>3. /\ ToMaster(s) \in Nat /\ ToSlave(s) \in Nat /\ Free(s) \in Nat
      /\ Sending(s) \in Nat
      /\ ToMaster(s) > 0
    BY <1>1 DEF Typed, ToMaster, ToSlave, Free, Sending, Count
<1>4. ToMaster(s)' = IF owned[s] THEN ToMaster(s) ELSE ToMaster(s) - 1
    BY <1>1, <1>2 DEF ToMaster, Count, Typed
<1>5. ToSlave(s)' = ToSlave(s) /\ Free(s)' = Free(s) /\ Sending(s)' = Sending(s)
    BY <1>2 DEF ToSlave, Free, Sending
<1> USE DEF ThrPcs, SlaveInv, Bounded, GateHeld, RestsUnlessSent, Detached,
            RequestLock, Answering, ListedRightly, HandlesRequest, Stage,
            CyclesAlive, Recorded, UnderWay, Talking, Chosen, Sent, Awake, Calm,
            Resting, Closed, ConnectSent, RequestSent, RequestFound, StartSent,
            Count, Typed, CommandInv, ConfiguratorRequests, startVars
<1>6. Bounded(s)'
    BY <1>1, <1>2, <1>3, <1>4, <1>5, SMTT(40)
<1>7. RestsUnlessSent(s)'
    BY <1>1, <1>2, <1>3, <1>4, <1>5, SMTT(40)
<1>8. Answering(s)'
    BY <1>1, <1>2, <1>3, <1>4, <1>5, SMTT(40)
<1>9. GateHeld(s)' /\ RequestLock(s)' /\ HandlesRequest(s)' /\ CyclesAlive(s)'
    BY <1>1, <1>2, <1>3, <1>4, <1>5, SMTT(40)
<1>10. Detached(s)' /\ ListedRightly(s)' /\ Recorded(s)'
    BY <1>1, <1>2, <1>3, <1>4, <1>5, SMTT(40)
<1>11. Stage(s)'
    BY <1>1, <1>2, <1>3, <1>4, <1>5, SMTT(40)
<1> HIDE DEF ThrPcs, SlaveInv, Bounded, GateHeld, RestsUnlessSent, Detached,
             RequestLock, Answering, ListedRightly, HandlesRequest, Stage,
             CyclesAlive, Recorded, UnderWay, Talking, Chosen, Sent, Awake, Calm,
             Resting, Closed, ConnectSent, RequestSent, RequestFound, StartSent,
             Count, Typed, CommandInv, ConfiguratorRequests, startVars
<1> QED
    BY <1>6, <1>7, <1>8, <1>9, <1>10, <1>11 DEF SlaveInv

(* The thread that takes the commands (sync_signal_handler_thread) works   *)
(* for the command that the configurator waits for, unless it is stuck and *)
(* does not move.                                                          *)
LEMMA SyncThreadTalks ==
    ASSUME LockInv, CommandInv, SyncThread
    PROVE  /\ affected \in Slaves /\ cfg_pc = "wait" /\ ~configurator_usr2
           /\ sync_pc = "sigwait" \/ (sync_slave = affected /\ sync_req = request)
<1>1. \/ CommandPending
      \/ sync_pc = "lock" /\ sem_m_to_s[sync_slave] > 0
      \/ sync_pc = "send"
    <2>1. CASE HandleConfiguratorConnectSlaveRequest
        BY <2>1 DEF HandleConfiguratorConnectSlaveRequest, TakeCommand
    <2>2. CASE HandleConfiguratorCycleSlaveRequest
        BY <2>2 DEF HandleConfiguratorCycleSlaveRequest
    <2>3. CASE HandleConfiguratorDisconnectSlaveRequest
        BY <2>3 DEF HandleConfiguratorDisconnectSlaveRequest, TakeCommand
    <2>4. CASE HandleUnknownCommand
        BY <2>4 DEF HandleUnknownCommand, TakeCommand
    <2>5. CASE LockRequest \/ SendRequest
        BY <2>5 DEF LockRequest, SendRequest
    <2> QED
        BY <2>1, <2>2, <2>3, <2>4, <2>5 DEF SyncThread, SyncSignalHandlerThread
<1>2. cfg_pc = "wait" /\ ~configurator_usr2
    BY <1>1 DEF CommandInv, Stuck, Talking, CommandPending
<1>3. affected \in Slaves
    BY <1>2 DEF LockInv, TypeInv, Targets
<1> QED
    BY <1>1, <1>2, <1>3 DEF CommandInv, Stuck, Talking, CommandPending

(* Every step of that thread keeps what is said of the slave the command   *)
(* is for.                                                                 *)
LEMMA SyncThreadHere ==
    ASSUME LockInv, LockInv', NEW s \in Slaves, SlaveInv(s), CommandInv, SyncThread,
           affected = s
    PROVE  SlaveInv(s)'
<1>1. /\ Typed(s) /\ Typed(s)' /\ s # NoPid
      /\ thr_pc[s] = "response" => sem_m_to_s[s] = 0
      /\ sem_m_to_s[s] <= 1
      /\ owned[s] <=> thr_pc[s] # "none"
      /\ is_connected[s] => owned[s]
      /\ request \in ConfiguratorRequests
    BY ConversationTyped, TypedNext, ShmAssumption
    DEF LockInv, TypeInv, TypeOK, ShmTypeOK, Served, LinkLockBinary
<1>2. /\ sem_m_to_s \in [Slaves -> Nat] /\ spawned \in [Slaves -> Nat]
      /\ req_m_to_s \in [Slaves -> LinkRequests] /\ slave_usr1 \in [Slaves -> BOOLEAN]
      /\ sync_pc \in {"sigwait", "lock", "send"}
    BY DEF LockInv, TypeInv, TypeOK, ShmTypeOK, MasterTypeOK, SyncPcs
<1>3. UNCHANGED <<alive, sig_pc, cyc_pc, threshold, allow, shmseg, request, affected,
                  master_usr1, sig_semaphore, assigning, thr_pc, owned,
                  is_connected,
                  res_s_to_m, cycle_started, sem_s_to_m, cfg_pc, offered, created, connected>>
    BY DEF SyncThread, SyncSignalHandlerThread, liveVars, slaveVars,
           configuratorVars, HandleConfiguratorConnectSlaveRequest,
           HandleConfiguratorCycleSlaveRequest,
           HandleConfiguratorDisconnectSlaveRequest, HandleUnknownCommand,
           LockRequest, SendRequest
<1>4. /\ cfg_pc = "wait" /\ ~configurator_usr2
      /\ sync_pc = "sigwait" \/ (sync_slave = s /\ sync_req = request)
    BY SyncThreadTalks
<1>5. /\ ToMaster(s) \in Nat /\ ToSlave(s) \in Nat /\ Free(s) \in Nat
      /\ Sending(s) \in Nat
      /\ ToMaster(s)' = ToMaster(s) /\ Free(s)' = Free(s)
      /\ ToMaster(s) = 0 => thr_pc[s] \notin {"check", "request", "response"}
    BY <1>1, <1>3 DEF Typed, ToMaster, ToSlave, Free, Sending, Count
<1> USE DEF ThrPcs, SlaveInv, Bounded, GateHeld, RestsUnlessSent, Detached,
            RequestLock, Answering, ListedRightly, HandlesRequest, Stage,
            CyclesAlive, Recorded, UnderWay, Talking, Chosen, Sent, Awake, Calm,
            Resting, Closed, ConnectSent, RequestSent, RequestFound, StartSent,
            Count, Typed, CommandInv, ConfiguratorRequests, startVars
<1>6. CASE HandleConfiguratorConnectSlaveRequest
    <2>1. /\ sync_pc = "sigwait" /\ sync_pc' = "sigwait" /\ request = "CONNECT_SLAVE"
          /\ master_usr2 /\ ~master_usr2'
          /\ spawned'[s] = spawned[s] + 1
          /\ UNCHANGED <<req_m_to_s, sem_m_to_s, response, slave_usr1,
                         configurator_usr2, sync_slave>>
        BY <1>1, <1>2, <1>3, <1>4, <1>6
        DEF HandleConfiguratorConnectSlaveRequest, TakeCommand, CommandPending,
            liveVars
    <2>2. /\ ToSlave(s)' = ToSlave(s)
          /\ Sending(s)' = Sending(s)
        <3>1. ToSlave(s)' = ToSlave(s)
            BY <1>1, <1>2, <1>3, <1>4, <2>1 DEF ToSlave
        <3>2. Sending(s)' = Sending(s)
            BY <1>1, <1>2, <1>3, <1>4, <2>1 DEF Sending
        <3> QED
            BY <3>1, <3>2
    <2>3. /\ spawned[s] = 0 /\ assigning[s] = 0 /\ UnderWay(s) = 0
          /\ thr_pc[s] \in {"none", "wait"} /\ Calm(s)
        BY <1>1, <1>2, <1>3, <1>4, <1>5, <2>1, <2>2, SMTT(40)
    <2>4. Bounded(s)'
        BY <1>1, <1>2, <1>3, <1>4, <1>5, <2>1, <2>2, <2>3, SMTT(40)
    <2>5. RestsUnlessSent(s)'
        BY <1>1, <1>2, <1>3, <1>4, <1>5, <2>1, <2>2, <2>3, SMTT(40)
    <2>6. Answering(s)'
        BY <1>1, <1>2, <1>3, <1>4, <1>5, <2>1, <2>2, <2>3, SMTT(40)
    <2>7. GateHeld(s)' /\ RequestLock(s)' /\ HandlesRequest(s)' /\ CyclesAlive(s)'
        BY <1>1, <1>2, <1>3, <1>4, <1>5, <2>1, <2>2, <2>3, SMTT(40)
    <2>8. Detached(s)' /\ ListedRightly(s)' /\ Recorded(s)'
        BY <1>1, <1>2, <1>3, <1>4, <1>5, <2>1, <2>2, <2>3, SMTT(40)
    <2>9. Stage(s)'
        BY <1>1, <1>2, <1>3, <1>4, <1>5, <2>1, <2>2, <2>3, SMTT(40)
    <2> QED
        BY <2>4, <2>5, <2>6, <2>7, <2>8, <2>9 DEF SlaveInv
<1>7. CASE HandleConfiguratorCycleSlaveRequest
    <2>1. /\ sync_pc = "sigwait" /\ master_usr2 /\ ~master_usr2'
          /\ request \in {"START_SLAVE_CYCLE", "STOP_SLAVE_CYCLE"}
          /\ \/ sync_pc' = "lock"
             \/ sync_pc' = "sigwait" /\ configurator_usr2'
          /\ UNCHANGED <<req_m_to_s, sem_m_to_s, slave_usr1, spawned, assigning>>
        BY <1>1, <1>2, <1>3, <1>4, <1>7
        DEF HandleConfiguratorCycleSlaveRequest, TakeCommand, CommandPending,
            AnswerConfigurator, KillConfigurator, liveVars
    <2>2. /\ ToSlave(s)' = ToSlave(s)
          /\ Sending(s)' = Sending(s)
        <3>1. ToSlave(s)' = ToSlave(s)
            BY <1>1, <1>2, <1>3, <1>4, <2>1 DEF ToSlave
        <3>2. Sending(s)' = Sending(s)
            BY <1>1, <1>2, <1>3, <1>4, <2>1 DEF Sending
        <3> QED
            BY <3>1, <3>2
    <2>4. Bounded(s)'
        BY <1>1, <1>2, <1>3, <1>4, <1>5, <2>1, <2>2, SMTT(40)
    <2>5. RestsUnlessSent(s)'
        BY <1>1, <1>2, <1>3, <1>4, <1>5, <2>1, <2>2, SMTT(40)
    <2>6. Answering(s)'
        BY <1>1, <1>2, <1>3, <1>4, <1>5, <2>1, <2>2, SMTT(40)
    <2>7. GateHeld(s)' /\ RequestLock(s)' /\ HandlesRequest(s)' /\ CyclesAlive(s)'
        BY <1>1, <1>2, <1>3, <1>4, <1>5, <2>1, <2>2, SMTT(40)
    <2>8. Detached(s)' /\ ListedRightly(s)' /\ Recorded(s)'
        BY <1>1, <1>2, <1>3, <1>4, <1>5, <2>1, <2>2, SMTT(40)
    <2>9. Stage(s)'
        BY <1>1, <1>2, <1>3, <1>4, <1>5, <2>1, <2>2, SMTT(40)
    <2> QED
        BY <2>4, <2>5, <2>6, <2>7, <2>8, <2>9 DEF SlaveInv
<1>8. CASE HandleConfiguratorDisconnectSlaveRequest
    <2>1. /\ sync_pc = "sigwait" /\ sync_pc' = "lock" /\ request = "DISCONNECT_SLAVE"
          /\ master_usr2 /\ ~master_usr2'
          /\ UNCHANGED <<req_m_to_s, sem_m_to_s, response, slave_usr1,
                         configurator_usr2, spawned, assigning>>
        BY <1>1, <1>2, <1>3, <1>4, <1>8
        DEF HandleConfiguratorDisconnectSlaveRequest, TakeCommand, CommandPending,
            liveVars
    <2>2. /\ ToSlave(s)' = ToSlave(s)
          /\ Sending(s)' = Sending(s)
        <3>1. ToSlave(s)' = ToSlave(s)
            BY <1>1, <1>2, <1>3, <1>4, <2>1 DEF ToSlave
        <3>2. Sending(s)' = Sending(s)
            BY <1>1, <1>2, <1>3, <1>4, <2>1 DEF Sending
        <3> QED
            BY <3>1, <3>2
    <2>4. Bounded(s)'
        BY <1>1, <1>2, <1>3, <1>4, <1>5, <2>1, <2>2, SMTT(40)
    <2>5. RestsUnlessSent(s)'
        BY <1>1, <1>2, <1>3, <1>4, <1>5, <2>1, <2>2, SMTT(40)
    <2>6. Answering(s)'
        BY <1>1, <1>2, <1>3, <1>4, <1>5, <2>1, <2>2, SMTT(40)
    <2>7. GateHeld(s)' /\ RequestLock(s)' /\ HandlesRequest(s)' /\ CyclesAlive(s)'
        BY <1>1, <1>2, <1>3, <1>4, <1>5, <2>1, <2>2, SMTT(40)
    <2>8. Detached(s)' /\ ListedRightly(s)' /\ Recorded(s)'
        BY <1>1, <1>2, <1>3, <1>4, <1>5, <2>1, <2>2, SMTT(40)
    <2>9. Stage(s)'
        BY <1>1, <1>2, <1>3, <1>4, <1>5, <2>1, <2>2, SMTT(40)
    <2> QED
        BY <2>4, <2>5, <2>6, <2>7, <2>8, <2>9 DEF SlaveInv
<1>9. CASE LockRequest
    <2>1. /\ sync_pc = "lock" /\ sync_pc' = "send"
          /\ sem_m_to_s[s] > 0 /\ sem_m_to_s'[s] = sem_m_to_s[s] - 1
          /\ UNCHANGED <<req_m_to_s, response, slave_usr1, master_usr2,
                         configurator_usr2, spawned, assigning, sync_slave>>
        BY <1>1, <1>2, <1>3, <1>4, <1>9 DEF LockRequest, liveVars
    <2>2. /\ ToSlave(s)' = ToSlave(s)
          /\ Sending(s)' = Sending(s) + 1
        <3>1. ToSlave(s)' = ToSlave(s)
            BY <1>1, <1>2, <1>3, <1>4, <2>1 DEF ToSlave
        <3>2. Sending(s)' = Sending(s) + 1
            BY <1>1, <1>2, <1>3, <1>4, <2>1 DEF Sending
        <3> QED
            BY <3>1, <3>2
    <2>4. Bounded(s)'
        BY <1>1, <1>2, <1>3, <1>4, <1>5, <2>1, <2>2, SMTT(40)
    <2>5. RestsUnlessSent(s)'
        BY <1>1, <1>2, <1>3, <1>4, <1>5, <2>1, <2>2, SMTT(40)
    <2>6. Answering(s)'
        BY <1>1, <1>2, <1>3, <1>4, <1>5, <2>1, <2>2, SMTT(40)
    <2>7. GateHeld(s)' /\ RequestLock(s)' /\ HandlesRequest(s)' /\ CyclesAlive(s)'
        BY <1>1, <1>2, <1>3, <1>4, <1>5, <2>1, <2>2, SMTT(40)
    <2>8. Detached(s)' /\ ListedRightly(s)' /\ Recorded(s)'
        BY <1>1, <1>2, <1>3, <1>4, <1>5, <2>1, <2>2, SMTT(40)
    <2>9. Stage(s)'
        BY <1>1, <1>2, <1>3, <1>4, <1>5, <2>1, <2>2, SMTT(40)
    <2> QED
        BY <2>4, <2>5, <2>6, <2>7, <2>8, <2>9 DEF SlaveInv
<1>10. CASE SendRequest
    <2>1. /\ sync_pc = "send" /\ sync_pc' = "sigwait"
          /\ req_m_to_s'[s] = request
          /\ slave_usr1'[s] <=> slave_usr1[s] \/ alive[s]
          /\ UNCHANGED <<sem_m_to_s, response, master_usr2, configurator_usr2,
                         spawned, assigning, sync_slave>>
        BY <1>1, <1>2, <1>3, <1>4, <1>10 DEF SendRequest, KillSlave, liveVars
    <2>2. /\ ToSlave(s)' \in {ToSlave(s), ToSlave(s) + 1}
          /\ Sending(s)' = Sending(s) - 1
        <3>1. ToSlave(s)' \in {ToSlave(s), ToSlave(s) + 1}
            BY <1>1, <1>2, <1>3, <1>4, <2>1 DEF ToSlave
        <3>2. Sending(s)' = Sending(s) - 1
            BY <1>1, <1>2, <1>3, <1>4, <2>1 DEF Sending
        <3> QED
            BY <3>1, <3>2
    <2>3. /\ is_connected[s] /\ sem_m_to_s[s] = 0 /\ Resting(s)
          /\ spawned[s] = 0 /\ assigning[s] = 0
          /\ Sending(s) > 0
          /\ request \in {"START_SLAVE_CYCLE", "DISCONNECT_SLAVE"}
                 => Calm(s) /\ UnderWay(s) = 0
        BY <1>1, <1>2, <1>3, <1>4, <1>5, <2>1, <2>2, SMTT(40) DEF Sending
    <2>10. ~master_usr2
        BY <2>1 DEF CommandInv, Stuck
    <2>11. Sent(s)'
        BY <1>3, <1>4, <2>1, <2>10 DEF Sent, Talking
    <2>4. Bounded(s)'
        BY <1>1, <1>2, <1>3, <1>4, <1>5, <2>1, <2>2, <2>3, <2>11, SMTT(40)
    <2>5. RestsUnlessSent(s)'
        BY <1>1, <1>2, <1>3, <1>4, <1>5, <2>1, <2>2, <2>3, <2>11, SMTT(40)
    <2>6. Answering(s)'
        BY <1>1, <1>2, <1>3, <1>4, <1>5, <2>1, <2>2, <2>3, <2>11, SMTT(40)
    <2>7. GateHeld(s)' /\ RequestLock(s)' /\ HandlesRequest(s)' /\ CyclesAlive(s)'
        BY <1>1, <1>2, <1>3, <1>4, <1>5, <2>1, <2>2, <2>3, <2>11, SMTT(40)
    <2>8. Detached(s)' /\ ListedRightly(s)' /\ Recorded(s)'
        BY <1>1, <1>2, <1>3, <1>4, <1>5, <2>1, <2>2, <2>3, <2>11, SMTT(40)
    <2>9. Stage(s)'
        BY <1>1, <1>2, <1>3, <1>4, <1>5, <2>1, <2>2, <2>3, <2>11, SMTT(40)
    <2> QED
        BY <2>4, <2>5, <2>6, <2>7, <2>8, <2>9 DEF SlaveInv
<1>11. CASE HandleUnknownCommand
    <2>1. request \in {"DELETE_SLAVE", "OTHER"}
        BY <1>11 DEF HandleUnknownCommand
    <2> QED
        BY <1>4, <2>1
<1> HIDE DEF ThrPcs, SlaveInv, Bounded, GateHeld, RestsUnlessSent, Detached,
             RequestLock, Answering, ListedRightly, HandlesRequest, Stage,
             CyclesAlive, Recorded, UnderWay, Talking, Chosen, Sent, Awake, Calm,
             Resting, Closed, ConnectSent, RequestSent, RequestFound, StartSent,
             Count, Typed, CommandInv, ConfiguratorRequests, startVars
<1> QED
    BY <1>6, <1>7, <1>8, <1>9, <1>10, <1>11 DEF SyncThread, SyncSignalHandlerThread

-----------------------------------------------------------------------------
(* When a user gives a command or a wait times out, nothing at all is      *)
(* under way for a slave, and its cycle sleeps or is behind its closed     *)
(* gate.                                                                   *)
LEMMA SettledSlave ==
    ASSUME LockInv, NEW s \in Slaves, SlaveInv(s), Settled, master_alive
    PROVE  /\ spawned[s] = 0 /\ assigning[s] = 0 /\ thr_pc[s] \in {"none", "wait"}
           /\ UnderWay(s) = 0
           /\ alive[s] => sig_pc[s] = "sigwait"
           /\ alive[s] => cyc_pc[s] # "send" /\ ~Awake(s)
           /\ alive[s] /\ cyc_pc[s] \notin {"sample", "trylock"} => Closed(s)
<1>1. Typed(s) /\ Served /\ Quiet(s)
    BY ConversationTyped DEF LockInv, Settled
<1>2. /\ ToMaster(s) = 0 /\ spawned[s] = 0 /\ assigning[s] = 0
      /\ thr_pc[s] \in {"none", "wait"}
      /\ alive[s] /\ ~(sig_pc[s] = "stop_wait" /\ allow[s] = 0) =>
            sig_pc[s] = "sigwait" /\ ~slave_usr1[s] /\ ToSlave(s) = 0
    BY <1>1, QuietSlave
<1>3. alive[s] => Closed(s) \/ (Asleep(s) /\ sig_pc[s] # "stop_wait")
    BY DEF Settled, Closed
<1>4. alive[s] => ~(sig_pc[s] = "stop_wait" /\ allow[s] = 0)
    BY <1>1, <1>3 DEF SlaveInv, GateHeld, Closed, Count, Typed
<1>5. ~alive[s] => ToSlave(s) = 0
    BY DEF ToSlave
<1>6. UnderWay(s) = 0
    BY <1>2, <1>4, <1>5 DEF UnderWay
<1> QED
    BY <1>1, <1>2, <1>3, <1>4, <1>6 DEF Closed, Asleep, Awake, Typed

(* Every step of the configurator keeps what is said of every slave: a     *)
(* command is chosen, sent, given up or answered.                          *)
LEMMA ConfiguratorHere ==
    ASSUME LockInv, LockInv', Prompt, NEW s \in Slaves, SlaveInv(s), CommandInv, Answered,
           NoProcessLost, ConfiguratorProcess
    PROVE  SlaveInv(s)'
<1>1. /\ Typed(s) /\ Typed(s)' /\ s # NoPid
      /\ thr_pc[s] = "response" => sem_m_to_s[s] = 0
      /\ sem_m_to_s[s] <= 1
      /\ owned[s] <=> thr_pc[s] # "none"
      /\ is_connected[s] => owned[s]
      /\ request \in ConfiguratorRequests
    BY ConversationTyped, TypedNext, ShmAssumption
    DEF LockInv, TypeInv, TypeOK, ShmTypeOK, Served, LinkLockBinary
<1>2. /\ alive \in [Slaves -> BOOLEAN] /\ created \in [Slaves -> BOOLEAN]
      /\ connected \in [Slaves -> BOOLEAN]
    BY DEF LockInv, TypeInv, TypeOK, ShmTypeOK, ConfiguratorTypeOK
<1>3. UNCHANGED <<sig_pc, cyc_pc, threshold, allow, shmseg, slave_usr1, master_usr1,
                  sig_semaphore, spawned, assigning, thr_pc, owned, is_connected,
                  req_m_to_s,
                  res_s_to_m, cycle_started, sem_m_to_s, sem_s_to_m, response,
                  sync_pc,
                  sync_req, sync_slave>>
    BY DEF ConfiguratorProcess, UserOrTimer, NextCommand, AnswerPrompt, ReadReqCode,
           AbandonCommand, SendCommand, DeleteSlave, ReceiveResponse, WaitTimeout,
           slaveVars, masterVars, startVars, segVars, ctlVars, killVars,
           liveVars, shmVars
<1>4. /\ ToMaster(s) \in Nat /\ ToSlave(s) \in Nat /\ Free(s) \in Nat
      /\ Sending(s) \in Nat
      /\ cyc_pc[s] \notin {"check", "send"} => Free(s) = sem_s_to_m[s]
    BY <1>1 DEF Typed, ToMaster, ToSlave, Free, Sending, Count
<1>5. /\ ToMaster(s)' = ToMaster(s) /\ Free(s)' = Free(s) /\ Sending(s)' = Sending(s)
      /\ alive'[s] = alive[s] => ToSlave(s)' = ToSlave(s)
      /\ ~alive'[s] => ToSlave(s)' = 0
    BY <1>1, <1>2, <1>3 DEF ToMaster, ToSlave, Free, Sending
<1> USE DEF ThrPcs, SlaveInv, Bounded, GateHeld, RestsUnlessSent, Detached,
            RequestLock, Answering, ListedRightly, HandlesRequest, Stage,
            CyclesAlive, Recorded, UnderWay, Talking, Chosen, Sent, Awake, Calm,
            Resting, Closed, ConnectSent, RequestSent, RequestFound, StartSent,
            Count, Typed, CommandInv, ConfiguratorRequests, startVars
<1>6. ASSUME NEW r \in Commands, ReadReqCode(r), Settled PROVE SlaveInv(s)'
    <2>1. /\ cfg_pc = "menu" /\ cfg_pc' = "pick" /\ request' = r /\ offered' = Listed(r)
          /\ UNCHANGED <<affected, alive, configurator_usr2, master_usr2, created,
                         connected>>
        BY <1>1, <1>2, <1>3, <1>6 DEF ReadReqCode, segVars, killVars, liveVars
    <2>2. /\ spawned[s] = 0 /\ assigning[s] = 0 /\ thr_pc[s] \in {"none", "wait"}
          /\ UnderWay(s) = 0
          /\ alive[s] => sig_pc[s] = "sigwait"
          /\ alive[s] => cyc_pc[s] # "send" /\ ~Awake(s)
          /\ alive[s] /\ cyc_pc[s] \notin {"sample", "trylock"} => Closed(s)
        BY <1>6, SettledSlave DEF NoProcessLost
    <2>3. /\ ~configurator_usr2 /\ ~Sent(s)
          /\ Chosen(s)' <=> s \in Listed(r)
        BY <2>1
    <2>4. Bounded(s)'
        BY <1>1, <1>2, <1>3, <1>4, <1>5, <2>1, <2>2, <2>3, <1>6, SMTT(40)
    <2>5. RestsUnlessSent(s)'
        BY <1>1, <1>2, <1>3, <1>4, <1>5, <2>1, <2>2, <2>3, <1>6, SMTT(40)
    <2>6. Answering(s)'
        BY <1>1, <1>2, <1>3, <1>4, <1>5, <2>1, <2>2, <2>3, <1>6, SMTT(40)
    <2>7. GateHeld(s)' /\ RequestLock(s)' /\ HandlesRequest(s)' /\ CyclesAlive(s)'
        BY <1>1, <1>2, <1>3, <1>4, <1>5, <2>1, <2>2, <2>3, <1>6, SMTT(40)
    <2>8. Detached(s)' /\ ListedRightly(s)' /\ Recorded(s)'
        <3>1. Detached(s)'
            BY <1>1, <1>2, <1>3, <1>4, <1>5, <2>1, <2>2, <2>3, <1>6, SMTT(40)
        <3>2. ListedRightly(s)'
            <4> SUFFICES ASSUME s \in Listed(r)
                         PROVE  /\ r \in {"CONNECT_SLAVE", "DELETE_SLAVE"}
                                       => ~is_connected[s]
                                /\ r \in {"DISCONNECT_SLAVE", "START_SLAVE_CYCLE", "STOP_SLAVE_CYCLE"}
                                      => is_connected[s]
                                /\ r \in {"DISCONNECT_SLAVE", "START_SLAVE_CYCLE"}
                                       => Calm(s)
                BY <1>3, <2>1, <2>3, SMTT(40)
            <4>1. r \in {"CONNECT_SLAVE", "DELETE_SLAVE"} => created[s] /\ ~connected[s]
                BY DEF Listed, DisconnectedSlaves
            <4>2. r \in {"DISCONNECT_SLAVE", "START_SLAVE_CYCLE", "STOP_SLAVE_CYCLE"}
                    => is_connected[s]
                BY DEF Listed, StoppedSlaves, StartedSlaves
            <4>3. r \in {"DISCONNECT_SLAVE", "START_SLAVE_CYCLE"} => ~cycle_started[s]
                BY DEF Listed, StoppedSlaves
            <4>4. ~cycle_started[s] => Calm(s)
                BY <1>1, <2>2
            <4>5. created[s] => (connected[s] <=> is_connected[s])
                BY <2>3
            <4> QED
                BY <4>1, <4>2, <4>3, <4>4, <4>5
        <3>3. Recorded(s)'
            BY <1>1, <1>2, <1>3, <1>4, <1>5, <2>1, <2>2, <2>3, <1>6, SMTT(40)
        <3> QED
            BY <3>1, <3>2, <3>3
    <2>9. Stage(s)'
        BY <1>1, <1>2, <1>3, <1>4, <1>5, <2>1, <2>2, <2>3, <1>6, SMTT(40)
    <2> QED
        BY <2>4, <2>5, <2>6, <2>7, <2>8, <2>9 DEF SlaveInv
<1>7. ASSUME AbandonCommand PROVE SlaveInv(s)'
    <2>1. /\ cfg_pc = "pick" /\ cfg_pc' = "menu" /\ offered' = {}
          /\ UNCHANGED <<request, affected, alive, configurator_usr2, master_usr2,
                         created, connected>>
        BY <1>1, <1>2, <1>3, <1>7
        DEF AbandonCommand, shmVars, ctlVars, killVars, liveVars
    <2>4. Bounded(s)'
        BY <1>1, <1>2, <1>3, <1>4, <1>5, <2>1, SMTT(40)
    <2>5. RestsUnlessSent(s)'
        BY <1>1, <1>2, <1>3, <1>4, <1>5, <2>1, SMTT(40)
    <2>6. Answering(s)'
        BY <1>1, <1>2, <1>3, <1>4, <1>5, <2>1, SMTT(40)
    <2>7. GateHeld(s)' /\ RequestLock(s)' /\ HandlesRequest(s)' /\ CyclesAlive(s)'
        BY <1>1, <1>2, <1>3, <1>4, <1>5, <2>1, SMTT(40)
    <2>8. Detached(s)' /\ ListedRightly(s)' /\ Recorded(s)'
        BY <1>1, <1>2, <1>3, <1>4, <1>5, <2>1, SMTT(40)
    <2>9. Stage(s)'
        BY <1>1, <1>2, <1>3, <1>4, <1>5, <2>1, SMTT(40)
    <2> QED
        BY <2>4, <2>5, <2>6, <2>7, <2>8, <2>9 DEF SlaveInv
<1>8. ASSUME NEW q \in Slaves, SendCommand(q) PROVE SlaveInv(s)'
    <2>1. /\ cfg_pc = "pick" /\ q \in offered /\ offered' = {}
          /\ request # "DELETE_SLAVE"
          /\ cfg_pc' = "pick" \/ (cfg_pc' = "wait" /\ affected' = q /\ master_usr2')
          /\ UNCHANGED <<request, alive, configurator_usr2, created, connected>>
        BY <1>1, <1>2, <1>3, <1>8 DEF SendCommand
    <2>4. Bounded(s)'
        BY <1>1, <1>2, <1>3, <1>4, <1>5, <2>1, SMTT(40)
    <2>5. RestsUnlessSent(s)'
        BY <1>1, <1>2, <1>3, <1>4, <1>5, <2>1, SMTT(40)
    <2>6. Answering(s)'
        BY <1>1, <1>2, <1>3, <1>4, <1>5, <2>1, SMTT(40)
    <2>7. GateHeld(s)' /\ RequestLock(s)' /\ HandlesRequest(s)' /\ CyclesAlive(s)'
        BY <1>1, <1>2, <1>3, <1>4, <1>5, <2>1, SMTT(40)
    <2>8. Detached(s)' /\ ListedRightly(s)' /\ Recorded(s)'
        BY <1>1, <1>2, <1>3, <1>4, <1>5, <2>1, SMTT(40)
    <2>9. Stage(s)'
        BY <1>1, <1>2, <1>3, <1>4, <1>5, <2>1, SMTT(40)
    <2> QED
        BY <2>4, <2>5, <2>6, <2>7, <2>8, <2>9 DEF SlaveInv
<1>9. ASSUME NEW q \in Slaves, DeleteSlave(q) PROVE SlaveInv(s)'
    <2>1. /\ cfg_pc = "pick" /\ cfg_pc' = "menu" /\ q \in offered /\ offered' = {}
          /\ request = "DELETE_SLAVE"
          /\ q = s => ~alive'[s] /\ ~created'[s]
          /\ q # s => /\ alive'[s] = alive[s] /\ created'[s] = created[s]
                       /\ connected'[s] = connected[s]
          /\ UNCHANGED <<request, affected, configurator_usr2, master_usr2>>
        BY <1>1, <1>2, <1>3, <1>9 DEF DeleteSlave, segVars, ctlVars
    <2>4. Bounded(s)'
        BY <1>1, <1>2, <1>3, <1>4, <1>5, <2>1, SMTT(40)
    <2>5. RestsUnlessSent(s)'
        BY <1>1, <1>2, <1>3, <1>4, <1>5, <2>1, SMTT(40)
    <2>6. Answering(s)'
        BY <1>1, <1>2, <1>3, <1>4, <1>5, <2>1, SMTT(40)
    <2>7. GateHeld(s)' /\ RequestLock(s)' /\ HandlesRequest(s)' /\ CyclesAlive(s)'
        BY <1>1, <1>2, <1>3, <1>4, <1>5, <2>1, SMTT(40)
    <2>8. Detached(s)' /\ ListedRightly(s)' /\ Recorded(s)'
        <3>1. Detached(s)'
            BY <1>1, <1>2, <1>3, <1>4, <1>5, <2>1, SMTT(40)
        <3>2. ListedRightly(s)'
            BY <1>1, <1>2, <1>3, <1>4, <1>5, <2>1, SMTT(40)
        <3>3. Recorded(s)'
            <4>1. ~configurator_usr2'
                BY <2>1
            <4>2. created'[s] => (connected'[s] <=> is_connected'[s])
                BY <1>3, <2>1 DEF Answered
            <4> QED
                BY <4>1, <4>2
        <3> QED
            BY <3>1, <3>2, <3>3
    <2>9. Stage(s)'
        BY <1>1, <1>2, <1>3, <1>4, <1>5, <2>1, SMTT(40)
    <2> QED
        BY <2>4, <2>5, <2>6, <2>7, <2>8, <2>9 DEF SlaveInv
<1>10. ASSUME ReceiveResponse PROVE SlaveInv(s)'
    <2>1. /\ cfg_pc = "wait" /\ cfg_pc' = "menu" /\ configurator_usr2
          /\ ~configurator_usr2'
          /\ IF /\ response = "ACK" /\ created[s] /\ affected = s
                /\ request \in {"CONNECT_SLAVE", "DISCONNECT_SLAVE"}
             THEN connected'[s] <=> request = "CONNECT_SLAVE"
             ELSE connected'[s] = connected[s]
          /\ UNCHANGED <<request, affected, alive, master_usr2, created, offered>>
        BY <1>1, <1>2, <1>3, <1>10
        DEF ReceiveResponse, segVars, ctlVars, liveVars, ConnectedAfter
    <2>4. Bounded(s)'
        BY <1>1, <1>2, <1>3, <1>4, <1>5, <2>1, SMTT(40)
    <2>5. RestsUnlessSent(s)'
        BY <1>1, <1>2, <1>3, <1>4, <1>5, <2>1, SMTT(40)
    <2>6. Answering(s)'
        BY <1>1, <1>2, <1>3, <1>4, <1>5, <2>1, SMTT(40)
    <2>7. GateHeld(s)' /\ RequestLock(s)' /\ HandlesRequest(s)' /\ CyclesAlive(s)'
        BY <1>1, <1>2, <1>3, <1>4, <1>5, <2>1, SMTT(40)
    <2>8. Detached(s)' /\ ListedRightly(s)' /\ Recorded(s)'
        <3>1. Detached(s)'
            BY <1>1, <1>2, <1>3, <1>4, <1>5, <2>1, SMTT(40)
        <3>2. ListedRightly(s)'
            BY <1>1, <1>2, <1>3, <1>4, <1>5, <2>1, SMTT(40)
        <3>3. Recorded(s)'
            <4>1. ~configurator_usr2'
                BY <2>1
            <4>2. created'[s] => (connected'[s] <=> is_connected'[s])
                BY <1>3, <2>1 DEF Answered
            <4> QED
                BY <4>1, <4>2
        <3> QED
            BY <3>1, <3>2, <3>3
    <2>9. Stage(s)'
        BY <1>1, <1>2, <1>3, <1>4, <1>5, <2>1, SMTT(40)
    <2> QED
        BY <2>4, <2>5, <2>6, <2>7, <2>8, <2>9 DEF SlaveInv
<1>11. ASSUME WaitTimeout, Settled PROVE SlaveInv(s)'
    <2>1. /\ cfg_pc = "wait" /\ cfg_pc' = "menu" /\ ~configurator_usr2
          /\ UNCHANGED <<request, affected, alive, configurator_usr2, master_usr2,
                         created, connected, offered>>
        BY <1>1, <1>2, <1>3, <1>11
        DEF WaitTimeout, shmVars, segVars, ctlVars, killVars, liveVars
    <2>2. /\ spawned[s] = 0 /\ assigning[s] = 0 /\ thr_pc[s] \in {"none", "wait"}
          /\ UnderWay(s) = 0
          /\ alive[s] => sig_pc[s] = "sigwait"
          /\ alive[s] => cyc_pc[s] # "send" /\ ~Awake(s)
          /\ alive[s] /\ cyc_pc[s] \notin {"sample", "trylock"} => Closed(s)
        BY <1>11, SettledSlave DEF NoProcessLost
    <2>4. Bounded(s)'
        BY <1>1, <1>2, <1>3, <1>4, <1>5, <2>1, <2>2, SMTT(40)
    <2>5. RestsUnlessSent(s)'
        BY <1>1, <1>2, <1>3, <1>4, <1>5, <2>1, <2>2, SMTT(40)
    <2>6. Answering(s)'
        BY <1>1, <1>2, <1>3, <1>4, <1>5, <2>1, <2>2, SMTT(40)
    <2>7. GateHeld(s)' /\ RequestLock(s)' /\ HandlesRequest(s)' /\ CyclesAlive(s)'
        BY <1>1, <1>2, <1>3, <1>4, <1>5, <2>1, <2>2, SMTT(40)
    <2>8. Detached(s)' /\ ListedRightly(s)' /\ Recorded(s)'
        BY <1>1, <1>2, <1>3, <1>4, <1>5, <2>1, <2>2, SMTT(40)
    <2>9. Stage(s)'
        BY <1>1, <1>2, <1>3, <1>4, <1>5, <2>1, <2>2, SMTT(40)
    <2> QED
        BY <2>4, <2>5, <2>6, <2>7, <2>8, <2>9 DEF SlaveInv
<1> HIDE DEF ThrPcs, SlaveInv, Bounded, GateHeld, RestsUnlessSent, Detached,
             RequestLock, Answering, ListedRightly, HandlesRequest, Stage,
             CyclesAlive, Recorded, UnderWay, Talking, Chosen, Sent, Awake, Calm,
             Resting, Closed, ConnectSent, RequestSent, RequestFound, StartSent,
             Count, Typed, CommandInv, ConfiguratorRequests, startVars
<1> QED
    BY <1>6, <1>7, <1>8, <1>9, <1>10, <1>11
    DEF ConfiguratorProcess, UserOrTimer, NextCommand, AnswerPrompt

-----------------------------------------------------------------------------
(* The steps of the whole program keep Conversation: those of the signal   *)
(* thread of a slave,                                                      *)
LEMMA SignalThreadStep ==
    ASSUME LockInv, LockInv', Conversation, NEW s \in Slaves, SignalThread(s)
    PROVE  Conversation'
<1>1. /\ NoProcessLost /\ CommandInv /\ Answered /\ ~clash
      /\ \A t \in Slaves : SlaveInv(t)
    BY DEF Conversation
<1>2. UNCHANGED <<owned, is_connected, req_m_to_s, sem_m_to_s, request, affected, response,
                  alive, master_alive, configurator_alive, master_usr2,
                  configurator_usr2, cyc_pc, threshold, masterVars, configuratorVars>>
    BY DEF SignalThread, SignalHandlerThread, ctlVars, liveVars
<1>3. ASSUME NEW t \in Slaves, t # s
      PROVE  /\ res_s_to_m'[t] = res_s_to_m[t] /\ cycle_started'[t] = cycle_started[t]
             /\ sem_s_to_m'[t] = sem_s_to_m[t] /\ slave_usr1'[t] = slave_usr1[t]
             /\ sig_pc'[t] = sig_pc[t] /\ allow'[t] = allow[t] /\ shmseg'[t] = shmseg[t]
             /\ master_usr1' = t <=> master_usr1 = t
    <2>1. /\ res_s_to_m \in [Slaves -> Responses] /\ cycle_started \in [Slaves -> BOOLEAN]
          /\ sem_s_to_m \in [Slaves -> Nat] /\ slave_usr1 \in [Slaves -> BOOLEAN]
          /\ sig_pc \in [Slaves -> SigPcs] /\ allow \in [Slaves -> Nat]
          /\ shmseg \in [Slaves -> BOOLEAN] /\ t # NoPid
        BY ShmAssumption DEF LockInv, TypeInv, TypeOK, ShmTypeOK, SlaveTypeOK
    <2>2. CASE ReceiveSignal(s)
        BY <1>3, <2>1, <2>2
        DEF ReceiveSignal, SigGoto, responseVars, nameVars, gateVars
    <2>3. CASE CheckMasterResponse(s)
        BY <1>3, <2>1, <2>3
        DEF CheckMasterResponse, SigGoto, responseVars, nameVars, gateVars
    <2>4. CASE CheckMasterRequest(s)
        BY <1>3, <2>1, <2>4
        DEF CheckMasterRequest, SigGoto, responseVars, nameVars, gateVars
    <2>5. CASE HandleMasterResponse(s)
        BY <1>3, <2>1, <2>5
        DEF HandleMasterResponse, SigGoto, responseVars, nameVars, gateVars
    <2>6. CASE HandleConnectSlaveRequest(s)
        BY <1>3, <2>1, <2>6
        DEF HandleConnectSlaveRequest, SigGoto, Respond, KillMaster, gateVars
    <2>7. CASE HandleDisconnectSlaveRequest(s)
        BY <1>3, <2>1, <2>7
        DEF HandleDisconnectSlaveRequest, SigGoto, Respond, KillMaster, nameVars,
            gateVars
    <2>8. CASE ClearShmseg(s)
        BY <1>3, <2>1, <2>8
        DEF ClearShmseg, SigGoto, responseVars, nameVars, gateVars
    <2>9. CASE HandleChangeNameSlaveRequest(s)
        BY <1>3, <2>1, <2>9
        DEF HandleChangeNameSlaveRequest, SigGoto, Respond, KillMaster,
            responseVars, gateVars
    <2>10. CASE WriteNewName(s)
        BY <1>3, <2>1, <2>10
        DEF WriteNewName, SigGoto, Respond, KillMaster, gateVars
    <2>11. CASE HandleStartCycleSlaveRequest(s)
        BY <1>3, <2>1, <2>11
        DEF HandleStartCycleSlaveRequest, SigGoto, Respond, KillMaster,
            responseVars, nameVars, gateVars
    <2>12. CASE AckStartCycle(s)
        BY <1>3, <2>1, <2>12
        DEF AckStartCycle, SigGoto, Respond, KillMaster, nameVars, gateVars
    <2>13. CASE HandleStopCycleSlaveRequest(s)
        BY <1>3, <2>1, <2>13
        DEF HandleStopCycleSlaveRequest, SigGoto, Respond, KillMaster, responseVars,
            nameVars
    <2>14. CASE CloseGate(s)
        BY <1>3, <2>1, <2>14 DEF CloseGate, SigGoto, Respond, KillMaster, nameVars
    <2>15. CASE HandleUnrecognizedRequest(s)
        BY <1>3, <2>1, <2>15
        DEF HandleUnrecognizedRequest, SigGoto, Respond, KillMaster, nameVars,
            gateVars
    <2> QED
        BY <2>2, <2>3, <2>4, <2>5, <2>6, <2>7, <2>8, <2>9, <2>10, <2>11, <2>12,
           <2>13, <2>14, <2>15
        DEF SignalThread, SignalHandlerThread
<1>4. ASSUME NEW t \in Slaves PROVE SlaveInv(t)'
    <2>1. CASE t = s
        BY <1>1, <2>1, SignalThreadHere
    <2>2. CASE t # s
        <3>1. SameAt(t) /\ SameTalk /\ (master_usr1' = t <=> master_usr1 = t)
            BY <1>2, <1>3, <2>2 DEF SameAt, SameTalk, masterVars, startVars,
                configuratorVars
        <3> QED
            BY <1>1, <3>1, Elsewhere
    <2> QED
        BY <2>1, <2>2
<1>5. CommandInv' /\ NoProcessLost' /\ ~clash'
    BY <1>1, <1>2
    DEF CommandInv, NoProcessLost, Stuck, Talking, masterVars, startVars,
        configuratorVars
<1>6. Answered'
    <2> SUFFICES ASSUME configurator_usr2
                 PROVE  cycle_started'[affected] = cycle_started[affected]
        BY <1>1, <1>2 DEF Answered
    <2>1. cfg_pc = "wait" /\ affected \in Slaves
        BY <1>1 DEF CommandInv, LockInv, TypeInv, Targets
    <2>2. CASE affected # s
        BY <1>3, <2>1, <2>2
    <2>3. CASE affected = s
        <3>1. Resting(s) /\ ~Sent(s)
            BY <1>1 DEF SlaveInv, RestsUnlessSent, Sent
        <3>2. alive[s] => sig_pc[s] \in {"sigwait", "first", "response", "detach"}
            BY <3>1 DEF Resting
        <3>3. CASE ReceiveSignal(s)
            BY <2>3, <3>2, <3>3
            DEF ReceiveSignal, SigGoto, responseVars, nameVars, gateVars
        <3>4. CASE CheckMasterResponse(s)
            BY <2>3, <3>2, <3>4
            DEF CheckMasterResponse, SigGoto, responseVars, nameVars, gateVars
        <3>5. CASE CheckMasterRequest(s)
            BY <2>3, <3>2, <3>5
            DEF CheckMasterRequest, SigGoto, responseVars, nameVars, gateVars
        <3>6. CASE HandleMasterResponse(s)
            BY <2>3, <3>2, <3>6
            DEF HandleMasterResponse, SigGoto, responseVars, nameVars, gateVars
        <3>7. CASE HandleConnectSlaveRequest(s)
            BY <2>3, <3>2, <3>7 DEF HandleConnectSlaveRequest, SigGoto, gateVars
        <3>8. CASE HandleDisconnectSlaveRequest(s)
            BY <2>3, <3>2, <3>8
            DEF HandleDisconnectSlaveRequest, SigGoto, nameVars, gateVars
        <3>9. CASE ClearShmseg(s)
            BY <2>3, <3>2, <3>9
            DEF ClearShmseg, SigGoto, responseVars, nameVars, gateVars
        <3>10. CASE HandleChangeNameSlaveRequest(s)
            BY <2>3, <3>2, <3>10
            DEF HandleChangeNameSlaveRequest, SigGoto, responseVars, gateVars
        <3>11. CASE WriteNewName(s)
            BY <2>3, <3>2, <3>11 DEF WriteNewName, SigGoto, gateVars
        <3>12. CASE HandleStartCycleSlaveRequest(s)
            BY <2>3, <3>2, <3>12
            DEF HandleStartCycleSlaveRequest, SigGoto, responseVars, nameVars,
                gateVars
        <3>13. CASE AckStartCycle(s)
            BY <2>3, <3>2, <3>13 DEF AckStartCycle, SigGoto, nameVars, gateVars
        <3>14. CASE HandleStopCycleSlaveRequest(s)
            BY <2>3, <3>2, <3>14
            DEF HandleStopCycleSlaveRequest, SigGoto, responseVars, nameVars
        <3>15. CASE CloseGate(s)
            BY <2>3, <3>2, <3>15 DEF CloseGate, SigGoto, nameVars
        <3>16. CASE HandleUnrecognizedRequest(s)
            BY <2>3, <3>2, <3>16
            DEF HandleUnrecognizedRequest, SigGoto, nameVars, gateVars
        <3> QED
            BY <3>3, <3>4, <3>5, <3>6, <3>7, <3>8, <3>9, <3>10, <3>11, <3>12, <3>13,
               <3>14, <3>15, <3>16
            DEF SignalThread, SignalHandlerThread
    <2> QED
        BY <2>2, <2>3
<1> QED
    BY <1>4, <1>5, <1>6 DEF Conversation

(* of its communication cycle,                                             *)
LEMMA CycleThreadStep ==
    ASSUME LockInv, LockInv', Prompt, Segments > 0, Conversation, NEW s \in Slaves,
           CycleThread(s)
    PROVE  Conversation'
<1>1. /\ NoProcessLost /\ CommandInv /\ Answered /\ ~clash
      /\ \A t \in Slaves : SlaveInv(t)
    BY DEF Conversation
<1>2. UNCHANGED <<owned, is_connected, req_m_to_s, res_s_to_m, cycle_started, sem_m_to_s,
                  request, affected, response, master_alive, configurator_alive,
                  slave_usr1, master_usr2, configurator_usr2, sig_pc, shmseg,
                  masterVars,
                  configuratorVars>>
    BY DEF CycleThread, CommunicationCycleThread, ctlVars, CycleAtGate,
           SampleParameters, TryLockRequest, CheckGate,
           SendMasterSignalMasterParameterRequest, DereferenceNull
<1>3. ASSUME NEW t \in Slaves, t # s
      PROVE  /\ sem_s_to_m'[t] = sem_s_to_m[t] /\ alive'[t] = alive[t]
             /\ cyc_pc'[t] = cyc_pc[t] /\ threshold'[t] = threshold[t]
             /\ allow'[t] = allow[t] /\ (master_usr1' = t <=> master_usr1 = t)
    <2>1. /\ sem_s_to_m \in [Slaves -> Nat] /\ alive \in [Slaves -> BOOLEAN]
          /\ cyc_pc \in [Slaves -> CycPcs] /\ threshold \in [Slaves -> 0 .. Segments]
          /\ allow \in [Slaves -> Nat] /\ t # NoPid
        BY ShmAssumption DEF LockInv, TypeInv, TypeOK, ShmTypeOK, SlaveTypeOK
    <2>2. CASE CycleAtGate(s)
        BY <1>3, <2>1, <2>2 DEF CycleAtGate, CycGoto
    <2>3. CASE SampleParameters(s)
        BY <1>3, <2>1, <2>3 DEF SampleParameters, CycGoto
    <2>4. CASE TryLockRequest(s)
        BY <1>3, <2>1, <2>4 DEF TryLockRequest, CycGoto
    <2>5. CASE CheckGate(s)
        BY <1>3, <2>1, <2>5 DEF CheckGate, CycGoto
    <2>6. CASE SendMasterSignalMasterParameterRequest(s)
        BY <1>3, <2>1, <2>6
        DEF SendMasterSignalMasterParameterRequest, CycGoto, KillMaster
    <2>7. CASE DereferenceNull(s)
        BY <1>3, <2>1, <2>7 DEF DereferenceNull
    <2> QED
        BY <2>2, <2>3, <2>4, <2>5, <2>6, <2>7
        DEF CycleThread, CommunicationCycleThread
<1>4. ASSUME NEW t \in Slaves PROVE SlaveInv(t)'
    <2>1. CASE t = s
        BY <1>1, <2>1, CycleThreadHere DEF NoProcessLost
    <2>2. CASE t # s
        <3>1. SameAt(t) /\ SameTalk /\ (master_usr1' = t <=> master_usr1 = t)
            BY <1>2, <1>3, <2>2 DEF SameAt, SameTalk, masterVars, startVars,
                configuratorVars
        <3> QED
            BY <1>1, <3>1, Elsewhere
    <2> QED
        BY <2>1, <2>2
<1>5. CommandInv' /\ Answered' /\ NoProcessLost' /\ ~clash'
    BY <1>1, <1>2
    DEF CommandInv, Answered, NoProcessLost, Stuck, Talking, masterVars, startVars,
        configuratorVars
<1> QED
    BY <1>4, <1>5 DEF Conversation

(* of the thread of the master that serves it,                             *)
LEMMA ProcessorThreadStep ==
    ASSUME LockInv, LockInv', Conversation, NEW s \in Slaves,
           Stale \subseteq {"nobody"}, ProcessorThread(s)
    PROVE  Conversation'
<1>1. /\ NoProcessLost /\ CommandInv /\ Answered /\ ~clash
      /\ \A t \in Slaves : SlaveInv(t)
    BY DEF Conversation
<1>2. UNCHANGED <<request, affected, alive, master_alive, configurator_alive, master_usr1,
                  master_usr2, sync_pc, sync_req, sync_slave, slaveVars, configuratorVars>>
    BY ThreadOfSlave DEF ProcessorThread, SlaveProcessorThread, liveVars
<1>3. ~ServeTwice(s)
    BY <1>1, NotServedTwice
<1>4. /\ owned \in [Slaves -> BOOLEAN] /\ is_connected \in [Slaves -> BOOLEAN]
      /\ req_m_to_s \in [Slaves -> LinkRequests] /\ res_s_to_m \in [Slaves -> Responses]
      /\ cycle_started \in [Slaves -> BOOLEAN]
      /\ sem_m_to_s \in [Slaves -> Nat] /\ sem_s_to_m \in [Slaves -> Nat]
      /\ slave_usr1 \in [Slaves -> BOOLEAN] /\ sig_semaphore \in [Slaves -> Nat]
      /\ spawned \in [Slaves -> Nat] /\ assigning \in [Slaves -> Nat]
      /\ thr_pc \in [Slaves -> ThrPcs]
    BY DEF LockInv, TypeInv, TypeOK, ShmTypeOK, MasterTypeOK
<1>5. ~clash'
    BY <1>3, ThreadOfSlave
    DEF Conversation, SlaveProcessorThread, startVars, SearchSegment,
        WriteSegmentPid,
        LoseConnect, LockOwnRequest, SendConnectSlaveRequest,
        SendChangeNameSlaveRequest, ProcessSignal, CheckSlaveResponse,
        HandleSlaveRequest, ForwardResponse, FinishDisconnect, RefuseConnect,
        AskForNewName, FinishConnect, IgnoreResponse
<1>6. ASSUME NEW t \in Slaves, t # s
      PROVE  /\ owned'[t] = owned[t] /\ is_connected'[t] = is_connected[t]
             /\ req_m_to_s'[t] = req_m_to_s[t] /\ res_s_to_m'[t] = res_s_to_m[t]
             /\ cycle_started'[t] = cycle_started[t] /\ sem_m_to_s'[t] = sem_m_to_s[t]
             /\ sem_s_to_m'[t] = sem_s_to_m[t] /\ slave_usr1'[t] = slave_usr1[t]
             /\ sig_semaphore'[t] = sig_semaphore[t] /\ thr_pc'[t] = thr_pc[t]
             /\ spawned'[t] = spawned[t] /\ assigning'[t] = assigning[t]
    <2>1. CASE WriteSegmentPid(s)
        BY <1>4, <1>6, <2>1 DEF WriteSegmentPid, ThrGoto, resetVars, startVars
    <2>14. CASE SearchSegment(s)
        BY <1>4, <1>6, <2>14, ThreadOfSlave DEF SearchSegment, resetVars, startVars
    <2>15. CASE LoseConnect(s)
        BY <1>4, <1>6, <2>15 DEF LoseConnect, resetVars, startVars
    <2>2. CASE LockOwnRequest(s)
        BY <1>4, <1>6, <2>2 DEF LockOwnRequest, ThrGoto, resetVars, startVars
    <2>3. CASE SendConnectSlaveRequest(s)
        BY <1>4, <1>6, <2>3
        DEF SendConnectSlaveRequest, ThrGoto, KillSlave, resetVars, startVars
    <2>4. CASE SendChangeNameSlaveRequest(s)
        BY <1>4, <1>6, <2>4
        DEF SendChangeNameSlaveRequest, ThrGoto, KillSlave, resetVars, startVars
    <2>5. CASE ProcessSignal(s)
        BY <1>4, <1>6, <2>5 DEF ProcessSignal, ThrGoto, resetVars, startVars
    <2>6. CASE CheckSlaveResponse(s)
        BY <1>4, <1>6, <2>6 DEF CheckSlaveResponse, ThrGoto, resetVars, startVars
    <2>7. CASE HandleSlaveRequest(s)
        BY <1>4, <1>6, <2>7 DEF HandleSlaveRequest, ThrGoto, KillSlave,
            resetVars, startVars
    <2>8. CASE ForwardResponse(s)
        BY <1>4, <1>6, <2>8 DEF ForwardResponse, ThrGoto, PostRequest, resetVars,
            startVars
    <2>9. CASE FinishDisconnect(s)
        BY <1>4, <1>6, <2>9 DEF FinishDisconnect, ThrGoto, startVars,
            ResetSemaphores
    <2>10. CASE RefuseConnect(s)
        BY <1>4, <1>6, <2>10 DEF RefuseConnect, ThrGoto, PostRequest, resetVars,
            startVars
    <2>11. CASE AskForNewName(s)
        BY <1>4, <1>6, <2>11 DEF AskForNewName, ThrGoto, PostRequest, resetVars,
            startVars
    <2>12. CASE FinishConnect(s)
        BY <1>4, <1>6, <2>12 DEF FinishConnect, ThrGoto, PostRequest, resetVars,
            startVars
    <2>13. CASE IgnoreResponse(s)
        BY <1>4, <1>6, <2>13 DEF IgnoreResponse, ThrGoto, PostRequest, resetVars,
            startVars
    <2> QED
        BY <2>1, <2>2, <2>3, <2>4, <2>5, <2>6, <2>7, <2>8, <2>9, <2>10, <2>11,
           <2>12, <2>13, <2>14, <2>15, <1>3, ThreadOfSlave
        DEF SlaveProcessorThread
<1>7. CASE thr_pc[s] # "response"
    <2>1. /\ UNCHANGED <<is_connected, cycle_started, response, configurator_usr2>>
          /\ \/ UNCHANGED sem_m_to_s
             \/ /\ sem_m_to_s[s] > 0
                /\ sem_m_to_s' = [sem_m_to_s EXCEPT ![s] = @ - 1]
        <3>1. CASE WriteSegmentPid(s)
            BY <1>7, <3>1 DEF WriteSegmentPid, ThrGoto, resetVars, startVars,
                answerVars
        <3>14. CASE SearchSegment(s)
            BY <1>7, <3>14 DEF SearchSegment, resetVars, startVars, answerVars
        <3>15. CASE LoseConnect(s)
            BY <1>7, <3>15 DEF LoseConnect, resetVars, startVars, answerVars
        <3>2. CASE LockOwnRequest(s)
            BY <1>7, <3>2 DEF LockOwnRequest, ThrGoto, resetVars, startVars,
                answerVars
        <3>3. CASE SendConnectSlaveRequest(s)
            BY <1>7, <3>3
            DEF SendConnectSlaveRequest, ThrGoto, resetVars, startVars, answerVars
        <3>4. CASE SendChangeNameSlaveRequest(s)
            BY <1>7, <3>4
            DEF SendChangeNameSlaveRequest, ThrGoto, resetVars, startVars,
                answerVars
        <3>5. CASE ProcessSignal(s)
            BY <1>7, <3>5 DEF ProcessSignal, ThrGoto, resetVars, startVars,
                answerVars
        <3>6. CASE CheckSlaveResponse(s)
            BY <1>7, <3>6 DEF CheckSlaveResponse, ThrGoto, resetVars, startVars,
                answerVars
        <3>7. CASE HandleSlaveRequest(s)
            BY <1>7, <3>7 DEF HandleSlaveRequest, ThrGoto, resetVars, startVars,
                answerVars
        <3>8. CASE ForwardResponse(s)
            BY <1>7, <3>8 DEF ForwardResponse, ThrGoto, resetVars, startVars
        <3>9. CASE FinishDisconnect(s)
            BY <1>7, <3>9 DEF FinishDisconnect, ThrGoto, startVars
        <3>10. CASE RefuseConnect(s)
            BY <1>7, <3>10 DEF RefuseConnect, ThrGoto, resetVars, startVars
        <3>11. CASE AskForNewName(s)
            BY <1>7, <3>11 DEF AskForNewName, ThrGoto, resetVars, startVars,
                answerVars
        <3>12. CASE FinishConnect(s)
            BY <1>7, <3>12 DEF FinishConnect, ThrGoto, resetVars, startVars
        <3>13. CASE IgnoreResponse(s)
            BY <1>7, <3>13 DEF IgnoreResponse, ThrGoto, resetVars, startVars,
                answerVars
        <3> QED
            BY <3>1, <3>2, <3>3, <3>4, <3>5, <3>6, <3>7, <3>8, <3>9, <3>10, <3>11,
               <3>12, <3>13, <3>14, <3>15, <1>3, ThreadOfSlave
            DEF SlaveProcessorThread
    <2>2. sem_m_to_s[s] <= 1
        BY DEF LockInv, LinkLockBinary
    <2>3. ASSUME NEW t \in Slaves, sem_m_to_s[t] = 0 PROVE sem_m_to_s'[t] = 0
        BY <1>4, <2>1, <2>3
    <2>4. sync_pc # "sigwait" => sync_slave \in Slaves
        BY DEF LockInv, TypeInv, Targets
    <2>5. CommandInv'
        BY <1>1, <1>2, <1>4, <2>1, <2>2, <2>3, <2>4
        DEF CommandInv, Stuck, Talking, configuratorVars
    <2>6. Answered'
        BY <1>1, <1>2, <2>1 DEF Answered
    <2>7. ASSUME NEW t \in Slaves, t # s PROVE SlaveInv(t)'
        <3>1. SameAt(t) /\ SameTalk /\ (master_usr1' = t <=> master_usr1 = t)
            BY <1>2, <1>6, <2>1, <2>7
            DEF SameAt, SameTalk, slaveVars, configuratorVars
        <3> QED
            BY <1>1, <2>7, <3>1, Elsewhere
    <2>8. SlaveInv(s)'
        BY <1>1, <1>3, ProcessorThreadHere
    <2> QED
        BY <1>1, <1>2, <1>5, <2>5, <2>6, <2>7, <2>8 DEF Conversation, NoProcessLost
<1>8. CASE thr_pc[s] = "response"
    <2>1. /\ cfg_pc = "wait" /\ affected = s /\ ~configurator_usr2
          /\ ~master_usr2 /\ sync_pc = "sigwait"
        BY <1>1, <1>8, ResponseHandled DEF Sent, Talking
    <2>2. /\ request = "CONNECT_SLAVE" => ~is_connected[s]
          /\ request # "CONNECT_SLAVE" => is_connected[s] /\ req_m_to_s[s] = request
          /\ request = "START_SLAVE_CYCLE" => cycle_started[s] /\ res_s_to_m[s] = "ACK"
          /\ request \notin {"DELETE_SLAVE", "OTHER"}
        BY <1>1, <1>8, CommandAnswered
    <2>3. CommandInv'
        BY <1>1, <1>2, <2>1 DEF CommandInv, configuratorVars
    <2>4. configurator_usr2' =>
             /\ request = "CONNECT_SLAVE" => (response' = "ACK" <=> is_connected'[s])
             /\ request = "DISCONNECT_SLAVE"
                    => (response' = "ACK" <=> ~is_connected'[s])
             /\ request = "START_SLAVE_CYCLE"
                    => (response' = "ACK" <=> cycle_started'[s])
        <3>1. CASE WriteSegmentPid(s)
            BY <1>4, <1>8, <2>1, <2>2, <3>1
            DEF WriteSegmentPid, ThrGoto, resetVars, startVars, answerVars
        <3>14. CASE SearchSegment(s)
            BY <1>4, <1>8, <2>1, <2>2, <3>14 DEF SearchSegment, resetVars,
                startVars, answerVars
        <3>15. CASE LoseConnect(s)
            BY <1>4, <1>8, <2>1, <2>2, <3>15 DEF LoseConnect, resetVars,
                startVars, answerVars
        <3>2. CASE LockOwnRequest(s)
            BY <1>4, <1>8, <2>1, <2>2, <3>2
            DEF LockOwnRequest, ThrGoto, resetVars, startVars, answerVars
        <3>3. CASE SendConnectSlaveRequest(s)
            BY <1>4, <1>8, <2>1, <2>2, <3>3
            DEF SendConnectSlaveRequest, ThrGoto, resetVars, startVars, answerVars
        <3>4. CASE SendChangeNameSlaveRequest(s)
            BY <1>4, <1>8, <2>1, <2>2, <3>4
            DEF SendChangeNameSlaveRequest, ThrGoto, resetVars, startVars,
                answerVars
        <3>5. CASE ProcessSignal(s)
            BY <1>4, <1>8, <2>1, <2>2, <3>5
            DEF ProcessSignal, ThrGoto, resetVars, startVars, answerVars
        <3>6. CASE CheckSlaveResponse(s)
            BY <1>4, <1>8, <2>1, <2>2, <3>6
            DEF CheckSlaveResponse, ThrGoto, resetVars, startVars, answerVars
        <3>7. CASE HandleSlaveRequest(s)
            BY <1>4, <1>8, <2>1, <2>2, <3>7
            DEF HandleSlaveRequest, ThrGoto, resetVars, startVars, answerVars
        <3>8. CASE ForwardResponse(s)
            BY <1>4, <1>8, <2>1, <2>2, <3>8
            DEF ForwardResponse, ThrGoto, resetVars, startVars, AnswerConfigurator
        <3>9. CASE FinishDisconnect(s)
            BY <1>4, <1>8, <2>1, <2>2, <3>9
            DEF FinishDisconnect, ThrGoto, startVars, AnswerConfigurator
        <3>10. CASE RefuseConnect(s)
            BY <1>4, <1>8, <2>1, <2>2, <3>10
            DEF RefuseConnect, ThrGoto, Connecting, resetVars, startVars,
                AnswerConfigurator
        <3>11. CASE AskForNewName(s)
            BY <1>4, <1>8, <2>1, <2>2, <3>11
            DEF AskForNewName, ThrGoto, Connecting, resetVars, startVars, answerVars
        <3>12. CASE FinishConnect(s)
            BY <1>4, <1>8, <2>1, <2>2, <3>12
            DEF FinishConnect, ThrGoto, Connecting, resetVars, startVars,
                AnswerConfigurator
        <3>13. CASE IgnoreResponse(s)
            BY <1>4, <1>8, <2>1, <2>2, <3>13
            DEF IgnoreResponse, ThrGoto, Connecting, resetVars, startVars,
                answerVars
        <3> QED
            BY <3>1, <3>2, <3>3, <3>4, <3>5, <3>6, <3>7, <3>8, <3>9, <3>10, <3>11,
               <3>12, <3>13, <3>14, <3>15, <1>3, ThreadOfSlave
            DEF SlaveProcessorThread
    <2>5. Answered'
        BY <1>2, <2>1, <2>4 DEF Answered
    <2>6. ASSUME NEW t \in Slaves, t # s PROVE SlaveInv(t)'
        <3>1. SameAt(t)
            BY <1>2, <1>6, <2>6 DEF SameAt, slaveVars, configuratorVars
        <3> QED
            BY <1>1, <1>2, <2>1, <2>6, <3>1, ElsewhereTalking DEF configuratorVars
    <2>7. SlaveInv(s)'
        BY <1>1, <1>3, ProcessorThreadHere
    <2> QED
        BY <1>1, <1>2, <1>5, <2>3, <2>5, <2>6, <2>7 DEF Conversation, NoProcessLost
<1> QED
    BY <1>7, <1>8

(* of the handler that counts the signals,                                 *)
LEMMA AsyncThreadStep ==
    ASSUME LockInv, LockInv', Conversation, AsyncThread
    PROVE  Conversation'
<1>1. /\ NoProcessLost /\ CommandInv /\ Answered /\ ~clash
      /\ \A t \in Slaves : SlaveInv(t)
    BY DEF Conversation
<1>2. UNCHANGED <<segVars, ctlVars, liveVars, slave_usr1, master_usr2, configurator_usr2,
                  spawned, assigning, clash, thr_pc, sync_pc, sync_req, sync_slave,
                  slaveVars, configuratorVars>>
    BY DEF AsyncThread, AsyncSignalHandler, startVars
<1>3. ASSUME NEW t \in Slaves, t # master_usr1
      PROVE  sig_semaphore'[t] = sig_semaphore[t] /\ master_usr1' # t
    <2>1. sig_semaphore \in [Slaves -> Nat] /\ t # NoPid
        BY ShmAssumption DEF LockInv, TypeInv, TypeOK, MasterTypeOK
    <2> QED
        BY <1>3, <2>1 DEF AsyncThread, AsyncSignalHandler
<1>4. ASSUME NEW t \in Slaves PROVE SlaveInv(t)'
    <2>1. CASE t = master_usr1
        BY <1>1, <2>1, AsyncThreadHere
    <2>2. CASE t # master_usr1
        <3>1. SameAt(t) /\ SameTalk
            BY <1>2, <1>3, <2>2
            DEF SameAt, SameTalk, segVars, ctlVars, liveVars, slaveVars,
                configuratorVars
        <3> QED
            BY <1>1, <1>3, <2>2, <3>1, Elsewhere
    <2> QED
        BY <2>1, <2>2
<1>5. CommandInv' /\ Answered' /\ NoProcessLost' /\ ~clash'
    BY <1>1, <1>2
    DEF CommandInv, Answered, NoProcessLost, Stuck, Talking, segVars, ctlVars,
        liveVars, configuratorVars
<1> QED
    BY <1>4, <1>5 DEF Conversation

(* of the thread that takes the commands,                                  *)
LEMMA SyncThreadStep ==
    ASSUME LockInv, LockInv', Conversation, SyncThread
    PROVE  Conversation'
<1>1. /\ NoProcessLost /\ CommandInv /\ Answered /\ ~clash
      /\ \A t \in Slaves : SlaveInv(t)
    BY DEF Conversation
<1>2. /\ UNCHANGED <<owned, is_connected, res_s_to_m, cycle_started, sem_s_to_m, request,
                     affected, alive, master_usr1, sig_semaphore, assigning, clash,
                     thr_pc, slaveVars, configuratorVars>>
    BY DEF SyncThread, SyncSignalHandlerThread, liveVars,
           HandleConfiguratorConnectSlaveRequest,
           HandleConfiguratorCycleSlaveRequest,
           HandleConfiguratorDisconnectSlaveRequest, HandleUnknownCommand,
           LockRequest, SendRequest
<1>3. /\ affected \in Slaves /\ cfg_pc = "wait" /\ ~configurator_usr2
      /\ sync_pc = "sigwait" \/ (sync_slave = affected /\ sync_req = request)
    BY <1>1, SyncThreadTalks
<1>4. /\ sem_m_to_s \in [Slaves -> Nat] /\ spawned \in [Slaves -> Nat]
      /\ req_m_to_s \in [Slaves -> LinkRequests] /\ slave_usr1 \in [Slaves -> BOOLEAN]
      /\ sync_pc \in {"sigwait", "lock", "send"}
      /\ sem_m_to_s[affected] \in Nat /\ sem_m_to_s[affected] <= 1
      /\ is_connected[affected] => owned[affected]
    BY <1>3
    DEF LockInv, TypeInv, TypeOK, ShmTypeOK, MasterTypeOK, SyncPcs, Served,
        LinkLockBinary
<1>5. sync_pc = "send" => is_connected[affected]
    BY <1>1, <1>3 DEF CommandInv
<1>6. /\ request \in {"DISCONNECT_SLAVE", "START_SLAVE_CYCLE", "STOP_SLAVE_CYCLE"}
            => is_connected[affected]
      /\ request = "START_SLAVE_CYCLE" /\ sync_pc = "sigwait" /\ master_usr2
            => ~cycle_started[affected]
    BY <1>1, <1>3 DEF SlaveInv, ListedRightly, Chosen, Talking, Calm, Sent
<1>7. ASSUME NEW t \in Slaves, t # affected
      PROVE  /\ sem_m_to_s'[t] = sem_m_to_s[t] /\ spawned'[t] = spawned[t]
             /\ req_m_to_s'[t] = req_m_to_s[t] /\ slave_usr1'[t] = slave_usr1[t]
             /\ ~(sync_pc = "send" /\ sync_slave = t)
             /\ ~(sync_pc = "send" /\ sync_slave = t)'
    <2>1. CASE HandleConfiguratorConnectSlaveRequest
        BY <1>3, <1>4, <1>5, <1>6, <1>7, <2>1
        DEF HandleConfiguratorConnectSlaveRequest, TakeCommand, CommandPending
    <2>2. CASE HandleConfiguratorCycleSlaveRequest
        BY <1>3, <1>4, <1>5, <1>6, <1>7, <2>2
        DEF HandleConfiguratorCycleSlaveRequest, TakeCommand, CommandPending
    <2>3. CASE HandleConfiguratorDisconnectSlaveRequest
        BY <1>3, <1>4, <1>5, <1>6, <1>7, <2>3
        DEF HandleConfiguratorDisconnectSlaveRequest, TakeCommand, CommandPending
    <2>4. CASE HandleUnknownCommand
        BY <1>3, <1>4, <1>5, <1>6, <1>7, <2>4
        DEF HandleUnknownCommand, TakeCommand, CommandPending
    <2>5. CASE LockRequest
        BY <1>3, <1>4, <1>5, <1>6, <1>7, <2>5 DEF LockRequest
    <2>6. CASE SendRequest
        BY <1>3, <1>4, <1>5, <1>6, <1>7, <2>6 DEF SendRequest, KillSlave
    <2> QED
        BY <2>1, <2>2, <2>3, <2>4, <2>5, <2>6
        DEF SyncThread, SyncSignalHandlerThread
<1>8. ASSUME NEW t \in Slaves PROVE SlaveInv(t)'
    <2>1. CASE t = affected
        BY <1>1, <2>1, SyncThreadHere
    <2>2. CASE t # affected
        <3>1. SameAt(t)
            BY <1>2, <1>7, <2>2 DEF SameAt, slaveVars, configuratorVars
        <3> QED
            BY <1>1, <1>2, <1>3, <1>7, <2>2, <3>1, ElsewhereTalking
            DEF configuratorVars
    <2> QED
        BY <2>1, <2>2
<1>9. CommandInv'
    <2>1. CASE HandleConfiguratorConnectSlaveRequest
        BY <1>1, <1>2, <1>3, <1>4, <1>6, <2>1
        DEF HandleConfiguratorConnectSlaveRequest, CommandInv, Stuck, Talking,
            TakeCommand, CommandPending, configuratorVars
    <2>2. CASE HandleConfiguratorCycleSlaveRequest
        BY <1>1, <1>2, <1>3, <1>4, <1>6, <2>2
        DEF HandleConfiguratorCycleSlaveRequest, CommandInv, Stuck, Talking,
            TakeCommand, CommandPending, AnswerConfigurator, KillConfigurator,
            configuratorVars
    <2>3. CASE HandleConfiguratorDisconnectSlaveRequest
        BY <1>1, <1>2, <1>3, <1>4, <1>6, <2>3
        DEF HandleConfiguratorDisconnectSlaveRequest, CommandInv, Stuck, Talking,
            TakeCommand, CommandPending, configuratorVars
    <2>4. CASE HandleUnknownCommand
        BY <1>1, <1>2, <1>3, <1>4, <1>6, <2>4
        DEF HandleUnknownCommand, CommandInv, Stuck, Talking, TakeCommand,
            CommandPending, configuratorVars
    <2>5. CASE LockRequest
        BY <1>1, <1>2, <1>3, <1>4, <1>6, <2>5
        DEF LockRequest, CommandInv, Stuck, Talking, configuratorVars
    <2>6. CASE SendRequest
        BY <1>1, <1>2, <1>3, <1>4, <1>6, <2>6
        DEF SendRequest, CommandInv, Stuck, Talking, KillSlave, configuratorVars
    <2> QED
        BY <2>1, <2>2, <2>3, <2>4, <2>5, <2>6
        DEF SyncThread, SyncSignalHandlerThread
<1>10. Answered'
    <2>1. CASE HandleConfiguratorConnectSlaveRequest
        BY <1>1, <1>2, <1>3, <1>4, <1>6, <2>1
        DEF HandleConfiguratorConnectSlaveRequest, Answered, TakeCommand,
            CommandPending
    <2>2. CASE HandleConfiguratorCycleSlaveRequest
        BY <1>1, <1>2, <1>3, <1>4, <1>6, <2>2
        DEF HandleConfiguratorCycleSlaveRequest, Answered, TakeCommand,
            CommandPending, AnswerConfigurator
    <2>3. CASE HandleConfiguratorDisconnectSlaveRequest
        BY <1>1, <1>2, <1>3, <1>4, <1>6, <2>3
        DEF HandleConfiguratorDisconnectSlaveRequest, Answered, TakeCommand,
            CommandPending
    <2>4. CASE HandleUnknownCommand
        BY <1>1, <1>2, <1>3, <1>4, <1>6, <2>4
        DEF HandleUnknownCommand, Answered, TakeCommand, CommandPending
    <2>5. CASE LockRequest
        BY <1>1, <1>2, <1>3, <1>4, <1>6, <2>5 DEF LockRequest, Answered
    <2>6. CASE SendRequest
        BY <1>1, <1>2, <1>3, <1>4, <1>6, <2>6 DEF SendRequest, Answered
    <2> QED
        BY <2>1, <2>2, <2>3, <2>4, <2>5, <2>6
        DEF SyncThread, SyncSignalHandlerThread
<1>11. NoProcessLost'
    <2>1. CASE HandleConfiguratorConnectSlaveRequest
        BY <1>1, <1>3, <1>4, <1>5, <1>6, <2>1
        DEF HandleConfiguratorConnectSlaveRequest, NoProcessLost, liveVars
    <2>2. CASE HandleConfiguratorCycleSlaveRequest
        BY <1>1, <1>3, <1>4, <1>5, <1>6, <2>2
        DEF HandleConfiguratorCycleSlaveRequest, NoProcessLost, liveVars
    <2>3. CASE HandleConfiguratorDisconnectSlaveRequest
        BY <1>1, <1>3, <1>4, <1>5, <1>6, <2>3
        DEF HandleConfiguratorDisconnectSlaveRequest, NoProcessLost, liveVars
    <2>4. CASE HandleUnknownCommand
        BY <1>1, <1>3, <1>4, <1>5, <1>6, <2>4
        DEF HandleUnknownCommand, NoProcessLost, liveVars
    <2>5. CASE LockRequest
        BY <1>1, <1>3, <1>4, <1>5, <1>6, <2>5
        DEF LockRequest, NoProcessLost, liveVars
    <2>6. CASE SendRequest
        BY <1>1, <1>3, <1>4, <1>5, <1>6, <2>6
        DEF SendRequest, NoProcessLost, liveVars
    <2> QED
        BY <2>1, <2>2, <2>3, <2>4, <2>5, <2>6
        DEF SyncThread, SyncSignalHandlerThread
<1> QED
    BY <1>1, <1>2, <1>8, <1>9, <1>10, <1>11 DEF Conversation

(* and of the configurator.                                                *)
LEMMA ConfiguratorStep ==
    ASSUME LockInv, LockInv', Prompt, Conversation, ConfiguratorProcess
    PROVE  Conversation'
<1>1. /\ NoProcessLost /\ CommandInv /\ Answered /\ ~clash
      /\ \A t \in Slaves : SlaveInv(t)
    BY DEF Conversation
<1>2. UNCHANGED <<owned, is_connected, cycle_started, sem_m_to_s, response, master_alive,
                  clash, sync_pc, sync_req, sync_slave>>
    BY DEF ConfiguratorProcess, UserOrTimer, NextCommand, AnswerPrompt, ReadReqCode,
           AbandonCommand, SendCommand, DeleteSlave, ReceiveResponse, WaitTimeout,
           masterVars, startVars, segVars, killVars, liveVars, ctlVars, shmVars
<1>3. \A t \in Slaves : SlaveInv(t)'
    BY <1>1, ConfiguratorHere
<1>4. CASE NextCommand
    <2>1. PICK r \in Commands : ReadReqCode(r)
        BY <1>4 DEF NextCommand
    <2>2. CommandInv' /\ Answered' /\ NoProcessLost'
        BY <1>1, <1>2, <2>1
        DEF CommandInv, Answered, NoProcessLost, Stuck, Talking, ReadReqCode,
            Listed, killVars, liveVars
    <2> QED
        BY <1>1, <1>2, <1>3, <2>2 DEF Conversation
<1>5. CASE AbandonCommand
    <2>1. CommandInv' /\ Answered' /\ NoProcessLost'
        BY <1>1, <1>2, <1>5
        DEF CommandInv, Answered, NoProcessLost, Stuck, Talking, AbandonCommand,
            shmVars, ctlVars, killVars, liveVars
    <2> QED
        BY <1>1, <1>2, <1>3, <2>1 DEF Conversation
<1>6. ASSUME NEW q \in Slaves, SendCommand(q) PROVE Conversation'
    <2>1. request = "START_SLAVE_CYCLE" => owned[q]
        BY <1>1, <1>6
        DEF SendCommand, SlaveInv, ListedRightly, Chosen, CommandInv, LockInv,
            Served
    <2>2. /\ cfg_pc = "pick" /\ request \notin {"DELETE_SLAVE", "OTHER"}
          /\ ~configurator_usr2
          /\ cfg_pc' = "wait" /\ configurator_alive' = configurator_alive
          /\ UNCHANGED <<request, configurator_usr2>>
        BY <1>1, <1>6, <2>1 DEF CommandInv, SendCommand
    <2>3. CommandInv'
        BY <1>1, <1>2, <2>2 DEF CommandInv, Stuck, Talking
    <2>4. Answered' /\ NoProcessLost'
        BY <1>1, <1>2, <2>2 DEF Answered, NoProcessLost
    <2> QED
        BY <1>1, <1>2, <1>3, <2>3, <2>4 DEF Conversation
<1>7. ASSUME NEW q \in Slaves, DeleteSlave(q) PROVE Conversation'
    <2>1. CommandInv' /\ Answered' /\ NoProcessLost'
        BY <1>1, <1>2, <1>7
        DEF CommandInv, Answered, NoProcessLost, Stuck, Talking, DeleteSlave,
            ctlVars
    <2> QED
        BY <1>1, <1>2, <1>3, <2>1 DEF Conversation
<1>8. CASE ReceiveResponse
    <2>1. CommandInv' /\ Answered' /\ NoProcessLost'
        BY <1>1, <1>2, <1>8
        DEF CommandInv, Answered, NoProcessLost, Stuck, Talking, ReceiveResponse,
            ctlVars, liveVars
    <2> QED
        BY <1>1, <1>2, <1>3, <2>1 DEF Conversation
<1>9. ASSUME WaitTimeout, Settled PROVE Conversation'
    <2>1. CommandInv'
        <3>1. affected \in Slaves
            BY <1>9 DEF WaitTimeout, LockInv, TypeInv, Targets
        <3>2. SyncThreadIdle
            BY <1>1, <1>9, <3>1 DEF Settled, Quiet, NoProcessLost
        <3>3. (~master_usr2 /\ sync_pc = "sigwait") \/ Stuck
            BY <3>2 DEF SyncThreadIdle, Stuck
        <3> QED
            BY <1>1, <1>2, <1>9, <3>3
            DEF CommandInv, Stuck, Talking, WaitTimeout, shmVars, ctlVars, killVars
    <2>2. Answered' /\ NoProcessLost'
        BY <1>1, <1>2, <1>9
        DEF Answered, NoProcessLost, WaitTimeout, shmVars, ctlVars, killVars,
            liveVars
    <2> QED
        BY <1>1, <1>2, <1>3, <2>1, <2>2 DEF Conversation
<1> QED
    BY <1>4, <1>5, <1>6, <1>7, <1>8, <1>9
    DEF ConfiguratorProcess, UserOrTimer, AnswerPrompt

-----------------------------------------------------------------------------
(* Conversation holds initially, every step keeps it,                      *)
LEMMA ConversationInit == Init => Conversation
<1> SUFFICES ASSUME Init PROVE Conversation
    OBVIOUS
<1>1. NoProcessLost /\ CommandInv /\ Answered /\ ~clash
    BY DEF Init, ShmInit, MasterInit, ConfiguratorInit, NoProcessLost, CommandInv,
           Answered
<1>2. ASSUME NEW s \in Slaves PROVE SlaveInv(s)
    <2>1. /\ ~owned[s] /\ ~is_connected[s] /\ ~cycle_started[s]
          /\ sem_m_to_s[s] = 1 /\ sem_s_to_m[s] = 1 /\ alive[s] /\ ~slave_usr1[s]
          /\ sig_pc[s] = "sigwait" /\ cyc_pc[s] = "gate" /\ allow[s] = 0
          /\ sig_semaphore[s] = 0 /\ spawned[s] = 0 /\ assigning[s] = 0
          /\ thr_pc[s] = "none"
          /\ ~connected[s] /\ cfg_pc = "menu" /\ sync_pc = "sigwait"
          /\ ~configurator_usr2 /\ master_usr1 = NoPid /\ s # NoPid
        BY <1>2, ShmAssumption
        DEF Init, ShmInit, SlaveInit, MasterInit, ConfiguratorInit
    <2>2. ToMaster(s) = 0 /\ ToSlave(s) = 0 /\ Free(s) = 1 /\ Sending(s) = 0
        BY <2>1 DEF ToMaster, ToSlave, Free, Sending, Count
    <2> QED
        BY <2>1, <2>2
        DEF SlaveInv, Bounded, GateHeld, RestsUnlessSent, Detached, RequestLock,
            Answering, ListedRightly, HandlesRequest, Stage, CyclesAlive, Recorded,
            UnderWay, Talking, Chosen, Sent, Awake, Calm, Resting, Closed, Count
<1> QED
    BY <1>1, <1>2 DEF Conversation

(* with the locks of RtcProofs,                                            *)
LEMMA ConversationStep ==
    ASSUME Prompt, Segments > 0, Stale \subseteq {"nobody"}
    PROVE  LockInv /\ Conversation /\ [Next]_vars => (LockInv /\ Conversation)'
<1> SUFFICES ASSUME LockInv, Conversation, [Next]_vars PROVE (LockInv /\ Conversation)'
    OBVIOUS
<1>1. LockInv'
    BY LockStep
<1>2. CASE UNCHANGED vars
    <2>1. ASSUME NEW s \in Slaves PROVE SlaveInv(s)'
        <3>1. SlaveInv(s) /\ SameAt(s) /\ SameTalk /\ (master_usr1' = s <=> master_usr1 = s)
            BY <1>2
            DEF Conversation, SameAt, SameTalk, vars, shmVars, segVars, ctlVars,
                killVars, liveVars, slaveVars, masterVars, startVars,
                configuratorVars
        <3> QED
            BY <3>1, Elsewhere
    <2>2. CommandInv' /\ Answered' /\ NoProcessLost' /\ ~clash'
        BY <1>2
        DEF Conversation, CommandInv, Answered, NoProcessLost, Stuck, Talking, vars,
            shmVars, segVars, ctlVars, killVars, liveVars, masterVars, startVars,
            configuratorVars
    <2> QED
        BY <1>1, <2>1, <2>2 DEF Conversation
<1>3. ASSUME NEW s \in Slaves, SlaveProcess(s) PROVE Conversation'
    BY <1>1, <1>3, SignalThreadStep, CycleThreadStep DEF SlaveProcess
<1>4. CASE MasterProcess
    BY <1>1, <1>4, AsyncThreadStep, SyncThreadStep, ProcessorThreadStep
    DEF MasterProcess
<1>5. CASE ConfiguratorProcess
    BY <1>1, <1>5, ConfiguratorStep
<1> QED
    BY <1>1, <1>2, <1>3, <1>4, <1>5 DEF Next

(* and so it is an invariant.                                              *)
LEMMA ConversationInvariant ==
    ASSUME Prompt, Segments > 0, Stale \subseteq {"nobody"}
    PROVE  Spec => [](LockInv /\ Conversation)
BY LockInit, ConversationInit, ConversationStep, PTL DEF Spec

-----------------------------------------------------------------------------
(* Conversation holds of every state: RestsUnlessSent, for one, says that  *)
(* between two commands only the cycles of the slaves use the signals.     *)
THEOREM ConversationCorrect ==
    ASSUME Prompt, Segments > 0, Stale \subseteq {"nobody"}
    PROVE  Spec => []Conversation
BY ConversationInvariant, PTL

(* No two threads of the master ever serve one segment or one slave: a     *)
(* CONNECT_SLAVE that is repeated never finds the last one in the middle   *)
(* of the three steps in which a thread takes its segment (OneProcessor,   *)
(* slave_processor_detached_thread). NotServedTwice is the argument.       *)
THEOREM OneProcessorCorrect ==
    ASSUME Prompt, Segments > 0, Stale \subseteq {"nobody"}
    PROVE  Spec => []OneProcessor
<1>1. LockInv /\ Conversation => OneProcessor
    BY DEF LockInv, Conversation, OneProcessor
<1> QED
    BY ConversationInvariant, <1>1, PTL

(* So the lock of the master for its request is binary (LinkLockBinary,    *)
(* sem_m_to_s_request).                                                    *)
THEOREM LinkLockCorrect ==
    ASSUME Prompt, Segments > 0, Stale \subseteq {"nobody"}
    PROVE  Spec => []LinkLockBinary
<1>1. LockInv /\ Conversation => LinkLockBinary
    BY DEF LockInv
<1> QED
    BY ConversationInvariant, <1>1, PTL

(* The gate of a cycle is one token, neither lost nor doubled by any order *)
(* of START, STOP and the cycle (handle_start_cycle_slave_request,         *)
(* CloseGate of handle_stop_cycle_slave_request, the gate of the cycle     *)
(* thread).                                                                *)
THEOREM GateConservedCorrect ==
    ASSUME Prompt, Segments > 0, Stale \subseteq {"nobody"}
    PROVE  Spec => []GateConserved
<1>1. LockInv /\ Conversation => GateConserved
    BY ConversationTyped DEF Conversation, GateConserved, SlaveInv, GateHeld,
        Count, Typed
<1> QED
    BY ConversationInvariant, <1>1, PTL

(* A CONNECT_SLAVE is the first request of its session: the lock is free   *)
(* when it is sent, as the comment in slave_processor_detached_thread      *)
(* says.                                                                   *)
THEOREM FirstRequestCorrect ==
    ASSUME Prompt, Segments > 0, Stale \subseteq {"nobody"}
    PROVE  Spec => []FirstRequest
<1>1. LockInv /\ Conversation => FirstRequest
    BY DEF Conversation, FirstRequest, SlaveInv, Detached
<1> QED
    BY ConversationInvariant, <1>1, PTL

(* The semaphore that the cycle thread posts without having it (slave.c    *)
(* 371) goes one unit above binary at most: Bounded pays for every unit    *)
(* with a signal under way.                                                *)
THEOREM RequestLockBoundedCorrect ==
    ASSUME Prompt, Segments > 0, Stale \subseteq {"nobody"}
    PROVE  Spec => []RequestLockBounded
<1>1. ASSUME LockInv, Conversation, NEW s \in Slaves PROVE sem_s_to_m[s] <= 2
    <2>1. /\ ToMaster(s) \in Nat /\ ToSlave(s) \in Nat /\ Sending(s) \in Nat
          /\ Free(s) \in Nat /\ Free(s) >= sem_s_to_m[s]
          /\ sem_m_to_s[s] \in Nat /\ sem_s_to_m[s] \in Nat
        BY <1>1, ConversationTyped DEF Typed, ToMaster, ToSlave, Sending, Free,
            Count
    <2> QED
        BY <1>1, <2>1 DEF Conversation, SlaveInv, Bounded, UnderWay
<1>2. LockInv /\ Conversation => RequestLockBounded
    BY <1>1 DEF RequestLockBounded
<1> QED
    BY ConversationInvariant, <1>2, PTL

(* No signal of one session is left in sig_semaphore for the thread of the *)
(* next, although reset_slave_shmseg does not reset it.                    *)
THEOREM NoSignalLeftOverCorrect ==
    ASSUME Prompt, Segments > 0, Stale \subseteq {"nobody"}
    PROVE  Spec => []NoSignalLeftOver
<1>1. LockInv /\ Conversation => NoSignalLeftOver
    BY DEF Conversation, NoSignalLeftOver, SlaveInv, Detached
<1> QED
    BY ConversationInvariant, <1>1, PTL

(* No answer of the master outlives the wait for it.                       *)
THEOREM NoLateAnswerCorrect ==
    ASSUME Prompt, Segments > 0, Stale \subseteq {"nobody"}
    PROVE  Spec => []NoLateAnswer
<1>1. LockInv /\ Conversation => NoLateAnswer
    BY DEF Conversation, NoLateAnswer, CommandInv
<1> QED
    BY ConversationInvariant, <1>1, PTL

(* Neither the master nor the configurator is ever ended by a signal or by *)
(* an index in front of its tables.                                        *)
THEOREM NoProcessLostCorrect ==
    ASSUME Prompt, Segments > 0, Stale \subseteq {"nobody"}
    PROVE  Spec => []NoProcessLost
<1>1. LockInv /\ Conversation => NoProcessLost
    BY DEF Conversation
<1> QED
    BY ConversationInvariant, <1>1, PTL

(* What the configurator has recorded of a slave is what its segment says, *)
(* whenever the user gives a command.                                      *)
THEOREM RecordsAgreeCorrect ==
    ASSUME Prompt, Segments > 0, Stale \subseteq {"nobody"}
    PROVE  Spec => []RecordsAgree
<1>1. ASSUME LockInv, Conversation, cfg_pc = "menu", NEW s \in Slaves, created[s]
      PROVE  connected[s] = is_connected[s]
    <2>1. ~configurator_usr2
        BY <1>1 DEF Conversation, CommandInv
    <2>2. connected[s] <=> is_connected[s]
        BY <1>1, <2>1 DEF Conversation, SlaveInv, Recorded
    <2>3. connected[s] \in BOOLEAN /\ is_connected[s] \in BOOLEAN
        BY <1>1 DEF LockInv, TypeInv, TypeOK, ShmTypeOK, ConfiguratorTypeOK
    <2> QED
        BY <2>2, <2>3
<1>2. LockInv /\ Conversation => RecordsAgree
    BY <1>1 DEF RecordsAgree
<1> QED
    BY ConversationInvariant, <1>2, PTL

(* An answer is true of the slave when the configurator reads it           *)
(* (AnswersTrue; wait_connect_slave_response,                              *)
(* wait_start_slave_cycle_response, wait_disconnect_slave_response).       *)
THEOREM AnswersCorrect ==
    ASSUME Prompt, Segments > 0, Stale \subseteq {"nobody"}
    PROVE  Spec => AnswersTrue
<1>1. LockInv /\ Conversation =>
        [ReceiveResponse /\ request \in DOMAIN Effect =>
            (response = "ACK" <=> Effect[request][affected])]_vars
    <2> SUFFICES ASSUME LockInv, Conversation, ReceiveResponse, request \in DOMAIN Effect
                 PROVE  response = "ACK" <=> Effect[request][affected]
        OBVIOUS
    <2>1. Answered /\ configurator_usr2 /\ affected \in Slaves
        BY DEF ReceiveResponse, Conversation, LockInv, TypeInv, Targets
    <2>2. request \in {"CONNECT_SLAVE", "START_SLAVE_CYCLE", "DISCONNECT_SLAVE"}
        BY DEF Effect
    <2>3. CASE request = "CONNECT_SLAVE"
        <3>1. Effect[request][affected] = is_connected[affected]
            BY <2>3 DEF Effect
        <3> QED
            BY <2>1, <2>3, <3>1 DEF Answered
    <2>4. CASE request = "START_SLAVE_CYCLE"
        <3>1. Effect[request][affected] = cycle_started[affected]
            BY <2>4 DEF Effect
        <3> QED
            BY <2>1, <2>4, <3>1 DEF Answered
    <2>5. CASE request = "DISCONNECT_SLAVE"
        <3>1. Effect[request][affected] = ~is_connected[affected]
            BY <2>1, <2>5 DEF Effect
        <3> QED
            BY <2>1, <2>5, <3>1 DEF Answered
    <2> QED
        BY <2>2, <2>3, <2>4, <2>5
<1> QED
    BY ConversationInvariant, <1>1, PTL DEF AnswersTrue

-----------------------------------------------------------------------------
(* A step that changes the segment of one slave only changes the session   *)
(* of that slave only,                                                     *)
LEMMA PhaseMoves ==
    ASSUME NEW s \in Slaves,
           \A t \in Slaves \ {s} : /\ owned'[t] = owned[t]
                                   /\ is_connected'[t] = is_connected[t]
                                   /\ cycle_started'[t] = cycle_started[t]
    PROVE  sessionPhase' = [sessionPhase EXCEPT ![s] = sessionPhase'[s]]
BY DEF sessionPhase

(* and one that changes no segment changes no session.                     *)
LEMMA PhaseStays ==
    ASSUME UNCHANGED <<owned, is_connected, cycle_started>>
    PROVE  UNCHANGED sessionPhase
BY DEF sessionPhase

(* A handler of a slave takes a name before the slave is connected, and    *)
(* starts and stops the cycle in a session, as RtcSession allows, or       *)
(* leaves the sessions alone.                                              *)
LEMMA SignalThreadSession ==
    ASSUME LockInv, LockInv', Conversation, NEW s \in Slaves, SignalThread(s)
    PROVE  [Session!Next]_(Session!sessionVars)
<1>1. CommandInv /\ SlaveInv(s) /\ Typed(s)
    BY ConversationTyped DEF Conversation
<1>2. UNCHANGED <<owned, is_connected>>
    BY DEF SignalThread, SignalHandlerThread
<1>3. /\ name \in [Slaves -> Seq(Nat)] /\ cycle_started \in [Slaves -> BOOLEAN]
      /\ is_connected[s] => owned[s]
    BY DEF LockInv, TypeInv, TypeOK, ShmTypeOK, Served
<1>4. ASSUME sig_pc[s] \in {"request", "rename"}, alive[s]
      PROVE  /\ Sent(s) /\ owned[s] /\ ~Resting(s)
             /\ request = "CONNECT_SLAVE" => ~is_connected[s]
             /\ request # "CONNECT_SLAVE" => is_connected[s] /\ req_m_to_s[s] = request
             /\ request = "CONNECT_SLAVE"
                    => req_m_to_s[s] \in {"CONNECT_SLAVE", "CHANGE_SLAVE_NAME"}
    <2>1. Sent(s) /\ ~Resting(s)
        BY <1>1, <1>4 DEF SlaveInv, RestsUnlessSent, Resting
    <2>2. request \in ConfiguratorRequests \ {"DELETE_SLAVE", "OTHER"}
        BY <1>1, <2>1
        DEF LockInv, TypeInv, TypeOK, ShmTypeOK, CommandInv, Sent, Talking
    <2>3. /\ request = "CONNECT_SLAVE" => ~is_connected[s]
          /\ request # "CONNECT_SLAVE" => is_connected[s]
        BY <1>1, <2>1, <2>2
        DEF SlaveInv, ListedRightly, Sent, Chosen, Talking, ConfiguratorRequests
    <2>4. UnderWay(s) > 0
        BY <1>1, <1>4 DEF UnderWay, ToMaster, ToSlave, Count, Typed
    <2>5. sem_m_to_s[s] = 0
        BY <1>1, <2>1, <2>4 DEF SlaveInv, Stage, ConnectSent, RequestSent
    <2> QED
        BY <1>1, <2>1, <2>3, <2>4, <2>5
        DEF SlaveInv, Stage, ConnectSent, RequestSent, Detached
<1>5. ASSUME sig_pc[s] = "rename", alive[s] PROVE ~is_connected[s] /\ owned[s]
    <2>1. req_m_to_s[s] = "CHANGE_SLAVE_NAME"
        BY <1>1, <1>5 DEF SlaveInv, HandlesRequest
    <2> QED
        BY <1>1, <1>4, <1>5, <2>1
        DEF CommandInv, Sent, Talking, LockInv, TypeInv, TypeOK, ShmTypeOK,
            ConfiguratorRequests
<1>6. ASSUME \/ HandleConnectSlaveRequest(s) \/ HandleChangeNameSlaveRequest(s)
             \/ WriteNewName(s)
      PROVE  [Session!Next]_(Session!sessionVars)
    <2>1. alive[s] /\ UNCHANGED cycle_started
        BY <1>6
        DEF HandleConnectSlaveRequest, HandleChangeNameSlaveRequest, WriteNewName,
            SigGoto, gateVars
    <2>2. ~is_connected[s] /\ owned[s]
        BY <1>4, <1>5, <1>6
        DEF HandleConnectSlaveRequest, HandleChangeNameSlaveRequest, WriteNewName,
            SigGoto, CommandInv, Sent, Talking, LockInv, TypeInv, TypeOK, ShmTypeOK,
            ConfiguratorRequests
    <2>3. name' = [name EXCEPT ![s] = name'[s]]
        BY <1>3, <1>6
        DEF HandleConnectSlaveRequest, HandleChangeNameSlaveRequest, WriteNewName
    <2>4. sessionPhase[s] = "attaching" /\ UNCHANGED sessionPhase
        BY <1>2, <2>1, <2>2, PhaseStays DEF sessionPhase
    <2>5. Session!TakeName(s)
        BY <2>3, <2>4 DEF Session!TakeName
    <2> QED
        BY <2>5 DEF Session!Next
<1>7. ASSUME HandleStartCycleSlaveRequest(s) \/ HandleStopCycleSlaveRequest(s)
      PROVE  [Session!Next]_(Session!sessionVars)
    <2>1. /\ UNCHANGED name /\ is_connected[s] /\ owned[s]
          /\ cycle_started' \in
                {cycle_started, [cycle_started EXCEPT ![s] = ~cycle_started[s]]}
        BY <1>3, <1>4, <1>7
        DEF HandleStartCycleSlaveRequest, HandleStopCycleSlaveRequest, SigGoto,
            nameVars, gateVars
    <2>2. CASE UNCHANGED cycle_started
        BY <1>2, <2>1, <2>2, PhaseStays DEF Session!sessionVars
    <2>3. CASE cycle_started' = [cycle_started EXCEPT ![s] = ~cycle_started[s]]
        <3>1. sessionPhase' = [sessionPhase EXCEPT ![s] = sessionPhase'[s]]
            BY <1>2, <1>3, <2>3, PhaseMoves
        <3>2. cycle_started'[s] = ~cycle_started[s]
            BY <1>3, <2>3
        <3>3. IF cycle_started[s]
              THEN sessionPhase[s] = "cycling" /\ sessionPhase'[s] = "connected"
              ELSE sessionPhase[s] = "connected" /\ sessionPhase'[s] = "cycling"
            BY <1>2, <2>1, <3>2 DEF sessionPhase
        <3>4. Session!StartCycle(s) \/ Session!StopCycle(s)
            BY <2>1, <3>1, <3>3
            DEF Session!StartCycle, Session!StopCycle, Session!Move
        <3> QED
            BY <3>4 DEF Session!Next
    <2> QED
        BY <2>1, <2>2, <2>3
<1>8. ASSUME UNCHANGED <<name,
                         cycle_started>> PROVE [Session!Next]_(Session!sessionVars)
    BY <1>2, <1>8, PhaseStays DEF Session!sessionVars
<1>9. \/ HandleConnectSlaveRequest(s) \/ HandleChangeNameSlaveRequest(s) \/ WriteNewName(s)
      \/ HandleStartCycleSlaveRequest(s) \/ HandleStopCycleSlaveRequest(s)
      \/ UNCHANGED <<name, cycle_started>>
    BY DEF SignalThread, SignalHandlerThread, ReceiveSignal, CheckMasterResponse,
           CheckMasterRequest, HandleMasterResponse, HandleDisconnectSlaveRequest,
           ClearShmseg, AckStartCycle, CloseGate, HandleUnrecognizedRequest,
           nameVars, gateVars
<1> QED
    BY <1>6, <1>7, <1>8, <1>9

(* A thread of the master begins a session, connects the slave under a     *)
(* name no other session has, and ends a session whose cycle is stopped,   *)
(* as RtcSession allows, or leaves the sessions alone.                     *)
LEMMA ProcessorThreadSession ==
    ASSUME LockInv, LockInv', Conversation, NEW s \in Slaves,
           Stale \subseteq {"nobody"}, ProcessorThread(s)
    PROVE  [Session!Next]_(Session!sessionVars)
<1>1. CommandInv /\ SlaveInv(s)
    BY DEF Conversation
<1>2. /\ owned \in [Slaves -> BOOLEAN] /\ is_connected \in [Slaves -> BOOLEAN]
      /\ cycle_started \in [Slaves -> BOOLEAN] /\ name \in [Slaves -> Seq(Nat)]
      /\ \A t \in Slaves : is_connected[t] => owned[t]
      /\ owned[s] <=> thr_pc[s] # "none"
    BY DEF LockInv, TypeInv, TypeOK, ShmTypeOK, Served
<1>3. ASSUME thr_pc[s] = "response"
      PROVE  /\ owned[s]
             /\ request = "CONNECT_SLAVE" => ~is_connected[s]
             /\ request # "CONNECT_SLAVE" => is_connected[s] /\ req_m_to_s[s] = request
             /\ request \in {"CONNECT_SLAVE", "DISCONNECT_SLAVE"} => ~cycle_started[s]
    <2>1. Sent(s)
        BY <1>1, <1>3, ResponseHandled
    <2>2. request \in {"CONNECT_SLAVE", "DISCONNECT_SLAVE"} => Calm(s)
        BY <1>1, <2>1 DEF SlaveInv, ListedRightly, Detached, Chosen, Sent, Talking
    <2> QED
        BY <1>1, <1>2, <1>3, <2>2, CommandAnswered DEF Calm
<1>4. CASE UNCHANGED <<owned, is_connected, cycle_started, name>>
    BY <1>4, PhaseStays DEF Session!sessionVars
<1>5. CASE WriteSegmentPid(s)
    <2>1. /\ ~owned[s] /\ owned' = [owned EXCEPT ![s] = TRUE]
          /\ UNCHANGED <<is_connected, cycle_started, name>>
        BY <1>5 DEF WriteSegmentPid, resetVars
    <2>2. sessionPhase' = [sessionPhase EXCEPT ![s] = sessionPhase'[s]]
        BY <1>2, <2>1, PhaseMoves
    <2>3. sessionPhase[s] = "detached" /\ sessionPhase'[s] = "attaching"
        BY <1>2, <2>1 DEF sessionPhase
    <2>4. Session!Attach(s)
        BY <2>1, <2>2, <2>3 DEF Session!Attach, Session!Move
    <2> QED
        BY <2>4 DEF Session!Next
<1>6. CASE FinishConnect(s)
    <2>1. /\ thr_pc[s] = "response" /\ ~is_connected[s] /\ ~must_change_name(s)
          /\ is_connected' = [is_connected EXCEPT ![s] = TRUE]
          /\ UNCHANGED <<owned, cycle_started, name>>
        BY <1>6 DEF FinishConnect, Connecting, ThrGoto, resetVars
    <2>2. owned[s] /\ ~cycle_started[s]
        BY <1>3, <2>1
    <2>3. sessionPhase' = [sessionPhase EXCEPT ![s] = sessionPhase'[s]]
        BY <1>2, <2>1, PhaseMoves
    <2>4. sessionPhase[s] = "attaching" /\ sessionPhase'[s] = "connected"
        BY <1>2, <2>1, <2>2 DEF sessionPhase
    <2>5. ASSUME NEW t \in Slaves \ {s}, Session!InSession(t) PROVE name[t] # name[s]
        BY <2>1, <2>5 DEF Session!InSession, sessionPhase, must_change_name
    <2>6. Session!Connect(s)
        BY <2>1, <2>3, <2>4, <2>5 DEF Session!Connect, Session!Move
    <2> QED
        BY <2>6 DEF Session!Next
<1>7. CASE FinishDisconnect(s)
    <2>1. /\ thr_pc[s] = "response" /\ is_connected[s]
          /\ req_m_to_s[s] = "DISCONNECT_SLAVE"
          /\ owned' = [owned EXCEPT ![s] = FALSE]
          /\ is_connected' = [is_connected EXCEPT ![s] = FALSE]
          /\ cycle_started' = [cycle_started EXCEPT ![s] = FALSE]
          /\ name' = [name EXCEPT ![s] = NoName]
        BY <1>7 DEF FinishDisconnect, ThrGoto
    <2>2. owned[s] /\ ~cycle_started[s]
        BY <1>3, <2>1
    <2>3. sessionPhase' = [sessionPhase EXCEPT ![s] = sessionPhase'[s]]
        BY <1>2, <2>1, PhaseMoves
    <2>4. sessionPhase[s] = "connected" /\ sessionPhase'[s] = "detached"
        BY <1>2, <2>1, <2>2 DEF sessionPhase
    <2>5. Session!Disconnect(s)
        BY <2>1, <2>3, <2>4 DEF Session!Disconnect, Session!Move
    <2> QED
        BY <2>5 DEF Session!Next
<1>8. \/ UNCHANGED <<owned, is_connected, cycle_started, name>>
      \/ WriteSegmentPid(s)
      \/ FinishConnect(s)
      \/ FinishDisconnect(s)
    BY ThreadOfSlave
    DEF SlaveProcessorThread, SearchSegment, ServeTwice, LoseConnect,
        LockOwnRequest,
           SendConnectSlaveRequest, SendChangeNameSlaveRequest, ProcessSignal,
           CheckSlaveResponse, HandleSlaveRequest, ForwardResponse, RefuseConnect,
           AskForNewName, IgnoreResponse, resetVars
<1> QED
    BY <1>4, <1>5, <1>6, <1>7, <1>8

(* No other thread changes a session.                                      *)
LEMMA OthersLeaveSessions ==
    ASSUME \/ \E s \in Slaves : CycleThread(s)
           \/ AsyncThread
           \/ SyncThread
           \/ ConfiguratorProcess
           \/ UNCHANGED vars
    PROVE  UNCHANGED Session!sessionVars
<1>1. UNCHANGED <<owned, is_connected, cycle_started, name>>
    <2>1. ASSUME NEW s \in Slaves, CycleThread(s)
          PROVE  UNCHANGED <<owned, is_connected, cycle_started, name>>
        BY <2>1 DEF CycleThread, CommunicationCycleThread, nameVars
    <2>2. CASE AsyncThread
        BY <2>2 DEF AsyncThread, AsyncSignalHandler, segVars
    <2>3. CASE SyncThread
        BY <2>3 DEF SyncThread, SyncSignalHandlerThread
    <2>4. CASE ConfiguratorProcess
        BY <2>4
        DEF ConfiguratorProcess, UserOrTimer, NextCommand, AnswerPrompt,
            ReadReqCode, AbandonCommand, SendCommand, DeleteSlave, ReceiveResponse,
            WaitTimeout, segVars, shmVars
    <2>5. CASE UNCHANGED vars
        BY <2>5 DEF vars, shmVars, segVars
    <2> QED
        BY <2>1, <2>2, <2>3, <2>4, <2>5
<1> QED
    BY <1>1, PhaseStays DEF Session!sessionVars

(* The program implements the abstract specification of the sessions:      *)
(* every step is a step of RtcSession or leaves the sessions alone         *)
(* (SessionSpec).                                                          *)
THEOREM SessionCorrect ==
    ASSUME Prompt, Segments > 0, Stale \subseteq {"nobody"}
    PROVE  Spec => SessionSpec
<1>1. Init => Session!Init
    BY DEF Init, ShmInit, Session!Init, sessionPhase
<1>2. LockInv /\ Conversation /\ (LockInv /\ Conversation)' /\ [Next]_vars
        => [Session!Next]_(Session!sessionVars)
    BY SignalThreadSession, ProcessorThreadSession, OthersLeaveSessions
    DEF Next, SlaveProcess, MasterProcess
<1> QED
    BY ConversationInvariant, <1>1, <1>2, PTL DEF Spec, SessionSpec, Session!Spec

(* No two connected slaves have the same name (UniqueNames,                *)
(* must_change_name): NamesFromSession with its hypothesis discharged.     *)
THEOREM NamesUnique ==
    ASSUME Prompt, Segments > 0, Stale \subseteq {"nobody"}
    PROVE  Spec => []UniqueNames
BY SessionCorrect, NamesFromSession, PTL

=============================================================================
