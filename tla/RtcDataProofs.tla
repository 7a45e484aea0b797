--------------------------- MODULE RtcDataProofs ----------------------------
(***************************************************************************)
(* Proofs about the communication cycle, for every number of segments, of  *)
(* places in the error buffer and of lost signals, and with and without    *)
(* Prompt.                                                                 *)
(***************************************************************************)
EXTENDS RtcDataProperties, TLAPS

(* Between the comparison of set_error and the store of the incremented    *)
(* size the buffer has room, since the master only ever empties it.        *)
RoomKept ==
    /\ cyc_pc = "error_load" => shmseg_error_current_size < ErrorSize
    /\ cyc_pc = "error_store" => read_size < ErrorSize

DataInv == TypeOK /\ RoomKept

LEMMA Initially == Init => DataInv
<1> SUFFICES ASSUME Init PROVE DataInv
  OBVIOUS
<1> USE DataAssumption DEF Init
<1>1. SegmentTypeOK
  BY DEF SegmentTypeOK, Parameters, Values, UNDEFINED
<1>2. CycleTypeOK
  BY DEF CycleTypeOK, Parameters, Values, Errors, UNDEFINED, NEVER
<1>3. ThreadTypeOK
  BY DEF ThreadTypeOK, Parameters
<1>4. SignalTypeOK
  BY DEF SignalTypeOK
<1>5. HistoryTypeOK
  BY DEF HistoryTypeOK, Errors, MaxRaised
<1>6. QED
  BY <1>1, <1>2, <1>3, <1>4, <1>5 DEF DataInv, TypeOK, RoomKept

LEMMA CountTyped ==
    ASSUME NEW n \in 0 .. MaxRaised
    PROVE  Count(n) \in 0 .. MaxRaised
  BY DataAssumption DEF Count, MaxRaised

(* One more error of a kind is counted.                                    *)
LEMMA CounterTyped ==
    ASSUME NEW c \in [Errors -> 0 .. MaxRaised], NEW e
    PROVE  [c EXCEPT ![e] = Count(@)] \in [Errors -> 0 .. MaxRaised]
<1>1. \A k \in Errors : Count(c[k]) \in 0 .. MaxRaised
  BY CountTyped
<1>2. QED
  BY <1>1

(* What the groups of variables that a step leaves alone keep.             *)
LEMMA UntouchedKept ==
    /\ SegmentTypeOK /\ UNCHANGED <<requested, segVars, gateVars>> => SegmentTypeOK'
    /\ CycleTypeOK /\ UNCHANGED cycVars => CycleTypeOK'
    /\ ThreadTypeOK /\ UNCHANGED <<thrVars, sig_semaphore, sig_pc>> => ThreadTypeOK'
    /\ SignalTypeOK /\ UNCHANGED <<master_usr1, slave_usr1>> => SignalTypeOK'
    /\ HistoryTypeOK /\ UNCHANGED history => HistoryTypeOK'
    /\ RoomKept /\ UNCHANGED <<cyc_pc, shmseg_error_current_size, read_size>> => RoomKept'
<1>1. SegmentTypeOK /\ UNCHANGED <<requested, segVars, gateVars>> => SegmentTypeOK'
  BY DEF SegmentTypeOK, segVars, gateVars
<1>2. CycleTypeOK /\ UNCHANGED cycVars => CycleTypeOK'
  BY DEF CycleTypeOK, cycVars
<1>3. ThreadTypeOK /\ UNCHANGED <<thrVars, sig_semaphore, sig_pc>> => ThreadTypeOK'
  BY DEF ThreadTypeOK, thrVars
<1>4. SignalTypeOK /\ UNCHANGED <<master_usr1, slave_usr1>> => SignalTypeOK'
  BY DEF SignalTypeOK
<1>5. HistoryTypeOK /\ UNCHANGED history => HistoryTypeOK'
  BY DEF HistoryTypeOK, history
<1>6. RoomKept /\ UNCHANGED <<cyc_pc, shmseg_error_current_size, read_size>> => RoomKept'
  BY DEF RoomKept
<1>7. QED
  BY <1>1, <1>2, <1>3, <1>4, <1>5, <1>6

LEMMA TickKeeps ==
    ASSUME DataInv, Tick
    PROVE  DataInv'
<1>1. CycleTypeOK'
  BY DataAssumption DEF DataInv, TypeOK, CycleTypeOK, Tick, NEVER
<1>2. QED
  BY <1>1, UntouchedKept DEF DataInv, TypeOK, Tick, signalVars, segVars, gateVars

LEMMA CycleThreadKeeps ==
    ASSUME DataInv, CycleThread
    PROVE  DataInv'
<1> USE DataAssumption DEF DataInv, TypeOK, CycGoto, segVars, gateVars
<1>0. UNCHANGED <<requested, cycle_started, thrVars, slave_usr1, sig_semaphore, sig_pc>>
  BY DEF CycleThread
<1>1. CASE WakeUp
  <2>1. CycleTypeOK'
    BY <1>1 DEF WakeUp, CycleTypeOK, Values, UNDEFINED, Parameters
  <2>2. RoomKept'
    BY <1>1 DEF WakeUp, RoomKept
  <2>3. QED
    BY <1>0, <1>1, <2>1, <2>2, UntouchedKept DEF WakeUp
<1>2. CASE WriteParameter
  <2>1. SegmentTypeOK'
    BY <1>2, <1>0 DEF WriteParameter, SegmentTypeOK, CycleTypeOK
  <2>2. CycleTypeOK'
    BY <1>2 DEF WriteParameter, CycleTypeOK, Parameters, Following
  <2>3. RoomKept'
    BY <1>2 DEF WriteParameter, RoomKept
  <2>4. QED
    BY <1>0, <1>2, <2>1, <2>2, <2>3, UntouchedKept DEF WriteParameter
<1>3. CASE CalculateInterval
  <2>1. CycleTypeOK'
    BY <1>3 DEF CalculateInterval, CycleTypeOK, Raise, Errors, NEVER
  <2>2. HistoryTypeOK'
    BY <1>3, CounterTyped DEF CalculateInterval, HistoryTypeOK, Raise
  <2>3. RoomKept'
    BY <1>3 DEF CalculateInterval, RoomKept
  <2>4. QED
    BY <1>0, <1>3, <2>1, <2>2, <2>3, UntouchedKept DEF CalculateInterval
<1>4. CASE TryLockRequest
  <2>1. SegmentTypeOK'
    BY <1>4, <1>0 DEF TryLockRequest, SegmentTypeOK
  <2>2. CycleTypeOK'
    BY <1>4 DEF TryLockRequest, CycleTypeOK, Raise, Errors
  <2>3. HistoryTypeOK'
    BY <1>4, CounterTyped DEF TryLockRequest, HistoryTypeOK, Raise
  <2>4. RoomKept'
    BY <1>4 DEF TryLockRequest, RoomKept
  <2>5. QED
    BY <1>0, <1>4, <2>1, <2>2, <2>3, <2>4, UntouchedKept DEF TryLockRequest
<1>5. CASE SendRequest
  <2>1. CycleTypeOK'
    BY <1>5 DEF SendRequest, CycleTypeOK
  <2>2. SignalTypeOK'
    BY <1>5, <1>0 DEF SendRequest, SignalTypeOK
  <2>3. HistoryTypeOK'
    BY <1>5, CounterTyped DEF SendRequest, HistoryTypeOK
  <2>4. RoomKept'
    BY <1>5 DEF SendRequest, RoomKept
  <2>5. QED
    BY <1>0, <1>5, <2>1, <2>2, <2>3, <2>4, UntouchedKept DEF SendRequest
<1>6. CASE WriteError
  <2>1. SegmentTypeOK'
    BY <1>6, <1>0 DEF WriteError, SegmentTypeOK, CycleTypeOK
  <2>2. CycleTypeOK'
    BY <1>6 DEF WriteError, CycleTypeOK, AfterError
  <2>3. HistoryTypeOK'
    BY <1>6, CounterTyped DEF WriteError, HistoryTypeOK
  <2>4. RoomKept'
    BY <1>6 DEF WriteError, RoomKept, AfterError
  <2>5. QED
    BY <1>0, <1>6, <2>1, <2>2, <2>3, <2>4, UntouchedKept DEF WriteError
<1>7. CASE LoadErrorSize
  <2>1. CycleTypeOK'
    BY <1>7 DEF LoadErrorSize, CycleTypeOK, SegmentTypeOK
  <2>2. RoomKept'
    BY <1>7 DEF LoadErrorSize, RoomKept
  <2>3. QED
    BY <1>0, <1>7, <2>1, <2>2, UntouchedKept DEF LoadErrorSize
<1>8. CASE StoreErrorSize
  <2>1. SegmentTypeOK'
    BY <1>8, <1>0 DEF StoreErrorSize, SegmentTypeOK, CycleTypeOK, RoomKept
  <2>2. CycleTypeOK'
    BY <1>8 DEF StoreErrorSize, CycleTypeOK, AfterError
  <2>3. RoomKept'
    BY <1>8 DEF StoreErrorSize, RoomKept, AfterError
  <2>4. QED
    BY <1>0, <1>8, <2>1, <2>2, <2>3, UntouchedKept DEF StoreErrorSize
<1>9. CASE CycleAtGate
  <2>1. SegmentTypeOK'
    BY <1>9, <1>0 DEF CycleAtGate, SegmentTypeOK
  <2>2. CycleTypeOK'
    BY <1>9 DEF CycleAtGate, CycleTypeOK
  <2>3. RoomKept'
    BY <1>9 DEF CycleAtGate, RoomKept
  <2>4. QED
    BY <1>0, <1>9, <2>1, <2>2, <2>3, UntouchedKept DEF CycleAtGate
<1>10. CASE OpenGate
  <2>1. SegmentTypeOK'
    BY <1>10, <1>0 DEF OpenGate, SegmentTypeOK
  <2>2. CycleTypeOK'
    BY <1>10 DEF OpenGate, CycleTypeOK
  <2>3. RoomKept'
    BY <1>10 DEF OpenGate, RoomKept
  <2>4. QED
    BY <1>0, <1>10, <2>1, <2>2, <2>3, UntouchedKept DEF OpenGate
<1>11. CASE CheckGate
  <2>1. SegmentTypeOK'
    BY <1>11, <1>0 DEF CheckGate, SegmentTypeOK
  <2>2. CycleTypeOK'
    BY <1>11 DEF CheckGate, CycleTypeOK
  <2>3. RoomKept'
    BY <1>11 DEF CheckGate, RoomKept
  <2>4. QED
    BY <1>0, <1>11, <2>1, <2>2, <2>3, UntouchedKept DEF CheckGate
<1>12. QED
  BY <1>1, <1>2, <1>3, <1>4, <1>5, <1>6, <1>7, <1>8, <1>9, <1>10, <1>11 DEF CycleThread

LEMMA SignalThreadKeeps ==
    ASSUME DataInv, SignalThread
    PROVE  DataInv'
<1> USE DEF DataInv, TypeOK, SignalThread, ReceiveSignal, CheckMasterResponse,
        HandleMasterResponse, CloseGate
<1>1. SegmentTypeOK'
  BY DEF SegmentTypeOK
<1>2. ThreadTypeOK'
  BY DEF ThreadTypeOK, thrVars
<1>3. SignalTypeOK'
  BY DEF SignalTypeOK
<1>4. QED
  BY <1>1, <1>2, <1>3, UntouchedKept DEF cycVars

LEMMA StopStartKeeps ==
    ASSUME DataInv, HandleStopCycleSlaveRequest \/ HandleStartCycleSlaveRequest
    PROVE  DataInv'
<1> USE DataAssumption DEF DataInv, TypeOK
<1>1. CASE HandleStopCycleSlaveRequest
  <2> USE <1>1 DEF HandleStopCycleSlaveRequest
  <2>1. SegmentTypeOK'
    BY DEF SegmentTypeOK, segVars
  <2>2. ThreadTypeOK'
    BY DEF ThreadTypeOK, thrVars
  <2>3. HistoryTypeOK'
    BY DEF HistoryTypeOK
  <2>4. QED
    BY <2>1, <2>2, <2>3, UntouchedKept DEF segVars, cycVars
<1>2. CASE HandleStartCycleSlaveRequest
  <2> USE <1>2 DEF HandleStartCycleSlaveRequest
  <2>1. SegmentTypeOK'
    BY DEF SegmentTypeOK, segVars
  <2>2. QED
    BY <2>1, UntouchedKept DEF segVars, cycVars, signalVars
<1>3. QED
  BY <1>1, <1>2

LEMMA AsyncSignalHandlerKeeps ==
    ASSUME DataInv, AsyncSignalHandler
    PROVE  DataInv'
<1> USE DEF DataInv, TypeOK, AsyncSignalHandler
<1>1. ThreadTypeOK'
  BY DataAssumption DEF ThreadTypeOK, thrVars
<1>2. SignalTypeOK'
  BY DEF SignalTypeOK
<1>3. QED
  BY <1>1, <1>2, UntouchedKept DEF segVars, cycVars

LEMMA ProcessorThreadKeeps ==
    ASSUME DataInv, ProcessorThread
    PROVE  DataInv'
<1> USE DataAssumption DEF DataInv, TypeOK, ThrGoto, segVars, gateVars
<1>0. UNCHANGED <<requested, gateVars, cycVars, master_usr1, sig_pc, lost, pauses,
                  raised, refused>>
  BY DEF ProcessorThread
<1>1. CASE SemWait
  <2>1. ThreadTypeOK'
    BY <1>1, <1>0 DEF SemWait, ThreadTypeOK
  <2>2. QED
    BY <1>0, <1>1, <2>1, UntouchedKept DEF SemWait, history, cycVars
<1>2. CASE DrainErrors
  <2>1. SegmentTypeOK'
    BY <1>2, <1>0 DEF DrainErrors, SegmentTypeOK
  <2>2. ThreadTypeOK'
    BY <1>2, <1>0 DEF DrainErrors, ThreadTypeOK, SegmentTypeOK
  <2>3. HistoryTypeOK'
    <3>1. \A e \in Errors : Count(logged[e]) \in 0 .. MaxRaised
      BY CountTyped DEF HistoryTypeOK
    <3>2. QED
      BY <1>0, <1>2, <3>1 DEF DrainErrors, HistoryTypeOK
  <2>4. RoomKept'
    BY <1>2, <1>0 DEF DrainErrors, RoomKept, SegmentTypeOK, cycVars
  <2>5. QED
    BY <1>0, <1>2, <2>1, <2>2, <2>3, <2>4, UntouchedKept DEF DrainErrors, history, cycVars
<1>3. CASE CheckSlaveRequest
  <2>1. ThreadTypeOK'
    BY <1>3, <1>0 DEF CheckSlaveRequest, ThreadTypeOK, Parameters
  <2>2. QED
    BY <1>0, <1>3, <2>1, UntouchedKept DEF CheckSlaveRequest, history, cycVars
<1>4. CASE TakeParameter
  <2>1. SegmentTypeOK'
    BY <1>4, <1>0 DEF TakeParameter, SegmentTypeOK, ThreadTypeOK
  <2>2. ThreadTypeOK'
    BY <1>4, <1>0 DEF TakeParameter, ThreadTypeOK, NextParameter, Parameters, Following
  <2>3. QED
    BY <1>0, <1>4, <2>1, <2>2, UntouchedKept DEF TakeParameter, history, cycVars
<1>5. CASE MarkParameter
  <2>1. SegmentTypeOK'
    BY <1>5, <1>0 DEF MarkParameter, SegmentTypeOK, Values
  <2>2. ThreadTypeOK'
    BY <1>5, <1>0 DEF MarkParameter, ThreadTypeOK, NextParameter, Parameters, Following
  <2>3. QED
    BY <1>0, <1>5, <2>1, <2>2, UntouchedKept DEF MarkParameter, history, cycVars
<1>6. CASE AnswerSlave
  <2>1. ThreadTypeOK'
    BY <1>6, <1>0 DEF AnswerSlave, ThreadTypeOK
  <2>2. SignalTypeOK'
    BY <1>6, <1>0 DEF AnswerSlave, SignalTypeOK
  <2>3. QED
    BY <1>0, <1>6, <2>1, <2>2, UntouchedKept DEF AnswerSlave, history, cycVars
<1>7. QED
  BY <1>1, <1>2, <1>3, <1>4, <1>5, <1>6 DEF ProcessorThread

LEMMA DataInvKept == DataInv /\ [Next]_vars => DataInv'
<1>1. CASE UNCHANGED vars
  BY <1>1, UntouchedKept DEF vars, segVars, gateVars, cycVars, signalVars,
     DataInv, TypeOK
<1>2. QED
  BY <1>1, TickKeeps, CycleThreadKeeps, SignalThreadKeeps, StopStartKeeps,
     AsyncSignalHandlerKeeps, ProcessorThreadKeeps DEF Next

(* Every variable keeps its type: in particular the size of the error      *)
(* buffer never passes SHMSEG_ERROR_SIZE (slave.h 22), in whatever order   *)
(* the slave fills it and the master empties it.                           *)
THEOREM DataTypeCorrect == Spec => []TypeOK
<1>1. DataInv => TypeOK
  BY DEF DataInv
<1>2. QED
  BY <1>1, Initially, DataInvKept, PTL DEF Spec

=============================================================================
