--------------------------- MODULE RtcCycleProofs ---------------------------
(***************************************************************************)
(* Proofs about what the communication cycle promises when the master and  *)
(* the signal thread are done before time passes: which errors the slave   *)
(* may raise, and that each request is taken whole and once.               *)
(***************************************************************************)
EXTENDS RtcDataProofs, FiniteSetTheorems

(* Numbers of things that are the case, to be added up.                    *)
One(b) == IF b THEN 1 ELSE 0

(* set_error is entered for e and not left.                                *)
Blaming(e) ==
    cyc_pc \in {"error", "error_load", "error_store"} /\ new_error = e

-----------------------------------------------------------------------------
(* The cycle thread has passed its gate and not opened it again.           *)
Held == cyc_pc \in {"asleep", "write", "interval", "post"} \/ Blaming("interval")

(* The gate is opened once for a started cycle, and once more while a STOP *)
(* waits to close it.                                                      *)
GateKept ==
    /\ allow + One(Held) = One(cycle_started) + One(sig_pc = "stop_wait")
    /\ sig_pc = "stop_wait" => ~cycle_started

(* A request is on its way to the master or with it, its answer on its way *)
(* to the slave or with its signal thread.                                 *)
AtMaster == master_usr1 \/ sig_semaphore > 0 \/ thr_pc # "sem_wait"
AtSlave == slave_usr1 \/ sig_pc \in {"check", "response"}

(* There is one request or one answer at a time, in one place, and while   *)
(* there is one sem_s_to_m_request is locked.                              *)
OneAnswer ==
    /\ sem_s_to_m \in {0, 1}
    /\ sig_semaphore \in {0, 1}
    /\ master_usr1 => sig_semaphore = 0 /\ thr_pc = "sem_wait"
    /\ sig_semaphore = 1 => thr_pc = "sem_wait"
    /\ AtMaster => ~AtSlave
    /\ slave_usr1 => sig_pc \notin {"check", "response"}
    /\ AtMaster \/ AtSlave => sem_s_to_m = 0

(* Where the cycle thread can be meanwhile: the master answers before the  *)
(* cycle thread wakes up, the signal thread takes the answer before it     *)
(* sleeps again.                                                           *)
CycleWaits ==
    /\ AtMaster => /\ cyc_pc = "gate" \/ (cyc_pc = "asleep" /\ sleep > 0)
                   /\ sleep_us = Segments - 1
    /\ AtSlave => \/ cyc_pc \in {"gate", "asleep", "write", "interval", "post", "try"}
                  \/ Blaming("interval")
    /\ AtSlave /\ cyc_pc = "try" => threshold = sleep
    /\ cyc_pc \in {"check", "send"} \/ Blaming("late") => sem_s_to_m = 0
    /\ cyc_pc = "try" /\ threshold > 1 => sem_s_to_m = 0

(* The clocks: threshold counts the sleeps since the last sample.          *)
TimeKept ==
    /\ sleep > 0 => cyc_pc \in {"asleep", "try"}
    /\ cyc_pc # "try" => threshold = 0
    /\ cyc_pc = "try" =>
         sleep \in {0, 1} /\ sleep <= threshold /\ elapsed = threshold - sleep
    /\ cyc_pc = "post" \/ Blaming("interval") => elapsed = 0
    /\ sleep_us \in {Segments - 1, Segments}

(* The signal of the request was lost, and the slave has not noticed yet.  *)
Unanswered ==
    /\ sem_s_to_m = 0 /\ ~AtMaster /\ ~AtSlave
    /\ \/ cyc_pc \in {"gate", "asleep", "write", "interval", "post", "try"}
       \/ Blaming("interval")

LateJustified == raised["late"] + One(Unanswered) <= lost

(* The time to the next sample, when the cycle is not stopped.             *)
Ahead ==
    CASE cyc_pc = "gate" -> sleep_us
      [] cyc_pc = "asleep" -> sleep
      [] cyc_pc \in {"write", "interval"} -> 0
      [] OTHER -> Segments

(* The next interval will be found to be exceeded: the slave has waited    *)
(* for an answer that did not come.                                        *)
Overdue == cyc_pc # "try" /\ 2 * (elapsed + Ahead - Segments) > Segments

(* The cycle is stopped: how long is unknown, so that one interval may be  *)
(* exceeded, whatever it was before.                                       *)
Paused == cyc_pc = "gate" /\ allow = 0

(* The exceeded intervals still to come for what has happened.             *)
Due == IF Paused THEN 1 ELSE One(Overdue) + One(~cycle_started)

IntervalJustified == raised["interval"] + Due <= raised["late"] + pauses

CycleInv ==
    GateKept /\ OneAnswer /\ CycleWaits /\ TimeKept /\ LateJustified /\ IntervalJustified

-----------------------------------------------------------------------------
(* The counters of errors stay below their bound.                          *)
LEMMA NotSaturated ==
    ASSUME DataInv, LateJustified, IntervalJustified
    PROVE  \A e \in Errors : Count(raised[e]) = raised[e] + 1
<1>1. /\ raised["late"] \in Nat /\ raised["interval"] \in Nat
      /\ lost \in 0 .. MaxLosses /\ pauses \in 0 .. MaxPauses
      /\ MaxLosses \in Nat /\ MaxPauses \in Nat
  BY DataAssumption DEF DataInv, TypeOK, HistoryTypeOK, Errors, MaxRaised
<1>2. raised["late"] <= lost
  BY <1>1 DEF LateJustified, One
<1>3. raised["interval"] <= raised["late"] + pauses
  BY <1>1 DEF IntervalJustified, Due, One
<1>4. raised["late"] < MaxRaised /\ raised["interval"] < MaxRaised
  BY <1>1, <1>2, <1>3 DEF MaxRaised
<1>5. QED
  BY <1>1, <1>4 DEF Count, Errors

LEMMA TickCycles ==
    ASSUME Prompt, Segments > 1, DataInv, CycleInv, Tick
    PROVE  CycleInv'
<1>t. /\ Segments \in Nat /\ sem_s_to_m \in Nat /\ allow \in Nat
      /\ sleep \in 0 .. Segments /\ sleep_us \in 0 .. Segments
      /\ threshold \in 0 .. Segments /\ elapsed \in NEVER .. 3 * Segments
      /\ sig_semaphore \in Nat /\ lost \in Nat /\ pauses \in Nat
      /\ raised \in [Errors -> 0 .. MaxRaised] /\ new_error \in Errors
      /\ raised["late"] \in Nat /\ raised["interval"] \in Nat
  BY DataAssumption DEF DataInv, TypeOK, SegmentTypeOK, CycleTypeOK, ThreadTypeOK,
     SignalTypeOK, HistoryTypeOK, MaxRaised, Errors
<1>r. \A e \in Errors : Count(raised[e]) = raised[e] + 1
  BY NotSaturated DEF CycleInv
<1> USE <1>t, <1>r DEF CycleInv, Quiet, signalVars, segVars, gateVars,
        thrVars, history, NEVER, Errors
<1>1. GateKept' /\ OneAnswer' /\ LateJustified'
  BY DEF Tick, GateKept, OneAnswer, LateJustified, One, Held, Blaming,
     AtMaster, AtSlave, Unanswered, CycleWaits
<1>2. CycleWaits'
  <2>1. ~AtMaster /\ ~AtMaster'
    BY DEF Tick, AtMaster
  <2>2. UNCHANGED <<cyc_pc, sem_s_to_m, threshold, new_error, AtSlave>>
    BY DEF Tick, AtSlave
  <2>3. cyc_pc = "try" => ~AtSlave
    BY DEF Tick, AtSlave, GateKept, Held, Blaming, One
  <2>4. QED
    BY <2>1, <2>2, <2>3 DEF CycleWaits, Blaming
<1>3. TimeKept'
  BY DEF Tick, TimeKept, Blaming, CycleWaits
<1>4. IntervalJustified'
  BY DEF Tick, IntervalJustified, Due, Paused, Overdue, Ahead, One, Blaming,
     GateKept, Held, TimeKept
<1>5. QED
  BY <1>1, <1>2, <1>3, <1>4

LEMMA CycleThreadCycles ==
    ASSUME Prompt, Segments > 1, DataInv, CycleInv, CycleThread
    PROVE  CycleInv'
<1>t. /\ Segments \in Nat /\ sem_s_to_m \in Nat /\ allow \in Nat
      /\ sleep \in 0 .. Segments /\ sleep_us \in 0 .. Segments
      /\ threshold \in 0 .. Segments /\ elapsed \in NEVER .. 3 * Segments
      /\ sig_semaphore \in Nat /\ lost \in Nat /\ pauses \in Nat
      /\ raised \in [Errors -> 0 .. MaxRaised] /\ new_error \in Errors
      /\ raised["late"] \in Nat /\ raised["interval"] \in Nat
  BY DataAssumption DEF DataInv, TypeOK, SegmentTypeOK, CycleTypeOK, ThreadTypeOK,
     SignalTypeOK, HistoryTypeOK, MaxRaised, Errors
<1>r. \A e \in Errors : Count(raised[e]) = raised[e] + 1
  BY NotSaturated DEF CycleInv
<1> USE <1>t, <1>r DEF CycleInv, CycGoto, Raise, AfterError, segVars, thrVars,
        history, NEVER, Errors
<1>0. UNCHANGED <<requested, cycle_started, thrVars, slave_usr1, sig_semaphore, sig_pc>>
  BY DEF CycleThread
<1>1. CASE CycleAtGate
  <2>1. OneAnswer' /\ LateJustified'
    BY <1>0, <1>1 DEF CycleAtGate, OneAnswer, LateJustified, AtMaster,
       AtSlave, One, Unanswered, Blaming, CycleWaits
  <2>2. GateKept'
    BY <1>0, <1>1 DEF CycleAtGate, GateKept, One, Held, Blaming
  <2>3. CycleWaits'
    BY <1>0, <1>1 DEF CycleAtGate, CycleWaits, AtMaster, AtSlave, Blaming,
       OneAnswer, TimeKept
  <2>4. TimeKept'
    BY <1>0, <1>1 DEF CycleAtGate, TimeKept, Blaming, CycleWaits
  <2>5. IntervalJustified'
    BY <1>0, <1>1 DEF CycleAtGate, IntervalJustified, Due, Paused, Overdue,
       Ahead, One, Blaming, GateKept, Held, TimeKept
  <2>6. QED
    BY <2>1, <2>2, <2>3, <2>4, <2>5
<1>2. CASE WakeUp
  <2>1. GateKept' /\ OneAnswer' /\ TimeKept' /\ LateJustified'
    BY <1>0, <1>2 DEF WakeUp, GateKept, OneAnswer, TimeKept, LateJustified,
       One, Held, Blaming, AtMaster, AtSlave, CycleWaits, Unanswered
  <2>2. CycleWaits'
    BY <1>0, <1>2 DEF WakeUp, CycleWaits, AtMaster, AtSlave, Blaming,
       OneAnswer, TimeKept
  <2>3. IntervalJustified'
    BY <1>0, <1>2 DEF WakeUp, IntervalJustified, Due, Paused, Overdue, Ahead,
       One, Blaming, GateKept, Held, TimeKept
  <2>4. QED
    BY <2>1, <2>2, <2>3
<1>3. CASE WriteParameter
  BY <1>0, <1>3 DEF WriteParameter, GateKept, OneAnswer, CycleWaits, TimeKept,
     LateJustified, IntervalJustified, One, Held, Blaming, AtMaster, AtSlave,
     Unanswered, Due, Paused, Overdue, Ahead
<1>4. CASE CalculateInterval
  <2>1. GateKept' /\ OneAnswer' /\ CycleWaits' /\ LateJustified'
    BY <1>0, <1>4 DEF CalculateInterval, GateKept, OneAnswer, CycleWaits,
       LateJustified, One, Held, Blaming, AtMaster, AtSlave, TimeKept,
       Unanswered
  <2>2. TimeKept'
    BY <1>0, <1>4 DEF CalculateInterval, TimeKept, Blaming, CycleWaits
  <2>3. IntervalJustified'
    BY <1>0, <1>4 DEF CalculateInterval, IntervalJustified, Due, Paused,
       Overdue, Ahead, One, Blaming, GateKept, Held, TimeKept
  <2>4. QED
    BY <2>1, <2>2, <2>3
<1>5. CASE OpenGate
  <2>1. OneAnswer' /\ LateJustified' /\ IntervalJustified'
    BY <1>0, <1>5 DEF OpenGate, OneAnswer, LateJustified, IntervalJustified,
       AtMaster, AtSlave, One, Unanswered, Blaming, CycleWaits, Due, Paused,
       Overdue, Ahead, GateKept, Held, TimeKept
  <2>2. GateKept'
    BY <1>0, <1>5 DEF OpenGate, GateKept, One, Held, Blaming
  <2>3. CycleWaits'
    BY <1>0, <1>5 DEF OpenGate, CycleWaits, AtMaster, AtSlave, Blaming,
       OneAnswer, TimeKept
  <2>4. TimeKept'
    BY <1>0, <1>5 DEF OpenGate, TimeKept, Blaming, CycleWaits
  <2>5. QED
    BY <2>1, <2>2, <2>3, <2>4
<1>6. CASE TryLockRequest
  <2>1. GateKept' /\ OneAnswer'
    BY <1>0, <1>6 DEF TryLockRequest, GateKept, OneAnswer, One, Held, Blaming,
       AtMaster, AtSlave
  <2>2. CycleWaits'
    BY <1>0, <1>6 DEF TryLockRequest, CycleWaits, AtMaster, AtSlave, Blaming,
       OneAnswer, TimeKept
  <2>3. TimeKept'
    BY <1>0, <1>6 DEF TryLockRequest, TimeKept, Blaming, CycleWaits
  <2>4. LateJustified'
    BY <1>0, <1>6 DEF TryLockRequest, LateJustified, One, Unanswered,
       AtMaster, AtSlave, Blaming, OneAnswer, CycleWaits
  <2>5. IntervalJustified'
    BY <1>0, <1>6 DEF TryLockRequest, IntervalJustified, Due, Paused, Overdue,
       Ahead, One, Blaming, GateKept, Held, TimeKept, CycleWaits
  <2>6. QED
    BY <2>1, <2>2, <2>3, <2>4, <2>5
<1>7. CASE CheckGate
  <2>1. GateKept' /\ CycleWaits' /\ TimeKept'
    BY <1>0, <1>7 DEF CheckGate, GateKept, CycleWaits, TimeKept, One, Held,
       Blaming, AtMaster, AtSlave, OneAnswer
  <2>2. OneAnswer'
    BY <1>0, <1>7 DEF CheckGate, OneAnswer, AtMaster, AtSlave, CycleWaits,
       Blaming
  <2>3. LateJustified'
    BY <1>0, <1>7 DEF CheckGate, LateJustified, One, Unanswered, AtMaster,
       AtSlave, Blaming, OneAnswer, CycleWaits
  <2>4. IntervalJustified'
    BY <1>0, <1>7 DEF CheckGate, IntervalJustified, Due, Paused, Overdue,
       Ahead, One, Blaming, GateKept, Held, TimeKept
  <2>5. QED
    BY <2>1, <2>2, <2>3, <2>4
<1>8. CASE SendRequest
  <2>1. GateKept' /\ TimeKept'
    BY <1>0, <1>8 DEF SendRequest, GateKept, TimeKept, One, Held, Blaming,
       CycleWaits
  <2>2. OneAnswer'
    BY <1>0, <1>8 DEF SendRequest, OneAnswer, AtMaster, AtSlave, CycleWaits,
       Blaming
  <2>3. CycleWaits'
    BY <1>0, <1>8 DEF SendRequest, CycleWaits, AtMaster, AtSlave, Blaming,
       OneAnswer, TimeKept
  <2>4. LateJustified'
    BY <1>0, <1>8 DEF SendRequest, LateJustified, One, Unanswered, AtMaster,
       AtSlave, Blaming, OneAnswer, CycleWaits
  <2>5. IntervalJustified'
    <3>1. Due' <= Due
      <4>1. Paused' => ~cycle_started
        BY <1>0, <1>8 DEF SendRequest, Paused, GateKept, Held, Blaming, One
      <4>2. Overdue' => Overdue
        BY <1>0, <1>8 DEF SendRequest, Overdue, Ahead
      <4>3. ~Paused
        BY <1>8 DEF SendRequest, Paused
      <4>4. QED
        BY <1>0, <4>1, <4>2, <4>3 DEF Due, One
    <3>2. QED
      BY <1>8, <3>1 DEF SendRequest, IntervalJustified, Due, One
  <2>6. QED
    BY <2>1, <2>2, <2>3, <2>4, <2>5
<1>9. CASE WriteError
  <2>1. GateKept' /\ OneAnswer' /\ CycleWaits' /\ TimeKept' /\ LateJustified'
    BY <1>0, <1>9 DEF WriteError, GateKept, OneAnswer, CycleWaits, TimeKept,
       LateJustified, One, Held, Blaming, AtMaster, AtSlave, Unanswered
  <2>2. IntervalJustified'
    BY <1>0, <1>9 DEF WriteError, IntervalJustified, Due, Paused, Overdue,
       Ahead, One, Blaming, GateKept, Held, TimeKept
  <2>3. QED
    BY <2>1, <2>2
<1>10. CASE LoadErrorSize
  BY <1>0, <1>10 DEF LoadErrorSize, GateKept, OneAnswer, CycleWaits, TimeKept,
     LateJustified, IntervalJustified, One, Held, Blaming, AtMaster, AtSlave,
     Unanswered, Due, Paused, Overdue, Ahead
<1>11. CASE StoreErrorSize
  <2>1. GateKept' /\ OneAnswer' /\ CycleWaits' /\ TimeKept' /\ LateJustified'
    BY <1>0, <1>11 DEF StoreErrorSize, GateKept, OneAnswer, CycleWaits,
       TimeKept, LateJustified, One, Held, Blaming, AtMaster, AtSlave,
       Unanswered
  <2>2. IntervalJustified'
    BY <1>0, <1>11 DEF StoreErrorSize, IntervalJustified, Due, Paused,
       Overdue, Ahead, One, Blaming, GateKept, Held, TimeKept
  <2>3. QED
    BY <2>1, <2>2
<1>12. QED
  BY <1>1, <1>2, <1>3, <1>4, <1>5, <1>6, <1>7, <1>8, <1>9, <1>10, <1>11 DEF
     CycleThread

LEMMA SignalThreadCycles ==
    ASSUME Prompt, Segments > 1, DataInv, CycleInv, SignalThread
    PROVE  CycleInv'
<1>t. /\ Segments \in Nat /\ sem_s_to_m \in Nat /\ allow \in Nat
      /\ sleep \in 0 .. Segments /\ sleep_us \in 0 .. Segments
      /\ threshold \in 0 .. Segments /\ elapsed \in NEVER .. 3 * Segments
      /\ sig_semaphore \in Nat /\ lost \in Nat /\ pauses \in Nat
      /\ raised \in [Errors -> 0 .. MaxRaised] /\ new_error \in Errors
      /\ raised["late"] \in Nat /\ raised["interval"] \in Nat
  BY DataAssumption DEF DataInv, TypeOK, SegmentTypeOK, CycleTypeOK, ThreadTypeOK,
     SignalTypeOK, HistoryTypeOK, MaxRaised, Errors
<1>r. \A e \in Errors : Count(raised[e]) = raised[e] + 1
  BY NotSaturated DEF CycleInv
<1> USE <1>t, <1>r DEF CycleInv, cycVars, thrVars, history, NEVER, Errors
<1>0. UNCHANGED <<requested, cycle_started, value, known, shmseg_error,
                  shmseg_error_current_size, cycVars, thrVars, master_usr1,
                  sig_semaphore, history>>
  BY DEF SignalThread
<1>1. CASE ReceiveSignal
  <2>1. GateKept' /\ TimeKept' /\ LateJustified' /\ IntervalJustified'
    BY <1>0, <1>1 DEF ReceiveSignal, GateKept, TimeKept, LateJustified,
       IntervalJustified, One, Held, Blaming, CycleWaits, Unanswered,
       AtMaster, AtSlave, OneAnswer, Due, Paused, Overdue, Ahead
  <2>2. OneAnswer'
    BY <1>0, <1>1 DEF ReceiveSignal, OneAnswer, AtMaster, AtSlave
  <2>3. CycleWaits'
    BY <1>0, <1>1 DEF ReceiveSignal, CycleWaits, AtMaster, AtSlave, Blaming,
       OneAnswer, TimeKept
  <2>4. QED
    BY <2>1, <2>2, <2>3
<1>2. CASE CheckMasterResponse
  <2>1. GateKept' /\ TimeKept' /\ LateJustified' /\ IntervalJustified'
    BY <1>0, <1>2 DEF CheckMasterResponse, GateKept, TimeKept, LateJustified,
       IntervalJustified, One, Held, Blaming, CycleWaits, Unanswered,
       AtMaster, AtSlave, OneAnswer, Due, Paused, Overdue, Ahead
  <2>2. OneAnswer'
    BY <1>0, <1>2 DEF CheckMasterResponse, OneAnswer, AtMaster, AtSlave
  <2>3. CycleWaits'
    BY <1>0, <1>2 DEF CheckMasterResponse, CycleWaits, AtMaster, AtSlave,
       Blaming, OneAnswer, TimeKept
  <2>4. QED
    BY <2>1, <2>2, <2>3
<1>3. CASE HandleMasterResponse
  <2>1. GateKept' /\ TimeKept' /\ LateJustified' /\ IntervalJustified'
    BY <1>0, <1>3 DEF HandleMasterResponse, GateKept, TimeKept, LateJustified,
       IntervalJustified, One, Held, Blaming, CycleWaits, Unanswered,
       AtMaster, AtSlave, OneAnswer, Due, Paused, Overdue, Ahead
  <2>2. OneAnswer'
    BY <1>0, <1>3 DEF HandleMasterResponse, OneAnswer, AtMaster, AtSlave
  <2>3. CycleWaits'
    BY <1>0, <1>3 DEF HandleMasterResponse, CycleWaits, AtMaster, AtSlave,
       Blaming, OneAnswer, TimeKept
  <2>4. QED
    BY <2>1, <2>2, <2>3
<1>4. CASE CloseGate
  <2>1. OneAnswer' /\ CycleWaits' /\ TimeKept' /\ LateJustified'
    BY <1>0, <1>4 DEF CloseGate, OneAnswer, CycleWaits, TimeKept,
       LateJustified, AtMaster, AtSlave, Blaming, One, Unanswered
  <2>2. GateKept'
    BY <1>0, <1>4 DEF CloseGate, GateKept, One, Held, Blaming
  <2>3. IntervalJustified'
    BY <1>0, <1>4 DEF CloseGate, IntervalJustified, Due, Paused, Overdue,
       Ahead, One, Blaming, GateKept, Held, TimeKept
  <2>4. QED
    BY <2>1, <2>2, <2>3
<1>5. QED
  BY <1>1, <1>2, <1>3, <1>4 DEF SignalThread

LEMMA StopStartCycles ==
    ASSUME Prompt, Segments > 1, DataInv, CycleInv,
               HandleStopCycleSlaveRequest \/ HandleStartCycleSlaveRequest
    PROVE  CycleInv'
<1>t. /\ Segments \in Nat /\ sem_s_to_m \in Nat /\ allow \in Nat
      /\ sleep \in 0 .. Segments /\ sleep_us \in 0 .. Segments
      /\ threshold \in 0 .. Segments /\ elapsed \in NEVER .. 3 * Segments
      /\ sig_semaphore \in Nat /\ lost \in Nat /\ pauses \in Nat
      /\ raised \in [Errors -> 0 .. MaxRaised] /\ new_error \in Errors
      /\ raised["late"] \in Nat /\ raised["interval"] \in Nat
  BY DataAssumption DEF DataInv, TypeOK, SegmentTypeOK, CycleTypeOK, ThreadTypeOK,
     SignalTypeOK, HistoryTypeOK, MaxRaised, Errors
<1>r. \A e \in Errors : Count(raised[e]) = raised[e] + 1
  BY NotSaturated DEF CycleInv
<1> USE <1>t, <1>r DEF CycleInv, segVars, cycVars, thrVars, signalVars,
        history, NEVER, Errors
<1>1. CASE HandleStopCycleSlaveRequest
  <2>1. OneAnswer' /\ CycleWaits' /\ TimeKept' /\ LateJustified'
    BY <1>1 DEF HandleStopCycleSlaveRequest, OneAnswer, CycleWaits, TimeKept,
       LateJustified, AtMaster, AtSlave, Blaming, One, Unanswered
  <2>2. GateKept'
    BY <1>1 DEF HandleStopCycleSlaveRequest, GateKept, One, Held, Blaming
  <2>3. IntervalJustified'
    BY <1>1 DEF HandleStopCycleSlaveRequest, IntervalJustified, Due, Paused,
       Overdue, Ahead, One, Blaming, GateKept, Held, TimeKept
  <2>4. QED
    BY <2>1, <2>2, <2>3
<1>2. CASE HandleStartCycleSlaveRequest
  <2>1. OneAnswer' /\ CycleWaits' /\ TimeKept' /\ LateJustified'
    BY <1>2 DEF HandleStartCycleSlaveRequest, OneAnswer, CycleWaits, TimeKept,
       LateJustified, AtMaster, AtSlave, Blaming, One, Unanswered
  <2>2. GateKept'
    BY <1>2 DEF HandleStartCycleSlaveRequest, GateKept, One, Held, Blaming
  <2>3. IntervalJustified'
    BY <1>2 DEF HandleStartCycleSlaveRequest, IntervalJustified, Due, Paused,
       Overdue, Ahead, One, Blaming, GateKept, Held, TimeKept
  <2>4. QED
    BY <2>1, <2>2, <2>3
<1>3. QED
  BY <1>1, <1>2

LEMMA AsyncSignalHandlerCycles ==
    ASSUME Prompt, Segments > 1, DataInv, CycleInv, AsyncSignalHandler
    PROVE  CycleInv'
<1>t. /\ Segments \in Nat /\ sem_s_to_m \in Nat /\ allow \in Nat
      /\ sleep \in 0 .. Segments /\ sleep_us \in 0 .. Segments
      /\ threshold \in 0 .. Segments /\ elapsed \in NEVER .. 3 * Segments
      /\ sig_semaphore \in Nat /\ lost \in Nat /\ pauses \in Nat
      /\ raised \in [Errors -> 0 .. MaxRaised] /\ new_error \in Errors
      /\ raised["late"] \in Nat /\ raised["interval"] \in Nat
  BY DataAssumption DEF DataInv, TypeOK, SegmentTypeOK, CycleTypeOK, ThreadTypeOK,
     SignalTypeOK, HistoryTypeOK, MaxRaised, Errors
<1>r. \A e \in Errors : Count(raised[e]) = raised[e] + 1
  BY NotSaturated DEF CycleInv
<1> USE <1>t, <1>r DEF CycleInv, segVars, gateVars, cycVars, thrVars, history,
        NEVER, Errors
<1>1. GateKept' /\ CycleWaits' /\ TimeKept' /\ LateJustified' /\
      IntervalJustified'
  BY DEF AsyncSignalHandler, GateKept, CycleWaits, TimeKept, LateJustified,
     IntervalJustified, One, Held, Blaming, AtMaster, AtSlave, OneAnswer,
     Unanswered, Due, Paused, Overdue, Ahead
<1>2. OneAnswer'
  BY DEF AsyncSignalHandler, OneAnswer, AtMaster, AtSlave
<1>3. QED
  BY <1>1, <1>2

LEMMA ProcessorThreadCycles ==
    ASSUME Prompt, Segments > 1, DataInv, CycleInv, ProcessorThread
    PROVE  CycleInv'
<1>t. /\ Segments \in Nat /\ sem_s_to_m \in Nat /\ allow \in Nat
      /\ sleep \in 0 .. Segments /\ sleep_us \in 0 .. Segments
      /\ threshold \in 0 .. Segments /\ elapsed \in NEVER .. 3 * Segments
      /\ sig_semaphore \in Nat /\ lost \in Nat /\ pauses \in Nat
      /\ raised \in [Errors -> 0 .. MaxRaised] /\ new_error \in Errors
      /\ raised["late"] \in Nat /\ raised["interval"] \in Nat
  BY DataAssumption DEF DataInv, TypeOK, SegmentTypeOK, CycleTypeOK, ThreadTypeOK,
     SignalTypeOK, HistoryTypeOK, MaxRaised, Errors
<1>r. \A e \in Errors : Count(raised[e]) = raised[e] + 1
  BY NotSaturated DEF CycleInv
<1> USE <1>t, <1>r DEF CycleInv, ThrGoto, NextParameter, segVars, gateVars,
        cycVars, NEVER, Errors
<1>0. UNCHANGED <<requested, gateVars, cycVars, master_usr1, sig_pc, lost, pauses,
                  raised, refused>>
  BY DEF ProcessorThread
<1>1. CASE SemWait
  <2>1. GateKept' /\ CycleWaits' /\ TimeKept' /\ LateJustified' /\
        IntervalJustified'
    BY <1>0, <1>1 DEF SemWait, GateKept, CycleWaits, TimeKept, LateJustified,
       IntervalJustified, One, Held, Blaming, AtMaster, AtSlave, OneAnswer,
       Unanswered, Due, Paused, Overdue, Ahead
  <2>2. OneAnswer'
    BY <1>0, <1>1 DEF SemWait, OneAnswer, AtMaster, AtSlave
  <2>3. QED
    BY <2>1, <2>2
<1>2. CASE DrainErrors
  BY <1>0, <1>2 DEF DrainErrors, GateKept, OneAnswer, CycleWaits, TimeKept,
     LateJustified, IntervalJustified, One, Held, Blaming, AtMaster, AtSlave,
     Unanswered, Due, Paused, Overdue, Ahead
<1>3. CASE CheckSlaveRequest
  <2>1. GateKept' /\ CycleWaits' /\ TimeKept' /\ LateJustified' /\
        IntervalJustified'
    BY <1>0, <1>3 DEF CheckSlaveRequest, GateKept, CycleWaits, TimeKept,
       LateJustified, IntervalJustified, One, Held, Blaming, AtMaster,
       AtSlave, OneAnswer, Unanswered, Due, Paused, Overdue, Ahead
  <2>2. OneAnswer'
    BY <1>0, <1>3 DEF CheckSlaveRequest, OneAnswer, AtMaster, AtSlave
  <2>3. QED
    BY <2>1, <2>2
<1>4. CASE TakeParameter
  BY <1>0, <1>4 DEF TakeParameter, GateKept, OneAnswer, CycleWaits, TimeKept,
     LateJustified, IntervalJustified, One, Held, Blaming, AtMaster, AtSlave,
     Unanswered, Due, Paused, Overdue, Ahead
<1>5. CASE MarkParameter
  BY <1>0, <1>5 DEF MarkParameter, GateKept, OneAnswer, CycleWaits, TimeKept,
     LateJustified, IntervalJustified, One, Held, Blaming, AtMaster, AtSlave,
     Unanswered, Due, Paused, Overdue, Ahead
<1>6. CASE AnswerSlave
  <2>1. GateKept' /\ TimeKept' /\ LateJustified' /\ IntervalJustified'
    BY <1>0, <1>6 DEF AnswerSlave, GateKept, TimeKept, LateJustified,
       IntervalJustified, One, Held, Blaming, CycleWaits, Unanswered,
       AtMaster, AtSlave, OneAnswer, Due, Paused, Overdue, Ahead
  <2>2. OneAnswer'
    BY <1>0, <1>6 DEF AnswerSlave, OneAnswer, AtMaster, AtSlave
  <2>3. CycleWaits'
    BY <1>0, <1>6 DEF AnswerSlave, CycleWaits, AtMaster, AtSlave, Blaming,
       OneAnswer, TimeKept
  <2>4. QED
    BY <2>1, <2>2, <2>3
<1>7. QED
  BY <1>1, <1>2, <1>3, <1>4, <1>5, <1>6 DEF ProcessorThread

-----------------------------------------------------------------------------
(* p comes before q when the slave writes and the master takes them.       *)
Earlier(q) == {p \in Parameters : \/ p = "string" /\ q # "string"
                                  \/ p = "int" /\ q = "bool"}

(* Those of P that were asked for are written, or taken.                   *)
Wrote(P) == \A p \in requested \cap P : value[p] = sample
Took(P) == \A p \in requested \cap P : known[p] = sample

(* A sample was made before the first request.                             *)
SampleMade ==
    sample # UNDEFINED \/ (cyc_pc \in {"gate", "asleep"} /\ sleep_us = Segments)

(* The slave writes the sample, and the master finds it so.                *)
SampleWritten ==
    /\ cyc_pc = "write" => Wrote(Earlier(cyc_param))
    /\ cyc_pc \notin {"gate", "asleep", "write"} => Wrote(Parameters)
    /\ master_usr1 \/ sig_semaphore > 0 \/ thr_pc \in {"drain", "check"} =>
         Wrote(Parameters)

(* The master goes through it.                                             *)
SampleGoneThrough ==
    /\ thr_pc = "take" =>
         Wrote(Parameters \ Earlier(thr_param)) /\ Took(Earlier(thr_param))
    /\ thr_pc = "mark" =>
         /\ Wrote(Parameters \ (Earlier(thr_param) \cup {thr_param}))
         /\ Took(Earlier(thr_param) \cup {thr_param})

(* The master has it when it answers, and the slave when it goes on.       *)
SampleKnown ==
    /\ thr_pc = "answer" => Took(Parameters)
    /\ /\ cyc_pc \in {"gate", "asleep"} /\ sleep_us # Segments
       /\ AtSlave \/ sem_s_to_m = 1
       => Took(Parameters)

SampleInv == SampleMade /\ SampleWritten /\ SampleGoneThrough /\ SampleKnown

LEMMA TickSamples ==
    ASSUME Prompt, Segments > 1, DataInv, CycleInv, SampleInv, Tick
    PROVE  SampleInv'
<1>t. /\ Segments \in Nat /\ allow \in Nat /\ Rounds \in Nat \ {0}
      /\ sem_s_to_m \in {0, 1} /\ sig_semaphore \in {0, 1}
      /\ sleep \in 0 .. Segments /\ sleep_us \in 0 .. Segments
      /\ requested \subseteq Parameters
      /\ value \in [Parameters -> Values] /\ known \in [Parameters -> Values]
      /\ sample \in Values /\ cyc_param \in Parameters
      /\ thr_param \in Parameters /\ new_error \in Errors
  BY DataAssumption DEF DataInv, TypeOK, SegmentTypeOK, CycleTypeOK, ThreadTypeOK,
     CycleInv, OneAnswer
<1> USE <1>t DEF SampleInv, Quiet, signalVars, segVars, gateVars, thrVars,
        history, NEVER, Errors, Parameters, UNDEFINED
<1>1. QED
  BY DEF Tick, SampleMade, SampleWritten, SampleGoneThrough, SampleKnown, Wrote,
   Earlier, Took, AtSlave, CycleInv, CycleWaits, TimeKept, OneAnswer,
   AtMaster, Blaming

LEMMA CycleThreadSamples ==
    ASSUME Prompt, Segments > 1, DataInv, CycleInv, SampleInv, CycleThread
    PROVE  SampleInv'
<1>t. /\ Segments \in Nat /\ allow \in Nat /\ Rounds \in Nat \ {0}
      /\ sem_s_to_m \in {0, 1} /\ sig_semaphore \in {0, 1}
      /\ sleep \in 0 .. Segments /\ sleep_us \in 0 .. Segments
      /\ requested \subseteq Parameters
      /\ value \in [Parameters -> Values] /\ known \in [Parameters -> Values]
      /\ sample \in Values /\ cyc_param \in Parameters
      /\ thr_param \in Parameters /\ new_error \in Errors
  BY DataAssumption DEF DataInv, TypeOK, SegmentTypeOK, CycleTypeOK, ThreadTypeOK,
     CycleInv, OneAnswer
<1> USE <1>t DEF SampleInv, CycGoto, Raise, AfterError, segVars, thrVars,
        history, NEVER, Errors, Parameters, UNDEFINED
<1>0. UNCHANGED <<requested, cycle_started, thrVars, slave_usr1, sig_semaphore, sig_pc>>
  BY DEF CycleThread
<1>1. CASE CycleAtGate
  BY <1>0, <1>1 DEF CycleAtGate, SampleMade, SampleWritten, SampleGoneThrough,
     SampleKnown, Wrote, Earlier, Took, AtSlave, CycleInv, CycleWaits,
     TimeKept, OneAnswer, AtMaster, Blaming
<1>2. CASE WakeUp
  <2>1. SampleWritten' /\ SampleGoneThrough' /\ SampleKnown'
    BY <1>0, <1>2 DEF WakeUp, SampleWritten, SampleGoneThrough, SampleKnown,
       Wrote, Earlier, Took, AtSlave, CycleInv, CycleWaits, TimeKept,
       OneAnswer, AtMaster, Blaming
  <2>2. SampleMade'
    <3>1. sample + 1 \in Nat
      BY DEF Values
    <3>2. (sample + 1) % Rounds \in Nat
      BY <3>1
    <3>3. QED
      BY <1>2, <3>2 DEF WakeUp, SampleMade
  <2>3. QED
    BY <2>1, <2>2
<1>3. CASE WriteParameter
  <2>1. SampleMade' /\ SampleGoneThrough' /\ SampleKnown'
    BY <1>0, <1>3 DEF WriteParameter, SampleMade, SampleGoneThrough,
       SampleKnown, Wrote, Took, Earlier, AtSlave, CycleInv, CycleWaits,
       TimeKept, OneAnswer, AtMaster, Blaming, Following
  <2>2. SampleWritten'
    BY <1>0, <1>3 DEF WriteParameter, SampleWritten, Wrote, Earlier, CycleInv,
       CycleWaits, TimeKept, OneAnswer, AtMaster, AtSlave, Blaming, Following
  <2>3. QED
    BY <2>1, <2>2
<1>4. CASE CalculateInterval
  BY <1>0, <1>4 DEF CalculateInterval, SampleMade, SampleWritten,
     SampleGoneThrough, SampleKnown, Wrote, Earlier, Took, AtSlave, CycleInv,
     CycleWaits, TimeKept, OneAnswer, AtMaster, Blaming
<1>5. CASE OpenGate
  BY <1>0, <1>5 DEF OpenGate, SampleMade, SampleWritten, SampleGoneThrough,
     SampleKnown, Wrote, Earlier, Took, AtSlave, CycleInv, CycleWaits,
     TimeKept, OneAnswer, AtMaster, Blaming
<1>6. CASE TryLockRequest
  BY <1>0, <1>6 DEF TryLockRequest, SampleMade, SampleWritten,
     SampleGoneThrough, SampleKnown, Wrote, Earlier, Took, AtSlave, CycleInv,
     CycleWaits, TimeKept, OneAnswer, AtMaster, Blaming
<1>7. CASE CheckGate
  <2>1. SampleMade' /\ SampleWritten' /\ SampleGoneThrough'
    BY <1>0, <1>7 DEF CheckGate, SampleMade, SampleWritten, SampleGoneThrough,
       Wrote, Earlier, Took, CycleInv, CycleWaits, TimeKept, OneAnswer,
       AtMaster, AtSlave, Blaming
  <2>2. SampleKnown'
    BY <1>0, <1>7 DEF CheckGate, SampleKnown, Took, AtSlave, CycleInv,
       CycleWaits, TimeKept, OneAnswer, AtMaster, Blaming
  <2>3. QED
    BY <2>1, <2>2
<1>8. CASE SendRequest
  <2>1. SampleMade' /\ SampleWritten' /\ SampleGoneThrough'
    BY <1>0, <1>8 DEF SendRequest, SampleMade, SampleWritten,
       SampleGoneThrough, Wrote, Earlier, Took, CycleInv, CycleWaits,
       TimeKept, OneAnswer, AtMaster, AtSlave, Blaming
  <2>2. SampleKnown'
    BY <1>0, <1>8 DEF SendRequest, SampleKnown, Took, AtSlave, CycleInv,
       CycleWaits, TimeKept, OneAnswer, AtMaster, Blaming
  <2>3. QED
    BY <2>1, <2>2
<1>9. CASE WriteError
  BY <1>0, <1>9 DEF WriteError, SampleMade, SampleWritten, SampleGoneThrough,
     SampleKnown, Wrote, Earlier, Took, AtSlave, CycleInv, CycleWaits,
     TimeKept, OneAnswer, AtMaster, Blaming
<1>10. CASE LoadErrorSize
  BY <1>0, <1>10 DEF LoadErrorSize, SampleMade, SampleWritten,
     SampleGoneThrough, SampleKnown, Wrote, Earlier, Took, AtSlave, CycleInv,
     CycleWaits, TimeKept, OneAnswer, AtMaster, Blaming
<1>11. CASE StoreErrorSize
  BY <1>0, <1>11 DEF StoreErrorSize, SampleMade, SampleWritten,
     SampleGoneThrough, SampleKnown, Wrote, Earlier, Took, AtSlave, CycleInv,
     CycleWaits, TimeKept, OneAnswer, AtMaster, Blaming
<1>12. QED
  BY <1>1, <1>2, <1>3, <1>4, <1>5, <1>6, <1>7, <1>8, <1>9, <1>10, <1>11 DEF
     CycleThread

LEMMA SignalThreadSamples ==
    ASSUME Prompt, Segments > 1, DataInv, CycleInv, SampleInv, SignalThread
    PROVE  SampleInv'
<1>t. /\ Segments \in Nat /\ allow \in Nat /\ Rounds \in Nat \ {0}
      /\ sem_s_to_m \in {0, 1} /\ sig_semaphore \in {0, 1}
      /\ sleep \in 0 .. Segments /\ sleep_us \in 0 .. Segments
      /\ requested \subseteq Parameters
      /\ value \in [Parameters -> Values] /\ known \in [Parameters -> Values]
      /\ sample \in Values /\ cyc_param \in Parameters
      /\ thr_param \in Parameters /\ new_error \in Errors
  BY DataAssumption DEF DataInv, TypeOK, SegmentTypeOK, CycleTypeOK, ThreadTypeOK,
     CycleInv, OneAnswer
<1> USE <1>t DEF SampleInv, cycVars, thrVars, history, NEVER, Errors,
        Parameters, UNDEFINED
<1>0. UNCHANGED <<requested, cycle_started, value, known, shmseg_error,
                  shmseg_error_current_size, cycVars, thrVars, master_usr1,
                  sig_semaphore, history>>
  BY DEF SignalThread
<1>1. CASE ReceiveSignal
  BY <1>0, <1>1 DEF ReceiveSignal, SampleMade, SampleWritten,
     SampleGoneThrough, SampleKnown, Wrote, Earlier, Took, AtSlave, CycleInv,
     CycleWaits, TimeKept, OneAnswer, AtMaster, Blaming
<1>2. CASE CheckMasterResponse
  BY <1>0, <1>2 DEF CheckMasterResponse, SampleMade, SampleWritten,
     SampleGoneThrough, SampleKnown, Wrote, Earlier, Took, AtSlave, CycleInv,
     CycleWaits, TimeKept, OneAnswer, AtMaster, Blaming
<1>3. CASE HandleMasterResponse
  <2>1. SampleMade' /\ SampleWritten' /\ SampleGoneThrough'
    BY <1>0, <1>3 DEF HandleMasterResponse, SampleMade, SampleWritten,
       SampleGoneThrough, Wrote, Earlier, Took, CycleInv, CycleWaits,
       TimeKept, OneAnswer, AtMaster, AtSlave, Blaming
  <2>2. SampleKnown'
    BY <1>0, <1>3 DEF HandleMasterResponse, SampleKnown, Took, AtSlave,
       CycleInv, CycleWaits, TimeKept, OneAnswer, AtMaster, Blaming
  <2>3. QED
    BY <2>1, <2>2
<1>4. CASE CloseGate
  BY <1>0, <1>4 DEF CloseGate, SampleMade, SampleWritten, SampleGoneThrough,
     SampleKnown, Wrote, Earlier, Took, AtSlave, CycleInv, CycleWaits,
     TimeKept, OneAnswer, AtMaster, Blaming
<1>5. QED
  BY <1>1, <1>2, <1>3, <1>4 DEF SignalThread

LEMMA StopStartSamples ==
    ASSUME Prompt, Segments > 1, DataInv, CycleInv, SampleInv,
               HandleStopCycleSlaveRequest \/ HandleStartCycleSlaveRequest
    PROVE  SampleInv'
<1>t. /\ Segments \in Nat /\ allow \in Nat /\ Rounds \in Nat \ {0}
      /\ sem_s_to_m \in {0, 1} /\ sig_semaphore \in {0, 1}
      /\ sleep \in 0 .. Segments /\ sleep_us \in 0 .. Segments
      /\ requested \subseteq Parameters
      /\ value \in [Parameters -> Values] /\ known \in [Parameters -> Values]
      /\ sample \in Values /\ cyc_param \in Parameters
      /\ thr_param \in Parameters /\ new_error \in Errors
  BY DataAssumption DEF DataInv, TypeOK, SegmentTypeOK, CycleTypeOK, ThreadTypeOK,
     CycleInv, OneAnswer
<1> USE <1>t DEF SampleInv, segVars, cycVars, thrVars, signalVars, history,
        NEVER, Errors, Parameters, UNDEFINED
<1>1. CASE HandleStopCycleSlaveRequest
  BY <1>1 DEF HandleStopCycleSlaveRequest, SampleMade, SampleWritten,
     SampleGoneThrough, SampleKnown, Wrote, Earlier, Took, AtSlave, CycleInv,
     CycleWaits, TimeKept, OneAnswer, AtMaster, Blaming
<1>2. CASE HandleStartCycleSlaveRequest
  BY <1>2 DEF HandleStartCycleSlaveRequest, SampleMade, SampleWritten,
     SampleGoneThrough, SampleKnown, Wrote, Earlier, Took, AtSlave, CycleInv,
     CycleWaits, TimeKept, OneAnswer, AtMaster, Blaming
<1>3. QED
  BY <1>1, <1>2

LEMMA AsyncSignalHandlerSamples ==
    ASSUME Prompt, Segments > 1, DataInv, CycleInv, SampleInv,
               AsyncSignalHandler
    PROVE  SampleInv'
<1>t. /\ Segments \in Nat /\ allow \in Nat /\ Rounds \in Nat \ {0}
      /\ sem_s_to_m \in {0, 1} /\ sig_semaphore \in {0, 1}
      /\ sleep \in 0 .. Segments /\ sleep_us \in 0 .. Segments
      /\ requested \subseteq Parameters
      /\ value \in [Parameters -> Values] /\ known \in [Parameters -> Values]
      /\ sample \in Values /\ cyc_param \in Parameters
      /\ thr_param \in Parameters /\ new_error \in Errors
  BY DataAssumption DEF DataInv, TypeOK, SegmentTypeOK, CycleTypeOK, ThreadTypeOK,
     CycleInv, OneAnswer
<1> USE <1>t DEF SampleInv, segVars, gateVars, cycVars, thrVars, history,
        NEVER, Errors, Parameters, UNDEFINED
<1>1. QED
  BY DEF AsyncSignalHandler, SampleMade, SampleWritten, SampleGoneThrough,
   SampleKnown, Wrote, Earlier, Took, AtSlave, CycleInv, CycleWaits, TimeKept,
   OneAnswer, AtMaster, Blaming

LEMMA ProcessorThreadSamples ==
    ASSUME Prompt, Segments > 1, DataInv, CycleInv, SampleInv, ProcessorThread
    PROVE  SampleInv'
<1>t. /\ Segments \in Nat /\ allow \in Nat /\ Rounds \in Nat \ {0}
      /\ sem_s_to_m \in {0, 1} /\ sig_semaphore \in {0, 1}
      /\ sleep \in 0 .. Segments /\ sleep_us \in 0 .. Segments
      /\ requested \subseteq Parameters
      /\ value \in [Parameters -> Values] /\ known \in [Parameters -> Values]
      /\ sample \in Values /\ cyc_param \in Parameters
      /\ thr_param \in Parameters /\ new_error \in Errors
  BY DataAssumption DEF DataInv, TypeOK, SegmentTypeOK, CycleTypeOK, ThreadTypeOK,
     CycleInv, OneAnswer
<1> USE <1>t DEF SampleInv, ThrGoto, NextParameter, FoundUndefined, segVars,
        gateVars, cycVars, NEVER, Errors, Parameters, UNDEFINED
<1>0. UNCHANGED <<requested, gateVars, cycVars, master_usr1, sig_pc, lost, pauses,
                  raised, refused>>
  BY DEF ProcessorThread
<1>1. CASE SemWait
  BY <1>0, <1>1 DEF SemWait, SampleMade, SampleWritten, SampleGoneThrough,
     SampleKnown, Wrote, Earlier, Took, AtSlave, CycleInv, CycleWaits,
     TimeKept, OneAnswer, AtMaster, Blaming
<1>2. CASE DrainErrors
  BY <1>0, <1>2 DEF DrainErrors, SampleMade, SampleWritten, SampleGoneThrough,
     SampleKnown, Wrote, Earlier, Took, AtSlave, CycleInv, CycleWaits,
     TimeKept, OneAnswer, AtMaster, Blaming
<1>3. CASE CheckSlaveRequest
  <2>1. SampleMade' /\ SampleWritten' /\ SampleKnown'
    BY <1>0, <1>3 DEF CheckSlaveRequest, SampleMade, SampleWritten,
       SampleKnown, Wrote, Earlier, Took, AtSlave, CycleInv, CycleWaits,
       TimeKept, OneAnswer, AtMaster, Blaming
  <2>2. SampleGoneThrough'
    BY <1>0, <1>3 DEF CheckSlaveRequest, SampleGoneThrough, Wrote, Took,
       Earlier, SampleWritten, CycleInv, CycleWaits, TimeKept, OneAnswer,
       AtMaster, AtSlave, Blaming
  <2>3. QED
    BY <2>1, <2>2
<1>4. CASE TakeParameter
  <2>1. SampleMade' /\ SampleWritten'
    BY <1>0, <1>4 DEF TakeParameter, SampleMade, SampleWritten, Wrote,
       Earlier, CycleInv, CycleWaits, TimeKept, OneAnswer, AtMaster, AtSlave,
       Blaming, Following
  <2>2. SampleGoneThrough'
    <3>1. sample # UNDEFINED
      BY <1>4 DEF TakeParameter, SampleMade, CycleInv, CycleWaits, AtMaster
    <3>2. thr_param \in requested => value[thr_param] = sample
      BY <1>4 DEF TakeParameter, SampleGoneThrough, Wrote, Earlier
    <3>3. CASE thr_param \notin requested
      <4>1. UNCHANGED <<known, value>> /\ NextParameter(thr_param)
        BY <1>4, <3>3 DEF TakeParameter
      <4>2. CASE thr_param = "string"
        <5>1. thr_pc' = "take" /\ thr_param' = "int"
          BY <4>1, <4>2 DEF Following
        <5>2. QED
          BY <1>0, <1>4, <3>3, <4>1, <4>2, <5>1 DEF TakeParameter, SampleGoneThrough, Wrote, Took, Earlier
      <4>3. CASE thr_param = "int"
        <5>1. thr_pc' = "take" /\ thr_param' = "bool"
          BY <4>1, <4>3 DEF Following
        <5>2. QED
          BY <1>0, <1>4, <3>3, <4>1, <4>3, <5>1 DEF TakeParameter, SampleGoneThrough, Wrote, Took, Earlier
      <4>4. CASE thr_param = "bool"
        BY <4>1, <4>4 DEF SampleGoneThrough, Following
      <4>5. QED
        BY <4>2, <4>3, <4>4
    <3>4. CASE thr_param \in requested
      <4>1. known' = [known EXCEPT ![thr_param] = sample] /\ thr_pc' = "mark"
        BY <1>4, <3>1, <3>2, <3>4 DEF TakeParameter
      <4>2. QED
        BY <1>0, <1>4, <3>4, <4>1 DEF TakeParameter, SampleGoneThrough, Wrote, Took, Earlier
    <3>5. QED
      BY <3>3, <3>4
  <2>3. SampleKnown'
    <3>1. sem_s_to_m' = 0 /\ ~AtSlave'
      BY <1>0, <1>4 DEF TakeParameter, CycleInv, OneAnswer, AtMaster, AtSlave
    <3>2. ASSUME thr_pc' = "answer" PROVE Took(Parameters)'
      BY <1>0, <1>4, <3>2 DEF TakeParameter, SampleGoneThrough, Took, Earlier, Following
    <3>3. QED
      BY <3>1, <3>2 DEF SampleKnown
  <2>4. QED
    BY <2>1, <2>2, <2>3
<1>5. CASE MarkParameter
  <2>1. SampleMade' /\ SampleWritten'
    BY <1>0, <1>5 DEF MarkParameter, SampleMade, SampleWritten, Wrote,
       Earlier, CycleInv, CycleWaits, TimeKept, OneAnswer, AtMaster, AtSlave,
       Blaming, Following
  <2>2. SampleGoneThrough'
    BY <1>0, <1>5 DEF MarkParameter, SampleGoneThrough, Wrote, Took, Earlier,
       CycleInv, CycleWaits, TimeKept, OneAnswer, AtMaster, AtSlave, Blaming,
       Following
  <2>3. SampleKnown'
    <3>1. sem_s_to_m' = 0 /\ ~AtSlave'
      BY <1>0, <1>5 DEF MarkParameter, CycleInv, OneAnswer, AtMaster, AtSlave
    <3>2. ASSUME thr_pc' = "answer" PROVE Took(Parameters)'
      BY <1>0, <1>5, <3>2 DEF MarkParameter, SampleGoneThrough, Took, Earlier, Following
    <3>3. QED
      BY <3>1, <3>2 DEF SampleKnown
  <2>4. QED
    BY <2>1, <2>2, <2>3
<1>6. CASE AnswerSlave
  <2>1. SampleMade' /\ SampleWritten' /\ SampleGoneThrough'
    BY <1>0, <1>6 DEF AnswerSlave, SampleMade, SampleWritten,
       SampleGoneThrough, Wrote, Earlier, Took, CycleInv, CycleWaits,
       TimeKept, OneAnswer, AtMaster, AtSlave, Blaming
  <2>2. SampleKnown'
    BY <1>0, <1>6 DEF AnswerSlave, SampleKnown, Took, AtSlave, CycleInv,
       CycleWaits, TimeKept, OneAnswer, AtMaster, Blaming
  <2>3. QED
    BY <2>1, <2>2
<1>7. QED
  BY <1>1, <1>2, <1>3, <1>4, <1>5, <1>6 DEF ProcessorThread

-----------------------------------------------------------------------------
(* The errors of the buffer that the master has not logged.                *)
Places(buffer, first, size, e) == {i \in first .. size - 1 : buffer[i] = e}
Left(e) == Places(shmseg_error, drained, shmseg_error_current_size, e)

(* The buffer is filled behind what the master empties, and set_error puts *)
(* the error into the place that it adds.                                  *)
BufferKept ==
    /\ thr_pc # "drain" => drained = 0
    /\ drained <= shmseg_error_current_size
    /\ cyc_pc = "error_store" => read_size = shmseg_error_current_size
    /\ cyc_pc \in {"error_load", "error_store"} =>
         shmseg_error[shmseg_error_current_size] = new_error

(* An error that was raised is logged, refused, left in the buffer or      *)
(* about to be put there.                                                  *)
Accounted ==
    \A e \in Errors :
        raised[e] = logged[e] + refused[e] + Cardinality(Left(e)) + One(Blaming(e))

AccountInv == BufferKept /\ Accounted

LEMMA PlacesFinite ==
    ASSUME NEW buffer, NEW first \in Nat, NEW size \in Nat, NEW e
    PROVE  /\ IsFiniteSet(Places(buffer, first, size, e))
           /\ Cardinality(Places(buffer, first, size, e)) \in Nat
<1>1. IsFiniteSet(first .. size - 1)
  BY FS_Interval
<1>2. IsFiniteSet(Places(buffer, first, size, e))
  BY <1>1, FS_Subset DEF Places
<1>3. QED
  BY <1>2, FS_CardinalityType

(* What is left of e is one less when a place with e is looked at, and one *)
(* more when a place with e is added.                                      *)
LEMMA PlacesCounted ==
    ASSUME NEW P, IsFiniteSet(P), Cardinality(P) \in Nat, NEW i
    PROVE  /\ i \in P => Cardinality(P) = Cardinality(P \ {i}) + 1
           /\ i \notin P => Cardinality(P \cup {i}) = Cardinality(P) + 1
<1>1. i \in P => Cardinality(P \ {i}) = Cardinality(P) - 1
  BY FS_RemoveElement
<1>2. i \notin P => Cardinality(P \cup {i}) = Cardinality(P) + 1
  BY FS_AddElement
<1>3. QED
  BY <1>1, <1>2

(* None of the counters of errors is at its bound.                         *)
LEMMA CountersFree ==
    ASSUME DataInv, CycleInv, Accounted
    PROVE  \A e \in Errors : /\ Count(raised[e]) = raised[e] + 1
                             /\ Count(logged[e]) = logged[e] + 1
                             /\ Count(refused[e]) = refused[e] + 1
<1> SUFFICES ASSUME NEW e \in Errors
             PROVE  /\ Count(raised[e]) = raised[e] + 1
                    /\ Count(logged[e]) = logged[e] + 1
                    /\ Count(refused[e]) = refused[e] + 1
  OBVIOUS
<1>1. raised[e] \in 0 .. MaxRaised /\ logged[e] \in 0 .. MaxRaised
      /\ refused[e] \in 0 .. MaxRaised /\ MaxRaised \in Nat
  BY DataAssumption DEF DataInv, TypeOK, HistoryTypeOK, MaxRaised
<1>2. Count(raised[e]) = raised[e] + 1
  BY NotSaturated DEF CycleInv
<1>3. raised[e] # MaxRaised
  BY <1>1, <1>2 DEF Count
<1>4. raised[e] = logged[e] + refused[e] + Cardinality(Left(e)) + One(Blaming(e))
  BY DEF Accounted
<1>5. Cardinality(Left(e)) \in Nat /\ One(Blaming(e)) \in Nat
  BY PlacesFinite DEF DataInv, TypeOK, SegmentTypeOK, ThreadTypeOK, Left, One
<1>6. QED
  BY <1>1, <1>2, <1>3, <1>4, <1>5 DEF Count

(* A step that leaves the errors alone.                                    *)
LEMMA AccountUntouched ==
    ASSUME AccountInv,
           UNCHANGED <<shmseg_error, shmseg_error_current_size, drained, read_size,
                       new_error, raised, logged, refused>>,
           /\ cyc_pc' \in {"error", "error_load", "error_store"}
                <=> cyc_pc \in {"error", "error_load", "error_store"}
           /\ cyc_pc' \in {"error_load", "error_store"} => cyc_pc' = cyc_pc,
           thr_pc' # "drain" => drained = 0
    PROVE  AccountInv'
<1>1. BufferKept'
  BY DEF AccountInv, BufferKept
<1>2. ASSUME NEW e \in Errors PROVE Left(e)' = Left(e) /\ Blaming(e)' = Blaming(e)
  BY DEF Left, Blaming
<1>3. Accounted'
  BY <1>2 DEF AccountInv, Accounted, One
<1>4. QED
  BY <1>1, <1>3 DEF AccountInv

LEMMA CycleThreadAccounts ==
    ASSUME Prompt, Segments > 1, DataInv, DataInv', CycleInv, AccountInv, CycleThread
    PROVE  AccountInv'
<1>h. /\ raised \in [Errors -> Nat] /\ logged \in [Errors -> Nat]
      /\ refused \in [Errors -> Nat]
  BY DataAssumption DEF DataInv, TypeOK, HistoryTypeOK, MaxRaised
<1>t. /\ new_error \in Errors
      /\ shmseg_error_current_size \in 0 .. ErrorSize /\ ErrorSize \in Nat
      /\ drained \in 0 .. ErrorSize /\ read_size \in 0 .. ErrorSize
      /\ shmseg_error \in [0 .. ErrorSize - 1 -> Errors \cup {"empty"}]
  BY DataAssumption DEF DataInv, TypeOK, SegmentTypeOK, CycleTypeOK, ThreadTypeOK
<1>n. \A e \in Errors : /\ IsFiniteSet(Left(e)) /\ Cardinality(Left(e)) \in Nat
                        /\ Cardinality(Left(e)') \in Nat
  BY PlacesFinite DEF DataInv, TypeOK, SegmentTypeOK, ThreadTypeOK, Left
<1>c. \A e \in Errors : /\ Count(raised[e]) = raised[e] + 1
                        /\ Count(refused[e]) = refused[e] + 1
  BY CountersFree DEF AccountInv
<1>0. UNCHANGED <<thrVars, sig_semaphore>>
  BY DEF CycleThread
<1>1. CASE CycleAtGate \/ WakeUp \/ WriteParameter \/ OpenGate \/ CheckGate \/ SendRequest
  BY <1>0, <1>1, AccountUntouched DEF CycleAtGate, WakeUp, WriteParameter, OpenGate,
     CheckGate, SendRequest, CycGoto, AccountInv, BufferKept, segVars, thrVars, history
<1>2. ASSUME NEW e0 \in Errors, Raise(e0), cyc_pc' = "error",
             cyc_pc \notin {"error", "error_load", "error_store"},
             UNCHANGED <<shmseg_error, shmseg_error_current_size, refused, logged>>
      PROVE  AccountInv'
  <2>1. BufferKept'
    BY <1>0, <1>2 DEF AccountInv, BufferKept, thrVars
  <2>2. ASSUME NEW e \in Errors
        PROVE  raised'[e] = logged'[e] + refused'[e] + Cardinality(Left(e)')
                            + One(Blaming(e)')
    <3>1. Left(e)' = Left(e) /\ One(Blaming(e)) = 0
      BY <1>0, <1>2 DEF Left, Blaming, thrVars, One
    <3>2. raised'[e] = raised[e] + One(Blaming(e)')
      BY <1>2, <1>h, <1>c DEF Raise, Blaming, One
    <3>3. raised[e] = logged[e] + refused[e] + Cardinality(Left(e)) + One(Blaming(e))
      BY DEF AccountInv, Accounted
    <3>4. One(Blaming(e)') \in Nat
      BY DEF One
    <3>5. QED
      BY <1>2, <1>h, <1>n, <3>1, <3>2, <3>3, <3>4
  <2>3. QED
    BY <2>1, <2>2 DEF AccountInv, Accounted
<1>3. CASE CalculateInterval
  <2>1. CASE cyc_pc' = "error"
    BY <1>2, <1>3, <2>1 DEF CalculateInterval, CycGoto, segVars, Errors
  <2>2. CASE cyc_pc' # "error"
    BY <1>0, <1>3, <2>2, AccountUntouched DEF CalculateInterval, CycGoto, AccountInv,
       BufferKept, segVars, thrVars
  <2>3. QED
    BY <2>1, <2>2
<1>4. CASE TryLockRequest
  <2>1. CASE cyc_pc' = "error"
    BY <1>2, <1>4, <2>1 DEF TryLockRequest, CycGoto, Errors
  <2>2. CASE cyc_pc' # "error"
    BY <1>0, <1>4, <2>2, AccountUntouched DEF TryLockRequest, CycGoto, AccountInv,
       BufferKept, thrVars
  <2>3. QED
    BY <2>1, <2>2
<1>5. CASE WriteError
  <2>1. BufferKept'
    BY <1>0, <1>5, <1>t DEF WriteError, CycGoto, AfterError, AccountInv, BufferKept, thrVars
  <2>2. ASSUME NEW e \in Errors
        PROVE  raised'[e] = logged'[e] + refused'[e] + Cardinality(Left(e)')
                            + One(Blaming(e)')
    <3>1. Left(e)' = Left(e)
      BY <1>0, <1>5, <1>t DEF WriteError, Left, Places, thrVars
    <3>2. refused'[e] + One(Blaming(e)') = refused[e] + One(Blaming(e))
      BY <1>5, <1>h, <1>t, <1>c DEF WriteError, CycGoto, AfterError, Blaming, One
    <3>3. raised[e] = logged[e] + refused[e] + Cardinality(Left(e)) + One(Blaming(e))
      BY DEF AccountInv, Accounted
    <3>4. One(Blaming(e)) \in Nat /\ One(Blaming(e)') \in Nat /\ refused'[e] \in Nat
      BY DEF DataInv, TypeOK, HistoryTypeOK, MaxRaised, One
    <3>5. raised' = raised /\ logged' = logged
      BY <1>5 DEF WriteError
    <3>6. QED
      BY <1>h, <1>n, <3>1, <3>2, <3>3, <3>4, <3>5
  <2>3. QED
    BY <2>1, <2>2 DEF AccountInv, Accounted
<1>6. CASE LoadErrorSize
  <2>1. BufferKept'
    BY <1>0, <1>6 DEF LoadErrorSize, CycGoto, AccountInv, BufferKept, thrVars, segVars
  <2>2. ASSUME NEW e \in Errors PROVE Left(e)' = Left(e) /\ Blaming(e)' = Blaming(e)
    BY <1>0, <1>6 DEF LoadErrorSize, CycGoto, Left, Blaming, thrVars, segVars
  <2>3. Accounted'
    BY <1>6, <2>2 DEF LoadErrorSize, AccountInv, Accounted, One, history
  <2>4. QED
    BY <2>1, <2>3 DEF AccountInv
<1>7. CASE StoreErrorSize
  <2>1. BufferKept'
    BY <1>0, <1>7, <1>t DEF StoreErrorSize, CycGoto, AfterError, AccountInv, BufferKept, thrVars
  <2>2. /\ shmseg_error' = shmseg_error /\ drained' = drained
        /\ drained <= shmseg_error_current_size
        /\ shmseg_error_current_size' = shmseg_error_current_size + 1
        /\ shmseg_error[shmseg_error_current_size] = new_error
    BY <1>0, <1>7 DEF StoreErrorSize, CycGoto, AccountInv, BufferKept, thrVars
  <2>3. ASSUME NEW e \in Errors
        PROVE  raised'[e] = logged'[e] + refused'[e] + Cardinality(Left(e)')
                            + One(Blaming(e)')
    <3>1. One(Blaming(e)') = 0 /\ One(Blaming(e)) = IF e = new_error THEN 1 ELSE 0
      BY <1>7 DEF StoreErrorSize, CycGoto, AfterError, Blaming, One
    <3>2. Cardinality(Left(e)') = Cardinality(Left(e)) + One(Blaming(e))
      <4>1. CASE e = new_error
        <5>1. shmseg_error_current_size \notin Left(e)
          BY <1>t DEF Left, Places
        <5>2. Left(e)' = Left(e) \cup {shmseg_error_current_size}
          BY <1>t, <2>2, <4>1 DEF Left, Places
        <5>3. Cardinality(Left(e)') = Cardinality(Left(e)) + 1
          BY <1>n, <5>1, <5>2, PlacesCounted
        <5>4. QED
          BY <3>1, <4>1, <5>3
      <4>2. CASE e # new_error
        <5>1. Left(e)' = Left(e)
          BY <1>t, <2>2, <4>2 DEF Left, Places
        <5>2. QED
          BY <1>n, <3>1, <4>2, <5>1
      <4>3. QED
        BY <4>1, <4>2
    <3>3. raised[e] = logged[e] + refused[e] + Cardinality(Left(e)) + One(Blaming(e))
      BY DEF AccountInv, Accounted
    <3>4. UNCHANGED <<raised, logged, refused>>
      BY <1>7 DEF StoreErrorSize, history
    <3>5. One(Blaming(e)) \in Nat
      BY DEF One
    <3>6. QED
      BY <1>h, <1>n, <3>1, <3>2, <3>3, <3>4, <3>5
  <2>4. QED
    BY <2>1, <2>3 DEF AccountInv, Accounted
<1>8. QED
  BY <1>1, <1>3, <1>4, <1>5, <1>6, <1>7 DEF CycleThread

LEMMA ProcessorThreadAccounts ==
    ASSUME Prompt, Segments > 1, DataInv, DataInv', CycleInv, AccountInv, ProcessorThread
    PROVE  AccountInv'
<1>t. /\ raised \in [Errors -> Nat] /\ logged \in [Errors -> Nat]
      /\ refused \in [Errors -> Nat]
      /\ shmseg_error_current_size \in 0 .. ErrorSize /\ ErrorSize \in Nat
      /\ drained \in 0 .. ErrorSize
      /\ shmseg_error \in [0 .. ErrorSize - 1 -> Errors \cup {"empty"}]
  BY DataAssumption DEF DataInv, TypeOK, SegmentTypeOK, ThreadTypeOK, HistoryTypeOK, MaxRaised
<1>n. \A e \in Errors : /\ IsFiniteSet(Left(e)) /\ Cardinality(Left(e)) \in Nat
                        /\ Cardinality(Left(e)') \in Nat
  BY PlacesFinite DEF DataInv, TypeOK, SegmentTypeOK, ThreadTypeOK, Left
<1>0. UNCHANGED <<cycVars, raised, refused>>
  BY DEF ProcessorThread
<1>1. CASE SemWait \/ CheckSlaveRequest \/ TakeParameter \/ MarkParameter \/ AnswerSlave
  <2>1. UNCHANGED <<shmseg_error, shmseg_error_current_size, drained, logged>>
    BY <1>1 DEF SemWait, CheckSlaveRequest, TakeParameter, MarkParameter, AnswerSlave, segVars
  <2>2. thr_pc # "drain"
    BY <1>1 DEF SemWait, CheckSlaveRequest, TakeParameter, MarkParameter, AnswerSlave, ThrGoto
  <2>3. QED
    BY <1>0, <2>1, <2>2, AccountUntouched DEF AccountInv, BufferKept, cycVars
<1>2. CASE DrainErrors
  <2>0. cyc_pc \notin {"error", "error_load", "error_store"}
    BY <1>2 DEF DrainErrors, CycleInv, CycleWaits, AtMaster
  <2>1. ~Blaming("late") /\ ~Blaming("interval") /\ UNCHANGED <<raised, refused, cyc_pc>>
    BY <1>0, <2>0 DEF Blaming, cycVars
  <2>2. CASE drained < shmseg_error_current_size
    <3>1. BufferKept'
      BY <1>0, <1>2, <1>t, <2>0, <2>2 DEF DrainErrors, AccountInv, BufferKept, cycVars
    <3>2. ASSUME NEW e \in Errors
          PROVE  logged'[e] + Cardinality(Left(e)') = logged[e] + Cardinality(Left(e))
      <4>1. CASE shmseg_error[drained] = e
        <5>1. drained \in Left(e)
          BY <1>t, <2>2, <4>1 DEF Left, Places
        <5>2. Left(e)' = Left(e) \ {drained}
          BY <1>2, <1>t, <2>2 DEF DrainErrors, Left, Places
        <5>3. Cardinality(Left(e)) = Cardinality(Left(e)') + 1
          BY <1>n, <5>1, <5>2, PlacesCounted
        <5>4. logged'[e] = logged[e] + 1
          BY <1>2, <2>2, <4>1, CountersFree DEF DrainErrors, AccountInv
        <5>5. QED
          BY <1>t, <1>n, <5>3, <5>4
      <4>2. CASE shmseg_error[drained] # e
        <5>1. Left(e)' = Left(e)
          BY <1>2, <1>t, <2>2, <4>2 DEF DrainErrors, Left, Places
        <5>2. QED
          BY <1>2, <2>2, <4>2, <5>1 DEF DrainErrors
      <4>3. QED
        BY <4>1, <4>2
    <3>3. \A e \in Errors : logged'[e] \in Nat
      BY DEF DataInv, TypeOK, HistoryTypeOK, MaxRaised
    <3>4. Accounted'
      <4>1. ASSUME NEW e \in Errors PROVE One(Blaming(e)) = 0 /\ One(Blaming(e)') = 0
        BY <2>0, <2>1 DEF Blaming, One
      <4>2. QED
        BY <1>t, <1>n, <2>1, <3>2, <3>3, <4>1 DEF AccountInv, Accounted
    <3>5. QED
      BY <3>1, <3>4 DEF AccountInv
  <2>3. CASE ~(drained < shmseg_error_current_size)
    <3>1. UNCHANGED <<logged, shmseg_error>> /\ shmseg_error_current_size' = 0 /\ drained' = 0
      BY <1>2, <2>3 DEF DrainErrors
    <3>2. BufferKept'
      BY <1>0, <2>0, <3>1 DEF AccountInv, BufferKept, cycVars
    <3>3. ASSUME NEW e \in Errors PROVE Left(e)' = Left(e) /\ Blaming(e)' = Blaming(e)
      <4>1. Left(e) = {} /\ Left(e)' = {}
        BY <1>t, <2>3, <3>1 DEF Left, Places
      <4>2. QED
        BY <1>0, <4>1 DEF Blaming, cycVars
    <3>4. Accounted'
      BY <2>1, <3>1, <3>3 DEF AccountInv, Accounted, One
    <3>5. QED
      BY <3>2, <3>4 DEF AccountInv
  <2>4. QED
    BY <2>2, <2>3
<1>3. QED
  BY <1>1, <1>2 DEF ProcessorThread

LEMMA OthersAccount ==
    ASSUME AccountInv,
           \/ Tick \/ SignalThread \/ AsyncSignalHandler
           \/ HandleStopCycleSlaveRequest \/ HandleStartCycleSlaveRequest
    PROVE  AccountInv'
<1>1. UNCHANGED <<segVars, cyc_pc>> \/ UNCHANGED <<shmseg_error, shmseg_error_current_size, cyc_pc>>
  BY DEF Tick, SignalThread, AsyncSignalHandler, HandleStopCycleSlaveRequest,
     HandleStartCycleSlaveRequest, cycVars, segVars
<1>2. UNCHANGED <<thr_pc, drained, read_size, new_error, raised, logged, refused>>
  BY DEF Tick, SignalThread, AsyncSignalHandler, HandleStopCycleSlaveRequest,
     HandleStartCycleSlaveRequest, cycVars, thrVars, history
<1>3. QED
  BY <1>1, <1>2, AccountUntouched DEF segVars, AccountInv, BufferKept

-----------------------------------------------------------------------------
ExchangeInv == DataInv /\ CycleInv /\ SampleInv /\ AccountInv

LEMMA ExchangeInitially ==
    ASSUME Segments > 1, Init
    PROVE  ExchangeInv
<1> USE DataAssumption DEF Init
<1>1. DataInv
  BY Initially
<1>2. CycleInv
  BY DEF CycleInv, GateKept, OneAnswer, CycleWaits, TimeKept, LateJustified,
     IntervalJustified, One, Held, Blaming, AtMaster, AtSlave, Unanswered, Due,
     Paused, Overdue, Ahead, Errors, NEVER
<1>3. SampleInv
  BY DEF SampleInv, SampleMade, SampleWritten, SampleGoneThrough, SampleKnown
<1>4. ASSUME NEW e \in Errors
      PROVE  raised[e] = logged[e] + refused[e] + Cardinality(Left(e)) + One(Blaming(e))
  <2>1. Left(e) = {} /\ One(Blaming(e)) = 0
    BY DEF Left, Places, One, Blaming
  <2>2. Cardinality(Left(e)) = 0
    BY <2>1, FS_EmptySet
  <2>3. raised[e] = 0 /\ logged[e] = 0 /\ refused[e] = 0
    OBVIOUS
  <2>4. QED
    BY <2>1, <2>2, <2>3
<1>5. AccountInv
  BY <1>4 DEF AccountInv, BufferKept, Accounted
<1>6. QED
  BY <1>1, <1>2, <1>3, <1>5 DEF ExchangeInv

LEMMA ExchangeKept ==
    ASSUME Prompt, Segments > 1, ExchangeInv, [Next]_vars
    PROVE  ExchangeInv'
<1> USE DEF ExchangeInv
<1>1. DataInv'
  BY DataInvKept
<1>2. CASE UNCHANGED vars
  <2> USE <1>2 DEF vars, segVars, gateVars, cycVars, thrVars, signalVars, history
  <2>1. CycleInv'
    BY DEF CycleInv, GateKept, OneAnswer, CycleWaits, TimeKept, LateJustified,
       IntervalJustified, One, Held, Blaming, AtMaster, AtSlave, Unanswered, Due,
       Paused, Overdue, Ahead
  <2>2. SampleInv'
    BY DEF SampleInv, SampleMade, SampleWritten, SampleGoneThrough, SampleKnown,
       Wrote, Took, Earlier, AtSlave
  <2>3. AccountInv'
    BY AccountUntouched DEF AccountInv, BufferKept
  <2>4. QED
    BY <1>1, <2>1, <2>2, <2>3
<1>3. CASE Next
  <2>1. CycleInv'
    BY <1>3, TickCycles, CycleThreadCycles, SignalThreadCycles, StopStartCycles,
       AsyncSignalHandlerCycles, ProcessorThreadCycles DEF Next
  <2>2. SampleInv'
    BY <1>3, TickSamples, CycleThreadSamples, SignalThreadSamples, StopStartSamples,
       AsyncSignalHandlerSamples, ProcessorThreadSamples DEF Next
  <2>3. AccountInv'
    BY <1>1, <1>3, CycleThreadAccounts, ProcessorThreadAccounts, OthersAccount DEF Next
  <2>4. QED
    BY <1>1, <2>1, <2>2, <2>3
<1>4. QED
  BY <1>2, <1>3

LEMMA ExchangeInvariant ==
    ASSUME Prompt, Segments > 1
    PROVE  Spec => []ExchangeInv
<1>1. Init => ExchangeInv
  BY ExchangeInitially
<1>2. ExchangeInv /\ [Next]_vars => ExchangeInv'
  BY ExchangeKept
<1>3. QED
  BY <1>1, <1>2, PTL DEF Spec

(* However many signals get lost and however often the cycle is stopped,   *)
(* the slave blames the master for a late answer at most once for each     *)
(* lost signal, and the cycle for its length at most once more for each    *)
(* stop (slave.c 50, 343): with more than one segment, of which slave.h    *)
(* has 20.                                                                 *)
THEOREM ErrorsJustifiedCorrect ==
    ASSUME Prompt, Segments > 1
    PROVE  Spec => []ErrorsJustified
<1>1. ExchangeInv => ErrorsJustified
  <2> SUFFICES ASSUME ExchangeInv PROVE ErrorsJustified
    OBVIOUS
  <2>1. /\ raised["late"] \in Nat /\ raised["interval"] \in Nat
        /\ lost \in Nat /\ pauses \in Nat
    BY DataAssumption DEF ExchangeInv, DataInv, TypeOK, HistoryTypeOK, Errors, MaxRaised
  <2>2. raised["late"] <= lost
    BY <2>1 DEF ExchangeInv, CycleInv, LateJustified, One
  <2>3. raised["interval"] <= raised["late"] + pauses
    BY <2>1 DEF ExchangeInv, CycleInv, IntervalJustified, Due, One
  <2>4. QED
    BY <2>1, <2>2, <2>3 DEF ErrorsJustified
<1>2. QED
  BY <1>1, ExchangeInvariant, PTL

(* The thread of the master copies the sample that the slave last wrote,   *)
(* whole: no lost signal and no stop brings the next sample between the    *)
(* copies (slave.c 102, master.c 654).                                     *)
THEOREM SampleWholeCorrect ==
    ASSUME Prompt, Segments > 1
    PROVE  Spec => []SampleWhole
<1>1. ExchangeInv => SampleWhole
  BY DEF ExchangeInv, DataInv, TypeOK, ThreadTypeOK, SampleInv, SampleGoneThrough,
     Wrote, Earlier, SampleWhole
<1>2. QED
  BY <1>1, ExchangeInvariant, PTL

(* The slave that may make the next request has had the last one taken:    *)
(* every parameter that was asked for is known as it was sampled           *)
(* (master.c 662, 673, 685).                                               *)
THEOREM SampleTakenCorrect ==
    ASSUME Prompt, Segments > 1
    PROVE  Spec => []SampleTaken
<1>1. ExchangeInv => SampleTaken
  BY DEF ExchangeInv, DataInv, TypeOK, SegmentTypeOK, SampleInv, SampleKnown, Took,
     SampleTaken
<1>2. QED
  BY <1>1, ExchangeInvariant, PTL

(* No error is dropped between set_error of the slave and the log of the   *)
(* master, though the two of them write the size of the buffer without a   *)
(* lock (slave.h 19, master.c 611).                                        *)
THEOREM ErrorsAccountedCorrect ==
    ASSUME Prompt, Segments > 1
    PROVE  Spec => []ErrorsAccounted
<1>1. ExchangeInv => ErrorsAccounted
  <2> SUFFICES ASSUME ExchangeInv, NEW e \in Errors, Quiet,
                      cyc_pc \notin {"error", "error_load", "error_store"}
               PROVE  raised[e] = logged[e] + refused[e] + Buffered(e)
    BY DEF ErrorsAccounted
  <2>1. raised[e] = logged[e] + refused[e] + Cardinality(Left(e)) + One(Blaming(e))
    BY DEF ExchangeInv, AccountInv, Accounted
  <2>2. One(Blaming(e)) = 0
    BY DEF One, Blaming
  <2>3. Cardinality(Left(e)) = Buffered(e)
    <3>1. drained = 0
      BY DEF ExchangeInv, AccountInv, BufferKept, Quiet
    <3>2. QED
      BY <3>1 DEF Left, Places, Buffered
  <2>4. /\ logged[e] \in Nat /\ refused[e] \in Nat /\ Cardinality(Left(e)) \in Nat
    BY PlacesFinite DEF ExchangeInv, DataInv, TypeOK, HistoryTypeOK, SegmentTypeOK,
       ThreadTypeOK, Left, MaxRaised
  <2>5. QED
    BY <2>1, <2>2, <2>3, <2>4
<1>2. QED
  BY <1>1, ExchangeInvariant, PTL

(* A value once known is not replaced by the undefined one, a bool neither *)
(* (common.h, above last_known_bool_value): the missing test of master.c   *)
(* 685 shows only when the master is slower than the timeout of the slave. *)
THEOREM UndefinedNotRecordedWhenPrompt ==
    ASSUME Prompt, Segments > 1
    PROVE  Spec => UndefinedNotRecorded
<1>1. ASSUME ExchangeInv, [Next]_vars, NEW p \in Parameters, known'[p] = UNDEFINED
      PROVE  known[p] = UNDEFINED
  <2>1. CASE UNCHANGED known
    BY <1>1, <2>1
  <2>2. CASE TakeParameter
    <3>1. known \in [Parameters -> Values] /\ thr_param \in Parameters
      BY <1>1 DEF ExchangeInv, DataInv, TypeOK, SegmentTypeOK, ThreadTypeOK
    <3>2. thr_param \in requested => value[thr_param] # UNDEFINED
      BY <1>1, <2>2, <3>1 DEF TakeParameter, ExchangeInv, SampleInv, SampleMade,
         SampleGoneThrough, Wrote, Earlier, CycleInv, CycleWaits, AtMaster, TypeOK,
         DataInv, CycleTypeOK, DataAssumption
    <3>3. QED
      BY <1>1, <2>2, <3>1, <3>2 DEF TakeParameter
  <2>3. UNCHANGED known \/ TakeParameter
    BY <1>1 DEF Next, vars, Tick, CycleThread, CycleAtGate, WakeUp, WriteParameter,
       CalculateInterval, OpenGate, TryLockRequest, CheckGate, SendRequest, WriteError,
       LoadErrorSize, StoreErrorSize, SignalThread, AsyncSignalHandler,
       HandleStopCycleSlaveRequest, HandleStartCycleSlaveRequest, ProcessorThread,
       SemWait, DrainErrors, CheckSlaveRequest, MarkParameter, AnswerSlave, segVars
  <2>4. QED
    BY <2>1, <2>2, <2>3
<1>2. ExchangeInv /\ [Next]_vars =>
        [\A p \in Parameters : known'[p] = UNDEFINED => known[p] = UNDEFINED]_vars
  BY <1>1
<1>3. QED
  BY <1>2, ExchangeInvariant, PTL DEF Spec, UndefinedNotRecorded

=============================================================================
