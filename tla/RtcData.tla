------------------------------ MODULE RtcData -------------------------------
(***************************************************************************)
(* The communication cycle in time: a slave whose cycle runs samples the   *)
(* requested parameters, asks the master to take them and reports what     *)
(* went wrong through the error buffer of its segment; the thread of the   *)
(* master logs the errors, takes the parameters and answers. Other slaves  *)
(* appear only in that their signal, when it is pending, makes one of this *)
(* slave get lost. The cycle may be stopped and started again, by a STOP   *)
(* or START whose signal the slave does not take for a response (that it   *)
(* may is in module Rtc).                                                  *)
(*                                                                         *)
(* Time counts in the sleeps of the loop that waits for the master, of     *)
(* which a cycle has Segments. It passes while the cycle thread sleeps.    *)
(***************************************************************************)
EXTENDS Integers, FiniteSets

CONSTANTS
    Segments,      \* WAIT_MASTER_RESPONSE_TIMEOUT_SEGMENTS
    ErrorSize,     \* SHMSEG_ERROR_SIZE
    Rounds,        \* bound: samples are told apart modulo this
    MaxLosses,     \* bound: signals of this slave that get lost
    MaxPosts,      \* bound: signals that wait for the thread of the master
    MaxPauses,     \* bound: times the cycle is stopped
    Prompt         \* the master and the signal thread are done before time passes

ASSUME DataAssumption ==
    /\ Segments \in Nat \ {0}
    /\ ErrorSize \in Nat
    /\ Rounds \in Nat \ {0}
    /\ MaxLosses \in Nat
    /\ MaxPosts \in Nat \ {0}
    /\ MaxPauses \in Nat
    /\ Prompt \in BOOLEAN

Parameters == {"string", "int", "bool"}

(* The order in which the slave and the master go through them.            *)
Following == [string |-> "int", int |-> "bool", bool |-> "none"]

UNDEFINED == -1   \* STRING_, INT_ and BOOL_VALUE_UNDEFINED

NEVER == -1       \* last_communication_timeval is zero

Errors == {"late", "interval"}

VARIABLES
    requested,    \* requested_parameters, set before the cycle is started
    value,        \* string_value, int_value, bool_value
    known,        \* last_known_...
    sem_s_to_m,   \* sem_s_to_m_request
    cycle_started,
    allow,        \* allow_communication_cycle, the gate
    shmseg_error,
    shmseg_error_current_size,
    \* the cycle thread
    cyc_pc, cyc_param, threshold,
    sleep,        \* time left of the sleep it is in
    sleep_us,     \* time of the next one
    elapsed,      \* since last_communication_timeval
    sample,       \* rand_value
    new_error, read_size,
    \* signals and the other threads
    master_usr1, slave_usr1, sig_semaphore, sig_pc,
    thr_pc, thr_param, drained,
    \* what has happened
    lost, pauses, raised, refused, logged

gateVars == <<cycle_started, allow>>
segVars == <<value, known, sem_s_to_m, shmseg_error, shmseg_error_current_size>>
cycVars == <<cyc_pc, cyc_param, threshold, sleep, sleep_us, elapsed, sample,
             new_error, read_size>>
thrVars == <<thr_pc, thr_param, drained>>
signalVars == <<master_usr1, slave_usr1, sig_semaphore, sig_pc>>
history == <<lost, pauses, raised, refused, logged>>
vars == <<requested, segVars, gateVars, cycVars, thrVars, signalVars, history>>

MaxRaised == 2 * MaxLosses + MaxPauses + 1   \* bound of the counters of errors
Count(n) == IF n = MaxRaised THEN n ELSE n + 1

Values == (0 .. Rounds - 1) \cup {UNDEFINED}

SegmentTypeOK ==
    /\ requested \in (SUBSET Parameters) \ {{}}
    /\ value \in [Parameters -> Values]
    /\ known \in [Parameters -> Values]
    /\ sem_s_to_m \in Nat
    /\ cycle_started \in BOOLEAN
    /\ allow \in Nat
    /\ shmseg_error \in [0 .. ErrorSize - 1 -> Errors \cup {"empty"}]
    /\ shmseg_error_current_size \in 0 .. ErrorSize

CycleTypeOK ==
    /\ cyc_pc \in {"gate", "asleep", "write", "interval", "post", "try", "check",
                   "send", "error", "error_load", "error_store"}
    /\ cyc_param \in Parameters
    /\ sleep \in 0 .. Segments
    /\ sleep_us \in 0 .. Segments
    /\ threshold \in 0 .. Segments
    /\ elapsed \in NEVER .. 3 * Segments
    /\ sample \in Values
    /\ new_error \in Errors
    /\ read_size \in 0 .. ErrorSize

ThreadTypeOK ==
    /\ sig_semaphore \in 0 .. MaxPosts
    /\ sig_pc \in {"sigwait", "check", "response", "stop_wait"}
    /\ thr_pc \in {"sem_wait", "drain", "check", "take", "mark", "answer"}
    /\ thr_param \in Parameters
    /\ drained \in 0 .. ErrorSize

SignalTypeOK == master_usr1 \in BOOLEAN /\ slave_usr1 \in BOOLEAN

HistoryTypeOK ==
    /\ lost \in 0 .. MaxLosses
    /\ pauses \in 0 .. MaxPauses
    /\ raised \in [Errors -> 0 .. MaxRaised]
    /\ refused \in [Errors -> 0 .. MaxRaised]
    /\ logged \in [Errors -> 0 .. MaxRaised]

TypeOK ==
    SegmentTypeOK /\ CycleTypeOK /\ ThreadTypeOK /\ SignalTypeOK /\ HistoryTypeOK

(* The cycle has just been started, and the first sleep is a whole cycle.  *)
Init ==
    /\ requested \in (SUBSET Parameters) \ {{}}
    /\ value = [p \in Parameters |-> UNDEFINED]
    /\ known = [p \in Parameters |-> UNDEFINED]
    /\ sem_s_to_m = 1
    /\ cycle_started = TRUE
    /\ allow = 1
    /\ shmseg_error = [i \in 0 .. ErrorSize - 1 |-> "empty"]
    /\ shmseg_error_current_size = 0
    /\ cyc_pc = "gate"
    /\ cyc_param = "string"
    /\ sleep = 0
    /\ sleep_us = Segments
    /\ threshold = 0
    /\ elapsed = NEVER
    /\ sample = UNDEFINED
    /\ new_error = "late"
    /\ read_size = 0
    /\ master_usr1 = FALSE
    /\ slave_usr1 = FALSE
    /\ sig_semaphore = 0
    /\ sig_pc = "sigwait"
    /\ thr_pc = "sem_wait"
    /\ thr_param = "string"
    /\ drained = 0
    /\ lost = 0
    /\ pauses = 0
    /\ raised = [e \in Errors |-> 0]
    /\ refused = [e \in Errors |-> 0]
    /\ logged = [e \in Errors |-> 0]

-----------------------------------------------------------------------------
(* Nobody but the cycle thread has anything to do.                         *)
Quiet ==
    /\ ~master_usr1 /\ sig_semaphore = 0 /\ thr_pc = "sem_wait"
    /\ \/ sig_pc = "sigwait" /\ ~slave_usr1
       \/ sig_pc = "stop_wait" /\ allow = 0

Tick ==
    /\ sleep > 0 \/ (cyc_pc = "gate" /\ allow = 0)
    /\ Prompt => Quiet
    /\ sleep' = IF sleep = 0 THEN 0 ELSE sleep - 1
    /\ elapsed' = IF elapsed \in {NEVER, 3 * Segments} THEN elapsed ELSE elapsed + 1
    /\ UNCHANGED <<requested, segVars, gateVars, cyc_pc, cyc_param, threshold,
                   sleep_us, sample, new_error, read_size, thrVars, signalVars,
                   history>>

-----------------------------------------------------------------------------
(* slave_communication_cycle_detached_thread.                              *)
CycGoto(from, to) ==
    /\ sleep = 0
    /\ cyc_pc = from
    /\ cyc_pc' = to

(* set_error is entered for e.                                             *)
Raise(e) ==
    /\ new_error' = e
    /\ raised' = [raised EXCEPT ![e] = Count(@)]

CycleAtGate ==
    /\ allow > 0
    /\ CycGoto("gate", "asleep")
    /\ allow' = allow - 1
    /\ sleep' = sleep_us
    /\ UNCHANGED <<segVars, cyc_param, threshold, sleep_us, elapsed, sample,
                   new_error, read_size, master_usr1, history>>

WakeUp ==
    /\ CycGoto("asleep", "write")
    /\ sample' = (sample + 1) % Rounds
    /\ cyc_param' = "string"
    /\ UNCHANGED <<segVars, allow, sleep, sleep_us, threshold, elapsed,
                   new_error, read_size, master_usr1, history>>

WriteParameter ==
    LET following == Following[cyc_param]
    IN  /\ CycGoto("write", IF following = "none" THEN "interval" ELSE "write")
        /\ cyc_param' = IF following = "none" THEN "string" ELSE following
        /\ value' = IF cyc_param \in requested
                    THEN [value EXCEPT ![cyc_param] = sample] ELSE value
        /\ UNCHANGED <<known, sem_s_to_m, shmseg_error,
                       shmseg_error_current_size, allow, sleep, sleep_us,
                       threshold, elapsed, sample, new_error, read_size,
                       master_usr1, history>>

(* Mutant: the time of the last sample is kept as the reference.           *)
CalculateInterval_NoUpdate ==
    LET exceeded == elapsed # NEVER /\ 2 * (elapsed - Segments) > Segments
    IN  /\ CycGoto("interval", IF exceeded THEN "error" ELSE "post")
        /\ IF exceeded THEN Raise("interval") ELSE UNCHANGED <<new_error, raised>>
        /\ elapsed' = IF elapsed = NEVER THEN 0 ELSE elapsed
        /\ UNCHANGED <<segVars, allow, cyc_param, sleep, sleep_us, threshold,
                       sample, read_size, master_usr1, lost, pauses, refused,
                       logged>>

(* calculate_parameter_communication_interval: more than half a cycle too  *)
(* late is an error. A STOP does not reset the time of the last sample.    *)
CalculateInterval ==
    LET exceeded == elapsed # NEVER /\ 2 * (elapsed - Segments) > Segments
    IN  /\ CycGoto("interval", IF exceeded THEN "error" ELSE "post")
        /\ IF exceeded THEN Raise("interval") ELSE UNCHANGED <<new_error, raised>>
        /\ elapsed' = 0
        /\ UNCHANGED <<segVars, allow, cyc_param, sleep, sleep_us, threshold,
                       sample, read_size, master_usr1, lost, pauses, refused,
                       logged>>

OpenGate ==
    /\ CycGoto("post", "try")
    /\ allow' = allow + 1
    /\ UNCHANGED <<segVars, cyc_param, sleep, sleep_us, threshold, elapsed,
                   sample, new_error, read_size, master_usr1, history>>

(* Mutant: the loop waits for the lock as long as it takes.                *)
TryLockRequest_NeverGivesUp ==
    /\ CycGoto("try", IF sem_s_to_m > 0 THEN "check" ELSE "try")
    /\ sem_s_to_m' = IF sem_s_to_m > 0 THEN sem_s_to_m - 1 ELSE 0
    /\ sleep' = IF sem_s_to_m > 0 THEN 0 ELSE 1
    /\ UNCHANGED <<value, known, shmseg_error, shmseg_error_current_size, allow,
                   cyc_param, sleep_us, threshold, elapsed, sample, new_error,
                   read_size, master_usr1, history>>

TryLockRequest ==
    /\ \/ /\ sem_s_to_m > 0
          /\ CycGoto("try", "check")
          /\ sem_s_to_m' = sem_s_to_m - 1
          /\ threshold' = 0
          /\ UNCHANGED <<sleep, new_error, raised>>
       \/ /\ sem_s_to_m = 0
          /\ threshold = Segments
          /\ CycGoto("try", "error")
          /\ Raise("late")
          /\ threshold' = 0
          /\ UNCHANGED <<sleep, sem_s_to_m>>
       \/ /\ sem_s_to_m = 0
          /\ threshold < Segments
          /\ CycGoto("try", "try")
          /\ threshold' = threshold + 1
          /\ sleep' = 1
          /\ UNCHANGED <<sem_s_to_m, new_error, raised>>
    /\ UNCHANGED <<value, known, shmseg_error, shmseg_error_current_size, allow,
                   cyc_param, sleep_us, elapsed, sample, read_size, master_usr1,
                   lost, pauses, refused, logged>>

(* A closed gate means that the cycle was stopped: the lock is released,   *)
(* taken or not, and the next sleep is a whole cycle.                      *)
CheckGate ==
    /\ \/ /\ allow > 0
          /\ CycGoto("check", "send")
          /\ UNCHANGED <<sem_s_to_m, sleep_us>>
       \/ /\ allow = 0
          /\ CycGoto("check", "gate")
          /\ sem_s_to_m' = sem_s_to_m + 1
          /\ sleep_us' = Segments
    /\ UNCHANGED <<value, known, shmseg_error, shmseg_error_current_size, allow,
                   cyc_param, sleep, threshold, elapsed, sample, new_error,
                   read_size, master_usr1, history>>

(* Mutant: what the function returns is the time of a whole cycle.         *)
SendRequest_NoSleep ==
    /\ CycGoto("send", "gate")
    /\ sleep_us' = 0
    /\ \/ master_usr1' = TRUE /\ UNCHANGED lost
       \/ lost < MaxLosses /\ lost' = lost + 1 /\ UNCHANGED master_usr1
    /\ UNCHANGED <<segVars, allow, cyc_param, sleep, threshold, elapsed, sample,
                   new_error, read_size, pauses, raised, refused, logged>>

(* The master is signalled, and when another slave's SIGUSR1 is pending    *)
(* this one is lost. The function returns the length of one sleep of its   *)
(* loop, which is taken off the next sleep of the cycle.                   *)
SendRequest ==
    /\ CycGoto("send", "gate")
    /\ sleep_us' = Segments - 1
    /\ \/ master_usr1' = TRUE /\ UNCHANGED lost
       \/ lost < MaxLosses /\ lost' = lost + 1 /\ UNCHANGED master_usr1
    /\ UNCHANGED <<segVars, allow, cyc_param, sleep, threshold, elapsed, sample,
                   new_error, read_size, pauses, raised, refused, logged>>

AfterError == IF new_error = "late" THEN "check" ELSE "post"

(* Mutant: one error more than the buffer has room for is accepted.        *)
WriteError_OffByOne ==
    /\ IF shmseg_error_current_size <= ErrorSize
       THEN /\ CycGoto("error", "error_load")
            /\ shmseg_error' =
                 [shmseg_error EXCEPT ![shmseg_error_current_size] = new_error]
            /\ UNCHANGED refused
       ELSE /\ CycGoto("error", AfterError)
            /\ refused' = [refused EXCEPT ![new_error] = Count(@)]
            /\ UNCHANGED shmseg_error
    /\ UNCHANGED <<value, known, sem_s_to_m, shmseg_error_current_size,
                   allow, cyc_param, sleep, sleep_us, threshold, elapsed, sample,
                   new_error, read_size, master_usr1, lost, pauses, raised,
                   logged>>

(* set_error: the size is compared, the string written, and the size       *)
(* loaded, incremented and stored. Then the cycle goes on.                 *)
WriteError ==
    /\ IF shmseg_error_current_size < ErrorSize
       THEN /\ CycGoto("error", "error_load")
            /\ shmseg_error' =
                 [shmseg_error EXCEPT ![shmseg_error_current_size] = new_error]
            /\ UNCHANGED refused
       ELSE /\ CycGoto("error", AfterError)
            /\ refused' = [refused EXCEPT ![new_error] = Count(@)]
            /\ UNCHANGED shmseg_error
    /\ UNCHANGED <<value, known, sem_s_to_m, shmseg_error_current_size,
                   allow, cyc_param, sleep, sleep_us, threshold, elapsed, sample,
                   new_error, read_size, master_usr1, lost, pauses, raised,
                   logged>>

LoadErrorSize ==
    /\ CycGoto("error_load", "error_store")
    /\ read_size' = shmseg_error_current_size
    /\ UNCHANGED <<segVars, allow, cyc_param, sleep, sleep_us, threshold, elapsed,
                   sample, new_error, master_usr1, history>>

StoreErrorSize ==
    /\ CycGoto("error_store", AfterError)
    /\ shmseg_error_current_size' = read_size + 1
    /\ read_size' = 0
    /\ UNCHANGED <<value, known, sem_s_to_m, shmseg_error, allow, cyc_param,
                   sleep, sleep_us, threshold, elapsed, sample, new_error,
                   master_usr1, history>>

CycleThread ==
    /\ \/ CycleAtGate \/ WakeUp \/ WriteParameter \/ CalculateInterval
       \/ OpenGate \/ TryLockRequest \/ CheckGate \/ SendRequest
       \/ WriteError \/ LoadErrorSize \/ StoreErrorSize
    /\ UNCHANGED <<requested, cycle_started, thrVars, slave_usr1, sig_semaphore,
                   sig_pc>>

-----------------------------------------------------------------------------
(* signal_handler_thread of the slave.                                     *)
ReceiveSignal ==
    /\ sig_pc = "sigwait"
    /\ slave_usr1
    /\ slave_usr1' = FALSE
    /\ sig_pc' = "check"
    /\ UNCHANGED <<sem_s_to_m, allow>>

CheckMasterResponse ==
    /\ sig_pc = "check"
    /\ sig_pc' = IF sem_s_to_m = 0 THEN "response" ELSE "sigwait"
    /\ UNCHANGED <<slave_usr1, sem_s_to_m, allow>>

HandleMasterResponse ==
    /\ sig_pc = "response"
    /\ sig_pc' = "sigwait"
    /\ sem_s_to_m' = sem_s_to_m + 1
    /\ UNCHANGED <<slave_usr1, allow>>

CloseGate ==
    /\ sig_pc = "stop_wait"
    /\ allow > 0
    /\ allow' = allow - 1
    /\ sig_pc' = "sigwait"
    /\ UNCHANGED <<slave_usr1, sem_s_to_m>>

SignalThread ==
    /\ ReceiveSignal \/ CheckMasterResponse \/ HandleMasterResponse \/ CloseGate
    /\ UNCHANGED <<requested, cycle_started, value, known, shmseg_error,
                   shmseg_error_current_size, cycVars, thrVars, master_usr1,
                   sig_semaphore, history>>

(* The signal of a STOP or START comes when no response is awaited.        *)
HandleStopCycleSlaveRequest ==
    /\ sig_pc = "sigwait" /\ sem_s_to_m > 0
    /\ cycle_started
    /\ pauses < MaxPauses
    /\ cycle_started' = FALSE
    /\ sig_pc' = "stop_wait"
    /\ pauses' = pauses + 1
    /\ UNCHANGED <<allow, requested, segVars, cycVars, thrVars, master_usr1,
                   slave_usr1, sig_semaphore, lost, raised, refused, logged>>

HandleStartCycleSlaveRequest ==
    /\ sig_pc = "sigwait" /\ sem_s_to_m > 0
    /\ ~cycle_started
    /\ cycle_started' = TRUE
    /\ allow' = allow + 1
    /\ UNCHANGED <<requested, segVars, cycVars, thrVars, signalVars, history>>

-----------------------------------------------------------------------------
(* async_signal_handler of the master.                                     *)
AsyncSignalHandler ==
    /\ master_usr1
    /\ sig_semaphore < MaxPosts
    /\ master_usr1' = FALSE
    /\ sig_semaphore' = sig_semaphore + 1
    /\ UNCHANGED <<requested, segVars, gateVars, cycVars, thrVars, slave_usr1,
                   sig_pc, history>>

(* slave_processor_detached_thread.                                        *)
ThrGoto(from, to) ==
    /\ thr_pc = from
    /\ thr_pc' = to

SemWait ==
    /\ sig_semaphore > 0
    /\ sig_semaphore' = sig_semaphore - 1
    /\ ThrGoto("sem_wait", IF shmseg_error_current_size > 0 THEN "drain" ELSE "check")
    /\ UNCHANGED <<segVars, slave_usr1, thr_param, drained, logged>>

(* Mutant: the last error of the buffer is not looked at.                  *)
DrainErrors_OffByOne ==
    /\ thr_pc = "drain"
    /\ IF drained + 1 < shmseg_error_current_size
       THEN /\ logged' = [logged EXCEPT ![shmseg_error[drained]] = Count(@)]
            /\ shmseg_error' = [shmseg_error EXCEPT ![drained] = "empty"]
            /\ drained' = drained + 1
            /\ UNCHANGED <<thr_pc, shmseg_error_current_size>>
       ELSE /\ shmseg_error_current_size' = 0
            /\ drained' = 0
            /\ thr_pc' = "check"
            /\ UNCHANGED <<logged, shmseg_error>>
    /\ UNCHANGED <<value, known, sem_s_to_m, slave_usr1, sig_semaphore, thr_param>>

(* handle_slave_request_errors, one error in a step: the size is read      *)
(* again for each, and reset only when all are logged.                     *)
DrainErrors ==
    /\ thr_pc = "drain"
    /\ IF drained < shmseg_error_current_size
       THEN /\ logged' = [e \in Errors |-> IF e = shmseg_error[drained]
                                           THEN Count(logged[e]) ELSE logged[e]]
            /\ shmseg_error' = [shmseg_error EXCEPT ![drained] = "empty"]
            /\ drained' = drained + 1
            /\ UNCHANGED <<thr_pc, shmseg_error_current_size>>
       ELSE /\ shmseg_error_current_size' = 0
            /\ drained' = 0
            /\ thr_pc' = "check"
            /\ UNCHANGED <<logged, shmseg_error>>
    /\ UNCHANGED <<value, known, sem_s_to_m, slave_usr1, sig_semaphore, thr_param>>

(* Mutant: the request is taken for handled while it is locked.            *)
CheckSlaveRequest_Inverted ==
    /\ ThrGoto("check", IF sem_s_to_m > 0 THEN "take" ELSE "sem_wait")
    /\ thr_param' = "string"
    /\ UNCHANGED <<segVars, slave_usr1, sig_semaphore, drained, logged>>

(* With no request of either side the signal is only logged.               *)
CheckSlaveRequest ==
    /\ ThrGoto("check", IF sem_s_to_m <= 0 THEN "take" ELSE "sem_wait")
    /\ thr_param' = "string"
    /\ UNCHANGED <<segVars, slave_usr1, sig_semaphore, drained, logged>>

(* bool is __uint8_t, which never equals BOOL_VALUE_UNDEFINED, -1: a string *)
(* or a number that was not sent is noticed, a bool is not.                *)
FoundUndefined(p) == value[p] = UNDEFINED /\ p # "bool"

NextParameter(p) ==
    IF Following[p] = "none"
    THEN thr_pc' = "answer" /\ UNCHANGED thr_param
    ELSE thr_pc' = "take" /\ thr_param' = Following[p]

(* Mutant: a parameter is looked at only when the one before was not asked *)
(* for.                                                                    *)
TakeParameter_ElseIf ==
    /\ thr_pc = "take"
    /\ IF thr_param \notin requested \/ FoundUndefined(thr_param)
       THEN NextParameter(thr_param) /\ UNCHANGED known
       ELSE /\ known' = [known EXCEPT ![thr_param] = value[thr_param]]
            /\ thr_pc' = "answer"
            /\ UNCHANGED thr_param
    /\ UNCHANGED <<value, sem_s_to_m, shmseg_error, shmseg_error_current_size,
                   slave_usr1, sig_semaphore, drained, logged>>

(* handle_slave_request: a parameter that was asked for is copied, then    *)
(* marked undefined.                                                       *)
TakeParameter ==
    /\ thr_pc = "take"
    /\ IF thr_param \notin requested \/ FoundUndefined(thr_param)
       THEN NextParameter(thr_param) /\ UNCHANGED known
       ELSE /\ known' = [known EXCEPT ![thr_param] = value[thr_param]]
            /\ thr_pc' = "mark"
            /\ UNCHANGED thr_param
    /\ UNCHANGED <<value, sem_s_to_m, shmseg_error, shmseg_error_current_size,
                   slave_usr1, sig_semaphore, drained, logged>>

MarkParameter ==
    /\ thr_pc = "mark"
    /\ value' = [value EXCEPT ![thr_param] = UNDEFINED]
    /\ NextParameter(thr_param)
    /\ UNCHANGED <<known, sem_s_to_m, shmseg_error, shmseg_error_current_size,
                   slave_usr1, sig_semaphore, drained, logged>>

(* send_slave_ack_response.                                                *)
AnswerSlave ==
    /\ ThrGoto("answer", "sem_wait")
    /\ slave_usr1' = TRUE
    /\ UNCHANGED <<segVars, sig_semaphore, thr_param, drained, logged>>

ProcessorThread ==
    /\ \/ SemWait \/ DrainErrors \/ CheckSlaveRequest \/ TakeParameter
       \/ MarkParameter \/ AnswerSlave
    /\ UNCHANGED <<requested, gateVars, cycVars, master_usr1, sig_pc, lost, pauses,
                   raised, refused>>

-----------------------------------------------------------------------------
Next ==
    \/ Tick
    \/ CycleThread
    \/ SignalThread
    \/ HandleStopCycleSlaveRequest \/ HandleStartCycleSlaveRequest
    \/ AsyncSignalHandler
    \/ ProcessorThread

Spec == Init /\ [][Next]_vars

(* Every thread that can run runs, and sleeps end. Nobody has to stop the  *)
(* cycle, or to start it again.                                            *)
FairSpec ==
    /\ Spec
    /\ WF_vars(Tick)
    /\ WF_vars(CycleThread)
    /\ WF_vars(SignalThread)
    /\ WF_vars(AsyncSignalHandler)
    /\ WF_vars(ProcessorThread)

=============================================================================
