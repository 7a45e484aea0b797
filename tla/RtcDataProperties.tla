------------------------- MODULE RtcDataProperties --------------------------
(***************************************************************************)
(* What is checked of the communication cycle and its errors.              *)
(***************************************************************************)
EXTENDS RtcData

(* The master takes the sample that the slave last wrote, whole: between   *)
(* the first and the last copy of a request the cycle thread writes        *)
(* nothing, and no parameter that was asked for is missing, whatever       *)
(* signals were lost before (slave.c 102, master.c 654).                   *)
SampleWhole ==
    thr_pc = "take" /\ thr_param \in requested => value[thr_param] = sample

(* When the slave that sent a request may make the next one, every         *)
(* parameter that was asked for has been taken: what the configurator      *)
(* prints is the latest sample (master.c 662, 673, 685). After a closed    *)
(* gate, when nothing was sent, sleep_us is a whole cycle.                 *)
SampleTaken ==
    Quiet /\ cyc_pc \in {"gate", "asleep"} /\ sem_s_to_m = 1 /\ sleep_us # Segments =>
        \A p \in requested : known[p] = sample

(* No error gets lost unseen: whatever the slave raised was logged, is in  *)
(* the buffer, or was refused for want of room (slave.h 19, master.c 611). *)
Buffered(e) ==
    Cardinality({i \in 0 .. shmseg_error_current_size - 1 : shmseg_error[i] = e})

ErrorsAccounted ==
    \A e \in Errors :
        Quiet /\ cyc_pc \notin {"error", "error_load", "error_store"} =>
            raised[e] = logged[e] + refused[e] + Buffered(e)

(* The errors are justified: the slave blames the master for a late answer *)
(* at most once for each signal that was lost, and the cycle for its       *)
(* length once for each that was lost and, falsely, once for each time it  *)
(* was stopped and started again: the time of the last sample, which only  *)
(* a DISCONNECT resets, is that of the time before (slave.c 50, 66, 345).  *)
ErrorsJustified ==
    /\ raised["late"] <= lost
    /\ raised["interval"] <= lost + pauses

(* And every signal that was lost is noticed: in the end the log has both  *)
(* a late answer and an exceeded cycle for it, unless the buffer was full  *)
(* or the cycle is stopped.                                                *)
LossesLogged ==
    \A n \in 1 .. MaxLosses :
        lost >= n ~> ~cycle_started \/ \A e \in Errors : logged[e] + refused[e] >= n

(* The exchange recovers from lost signals and from pauses: again and      *)
(* again the sample of a started cycle is taken and its request unlocked   *)
(* (slave.c 343).                                                          *)
ExchangeGoesOn ==
    []<>(~cycle_started \/ (sem_s_to_m = 1 /\ \A p \in requested : known[p] = sample))

-----------------------------------------------------------------------------
(* common.h: the last known values exist "because actual variables could   *)
(* have undefined values": a value once known is never replaced by the     *)
(* undefined one.                                                          *)
UndefinedNotRecorded ==
    [][\A p \in Parameters : known'[p] = UNDEFINED => known[p] = UNDEFINED]_vars

=============================================================================
