--------------------------- MODULE RtcProperties ---------------------------
(***************************************************************************)
(* What is said of the program of module Rtc: first what holds however     *)
(* long anything takes, then what needs every sleep to outlast the work    *)
(* under way (Prompt), then what the repository says of the program and    *)
(* the program does not do.                                                *)
(***************************************************************************)
EXTENDS Rtc

(* A segment is owned exactly as long as one thread of the master serves   *)
(* it, only such a slave is connected, and a response is handled only while *)
(* the lock of the request it answers is held (slave_processor_detached_   *)
(* thread, reset_slave_shmseg).                                            *)
Served ==
    \A s \in Slaves :
        /\ owned[s] <=> thr_pc[s] # "none"
        /\ is_connected[s] => owned[s]
        /\ thr_pc[s] = "response" => sem_m_to_s[s] = 0

(* No two connected slaves have the same name, whatever they were called   *)
(* when they were created and however their CONNECT and CHANGE_SLAVE_NAME  *)
(* requests interleave (must_change_name).                                 *)
UniqueNames ==
    \A s, t \in Slaves :
        s # t /\ is_connected[s] /\ is_connected[t] => name[s] # name[t]

(* With nothing assumed of time: names are unique however late the threads, *)
(* signals and answers are, as long as no two threads serve one slave and  *)
(* no signal went to every process (kill of 0 or -1, which ends the        *)
(* configurator). Otherwise the code does not keep names apart: a slave    *)
(* that is asked twice erases its suffix, and is connected with it.        *)
NamesKeptApart == ~clash /\ configurator_alive => UniqueNames

(* While a STOP waits for the gate, the cycle thread comes to open it,     *)
(* again and again, unless the process dies: the wait of the signal thread *)
(* in handle_stop_cycle_slave_request is not a deadlock.                   *)
GateOpens ==
    \A s \in Slaves :
        sig_pc[s] = "stop_wait" ~>
            allow[s] > 0 \/ sig_pc[s] # "stop_wait" \/ ~alive[s]

(* A started cycle goes on: it comes to its next request however many of   *)
(* the responses of the master are late or missing, because the loop that  *)
(* waits for the lock gives up (try_lock_request in the cycle thread).     *)
CycleGoesOn ==
    \A s \in Slaves : []<>(cyc_pc[s] = "send" \/ ~cycle_started[s] \/ ~alive[s])

-----------------------------------------------------------------------------
(* No two threads ever serve one segment or one slave (see Served),        *)
(* although a new thread searches for a segment, assigns it and writes the *)
(* pid in separate steps, and the CONNECT of a slave that is not connected  *)
(* yet may be repeated: the configurator gives no command while one is     *)
(* under way (slave_processor_detached_thread, wait_connect_slave_response). *)
OneProcessor == ~clash /\ Served

(* sem_m_to_s_request is binary, as common.h says of it, although it is     *)
(* posted by one thread and locked by two, and set back in a reset.        *)
LinkLockBinary == \A s \in Slaves : sem_m_to_s[s] <= 1

(* The gate of the cycle is one token: in the semaphore or with the cycle  *)
(* thread as long as the cycle is started or a STOP waits for it, and      *)
(* nowhere otherwise (handle_start_cycle_slave_request, allow_communication *)
(* _cycle).                                                                *)
GateConserved ==
    \A s \in Slaves :
        alive[s] =>
            allow[s] + (IF cyc_pc[s] = "sample" THEN 1 ELSE 0)
                = IF cycle_started[s] \/ sig_pc[s] = "stop_wait" THEN 1 ELSE 0

(* When the thread of a slave sends CONNECT_SLAVE the lock is free: it is  *)
(* the first request, as the comment above that call says.                 *)
FirstRequest ==
    \A s \in Slaves : thr_pc[s] = "connect_lock" => sem_m_to_s[s] = 1

(* sem_s_to_m_request is not the binary semaphore that common.h 99 calls   *)
(* it: a cycle thread that finds the gate closed posts it (slave.c 371),    *)
(* without having it if it gave up waiting, and an answer of the master    *)
(* that is still to come, or is to a request not made, posts it again. But *)
(* it is one unit too many at most, however often the cycle is started and *)
(* stopped.                                                                *)
RequestLockBounded == \A s \in Slaves : sem_s_to_m[s] <= 2

(* No signal of an earlier session is left in sig_semaphore for the next   *)
(* thread of the slave, which would take it for the response to its        *)
(* CONNECT_SLAVE: reset_slave_shmseg does not reset it.                    *)
NoSignalLeftOver ==
    \A s \in Slaves : ~owned[s] => sig_semaphore[s] = 0

(* A response of the master is pending only while the configurator waits   *)
(* for it, and never for the next command to take for its own.             *)
NoLateAnswer == configurator_usr2 => cfg_pc = "wait"

(* What the configurator remembers of the slaves, and lists for            *)
(* CONNECT_SLAVE and DELETE_SLAVE, is what the segments say, whenever the  *)
(* user gives a command.                                                   *)
RecordsAgree ==
    Settled /\ cfg_pc = "menu" =>
        \A s \in Slaves : created[s] => connected[s] = is_connected[s]

(* No process reads or writes in front of the shared memory, and the master *)
(* never signals pid -1, which would end the configurator, although what a *)
(* command is about is listed, chosen, sent and used at different times. It *)
(* takes that a stale argument of a new thread is at worst the pid of no   *)
(* process (Stale): 0 or a negative word does end them (StrayThread).      *)
NoProcessLost == master_alive /\ configurator_alive

(* An answer read by the configurator is true of the slave at that moment: *)
(* ACK if and only if the command took effect. STOP_SLAVE_CYCLE is left    *)
(* out, see StopAnswerTrue.                                                *)
Effect ==
    [CONNECT_SLAVE |-> is_connected, START_SLAVE_CYCLE |-> cycle_started,
     DISCONNECT_SLAVE |-> [s \in Slaves |-> ~is_connected[s]]]

AnswersTrue ==
    [][ReceiveResponse /\ request \in DOMAIN Effect =>
          (response = "ACK" <=> Effect[request][affected])]_vars

(* The slave has no number left for another name and has said so, and the  *)
(* master has given up connecting it. It keeps its segment.                *)
Refused(s) ==
    /\ owned[s] /\ ~is_connected[s]
    /\ req_m_to_s[s] = "CHANGE_SLAVE_NAME"
    /\ res_s_to_m[s] = "NACK"
    /\ change_name_idx[s] = ChangeNameMax

(* With no communication cycle nothing is lost between the segment and the *)
(* connection: a slave that was given a segment is connected in the end,   *)
(* under another name if need be, or is refused for want of a number       *)
(* (handle_slave_response, handle_change_name_slave_request).              *)
ConnectCompletes ==
    \A s \in Slaves : owned[s] /\ ~is_connected[s] ~> is_connected[s] \/ Refused(s)

(* With no communication cycle the configurator waits in vain for the      *)
(* answer to a CONNECT_SLAVE only, and for two reasons only: the thread did *)
(* not read the pid it was given, so that the slave has no segment, or the *)
(* slave was refused earlier (wait_connect_slave_response,                 *)
(* wait_disconnect_slave_response).                                        *)
TimeoutJustified ==
    [][WaitTimeout =>
          /\ request = "CONNECT_SLAVE"
          /\ ~owned[affected] \/ Refused(affected)]_vars

-----------------------------------------------------------------------------
(* The sessions of the slaves go as RtcSession says.                       *)
sessionPhase ==
    [s \in Slaves |->
        IF ~owned[s] THEN "detached"
        ELSE IF ~is_connected[s] THEN "attaching"
        ELSE IF cycle_started[s] THEN "cycling" ELSE "connected"]

Session == INSTANCE RtcSession WITH phase <- sessionPhase, title <- name

(* The segments, read as sessions, implement the abstract specification: a *)
(* cycle is started in a session only, a session ends only when its cycle  *)
(* has been stopped, and a name is taken only before the slave is connected. *)
SessionSpec == Session!Spec

-----------------------------------------------------------------------------
(* What the repository says of the program, and the runs refute.           *)

(* configurator.c: after ACK for STOP_SLAVE_CYCLE the cycle is stopped,    *)
(* "Stop slave cycle slave request succeded!".                             *)
StopAnswerTrue ==
    [][ReceiveResponse /\ request = "STOP_SLAVE_CYCLE" /\ response = "ACK" =>
          ~cycle_started[affected]]_vars

(* README.md: the request semaphore of the master goes from 0 to 1 when    *)
(* the response is handled, so that when all is at rest the thread that    *)
(* takes the commands does not wait for it.                                *)
CommandsTaken == Settled => sync_pc = "sigwait"

=============================================================================
