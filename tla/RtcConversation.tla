-------------------------- MODULE RtcConversation --------------------------
(***************************************************************************)
(* What is under way between the master, a slave and the configurator when *)
(* every sleep outlasts the work under way (Prompt). Conversation is the   *)
(* inductive invariant behind the properties of RtcProperties that need    *)
(* Prompt; RtcConversationProofs has the proofs.                           *)
(***************************************************************************)
EXTENDS RtcProperties

Count(b) == IF b THEN 1 ELSE 0

-----------------------------------------------------------------------------
(* The SIGUSR1 of a slave that the master has not finished with: pending,  *)
(* counted for the processor thread, or in its hands.                      *)
ToMaster(s) ==
    Count(master_usr1 = s) + sig_semaphore[s]
        + Count(thr_pc[s] \in {"check", "request", "response"})

(* The SIGUSR1 of the master that the slave has not finished with.         *)
ToSlave(s) ==
    IF alive[s]
    THEN Count(slave_usr1[s]) + Count(sig_pc[s] \notin {"sigwait", "detach"})
    ELSE 0

UnderWay(s) == ToMaster(s) + ToSlave(s)

(* The threads of the master that hold sem_m_to_s_request and have not     *)
(* signalled the slave yet.                                                *)
Sending(s) ==
    Count(sync_pc = "send" /\ sync_slave = s)
        + Count(thr_pc[s] \in {"connect_send", "rename_send"})

(* The units of sem_s_to_m_request, with the one that the cycle thread has *)
(* taken and not used for a request yet.                                   *)
Free(s) == sem_s_to_m[s] + Count(cyc_pc[s] \in {"check", "send"})

(* The configurator waits for the answer to a command about the slave, or  *)
(* has listed the slave for one.                                           *)
Talking(s) == cfg_pc = "wait" /\ affected = s

Chosen(s) == Talking(s) \/ (cfg_pc = "pick" /\ s \in offered)

(* The master has passed the command on and has not answered it yet.       *)
Sent(s) ==
    Talking(s) /\ ~master_usr2 /\ sync_pc = "sigwait" /\ ~configurator_usr2

-----------------------------------------------------------------------------
(* Each lock that is taken stands for one thing under way: both locks, the *)
(* threads about to send, and the signals make two at most. This is what   *)
(* bounds sem_s_to_m_request although it is posted without being held.     *)
Bounded(s) == sem_m_to_s[s] + Sending(s) + Free(s) + UnderWay(s) <= 2

(* The gate of the cycle is one token (see GateConserved).                 *)
GateHeld(s) ==
    allow[s] + Count(cyc_pc[s] = "sample")
        = Count(cycle_started[s] \/ sig_pc[s] = "stop_wait")

(* The cycle thread is about to try the lock for the first time.           *)
Awake(s) == cyc_pc[s] = "trylock" /\ threshold[s] = 0

(* No cycle runs and the cycle thread sends no request any more.           *)
Calm(s) ==
    /\ ~cycle_started[s]
    /\ alive[s] =>
          /\ sig_pc[s] \notin {"stop_wait", "start_ack"}
          /\ cyc_pc[s] \notin {"sample", "send"}
          /\ ~Awake(s)

(* No command about the slave is under way: the only signals are those of  *)
(* its own cycle, and one of them at a time.                               *)
Resting(s) ==
    /\ spawned[s] = 0 /\ assigning[s] = 0
    /\ thr_pc[s] \in {"none", "wait", "request"}
    /\ alive[s] => sig_pc[s] \in {"sigwait", "first", "response", "detach"}
    /\ cycle_started[s] => Free(s) + UnderWay(s) <= 1
    /\ ~cycle_started[s] => UnderWay(s) = 0 /\ (alive[s] => cyc_pc[s] # "send")

RestsUnlessSent(s) == Sent(s) \/ Resting(s)

(* A slave without a segment has its locks released and no signal counted, *)
(* and one that is not connected runs no cycle.                            *)
Detached(s) ==
    /\ ~owned[s] => sem_m_to_s[s] = 1 /\ sig_semaphore[s] = 0
    /\ ~is_connected[s] => Calm(s)
    /\ thr_pc[s] \in {"connect_lock", "rename_lock"} => sem_m_to_s[s] = 1
    /\ thr_pc[s] \in {"connect_lock", "rename_lock", "connect_send", "rename_send"}
          => ~is_connected[s]

(* The gate is closed and the cycle thread is in front of it.              *)
Closed(s) == cyc_pc[s] = "gate" /\ allow[s] = 0

(* The unit that CheckGate posts too many is there, or a response of the   *)
(* master posts a lock that is not taken, only while the gate is closed.   *)
RequestLock(s) ==
    /\ sig_pc[s] = "response" => sem_s_to_m[s] = 0 \/ Closed(s)
    /\ sem_s_to_m[s] = 2 => Closed(s)

(* While the master takes a signal for the response to its request, or a   *)
(* signal comes as the cycle thread is about to try the lock, the gate is  *)
(* closed, so that the slave sends no request that would be taken for a    *)
(* response or a response for a request (process_signal).                  *)
Answering(s) ==
    /\ thr_pc[s] \in {"check", "response"} =>
          /\ sem_s_to_m[s] > 0 \/ cyc_pc[s] = "check"
          /\ cyc_pc[s] = "check" => allow[s] = 0
    /\ ToMaster(s) > 0 /\ Awake(s) => allow[s] = 0

(* What the list offered for a command stays true until it is answered.    *)
ListedRightly(s) ==
    Chosen(s) /\ ~configurator_usr2 =>
        /\ request \in {"CONNECT_SLAVE", "DELETE_SLAVE"} => ~is_connected[s]
        /\ request \in {"DISCONNECT_SLAVE", "START_SLAVE_CYCLE", "STOP_SLAVE_CYCLE"}
              => is_connected[s]
        /\ request = "DISCONNECT_SLAVE" => Calm(s)
        /\ request = "START_SLAVE_CYCLE" => Sent(s) \/ Calm(s)

(* The signal thread is in the handler of the request that was sent.       *)
HandlesRequest(s) ==
    alive[s] =>
        /\ sig_pc[s] = "rename" => req_m_to_s[s] = "CHANGE_SLAVE_NAME"
        /\ sig_pc[s] = "start_ack" =>
              req_m_to_s[s] = "START_SLAVE_CYCLE" /\ cycle_started[s]
        /\ sig_pc[s] = "stop_wait" =>
              req_m_to_s[s] = "STOP_SLAVE_CYCLE" /\ ~cycle_started[s]

-----------------------------------------------------------------------------
(* Where a command that has been passed on may be.                         *)

(* CONNECT_SLAVE: a thread is to be started, holds the conversation, or    *)
(* waits for the one signal that goes to the slave and comes back.         *)
ConnectSent(s) ==
    /\ spawned[s] + assigning[s] <= 1
    /\ assigning[s] > 0 => ~owned[s]
    /\ thr_pc[s] \in {"connect_lock", "connect_send", "rename_lock", "rename_send"}
          => spawned[s] = 0 /\ assigning[s] = 0 /\ UnderWay(s) = 0
    /\ thr_pc[s] \in {"connect_send", "rename_send"} => sem_m_to_s[s] = 0
    /\ UnderWay(s) > 0 =>
          /\ spawned[s] = 0 /\ assigning[s] = 0
          /\ sem_m_to_s[s] = 0
          /\ req_m_to_s[s] \in {"CONNECT_SLAVE", "CHANGE_SLAVE_NAME"}

(* The other commands are in the segment, and their lock is taken.         *)
RequestSent(s) ==
    /\ req_m_to_s[s] = request /\ sem_m_to_s[s] = 0
    /\ spawned[s] = 0 /\ assigning[s] = 0

(* With no cycle the lock of the slave is free, so that neither side takes *)
(* the request or the response for something else.                         *)
RequestFound(s) ==
    \/ alive[s] /\ sig_pc[s] \in {"check", "request", "rename"}
    \/ ToMaster(s) > 0
    => sem_s_to_m[s] > 0

(* START_SLAVE_CYCLE: not handled yet; lost, and the cycle goes on as if   *)
(* it had been answered; or its ACK is on the way.                         *)
StartSent(s) ==
    \/ /\ Calm(s)
       /\ ToMaster(s) = 0
       /\ alive[s] /\ sig_pc[s] \in {"check", "request"} => sem_s_to_m[s] > 0
    \/ cycle_started[s] /\ Resting(s)
    \/ /\ cycle_started[s]
       /\ sem_s_to_m[s] = 1 /\ UnderWay(s) = 1 /\ ~Awake(s) /\ thr_pc[s] # "request"
       /\ \/ alive[s] /\ sig_pc[s] = "start_ack"
          \/ ToMaster(s) = 1 /\ res_s_to_m[s] = "ACK"

Stage(s) ==
    Sent(s) =>
        /\ request = "CONNECT_SLAVE" => ConnectSent(s)
        /\ request # "CONNECT_SLAVE" => RequestSent(s)
        /\ request \in {"CONNECT_SLAVE", "DISCONNECT_SLAVE"} => RequestFound(s)
        /\ request = "START_SLAVE_CYCLE" => StartSent(s)

-----------------------------------------------------------------------------
(* The cycle thread never finds self.shmseg cleared: nothing dies of it.   *)
CyclesAlive(s) ==
    /\ cycle_started[s] => alive[s] /\ shmseg[s]
    /\ alive[s] /\ sig_pc[s] # "sigwait" => shmseg[s]
    /\ alive[s] /\ sig_pc[s] = "detach" => ~cycle_started[s]

(* The record of the configurator is right, but for the answer to CONNECT  *)
(* or DISCONNECT that it has not read yet.                                 *)
Recorded(s) ==
    created[s] =>
        IF /\ configurator_usr2
           /\ affected = s
           /\ request \in {"CONNECT_SLAVE", "DISCONNECT_SLAVE"}
        THEN response # "ACK" => (connected[s] <=> is_connected[s])
        ELSE connected[s] <=> is_connected[s]

SlaveInv(s) ==
    /\ Bounded(s) /\ GateHeld(s) /\ RestsUnlessSent(s) /\ Detached(s)
    /\ RequestLock(s) /\ Answering(s) /\ ListedRightly(s) /\ HandlesRequest(s)
    /\ Stage(s) /\ CyclesAlive(s) /\ Recorded(s)

-----------------------------------------------------------------------------
(* The thread that takes the commands waits for a lock that is not to come *)
(* (see CommandsTaken).                                                    *)
Stuck == sync_pc = "lock" /\ sem_m_to_s[sync_slave] = 0

(* One command is under way at most: it is pending for the master, or in   *)
(* the hands of its synchronous thread, or answered, and the configurator  *)
(* waits meanwhile. Only a command that finds the thread stuck outlives    *)
(* the wait.                                                               *)
CommandInv ==
    /\ configurator_usr2 => cfg_pc = "wait" /\ ~master_usr2 /\ sync_pc = "sigwait"
    /\ master_usr2 => cfg_pc = "wait" \/ Stuck
    /\ cfg_pc = "wait" => request \notin {"DELETE_SLAVE", "OTHER"}
    /\ cfg_pc = "pick" /\ request = "OTHER" => offered = {}
    /\ sync_pc # "sigwait" =>
          /\ sync_req \in {"DISCONNECT_SLAVE", "START_SLAVE_CYCLE", "STOP_SLAVE_CYCLE"}
          /\ is_connected[sync_slave]
          /\ \/ Stuck
             \/ ~master_usr2 /\ Talking(sync_slave) /\ sync_req = request
    /\ sync_pc = "send" => sem_m_to_s[sync_slave] = 0

(* The answer that is pending for the configurator is true of the slave.   *)
Answered ==
    configurator_usr2 =>
        /\ request = "CONNECT_SLAVE" => (response = "ACK" <=> is_connected[affected])
        /\ request = "DISCONNECT_SLAVE" => (response = "ACK" <=> ~is_connected[affected])
        /\ request = "START_SLAVE_CYCLE" => (response = "ACK" <=> cycle_started[affected])

(* The state of the whole program between any two steps, with Prompt and   *)
(* at least one attempt to lock the request (Segments > 0), when a thread  *)
(* that does not read the pid of its slave reads that of no process.       *)
Conversation ==
    /\ NoProcessLost
    /\ ~clash
    /\ \A s \in Slaves : SlaveInv(s)
    /\ CommandInv
    /\ Answered

=============================================================================
