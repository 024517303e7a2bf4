---------------------------- MODULE NetLinkClient ----------------------------
(***************************************************************************)
(* What portmon_daemon and packet_hunter share (shared/): the netlink      *)
(* socket of NetLinkClient, the listener thread recvPacketInfoThread, the  *)
(* MessageQueue between the listener and the main thread, the heap cells   *)
(* of the pckt_info structures that travel through it, and the way out     *)
(* (unsubscribe, join the listener, free what is left in the queue).       *)
(***************************************************************************)
EXTENDS Sniffer

CONSTANTS
    Addrs,  \* the addresses `new pckt_info` can return
    Nil     \* nullptr

ASSUME NilAssumption == Nil \notin Addrs

VARIABLES
    running,  \* the atomic flag of each process
    mpc,      \* where the main thread of each process is
    lpc,      \* where its listener thread is
    queue,    \* its MessageQueue, of addresses
    mem,      \* the message each heap cell holds, Free when it is not allocated
    lhand,    \* the pointer in the listener's hand
    mhand     \* the pointer in the main thread's hand

uservars == <<running, mpc, lpc, queue, mem, lhand, mhand>>

Free == -1

MainStates == {"unborn", "ctor", "subscribe", "subscribing", "spawn", "loop", "handle",
               "query", "await", "unsubscribe", "unsubscribing", "clean", "save",
               "close", "done", "aborted", "gone", "crashed"}

ListenerStates == {"none", "check", "recv", "deliver", "ended"}

ClientTypeOK ==
    /\ running \in [Procs -> BOOLEAN]
    /\ mpc \in [Procs -> MainStates]
    /\ lpc \in [Procs -> ListenerStates]
    /\ queue \in [Procs -> Seq(Addrs)]
    /\ mem \in [Procs -> [Addrs -> Messages \cup {Free}]]
    /\ lhand \in [Procs -> Addrs \cup {Nil}]
    /\ mhand \in [Procs -> Addrs \cup {Nil}]

ClientInit ==
    /\ running = [p \in Procs |-> TRUE]
    /\ mpc = [p \in Procs |-> "unborn"]
    /\ lpc = [p \in Procs |-> "none"]
    /\ queue = [p \in Procs |-> <<>>]
    /\ mem = [p \in Procs |-> [a \in Addrs |-> Free]]
    /\ lhand = [p \in Procs |-> Nil]
    /\ mhand = [p \in Procs |-> Nil]

Alive(p) == mpc[p] \notin {"unborn", "gone", "crashed"}

\* The main thread of p moves on.
Goto(p, there) == mpc' = [mpc EXCEPT ![p] = there]

-----------------------------------------------------------------------------
(* NetLinkClient *)

\* The constructor: the socket exists only while the kernel module is loaded.
OpenSocket(p) ==
    /\ bound' = IF loaded THEN bound \cup {p} ELSE bound
    /\ UNCHANGED <<rcvbuf, sk_err, congested>>

\* sendMessage returns false: there is no socket, or there is no memory.
SendFails(p) == p \notin bound \/ AllocMayFail

\* sendMessage enters nl_recv_msg; the thread is back when handler[p] = "none".
EnterKernel(p, where) ==
    /\ p \in bound
    /\ handler' = [handler EXCEPT ![p] = where]

\* recv wakes the sender side once the buffer is empty.
Drained(p) == IF rcvbuf'[p] = <<>> THEN congested \ {p} ELSE congested

\* receivePacketInfo when recv fails: perror and nullptr.
ReceiveError(p) ==
    /\ lpc[p] = "recv"
    /\ p \in sk_err
    /\ sk_err' = sk_err \ {p}
    /\ UNCHANGED rcvbuf
    /\ congested' = Drained(p)
    /\ lpc' = [lpc EXCEPT ![p] = "check"]
    /\ UNCHANGED <<bound, subvars, handler, hookvars, running, mpc, queue, mem, lhand, mhand>>

\* receivePacketInfo: the oldest message is copied into a new heap cell.
receivePacketInfo(p) ==
    /\ lpc[p] = "recv"
    /\ p \notin sk_err
    /\ rcvbuf[p] # <<>>
    /\ rcvbuf' = [rcvbuf EXCEPT ![p] = Tail(@)]
    /\ congested' = Drained(p)
    /\ \E a \in {x \in Addrs : mem[p][x] = Free} :
          /\ mem' = [mem EXCEPT ![p][a] = Head(rcvbuf[p])]
          /\ lhand' = [lhand EXCEPT ![p] = a]
    /\ lpc' = [lpc EXCEPT ![p] = "deliver"]
    /\ UNCHANGED <<bound, sk_err, subvars, handler, hookvars, running, mpc, queue, mhand>>

\* `new pckt_info` throws in the listener thread: std::terminate.
BadAlloc(p) ==
    /\ AllocMayFail
    /\ Alive(p)
    /\ lpc[p] = "recv"
    /\ p \notin sk_err
    /\ rcvbuf[p] # <<>>
    /\ Goto(p, "aborted")
    /\ UNCHANGED <<kernelvars, running, lpc, queue, mem, lhand, mhand>>

-----------------------------------------------------------------------------
(* recvPacketInfoThread *)

\* Slip: while (true).
ListenerTestSlip(p) ==
    /\ lpc[p] = "check"
    /\ lpc' = [lpc EXCEPT ![p] = "recv"]
    /\ UNCHANGED <<kernelvars, running, mpc, queue, mem, lhand, mhand>>

ListenerTest(p) ==
    /\ lpc[p] = "check"
    /\ lpc' = [lpc EXCEPT ![p] = IF running[p] THEN "recv" ELSE "ended"]
    /\ UNCHANGED <<kernelvars, running, mpc, queue, mem, lhand, mhand>>

\* Slip: the newest packet is pushed to the front.
ListenerDeliverSlip(p) ==
    /\ lpc[p] = "deliver"
    /\ IF mem[p][lhand[p]] = Stop
       THEN lpc' = [lpc EXCEPT ![p] = "ended"] /\ UNCHANGED queue
       ELSE lpc' = [lpc EXCEPT ![p] = "check"] /\ queue' = [queue EXCEPT ![p] = <<lhand[p]>> \o @]
    /\ lhand' = [lhand EXCEPT ![p] = Nil]
    /\ UNCHANGED <<kernelvars, running, mpc, mem, mhand>>

\* The stop message ends the thread (its cell is never freed); any other goes
\* into the queue.
ListenerDeliver(p) ==
    /\ lpc[p] = "deliver"
    /\ \/ /\ mem[p][lhand[p]] = Stop
          /\ lpc' = [lpc EXCEPT ![p] = "ended"]
          /\ UNCHANGED queue
       \/ /\ mem[p][lhand[p]] # Stop
          /\ lpc' = [lpc EXCEPT ![p] = "check"]
          /\ queue' = [queue EXCEPT ![p] = Append(@, lhand[p])]
    /\ lhand' = [lhand EXCEPT ![p] = Nil]
    /\ UNCHANGED <<kernelvars, running, mpc, mem, mhand>>

recvPacketInfoThread(p) ==
    \/ ListenerTest(p)
    \/ ReceiveError(p)
    \/ receivePacketInfo(p)
    \/ BadAlloc(p)
    \/ ListenerDeliver(p)

-----------------------------------------------------------------------------
(* Main thread steps that both programs have *)

\* Start the listener thread.
Spawn(p) ==
    /\ mpc[p] = "spawn"
    /\ lpc' = [lpc EXCEPT ![p] = "check"]
    /\ Goto(p, "loop")
    /\ UNCHANGED <<kernelvars, running, queue, mem, lhand, mhand>>

\* while (running) is false.
LeaveLoop(p) ==
    /\ mpc[p] = "loop"
    /\ ~running[p]
    /\ Goto(p, "unsubscribe")
    /\ UNCHANGED <<kernelvars, running, lpc, queue, mem, lhand, mhand>>

\* Slip: front() without pop().
PopSlip(p) ==
    /\ mpc[p] = "loop"
    /\ running[p]
    /\ queue[p] # <<>>
    /\ mhand' = [mhand EXCEPT ![p] = Head(queue[p])]
    /\ Goto(p, "handle")
    /\ UNCHANGED <<kernelvars, running, lpc, queue, mem, lhand>>

\* while (running) is true and messageQueue->pop() finds a packet. With an
\* empty queue the daemon sleeps and looks again: no step.
Pop(p) ==
    /\ mpc[p] = "loop"
    /\ running[p]
    /\ queue[p] # <<>>
    /\ mhand' = [mhand EXCEPT ![p] = Head(queue[p])]
    /\ queue' = [queue EXCEPT ![p] = Tail(@)]
    /\ Goto(p, "handle")
    /\ UNCHANGED <<kernelvars, running, lpc, mem, lhand>>

\* sendMessage("..._unsubscribe"). When it fails, main returns with its
\* threads joinable: std::terminate.
Unsubscribe(p) ==
    /\ mpc[p] = "unsubscribe"
    /\ \/ EnterKernel(p, "unsub_stop") /\ Goto(p, "unsubscribing")
       \/ SendFails(p) /\ Goto(p, "aborted") /\ UNCHANGED handler
    /\ UNCHANGED <<subvars, hookvars, sockvars, running, lpc, queue, mem, lhand, mhand>>

\* Slip: main goes on without the join.
JoinSlip(p) ==
    /\ mpc[p] = "unsubscribing"
    /\ handler[p] = "none"
    /\ Goto(p, "clean")
    /\ UNCHANGED <<kernelvars, running, lpc, queue, mem, lhand, mhand>>

\* packetInfoListener.join()
Join(p) ==
    /\ mpc[p] = "unsubscribing"
    /\ handler[p] = "none"
    /\ lpc[p] = "ended"
    /\ Goto(p, "clean")
    /\ UNCHANGED <<kernelvars, running, lpc, queue, mem, lhand, mhand>>

\* The elements of a queue.
Elems(q) == {q[i] : i \in 1 .. Len(q)}

\* freePacketInfo on every cell of S.
FreeAll(p, S) == mem' = [mem EXCEPT ![p] = [a \in Addrs |-> IF a \in S THEN Free ELSE @[a]]]

\* cleanMessageQueue; the listener is gone, so nobody else uses the queue.
cleanMessageQueue(p, next) ==
    /\ mpc[p] = "clean"
    /\ FreeAll(p, Elems(queue[p]))
    /\ queue' = [queue EXCEPT ![p] = <<>>]
    /\ Goto(p, next)
    /\ UNCHANGED <<kernelvars, running, lpc, lhand, mhand>>

=============================================================================
