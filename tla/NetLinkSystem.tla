---------------------------- MODULE NetLinkSystem ----------------------------
(***************************************************************************)
(* The kernel module, the daemon and the packet_hunter together: packets   *)
(* flow from the hook to both programs, while processes are started,       *)
(* signalled, killed and restarted.                                        *)
(***************************************************************************)
EXTENDS Daemon, PacketHunter

vars == <<kernelvars, uservars, huntervars>>

TypeOK == SnifferTypeOK /\ ClientTypeOK /\ HunterTypeOK

Init == SnifferInit /\ ClientInit /\ HunterInit

-----------------------------------------------------------------------------
(* What happens to processes *)

\* SIGINT or SIGTERM: handleSignal. A thread blocked in a system call goes on
\* with it (std::signal installs the handler with SA_RESTART).
handleSignal(p) ==
    /\ Alive(p)
    /\ mpc[p] \notin {"done", "aborted"}
    /\ running[p]
    /\ running' = [running EXCEPT ![p] = FALSE]
    /\ UNCHANGED <<kernelvars, mpc, lpc, queue, mem, lhand, mhand, huntervars>>

\* SIGKILL, or a crash of another kind.
Kill(p) ==
    /\ "kill" \in Faults
    /\ Alive(p)
    /\ mpc[p] \notin {"done", "aborted"}
    /\ Goto(p, "aborted")
    /\ UNCHANGED <<kernelvars, running, lpc, queue, mem, lhand, mhand, huntervars>>

\* The kernel takes back what a dead process held. A system call that was in
\* nl_recv_msg has returned before. A daemon's connections break with it.
Reap(p) ==
    /\ mpc[p] \in {"done", "aborted"}
    /\ handler[p] \in {"none", "oops"}
    /\ Goto(p, IF mpc[p] = "done" THEN "gone" ELSE "crashed")
    /\ handler' = [handler EXCEPT ![p] = "none"]
    /\ bound' = bound \ {p}
    /\ rcvbuf' = [rcvbuf EXCEPT ![p] = <<>>]
    /\ sk_err' = sk_err \ {p}
    /\ congested' = congested \ {p}
    /\ lpc' = [lpc EXCEPT ![p] = "none"]
    /\ queue' = [queue EXCEPT ![p] = <<>>]
    /\ mem' = [mem EXCEPT ![p] = [a \in Addrs |-> Free]]
    /\ lhand' = [lhand EXCEPT ![p] = Nil]
    /\ mhand' = [mhand EXCEPT ![p] = Nil]
    /\ stored' = [h \in Hunters |-> IF h = p THEN {} ELSE stored[h]]
    /\ conn' = [h \in Hunters |-> IF h = p THEN "none"
                                  ELSE IF p \in Daemons /\ conn[h] = "up" THEN "down"
                                  ELSE conn[h]]
    /\ UNCHANGED <<subvars, hookvars, running>>

\* Slip: the client thread hangs up after an answer.
CloseClientSlip(d, h) ==
    /\ Listening(d)
    /\ conn[h] = "up"
    /\ conn' = [conn EXCEPT ![h] = "down"]
    /\ UNCHANGED <<kernelvars, uservars, stored>>

\* The client thread of a daemon that is stopping leaves handleClientConnection
\* and closes the connection.
CloseClient(d, h) ==
    /\ Listening(d)
    /\ ~running[d]
    /\ conn[h] = "up"
    /\ conn' = [conn EXCEPT ![h] = "down"]
    /\ UNCHANGED <<kernelvars, uservars, stored>>

-----------------------------------------------------------------------------
(* The system *)

Kernel ==
    /\ \/ sniffer_init
       \/ sniffer_exit
       \/ \E c \in Cpus : HookCapture(c) \/ packet_sniffer_hook(c)
       \/ \E p \in Procs : nl_recv_msg(p)
    /\ UNCHANGED <<uservars, huntervars>>

DaemonStep(d) ==
    /\ DStart(d) \/ DaemonMain(d) \/ DClose(d)
    /\ UNCHANGED huntervars

HunterStep(h) == HStart(h) \/ HunterMain(h) \/ HSave(h)

Listener(p) == recvPacketInfoThread(p) /\ UNCHANGED huntervars

Environment(p) == handleSignal(p) \/ Kill(p) \/ Reap(p)

Next ==
    \/ Kernel
    \/ \E d \in Daemons : DaemonStep(d)
    \/ \E h \in Hunters : HunterStep(h)
    \/ \E p \in Procs : Listener(p) \/ Environment(p)
    \/ \E d \in Daemons, h \in Hunters : CloseClient(d, h)

Spec == Init /\ [][Next]_vars

\* What the operating system schedules: the threads of the processes, the
\* system calls and softirqs in progress, and the end of a dead process. It
\* owes nothing to what users do (start, signal, kill, load, unload, the answer
\* about saving), to the arrival of packets, or to an answer of the daemon.
Fairness ==
    /\ \A c \in Cpus : WF_vars(packet_sniffer_hook(c) /\ UNCHANGED <<uservars, huntervars>>)
    /\ \A p \in Procs : /\ WF_vars(nl_recv_msg(p) /\ UNCHANGED <<uservars, huntervars>>)
                        /\ WF_vars(Listener(p))
                        /\ WF_vars(Reap(p))
    /\ \A d \in Daemons : WF_vars(DaemonMain(d) /\ UNCHANGED huntervars)
    /\ \A h \in Hunters : WF_vars(HunterMain(h) /\ (mpc[h] = "await" => conn[h] = "down"))

FairSpec == Spec /\ Fairness

-----------------------------------------------------------------------------
(* Safety *)

QueueCells(p) == Elems(queue[p])
StoredCells(p) == IF p \in Hunters THEN stored[p] ELSE {}
HandCells(p) == {lhand[p], mhand[p]} \ {Nil}

\* Each cell that p can reach is allocated, and reached from one place only.
OneOwner(p) ==
    /\ \A a \in QueueCells(p) \cup StoredCells(p) \cup HandCells(p) : mem[p][a] # Free
    /\ \A i, j \in 1 .. Len(queue[p]) : queue[p][i] = queue[p][j] => i = j
    /\ QueueCells(p) \cap StoredCells(p) = {}
    /\ HandCells(p) \cap (QueueCells(p) \cup StoredCells(p)) = {}
    /\ lhand[p] = mhand[p] => lhand[p] = Nil

\* Every pckt_info has one owner: the queue, the listener's or main's hand, or
\* the map. So no path, through the duplicates, the early `break`s and the
\* shutdown of either program, reads a freed cell or frees a cell twice.
MemorySafe == \A p \in Procs : OneOwner(p)

\* The messages on their way to p's main, the next to be handled first.
Carried(p) ==
    LET hand(a) == IF a = Nil THEN <<>> ELSE <<mem[p][a]>>
        queued == [i \in 1 .. Len(queue[p]) |-> mem[p][queue[p][i]]]
    IN  hand(mhand[p]) \o queued \o hand(lhand[p]) \o rcvbuf[p]

Before(x, y) == x = Stop \/ y = Stop \/ x < y

OneCpu == \A c, d \in Cpus : c = d

\* Each program handles packets in the order of their capture, none twice,
\* however the hook, the listener and main interleave and whatever the receive
\* buffer loses (one CPU: two hooks may overtake each other).
CaptureOrder ==
    OneCpu =>
        \A p \in Procs : \A i, j \in 1 .. Len(Carried(p)) :
            i < j => Before(Carried(p)[i], Carried(p)[j])

\* A process of role r has died without unsubscribing.
Crashed(r) == \E p \in Members(r) : mpc[p] \in {"aborted", "crashed"}

\* From the return of its subscribe call to its unsubscribe call.
Subscriber(p) ==
    \/ mpc[p] = "subscribing" /\ handler[p] = "none"
    \/ mpc[p] \in {"spawn", "loop", "handle", "query", "await", "unsubscribe"}

\* The kernel's view of who is subscribed is the programs' own: as long as no
\* process of a role has crashed, whoever believes it is subscribed gets the
\* packets, and with nobody alive the role is free.
SubscriptionAccurate ==
    \A r \in Roles : OneHunter /\ ~Crashed(r) =>
        /\ \A p \in Members(r) : Subscriber(p) => subscribed[r] /\ client_pid[r] = p
        /\ (\A p \in Members(r) : ~Alive(p)) => ~subscribed[r] /\ client_pid[r] = NoPid

\* Even after crashes, the recorded PID is that of a live process or of one
\* that crashed, never of one that left through its unsubscribe.
RecordedPid ==
    \A r \in Roles : client_pid[r] # NoPid => mpc[client_pid[r]] # "gone"

FedWhileSubscribed ==
    \A p \in Procs : Len(rcvbuf'[p]) > Len(rcvbuf[p]) =>
        \/ Subscriber(p)
        \/ mpc[p] \in {"subscribing", "unsubscribing"} /\ handler[p] # "none"
        \/ mpc[p] = "aborted"

\* A receive buffer grows only from its owner's subscribe call to the end of
\* its unsubscribe call: a hook that tested the flags before does not send a
\* packet after, neither to the process that left nor to the next one.
NoFeedAfterUnsubscribe == [][FedWhileSubscribed]_vars

\* At the end of main the listener has ended and the queue is empty; the only
\* cell a daemon has left is that of the stop message.
CleanExit ==
    \A p \in Procs : mpc[p] = "done" =>
        /\ lpc[p] \in {"none", "ended"}
        /\ queue[p] = <<>>
        /\ p \in Daemons => \A a \in Addrs : mem[p][a] \in {Free, Stop}

-----------------------------------------------------------------------------
(* Liveness *)

\* main has joined its listener, or the process is dead.
Joined(p) == mpc[p] \in {"clean", "save", "close", "done", "gone", "aborted", "crashed"}

\* Once main sees `running` false, the process gets past the join of its
\* listener: by the stop message, or because the listener sees the flag too,
\* also when the receive buffer overruns and the stop message is lost.
ShutdownCompletes ==
    \A p \in Procs : (mpc[p] \in {"loop", "unsubscribe"} /\ ~running[p]) ~> Joined(p)

\* A hunter that has lost its daemon stops hunting.
HunterFollowsDaemon ==
    \A h \in Hunters : (mpc[h] = "loop" /\ conn[h] = "down") ~>
        (Joined(h) \/ mpc[h] \in {"unsubscribe", "unsubscribing"})

-----------------------------------------------------------------------------
(* What the comments of the code say, and the code does not keep *)

\* "Subscribe/unsubscribe netlink cliets according to messages (to the sender
\* proccess)", sniffer.c:121: a subscribe call that returned true to a daemon
\* has recorded that daemon.
SenderRecorded ==
    \A d \in Daemons : Subscriber(d) => subscribed["daemon"] /\ client_pid["daemon"] = d

\* "Handle signal from main manu script (use to safely end the program)",
\* UserSpaceConfig.h:21: a daemon that got the signal ends.
SignalEnds ==
    \A d \in Daemons : (Alive(d) /\ ~running[d]) ~> Joined(d)

\* "send empty packet to user to let make it terminate (simplest solution i
\* found to free recv block)", sniffer.c:96: once main has unsubscribed, its
\* listener ends.
StopFreesReceiver ==
    \A p \in Procs : (mpc[p] = "unsubscribing" /\ handler[p] = "none") ~> Joined(p)

\* "Check if daemon is still alive, if its not, close the packet_hunter",
\* packet_hunter/src/main.cpp:50: a hunter that outlives its daemon closes and
\* is subscribed no longer.
HunterLeavesCleanly ==
    \A h \in Hunters : client_pid["packet_hunter"] = h => Alive(h)

=============================================================================
