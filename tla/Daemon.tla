------------------------------- MODULE Daemon -------------------------------
(***************************************************************************)
(* The main thread of portmon_daemon (daemon/src/main.cpp). What the scans *)
(* of /proc find is left out: here they only succeed or throw. The thread  *)
(* that answers the packet_hunter is seen through the hunter's connection, *)
(* in PacketHunter.                                                        *)
(***************************************************************************)
EXTENDS NetLinkClient

\* The exceptions of fs::directory_iterator are caught by nobody.
ScanThrows == "throw" \in Faults

\* systemd runs one instance of the service; every start is a new PID.
DStart(p) ==
    /\ mpc[p] = "unborn"
    /\ \A d \in Daemons : ~Alive(d)
    /\ Goto(p, "ctor")
    /\ UNCHANGED <<kernelvars, running, lpc, queue, mem, lhand, mhand>>

\* The netlink socket, the first scan of /proc, and the UNIX socket server.
DConstruct(p) ==
    /\ mpc[p] = "ctor"
    /\ OpenSocket(p)
    /\ \/ Goto(p, "subscribe")
       \/ ScanThrows /\ Goto(p, "aborted")
    /\ UNCHANGED <<subvars, handler, hookvars, running, lpc, queue, mem, lhand, mhand>>

\* sendMessage("daemon_subscribe"). When it fails, main returns while the
\* client thread is joinable: std::terminate.
DSubscribe(p) ==
    /\ mpc[p] = "subscribe"
    /\ \/ EnterKernel(p, "sub_test") /\ Goto(p, "subscribing")
       \/ SendFails(p) /\ Goto(p, "aborted") /\ UNCHANGED handler
    /\ UNCHANGED <<subvars, hookvars, sockvars, running, lpc, queue, mem, lhand, mhand>>

\* `running = true`, whatever a signal did to it before.
DReinitialize(p) ==
    /\ mpc[p] = "subscribing"
    /\ handler[p] = "none"
    /\ running' = [running EXCEPT ![p] = TRUE]
    /\ Goto(p, "spawn")
    /\ UNCHANGED <<kernelvars, lpc, queue, mem, lhand, mhand>>

\* addPidMapping scans /proc for the packet's port; then the cell is freed.
DHandle(p) ==
    /\ mpc[p] = "handle"
    /\ \/ /\ FreeAll(p, {mhand[p]})
          /\ mhand' = [mhand EXCEPT ![p] = Nil]
          /\ Goto(p, "loop")
       \/ /\ ScanThrows
          /\ Goto(p, "aborted")
          /\ UNCHANGED <<mem, mhand>>
    /\ UNCHANGED <<kernelvars, running, lpc, queue, lhand>>

\* The client connection is shut down and its thread joined; main returns.
DClose(p) ==
    /\ mpc[p] = "close"
    /\ Goto(p, "done")
    /\ UNCHANGED <<kernelvars, running, lpc, queue, mem, lhand, mhand>>

\* The steps main takes by itself once the process runs.
DaemonMain(p) ==
    \/ DConstruct(p)
    \/ DSubscribe(p)
    \/ DReinitialize(p)
    \/ Spawn(p)
    \/ LeaveLoop(p)
    \/ Pop(p)
    \/ DHandle(p)
    \/ Unsubscribe(p)
    \/ Join(p)
    \/ cleanMessageQueue(p, "close")

=============================================================================
