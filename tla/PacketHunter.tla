---------------------------- MODULE PacketHunter ----------------------------
(***************************************************************************)
(* The main thread of packet_hunter (packet_hunter/src/main.cpp), its map  *)
(* PidToPacketsInfoMap and its connection to the daemon, UnixSocketClient. *)
(* The daemon's answer is a choice: the PID of the port, or -1.            *)
(***************************************************************************)
EXTENDS NetLinkClient

CONSTANTS
    FlowOf,     \* which packets comparePacketInfo takes to be equal
    OneHunter   \* whether the user runs one packet_hunter at a time

ASSUME HunterAssumption ==
    /\ Packets \subseteq DOMAIN FlowOf
    /\ OneHunter \in BOOLEAN

VARIABLES
    stored,  \* the cells that the PidToPacketsInfoMap of each hunter points to
    conn     \* the connection: isConnected is false ("none"), or the daemon's
             \* end is open ("up") or closed ("down")

huntervars == <<stored, conn>>

HunterTypeOK ==
    /\ stored \in [Hunters -> SUBSET Addrs]
    /\ conn \in [Hunters -> {"none", "up", "down"}]

HunterInit ==
    /\ stored = [p \in Hunters |-> {}]
    /\ conn = [p \in Hunters |-> "none"]

\* Whether connect() finds a daemon that listens on the UNIX socket.
Listening(d) == Alive(d) /\ mpc[d] # "ctor"

HStart(p) ==
    /\ mpc[p] = "unborn"
    /\ OneHunter => \A h \in Hunters : ~Alive(h)
    /\ Goto(p, "ctor")
    /\ UNCHANGED <<kernelvars, running, lpc, queue, mem, lhand, mhand, huntervars>>

\* The netlink socket, then connectToServer.
HConstruct(p) ==
    /\ mpc[p] = "ctor"
    /\ OpenSocket(p)
    /\ conn' = [conn EXCEPT ![p] = IF \E d \in Daemons : Listening(d) THEN "up" ELSE "none"]
    /\ Goto(p, "subscribe")
    /\ UNCHANGED <<subvars, handler, hookvars, running, lpc, queue, mem, lhand, mhand, stored>>

\* sendMessage("packet_hunter_subscribe"). There is no thread yet: when it
\* fails main just returns.
HSubscribe(p) ==
    /\ mpc[p] = "subscribe"
    /\ \/ EnterKernel(p, "sub_test") /\ Goto(p, "subscribing")
       \/ SendFails(p) /\ Goto(p, "done") /\ UNCHANGED handler
    /\ UNCHANGED <<subvars, hookvars, sockvars, running, lpc, queue, mem, lhand, mhand, huntervars>>

HSubscribed(p) ==
    /\ mpc[p] = "subscribing"
    /\ handler[p] = "none"
    /\ Goto(p, "spawn")
    /\ UNCHANGED <<kernelvars, running, lpc, queue, mem, lhand, mhand, huntervars>>

\* Slip: isServerAlive looks at isConnected only.
HProbeSlip(p) ==
    /\ mpc[p] = "loop"
    /\ running[p]
    /\ queue[p] = <<>>
    /\ conn[p] = "none"
    /\ running' = [running EXCEPT ![p] = FALSE]
    /\ UNCHANGED <<kernelvars, mpc, lpc, queue, mem, lhand, mhand, huntervars>>

\* The queue is empty: isServerAlive finds the daemon gone. With a daemon
\* that is alive main only sleeps: no step.
HProbe(p) ==
    /\ mpc[p] = "loop"
    /\ running[p]
    /\ queue[p] = <<>>
    /\ conn[p] # "up"
    /\ running' = [running EXCEPT ![p] = FALSE]
    /\ UNCHANGED <<kernelvars, mpc, lpc, queue, mem, lhand, mhand, huntervars>>

\* The map holds a packet with the same addresses, ports and protocol.
containsPacket(p, a) ==
    \E b \in stored[p] : FlowOf[mem[p][b]] = FlowOf[mem[p][a]]

\* main lets go of the packet and moves on; the cell is not freed.
Drop(p, there) ==
    /\ mhand' = [mhand EXCEPT ![p] = Nil]
    /\ Goto(p, there)
    /\ UNCHANGED stored

HHandle(p) ==
    /\ mpc[p] = "handle"
    /\ \/ /\ containsPacket(p, mhand[p])
          /\ Drop(p, "loop")
       \/ /\ ~containsPacket(p, mhand[p])
          /\ Goto(p, "query")
          /\ UNCHANGED <<mhand, stored>>
    /\ UNCHANGED <<kernelvars, running, lpc, queue, mem, lhand, conn>>

\* sendPort: false without a connection; SIGPIPE, which nobody handles, when
\* the daemon has closed its end.
sendPort(p) ==
    /\ mpc[p] = "query"
    /\ \/ /\ conn[p] = "none"
          /\ Drop(p, "unsubscribe")
       \/ /\ conn[p] = "up"
          /\ Goto(p, "await")
          /\ UNCHANGED <<mhand, stored>>
       \/ /\ conn[p] = "down"
          /\ Goto(p, "aborted")
          /\ UNCHANGED <<mhand, stored>>
    /\ UNCHANGED <<kernelvars, running, lpc, queue, mem, lhand, conn>>

\* The map takes the packet, unless the daemon's answer is -1: then the cell is
\* neither kept nor freed.
insertPacketInfo(p) ==
    \/ stored' = [stored EXCEPT ![p] = @ \cup {mhand[p]}]
    \/ UNCHANGED stored

\* receivePid: an answer, also one sent before the daemon closed its end; or
\* the end of the connection, which leaves the loop with `running` still true.
receivePid(p) ==
    /\ mpc[p] = "await"
    /\ \/ /\ insertPacketInfo(p)
          /\ mhand' = [mhand EXCEPT ![p] = Nil]
          /\ Goto(p, "loop")
       \/ /\ conn[p] = "down"
          /\ Drop(p, "unsubscribe")
    /\ UNCHANGED <<kernelvars, running, lpc, queue, mem, lhand, conn>>

\* The user answers: the map is written to a file and freed, or freed without;
\* if the file cannot be opened nothing is freed.
HSave(p) ==
    /\ mpc[p] = "save"
    /\ \/ FreeAll(p, stored[p]) /\ stored' = [stored EXCEPT ![p] = {}]
       \/ UNCHANGED <<mem, stored>>
    /\ Goto(p, "done")
    /\ UNCHANGED <<kernelvars, running, lpc, queue, lhand, mhand, conn>>

\* The steps main takes by itself once the process runs.
HunterMain(p) ==
    \/ HConstruct(p)
    \/ HSubscribe(p)
    \/ HSubscribed(p)
    \/ HProbe(p)
    \/ HHandle(p)
    \/ sendPort(p)
    \/ receivePid(p)
    \/ /\ \/ Spawn(p)
          \/ LeaveLoop(p)
          \/ Pop(p)
          \/ Unsubscribe(p)
          \/ Join(p)
          \/ cleanMessageQueue(p, "save")
       /\ UNCHANGED huntervars

=============================================================================
