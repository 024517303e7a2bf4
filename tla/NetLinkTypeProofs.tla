------------------------- MODULE NetLinkTypeProofs -------------------------
(***************************************************************************)
(* Type correctness of NetLinkSystem, for any number of processes, CPUs,   *)
(* packets and addresses and any size of the receive buffers.              *)
(***************************************************************************)
EXTENDS NetLinkSystem, TLAPS, SequenceTheorems

\* The role of a process and the processes of that role.
LEMMA RoleOfType ==
    ASSUME NEW p \in Procs
    PROVE  RoleOf(p) \in Roles /\ p \in Members(RoleOf(p))
  BY DEF RoleOf, Roles, Members, Procs

\* send_packet_info_to_user keeps the types of what it touches.
LEMMA SendType ==
    ASSUME SnifferTypeOK, NEW to, NEW m \in Messages, send_packet_info_to_user(to, m)
    PROVE  /\ rcvbuf' \in [Procs -> Seq(Messages)]
           /\ sk_err' \in SUBSET Procs
           /\ congested' \in SUBSET Procs
  <1>1. CASE UNCHANGED <<rcvbuf, sk_err, congested>>
    BY <1>1 DEF SnifferTypeOK
  <1>2. CASE netlink_unicast(to, m)
    <2>1. CASE to \notin bound
      BY <1>2, <2>1 DEF netlink_unicast, SnifferTypeOK
    <2>2. CASE to \in bound
      <3>1. to \in Procs /\ rcvbuf[to] \in Seq(Messages)
        BY <2>2 DEF SnifferTypeOK
      <3>2. Append(rcvbuf[to], m) \in Seq(Messages)
        BY <3>1
      <3>3. QED
        BY <1>2, <2>2, <3>1, <3>2 DEF netlink_unicast, SnifferTypeOK
    <2>3. QED
      BY <2>1, <2>2
  <1>3. QED
    BY <1>1, <1>2 DEF send_packet_info_to_user

\* A step of nl_recv_msg keeps the types of the kernel module's state.
LEMMA HandlerType ==
    ASSUME SnifferTypeOK, NEW p \in Procs, nl_recv_msg(p)
    PROVE  SnifferTypeOK'
  <1> USE RoleOfType DEF SnifferTypeOK, At, subvars, hookvars, sockvars, HandlerStates
  <1>1. CASE SubscribeTest(p)
    BY <1>1 DEF SubscribeTest
  <1>2. CASE SubscribeFlag(p)
    BY <1>2 DEF SubscribeFlag
  <1>3. CASE SubscribePid(p)
    BY <1>3 DEF SubscribePid
  <1>4. CASE UnsubscribeStop(p)
    <2>1. handler' \in [Procs -> HandlerStates]
      BY <1>4 DEF UnsubscribeStop
    <2>2. /\ rcvbuf' \in [Procs -> Seq(Messages)]
          /\ sk_err' \in SUBSET Procs
          /\ congested' \in SUBSET Procs
      BY <1>4, SendType DEF UnsubscribeStop, Messages
    <2>3. QED
      BY <1>4, <2>1, <2>2 DEF UnsubscribeStop
  <1>5. CASE UnsubscribeFlag(p)
    BY <1>5 DEF UnsubscribeFlag
  <1>6. CASE UnsubscribePid(p)
    BY <1>6 DEF UnsubscribePid
  <1>7. QED
    BY <1>1, <1>2, <1>3, <1>4, <1>5, <1>6 DEF nl_recv_msg

\* A step of the hook keeps the types of the kernel module's state.
LEMMA HookType ==
    ASSUME SnifferTypeOK, NEW c \in Cpus, HookCapture(c) \/ packet_sniffer_hook(c)
    PROVE  SnifferTypeOK'
  <1> USE DEF SnifferTypeOK, subvars, hookvars, sockvars, HookStates, Roles
  <1>0. \A h \in HookStates : AfterRole(h) \in HookStates
    BY DEF AfterRole
  <1>1. CASE HookCapture(c)
    <2>1. captured + 1 \in 0 .. MaxPackets /\ captured + 1 \in Messages
      BY <1>1, SnifferAssumption DEF HookCapture, Messages, Packets
    <2>2. [at |-> "flag", role |-> "daemon", pkt |-> captured + 1] \in HookStates
      BY <2>1
    <2>3. QED
      BY <1>1, <2>1, <2>2 DEF HookCapture
  <1>2. CASE HookFlag(c)
    BY <1>0, <1>2 DEF HookFlag
  <1>3. CASE HookPid(c)
    BY <1>0, <1>3 DEF HookPid
  <1>4. CASE HookSend(c)
    <2>1. hook' \in [Cpus -> HookStates]
      <3>1. CASE hook' = [hook EXCEPT ![c] = AfterRole(@)]
        BY <1>0, <3>1
      <3>2. CASE hook' = [hook EXCEPT ![c].at = "idle"]
        BY <3>2
      <3>3. QED
        BY <1>4, <3>1, <3>2 DEF HookSend
    <2>2. /\ rcvbuf' \in [Procs -> Seq(Messages)]
          /\ sk_err' \in SUBSET Procs
          /\ congested' \in SUBSET Procs
      BY <1>4, SendType DEF HookSend
    <2>3. QED
      BY <1>4, <2>1, <2>2 DEF HookSend
  <1>5. QED
    BY <1>1, <1>2, <1>3, <1>4 DEF packet_sniffer_hook

-----------------------------------------------------------------------------
(* The invariant *)

\* A thread that is about to use its pointer has one. Without this TypeOK is
\* not inductive: nullptr could be pushed into the queue or stored in the map.
HandsFull ==
    \A p \in Procs : /\ lpc[p] = "deliver" => lhand[p] \in Addrs
                     /\ mpc[p] \in {"handle", "query", "await"} => mhand[p] \in Addrs

TypeInv == TypeOK /\ HandsFull

\* A step of the kernel module keeps all types.
LEMMA KernelType ==
    ASSUME TypeInv, Kernel
    PROVE  TypeInv'
  <1>1. SnifferTypeOK'
    <2>1. CASE sniffer_init
      BY <2>1 DEF sniffer_init, TypeInv, TypeOK, SnifferTypeOK, hookvars, sockvars
    <2>2. CASE sniffer_exit
      BY <2>2 DEF sniffer_exit, TypeInv, TypeOK, SnifferTypeOK, hookvars, sockvars
    <2>3. QED
      BY <2>1, <2>2, HandlerType, HookType DEF Kernel, TypeInv, TypeOK
  <1>2. ClientTypeOK' /\ HunterTypeOK' /\ HandsFull'
    BY DEF Kernel, TypeInv, TypeOK, ClientTypeOK, HunterTypeOK, HandsFull, uservars, huntervars
  <1>3. QED
    BY <1>1, <1>2 DEF TypeInv, TypeOK

\* A step of a listener thread keeps all types.
LEMMA ListenerType ==
    ASSUME TypeInv, NEW p \in Procs, Listener(p)
    PROVE  TypeInv'
  <1> USE DEF TypeInv, TypeOK, SnifferTypeOK, ClientTypeOK, HunterTypeOK, kernelvars, subvars,
              hookvars, sockvars, huntervars, ListenerStates, HandsFull
  <1>1. CASE ListenerTest(p)
    BY <1>1 DEF ListenerTest, Listener
  <1>2. CASE ReceiveError(p)
    BY <1>2 DEF ReceiveError, Drained, Listener
  <1>3. CASE receivePacketInfo(p)
    <2>1. rcvbuf[p] \in Seq(Messages) /\ rcvbuf[p] # <<>>
      BY <1>3 DEF receivePacketInfo
    <2>2. Head(rcvbuf[p]) \in Messages /\ Tail(rcvbuf[p]) \in Seq(Messages)
      BY <2>1
    <2>3. PICK a \in Addrs : /\ mem' = [mem EXCEPT ![p][a] = Head(rcvbuf[p])]
                             /\ lhand' = [lhand EXCEPT ![p] = a]
      BY <1>3 DEF receivePacketInfo
    <2>4. mem' \in [Procs -> [Addrs -> Messages \cup {Free}]]
      BY <2>2, <2>3
    <2>5. rcvbuf' \in [Procs -> Seq(Messages)]
      BY <1>3, <2>2 DEF receivePacketInfo
    <2>6. congested' \in SUBSET Procs /\ lpc' \in [Procs -> ListenerStates]
      BY <1>3 DEF receivePacketInfo, Drained
    <2>7. lhand' \in [Procs -> Addrs \cup {Nil}] /\ HandsFull'
      BY <1>3, <2>3 DEF receivePacketInfo
    <2>8. QED
      BY <1>3, <2>4, <2>5, <2>6, <2>7 DEF receivePacketInfo, Listener
  <1>4. CASE BadAlloc(p)
    BY <1>4 DEF BadAlloc, Goto, MainStates, Listener
  <1>5. CASE ListenerDeliver(p)
    <2>1. lhand[p] \in Addrs /\ queue[p] \in Seq(Addrs)
      BY <1>5 DEF ListenerDeliver
    <2>2. Append(queue[p], lhand[p]) \in Seq(Addrs)
      BY <2>1
    <2>3. queue' \in [Procs -> Seq(Addrs)]
      <3>1. CASE UNCHANGED queue
        BY <3>1
      <3>2. CASE queue' = [queue EXCEPT ![p] = Append(@, lhand[p])]
        BY <2>2, <3>2
      <3>3. QED
        BY <1>5, <3>1, <3>2 DEF ListenerDeliver
    <2>4. /\ lpc' \in [Procs -> ListenerStates]
          /\ lhand' \in [Procs -> Addrs \cup {Nil}]
      BY <1>5 DEF ListenerDeliver
    <2>5. HandsFull'
      BY <1>5 DEF ListenerDeliver
    <2>6. QED
      BY <1>5, <2>3, <2>4, <2>5 DEF ListenerDeliver, Listener
  <1>6. QED
    BY <1>1, <1>2, <1>3, <1>4, <1>5 DEF Listener, recvPacketInfoThread

\* freePacketInfo keeps the type of the heap.
LEMMA FreeType ==
    ASSUME ClientTypeOK, NEW p \in Procs, NEW S, FreeAll(p, S)
    PROVE  mem' \in [Procs -> [Addrs -> Messages \cup {Free}]]
  <1>1. [a \in Addrs |-> IF a \in S THEN Free ELSE mem[p][a]] \in [Addrs -> Messages \cup {Free}]
    BY DEF ClientTypeOK
  <1>2. QED
    BY <1>1 DEF ClientTypeOK, FreeAll

\* A step of main that both programs have keeps all types.
LEMMA SharedType ==
    ASSUME TypeInv, UNCHANGED huntervars, NEW p \in Procs, NEW next \in MainStates,
           next \notin {"handle", "query", "await"},
           \/ Spawn(p) \/ LeaveLoop(p) \/ Pop(p) \/ Unsubscribe(p) \/ Join(p)
           \/ cleanMessageQueue(p, next)
    PROVE  TypeInv'
  <1> USE DEF TypeInv, TypeOK, SnifferTypeOK, ClientTypeOK, HunterTypeOK, kernelvars, subvars,
              hookvars, sockvars, huntervars, HandsFull, Goto
  <1>1. CASE Spawn(p)
    BY <1>1 DEF Spawn, MainStates, ListenerStates
  <1>2. CASE LeaveLoop(p)
    BY <1>2 DEF LeaveLoop, MainStates
  <1>3. CASE Pop(p)
    <2>1. queue[p] \in Seq(Addrs) /\ queue[p] # <<>>
      BY <1>3 DEF Pop
    <2>2. Head(queue[p]) \in Addrs /\ Tail(queue[p]) \in Seq(Addrs)
      BY <2>1
    <2>3. /\ queue' \in [Procs -> Seq(Addrs)]
          /\ mpc' \in [Procs -> MainStates]
          /\ mhand' \in [Procs -> Addrs \cup {Nil}]
      BY <1>3, <2>2 DEF Pop, MainStates
    <2>4. HandsFull'
      BY <1>3, <2>2 DEF Pop
    <2>5. QED
      BY <1>3, <2>3, <2>4 DEF Pop
  <1>4. CASE Unsubscribe(p)
    BY <1>4 DEF Unsubscribe, EnterKernel, SendFails, HandlerStates, MainStates
  <1>5. CASE Join(p)
    BY <1>5 DEF Join, MainStates
  <1>6. CASE cleanMessageQueue(p, next)
    <2>1. mem' \in [Procs -> [Addrs -> Messages \cup {Free}]]
      BY <1>6, FreeType DEF cleanMessageQueue
    <2>2. queue' \in [Procs -> Seq(Addrs)]
      BY <1>6 DEF cleanMessageQueue
    <2>3. mpc' \in [Procs -> MainStates] /\ HandsFull'
      BY <1>6 DEF cleanMessageQueue
    <2>4. QED
      BY <1>6, <2>1, <2>2, <2>3 DEF cleanMessageQueue
  <1>7. QED
    BY <1>1, <1>2, <1>3, <1>4, <1>5, <1>6

\* A step of the daemon's main keeps all types.
LEMMA DaemonType ==
    ASSUME TypeInv, NEW d \in Daemons, DaemonStep(d)
    PROVE  TypeInv'
  <1> d \in Procs
    BY DEF Procs
  <1> USE DEF DaemonStep
  <1>1. CASE \/ Spawn(d) \/ LeaveLoop(d) \/ Pop(d) \/ Unsubscribe(d) \/ Join(d)
             \/ cleanMessageQueue(d, "close")
    BY <1>1, SharedType DEF MainStates
  <1>2. CASE DHandle(d)
    <2>1. mem' \in [Procs -> [Addrs -> Messages \cup {Free}]]
      BY <1>2, FreeType DEF DHandle, TypeInv, TypeOK, ClientTypeOK
    <2>2. QED
      BY <1>2, <2>1 DEF DHandle, TypeInv, TypeOK, SnifferTypeOK, ClientTypeOK, HunterTypeOK,
         kernelvars, subvars, hookvars, sockvars, huntervars, HandsFull, Goto, MainStates
  <1> USE DEF TypeInv, TypeOK, SnifferTypeOK, ClientTypeOK, HunterTypeOK, kernelvars, subvars,
              hookvars, sockvars, huntervars, HandsFull, Goto, MainStates
  <1>3. CASE DStart(d)
    BY <1>3 DEF DStart
  <1>4. CASE DConstruct(d)
    BY <1>4 DEF DConstruct, OpenSocket
  <1>5. CASE DSubscribe(d)
    BY <1>5 DEF DSubscribe, EnterKernel, HandlerStates
  <1>6. CASE DReinitialize(d)
    BY <1>6 DEF DReinitialize
  <1>7. CASE DClose(d)
    BY <1>7 DEF DClose
  <1>8. QED
    BY <1>1, <1>2, <1>3, <1>4, <1>5, <1>6, <1>7 DEF DaemonMain

\* A step of the hunter's main keeps all types.
LEMMA HunterType ==
    ASSUME TypeInv, NEW h \in Hunters, HunterStep(h)
    PROVE  TypeInv'
  <1> h \in Procs
    BY DEF Procs
  <1>1. CASE /\ \/ Spawn(h) \/ LeaveLoop(h) \/ Pop(h) \/ Unsubscribe(h) \/ Join(h)
                \/ cleanMessageQueue(h, "save")
             /\ UNCHANGED huntervars
    BY <1>1, SharedType DEF MainStates
  <1>2. CASE HSave(h)
    <2>1. mem' \in [Procs -> [Addrs -> Messages \cup {Free}]]
      BY <1>2, FreeType DEF HSave, TypeInv, TypeOK, ClientTypeOK
    <2>2. QED
      BY <1>2, <2>1 DEF HSave, TypeInv, TypeOK, SnifferTypeOK, ClientTypeOK, HunterTypeOK,
         kernelvars, subvars, hookvars, sockvars, HandsFull, Goto, MainStates
  <1> USE DEF TypeInv, TypeOK, SnifferTypeOK, ClientTypeOK, HunterTypeOK, kernelvars, subvars,
              hookvars, sockvars, huntervars, HandsFull, Goto, MainStates
  <1>3. CASE HStart(h)
    BY <1>3 DEF HStart
  <1>4. CASE HConstruct(h)
    BY <1>4 DEF HConstruct, OpenSocket
  <1>5. CASE HSubscribe(h)
    BY <1>5 DEF HSubscribe, EnterKernel, HandlerStates
  <1>6. CASE HSubscribed(h)
    BY <1>6 DEF HSubscribed
  <1>7. CASE HProbe(h)
    BY <1>7 DEF HProbe
  <1>8. CASE HHandle(h)
    BY <1>8 DEF HHandle, Drop
  <1>9. CASE sendPort(h)
    BY <1>9 DEF sendPort, Drop
  <1>10. CASE receivePid(h)
    <2>1. mhand[h] \in Addrs
      BY <1>10 DEF receivePid
    <2>2. stored' \in [Hunters -> SUBSET Addrs]
      <3>1. CASE UNCHANGED stored
        BY <3>1
      <3>2. CASE stored' = [stored EXCEPT ![h] = @ \cup {mhand[h]}]
        BY <2>1, <3>2
      <3>3. QED
        BY <1>10, <3>1, <3>2 DEF receivePid, insertPacketInfo, Drop
    <2>3. mpc' \in [Procs -> MainStates] /\ mhand' \in [Procs -> Addrs \cup {Nil}]
      BY <1>10 DEF receivePid, insertPacketInfo, Drop
    <2>4. HandsFull'
      BY <1>10 DEF receivePid, insertPacketInfo, Drop
    <2>5. QED
      BY <1>10, <2>2, <2>3, <2>4 DEF receivePid
  <1>11. QED
    BY <1>1, <1>2, <1>3, <1>4, <1>5, <1>6, <1>7, <1>8, <1>9, <1>10 DEF HunterStep, HunterMain

\* Signals, kills and the end of a process keep all types.
LEMMA EnvironmentType ==
    ASSUME TypeInv,
           \/ \E p \in Procs : Environment(p)
           \/ \E d \in Daemons, h \in Hunters : CloseClient(d, h)
    PROVE  TypeInv'
  <1> USE DEF TypeInv, TypeOK, SnifferTypeOK, ClientTypeOK, HunterTypeOK, kernelvars, subvars,
              hookvars, sockvars, huntervars, HandsFull, Goto, MainStates
  <1>1. CASE \E p \in Procs : handleSignal(p)
    BY <1>1 DEF handleSignal
  <1>2. CASE \E p \in Procs : Kill(p)
    BY <1>2 DEF Kill
  <1>3. CASE \E p \in Procs : Reap(p)
    <2> PICK p \in Procs : Reap(p)
      BY <1>3
    <2>1. /\ rcvbuf' \in [Procs -> Seq(Messages)]
          /\ queue' \in [Procs -> Seq(Addrs)]
          /\ mem' \in [Procs -> [Addrs -> Messages \cup {Free}]]
      BY DEF Reap
    <2>2. /\ handler' \in [Procs -> HandlerStates]
          /\ mpc' \in [Procs -> MainStates]
          /\ lpc' \in [Procs -> ListenerStates]
          /\ lhand' \in [Procs -> Addrs \cup {Nil}]
          /\ mhand' \in [Procs -> Addrs \cup {Nil}]
      BY DEF Reap, HandlerStates, ListenerStates
    <2>3. /\ bound' \in SUBSET Procs
          /\ sk_err' \in SUBSET Procs
          /\ congested' \in SUBSET Procs
      BY DEF Reap
    <2>4. /\ stored' \in [Hunters -> SUBSET Addrs]
          /\ conn' \in [Hunters -> {"none", "up", "down"}]
      BY DEF Reap
    <2>5. HandsFull'
      BY DEF Reap
    <2>6. QED
      BY <2>1, <2>2, <2>3, <2>4, <2>5 DEF Reap
  <1>4. CASE \E d \in Daemons, h \in Hunters : CloseClient(d, h)
    BY <1>4 DEF CloseClient, uservars
  <1>5. QED
    BY <1>1, <1>2, <1>3, <1>4 DEF Environment

\* Every variable always has its type, and no thread ever uses a pointer it
\* does not have: the invariant is inductive.
THEOREM TypeInvariant == Spec => []TypeInv
  <1>1. Init => TypeInv
    <2> SUFFICES ASSUME Init PROVE TypeInv
      OBVIOUS
    <2>1. SnifferTypeOK
      <3> USE DEF Init, SnifferInit, SnifferTypeOK
      <3>1. hook \in [Cpus -> HookStates]
        BY DEF HookStates, Roles, Messages
      <3>2. handler \in [Procs -> HandlerStates] /\ rcvbuf \in [Procs -> Seq(Messages)]
        BY DEF HandlerStates
      <3>3. captured \in 0 .. MaxPackets
        BY SnifferAssumption
      <3>4. QED
        BY <3>1, <3>2, <3>3
    <2>2. ClientTypeOK
      BY DEF Init, ClientInit, ClientTypeOK, MainStates, ListenerStates
    <2>3. HunterTypeOK /\ HandsFull
      BY DEF Init, HunterInit, ClientInit, HunterTypeOK, HandsFull
    <2>4. QED
      BY <2>1, <2>2, <2>3 DEF TypeInv, TypeOK
  <1>2. TypeInv /\ [Next]_vars => TypeInv'
    <2> SUFFICES ASSUME TypeInv, [Next]_vars PROVE TypeInv'
      OBVIOUS
    <2>1. CASE UNCHANGED vars
      BY <2>1 DEF vars, kernelvars, subvars, hookvars, sockvars, uservars, huntervars, TypeInv,
         TypeOK, SnifferTypeOK, ClientTypeOK, HunterTypeOK, HandsFull
    <2>2. CASE Next
      BY <2>2, KernelType, DaemonType, HunterType, ListenerType, EnvironmentType DEF Next
    <2>3. QED
      BY <2>1, <2>2
  <1>3. QED
    BY <1>1, <1>2, PTL DEF Spec

\* Every variable always has its type.
THEOREM TypeCorrect == Spec => []TypeOK
  BY TypeInvariant, PTL DEF TypeInv

=============================================================================
