--------------------- MODULE NetLinkSubscriptionProofs ---------------------
(***************************************************************************)
(* Who is subscribed: the PID the kernel module has recorded, whom it      *)
(* feeds, and that its view agrees with the programs' own as long as none  *)
(* of them crashes.                                                        *)
(***************************************************************************)
EXTENDS NetLinkTypeProofs

-----------------------------------------------------------------------------
(* The recorded PID, with any number of processes and any fault *)

\* A system call in nl_recv_msg belongs to a main thread that waits for it, or
\* that has been killed meanwhile.
HandlerPlace ==
    \A p \in Procs :
        /\ handler[p] \in {"sub_test", "sub_flag", "sub_pid"} => mpc[p] \in {"subscribing", "aborted"}
        /\ handler[p] \in {"unsub_stop", "unsub_flag", "unsub_pid", "oops"} =>
              mpc[p] \in {"unsubscribing", "aborted"}

\* Only a process that exists has a socket.
BoundAlive == \A p \in bound : Alive(p)

\* The states in which p may be recorded: from its subscribe call to the end
\* of its unsubscribe call, or dead without it.
Recordable(p) ==
    \/ mpc[p] \in {"subscribing", "spawn", "loop", "handle", "query", "await", "unsubscribe",
                   "aborted", "crashed"}
    \/ mpc[p] = "unsubscribing" /\ handler[p] # "none"

OnlyRecordable == \A r \in Roles : client_pid[r] # NoPid => Recordable(client_pid[r])

RecordInv == HandlerPlace /\ BoundAlive /\ OnlyRecordable

\* A recorded PID is that of a process of the role.
LEMMA RecordedRole ==
    ASSUME TypeInv, NEW r \in Roles, client_pid[r] # NoPid
    PROVE  client_pid[r] \in Procs /\ r = RoleOf(client_pid[r])
  BY SnifferAssumption DEF TypeInv, TypeOK, SnifferTypeOK, Members, RoleOf, Roles, Procs

\* A step of nl_recv_msg keeps the recorded PID right.
LEMMA HandlerRecord ==
    ASSUME TypeInv, RecordInv, NEW p \in Procs, nl_recv_msg(p), UNCHANGED uservars
    PROVE  RecordInv'
  <1> USE DEF At, subvars, hookvars, sockvars, uservars
  <1>0. /\ handler \in [Procs -> HandlerStates]
        /\ client_pid \in [Roles -> Procs \cup {NoPid}]
        /\ RoleOf(p) \in Roles
        /\ NoPid \notin Procs
    BY RoleOfType, SnifferAssumption DEF TypeInv, TypeOK, SnifferTypeOK, Procs
  <1>1. UNCHANGED <<mpc, bound>>
    BY DEF nl_recv_msg, SubscribeTest, SubscribeFlag, SubscribePid, UnsubscribeStop,
       UnsubscribeFlag, UnsubscribePid
  <1>2. \A q \in Procs : handler'[q] = handler[q] \/ q = p
    BY <1>0 DEF nl_recv_msg, SubscribeTest, SubscribeFlag, SubscribePid, UnsubscribeStop,
       UnsubscribeFlag, UnsubscribePid
  <1>3. BoundAlive'
    BY <1>1 DEF RecordInv, BoundAlive, Alive
  <1>4. HandlerPlace'
    BY <1>0, <1>1, <1>2 DEF RecordInv, HandlerPlace, nl_recv_msg, SubscribeTest, SubscribeFlag,
       SubscribePid, UnsubscribeStop, UnsubscribeFlag, UnsubscribePid
  <1>5. OnlyRecordable'
    <2> SUFFICES ASSUME NEW r \in Roles, client_pid'[r] # NoPid
                 PROVE  Recordable(client_pid[r])'
      BY DEF OnlyRecordable
    <2>1. CASE SubscribePid(p)
      <3>1. mpc[p] \in {"subscribing", "aborted"}
        BY <2>1 DEF SubscribePid, RecordInv, HandlerPlace
      <3>2. CASE client_pid'[r] = p
        BY <1>1, <3>1, <3>2 DEF Recordable
      <3>3. CASE client_pid'[r] # p
        <4>1. client_pid'[r] = client_pid[r] /\ client_pid[r] \in Procs
          BY <1>0, <2>1, <3>3 DEF SubscribePid
        <4>2. QED
          BY <1>1, <1>2, <3>3, <4>1 DEF Recordable, RecordInv, OnlyRecordable
      <3>4. QED
        BY <3>2, <3>3
    <2>2. CASE UnsubscribePid(p)
      <3>1. r # RoleOf(p) /\ client_pid'[r] = client_pid[r]
        BY <1>0, <2>2 DEF UnsubscribePid
      <3>2. client_pid[r] \in Procs /\ client_pid[r] # p
        BY <3>1, RecordedRole
      <3>3. QED
        BY <1>1, <1>2, <3>1, <3>2 DEF Recordable, RecordInv, OnlyRecordable
    <2>3. CASE SubscribeTest(p) \/ SubscribeFlag(p) \/ UnsubscribeStop(p) \/ UnsubscribeFlag(p)
      <3>1. client_pid' = client_pid
        BY <2>3 DEF SubscribeTest, SubscribeFlag, UnsubscribeStop, UnsubscribeFlag
      <3>2. /\ mpc[p] = "unsubscribing" => handler'[p] # "none"
            /\ client_pid[r] \in Procs
        BY <1>0, <2>3, <3>1 DEF SubscribeTest, SubscribeFlag, UnsubscribeStop, UnsubscribeFlag,
           RecordInv, HandlerPlace
      <3>3. QED
        BY <1>1, <1>2, <3>1, <3>2 DEF Recordable, RecordInv, OnlyRecordable
    <2>4. QED
      BY <2>1, <2>2, <2>3 DEF nl_recv_msg
  <1>6. QED
    BY <1>3, <1>4, <1>5 DEF RecordInv

\* So does a step that moves neither a process nor a system call.
LEMMA QuietRecord ==
    ASSUME TypeInv, RecordInv, UNCHANGED <<mpc, handler, bound>>,
           \A r \in Roles : client_pid'[r] \in {client_pid[r], NoPid}
    PROVE  RecordInv'
  BY DEF RecordInv, HandlerPlace, BoundAlive, Alive, OnlyRecordable, Recordable

\* So does a step that moves the main thread of p, and keeps p recordable.
LEMMA MoveRecord ==
    ASSUME TypeInv, RecordInv, NEW p \in Procs, UNCHANGED client_pid,
           \A q \in Procs \ {p} : mpc'[q] = mpc[q] /\ handler'[q] = handler[q],
           bound' \subseteq bound \cup {p},
           p \in bound' => Alive(p)',
           Recordable(p) => Recordable(p)',
           \/ handler'[p] = "none"
           \/ handler'[p] = handler[p] /\ mpc'[p] = "aborted"
           \/ handler'[p] = "sub_test" /\ mpc'[p] = "subscribing"
           \/ handler'[p] = "unsub_stop" /\ mpc'[p] = "unsubscribing"
    PROVE  RecordInv'
  <1>1. HandlerPlace'
    BY DEF RecordInv, HandlerPlace
  <1>2. BoundAlive'
    <2> SUFFICES ASSUME NEW q \in bound' PROVE Alive(q)'
      BY DEF BoundAlive
    <2>1. CASE q = p
      BY <2>1
    <2>2. CASE q # p
      BY <2>2 DEF RecordInv, BoundAlive, Alive, TypeInv, TypeOK, SnifferTypeOK
    <2>3. QED
      BY <2>1, <2>2
  <1>3. OnlyRecordable'
    BY RecordedRole DEF RecordInv, OnlyRecordable, Recordable
  <1>4. QED
    BY <1>1, <1>2, <1>3 DEF RecordInv

\* A main thread that is not waiting for nl_recv_msg is in no system call.
LEMMA NoCall ==
    ASSUME TypeInv, RecordInv, NEW p \in Procs,
           mpc[p] \notin {"subscribing", "unsubscribing", "aborted"}
    PROVE  handler[p] = "none"
  BY DEF TypeInv, TypeOK, SnifferTypeOK, HandlerStates, RecordInv, HandlerPlace

\* Main moves on without a system call, to a state in which it may still be
\* recorded if it was.
LEMMA GotoRecord ==
    ASSUME TypeInv, RecordInv, NEW p \in Procs, NEW there, Goto(p, there),
           UNCHANGED <<client_pid, handler>>,
           bound' \subseteq bound \cup {p},
           there \notin {"unborn", "gone", "crashed"},
           handler[p] = "none" \/ there = "aborted",
           Recordable(p) => there \in {"subscribing", "spawn", "loop", "handle", "query", "await",
                                       "unsubscribe", "aborted"}
    PROVE  RecordInv'
  <1>1. mpc'[p] = there /\ \A q \in Procs \ {p} : mpc'[q] = mpc[q]
    BY DEF Goto, TypeInv, TypeOK, ClientTypeOK
  <1>2. Alive(p)'
    BY <1>1 DEF Alive
  <1>3. Recordable(p) => Recordable(p)'
    BY <1>1 DEF Recordable
  <1>4. QED
    BY <1>1, <1>2, <1>3, MoveRecord

\* Main enters nl_recv_msg.
LEMMA CallRecord ==
    ASSUME TypeInv, RecordInv, NEW p \in Procs, NEW where, NEW there,
           EnterKernel(p, where), Goto(p, there), UNCHANGED <<client_pid, bound>>,
           <<where, there>> \in {<<"sub_test", "subscribing">>, <<"unsub_stop", "unsubscribing">>}
    PROVE  RecordInv'
  <1>1. /\ mpc'[p] = there /\ \A q \in Procs \ {p} : mpc'[q] = mpc[q]
        /\ handler'[p] = where /\ \A q \in Procs \ {p} : handler'[q] = handler[q]
    BY DEF Goto, EnterKernel, TypeInv, TypeOK, SnifferTypeOK, ClientTypeOK
  <1>2. Alive(p)' /\ Recordable(p)'
    BY <1>1 DEF Alive, Recordable
  <1>3. QED
    BY <1>1, <1>2, MoveRecord

\* A step of main that both programs have keeps the recorded PID right.
LEMMA SharedRecord ==
    ASSUME TypeInv, RecordInv, NEW p \in Procs, NEW next \in {"save", "close"},
           \/ Spawn(p) \/ LeaveLoop(p) \/ Pop(p) \/ Unsubscribe(p) \/ Join(p)
           \/ cleanMessageQueue(p, next)
    PROVE  RecordInv'
  <1> USE DEF kernelvars, subvars, sockvars
  <1>1. CASE Spawn(p)
    BY <1>1, NoCall, GotoRecord DEF Spawn
  <1>2. CASE LeaveLoop(p)
    BY <1>2, NoCall, GotoRecord DEF LeaveLoop
  <1>3. CASE Pop(p)
    BY <1>3, NoCall, GotoRecord DEF Pop
  <1>4. CASE Unsubscribe(p)
    <2>1. CASE EnterKernel(p, "unsub_stop") /\ Goto(p, "unsubscribing")
      BY <1>4, <2>1, CallRecord DEF Unsubscribe
    <2>2. CASE Goto(p, "aborted") /\ UNCHANGED handler
      BY <1>4, <2>2, GotoRecord DEF Unsubscribe
    <2>3. QED
      BY <1>4, <2>1, <2>2 DEF Unsubscribe
  <1>5. CASE Join(p)
    BY <1>5, GotoRecord DEF Join, Recordable
  <1>6. CASE cleanMessageQueue(p, next)
    BY <1>6, NoCall, GotoRecord DEF cleanMessageQueue, Recordable
  <1>7. QED
    BY <1>1, <1>2, <1>3, <1>4, <1>5, <1>6

\* So does a step of the daemon's main.
LEMMA DaemonRecord ==
    ASSUME TypeInv, RecordInv, NEW d \in Daemons, DaemonStep(d)
    PROVE  RecordInv'
  <1> d \in Procs
    BY DEF Procs
  <1> USE DEF kernelvars, subvars, sockvars
  <1>1. CASE \/ Spawn(d) \/ LeaveLoop(d) \/ Pop(d) \/ Unsubscribe(d) \/ Join(d)
             \/ cleanMessageQueue(d, "close")
    BY <1>1, SharedRecord
  <1>2. CASE DStart(d)
    BY <1>2, NoCall, GotoRecord DEF DStart, Recordable
  <1>3. CASE DConstruct(d)
    <2>1. handler[d] = "none" /\ ~Recordable(d) /\ bound' \subseteq bound \cup {d}
      BY <1>3, NoCall DEF DConstruct, Recordable, OpenSocket
    <2>2. CASE Goto(d, "subscribe")
      BY <1>3, <2>1, <2>2, GotoRecord DEF DConstruct
    <2>3. CASE Goto(d, "aborted")
      BY <1>3, <2>1, <2>3, GotoRecord DEF DConstruct
    <2>4. QED
      BY <1>3, <2>2, <2>3 DEF DConstruct
  <1>4. CASE DSubscribe(d)
    <2>1. CASE EnterKernel(d, "sub_test") /\ Goto(d, "subscribing")
      BY <1>4, <2>1, CallRecord DEF DSubscribe
    <2>2. CASE Goto(d, "aborted") /\ UNCHANGED handler
      BY <1>4, <2>2, GotoRecord DEF DSubscribe
    <2>3. QED
      BY <1>4, <2>1, <2>2 DEF DSubscribe
  <1>5. CASE DReinitialize(d)
    BY <1>5, GotoRecord DEF DReinitialize
  <1>6. CASE DHandle(d)
    <2>1. CASE Goto(d, "loop")
      BY <1>6, <2>1, NoCall, GotoRecord DEF DHandle
    <2>2. CASE Goto(d, "aborted")
      BY <1>6, <2>2, GotoRecord DEF DHandle
    <2>3. QED
      BY <1>6, <2>1, <2>2 DEF DHandle
  <1>7. CASE DClose(d)
    BY <1>7, NoCall, GotoRecord DEF DClose, Recordable
  <1>8. QED
    BY <1>1, <1>2, <1>3, <1>4, <1>5, <1>6, <1>7 DEF DaemonStep, DaemonMain

\* So does a step of the hunter's main.
LEMMA HunterRecord ==
    ASSUME TypeInv, RecordInv, NEW h \in Hunters, HunterStep(h)
    PROVE  RecordInv'
  <1> h \in Procs
    BY DEF Procs
  <1> USE DEF kernelvars, subvars, sockvars
  <1>1. CASE \/ Spawn(h) \/ LeaveLoop(h) \/ Pop(h) \/ Unsubscribe(h) \/ Join(h)
             \/ cleanMessageQueue(h, "save")
    BY <1>1, SharedRecord
  <1>2. CASE HStart(h)
    BY <1>2, NoCall, GotoRecord DEF HStart, Recordable
  <1>3. CASE HConstruct(h)
    BY <1>3, NoCall, GotoRecord DEF HConstruct, Recordable, OpenSocket
  <1>4. CASE HSubscribe(h)
    <2>1. CASE EnterKernel(h, "sub_test") /\ Goto(h, "subscribing")
      BY <1>4, <2>1, CallRecord DEF HSubscribe
    <2>2. CASE Goto(h, "done") /\ UNCHANGED handler
      BY <1>4, <2>2, NoCall, GotoRecord DEF HSubscribe, Recordable
    <2>3. QED
      BY <1>4, <2>1, <2>2 DEF HSubscribe
  <1>5. CASE HSubscribed(h)
    BY <1>5, GotoRecord DEF HSubscribed
  <1>6. CASE HProbe(h)
    BY <1>6, QuietRecord DEF HProbe
  <1>7. CASE HHandle(h)
    BY <1>7, NoCall, GotoRecord DEF HHandle, Drop
  <1>8. CASE sendPort(h)
    BY <1>8, NoCall, GotoRecord DEF sendPort, Drop
  <1>9. CASE receivePid(h)
    BY <1>9, NoCall, GotoRecord DEF receivePid, Drop
  <1>10. CASE HSave(h)
    BY <1>10, NoCall, GotoRecord DEF HSave, Recordable
  <1>11. QED
    BY <1>1, <1>2, <1>3, <1>4, <1>5, <1>6, <1>7, <1>8, <1>9, <1>10 DEF HunterStep, HunterMain

\* So does a step of anything else.
LEMMA OutsideRecord ==
    ASSUME TypeInv, RecordInv,
           \/ Kernel
           \/ \E p \in Procs : Listener(p) \/ Environment(p)
           \/ \E d \in Daemons, h \in Hunters : CloseClient(d, h)
    PROVE  RecordInv'
  <1> USE DEF kernelvars, subvars, hookvars, sockvars, uservars, huntervars
  <1>1. CASE \E p \in Procs : nl_recv_msg(p) /\ UNCHANGED uservars
    BY <1>1, HandlerRecord
  <1>2. CASE /\ UNCHANGED <<mpc, handler, bound>>
             /\ \A r \in Roles : client_pid'[r] \in {client_pid[r], NoPid}
    BY <1>2, QuietRecord
  <1>3. CASE \E p \in Procs : BadAlloc(p) \/ Kill(p)
    BY <1>3, GotoRecord DEF BadAlloc, Kill
  <1>4. CASE \E p \in Procs : Reap(p)
    <2> PICK p \in Procs : Reap(p)
      BY <1>4
    <2>1. /\ mpc'[p] = IF mpc[p] = "done" THEN "gone" ELSE "crashed"
          /\ handler'[p] = "none"
          /\ \A q \in Procs \ {p} : mpc'[q] = mpc[q] /\ handler'[q] = handler[q]
          /\ p \notin bound' /\ bound' \subseteq bound
          /\ UNCHANGED client_pid
      BY DEF Reap, Goto, TypeInv, TypeOK, SnifferTypeOK, ClientTypeOK
    <2>2. Recordable(p) => Recordable(p)'
      BY <2>1 DEF Reap, Recordable
    <2>3. QED
      BY <2>1, <2>2, MoveRecord
  <1>5. QED
    <2>1. CASE Kernel
      <3>1. CASE sniffer_init \/ sniffer_exit
        BY <1>2, <2>1, <3>1 DEF Kernel, sniffer_init, sniffer_exit
      <3>2. CASE \E c \in Cpus : HookCapture(c) \/ packet_sniffer_hook(c)
        BY <1>2, <2>1, <3>2 DEF Kernel, HookCapture, packet_sniffer_hook, HookFlag, HookPid, HookSend
      <3>3. QED
        BY <1>1, <2>1, <3>1, <3>2 DEF Kernel
    <2>2. CASE \E p \in Procs : Listener(p)
      BY <1>2, <1>3, <2>2 DEF Listener, recvPacketInfoThread, ListenerTest, ReceiveError,
         receivePacketInfo, ListenerDeliver
    <2>3. CASE \E p \in Procs : Environment(p)
      BY <1>2, <1>3, <1>4, <2>3 DEF Environment, handleSignal
    <2>4. CASE \E d \in Daemons, h \in Hunters : CloseClient(d, h)
      BY <1>2, <2>4 DEF CloseClient
    <2>5. QED
      BY <2>1, <2>2, <2>3, <2>4

\* The inductive invariant behind the theorems of this module.
THEOREM RecordInvariant == Spec => []RecordInv
  <1>1. Init => RecordInv
    BY DEF Init, SnifferInit, ClientInit, RecordInv, HandlerPlace, BoundAlive, OnlyRecordable, Roles
  <1>2. TypeInv /\ RecordInv /\ [Next]_vars => RecordInv'
    <2> SUFFICES ASSUME TypeInv, RecordInv, [Next]_vars PROVE RecordInv'
      OBVIOUS
    <2>1. CASE UNCHANGED vars
      BY <2>1, QuietRecord DEF vars, kernelvars, subvars, sockvars, uservars
    <2>2. CASE Next
      BY <2>2, OutsideRecord, DaemonRecord, HunterRecord DEF Next
    <2>3. QED
      BY <2>1, <2>2
  <1>3. QED
    BY <1>1, <1>2, TypeInvariant, PTL DEF Spec

\* The kernel module never keeps the PID of a process that has left through
\* its unsubscribe call, with any number of daemons and hunters at once.
THEOREM RecordedPidSafe == Spec => []RecordedPid
  <1>1. RecordInv => RecordedPid
    BY DEF RecordInv, OnlyRecordable, Recordable, RecordedPid
  <1>2. QED
    BY <1>1, RecordInvariant, PTL

-----------------------------------------------------------------------------
(* Whom the kernel module feeds *)

\* send_packet_info_to_user only lets the buffer of its receiver grow.
LEMMA SendGrows ==
    ASSUME TypeInv, NEW to, NEW m, send_packet_info_to_user(to, m),
           NEW p \in Procs, Len(rcvbuf'[p]) > Len(rcvbuf[p])
    PROVE  p = to /\ p \in bound
  <1>1. rcvbuf[p] \in Seq(Messages) /\ Len(rcvbuf[p]) \in Nat
    BY DEF TypeInv, TypeOK, SnifferTypeOK
  <1>2. rcvbuf' # rcvbuf
    BY <1>1
  <1>3. to \in bound /\ rcvbuf' = [rcvbuf EXCEPT ![to] = Append(@, m)]
    BY <1>2 DEF send_packet_info_to_user, netlink_unicast
  <1>4. CASE p # to
    <2>1. rcvbuf'[p] = rcvbuf[p]
      BY <1>3, <1>4 DEF TypeInv, TypeOK, SnifferTypeOK
    <2>2. QED
      BY <1>1, <2>1
  <1>5. QED
    BY <1>3, <1>4

\* No step other than a send lets a buffer grow.
LEMMA OthersDoNotGrow ==
    ASSUME TypeInv, [Next]_vars, NEW p \in Procs, Len(rcvbuf'[p]) > Len(rcvbuf[p])
    PROVE  \/ \E c \in Cpus : HookSend(c)
           \/ \E q \in Procs : UnsubscribeStop(q)
  <1>1. rcvbuf[p] \in Seq(Messages) /\ Len(rcvbuf[p]) \in Nat
    BY DEF TypeInv, TypeOK, SnifferTypeOK
  <1>2. rcvbuf' # rcvbuf
    BY <1>1
  <1>3. ASSUME NEW q \in Procs, receivePacketInfo(q) PROVE FALSE
    <2>1. rcvbuf[q] \in Seq(Messages) /\ rcvbuf[q] # <<>>
      BY <1>3 DEF receivePacketInfo, TypeInv, TypeOK, SnifferTypeOK
    <2>2. Len(Tail(rcvbuf[q])) = Len(rcvbuf[q]) - 1 /\ Len(rcvbuf[q]) \in Nat
      BY <2>1
    <2>3. rcvbuf'[p] = IF p = q THEN Tail(rcvbuf[q]) ELSE rcvbuf[p]
      BY <1>3 DEF receivePacketInfo, TypeInv, TypeOK, SnifferTypeOK
    <2>4. QED
      BY <1>1, <2>2, <2>3
  <1>4. ASSUME NEW q \in Procs, Reap(q) PROVE FALSE
    <2>1. rcvbuf'[p] = IF p = q THEN <<>> ELSE rcvbuf[p]
      BY <1>4 DEF Reap, TypeInv, TypeOK, SnifferTypeOK
    <2>2. QED
      BY <1>1, <2>1
  <1> USE DEF kernelvars, subvars, hookvars, sockvars, uservars, huntervars
  <1>5. CASE Kernel
    BY <1>2, <1>5 DEF Kernel, sniffer_init, sniffer_exit, HookCapture, packet_sniffer_hook, HookFlag, HookPid,
       nl_recv_msg, SubscribeTest, SubscribeFlag, SubscribePid, UnsubscribeFlag, UnsubscribePid
  <1>6. ASSUME NEW q \in Procs, NEW next,
               \/ Spawn(q) \/ LeaveLoop(q) \/ Pop(q) \/ Unsubscribe(q) \/ Join(q)
               \/ cleanMessageQueue(q, next)
        PROVE  FALSE
    BY <1>2, <1>6 DEF Spawn, LeaveLoop, Pop, Unsubscribe, Join, cleanMessageQueue
  <1>7. ASSUME NEW d \in Daemons, DaemonStep(d) PROVE FALSE
    BY <1>2, <1>6, <1>7 DEF Procs, DaemonStep, DaemonMain, DStart, DConstruct, OpenSocket, DSubscribe,
       DReinitialize, DHandle, DClose
  <1>8. ASSUME NEW h \in Hunters, HunterStep(h) PROVE FALSE
    BY <1>2, <1>6, <1>8 DEF Procs, HunterStep, HunterMain, HStart, HConstruct, OpenSocket, HSubscribe,
       HSubscribed, HProbe, HHandle, sendPort, receivePid, HSave
  <1>9. ASSUME NEW q \in Procs, Listener(q) \/ Environment(q) PROVE FALSE
    BY <1>2, <1>3, <1>4, <1>9 DEF Listener, recvPacketInfoThread, ListenerTest, ReceiveError,
       BadAlloc, ListenerDeliver, Environment, handleSignal, Kill
  <1>10. ASSUME NEW d \in Daemons, NEW h \in Hunters, CloseClient(d, h) PROVE FALSE
    BY <1>2, <1>10 DEF CloseClient
  <1>11. QED
    BY <1>2, <1>5, <1>7, <1>8, <1>9, <1>10 DEF Next, vars

\* A receive buffer never grows before its owner's subscribe call nor after its
\* unsubscribe call, however many hooks, daemons and hunters run at once.
THEOREM FeedStops == Spec => NoFeedAfterUnsubscribe
  <1>1. ASSUME TypeInv, RecordInv, [Next]_vars, NEW p \in Procs, Len(rcvbuf'[p]) > Len(rcvbuf[p])
        PROVE  \/ Subscriber(p)
               \/ mpc[p] \in {"subscribing", "unsubscribing"} /\ handler[p] # "none"
               \/ mpc[p] = "aborted"
    <2>1. PICK r \in Roles : client_pid[r] = p /\ p \in bound
      <3>1. CASE \E c \in Cpus : HookSend(c)
        <4> PICK c \in Cpus : HookSend(c)
          BY <3>1
        <4>1. hook[c].role \in Roles
          BY <1>1 DEF TypeInv, TypeOK, SnifferTypeOK, HookStates
        <4>2. rcvbuf' # rcvbuf
          BY <1>1 DEF TypeInv, TypeOK, SnifferTypeOK
        <4>3. send_packet_info_to_user(client_pid[hook[c].role], hook[c].pkt)
          BY <4>2 DEF HookSend
        <4>4. p = client_pid[hook[c].role] /\ p \in bound
          BY <1>1, <4>3, SendGrows
        <4>5. QED
          BY <4>1, <4>4
      <3>2. CASE \E q \in Procs : UnsubscribeStop(q)
        <4> PICK q \in Procs : UnsubscribeStop(q)
          BY <3>2
        <4>1. rcvbuf' # rcvbuf
          BY <1>1 DEF TypeInv, TypeOK, SnifferTypeOK
        <4>2. send_packet_info_to_user(client_pid[RoleOf(q)], Stop)
          BY <4>1 DEF UnsubscribeStop
        <4>3. p = client_pid[RoleOf(q)] /\ p \in bound
          BY <1>1, <4>2, SendGrows
        <4>4. QED
          BY <4>3, RoleOfType
      <3>3. QED
        BY <1>1, <3>1, <3>2, OthersDoNotGrow
    <2>2. p # NoPid
      BY SnifferAssumption DEF Procs
    <2>3. Recordable(p) /\ Alive(p)
      BY <1>1, <2>1, <2>2 DEF RecordInv, OnlyRecordable, BoundAlive
    <2>4. QED
      BY <2>3 DEF Recordable, Alive, Subscriber
  <1>2. TypeInv /\ RecordInv /\ [Next]_vars => [FedWhileSubscribed]_vars
    BY <1>1 DEF FedWhileSubscribed
  <1>3. QED
    BY <1>2, TypeInvariant, RecordInvariant, PTL DEF Spec, NoFeedAfterUnsubscribe

=============================================================================
