----------------------- MODULE NetLinkAccuracyProofs -----------------------
(***************************************************************************)
(* The kernel module and the programs agree on who is subscribed, as long  *)
(* as no process of the role has crashed and one packet_hunter runs at a   *)
(* time.                                                                   *)
(***************************************************************************)
EXTENDS NetLinkSubscriptionProofs

FreeRole(r) == ~subscribed[r] /\ client_pid[r] = NoPid

\* p is alive and its subscribe call has not begun to act, or its unsubscribe
\* call has returned.
Idle(p) ==
    \/ mpc[p] \in {"ctor", "subscribe", "clean", "save", "close", "done"}
    \/ mpc[p] = "subscribing" /\ handler[p] \in {"sub_test", "sub_flag"}
    \/ mpc[p] = "unsubscribing" /\ handler[p] = "none"

\* What the flags of role r are at each stage of the life of its process p.
Stage(p, r) ==
    /\ Idle(p) => FreeRole(r)
    /\ mpc[p] = "subscribing" /\ handler[p] = "sub_pid" => subscribed[r] /\ client_pid[r] = NoPid
    /\ Subscriber(p) => subscribed[r] /\ client_pid[r] = p
    /\ mpc[p] = "unsubscribing" /\ handler[p] \in {"unsub_stop", "unsub_flag", "oops"} =>
          subscribed[r] /\ client_pid[r] = p
    /\ mpc[p] = "unsubscribing" /\ handler[p] = "unsub_pid" =>
          ~subscribed[r] /\ client_pid[r] = p

Agrees(r) ==
    OneHunter /\ ~Crashed(r) =>
        /\ \A p \in Members(r) : Alive(p) => Stage(p, r)
        /\ (\A p \in Members(r) : ~Alive(p)) => FreeRole(r)

\* One process of each role at a time.
Exclusive ==
    OneHunter => \A r \in Roles : \A p, q \in Members(r) : Alive(p) /\ Alive(q) => p = q

\* Who has subscribed holds a socket, and a socket holds the kernel module: it
\* cannot be unloaded, and its flags reset, under a subscriber.
Talking == {"subscribing", "spawn", "loop", "handle", "query", "await", "unsubscribe",
            "unsubscribing"}

Pinned ==
    /\ \A p \in Procs : mpc[p] \in Talking => p \in bound
    /\ bound # {} => loaded

AgreeInv == Exclusive /\ Pinned /\ \A r \in Roles : Agrees(r)

\* The processes of a role, and the role of a process.
LEMMA MembersOf ==
    ASSUME NEW r \in Roles, NEW p \in Members(r)
    PROVE  p \in Procs /\ r = RoleOf(p)
  BY SnifferAssumption DEF Members, RoleOf, Roles, Procs

\* A step that moves no process, no system call and no flag.
LEMMA QuietAgrees ==
    ASSUME AgreeInv, UNCHANGED <<mpc, handler, subscribed, client_pid, bound, loaded>>
    PROVE  AgreeInv'
  <1>1. Exclusive'
    BY DEF AgreeInv, Exclusive, Alive
  <1>2. Pinned'
    BY DEF AgreeInv, Pinned
  <1>3. ASSUME NEW r \in Roles PROVE Agrees(r)'
    BY DEF AgreeInv, Agrees, Crashed, Alive, Stage, Idle, FreeRole, Subscriber
  <1>4. QED
    BY <1>1, <1>2, <1>3 DEF AgreeInv

\* A step of the live process p that brings it from one stage to another.
LEMMA StepAgrees ==
    ASSUME TypeInv, AgreeInv, NEW p \in Procs, Alive(p),
           \A q \in Procs \ {p} : mpc'[q] = mpc[q] /\ handler'[q] = handler[q],
           \A s \in Roles \ {RoleOf(p)} : subscribed'[s] = subscribed[s] /\ client_pid'[s] = client_pid[s],
           mpc[p] = "aborted" => mpc'[p] = "aborted",
           Alive(p)',
           mpc'[p] \in Talking => p \in bound',
           bound \subseteq bound', bound' # {} => loaded',
           mpc'[p] # "aborted" /\ Stage(p, RoleOf(p)) => Stage(p, RoleOf(p))'
    PROVE  AgreeInv'
  <1>1. \A q \in Procs : Alive(q)' <=> Alive(q)
    BY DEF Alive
  <1>2. Exclusive'
    BY <1>1, MembersOf DEF AgreeInv, Exclusive
  <1>3. Pinned'
    BY DEF AgreeInv, Pinned
  <1>4. ASSUME NEW r \in Roles, OneHunter, ~Crashed(r)'
        PROVE  /\ \A q \in Members(r) : Alive(q)' => Stage(q, r)'
               /\ (\A q \in Members(r) : ~Alive(q)') => FreeRole(r)'
    <2>1. ~Crashed(r)
      BY <1>4, MembersOf DEF Crashed, Alive
    <2>2. /\ \A q \in Members(r) : Alive(q) => Stage(q, r)
          /\ (\A q \in Members(r) : ~Alive(q)) => FreeRole(r)
      BY <1>4, <2>1 DEF AgreeInv, Agrees
    <2>3. CASE r = RoleOf(p)
      <3>1. p \in Members(r)
        BY <2>3, RoleOfType
      <3>2. mpc'[p] # "aborted" /\ Stage(p, r)
        BY <1>4, <2>2, <3>1 DEF Crashed
      <3>3. Stage(p, r)'
        BY <2>3, <3>2
      <3>4. \A q \in Members(r) : Alive(q)' => q = p
        BY <1>1, <1>4, <3>1, MembersOf DEF AgreeInv, Exclusive
      <3>5. QED
        BY <3>1, <3>3, <3>4
    <2>4. CASE r # RoleOf(p)
      <3>1. \A q \in Members(r) : q \in Procs \ {p}
        BY <2>4, MembersOf
      <3>2. subscribed'[r] = subscribed[r] /\ client_pid'[r] = client_pid[r]
        BY <2>4
      <3>3. \A q \in Members(r) : mpc'[q] = mpc[q] /\ handler'[q] = handler[q]
        BY <3>1
      <3>4. QED
        BY <1>1, <2>2, <3>1, <3>2, <3>3 DEF Stage, Idle, FreeRole, Subscriber
    <2>5. QED
      BY <2>3, <2>4
  <1>5. QED
    BY <1>2, <1>3, <1>4 DEF AgreeInv, Agrees

\* Main of p moves on without a system call, within the idle stages or within
\* the subscribed ones, or dies.
LEMMA GotoAgrees ==
    ASSUME TypeInv, AgreeInv, NEW p \in Procs, Alive(p), NEW there, Goto(p, there),
           UNCHANGED <<loaded, subscribed, client_pid, handler>>,
           bound' = bound \/ (bound' = bound \cup {p} /\ loaded),
           \/ there = "aborted"
           \/ mpc[p] # "aborted" /\ Idle(p) /\ there \in {"subscribe", "clean", "save", "close", "done"}
           \/ /\ Subscriber(p) /\ handler[p] = "none"
              /\ there \in {"spawn", "loop", "handle", "query", "await", "unsubscribe"}
    PROVE  AgreeInv'
  <1>1. mpc'[p] = there /\ \A q \in Procs \ {p} : mpc'[q] = mpc[q]
    BY DEF Goto, TypeInv, TypeOK, ClientTypeOK
  <1>2. Alive(p)'
    BY <1>1 DEF Alive
  <1>3. mpc'[p] \in Talking => p \in bound'
    BY <1>1 DEF AgreeInv, Pinned, Talking, Subscriber
  <1>4. bound \subseteq bound' /\ (bound' # {} => loaded')
    BY DEF AgreeInv, Pinned
  <1>5. mpc'[p] # "aborted" /\ Stage(p, RoleOf(p)) => Stage(p, RoleOf(p))'
    BY <1>1 DEF Stage, Idle, Subscriber, FreeRole
  <1>6. mpc[p] = "aborted" => mpc'[p] = "aborted"
    BY <1>1 DEF Subscriber
  <1>7. QED
    BY <1>1, <1>2, <1>3, <1>4, <1>5, <1>6, StepAgrees

\* Main of p enters nl_recv_msg.
LEMMA CallAgrees ==
    ASSUME TypeInv, AgreeInv, NEW p \in Procs, NEW where, NEW there,
           EnterKernel(p, where), Goto(p, there),
           UNCHANGED <<loaded, subscribed, client_pid, bound>>,
           \/ mpc[p] = "subscribe" /\ where = "sub_test" /\ there = "subscribing"
           \/ mpc[p] = "unsubscribe" /\ where = "unsub_stop" /\ there = "unsubscribing"
    PROVE  AgreeInv'
  <1>1. /\ mpc'[p] = there /\ \A q \in Procs \ {p} : mpc'[q] = mpc[q]
        /\ handler'[p] = where /\ \A q \in Procs \ {p} : handler'[q] = handler[q]
    BY DEF Goto, EnterKernel, TypeInv, TypeOK, SnifferTypeOK, ClientTypeOK
  <1>2. Alive(p) /\ Alive(p)'
    BY <1>1 DEF Alive
  <1>3. p \in bound' /\ (bound' # {} => loaded')
    BY DEF EnterKernel, AgreeInv, Pinned
  <1>4. Stage(p, RoleOf(p)) => Stage(p, RoleOf(p))'
    BY <1>1 DEF Stage, Idle, Subscriber, FreeRole
  <1>5. QED
    BY <1>1, <1>2, <1>3, <1>4, StepAgrees

\* A step of nl_recv_msg brings its process from one stage to the next.
LEMMA HandlerAgrees ==
    ASSUME TypeInv, RecordInv, AgreeInv, NEW p \in Procs, nl_recv_msg(p), UNCHANGED uservars
    PROVE  AgreeInv'
  <1> USE DEF At, subvars, hookvars, sockvars, uservars
  <1>0. /\ handler \in [Procs -> HandlerStates]
        /\ client_pid \in [Roles -> Procs \cup {NoPid}]
        /\ subscribed \in [Roles -> BOOLEAN]
        /\ RoleOf(p) \in Roles
    BY RoleOfType DEF TypeInv, TypeOK, SnifferTypeOK
  <1>1. UNCHANGED <<mpc, bound, loaded>>
    BY DEF nl_recv_msg, SubscribeTest, SubscribeFlag, SubscribePid, UnsubscribeStop,
       UnsubscribeFlag, UnsubscribePid
  <1>2. \A q \in Procs \ {p} : handler'[q] = handler[q]
    BY <1>0 DEF nl_recv_msg, SubscribeTest, SubscribeFlag, SubscribePid, UnsubscribeStop,
       UnsubscribeFlag, UnsubscribePid
  <1>3. \A s \in Roles \ {RoleOf(p)} :
            subscribed'[s] = subscribed[s] /\ client_pid'[s] = client_pid[s]
    BY <1>0 DEF nl_recv_msg, SubscribeTest, SubscribeFlag, SubscribePid, UnsubscribeStop,
       UnsubscribeFlag, UnsubscribePid
  <1>4. /\ handler[p] \in {"sub_test", "sub_flag", "sub_pid"} => mpc[p] \in {"subscribing", "aborted"}
        /\ handler[p] \in {"unsub_stop", "unsub_flag", "unsub_pid"} =>
              mpc[p] \in {"unsubscribing", "aborted"}
    BY DEF RecordInv, HandlerPlace
  <1>5. Alive(p) /\ Alive(p)'
    BY <1>1, <1>4 DEF Alive, nl_recv_msg, SubscribeTest, SubscribeFlag, SubscribePid,
       UnsubscribeStop, UnsubscribeFlag, UnsubscribePid
  <1>6. /\ mpc'[p] \in Talking => p \in bound'
        /\ bound \subseteq bound' /\ (bound' # {} => loaded')
    BY <1>1 DEF AgreeInv, Pinned
  <1>7. ASSUME mpc'[p] # "aborted", Stage(p, RoleOf(p)) PROVE Stage(p, RoleOf(p))'
    <2> USE <1>0, <1>1, <1>4, <1>7 DEF Stage, Idle, Subscriber, FreeRole
    <2>1. CASE SubscribeTest(p)
      BY <2>1 DEF SubscribeTest
    <2>2. CASE SubscribeFlag(p)
      BY <2>2 DEF SubscribeFlag
    <2>3. CASE SubscribePid(p)
      BY <2>3 DEF SubscribePid
    <2>4. CASE UnsubscribeStop(p)
      BY <2>4 DEF UnsubscribeStop
    <2>5. CASE UnsubscribeFlag(p)
      BY <2>5 DEF UnsubscribeFlag
    <2>6. CASE UnsubscribePid(p)
      BY <2>6 DEF UnsubscribePid
    <2>7. QED
      BY <2>1, <2>2, <2>3, <2>4, <2>5, <2>6 DEF nl_recv_msg
  <1>8. QED
    BY <1>1, <1>2, <1>3, <1>5, <1>6, <1>7, StepAgrees

\* A process starts while, with OneHunter, no other of its role is alive.
LEMMA StartAgrees ==
    ASSUME TypeInv, AgreeInv, NEW p \in Procs, mpc[p] = "unborn",
           OneHunter => \A q \in Members(RoleOf(p)) : ~Alive(q),
           Goto(p, "ctor"), UNCHANGED <<loaded, subscribed, client_pid, handler, bound>>
    PROVE  AgreeInv'
  <1>1. mpc'[p] = "ctor" /\ \A q \in Procs \ {p} : mpc'[q] = mpc[q]
    BY DEF Goto, TypeInv, TypeOK, ClientTypeOK
  <1>2. Pinned'
    BY <1>1 DEF AgreeInv, Pinned, Talking
  <1>3. ASSUME NEW r \in Roles, OneHunter, r # RoleOf(p)
        PROVE  /\ \A q \in Members(r) : mpc'[q] = mpc[q] /\ (Alive(q)' <=> Alive(q))
               /\ Agrees(r)'
    <2>1. \A q \in Members(r) : mpc'[q] = mpc[q] /\ (Alive(q)' <=> Alive(q))
      BY <1>1, <1>3, MembersOf DEF Alive
    <2>2. Crashed(r)' <=> Crashed(r)
      BY <2>1 DEF Crashed
    <2>3. \A q \in Members(r) : Stage(q, r) => Stage(q, r)'
      BY <2>1 DEF Stage, Idle, Subscriber, FreeRole
    <2>4. FreeRole(r) => FreeRole(r)'
      BY DEF FreeRole
    <2>5. QED
      BY <2>1, <2>2, <2>3, <2>4 DEF AgreeInv, Agrees
  <1>4. ASSUME OneHunter
        PROVE  \A q \in Members(RoleOf(p)) : Alive(q)' => q = p
    BY <1>1, <1>4, RoleOfType, MembersOf DEF Alive
  <1>5. ASSUME OneHunter PROVE Agrees(RoleOf(p))'
    <2>1. ASSUME ~Crashed(RoleOf(p))' PROVE FreeRole(RoleOf(p))
      <3>1. ~Crashed(RoleOf(p))
        BY <1>1, <2>1, RoleOfType, MembersOf DEF Crashed
      <3>2. QED
        BY <1>5, <3>1, RoleOfType DEF AgreeInv, Agrees
    <2>2. FreeRole(RoleOf(p)) => FreeRole(RoleOf(p))' /\ Stage(p, RoleOf(p))'
      BY <1>1 DEF FreeRole, Stage, Idle, Subscriber
    <2>3. QED
      BY <1>4, <1>5, <2>1, <2>2 DEF Agrees
  <1>6. Exclusive'
    <2> SUFFICES ASSUME OneHunter, NEW r \in Roles, NEW q1 \in Members(r), NEW q2 \in Members(r),
                        Alive(q1)', Alive(q2)'
                 PROVE  q1 = q2
      BY DEF Exclusive
    <2>1. CASE r = RoleOf(p)
      BY <1>4, <2>1
    <2>2. CASE r # RoleOf(p)
      BY <1>3, <2>2 DEF AgreeInv, Exclusive
    <2>3. QED
      BY <2>1, <2>2
  <1>7. \A r \in Roles : Agrees(r)'
    BY <1>3, <1>5 DEF Agrees
  <1>8. QED
    BY <1>2, <1>6, <1>7 DEF AgreeInv

\* A dead process is reaped.
LEMMA ReapAgrees ==
    ASSUME TypeInv, AgreeInv, NEW p \in Procs, Reap(p)
    PROVE  AgreeInv'
  <1>1. /\ \/ mpc[p] = "done" /\ mpc'[p] = "gone"
           \/ mpc[p] = "aborted" /\ mpc'[p] = "crashed"
        /\ \A q \in Procs \ {p} : mpc'[q] = mpc[q] /\ handler'[q] = handler[q]
        /\ bound' = bound \ {p}
        /\ UNCHANGED <<loaded, subscribed, client_pid>>
    BY DEF Reap, Goto, subvars, TypeInv, TypeOK, SnifferTypeOK, ClientTypeOK
  <1>2. ~Alive(p)' /\ Alive(p) /\ \A q \in Procs \ {p} : Alive(q)' <=> Alive(q)
    BY <1>1 DEF Alive
  <1>3. Exclusive'
    BY <1>2, MembersOf DEF AgreeInv, Exclusive
  <1>4. Pinned'
    BY <1>1 DEF AgreeInv, Pinned, Talking
  <1>5. ASSUME NEW r \in Roles, OneHunter, ~Crashed(r)'
        PROVE  /\ \A q \in Members(r) : Alive(q)' => Stage(q, r)'
               /\ (\A q \in Members(r) : ~Alive(q)') => FreeRole(r)'
    <2>1. ~Crashed(r)
      BY <1>1, <1>5, MembersOf DEF Crashed
    <2>2. /\ \A q \in Members(r) : Alive(q) => Stage(q, r)
          /\ (\A q \in Members(r) : ~Alive(q)) => FreeRole(r)
      BY <1>5, <2>1 DEF AgreeInv, Agrees
    <2>3. FreeRole(r) => FreeRole(r)'
      BY <1>1 DEF FreeRole
    <2>4. \A q \in Members(r) \ {p} : Stage(q, r) => Stage(q, r)'
      BY <1>1, MembersOf DEF Stage, Idle, Subscriber, FreeRole
    <2>5. \A q \in Members(r) : Alive(q)' => Stage(q, r)'
      BY <1>2, <2>2, <2>4, MembersOf
    <2>6. ASSUME \A q \in Members(r) : ~Alive(q)' PROVE FreeRole(r)
      <3>1. CASE p \in Members(r)
        <4>1. mpc[p] = "done"
          BY <1>1, <1>5, <3>1 DEF Crashed
        <4>2. QED
          BY <1>2, <2>2, <3>1, <4>1 DEF Stage, Idle
      <3>2. CASE p \notin Members(r)
        BY <1>2, <2>2, <2>6, <3>2, MembersOf
      <3>3. QED
        BY <3>1, <3>2
    <2>7. QED
      BY <2>3, <2>5, <2>6
  <1>6. QED
    BY <1>3, <1>4, <1>5 DEF AgreeInv, Agrees

\* The kernel module is loaded: nobody talks to it, so the flags it starts with
\* are what the programs believe.
LEMMA LoadAgrees ==
    ASSUME TypeInv, AgreeInv, sniffer_init, UNCHANGED <<uservars, huntervars>>
    PROVE  AgreeInv'
  <1> USE DEF uservars, sockvars
  <1>1. bound = {} /\ UNCHANGED <<mpc, handler, bound>> /\ loaded'
    BY DEF AgreeInv, Pinned, sniffer_init
  <1>2. Exclusive' /\ Pinned'
    BY <1>1 DEF AgreeInv, Exclusive, Pinned, Alive
  <1>3. ASSUME NEW r \in Roles PROVE FreeRole(r)'
    BY DEF sniffer_init, FreeRole
  <1>4. ASSUME NEW r \in Roles, ~Crashed(r)', NEW p \in Members(r), Alive(p)'
        PROVE  Stage(p, r)'
    <2>1. p \in Procs /\ mpc[p] \in MainStates \ Talking
      BY <1>1, <1>4, MembersOf DEF AgreeInv, Pinned, TypeInv, TypeOK, ClientTypeOK
    <2>2. QED
      BY <1>1, <1>3, <2>1 DEF Stage, Subscriber, Talking
  <1>5. QED
    BY <1>2, <1>3, <1>4 DEF AgreeInv, Agrees

\* The kernel module is unloaded.
LEMMA UnloadAgrees ==
    ASSUME AgreeInv, sniffer_exit, UNCHANGED <<uservars, huntervars>>
    PROVE  AgreeInv'
  <1>1. bound' = {} /\ UNCHANGED <<mpc, handler, bound, subscribed, client_pid>>
    BY DEF sniffer_exit, sockvars, uservars
  <1>2. Exclusive' /\ Pinned'
    BY <1>1 DEF AgreeInv, Exclusive, Pinned, Alive
  <1>3. ASSUME NEW r \in Roles PROVE Agrees(r)'
    BY <1>1 DEF AgreeInv, Agrees, Crashed, Alive, Stage, Idle, FreeRole, Subscriber
  <1>4. QED
    BY <1>2, <1>3 DEF AgreeInv

\* A step of main that both programs have.
LEMMA SharedAgrees ==
    ASSUME TypeInv, RecordInv, AgreeInv, NEW p \in Procs, NEW next \in {"save", "close"},
           \/ Spawn(p) \/ LeaveLoop(p) \/ Pop(p) \/ Unsubscribe(p) \/ Join(p)
           \/ cleanMessageQueue(p, next)
    PROVE  AgreeInv'
  <1> USE DEF kernelvars, subvars, sockvars
  <1>1. CASE Spawn(p)
    BY <1>1, NoCall, GotoAgrees DEF Spawn, Alive, Subscriber
  <1>2. CASE LeaveLoop(p)
    BY <1>2, NoCall, GotoAgrees DEF LeaveLoop, Alive, Subscriber
  <1>3. CASE Pop(p)
    BY <1>3, NoCall, GotoAgrees DEF Pop, Alive, Subscriber
  <1>4. CASE Unsubscribe(p)
    <2>1. CASE EnterKernel(p, "unsub_stop") /\ Goto(p, "unsubscribing")
      BY <1>4, <2>1, CallAgrees DEF Unsubscribe
    <2>2. CASE Goto(p, "aborted") /\ UNCHANGED handler
      BY <1>4, <2>2, GotoAgrees DEF Unsubscribe, Alive
    <2>3. QED
      BY <1>4, <2>1, <2>2 DEF Unsubscribe
  <1>5. CASE Join(p)
    BY <1>5, GotoAgrees DEF Join, Alive, Idle
  <1>6. CASE cleanMessageQueue(p, next)
    BY <1>6, GotoAgrees DEF cleanMessageQueue, Alive, Idle
  <1>7. QED
    BY <1>1, <1>2, <1>3, <1>4, <1>5, <1>6

\* A step of the daemon's main.
LEMMA DaemonAgrees ==
    ASSUME TypeInv, RecordInv, AgreeInv, NEW d \in Daemons, DaemonStep(d)
    PROVE  AgreeInv'
  <1> d \in Procs /\ Members(RoleOf(d)) = Daemons
    BY DEF Procs, Members, RoleOf
  <1> USE DEF kernelvars, subvars, sockvars
  <1>1. CASE \/ Spawn(d) \/ LeaveLoop(d) \/ Pop(d) \/ Unsubscribe(d) \/ Join(d)
             \/ cleanMessageQueue(d, "close")
    BY <1>1, SharedAgrees
  <1>2. CASE DStart(d)
    BY <1>2, StartAgrees DEF DStart
  <1>3. CASE DConstruct(d)
    <2>1. /\ Alive(d) /\ Idle(d) /\ mpc[d] # "aborted"
          /\ bound' = bound \/ (bound' = bound \cup {d} /\ loaded)
      BY <1>3 DEF DConstruct, Alive, Idle, OpenSocket
    <2>2. QED
      BY <1>3, <2>1, GotoAgrees DEF DConstruct
  <1>4. CASE DSubscribe(d)
    <2>1. CASE EnterKernel(d, "sub_test") /\ Goto(d, "subscribing")
      BY <1>4, <2>1, CallAgrees DEF DSubscribe
    <2>2. CASE Goto(d, "aborted") /\ UNCHANGED handler
      BY <1>4, <2>2, GotoAgrees DEF DSubscribe, Alive
    <2>3. QED
      BY <1>4, <2>1, <2>2 DEF DSubscribe
  <1>5. CASE DReinitialize(d)
    BY <1>5, GotoAgrees DEF DReinitialize, Alive, Subscriber
  <1>6. CASE DHandle(d)
    BY <1>6, NoCall, GotoAgrees DEF DHandle, Alive, Subscriber
  <1>7. CASE DClose(d)
    BY <1>7, GotoAgrees DEF DClose, Alive, Idle
  <1>8. QED
    BY <1>1, <1>2, <1>3, <1>4, <1>5, <1>6, <1>7 DEF DaemonStep, DaemonMain

\* A step of the hunter's main.
LEMMA HunterAgrees ==
    ASSUME TypeInv, RecordInv, AgreeInv, NEW h \in Hunters, HunterStep(h)
    PROVE  AgreeInv'
  <1> h \in Procs /\ Members(RoleOf(h)) = Hunters
    BY SnifferAssumption DEF Procs, Members, RoleOf
  <1> USE DEF kernelvars, subvars, sockvars
  <1>1. CASE \/ Spawn(h) \/ LeaveLoop(h) \/ Pop(h) \/ Unsubscribe(h) \/ Join(h)
             \/ cleanMessageQueue(h, "save")
    BY <1>1, SharedAgrees
  <1>2. CASE HStart(h)
    BY <1>2, StartAgrees DEF HStart
  <1>3. CASE HConstruct(h)
    <2>1. /\ Alive(h) /\ Idle(h) /\ mpc[h] # "aborted"
          /\ bound' = bound \/ (bound' = bound \cup {h} /\ loaded)
      BY <1>3 DEF HConstruct, Alive, Idle, OpenSocket
    <2>2. QED
      BY <1>3, <2>1, GotoAgrees DEF HConstruct
  <1>4. CASE HSubscribe(h)
    <2>1. CASE EnterKernel(h, "sub_test") /\ Goto(h, "subscribing")
      BY <1>4, <2>1, CallAgrees DEF HSubscribe
    <2>2. CASE Goto(h, "done") /\ UNCHANGED handler
      BY <1>4, <2>2, GotoAgrees DEF HSubscribe, Alive, Idle
    <2>3. QED
      BY <1>4, <2>1, <2>2 DEF HSubscribe
  <1>5. CASE HSubscribed(h)
    BY <1>5, GotoAgrees DEF HSubscribed, Alive, Subscriber
  <1>6. CASE HProbe(h)
    BY <1>6, QuietAgrees DEF HProbe
  <1>7. CASE HHandle(h)
    BY <1>7, NoCall, GotoAgrees DEF HHandle, Drop, Alive, Subscriber
  <1>8. CASE sendPort(h)
    BY <1>8, NoCall, GotoAgrees DEF sendPort, Drop, Alive, Subscriber
  <1>9. CASE receivePid(h)
    BY <1>9, NoCall, GotoAgrees DEF receivePid, Drop, Alive, Subscriber
  <1>10. CASE HSave(h)
    BY <1>10, GotoAgrees DEF HSave, Alive, Idle
  <1>11. QED
    BY <1>1, <1>2, <1>3, <1>4, <1>5, <1>6, <1>7, <1>8, <1>9, <1>10 DEF HunterStep, HunterMain

\* A step of anything else.
LEMMA OutsideAgrees ==
    ASSUME TypeInv, RecordInv, AgreeInv,
           \/ Kernel
           \/ \E p \in Procs : Listener(p) \/ Environment(p)
           \/ \E d \in Daemons, h \in Hunters : CloseClient(d, h)
    PROVE  AgreeInv'
  <1> USE DEF kernelvars, subvars, hookvars, sockvars, uservars, huntervars
  <1>1. CASE UNCHANGED <<mpc, handler, subscribed, client_pid, bound, loaded>>
    BY <1>1, QuietAgrees
  <1>2. CASE Kernel
    <2>1. CASE \E c \in Cpus : HookCapture(c) \/ packet_sniffer_hook(c)
      BY <1>1, <1>2, <2>1 DEF Kernel, HookCapture, packet_sniffer_hook, HookFlag, HookPid, HookSend
    <2>2. CASE sniffer_init \/ sniffer_exit
      BY <1>2, <2>2, LoadAgrees, UnloadAgrees DEF Kernel
    <2>3. CASE \E p \in Procs : nl_recv_msg(p)
      BY <1>2, <2>3, HandlerAgrees DEF Kernel
    <2>4. QED
      BY <1>2, <2>1, <2>2, <2>3 DEF Kernel
  <1>3. ASSUME NEW p \in Procs, Kill(p) PROVE AgreeInv'
    BY <1>3, GotoAgrees DEF Kill
  <1>4. ASSUME NEW p \in Procs, BadAlloc(p) PROVE AgreeInv'
    BY <1>4, GotoAgrees DEF BadAlloc
  <1>5. CASE \E p \in Procs : Listener(p)
    BY <1>1, <1>4, <1>5 DEF Listener, recvPacketInfoThread, ListenerTest, ReceiveError,
       receivePacketInfo, ListenerDeliver
  <1>6. CASE \E p \in Procs : Environment(p)
    BY <1>1, <1>3, <1>6, ReapAgrees DEF Environment, handleSignal
  <1>7. CASE \E d \in Daemons, h \in Hunters : CloseClient(d, h)
    BY <1>1, <1>7 DEF CloseClient
  <1>8. QED
    BY <1>2, <1>5, <1>6, <1>7

\* The kernel module and the programs agree on who is subscribed, for any
\* number of restarts, packets, CPUs and reloads of the module, as long as no
\* process of the role has crashed and one packet_hunter runs at a time.
THEOREM SubscriptionAccuracy == Spec => []SubscriptionAccurate
  <1>1. Init => AgreeInv
    BY DEF Init, SnifferInit, ClientInit, AgreeInv, Exclusive, Pinned, Talking, Agrees, FreeRole,
       Alive, Members, Procs, Roles
  <1>2. TypeInv /\ RecordInv /\ AgreeInv /\ [Next]_vars => AgreeInv'
    <2> SUFFICES ASSUME TypeInv, RecordInv, AgreeInv, [Next]_vars PROVE AgreeInv'
      OBVIOUS
    <2>1. CASE UNCHANGED vars
      BY <2>1, QuietAgrees DEF vars, kernelvars, subvars, sockvars, uservars
    <2>2. CASE Next
      BY <2>2, OutsideAgrees, DaemonAgrees, HunterAgrees DEF Next
    <2>3. QED
      BY <2>1, <2>2
  <1>3. AgreeInv => SubscriptionAccurate
    BY DEF AgreeInv, Agrees, SubscriptionAccurate, Stage, Subscriber, Alive, FreeRole
  <1>4. QED
    BY <1>1, <1>2, <1>3, TypeInvariant, RecordInvariant, PTL DEF Spec

=============================================================================
