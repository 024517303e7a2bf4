---------------------- MODULE NetLinkRefinementProofs ----------------------
(***************************************************************************)
(* The system implements its two abstract specifications: what the         *)
(* packet_hunter meets at the other end of its connection is the service   *)
(* that the daemon's client thread provides, and the way of the packets    *)
(* from the hook to the two mains is a feed.                               *)
(***************************************************************************)
EXTENDS NetLinkRefinement, NetLinkSubscriptionProofs, NetLinkQueueProofs

\* systemd starts a daemon only when the one before is gone.
OneDaemon == \A d, e \in Daemons : Alive(d) /\ Alive(e) => d = e

\* A hunter connects once, in its constructor.
ConnectedOnce == \A h \in Hunters : mpc[h] \in {"unborn", "ctor"} => conn[h] = "none"

ServiceInv == OneDaemon /\ ConnectedOnce

\* The abstract state: whether a daemon serves, and who waits for an answer.
IsServing == \E d \in Daemons : Listening(d) /\ running[d]
Asked == [h \in Hunters |-> mpc[h] = "await"]

-----------------------------------------------------------------------------
(* What each step does to the places of the main threads *)

\* Nobody is born, or goes back to where it has not connected yet.
GoesOn(p) ==
    /\ mpc'[p] \in {"unborn", "ctor"} => mpc'[p] = mpc[p]
    /\ Alive(p)' => Alive(p)

\* Only the main thread of p moves, if at all.
OnlyMain(p) == \A q \in Procs \ {p} : mpc'[q] = mpc[q] /\ running'[q] = running[q]

\* The steps of main that both programs have.
LEMMA SharedGoesOn ==
    ASSUME TypeInv, NEW p \in Procs, NEW next \in {"close", "save"},
           \/ Spawn(p) \/ LeaveLoop(p) \/ Pop(p) \/ Unsubscribe(p) \/ Join(p)
           \/ cleanMessageQueue(p, next)
    PROVE  /\ GoesOn(p)
           /\ OnlyMain(p)
           /\ mpc'[p] # "await" /\ mpc[p] # "await"
  BY DEF TypeInv, TypeOK, ClientTypeOK, Spawn, LeaveLoop, Pop, Unsubscribe, Join, cleanMessageQueue,
     Goto, GoesOn, OnlyMain, Alive

\* A step of the daemon: a start when no daemon is alive, or a move.
LEMMA DaemonGoesOn ==
    ASSUME TypeInv, NEW d \in Daemons, DaemonStep(d)
    PROVE  /\ GoesOn(d) \/ \A e \in Daemons : ~Alive(e)
           /\ OnlyMain(d)
           /\ UNCHANGED conn
  <1>0. d \in Procs
    BY DEF Procs
  <1>1. CASE \/ Spawn(d) \/ LeaveLoop(d) \/ Pop(d) \/ Unsubscribe(d) \/ Join(d)
             \/ cleanMessageQueue(d, "close")
    BY <1>0, <1>1, SharedGoesOn DEF DaemonStep, huntervars
  <1>2. CASE DStart(d) \/ DConstruct(d) \/ DSubscribe(d) \/ DReinitialize(d) \/ DHandle(d) \/ DClose(d)
    BY <1>0, <1>2 DEF DaemonStep, huntervars, DStart, DConstruct, DSubscribe, DReinitialize,
       DHandle, DClose, Goto, GoesOn, OnlyMain, Alive, TypeInv, TypeOK, ClientTypeOK
  <1>3. QED
    BY <1>1, <1>2 DEF DaemonStep, DaemonMain

\* A step of the hunter: it is born, connects, asks, gets the answer, or none
\* of these.
LEMMA HunterGoesOn ==
    ASSUME TypeInv, NEW h \in Hunters, HunterStep(h)
    PROVE  /\ OnlyMain(h)
           /\ GoesOn(h) \/ (mpc[h] = "unborn" /\ conn' = conn)
           /\ \/ UNCHANGED conn /\ mpc'[h] # "await" /\ mpc[h] # "await"
              \/ /\ mpc[h] = "ctor" /\ mpc'[h] = "subscribe"
                 /\ \E x \in {"up", "none"} : conn' = [conn EXCEPT ![h] = x]
              \/ UNCHANGED conn /\ conn[h] = "up" /\ mpc[h] # "await" /\ mpc'[h] = "await"
              \/ UNCHANGED conn /\ mpc[h] = "await" /\ mpc'[h] # "await"
  <1>0. h \in Procs
    BY DEF Procs
  <1>1. CASE /\ \/ Spawn(h) \/ LeaveLoop(h) \/ Pop(h) \/ Unsubscribe(h) \/ Join(h)
                \/ cleanMessageQueue(h, "save")
             /\ UNCHANGED huntervars
    BY <1>0, <1>1, SharedGoesOn DEF huntervars
  <1> USE <1>0 DEF Goto, GoesOn, OnlyMain, Alive, TypeInv, TypeOK, ClientTypeOK, huntervars
  <1>2. CASE HStart(h) \/ HSubscribe(h) \/ HSubscribed(h) \/ HProbe(h)
    BY <1>2 DEF HStart, HSubscribe, HSubscribed, HProbe
  <1>3. CASE HConstruct(h)
    BY <1>3 DEF HConstruct
  <1>4. CASE HHandle(h) \/ HSave(h)
    BY <1>4 DEF HHandle, HSave, Drop
  <1>5. CASE sendPort(h)
    BY <1>5 DEF sendPort, Drop
  <1>6. CASE receivePid(h)
    BY <1>6 DEF receivePid, Drop
  <1>7. QED
    BY <1>1, <1>2, <1>3, <1>4, <1>5, <1>6 DEF HunterStep, HunterMain

\* A step of the listener: it moves main only when it takes the process down.
LEMMA ListenerGoesOn ==
    ASSUME TypeInv, NEW p \in Procs, Listener(p)
    PROVE  /\ OnlyMain(p) /\ GoesOn(p) /\ UNCHANGED <<conn, running>>
           /\ mpc'[p] = mpc[p] \/ mpc'[p] = "aborted"
  BY DEF Listener, recvPacketInfoThread, ListenerTest, ReceiveError, receivePacketInfo, BadAlloc,
     ListenerDeliver, Goto, GoesOn, OnlyMain, Alive, TypeInv, TypeOK, ClientTypeOK, huntervars

\* A signal or a kill.
LEMMA SignalGoesOn ==
    ASSUME TypeInv, NEW p \in Procs, handleSignal(p) \/ Kill(p)
    PROVE  /\ OnlyMain(p) /\ GoesOn(p) /\ UNCHANGED conn
           /\ mpc'[p] = mpc[p] \/ mpc'[p] = "aborted"
  BY DEF handleSignal, Kill, Goto, GoesOn, OnlyMain, Alive, TypeInv, TypeOK, ClientTypeOK, huntervars

\* The end of a process.
LEMMA ReapGoesOn ==
    ASSUME TypeInv, NEW p \in Procs, Reap(p)
    PROVE  /\ OnlyMain(p) /\ GoesOn(p) /\ UNCHANGED running
           /\ Alive(p) /\ ~Alive(p)' /\ mpc[p] # "await" /\ mpc'[p] # "await"
  BY DEF Reap, Goto, GoesOn, OnlyMain, Alive, TypeInv, TypeOK, ClientTypeOK

-----------------------------------------------------------------------------
(* The invariant *)

\* Every step keeps one daemon alive at most, and connects in the constructor only.
LEMMA StepServiceInv ==
    ASSUME TypeInv, ServiceInv, [Next]_vars
    PROVE  ServiceInv'
  <1> USE DEF ServiceInv, OneDaemon, ConnectedOnce
  <1>0. /\ Daemons \subseteq Procs /\ Hunters \subseteq Procs /\ Daemons \cap Hunters = {}
        /\ conn \in [Hunters -> {"none", "up", "down"}]
    BY SnifferAssumption DEF Procs, TypeInv, TypeOK, HunterTypeOK
  <1>1. CASE UNCHANGED <<mpc, conn>>
    BY <1>1 DEF Alive
  <1>2. ASSUME NEW p \in Procs, OnlyMain(p), GoesOn(p), UNCHANGED conn PROVE ServiceInv'
    BY <1>0, <1>2 DEF OnlyMain, GoesOn, Alive
  <1>3. ASSUME NEW d \in Daemons, DaemonStep(d) PROVE ServiceInv'
    <2>1. CASE GoesOn(d)
      BY <1>0, <1>2, <1>3, <2>1, DaemonGoesOn
    <2>2. CASE \A e \in Daemons : ~Alive(e)
      BY <1>0, <1>3, <2>2, DaemonGoesOn DEF OnlyMain, Alive
    <2>3. QED
      BY <1>3, <2>1, <2>2, DaemonGoesOn
  <1>4. ASSUME NEW h \in Hunters, HunterStep(h) PROVE ServiceInv'
    <2>1. OneDaemon'
      BY <1>0, <1>4, HunterGoesOn DEF OnlyMain, Alive
    <2>2. ConnectedOnce'
      BY <1>0, <1>4, HunterGoesOn DEF OnlyMain, GoesOn
    <2>3. QED
      BY <2>1, <2>2
  <1>5. ASSUME NEW p \in Procs, Reap(p) PROVE ServiceInv'
    <2>1. OneDaemon'
      BY <1>0, <1>5, ReapGoesOn DEF OnlyMain, GoesOn, Alive
    <2>2. \A h \in Hunters : conn[h] = "none" => conn'[h] = "none"
      BY <1>5 DEF Reap
    <2>3. ConnectedOnce'
      BY <1>0, <1>5, <2>2, ReapGoesOn DEF OnlyMain, GoesOn
    <2>4. QED
      BY <2>1, <2>3
  <1>6. ASSUME NEW d \in Daemons, NEW h \in Hunters, CloseClient(d, h) PROVE ServiceInv'
    BY <1>0, <1>6 DEF CloseClient, uservars, Alive
  <1>7. CASE \E p \in Procs : Listener(p) \/ handleSignal(p) \/ Kill(p)
    BY <1>2, <1>7, ListenerGoesOn, SignalGoesOn
  <1>8. QED
    BY <1>1, <1>3, <1>4, <1>5, <1>6, <1>7 DEF Next, Environment, Kernel, vars, uservars, huntervars

-----------------------------------------------------------------------------
(* The steps of the service *)

\* A daemon starts or stops serving, and hangs up on the clients C.
LEMMA SwitchStep ==
    ASSUME NEW C \in SUBSET {h \in Hunters : conn[h] = "up"},
           IsServing /\ IsServing' => C = {},
           conn' = [h \in Hunters |-> IF h \in C THEN "down" ELSE conn[h]],
           Asked' = Asked
    PROVE  Service!Next
  BY DEF Service!Next, Service!StartOrStop, IsServing, Asked

\* A step the service does not see.
LEMMA QuietService ==
    ASSUME IsServing' = IsServing, conn' = conn, Asked' = Asked
    PROVE  UNCHANGED Service!servicevars
  BY DEF Service!servicevars, IsServing, Asked

\* Whether a daemon serves is a matter of the daemons' main threads.
LEMMA HunterServes ==
    ASSUME NEW h \in Hunters, OnlyMain(h)
    PROVE  /\ IsServing' = IsServing
           /\ mpc'[h] # "await" /\ mpc[h] # "await" => Asked' = Asked
           /\ mpc'[h] = mpc[h] => Asked' = Asked
           /\ Asked' = [Asked EXCEPT ![h] = (mpc'[h] = "await")]
  <1>1. \A d \in Daemons : d \in Procs \ {h}
    BY SnifferAssumption DEF Procs
  <1>2. \A g \in Hunters \ {h} : mpc'[g] = mpc[g]
    BY DEF OnlyMain, Procs
  <1>3. IsServing' = IsServing
    BY <1>1 DEF OnlyMain, IsServing, Listening, Alive
  <1>4. QED
    BY <1>2, <1>3 DEF Asked

\* A hunter that does not wait any longer has left or has got its answer.
LEMMA AnswerStep ==
    ASSUME TypeInv, NEW h \in Hunters, OnlyMain(h), UNCHANGED conn, mpc[h] = "await", mpc'[h] # "await"
    PROVE  Service!Next
  <1>1. /\ IsServing' = IsServing
        /\ Asked[h] = TRUE
        /\ Asked' = [Asked EXCEPT ![h] = FALSE]
    BY HunterServes DEF Asked
  <1>2. Service!Answer(h)
    BY <1>1 DEF Service!Answer, IsServing, Asked
  <1>3. QED
    BY <1>2 DEF Service!Next

\* Whatever a daemon does to itself, the hunters' connections stay.
LEMMA DaemonSwitch ==
    ASSUME TypeInv, NEW d \in Daemons, OnlyMain(d), UNCHANGED conn
    PROVE  Service!Next
  <1>1. Asked' = Asked
    BY SnifferAssumption DEF Asked, OnlyMain, Procs
  <1>2. conn' = [h \in Hunters |-> IF h \in {} THEN "down" ELSE conn[h]]
    BY DEF TypeInv, TypeOK, HunterTypeOK
  <1>3. {} \in SUBSET {h \in Hunters : conn[h] = "up"}
    OBVIOUS
  <1>4. QED
    BY <1>1, <1>2, <1>3, SwitchStep

\* A process is interrupted: the hunter may have been waiting.
LEMMA InterruptService ==
    ASSUME TypeInv, NEW p \in Procs, OnlyMain(p), UNCHANGED conn,
           mpc'[p] = mpc[p] \/ mpc'[p] = "aborted"
    PROVE  [Service!Next]_(Service!servicevars)
  <1>1. CASE p \in Daemons
    BY <1>1, DaemonSwitch
  <1>2. CASE p \in Hunters
    <2>1. CASE mpc[p] = "await" /\ mpc'[p] # "await"
      BY <1>2, <2>1, AnswerStep
    <2>2. CASE ~(mpc[p] = "await" /\ mpc'[p] # "await")
      BY <1>2, <2>2, HunterServes, QuietService
    <2>3. QED
      BY <2>1, <2>2
  <1>3. QED
    BY <1>1, <1>2 DEF Procs

\* A step of the hunter is the step of the service that its main takes.
LEMMA HunterService ==
    ASSUME TypeInv, ServiceInv, NEW h \in Hunters, HunterStep(h)
    PROVE  [Service!Next]_(Service!servicevars)
  <1>0. OnlyMain(h) /\ conn \in [Hunters -> {"none", "up", "down"}]
    BY HunterGoesOn DEF TypeInv, TypeOK, HunterTypeOK
  <1>1. CASE UNCHANGED conn /\ mpc'[h] # "await" /\ mpc[h] # "await"
    BY <1>0, <1>1, HunterServes, QuietService
  <1>2. CASE /\ mpc[h] = "ctor" /\ mpc'[h] = "subscribe"
             /\ \E x \in {"up", "none"} : conn' = [conn EXCEPT ![h] = x]
    <2>1. IsServing' = IsServing /\ Asked' = Asked /\ conn[h] = "none"
      BY <1>0, <1>2, HunterServes DEF ServiceInv, ConnectedOnce
    <2>2. CASE conn' = [conn EXCEPT ![h] = "up"]
      <3>1. Service!Connect(h)
        BY <2>1, <2>2 DEF Service!Connect, IsServing, Asked
      <3>2. QED
        BY <3>1 DEF Service!Next
    <2>3. CASE conn' = [conn EXCEPT ![h] = "none"]
      <3>1. conn' = conn
        BY <1>0, <2>1, <2>3
      <3>2. QED
        BY <2>1, <3>1, QuietService
    <2>4. QED
      BY <1>2, <2>2, <2>3
  <1>3. CASE UNCHANGED conn /\ conn[h] = "up" /\ mpc[h] # "await" /\ mpc'[h] = "await"
    <2>1. /\ IsServing' = IsServing
          /\ Asked[h] = FALSE
          /\ Asked' = [Asked EXCEPT ![h] = TRUE]
      BY <1>0, <1>3, HunterServes DEF Asked
    <2>2. Service!Ask(h)
      BY <1>3, <2>1 DEF Service!Ask, IsServing, Asked
    <2>3. QED
      BY <2>2 DEF Service!Next
  <1>4. CASE UNCHANGED conn /\ mpc[h] = "await" /\ mpc'[h] # "await"
    BY <1>0, <1>4, AnswerStep
  <1>5. QED
    BY <1>1, <1>2, <1>3, <1>4, HunterGoesOn

\* The end of a hunter is its leave; the end of a daemon breaks all connections,
\* and no other daemon serves.
LEMMA ReapService ==
    ASSUME TypeInv, ServiceInv, NEW p \in Procs, Reap(p)
    PROVE  Service!Next
  <1>0. OnlyMain(p) /\ conn \in [Hunters -> {"none", "up", "down"}]
    BY ReapGoesOn DEF TypeInv, TypeOK, HunterTypeOK
  <1>1. CASE p \in Hunters
    <2>1. p \notin Daemons
      BY <1>1, SnifferAssumption
    <2>2. conn' = [conn EXCEPT ![p] = "none"]
      BY <1>0, <2>1 DEF Reap
    <2>3. IsServing' = IsServing /\ Asked' = [Asked EXCEPT ![p] = FALSE]
      BY <1>0, <1>1, HunterServes, ReapGoesOn
    <2>4. Service!Leave(p)
      BY <2>2, <2>3 DEF Service!Leave, IsServing, Asked
    <2>5. QED
      BY <1>1, <2>4 DEF Service!Next
  <1>2. CASE p \in Daemons
    <2> DEFINE C == {h \in Hunters : conn[h] = "up"}
    <2>1. Asked' = Asked
      BY <1>0, <1>2, SnifferAssumption DEF Asked, OnlyMain, Procs
    <2>2. p \notin Hunters
      BY <1>2, SnifferAssumption
    <2>3. conn' = [h \in Hunters |-> IF h \in C THEN "down" ELSE conn[h]]
      BY <1>2, <2>2 DEF Reap
    <2>4. ~IsServing'
      <3>1. \A d \in Daemons : Alive(d) => d = p
        BY <1>2, ReapGoesOn DEF ServiceInv, OneDaemon
      <3>2. \A d \in Daemons : ~Alive(d)'
        BY <1>0, <3>1, ReapGoesOn DEF OnlyMain, Alive, Procs
      <3>3. QED
        BY <3>2 DEF IsServing, Listening
    <2>5. C \in SUBSET {h \in Hunters : conn[h] = "up"}
      OBVIOUS
    <2> HIDE DEF C
    <2>6. QED
      BY <2>1, <2>3, <2>4, <2>5, SwitchStep
  <1>3. QED
    BY <1>1, <1>2 DEF Procs

\* A daemon hangs up after it has been told to stop, and no other one serves.
LEMMA CloseService ==
    ASSUME TypeInv, ServiceInv, NEW d \in Daemons, NEW h \in Hunters, CloseClient(d, h)
    PROVE  Service!Next
  <1>1. conn' = [g \in Hunters |-> IF g \in {h} THEN "down" ELSE conn[g]] /\ Asked' = Asked
    BY DEF CloseClient, uservars, Asked, TypeInv, TypeOK, HunterTypeOK
  <1>2. ~IsServing
    BY DEF CloseClient, ServiceInv, OneDaemon, IsServing, Listening
  <1>3. {h} \in SUBSET {g \in Hunters : conn[g] = "up"}
    BY DEF CloseClient
  <1>4. QED
    BY <1>1, <1>2, <1>3, SwitchStep

\* Every step is a step of the service, or invisible to it.
LEMMA StepService ==
    TypeInv /\ ServiceInv /\ [Next]_vars => [Service!Next]_(Service!servicevars)
  <1> SUFFICES ASSUME TypeInv, ServiceInv, [Next]_vars
               PROVE  [Service!Next]_(Service!servicevars)
    OBVIOUS
  <1>1. CASE UNCHANGED <<uservars, huntervars>>
    BY <1>1, QuietService DEF uservars, huntervars, IsServing, Asked, Listening, Alive
  <1>2. CASE \E d \in Daemons : DaemonStep(d)
    BY <1>2, DaemonGoesOn, DaemonSwitch
  <1>3. CASE \E h \in Hunters : HunterStep(h)
    BY <1>3, HunterService
  <1>4. CASE \E p \in Procs : Listener(p) \/ handleSignal(p) \/ Kill(p)
    BY <1>4, ListenerGoesOn, SignalGoesOn, InterruptService
  <1>5. CASE \E p \in Procs : Reap(p)
    BY <1>5, ReapService
  <1>6. CASE \E d \in Daemons, h \in Hunters : CloseClient(d, h)
    BY <1>6, CloseService
  <1>7. QED
    BY <1>1, <1>2, <1>3, <1>4, <1>5, <1>6 DEF Next, Environment, Kernel, vars

\* What the packet_hunter takes the daemon to do, through any number of restarts
\* of the daemon and any faults, is the service PidService: every answer is for
\* an open question, and no connection is closed while a daemon serves. The
\* other end, UnixSocketServer, implements the same service.
THEOREM ServiceAssumed == Spec => AssumesService
  <1>1. Init => ServiceInv /\ Service!Init
    <2> SUFFICES ASSUME Init PROVE ServiceInv /\ Service!Init
      OBVIOUS
    <2>1. /\ \A p \in Procs : mpc[p] = "unborn"
          /\ conn = [h \in Hunters |-> "none"]
          /\ Daemons \subseteq Procs /\ Hunters \subseteq Procs
      BY DEF Init, ClientInit, HunterInit, Procs
    <2>2. ServiceInv
      BY <2>1 DEF ServiceInv, OneDaemon, ConnectedOnce, Alive
    <2>3. [h \in Hunters |-> mpc[h] = "await"] = [h \in Hunters |-> FALSE]
      BY <2>1
    <2>4. (\E d \in Daemons : Listening(d) /\ running[d]) \in BOOLEAN
      OBVIOUS
    <2>5. QED
      BY <2>1, <2>2, <2>3, <2>4 DEF Service!Init
  <1>2. TypeInv /\ ServiceInv /\ [Next]_vars => ServiceInv'
    BY StepServiceInv
  <1>3. QED
    BY <1>1, <1>2, StepService, TypeInvariant, PTL DEF Spec, AssumesService, Service!Spec

-----------------------------------------------------------------------------
(* What is carried, as a concatenation *)

HandSeq(p, a) == IF a = Nil THEN <<>> ELSE <<mem[p][a]>>
QueueSeq(p) == [i \in 1 .. Len(queue[p]) |-> mem[p][queue[p][i]]]

\* A sequence is the function of its elements.
LEMMA SeqIsFunction ==
    ASSUME NEW S, NEW s \in Seq(S)
    PROVE  s = [i \in 1 .. Len(s) |-> s[i]]
  <1>1. s \in [1 .. Len(s) -> S]
    BY LenProperties
  <1>2. QED
    BY <1>1

\* The queue and the two hands hold messages.
LEMMA CarriedParts ==
    ASSUME TypeInv, NEW p \in Procs, OneOwner(p)
    PROVE  /\ Carried(p) = ((HandSeq(p, mhand[p]) \o QueueSeq(p)) \o HandSeq(p, lhand[p])) \o rcvbuf[p]
           /\ HandSeq(p, mhand[p]) \in Seq(Messages)
           /\ QueueSeq(p) \in Seq(Messages)
           /\ HandSeq(p, lhand[p]) \in Seq(Messages)
           /\ rcvbuf[p] \in Seq(Messages)
           /\ Carried(p) \in Seq(Messages)
  <1>1. \A a \in Cells(p) : mem[p][a] \in Messages
    BY LocalTypes DEF OneOwner, Cells
  <1>2. HandSeq(p, mhand[p]) \in Seq(Messages) /\ HandSeq(p, lhand[p]) \in Seq(Messages)
    <2>1. \A a \in {mhand[p], lhand[p]} : a # Nil => mem[p][a] \in Messages
      BY <1>1, HandFacts DEF Cells
    <2>2. QED
      BY <2>1 DEF HandSeq
  <1>3. QueueSeq(p) \in Seq(Messages)
    <2>1. \A i \in 1 .. Len(queue[p]) : mem[p][queue[p][i]] \in Messages
      BY <1>1, LocalTypes DEF Cells
    <2>2. Len(queue[p]) \in Nat
      BY LocalTypes
    <2>3. QED
      BY <2>1, <2>2 DEF QueueSeq
  <1>4. rcvbuf[p] \in Seq(Messages)
    BY LocalTypes
  <1>5. Carried(p) = ((HandSeq(p, mhand[p]) \o QueueSeq(p)) \o HandSeq(p, lhand[p])) \o rcvbuf[p]
    BY DEF Carried, HandSeq, QueueSeq
  <1>6. ((HandSeq(p, mhand[p]) \o QueueSeq(p)) \o HandSeq(p, lhand[p])) \o rcvbuf[p] \in Seq(Messages)
    BY <1>2, <1>3, <1>4
  <1>7. QED
    BY <1>2, <1>3, <1>4, <1>5, <1>6

\* The sequence does not change when nothing of p does.
LEMMA CarriedStill ==
    ASSUME NEW p \in Procs, Still(p)
    PROVE  Carried(p)' = Carried(p)
  BY DEF Still, Carried

\* A message that arrives in the buffer is the last.
LEMMA CarriedSent ==
    ASSUME TypeInv, NEW p \in Procs, OneOwner(p), NEW m \in Messages, Sent(p, m)
    PROVE  Carried(p)' = Append(Carried(p), m)
  <1> DEFINE X == (HandSeq(p, mhand[p]) \o QueueSeq(p)) \o HandSeq(p, lhand[p])
             B == rcvbuf[p]
  <1>1. X \in Seq(Messages) /\ B \in Seq(Messages) /\ <<m>> \in Seq(Messages)
    <2>1. /\ HandSeq(p, mhand[p]) \in Seq(Messages) /\ QueueSeq(p) \in Seq(Messages)
          /\ HandSeq(p, lhand[p]) \in Seq(Messages) /\ rcvbuf[p] \in Seq(Messages)
      BY CarriedParts
    <2>2. QED
      BY <2>1
  <1>2. Carried(p) = X \o B
    BY CarriedParts
  <1>3. Carried(p)' = X \o Append(B, m)
    BY DEF Sent, Carried, HandSeq, QueueSeq
  <1> HIDE DEF X, B
  <1>4. Append(B, m) = B \o <<m>> /\ Append(X \o B, m) = (X \o B) \o <<m>>
    BY <1>1, AppendIsConcat
  <1>5. QED
    BY <1>1, <1>2, <1>3, <1>4, ConcatAssociative

\* From the buffer into the empty hand of the listener: the same sequence.
LEMMA CarriedReceived ==
    ASSUME TypeInv, NEW p \in Procs, OneOwner(p), NEW a \in Addrs, Received(p, a), lhand[p] = Nil
    PROVE  Carried(p)' = Carried(p)
  <1> DEFINE X == HandSeq(p, mhand[p]) \o QueueSeq(p)
             B == rcvbuf[p]
  <1>1. X \in Seq(Messages) /\ B \in Seq(Messages) /\ B # <<>>
    <2>1. /\ HandSeq(p, mhand[p]) \in Seq(Messages) /\ QueueSeq(p) \in Seq(Messages)
          /\ rcvbuf[p] \in Seq(Messages)
      BY CarriedParts
    <2>2. QED
      BY <2>1 DEF Received
  <1>2. Carried(p) = X \o B
    <2>1. HandSeq(p, lhand[p]) = <<>> /\ X \o <<>> = X
      BY <1>1 DEF HandSeq
    <2>2. QED
      BY <2>1, CarriedParts
  <1>3. Carried(p)' = (X \o <<Head(B)>>) \o Tail(B)
    <2>1. a \notin Cells(p)
      BY DEF Received, OneOwner, Cells
    <2>2. \A b \in Cells(p) : mem'[p][b] = mem[p][b]
      BY <2>1, LocalTypes DEF Received
    <2>3. HandSeq(p, mhand[p])' = HandSeq(p, mhand[p])
      BY <2>2, HandFacts DEF HandSeq, Received, Cells
    <2>4. QueueSeq(p)' = QueueSeq(p)
      BY <2>2, LocalTypes DEF QueueSeq, Received, Cells
    <2>5. HandSeq(p, lhand[p])' = <<Head(B)>>
      BY NilAssumption, LocalTypes DEF HandSeq, Received
    <2>6. Carried(p)' = ((HandSeq(p, mhand[p])' \o QueueSeq(p)') \o HandSeq(p, lhand[p])') \o rcvbuf'[p]
      BY DEF Carried, HandSeq, QueueSeq
    <2>7. QED
      BY <2>3, <2>4, <2>5, <2>6 DEF Received
  <1> HIDE DEF X, B
  <1>4. Head(B) \in Messages /\ Tail(B) \in Seq(Messages) /\ B = <<Head(B)>> \o Tail(B)
    BY <1>1
  <1>5. QED
    BY <1>1, <1>2, <1>3, <1>4, ConcatAssociative

\* From the hand of the listener into the queue: the same sequence.
LEMMA CarriedPushed ==
    ASSUME TypeInv, NEW p \in Procs, OneOwner(p), lhand[p] \in Addrs, lhand'[p] = Nil,
           queue'[p] = Append(queue[p], lhand[p]),
           mem'[p] = mem[p], mhand'[p] = mhand[p], rcvbuf'[p] = rcvbuf[p]
    PROVE  Carried(p)' = Carried(p)
  <1> DEFINE M == HandSeq(p, mhand[p])
             Q == QueueSeq(p)
             m == mem[p][lhand[p]]
             B == rcvbuf[p]
  <1>1. HandSeq(p, lhand[p]) = <<m>>
    BY NilAssumption DEF HandSeq
  <1>2. /\ M \in Seq(Messages) /\ Q \in Seq(Messages) /\ <<m>> \in Seq(Messages)
        /\ B \in Seq(Messages) /\ Carried(p) = ((M \o Q) \o <<m>>) \o B
    BY <1>1, CarriedParts
  <1>3. m \in Messages
    <2>1. lhand[p] \in Cells(p)
      BY NilAssumption, HandFacts DEF Cells
    <2>2. QED
      BY <2>1, LocalTypes DEF OneOwner, Cells
  <1>4. QueueSeq(p)' = Append(Q, m)
    <2>1. /\ Len(queue[p]) \in Nat /\ queue[p] \in Seq(Addrs)
          /\ Len(queue'[p]) = Len(queue[p]) + 1
          /\ \A i \in 1 .. Len(queue[p]) : queue'[p][i] = queue[p][i]
          /\ queue'[p][Len(queue[p]) + 1] = lhand[p]
      BY LocalTypes
    <2>2. Len(Q) = Len(queue[p]) /\ \A i \in 1 .. Len(queue[p]) : Q[i] = mem[p][queue[p][i]]
      BY <2>1 DEF QueueSeq
    <2>3. QueueSeq(p)' = [i \in 1 .. Len(queue[p]) + 1 |-> mem[p][queue'[p][i]]]
      BY <2>1 DEF QueueSeq
    <2> HIDE DEF Q, m
    <2>4. /\ Append(Q, m) \in Seq(Messages)
          /\ Len(Append(Q, m)) = Len(queue[p]) + 1
          /\ \A i \in 1 .. Len(queue[p]) : Append(Q, m)[i] = mem[p][queue[p][i]]
          /\ Append(Q, m)[Len(queue[p]) + 1] = m
      BY <1>2, <1>3, <2>2
    <2>5. Append(Q, m) = [i \in 1 .. Len(queue[p]) + 1 |-> Append(Q, m)[i]]
      BY <2>4, SeqIsFunction
    <2>6. \A i \in 1 .. Len(queue[p]) + 1 : Append(Q, m)[i] = mem[p][queue'[p][i]]
      <3>1. \A i \in 1 .. Len(queue[p]) + 1 : i \in 1 .. Len(queue[p]) \/ i = Len(queue[p]) + 1
        BY <2>1
      <3>2. QED
        BY <2>1, <2>4, <3>1 DEF m
    <2>7. QED
      BY <2>3, <2>5, <2>6
  <1>5. HandSeq(p, mhand[p])' = M /\ HandSeq(p, lhand[p])' = <<>>
    BY DEF HandSeq
  <1>6. Carried(p)' = ((HandSeq(p, mhand[p])' \o QueueSeq(p)') \o HandSeq(p, lhand[p])') \o rcvbuf'[p]
    BY DEF Carried, HandSeq, QueueSeq
  <1>7. Carried(p)' = ((M \o Append(Q, m)) \o <<>>) \o B
    BY <1>4, <1>5, <1>6
  <1> HIDE DEF M, Q, m, B
  <1>8. M \o Append(Q, m) = (M \o Q) \o <<m>> /\ M \o Append(Q, m) \in Seq(Messages)
    BY <1>2, <1>3, AppendIsConcat, ConcatAssociative
  <1>9. (M \o Append(Q, m)) \o <<>> = M \o Append(Q, m)
    BY <1>8, ConcatEmptySeq
  <1>10. QED
    BY <1>2, <1>7, <1>8, <1>9

\* From the queue into the empty hand of main: the same sequence.
LEMMA CarriedPopped ==
    ASSUME TypeInv, NEW p \in Procs, OneOwner(p), Popped(p), mhand[p] = Nil
    PROVE  Carried(p)' = Carried(p)
  <1> DEFINE Q == QueueSeq(p)
             L == HandSeq(p, lhand[p])
             B == rcvbuf[p]
             m == mem[p][queue[p][1]]
  <1>1. HandSeq(p, mhand[p]) = <<>>
    BY DEF HandSeq
  <1>2. /\ Q \in Seq(Messages) /\ L \in Seq(Messages) /\ B \in Seq(Messages)
        /\ Carried(p) = ((<<>> \o Q) \o L) \o B
    BY <1>1, CarriedParts
  <1>3. /\ queue[p] \in Seq(Addrs) /\ Len(queue[p]) \in Nat \ {0}
        /\ Len(queue'[p]) = Len(queue[p]) - 1
        /\ \A i \in 1 .. Len(queue'[p]) : queue'[p][i] = queue[p][i + 1]
        /\ mhand'[p] = queue[p][1] /\ queue[p][1] \in Addrs
    BY LocalTypes DEF Popped
  <1>4. Len(Q) = Len(queue[p]) /\ \A i \in 1 .. Len(queue[p]) : Q[i] = mem[p][queue[p][i]]
    BY <1>3 DEF QueueSeq
  <1>5. HandSeq(p, mhand[p])' = <<m>> /\ HandSeq(p, lhand[p])' = L
    BY <1>3, NilAssumption DEF HandSeq, Popped
  <1>6. QueueSeq(p)' = [i \in 1 .. Len(queue[p]) - 1 |-> mem[p][queue[p][i + 1]]]
    BY <1>3 DEF QueueSeq, Popped
  <1> HIDE DEF Q, m
  <1>7. QueueSeq(p)' = Tail(Q) /\ m = Head(Q)
    <2>1. /\ Tail(Q) \in Seq(Messages) /\ Len(Tail(Q)) = Len(queue[p]) - 1
          /\ \A i \in 1 .. Len(queue[p]) - 1 : Tail(Q)[i] = Q[i + 1]
          /\ Head(Q) = Q[1]
      BY <1>2, <1>3, <1>4
    <2>2. \A i \in 1 .. Len(queue[p]) - 1 : Tail(Q)[i] = mem[p][queue[p][i + 1]]
      BY <1>3, <1>4, <2>1
    <2>3. Tail(Q) = [i \in 1 .. Len(queue[p]) - 1 |-> Tail(Q)[i]]
      BY <2>1, SeqIsFunction
    <2>4. Head(Q) = m
      BY <1>3, <1>4, <2>1 DEF m
    <2>5. QED
      BY <1>6, <2>2, <2>3, <2>4
  <1>8. <<>> \o Q = Q /\ <<Head(Q)>> \o Tail(Q) = Q
    BY <1>2, <1>3, <1>4
  <1>9. Carried(p)' = ((HandSeq(p, mhand[p])' \o QueueSeq(p)') \o HandSeq(p, lhand[p])') \o rcvbuf'[p]
    BY DEF Carried, HandSeq, QueueSeq
  <1>10. QED
    BY <1>2, <1>5, <1>7, <1>8, <1>9 DEF Popped

\* The packet in main's hand is the oldest.
LEMMA CarriedHandled ==
    ASSUME TypeInv, NEW p \in Procs, OneOwner(p), mhand[p] # Nil, mhand'[p] = Nil,
           queue'[p] = queue[p], lhand'[p] = lhand[p], rcvbuf'[p] = rcvbuf[p],
           \A a \in Cells(p)' : mem'[p][a] = mem[p][a]
    PROVE  /\ Carried(p) # <<>>
           /\ Head(Carried(p)) = mem[p][mhand[p]]
           /\ Carried(p)' = Tail(Carried(p))
  <1> DEFINE m == mem[p][mhand[p]]
             Q == QueueSeq(p)
             L == HandSeq(p, lhand[p])
             B == rcvbuf[p]
  <1>1. HandSeq(p, mhand[p]) = <<m>>
    BY DEF HandSeq
  <1>2. /\ <<m>> \in Seq(Messages) /\ Q \in Seq(Messages) /\ L \in Seq(Messages) /\ B \in Seq(Messages)
        /\ Carried(p) = ((<<m>> \o Q) \o L) \o B
    BY <1>1, CarriedParts
  <1>3. HandSeq(p, mhand[p])' = <<>> /\ HandSeq(p, lhand[p])' = L
    BY DEF HandSeq, Cells, HandCells
  <1>4. QueueSeq(p)' = Q
    <2>1. \A i \in 1 .. Len(queue[p]) : queue[p][i] \in Cells(p)'
      BY DEF Cells, QueueCells, Elems
    <2>2. QED
      BY <2>1 DEF QueueSeq
  <1>5. Carried(p)' = ((HandSeq(p, mhand[p])' \o QueueSeq(p)') \o HandSeq(p, lhand[p])') \o rcvbuf'[p]
    BY DEF Carried, HandSeq, QueueSeq
  <1>6. Carried(p)' = ((<<>> \o Q) \o L) \o B
    BY <1>3, <1>4, <1>5
  <1> HIDE DEF m, Q, L, B
  <1>7. (Q \o L) \o B \in Seq(Messages) /\ Q \o L \in Seq(Messages) /\ <<>> \o Q = Q
    BY <1>2
  <1>8. Carried(p) = <<m>> \o ((Q \o L) \o B)
    <2>1. (<<m>> \o Q) \o L = <<m>> \o (Q \o L)
      BY <1>2, ConcatAssociative
    <2>2. (<<m>> \o (Q \o L)) \o B = <<m>> \o ((Q \o L) \o B)
      BY <1>2, <1>7, ConcatAssociative
    <2>3. QED
      BY <1>2, <2>1, <2>2
  <1>9. Carried(p)' = (Q \o L) \o B
    BY <1>6, <1>7
  <1> DEFINE R == (Q \o L) \o B
  <1> HIDE DEF R
  <1>10. R \in Seq(Messages) /\ <<m>> \in Seq(Messages)
    BY <1>2, <1>7 DEF R
  <1>11. <<m>> \o R # <<>> /\ Head(<<m>> \o R) = m /\ Tail(<<m>> \o R) = R
    BY <1>10
  <1>12. QED
    BY <1>8, <1>9, <1>11 DEF R, m

\* What PacketFeed takes out of a feed when a request is heeded.
Removed(s, i) == [j \in 1 .. Len(s) - 1 |-> IF j < i THEN s[j] ELSE s[j + 1]]

\* Taking an element out of the middle.
LEMMA WithoutMiddle ==
    ASSUME NEW X \in Seq(Messages), NEW B \in Seq(Messages), NEW m \in Messages,
           NEW s, s = (X \o <<m>>) \o B, NEW i, i = Len(X) + 1,
           NEW t, t = X \o B
    PROVE  /\ i \in 1 .. Len(s)
           /\ s[i] = m
           /\ \A j \in 1 .. i - 1 : s[j] = X[j]
           /\ t \in Seq(Messages)
           /\ Len(t) = Len(s) - 1
           /\ \A j \in 1 .. Len(t) : t[j] = IF j < i THEN s[j] ELSE s[j + 1]
  <1> DEFINE n == Len(X)
  <1>1. n \in Nat /\ Len(B) \in Nat
    OBVIOUS
  <1>2. /\ X \o <<m>> \in Seq(Messages) /\ Len(X \o <<m>>) = n + 1
        /\ (X \o <<m>>)[n + 1] = m
        /\ \A j \in 1 .. n : (X \o <<m>>)[j] = X[j]
    OBVIOUS
  <1>3. /\ s \in Seq(Messages) /\ Len(s) = n + 1 + Len(B)
        /\ \A j \in 1 .. n + 1 : s[j] = (X \o <<m>>)[j]
        /\ \A j \in 1 .. Len(B) : s[n + 1 + j] = B[j]
    <2> DEFINE Y == X \o <<m>>
    <2>1. Y \in Seq(Messages) /\ Len(Y) = n + 1
      BY <1>2
    <2> HIDE DEF Y
    <2>2. /\ Y \o B \in Seq(Messages) /\ Len(Y \o B) = Len(Y) + Len(B)
          /\ \A j \in 1 .. Len(Y) + Len(B) : (Y \o B)[j] = IF j <= Len(Y) THEN Y[j] ELSE B[j - Len(Y)]
      BY <2>1, ConcatProperties
    <2>3. QED
      BY <1>1, <2>1, <2>2 DEF Y
  <1>4. /\ t \in Seq(Messages) /\ Len(t) = n + Len(B)
        /\ \A j \in 1 .. n : t[j] = X[j]
        /\ \A j \in 1 .. Len(B) : t[n + j] = B[j]
    BY <1>1, ConcatProperties
  <1> HIDE DEF n
  <1>5. ASSUME NEW j \in 1 .. n + Len(B)
        PROVE  t[j] = IF j < n + 1 THEN s[j] ELSE s[j + 1]
    <2>1. CASE j < n + 1
      BY <1>1, <1>2, <1>3, <1>4, <2>1
    <2>2. CASE ~(j < n + 1)
      <3>1. j - n \in 1 .. Len(B) /\ n + (j - n) = j /\ n + 1 + (j - n) = j + 1
        BY <1>1, <2>2
      <3>2. t[j] = B[j - n] /\ s[j + 1] = B[j - n]
        BY <1>3, <1>4, <3>1
      <3>3. QED
        BY <2>2, <3>2
    <2>3. QED
      BY <2>1, <2>2
  <1>6. n + 1 \in 1 .. Len(s) /\ s[n + 1] = m /\ \A j \in 1 .. n : s[j] = X[j]
    BY <1>1, <1>2, <1>3
  <1>7. i = n + 1 /\ i - 1 = n /\ Len(t) = Len(s) - 1
    BY <1>1, <1>3, <1>4 DEF n
  <1>8. QED
    BY <1>4, <1>5, <1>6, <1>7

\* Taking away the beginning.
LEMMA WithoutFront ==
    ASSUME NEW X \in Seq(Messages), NEW B \in Seq(Messages)
    PROVE  SubSeq(X \o B, Len(X) + 1, Len(X \o B)) = B
  <1> DEFINE s == X \o B
             n == Len(X)
  <1>1. /\ n \in Nat /\ Len(B) \in Nat
        /\ s \in Seq(Messages) /\ Len(s) = n + Len(B)
        /\ \A j \in 1 .. Len(B) : s[n + j] = B[j]
    BY ConcatProperties
  <1> HIDE DEF s, n
  <1>2. SubSeq(s, n + 1, Len(s)) = [i \in 1 .. Len(B) |-> s[n + i]]
    <2>1. /\ Len(s) - (n + 1) + 1 = Len(B)
          /\ n + 1 \in Int /\ Len(s) \in Int
          /\ \A i \in n + 1 .. Len(s) : s[i] \in Messages
      BY <1>1
    <2>2. /\ SubSeq(s, n + 1, Len(s)) \in Seq(Messages)
          /\ Len(SubSeq(s, n + 1, Len(s))) = Len(B)
          /\ \A i \in 1 .. Len(B) : SubSeq(s, n + 1, Len(s))[i] = s[n + 1 + i - 1]
      <3>1. Len(SubSeq(s, n + 1, Len(s))) = IF n + 1 <= Len(s) THEN Len(s) - (n + 1) + 1 ELSE 0
        BY <2>1, SubSeqProperties
      <3>2. QED
        BY <1>1, <2>1, <3>1, SubSeqProperties
    <2>3. \A i \in 1 .. Len(B) : n + 1 + i - 1 = n + i
      BY <1>1
    <2>4. QED
      BY <2>2, <2>3, SeqIsFunction
  <1>3. B = [i \in 1 .. Len(B) |-> B[i]]
    BY SeqIsFunction
  <1>4. QED
    BY <1>1, <1>2, <1>3 DEF s, n

\* The listener takes the stop message out: it is the first one.
LEMMA CarriedHeeded ==
    ASSUME TypeInv, NEW p \in Procs, OneOwner(p), lhand[p] \in Addrs, lhand'[p] = Nil,
           mem[p][lhand[p]] = Stop,
           \A a \in QueueCells(p) \cup ({mhand[p]} \ {Nil}) : mem[p][a] # Stop,
           queue'[p] = queue[p], mem'[p] = mem[p], mhand'[p] = mhand[p], rcvbuf'[p] = rcvbuf[p]
    PROVE  \E i \in 1 .. Len(Carried(p)) :
              /\ Carried(p)[i] = Stop
              /\ \A j \in 1 .. i - 1 : Carried(p)[j] # Stop
              /\ Carried(p)' = Removed(Carried(p), i)
  <1> DEFINE M == HandSeq(p, mhand[p])
             Q == QueueSeq(p)
             X == M \o Q
             B == rcvbuf[p]
  <1>1. HandSeq(p, lhand[p]) = <<Stop>>
    BY NilAssumption DEF HandSeq
  <1>2. /\ M \in Seq(Messages) /\ Q \in Seq(Messages) /\ B \in Seq(Messages)
        /\ Carried(p) = (X \o <<Stop>>) \o B
    BY <1>1, CarriedParts
  <1>3. \A j \in 1 .. Len(M) : M[j] # Stop
    BY DEF HandSeq
  <1>4. \A j \in 1 .. Len(Q) : Q[j] # Stop
    <2>1. Len(Q) = Len(queue[p]) /\ \A j \in 1 .. Len(queue[p]) : Q[j] = mem[p][queue[p][j]]
      BY LocalTypes DEF QueueSeq
    <2>2. QED
      BY <2>1, LocalTypes
  <1>5. Carried(p)' = X \o B
    <2>1. /\ HandSeq(p, mhand[p])' = M /\ QueueSeq(p)' = Q /\ HandSeq(p, lhand[p])' = <<>>
      BY DEF HandSeq, QueueSeq
    <2>2. Carried(p)' = ((HandSeq(p, mhand[p])' \o QueueSeq(p)') \o HandSeq(p, lhand[p])') \o rcvbuf'[p]
      BY DEF Carried, HandSeq, QueueSeq
    <2>3. Carried(p)' = ((M \o Q) \o <<>>) \o B
      BY <2>1, <2>2
    <2> HIDE DEF M, Q
    <2>4. (M \o Q) \o <<>> = M \o Q
      BY <1>2
    <2>5. QED
      BY <2>3, <2>4
  <1> HIDE DEF M, Q, B
  <1>6. X \in Seq(Messages) /\ Len(X) \in Nat /\ \A j \in 1 .. Len(X) : X[j] # Stop
    <2>1. /\ X \in Seq(Messages) /\ Len(X) = Len(M) + Len(Q) /\ Len(M) \in Nat /\ Len(Q) \in Nat
          /\ \A j \in 1 .. Len(M) + Len(Q) : X[j] = IF j <= Len(M) THEN M[j] ELSE Q[j - Len(M)]
      BY <1>2, ConcatProperties
    <2> HIDE DEF X
    <2>2. ASSUME NEW j \in 1 .. Len(X) PROVE X[j] # Stop
      <3>1. CASE j <= Len(M)
        BY <1>3, <2>1, <3>1
      <3>2. CASE j > Len(M)
        <4>1. j - Len(M) \in 1 .. Len(Q)
          BY <2>1, <3>2
        <4>2. X[j] = Q[j - Len(M)]
          BY <2>1, <3>2
        <4>3. QED
          BY <1>4, <4>1, <4>2
      <3>3. QED
        BY <2>1, <3>1, <3>2
    <2>3. QED
      BY <2>1, <2>2
  <1> HIDE DEF X
  <1>7. Stop \in Messages
    BY DEF Messages
  <1> DEFINE s == Carried(p)
             i == Len(X) + 1
  <1>8. s = (X \o <<Stop>>) \o B /\ i = Len(X) + 1 /\ i - 1 = Len(X)
    BY <1>2, <1>6
  <1> DEFINE t == Carried(p)'
  <1>9. t = X \o B
    BY <1>5
  <1> HIDE DEF s, i, t
  <1>10. B \in Seq(Messages)
    BY <1>2
  <1>11. i \in 1 .. Len(s) /\ s[i] = Stop /\ \A j \in 1 .. i - 1 : s[j] = X[j]
    BY <1>6, <1>7, <1>8, <1>9, <1>10, WithoutMiddle
  <1>12. t = Removed(s, i)
    <2>1. t \in Seq(Messages) /\ Len(t) = Len(s) - 1
      BY <1>6, <1>7, <1>8, <1>9, <1>10, WithoutMiddle
    <2>2. \A j \in 1 .. Len(t) : t[j] = IF j < i THEN s[j] ELSE s[j + 1]
      BY <1>6, <1>7, <1>8, <1>9, <1>10, WithoutMiddle
    <2>3. t = [j \in 1 .. Len(t) |-> t[j]]
      BY <2>1, SeqIsFunction
    <2>4. t = [j \in 1 .. Len(s) - 1 |-> IF j < i THEN s[j] ELSE s[j + 1]]
      BY <2>1, <2>2, <2>3
    <2>5. QED
      BY <2>4 DEF Removed
  <1>13. \A j \in 1 .. i - 1 : s[j] # Stop
    BY <1>6, <1>8, <1>11
  <1>14. QED
    BY <1>11, <1>12, <1>13 DEF s, t

\* cleanMessageQueue throws away all but what is still in the buffer.
LEMMA CarriedCleaned ==
    ASSUME TypeInv, NEW p \in Procs, OneOwner(p), lhand[p] = Nil, mhand[p] = Nil,
           lhand'[p] = Nil, mhand'[p] = Nil, queue'[p] = <<>>, rcvbuf'[p] = rcvbuf[p]
    PROVE  \/ Carried(p)' = Carried(p)
           \/ \E k \in 1 .. Len(Carried(p)) :
                 Carried(p)' = SubSeq(Carried(p), k + 1, Len(Carried(p)))
  <1> DEFINE Q == QueueSeq(p)
             B == rcvbuf[p]
  <1>1. HandSeq(p, lhand[p]) = <<>> /\ HandSeq(p, mhand[p]) = <<>>
    BY DEF HandSeq
  <1>2. Q \in Seq(Messages) /\ B \in Seq(Messages) /\ Carried(p) = ((<<>> \o Q) \o <<>>) \o B
    BY <1>1, CarriedParts
  <1>3. Carried(p)' = ((<<>> \o <<>>) \o <<>>) \o B
    <2>1. /\ HandSeq(p, mhand[p])' = <<>> /\ HandSeq(p, lhand[p])' = <<>> /\ QueueSeq(p)' = <<>>
      BY DEF HandSeq, QueueSeq
    <2>2. Carried(p)' = ((HandSeq(p, mhand[p])' \o QueueSeq(p)') \o HandSeq(p, lhand[p])') \o rcvbuf'[p]
      BY DEF Carried, HandSeq, QueueSeq
    <2>3. QED
      BY <2>1, <2>2
  <1> HIDE DEF Q, B
  <1>4. Carried(p) = Q \o B /\ Carried(p)' = B
    BY <1>2, <1>3
  <1>5. CASE Q = <<>>
    BY <1>2, <1>4, <1>5
  <1>6. CASE Q # <<>>
    <2>1. Len(Q) \in Nat \ {0} /\ Len(B) \in Nat /\ Len(Q \o B) = Len(Q) + Len(B)
      BY <1>2, <1>6
    <2>2. Len(Q) \in 1 .. Len(Q \o B)
      BY <2>1
    <2>3. SubSeq(Q \o B, Len(Q) + 1, Len(Q \o B)) = B
      BY <1>2, WithoutFront
    <2>4. QED
      BY <1>4, <2>2, <2>3
  <1>7. QED
    BY <1>5, <1>6

\* Nothing is left of a process that is gone.
LEMMA CarriedReaped ==
    ASSUME NEW p \in Procs, Reaped(p)
    PROVE  Carried(p)' = <<>>
  <1>1. Carried(p)' = ((HandSeq(p, mhand[p])' \o QueueSeq(p)') \o HandSeq(p, lhand[p])') \o rcvbuf'[p]
    BY DEF Carried, HandSeq, QueueSeq
  <1>2. /\ HandSeq(p, mhand[p])' = <<>> /\ HandSeq(p, lhand[p])' = <<>> /\ QueueSeq(p)' = <<>>
    BY DEF HandSeq, QueueSeq, Reaped
  <1>3. ((<<>> \o <<>>) \o <<>>) \o <<>> = <<>>
    OBVIOUS
  <1>4. QED
    BY <1>1, <1>2, <1>3 DEF Reaped

-----------------------------------------------------------------------------
(* The feed: the invariant *)

\* The hooks that run have different packets.
HookPackets ==
    \A c \in Cpus : hook[c].at # "idle" =>
        /\ hook[c].pkt \in 1 .. captured
        /\ \A d \in Cpus : hook[d].at # "idle" /\ hook[d].pkt = hook[c].pkt => d = c

\* The listener lets no stop message through to main.
NoStop(p) == \A a \in QueueCells(p) \cup ({mhand[p]} \ {Nil}) : mem[p][a] # Stop

FeedInv == HookPackets /\ \A p \in Procs : NoStop(p)

\* Nor does it change when cells that it does not use are freed.
LEMMA CarriedKept ==
    ASSUME NEW p \in Procs, queue'[p] = queue[p], lhand'[p] = lhand[p], mhand'[p] = mhand[p],
           rcvbuf'[p] = rcvbuf[p], \A a \in Cells(p) : mem'[p][a] = mem[p][a]
    PROVE  Carried(p)' = Carried(p)
  <1>1. \A i \in 1 .. Len(queue[p]) : queue[p][i] \in Cells(p)
    BY DEF Cells, QueueCells, Elems
  <1>2. /\ lhand[p] # Nil => lhand[p] \in Cells(p)
        /\ mhand[p] # Nil => mhand[p] \in Cells(p)
    BY HandFacts DEF Cells
  <1>3. QueueSeq(p)' = QueueSeq(p)
    BY <1>1 DEF QueueSeq
  <1>4. HandSeq(p, lhand[p])' = HandSeq(p, lhand[p]) /\ HandSeq(p, mhand[p])' = HandSeq(p, mhand[p])
    BY <1>2 DEF HandSeq
  <1>5. /\ Carried(p) = ((HandSeq(p, mhand[p]) \o QueueSeq(p)) \o HandSeq(p, lhand[p])) \o rcvbuf[p]
        /\ Carried(p)' = ((HandSeq(p, mhand[p])' \o QueueSeq(p)') \o HandSeq(p, lhand[p])') \o rcvbuf'[p]
    BY DEF Carried, HandSeq, QueueSeq
  <1>6. QED
    BY <1>3, <1>4, <1>5

\* Whatever a step does to the messages of p, main meets no stop message.
LEMMA MovedNoStop ==
    ASSUME TypeInv, NEW p \in Procs, OneOwner(p), NoStop(p), Moved(p)
    PROVE  NoStop(p)'
  <1>0. Elems(<<>>) = {}
    BY DEF Elems
  <1>1. CASE Still(p)
    BY <1>1 DEF Still, NoStop, QueueCells
  <1>2. CASE \E a \in Addrs : Received(p, a)
    <2> PICK a \in Addrs : Received(p, a)
      BY <1>2
    <2>1. a \notin QueueCells(p) \cup ({mhand[p]} \ {Nil})
      BY DEF Received, OneOwner, HandCells
    <2>2. \A b \in QueueCells(p) \cup ({mhand[p]} \ {Nil}) : b \in Addrs /\ mem'[p][b] = mem[p][b]
      BY <2>1, LocalTypes DEF Received
    <2>3. QED
      BY <2>2 DEF Received, NoStop, QueueCells
  <1>3. CASE Delivered(p)
    <2>1. CASE queue'[p] = queue[p]
      BY <1>3, <2>1 DEF Delivered, NoStop, QueueCells
    <2>2. CASE queue'[p] = Append(queue[p], lhand[p]) /\ mem[p][lhand[p]] # Stop
      <3>1. QueueCells(p)' = QueueCells(p) \cup {lhand[p]}
        BY <1>3, <2>2, LocalTypes, PushElems DEF QueueCells, Delivered
      <3>2. mem'[p] = mem[p] /\ mhand'[p] = mhand[p]
        BY <1>3 DEF Delivered
      <3>3. QED
        BY <2>2, <3>1, <3>2 DEF NoStop
    <2>3. QED
      BY <1>3, <2>1, <2>2 DEF Delivered
  <1>4. CASE Popped(p)
    <2>1. QueueCells(p)' \subseteq QueueCells(p) /\ mhand'[p] \in QueueCells(p)
      <3>1. /\ Len(queue'[p]) = Len(queue[p]) - 1
            /\ \A i \in 1 .. Len(queue'[p]) : queue'[p][i] = queue[p][i + 1]
            /\ mhand'[p] = queue[p][1]
            /\ Len(queue[p]) \in Nat \ {0}
        BY <1>4, LocalTypes DEF Popped
      <3>2. \A i \in 1 .. Len(queue'[p]) : i + 1 \in 1 .. Len(queue[p])
        BY <3>1
      <3>3. QED
        BY <3>1, <3>2 DEF QueueCells, Elems
    <2>2. QED
      BY <1>4, <2>1 DEF Popped, NoStop
  <1>5. CASE Dropped(p)
    <2>1. QueueCells(p)' \subseteq QueueCells(p) /\ mhand'[p] \in {mhand[p], Nil}
      BY <1>0, <1>5 DEF Dropped, QueueCells
    <2>2. \A a \in QueueCells(p)' \cup ({mhand'[p]} \ {Nil}) : mem'[p][a] = mem[p][a]
      BY <1>5 DEF Dropped, Cells, HandCells
    <2>3. QED
      BY <2>1, <2>2 DEF NoStop
  <1>6. CASE Reaped(p)
    BY <1>0, <1>6 DEF Reaped, NoStop, QueueCells
  <1>7. QED
    BY <1>1, <1>2, <1>3, <1>4, <1>5, <1>6 DEF Moved

\* A step of the hook on CPU c keeps its packet.
LEMMA HookGoesOn ==
    ASSUME TypeInv, NEW c \in Cpus, packet_sniffer_hook(c)
    PROVE  /\ \A d \in Cpus \ {c} : hook'[d] = hook[d]
           /\ hook'[c].pkt = hook[c].pkt
           /\ hook[c].at # "idle"
           /\ UNCHANGED captured
  <1>0. hook[c] \in HookStates /\ hook \in [Cpus -> HookStates]
    BY DEF TypeInv, TypeOK, SnifferTypeOK
  <1>1. \E h \in {AfterRole(hook[c])} \cup {[hook[c] EXCEPT !.at = at] : at \in {"pid", "send", "idle"}} :
           hook' = [hook EXCEPT ![c] = h]
    BY DEF packet_sniffer_hook, HookFlag, HookPid, HookSend
  <1>2. QED
    BY <1>0, <1>1, AfterRoleFacts DEF packet_sniffer_hook, HookFlag, HookPid, HookSend, HookStates

\* Every step keeps the packets of the hooks apart and stop messages from main.
LEMMA StepFeedInv ==
    ASSUME TypeInv, MemorySafe, FeedInv, [Next]_vars
    PROVE  FeedInv'
  <1>0. captured \in Nat /\ hook \in [Cpus -> HookStates]
    BY SnifferAssumption DEF TypeInv, TypeOK, SnifferTypeOK
  <1>1. HookPackets'
    <2>1. CASE UNCHANGED hookvars
      BY <2>1 DEF FeedInv, HookPackets, hookvars
    <2>2. ASSUME NEW c \in Cpus, HookCapture(c) PROVE HookPackets'
      <3>1. /\ captured' = captured + 1
            /\ hook'[c].pkt = captured + 1
            /\ \A d \in Cpus \ {c} : hook'[d] = hook[d]
        BY <1>0, <2>2 DEF HookCapture
      <3>2. \A d \in Cpus \ {c} : hook[d].at # "idle" =>
                hook[d].pkt \in 1 .. captured' /\ hook[d].pkt # captured + 1
        BY <1>0, <3>1 DEF FeedInv, HookPackets
      <3>3. captured + 1 \in 1 .. captured'
        BY <1>0, <3>1
      <3>4. QED
        BY <3>1, <3>2, <3>3 DEF FeedInv, HookPackets
    <2>3. ASSUME NEW c \in Cpus, packet_sniffer_hook(c) PROVE HookPackets'
      BY <2>3, HookGoesOn DEF FeedInv, HookPackets
    <2>4. CASE Kernel
      BY <2>1, <2>2, <2>3, <2>4 DEF Kernel, sniffer_init, sniffer_exit, nl_recv_msg, SubscribeTest,
         SubscribeFlag, SubscribePid, UnsubscribeStop, UnsubscribeFlag, UnsubscribePid
    <2>5. CASE UNCHANGED vars
      BY <2>1, <2>5 DEF vars, kernelvars
    <2>6. QED
      <3>1. ASSUME NEW d \in Daemons, DaemonStep(d) PROVE UNCHANGED hookvars
        BY <3>1, DaemonMoves DEF Procs
      <3>2. ASSUME NEW h \in Hunters, HunterStep(h) PROVE UNCHANGED hookvars
        BY <3>2, HunterMoves DEF Procs
      <3>3. ASSUME NEW p \in Procs, Listener(p) PROVE UNCHANGED hookvars
        BY <3>3, ListenerMoves
      <3>4. CASE \/ \E p \in Procs : Environment(p)
                 \/ \E d \in Daemons, h \in Hunters : CloseClient(d, h)
        <4>1. UNCHANGED hookvars
          BY <3>4, EnvironmentMoves DEF Procs
        <4>2. QED
          BY <2>1, <4>1
      <3>5. QED
        BY <2>1, <2>4, <2>5, <3>1, <3>2, <3>3, <3>4 DEF Next
  <1>2. ASSUME NEW q \in Procs PROVE NoStop(q)'
    <2>1. OneOwner(q) /\ NoStop(q)
      BY DEF MemorySafe, FeedInv
    <2>2. CASE UNCHANGED uservars
      BY <2>1, <2>2 DEF uservars, NoStop, QueueCells
    <2>3. CASE Kernel \/ UNCHANGED vars
      BY <2>2, <2>3 DEF Kernel, vars
    <2>4. ASSUME NEW d \in Daemons, DaemonStep(d) PROVE NoStop(q)'
      BY <2>1, <2>4, DaemonMoves, MovedNoStop
    <2>5. ASSUME NEW h \in Hunters, HunterStep(h) PROVE NoStop(q)'
      BY <2>1, <2>5, HunterMoves, MovedNoStop
    <2>6. ASSUME NEW p \in Procs, Listener(p) PROVE NoStop(q)'
      BY <2>1, <2>6, ListenerMoves, MovedNoStop
    <2>7. CASE \/ \E p \in Procs : Environment(p)
               \/ \E d \in Daemons, h \in Hunters : CloseClient(d, h)
      BY <2>1, <2>7, EnvironmentMoves, MovedNoStop
    <2>8. QED
      BY <2>3, <2>4, <2>5, <2>6, <2>7 DEF Next
  <1>3. QED
    BY <1>1, <1>2 DEF FeedInv

-----------------------------------------------------------------------------
(* The feed: steps of the programs *)

\* The abstract state: what has still to be offered to each role, who may be
\* fed, and what each process has got.
Todo == [r \in Roles |-> NotOffered(r)]
Open == {p \in Procs : MayBeFed(p)}
Fed == [p \in Procs |-> Carried(p)]

\* A step the feed does not see.
LEMMA FeedQuiet ==
    ASSUME Todo' = Todo, Open' = Open, Fed' = Fed, captured' = captured
    PROVE  UNCHANGED Feed!feedvars
  BY DEF Feed!feedvars, Todo, Open, Fed

\* Only p moves, and not the hook.
Alone(p) ==
    /\ \A q \in Procs \ {p} : Still(q) /\ mpc'[q] = mpc[q] /\ handler'[q] = handler[q]
    /\ UNCHANGED hookvars

\* What a step of p alone does to the abstract state.
LEMMA AloneFrame ==
    ASSUME NEW p \in Procs, Alone(p)
    PROVE  /\ Todo' = Todo /\ captured' = captured
           /\ \A q \in Procs \ {p} : MayBeFed(q)' <=> MayBeFed(q)
           /\ Fed' = [Fed EXCEPT ![p] = Carried(p)']
           /\ Carried(p)' = Carried(p) => Fed' = Fed
           /\ (MayBeFed(p)' <=> MayBeFed(p)) => Open' = Open
           /\ ~MayBeFed(p)' => Open' = Open \ {p}
           /\ Open' \in {Open \cup {p}, Open \ {p}}
  <1>1. Todo' = Todo /\ captured' = captured
    BY DEF Alone, Todo, NotOffered, hookvars
  <1>2. \A q \in Procs \ {p} : MayBeFed(q)' <=> MayBeFed(q)
    BY DEF Alone, MayBeFed, Subscriber
  <1>3. \A q \in Procs \ {p} : Carried(q)' = Carried(q)
    BY CarriedStill DEF Alone
  <1>4. Fed' = [Fed EXCEPT ![p] = Carried(p)'] /\ (Carried(p)' = Carried(p) => Fed' = Fed)
    BY <1>3 DEF Fed
  <1>5. /\ (MayBeFed(p)' <=> MayBeFed(p)) => Open' = Open
        /\ ~MayBeFed(p)' => Open' = Open \ {p}
        /\ MayBeFed(p)' => Open' = Open \cup {p}
    BY <1>2 DEF Open
  <1>6. QED
    BY <1>1, <1>2, <1>4, <1>5

\* p moves on with the messages it has: it opens or closes its subscription,
\* or neither.
LEMMA SameFeed ==
    ASSUME NEW p \in Procs, Alone(p), Carried(p)' = Carried(p)
    PROVE  Feed!Next
  <1>1. Open' \in {Open \cup {p}, Open \ {p}} /\ Todo' = Todo /\ captured' = captured /\ Fed' = Fed
    BY AloneFrame
  <1>2. Feed!OpenOrClose(p)
    BY <1>1 DEF Feed!OpenOrClose, Todo, Open, Fed
  <1>3. QED
    BY <1>2 DEF Feed!Next

\* main is done with the packet in its hand.
LEMMA HandleFeed ==
    ASSUME TypeInv, MemorySafe, FeedInv, NEW p \in Procs, Alone(p),
           MayBeFed(p), MayBeFed(p)', mhand[p] \in Addrs, mhand'[p] = Nil,
           queue'[p] = queue[p], lhand'[p] = lhand[p], rcvbuf'[p] = rcvbuf[p],
           \A a \in Cells(p)' : mem'[p][a] = mem[p][a]
    PROVE  Feed!Next
  <1>1. mhand[p] # Nil /\ mem[p][mhand[p]] # Stop /\ OneOwner(p)
    BY NilAssumption DEF FeedInv, NoStop, MemorySafe
  <1>2. /\ Carried(p) # <<>> /\ Head(Carried(p)) # Stop
        /\ Carried(p)' = Tail(Carried(p))
    BY <1>1, CarriedHandled
  <1>3. /\ Open' = Open /\ Todo' = Todo /\ captured' = captured
        /\ Fed' = [Fed EXCEPT ![p] = Tail(Carried(p))]
    BY <1>2, AloneFrame
  <1>4. Fed[p] = Carried(p) /\ Fed' = [Fed EXCEPT ![p] = Tail(@)]
    BY <1>3 DEF Fed
  <1>5. Feed!Handle(p)
    BY <1>2, <1>3, <1>4 DEF Feed!Handle, Todo, Open, Fed
  <1>6. QED
    BY <1>5 DEF Feed!Next

\* p, which is not fed any longer, throws messages away.
LEMMA ForgetFeed ==
    ASSUME NEW p \in Procs, Alone(p), ~MayBeFed(p)',
           \/ Carried(p)' = Carried(p)
           \/ \E k \in 1 .. Len(Carried(p)) :
                 Carried(p)' = SubSeq(Carried(p), k + 1, Len(Carried(p)))
    PROVE  Feed!Next
  <1>1. CASE Carried(p)' = Carried(p)
    BY <1>1, SameFeed
  <1>2. CASE \E k \in 1 .. Len(Carried(p)) :
                 Carried(p)' = SubSeq(Carried(p), k + 1, Len(Carried(p)))
    <2> PICK k \in 1 .. Len(Carried(p)) :
                 Carried(p)' = SubSeq(Carried(p), k + 1, Len(Carried(p)))
      BY <1>2
    <2>1. /\ Open' = Open \ {p} /\ Todo' = Todo /\ captured' = captured
          /\ Fed' = [Fed EXCEPT ![p] = Carried(p)']
      BY AloneFrame
    <2>2. Fed[p] = Carried(p) /\ Fed' = [Fed EXCEPT ![p] = SubSeq(@, k + 1, Len(@))]
      BY <2>1 DEF Fed
    <2>3. Feed!Forget(p)
      BY <2>1, <2>2 DEF Feed!Forget, Todo, Open, Fed
    <2>4. QED
      BY <2>3 DEF Feed!Next
  <1>3. QED
    BY <1>1, <1>2

\* The listener heeds the stop message.
LEMMA HeedFeed ==
    ASSUME TypeInv, MemorySafe, FeedInv, NEW p \in Procs, Alone(p), Delivered(p),
           mem[p][lhand[p]] = Stop, queue'[p] = queue[p], MayBeFed(p)' <=> MayBeFed(p)
    PROVE  Feed!Next
  <1>1. OneOwner(p) /\ \A a \in QueueCells(p) \cup ({mhand[p]} \ {Nil}) : mem[p][a] # Stop
    BY DEF FeedInv, NoStop, MemorySafe
  <1>2. PICK i \in 1 .. Len(Carried(p)) :
              /\ Carried(p)[i] = Stop
              /\ \A j \in 1 .. i - 1 : Carried(p)[j] # Stop
              /\ Carried(p)' = Removed(Carried(p), i)
    BY <1>1, CarriedHeeded DEF Delivered
  <1>3. /\ Open' = Open /\ Todo' = Todo /\ captured' = captured
        /\ Fed' = [Fed EXCEPT ![p] = Carried(p)']
    BY AloneFrame
  <1>4. Feed!Without(Carried(p), i) = Removed(Carried(p), i)
    BY DEF Feed!Without, Removed
  <1>5. Fed[p] = Carried(p) /\ Fed' = [Fed EXCEPT ![p] = Feed!Without(@, i)]
    BY <1>2, <1>3, <1>4 DEF Fed
  <1>6. Feed!Heed(p)
    BY <1>2, <1>3, <1>5 DEF Feed!Heed, Todo, Open, Fed
  <1>7. QED
    BY <1>6 DEF Feed!Next

\* A step in which one process moves and no message does.
LEMMA MoveFeed ==
    ASSUME TypeInv, NEW p \in Procs, UNCHANGED <<queue, mem, lhand, mhand, rcvbuf, hookvars>>,
           \A q \in Procs \ {p} : mpc'[q] = mpc[q] /\ handler'[q] = handler[q]
    PROVE  Feed!Next
  <1>1. \A q \in Procs : Still(q)
    BY DEF Still
  <1>2. QED
    BY <1>1, SameFeed, CarriedStill DEF Alone

\* The listener: between the buffer and its hand, and on into the queue.
LEMMA ListenerFeed ==
    ASSUME TypeInv, MemorySafe, ExitInv, FeedInv, NEW p \in Procs, Listener(p)
    PROVE  Feed!Next
  <1> USE DEF kernelvars, sockvars, hookvars
  <1>0. /\ mpc \in [Procs -> MainStates] /\ lhand \in [Procs -> Addrs \cup {Nil}]
        /\ queue \in [Procs -> Seq(Addrs)] /\ rcvbuf \in [Procs -> Seq(Messages)]
        /\ mem \in [Procs -> [Addrs -> Messages \cup {Free}]]
        /\ OneOwner(p) /\ Empty(p)
    BY DEF TypeInv, TypeOK, SnifferTypeOK, ClientTypeOK, MemorySafe, ExitInv, Exit
  <1>1. CASE ListenerTest(p) \/ ReceiveError(p) \/ BadAlloc(p)
    BY <1>0, <1>1, MoveFeed DEF ListenerTest, ReceiveError, BadAlloc, Goto
  <1>2. CASE receivePacketInfo(p)
    <2>1. PICK a \in Addrs : /\ mem[p][a] = Free
                             /\ mem' = [mem EXCEPT ![p][a] = Head(rcvbuf[p])]
                             /\ lhand' = [lhand EXCEPT ![p] = a]
      BY <1>2 DEF receivePacketInfo
    <2>2. Alone(p)
      BY <1>0, <1>2, <2>1 DEF Alone, Still, receivePacketInfo
    <2>3. Received(p, a) /\ lhand[p] = Nil
      BY <1>0, <1>2, <2>1 DEF receivePacketInfo, Received, Empty
    <2>4. QED
      BY <1>0, <2>2, <2>3, CarriedReceived, SameFeed
  <1>3. CASE ListenerDeliver(p)
    <2>1. lhand[p] \in Addrs
      BY <1>3 DEF ListenerDeliver, TypeInv, HandsFull
    <2>2. Alone(p)
      BY <1>0, <1>3 DEF Alone, Still, ListenerDeliver
    <2>3. /\ lhand'[p] = Nil /\ UNCHANGED <<mpc, handler, mem, mhand, rcvbuf>>
          /\ \/ mem[p][lhand[p]] = Stop /\ queue'[p] = queue[p]
             \/ mem[p][lhand[p]] # Stop /\ queue'[p] = Append(queue[p], lhand[p])
      BY <1>0, <1>3 DEF ListenerDeliver
    <2>4. Delivered(p)
      BY <2>1, <2>3 DEF Delivered
    <2>5. CASE mem[p][lhand[p]] = Stop /\ queue'[p] = queue[p]
      <3>1. MayBeFed(p)' <=> MayBeFed(p)
        BY <2>3 DEF MayBeFed, Subscriber
      <3>2. QED
        BY <2>2, <2>4, <2>5, <3>1, HeedFeed
    <2>6. CASE queue'[p] = Append(queue[p], lhand[p])
      BY <1>0, <2>1, <2>2, <2>3, <2>6, CarriedPushed, SameFeed
    <2>7. QED
      BY <2>3, <2>5, <2>6
  <1>4. QED
    BY <1>1, <1>2, <1>3 DEF Listener, recvPacketInfoThread

\* The steps of main that both programs have.
LEMMA SharedFeed ==
    ASSUME TypeInv, MemorySafe, ExitInv, FeedInv, NEW p \in Procs, NEW next \in {"close", "save"},
           \/ Spawn(p) \/ LeaveLoop(p) \/ Pop(p) \/ Unsubscribe(p) \/ Join(p)
           \/ cleanMessageQueue(p, next)
    PROVE  Feed!Next
  <1> USE DEF kernelvars, sockvars, hookvars, Goto
  <1>0. /\ mpc \in [Procs -> MainStates] /\ mhand \in [Procs -> Addrs \cup {Nil}]
        /\ queue \in [Procs -> Seq(Addrs)] /\ handler \in [Procs -> HandlerStates]
        /\ mem \in [Procs -> [Addrs -> Messages \cup {Free}]]
        /\ OneOwner(p) /\ Empty(p) /\ Threads(p)
    BY DEF TypeInv, TypeOK, SnifferTypeOK, ClientTypeOK, MemorySafe, ExitInv, Exit
  <1>1. CASE Spawn(p) \/ LeaveLoop(p) \/ Unsubscribe(p) \/ Join(p)
    BY <1>0, <1>1, MoveFeed DEF Spawn, LeaveLoop, Unsubscribe, EnterKernel, Join
  <1>2. CASE Pop(p)
    <2>1. Alone(p) /\ Popped(p) /\ mhand[p] = Nil
      BY <1>0, <1>2 DEF Pop, Alone, Still, Popped, Empty
    <2>2. QED
      BY <1>0, <2>1, CarriedPopped, SameFeed
  <1>3. CASE cleanMessageQueue(p, next)
    <2>1. Alone(p)
      BY <1>0, <1>3 DEF cleanMessageQueue, FreeAll, Alone, Still
    <2>2. /\ lhand[p] = Nil /\ mhand[p] = Nil /\ lhand'[p] = Nil /\ mhand'[p] = Nil
          /\ queue'[p] = <<>> /\ rcvbuf'[p] = rcvbuf[p] /\ mpc'[p] = next
      BY <1>0, <1>3 DEF cleanMessageQueue, Threads, Empty
    <2>3. ~MayBeFed(p)'
      BY <2>2 DEF MayBeFed, Subscriber
    <2>4. QED
      BY <1>0, <2>1, <2>2, <2>3, CarriedCleaned, ForgetFeed
  <1>4. QED
    BY <1>1, <1>2, <1>3

\* The daemon's main handles a packet when it has freed it.
LEMMA DaemonFeed ==
    ASSUME TypeInv, MemorySafe, ExitInv, FeedInv, NEW d \in Daemons, DaemonStep(d)
    PROVE  Feed!Next
  <1> USE DEF kernelvars, sockvars, hookvars, Goto
  <1>0. /\ d \in Procs /\ mpc \in [Procs -> MainStates] /\ mhand \in [Procs -> Addrs \cup {Nil}]
        /\ handler \in [Procs -> HandlerStates]
        /\ mem \in [Procs -> [Addrs -> Messages \cup {Free}]]
        /\ OneOwner(d)
    BY DEF Procs, TypeInv, TypeOK, SnifferTypeOK, ClientTypeOK, MemorySafe
  <1>1. CASE \/ Spawn(d) \/ LeaveLoop(d) \/ Pop(d) \/ Unsubscribe(d) \/ Join(d)
             \/ cleanMessageQueue(d, "close")
    BY <1>0, <1>1, SharedFeed
  <1>2. CASE DStart(d) \/ DConstruct(d) \/ DSubscribe(d) \/ DReinitialize(d) \/ DClose(d)
    BY <1>0, <1>2, MoveFeed DEF DStart, DConstruct, OpenSocket, DSubscribe, EnterKernel,
       DReinitialize, DClose
  <1>3. CASE DHandle(d) /\ UNCHANGED <<mem, mhand>>
    <2>1. \A q \in Procs \ {d} : mpc'[q] = mpc[q] /\ handler'[q] = handler[q]
      BY <1>0, <1>3 DEF DHandle
    <2>2. QED
      BY <1>0, <1>3, <2>1, MoveFeed DEF DHandle
  <1>4. CASE /\ DHandle(d)
             /\ FreeAll(d, {mhand[d]})
             /\ mhand' = [mhand EXCEPT ![d] = Nil]
             /\ Goto(d, "loop")
    <2>1. mhand[d] \in Addrs /\ mhand'[d] = Nil
      BY <1>0, <1>4 DEF DHandle, TypeInv, HandsFull
    <2>2. Alone(d)
      BY <1>0, <1>4 DEF DHandle, FreeAll, Alone, Still
    <2>3. MayBeFed(d) /\ MayBeFed(d)'
      BY <1>0, <1>4 DEF DHandle, MayBeFed, Subscriber
    <2>4. \A a \in Cells(d)' : a \in Addrs /\ a # mhand[d]
      <3>1. HandCells(d)' = {lhand[d]} \ {Nil} /\ QueueCells(d)' = QueueCells(d)
        BY <1>0, <1>4 DEF DHandle, HandCells, QueueCells
      <3>2. mhand[d] # Nil
        BY <2>1, NilAssumption
      <3>3. mhand[d] \notin QueueCells(d) /\ mhand[d] # lhand[d]
        BY <1>0, <3>2 DEF OneOwner, HandCells
      <3>4. QueueCells(d) \subseteq Addrs /\ {lhand[d]} \ {Nil} \subseteq Addrs
        BY <1>0, LocalTypes
      <3>5. QED
        BY <3>1, <3>3, <3>4 DEF Cells
    <2>5. \A a \in Cells(d)' : mem'[d][a] = mem[d][a]
      BY <1>0, <1>4, <2>4 DEF FreeAll
    <2>6. queue'[d] = queue[d] /\ lhand'[d] = lhand[d] /\ rcvbuf'[d] = rcvbuf[d]
      BY <1>4 DEF DHandle
    <2>7. QED
      BY <1>0, <2>1, <2>2, <2>3, <2>5, <2>6, HandleFeed
  <1>5. QED
    BY <1>1, <1>2, <1>3, <1>4 DEF DaemonStep, DaemonMain, DHandle

\* The hunter's main handles a packet when it knows it already, when it cannot
\* ask, and when it has its answer.
LEMMA HunterFeed ==
    ASSUME TypeInv, MemorySafe, ExitInv, FeedInv, NEW h \in Hunters, HunterStep(h)
    PROVE  Feed!Next
  <1> USE DEF kernelvars, sockvars, hookvars, Goto
  <1>0. /\ h \in Procs /\ mpc \in [Procs -> MainStates] /\ mhand \in [Procs -> Addrs \cup {Nil}]
        /\ handler \in [Procs -> HandlerStates]
        /\ mem \in [Procs -> [Addrs -> Messages \cup {Free}]]
        /\ OneOwner(h)
    BY DEF Procs, TypeInv, TypeOK, SnifferTypeOK, ClientTypeOK, MemorySafe
  <1>1. CASE \/ Spawn(h) \/ LeaveLoop(h) \/ Pop(h) \/ Unsubscribe(h) \/ Join(h)
             \/ cleanMessageQueue(h, "save")
    BY <1>0, <1>1, SharedFeed
  <1>2. CASE HStart(h) \/ HConstruct(h) \/ HSubscribe(h) \/ HSubscribed(h) \/ HProbe(h)
    BY <1>0, <1>2, MoveFeed DEF HStart, HConstruct, OpenSocket, HSubscribe, EnterKernel,
       HSubscribed, HProbe
  <1>3. CASE HHandle(h) \/ sendPort(h) \/ receivePid(h)
    <2>1. /\ UNCHANGED <<queue, mem, lhand, rcvbuf, handler, hookvars>>
          /\ mpc[h] \in {"handle", "query", "await"}
          /\ \/ mhand' = mhand
             \/ mhand' = [mhand EXCEPT ![h] = Nil] /\ mpc'[h] \in {"loop", "unsubscribe"}
          /\ \A q \in Procs \ {h} : mpc'[q] = mpc[q]
      BY <1>0, <1>3 DEF HHandle, sendPort, receivePid, Drop
    <2>2. CASE mhand' = mhand
      BY <1>0, <2>1, <2>2, MoveFeed
    <2>3. CASE mhand' = [mhand EXCEPT ![h] = Nil] /\ mpc'[h] \in {"loop", "unsubscribe"}
      <3>1. mhand[h] \in Addrs /\ mhand'[h] = Nil
        BY <1>0, <2>1, <2>3 DEF TypeInv, HandsFull
      <3>2. Alone(h)
        BY <1>0, <2>1, <2>3 DEF Alone, Still
      <3>3. MayBeFed(h) /\ MayBeFed(h)'
        BY <2>1, <2>3 DEF MayBeFed, Subscriber
      <3>4. QED
        BY <1>0, <2>1, <3>1, <3>2, <3>3, HandleFeed
    <2>4. QED
      BY <2>1, <2>2, <2>3
  <1>4. CASE HSave(h)
    <2>1. Alone(h)
      BY <1>0, <1>4 DEF HSave, FreeAll, Alone, Still
    <2>2. \A a \in Cells(h) : mem'[h][a] = mem[h][a]
      <3>1. Cells(h) \cap stored[h] = {} /\ Cells(h) \subseteq Addrs
        BY <1>0, LocalTypes DEF Cells, OneOwner, StoredCells
      <3>2. CASE FreeAll(h, stored[h])
        BY <1>0, <3>1, <3>2 DEF FreeAll
      <3>3. CASE UNCHANGED mem
        BY <3>3
      <3>4. QED
        BY <1>4, <3>2, <3>3 DEF HSave
    <2>3. QED
      BY <1>0, <1>4, <2>1, <2>2, CarriedKept, SameFeed DEF HSave
  <1>5. QED
    BY <1>1, <1>2, <1>3, <1>4 DEF HunterStep, HunterMain

\* Signals and kills, and the end of a process, which takes its messages along.
LEMMA EnvironmentFeed ==
    ASSUME TypeInv, MemorySafe, NEW p \in Procs, Environment(p)
    PROVE  Feed!Next
  <1> USE DEF kernelvars, sockvars, hookvars, Goto, TypeInv, TypeOK, SnifferTypeOK, ClientTypeOK
  <1>1. CASE handleSignal(p) \/ Kill(p)
    BY <1>1, MoveFeed DEF handleSignal, Kill
  <1>2. CASE Reap(p)
    <2>1. Alone(p) /\ Reaped(p)
      BY <1>2 DEF Reap, Alone, Still, Reaped
    <2>2. ~MayBeFed(p)'
      BY <1>2 DEF Reap, MayBeFed, Subscriber
    <2>3. Carried(p)' = <<>> /\ Carried(p) \in Seq(Messages)
      BY <2>1, CarriedReaped, CarriedParts DEF MemorySafe
    <2>4. CASE Carried(p) = <<>>
      BY <2>1, <2>2, <2>3, <2>4, ForgetFeed
    <2>5. CASE Carried(p) # <<>>
      <3> DEFINE s == Carried(p)
      <3>1. s \in Seq(Messages) /\ s # <<>>
        BY <2>3, <2>5
      <3> HIDE DEF s
      <3>2. Len(s) \in 1 .. Len(s) /\ SubSeq(s, Len(s) + 1, Len(s)) = <<>>
        BY <3>1
      <3>3. QED
        BY <2>1, <2>2, <2>3, <3>2, ForgetFeed DEF s
    <2>6. QED
      BY <2>4, <2>5
  <1>3. QED
    BY <1>1, <1>2 DEF Environment

-----------------------------------------------------------------------------
(* The feed: steps of the kernel module *)

\* A recorded process with a socket may be fed.
LEMMA RecordedMayBeFed ==
    ASSUME TypeInv, RecordInv, NEW r \in Roles, client_pid[r] \in bound
    PROVE  client_pid[r] \in Procs /\ client_pid[r] \in Members(r) /\ MayBeFed(client_pid[r])
  <1>1. client_pid[r] \in Procs /\ client_pid[r] # NoPid /\ client_pid[r] \in Members(r)
    BY SnifferAssumption DEF TypeInv, TypeOK, SnifferTypeOK, Procs
  <1>2. Recordable(client_pid[r]) /\ Alive(client_pid[r])
    BY <1>1 DEF RecordInv, OnlyRecordable, BoundAlive
  <1>3. QED
    BY <1>1, <1>2 DEF Recordable, Alive, MayBeFed, Subscriber

\* What a send does to the feed: the message arrives, or nothing does.
LEMMA SendFeed ==
    ASSUME TypeInv, MemorySafe, UNCHANGED uservars, NEW to, NEW m \in Messages,
           \/ send_packet_info_to_user(to, m)
           \/ UNCHANGED rcvbuf
    PROVE  \/ Fed' = Fed
           \/ to \in bound /\ Fed' = [Fed EXCEPT ![to] = Append(@, m)]
  <1>1. CASE UNCHANGED rcvbuf
    <2>1. \A q \in Procs : Still(q)
      BY <1>1 DEF Still, uservars
    <2>2. QED
      BY <2>1, CarriedStill DEF Fed
  <1>2. CASE to \in bound /\ rcvbuf' = [rcvbuf EXCEPT ![to] = Append(@, m)]
    <2>1. to \in Procs /\ OneOwner(to)
      BY <1>2 DEF TypeInv, TypeOK, SnifferTypeOK, MemorySafe
    <2>2. \A q \in Procs \ {to} : Still(q)
      BY <1>2 DEF Still, uservars, TypeInv, TypeOK, SnifferTypeOK
    <2>3. Sent(to, m)
      BY <1>2, <2>1 DEF Sent, uservars, TypeInv, TypeOK, SnifferTypeOK
    <2>4. Carried(to)' = Append(Carried(to), m)
      BY <2>1, <2>3, CarriedSent
    <2>5. \A q \in Procs \ {to} : Carried(q)' = Carried(q)
      BY <2>2, CarriedStill
    <2>6. QED
      BY <1>2, <2>1, <2>4, <2>5 DEF Fed
  <1>3. QED
    BY <1>1, <1>2 DEF send_packet_info_to_user, netlink_unicast

\* nl_recv_msg: the stop message goes to whoever may be fed; the end of a call
\* opens or closes.
LEMMA HandlerFeed ==
    ASSUME TypeInv, MemorySafe, RecordInv, UNCHANGED uservars, NEW p \in Procs, nl_recv_msg(p)
    PROVE  [Feed!Next]_(Feed!feedvars)
  <1>0. handler \in [Procs -> HandlerStates] /\ RoleOf(p) \in Roles
    BY RoleOfType DEF TypeInv, TypeOK, SnifferTypeOK
  <1>1. CASE UNCHANGED <<hookvars, sockvars>>
    <2>1. \A q \in Procs \ {p} : mpc'[q] = mpc[q] /\ handler'[q] = handler[q]
      BY <1>0 DEF nl_recv_msg, SubscribeTest, SubscribeFlag, SubscribePid, UnsubscribeStop,
         UnsubscribeFlag, UnsubscribePid, At, uservars
    <2>2. QED
      BY <1>1, <2>1, MoveFeed DEF sockvars, uservars
  <1>2. CASE UnsubscribeStop(p)
    <2> DEFINE to == client_pid[RoleOf(p)]
    <2>1. /\ UNCHANGED hookvars /\ handler[p] = "unsub_stop" /\ handler'[p] # "none"
          /\ \A q \in Procs \ {p} : handler'[q] = handler[q]
      BY <1>0, <1>2 DEF UnsubscribeStop, At
    <2>2. Open' = Open
      <3>1. mpc[p] \in {"unsubscribing", "aborted"} /\ mpc' = mpc
        BY <2>1 DEF RecordInv, HandlerPlace, uservars
      <3>2. \A q \in Procs : MayBeFed(q)' <=> MayBeFed(q)
        BY <2>1, <3>1 DEF MayBeFed, Subscriber
      <3>3. QED
        BY <3>2 DEF Open
    <2>3. Todo' = Todo /\ captured' = captured
      BY <2>1 DEF Todo, NotOffered, hookvars
    <2>4. \/ Fed' = Fed
          \/ to \in bound /\ Fed' = [Fed EXCEPT ![to] = Append(@, Stop)]
      BY <1>2, SendFeed DEF UnsubscribeStop, Messages
    <2>5. CASE Fed' = Fed
      BY <2>2, <2>3, <2>5, FeedQuiet
    <2>6. CASE to \in bound /\ Fed' = [Fed EXCEPT ![to] = Append(@, Stop)]
      <3>1. to \in Procs /\ to \in Open
        BY <1>0, <2>6, RecordedMayBeFed DEF Open
      <3>2. Feed!Request(to)
        BY <2>2, <2>3, <2>6, <3>1 DEF Feed!Request, Todo, Open, Fed
      <3>3. QED
        BY <3>1, <3>2 DEF Feed!Next
    <2>7. QED
      BY <2>4, <2>5, <2>6
  <1>3. QED
    BY <1>1, <1>2 DEF nl_recv_msg, SubscribeTest, SubscribeFlag, SubscribePid, UnsubscribeFlag,
       UnsubscribePid

\* The roles to which a hook has still to offer its packet.
Owes(h) == IF h.at = "idle" THEN {} ELSE {r \in Roles : h.role \in {r, "daemon"}}

\* The packets to offer to r are those of the hooks that owe r one.
LEMMA NotOfferedOwes ==
    ASSUME NEW r \in Roles
    PROVE  NotOffered(r) = {hook[c].pkt : c \in {x \in Cpus : r \in Owes(hook[x])}}
  BY DEF NotOffered, Owes

\* The hook on CPU c has offered its packet to the roles R: no other hook has
\* the same packet.
LEMMA OfferedTo ==
    ASSUME FeedInv, NEW c \in Cpus, NEW R \in SUBSET Roles,
           hook[c].at # "idle", hook'[c].pkt = hook[c].pkt,
           \A d \in Cpus \ {c} : hook'[d] = hook[d],
           Owes(hook'[c]) = Owes(hook[c]) \ R
    PROVE  Todo' = [r \in Roles |-> IF r \in R THEN Todo[r] \ {hook[c].pkt} ELSE Todo[r]]
  <1> SUFFICES ASSUME NEW r \in Roles
               PROVE  NotOffered(r)' = IF r \in R THEN NotOffered(r) \ {hook[c].pkt} ELSE NotOffered(r)
    BY DEF Todo
  <1> DEFINE C == {x \in Cpus : r \in Owes(hook[x])}
             D == {x \in Cpus : r \in Owes(hook'[x])}
  <1>1. NotOffered(r) = {hook[x].pkt : x \in C}
    BY NotOfferedOwes
  <1>2. NotOffered(r)' = {hook'[x].pkt : x \in D}
    BY DEF NotOffered, Owes
  <1>3. \A x \in Cpus : hook'[x].pkt = hook[x].pkt
    OBVIOUS
  <1>4. \A x \in C \ {c} : hook[x].pkt # hook[c].pkt
    BY DEF FeedInv, HookPackets, Owes
  <1>5. CASE r \in R
    <2>1. D = C \ {c}
      BY <1>5
    <2>2. QED
      BY <1>1, <1>2, <1>3, <1>4, <1>5, <2>1
  <1>6. CASE r \notin R
    <2>1. D = C
      BY <1>6
    <2>2. QED
      BY <1>1, <1>2, <1>3, <1>6, <2>1
  <1>7. QED
    BY <1>5, <1>6

\* What the next place of a hook means for what it owes.
LEMMA AfterRoleOwes ==
    ASSUME NEW h \in HookStates, h.at # "idle"
    PROVE  /\ h.role \in Owes(h)
           /\ Owes(AfterRole(h)) = Owes(h) \ {h.role}
           /\ \A at \in {"pid", "send"} : Owes([h EXCEPT !.at = at]) = Owes(h) \ {}
           /\ Owes([h EXCEPT !.at = "idle"]) = Owes(h) \ Roles
  BY DEF HookStates, Owes, AfterRole, Roles

\* The hook offers a packet, and it is not delivered.
LEMMA LoseFeed ==
    ASSUME NEW c \in Cpus, NEW R \in SUBSET Roles, NEW r \in R, r \in Owes(hook[c]),
           Todo' = [x \in Roles |-> IF x \in R THEN Todo[x] \ {hook[c].pkt} ELSE Todo[x]],
           Open' = Open, Fed' = Fed, captured' = captured
    PROVE  Feed!Next
  <1> DEFINE m == hook[c].pkt
  <1>1. m \in Todo[r]
    BY NotOfferedOwes DEF Todo
  <1> HIDE DEF m
  <1>2. m \in UNION {Todo[x] : x \in R}
    BY <1>1
  <1>3. Feed!Lose(R, m)
    BY DEF Feed!Lose, Feed!Offered, Todo, Open, Fed, m
  <1>4. \E S \in SUBSET Roles : \E n \in UNION {Todo[x] : x \in S} : Feed!Lose(S, n)
    BY <1>2, <1>3
  <1>5. QED
    BY <1>4 DEF Feed!Next, Todo

\* A new packet has to be offered to both roles.
LEMMA CaptureFeed ==
    ASSUME TypeInv, UNCHANGED uservars, NEW c \in Cpus, HookCapture(c)
    PROVE  Feed!Next
  <1>1. /\ hook \in [Cpus -> HookStates] /\ hook[c].at = "idle"
        /\ hook' = [hook EXCEPT ![c] = [at |-> "flag", role |-> "daemon", pkt |-> captured + 1]]
        /\ captured' = captured + 1
    BY DEF HookCapture, TypeInv, TypeOK, SnifferTypeOK
  <1>2. Open' = Open
    BY DEF HookCapture, uservars, Open, MayBeFed, Subscriber
  <1>3. Fed' = Fed
    <2>1. \A q \in Procs : Still(q)
      BY DEF HookCapture, sockvars, uservars, Still
    <2>2. QED
      BY <2>1, CarriedStill DEF Fed
  <1>4. ASSUME NEW r \in Roles PROVE NotOffered(r)' = NotOffered(r) \cup {captured + 1}
    <2> DEFINE C == {x \in Cpus : r \in Owes(hook[x])}
               D == {x \in Cpus : r \in Owes(hook'[x])}
    <2>1. NotOffered(r) = {hook[x].pkt : x \in C} /\ NotOffered(r)' = {hook'[x].pkt : x \in D}
      BY DEF NotOffered, Owes
    <2>2. D = C \cup {c} /\ c \notin C
      BY <1>1 DEF Owes
    <2>3. hook'[c].pkt = captured + 1 /\ \A x \in C : hook'[x].pkt = hook[x].pkt
      BY <1>1, <2>2
    <2> HIDE DEF C, D
    <2>4. QED
      BY <2>1, <2>2, <2>3
  <1>5. Todo' = [r \in Roles |-> Todo[r] \cup {captured + 1}]
    BY <1>4 DEF Todo
  <1>6. Feed!Capture
    BY <1>1, <1>2, <1>3, <1>5 DEF Feed!Capture, Todo, Open, Fed
  <1>7. QED
    BY <1>6 DEF Feed!Next

\* The hook passes over a role, sends to it, or goes on to the send.
LEMMA HookFeed ==
    ASSUME TypeInv, MemorySafe, RecordInv, FeedInv, UNCHANGED uservars,
           NEW c \in Cpus, packet_sniffer_hook(c)
    PROVE  [Feed!Next]_(Feed!feedvars)
  <1> DEFINE role == hook[c].role
             m == hook[c].pkt
             to == client_pid[role]
  <1>0. /\ hook \in [Cpus -> HookStates] /\ hook[c] \in HookStates /\ role \in Roles
        /\ m \in Messages
    BY DEF TypeInv, TypeOK, SnifferTypeOK, HookStates
  <1>1. /\ \A d \in Cpus \ {c} : hook'[d] = hook[d]
        /\ hook'[c].pkt = m /\ hook[c].at # "idle"
        /\ UNCHANGED captured
    BY HookGoesOn
  <1>2. Open' = Open
    BY DEF packet_sniffer_hook, HookFlag, HookPid, HookSend, uservars, Open, MayBeFed, Subscriber
  <1>3. role \in Owes(hook[c])
    BY <1>0, <1>1, AfterRoleOwes
  <1>4. CASE Fed' = Fed /\ hook'[c] = AfterRole(hook[c])
    <2>1. Todo' = [r \in Roles |-> IF r \in {role} THEN Todo[r] \ {m} ELSE Todo[r]]
      <3>1. Owes(hook'[c]) = Owes(hook[c]) \ {role} /\ {role} \in SUBSET Roles
        BY <1>0, <1>1, <1>4, AfterRoleOwes
      <3>2. QED
        BY <1>1, <3>1, OfferedTo
    <2>2. {role} \in SUBSET Roles
      BY <1>0
    <2>3. QED
      BY <1>1, <1>2, <1>3, <1>4, <2>1, <2>2, LoseFeed
  <1>5. CASE Fed' = Fed /\ hook'[c] = [hook[c] EXCEPT !.at = "idle"]
    <2>1. Todo' = [r \in Roles |-> IF r \in Roles THEN Todo[r] \ {m} ELSE Todo[r]]
      <3>1. Owes(hook'[c]) = Owes(hook[c]) \ Roles /\ Roles \in SUBSET Roles
        BY <1>0, <1>1, <1>5, AfterRoleOwes
      <3>2. QED
        BY <1>1, <3>1, OfferedTo
    <2>2. QED
      BY <1>0, <1>1, <1>2, <1>3, <1>5, <2>1, LoseFeed
  <1>6. CASE Fed' = Fed /\ \E at \in {"pid", "send"} : hook'[c] = [hook[c] EXCEPT !.at = at]
    <2>1. Todo' = [r \in Roles |-> IF r \in {} THEN Todo[r] \ {m} ELSE Todo[r]]
      <3>1. Owes(hook'[c]) = Owes(hook[c]) \ {} /\ {} \in SUBSET Roles
        BY <1>0, <1>1, <1>6, AfterRoleOwes
      <3>2. QED
        BY <1>1, <3>1, OfferedTo
    <2>2. Todo' = Todo
      BY <2>1 DEF Todo
    <2>3. QED
      BY <1>1, <1>2, <1>6, <2>2, FeedQuiet
  <1>7. CASE /\ to \in bound /\ Fed' = [Fed EXCEPT ![to] = Append(@, m)]
             /\ hook'[c] = AfterRole(hook[c])
    <2>1. Todo' = [r \in Roles |-> IF r \in {role} THEN Todo[r] \ {m} ELSE Todo[r]]
      <3>1. Owes(hook'[c]) = Owes(hook[c]) \ {role} /\ {role} \in SUBSET Roles
        BY <1>0, <1>1, <1>7, AfterRoleOwes
      <3>2. QED
        BY <1>1, <3>1, OfferedTo
    <2>2. m \in Todo[role]
      BY <1>0, <1>3, NotOfferedOwes DEF Todo
    <2>3. to \in Members(role) \cap Open
      BY <1>0, <1>7, RecordedMayBeFed DEF Open
    <2> HIDE DEF m, to, role
    <2>4. Feed!Deliver(role, m)
      BY <1>1, <1>2, <1>7, <2>1, <2>2, <2>3 DEF Feed!Deliver, Feed!Offered, Todo, Open, Fed
    <2>5. \E r \in Roles : \E n \in Todo[r] : Feed!Deliver(r, n)
      BY <1>0, <2>2, <2>4
    <2>6. QED
      BY <2>5 DEF Feed!Next, Todo
  <1>8. CASE HookFlag(c) \/ HookPid(c)
    <2>1. \A q \in Procs : Still(q)
      BY <1>8 DEF HookFlag, HookPid, sockvars, uservars, Still
    <2>2. Fed' = Fed
      BY <2>1, CarriedStill DEF Fed
    <2>3. \/ hook'[c] = AfterRole(hook[c])
          \/ \E at \in {"pid", "send"} : hook'[c] = [hook[c] EXCEPT !.at = at]
      BY <1>0, <1>8 DEF HookFlag, HookPid
    <2>4. QED
      BY <1>4, <1>6, <2>2, <2>3
  <1>9. CASE HookSend(c)
    <2>1. CASE send_packet_info_to_user(to, m) /\ hook' = [hook EXCEPT ![c] = AfterRole(@)]
      <3>1. hook'[c] = AfterRole(hook[c])
        BY <1>0, <2>1
      <3>2. \/ Fed' = Fed
            \/ to \in bound /\ Fed' = [Fed EXCEPT ![to] = Append(@, m)]
        BY <1>0, <2>1, SendFeed
      <3>3. QED
        BY <1>4, <1>7, <3>1, <3>2
    <2>2. CASE UNCHANGED rcvbuf /\ hook' = [hook EXCEPT ![c].at = "idle"]
      <3>1. hook'[c] = [hook[c] EXCEPT !.at = "idle"]
        BY <1>0, <2>2
      <3>2. \A q \in Procs : Still(q)
        BY <2>2 DEF uservars, Still
      <3>3. Fed' = Fed
        BY <3>2, CarriedStill DEF Fed
      <3>4. QED
        BY <1>5, <3>1, <3>3
    <2>3. QED
      BY <1>9, <2>1, <2>2 DEF HookSend
  <1>10. QED
    BY <1>8, <1>9 DEF packet_sniffer_hook

\* Every step is a step of the feed, or invisible to it.
LEMMA StepFeed ==
    TypeInv /\ MemorySafe /\ RecordInv /\ ExitInv /\ FeedInv /\ [Next]_vars
        => [Feed!Next]_(Feed!feedvars)
  <1> SUFFICES ASSUME TypeInv, MemorySafe, RecordInv, ExitInv, FeedInv, [Next]_vars
               PROVE  [Feed!Next]_(Feed!feedvars)
    OBVIOUS
  <1>1. CASE UNCHANGED <<queue, mem, lhand, mhand, rcvbuf, hookvars, mpc, handler>>
    <2>1. \A q \in Procs : Still(q)
      BY <1>1 DEF Still
    <2>2. Fed' = Fed
      BY <2>1, CarriedStill DEF Fed
    <2>3. Open' = Open
      BY <1>1 DEF Open, MayBeFed, Subscriber
    <2>4. Todo' = Todo /\ captured' = captured
      BY <1>1 DEF Todo, NotOffered, hookvars
    <2>5. QED
      BY <2>2, <2>3, <2>4, FeedQuiet
  <1>2. CASE UNCHANGED vars \/ \E d \in Daemons, h \in Hunters : CloseClient(d, h)
    BY <1>1, <1>2 DEF vars, kernelvars, sockvars, hookvars, uservars, CloseClient
  <1>3. CASE Kernel
    <2>1. UNCHANGED uservars
      BY <1>3 DEF Kernel
    <2>2. CASE sniffer_init \/ sniffer_exit
      BY <1>1, <2>1, <2>2 DEF sniffer_init, sniffer_exit, sockvars, hookvars, uservars
    <2>3. QED
      BY <1>3, <2>1, <2>2, CaptureFeed, HookFeed, HandlerFeed DEF Kernel
  <1>4. QED
    BY <1>2, <1>3, DaemonFeed, HunterFeed, ListenerFeed, EnvironmentFeed DEF Next

\* The hook on any number of CPUs, the receive buffers with their overruns, the
\* listeners, the queues and the two mains, with any number of processes and any
\* faults, are a feed: every packet is offered to each role once, reaches only a
\* process that is subscribed, and is handled in the order of its arrival;
\* nothing is duplicated or reordered on the way, and no stop message is taken
\* for a packet.
THEOREM FeedImplemented == Spec => ImplementsFeed
  <1>1. Init => FeedInv /\ Feed!Init
    <2> SUFFICES ASSUME Init PROVE FeedInv /\ Feed!Init
      OBVIOUS
    <2>1. /\ captured = 0 /\ \A c \in Cpus : hook[c].at = "idle"
          /\ \A p \in Procs : /\ mpc[p] = "unborn" /\ queue[p] = <<>> /\ rcvbuf[p] = <<>>
                              /\ lhand[p] = Nil /\ mhand[p] = Nil
      BY DEF Init, SnifferInit, ClientInit
    <2>2. FeedInv
      BY <2>1 DEF FeedInv, HookPackets, NoStop, QueueCells, Elems
    <2>3. Todo = [r \in Roles |-> {}]
      BY <2>1 DEF Todo, NotOffered
    <2>4. Open = {}
      BY <2>1 DEF Open, MayBeFed, Subscriber
    <2>5. ASSUME NEW p \in Procs PROVE Carried(p) = <<>>
      <3>1. HandSeq(p, lhand[p]) = <<>> /\ HandSeq(p, mhand[p]) = <<>> /\ QueueSeq(p) = <<>>
        BY <2>1 DEF HandSeq, QueueSeq
      <3>2. Carried(p) = ((HandSeq(p, mhand[p]) \o QueueSeq(p)) \o HandSeq(p, lhand[p])) \o rcvbuf[p]
        BY DEF Carried, HandSeq, QueueSeq
      <3>3. ((<<>> \o <<>>) \o <<>>) \o <<>> = <<>>
        OBVIOUS
      <3>4. QED
        BY <2>1, <3>1, <3>2, <3>3
    <2>6. Fed = [p \in Procs |-> <<>>]
      BY <2>5 DEF Fed
    <2>7. QED
      BY <2>1, <2>2, <2>3, <2>4, <2>6 DEF Feed!Init, Todo, Open, Fed
  <1>2. TypeInv /\ MemorySafe /\ FeedInv /\ [Next]_vars => FeedInv'
    BY StepFeedInv
  <1>3. QED
    BY <1>1, <1>2, StepFeed, TypeInvariant, MemorySafety, RecordInvariant, ExitInvariant, PTL
       DEF Spec, ImplementsFeed, Feed!Spec

=============================================================================
