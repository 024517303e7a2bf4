------------------------ MODULE NetLinkMemoryProofs ------------------------
(***************************************************************************)
(* Memory safety of both programs: every pckt_info has one owner, in every *)
(* reachable state of NetLinkSystem.                                       *)
(***************************************************************************)
EXTENDS NetLinkTypeProofs

\* What the elements of a queue are after push and pop.
LEMMA PushElems ==
    ASSUME NEW q \in Seq(Addrs), NEW a \in Addrs
    PROVE  Elems(Append(q, a)) = Elems(q) \cup {a}
  <1>1. /\ Len(Append(q, a)) = Len(q) + 1
        /\ \A i \in 1 .. Len(q) : Append(q, a)[i] = q[i]
        /\ Append(q, a)[Len(q) + 1] = a
    OBVIOUS
  <1>2. Len(q) \in Nat
    OBVIOUS
  <1>3. 1 .. (Len(q) + 1) = (1 .. Len(q)) \cup {Len(q) + 1}
    BY <1>2
  <1>4. QED
    BY <1>1, <1>3 DEF Elems

\* What is left in a queue after its first element is popped.
LEMMA PopElems ==
    ASSUME NEW q \in Seq(Addrs), q # <<>>,
           \A i, j \in 1 .. Len(q) : q[i] = q[j] => i = j
    PROVE  /\ Head(q) \in Elems(q)
           /\ Elems(Tail(q)) \subseteq Elems(q)
           /\ Head(q) \notin Elems(Tail(q))
           /\ \A i, j \in 1 .. Len(Tail(q)) : Tail(q)[i] = Tail(q)[j] => i = j
  <1>1. /\ Len(q) \in Nat \ {0}
        /\ Head(q) = q[1]
        /\ Len(Tail(q)) = Len(q) - 1
        /\ \A i \in 1 .. Len(Tail(q)) : Tail(q)[i] = q[i + 1]
    OBVIOUS
  <1>2. \A i \in 1 .. Len(Tail(q)) : i + 1 \in 1 .. Len(q) /\ i + 1 # 1
    BY <1>1
  <1>3. 1 \in 1 .. Len(q)
    BY <1>1
  <1>4. Head(q) \in Elems(q)
    BY <1>1, <1>3 DEF Elems
  <1>5. Elems(Tail(q)) \subseteq Elems(q)
    BY <1>1, <1>2 DEF Elems
  <1>6. Head(q) \notin Elems(Tail(q))
    BY <1>1, <1>2, <1>3 DEF Elems
  <1>7. ASSUME NEW i \in 1 .. Len(Tail(q)), NEW j \in 1 .. Len(Tail(q)), Tail(q)[i] = Tail(q)[j]
        PROVE  i = j
    <2>1. q[i + 1] = q[j + 1]
      BY <1>1, <1>7
    <2>2. i + 1 = j + 1
      BY <1>2, <2>1
    <2>3. QED
      BY <2>2, <1>1
  <1>8. QED
    BY <1>4, <1>5, <1>6, <1>7

\* A step that leaves what q reaches alone leaves q safe.
LEMMA OneOwnerFrame ==
    ASSUME NEW q \in Procs, OneOwner(q),
           queue'[q] = queue[q], mem'[q] = mem[q], lhand'[q] = lhand[q], mhand'[q] = mhand[q],
           StoredCells(q)' = StoredCells(q)
    PROVE  OneOwner(q)'
  BY DEF OneOwner, QueueCells, HandCells

\* A step of the kernel module or of the environment leaves memory safe.
LEMMA OutsideSafe ==
    ASSUME TypeInv, MemorySafe,
           \/ Kernel
           \/ \E p \in Procs : Environment(p)
           \/ \E d \in Daemons, h \in Hunters : CloseClient(d, h)
    PROVE  MemorySafe'
  <1>1. CASE UNCHANGED <<queue, mem, lhand, mhand, stored>>
    BY <1>1, OneOwnerFrame DEF MemorySafe, StoredCells
  <1>2. CASE \E p \in Procs : Reap(p)
    <2> PICK p \in Procs : Reap(p)
      BY <1>2
    <2> SUFFICES ASSUME NEW q \in Procs PROVE OneOwner(q)'
      BY DEF MemorySafe
    <2>1. CASE q = p
      <3>1. /\ queue'[p] = <<>>
            /\ lhand'[p] = Nil
            /\ mhand'[p] = Nil
            /\ StoredCells(p)' = {}
        BY DEF Reap, TypeInv, TypeOK, ClientTypeOK, HunterTypeOK, StoredCells
      <3>2. QueueCells(p)' = {} /\ HandCells(p)' = {}
        BY <3>1 DEF QueueCells, Elems, HandCells
      <3>3. QED
        BY <2>1, <3>1, <3>2 DEF OneOwner
    <2>2. CASE q # p
      BY <2>2, OneOwnerFrame DEF Reap, MemorySafe, TypeInv, TypeOK, ClientTypeOK, HunterTypeOK,
         StoredCells
    <2>3. QED
      BY <2>1, <2>2
  <1>3. QED
    BY <1>1, <1>2 DEF Kernel, Environment, handleSignal, Kill, CloseClient, uservars, huntervars

\* A step of process p that touches no other process only has to keep p safe.
LEMMA OnlyOne ==
    ASSUME MemorySafe, NEW p \in Procs, OneOwner(p)',
           \A q \in Procs \ {p} : /\ queue'[q] = queue[q]
                                  /\ mem'[q] = mem[q]
                                  /\ lhand'[q] = lhand[q]
                                  /\ mhand'[q] = mhand[q]
                                  /\ StoredCells(q)' = StoredCells(q)
    PROVE  MemorySafe'
  <1> SUFFICES ASSUME NEW q \in Procs PROVE OneOwner(q)'
    BY DEF MemorySafe
  <1>1. CASE q = p
    BY <1>1
  <1>2. CASE q # p
    BY <1>2, OneOwnerFrame DEF MemorySafe
  <1>3. QED
    BY <1>1, <1>2

\* A step of a listener thread leaves memory safe.
LEMMA ListenerSafe ==
    ASSUME TypeInv, MemorySafe, NEW p \in Procs, Listener(p)
    PROVE  MemorySafe'
  <1> USE DEF Listener, huntervars
  <1>0. OneOwner(p)
    BY DEF MemorySafe
  <1>1. CASE ListenerTest(p) \/ ReceiveError(p) \/ BadAlloc(p)
    BY <1>1, OneOwnerFrame DEF MemorySafe, StoredCells, ListenerTest, ReceiveError, BadAlloc
  <1>2. CASE receivePacketInfo(p)
    <2>1. PICK a \in Addrs : /\ mem[p][a] = Free
                             /\ mem' = [mem EXCEPT ![p][a] = Head(rcvbuf[p])]
                             /\ lhand' = [lhand EXCEPT ![p] = a]
      BY <1>2 DEF receivePacketInfo
    <2>2. Head(rcvbuf[p]) \in Messages
      BY <1>2 DEF receivePacketInfo, TypeInv, TypeOK, SnifferTypeOK
    <2>3. Head(rcvbuf[p]) # Free
      BY <2>2, SnifferAssumption DEF Messages, Packets, Stop, Free
    <2>4. a \notin QueueCells(p) \cup StoredCells(p) \cup HandCells(p)
      BY <1>0, <2>1 DEF OneOwner
    <2>5. /\ QueueCells(p)' = QueueCells(p)
          /\ StoredCells(p)' = StoredCells(p)
          /\ queue'[p] = queue[p]
          /\ mhand'[p] = mhand[p]
          /\ lhand'[p] = a
          /\ HandCells(p)' \subseteq HandCells(p) \cup {a}
      BY <1>2, <2>1 DEF receivePacketInfo, QueueCells, StoredCells, HandCells, TypeInv, TypeOK,
         ClientTypeOK
    <2>6. \A b \in Addrs : mem'[p][b] = IF b = a THEN Head(rcvbuf[p]) ELSE mem[p][b]
      BY <2>1 DEF TypeInv, TypeOK, ClientTypeOK
    <2>7. QueueCells(p) \cup StoredCells(p) \cup HandCells(p) \subseteq Addrs
      BY DEF TypeInv, TypeOK, ClientTypeOK, HunterTypeOK, QueueCells, Elems, StoredCells, HandCells
    <2>8. a # mhand[p]
      BY <2>4, NilAssumption DEF HandCells
    <2>9. OneOwner(p)'
      BY <1>0, <2>3, <2>4, <2>5, <2>6, <2>7, <2>8 DEF OneOwner
    <2>10. QED
      BY <1>2, <2>1, <2>9, OnlyOne DEF receivePacketInfo, StoredCells, TypeInv, TypeOK, ClientTypeOK
  <1>3. CASE ListenerDeliver(p)
    <2>1. lhand[p] \in Addrs /\ queue[p] \in Seq(Addrs) /\ lhand[p] # Nil
      BY <1>3, NilAssumption DEF ListenerDeliver, TypeInv, TypeOK, ClientTypeOK, HandsFull
    <2>2. /\ StoredCells(p)' = StoredCells(p)
          /\ mem' = mem
          /\ mhand' = mhand
          /\ lhand'[p] = Nil
          /\ HandCells(p)' = {mhand[p]} \ {Nil}
      BY <1>3 DEF ListenerDeliver, StoredCells, HandCells, TypeInv, TypeOK, ClientTypeOK
    <2>3. OneOwner(p)'
      <3>1. CASE queue' = queue
        BY <1>0, <2>2, <3>1 DEF OneOwner, QueueCells, HandCells
      <3>2. CASE queue' = [queue EXCEPT ![p] = Append(@, lhand[p])]
        <4>1. queue'[p] = Append(queue[p], lhand[p])
          BY <3>2 DEF TypeInv, TypeOK, ClientTypeOK
        <4>2. QueueCells(p)' = QueueCells(p) \cup {lhand[p]}
          BY <2>1, <4>1, PushElems DEF QueueCells
        <4>3. lhand[p] \notin QueueCells(p) \cup StoredCells(p)
          BY <1>0, <2>1 DEF OneOwner, HandCells
        <4>4. \A i, j \in 1 .. Len(queue'[p]) : queue'[p][i] = queue'[p][j] => i = j
          <5>1. /\ Len(queue'[p]) = Len(queue[p]) + 1
                /\ Len(queue[p]) \in Nat
                /\ \A i \in 1 .. Len(queue[p]) : queue'[p][i] = queue[p][i]
                /\ queue'[p][Len(queue[p]) + 1] = lhand[p]
            BY <2>1, <4>1
          <5>2. \A i \in 1 .. Len(queue[p]) : queue[p][i] # lhand[p]
            BY <4>3 DEF QueueCells, Elems
          <5>3. \A i \in 1 .. Len(queue'[p]) : i \in 1 .. Len(queue[p]) \/ i = Len(queue[p]) + 1
            BY <5>1
          <5>4. QED
            BY <1>0, <5>1, <5>2, <5>3 DEF OneOwner
        <4>5. mhand[p] # lhand[p]
          BY <1>0, <2>1 DEF OneOwner
        <4>6. QED
          BY <1>0, <2>1, <2>2, <4>2, <4>3, <4>4, <4>5 DEF OneOwner, HandCells
      <3>3. QED
        BY <1>3, <3>1, <3>2 DEF ListenerDeliver
    <2>4. QED
      BY <1>3, <2>3, OnlyOne DEF ListenerDeliver, StoredCells, TypeInv, TypeOK, ClientTypeOK
  <1>4. QED
    BY <1>1, <1>2, <1>3 DEF recvPacketInfoThread

\* A process that frees the cells S, and keeps no pointer to them, stays safe.
LEMMA FreeSafe ==
    ASSUME TypeInv, NEW p \in Procs, OneOwner(p), NEW S, FreeAll(p, S),
           queue'[p] \in {queue[p], <<>>},
           StoredCells(p)' \subseteq StoredCells(p),
           lhand'[p] = lhand[p],
           mhand'[p] \in {mhand[p], Nil},
           (QueueCells(p) \cup StoredCells(p) \cup HandCells(p))' \cap S = {}
    PROVE  OneOwner(p)'
  <1>1. \A a \in Addrs \ S : mem'[p][a] = mem[p][a]
    BY DEF FreeAll, TypeInv, TypeOK, ClientTypeOK
  <1>2. QueueCells(p) \cup StoredCells(p) \cup HandCells(p) \subseteq Addrs
    BY DEF TypeInv, TypeOK, ClientTypeOK, HunterTypeOK, QueueCells, Elems, StoredCells, HandCells
  <1>3. Elems(<<>>) = {}
    BY DEF Elems
  <1>4. QueueCells(p)' \subseteq QueueCells(p) /\ HandCells(p)' \subseteq HandCells(p)
    BY <1>3 DEF QueueCells, HandCells
  <1>5. \A i, j \in 1 .. Len(queue'[p]) : queue'[p][i] = queue'[p][j] => i = j
    BY DEF OneOwner
  <1>6. QED
    BY <1>1, <1>2, <1>4, <1>5 DEF OneOwner

\* A step of main that both programs have leaves memory safe.
LEMMA SharedSafe ==
    ASSUME TypeInv, MemorySafe, UNCHANGED huntervars, NEW p \in Procs, NEW next,
           \/ Spawn(p) \/ LeaveLoop(p) \/ Pop(p) \/ Unsubscribe(p) \/ Join(p)
           \/ cleanMessageQueue(p, next)
    PROVE  MemorySafe'
  <1>0. OneOwner(p)
    BY DEF MemorySafe
  <1>1. CASE Spawn(p) \/ LeaveLoop(p) \/ Unsubscribe(p) \/ Join(p)
    BY <1>1, OneOwnerFrame DEF MemorySafe, StoredCells, huntervars, Spawn, LeaveLoop, Unsubscribe,
       Join
  <1>2. CASE Pop(p)
    <2>1. queue[p] \in Seq(Addrs) /\ queue[p] # <<>>
      BY <1>2 DEF Pop, TypeInv, TypeOK, ClientTypeOK
    <2>2. /\ queue'[p] = Tail(queue[p])
          /\ mhand'[p] = Head(queue[p])
          /\ lhand'[p] = lhand[p]
          /\ mem'[p] = mem[p]
          /\ StoredCells(p)' = StoredCells(p)
      BY <1>2 DEF Pop, StoredCells, huntervars, TypeInv, TypeOK, ClientTypeOK
    <2>3. /\ Head(queue[p]) \in QueueCells(p)
          /\ QueueCells(p)' \subseteq QueueCells(p)
          /\ Head(queue[p]) \notin QueueCells(p)'
          /\ \A i, j \in 1 .. Len(queue'[p]) : queue'[p][i] = queue'[p][j] => i = j
      BY <1>0, <2>1, <2>2, PopElems DEF OneOwner, QueueCells
    <2>4. HandCells(p)' \subseteq HandCells(p) \cup {Head(queue[p])}
      BY <2>2 DEF HandCells
    <2>5. Head(queue[p]) # lhand[p] \/ lhand[p] = Nil
      BY <1>0, <2>3 DEF OneOwner, HandCells
    <2>6. lhand[p] # Nil => lhand[p] \in HandCells(p)
      BY DEF HandCells
    <2>7. HandCells(p)' \cap (QueueCells(p)' \cup StoredCells(p)') = {}
      BY <1>0, <2>2, <2>3, <2>4, <2>6 DEF OneOwner
    <2>8. OneOwner(p)'
      BY <1>0, <2>2, <2>3, <2>4, <2>5, <2>7 DEF OneOwner
    <2>9. QED
      BY <1>2, <2>8, OnlyOne DEF Pop, StoredCells, huntervars, TypeInv, TypeOK, ClientTypeOK
  <1>3. CASE cleanMessageQueue(p, next)
    <2>1. /\ queue'[p] = <<>>
          /\ lhand'[p] = lhand[p]
          /\ mhand'[p] = mhand[p]
          /\ StoredCells(p)' = StoredCells(p)
          /\ FreeAll(p, QueueCells(p))
      BY <1>3 DEF cleanMessageQueue, QueueCells, StoredCells, huntervars, TypeInv, TypeOK,
         ClientTypeOK
    <2>2. QueueCells(p)' = {} /\ HandCells(p)' = HandCells(p)
      BY <2>1 DEF QueueCells, Elems, HandCells
    <2>3. (QueueCells(p) \cup StoredCells(p) \cup HandCells(p))' \cap QueueCells(p) = {}
      BY <1>0, <2>1, <2>2 DEF OneOwner
    <2>4. OneOwner(p)'
      BY <1>0, <2>1, <2>3, FreeSafe
    <2>5. QED
      BY <1>3, <2>4, OnlyOne DEF cleanMessageQueue, FreeAll, StoredCells, huntervars, TypeInv,
         TypeOK, ClientTypeOK
  <1>4. QED
    BY <1>1, <1>2, <1>3

\* A step of the daemon's main leaves memory safe.
LEMMA DaemonSafe ==
    ASSUME TypeInv, MemorySafe, NEW d \in Daemons, DaemonStep(d)
    PROVE  MemorySafe'
  <1>0. d \in Procs /\ OneOwner(d)
    BY DEF Procs, MemorySafe
  <1>1. CASE \/ Spawn(d) \/ LeaveLoop(d) \/ Pop(d) \/ Unsubscribe(d) \/ Join(d)
             \/ cleanMessageQueue(d, "close")
    BY <1>0, <1>1, SharedSafe DEF DaemonStep
  <1>2. CASE UNCHANGED <<queue, mem, lhand, mhand>>
    BY <1>2, OneOwnerFrame DEF MemorySafe, StoredCells, DaemonStep, huntervars
  <1>3. CASE DHandle(d) /\ FreeAll(d, {mhand[d]}) /\ mhand' = [mhand EXCEPT ![d] = Nil]
    <2>1. /\ queue'[d] = queue[d]
          /\ lhand'[d] = lhand[d]
          /\ mhand'[d] = Nil
          /\ StoredCells(d)' = StoredCells(d)
      BY <1>0, <1>3 DEF DHandle, DaemonStep, StoredCells, huntervars, TypeInv, TypeOK, ClientTypeOK
    <2>2. QueueCells(d)' = QueueCells(d) /\ HandCells(d)' = {lhand[d]} \ {Nil}
      BY <2>1 DEF QueueCells, HandCells
    <2>3. mhand[d] # Nil
      BY <1>0, <1>3, NilAssumption DEF DHandle, TypeInv, HandsFull
    <2>4. (QueueCells(d) \cup StoredCells(d) \cup HandCells(d))' \cap {mhand[d]} = {}
      BY <1>0, <2>1, <2>2, <2>3 DEF OneOwner, HandCells
    <2>5. OneOwner(d)'
      BY <1>0, <1>3, <2>1, <2>4, FreeSafe
    <2>6. QED
      BY <1>0, <1>3, <2>5, OnlyOne DEF DHandle, DaemonStep, FreeAll, StoredCells, huntervars,
         TypeInv, TypeOK, ClientTypeOK
  <1>4. QED
    BY <1>1, <1>2, <1>3 DEF DaemonStep, DStart, DaemonMain, DConstruct, DSubscribe, DReinitialize,
       DHandle, DClose

\* A step of the hunter's main leaves memory safe.
LEMMA HunterSafe ==
    ASSUME TypeInv, MemorySafe, NEW h \in Hunters, HunterStep(h)
    PROVE  MemorySafe'
  <1>0. h \in Procs /\ OneOwner(h)
    BY DEF Procs, MemorySafe
  <1>1. CASE /\ \/ Spawn(h) \/ LeaveLoop(h) \/ Pop(h) \/ Unsubscribe(h) \/ Join(h)
                \/ cleanMessageQueue(h, "save")
             /\ UNCHANGED huntervars
    BY <1>0, <1>1, SharedSafe
  <1>2. CASE UNCHANGED <<queue, mem, lhand, mhand, stored>>
    BY <1>2, OneOwnerFrame DEF MemorySafe, StoredCells
  <1>3. CASE /\ UNCHANGED <<queue, mem, lhand, stored>>
             /\ mhand' = [mhand EXCEPT ![h] = Nil]
    <2>1. /\ StoredCells(h)' = StoredCells(h)
          /\ mhand'[h] = Nil
          /\ HandCells(h)' \subseteq HandCells(h)
          /\ QueueCells(h)' = QueueCells(h)
      BY <1>0, <1>3 DEF StoredCells, HandCells, QueueCells, TypeInv, TypeOK, ClientTypeOK
    <2>2. OneOwner(h)'
      BY <1>0, <1>3, <2>1 DEF OneOwner
    <2>3. QED
      BY <1>0, <1>3, <2>2, OnlyOne DEF StoredCells, TypeInv, TypeOK, ClientTypeOK
  <1>4. CASE /\ mpc[h] = "await"
             /\ UNCHANGED <<queue, mem, lhand>>
             /\ stored' = [stored EXCEPT ![h] = @ \cup {mhand[h]}]
             /\ mhand' = [mhand EXCEPT ![h] = Nil]
    <2>1. mhand[h] # Nil /\ mhand[h] \in HandCells(h)
      BY <1>0, <1>4, NilAssumption DEF TypeInv, HandsFull, HandCells
    <2>2. /\ StoredCells(h)' = StoredCells(h) \cup {mhand[h]}
          /\ mhand'[h] = Nil
          /\ HandCells(h)' = {lhand[h]} \ {Nil}
          /\ QueueCells(h)' = QueueCells(h)
      BY <1>0, <1>4 DEF StoredCells, HandCells, QueueCells, TypeInv, TypeOK, ClientTypeOK,
         HunterTypeOK
    <2>3. mhand[h] # lhand[h] /\ HandCells(h)' \subseteq HandCells(h)
      BY <1>0, <2>1, <2>2 DEF OneOwner, HandCells
    <2>4. OneOwner(h)'
      BY <1>0, <1>4, <2>1, <2>2, <2>3 DEF OneOwner
    <2>5. QED
      BY <1>0, <1>4, <2>4, OnlyOne DEF StoredCells, TypeInv, TypeOK, ClientTypeOK, HunterTypeOK
  <1>5. CASE /\ UNCHANGED <<queue, lhand, mhand>>
             /\ FreeAll(h, stored[h])
             /\ stored' = [stored EXCEPT ![h] = {}]
    <2>1. /\ StoredCells(h)' = {}
          /\ stored[h] = StoredCells(h)
          /\ HandCells(h)' = HandCells(h)
          /\ QueueCells(h)' = QueueCells(h)
      BY <1>5 DEF StoredCells, HandCells, QueueCells, TypeInv, TypeOK, HunterTypeOK
    <2>2. (QueueCells(h) \cup StoredCells(h) \cup HandCells(h))' \cap stored[h] = {}
      BY <1>0, <2>1 DEF OneOwner
    <2>3. OneOwner(h)'
      BY <1>0, <1>5, <2>1, <2>2, FreeSafe
    <2>4. QED
      BY <1>0, <1>5, <2>3, OnlyOne DEF FreeAll, StoredCells, TypeInv, TypeOK, ClientTypeOK,
         HunterTypeOK
  <1>6. QED
    BY <1>1, <1>2, <1>3, <1>4, <1>5 DEF HunterStep, HunterMain, HStart, HConstruct, HSubscribe,
       HSubscribed, HProbe, HHandle, sendPort, receivePid, insertPacketInfo, HSave, Drop, huntervars

\* Every pckt_info has one owner in every reachable state: neither program ever
\* reads or frees a cell that was freed, whatever the kernel delivers or drops
\* and wherever a signal, an early break or a crash finds it.
THEOREM MemorySafety == Spec => []MemorySafe
  <1>1. Init => MemorySafe
    BY DEF Init, ClientInit, HunterInit, MemorySafe, OneOwner, QueueCells, Elems, StoredCells,
       HandCells
  <1>2. TypeInv /\ MemorySafe /\ [Next]_vars => MemorySafe'
    <2> SUFFICES ASSUME TypeInv, MemorySafe, [Next]_vars PROVE MemorySafe'
      OBVIOUS
    <2>1. CASE UNCHANGED vars
      BY <2>1, OneOwnerFrame DEF vars, uservars, huntervars, MemorySafe, StoredCells
    <2>2. CASE Next
      BY <2>2, OutsideSafe, DaemonSafe, HunterSafe, ListenerSafe DEF Next
    <2>3. QED
      BY <2>1, <2>2
  <1>3. QED
    BY <1>1, <1>2, TypeInvariant, PTL DEF Spec

=============================================================================
