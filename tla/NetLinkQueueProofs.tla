------------------------- MODULE NetLinkQueueProofs -------------------------
(***************************************************************************)
(* What travels from the receive buffer through the listener's hand and    *)
(* the queue to main: it stays in the order of capture, and a daemon that  *)
(* ends has freed all of it.                                               *)
(***************************************************************************)
EXTENDS NetLinkMemoryProofs

\* The cells on their way to main.
Cells(p) == QueueCells(p) \cup HandCells(p)

-----------------------------------------------------------------------------
(* Clean exit: the invariant *)

\* Where the listener is follows from where main is: it is not there yet, or
\* has been joined.
Threads(p) ==
    /\ mpc[p] \in {"unborn", "ctor", "subscribe", "subscribing", "spawn"} => lpc[p] = "none"
    /\ mpc[p] \in {"clean", "save", "close"} => lpc[p] = "ended"
    /\ mpc[p] = "done" => lpc[p] \in {"none", "ended"}

\* When the hands and the queue are empty.
Empty(p) ==
    /\ lpc[p] # "deliver" => lhand[p] = Nil
    /\ lpc[p] = "none" => queue[p] = <<>>
    /\ mpc[p] \in {"save", "close", "done"} => queue[p] = <<>>
    /\ mpc[p] \notin {"handle", "query", "await", "aborted"} => mhand[p] = Nil

\* A daemon loses no packet's cell.
Reached(p) ==
    p \in Daemons => \A a \in Addrs : mem[p][a] \in {Free, Stop} \/ a \in Cells(p)

Exit(p) == Threads(p) /\ Empty(p) /\ Reached(p)

ExitInv == \A p \in Procs : Exit(p)

-----------------------------------------------------------------------------
(* Capture order: the invariant *)

\* The messages on their way to main, wherever they are.
Msgs(p) == {mem[p][a] : a \in Cells(p)} \cup {rcvbuf[p][i] : i \in 1 .. Len(rcvbuf[p])}

\* In the buffer, from the queue to the hand and the buffer, and so on.
BufferOrder(p) == \A i, j \in 1 .. Len(rcvbuf[p]) : i < j => Before(rcvbuf[p][i], rcvbuf[p][j])

QueueOrder(p) ==
    /\ \A i, j \in 1 .. Len(queue[p]) : i < j => Before(mem[p][queue[p][i]], mem[p][queue[p][j]])
    /\ \A a \in QueueCells(p) : \A j \in 1 .. Len(rcvbuf[p]) : Before(mem[p][a], rcvbuf[p][j])

ListenerOrder(p) ==
    lhand[p] # Nil =>
        /\ \A a \in QueueCells(p) : Before(mem[p][a], mem[p][lhand[p]])
        /\ \A j \in 1 .. Len(rcvbuf[p]) : Before(mem[p][lhand[p]], rcvbuf[p][j])

MainOrder(p) ==
    mhand[p] # Nil =>
        /\ \A a \in QueueCells(p) : Before(mem[p][mhand[p]], mem[p][a])
        /\ lhand[p] # Nil => Before(mem[p][mhand[p]], mem[p][lhand[p]])
        /\ \A j \in 1 .. Len(rcvbuf[p]) : Before(mem[p][mhand[p]], rcvbuf[p][j])

Ordered(p) == BufferOrder(p) /\ QueueOrder(p) /\ ListenerOrder(p) /\ MainOrder(p)

\* What has been sent is not newer than the packet in the hook's hand, and older
\* where that packet has still to be sent to.
HookOrder ==
    /\ \A p \in Procs : \A m \in Msgs(p) : m <= captured
    /\ \A c \in Cpus : hook[c].at # "idle" =>
          /\ hook[c].pkt = captured
          /\ captured > 0
          /\ \A r \in Roles : hook[c].role \in {r, "daemon"} =>
                \A p \in Members(r) : \A m \in Msgs(p) : m < captured

OrderInv == OneCpu => HookOrder /\ \A p \in Procs : Ordered(p)

-----------------------------------------------------------------------------
(* What a step can do to the messages of one process *)

Still(p) ==
    /\ queue'[p] = queue[p] /\ lhand'[p] = lhand[p] /\ mhand'[p] = mhand[p]
    /\ mem'[p] = mem[p] /\ rcvbuf'[p] = rcvbuf[p]

Sent(p, m) ==
    /\ queue'[p] = queue[p] /\ lhand'[p] = lhand[p] /\ mhand'[p] = mhand[p]
    /\ mem'[p] = mem[p] /\ rcvbuf'[p] = Append(rcvbuf[p], m)

Received(p, a) ==
    /\ rcvbuf[p] # <<>>
    /\ mem[p][a] = Free
    /\ mem'[p] = [mem[p] EXCEPT ![a] = Head(rcvbuf[p])]
    /\ lhand'[p] = a
    /\ rcvbuf'[p] = Tail(rcvbuf[p])
    /\ queue'[p] = queue[p] /\ mhand'[p] = mhand[p]

Delivered(p) ==
    /\ lhand[p] \in Addrs
    /\ lhand'[p] = Nil
    /\ \/ queue'[p] = queue[p] /\ mem[p][lhand[p]] = Stop
       \/ queue'[p] = Append(queue[p], lhand[p]) /\ mem[p][lhand[p]] # Stop
    /\ mem'[p] = mem[p] /\ mhand'[p] = mhand[p] /\ rcvbuf'[p] = rcvbuf[p]

Popped(p) ==
    /\ queue[p] # <<>>
    /\ mhand'[p] = Head(queue[p])
    /\ queue'[p] = Tail(queue[p])
    /\ mem'[p] = mem[p] /\ lhand'[p] = lhand[p] /\ rcvbuf'[p] = rcvbuf[p]

\* main lets go of its hand or of the queue; what it keeps is not written to.
Dropped(p) ==
    /\ queue'[p] \in {queue[p], <<>>}
    /\ mhand'[p] \in {mhand[p], Nil}
    /\ lhand'[p] = lhand[p] /\ rcvbuf'[p] = rcvbuf[p]
    /\ \A a \in Cells(p)' : mem'[p][a] = mem[p][a]

Reaped(p) ==
    /\ queue'[p] = <<>> /\ rcvbuf'[p] = <<>>
    /\ lhand'[p] = Nil /\ mhand'[p] = Nil

\* The types of what one process has.
LEMMA LocalTypes ==
    ASSUME TypeInv, NEW p \in Procs
    PROVE  /\ queue[p] \in Seq(Addrs) /\ Len(queue[p]) \in Nat
           /\ rcvbuf[p] \in Seq(Messages) /\ Len(rcvbuf[p]) \in Nat
           /\ mem[p] \in [Addrs -> Messages \cup {Free}]
           /\ lhand[p] \in Addrs \cup {Nil} /\ mhand[p] \in Addrs \cup {Nil}
           /\ QueueCells(p) \subseteq Addrs /\ HandCells(p) \subseteq Addrs
           /\ Cells(p) \subseteq Addrs
           /\ \A i \in 1 .. Len(queue[p]) : queue[p][i] \in QueueCells(p)
  BY DEF TypeInv, TypeOK, SnifferTypeOK, ClientTypeOK, QueueCells, HandCells, Elems, Cells

\* In the hand, or not there.
LEMMA HandFacts ==
    ASSUME NEW p \in Procs
    PROVE  /\ lhand[p] # Nil => lhand[p] \in HandCells(p)
           /\ mhand[p] # Nil => mhand[p] \in HandCells(p)
           /\ HandCells(p) \subseteq {lhand[p], mhand[p]}
  BY DEF HandCells

\* A step that leaves the messages of p alone keeps their order.
LEMMA StillOrder ==
    ASSUME NEW p \in Procs, Still(p)
    PROVE  /\ Ordered(p) => Ordered(p)'
           /\ Msgs(p)' = Msgs(p)
  BY DEF Still, Ordered, BufferOrder, QueueOrder, ListenerOrder, MainOrder, Msgs, Cells, QueueCells,
     HandCells

\* A send adds a message that is newer than all of p's.
LEMMA SentOrder ==
    ASSUME TypeInv, NEW p \in Procs, NEW m \in Messages, Sent(p, m), Ordered(p),
           \A x \in Msgs(p) : Before(x, m)
    PROVE  Ordered(p)' /\ Msgs(p)' = Msgs(p) \cup {m}
  <1>1. /\ Len(rcvbuf'[p]) = Len(rcvbuf[p]) + 1
        /\ \A i \in 1 .. Len(rcvbuf[p]) : rcvbuf'[p][i] = rcvbuf[p][i]
        /\ rcvbuf'[p][Len(rcvbuf[p]) + 1] = m
        /\ Len(rcvbuf[p]) \in Nat
    BY LocalTypes DEF Sent
  <1>2. \A i \in 1 .. Len(rcvbuf'[p]) : i \in 1 .. Len(rcvbuf[p]) \/ i = Len(rcvbuf[p]) + 1
    BY <1>1
  <1>3. /\ QueueCells(p)' = QueueCells(p) /\ HandCells(p)' = HandCells(p)
        /\ Cells(p)' = Cells(p)
    BY DEF Sent, QueueCells, HandCells, Cells
  <1>4. /\ \A a \in Cells(p) : Before(mem[p][a], m)
        /\ \A i \in 1 .. Len(rcvbuf[p]) : Before(rcvbuf[p][i], m)
    BY DEF Msgs
  <1>5. Msgs(p)' = Msgs(p) \cup {m}
    <2>1. {rcvbuf'[p][i] : i \in 1 .. Len(rcvbuf'[p])}
            = {rcvbuf[p][i] : i \in 1 .. Len(rcvbuf[p])} \cup {m}
      BY <1>1, <1>2
    <2>2. QED
      BY <1>3, <2>1 DEF Msgs, Sent
  <1>6. BufferOrder(p)'
    BY <1>1, <1>2, <1>4 DEF BufferOrder, Ordered
  <1>7. QueueOrder(p)'
    BY <1>1, <1>2, <1>3, <1>4 DEF QueueOrder, Ordered, Sent, Cells
  <1>8. ListenerOrder(p)' /\ MainOrder(p)'
    BY <1>1, <1>2, <1>3, <1>4, HandFacts DEF ListenerOrder, MainOrder, Ordered, Sent, Cells
  <1>9. QED
    BY <1>5, <1>6, <1>7, <1>8 DEF Ordered

\* receivePacketInfo moves the oldest of the buffer into a cell that was free.
LEMMA ReceivedOrder ==
    ASSUME TypeInv, NEW p \in Procs, OneOwner(p), NEW a \in Addrs, Received(p, a), Ordered(p)
    PROVE  Ordered(p)' /\ Msgs(p)' \subseteq Msgs(p)
  <1>1. /\ Len(rcvbuf'[p]) = Len(rcvbuf[p]) - 1
        /\ \A i \in 1 .. Len(rcvbuf'[p]) : rcvbuf'[p][i] = rcvbuf[p][i + 1]
        /\ Head(rcvbuf[p]) = rcvbuf[p][1]
        /\ Len(rcvbuf[p]) \in Nat \ {0}
    BY LocalTypes DEF Received
  <1>2. /\ 1 \in 1 .. Len(rcvbuf[p])
        /\ \A i \in 1 .. Len(rcvbuf'[p]) : i + 1 \in 1 .. Len(rcvbuf[p]) /\ 1 < i + 1
        /\ \A i, j \in 1 .. Len(rcvbuf'[p]) : i < j => i + 1 < j + 1
    BY <1>1
  <1>3. a \notin Cells(p)
    BY DEF Received, OneOwner, Cells
  <1>4. /\ \A b \in Cells(p) : mem'[p][b] = mem[p][b]
        /\ mem'[p][a] = rcvbuf[p][1]
    BY <1>1, <1>3, LocalTypes DEF Received
  <1>5. /\ QueueCells(p)' = QueueCells(p)
        /\ Cells(p)' \subseteq Cells(p) \cup {a}
        /\ lhand'[p] = a /\ mhand'[p] = mhand[p] /\ queue'[p] = queue[p]
    BY DEF Received, QueueCells, HandCells, Cells
  <1>6. Msgs(p)' \subseteq Msgs(p)
    BY <1>1, <1>2, <1>4, <1>5 DEF Msgs
  <1>7. BufferOrder(p)'
    BY <1>1, <1>2 DEF BufferOrder, Ordered
  <1>8. QueueOrder(p)'
    BY <1>1, <1>2, <1>4, <1>5, LocalTypes DEF QueueOrder, Ordered, Cells
  <1>9. ListenerOrder(p)'
    BY <1>1, <1>2, <1>4, <1>5 DEF ListenerOrder, QueueOrder, BufferOrder, Ordered, Cells
  <1>10. MainOrder(p)'
    <2> SUFFICES ASSUME mhand[p] # Nil
                 PROVE  /\ \A b \in QueueCells(p) : Before(mem'[p][mhand[p]], mem'[p][b])
                        /\ Before(mem'[p][mhand[p]], mem'[p][a])
                        /\ \A j \in 1 .. Len(rcvbuf'[p]) : Before(mem'[p][mhand[p]], rcvbuf'[p][j])
      BY <1>5 DEF MainOrder
    <2>1. mem'[p][mhand[p]] = mem[p][mhand[p]]
      BY <1>4, HandFacts DEF Cells
    <2>2. \A j \in 1 .. Len(rcvbuf[p]) : Before(mem[p][mhand[p]], rcvbuf[p][j])
      BY DEF Ordered, MainOrder
    <2>3. \A b \in QueueCells(p) : Before(mem[p][mhand[p]], mem[p][b]) /\ mem'[p][b] = mem[p][b]
      BY <1>4 DEF Ordered, MainOrder, Cells
    <2>4. QED
      BY <1>1, <1>2, <1>4, <2>1, <2>2, <2>3
  <1>11. QED
    BY <1>6, <1>7, <1>8, <1>9, <1>10 DEF Ordered

\* The listener pushes what it has behind the queue, or drops it.
LEMMA DeliveredOrder ==
    ASSUME TypeInv, NEW p \in Procs, Delivered(p), Ordered(p)
    PROVE  Ordered(p)' /\ Msgs(p)' \subseteq Msgs(p)
  <1>0. /\ lhand[p] # Nil /\ lhand[p] \in HandCells(p)
        /\ HandCells(p)' \subseteq HandCells(p)
    BY NilAssumption DEF Delivered, HandCells
  <1>1. CASE queue'[p] = queue[p]
    <2>1. QueueCells(p)' = QueueCells(p) /\ Cells(p)' \subseteq Cells(p)
      BY <1>0, <1>1 DEF QueueCells, Cells
    <2>2. Msgs(p)' \subseteq Msgs(p)
      BY <2>1 DEF Msgs, Delivered
    <2>3. QED
      BY <1>1, <2>1, <2>2
         DEF Delivered, Ordered, BufferOrder, QueueOrder, ListenerOrder, MainOrder
  <1>2. CASE queue'[p] = Append(queue[p], lhand[p])
    <2>1. /\ Len(queue'[p]) = Len(queue[p]) + 1
          /\ \A i \in 1 .. Len(queue[p]) : queue'[p][i] = queue[p][i]
          /\ queue'[p][Len(queue[p]) + 1] = lhand[p]
          /\ Len(queue[p]) \in Nat
      BY <1>0, <1>2, LocalTypes DEF Delivered
    <2>2. \A i \in 1 .. Len(queue'[p]) : i \in 1 .. Len(queue[p]) \/ i = Len(queue[p]) + 1
      BY <2>1
    <2>3. QueueCells(p)' = QueueCells(p) \cup {lhand[p]}
      BY <1>2, LocalTypes, PushElems DEF QueueCells, Delivered
    <2>4. Cells(p)' \subseteq Cells(p)
      BY <1>0, <2>3 DEF Cells
    <2>5. Msgs(p)' \subseteq Msgs(p)
      BY <2>4 DEF Msgs, Delivered
    <2>6. BufferOrder(p)'
      BY DEF Ordered, BufferOrder, Delivered
    <2>7. QueueOrder(p)'
      <3>1. /\ \A i \in 1 .. Len(queue[p]) : Before(mem[p][queue[p][i]], mem[p][lhand[p]])
            /\ \A i, j \in 1 .. Len(queue[p]) :
                  i < j => Before(mem[p][queue[p][i]], mem[p][queue[p][j]])
        BY <1>0, LocalTypes DEF Ordered, QueueOrder, ListenerOrder
      <3>2. \A i, j \in 1 .. Len(queue'[p]) :
                i < j => Before(mem[p][queue'[p][i]], mem[p][queue'[p][j]])
        <4> TAKE i, j \in 1 .. Len(queue'[p])
        <4> HAVE i < j
        <4>1. i \in 1 .. Len(queue[p]) /\ queue'[p][i] = queue[p][i]
          BY <2>1, <2>2
        <4>2. CASE j \in 1 .. Len(queue[p])
          BY <2>1, <3>1, <4>1, <4>2
        <4>3. CASE j = Len(queue[p]) + 1
          BY <2>1, <3>1, <4>1, <4>3
        <4>4. QED
          BY <2>2, <4>2, <4>3
      <3>3. \A b \in QueueCells(p)' : \A j \in 1 .. Len(rcvbuf[p]) : Before(mem[p][b], rcvbuf[p][j])
        BY <1>0, <2>3 DEF Ordered, QueueOrder, ListenerOrder
      <3>4. QED
        BY <3>2, <3>3 DEF QueueOrder, Delivered
    <2>8. ListenerOrder(p)' /\ MainOrder(p)'
      BY <1>0, <2>3 DEF Ordered, ListenerOrder, MainOrder, Delivered
    <2>9. QED
      BY <2>5, <2>6, <2>7, <2>8 DEF Ordered
  <1>3. QED
    BY <1>1, <1>2 DEF Delivered

\* main takes the oldest of the queue.
LEMMA PoppedOrder ==
    ASSUME TypeInv, NEW p \in Procs, OneOwner(p), Popped(p), Ordered(p)
    PROVE  Ordered(p)' /\ Msgs(p)' \subseteq Msgs(p)
  <1>1. /\ Len(queue'[p]) = Len(queue[p]) - 1
        /\ \A i \in 1 .. Len(queue'[p]) : queue'[p][i] = queue[p][i + 1]
        /\ mhand'[p] = queue[p][1]
        /\ Len(queue[p]) \in Nat \ {0}
    BY LocalTypes DEF Popped
  <1>2. /\ 1 \in 1 .. Len(queue[p])
        /\ \A i \in 1 .. Len(queue'[p]) : i + 1 \in 1 .. Len(queue[p]) /\ 1 < i + 1
        /\ \A i, j \in 1 .. Len(queue'[p]) : i < j => i + 1 < j + 1
    BY <1>1
  <1>3. queue[p][1] \in QueueCells(p) /\ QueueCells(p)' \subseteq QueueCells(p)
    BY <1>1, <1>2, LocalTypes DEF QueueCells, Elems
  <1>4. Cells(p)' \subseteq Cells(p)
    BY <1>1, <1>3 DEF Cells, HandCells, Popped
  <1>5. Msgs(p)' \subseteq Msgs(p)
    BY <1>4 DEF Msgs, Popped
  <1>6. BufferOrder(p)'
    BY DEF Ordered, BufferOrder, Popped
  <1>7. QueueOrder(p)'
    BY <1>1, <1>2, <1>3 DEF Ordered, QueueOrder, Popped
  <1>8. ListenerOrder(p)'
    BY <1>3 DEF Ordered, ListenerOrder, Popped
  <1>9. \A b \in QueueCells(p)' : Before(mem[p][queue[p][1]], mem[p][b])
    BY <1>1, <1>2 DEF Ordered, QueueOrder, QueueCells, Elems
  <1>10. MainOrder(p)'
    BY <1>1, <1>3, <1>9 DEF Ordered, QueueOrder, ListenerOrder, MainOrder, Popped
  <1>11. QED
    BY <1>5, <1>6, <1>7, <1>8, <1>10 DEF Ordered

\* main lets go of messages.
LEMMA DroppedOrder ==
    ASSUME TypeInv, NEW p \in Procs, Dropped(p), Ordered(p)
    PROVE  Ordered(p)' /\ Msgs(p)' \subseteq Msgs(p)
  <1>0. Len(<<>>) = 0 /\ Elems(<<>>) = {}
    BY DEF Elems
  <1>1. /\ QueueCells(p)' \subseteq QueueCells(p)
        /\ HandCells(p)' \subseteq HandCells(p)
        /\ Cells(p)' \subseteq Cells(p)
    BY <1>0 DEF Dropped, QueueCells, HandCells, Cells
  <1>2. \A a \in Cells(p)' : mem'[p][a] = mem[p][a]
    BY DEF Dropped
  <1>3. Msgs(p)' \subseteq Msgs(p)
    BY <1>1, <1>2 DEF Msgs, Dropped
  <1>4. BufferOrder(p)'
    BY DEF Ordered, BufferOrder, Dropped
  <1>5. /\ \A a \in QueueCells(p)' : mem'[p][a] = mem[p][a]
        /\ lhand'[p] # Nil => mem'[p][lhand'[p]] = mem[p][lhand[p]]
        /\ mhand'[p] # Nil => mhand'[p] = mhand[p] /\ mem'[p][mhand'[p]] = mem[p][mhand[p]]
    BY <1>2 DEF Cells, HandCells, Dropped
  <1>6. QueueOrder(p)'
    <2>1. CASE queue'[p] = <<>>
      BY <1>0, <2>1 DEF QueueOrder, QueueCells
    <2>2. CASE queue'[p] = queue[p]
      <3>1. \A i \in 1 .. Len(queue[p]) : queue[p][i] \in QueueCells(p)'
        BY <2>2 DEF QueueCells, Elems
      <3>2. QED
        BY <1>1, <1>5, <2>2, <3>1 DEF Ordered, QueueOrder, Dropped
    <2>3. QED
      BY <2>1, <2>2 DEF Dropped
  <1>7. ListenerOrder(p)' /\ MainOrder(p)'
    BY <1>1, <1>5 DEF Ordered, ListenerOrder, MainOrder, Dropped
  <1>8. QED
    BY <1>3, <1>4, <1>6, <1>7 DEF Ordered

\* The end of a process leaves no message.
LEMMA ReapedOrder ==
    ASSUME NEW p \in Procs, Reaped(p)
    PROVE  Ordered(p)' /\ Msgs(p)' = {}
  <1>1. QueueCells(p)' = {} /\ HandCells(p)' = {} /\ Len(rcvbuf'[p]) = 0 /\ Len(queue'[p]) = 0
    BY DEF Reaped, QueueCells, Elems, HandCells
  <1>2. QED
    BY <1>1 DEF Reaped, Ordered, BufferOrder, QueueOrder, ListenerOrder, MainOrder, Msgs, Cells

\* What a step of the two programs can do to the messages of p.
Moved(p) ==
    \/ Still(p)
    \/ \E a \in Addrs : Received(p, a)
    \/ Delivered(p)
    \/ Popped(p)
    \/ Dropped(p)
    \/ Reaped(p)

\* No move of the programs disturbs the order or adds a message.
LEMMA MovedOrder ==
    ASSUME TypeInv, NEW p \in Procs, OneOwner(p), Moved(p), Ordered(p)
    PROVE  Ordered(p)' /\ Msgs(p)' \subseteq Msgs(p)
  BY StillOrder, ReceivedOrder, DeliveredOrder, PoppedOrder, DroppedOrder, ReapedOrder DEF Moved

-----------------------------------------------------------------------------
(* What each step does to the messages of each process *)

\* The listener receives, delivers, or leaves the messages alone.
LEMMA ListenerMoves ==
    ASSUME TypeInv, NEW p \in Procs, Listener(p), NEW q \in Procs
    PROVE  Moved(q) /\ UNCHANGED hookvars
  <1> USE DEF TypeInv, TypeOK, SnifferTypeOK, ClientTypeOK
  <1>1. CASE ListenerTest(p) \/ ReceiveError(p) \/ BadAlloc(p)
    BY <1>1 DEF ListenerTest, ReceiveError, BadAlloc, kernelvars, sockvars, Moved, Still
  <1>2. CASE receivePacketInfo(p)
    <2>1. PICK a \in Addrs : /\ mem[p][a] = Free
                             /\ mem' = [mem EXCEPT ![p][a] = Head(rcvbuf[p])]
                             /\ lhand' = [lhand EXCEPT ![p] = a]
      BY <1>2 DEF receivePacketInfo
    <2>2. CASE q = p
      <3>1. Received(p, a)
        BY <1>2, <2>1 DEF receivePacketInfo, Received
      <3>2. QED
        BY <1>2, <2>2, <3>1 DEF Moved, receivePacketInfo
    <2>3. CASE q # p
      BY <1>2, <2>1, <2>3 DEF receivePacketInfo, Moved, Still
    <2>4. QED
      BY <2>2, <2>3
  <1>3. CASE ListenerDeliver(p)
    <2>1. lhand[p] \in Addrs
      BY <1>3 DEF ListenerDeliver, HandsFull
    <2>2. CASE q = p
      <3>1. Delivered(p)
        BY <1>3, <2>1 DEF ListenerDeliver, Delivered, kernelvars, sockvars
      <3>2. QED
        BY <1>3, <2>2, <3>1 DEF Moved, ListenerDeliver, kernelvars
    <2>3. CASE q # p
      BY <1>3, <2>3 DEF ListenerDeliver, Moved, Still, kernelvars, sockvars
    <2>4. QED
      BY <2>2, <2>3
  <1>4. QED
    BY <1>1, <1>2, <1>3 DEF Listener, recvPacketInfoThread

\* main frees cells that it no longer reaches through its queue or hands.
LEMMA FreeDrops ==
    ASSUME TypeInv, NEW p \in Procs, NEW q \in Procs, NEW S, FreeAll(p, S),
           queue' = queue \/ queue' = [queue EXCEPT ![p] = <<>>],
           mhand' = mhand \/ mhand' = [mhand EXCEPT ![p] = Nil],
           Cells(p)' \cap S = {},
           UNCHANGED <<lhand, rcvbuf>>
    PROVE  Moved(q)
  <1> USE DEF TypeInv, TypeOK, ClientTypeOK
  <1>1. CASE q = p
    <2>1. \A a \in Addrs \ S : mem'[p][a] = mem[p][a]
      BY DEF FreeAll
    <2>2. Len(<<>>) = 0 /\ Elems(<<>>) = {}
      BY DEF Elems
    <2>3. queue'[p] \in {queue[p], <<>>} /\ mhand'[p] \in {mhand[p], Nil}
      OBVIOUS
    <2>4. Cells(p)' \subseteq Cells(p)
      BY <2>2, <2>3 DEF Cells, QueueCells, HandCells
    <2>5. Dropped(p)
      BY <2>1, <2>3, <2>4, LocalTypes DEF Dropped
    <2>6. QED
      BY <1>1, <2>5 DEF Moved
  <1>2. CASE q # p
    BY <1>2 DEF FreeAll, Moved, Still
  <1>3. QED
    BY <1>1, <1>2

\* A step of main that both programs have pops, empties the queue, or leaves
\* the messages alone.
LEMMA SharedMoves ==
    ASSUME TypeInv, MemorySafe, NEW p \in Procs, NEW next, NEW q \in Procs,
           \/ Spawn(p) \/ LeaveLoop(p) \/ Pop(p) \/ Unsubscribe(p) \/ Join(p)
           \/ cleanMessageQueue(p, next)
    PROVE  Moved(q) /\ UNCHANGED hookvars
  <1> USE DEF kernelvars, sockvars
  <1>1. CASE Spawn(p) \/ LeaveLoop(p) \/ Unsubscribe(p) \/ Join(p)
    BY <1>1 DEF Spawn, LeaveLoop, Unsubscribe, Join, Moved, Still
  <1>2. CASE Pop(p)
    <2>1. CASE q = p
      BY <1>2, <2>1 DEF Pop, Moved, Popped, TypeInv, TypeOK, ClientTypeOK
    <2>2. CASE q # p
      BY <1>2, <2>2 DEF Pop, Moved, Still, TypeInv, TypeOK, ClientTypeOK
    <2>3. QED
      BY <1>2, <2>1, <2>2 DEF Pop
  <1>3. CASE cleanMessageQueue(p, next)
    <2>1. queue'[p] = <<>> /\ HandCells(p)' = HandCells(p)
      BY <1>3 DEF cleanMessageQueue, HandCells, TypeInv, TypeOK, ClientTypeOK
    <2>2. Cells(p)' \cap Elems(queue[p]) = {}
      BY <2>1 DEF Cells, QueueCells, Elems, MemorySafe, OneOwner
    <2>3. Moved(q)
      BY <1>3, <2>2, FreeDrops DEF cleanMessageQueue
    <2>4. QED
      BY <1>3, <2>3 DEF cleanMessageQueue
  <1>4. QED
    BY <1>1, <1>2, <1>3

\* A step of the daemon's main.
LEMMA DaemonMoves ==
    ASSUME TypeInv, MemorySafe, NEW d \in Daemons, DaemonStep(d), NEW q \in Procs
    PROVE  Moved(q) /\ UNCHANGED hookvars
  <1> USE DEF kernelvars, sockvars
  <1>0. d \in Procs
    BY DEF Procs
  <1>1. CASE \/ Spawn(d) \/ LeaveLoop(d) \/ Pop(d) \/ Unsubscribe(d) \/ Join(d)
             \/ cleanMessageQueue(d, "close")
    BY <1>0, <1>1, SharedMoves
  <1>2. CASE DHandle(d)
    <2>1. CASE FreeAll(d, {mhand[d]}) /\ mhand' = [mhand EXCEPT ![d] = Nil]
      <3>1. mhand[d] # Nil
        BY <1>0, <1>2, NilAssumption DEF DHandle, TypeInv, HandsFull
      <3>2. HandCells(d)' = {lhand[d]} \ {Nil} /\ QueueCells(d)' = QueueCells(d)
        BY <1>0, <1>2, <2>1 DEF DHandle, HandCells, QueueCells, TypeInv, TypeOK, ClientTypeOK
      <3>3. Cells(d)' \cap {mhand[d]} = {}
        BY <1>0, <3>1, <3>2 DEF Cells, MemorySafe, OneOwner, HandCells
      <3>4. QED
        BY <1>0, <1>2, <2>1, <3>3, FreeDrops DEF DHandle
    <2>2. CASE UNCHANGED <<mem, mhand>>
      BY <1>2, <2>2 DEF DHandle, Moved, Still
    <2>3. QED
      BY <1>2, <2>1, <2>2 DEF DHandle
  <1>3. CASE DStart(d) \/ DConstruct(d) \/ DSubscribe(d) \/ DReinitialize(d) \/ DClose(d)
    BY <1>3 DEF DStart, DConstruct, OpenSocket, DSubscribe, DReinitialize, DClose, Moved, Still
  <1>4. QED
    BY <1>1, <1>2, <1>3 DEF DaemonStep, DaemonMain

\* A step of the hunter's main.
LEMMA HunterMoves ==
    ASSUME TypeInv, MemorySafe, NEW h \in Hunters, HunterStep(h), NEW q \in Procs
    PROVE  Moved(q) /\ UNCHANGED hookvars
  <1> USE DEF kernelvars, sockvars
  <1>0. h \in Procs
    BY DEF Procs
  <1>1. CASE \/ Spawn(h) \/ LeaveLoop(h) \/ Pop(h) \/ Unsubscribe(h) \/ Join(h)
             \/ cleanMessageQueue(h, "save")
    BY <1>0, <1>1, SharedMoves
  <1>2. CASE \/ HStart(h) \/ HConstruct(h) \/ HSubscribe(h) \/ HSubscribed(h) \/ HProbe(h)
    BY <1>2 DEF HStart, HConstruct, OpenSocket, HSubscribe, HSubscribed, HProbe, Moved, Still
  <1>3. CASE HHandle(h) \/ sendPort(h) \/ receivePid(h)
    <2>1. /\ UNCHANGED <<queue, mem, lhand, rcvbuf, hookvars>>
          /\ mhand' = mhand \/ mhand' = [mhand EXCEPT ![h] = Nil]
      BY <1>3 DEF HHandle, sendPort, receivePid, Drop
    <2>2. Moved(q)
      BY <1>0, <2>1 DEF Moved, Still, Dropped, TypeInv, TypeOK, ClientTypeOK
    <2>3. QED
      BY <2>1, <2>2
  <1>4. CASE HSave(h)
    <2>1. CASE FreeAll(h, stored[h])
      <3>1. Cells(h)' = Cells(h)
        BY <1>4 DEF HSave, Cells, QueueCells, HandCells
      <3>2. Cells(h)' \cap stored[h] = {}
        BY <1>0, <3>1 DEF Cells, MemorySafe, OneOwner, StoredCells
      <3>3. QED
        BY <1>0, <1>4, <2>1, <3>2, FreeDrops DEF HSave
    <2>2. CASE UNCHANGED mem
      BY <1>4, <2>2 DEF HSave, Moved, Still
    <2>3. QED
      BY <1>4, <2>1, <2>2 DEF HSave
  <1>5. QED
    BY <1>1, <1>2, <1>3, <1>4 DEF HunterStep, HunterMain

\* Signals and kills leave the messages alone; the end of a process takes them.
LEMMA EnvironmentMoves ==
    ASSUME TypeInv,
           \/ \E p \in Procs : Environment(p)
           \/ \E d \in Daemons, h \in Hunters : CloseClient(d, h),
           NEW q \in Procs
    PROVE  Moved(q) /\ UNCHANGED hookvars
  <1> USE DEF kernelvars, sockvars, uservars
  <1>1. CASE UNCHANGED <<queue, mem, lhand, mhand, rcvbuf, hookvars>>
    BY <1>1 DEF Moved, Still
  <1>2. CASE \E p \in Procs : Reap(p)
    <2> PICK p \in Procs : Reap(p)
      BY <1>2
    <2>1. Reaped(q) \/ Still(q)
      BY DEF Reap, Reaped, Still, TypeInv, TypeOK, SnifferTypeOK, ClientTypeOK
    <2>2. QED
      BY <2>1 DEF Moved, Reap
  <1>3. QED
    BY <1>1, <1>2 DEF Environment, handleSignal, Kill, CloseClient

\* A send by the kernel module adds the message to one buffer, or is lost.
LEMMA SendMoves ==
    ASSUME TypeInv, UNCHANGED uservars, NEW to, NEW m,
           \/ send_packet_info_to_user(to, m)
           \/ UNCHANGED rcvbuf,
           NEW q \in Procs
    PROVE  Still(q) \/ (q = to /\ Sent(q, m))
  <1>1. CASE UNCHANGED rcvbuf
    BY <1>1 DEF Still, uservars
  <1>2. CASE to \in bound /\ rcvbuf' = [rcvbuf EXCEPT ![to] = Append(@, m)]
    BY <1>2 DEF Still, Sent, uservars, TypeInv, TypeOK, SnifferTypeOK
  <1>3. QED
    BY <1>1, <1>2 DEF send_packet_info_to_user, netlink_unicast

-----------------------------------------------------------------------------
(* Capture order *)

\* Messages are numbers, and so is what is in a cell that has an owner.
LEMMA MsgTypes ==
    ASSUME TypeInv, NEW p \in Procs, OneOwner(p)
    PROVE  Msgs(p) \subseteq Messages
  <1>1. \A a \in Cells(p) : mem[p][a] \in Messages
    BY LocalTypes DEF OneOwner, Cells
  <1>2. \A i \in 1 .. Len(rcvbuf[p]) : rcvbuf[p][i] \in Messages
    BY LocalTypes
  <1>3. QED
    BY <1>1, <1>2 DEF Msgs

\* A step that adds no message and leaves the hook alone.
LEMMA MovedAll ==
    ASSUME TypeInv, MemorySafe, OrderInv, UNCHANGED hookvars, \A p \in Procs : Moved(p)
    PROVE  OrderInv'
  <1> SUFFICES ASSUME OneCpu PROVE HookOrder' /\ \A p \in Procs : Ordered(p)'
    BY DEF OrderInv
  <1>1. \A p \in Procs : Ordered(p)' /\ Msgs(p)' \subseteq Msgs(p)
    BY MovedOrder DEF OrderInv, MemorySafe
  <1>2. HookOrder'
    <2>1. HookOrder /\ \A r \in Roles : Members(r) \subseteq Procs
      BY DEF OrderInv, Members, Procs
    <2>2. QED
      BY <1>1, <2>1 DEF HookOrder, hookvars
  <1>3. QED
    BY <1>1, <1>2

\* nl_recv_msg sends no packet, only the stop message.
LEMMA HandlerOrder ==
    ASSUME TypeInv, MemorySafe, OrderInv, UNCHANGED uservars, NEW p \in Procs, nl_recv_msg(p)
    PROVE  OrderInv'
  <1>1. CASE UNCHANGED <<hookvars, sockvars>>
    BY <1>1, MovedAll DEF sockvars, uservars, Moved, Still
  <1>2. CASE UnsubscribeStop(p)
    <2> SUFFICES ASSUME OneCpu PROVE HookOrder' /\ \A q \in Procs : Ordered(q)'
      BY DEF OrderInv
    <2>1. HookOrder /\ \A q \in Procs : Ordered(q)
      BY DEF OrderInv
    <2>2. ASSUME NEW q \in Procs
          PROVE  Ordered(q)' /\ Msgs(q)' \subseteq Msgs(q) \cup {Stop}
      <3>1. Still(q) \/ Sent(q, Stop)
        BY <1>2, SendMoves DEF UnsubscribeStop
      <3>2. CASE Still(q)
        BY <2>1, <3>2, StillOrder
      <3>3. CASE Sent(q, Stop)
        BY <2>1, <3>3, SentOrder DEF Before, Messages
      <3>4. QED
        BY <3>1, <3>2, <3>3
    <2>3. captured \in Nat /\ Stop = 0
      BY SnifferAssumption DEF Stop, TypeInv, TypeOK, SnifferTypeOK
    <2>4. hook' = hook /\ captured' = captured
      BY <1>2 DEF UnsubscribeStop, hookvars
    <2>5. \A r \in Roles : Members(r) \subseteq Procs
      BY DEF Members, Procs
    <2>6. \A q \in Procs : \A m \in Msgs(q)' : m <= captured
      BY <2>1, <2>2, <2>3 DEF HookOrder
    <2>7. \A c \in Cpus : hook[c].at # "idle" => \A r \in Roles : hook[c].role \in {r, "daemon"} =>
              \A q \in Members(r) : \A m \in Msgs(q)' : m < captured
      BY <2>1, <2>2, <2>3, <2>5 DEF HookOrder
    <2>8. HookOrder'
      BY <2>1, <2>4, <2>6, <2>7 DEF HookOrder
    <2>9. QED
      BY <2>2, <2>8
  <1>3. QED
    BY <1>1, <1>2 DEF nl_recv_msg, SubscribeTest, SubscribeFlag, SubscribePid, UnsubscribeFlag,
       UnsubscribePid

\* The hook takes a new packet: it is newer than all that was sent.
LEMMA CaptureStep ==
    ASSUME TypeInv, MemorySafe, OrderInv, UNCHANGED uservars, NEW c \in Cpus, HookCapture(c)
    PROVE  OrderInv'
  <1> SUFFICES ASSUME OneCpu PROVE HookOrder' /\ \A q \in Procs : Ordered(q)'
    BY DEF OrderInv
  <1>1. HookOrder /\ \A q \in Procs : Ordered(q)
    BY DEF OrderInv
  <1>2. \A q \in Procs : Ordered(q)' /\ Msgs(q)' = Msgs(q) /\ Msgs(q) \subseteq Messages
    BY <1>1, StillOrder, MsgTypes DEF HookCapture, sockvars, uservars, Still, MemorySafe
  <1>3. /\ captured' = captured + 1 /\ captured \in Nat
        /\ hook' = [hook EXCEPT ![c] = [at |-> "flag", role |-> "daemon", pkt |-> captured + 1]]
        /\ Cpus = {c}
    BY SnifferAssumption DEF HookCapture, OneCpu, TypeInv, TypeOK, SnifferTypeOK
  <1>4. \A q \in Procs : \A m \in Msgs(q)' : m <= captured /\ m \in Int
    BY <1>1, <1>2, SnifferAssumption DEF HookOrder, Messages, Packets, Stop
  <1>5. \A q \in Procs : \A m \in Msgs(q)' : m < captured' /\ m <= captured'
    BY <1>3, <1>4
  <1>6. \A d \in Cpus : hook'[d].pkt = captured'
    BY <1>3 DEF TypeInv, TypeOK, SnifferTypeOK
  <1>7. \A r \in Roles : Members(r) \subseteq Procs
    BY DEF Members, Procs
  <1>8. HookOrder'
    BY <1>3, <1>5, <1>6, <1>7 DEF HookOrder
  <1>9. QED
    BY <1>2, <1>8

\* Where the hook goes after a role: on to the packet_hunter, or to its end.
LEMMA AfterRoleFacts ==
    ASSUME NEW h \in HookStates
    PROVE  /\ AfterRole(h).pkt = h.pkt
           /\ AfterRole(h).at # "idle" => h.role = "daemon" /\ AfterRole(h).role = "packet_hunter"
  BY DEF AfterRole, HookStates

\* The hook tests the flag or the PID of a role, and sends nothing.
LEMMA HookTestOrder ==
    ASSUME TypeInv, MemorySafe, OrderInv, UNCHANGED uservars, NEW c \in Cpus,
           HookFlag(c) \/ HookPid(c)
    PROVE  OrderInv'
  <1> SUFFICES ASSUME OneCpu PROVE HookOrder' /\ \A q \in Procs : Ordered(q)'
    BY DEF OrderInv
  <1>1. HookOrder /\ \A q \in Procs : Ordered(q)
    BY DEF OrderInv
  <1>2. \A q \in Procs : Ordered(q)' /\ Msgs(q)' = Msgs(q)
    BY <1>1, StillOrder DEF HookFlag, HookPid, sockvars, uservars, Still
  <1>3. captured' = captured /\ Cpus = {c} /\ hook[c].at # "idle" /\ hook[c] \in HookStates
    BY DEF HookFlag, HookPid, OneCpu, TypeInv, TypeOK, SnifferTypeOK
  <1>4. /\ hook'[c].pkt = hook[c].pkt
        /\ hook'[c].at # "idle" => hook'[c].role = hook[c].role \/ hook[c].role = "daemon"
    <2>1. \/ hook'[c] = AfterRole(hook[c])
          \/ \E at \in {"pid", "send"} : hook'[c] = [hook[c] EXCEPT !.at = at]
      BY DEF HookFlag, HookPid, TypeInv, TypeOK, SnifferTypeOK
    <2>2. QED
      BY <1>3, <2>1, AfterRoleFacts DEF HookStates
  <1>5. \A r \in Roles : Members(r) \subseteq Procs
    BY DEF Members, Procs
  <1>6. HookOrder'
    BY <1>1, <1>2, <1>3, <1>4, <1>5 DEF HookOrder
  <1>7. QED
    BY <1>2, <1>6

\* The hook sends its packet to a process of the role that it serves, which has
\* nothing as new, and goes on to a role that has nothing as new either.
LEMMA HookSendOrder ==
    ASSUME TypeInv, MemorySafe, OrderInv, UNCHANGED uservars, NEW c \in Cpus, HookSend(c)
    PROVE  OrderInv'
  <1> SUFFICES ASSUME OneCpu PROVE HookOrder' /\ \A q \in Procs : Ordered(q)'
    BY DEF OrderInv
  <1> DEFINE role == hook[c].role
             to == client_pid[role]
  <1>1. HookOrder /\ \A q \in Procs : Ordered(q)
    BY DEF OrderInv
  <1>2. /\ captured' = captured /\ Cpus = {c}
        /\ hook[c].at = "send" /\ hook[c].pkt = captured /\ captured > 0 /\ captured \in Nat
        /\ hook[c] \in HookStates /\ role \in Roles /\ captured \in Messages
        /\ to \in Members(role) \cup {NoPid}
    BY <1>1, SnifferAssumption DEF HookSend, HookOrder, OneCpu, TypeInv, TypeOK, SnifferTypeOK,
       HookStates
  <1>3. ASSUME NEW q \in Procs
        PROVE  Still(q) \/ (q = to /\ Sent(q, captured))
    BY <1>2, SendMoves DEF HookSend
  <1>4. \A q \in Members(role) : \A m \in Msgs(q) : m < captured
    BY <1>1, <1>2 DEF HookOrder
  <1>5. ASSUME NEW q \in Procs
        PROVE  /\ Ordered(q)'
               /\ Msgs(q)' \subseteq Msgs(q) \cup {captured}
               /\ q \notin Members(role) => Msgs(q)' = Msgs(q)
    <2>1. CASE Still(q)
      BY <1>1, <2>1, StillOrder
    <2>2. CASE q = to /\ Sent(q, captured)
      <3>1. q \in Members(role)
        BY <1>2, <2>2, SnifferAssumption DEF Procs
      <3>2. \A m \in Msgs(q) : Before(m, captured)
        BY <1>4, <3>1 DEF Before
      <3>3. QED
        BY <1>1, <1>2, <2>2, <3>1, <3>2, SentOrder
    <2>3. QED
      BY <1>3, <2>1, <2>2
  <1>6. /\ hook'[c].pkt = captured
        /\ hook'[c].at # "idle" => role = "daemon" /\ hook'[c].role = "packet_hunter"
    <2>1. \/ hook'[c] = AfterRole(hook[c])
          \/ hook'[c] = [hook[c] EXCEPT !.at = "idle"]
      BY DEF HookSend, TypeInv, TypeOK, SnifferTypeOK
    <2>2. QED
      BY <1>2, <2>1, AfterRoleFacts DEF HookStates
  <1>7. \A q \in Procs : \A m \in Msgs(q)' : m <= captured
    BY <1>1, <1>2, <1>5 DEF HookOrder
  <1>8. ASSUME hook'[c].at # "idle", NEW r \in Roles, hook'[c].role \in {r, "daemon"}
        PROVE  \A q \in Members(r) : \A m \in Msgs(q)' : m < captured
    <2>1. r = "packet_hunter" /\ role = "daemon"
      BY <1>6, <1>8
    <2>2. \A q \in Members(r) : q \in Procs /\ q \notin Members(role)
      BY <2>1, SnifferAssumption DEF Members, Procs
    <2>3. \A q \in Members(r) : \A m \in Msgs(q) : m < captured
      BY <1>1, <1>2, <2>1 DEF HookOrder
    <2>4. QED
      BY <1>5, <2>2, <2>3
  <1>9. HookOrder'
    BY <1>2, <1>6, <1>7, <1>8 DEF HookOrder
  <1>10. QED
    BY <1>5, <1>9

\* What is on its way to a process is in the order of its capture, and older
\* than the packet that the hook has still to send to it: the invariant is
\* inductive, given memory safety (a cell that is freed or written again while
\* it is on its way would be out of order).
THEOREM OrderInvariant == Spec => []OrderInv
  <1>1. Init => OrderInv
    <2> SUFFICES ASSUME Init PROVE HookOrder /\ \A p \in Procs : Ordered(p)
      BY DEF OrderInv
    <2>1. \A p \in Procs : /\ QueueCells(p) = {} /\ HandCells(p) = {} /\ Cells(p) = {}
                           /\ Len(rcvbuf[p]) = 0 /\ Len(queue[p]) = 0
                           /\ lhand[p] = Nil /\ mhand[p] = Nil
      BY DEF Init, SnifferInit, ClientInit, QueueCells, Elems, HandCells, Cells
    <2>2. \A p \in Procs : Msgs(p) = {} /\ Ordered(p)
      BY <2>1 DEF Msgs, Ordered, BufferOrder, QueueOrder, ListenerOrder, MainOrder
    <2>3. HookOrder
      BY <2>2 DEF HookOrder, Init, SnifferInit, Members, Procs
    <2>4. QED
      BY <2>2, <2>3
  <1>2. TypeInv /\ MemorySafe /\ OrderInv /\ [Next]_vars => OrderInv'
    <2> SUFFICES ASSUME TypeInv, MemorySafe, OrderInv, [Next]_vars PROVE OrderInv'
      OBVIOUS
    <2>1. CASE UNCHANGED vars
      BY <2>1, MovedAll DEF vars, kernelvars, sockvars, uservars, Moved, Still
    <2>2. CASE Kernel
      <3>1. CASE sniffer_init \/ sniffer_exit
        BY <2>2, <3>1, MovedAll DEF Kernel, sniffer_init, sniffer_exit, sockvars, uservars, Moved,
           Still
      <3>2. QED
        BY <2>2, <3>1, HandlerOrder, CaptureStep, HookTestOrder, HookSendOrder
           DEF Kernel, packet_sniffer_hook
    <2>3. CASE \E d \in Daemons : DaemonStep(d)
      BY <2>3, DaemonMoves, MovedAll DEF hookvars, Procs
    <2>4. CASE \E h \in Hunters : HunterStep(h)
      BY <2>4, HunterMoves, MovedAll DEF hookvars, Procs
    <2>5. CASE \E p \in Procs : Listener(p)
      BY <2>5, ListenerMoves, MovedAll DEF hookvars
    <2>6. CASE \/ \E p \in Procs : Environment(p)
               \/ \E d \in Daemons, h \in Hunters : CloseClient(d, h)
      BY <2>6, EnvironmentMoves, MovedAll DEF hookvars, Procs
    <2>7. QED
      BY <2>1, <2>2, <2>3, <2>4, <2>5, <2>6 DEF Next
  <1>3. QED
    BY <1>1, <1>2, TypeInvariant, MemorySafety, PTL DEF Spec

\* A sequence of messages in the order of capture, and one that is all before
\* another.
Sorted(s) == \A i, j \in 1 .. Len(s) : i < j => Before(s[i], s[j])
Across(s, t) == \A i \in 1 .. Len(s), j \in 1 .. Len(t) : Before(s[i], t[j])

\* Two sorted sequences, one before the other, are sorted together.
LEMMA ConcatSorted ==
    ASSUME NEW s \in Seq(Messages), NEW t \in Seq(Messages), Sorted(s), Sorted(t), Across(s, t)
    PROVE  s \o t \in Seq(Messages) /\ Sorted(s \o t)
  <1>1. /\ s \o t \in Seq(Messages)
        /\ Len(s) \in Nat /\ Len(t) \in Nat
        /\ Len(s \o t) = Len(s) + Len(t)
        /\ \A i \in 1 .. Len(s) : (s \o t)[i] = s[i]
        /\ \A i \in 1 .. Len(s) + Len(t) : i > Len(s) => (s \o t)[i] = t[i - Len(s)]
    OBVIOUS
  <1>2. ASSUME NEW i \in 1 .. Len(s \o t), NEW j \in 1 .. Len(s \o t), i < j
        PROVE  Before((s \o t)[i], (s \o t)[j])
    <2>1. CASE j <= Len(s)
      BY <1>1, <1>2, <2>1 DEF Sorted
    <2>2. CASE i <= Len(s) /\ j > Len(s)
      <3>1. j - Len(s) \in 1 .. Len(t) /\ i \in 1 .. Len(s)
        BY <1>1, <2>2
      <3>2. (s \o t)[i] = s[i] /\ (s \o t)[j] = t[j - Len(s)]
        BY <1>1, <2>2, <3>1
      <3>3. QED
        BY <3>1, <3>2 DEF Across
    <2>3. CASE i > Len(s)
      <3>1. /\ i - Len(s) \in 1 .. Len(t) /\ j - Len(s) \in 1 .. Len(t)
            /\ i - Len(s) < j - Len(s)
        BY <1>1, <1>2, <2>3
      <3>2. (s \o t)[i] = t[i - Len(s)] /\ (s \o t)[j] = t[j - Len(s)]
        BY <1>1, <1>2, <2>3
      <3>3. QED
        BY <3>1, <3>2 DEF Sorted
    <2>4. QED
      BY <1>1, <1>2, <2>1, <2>2, <2>3
  <1>3. QED
    BY <1>1, <1>2 DEF Sorted

\* What comes after both parts comes after their concatenation.
LEMMA ConcatAcross ==
    ASSUME NEW s \in Seq(Messages), NEW t \in Seq(Messages), NEW u \in Seq(Messages),
           Across(s, u), Across(t, u)
    PROVE  Across(s \o t, u)
  <1>1. /\ Len(s) \in Nat /\ Len(t) \in Nat
        /\ Len(s \o t) = Len(s) + Len(t)
        /\ \A i \in 1 .. Len(s) : (s \o t)[i] = s[i]
        /\ \A i \in 1 .. Len(s) + Len(t) : i > Len(s) => (s \o t)[i] = t[i - Len(s)]
    OBVIOUS
  <1>2. ASSUME NEW i \in 1 .. Len(s \o t), NEW j \in 1 .. Len(u)
        PROVE  Before((s \o t)[i], u[j])
    <2>1. CASE i <= Len(s)
      BY <1>1, <1>2, <2>1 DEF Across
    <2>2. CASE i > Len(s)
      <3>1. i - Len(s) \in 1 .. Len(t) /\ (s \o t)[i] = t[i - Len(s)]
        BY <1>1, <2>2
      <3>2. QED
        BY <3>1 DEF Across
    <2>3. QED
      BY <1>1, <2>1, <2>2
  <1>3. QED
    BY <1>2 DEF Across

\* The invariant orders all that is on its way, from main's hand to the buffer.
LEMMA CarriedSorted ==
    ASSUME TypeInv, NEW p \in Procs, OneOwner(p), Ordered(p)
    PROVE  Sorted(Carried(p))
  <1> DEFINE hand(a) == IF a = Nil THEN <<>> ELSE <<mem[p][a]>>
             M == hand(mhand[p])
             Q == [i \in 1 .. Len(queue[p]) |-> mem[p][queue[p][i]]]
             L == hand(lhand[p])
             B == rcvbuf[p]
  <1>1. \A a \in Cells(p) : mem[p][a] \in Messages
    BY LocalTypes DEF OneOwner, Cells
  <1>2. /\ M \in Seq(Messages) /\ Len(M) = (IF mhand[p] = Nil THEN 0 ELSE 1)
        /\ mhand[p] # Nil => M[1] = mem[p][mhand[p]]
    <2>1. CASE mhand[p] = Nil
      BY <2>1
    <2>2. CASE mhand[p] # Nil
      <3>1. mem[p][mhand[p]] \in Messages
        BY <1>1, <2>2, HandFacts DEF Cells
      <3>2. QED
        BY <2>2, <3>1
    <2>3. QED
      BY <2>1, <2>2
  <1>3. /\ L \in Seq(Messages) /\ Len(L) = (IF lhand[p] = Nil THEN 0 ELSE 1)
        /\ lhand[p] # Nil => L[1] = mem[p][lhand[p]]
    <2>1. CASE lhand[p] = Nil
      BY <2>1
    <2>2. CASE lhand[p] # Nil
      <3>1. mem[p][lhand[p]] \in Messages
        BY <1>1, <2>2, HandFacts DEF Cells
      <3>2. QED
        BY <2>2, <3>1
    <2>3. QED
      BY <2>1, <2>2
  <1>4. \A i \in 1 .. Len(queue[p]) : queue[p][i] \in QueueCells(p) /\ queue[p][i] \in Cells(p)
    BY LocalTypes DEF Cells
  <1>5. /\ Q \in Seq(Messages) /\ Len(Q) = Len(queue[p])
        /\ \A i \in 1 .. Len(Q) : Q[i] = mem[p][queue[p][i]]
    <2>1. \A i \in 1 .. Len(queue[p]) : mem[p][queue[p][i]] \in Messages
      BY <1>1, <1>4
    <2>2. Len(queue[p]) \in Nat
      BY LocalTypes
    <2>3. QED
      BY <2>1, <2>2
  <1>6. B \in Seq(Messages)
    BY LocalTypes
  <1> HIDE DEF hand, M, Q, L, B
  <1>7. Sorted(M) /\ Sorted(L)
    BY <1>2, <1>3 DEF Sorted
  <1>8. Sorted(Q)
    BY <1>5 DEF Sorted, Ordered, QueueOrder
  <1>9. Sorted(B)
    BY DEF Sorted, Ordered, BufferOrder, B
  <1>10. Across(M, Q) /\ Across(M, L) /\ Across(M, B)
    <2>1. CASE mhand[p] = Nil
      BY <1>2, <2>1 DEF Across
    <2>2. CASE mhand[p] # Nil
      <3>1. \A i \in 1 .. Len(M) : M[i] = mem[p][mhand[p]]
        BY <1>2, <2>2
      <3>2. \A j \in 1 .. Len(Q) : Before(mem[p][mhand[p]], Q[j])
        BY <1>4, <1>5, <2>2 DEF Ordered, MainOrder
      <3>3. \A j \in 1 .. Len(L) : Before(mem[p][mhand[p]], L[j])
        BY <1>3, <2>2 DEF Ordered, MainOrder
      <3>4. \A j \in 1 .. Len(B) : Before(mem[p][mhand[p]], B[j])
        BY <2>2 DEF Ordered, MainOrder, B
      <3>5. QED
        BY <3>1, <3>2, <3>3, <3>4 DEF Across
    <2>3. QED
      BY <2>1, <2>2
  <1>11. Across(Q, L) /\ Across(Q, B)
    <2>1. ASSUME NEW i \in 1 .. Len(Q), NEW j \in 1 .. Len(L)
          PROVE  Before(Q[i], L[j])
      <3>1. lhand[p] # Nil /\ L[j] = mem[p][lhand[p]]
        BY <1>3
      <3>2. Q[i] = mem[p][queue[p][i]] /\ queue[p][i] \in QueueCells(p)
        BY <1>4, <1>5
      <3>3. QED
        BY <3>1, <3>2 DEF Ordered, ListenerOrder
    <2>2. ASSUME NEW i \in 1 .. Len(Q), NEW j \in 1 .. Len(B)
          PROVE  Before(Q[i], B[j])
      <3>1. Q[i] = mem[p][queue[p][i]] /\ queue[p][i] \in QueueCells(p)
        BY <1>4, <1>5
      <3>2. QED
        BY <3>1 DEF Ordered, QueueOrder, B
    <2>3. QED
      BY <2>1, <2>2 DEF Across
  <1>12. Across(L, B)
    <2> SUFFICES ASSUME NEW i \in 1 .. Len(L), NEW j \in 1 .. Len(B) PROVE Before(L[i], B[j])
      BY DEF Across
    <2>1. lhand[p] # Nil /\ L[i] = mem[p][lhand[p]]
      BY <1>3
    <2>2. QED
      BY <2>1 DEF Ordered, ListenerOrder, B
  <1>13. M \o Q \in Seq(Messages) /\ Sorted(M \o Q) /\ Across(M \o Q, L) /\ Across(M \o Q, B)
    BY <1>2, <1>3, <1>5, <1>6, <1>7, <1>8, <1>10, <1>11, ConcatSorted, ConcatAcross
  <1>14. /\ (M \o Q) \o L \in Seq(Messages) /\ Sorted((M \o Q) \o L)
         /\ Across((M \o Q) \o L, B)
    BY <1>3, <1>6, <1>7, <1>12, <1>13, ConcatSorted, ConcatAcross
  <1>15. Sorted(((M \o Q) \o L) \o B)
    BY <1>6, <1>9, <1>14, ConcatSorted
  <1>16. Carried(p) = ((M \o Q) \o L) \o B
    BY DEF Carried, M, Q, L, B, hand
  <1>17. QED
    BY <1>15, <1>16

\* On one CPU each program gets its packets in the order of their capture and
\* none twice, for any number of processes, packets and cells, any size of the
\* receive buffers and whatever they lose.
THEOREM PacketsInOrder == Spec => []CaptureOrder
  <1>1. TypeInv /\ MemorySafe /\ OrderInv => CaptureOrder
    BY CarriedSorted DEF OrderInv, MemorySafe, CaptureOrder, Sorted
  <1>2. QED
    BY <1>1, TypeInvariant, MemorySafety, OrderInvariant, PTL

-----------------------------------------------------------------------------
(* Clean exit *)

\* Where the pointers and the cells do not change, none is lost.
LEMMA ReachedFrame ==
    ASSUME NEW q \in Procs, Reached(q), queue'[q] = queue[q], mem'[q] = mem[q],
           lhand'[q] = lhand[q], mhand'[q] = mhand[q]
    PROVE  Reached(q)'
  BY DEF Reached, Cells, QueueCells, HandCells

\* A step that leaves q alone.
LEMMA ExitFrame ==
    ASSUME NEW q \in Procs, Exit(q), mpc'[q] = mpc[q], lpc'[q] = lpc[q], queue'[q] = queue[q],
           mem'[q] = mem[q], lhand'[q] = lhand[q], mhand'[q] = mhand[q]
    PROVE  Exit(q)'
  BY ReachedFrame DEF Exit, Threads, Empty

\* A step of process p that touches no other process only has to keep p right.
LEMMA OnlyOneExit ==
    ASSUME ExitInv, NEW p \in Procs, Exit(p)',
           \A q \in Procs \ {p} : /\ mpc'[q] = mpc[q] /\ lpc'[q] = lpc[q]
                                  /\ queue'[q] = queue[q] /\ mem'[q] = mem[q]
                                  /\ lhand'[q] = lhand[q] /\ mhand'[q] = mhand[q]
    PROVE  ExitInv'
  <1> SUFFICES ASSUME NEW q \in Procs PROVE Exit(q)'
    BY DEF ExitInv
  <1>1. CASE q = p
    BY <1>1
  <1>2. CASE q # p
    BY <1>2, ExitFrame DEF ExitInv
  <1>3. QED
    BY <1>1, <1>2

\* A step in which one thread of p moves on and the pointers stay.
LEMMA ThreadStep ==
    ASSUME TypeInv, ExitInv, NEW p \in Procs, UNCHANGED <<queue, mem, lhand, mhand>>,
           \A q \in Procs \ {p} : mpc'[q] = mpc[q] /\ lpc'[q] = lpc[q],
           Threads(p)', Empty(p)'
    PROVE  ExitInv'
  <1>1. Exit(p)'
    BY ReachedFrame DEF ExitInv, Exit
  <1>2. QED
    BY <1>1, OnlyOneExit

\* The listener loses no packet, and leaves nothing in its hand.
LEMMA ListenerExit ==
    ASSUME TypeInv, MemorySafe, ExitInv, NEW p \in Procs, Listener(p)
    PROVE  ExitInv'
  <1> USE DEF Goto
  <1>0. /\ Threads(p) /\ Empty(p) /\ Reached(p)
        /\ mpc \in [Procs -> MainStates] /\ lpc \in [Procs -> ListenerStates]
        /\ queue \in [Procs -> Seq(Addrs)] /\ lhand \in [Procs -> Addrs \cup {Nil}]
        /\ mem \in [Procs -> [Addrs -> Messages \cup {Free}]]
    BY DEF ExitInv, Exit, TypeInv, TypeOK, ClientTypeOK
  <1>1. CASE ListenerTest(p)
    <2>1. Threads(p)' /\ Empty(p)'
      BY <1>0, <1>1 DEF ListenerTest, Threads, Empty
    <2>2. QED
      BY <1>0, <1>1, <2>1, ThreadStep DEF ListenerTest
  <1>2. CASE ReceiveError(p)
    <2>1. Threads(p)' /\ Empty(p)'
      BY <1>0, <1>2 DEF ReceiveError, Threads, Empty
    <2>2. QED
      BY <1>0, <1>2, <2>1, ThreadStep DEF ReceiveError
  <1>3. CASE BadAlloc(p)
    <2>1. Threads(p)' /\ Empty(p)'
      BY <1>0, <1>3 DEF BadAlloc, Threads, Empty
    <2>2. QED
      BY <1>0, <1>3, <2>1, ThreadStep DEF BadAlloc
  <1>4. CASE receivePacketInfo(p)
    <2>1. PICK a \in Addrs : /\ mem[p][a] = Free
                             /\ mem' = [mem EXCEPT ![p][a] = Head(rcvbuf[p])]
                             /\ lhand' = [lhand EXCEPT ![p] = a]
      BY <1>4 DEF receivePacketInfo
    <2>2. Threads(p)' /\ Empty(p)'
      BY <1>0, <1>4 DEF receivePacketInfo, Threads, Empty
    <2>3. Reached(p)'
      <3>1. lhand[p] = Nil
        BY <1>0, <1>4 DEF receivePacketInfo, Empty
      <3>2. Cells(p)' = Cells(p) \cup {a}
        BY <1>0, <1>4, <2>1, <3>1, NilAssumption
           DEF receivePacketInfo, Cells, QueueCells, HandCells
      <3>3. \A b \in Addrs \ {a} : mem'[p][b] = mem[p][b]
        BY <1>0, <2>1
      <3>4. QED
        BY <1>0, <3>2, <3>3 DEF Reached
    <2>4. QED
      BY <1>0, <1>4, <2>1, <2>2, <2>3, OnlyOneExit DEF receivePacketInfo, Exit
  <1>5. CASE ListenerDeliver(p)
    <2>1. lhand[p] \in Addrs
      BY <1>5 DEF ListenerDeliver, TypeInv, HandsFull
    <2>2. Threads(p)' /\ Empty(p)'
      BY <1>0, <1>5 DEF ListenerDeliver, Threads, Empty
    <2>3. \/ mem[p][lhand[p]] = Stop /\ Cells(p) \subseteq Cells(p)' \cup {lhand[p]}
          \/ Cells(p) \subseteq Cells(p)'
      <3>1. HandCells(p) \subseteq HandCells(p)' \cup {lhand[p]}
        BY <1>0, <1>5 DEF ListenerDeliver, HandCells
      <3>2. CASE mem[p][lhand[p]] = Stop /\ queue' = queue
        BY <3>1, <3>2 DEF Cells, QueueCells
      <3>3. CASE queue' = [queue EXCEPT ![p] = Append(@, lhand[p])]
        <4>1. QueueCells(p)' = QueueCells(p) \cup {lhand[p]}
          BY <1>0, <2>1, <3>3, PushElems DEF QueueCells
        <4>2. QED
          BY <3>1, <4>1 DEF Cells
      <3>4. QED
        BY <1>5, <3>2, <3>3 DEF ListenerDeliver
    <2>4. Reached(p)'
      BY <1>0, <1>5, <2>3 DEF Reached, ListenerDeliver
    <2>5. QED
      BY <1>0, <1>5, <2>2, <2>4, OnlyOneExit DEF ListenerDeliver, Exit
  <1>6. QED
    BY <1>1, <1>2, <1>3, <1>4, <1>5 DEF Listener, recvPacketInfoThread

\* The steps of main that both programs have.
LEMMA SharedExit ==
    ASSUME TypeInv, MemorySafe, ExitInv, NEW p \in Procs, NEW next \in {"close", "save"},
           \/ Spawn(p) \/ LeaveLoop(p) \/ Pop(p) \/ Unsubscribe(p) \/ Join(p)
           \/ cleanMessageQueue(p, next)
    PROVE  ExitInv'
  <1> USE DEF Goto
  <1>0. /\ Threads(p) /\ Empty(p) /\ Reached(p)
        /\ mpc \in [Procs -> MainStates] /\ lpc \in [Procs -> ListenerStates]
        /\ queue \in [Procs -> Seq(Addrs)] /\ mhand \in [Procs -> Addrs \cup {Nil}]
        /\ mem \in [Procs -> [Addrs -> Messages \cup {Free}]]
    BY DEF ExitInv, Exit, TypeInv, TypeOK, ClientTypeOK
  <1>1. CASE Spawn(p)
    <2>1. Threads(p)' /\ Empty(p)'
      BY <1>0, <1>1 DEF Spawn, Threads, Empty
    <2>2. QED
      BY <1>0, <1>1, <2>1, ThreadStep DEF Spawn
  <1>2. CASE LeaveLoop(p)
    <2>1. Threads(p)' /\ Empty(p)'
      BY <1>0, <1>2 DEF LeaveLoop, Threads, Empty
    <2>2. QED
      BY <1>0, <1>2, <2>1, ThreadStep DEF LeaveLoop
  <1>3. CASE Unsubscribe(p)
    <2>1. Threads(p)' /\ Empty(p)'
      BY <1>0, <1>3 DEF Unsubscribe, Threads, Empty
    <2>2. QED
      BY <1>0, <1>3, <2>1, ThreadStep DEF Unsubscribe
  <1>4. CASE Join(p)
    <2>1. Threads(p)' /\ Empty(p)'
      BY <1>0, <1>4 DEF Join, Threads, Empty
    <2>2. QED
      BY <1>0, <1>4, <2>1, ThreadStep DEF Join
  <1>5. CASE Pop(p)
    <2>1. queue[p] \in Seq(Addrs) /\ queue[p] # <<>> /\ mhand[p] = Nil
      BY <1>0, <1>5 DEF Pop, Empty
    <2>2. queue'[p] = Tail(queue[p]) /\ mhand'[p] = Head(queue[p]) /\ Head(queue[p]) \in Addrs
      BY <1>0, <1>5, <2>1 DEF Pop
    <2>3. Threads(p)' /\ Empty(p)'
      <3>1. lpc[p] # "none"
        BY <1>0, <2>1 DEF Empty
      <3>2. QED
        BY <1>0, <1>5, <3>1 DEF Pop, Threads, Empty
    <2>4. Cells(p) \subseteq Cells(p)'
      <3>1. QueueCells(p) \subseteq QueueCells(p)' \cup {Head(queue[p])}
        <4>1. /\ Len(queue[p]) \in Nat /\ Len(queue'[p]) = Len(queue[p]) - 1
              /\ \A i \in 1 .. Len(queue'[p]) : queue'[p][i] = queue[p][i + 1]
              /\ Head(queue[p]) = queue[p][1]
          BY <2>1, <2>2
        <4>2. \A i \in 1 .. Len(queue[p]) : i = 1 \/ i - 1 \in 1 .. Len(queue'[p])
          BY <4>1
        <4>3. \A i \in 1 .. Len(queue[p]) : i # 1 => queue[p][i] = queue'[p][i - 1]
          BY <4>1, <4>2
        <4>4. QED
          BY <4>1, <4>2, <4>3 DEF QueueCells, Elems
      <3>2. HandCells(p)' = HandCells(p) \cup {Head(queue[p])}
        BY <1>5, <2>1, <2>2, NilAssumption DEF Pop, HandCells
      <3>3. QED
        BY <3>1, <3>2 DEF Cells
    <2>5. Reached(p)'
      BY <1>0, <1>5, <2>4 DEF Reached, Pop
    <2>6. QED
      BY <1>0, <1>5, <2>3, <2>5, OnlyOneExit DEF Pop, Exit
  <1>6. CASE cleanMessageQueue(p, next)
    <2>1. Threads(p)' /\ Empty(p)'
      BY <1>0, <1>6 DEF cleanMessageQueue, Threads, Empty
    <2>2. \A a \in Addrs : mem'[p][a] = IF a \in QueueCells(p) THEN Free ELSE mem[p][a]
      BY <1>0, <1>6 DEF cleanMessageQueue, FreeAll, QueueCells
    <2>3. HandCells(p)' = HandCells(p)
      BY <1>6 DEF cleanMessageQueue, HandCells
    <2>4. Reached(p)'
      BY <1>0, <2>2, <2>3 DEF Reached, Cells
    <2>5. QED
      BY <1>0, <1>6, <2>1, <2>4, OnlyOneExit DEF cleanMessageQueue, FreeAll, Exit
  <1>7. QED
    BY <1>1, <1>2, <1>3, <1>4, <1>5, <1>6

\* The daemon's main frees the packet that it has handled.
LEMMA DaemonExit ==
    ASSUME TypeInv, MemorySafe, ExitInv, NEW d \in Daemons, DaemonStep(d)
    PROVE  ExitInv'
  <1> USE DEF Goto
  <1>0. /\ d \in Procs /\ Threads(d) /\ Empty(d) /\ Reached(d)
        /\ mpc \in [Procs -> MainStates] /\ mhand \in [Procs -> Addrs \cup {Nil}]
        /\ mem \in [Procs -> [Addrs -> Messages \cup {Free}]]
    BY DEF ExitInv, Exit, TypeInv, TypeOK, ClientTypeOK, Procs
  <1>1. CASE \/ Spawn(d) \/ LeaveLoop(d) \/ Pop(d) \/ Unsubscribe(d) \/ Join(d)
             \/ cleanMessageQueue(d, "close")
    BY <1>0, <1>1, SharedExit
  <1>2. CASE DStart(d) \/ DConstruct(d) \/ DSubscribe(d) \/ DReinitialize(d) \/ DClose(d)
    <2>1. Threads(d)' /\ Empty(d)'
      BY <1>0, <1>2 DEF DStart, DConstruct, DSubscribe, DReinitialize, DClose, Threads, Empty
    <2>2. QED
      BY <1>0, <1>2, <2>1, ThreadStep DEF DStart, DConstruct, DSubscribe, DReinitialize, DClose
  <1>3. CASE DHandle(d) /\ UNCHANGED <<mem, mhand>>
    <2>1. Threads(d)' /\ Empty(d)'
      BY <1>0, <1>3 DEF DHandle, Threads, Empty
    <2>2. \A q \in Procs \ {d} : mpc'[q] = mpc[q] /\ lpc'[q] = lpc[q]
      BY <1>0, <1>3 DEF DHandle
    <2>3. QED
      BY <1>0, <1>3, <2>1, <2>2, ThreadStep DEF DHandle
  <1>4. CASE /\ DHandle(d)
             /\ FreeAll(d, {mhand[d]})
             /\ mhand' = [mhand EXCEPT ![d] = Nil]
             /\ Goto(d, "loop")
    <2>1. Threads(d)' /\ Empty(d)'
      BY <1>0, <1>4 DEF DHandle, Threads, Empty
    <2>2. \A a \in Addrs : mem'[d][a] = IF a = mhand[d] THEN Free ELSE mem[d][a]
      BY <1>0, <1>4 DEF FreeAll
    <2>3. Cells(d) \subseteq Cells(d)' \cup {mhand[d]}
      BY <1>0, <1>4 DEF DHandle, Cells, QueueCells, HandCells
    <2>4. Reached(d)'
      BY <1>0, <2>2, <2>3 DEF Reached
    <2>5. QED
      BY <1>0, <1>4, <2>1, <2>4, OnlyOneExit DEF DHandle, FreeAll, Exit
  <1>5. QED
    BY <1>1, <1>2, <1>3, <1>4 DEF DaemonStep, DaemonMain, DHandle

\* The hunter's main, wherever it breaks out of its loop.
LEMMA HunterExit ==
    ASSUME TypeInv, MemorySafe, ExitInv, NEW h \in Hunters, HunterStep(h)
    PROVE  ExitInv'
  <1> USE DEF Goto
  <1>0. /\ h \in Procs /\ Threads(h) /\ Empty(h) /\ h \notin Daemons
        /\ mpc \in [Procs -> MainStates] /\ mhand \in [Procs -> Addrs \cup {Nil}]
        /\ mem \in [Procs -> [Addrs -> Messages \cup {Free}]]
    BY SnifferAssumption DEF ExitInv, Exit, TypeInv, TypeOK, ClientTypeOK, Procs
  <1>1. CASE \/ Spawn(h) \/ LeaveLoop(h) \/ Pop(h) \/ Unsubscribe(h) \/ Join(h)
             \/ cleanMessageQueue(h, "save")
    BY <1>0, <1>1, SharedExit
  <1>2. CASE HStart(h) \/ HConstruct(h) \/ HSubscribe(h) \/ HSubscribed(h) \/ HProbe(h)
    <2>1. Threads(h)' /\ Empty(h)'
      BY <1>0, <1>2 DEF HStart, HConstruct, HSubscribe, HSubscribed, HProbe, Threads, Empty
    <2>2. QED
      BY <1>0, <1>2, <2>1, ThreadStep DEF HStart, HConstruct, HSubscribe, HSubscribed, HProbe
  <1>3. CASE HHandle(h) \/ sendPort(h) \/ receivePid(h) \/ HSave(h)
    <2>1. Threads(h)' /\ Empty(h)'
      BY <1>0, <1>3 DEF HHandle, sendPort, receivePid, HSave, Drop, Threads, Empty
    <2>2. Reached(h)'
      BY <1>0 DEF Reached
    <2>3. \A q \in Procs \ {h} : /\ mpc'[q] = mpc[q] /\ lpc'[q] = lpc[q]
                                 /\ queue'[q] = queue[q] /\ mem'[q] = mem[q]
                                 /\ lhand'[q] = lhand[q] /\ mhand'[q] = mhand[q]
      BY <1>0, <1>3 DEF HHandle, sendPort, receivePid, HSave, Drop, FreeAll
    <2>4. QED
      BY <1>0, <2>1, <2>2, <2>3, OnlyOneExit DEF Exit
  <1>4. QED
    BY <1>1, <1>2, <1>3 DEF HunterStep, HunterMain

\* Kills, and the kernel that takes back what a dead process held.
LEMMA OutsideExit ==
    ASSUME TypeInv, ExitInv,
           \/ Kernel
           \/ \E p \in Procs : Environment(p)
           \/ \E d \in Daemons, h \in Hunters : CloseClient(d, h)
    PROVE  ExitInv'
  <1>1. CASE UNCHANGED <<mpc, lpc, queue, mem, lhand, mhand>>
    BY <1>1, ExitFrame DEF ExitInv
  <1>2. CASE \E p \in Procs : Kill(p)
    <2> PICK p \in Procs : Kill(p)
      BY <1>2
    <2>1. Threads(p)' /\ Empty(p)'
      BY DEF Kill, Goto, ExitInv, Exit, Threads, Empty, TypeInv, TypeOK, ClientTypeOK
    <2>2. \A q \in Procs \ {p} : mpc'[q] = mpc[q] /\ lpc'[q] = lpc[q]
      BY DEF Kill, Goto, TypeInv, TypeOK, ClientTypeOK
    <2>3. QED
      BY <2>1, <2>2, ThreadStep DEF Kill
  <1>3. CASE \E p \in Procs : Reap(p)
    <2> PICK p \in Procs : Reap(p)
      BY <1>3
    <2> USE DEF TypeInv, TypeOK, ClientTypeOK
    <2>1. /\ mpc'[p] \in {"gone", "crashed"} /\ lpc'[p] = "none" /\ queue'[p] = <<>>
          /\ lhand'[p] = Nil /\ mhand'[p] = Nil
          /\ \A a \in Addrs : mem'[p][a] = Free
      BY DEF Reap, Goto
    <2>2. Exit(p)'
      BY <2>1 DEF Exit, Threads, Empty, Reached
    <2>3. QED
      BY <2>2, OnlyOneExit DEF Reap, Goto
  <1>4. QED
    BY <1>1, <1>2, <1>3 DEF Kernel, Environment, handleSignal, CloseClient, uservars

\* Where main and its listener are together tells what is still allocated: the
\* invariant is inductive.
THEOREM ExitInvariant == Spec => []ExitInv
  <1>1. Init => ExitInv
    BY DEF Init, ClientInit, ExitInv, Exit, Threads, Empty, Reached
  <1>2. TypeInv /\ MemorySafe /\ ExitInv /\ [Next]_vars => ExitInv'
    <2> SUFFICES ASSUME TypeInv, MemorySafe, ExitInv, [Next]_vars PROVE ExitInv'
      OBVIOUS
    <2>1. CASE UNCHANGED vars
      BY <2>1, ExitFrame DEF vars, uservars, ExitInv
    <2>2. CASE Next
      BY <2>2, OutsideExit, DaemonExit, HunterExit, ListenerExit DEF Next
    <2>3. QED
      BY <2>1, <2>2
  <1>3. QED
    BY <1>1, <1>2, TypeInvariant, MemorySafety, PTL DEF Spec

\* A main that returns has joined its listener and emptied its queue, and a
\* daemon has freed every packet it was sent, whatever interrupted it and
\* however many packets there were; only the cell of the stop message is left.
THEOREM ExitsClean == Spec => []CleanExit
  <1>1. ExitInv => CleanExit
    <2> SUFFICES ASSUME ExitInv, NEW p \in Procs, mpc[p] = "done"
                 PROVE  /\ lpc[p] \in {"none", "ended"}
                        /\ queue[p] = <<>>
                        /\ p \in Daemons => \A a \in Addrs : mem[p][a] \in {Free, Stop}
      BY DEF CleanExit
    <2>1. lpc[p] \in {"none", "ended"} /\ queue[p] = <<>> /\ lhand[p] = Nil /\ mhand[p] = Nil
      BY DEF ExitInv, Exit, Threads, Empty
    <2>2. Cells(p) = {}
      BY <2>1 DEF Cells, QueueCells, Elems, HandCells
    <2>3. QED
      BY <2>1, <2>2 DEF ExitInv, Exit, Reached
  <1>2. QED
    BY <1>1, ExitInvariant, PTL

=============================================================================
