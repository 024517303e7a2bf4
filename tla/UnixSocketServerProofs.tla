----------------------- MODULE UnixSocketServerProofs -----------------------
(***************************************************************************)
(* The client thread and main, who share clientFd without a lock: for any  *)
(* number of clients and descriptors, no descriptor leaks, an answer goes  *)
(* to the client that asked, and the abstract service is implemented.      *)
(***************************************************************************)
EXTENDS UnixSocketServer, TLAPS

\* The descriptors of accepted connections.
Conns == {f \in Fds : files[f] \in Clients \cup {Dummy}}

\* From the assignment of clientFd to its close: the thread is with a client.
WithClient == {"flag", "handle", "running", "load", "enter", "read", "answer", "write",
               "close", "closing"}

\* The thread has at most one connection, clientFd, unless main has closed it.
ThreadOwns ==
    /\ pc["thread"] \in {"loop", "accept", "ended"} => Conns = {} /\ clientFd = NoFd
    /\ pc["thread"] = "assign" => Conns = {reg["thread"]} /\ clientFd = NoFd
    /\ pc["thread"] \in WithClient =>
          /\ Conns \subseteq {clientFd}
          /\ clientFd # NoFd => reg["thread"] = clientFd
          /\ clientFd # NoFd /\ pc["main"] # "reset" => Conns = {clientFd}
    /\ pc["thread"] = "reset" => Conns = {}
    /\ pc["thread"] = "read" /\ Conns # {} => held = files[clientFd]

\* When main closes the client's connection, the thread accepts no other.
MainCloses ==
    /\ pc["main"] \notin {"start", "loop"} => ~running
    /\ pc["main"] \in {"shutdown", "close", "closing", "reset"} =>
          pc["thread"] \notin {"accept", "assign"}
    /\ pc["main"] = "closing" /\ pc["thread"] \in WithClient /\ clientFd # NoFd =>
          reg["main"] = clientFd
    /\ pc["main"] = "reset" => Conns = {}
    /\ pc["main"] \in {"joined", "done"} => pc["thread"] = "ended"

\* The temporary socket. The thread may close it by mistake, but only when it
\* accepts nothing more: main's close() then finds the number unused.
TmpOwned ==
    /\ \A f \in Fds : files[f] = Tmp => pc["main"] \in {"connect", "closetmp"} /\ f = reg["main"]
    /\ pc["main"] \in {"connect", "closetmp"} =>
          /\ reg["main"] \in Fds \ Conns
          /\ pc["thread"] \in {"accept", "assign"} \/ clientFd # NoFd => files[reg["main"]] = Tmp

Descriptors == pc["main"] # "dead" => ThreadOwns /\ MainCloses /\ TmpOwned

\* A connection that is up is in the queue or has a descriptor, also while main
\* closes what the thread reads from: shutdown() comes first.
Connected ==
    /\ \A c \in Clients : conn[c] = "up" => Queued(c) \/ IsOpen(c)
    /\ pc["main"] \in {"close", "closing"} => \A c \in Clients : IsOpen(c) => conn[c] # "up"

Waiting(c) == asked[c] \/ conn[c] = "none"

\* A port that is not read yet belongs to a question that is open, and to a
\* connection that is not forgotten; the thread answers the one it has read.
Questions ==
    /\ \A c \in requests : /\ Waiting(c)
                           /\ Queued(c) \/ IsOpen(c) \/ (pc["thread"] = "read" /\ held = c)
    /\ pc["thread"] \in {"answer", "write"} =>
          \A c \in Clients : IsOpen(c) => Waiting(c) /\ c \notin requests

ServerInv == TypeOK /\ Descriptors /\ Connected /\ Questions

\* While the daemon serves, the thread closes only connections that the client
\* has left.
Serving ==
    ~signalled /\ pc["main"] # "dead" =>
        /\ pc["main"] \in {"start", "loop"}
        /\ running /\ ~isShuttingDown
        /\ ~Queued(Dummy) /\ ~IsOpen(Dummy)
        /\ pc["thread"] \in WithClient => clientFd # NoFd
        /\ pc["thread"] \in {"close", "closing"} => \A c \in Clients : IsOpen(c) => conn[c] # "up"

-----------------------------------------------------------------------------
(* The operators of the model *)

\* A step moves one actor; a dead process makes none.
LEMMA GotoMoves ==
    ASSUME TypeOK, NEW a \in Actors, NEW here, NEW there, Goto(a, here, there)
    PROVE  /\ pc["main"] # "dead"
           /\ pc[a] = here
           /\ pc'[a] = there
           /\ \A b \in Actors \ {a} : pc'[b] = pc[b]
           /\ DOMAIN pc' = Actors
           /\ pc' = [b \in Actors |-> IF b = a THEN there ELSE pc[b]]
  BY DEF Goto, TypeOK

\* Closing a descriptor.
LEMMA CloseEffect ==
    ASSUME TypeOK, NEW f \in Fds \cup {NoFd}, CloseFd(f)
    PROVE  /\ files' = [g \in Fds |-> IF g = f THEN Closed ELSE files[g]]
           /\ Conns' = Conns \ {f}
           /\ asked' = asked
           /\ \A c \in Clients : conn'[c] = conn[c] \/ (conn[c] = "up" /\ conn'[c] = "down")
           /\ \A c \in Clients : conn'[c] # conn[c] => File(f) = c
           /\ requests' \subseteq requests
           /\ \A c \in requests \ requests' : File(f) = c
           /\ conn' \in [Clients -> {"none", "up", "down"}]
  <1>1. files' = [g \in Fds |-> IF g = f THEN Closed ELSE files[g]]
    BY DEF CloseFd, TypeOK, NoFd, Fds
  <1>2. Conns' = Conns \ {f}
    BY <1>1, ServerAssumption DEF Conns, Closed, Tmp, Dummy
  <1>3. QED
    BY <1>1, <1>2 DEF CloseFd, HangUp, TypeOK

\* A new descriptor has a number that was free.
LEMMA NewEffect ==
    ASSUME TypeOK, NEW f \in Fds, NEW x \in Files, NewFd(f, x)
    PROVE  /\ files' = [g \in Fds |-> IF g = f THEN x ELSE files[g]]
           /\ files[f] = Closed
           /\ f \notin Conns
           /\ x \in Clients \cup {Dummy} => Conns' = Conns \cup {f}
           /\ x = Tmp => Conns' = Conns
  <1>1. files' = [g \in Fds |-> IF g = f THEN x ELSE files[g]] /\ files[f] = Closed
    BY DEF NewFd, TypeOK
  <1>2. Closed \notin Clients \cup {Dummy} /\ Tmp \notin Clients \cup {Dummy}
    BY ServerAssumption DEF Closed, Tmp, Dummy
  <1>3. QED
    BY <1>1, <1>2 DEF Conns

\* The queue of accept().
LEMMA QueueEffect ==
    ASSUME TypeOK
    PROVE  /\ \A x \in Clients \cup {Dummy} : backlog' = Append(backlog, x) =>
                 /\ backlog' \in Seq(Clients \cup {Dummy})
                 /\ \A y : Queued(y)' <=> Queued(y) \/ y = x
           /\ backlog # <<>> =>
                 /\ Head(backlog) \in Clients \cup {Dummy}
                 /\ Queued(Head(backlog))
                 /\ backlog' = Tail(backlog) =>
                       /\ backlog' \in Seq(Clients \cup {Dummy})
                       /\ \A y : Queued(y) => Queued(y)' \/ y = Head(backlog)
                       /\ \A y : Queued(y)' => Queued(y)
  <1> DEFINE S == Clients \cup {Dummy}
  <1>0. backlog \in Seq(S) /\ Len(backlog) \in Nat
    BY DEF TypeOK
  <1>1. ASSUME NEW x \in S, backlog' = Append(backlog, x)
        PROVE  /\ backlog' \in Seq(S)
               /\ \A y : Queued(y)' <=> Queued(y) \/ y = x
    <2>1. /\ backlog' \in Seq(S)
          /\ Len(backlog') = Len(backlog) + 1
          /\ \A i \in 1 .. Len(backlog) : backlog'[i] = backlog[i]
          /\ backlog'[Len(backlog) + 1] = x
      BY <1>0, <1>1
    <2>2. QED
      BY <1>0, <2>1 DEF Queued
  <1>2. ASSUME backlog # <<>>
        PROVE  /\ Head(backlog) \in S
               /\ Queued(Head(backlog))
    <2>1. Len(backlog) >= 1 /\ Head(backlog) = backlog[1]
      BY <1>0, <1>2
    <2>2. 1 \in 1 .. Len(backlog)
      BY <1>0, <2>1
    <2>3. backlog[1] \in S
      BY <1>0, <2>2
    <2>4. QED
      BY <2>1, <2>2, <2>3 DEF Queued
  <1>3. ASSUME backlog # <<>>, backlog' = Tail(backlog)
        PROVE  /\ backlog' \in Seq(S)
               /\ \A y : Queued(y) => Queued(y)' \/ y = Head(backlog)
               /\ \A y : Queued(y)' => Queued(y)
    <2>1. /\ backlog' \in Seq(S)
          /\ Head(backlog) = backlog[1]
          /\ Len(backlog') = Len(backlog) - 1
          /\ \A i \in 1 .. Len(backlog') : backlog'[i] = backlog[i + 1]
      BY <1>0, <1>3
    <2>2. \A i \in 1 .. Len(backlog) : i = 1 \/ (i - 1 \in 1 .. Len(backlog') /\ i = (i - 1) + 1)
      BY <1>0, <2>1
    <2>3. \A i \in 1 .. Len(backlog') : i + 1 \in 1 .. Len(backlog)
      BY <1>0, <2>1
    <2>4. QED
      BY <2>1, <2>2, <2>3 DEF Queued
  <1>4. QED
    BY <1>1, <1>2, <1>3

\* A step that leaves the descriptors and the queue alone.
LEMMA SameFiles ==
    /\ files' = files => Conns' = Conns /\ \A x : IsOpen(x)' <=> IsOpen(x)
    /\ backlog' = backlog => \A x : Queued(x)' <=> Queued(x)
  BY DEF Conns, IsOpen, Queued

-----------------------------------------------------------------------------
(* Types *)

\* -1 is no descriptor.
LEMMA FdFacts == /\ NoFd \notin Fds
                 /\ \A f \in Fds : f > 0 /\ ~(f < 0)
                 /\ NoFd < 0 /\ ~(NoFd > 0)
                 /\ Closed \notin Clients /\ Tmp \notin Clients /\ Dummy \notin Clients
                 /\ Closed # Tmp /\ Closed # Dummy /\ Tmp # Dummy
  BY ServerAssumption DEF NoFd, Fds, Closed, Tmp, Dummy

\* The first state is well typed.
LEMMA InitType == Init => TypeOK
  <1> SUFFICES ASSUME Init PROVE TypeOK
    OBVIOUS
  <1>1. /\ pc \in [Actors -> MainPc \cup ThreadPc]
        /\ pc["main"] \in MainPc /\ pc["thread"] \in ThreadPc
    BY DEF Init, Actors, MainPc, ThreadPc
  <1>2. isShuttingDown \in BOOLEAN
    BY ServerAssumption DEF Init
  <1>3. /\ clientFd \in Fds \cup {NoFd}
        /\ reg \in [Actors -> Fds \cup {NoFd}]
        /\ held \in Files
        /\ files \in [Fds -> Files]
        /\ backlog \in Seq(Clients \cup {Dummy})
        /\ conn \in [Clients -> {"none", "up", "down"}]
        /\ asked \in [Clients -> BOOLEAN]
        /\ requests \in SUBSET Clients
    BY DEF Init, Files
  <1>4. QED
    BY <1>1, <1>2, <1>3 DEF Init, TypeOK

\* The end of a connection keeps its type.
LEMMA HangUpType ==
    ASSUME TypeOK, NEW X, HangUp(X)
    PROVE  /\ conn' \in [Clients -> {"none", "up", "down"}]
           /\ asked' \in [Clients -> BOOLEAN]
           /\ requests' \in SUBSET Clients
  BY DEF HangUp, TypeOK

\* What a number stands for.
LEMMA FileType ==
    ASSUME TypeOK, NEW f
    PROVE  File(f) \in Files
  BY DEF File, TypeOK, Files

\* A step of main to a place in MainPc, or of the thread to one in ThreadPc.
LEMMA GotoType ==
    ASSUME TypeOK, NEW here, NEW there,
           \/ Goto("main", here, there) /\ there \in MainPc
           \/ Goto("thread", here, there) /\ there \in ThreadPc
    PROVE  /\ pc' \in [Actors -> MainPc \cup ThreadPc]
           /\ pc'["main"] \in MainPc /\ pc'["thread"] \in ThreadPc
  BY DEF Goto, TypeOK, Actors

\* close() keeps all types.
LEMMA CloseType ==
    ASSUME TypeOK, NEW a \in Actors, closeClientFd(a)
    PROVE  TypeOK'
  <1>1. CASE CloseTest(a)
    <2>1. \E there \in {"flag", "loop", "closing"} :
              Goto(a, "close", there) /\ (there = "closing" \/ there = AfterClose(a))
      BY <1>1 DEF CloseTest, AfterClose
    <2>2. /\ pc' \in [Actors -> MainPc \cup ThreadPc]
          /\ pc'["main"] \in MainPc /\ pc'["thread"] \in ThreadPc
      BY <2>1, GotoType DEF AfterClose, Actors, MainPc, ThreadPc
    <2>3. QED
      BY <1>1, <2>2 DEF CloseTest, TypeOK, shared, service
  <1>2. CASE CloseFile(a)
    <2>1. /\ pc' \in [Actors -> MainPc \cup ThreadPc]
          /\ pc'["main"] \in MainPc /\ pc'["thread"] \in ThreadPc
      BY <1>2, GotoType DEF CloseFile, Actors, MainPc, ThreadPc
    <2>2. PICK f \in {reg[a], clientFd} : CloseFd(f)
      BY <1>2 DEF CloseFile
    <2>3. f \in Fds \cup {NoFd}
      BY DEF TypeOK
    <2>4. /\ files' \in [Fds -> Files]
          /\ conn' \in [Clients -> {"none", "up", "down"}]
          /\ asked' \in [Clients -> BOOLEAN]
          /\ requests' \in SUBSET Clients
      BY <2>2, <2>3, CloseEffect DEF TypeOK, Files
    <2>5. QED
      BY <1>2, <2>1, <2>4 DEF CloseFile, TypeOK, shared
  <1>3. CASE CloseReset(a)
    <2>1. /\ pc' \in [Actors -> MainPc \cup ThreadPc]
          /\ pc'["main"] \in MainPc /\ pc'["thread"] \in ThreadPc
      BY <1>3, GotoType DEF CloseReset, AfterClose, Actors, MainPc, ThreadPc
    <2>2. QED
      BY <1>3, <2>1 DEF CloseReset, TypeOK, service
  <1>4. QED
    BY <1>1, <1>2, <1>3 DEF closeClientFd

\* main keeps all types.
LEMMA MainType ==
    ASSUME TypeOK, Main
    PROVE  TypeOK'
  <1> DEFINE PcType == /\ pc' \in [Actors -> MainPc \cup ThreadPc]
                       /\ pc'["main"] \in MainPc /\ pc'["thread"] \in ThreadPc
  <1>1. CASE Reinitialize \/ LeaveLoop \/ TestClient \/ Join \/ SetFlag
    <2>1. PcType
      BY <1>1, GotoType DEF Reinitialize, LeaveLoop, TestClient, Join, SetFlag, MainPc
    <2>2. QED
      BY <1>1, <2>1 DEF Reinitialize, LeaveLoop, TestClient, Join, SetFlag, TypeOK, shared, service
  <1>2. CASE ShutdownClient
    <2>1. PcType
      BY <1>2, GotoType DEF ShutdownClient, MainPc
    <2>2. conn' \in [Clients -> {"none", "up", "down"}]
      BY <1>2 DEF ShutdownClient, TypeOK
    <2>3. QED
      BY <1>2, <2>1, <2>2 DEF ShutdownClient, TypeOK, shared
  <1>3. CASE closeClientFd("main")
    BY <1>3, CloseType DEF Actors
  <1>4. CASE OpenTmp
    <2>1. PcType
      BY <1>4, GotoType DEF OpenTmp, MainPc
    <2>2. PICK f \in Fds : NewFd(f, Tmp) /\ reg' = [reg EXCEPT !["main"] = f]
      BY <1>4 DEF OpenTmp
    <2>3. files' \in [Fds -> Files]
      BY <2>2 DEF NewFd, TypeOK, Files
    <2>4. QED
      BY <1>4, <2>1, <2>2, <2>3 DEF OpenTmp, TypeOK, shared, service
  <1>5. CASE ConnectTmp
    <2>1. PcType
      BY <1>5, GotoType DEF ConnectTmp, MainPc
    <2>2. backlog' \in Seq(Clients \cup {Dummy})
      BY <1>5, QueueEffect DEF ConnectTmp, TypeOK
    <2>3. QED
      BY <1>5, <2>1, <2>2 DEF ConnectTmp, TypeOK, shared, service
  <1>6. CASE CloseTmp
    <2>1. PcType
      BY <1>6, GotoType DEF CloseTmp, MainPc
    <2>2. reg["main"] \in Fds \cup {NoFd} /\ CloseFd(reg["main"])
      BY <1>6 DEF CloseTmp, TypeOK, Actors
    <2>3. /\ files' \in [Fds -> Files]
          /\ conn' \in [Clients -> {"none", "up", "down"}]
          /\ asked' \in [Clients -> BOOLEAN]
          /\ requests' \in SUBSET Clients
      BY <2>2, CloseEffect DEF TypeOK, Files
    <2>4. QED
      BY <1>6, <2>1, <2>3 DEF CloseTmp, TypeOK, shared
  <1>7. CASE closeSocket
    <2>1. PcType
      BY <1>7, GotoType DEF closeSocket, MainPc
    <2>2. /\ files' \in [Fds -> Files]
          /\ backlog' \in Seq(Clients \cup {Dummy})
      BY <1>7 DEF closeSocket, TypeOK, Files
    <2>3. /\ conn' \in [Clients -> {"none", "up", "down"}]
          /\ asked' \in [Clients -> BOOLEAN]
          /\ requests' \in SUBSET Clients
      BY <1>7, HangUpType DEF closeSocket
    <2>4. QED
      BY <1>7, <2>1, <2>2, <2>3 DEF closeSocket, TypeOK
  <1>8. QED
    BY <1>1, <1>2, <1>3, <1>4, <1>5, <1>6, <1>7 DEF Main, stopListeningForNewClients

\* The client thread keeps all types.
LEMMA ThreadType ==
    ASSUME TypeOK, clientConnectionThread
    PROVE  TypeOK'
  <1> DEFINE PcType == /\ pc' \in [Actors -> MainPc \cup ThreadPc]
                       /\ pc'["main"] \in MainPc /\ pc'["thread"] \in ThreadPc
  <1>1. CASE WhileRunning \/ TestFlag \/ HandleClient \/ HandleLoop
    <2>1. PcType
      BY <1>1, GotoType DEF WhileRunning, TestFlag, HandleClient, HandleLoop, ThreadPc
    <2>2. QED
      BY <1>1, <2>1 DEF WhileRunning, TestFlag, HandleClient, HandleLoop, TypeOK, shared, service
  <1>2. CASE Accept
    <2>1. PcType
      BY <1>2, GotoType DEF Accept, ThreadPc
    <2>2. PICK f \in Fds : NewFd(f, Head(backlog)) /\ reg' = [reg EXCEPT !["thread"] = f]
      BY <1>2 DEF Accept
    <2>3. Head(backlog) \in Files /\ backlog' \in Seq(Clients \cup {Dummy})
      BY <1>2, QueueEffect DEF Accept, Files
    <2>4. files' \in [Fds -> Files]
      BY <2>2, <2>3 DEF NewFd, TypeOK
    <2>5. QED
      BY <1>2, <2>1, <2>2, <2>3, <2>4 DEF Accept, TypeOK, shared, service
  <1>3. CASE Assign \/ Load \/ Answer
    <2>1. PcType
      BY <1>3, GotoType DEF Assign, Load, Answer, ThreadPc
    <2>2. QED
      BY <1>3, <2>1 DEF Assign, Load, Answer, TypeOK, Actors, shared, service
  <1>4. CASE Enter \/ ReadPort \/ ReadEnd
    <2>1. PcType
      BY <1>4, GotoType DEF Enter, ReadPort, ReadEnd, ThreadPc
    <2>2. held' \in Files
      BY <1>4, FileType DEF Enter, ReadPort, ReadEnd, Files
    <2>3. QED
      BY <1>4, <2>1, <2>2 DEF Enter, ReadPort, ReadEnd, TypeOK, shared, service
  <1>5. CASE sendPid
    <2>1. PcType
      BY <1>5, GotoType DEF sendPid, ThreadPc
    <2>2. asked' \in [Clients -> BOOLEAN]
      BY <1>5 DEF sendPid, TypeOK
    <2>3. QED
      BY <1>5, <2>1, <2>2 DEF sendPid, TypeOK, shared
  <1>6. CASE closeClientFd("thread")
    BY <1>6, CloseType DEF Actors
  <1>7. QED
    BY <1>1, <1>2, <1>3, <1>4, <1>5, <1>6 DEF clientConnectionThread, connectToClient, receivePort

\* The clients, the signal and death keep all types.
LEMMA OthersType ==
    ASSUME TypeOK, \/ \E c \in Clients : Connect(c) \/ Ask(c) \/ Leave(c)
                   \/ handleSignal
                   \/ Die
    PROVE  TypeOK'
  <1>1. ASSUME NEW c \in Clients, Connect(c) PROVE TypeOK'
    <2>1. backlog' \in Seq(Clients \cup {Dummy})
      BY <1>1, QueueEffect DEF Connect
    <2>2. QED
      BY <1>1, <2>1 DEF Connect, TypeOK, shared
  <1>2. ASSUME NEW c \in Clients, Ask(c) \/ Leave(c) PROVE TypeOK'
    BY <1>2 DEF Ask, Leave, TypeOK, shared
  <1>3. CASE handleSignal
    BY <1>3 DEF handleSignal, TypeOK, service
  <1>4. CASE Die
    <2>1. /\ pc' \in [Actors -> MainPc \cup ThreadPc]
          /\ pc'["main"] \in MainPc /\ pc'["thread"] \in ThreadPc
      BY <1>4 DEF Die, TypeOK, Actors, MainPc
    <2>2. /\ conn' \in [Clients -> {"none", "up", "down"}]
          /\ asked' \in [Clients -> BOOLEAN]
          /\ requests' \in SUBSET Clients
      BY <1>4, HangUpType DEF Die
    <2>3. QED
      BY <1>4, <2>1, <2>2 DEF Die, TypeOK, shared
  <1>5. QED
    BY <1>1, <1>2, <1>3, <1>4

\* The type invariant, whatever the uninitialised flag is.
THEOREM ServerTypeCorrect == Spec => []TypeOK
  <1>1. TypeOK /\ [Next]_vars => TypeOK'
    <2> SUFFICES ASSUME TypeOK, [Next]_vars PROVE TypeOK'
      OBVIOUS
    <2>1. CASE UNCHANGED vars
      BY <2>1 DEF vars, TypeOK
    <2>2. QED
      BY <2>1, MainType, ThreadType, OthersType DEF Next
  <1>2. QED
    BY InitType, <1>1, PTL DEF Spec

-----------------------------------------------------------------------------
(* Descriptors *)

\* What Goto says of main and of the thread.
LEMMA MainMoves ==
    ASSUME TypeOK, NEW here, NEW there, Goto("main", here, there)
    PROVE  /\ pc["main"] # "dead" /\ pc["main"] = here
           /\ pc'["main"] = there /\ pc'["thread"] = pc["thread"]
  BY DEF Goto, TypeOK, Actors

\* A step of the thread moves the thread only.
LEMMA ThreadMoves ==
    ASSUME TypeOK, NEW here, NEW there, Goto("thread", here, there)
    PROVE  /\ pc["main"] # "dead" /\ pc'["main"] = pc["main"]
           /\ pc["thread"] = here /\ pc'["thread"] = there
  BY DEF Goto, TypeOK, Actors

\* main keeps the descriptors in order: its close comes after its shutdown.
LEMMA MainDescriptors ==
    ASSUME TypeOK, Descriptors, Main
    PROVE  Descriptors'
  <1> USE FdFacts DEF Descriptors, ThreadOwns, MainCloses, TmpOwned, WithClient
  <1>0. pc["main"] # "dead"
    BY MainMoves DEF Main, Reinitialize, LeaveLoop, TestClient, ShutdownClient, closeClientFd,
       CloseTest, CloseFile, CloseReset, stopListeningForNewClients, SetFlag, OpenTmp, ConnectTmp,
       CloseTmp, Join, closeSocket
  <1>1. CASE Reinitialize \/ LeaveLoop \/ TestClient \/ ShutdownClient \/ SetFlag \/ ConnectTmp \/ Join
    <2>1. /\ UNCHANGED <<clientFd, reg, held, files>>
          /\ pc'["thread"] = pc["thread"]
          /\ \/ pc["main"] = "start" /\ pc'["main"] = "loop"
             \/ /\ running' = running
                /\ \/ pc["main"] = "loop" /\ pc'["main"] = "test" /\ ~running
                   \/ /\ pc["main"] = "test"
                      /\ pc'["main"] = IF clientFd > 0 THEN "shutdown" ELSE "flag"
                   \/ pc["main"] = "shutdown" /\ pc'["main"] = "close"
                   \/ pc["main"] = "flag" /\ pc'["main"] = "socket"
                   \/ pc["main"] = "connect" /\ pc'["main"] = "closetmp"
                   \/ pc["main"] = "join" /\ pc'["main"] = "joined" /\ pc["thread"] = "ended"
      BY <1>1, MainMoves DEF Reinitialize, LeaveLoop, TestClient, ShutdownClient, SetFlag,
         ConnectTmp, Join, shared
    <2>2. Conns' = Conns /\ clientFd \in Fds \cup {NoFd}
      BY <2>1, SameFiles DEF TypeOK
    <2>3. QED
      BY <1>0, <2>1, <2>2
  <1>2. CASE CloseTest("main")
    <2>1. /\ UNCHANGED <<running, clientFd, held, files>>
          /\ pc["main"] = "close" /\ pc'["thread"] = pc["thread"]
          /\ pc'["main"] = IF clientFd = NoFd THEN "flag" ELSE "closing"
          /\ reg'["main"] = clientFd /\ reg'["thread"] = reg["thread"]
      BY <1>2, MainMoves DEF CloseTest, AfterClose, TypeOK, Actors, shared
    <2>2. Conns' = Conns
      BY <2>1, SameFiles
    <2>3. QED
      BY <1>0, <2>1, <2>2
  <1>3. CASE CloseFile("main")
    <2>1. /\ UNCHANGED <<running, clientFd, held, reg>>
          /\ pc["main"] = "closing" /\ pc'["main"] = "reset" /\ pc'["thread"] = pc["thread"]
      BY <1>3, MainMoves DEF CloseFile, shared
    <2>2. PICK f \in {reg["main"], clientFd} : CloseFd(f)
      BY <1>3 DEF CloseFile
    <2>3. f \in Fds \cup {NoFd}
      BY DEF TypeOK, Actors
    <2>4. /\ Conns' = Conns \ {f}
          /\ files' = [g \in Fds |-> IF g = f THEN Closed ELSE files[g]]
      BY <2>2, <2>3, CloseEffect
    <2>5. pc["thread"] \in ThreadPc
      BY DEF TypeOK
    <2>6. Conns \subseteq {f}
      <3>1. Conns \subseteq Fds
        BY DEF Conns
      <3>2. CASE pc["thread"] \in WithClient
        BY <1>0, <2>1, <2>2, <3>1, <3>2
      <3>3. CASE pc["thread"] \notin WithClient
        BY <1>0, <2>1, <2>5, <3>3 DEF ThreadPc
      <3>4. QED
        BY <3>2, <3>3
    <2>7. QED
      BY <1>0, <2>1, <2>4, <2>6
  <1>4. CASE CloseReset("main")
    <2>1. /\ UNCHANGED <<running, held, files, reg>>
          /\ clientFd' = NoFd
          /\ pc["main"] = "reset" /\ pc'["main"] = "flag" /\ pc'["thread"] = pc["thread"]
      BY <1>4, MainMoves DEF CloseReset, AfterClose
    <2>2. Conns' = Conns
      BY <2>1, SameFiles
    <2>3. QED
      BY <1>0, <2>1, <2>2
  <1>5. CASE OpenTmp
    <2>1. /\ UNCHANGED <<running, clientFd, held>>
          /\ pc["main"] = "socket" /\ pc'["main"] = "connect" /\ pc'["thread"] = pc["thread"]
      BY <1>5, MainMoves DEF OpenTmp, shared
    <2>2. PICK f \in Fds : NewFd(f, Tmp) /\ reg' = [reg EXCEPT !["main"] = f]
      BY <1>5 DEF OpenTmp
    <2>3. reg'["main"] = f /\ reg'["thread"] = reg["thread"]
      BY <2>2 DEF TypeOK, Actors
    <2>4. /\ files' = [g \in Fds |-> IF g = f THEN Tmp ELSE files[g]]
          /\ files[f] = Closed /\ f \notin Conns /\ Conns' = Conns
      BY <2>2, NewEffect DEF Files
    <2>5. TmpOwned'
      BY <1>0, <2>1, <2>3, <2>4
    <2>6. ThreadOwns'
      BY <1>0, <2>1, <2>3, <2>4 DEF Conns
    <2>7. QED
      BY <1>0, <2>1, <2>3, <2>4, <2>5, <2>6
  <1>6. CASE CloseTmp
    <2>1. /\ UNCHANGED <<running, clientFd, held, reg>>
          /\ pc["main"] = "closetmp" /\ pc'["main"] = "join" /\ pc'["thread"] = pc["thread"]
          /\ CloseFd(reg["main"])
      BY <1>6, MainMoves DEF CloseTmp, shared
    <2>2. reg["main"] \in Fds \ Conns
      BY <1>0, <2>1
    <2>3. /\ Conns' = Conns
          /\ files' = [g \in Fds |-> IF g = reg["main"] THEN Closed ELSE files[g]]
      BY <2>1, <2>2, CloseEffect
    <2>4. ThreadOwns'
      BY <1>0, <2>1, <2>2, <2>3 DEF Conns
    <2>5. QED
      BY <1>0, <2>1, <2>3, <2>4
  <1>7. CASE closeSocket
    <2>1. /\ running' = running /\ held' = held /\ reg' = reg
          /\ pc["main"] = "joined" /\ pc'["main"] = "done" /\ pc'["thread"] = pc["thread"]
          /\ clientFd' = NoFd
          /\ files' = [f \in Fds |-> IF f = clientFd THEN Closed ELSE files[f]]
      BY <1>7, MainMoves DEF closeSocket
    <2>2. Conns = {}
      BY <1>0, <2>1
    <2>3. Conns' = {}
      BY <2>1, <2>2 DEF Conns
    <2>4. QED
      BY <1>0, <2>1, <2>3
  <1>8. QED
    BY <1>1, <1>2, <1>3, <1>4, <1>5, <1>6, <1>7 DEF Main, closeClientFd, stopListeningForNewClients

\* The client thread keeps the descriptors in order.
LEMMA ThreadDescriptors ==
    ASSUME TypeOK, Descriptors, clientConnectionThread
    PROVE  Descriptors'
  <1> USE FdFacts DEF Descriptors, ThreadOwns, MainCloses, TmpOwned, WithClient
  <1>0. pc["main"] # "dead"
    BY ThreadMoves DEF clientConnectionThread, WhileRunning, connectToClient, Accept, Assign,
       TestFlag, HandleClient, HandleLoop, receivePort, Load, Enter, ReadPort, ReadEnd, Answer,
       sendPid, closeClientFd, CloseTest, CloseFile, CloseReset
  <1>1. CASE WhileRunning
    <2>1. /\ UNCHANGED <<running, clientFd, reg, held, files>>
          /\ pc'["main"] = pc["main"] /\ pc["thread"] = "loop"
          /\ pc'["thread"] = IF running THEN "accept" ELSE "ended"
      BY <1>1, ThreadMoves DEF WhileRunning, shared
    <2>2. Conns' = Conns
      BY <2>1, SameFiles
    <2>3. QED
      BY <1>0, <2>1, <2>2
  <1>2. CASE Accept
    <2>1. /\ UNCHANGED <<running, clientFd, held>>
          /\ pc'["main"] = pc["main"] /\ pc["thread"] = "accept" /\ pc'["thread"] = "assign"
          /\ backlog # <<>>
      BY <1>2, ThreadMoves DEF Accept, shared
    <2>2. PICK f \in Fds : NewFd(f, Head(backlog)) /\ reg' = [reg EXCEPT !["thread"] = f]
      BY <1>2 DEF Accept
    <2>3. reg'["thread"] = f /\ reg'["main"] = reg["main"]
      BY <2>2 DEF TypeOK, Actors
    <2>4. Head(backlog) \in Clients \cup {Dummy}
      BY <2>1, QueueEffect
    <2>5. /\ files' = [g \in Fds |-> IF g = f THEN Head(backlog) ELSE files[g]]
          /\ files[f] = Closed /\ Conns' = Conns \cup {f}
      BY <2>2, <2>4, NewEffect DEF Files
    <2>6. TmpOwned'
      BY <1>0, <2>1, <2>3, <2>4, <2>5
    <2>7. QED
      BY <1>0, <2>1, <2>3, <2>5, <2>6
  <1>3. CASE Assign
    <2>1. /\ UNCHANGED <<running, reg, held, files>>
          /\ clientFd' = reg["thread"]
          /\ pc'["main"] = pc["main"] /\ pc["thread"] = "assign" /\ pc'["thread"] = "flag"
      BY <1>3, ThreadMoves DEF Assign
    <2>2. Conns' = Conns
      BY <2>1, SameFiles
    <2>3. QED
      BY <1>0, <2>1, <2>2
  <1>4. CASE TestFlag \/ HandleClient \/ HandleLoop \/ ReadPort \/ ReadEnd \/ sendPid
    <2>1. /\ UNCHANGED <<running, clientFd, reg, files>>
          /\ pc'["main"] = pc["main"]
          /\ pc["thread"] \in WithClient /\ pc'["thread"] \in WithClient \ {"read"}
      BY <1>4, ThreadMoves DEF TestFlag, HandleClient, HandleLoop, ReadPort, ReadEnd, sendPid, shared
    <2>2. Conns' = Conns
      BY <2>1, SameFiles
    <2>3. QED
      BY <1>0, <2>1, <2>2
  <1>5. CASE Load \/ Answer
    <2>1. /\ UNCHANGED <<running, clientFd, held, files>>
          /\ pc'["main"] = pc["main"]
          /\ pc["thread"] \in WithClient /\ pc'["thread"] \in WithClient \ {"read"}
          /\ reg'["thread"] = clientFd /\ reg'["main"] = reg["main"]
      BY <1>5, ThreadMoves DEF Load, Answer, shared, TypeOK, Actors
    <2>2. Conns' = Conns
      BY <2>1, SameFiles
    <2>3. QED
      BY <1>0, <2>1, <2>2
  <1>6. CASE Enter
    <2>1. /\ UNCHANGED <<running, clientFd, reg, files>>
          /\ pc'["main"] = pc["main"]
          /\ pc["thread"] = "enter" /\ pc'["thread"] \in {"close", "read"}
          /\ held' = File(reg["thread"])
      BY <1>6, ThreadMoves DEF Enter, shared
    <2>2. Conns' = Conns /\ Conns \subseteq Fds
      BY <2>1, SameFiles DEF Conns
    <2>3. Conns # {} => held' = files[clientFd]
      BY <1>0, <2>1, <2>2 DEF File
    <2>4. QED
      BY <1>0, <2>1, <2>2, <2>3
  <1>7. CASE CloseTest("thread")
    <2>1. /\ UNCHANGED <<running, clientFd, held, files>>
          /\ pc'["main"] = pc["main"] /\ pc["thread"] = "close"
          /\ pc'["thread"] = IF clientFd = NoFd THEN "loop" ELSE "closing"
          /\ reg'["thread"] = clientFd /\ reg'["main"] = reg["main"]
      BY <1>7, ThreadMoves DEF CloseTest, AfterClose, TypeOK, Actors, shared
    <2>2. Conns' = Conns /\ Conns \subseteq Fds
      BY <2>1, SameFiles DEF Conns
    <2>3. QED
      BY <1>0, <2>1, <2>2
  <1>8. CASE CloseFile("thread")
    <2>1. /\ UNCHANGED <<running, clientFd, held, reg>>
          /\ pc'["main"] = pc["main"] /\ pc["thread"] = "closing" /\ pc'["thread"] = "reset"
      BY <1>8, ThreadMoves DEF CloseFile, shared
    <2>2. PICK f \in {reg["thread"], clientFd} : CloseFd(f)
      BY <1>8 DEF CloseFile
    <2>3. f \in Fds \cup {NoFd}
      BY DEF TypeOK, Actors
    <2>4. /\ Conns' = Conns \ {f}
          /\ files' = [g \in Fds |-> IF g = f THEN Closed ELSE files[g]]
      BY <2>2, <2>3, CloseEffect
    <2>5. Conns' = {} /\ Conns \subseteq Fds
      <3>1. Conns \subseteq Fds
        BY DEF Conns
      <3>2. QED
        BY <1>0, <2>1, <2>2, <2>4, <3>1
    <2>6. TmpOwned'
      <3> SUFFICES ASSUME pc["main"] \in {"connect", "closetmp"}, clientFd # NoFd
                   PROVE  files'[reg["main"]] = Tmp
        BY <1>0, <2>1, <2>4, <2>5
      <3>1. f = clientFd /\ clientFd \in Conns /\ reg["main"] \in Fds \ Conns
        BY <1>0, <2>1, <2>2
      <3>2. QED
        BY <1>0, <2>1, <2>4, <3>1
    <2>7. QED
      BY <1>0, <2>1, <2>5, <2>6
  <1>9. CASE CloseReset("thread")
    <2>1. /\ UNCHANGED <<running, held, files, reg>>
          /\ clientFd' = NoFd
          /\ pc'["main"] = pc["main"] /\ pc["thread"] = "reset" /\ pc'["thread"] = "loop"
      BY <1>9, ThreadMoves DEF CloseReset, AfterClose
    <2>2. Conns' = Conns
      BY <2>1, SameFiles
    <2>3. QED
      BY <1>0, <2>1, <2>2
  <1>10. QED
    BY <1>1, <1>2, <1>3, <1>4, <1>5, <1>6, <1>7, <1>8, <1>9
       DEF clientConnectionThread, connectToClient, receivePort, closeClientFd

\* So do the clients, the signal and death.
LEMMA OthersDescriptors ==
    ASSUME TypeOK, Descriptors, \/ \E c \in Clients : Connect(c) \/ Ask(c) \/ Leave(c)
                                \/ handleSignal
                                \/ Die
                                \/ UNCHANGED vars
    PROVE  Descriptors'
  <1>1. CASE Die
    BY <1>1 DEF Die, TypeOK, Actors, Descriptors
  <1>2. CASE ~Die
    <2>1. /\ UNCHANGED <<clientFd, pc, reg, held, files>>
          /\ running' = running \/ ~running'
      BY <1>2 DEF Connect, Ask, Leave, handleSignal, vars, shared
    <2>2. Conns' = Conns
      BY <2>1, SameFiles
    <2>3. QED
      BY <2>1, <2>2 DEF Descriptors, ThreadOwns, MainCloses, TmpOwned
  <1>3. QED
    BY <1>1, <1>2

-----------------------------------------------------------------------------
(* Connections and questions *)

\* Which clients have a descriptor after close().
LEMMA CloseOpen ==
    ASSUME TypeOK, NEW f \in Fds \cup {NoFd}, CloseFd(f)
    PROVE  /\ \A x : IsOpen(x)' /\ x # Closed => IsOpen(x)
           /\ \A x : IsOpen(x) => IsOpen(x)' \/ File(f) = x
           /\ \A c \in requests' : File(f) = c => pc["thread"] = "read" /\ held = c
           /\ \A c \in Clients : conn'[c] = "up" /\ File(f) = c => pc["thread"] = "read" /\ held = c
  <1>1. files' = [g \in Fds |-> IF g = f THEN Closed ELSE files[g]]
    BY CloseEffect
  <1>2. \A x : IsOpen(x)' /\ x # Closed => IsOpen(x)
    BY <1>1 DEF IsOpen
  <1>3. \A x : IsOpen(x) => IsOpen(x)' \/ File(f) = x
    BY <1>1 DEF IsOpen, File
  <1>4. QED
    BY <1>2, <1>3 DEF CloseFd, HangUp, TypeOK

\* What is open after a new descriptor is given out.
LEMMA NewOpen ==
    ASSUME TypeOK, NEW f \in Fds, NEW x \in Files, NewFd(f, x), NEW y, y # Closed
    PROVE  IsOpen(y)' <=> IsOpen(y) \/ y = x
  BY NewEffect DEF IsOpen

\* A client with a descriptor has one of Conns.
LEMMA OpenConns ==
    ASSUME NEW c \in Clients \cup {Dummy}
    PROVE  IsOpen(c) <=> \E f \in Conns : files[f] = c
  BY DEF IsOpen, Conns

\* A step that leaves the connections alone and enters no new phase.
LEMMA SameClients ==
    ASSUME TypeOK, Connected, Questions,
           files' = files, backlog' = backlog, asked' = asked, requests' = requests, conn' = conn,
           pc'["main"] \in {"close", "closing"} => pc["main"] \in {"close", "closing"},
           pc["thread"] = "read" => pc'["thread"] = "read" /\ held' = held,
           pc'["thread"] \in {"answer", "write"} => pc["thread"] \in {"answer", "write"}
    PROVE  Connected' /\ Questions'
  BY SameFiles DEF Connected, Questions, Waiting

\* main closes no connection that is up, and touches no question.
LEMMA MainClients ==
    ASSUME ServerInv, Main
    PROVE  Connected' /\ Questions'
  <1> USE FdFacts DEF ServerInv
  <1>0. TypeOK /\ Descriptors /\ Connected /\ Questions /\ requests \in SUBSET Clients
    BY DEF TypeOK
  <1>1. CASE Reinitialize \/ LeaveLoop \/ TestClient \/ SetFlag \/ Join \/ CloseTest("main")
             \/ CloseReset("main")
    <2>1. /\ UNCHANGED <<files, backlog, asked, requests, conn, held>>
          /\ pc'["thread"] = pc["thread"]
          /\ pc'["main"] \in {"close", "closing"} => pc["main"] \in {"close", "closing"}
      BY <1>1, MainMoves DEF Reinitialize, LeaveLoop, TestClient, SetFlag, Join, CloseTest,
         CloseReset, AfterClose, service
    <2>2. QED
      BY <2>1, SameClients
  <1>2. CASE ShutdownClient
    <2>1. /\ UNCHANGED <<files, backlog, asked, requests, held>>
          /\ pc["main"] = "shutdown" /\ pc'["thread"] = pc["thread"]
          /\ conn' = [c \in Clients |->
                         IF File(clientFd) = c /\ conn[c] = "up" THEN "down" ELSE conn[c]]
      BY <1>2, MainMoves DEF ShutdownClient
    <2>2. Conns \subseteq {clientFd} /\ Conns \subseteq Fds
      BY <2>1 DEF Descriptors, ThreadOwns, MainCloses, WithClient, TypeOK, ThreadPc, Conns
    <2>3. \A c \in Clients : IsOpen(c) => conn'[c] # "up"
      BY <2>1, <2>2, OpenConns DEF File
    <2>4. \A c \in Clients : conn'[c] = conn[c] \/ (conn[c] = "up" /\ conn'[c] = "down")
      BY <2>1
    <2>5. QED
      BY <1>0, <2>1, <2>3, <2>4, SameFiles DEF Connected, Questions, Waiting
  <1>3. CASE CloseFile("main") \/ CloseTmp
    <2>1. /\ UNCHANGED <<backlog, held>>
          /\ pc'["main"] \in {"reset", "join"} /\ pc'["thread"] = pc["thread"]
          /\ pc["main"] \in {"closing", "closetmp"}
      BY <1>3, MainMoves DEF CloseFile, CloseTmp
    <2>2. PICK f \in Fds \cup {NoFd} :
             CloseFd(f) /\ (pc["main"] = "closetmp" => f = reg["main"])
      BY <1>3, MainMoves DEF CloseFile, CloseTmp, TypeOK, Actors
    <2>3. \A c \in Clients : File(f) = c => conn[c] # "up"
      <3>1. CASE pc["main"] = "closing"
        BY <3>1 DEF Connected, File, IsOpen
      <3>2. CASE pc["main"] = "closetmp"
        BY <2>2, <3>2 DEF Descriptors, TmpOwned, Conns, File
      <3>3. QED
        BY <2>1, <3>1, <3>2
    <2>4. /\ asked' = asked
          /\ \A c \in Clients : conn'[c] = conn[c] \/ (conn[c] = "up" /\ conn'[c] = "down")
          /\ requests' \subseteq requests
      BY <2>2, CloseEffect
    <2>5. /\ \A x \in Clients : IsOpen(x)' => IsOpen(x)
          /\ \A x \in Clients : IsOpen(x) => IsOpen(x)' \/ File(f) = x
          /\ \A c \in requests' : File(f) = c => pc["thread"] = "read" /\ held = c
      BY <2>2, CloseOpen
    <2>6. Connected'
      BY <1>0, <2>1, <2>3, <2>4, <2>5, SameFiles DEF Connected
    <2>7. QED
      BY <1>0, <2>1, <2>4, <2>5, <2>6, SameFiles DEF Questions, Waiting
  <1>4. CASE OpenTmp
    <2>1. /\ UNCHANGED <<backlog, asked, requests, conn, held>>
          /\ pc'["main"] = "connect" /\ pc'["thread"] = pc["thread"]
      BY <1>4, MainMoves DEF OpenTmp, service
    <2>2. \A c \in Clients : IsOpen(c)' <=> IsOpen(c)
      BY <1>4, NewOpen DEF OpenTmp, Files
    <2>3. QED
      BY <1>0, <2>1, <2>2, SameFiles DEF Connected, Questions, Waiting
  <1>5. CASE ConnectTmp
    <2>1. /\ UNCHANGED <<files, asked, requests, conn, held>>
          /\ pc'["main"] = "closetmp" /\ pc'["thread"] = pc["thread"]
          /\ backlog' = backlog \/ backlog' = Append(backlog, Dummy)
      BY <1>5, MainMoves DEF ConnectTmp, service
    <2>2. \A x : Queued(x) => Queued(x)'
      BY <2>1, QueueEffect, SameFiles
    <2>3. QED
      BY <1>0, <2>1, <2>2, SameFiles DEF Connected, Questions, Waiting
  <1>6. CASE closeSocket
    <2>1. /\ asked' = asked /\ held' = held
          /\ pc["main"] = "joined" /\ pc'["main"] = "done" /\ pc'["thread"] = pc["thread"]
          /\ HangUp({File(clientFd)} \cup {c \in Clients : Queued(c)})
      BY <1>6, MainMoves DEF closeSocket, HangUp
    <2>2. Conns = {} /\ pc["thread"] = "ended"
      BY <2>1 DEF Descriptors, MainCloses, ThreadOwns
    <2>3. \A c \in Clients : ~IsOpen(c)
      BY <2>2, OpenConns
    <2>4. requests' = {} /\ \A c \in Clients : conn'[c] # "up"
      BY <1>0, <2>1, <2>2, <2>3 DEF HangUp, Connected, Questions
    <2>5. QED
      BY <2>1, <2>2, <2>4 DEF Connected, Questions
  <1>7. QED
    BY <1>1, <1>2, <1>3, <1>4, <1>5, <1>6 DEF Main, closeClientFd, stopListeningForNewClients

\* read() fails on a client's connection only if that has ended, and no port is
\* left in it.
LEMMA FailedRead ==
    ASSUME NEW c \in Clients, ReadFails(c)
    PROVE  conn[c] # "up" /\ c \notin requests
  BY FdFacts DEF ReadFails

\* The thread reads, answers and closes the connection it has.
LEMMA ThreadClients ==
    ASSUME ServerInv, clientConnectionThread
    PROVE  Connected' /\ Questions'
  <1> USE FdFacts DEF ServerInv
  <1>0. TypeOK /\ Descriptors /\ Connected /\ Questions /\ requests \in SUBSET Clients
    BY DEF TypeOK
  <1>1. CASE WhileRunning \/ Assign \/ TestFlag \/ HandleClient \/ HandleLoop \/ Load \/ Enter
             \/ Answer \/ CloseTest("thread") \/ CloseReset("thread")
    <2>1. /\ UNCHANGED <<files, backlog, asked, requests, conn>>
          /\ pc'["main"] = pc["main"]
          /\ pc["thread"] # "read"
          /\ pc'["thread"] \in {"answer", "write"} => pc["thread"] \in {"answer", "write"}
      BY <1>1, ThreadMoves DEF WhileRunning, Assign, TestFlag, HandleClient, HandleLoop, Load,
         Enter, Answer, CloseTest, CloseReset, AfterClose, service
    <2>2. QED
      BY <2>1, SameClients
  <1>2. CASE Accept
    <2>1. /\ UNCHANGED <<asked, requests, conn, held>>
          /\ pc'["main"] = pc["main"]
          /\ pc["main"] # "dead" /\ pc["thread"] = "accept" /\ pc'["thread"] = "assign"
          /\ backlog # <<>> /\ backlog' = Tail(backlog)
      BY <1>2, ThreadMoves DEF Accept, service
    <2>2. pc["main"] \notin {"close", "closing"}
      BY <2>1 DEF Descriptors, MainCloses
    <2>3. \A c \in Clients : IsOpen(c)' <=> IsOpen(c) \/ c = Head(backlog)
      BY <1>2, <2>1, NewOpen, QueueEffect DEF Accept, Files
    <2>4. \A c \in Clients : Queued(c) => Queued(c)' \/ c = Head(backlog)
      BY <2>1, QueueEffect
    <2>5. QED
      BY <1>0, <2>1, <2>2, <2>3, <2>4 DEF Connected, Questions, Waiting
  <1>3. CASE ReadPort
    <2>1. /\ UNCHANGED <<files, backlog, asked, conn>>
          /\ pc'["main"] = pc["main"]
          /\ pc["main"] # "dead" /\ pc["thread"] = "read" /\ pc'["thread"] = "answer"
          /\ held \in requests
          /\ requests' = requests \ {held}
      BY <1>3, ThreadMoves DEF ReadPort
    <2>2. \A c \in Clients : IsOpen(c) => c = held
      BY <2>1, OpenConns DEF Descriptors, ThreadOwns, WithClient
    <2>3. QED
      BY <1>0, <2>1, <2>2, SameFiles DEF Connected, Questions, Waiting
  <1>4. CASE ReadEnd
    <2>1. /\ UNCHANGED <<files, backlog, asked, conn, requests>>
          /\ pc'["main"] = pc["main"]
          /\ pc["thread"] = "read" /\ pc'["thread"] = "close"
          /\ ReadFails(held)
      BY <1>4, ThreadMoves DEF ReadEnd, service
    <2>2. held \notin requests
      BY <1>0, <2>1, FailedRead
    <2>3. QED
      BY <1>0, <2>1, <2>2, SameFiles DEF Connected, Questions, Waiting
  <1>5. CASE sendPid
    <2>1. /\ UNCHANGED <<files, backlog, conn, requests, held>>
          /\ pc'["main"] = pc["main"]
          /\ pc["thread"] = "write" /\ pc'["thread"] = "running"
          /\ asked' = [c \in Clients |-> asked[c] /\ File(reg["thread"]) # c]
      BY <1>5, ThreadMoves DEF sendPid
    <2>2. \A c \in requests : File(reg["thread"]) # c
      BY <1>0, <2>1 DEF Questions, File, IsOpen
    <2>3. \A c \in requests : asked'[c] <=> asked[c]
      BY <1>0, <2>1, <2>2 DEF TypeOK
    <2>4. QED
      BY <1>0, <2>1, <2>3, SameFiles DEF Connected, Questions, Waiting
  <1>6. CASE CloseFile("thread")
    <2>1. /\ UNCHANGED <<backlog, held>>
          /\ pc'["main"] = pc["main"]
          /\ pc["thread"] = "closing" /\ pc'["thread"] = "reset"
      BY <1>6, ThreadMoves DEF CloseFile
    <2>2. PICK f \in Fds \cup {NoFd} : CloseFd(f)
      BY <1>6 DEF CloseFile, TypeOK, Actors
    <2>3. /\ asked' = asked
          /\ \A c \in Clients : conn'[c] = conn[c] \/ (conn[c] = "up" /\ conn'[c] = "down")
          /\ requests' \subseteq requests
      BY <2>2, CloseEffect
    <2>4. /\ \A x \in Clients : IsOpen(x)' => IsOpen(x)
          /\ \A x \in Clients : IsOpen(x) => IsOpen(x)' \/ File(f) = x
          /\ \A c \in requests' : File(f) # c
          /\ \A c \in Clients : conn'[c] = "up" => File(f) # c
      BY <2>1, <2>2, CloseOpen
    <2>5. Connected'
      BY <1>0, <2>1, <2>3, <2>4, SameFiles DEF Connected
    <2>6. QED
      BY <1>0, <2>1, <2>3, <2>4, <2>5, SameFiles DEF Questions, Waiting
  <1>7. QED
    BY <1>1, <1>2, <1>3, <1>4, <1>5, <1>6
       DEF clientConnectionThread, connectToClient, receivePort, closeClientFd

\* The clients ask only when connected, and leave with their questions.
LEMMA OthersClients ==
    ASSUME ServerInv, \/ \E c \in Clients : Connect(c) \/ Ask(c) \/ Leave(c)
                      \/ handleSignal
                      \/ Die
                      \/ UNCHANGED vars
    PROVE  Connected' /\ Questions'
  <1> USE DEF ServerInv
  <1>0. /\ TypeOK /\ Connected /\ Questions
        /\ requests \in SUBSET Clients
        /\ conn \in [Clients -> {"none", "up", "down"}] /\ asked \in [Clients -> BOOLEAN]
    BY DEF TypeOK
  <1>1. ASSUME NEW c \in Clients, Connect(c) PROVE Connected' /\ Questions'
    <2>1. /\ UNCHANGED <<files, pc, held, asked, requests>>
          /\ conn' = [conn EXCEPT ![c] = "up"]
          /\ ~Queued(c) /\ ~IsOpen(c) /\ ~(pc["thread"] = "read" /\ held = c)
      BY <1>1 DEF Connect
    <2>2. \A x : Queued(x)' <=> Queued(x) \/ x = c
      BY <1>1, QueueEffect DEF Connect
    <2>3. c \notin requests
      BY <1>0, <2>1 DEF Questions
    <2>4. \A d \in Clients : d # c => conn'[d] = conn[d]
      BY <1>0, <2>1
    <2>5. QED
      BY <1>0, <2>1, <2>2, <2>3, <2>4, SameFiles DEF Connected, Questions, Waiting
  <1>2. ASSUME NEW c \in Clients, Ask(c) PROVE Connected' /\ Questions'
    <2>1. /\ UNCHANGED <<files, backlog, pc, held, conn>>
          /\ conn[c] = "up" /\ ~asked[c]
          /\ asked' = [asked EXCEPT ![c] = TRUE]
          /\ requests' = requests \cup {c}
      BY <1>2 DEF Ask
    <2>2. asked'[c] /\ \A d \in Clients : d # c => asked'[d] = asked[d]
      BY <1>0, <2>1
    <2>3. QED
      BY <1>0, <2>1, <2>2, SameFiles DEF Connected, Questions, Waiting
  <1>3. ASSUME NEW c \in Clients, Leave(c) PROVE Connected' /\ Questions'
    <2>1. /\ UNCHANGED <<files, backlog, pc, held, requests>>
          /\ conn' = [conn EXCEPT ![c] = "none"]
          /\ asked' = [asked EXCEPT ![c] = FALSE]
      BY <1>3 DEF Leave
    <2>2. conn'[c] = "none" /\ \A d \in Clients : d # c => asked'[d] = asked[d] /\ conn'[d] = conn[d]
      BY <1>0, <2>1
    <2>3. QED
      BY <1>0, <2>1, <2>2, SameFiles DEF Connected, Questions, Waiting
  <1>4. CASE handleSignal \/ UNCHANGED vars
    BY <1>0, <1>4, SameClients DEF handleSignal, service, vars
  <1>5. CASE Die
    <2>1. /\ UNCHANGED <<files, backlog, held, asked>>
          /\ pc'["main"] = "dead" /\ pc'["thread"] = pc["thread"]
          /\ requests' = {}
          /\ \A c \in Clients : conn'[c] = IF conn[c] = "up" THEN "down" ELSE conn[c]
      BY <1>0, <1>5 DEF Die, HangUp, TypeOK, Actors
    <2>2. QED
      BY <1>0, <2>1, SameFiles DEF Connected, Questions, Waiting
  <1>6. QED
    BY <1>1, <1>2, <1>3, <1>4, <1>5

\* Descriptors, connections and questions together, for main, the thread, the
\* clients, the signal and the death of the process.
THEOREM ServerInvariant == Spec => []ServerInv
  <1>1. Init => ServerInv
    <2> SUFFICES ASSUME Init PROVE ServerInv
      OBVIOUS
    <2>1. /\ pc["main"] = "start" /\ pc["thread"] = "loop"
          /\ clientFd = NoFd /\ requests = {} /\ running = TRUE
          /\ \A f \in Fds : files[f] = Closed
          /\ \A c \in Clients : conn[c] = "none"
      BY DEF Init
    <2>2. Conns = {}
      BY <2>1, FdFacts DEF Conns
    <2>3. Descriptors
      BY <2>1, <2>2, FdFacts DEF Descriptors, ThreadOwns, MainCloses, TmpOwned, WithClient
    <2>4. QED
      BY <2>1, <2>3, InitType DEF ServerInv, Connected, Questions
  <1>2. ServerInv /\ [Next]_vars => ServerInv'
    <2> SUFFICES ASSUME ServerInv, [Next]_vars PROVE ServerInv'
      OBVIOUS
    <2> USE DEF ServerInv
    <2>1. CASE Main
      BY <2>1, MainType, MainDescriptors, MainClients
    <2>2. CASE clientConnectionThread
      BY <2>2, ThreadType, ThreadDescriptors, ThreadClients
    <2>3. CASE (\E c \in Clients : Connect(c) \/ Ask(c) \/ Leave(c)) \/ handleSignal \/ Die
      BY <2>3, OthersType, OthersDescriptors, OthersClients
    <2>4. CASE UNCHANGED vars
      <3>1. TypeOK'
        BY <2>4 DEF vars, TypeOK
      <3>2. QED
        BY <2>4, <3>1, OthersDescriptors, OthersClients
    <2>5. QED
      BY <2>1, <2>2, <2>3, <2>4 DEF Next
  <1>3. QED
    BY <1>1, <1>2, PTL DEF Spec

\* When main has joined the client thread no descriptor is left open, whatever
\* the order in which closeClientFd of main, closeClientFd of the thread and
\* stopListeningForNewClients use the one clientFd and reuse its number.
THEOREM NothingLeaks == Spec => []NoLeak
  <1>1. ServerInv => NoLeak
    <2> SUFFICES ASSUME ServerInv, pc["main"] \in {"joined", "done"}, NEW f \in Fds
                 PROVE  files[f] = Closed
      BY DEF NoLeak
    <2>1. Conns = {} /\ files[f] # Tmp
      BY DEF ServerInv, Descriptors, MainCloses, ThreadOwns, TmpOwned
    <2>2. files[f] \in Files
      BY DEF ServerInv, TypeOK
    <2>3. QED
      BY <2>1, <2>2 DEF Files, Conns
  <1>2. QED
    BY ServerInvariant, <1>1, PTL

\* sendPid writes to the client whose port receivePort has read, or to none.
THEOREM AnswersAreAsked == Spec => []AnswerIsAsked
  <1>1. ServerInv => AnswerIsAsked
    BY FdFacts DEF ServerInv, Questions, Waiting, AnswerIsAsked, File, IsOpen
  <1>2. QED
    BY ServerInvariant, <1>1, PTL

-----------------------------------------------------------------------------
(* The abstract service *)

\* While the daemon serves, main only enters its loop.
LEMMA MainServing ==
    ASSUME ServerInv, Serving, Main, ~signalled
    PROVE  Reinitialize
  <1>1. pc["main"] # "dead"
    BY MainMoves DEF ServerInv, Main, Reinitialize, LeaveLoop, TestClient, ShutdownClient,
       closeClientFd, CloseTest, CloseFile, CloseReset, stopListeningForNewClients, SetFlag, OpenTmp,
       ConnectTmp, CloseTmp, Join, closeSocket
  <1>2. pc["main"] \in {"start", "loop"} /\ running
    BY <1>1 DEF Serving
  <1>3. QED
    BY <1>2 DEF Main, LeaveLoop, TestClient, ShutdownClient, closeClientFd, CloseTest, CloseFile,
       CloseReset, stopListeningForNewClients, SetFlag, OpenTmp, ConnectTmp, CloseTmp, Join,
       closeSocket, Goto

\* The thread comes to closeClientFd only when read() has failed.
LEMMA ThreadServing ==
    ASSUME ServerInv, Serving, clientConnectionThread
    PROVE  Serving'
  <1> SUFFICES ASSUME ~signalled, pc["main"] # "dead" PROVE Serving'
    <2>1. pc'["main"] = pc["main"] /\ signalled' = signalled
      BY ThreadMoves DEF ServerInv, clientConnectionThread, WhileRunning, connectToClient, Accept,
         Assign, TestFlag, HandleClient, HandleLoop, receivePort, Load, Enter, ReadPort, ReadEnd,
         Answer, sendPid, closeClientFd, CloseTest, CloseFile, CloseReset
    <2>2. QED
      BY <2>1 DEF Serving
  <1> USE FdFacts DEF ServerInv, WithClient
  <1>0. /\ TypeOK /\ Descriptors
        /\ pc["main"] \in {"start", "loop"} /\ running /\ ~isShuttingDown
        /\ ~Queued(Dummy) /\ ~IsOpen(Dummy)
        /\ pc["thread"] \in WithClient =>
              Conns = {clientFd} /\ clientFd \in Fds /\ reg["thread"] = clientFd
    BY DEF Serving, Descriptors, ThreadOwns, TypeOK
  <1>1. CASE WhileRunning \/ TestFlag \/ HandleClient \/ HandleLoop \/ ReadPort \/ sendPid
             \/ Load \/ Answer
    <2>1. UNCHANGED <<running, isShuttingDown, signalled, clientFd, files, backlog>>
      BY <1>1, Zenon DEF WhileRunning, TestFlag, HandleClient, HandleLoop, ReadPort, sendPid, Load,
         Answer, shared
    <2>2. /\ pc'["main"] = pc["main"]
          /\ pc'["thread"] \notin {"close", "closing"}
          /\ pc'["thread"] \in WithClient => pc["thread"] \in WithClient
      <3>1. CASE TestFlag
        <4>1. pc["thread"] = "flag"
          BY <3>1, ThreadMoves DEF TestFlag
        <4>2. PICK f \in {reg["thread"], clientFd} :
                 Goto("thread", "flag", IF f < 0 \/ isShuttingDown THEN "close" ELSE "handle")
          BY <3>1 DEF TestFlag
        <4>3. ~(f < 0)
          BY <1>0, <4>1, <4>2
        <4>4. pc'["main"] = pc["main"] /\ pc'["thread"] = "handle"
          BY <1>0, <4>2, <4>3, ThreadMoves
        <4>5. QED
          BY <4>1, <4>4
      <3>2. CASE HandleClient
        BY <1>0, <3>2, ThreadMoves DEF HandleClient
      <3>3. CASE WhileRunning \/ HandleLoop
        <4>1. Goto("thread", "loop", "accept") \/ Goto("thread", "running", "load")
          BY <1>0, <3>3 DEF WhileRunning, HandleLoop
        <4>2. QED
          BY <4>1, ThreadMoves
      <3>4. CASE ReadPort \/ sendPid \/ Load \/ Answer
        BY <3>4, ThreadMoves DEF ReadPort, sendPid, Load, Answer
      <3>5. QED
        BY <1>1, <3>1, <3>2, <3>3, <3>4
    <2>3. QED
      BY <1>0, <2>1, <2>2, SameFiles DEF Serving
  <1>2. CASE Enter
    <2>1. /\ UNCHANGED <<running, isShuttingDown, signalled, clientFd, files, backlog>>
          /\ pc'["main"] = pc["main"] /\ pc["thread"] = "enter"
          /\ pc'["thread"] = IF File(reg["thread"]) = Closed THEN "close" ELSE "read"
      BY <1>2, ThreadMoves DEF Enter, shared
    <2>2. File(reg["thread"]) # Closed
      BY <1>0, <2>1 DEF Conns, File
    <2>3. QED
      BY <1>0, <2>1, <2>2, SameFiles DEF Serving
  <1>3. CASE ReadEnd
    <2>1. /\ UNCHANGED <<running, isShuttingDown, signalled, clientFd, files, backlog, conn>>
          /\ pc'["main"] = pc["main"] /\ pc["thread"] = "read" /\ pc'["thread"] = "close"
          /\ ReadFails(held)
      BY <1>3, ThreadMoves DEF ReadEnd, shared, service
    <2>2. \A c \in Clients : IsOpen(c) => c = held
      BY <1>0, <2>1, OpenConns DEF Descriptors, ThreadOwns
    <2>3. \A c \in Clients : IsOpen(c) => conn[c] # "up"
      BY <2>1, <2>2, FailedRead
    <2>4. QED
      BY <1>0, <2>1, <2>3, SameFiles DEF Serving
  <1>4. CASE Accept
    <2>1. /\ UNCHANGED <<running, isShuttingDown, signalled, clientFd>>
          /\ pc'["main"] = pc["main"] /\ pc'["thread"] = "assign"
          /\ backlog # <<>> /\ backlog' = Tail(backlog)
      BY <1>4, ThreadMoves DEF Accept, shared
    <2>2. ~Queued(Dummy)' /\ Head(backlog) # Dummy
      BY <1>0, <2>1, QueueEffect
    <2>3. ~IsOpen(Dummy)'
      BY <1>0, <1>4, <2>1, <2>2, NewOpen, QueueEffect DEF Accept, Files
    <2>4. QED
      BY <1>0, <2>1, <2>2, <2>3 DEF Serving
  <1>5. CASE Assign
    <2>1. /\ UNCHANGED <<running, isShuttingDown, signalled, files, backlog>>
          /\ pc'["main"] = pc["main"] /\ pc["thread"] = "assign" /\ pc'["thread"] = "flag"
          /\ clientFd' = reg["thread"]
      BY <1>5, ThreadMoves DEF Assign
    <2>2. reg["thread"] \in Fds
      BY <1>0, <2>1 DEF Descriptors, ThreadOwns, Conns
    <2>3. QED
      BY <1>0, <2>1, <2>2, SameFiles DEF Serving
  <1>6. CASE CloseTest("thread")
    <2>1. /\ UNCHANGED <<running, isShuttingDown, signalled, clientFd, files, backlog, conn>>
          /\ pc'["main"] = pc["main"] /\ pc["thread"] = "close"
          /\ pc'["thread"] = IF clientFd = NoFd THEN "loop" ELSE "closing"
      BY <1>6, ThreadMoves DEF CloseTest, AfterClose, shared, service
    <2>2. QED
      BY <1>0, <2>1, SameFiles DEF Serving
  <1>7. CASE CloseFile("thread")
    <2>1. /\ UNCHANGED <<running, isShuttingDown, signalled, clientFd, backlog>>
          /\ pc'["main"] = pc["main"] /\ pc'["thread"] = "reset"
      BY <1>7, ThreadMoves DEF CloseFile, shared
    <2>2. ~IsOpen(Dummy)'
      BY <1>0, <1>7, CloseOpen DEF CloseFile, TypeOK, Actors
    <2>3. QED
      BY <1>0, <2>1, <2>2, SameFiles DEF Serving
  <1>8. CASE CloseReset("thread")
    <2>1. /\ UNCHANGED <<running, isShuttingDown, signalled, files, backlog>>
          /\ pc'["main"] = pc["main"] /\ pc'["thread"] = "loop"
      BY <1>8, ThreadMoves DEF CloseReset, AfterClose
    <2>2. QED
      BY <1>0, <2>1, SameFiles DEF Serving
  <1>9. QED
    BY <1>1, <1>2, <1>3, <1>4, <1>5, <1>6, <1>7, <1>8
       DEF clientConnectionThread, connectToClient, receivePort, closeClientFd

\* Every step of a daemon that serves keeps it serving.
LEMMA StepServing == ServerInv /\ Serving /\ [Next]_vars => Serving'
  <1> SUFFICES ASSUME ServerInv, Serving, [Next]_vars PROVE Serving'
    OBVIOUS
  <1>0. TypeOK /\ conn \in [Clients -> {"none", "up", "down"}]
    BY DEF ServerInv, TypeOK
  <1>1. CASE Main
    <2>1. CASE signalled
      BY <1>1, <2>1 DEF Main, Reinitialize, LeaveLoop, TestClient, ShutdownClient, closeClientFd,
         CloseTest, CloseFile, CloseReset, stopListeningForNewClients, SetFlag, OpenTmp, ConnectTmp,
         CloseTmp, Join, closeSocket, Serving
    <2>2. CASE ~signalled
      <3>1. /\ UNCHANGED <<isShuttingDown, signalled, clientFd, files, backlog, conn>>
            /\ pc["main"] # "dead" /\ pc'["main"] = "loop" /\ pc'["thread"] = pc["thread"]
            /\ running'
        BY <1>0, <1>1, <2>2, MainServing, MainMoves DEF Reinitialize, service
      <3>2. QED
        BY <2>2, <3>1, SameFiles DEF Serving
    <2>3. QED
      BY <2>1, <2>2
  <1>2. CASE clientConnectionThread
    BY <1>2, ThreadServing
  <1>3. ASSUME NEW c \in Clients, Connect(c) PROVE Serving'
    <2>1. /\ UNCHANGED <<running, isShuttingDown, signalled, clientFd, pc, files>>
          /\ conn' = [conn EXCEPT ![c] = "up"] /\ ~IsOpen(c)
      BY <1>3 DEF Connect, shared
    <2>2. Queued(Dummy)' => Queued(Dummy)
      BY <1>0, <1>3, QueueEffect, FdFacts DEF Connect
    <2>3. QED
      BY <1>0, <2>1, <2>2, SameFiles DEF Serving
  <1>4. ASSUME NEW c \in Clients, Ask(c) \/ Leave(c) PROVE Serving'
    <2>1. /\ UNCHANGED <<running, isShuttingDown, signalled, clientFd, pc, files, backlog>>
          /\ \A d \in Clients : conn'[d] = "up" => conn[d] = "up"
      BY <1>0, <1>4 DEF Ask, Leave, shared
    <2>2. QED
      BY <2>1, SameFiles DEF Serving
  <1>5. CASE handleSignal \/ Die
    BY <1>0, <1>5 DEF handleSignal, Die, Serving, TypeOK, Actors
  <1>6. CASE UNCHANGED vars
    BY <1>6, SameFiles DEF vars, Serving
  <1>7. QED
    BY <1>1, <1>2, <1>3, <1>4, <1>5, <1>6 DEF Next

\* A step that hangs up on some clients, or none, is a step of the service, if
\* the daemon does not serve before and after it.
LEMMA HangUpStep ==
    ASSUME TypeOK, NEW C \in SUBSET {c \in Clients : conn[c] = "up"},
           conn' = [c \in Clients |-> IF c \in C THEN "down" ELSE conn[c]],
           asked' = asked,
           (~signalled /\ pc["main"] # "dead") /\ (~signalled /\ pc["main"] # "dead")' => C = {}
    PROVE  Service!Next
  BY DEF Service!Next, Service!StartOrStop

\* HangUp, and the shutdown() of main, in the form of the service.
LEMMA HangUpSet ==
    ASSUME TypeOK, NEW X, HangUp(X)
    PROVE  /\ asked' = asked
           /\ conn' = [c \in Clients |->
                          IF c \in {d \in Clients : conn[d] = "up" /\ d \in X} THEN "down" ELSE conn[c]]
  BY DEF HangUp, TypeOK

\* main, when it stops.
LEMMA MainService ==
    ASSUME ServerInv, Serving, Main
    PROVE  [Service!Next]_(Service!servicevars)
  <1>0. TypeOK
    BY DEF ServerInv
  <1>1. /\ signalled' = signalled
        /\ pc["main"] # "dead" /\ pc'["main"] # "dead"
    <2>1. CASE CloseTest("main") \/ CloseFile("main") \/ CloseReset("main")
      BY <1>0, <2>1, MainMoves DEF CloseTest, CloseFile, CloseReset, AfterClose
    <2>2. CASE ~(CloseTest("main") \/ CloseFile("main") \/ CloseReset("main"))
      BY <1>0, <2>2, MainMoves DEF Main, Reinitialize, LeaveLoop, TestClient, ShutdownClient,
         closeClientFd, stopListeningForNewClients, SetFlag, OpenTmp, ConnectTmp, CloseTmp, Join,
         closeSocket
    <2>3. QED
      BY <2>1, <2>2
  <1>2. CASE UNCHANGED <<conn, asked>>
    BY <1>1, <1>2 DEF Service!servicevars
  <1>3. CASE ~UNCHANGED <<conn, asked>>
    <2>1. signalled
      BY <1>3, MainServing DEF Reinitialize, service
    <2>2. \/ ShutdownClient
          \/ \E X : HangUp(X)
      BY <1>3 DEF Main, Reinitialize, LeaveLoop, TestClient, closeClientFd, CloseTest, CloseFile,
         CloseReset, CloseFd, stopListeningForNewClients, SetFlag, OpenTmp, ConnectTmp, CloseTmp,
         Join, closeSocket, service
    <2>3. CASE ShutdownClient
      <3> DEFINE C == {d \in Clients : conn[d] = "up" /\ File(clientFd) = d}
      <3>1. asked' = asked /\ conn' = [c \in Clients |-> IF c \in C THEN "down" ELSE conn[c]]
        BY <1>0, <2>3 DEF ShutdownClient, TypeOK
      <3>2. C \in SUBSET {c \in Clients : conn[c] = "up"}
        OBVIOUS
      <3> HIDE DEF C
      <3>3. QED
        BY <1>0, <2>1, <3>1, <3>2, HangUpStep
    <2>4. ASSUME NEW X, HangUp(X) PROVE Service!Next
      <3> DEFINE C == {d \in Clients : conn[d] = "up" /\ d \in X}
      <3>1. asked' = asked /\ conn' = [c \in Clients |-> IF c \in C THEN "down" ELSE conn[c]]
        BY <1>0, <2>4, HangUpSet
      <3>2. C \in SUBSET {c \in Clients : conn[c] = "up"}
        OBVIOUS
      <3> HIDE DEF C
      <3>3. QED
        BY <1>0, <2>1, <3>1, <3>2, HangUpStep
    <2>5. QED
      BY <2>2, <2>3, <2>4
  <1>4. QED
    BY <1>2, <1>3

\* The thread: it answers, or closes a connection that is not up any more.
LEMMA ThreadService ==
    ASSUME ServerInv, Serving, clientConnectionThread
    PROVE  [Service!Next]_(Service!servicevars)
  <1>0. TypeOK
    BY DEF ServerInv
  <1>1. /\ signalled' = signalled
        /\ pc["main"] # "dead" /\ pc'["main"] = pc["main"]
    BY <1>0, ThreadMoves DEF clientConnectionThread, WhileRunning, connectToClient, Accept,
       Assign, TestFlag, HandleClient, HandleLoop, receivePort, Load, Enter, ReadPort, ReadEnd,
       Answer, sendPid, closeClientFd, CloseTest, CloseFile, CloseReset
  <1>2. CASE sendPid
    <2>1. /\ conn' = conn
          /\ asked' = [c \in Clients |-> asked[c] /\ File(reg["thread"]) # c]
      BY <1>2 DEF sendPid
    <2>2. asked \in [Clients -> BOOLEAN]
      BY <1>0 DEF TypeOK
    <2>3. CASE \E c \in Clients : asked[c] /\ File(reg["thread"]) = c
      <3>1. PICK c \in Clients : asked[c] /\ File(reg["thread"]) = c
        BY <2>3
      <3>2. asked' = [asked EXCEPT ![c] = FALSE]
        BY <2>1, <2>2, <3>1
      <3>3. QED
        BY <1>1, <2>1, <3>1, <3>2 DEF Service!Next, Service!Answer
    <2>4. CASE ~\E c \in Clients : asked[c] /\ File(reg["thread"]) = c
      <3>1. asked' = asked
        BY <2>1, <2>2, <2>4
      <3>2. QED
        BY <1>1, <2>1, <3>1 DEF Service!servicevars
    <2>5. QED
      BY <2>3, <2>4
  <1>3. CASE CloseFile("thread")
    <2>1. pc["thread"] = "closing"
      BY <1>0, <1>3, ThreadMoves DEF CloseFile
    <2>2. PICK f \in {reg["thread"], clientFd} : CloseFd(f)
      BY <1>3 DEF CloseFile
    <2>3. PICK X : HangUp(X) /\ X \subseteq {File(f)}
      BY <2>2 DEF CloseFd
    <2> DEFINE C == {d \in Clients : conn[d] = "up" /\ d \in X}
    <2>4. asked' = asked /\ conn' = [c \in Clients |-> IF c \in C THEN "down" ELSE conn[c]]
      BY <1>0, <2>3, HangUpSet
    <2>5. C \in SUBSET {c \in Clients : conn[c] = "up"}
      OBVIOUS
    <2>6. ~signalled => C = {}
      BY <1>1, <2>1, <2>3, FdFacts DEF Serving, File, IsOpen
    <2> HIDE DEF C
    <2>7. QED
      BY <1>0, <2>4, <2>5, <2>6, HangUpStep
  <1>4. CASE ~sendPid /\ ~CloseFile("thread")
    <2>1. UNCHANGED <<conn, asked>>
      BY <1>4 DEF clientConnectionThread, WhileRunning, connectToClient, Accept, Assign, TestFlag,
         HandleClient, HandleLoop, receivePort, Load, Enter, ReadPort, ReadEnd, Answer,
         closeClientFd, CloseTest, CloseReset, service
    <2>2. QED
      BY <1>1, <2>1 DEF Service!servicevars
  <1>5. QED
    BY <1>2, <1>3, <1>4

\* Every step is a step of the service, or invisible to it.
LEMMA StepService ==
    ServerInv /\ Serving /\ [Next]_vars => [Service!Next]_(Service!servicevars)
  <1> SUFFICES ASSUME ServerInv, Serving, [Next]_vars
               PROVE  [Service!Next]_(Service!servicevars)
    OBVIOUS
  <1>0. TypeOK
    BY DEF ServerInv
  <1>1. CASE Main \/ clientConnectionThread
    BY <1>1, MainService, ThreadService
  <1>2. ASSUME NEW c \in Clients, Connect(c) PROVE Service!Next
    BY <1>2 DEF Connect, Service!Next, Service!Connect
  <1>3. ASSUME NEW c \in Clients, Ask(c) PROVE Service!Next
    BY <1>3 DEF Ask, Service!Next, Service!Ask
  <1>4. ASSUME NEW c \in Clients, Leave(c) PROVE Service!Next
    BY <1>4 DEF Leave, Service!Next, Service!Leave
  <1>5. CASE handleSignal
    <2>1. conn' = [c \in Clients |-> IF c \in {} THEN "down" ELSE conn[c]] /\ asked' = asked
      BY <1>0, <1>5 DEF handleSignal, TypeOK, service
    <2>2. {} \in SUBSET {c \in Clients : conn[c] = "up"}
      OBVIOUS
    <2>3. Service!Next
      BY <1>0, <2>1, <2>2, HangUpStep
    <2>4. QED
      BY <2>3
  <1>6. CASE Die
    <2> DEFINE C == {d \in Clients : conn[d] = "up" /\ d \in Clients}
    <2>1. asked' = asked /\ conn' = [c \in Clients |-> IF c \in C THEN "down" ELSE conn[c]]
      BY <1>0, <1>6, HangUpSet DEF Die
    <2>2. C \in SUBSET {c \in Clients : conn[c] = "up"}
      OBVIOUS
    <2>3. pc'["main"] = "dead"
      BY <1>0, <1>6 DEF Die, TypeOK, Actors
    <2> HIDE DEF C
    <2>4. QED
      BY <1>0, <2>1, <2>2, <2>3, HangUpStep
  <1>7. CASE UNCHANGED vars
    BY <1>7 DEF vars, Service!servicevars
  <1>8. QED
    BY <1>1, <1>2, <1>3, <1>4, <1>5, <1>6, <1>7 DEF Next

\* If the memory of isShuttingDown happens to hold zero, which nothing
\* guarantees, the client thread implements PidService: while the daemon has not
\* been told to stop no client's connection is closed, and every answer is one
\* to an open question.
THEOREM ServiceImplemented == Spec /\ ~isShuttingDown => ImplementsService
  <1>1. Init => Service!Init
    BY DEF Init, Service!Init
  <1>2. Init /\ ~isShuttingDown => Serving
    <2> SUFFICES ASSUME Init, ~isShuttingDown PROVE Serving
      OBVIOUS
    <2>1. /\ pc["main"] = "start" /\ pc["thread"] = "loop"
          /\ running = TRUE
          /\ \A f \in Fds : files[f] = Closed
          /\ Len(backlog) = 0
      BY DEF Init
    <2>2. QED
      BY <2>1, FdFacts DEF Serving, IsOpen, Queued, WithClient
  <1>3. QED
    BY ServerInvariant, StepServing, StepService, <1>1, <1>2, PTL
       DEF Spec, ImplementsService, Service!Spec

=============================================================================
