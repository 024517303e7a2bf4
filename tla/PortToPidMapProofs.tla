------------------------- MODULE PortToPidMapProofs -------------------------
(***************************************************************************)
(* The scans of /proc, for any number of processes, sockets and ports:     *)
(* what they put into the map, and what they cannot miss.                  *)
(***************************************************************************)
EXTENDS PortToPidMap, TLAPS

\* The sockets that a scan works with have been opened before; a steady one is
\* still open.
KnownSockets ==
    /\ Open \subseteq used
    /\ lines \subseteq used
    /\ steady \subseteq Open

\* The first scan is over when the first packet comes.
BootFirst ==
    /\ pc \in {"tcp", "udp", "pick", "idle"} => packet = Nil
    /\ pc \in {"found", "missed"} => packet # Nil

\* No process that the walk has passed has the socket: a child's PID is above
\* its parent's, and inode numbers are fresh.
Walking ==
    pc = "walk" =>
        /\ cur \in used
        /\ \A p \in Pids : p < at => cur \notin holds[p]
        /\ packet # Nil => cur \in seen /\ packet.port \in {0, Port(cur)}

\* During the first scan a steady socket is still to be read, still to be looked
\* up, or its port is in the map.
BootCovers ==
    /\ pc = "udp" => \A i \in steady : SockOf[i].proto = "T" => i \in lines
    /\ pc \in {"pick", "walk", "idle"} /\ packet = Nil =>
          \A i \in steady : i \in lines \/ map[Port(i)] # NoPid \/ (pc = "walk" /\ i = cur)
    /\ pc = "idle" => lines = {}

ScanInv == TypeOK /\ KnownSockets /\ BootFirst /\ Walking /\ BootCovers /\ ScanComplete

-----------------------------------------------------------------------------

\* What is open after a step of a process.
LEMMA HeldUpdate ==
    ASSUME NEW h \in [Pids -> SUBSET Inodes], NEW p \in Pids, NEW X \in SUBSET Inodes
    PROVE  /\ [h EXCEPT ![p] = @ \cup X] \in [Pids -> SUBSET Inodes]
           /\ [h EXCEPT ![p] = @ \ X] \in [Pids -> SUBSET Inodes]
           /\ Held([h EXCEPT ![p] = @ \cup X]) = Held(h) \cup X
           /\ Held([h EXCEPT ![p] = @ \ X]) \subseteq Held(h)
  BY DEF Held

\* What the parser returns is open, of the protocol, and passes the filter.
LEMMA ParsedSockets ==
    ASSUME TypeOK, NEW proto, NEW filterPort
    PROVE  /\ Open \subseteq Inodes
           /\ parseListeningSockets(proto, filterPort) \subseteq Open
           /\ \A i \in parseListeningSockets(proto, filterPort) : filterPort \in {0, Port(i)}
  BY DEF TypeOK, Open, Held, parseListeningSockets

\* Every socket has a port.
LEMMA PortType ==
    ASSUME NEW i \in Inodes
    PROVE  Port(i) \in Ports \ {0} /\ SockOf[i].proto \in Protos
  BY MapAssumption DEF Port

\* No scan has read anything yet.
LEMMA InitScan == Init => ScanInv
  <1> SUFFICES ASSUME Init PROVE ScanInv
    OBVIOUS
  <1>1. 1 \in Pids
    BY MapAssumption DEF Pids
  <1>2. used \in SUBSET Inodes
    BY DEF Init
  <1>3. TypeOK
    BY <1>1, <1>2 DEF Init, TypeOK
  <1>4. KnownSockets
    BY DEF Init, KnownSockets, Open, Held
  <1>5. QED
    BY <1>3, <1>4 DEF Init, ScanInv, BootFirst, Walking, BootCovers, ScanComplete

\* The processes of the system.
LEMMA SystemScan == ScanInv /\ System => ScanInv'
  <1> SUFFICES ASSUME ScanInv, NEW p \in Pids, NEW i \in Inodes,
                      \/ OpenSocket(p, i)
                      \/ CloseSocket(p, i)
                      \/ \E q \in Pids : ShareSocket(p, q, i)
               PROVE  ScanInv'
    BY DEF System
  <1> USE DEF ScanInv
  <1>0. UNCHANGED <<map, pc, packet, lines, cur, at, seen, locked, asking>>
    BY DEF OpenSocket, CloseSocket, ShareSocket, scan
  <1>1. CASE OpenSocket(p, i)
    <2>1. /\ holds' \in [Pids -> SUBSET Inodes]
          /\ Open' = Open \cup {i}
          /\ used' = used \cup {i}
          /\ steady' = steady
          /\ i \notin used
      BY <1>1, HeldUpdate DEF OpenSocket, TypeOK, Open, Held
    <2>2. \A q \in Pids : holds'[q] \subseteq holds[q] \cup {i}
      BY <1>1 DEF OpenSocket, TypeOK
    <2>3. TypeOK' /\ KnownSockets'
      BY <1>0, <2>1 DEF TypeOK, KnownSockets
    <2>4. Walking'
      BY <1>0, <2>1, <2>2 DEF Walking, Port
    <2>5. QED
      BY <1>0, <2>1, <2>3, <2>4 DEF BootFirst, BootCovers, ScanComplete, Port
  <1>2. CASE CloseSocket(p, i)
    <2>1. /\ holds' \in [Pids -> SUBSET Inodes]
          /\ Open' \subseteq Open
          /\ used' = used
          /\ steady' = steady \cap Open'
      BY <1>2, HeldUpdate DEF CloseSocket, TypeOK, Open, Held
    <2>2. \A q \in Pids : holds'[q] \subseteq holds[q]
      BY <1>2 DEF CloseSocket, TypeOK
    <2>3. TypeOK' /\ KnownSockets'
      BY <1>0, <2>1 DEF TypeOK, KnownSockets
    <2>4. Walking'
      BY <1>0, <2>1, <2>2 DEF Walking, Port
    <2>5. BootCovers' /\ ScanComplete'
      BY <1>0, <2>1 DEF BootCovers, ScanComplete, Port
    <2>6. QED
      BY <1>0, <2>3, <2>4, <2>5 DEF BootFirst
  <1>3. ASSUME NEW q \in Pids, ShareSocket(p, q, i) PROVE ScanInv'
    <2>1. /\ holds' \in [Pids -> SUBSET Inodes]
          /\ Open' = Open \cup {i}
          /\ i \in Open
          /\ UNCHANGED <<used, steady>>
      BY <1>3, HeldUpdate DEF ShareSocket, TypeOK, Open, Held
    <2>2. /\ \A r \in Pids : holds'[r] = IF r = q THEN holds[q] \cup {i} ELSE holds[r]
          /\ i \in holds[p]
          /\ p < q
      BY <1>3 DEF ShareSocket, TypeOK
    <2>3. TypeOK' /\ KnownSockets'
      BY <1>0, <2>1 DEF TypeOK, KnownSockets
    <2>4. Walking'
      <3> SUFFICES ASSUME pc = "walk", NEW r \in Pids, r < at PROVE cur \notin holds'[r]
        BY <1>0, <2>1 DEF Walking, Port
      <3>1. p \in Int /\ q \in Int /\ at \in Int
        BY DEF TypeOK, Pids
      <3>2. r = q => p < at
        BY <2>2, <3>1
      <3>3. QED
        BY <2>2, <3>2 DEF Walking
    <2>5. QED
      BY <1>0, <2>1, <2>3, <2>4 DEF BootFirst, BootCovers, ScanComplete, Port
  <1>4. QED
    BY <1>1, <1>2, <1>3

\* The first scan, without its lookups.
LEMMA BootScan == ScanInv /\ initializePortPidMap => ScanInv'
  <1> SUFFICES ASSUME ScanInv, initializePortPidMap PROVE ScanInv'
    OBVIOUS
  <1> USE DEF ScanInv
  <1>0. 1 \in Pids
    BY MapAssumption DEF Pids
  <1>1. CASE ReadTcp
    <2>1. /\ UNCHANGED <<holds, used, map, packet, cur, at, seen, locked, asking>>
          /\ pc = "tcp" /\ pc' = "udp"
          /\ steady' = Open
          /\ lines' = parseListeningSockets("T", 0)
      BY <1>1 DEF ReadTcp, system
    <2>2. Open' = Open
      BY <2>1 DEF Open
    <2>3. TypeOK' /\ KnownSockets'
      BY <2>1, <2>2, ParsedSockets DEF TypeOK, KnownSockets
    <2>4. QED
      BY <2>1, <2>3 DEF BootFirst, Walking, BootCovers, ScanComplete, parseListeningSockets
  <1>2. CASE ReadUdp
    <2>1. /\ UNCHANGED <<holds, used, map, packet, cur, at, seen, locked, asking, steady>>
          /\ pc = "udp" /\ pc' = "pick"
          /\ lines' = lines \cup parseListeningSockets("U", 0)
      BY <1>2 DEF ReadUdp, system
    <2>2. Open' = Open
      BY <2>1 DEF Open
    <2>3. TypeOK' /\ KnownSockets'
      BY <2>1, <2>2, ParsedSockets DEF TypeOK, KnownSockets
    <2>4. \A i \in steady : i \in lines'
      <3> SUFFICES ASSUME NEW i \in steady PROVE i \in lines'
        OBVIOUS
      <3>1. i \in Open /\ SockOf[i].proto \in {"T", "U"}
        BY PortType DEF TypeOK, KnownSockets, Protos
      <3>2. QED
        BY <2>1, <3>1 DEF BootCovers, parseListeningSockets
    <2>5. QED
      BY <2>1, <2>3, <2>4 DEF BootFirst, Walking, BootCovers, ScanComplete
  <1>3. ASSUME NEW i \in Inodes, PickLine(i) PROVE ScanInv'
    <2>1. /\ UNCHANGED <<holds, used, map, packet, seen, locked, asking, steady>>
          /\ pc = "pick"
          /\ i \in lines
          /\ lines' = lines \ {i}
          /\ \/ map[Port(i)] # NoPid /\ UNCHANGED <<pc, cur, at>>
             \/ pc' = "walk" /\ cur' = i /\ at' = 1
      BY <1>3 DEF PickLine, LookUp, system
    <2>2. Open' = Open
      BY <2>1 DEF Open
    <2>3. TypeOK' /\ KnownSockets'
      BY <1>0, <2>1, <2>2 DEF TypeOK, KnownSockets
    <2>4. packet = Nil
      BY <2>1 DEF BootFirst
    <2>5. Walking'
      BY <2>1, <2>4 DEF Walking, KnownSockets, Pids
    <2>6. BootCovers'
      BY <2>1, <2>4 DEF BootCovers, Port
    <2>7. QED
      BY <2>1, <2>3, <2>4, <2>5, <2>6 DEF BootFirst, ScanComplete
  <1>4. CASE Booted
    <2>1. /\ UNCHANGED <<holds, used, map, packet, lines, cur, at, seen, locked, asking, steady>>
          /\ pc = "pick" /\ pc' = "idle" /\ lines = {}
      BY <1>4 DEF Booted, system, scan
    <2>2. QED
      BY <2>1 DEF TypeOK, KnownSockets, Open, BootFirst, Walking, BootCovers, ScanComplete
  <1>5. QED
    BY <1>1, <1>2, <1>3, <1>4 DEF initializePortPidMap

\* The socket that a hit is about belongs to the port of the entry.
LEMMA KeyType ==
    ASSUME ScanInv, pc = "walk"
    PROVE  /\ cur \in Inodes
           /\ Key \in Ports
           /\ Key # 0 => Key = Port(cur)
  <1>1. cur \in Inodes
    BY DEF ScanInv, Walking, TypeOK
  <1>2. CASE packet = Nil
    BY <1>1, <1>2, PortType DEF Key
  <1>3. CASE packet # Nil
    BY <1>1, <1>3 DEF Key, ScanInv, Walking, TypeOK
  <1>4. QED
    BY <1>1, <1>2, <1>3

\* A walk that has come to its end has seen that the socket is closed.
LEMMA WalkedOut ==
    ASSUME ScanInv, pc = "walk", at = MaxPid, cur \notin holds[at]
    PROVE  cur \notin Open /\ cur \notin steady
  <1>1. \A p \in Pids : p < at \/ p = at
    BY MapAssumption DEF Pids
  <1>2. \A p \in Pids : cur \notin holds[p]
    BY <1>1 DEF ScanInv, Walking
  <1>3. QED
    BY <1>2 DEF ScanInv, KnownSockets, Open, Held

\* The lookup of an inode.
LEMMA WalkScan == ScanInv /\ findPidBySockInode => ScanInv'
  <1> SUFFICES ASSUME ScanInv, findPidBySockInode PROVE ScanInv'
    OBVIOUS
  <1> USE DEF ScanInv
  <1>0. /\ pc = "walk"
        /\ 1 \in Pids
        /\ Open' = Open
        /\ UNCHANGED <<holds, used, packet, lines, seen, asking, steady>>
    BY MapAssumption DEF findPidBySockInode, Hit, NextPid, Miss, system, Open, Pids
  <1>1. CASE Hit
    <2>1. /\ cur \in holds[at]
          /\ map' = [map EXCEPT ![Key] = at]
          /\ pc' = IF packet = Nil THEN "pick" ELSE "found"
          /\ locked' = FALSE /\ cur' = Nil /\ at' = 1
      BY <1>1 DEF Hit, Return
    <2>2. TypeOK' /\ KnownSockets'
      BY <1>0, <2>1, KeyType DEF TypeOK, KnownSockets
    <2>3. \A x \in Ports : map[x] # NoPid => map'[x] # NoPid
      BY <2>1, KeyType, MapAssumption DEF TypeOK
    <2>4. packet = Nil => map'[Port(cur)] # NoPid
      BY <1>0, <2>1, KeyType, MapAssumption DEF TypeOK, Key
    <2>5. BootCovers'
      <3>1. \A i \in steady : Port(i) \in Ports
        BY PortType DEF TypeOK
      <3>2. QED
        BY <1>0, <2>1, <2>3, <2>4, <3>1 DEF BootCovers, Port
    <2>6. QED
      BY <1>0, <2>1, <2>2, <2>5 DEF BootFirst, Walking, ScanComplete
  <1>2. CASE NextPid
    <2>1. /\ UNCHANGED <<map, pc, cur, locked>>
          /\ cur \notin holds[at]
          /\ at < MaxPid
          /\ at' = at + 1
      BY <1>2 DEF NextPid
    <2>2. at' \in Pids /\ \A p \in Pids : p < at' => p < at \/ p = at
      BY <2>1, MapAssumption DEF TypeOK, Pids
    <2>3. TypeOK' /\ KnownSockets'
      BY <1>0, <2>1, <2>2 DEF TypeOK, KnownSockets
    <2>4. Walking'
      BY <1>0, <2>1, <2>2 DEF Walking, Port
    <2>5. QED
      BY <1>0, <2>1, <2>3, <2>4 DEF BootFirst, BootCovers, ScanComplete, Port
  <1>3. CASE Miss
    <2>1. /\ cur \notin holds[at]
          /\ at = MaxPid
          /\ map' = map
          /\ pc' = IF packet = Nil THEN "pick" ELSE "missed"
          /\ locked' = FALSE /\ cur' = Nil /\ at' = 1
      BY <1>3 DEF Miss, Return
    <2>2. TypeOK' /\ KnownSockets'
      BY <1>0, <2>1 DEF TypeOK, KnownSockets
    <2>3. cur \notin steady
      BY <1>0, <2>1, WalkedOut
    <2>4. BootCovers'
      BY <1>0, <2>1, <2>3 DEF BootCovers, Port
    <2>5. ScanComplete'
      BY <1>0, <2>1, <2>3 DEF ScanComplete, Walking
    <2>6. QED
      BY <1>0, <2>1, <2>2, <2>4, <2>5 DEF BootFirst, Walking
  <1>4. QED
    BY <1>1, <1>2, <1>3 DEF findPidBySockInode

\* A packet.
LEMMA PacketScan ==
    ASSUME ScanInv, NEW port \in Ports, NEW protocol \in Protos, addPidMapping(port, protocol)
    PROVE  ScanInv'
  <1> USE DEF ScanInv
  <1> DEFINE found == parseListeningSockets(protocol, port)
  <1>0. 1 \in Pids
    BY MapAssumption DEF Pids
  <1>1. /\ UNCHANGED <<holds, used, map, lines, asking>>
        /\ packet' = [port |-> port, proto |-> protocol]
        /\ seen' = found
        /\ steady' = Open
        /\ \/ /\ pc' = "walk" /\ cur' \in found /\ at' = 1 /\ locked' = TRUE
           \/ /\ found = {} /\ pc' = "missed" /\ UNCHANGED <<cur, at, locked>>
    BY DEF addPidMapping, scanForPidByPort, LookUpFirst, LookUp, system
  <1>2. packet' # Nil /\ packet'.port = port
    BY <1>1, MapAssumption
  <1>3. Open' = Open
    BY <1>1 DEF Open
  <1>4. TypeOK' /\ KnownSockets'
    BY <1>0, <1>1, <1>3, ParsedSockets DEF TypeOK, KnownSockets
  <1>5. Walking'
    BY <1>1, <1>2, ParsedSockets DEF Walking, KnownSockets, Pids, Port
  <1>6. ScanComplete'
    BY <1>1 DEF ScanComplete
  <1>7. QED
    BY <1>1, <1>2, <1>4, <1>5, <1>6 DEF BootFirst, BootCovers

\* Questions do not touch the scan.
LEMMA QuestionScan ==
    ASSUME ScanInv, getPid \/ \E port \in Ports : Ask(port)
    PROVE  ScanInv'
  <1>1. /\ UNCHANGED <<holds, used, map, pc, packet, lines, cur, at, seen, locked, steady>>
        /\ asking' \in Ports \cup {Nil}
    BY DEF getPid, Ask, system, scan
  <1>2. QED
    BY <1>1 DEF ScanInv, TypeOK, KnownSockets, Open, BootFirst, Walking, BootCovers, ScanComplete, Port

\* All of it holds in every state, whatever the processes do while a scan reads
\* /proc: initializePortPidMap, scanForPidByPort and findPidBySockInode.
THEOREM ScanInvariant == Spec => []ScanInv
  <1>1. ScanInv /\ [Next]_vars => ScanInv'
    <2> SUFFICES ASSUME ScanInv, [Next]_vars PROVE ScanInv'
      OBVIOUS
    <2>1. CASE System
      BY <2>1, SystemScan
    <2>2. CASE initializePortPidMap \/ findPidBySockInode
      BY <2>2, BootScan, WalkScan
    <2>3. ASSUME NEW port \in Ports, NEW protocol \in Protos, addPidMapping(port, protocol)
          PROVE  ScanInv'
      BY <2>3, PacketScan
    <2>4. CASE getPid \/ \E port \in Ports : Ask(port)
      BY <2>4, QuestionScan
    <2>5. CASE UNCHANGED vars
      BY <2>5 DEF vars, ScanInv, TypeOK, KnownSockets, Open, BootFirst, Walking, BootCovers,
         ScanComplete, Port
    <2>6. QED
      BY <2>1, <2>2, <2>3, <2>4, <2>5 DEF Next
  <1>2. QED
    BY InitScan, <1>1, PTL DEF Spec

-----------------------------------------------------------------------------

\* The type invariant of the map, the scans and the question.
THEOREM MapTypeCorrect == Spec => []TypeOK
  BY ScanInvariant, PTL DEF ScanInv

\* scanForPidByPort finds no PID only if it read no line of the port, or one of
\* the port's sockets was closed while it walked: however many processes there
\* are, and however they share their sockets in the meantime.
THEOREM ScansComplete == Spec => []ScanComplete
  BY ScanInvariant, PTL DEF ScanInv

\* After initializePortPidMap every socket that was open all the time has its
\* port in the map, for any number of sockets, ports and processes.
THEOREM BootIsComplete == Spec => []BootComplete
  <1>1. ScanInv => BootComplete
    BY DEF ScanInv, BootFirst, BootCovers, BootComplete
  <1>2. QED
    BY ScanInvariant, <1>1, PTL

\* An entry of the map changes only in a hit of findPidBySockInode, and only to
\* the process that has a socket of the entry's port at that moment.
THEOREM EntriesOwned == Spec => EntryOwned
  <1> DEFINE Owned == \A x \in Ports \ {0} : map'[x] # map[x] =>
                         \E i \in holds[map'[x]] : Port(i) = x
  <1>1. ScanInv /\ [Next]_vars => [Owned]_vars
    <2> SUFFICES ASSUME ScanInv, [Next]_vars PROVE Owned
      OBVIOUS
    <2>1. CASE Hit
      <3>1. pc = "walk" /\ cur \in holds[at] /\ map' = [map EXCEPT ![Key] = at]
        BY <2>1 DEF Hit
      <3>2. QED
        BY <3>1, KeyType DEF ScanInv, TypeOK
    <2>2. CASE map' = map
      BY <2>2
    <2>3. QED
      BY <2>1, <2>2 DEF Next, vars, System, OpenSocket, CloseSocket, ShareSocket,
         initializePortPidMap, ReadTcp, ReadUdp, PickLine, Booted,
         findPidBySockInode, NextPid, Miss, addPidMapping, Ask, getPid
  <1>2. QED
    BY ScanInvariant, <1>1, PTL DEF Spec, EntryOwned

=============================================================================
