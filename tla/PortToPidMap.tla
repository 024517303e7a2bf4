---------------------------- MODULE PortToPidMap ----------------------------
(***************************************************************************)
(* The daemon's map from ports to PIDs (PortToPidMap) and the scans of     *)
(* /proc that fill it (ScanFiles), while processes open, share and close   *)
(* sockets. A scan reads /proc/net/tcp or udp once, and then one           *)
(* /proc/<pid>/fd after the other.                                         *)
(***************************************************************************)
EXTENDS Integers

CONSTANTS
    Inodes,      \* bound: the sockets that are ever opened
    SockOf,      \* the protocol ('T' or 'U') and the local port of each
    MaxPid,      \* bound: the PIDs are 1 to MaxPid
    Ports,       \* the ports of packets; 0 may be one of them
    NoPid,       \* no entry in the map
    Nil          \* no socket, no packet or no question

Protos == {"T", "U"}
Pids == 1 .. MaxPid

ASSUME MapAssumption ==
    /\ SockOf \in [Inodes -> [proto : Protos, port : Ports \ {0}]]
    /\ MaxPid \in Nat \ {0}
    /\ NoPid \notin Pids
    /\ Nil \notin Inodes \cup Ports \cup [port : Ports, proto : Protos]

VARIABLES
    holds,    \* the sockets among the descriptors of each process
    used,     \* the inode numbers that have been given out
    map,      \* the map
    pc,       \* where the scanning thread is
    packet,   \* the port and protocol of the packet it scans for; none at boot
    lines,    \* the sockets it has read from /proc/net and not looked up yet
    cur, at,  \* the inode it looks for, and the PID it looks at next
    locked,   \* whether it holds mtx exclusively
    asking,   \* the port that the client thread waits to look up
    seen,     \* the sockets that the last read of /proc/net should have found
    steady    \* of the sockets open when the scan began, those open ever since

system == <<holds, used>>
scan == <<lines, cur, at, seen>>
vars == <<holds, used, map, pc, packet, lines, cur, at, locked, asking, seen, steady>>

TypeOK ==
    /\ holds \in [Pids -> SUBSET Inodes]
    /\ used \in SUBSET Inodes
    /\ map \in [Ports -> Pids \cup {NoPid}]
    /\ pc \in {"tcp", "udp", "pick", "walk", "idle", "found", "missed"}
    /\ packet \in [port : Ports, proto : Protos] \cup {Nil}
    /\ lines \in SUBSET Inodes
    /\ cur \in Inodes \cup {Nil}
    /\ at \in Pids
    /\ locked \in BOOLEAN
    /\ asking \in Ports \cup {Nil}
    /\ seen \in SUBSET Inodes /\ steady \in SUBSET Inodes

\* The daemon starts on a system where any of the sockets may be open.
Init ==
    /\ holds \in [Pids -> SUBSET Inodes]
    /\ used = UNION {holds[p] : p \in Pids}
    /\ map = [x \in Ports |-> NoPid]
    /\ pc = "tcp"
    /\ packet = Nil
    /\ lines = {}
    /\ cur = Nil
    /\ at = 1
    /\ locked = FALSE
    /\ asking = Nil
    /\ seen = {}
    /\ steady = used

-----------------------------------------------------------------------------
(* The processes of the system *)

Held(h) == UNION {h[p] : p \in Pids}
Open == Held(holds)

OpenSocket(p, i) ==
    /\ i \notin used
    /\ used' = used \cup {i}
    /\ holds' = [holds EXCEPT ![p] = @ \cup {i}]
    /\ UNCHANGED <<map, pc, packet, scan, locked, asking, steady>>

\* fork: the child has a higher PID.
ShareSocket(p, q, i) ==
    /\ p < q
    /\ i \in holds[p] \ holds[q]
    /\ holds' = [holds EXCEPT ![q] = @ \cup {i}]
    /\ UNCHANGED <<used, map, pc, packet, scan, locked, asking, steady>>

\* close, or the end of the process.
CloseSocket(p, i) ==
    /\ i \in holds[p]
    /\ holds' = [holds EXCEPT ![p] = @ \ {i}]
    /\ steady' = steady \cap Held(holds')
    /\ UNCHANGED <<used, map, pc, packet, scan, locked, asking>>

System ==
    \E p \in Pids, i \in Inodes :
        OpenSocket(p, i) \/ CloseSocket(p, i) \/ \E q \in Pids : ShareSocket(p, q, i)

-----------------------------------------------------------------------------
(* Reading /proc/net *)

Port(i) == SockOf[i].port

\* Slip: the filter is not applied.
parseListeningSocketsSlip(proto, filterPort) ==
    {i \in Open : SockOf[i].proto = proto}

\* The sockets of a protocol, filtered by port. A line without an inode (a
\* connection that no process has, TIME_WAIT) is skipped.
parseListeningSockets(proto, filterPort) ==
    {i \in Open : SockOf[i].proto = proto /\ filterPort \in {0, Port(i)}}

-----------------------------------------------------------------------------
(* Looking an inode up: findPidBySockInode *)

LookUp(i) == pc' = "walk" /\ cur' = i /\ at' = 1

\* main goes on with the next line, or releases the lock and returns.
Return(result) ==
    /\ pc' = IF packet = Nil THEN "pick" ELSE result
    /\ locked' = FALSE
    /\ cur' = Nil
    /\ at' = 1

\* The port that the result is stored under: the line's at boot, the packet's
\* after that.
Key == IF packet = Nil THEN Port(cur) ELSE packet.port

\* The process has a descriptor of the socket. Nobody sees the map between this
\* and the assignment.
Hit ==
    /\ pc = "walk"
    /\ cur \in holds[at]
    /\ map' = [map EXCEPT ![Key] = at]
    /\ Return("found")
    /\ UNCHANGED <<system, packet, lines, seen, asking, steady>>

NextPid ==
    /\ pc = "walk"
    /\ cur \notin holds[at]
    /\ at < MaxPid
    /\ at' = at + 1
    /\ UNCHANGED <<system, map, pc, packet, lines, cur, seen, locked, asking, steady>>

\* Slip: -1 is stored like a PID.
MissStores ==
    /\ pc = "walk"
    /\ cur \notin holds[at]
    /\ at = MaxPid
    /\ map' = [map EXCEPT ![Key] = -1]
    /\ Return("missed")
    /\ UNCHANGED <<system, packet, lines, seen, asking, steady>>

\* Slip: lock() and unlock() by hand, and an early return.
MissKeepsLock ==
    /\ pc = "walk"
    /\ cur \notin holds[at]
    /\ at = MaxPid
    /\ pc' = IF packet = Nil THEN "pick" ELSE "missed"
    /\ cur' = Nil
    /\ at' = 1
    /\ UNCHANGED <<system, map, packet, lines, seen, locked, asking, steady>>

Miss ==
    /\ pc = "walk"
    /\ cur \notin holds[at]
    /\ at = MaxPid
    /\ Return("missed")
    /\ UNCHANGED <<system, map, packet, lines, seen, asking, steady>>

findPidBySockInode == Hit \/ NextPid \/ Miss

-----------------------------------------------------------------------------
(* The constructor: initializePortPidMap *)

ReadTcp ==
    /\ pc = "tcp"
    /\ lines' = parseListeningSockets("T", 0)
    /\ steady' = Open
    /\ pc' = "udp"
    /\ UNCHANGED <<system, map, packet, cur, at, seen, locked, asking>>

\* Slip: the same file twice.
ReadUdpSlip ==
    /\ pc = "udp"
    /\ lines' = lines \cup parseListeningSockets("T", 0)
    /\ pc' = "pick"
    /\ UNCHANGED <<system, map, packet, cur, at, seen, locked, asking, steady>>

ReadUdp ==
    /\ pc = "udp"
    /\ lines' = lines \cup parseListeningSockets("U", 0)
    /\ pc' = "pick"
    /\ UNCHANGED <<system, map, packet, cur, at, seen, locked, asking, steady>>

\* The next line: the TCP sockets first; a UDP socket only if its port is not in
\* the map. The order within a file is the kernel's.
PickLine(i) ==
    /\ pc = "pick"
    /\ i \in lines
    /\ SockOf[i].proto = "U" => \A j \in lines : SockOf[j].proto = "U"
    /\ lines' = lines \ {i}
    /\ \/ /\ SockOf[i].proto = "U" /\ map[Port(i)] # NoPid
          /\ UNCHANGED <<pc, cur, at>>
       \/ /\ SockOf[i].proto = "T" \/ map[Port(i)] = NoPid
          /\ LookUp(i)
    /\ UNCHANGED <<system, map, packet, seen, locked, asking, steady>>

Booted ==
    /\ pc = "pick"
    /\ lines = {}
    /\ pc' = "idle"
    /\ UNCHANGED <<system, map, packet, scan, locked, asking, steady>>

initializePortPidMap == ReadTcp \/ ReadUdp \/ (\E i \in Inodes : PickLine(i)) \/ Booted

-----------------------------------------------------------------------------
(* A packet, by main; a question, by the client thread *)

\* The lock is taken and the first line's inode is looked up, no other; without
\* a line the lock is free again.
LookUpFirst(found) ==
    \/ \E i \in found : LookUp(i) /\ locked' = TRUE
    \/ found = {} /\ pc' = "missed" /\ UNCHANGED <<cur, at, locked>>

\* Slip: both branches read /proc/net/tcp.
scanForPidByPortSlip(port, protocol) == LookUpFirst(parseListeningSockets("T", port))

\* The file of the packet's protocol is read.
scanForPidByPort(port, protocol) == LookUpFirst(parseListeningSockets(protocol, port))

addPidMapping(port, protocol) ==
    /\ pc \in {"idle", "found", "missed"}
    /\ ~locked
    /\ scanForPidByPort(port, protocol)
    /\ packet' = [port |-> port, proto |-> protocol]
    /\ seen' = parseListeningSockets(protocol, port)
    /\ steady' = Open
    /\ UNCHANGED <<system, map, lines, asking>>

\* receivePort has returned in the client thread, which starts after the scan
\* of the constructor.
Ask(port) ==
    /\ pc \notin {"tcp", "udp", "pick"} /\ (pc = "walk" => packet # Nil)
    /\ asking = Nil
    /\ asking' = port
    /\ UNCHANGED <<system, map, pc, packet, scan, locked, steady>>

\* With the lock shared: the PID, or -1.
getPid ==
    /\ asking # Nil
    /\ ~locked
    /\ asking' = Nil
    /\ UNCHANGED <<system, map, pc, packet, scan, locked, steady>>

Next ==
    \/ System
    \/ initializePortPidMap
    \/ findPidBySockInode
    \/ \E port \in Ports : (\E protocol \in Protos : addPidMapping(port, protocol)) \/ Ask(port)
    \/ getPid

Spec == Init /\ [][Next]_vars

\* The threads are scheduled. Between two packets the lock is free only for a
\* moment, but the rwlock of glibc hands it to a waiting reader: strong fairness.
FairSpec == Spec /\ WF_vars(initializePortPidMap \/ findPidBySockInode) /\ SF_vars(getPid)

-----------------------------------------------------------------------------
(* Properties *)

\* Whatever opens, forks and closes while a scan walks through /proc, an entry
\* changes only to a process that has a socket of that port at that moment
\* (port 0 turns the filter off, and its entry may be any process).
EntryOwned ==
    [][\A x \in Ports \ {0} : map'[x] # map[x] =>
          \E i \in holds[map'[x]] : Port(i) = x]_vars

\* Every TCP and UDP socket that was open during the whole first scan has its
\* port in the map, although processes hand sockets to their children and the
\* UDP sockets of mapped ports are skipped.
BootComplete ==
    pc = "idle" => \A i \in steady : map[Port(i)] # NoPid

\* A scan for a packet's port that finds no PID has found no socket, or one of
\* the port's sockets was closed while it walked: a socket that a child shares,
\* or that moves from a process to its child, is not missed.
ScanComplete ==
    pc = "missed" => seen = {} \/ ~(seen \subseteq steady)

\* The client thread gets its answer, however many packets main scans for.
QuestionAnswered == asking # Nil ~> asking = Nil

-----------------------------------------------------------------------------
(* What the README says, and the code does not do *)

\* "While the daemon does scan and clean its map", README.md:126: a scan for a
\* port that no process uses any more leaves no PID for it.
FailedScanCleans ==
    [][pc' = "missed" /\ pc # "missed" /\ (\A i \in Open : Port(i) # packet'.port) =>
          map'[packet'.port] = NoPid]_vars

=============================================================================
