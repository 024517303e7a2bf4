-------------------------- MODULE UnixSocketServer --------------------------
(***************************************************************************)
(* The daemon's end of the UNIX socket: the thread that accepts one        *)
(* packet_hunter after the other and answers it (clientConnectionThread),  *)
(* main, which stops that thread, and the server object they share         *)
(* without a lock. One step is one access to a shared variable or one      *)
(* system call. What main does with netlink is Daemon's matter.            *)
(***************************************************************************)
EXTENDS Integers, Sequences

CONSTANTS
    Clients,     \* packet_hunters
    MaxFd,       \* bound: descriptors beside the ones that stay open
    FlagAtStart  \* the values that the uninitialised isShuttingDown may have

Actors == {"main", "thread"}
Fds == 1 .. MaxFd
NoFd == -1

\* What a descriptor may refer to, beside the connection of a client: nothing,
\* the temporary socket of stopListeningForNewClients, or its other end.
Closed == "closed"
Tmp == "tmp"
Dummy == "dummy"
Files == Clients \cup {Closed, Tmp, Dummy}

ASSUME ServerAssumption ==
    /\ MaxFd \in Nat \ {0}
    /\ FlagAtStart \in (SUBSET BOOLEAN) \ {{}}
    /\ Clients \cap {Closed, Tmp, Dummy} = {}

VARIABLES
    running,         \* the flag of the signal handler
    clientFd,        \* the member of the server object
    isShuttingDown,  \* the other one
    pc,              \* where main and the client thread are
    reg,             \* the descriptor each of them has loaded
    held,            \* the file that the thread's read() works on
    files,           \* the descriptor table
    backlog,         \* the connections that wait for accept()
    conn,            \* each client's connection: "none", "up", "down"
    asked,           \* whether the client waits for an answer
    requests,        \* the connections with a port that is not read yet
    signalled        \* whether a signal has arrived, for the properties

shared == <<running, clientFd, isShuttingDown>>
service == <<conn, asked, requests>>
vars == <<running, clientFd, isShuttingDown, pc, reg, held, files, backlog,
          conn, asked, requests, signalled>>

MainPc == {"start", "loop", "test", "shutdown", "close", "closing", "reset", "flag",
           "socket", "connect", "closetmp", "join", "joined", "done", "dead"}
ThreadPc == {"loop", "accept", "assign", "flag", "handle", "running", "load", "enter",
             "read", "answer", "write", "close", "closing", "reset", "ended"}

TypeOK ==
    /\ running \in BOOLEAN /\ isShuttingDown \in BOOLEAN /\ signalled \in BOOLEAN
    /\ clientFd \in Fds \cup {NoFd}
    /\ pc \in [Actors -> MainPc \cup ThreadPc]
    /\ pc["main"] \in MainPc /\ pc["thread"] \in ThreadPc
    /\ reg \in [Actors -> Fds \cup {NoFd}]
    /\ held \in Files
    /\ files \in [Fds -> Files]
    /\ backlog \in Seq(Clients \cup {Dummy})
    /\ conn \in [Clients -> {"none", "up", "down"}]
    /\ asked \in [Clients -> BOOLEAN]
    /\ requests \in SUBSET Clients

\* The server listens, and main has just started the thread.
Init ==
    /\ running = TRUE
    /\ clientFd = NoFd
    /\ isShuttingDown \in FlagAtStart
    /\ pc = [main |-> "start", thread |-> "loop"]
    /\ reg = [a \in Actors |-> NoFd]
    /\ held = Closed
    /\ files = [f \in Fds |-> Closed]
    /\ backlog = <<>>
    /\ conn = [c \in Clients |-> "none"]
    /\ asked = [c \in Clients |-> FALSE]
    /\ requests = {}
    /\ signalled = FALSE

-----------------------------------------------------------------------------
(* Descriptors *)

Goto(a, here, there) ==
    /\ pc["main"] # "dead"
    /\ pc[a] = here
    /\ pc' = [pc EXCEPT ![a] = there]

\* The file behind a number that a thread passes to a system call.
File(f) == IF f \in Fds THEN files[f] ELSE Closed

IsOpen(x) == \E f \in Fds : files[f] = x
Queued(x) == \E i \in 1 .. Len(backlog) : backlog[i] = x

\* The kernel gives out the lowest free number.
NewFd(f, x) ==
    /\ files[f] = Closed
    /\ \A g \in Fds : g < f => files[g] # Closed
    /\ files' = [files EXCEPT ![f] = x]

\* The peers of the files X find that this end is closed.
HangUp(X) ==
    /\ conn' = [c \in Clients |-> IF c \in X /\ conn[c] = "up" THEN "down" ELSE conn[c]]
    /\ requests' = requests \ X
    /\ UNCHANGED asked

\* close(f). A connection on which a read() is in progress stays up.
CloseFd(f) ==
    /\ files' = IF f \in Fds THEN [files EXCEPT ![f] = Closed] ELSE files
    /\ HangUp({File(f)} \ (IF pc["thread"] = "read" THEN {held} ELSE {}))

-----------------------------------------------------------------------------
(* closeClientFd, by main or by the thread: the test, close(), the reset *)

AfterClose(a) == IF a = "main" THEN "flag" ELSE "loop"

CloseTest(a) ==
    /\ Goto(a, "close", IF clientFd = NoFd THEN AfterClose(a) ELSE "closing")
    /\ reg' = [reg EXCEPT ![a] = clientFd]
    /\ UNCHANGED <<shared, held, files, backlog, service, signalled>>

\* The compiler may keep the tested value or load it again.
CloseFile(a) ==
    /\ Goto(a, "closing", "reset")
    /\ \E f \in {reg[a], clientFd} : CloseFd(f)
    /\ UNCHANGED <<shared, reg, held, backlog, signalled>>

\* Slip: 0 for "no descriptor".
CloseResetZero(a) ==
    /\ Goto(a, "reset", AfterClose(a))
    /\ clientFd' = 0
    /\ UNCHANGED <<running, isShuttingDown, reg, held, files, backlog, service, signalled>>

\* Slip: the thread serves one client only.
CloseResetOnce(a) ==
    /\ Goto(a, "reset", IF a = "main" THEN "flag" ELSE "ended")
    /\ clientFd' = NoFd
    /\ UNCHANGED <<running, isShuttingDown, reg, held, files, backlog, service, signalled>>

CloseReset(a) ==
    /\ Goto(a, "reset", AfterClose(a))
    /\ clientFd' = NoFd
    /\ UNCHANGED <<running, isShuttingDown, reg, held, files, backlog, service, signalled>>

closeClientFd(a) == CloseTest(a) \/ CloseFile(a) \/ CloseReset(a)

-----------------------------------------------------------------------------
(* main *)

\* `running = true`, after the thread was started.
Reinitialize ==
    /\ Goto("main", "start", "loop")
    /\ running' = TRUE
    /\ UNCHANGED <<clientFd, isShuttingDown, reg, held, files, backlog, service, signalled>>

\* The loop over the packets ends; what follows up to the client's socket does
\* not touch the server.
LeaveLoop ==
    /\ ~running
    /\ Goto("main", "loop", "test")
    /\ UNCHANGED <<shared, reg, held, files, backlog, service, signalled>>

TestClient ==
    /\ Goto("main", "test", IF clientFd > 0 THEN "shutdown" ELSE "flag")
    /\ UNCHANGED <<shared, reg, held, files, backlog, service, signalled>>

\* Slip: no shutdown(), the descriptor is only closed.
ShutdownClientSlip ==
    /\ Goto("main", "shutdown", "close")
    /\ UNCHANGED <<shared, reg, held, files, backlog, service, signalled>>

\* shutdown(SHUT_RD) of what clientFd is now: the client cannot send any more,
\* what it has sent can still be read.
ShutdownClient ==
    /\ Goto("main", "shutdown", "close")
    /\ conn' = [c \in Clients |->
                   IF File(clientFd) = c /\ conn[c] = "up" THEN "down" ELSE conn[c]]
    /\ UNCHANGED <<shared, reg, held, files, backlog, asked, requests, signalled>>

SetFlag ==
    /\ Goto("main", "flag", "socket")
    /\ isShuttingDown' = TRUE
    /\ UNCHANGED <<running, clientFd, reg, held, files, backlog, service, signalled>>

OpenTmp ==
    /\ Goto("main", "socket", "connect")
    /\ \E f \in Fds : NewFd(f, Tmp) /\ reg' = [reg EXCEPT !["main"] = f]
    /\ UNCHANGED <<shared, held, backlog, service, signalled>>

\* The dummy connection, unless the number is no longer the temporary socket's.
ConnectTmp ==
    /\ Goto("main", "connect", "closetmp")
    /\ backlog' = IF File(reg["main"]) = Tmp THEN Append(backlog, Dummy) ELSE backlog
    /\ UNCHANGED <<shared, reg, held, files, service, signalled>>

CloseTmp ==
    /\ Goto("main", "closetmp", "join")
    /\ CloseFd(reg["main"])
    /\ UNCHANGED <<shared, reg, held, backlog, signalled>>

stopListeningForNewClients == SetFlag \/ OpenTmp \/ ConnectTmp \/ CloseTmp

Join ==
    /\ pc["thread"] = "ended"
    /\ Goto("main", "join", "joined")
    /\ UNCHANGED <<shared, reg, held, files, backlog, service, signalled>>

\* The destructor closes the client, if there is one, and the server socket;
\* the connections that nobody accepted end with it.
closeSocket ==
    /\ Goto("main", "joined", "done")
    /\ files' = [f \in Fds |-> IF f = clientFd THEN Closed ELSE files[f]]
    /\ HangUp({File(clientFd)} \cup {c \in Clients : Queued(c)})
    /\ clientFd' = NoFd
    /\ backlog' = <<>>
    /\ UNCHANGED <<running, isShuttingDown, reg, held, signalled>>

Main ==
    \/ Reinitialize
    \/ LeaveLoop
    \/ TestClient
    \/ ShutdownClient
    \/ closeClientFd("main")
    \/ stopListeningForNewClients
    \/ Join
    \/ closeSocket

-----------------------------------------------------------------------------
(* clientConnectionThread *)

WhileRunning ==
    /\ Goto("thread", "loop", IF running THEN "accept" ELSE "ended")
    /\ UNCHANGED <<shared, reg, held, files, backlog, service, signalled>>

\* connectToClient: accept(), which does not fail here, then the assignment to
\* clientFd, then the test.
Accept ==
    /\ backlog # <<>>
    /\ Goto("thread", "accept", "assign")
    /\ \E f \in Fds : NewFd(f, Head(backlog)) /\ reg' = [reg EXCEPT !["thread"] = f]
    /\ backlog' = Tail(backlog)
    /\ UNCHANGED <<shared, held, service, signalled>>

Assign ==
    /\ Goto("thread", "assign", "flag")
    /\ clientFd' = reg["thread"]
    /\ UNCHANGED <<running, isShuttingDown, reg, held, files, backlog, service, signalled>>

\* Slip: `continue` without closeClientFd().
TestFlagSlip ==
    /\ Goto("thread", "flag", IF isShuttingDown THEN "loop" ELSE "handle")
    /\ UNCHANGED <<shared, reg, held, files, backlog, service, signalled>>

\* The compiler may test the value it stored or load clientFd again.
TestFlag ==
    /\ \E f \in {reg["thread"], clientFd} :
          Goto("thread", "flag", IF f < 0 \/ isShuttingDown THEN "close" ELSE "handle")
    /\ UNCHANGED <<shared, reg, held, files, backlog, service, signalled>>

connectToClient == Accept \/ Assign \/ TestFlag

\* handleClientConnection
HandleClient ==
    /\ Goto("thread", "handle", IF clientFd < 0 THEN "close" ELSE "running")
    /\ UNCHANGED <<shared, reg, held, files, backlog, service, signalled>>

HandleLoop ==
    /\ Goto("thread", "running", IF running THEN "load" ELSE "close")
    /\ UNCHANGED <<shared, reg, held, files, backlog, service, signalled>>

\* receivePort: clientFd is loaded, read() looks the number up and then works
\* on the file, whatever happens to the number.
Load ==
    /\ Goto("thread", "load", "enter")
    /\ reg' = [reg EXCEPT !["thread"] = clientFd]
    /\ UNCHANGED <<shared, held, files, backlog, service, signalled>>

Enter ==
    /\ Goto("thread", "enter", IF File(reg["thread"]) = Closed THEN "close" ELSE "read")
    /\ held' = File(reg["thread"])
    /\ UNCHANGED <<shared, reg, files, backlog, service, signalled>>

\* The other end is closed or shut down; the temporary socket is not connected
\* yet (EINVAL).
ReadFails(x) ==
    CASE x \in Clients -> conn[x] # "up" /\ x \notin requests
      [] x = Tmp -> ~Queued(Dummy) /\ ~IsOpen(Dummy)
      [] x = Dummy -> ~IsOpen(Tmp)

ReadPort ==
    /\ held \in requests
    /\ Goto("thread", "read", "answer")
    /\ requests' = requests \ {held}
    /\ held' = Closed
    /\ UNCHANGED <<shared, reg, files, backlog, conn, asked, signalled>>

\* Slip: the result of read() is not tested.
ReadEndSlip ==
    /\ pc["thread"] = "read" /\ ReadFails(held)
    /\ Goto("thread", "read", "answer")
    /\ held' = Closed
    /\ UNCHANGED <<shared, reg, files, backlog, service, signalled>>

ReadEnd ==
    /\ pc["thread"] = "read" /\ ReadFails(held)
    /\ Goto("thread", "read", "close")
    /\ held' = Closed
    /\ UNCHANGED <<shared, reg, files, backlog, service, signalled>>

receivePort == Load \/ Enter \/ ReadPort \/ ReadEnd

\* getPid, and the load of clientFd for the write.
Answer ==
    /\ Goto("thread", "answer", "write")
    /\ reg' = [reg EXCEPT !["thread"] = clientFd]
    /\ UNCHANGED <<shared, held, files, backlog, service, signalled>>

\* Slip: no answer for a port that is not in the map.
sendPidSlip ==
    /\ Goto("thread", "write", "running")
    /\ UNCHANGED <<shared, reg, held, files, backlog, service, signalled>>

\* Slip: one question per connection.
sendPidOnce ==
    /\ Goto("thread", "write", "close")
    /\ asked' = [c \in Clients |-> asked[c] /\ File(reg["thread"]) # c]
    /\ UNCHANGED <<shared, reg, held, files, backlog, conn, requests, signalled>>

\* The result of write() is ignored; systemd starts services with SIGPIPE
\* ignored.
sendPid ==
    /\ Goto("thread", "write", "running")
    /\ asked' = [c \in Clients |-> asked[c] /\ File(reg["thread"]) # c]
    /\ UNCHANGED <<shared, reg, held, files, backlog, conn, requests, signalled>>

clientConnectionThread ==
    \/ WhileRunning
    \/ connectToClient
    \/ HandleClient
    \/ HandleLoop
    \/ receivePort
    \/ Answer
    \/ sendPid
    \/ closeClientFd("thread")

-----------------------------------------------------------------------------
(* The clients, the signal, and the death of the process *)

Listening == pc["main"] \notin {"done", "dead"}

Connect(c) ==
    /\ Listening
    /\ conn[c] = "none"
    /\ ~Queued(c) /\ ~IsOpen(c) /\ ~(pc["thread"] = "read" /\ held = c)
    /\ conn' = [conn EXCEPT ![c] = "up"]
    /\ backlog' = Append(backlog, c)
    /\ UNCHANGED <<shared, pc, reg, held, files, asked, requests, signalled>>

Ask(c) ==
    /\ conn[c] = "up"
    /\ ~asked[c]
    /\ asked' = [asked EXCEPT ![c] = TRUE]
    /\ requests' = requests \cup {c}
    /\ UNCHANGED <<shared, pc, reg, held, files, backlog, conn, signalled>>

\* Whatever the client is doing; a port it sent before can still be read.
Leave(c) ==
    /\ conn[c] # "none"
    /\ conn' = [conn EXCEPT ![c] = "none"]
    /\ asked' = [asked EXCEPT ![c] = FALSE]
    /\ UNCHANGED <<shared, pc, reg, held, files, backlog, requests, signalled>>

handleSignal ==
    /\ Listening
    /\ running
    /\ running' = FALSE
    /\ signalled' = TRUE
    /\ UNCHANGED <<clientFd, isShuttingDown, pc, reg, held, files, backlog, service>>

\* SIGKILL, an exception of a scan, a failed subscription.
Die ==
    /\ Listening
    /\ pc' = [pc EXCEPT !["main"] = "dead"]
    /\ HangUp(Clients)
    /\ UNCHANGED <<shared, reg, held, files, backlog, signalled>>

Next ==
    \/ Main
    \/ clientConnectionThread
    \/ \E c \in Clients : Connect(c) \/ Ask(c) \/ Leave(c)
    \/ handleSignal
    \/ Die

Spec == Init /\ [][Next]_vars

\* Both threads are scheduled and their system calls return when they can.
\* Nothing is owed by the clients or by who sends the signal.
FairSpec == Spec /\ WF_vars(Main) /\ WF_vars(clientConnectionThread)

-----------------------------------------------------------------------------
(* Properties *)

\* When the client thread has been joined, every connection it accepted is
\* closed, the dummy one too, in whatever order main and the thread test,
\* close and reset the one clientFd they share.
NoLeak ==
    pc["main"] \in {"joined", "done"} => \A f \in Fds : files[f] = Closed

\* A PID goes to no client but one that waits for it, or has left: the number
\* that sendPid loads, after the answer was looked up and while main may close
\* and reuse it, is the connection the question came from, or none.
AnswerIsAsked ==
    pc["thread"] = "write" =>
        \A c \in Clients : File(reg["thread"]) = c => asked[c] \/ conn[c] = "none"

Service == INSTANCE PidService WITH
    serving <- ~signalled /\ pc["main"] # "dead"

\* The client thread provides what packet_hunter relies on: while the daemon has
\* not been told to stop, it hangs up on no client, and it sends an answer only
\* to the client that asked, once per question.
ImplementsService == Service!Spec

\* The thread has loaded clientFd for read(); main has closed the connection and
\* got the same number for its temporary socket: read() waits on the dummy
\* connection, which nobody will accept.
StuckOnReuse == pc["thread"] = "read" /\ held = Tmp

\* main, once it waits in join(), gets past it: shutdown() wakes a thread in
\* read(), the dummy connection one in accept(), and `running` ends the others,
\* also when the thread's closeClientFd has closed the temporary socket by
\* mistake. The one exception is StuckOnReuse.
JoinReturns == pc["main"] = "join" ~> (pc["main"] # "join" \/ StuckOnReuse)

\* A question on a connection that was accepted gets its answer, unless the
\* client leaves or the daemon hangs up.
AcceptedIsAnswered ==
    \A c \in Clients : (asked[c] /\ IsOpen(c)) ~> (~asked[c] \/ conn[c] # "up")

\* While no signal arrives, the first in the queue is accepted once the client
\* before it has left: what that one left behind (an unread port, an unsent
\* answer) does not hold the thread up.
QueueMoves ==
    \A c \in Clients :
        (backlog # <<>> /\ Head(backlog) = c /\ \A x \in Clients : IsOpen(x) => conn[x] # "up")
            ~> (~Queued(c) \/ signalled \/ pc["main"] = "dead")

-----------------------------------------------------------------------------
(* What the comments of the code say, and the code does not keep *)

\* isShuttingDown is a "Simple flag to prevent extra loggin when shutting down",
\* UnixSocketServer.h:44: while nobody has told the daemon to stop, it turns no
\* client away.
NoClientRefused ==
    \A c \in Clients :
        pc["thread"] = "closing" /\ File(clientFd) = c /\ conn[c] = "up" => signalled

=============================================================================
