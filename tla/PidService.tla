----------------------------- MODULE PidService -----------------------------
(***************************************************************************)
(* What the daemon promises a packet_hunter over the UNIX socket: a        *)
(* connection stays up while the daemon serves, and every answer is for a  *)
(* question that the same client has asked and that is still open.         *)
(***************************************************************************)
CONSTANT Clients

VARIABLES
    serving,  \* whether a daemon runs and has not been told to stop
    conn,     \* what each client knows of its connection
    asked     \* whether it waits for an answer

servicevars == <<serving, conn, asked>>

Init ==
    /\ serving \in BOOLEAN
    /\ conn = [c \in Clients |-> "none"]
    /\ asked = [c \in Clients |-> FALSE]

\* The client connects, unless there is nobody to connect to.
Connect(c) ==
    /\ conn[c] = "none"
    /\ conn' = [conn EXCEPT ![c] = "up"]
    /\ UNCHANGED <<serving, asked>>

Ask(c) ==
    /\ conn[c] = "up"
    /\ ~asked[c]
    /\ asked' = [asked EXCEPT ![c] = TRUE]
    /\ UNCHANGED <<serving, conn>>

\* Also an answer that was sent before the daemon hung up.
Answer(c) ==
    /\ asked[c]
    /\ asked' = [asked EXCEPT ![c] = FALSE]
    /\ UNCHANGED <<serving, conn>>

Leave(c) ==
    /\ conn' = [conn EXCEPT ![c] = "none"]
    /\ asked' = [asked EXCEPT ![c] = FALSE]
    /\ UNCHANGED serving

\* The daemon starts or stops serving, and hangs up on some clients; while it
\* serves it hangs up on nobody.
StartOrStop ==
    /\ serving' \in BOOLEAN
    /\ \E C \in SUBSET {c \in Clients : conn[c] = "up"} :
          /\ serving /\ serving' => C = {}
          /\ conn' = [c \in Clients |-> IF c \in C THEN "down" ELSE conn[c]]
    /\ UNCHANGED asked

Next == StartOrStop \/ \E c \in Clients : Connect(c) \/ Ask(c) \/ Answer(c) \/ Leave(c)

Spec == Init /\ [][Next]_servicevars

=============================================================================
