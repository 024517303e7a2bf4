----------------------------- MODULE PacketFeed -----------------------------
(***************************************************************************)
(* What the packet feed promises, without sockets, flags, threads or       *)
(* memory: each captured packet is offered once to each role; a reader of  *)
(* the role that has its subscription open may get it; a reader handles    *)
(* what it got first in, first out. Packets may get lost on the way. The   *)
(* kernel's request to stop travels between the packets, is in the way of  *)
(* none of them and is never handled as one.                               *)
(***************************************************************************)
EXTENDS Integers, Sequences

CONSTANTS
    Readers,     \* the processes that can subscribe
    Roles,       \* what they can subscribe as
    Members(_),  \* the readers of each role
    Stop         \* the request to stop

VARIABLES
    captured,  \* how many packets have been captured
    todo,      \* the packets that have still to be offered to each role
    open,      \* the readers whose subscription is open
    feed       \* what each reader got and has not handled, oldest first

feedvars == <<captured, todo, open, feed>>

Init ==
    /\ captured = 0
    /\ todo = [r \in Roles |-> {}]
    /\ open = {}
    /\ feed = [p \in Readers |-> <<>>]

Capture ==
    /\ captured' = captured + 1
    /\ todo' = [r \in Roles |-> todo[r] \cup {captured + 1}]
    /\ UNCHANGED <<open, feed>>

\* Packet m has been offered to the roles R.
Offered(R, m) == todo' = [r \in Roles |-> IF r \in R THEN todo[r] \ {m} ELSE todo[r]]

Deliver(r, m) ==
    /\ m \in todo[r]
    /\ Offered({r}, m)
    /\ \E p \in Members(r) \cap open : feed' = [feed EXCEPT ![p] = Append(@, m)]
    /\ UNCHANGED <<captured, open>>

Lose(R, m) ==
    /\ Offered(R, m)
    /\ UNCHANGED <<captured, open, feed>>

\* The request to stop, sent to whoever has its subscription open.
Request(p) ==
    /\ p \in open
    /\ feed' = [feed EXCEPT ![p] = Append(@, Stop)]
    /\ UNCHANGED <<captured, todo, open>>

\* s without its element i.
Without(s, i) == [j \in 1 .. Len(s) - 1 |-> IF j < i THEN s[j] ELSE s[j + 1]]

\* The reader heeds the first request, ahead of the packets before it.
Heed(p) ==
    /\ \E i \in 1 .. Len(feed[p]) :
          /\ feed[p][i] = Stop
          /\ \A j \in 1 .. i - 1 : feed[p][j] # Stop
          /\ feed' = [feed EXCEPT ![p] = Without(@, i)]
    /\ UNCHANGED <<captured, todo, open>>

\* The oldest packet.
Handle(p) ==
    /\ feed[p] # <<>>
    /\ Head(feed[p]) # Stop
    /\ feed' = [feed EXCEPT ![p] = Tail(@)]
    /\ UNCHANGED <<captured, todo, open>>

OpenOrClose(p) ==
    /\ open' \in {open \cup {p}, open \ {p}}
    /\ UNCHANGED <<captured, todo, feed>>

\* A reader whose subscription is over throws away the oldest of what it has,
\* up to everything.
Forget(p) ==
    /\ open' = open \ {p}
    /\ \E k \in 1 .. Len(feed[p]) :
          feed' = [feed EXCEPT ![p] = SubSeq(@, k + 1, Len(@))]
    /\ UNCHANGED <<captured, todo>>

Next ==
    \/ Capture
    \/ \E r \in Roles : \E m \in todo[r] : Deliver(r, m)
    \/ \E R \in SUBSET Roles : \E m \in UNION {todo[r] : r \in R} : Lose(R, m)
    \/ \E p \in Readers : Request(p) \/ Heed(p) \/ Handle(p) \/ OpenOrClose(p) \/ Forget(p)

Spec == Init /\ [][Next]_feedvars

=============================================================================
