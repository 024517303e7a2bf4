-------------------------- MODULE NetLinkRefinement --------------------------
(***************************************************************************)
(* The system implements the packet feed, and what the packet_hunter takes *)
(* the daemon to do is the service that UnixSocketServer provides.         *)
(***************************************************************************)
EXTENDS NetLinkSystem

\* From the first to the last moment at which the kernel module may send to p.
MayBeFed(p) ==
    \/ Subscriber(p)
    \/ mpc[p] \in {"subscribing", "unsubscribing"} /\ handler[p] # "none"
    \/ mpc[p] = "aborted"

\* The hook serves the daemon before the packet_hunter.
NotOffered(r) ==
    {hook[c].pkt : c \in {x \in Cpus : hook[x].at # "idle" /\ hook[x].role \in {r, "daemon"}}}

Feed == INSTANCE PacketFeed WITH
    Readers <- Procs,
    todo <- [r \in Roles |-> NotOffered(r)],
    open <- {p \in Procs : MayBeFed(p)},
    feed <- [p \in Procs |-> Carried(p)]

\* The hook, the receive buffers with their overruns, the listeners, the queues
\* and the two mains together are a feed: every packet is offered to each role
\* once, reaches only a process that is subscribed, and is handled in the order
\* of its arrival; nothing is duplicated or reordered on the way, no stop message
\* is taken for a packet, and what is thrown away at the end is thrown away after
\* the unsubscribe.
ImplementsFeed == Feed!Spec

Service == INSTANCE PidService WITH
    Clients <- Hunters,
    serving <- \E d \in Daemons : Listening(d) /\ running[d],
    asked <- [h \in Hunters |-> mpc[h] = "await"]

\* What the packet_hunter meets at the other end of its connection (answers to
\* open questions, no hanging up while the daemon serves) is what the daemon's
\* client thread provides (UnixSocketServer!ImplementsService).
AssumesService == Service!Spec

=============================================================================
