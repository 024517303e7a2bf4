------------------------------- MODULE Sniffer -------------------------------
(***************************************************************************)
(* The kernel module (kernel_module/sniffer.c): who is subscribed to the   *)
(* packet feed, the netlink handler nl_recv_msg that user processes enter  *)
(* with their subscribe and unsubscribe messages, and the netfilter hook   *)
(* that sends every captured packet to the subscribers.                    *)
(*                                                                         *)
(* nl_recv_msg runs in the context of the sending process and the hook in  *)
(* softirq context, with no lock between them: each of their accesses to   *)
(* the shared flags is a step of its own.                                  *)
(***************************************************************************)
EXTENDS Integers, Sequences, FiniteSets

CONSTANTS
    Daemons,      \* the PIDs that run portmon_daemon, one per (re)start
    Hunters,      \* the PIDs that run packet_hunter
    NoPid,        \* the value 0 of daemon_pid and packet_hunter_pid
    Cpus,         \* the contexts in which the hook can run at the same time
    RcvBuf,       \* how many messages a netlink receive buffer holds
    MaxPackets,   \* bound: how many packets are captured
    Faults        \* what may go wrong: an allocation fails ("alloc"), a scan
                  \* of /proc throws ("throw"), SIGKILL or a crash ("kill")

ASSUME SnifferAssumption ==
    /\ Daemons \cap Hunters = {}
    /\ NoPid \notin Daemons \cup Hunters
    /\ RcvBuf \in Nat \ {0}
    /\ MaxPackets \in Nat
    /\ Faults \subseteq {"alloc", "throw", "kill"}

AllocMayFail == "alloc" \in Faults

Procs == Daemons \cup Hunters

Roles == {"daemon", "packet_hunter"}

RoleOf(p) == IF p \in Daemons THEN "daemon" ELSE "packet_hunter"

Members(r) == IF r = "daemon" THEN Daemons ELSE Hunters

\* A message is the number of the packet it describes; the all-zero pckt_info
\* of send_stop_msg is message 0.
Stop == 0
Packets == 1 .. MaxPackets
Messages == {Stop} \cup Packets

VARIABLES
    loaded,      \* whether sniffer.ko is loaded
    subscribed,  \* daemon_subscribed and packet_hunter_subscribed, by role
    client_pid,  \* daemon_pid and packet_hunter_pid, by role
    handler,     \* where in nl_recv_msg the main thread of each process is
    hook,        \* where in packet_sniffer_hook each CPU is, with its packet
    captured,    \* how many packets the hook has seen
    bound,       \* the processes whose netlink socket is open
    rcvbuf,      \* the receive buffer of each netlink socket
    sk_err,      \* the sockets with a pending ENOBUFS error
    congested    \* the sockets that overran and have not been drained since

subvars == <<loaded, subscribed, client_pid>>
hookvars == <<hook, captured>>
sockvars == <<bound, rcvbuf, sk_err, congested>>
kernelvars == <<subvars, handler, hookvars, sockvars>>

HandlerStates == {"none", "sub_test", "sub_flag", "sub_pid",
                  "unsub_stop", "unsub_flag", "unsub_pid", "oops"}

HookStates == [at : {"idle", "flag", "pid", "send"}, role : Roles, pkt : Messages]

SnifferTypeOK ==
    /\ loaded \in BOOLEAN
    /\ subscribed \in [Roles -> BOOLEAN]
    /\ client_pid \in [Roles -> Procs \cup {NoPid}]
    /\ \A r \in Roles : client_pid[r] \in Members(r) \cup {NoPid}
    /\ handler \in [Procs -> HandlerStates]
    /\ hook \in [Cpus -> HookStates]
    /\ captured \in 0 .. MaxPackets
    /\ bound \in SUBSET Procs
    /\ rcvbuf \in [Procs -> Seq(Messages)]
    /\ sk_err \in SUBSET Procs
    /\ congested \in SUBSET Procs

SnifferInit ==
    /\ loaded = FALSE
    /\ subscribed = [r \in Roles |-> FALSE]
    /\ client_pid = [r \in Roles |-> NoPid]
    /\ handler = [p \in Procs |-> "none"]
    /\ hook = [c \in Cpus |-> [at |-> "idle", role |-> "daemon", pkt |-> Stop]]
    /\ captured = 0
    /\ bound = {}
    /\ rcvbuf = [p \in Procs |-> <<>>]
    /\ sk_err = {}
    /\ congested = {}

-----------------------------------------------------------------------------
(* Sending to user space *)

\* netlink_unicast with MSG_DONTWAIT: nobody listens at this PID (0 included),
\* or the message is queued, or the socket overruns and the message is lost.
netlink_unicast(to, m) ==
    \/ /\ to \notin bound
       /\ UNCHANGED <<rcvbuf, sk_err, congested>>
    \/ /\ to \in bound \ congested
       /\ Len(rcvbuf[to]) < RcvBuf
       /\ rcvbuf' = [rcvbuf EXCEPT ![to] = Append(@, m)]
       /\ UNCHANGED <<sk_err, congested>>
    \/ /\ to \in bound
       /\ to \in congested \/ Len(rcvbuf[to]) >= RcvBuf
       /\ sk_err' = IF to \in congested THEN sk_err ELSE sk_err \cup {to}
       /\ congested' = congested \cup {to}
       /\ UNCHANGED rcvbuf

\* Without memory for the skb the message is dropped in silence.
send_packet_info_to_user(to, m) ==
    \/ netlink_unicast(to, m)
    \/ /\ AllocMayFail
       /\ UNCHANGED <<rcvbuf, sk_err, congested>>

-----------------------------------------------------------------------------
(* nl_recv_msg, in the context of process p *)

At(p, here, there) ==
    /\ handler[p] = here
    /\ handler' = [handler EXCEPT ![p] = there]

\* The first test: a role that is already subscribed falls through to
\* "Unknown command", and the sender is told nothing.
SubscribeTest(p) ==
    /\ At(p, "sub_test", IF subscribed[RoleOf(p)] THEN "none" ELSE "sub_flag")
    /\ UNCHANGED <<subvars, hookvars, sockvars>>

SubscribeFlag(p) ==
    /\ At(p, "sub_flag", "sub_pid")
    /\ subscribed' = [subscribed EXCEPT ![RoleOf(p)] = TRUE]
    /\ UNCHANGED <<loaded, client_pid, hookvars, sockvars>>

\* Slip: the PID goes into the daemon's variable for both roles.
SubscribePidSlip(p) ==
    /\ At(p, "sub_pid", "none")
    /\ client_pid' = [client_pid EXCEPT !["daemon"] = p]
    /\ UNCHANGED <<loaded, subscribed, hookvars, sockvars>>

SubscribePid(p) ==
    /\ At(p, "sub_pid", "none")
    /\ client_pid' = [client_pid EXCEPT ![RoleOf(p)] = p]
    /\ UNCHANGED <<loaded, subscribed, hookvars, sockvars>>

\* The stop message goes to the recorded PID, whoever the sender is. Its
\* allocation is not tested: memcpy from NULL.
UnsubscribeStop(p) ==
    /\ \/ /\ At(p, "unsub_stop", "unsub_flag")
          /\ send_packet_info_to_user(client_pid[RoleOf(p)], Stop)
       \/ /\ AllocMayFail
          /\ At(p, "unsub_stop", "oops")
          /\ UNCHANGED <<rcvbuf, sk_err, congested>>
    /\ UNCHANGED <<subvars, hookvars, bound>>

\* Slip: the flag stays set.
UnsubscribeFlagSlip(p) ==
    /\ At(p, "unsub_flag", "unsub_pid")
    /\ UNCHANGED <<subvars, hookvars, sockvars>>

UnsubscribeFlag(p) ==
    /\ At(p, "unsub_flag", "unsub_pid")
    /\ subscribed' = [subscribed EXCEPT ![RoleOf(p)] = FALSE]
    /\ UNCHANGED <<loaded, client_pid, hookvars, sockvars>>

\* Slip: the PID stays recorded.
UnsubscribePidSlip(p) ==
    /\ At(p, "unsub_pid", "none")
    /\ UNCHANGED <<subvars, hookvars, sockvars>>

UnsubscribePid(p) ==
    /\ At(p, "unsub_pid", "none")
    /\ client_pid' = [client_pid EXCEPT ![RoleOf(p)] = NoPid]
    /\ UNCHANGED <<loaded, subscribed, hookvars, sockvars>>

nl_recv_msg(p) ==
    \/ SubscribeTest(p)
    \/ SubscribeFlag(p)
    \/ SubscribePid(p)
    \/ UnsubscribeStop(p)
    \/ UnsubscribeFlag(p)
    \/ UnsubscribePid(p)

-----------------------------------------------------------------------------
(* packet_sniffer_hook, on CPU c *)

\* The daemon is served before the packet_hunter; then the hook accepts.
AfterRole(h) ==
    IF h.role = "daemon"
    THEN [h EXCEPT !.at = "flag", !.role = "packet_hunter"]
    ELSE [h EXCEPT !.at = "idle"]

\* A TCP or UDP packet arrives; the hook accepts every other packet unseen.
HookCapture(c) ==
    /\ loaded
    /\ hook[c].at = "idle"
    /\ captured < MaxPackets
    /\ captured' = captured + 1
    /\ hook' = [hook EXCEPT ![c] = [at |-> "flag", role |-> "daemon", pkt |-> captured + 1]]
    /\ UNCHANGED <<subvars, handler, sockvars>>

\* The two halves of the test `daemon_subscribed && daemon_pid != 0`.
HookFlag(c) ==
    /\ hook[c].at = "flag"
    /\ hook' = [hook EXCEPT ![c] = IF subscribed[@.role] THEN [@ EXCEPT !.at = "pid"]
                                  ELSE AfterRole(@)]
    /\ UNCHANGED <<subvars, handler, captured, sockvars>>

HookPid(c) ==
    /\ hook[c].at = "pid"
    /\ hook' = [hook EXCEPT ![c] = IF client_pid[@.role] # NoPid THEN [@ EXCEPT !.at = "send"]
                                  ELSE AfterRole(@)]
    /\ UNCHANGED <<subvars, handler, captured, sockvars>>

\* The PID is read again for the send. If create_message fails the hook
\* accepts at once, and the packet_hunter is not served either.
HookSend(c) ==
    /\ hook[c].at = "send"
    /\ \/ /\ send_packet_info_to_user(client_pid[hook[c].role], hook[c].pkt)
          /\ hook' = [hook EXCEPT ![c] = AfterRole(@)]
       \/ /\ AllocMayFail
          /\ hook' = [hook EXCEPT ![c].at = "idle"]
          /\ UNCHANGED <<rcvbuf, sk_err, congested>>
    /\ UNCHANGED <<subvars, handler, captured, bound>>

packet_sniffer_hook(c) == HookFlag(c) \/ HookPid(c) \/ HookSend(c)

-----------------------------------------------------------------------------
(* Loading and unloading the module *)

\* insmod: the static flags start at zero.
sniffer_init ==
    /\ ~loaded
    /\ loaded' = TRUE
    /\ subscribed' = [r \in Roles |-> FALSE]
    /\ client_pid' = [r \in Roles |-> NoPid]
    /\ UNCHANGED <<handler, hookvars, sockvars>>

\* rmmod: refused while a process holds a socket of the module's protocol;
\* nf_unregister_net_hook waits for the hooks that are running.
sniffer_exit ==
    /\ loaded
    /\ bound = {}
    /\ \A c \in Cpus : hook[c].at = "idle"
    /\ loaded' = FALSE
    /\ UNCHANGED <<subscribed, client_pid, handler, hookvars, sockvars>>

=============================================================================
