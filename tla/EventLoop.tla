------------------------------ MODULE EventLoop ------------------------------
(***************************************************************************)
(* daemon_process (src/main.c): one thread that waits in epoll_wait for    *)
(* its UDP sockets, which are edge-triggered, and for the signalfd, which  *)
(* is level-triggered, and drains every socket that is reported.           *)
(*                                                                         *)
(* A datagram is only told apart by whether it has a payload: udp_recv     *)
(* returns its length.  What handle_one_packet does with it is the other   *)
(* modules' business.                                                      *)
(***************************************************************************)
EXTENDS Integers, Sequences, FiniteSets

CONSTANTS
    Socks,         \* d->udp_fds
    MaxEvents,     \* d->maxevents
    MaxQueue       \* datagrams that a socket's receive buffer holds

Datagrams == {"payload", "empty"}
Signal == "signal"   \* d->signal_fd
Nothing == "nothing"

ASSUME LoopAssumption ==
    /\ MaxEvents \in Nat \ {0} /\ MaxQueue \in Nat
    /\ Signal \notin Socks /\ Nothing \notin Socks

VARIABLES
    queue,      \* kernel: socket -> its datagrams, oldest first
    edge,       \* kernel: sockets with an arrival that epoll has not reported
    term,       \* kernel: SIGTERM or SIGINT is pending on the signalfd
    pc,         \* "wait" in epoll_wait, "events" in the loop, "returned" 1
    events,     \* reported and not yet looked at
    udp_fd,     \* the socket being drained, or Nothing
    cut         \* history: sockets whose last drain ended at an empty datagram

loopVars == <<queue, edge, term, pc, events, udp_fd, cut>>

LoopTypeOK ==
    /\ queue \in [Socks -> Seq(Datagrams)]
    /\ edge \subseteq Socks /\ cut \subseteq Socks
    /\ term \in BOOLEAN
    /\ pc \in {"wait", "events", "returned"}
    /\ events \subseteq Socks \cup {Signal}
    /\ udp_fd \in Socks \cup {Nothing}

-----------------------------------------------------------------------------
(* A datagram arrives; a full receive buffer would have dropped it. *)
Arrive(s, dg) ==
    /\ Len(queue[s]) < MaxQueue
    /\ queue' = [queue EXCEPT ![s] = Append(@, dg)]
    /\ edge' = edge \cup {s}
    /\ cut' = cut \ {s}
    /\ UNCHANGED <<term, pc, events, udp_fd>>

Interrupt ==
    /\ ~term /\ pc # "returned"
    /\ term' = TRUE
    /\ UNCHANGED <<queue, edge, pc, events, udp_fd, cut>>

-----------------------------------------------------------------------------
(* epoll_wait reports an edge only while there is something to read. *)
Ready == {s \in edge : queue[s] # <<>>} \cup (IF term THEN {Signal} ELSE {})

(* epoll_wait returns what is ready, as far as the array goes, or nothing  *)
(* after a second; the prune pass that may follow is module Rules'.        *)
EpollWait ==
    /\ pc = "wait"
    /\ \E es \in SUBSET Ready :
          /\ Cardinality(es) <= MaxEvents
          /\ es = Ready \/ Cardinality(es) = MaxEvents
          /\ events' = es
          /\ edge' = {s \in edge : queue[s] # <<>>} \ es
    /\ pc' = "events"
    /\ UNCHANGED <<queue, term, udp_fd, cut>>

(* A mutant: the signalfd is taken for a socket. *)
TakeAny ==
    /\ pc = "events" /\ udp_fd = Nothing
    /\ \E s \in events : udp_fd' = s /\ events' = events \ {s}
    /\ UNCHANGED <<queue, edge, term, pc, cut>>

(* The next event is a socket's. *)
TakeSocket ==
    /\ pc = "events" /\ udp_fd = Nothing
    /\ \E s \in events \ {Signal} : udp_fd' = s /\ events' = events \ {s}
    /\ UNCHANGED <<queue, edge, term, pc, cut>>

(* A mutant: the signal is read, the loop goes on. *)
SwallowSignal ==
    /\ pc = "events" /\ udp_fd = Nothing /\ Signal \in events
    /\ events' = events \ {Signal} /\ term' = FALSE
    /\ UNCHANGED <<pc, queue, edge, udp_fd, cut>>

(* daemon_handle_signal reads the signal and ends the loop at once. *)
TakeSignal ==
    /\ pc = "events" /\ udp_fd = Nothing /\ Signal \in events
    /\ pc' = "returned" /\ events' = {} /\ term' = FALSE
    /\ UNCHANGED <<queue, edge, udp_fd, cut>>

EndPass ==
    /\ pc = "events" /\ udp_fd = Nothing /\ events = {}
    /\ pc' = "wait"
    /\ UNCHANGED <<queue, edge, term, events, udp_fd, cut>>

(* A mutant: one datagram is read per event. *)
ReceiveOne ==
    /\ udp_fd # Nothing /\ queue[udp_fd] # <<>>
    /\ queue' = [queue EXCEPT ![udp_fd] = Tail(@)]
    /\ udp_fd' = Nothing
    /\ UNCHANGED <<edge, term, pc, events, cut>>

(* udp_recv returns a length: the drain goes on, unless it is 0. *)
Receive ==
    /\ udp_fd # Nothing /\ queue[udp_fd] # <<>>
    /\ queue' = [queue EXCEPT ![udp_fd] = Tail(@)]
    /\ \/ /\ Head(queue[udp_fd]) = "payload"
          /\ UNCHANGED <<udp_fd, cut>>
       \/ /\ Head(queue[udp_fd]) = "empty"
          /\ udp_fd' = Nothing /\ cut' = cut \cup {udp_fd}
    /\ UNCHANGED <<edge, term, pc, events>>

(* udp_recv returns -1: EAGAIN. *)
Drained ==
    /\ udp_fd # Nothing /\ queue[udp_fd] = <<>>
    /\ udp_fd' = Nothing
    /\ UNCHANGED <<queue, edge, term, pc, events, cut>>

-----------------------------------------------------------------------------
LoopInit ==
    /\ queue = [s \in Socks |-> <<>>] /\ edge = {} /\ term = FALSE
    /\ pc = "wait" /\ events = {} /\ udp_fd = Nothing
    /\ cut = {}

Process == EpollWait \/ TakeSocket \/ TakeSignal \/ EndPass \/ Receive \/ Drained

LoopNext ==
    \/ Process
    \/ \E s \in Socks, dg \in Datagrams : Arrive(s, dg)
    \/ Interrupt

(* The process is scheduled. *)
LoopSpec == LoopInit /\ [][LoopNext]_loopVars /\ WF_loopVars(Process)

-----------------------------------------------------------------------------
(* Somebody will look at socket s. *)
Attended(s) == s \in edge \/ s \in events \/ s = udp_fd

(* Edges are not lost: a socket with datagrams has an unreported edge, is  *)
(* among the events or is being drained, whatever arrives between the last *)
(* read of daemon_process (src/main.c) and the next epoll_wait; unless its *)
(* last drain was cut short by an empty datagram.                          *)
NoLostEdge ==
    \A s \in Socks : pc # "returned" /\ queue[s] # <<>> => Attended(s) \/ s \in cut

(* Between two passes (daemon_process, src/main.c) no event is pending and *)
(* no socket is being drained; this makes NoLostEdge inductive.            *)
LoopInv ==
    /\ LoopTypeOK
    /\ pc = "wait" => events = {}
    /\ udp_fd # Nothing => pc = "events"
    /\ NoLostEdge

(* As NoLostEdge, with no exception. *)
NothingStranded ==
    \A s \in Socks : pc # "returned" /\ queue[s] # <<>> => Attended(s)

(* Every drain comes to an end: no socket gets datagrams as fast as they   *)
(* are handled, for ever.  The code does not see to it.                    *)
DrainsEnd == []<>(udp_fd = Nothing)

(* Every datagram is read in the end, unless it is stuck behind an empty   *)
(* one or the daemon is told to stop: daemon_process (src/main.c) gets     *)
(* round to every socket, though datagrams never cease to arrive, as long  *)
(* as no single drain goes on for ever.                                    *)
QueuesDrained ==
    DrainsEnd =>
        \A s \in Socks : queue[s] # <<>> ~> queue[s] = <<>> \/ s \in cut \/ pc = "returned"

(* A pending signal ends the loop (daemon_handle_signal, src/main.c)       *)
(* whatever goes on arriving, as long as no drain goes on for ever: the    *)
(* array of events has room for every descriptor.                          *)
SignalSeen == DrainsEnd => (term ~> pc = "returned")
==============================================================================
