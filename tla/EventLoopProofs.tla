--------------------------- MODULE EventLoopProofs ---------------------------
(***************************************************************************)
(* The event loop's invariants, for any number of sockets, any size of the *)
(* array of events and any size of the receive buffers.                    *)
(***************************************************************************)
EXTENDS EventLoop, TLAPS

LEMMA LoopInitially == LoopInit => LoopInv
  <1> SUFFICES ASSUME LoopInit  PROVE LoopInv
    OBVIOUS
  <1>1. <<>> \in Seq(Datagrams)
    OBVIOUS
  <1>2. LoopTypeOK
    BY <1>1 DEF LoopInit, LoopTypeOK
  <1>3. NoLostEdge
    BY DEF LoopInit, NoLostEdge
  <1>4. QED  BY <1>2, <1>3 DEF LoopInit, LoopInv

(* A queue of a socket stays one when something is appended or taken off. *)
LEMMA QueueSteps ==
  ASSUME LoopTypeOK, NEW s \in Socks
  PROVE  /\ \A dg \in Datagrams : Append(queue[s], dg) \in Seq(Datagrams)
         /\ queue[s] # <<>> => Tail(queue[s]) \in Seq(Datagrams)
  BY DEF LoopTypeOK

LEMMA ArriveKeeps ==
  ASSUME LoopInv, NEW s \in Socks, NEW dg \in Datagrams, Arrive(s, dg)
  PROVE  LoopInv'
  <1>1. LoopTypeOK'
    BY QueueSteps DEF Arrive, LoopInv, LoopTypeOK
  <1>2. NoLostEdge'
    BY DEF Arrive, LoopInv, LoopTypeOK, NoLostEdge, Attended
  <1>3. QED  BY <1>1, <1>2 DEF Arrive, LoopInv

LEMMA InterruptKeeps == LoopInv /\ Interrupt => LoopInv'
  BY DEF Interrupt, LoopInv, LoopTypeOK, NoLostEdge, Attended

LEMMA EpollWaitKeeps == LoopInv /\ EpollWait => LoopInv'
  <1> SUFFICES ASSUME LoopInv, EpollWait  PROVE LoopInv'
    OBVIOUS
  <1>1. PICK es \in SUBSET Ready :
           events' = es /\ edge' = {s \in edge : queue[s] # <<>>} \ es
    BY DEF EpollWait
  <1>2. LoopTypeOK'
    BY <1>1 DEF EpollWait, LoopInv, LoopTypeOK, Ready
  <1>3. NoLostEdge'
    <2> SUFFICES ASSUME NEW s \in Socks, queue'[s] # <<>>
                 PROVE  Attended(s)' \/ s \in cut'
      BY DEF NoLostEdge
    <2>1. s \in edge \/ s \in cut
      BY LoopAssumption DEF EpollWait, LoopInv, NoLostEdge, Attended
    <2>2. QED  BY <1>1, <2>1 DEF EpollWait, Attended
  <1>4. QED  BY <1>2, <1>3 DEF EpollWait, LoopInv

LEMMA TakeSocketKeeps == LoopInv /\ TakeSocket => LoopInv'
  <1> SUFFICES ASSUME LoopInv, TakeSocket  PROVE LoopInv'
    OBVIOUS
  <1>1. PICK s \in events \ {Signal} : udp_fd' = s /\ events' = events \ {s}
    BY DEF TakeSocket
  <1>2. LoopTypeOK'
    BY <1>1 DEF TakeSocket, LoopInv, LoopTypeOK
  <1>3. NoLostEdge'
    BY <1>1, LoopAssumption DEF TakeSocket, LoopInv, NoLostEdge, Attended
  <1>4. QED  BY <1>1, <1>2, <1>3 DEF TakeSocket, LoopInv

LEMMA TakeSignalKeeps == LoopInv /\ TakeSignal => LoopInv'
  BY DEF TakeSignal, LoopInv, LoopTypeOK, NoLostEdge

LEMMA EndPassKeeps == LoopInv /\ EndPass => LoopInv'
  BY DEF EndPass, LoopInv, LoopTypeOK, NoLostEdge, Attended

LEMMA ReceiveKeeps == LoopInv /\ Receive => LoopInv'
  <1> SUFFICES ASSUME LoopInv, Receive  PROVE LoopInv'
    OBVIOUS
  <1>1. udp_fd \in Socks
    BY DEF Receive, LoopInv, LoopTypeOK
  <1>2. LoopTypeOK'
    BY <1>1, QueueSteps DEF Receive, LoopInv, LoopTypeOK
  <1>3. NoLostEdge'
    BY <1>1, LoopAssumption DEF Receive, LoopInv, LoopTypeOK, NoLostEdge, Attended
  <1>4. QED  BY <1>2, <1>3 DEF Receive, LoopInv

LEMMA DrainedKeeps == LoopInv /\ Drained => LoopInv'
  BY LoopAssumption DEF Drained, LoopInv, LoopTypeOK, NoLostEdge, Attended

LEMMA LoopStep == LoopInv /\ [LoopNext]_loopVars => LoopInv'
  <1> SUFFICES ASSUME LoopInv, [LoopNext]_loopVars  PROVE LoopInv'
    OBVIOUS
  <1>1. CASE Process
    BY <1>1, EpollWaitKeeps, TakeSocketKeeps, TakeSignalKeeps, EndPassKeeps, ReceiveKeeps,
       DrainedKeeps DEF Process
  <1>2. CASE \E s \in Socks, dg \in Datagrams : Arrive(s, dg)
    BY <1>2, ArriveKeeps
  <1>3. CASE Interrupt
    BY <1>3, InterruptKeeps
  <1>4. CASE UNCHANGED loopVars
    BY <1>4 DEF loopVars, LoopInv, LoopTypeOK, NoLostEdge, Attended
  <1>5. QED  BY <1>1, <1>2, <1>3, <1>4 DEF LoopNext

(* The loop's state is consistent: daemon_process (src/main.c) leaves no   *)
(* event unlooked at when it goes back to epoll_wait.                      *)
THEOREM LoopConsistent == LoopSpec => []LoopInv
  BY LoopInitially, LoopStep, PTL DEF LoopSpec

(* No edge is ever lost (daemon_process, src/main.c), for any number of    *)
(* sockets and even if the array of events is too small for them.          *)
THEOREM EdgesKept == LoopSpec => []NoLostEdge
  <1>1. LoopInv => NoLostEdge
    BY DEF LoopInv
  <1>2. QED  BY <1>1, LoopConsistent, PTL
==============================================================================
