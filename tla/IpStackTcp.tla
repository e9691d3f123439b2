----------------------------- MODULE IpStackTcp -----------------------------
(***************************************************************************)
(* One TCP connection of ipstack: TCPConn with its channel chRead of pbuf  *)
(* chains, its condition variable condSent and its read timer, the         *)
(* callbacks of c_export.go, and the part of lwIP that calls them.  Four   *)
(* goroutines act on it: the one that reads packets and runs lwIP under    *)
(* is.Mutex, the one that tcpAcceptFn starts, WriteTo and ReadFrom.        *)
(*                                                                         *)
(* A pbuf chain is a sequence of units; <<>> is the nil that stands for    *)
(* EOF.  chRead, and the refusal of what does not fit, are modelled in     *)
(* full; sequence numbers and windows are not.  Where the code uses a pcb  *)
(* lwIP has freed, the step has no effect on this connection.  A           *)
(* definition whose name ends in Bug is a plausible defect of the one that *)
(* follows it.                                                             *)
(***************************************************************************)
EXTENDS Naturals, Sequences, SequencesExt

CONSTANTS
  MaxData,  \* units the peer sends
  MaxChain, \* units of a segment
  MaxWrite, \* units ReadFrom reads from its source
  Cap,      \* capacity of chRead (8 in the code)
  Faults    \* "reset", "write" (w.Write fails), "memory" (tcp_write fails),
            \* "handle" (TcpHandle fails), "timer", "close"

ASSUME BoundsAssumption ==
  MaxData \in Nat /\ MaxWrite \in Nat /\ MaxChain \in Nat \ {0} /\ Cap \in Nat \ {0}
ASSUME FaultsAssumption ==
  Faults \subseteq {"reset", "write", "memory", "handle", "timer", "close"}

VARIABLES
  pcb,       \* "live", "closing" (lwIP closed it itself) or "gone"
  registered,\* its callbacks are those of c_export.go
  arrived,   \* units lwIP has taken over from the peer
  early,     \* ... of which tcp_recv_null swallowed the first
  ended,     \* it has processed the peer's FIN
  refused,   \* pcb.refused_data and its PBUF_FLAG_TCP_FIN
  lock,      \* who holds is.Mutex
  seg,       \* the segment being processed
  step,      \* where lwIP is, on behalf of the holder of is.Mutex
  retrying,  \* it is in tcp_process_refused_data
  data,      \* the chain in the recv callback that lwIP is making
  connPcb,   \* conn.pcb is not nil
  chRead,
  closed,    \* chRead is closed
  accept,    \* place of tcpAcceptFn's goroutine
  writer,    \* place of WriteTo
  p,         \* its local variable p
  delivered, \* what w.Write has taken
  result,    \* what WriteTo has returned: "more" while it can go on
  timer,     \* conn.rTimer: "set" or "drained" (its only tick was received)
  freed,     \* units given to pbuf_free
  sender,    \* place of ReadFrom
  offered,   \* units it has read
  b,         \* what its last Read put into its buffer b
  queued,    \* the units tcp_write has taken
  unacked,   \* how many of them the peer has not acknowledged in full
  errAt      \* place in tcpErrFn of each goroutine that calls it

lwipVars   == <<pcb, registered, arrived, early, ended, refused>>
callVars   == <<lock, seg, step, retrying, data>>
chanVars   == <<connPcb, chRead, closed>>
writerVars == <<writer, p, delivered, result, timer>>
senderVars == <<sender, offered, b, queued, unacked>>
vars == <<lwipVars, callVars, chanVars, accept, writerVars, freed, senderVars, errAt>>

Nil == <<>>
Nothing == [data |-> Nil, fin |-> FALSE]
Ack     == [data |-> Nil, fin |-> FALSE, rst |-> FALSE]
Callers == {"locked", "writer", "sender"}
Chain(first, length) == [i \in 1..length |-> first + i]

Init ==
  /\ pcb = "live" /\ registered = FALSE /\ arrived = 0 /\ early = 0
  /\ ended = FALSE /\ refused = Nothing
  /\ lock = "none" /\ seg = Ack /\ step = "none"
  /\ retrying = FALSE /\ data = Nil
  /\ connPcb = TRUE /\ chRead = <<>> /\ closed = FALSE
  /\ accept = "spawned"
  /\ writer = "idle" /\ p = Nil /\ delivered = <<>> /\ result = "more"
  /\ timer = "set" /\ freed = {}
  /\ sender = "idle" /\ offered = 0 /\ b = Nil /\ queued = <<>> /\ unacked = 0
  /\ errAt = [c \in Callers |-> "out"]

-----------------------------------------------------------------------------
(* lwIP, under is.Mutex.                                                   *)

\* A packet of the peer.
Packet ==
  /\ lock = "none" /\ pcb # "gone"
  /\ \E n \in 0..MaxChain, fin, rst \in BOOLEAN :
       /\ n > 0 \/ fin => ~ended /\ ~rst /\ arrived + n <= MaxData
       /\ rst => "reset" \in Faults
       /\ seg' = [data |-> Chain(arrived, n), fin |-> fin, rst |-> rst]
  /\ lock' = "input"
  /\ step' = IF refused.data # Nil THEN "retry" ELSE "segment"
  /\ UNCHANGED <<lwipVars, retrying, data, chanVars, accept, writerVars, freed,
                 senderVars, errAt>>

\* tcp_process_refused_data.
Retry ==
  /\ step = "retry"
  /\ retrying' = TRUE /\ step' = "recv"
  /\ data' = refused.data /\ refused' = [refused EXCEPT !.data = Nil]
  /\ UNCHANGED <<pcb, registered, arrived, early, ended, lock, seg, chanVars,
                 accept, writerVars, freed, senderVars, errAt>>

\* The sent callback signals without holding condSent.L, for part of a unit too.
Signalled(acked) ==
  /\ sender' \in {sender, "read"}
  /\ sender' # sender => sender = "waiting" /\ registered /\ unacked > 0
  /\ sender = "waiting" /\ registered /\ acked > 0 => sender' = "read"

\* tcp_process and the callbacks that tcp_input makes after it.  Until newTcpConn
\* has registered the connection's own, tcp_recv_null frees data and answers a FIN
\* with tcp_close; such a pcb goes with the acknowledgement of that FIN, unreported.
Segment ==
  /\ step = "segment" /\ ~seg.rst
  /\ arrived' = arrived + Len(seg.data) /\ ended' = (ended \/ seg.fin)
  /\ \E acked \in 0..unacked :
       unacked' = unacked - acked /\ Signalled(acked)
  /\ IF registered
     THEN /\ data' = seg.data
          /\ step' = IF seg.data # Nil THEN "recv" ELSE IF seg.fin THEN "eof" ELSE "leave"
          /\ pcb' \in IF pcb = "closing" THEN {"closing", "gone"} ELSE {pcb}
          /\ UNCHANGED early
     ELSE /\ early' = early + Len(seg.data) /\ step' = "leave"
          /\ pcb' \in CASE seg.fin -> {"closing"}
                        [] pcb = "closing" -> {"closing", "gone"}
                        [] OTHER -> {pcb}
          /\ UNCHANGED data
  /\ UNCHANGED <<registered, refused, lock, seg, retrying, chanVars, accept,
                 writerVars, freed, offered, b, queued, errAt>>

\* The RST of the peer: the err callback first, then the pcb is freed.
ResetEnters ==
  /\ step = "segment" /\ seg.rst
  /\ step' = "reset"
  /\ errAt' = IF registered THEN [errAt EXCEPT !["locked"] = "test"] ELSE errAt
  /\ UNCHANGED <<lwipVars, lock, seg, retrying, data, chanVars, accept, writerVars,
                 freed, senderVars>>

ResetLeaves ==
  /\ step = "reset" /\ errAt["locked"] = "out"
  /\ pcb' = "gone" /\ refused' = Nothing /\ step' = "leave"
  /\ UNCHANGED <<registered, arrived, early, ended, lock, seg, retrying, data,
                 chanVars, accept, writerVars, freed, senderVars, errAt>>

\* What lwIP does once a chain was accepted, and once EOF was announced.
Resume == IF retrying /\ lock = "input" THEN "segment" ELSE "leave"
Accepted ==
  /\ step' = IF (IF retrying THEN refused.fin ELSE seg.fin) THEN "eof" ELSE Resume
  /\ retrying' = (retrying /\ refused.fin)
  /\ refused' = Nothing /\ data' = Nil

-----------------------------------------------------------------------------
(* tcpRecvFn.                                                              *)

RoomAlwaysBug == TRUE
ChannelHasRoom == Len(chRead) < Cap

RefusesNothingBug == FALSE
Refuses == Len(chRead) >= Cap

RecvDrops ==
  /\ step = "recv" /\ ~connPcb
  /\ freed' = freed \cup ToSet(data)
  /\ Accepted
  /\ UNCHANGED <<pcb, registered, arrived, early, ended, lock, seg, chanVars,
                 accept, writerVars, senderVars, errAt>>

RecvTakes ==
  /\ step = "recv" /\ connPcb /\ ~Refuses
  /\ step' = "put"
  /\ UNCHANGED <<lwipVars, lock, seg, retrying, data, chanVars, accept, writerVars,
                 freed, senderVars, errAt>>

RecvPuts ==
  /\ step = "put" /\ ChannelHasRoom
  /\ chRead' = Append(chRead, data)
  /\ Accepted
  /\ UNCHANGED <<pcb, registered, arrived, early, ended, lock, seg, connPcb, closed,
                 accept, writerVars, freed, senderVars, errAt>>

KeptNothingBug == [data |-> Nil, fin |-> IF retrying THEN refused.fin ELSE seg.fin]

\* pcb.refused_data, which takes the flag of a FIN that came with it.
Kept == [data |-> data, fin |-> IF retrying THEN refused.fin ELSE seg.fin]

EofFirstBug == IF seg.fin THEN "eof" ELSE "leave"

\* A segment that comes on top of refused data is dropped if it has data or a FIN,
\* and processed if it only acknowledges or resets.
AfterRefusal == IF seg.data # Nil \/ seg.fin THEN "leave" ELSE Resume

\* ERR_CONN: lwIP keeps the chain.
RecvRefuses ==
  /\ step = "recv" /\ connPcb /\ Refuses
  /\ refused' = Kept
  /\ data' = Nil /\ retrying' = FALSE
  /\ step' = AfterRefusal
  /\ UNCHANGED <<pcb, registered, arrived, early, ended, lock, seg, chanVars,
                 accept, writerVars, freed, senderVars, errAt>>

Eof ==
  /\ step = "eof"
  /\ step' = IF connPcb THEN "eofput" ELSE Resume
  /\ retrying' = (retrying /\ connPcb)
  /\ UNCHANGED <<lwipVars, lock, seg, data, chanVars, accept, writerVars, freed,
                 senderVars, errAt>>

\* The nil is sent whether or not there is room: lwIP waits, with is.Mutex held.
EofPuts ==
  /\ step = "eofput" /\ ChannelHasRoom
  /\ chRead' = Append(chRead, Nil)
  /\ step' = Resume /\ retrying' = FALSE
  /\ UNCHANGED <<lwipVars, lock, seg, data, connPcb, closed, accept, writerVars,
                 freed, senderVars, errAt>>

\* The pcb was aborted behind lwIP's back: it may do anything but deliver.
PcbLost ==
  /\ step \in {"retry", "segment", "recv", "eof"} /\ pcb = "gone"
  /\ step' = "leave" /\ retrying' = FALSE /\ data' = Nil
  /\ UNCHANGED <<lwipVars, lock, seg, chanVars, accept, writerVars, freed,
                 senderVars, errAt>>

\* is.Unlock.
Leave ==
  /\ step = "leave"
  /\ lock' = "none" /\ step' = "none" /\ seg' = Ack
  /\ accept' = IF lock = "accept" THEN "done" ELSE accept
  /\ UNCHANGED <<lwipVars, retrying, data, chanVars, writerVars, freed, senderVars,
                 errAt>>

-----------------------------------------------------------------------------
(* tcpErrFn, in lwIP's hands or, from tcp_abort, in WriteTo's or ReadFrom's. *)

At(c, place) == errAt' = [errAt EXCEPT ![c] = place]

ErrTests(c) ==
  /\ errAt[c] = "test"
  /\ At(c, IF connPcb THEN "clear" ELSE "out")
  /\ UNCHANGED <<lwipVars, callVars, chanVars, accept, writerVars, freed, senderVars>>

ErrClears(c) ==
  /\ errAt[c] = "clear"
  /\ connPcb' = FALSE /\ At(c, "put")
  /\ UNCHANGED <<lwipVars, callVars, chRead, closed, accept, writerVars, freed, senderVars>>

ErrPuts(c) ==
  /\ errAt[c] = "put" /\ ~closed /\ ChannelHasRoom
  /\ chRead' = Append(chRead, Nil) /\ At(c, "out")
  /\ UNCHANGED <<lwipVars, callVars, connPcb, closed, accept, writerVars, freed, senderVars>>

\* Close came between the test and the send: a send on a closed channel panics.
ErrPanics(c) ==
  /\ errAt[c] = "put" /\ closed
  /\ At(c, "panic")
  /\ UNCHANGED <<lwipVars, callVars, chanVars, accept, writerVars, freed, senderVars>>

\* tcp_abort(conn.pcb), without is.Mutex: nothing if conn.pcb is nil.
Aborts(c) ==
  IF connPcb /\ pcb # "gone"
    THEN pcb' = "gone" /\ refused' = Nothing /\ At(c, "test")
    ELSE UNCHANGED <<pcb, refused, errAt>>

-----------------------------------------------------------------------------
(* The goroutine of tcpAcceptFn, and Close.                                *)

\* newTcpConn.  lwIP may have freed the pcb by now.
Register ==
  /\ accept = "spawned" /\ lock = "none"
  /\ registered' = (pcb # "gone")
  /\ accept' = "handling"
  /\ UNCHANGED <<pcb, arrived, early, ended, refused, callVars, chanVars, writerVars,
                 freed, senderVars, errAt>>

HandleReturns ==
  /\ accept = "handling"
  /\ accept' = "kick" \/ ("handle" \in Faults /\ accept' = "abort")
  /\ UNCHANGED <<lwipVars, callVars, chanVars, writerVars, freed, senderVars, errAt>>

AcceptRetries ==
  /\ accept = "kick" /\ lock = "none"
  /\ lock' = "accept"
  /\ step' = IF refused.data # Nil THEN "retry" ELSE "leave"
  /\ UNCHANGED <<lwipVars, seg, retrying, data, chanVars, accept, writerVars, freed,
                 senderVars, errAt>>

AcceptAborts ==
  /\ accept = "abort" /\ lock = "none"
  /\ lock' = "accept" /\ step' = "aborted"
  /\ IF registered /\ pcb # "gone"
       THEN pcb' = "gone" /\ refused' = Nothing /\ At("locked", "test")
       ELSE UNCHANGED <<pcb, refused, errAt>>
  /\ UNCHANGED <<registered, arrived, early, ended, seg, retrying, data, chanVars,
                 accept, writerVars, freed, senderVars>>

AcceptAborted ==
  /\ step = "aborted" /\ errAt["locked"] = "out"
  /\ step' = "leave"
  /\ UNCHANGED <<lwipVars, lock, seg, retrying, data, chanVars, accept, writerVars,
                 freed, senderVars, errAt>>

\* Close takes the chains out of the closed channel up to the first nil.
Drained ==
  LET nil == SelectInSeq(chRead, LAMBDA c : c = Nil)
  IN  ToSet(FlattenSeq(IF nil = 0 THEN chRead ELSE SubSeq(chRead, 1, nil)))

\* By the handler or, once nothing refers to the connection, by its finalizer.
Close ==
  /\ "close" \in Faults /\ accept # "spawned" /\ lock = "none" /\ connPcb
  /\ connPcb' = FALSE /\ closed' = TRUE
  /\ freed' = freed \cup Drained
  /\ chRead' = <<>>
  /\ UNCHANGED <<lwipVars, callVars, accept, writerVars, senderVars, errAt>>

-----------------------------------------------------------------------------
(* WriteTo.                                                                *)

WriterStarts ==
  /\ writer = "idle" /\ accept # "spawned"
  /\ writer' = "select"
  /\ UNCHANGED <<lwipVars, callVars, chanVars, accept, p, delivered, result, timer,
                 freed, senderVars, errAt>>

WriterTakes ==
  /\ writer = "select" /\ chRead # <<>> /\ Head(chRead) # Nil
  /\ p' = Head(chRead) /\ chRead' = Tail(chRead)
  /\ writer' = "check"
  /\ UNCHANGED <<lwipVars, callVars, connPcb, closed, accept, delivered, result,
                 timer, freed, senderVars, errAt>>

\* nil from a callback, or from the closed channel: WriteTo returns without error.
WriterTakesNil ==
  /\ writer = "select"
  /\ \/ chRead # <<>> /\ Head(chRead) = Nil /\ chRead' = Tail(chRead)
     \/ chRead = <<>> /\ closed /\ UNCHANGED chRead
  /\ writer' = "done" /\ result' = "eof"
  /\ UNCHANGED <<lwipVars, callVars, connPcb, closed, accept, p, delivered, timer,
                 freed, senderVars, errAt>>

\* rTimer ticks once: it goes back to the pool, and stays conn.rTimer.
WriterTimesOut ==
  /\ "timer" \in Faults /\ writer = "select" /\ timer = "set"
  /\ timer' = "drained" /\ writer' = "timedout"
  /\ UNCHANGED <<lwipVars, callVars, chanVars, accept, p, delivered, result, freed,
                 senderVars, errAt>>

\* The handler calls WriteTo again, or SetReadDeadline first, which waits for a
\* tick that was received already.
WriterGoesOn ==
  /\ writer = "timedout"
  /\ writer' \in {"select", "stuck"}
  /\ UNCHANGED <<lwipVars, callVars, chanVars, accept, p, delivered, result, timer,
                 freed, senderVars, errAt>>

WriterChecks ==
  /\ writer = "check"
  /\ IF connPcb THEN writer' = "write" /\ UNCHANGED result
                ELSE writer' = "done" /\ result' = "eof"
  /\ UNCHANGED <<lwipVars, callVars, chanVars, accept, p, delivered, timer, freed,
                 senderVars, errAt>>

WriterWrites ==
  /\ writer = "write"
  /\ delivered' = Append(delivered, Head(p))
  /\ writer' = "lock"
  /\ UNCHANGED <<lwipVars, callVars, chanVars, accept, p, result, timer, freed,
                 senderVars, errAt>>

FreesChainBug == ToSet(p)
Freed == {Head(p)}

\* tcp_recved and pbuf_free of the first pbuf of the chain, under is.Mutex.
WriterFrees ==
  /\ writer = "lock" /\ lock = "none"
  /\ freed' = freed \cup Freed /\ p' = Tail(p)
  /\ writer' = IF Tail(p) = Nil THEN "select" ELSE "write"
  /\ UNCHANGED <<lwipVars, callVars, chanVars, accept, delivered, result, timer,
                 senderVars, errAt>>

\* w.Write fails or is short.
WriterFails ==
  /\ "write" \in Faults /\ writer = "write"
  /\ writer' = "abort" /\ Aborts("writer")
  /\ UNCHANGED <<registered, arrived, early, ended, callVars, chanVars, accept, p,
                 delivered, result, timer, freed, senderVars>>

WriterReturns ==
  /\ writer = "abort" /\ errAt["writer"] = "out"
  /\ writer' = "done" /\ result' = "error"
  /\ UNCHANGED <<lwipVars, callVars, chanVars, accept, p, delivered, timer, freed,
                 senderVars, errAt>>

-----------------------------------------------------------------------------
(* ReadFrom, which holds condSent.L except in Wait.                        *)

SenderStarts ==
  /\ sender = "idle" /\ accept # "spawned"
  /\ sender' = "read"
  /\ UNCHANGED <<lwipVars, callVars, chanVars, accept, writerVars, freed, offered, b,
                 queued, unacked, errAt>>

\* A unit, a unit with the end of the source, or the end alone.  ReadFrom leaves its
\* loop on any end, and does not write the unit that came with it: "cut".
SenderReads ==
  /\ sender = "read"
  /\ \/ /\ offered < MaxWrite
        /\ offered' = offered + 1 /\ b' = <<offered'>>
        /\ sender' \in {"check", "cut"}
     \/ sender' = "done" /\ b' = Nil /\ UNCHANGED offered
  /\ UNCHANGED <<lwipVars, callVars, chanVars, accept, writerVars, freed, queued,
                 unacked, errAt>>

SenderChecks ==
  /\ sender = "check"
  /\ sender' = IF connPcb THEN "write" ELSE "done"
  /\ UNCHANGED <<lwipVars, callVars, chanVars, accept, writerVars, freed, offered, b,
                 queued, unacked, errAt>>

\* tcp_write fails on a pcb that is nil or closing, or for want of memory.
SenderWrites ==
  /\ sender = "write" /\ lock = "none"
  /\ \/ /\ connPcb /\ pcb = "live"
        /\ queued' = queued \o b /\ unacked' = unacked + 1
        /\ sender' = "output"
     \/ /\ ~connPcb \/ pcb # "live" \/ "memory" \in Faults
        /\ sender' = "fail" /\ UNCHANGED <<queued, unacked>>
  /\ UNCHANGED <<lwipVars, callVars, chanVars, accept, writerVars, freed, offered, b,
                 errAt>>

SkipsUnitBug ==
  /\ sender = "fail" /\ sender' = "read"
  /\ UNCHANGED <<lwipVars, callVars, chanVars, accept, writerVars, freed, offered, b,
                 queued, unacked, errAt>>

SenderFails ==
  /\ sender = "fail"
  /\ sender' = "abort" /\ Aborts("sender")
  /\ UNCHANGED <<registered, arrived, early, ended, callVars, chanVars, accept,
                 writerVars, freed, offered, b, queued, unacked>>

SenderReturns ==
  /\ sender = "abort" /\ errAt["sender"] = "out"
  /\ sender' = "done"
  /\ UNCHANGED <<lwipVars, callVars, chanVars, accept, writerVars, freed, offered, b,
                 queued, unacked, errAt>>

\* tcp_output in a critical section of its own; Wait comes after it.
SenderOutputs ==
  /\ sender = "output" /\ lock = "none"
  /\ sender' = "wait"
  /\ UNCHANGED <<lwipVars, callVars, chanVars, accept, writerVars, freed, offered, b,
                 queued, unacked, errAt>>

SenderWaits ==
  /\ sender = "wait"
  /\ sender' = "waiting"
  /\ UNCHANGED <<lwipVars, callVars, chanVars, accept, writerVars, freed, offered, b,
                 queued, unacked, errAt>>

-----------------------------------------------------------------------------
Lwip == \/ Packet \/ Retry \/ Segment \/ ResetEnters \/ ResetLeaves \/ RecvDrops
        \/ RecvTakes \/ RecvPuts \/ RecvRefuses \/ Eof \/ EofPuts \/ PcbLost \/ Leave

Callback(c) == ErrTests(c) \/ ErrClears(c) \/ ErrPuts(c) \/ ErrPanics(c)

Acceptor == \/ Register \/ HandleReturns \/ AcceptRetries \/ AcceptAborts
            \/ AcceptAborted

WriteTo == \/ WriterStarts \/ WriterTakes \/ WriterTakesNil \/ WriterTimesOut
           \/ WriterGoesOn \/ WriterChecks \/ WriterWrites \/ WriterFrees
           \/ WriterFails \/ WriterReturns

ReadFrom == \/ SenderStarts \/ SenderReads \/ SenderChecks \/ SenderWrites
            \/ SenderFails \/ SenderReturns \/ SenderOutputs \/ SenderWaits

Next == \/ Lwip \/ Acceptor \/ Close \/ WriteTo \/ ReadFrom
        \/ \E c \in Callers : Callback(c)

Spec == Init /\ [][Next]_vars

-----------------------------------------------------------------------------
Chains == Seq(1..MaxData)

TypeOK ==
  /\ pcb \in {"live", "closing", "gone"} /\ registered \in BOOLEAN
  /\ arrived \in 0..MaxData /\ early \in 0..arrived /\ ended \in BOOLEAN
  /\ refused \in [data : Chains, fin : BOOLEAN]
  /\ seg \in [data : Chains, fin : BOOLEAN, rst : BOOLEAN] /\ data \in Chains
  /\ lock \in {"none", "input", "accept"} /\ retrying \in BOOLEAN
  /\ step \in {"none", "retry", "segment", "recv", "put", "eof", "eofput", "reset",
               "aborted", "leave"}
  /\ connPcb \in BOOLEAN /\ closed \in BOOLEAN
  /\ chRead \in Seq(Chains) /\ Len(chRead) <= Cap
  /\ accept \in {"spawned", "handling", "kick", "abort", "done"}
  /\ writer \in {"idle", "select", "check", "write", "lock", "abort", "timedout",
                 "stuck", "done"}
  /\ p \in Chains /\ delivered \in Chains /\ result \in {"more", "eof", "error"}
  /\ timer \in {"set", "drained"}
  /\ sender \in {"idle", "read", "check", "write", "output", "wait", "waiting",
                 "fail", "abort", "cut", "done"}
  /\ offered \in 0..MaxWrite /\ b \in Seq(1..MaxWrite)
  /\ queued \in Seq(1..MaxWrite) /\ unacked \in 0..Len(queued)
  /\ errAt \in [Callers -> {"out", "test", "clear", "put", "panic"}]

\* The connection was neither closed nor aborted, by anybody.
Intact == connPcb /\ pcb # "gone"

InHand == IF writer = "lock" THEN Tail(p) ELSE p

\* While the connection is intact, what w.Write got, what WriteTo holds, what is in
\* chRead, what a callback carries and what lwIP keeps as refused are, in this
\* order, all the peer sent since newTcpConn, with nothing lost, doubled or moved.
StreamKept ==
  Intact =>
    delivered \o InHand \o FlattenSeq(chRead) \o data \o refused.data
      = Chain(early, arrived - early)

\* No pbuf that WriteTo, chRead, a callback or lwIP still refers to was freed,
\* whoever fails or closes.
HeldNotFreed ==
  ToSet(p \o FlattenSeq(chRead) \o data \o refused.data) \cap freed = {}

\* tcpRecvFn looks at the length of chRead and sends in two steps: with data it
\* blocks, is.Mutex held, only if WriteTo or ReadFrom aborted the pcb in between,
\* without is.Mutex, and the nil of tcpErrFn took the last place.
DataBlocksOnlyAfterAbort ==
  step = "put" /\ ~ChannelHasRoom
    => ~connPcb /\ pcb = "gone" /\ Last(chRead) = Nil

Uplink == INSTANCE UplinkStream WITH
  sent <- arrived - early, ended <- ended, delivered <- Len(delivered),
  broken <- ~Intact, result <- result

\* For its reader the connection is the byte stream of UplinkStream: no EOF before
\* the last unit, refused or not, unless the connection was closed or aborted.
ReaderStream == Uplink!Spec

\* What ReadFrom has in b and not passed to tcp_write.
Unwritten ==
  IF sender \in {"idle", "read", "output", "wait", "waiting"} THEN Nil ELSE b

\* tcp_write gets the units ReadFrom reads, each once and in their order.  At most
\* the last one is missing, and when ReadFrom has returned and the connection is
\* intact, only one that came with the end of the source.
SourceKept ==
  /\ queued \o Unwritten = Chain(0, offered)
  /\ Intact /\ Unwritten # Nil => sender \in {"check", "write", "fail", "cut"}

=============================================================================
