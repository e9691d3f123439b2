------------------------------ MODULE UdpConn ------------------------------
(***************************************************************************)
(* The UDP connections of package core for one local source address: the   *)
(* table udpConns (core/udp_conn_map.go), whose key is that address, the   *)
(* callback that fills it (core/udp_callback_export.go), the connection    *)
(* objects (core/udp_conn.go) and the goroutines that use them.  For each  *)
(* connection these are the one newUDPConn starts ("dial") and those the   *)
(* handler's Connect starts: "fetch" waits for datagrams of the remote,    *)
(* "control" for the end of the SOCKS control connection                   *)
(* (proxy/socks/udp.go; proxy/redirect/udp.go has only "fetch").           *)
(*                                                                         *)
(* A critical section of conn.Lock or of the handler's lock is one step.   *)
(* A definition whose name ends in Bug is a plausible defect of the one    *)
(* that follows it.                                                        *)
(* Connections are numbered in the order they are created, datagrams from  *)
(* the source in the order they arrive.                                    *)
(***************************************************************************)
EXTENDS Naturals, Sequences

CONSTANTS
  MaxConns,      \* connections the source opens
  MaxPackets,    \* datagrams the source sends
  Cap,           \* capacity of a connection's pending channel
  HasControl,    \* the handler keeps a control connection (SOCKS)
  ClosesOnError, \* the handler's ReceiveTo closes the connection when it fails
  Faults         \* what may go wrong

ASSUME BoundsAssumption ==
  MaxConns \in Nat /\ MaxPackets \in Nat /\ Cap \in Nat \ {0}

\* Both are true of proxy/socks and false of proxy/redirect.
ASSUME HandlerAssumption == HasControl \in BOOLEAN /\ ClosesOnError \in BOOLEAN

\* "connect": Connect returns an error; "send": a datagram cannot be sent to the
\* remote; "end": a worker ends (timeout, bad datagram, control connection
\* closed); "stop": the stack is closed.
ASSUME FaultsAssumption == Faults \subseteq {"connect", "send", "end", "stop"}

VARIABLES
  rx,      \* place of the thread that holds lwipMutex in udpRecvFn, or "idle"
  rxConn,  \* its conn
  packet,  \* number of the datagram it works on, the last that arrived
  table,   \* the connection udpConns holds for the source, or 0
  created, \* connections created so far
  state,   \* conn.state
  pending, \* conn.pending
  open,    \* the handler's maps hold its sockets for the connection
  pc,      \* place of the connection's goroutines
  stop,    \* place of lwipStack.Close: "idle", "range", "remove" or "done"
  early,   \* datagrams that went into conn.pending
  handed   \* datagrams the handler sent to the remote, in order

rxVars   == <<rx, rxConn, packet>>
connVars == <<state, pending, open>>
history  == <<early, handed>>
vars     == <<rxVars, table, created, connVars, pc, stop, history>>

Conns == 1..MaxConns
Packets == 1..MaxPackets
Goroutines == {"dial", "fetch", "control"}

Init ==
  /\ rx = "idle" /\ rxConn = 0 /\ packet = 0 /\ table = 0 /\ created = 0
  /\ state = [c \in Conns |-> "connecting"]
  /\ pending = [c \in Conns |-> <<>>]
  /\ open = [c \in Conns |-> FALSE]
  /\ pc = [c \in Conns |-> [g \in Goroutines |-> "none"]]
  /\ stop = "idle"
  /\ early = [c \in Conns |-> {}]
  /\ handed = [c \in Conns |-> <<>>]

-----------------------------------------------------------------------------
Goto(c, g, place) == pc' = [pc EXCEPT ![c][g] = place]

\* conn.Close is two steps: the state under conn.Lock, then the entry of the
\* source in udpConns, whichever connection that is by now.
SetClosed(c) == state' = [state EXCEPT ![c] = "closed"]
DeleteEntry == table' = 0

KeepsSocketsBug(c) == UNCHANGED open

\* The handler's Close goes on to close the sockets and forget them.
Forgets(c) == open' = [open EXCEPT ![c] = FALSE]

MayForwardBug(c) == state[c] # "closed"

\* checkState returns nil.
MayForward(c) == state[c] = "connected"

PendingOverflowBug(c) == state[c] = "connecting" /\ Len(pending[c]) <= Cap
PendingWhenConnectedBug(c) == state[c] # "closed" /\ Len(pending[c]) < Cap

\* enqueueEarlyPacket copies the datagram into conn.pending if there is room.
GoesPending(c) == state[c] = "connecting" /\ Len(pending[c]) < Cap

KeptAndOfferedBug == rx' = "check"

\* It returned true: ReceiveTo has nothing more to do.
Kept == rx' = "idle"

WaitsForRoomBug(c) == Len(pending[c]) < Cap /\ rx' = "check"

\* It returned false, also when the channel is full.
NotKept(c) == rx' = "check"

NewestFirstBug(c) == pending[c][Len(pending[c])]

\* What the drain takes off the channel.
NextPending(c) == Head(pending[c])

\* The handler's ReceiveTo sends the datagram to the remote.
Sends(c, p) == open[c] /\ handed' = [handed EXCEPT ![c] = Append(@, p)]

\* It fails without sockets for the connection, or when the socket refuses.
Refuses(c) == (~open[c] \/ "send" \in Faults) /\ UNCHANGED handed

-----------------------------------------------------------------------------
(* udpRecvFn, in the lwIP thread.                                          *)

\* A datagram arrives and udpConns is asked for its connection; a new one is
\* created, and its goroutine started, if there is none.
Arrive ==
  /\ rx = "idle" /\ stop # "done" /\ packet < MaxPackets
  /\ packet' = packet + 1
  /\ \/ /\ table # 0
        /\ rxConn' = table /\ rx' = "offer"
        /\ UNCHANGED <<created, pc>>
     \/ /\ table = 0 /\ created < MaxConns
        /\ created' = created + 1 /\ rxConn' = created'
        /\ Goto(created', "dial", "connect")
        /\ rx' = "store"
  /\ UNCHANGED <<table, connVars, stop, history>>

\* udpConns.Store.
Store ==
  /\ rx = "store"
  /\ table' = rxConn
  /\ rx' = "offer"
  /\ UNCHANGED <<rxConn, packet, created, connVars, pc, stop, history>>

\* ReceiveTo: enqueueEarlyPacket.
Offer ==
  /\ rx = "offer"
  /\ IF GoesPending(rxConn)
     THEN /\ pending' = [pending EXCEPT ![rxConn] = Append(@, packet)]
          /\ early' = [early EXCEPT ![rxConn] = @ \cup {packet}]
          /\ Kept
     ELSE NotKept(rxConn) /\ UNCHANGED <<pending, early>>
  /\ UNCHANGED <<rxConn, packet, table, created, state, open, pc, stop, handed>>

\* ReceiveTo: checkState; an error is dropped by udpRecvFn, and so the datagram.
Check ==
  /\ rx = "check"
  /\ rx' = IF MayForward(rxConn) THEN "forward" ELSE "idle"
  /\ UNCHANGED <<rxConn, packet, table, created, connVars, pc, stop, history>>

\* ReceiveTo: handler.ReceiveTo.
Forward ==
  /\ rx = "forward"
  /\ \/ Sends(rxConn, packet) /\ rx' = "idle"
     \/ Refuses(rxConn) /\ rx' = IF ClosesOnError THEN "close" ELSE "idle"
  /\ UNCHANGED <<rxConn, packet, table, created, connVars, pc, stop, early>>

\* The handler's Close, called by its ReceiveTo in the lwIP thread.
RxClose ==
  /\ \/ /\ rx = "close" /\ SetClosed(rxConn) /\ rx' = "delete"
        /\ UNCHANGED <<table, open>>
     \/ /\ rx = "delete" /\ DeleteEntry /\ rx' = "forget"
        /\ UNCHANGED <<state, open>>
     \/ /\ rx = "forget" /\ Forgets(rxConn) /\ rx' = "idle"
        /\ UNCHANGED <<state, table>>
  /\ UNCHANGED <<rxConn, packet, created, pending, pc, stop, history>>

-----------------------------------------------------------------------------
(* The goroutine newUDPConn starts.                                        *)

\* Connect of proxy/socks: the control connection is watched first ...
StartControl(c) ==
  /\ pc[c]["dial"] = "connect" /\ HasControl
  /\ pc[c]["control"] = "none"
  /\ Goto(c, "control", "run")
  /\ UNCHANGED <<rxVars, table, created, connVars, stop, history>>

\* ... then the sockets are put into the maps and fetchUDPInput is started.
Register(c) ==
  /\ pc[c]["dial"] = "connect"
  /\ HasControl => pc[c]["control"] # "none"
  /\ open' = [open EXCEPT ![c] = TRUE]
  /\ pc' = [pc EXCEPT ![c]["dial"] = "connected", ![c]["fetch"] = "run"]
  /\ UNCHANGED <<rxVars, table, created, state, pending, stop, history>>

\* Connect returned nil: the state is set, whatever it was.
SetConnected(c) ==
  /\ pc[c]["dial"] = "connected"
  /\ state' = [state EXCEPT ![c] = "connected"]
  /\ Goto(c, "dial", "drain")
  /\ UNCHANGED <<rxVars, table, created, pending, open, stop, history>>

\* Connect returned an error: conn.Close.
ConnectFails(c) ==
  /\ "connect" \in Faults
  /\ pc[c]["dial"] = "connect"
  /\ Goto(c, "dial", "close")
  /\ UNCHANGED <<rxVars, table, created, connVars, stop, history>>

\* DrainPending: the early datagrams, until there are none or one fails.
Drain(c) ==
  /\ pc[c]["dial"] = "drain"
  /\ \/ /\ pending[c] = <<>>
        /\ Goto(c, "dial", "done")
        /\ UNCHANGED <<pending, handed>>
     \/ /\ pending[c] # <<>>
        /\ pending' = [pending EXCEPT ![c] = Tail(@)]
        /\ \/ Sends(c, NextPending(c)) /\ UNCHANGED pc
           \/ /\ Refuses(c)
              /\ Goto(c, "dial", IF ClosesOnError THEN "close" ELSE "done")
  /\ UNCHANGED <<rxVars, table, created, state, open, stop, early>>

-----------------------------------------------------------------------------
(* The handler's goroutines, and Close in any of the three.                *)

\* A worker's loop is over: its deferred Close.
WorkerEnds(c, w) ==
  /\ "end" \in Faults \/ (~open[c] /\ pc[c]["fetch"] # "none")
  /\ pc[c][w] = "run"
  /\ Goto(c, w, "close")
  /\ UNCHANGED <<rxVars, table, created, connVars, stop, history>>

\* A datagram of the remote: WriteFrom, checkState first ...
WriteFrom(c) ==
  /\ pc[c]["fetch"] = "run"
  /\ Goto(c, "fetch", IF MayForward(c) THEN "sendto" ELSE "close")
  /\ UNCHANGED <<rxVars, table, created, connVars, stop, history>>

\* ... then udp_sendto, without lwipMutex, and back to the loop.
Sendto(c) ==
  /\ pc[c]["fetch"] = "sendto"
  /\ Goto(c, "fetch", "run")
  /\ UNCHANGED <<rxVars, table, created, connVars, stop, history>>

\* conn.Close, and what the handler's Close does after it.  A Connect that
\* failed calls only conn.Close.
Close(c, g) ==
  /\ \/ /\ pc[c][g] = "close" /\ SetClosed(c) /\ Goto(c, g, "delete")
        /\ UNCHANGED <<table, open>>
     \/ /\ pc[c][g] = "delete" /\ DeleteEntry /\ Goto(c, g, "forget")
        /\ UNCHANGED <<state, open>>
     \/ /\ pc[c][g] = "forget" /\ Forgets(c) /\ Goto(c, g, "done")
        /\ UNCHANGED <<state, table>>
  /\ UNCHANGED <<rxVars, created, pending, stop, history>>

-----------------------------------------------------------------------------
(* lwipStack.Close.                                                        *)

\* udpConns.Range closes the connection it finds ...
StopRange ==
  /\ "stop" \in Faults /\ stop = "idle"
  /\ IF table = 0
     THEN stop' = "remove" /\ UNCHANGED state
     ELSE stop' = "range" /\ SetClosed(table)
  /\ UNCHANGED <<rxVars, table, created, pending, open, pc, history>>

StopDelete ==
  /\ stop = "range"
  /\ DeleteEntry
  /\ stop' = "remove"
  /\ UNCHANGED <<rxVars, created, connVars, pc, history>>

\* ... and the udp pcb is removed under lwipMutex.
StopRemove ==
  /\ stop = "remove" /\ rx = "idle"
  /\ stop' = "done"
  /\ UNCHANGED <<rxVars, table, created, connVars, pc, history>>

-----------------------------------------------------------------------------
Rx == Arrive \/ Store \/ Offer \/ Check \/ Forward \/ RxClose

Dial(c) == StartControl(c) \/ Register(c) \/ SetConnected(c) \/ ConnectFails(c)
           \/ Drain(c) \/ Close(c, "dial")

Worker(c) == WriteFrom(c) \/ Sendto(c)
             \/ \E w \in {"fetch", "control"} : WorkerEnds(c, w) \/ Close(c, w)

Stop == StopRange \/ StopDelete \/ StopRemove

\* No more datagrams come and every goroutine waits for the network or is done.
Quiet ==
  /\ rx = "idle" /\ (packet = MaxPackets \/ stop = "done" \/ created = MaxConns)
  /\ \A c \in Conns, g \in Goroutines : pc[c][g] \in {"none", "run", "done"}
  /\ stop \in {"idle", "done"}
  /\ UNCHANGED vars

Next == Rx \/ (\E c \in Conns : Dial(c) \/ Worker(c)) \/ Stop \/ Quiet

Spec == Init /\ [][Next]_vars

(***************************************************************************)
(* Fairness.  The lwIP thread and the dial goroutine run: Connect returns  *)
(* (the handlers dial with a timeout or do not block), and so does sending *)
(* a datagram.  A remote falls silent some day, and the read deadline of   *)
(* fetchUDPInput then ends it.                                             *)
(***************************************************************************)
FairSpec ==
  /\ Spec /\ WF_vars(Rx)
  /\ \A c \in Conns :
       /\ WF_vars(Dial(c)) /\ WF_vars(Worker(c))
       /\ SF_vars(WorkerEnds(c, "fetch"))

-----------------------------------------------------------------------------
CloseSteps == {"close", "delete", "forget"}

TypeOK ==
  /\ rx \in {"idle", "store", "offer", "check", "forward"} \cup CloseSteps
  /\ rxConn \in 0..created /\ (rx # "idle" => rxConn # 0)
  /\ packet \in 0..MaxPackets
  /\ created \in 0..MaxConns /\ table \in 0..created
  /\ state \in [Conns -> {"connecting", "connected", "closed"}]
  /\ pending \in [Conns -> Seq(Packets)]
  /\ open \in [Conns -> BOOLEAN]
  /\ pc \in [Conns -> [Goroutines ->
       {"none", "connect", "connected", "drain", "run", "sendto", "done"}
       \cup CloseSteps]]
  /\ stop \in {"idle", "range", "remove", "done"}
  /\ early \in [Conns -> SUBSET Packets]
  /\ handed \in [Conns -> Seq(Packets)]
  /\ \A c \in Conns : Len(pending[c]) <= Cap

\* ReceiveTo passes a datagram to the handler only when Connect has returned:
\* before that the handler has no socket for it.
ReadyBeforeUse ==
  rx = "forward" => pc[rxConn]["dial"] \notin {"none", "connect", "connected"}

\* No datagram is handed to the remote twice, by the drain and by ReceiveTo or
\* through two connections.
HandedOnce ==
  \A c, d \in Conns : \A i \in DOMAIN handed[c], j \in DOMAIN handed[d] :
    handed[c][i] = handed[d][j] => c = d /\ i = j

\* Datagrams that waited for Connect are sent in the order they came.
EarlyInOrder ==
  \A c \in Conns : \A i, j \in DOMAIN handed[c] :
    i < j /\ {handed[c][i], handed[c][j]} \subseteq early[c] =>
      handed[c][i] < handed[c][j]

\* Sockets in the handler's maps have a goroutine that will close them.
SocketsWatched ==
  \A c \in Conns : open[c] => pc[c]["fetch"] \notin {"none", "done"}

\* The lwIP thread leaves udpRecvFn, also when the pending channel is full and
\* nobody will empty it because Connect failed.
RxReturns == rx # "idle" ~> rx = "idle"

\* A datagram that waits for Connect is sent unless the connection is closed.
EarlyDelivered ==
  \A c \in Conns, p \in Packets :
    p \in early[c] ~> (state[c] = "closed" \/ \E i \in DOMAIN handed[c] : handed[c][i] = p)

-----------------------------------------------------------------------------
(* What comments in the code say and the code does not do.                 *)

\* conn.go:72: ReceiveTo is called with data from TUN to send them: udpConns does
\* not keep a connection that was closed.
ClosedLeavesTable ==
  table # 0 /\ state[table] = "closed" =>
    \/ rx = "delete" \/ stop = "range"
    \/ \E c \in Conns, g \in Goroutines : pc[c][g] = "delete"

=============================================================================
