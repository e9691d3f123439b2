------------------------------ MODULE TcpConn ------------------------------
(***************************************************************************)
(* One TCP connection of package core: the tcpConn of core/tcp_conn.go,    *)
(* the callbacks lwIP makes on it (core/tcp_callback_export.go), the part  *)
(* of its protocol control block (pcb) those callbacks depend on           *)
(* (core/c/core/tcp.c, tcp_in.c) and the goroutines that use it: the one   *)
(* newTCPConn starts ("dial"), the two of a proxy handler's relay ("up"    *)
(* copies TUN to remote, "down" copies remote to TUN) and lwipStack.Close  *)
(* ("stop").  "stack" stands for the goroutines that enter lwIP with a     *)
(* packet or a timer; lwipMutex lets one of them in at a time.             *)
(*                                                                         *)
(* A critical section of conn.Lock is one step, and so is one of lwipMutex *)
(* that makes no callback.  An entry into lwIP that makes callbacks holds  *)
(* the mutex over several steps: `todo` is what lwIP will still do and     *)
(* `at` is the place inside the callback that is running.                  *)
(*                                                                         *)
(* Data are counted in units: a unit is what one segment carries, one      *)
(* recv callback delivers and one Read returns.                            *)
(***************************************************************************)
EXTENDS Naturals

CONSTANTS
  MaxData,   \* units the local peer sends before its FIN
  MaxWrite,  \* units the handler writes towards TUN
  SndBuf,    \* capacity of the pcb's send buffer, in units
  Faults     \* what may go wrong around the connection

ASSUME BoundsAssumption ==
  MaxData \in Nat /\ MaxWrite \in Nat /\ SndBuf \in Nat \ {0}

\* "dial": the handler fails to reach the remote; "rst": the peer resets;
\* "timeout": lwIP gives up retransmitting; "interrupt": the remote side of the
\* relay breaks; "stop": the stack is closed; "overtake": the relay is done
\* writing before the dial goroutine marks the connection as connected.
ASSUME FaultsAssumption ==
  Faults \subseteq {"dial", "rst", "timeout", "interrupt", "stop", "overtake"}

VARIABLES
  lwip,       \* who holds lwipMutex, or "free"
  todo,       \* what the running entry into lwIP has still to do (see Before)
  at,         \* place in the running callback; "lwip" outside of one
  connLock,   \* who keeps conn.Mutex across steps, or "free"
  segment,    \* the segment tcp_input is working on
  tcp,        \* state of the pcb; "FREED" once its memory is released
  registered, \* the pcb's arg, recv, sent, err and poll are set
  rxclosed,   \* TF_RXCLOSED
  refused,    \* refused_data: "none", "data" or "data+fin"
  sndq,       \* units in the send buffer and not acknowledged
  state,      \* conn.state
  inMap,      \* conn is a key of tcpConns
  pipeR,      \* sndPipeReader is open
  pipeW,      \* sndPipeWriter is open
  once,       \* closeOnce: "new", the goroutine inside it, or "done"
  pc,         \* place of each goroutine
  left,       \* units the running Write has still to enqueue
  got,        \* outcome of the uplink's io.Copy: "more", "eof" or "error"
  rcvd,       \* units of the peer lwIP has accepted (rcv_nxt)
  fin,        \* lwIP has accepted the peer's FIN
  read,       \* units Read has returned
  wrote       \* units the handler has passed to Write

lwipVars == <<lwip, todo, at, connLock, segment>>
pcbVars  == <<tcp, registered, rxclosed, refused, sndq>>
connVars == <<state, inMap, pipeR, pipeW>>
goVars   == <<once, pc, left, got>>
counters == <<rcvd, fin, read, wrote>>
vars     == <<lwipVars, pcbVars, connVars, goVars, counters>>

Goroutines  == {"dial", "up", "down", "stop"}
LwipThreads == {"stack", "dial", "stop"}  \* those that can hold lwipMutex for long

ConnStates == {"New", "Connecting", "Connected", "WriteClosed",
               "ReceiveClosed", "Closing", "Aborting", "Closed", "Errored"}

\* conn.state >= tcpClosing, in the order of the constants.
ClosingOrLater == {"Closing", "Aborting", "Closed", "Errored"}

\* The pcb is on tcp_active_pcbs: lwIP's timers and input reach it.
Active == {"ESTABLISHED", "CLOSE_WAIT", "FIN_WAIT_1", "FIN_WAIT_2",
           "CLOSING", "LAST_ACK"}
PcbStates == Active \cup {"SYN_RCVD", "TIME_WAIT", "FREED"}

CanReceive   == {"ESTABLISHED", "FIN_WAIT_1", "FIN_WAIT_2"}
FinUnacked   == {"FIN_WAIT_1", "CLOSING", "LAST_ACK"}

NoSegment == [len |-> 0, fin |-> FALSE, ack |-> 0, ackFin |-> FALSE,
              rst |-> FALSE]
Segments == [len : {0, 1}, fin : BOOLEAN, ack : 0..SndBuf, ackFin : BOOLEAN,
             rst : BOOLEAN]

Init ==
  /\ lwip = "free" /\ todo = {} /\ at = "lwip" /\ connLock = "free"
  /\ segment = NoSegment
  /\ tcp = "SYN_RCVD" /\ registered = FALSE /\ rxclosed = FALSE
  /\ refused = "none" /\ sndq = 0
  /\ state = "New" /\ inMap = FALSE /\ pipeR = TRUE /\ pipeW = TRUE
  /\ once = "new" /\ left = 0 /\ got = "more"
  /\ pc = [g \in Goroutines |-> IF g = "stop" THEN "idle" ELSE "none"]
  /\ rcvd = 0 /\ fin = FALSE /\ read = 0 /\ wrote = 0

-----------------------------------------------------------------------------
(* Pieces of lwIP and of the connection the actions share.                 *)

(* A definition whose name ends in Bug is a plausible defect of the one     *)
(* that follows it; the mutants substitute it to show a property has teeth. *)

\* tcp_close_shutdown_fin: where sending our FIN leads.
FinSent(t) ==
  CASE t = "ESTABLISHED" -> "FIN_WAIT_1"
    [] t = "CLOSE_WAIT"  -> "LAST_ACK"
    [] OTHER             -> t

\* The switch of tcp_process for a segment with our FIN acknowledged or not
\* and the peer's FIN in it or not.
Processed(t, gotFin, ackFin) ==
  CASE t = "ESTABLISHED" /\ gotFin           -> "CLOSE_WAIT"
    [] t = "FIN_WAIT_1" /\ gotFin /\ ackFin  -> "TIME_WAIT"
    [] t = "FIN_WAIT_1" /\ gotFin /\ ~ackFin -> "CLOSING"
    [] t = "FIN_WAIT_1" /\ ~gotFin /\ ackFin -> "FIN_WAIT_2"
    [] t = "FIN_WAIT_2" /\ gotFin            -> "TIME_WAIT"
    [] t = "CLOSING" /\ ackFin               -> "TIME_WAIT"
    [] OTHER                                 -> t

\* What an entry into lwIP can have to do: calls of the callbacks, the segment
\* tcp_input works on, the delayed close, freeing the pcb, and the checkState
\* that Abort makes itself.
Events == {"sent", "closed", "data", "fin", "segment", "poll", "abort", "err",
           "free"}

BeforeFinFirstBug(event) ==
  CASE event = "closed"  -> {"sent"}
    [] event = "data"    -> {"sent", "closed", "fin"}
    [] event = "fin"     -> {"sent", "closed"}
    [] event = "segment" -> {"data", "fin"}
    [] event = "free"    -> {"err"}
    [] OTHER             -> {}

\* The order tcp_input does them in: refused data and the FIN behind them come
\* before the segment, and what the segment leads to replaces it.
Before(event) ==
  CASE event = "closed"  -> {"sent"}
    [] event = "data"    -> {"sent", "closed"}
    [] event = "fin"     -> {"sent", "closed", "data"}
    [] event = "segment" -> {"data", "fin"}
    [] event = "free"    -> {"err"}
    [] OTHER             -> {}

\* The next thing the entry does, when no callback is running.
Now(event) ==
  at = "lwip" /\ event \in todo /\ Before(event) \cap todo = {}

When(condition, event) == IF condition THEN {event} ELSE {}

\* tcp_process_refused_data offers the refused pbuf, and its FIN, again.
Retry == When(refused # "none", "data") \cup When(refused = "data+fin", "fin")

Enter(thread, events) ==
  /\ lwip = "free"
  /\ lwip' = thread
  /\ todo' = events

BroadcastLostBug == UNCHANGED pc

\* canWrite.Broadcast wakes the writer that is waiting; nobody else.
Broadcast ==
  pc' = IF pc["down"] = "waiting" THEN [pc EXCEPT !["down"] = "check"] ELSE pc

\* release, without its assignment to state.
Release == inMap' = FALSE /\ pipeR' = FALSE /\ pipeW' = FALSE

CallbacksStayBug == UNCHANGED registered

\* closeInternal takes arg, recv, sent, err and poll off the pcb.
CallbacksOff == registered' = FALSE

AfterFinBothBug(s) == "Closing"
AfterFinHalfBug(s) == "ReceiveClosed"

\* setLocalClosed: the state the peer's FIN leads to.
AfterFin(s) == IF s = "WriteClosed" THEN "Closing" ELSE "ReceiveClosed"

\* CloseWrite: the state our end of stream leads to.
AfterCloseWrite(s) == IF s = "ReceiveClosed" THEN "Closing" ELSE "WriteClosed"

RefusesForGoodBug(s) == s \in {"Connecting", "ReceiveClosed", "Closing"}

\* receiveCheck returns ERR_CLSD: the receive side of the pcb can be shut.
RefusesForGood(s) == s \in {"ReceiveClosed", "Closing"}

ReaderStaysBug == UNCHANGED pipeR

\* conn.CloseRead closes the reading end of the pipe.
ReaderCloses == pipeR' = FALSE

FitsAnyBug == left

\* What Write passes to tcp_write: no more than tcp_sndbuf.
Fits == IF left < SndBuf - sndq THEN left ELSE SndBuf - sndq

AbandonsNothingBug(callsErr) == todo' = When(callsErr, "err") \cup todo

\* A callback that aborted the pcb returns ERR_ABRT: lwIP is done with it.
Abandons(callsErr) == todo' = When(callsErr, "err")

Goto(g, place) == pc' = [pc EXCEPT ![g] = place]

-----------------------------------------------------------------------------
(* Entries into lwIP.                                                      *)

\* The ACK that completes the handshake: tcp_process calls tcpAcceptFn, and
\* newTCPConn registers the callbacks and starts the dial goroutine.  The ACK
\* may carry data and a FIN.
Accept ==
  /\ tcp = "SYN_RCVD"
  /\ \E len \in {0, 1} :
       /\ rcvd + len <= MaxData
       /\ rcvd' = rcvd + len
       /\ fin' \in BOOLEAN
       /\ Enter("stack", When(len = 1, "data") \cup When(fin', "fin"))
  /\ tcp' = IF fin' THEN "CLOSE_WAIT" ELSE "ESTABLISHED"
  /\ registered' = TRUE /\ inMap' = TRUE /\ state' = "Connecting"
  /\ Goto("dial", "handle")
  /\ UNCHANGED <<at, connLock, segment, rxclosed, refused, sndq, pipeR, pipeW,
                 once, left, got, read, wrote>>

\* tcp_input with a segment of the peer: it acknowledges what it has seen, and
\* carries data or a FIN that lwIP has not accepted yet.
Input ==
  /\ tcp \in Active
  /\ \E s \in Segments \ {NoSegment} :
       /\ s.rst => "rst" \in Faults /\ s = [NoSegment EXCEPT !.rst = TRUE]
       /\ s.len = 1 \/ s.fin => tcp \in CanReceive
       /\ rcvd + s.len <= MaxData
       /\ s.ack <= sndq
       /\ s.ackFin => tcp \in FinUnacked /\ s.ack = sndq
       /\ segment' = s
  /\ Enter("stack", Retry \cup {"segment"})
  /\ refused' = "none"
  /\ UNCHANGED <<at, connLock, tcp, registered, rxclosed, sndq, connVars,
                 goVars, counters>>

\* tcp_fasttmr offers refused data again.
FastTimer ==
  /\ tcp \in Active /\ refused # "none"
  /\ Enter("stack", Retry)
  /\ refused' = "none"
  /\ UNCHANGED <<at, connLock, segment, tcp, registered, rxclosed, sndq,
                 connVars, goVars, counters>>

\* tcp_slowtmr polls the connection.
Poll ==
  /\ tcp \in Active /\ registered
  /\ Enter("stack", {"poll"})
  /\ UNCHANGED <<at, connLock, segment, pcbVars, connVars, goVars, counters>>

\* tcp_slowtmr removes a pcb: FIN_WAIT_2 after both sides were shut down, or
\* too many retransmissions of data or of our FIN.
SlowTimerRemove ==
  /\ \/ tcp = "FIN_WAIT_2" /\ rxclosed
     \/ /\ "timeout" \in Faults
        /\ tcp \in FinUnacked \/ (tcp \in Active /\ sndq > 0)
  /\ Enter("stack", {"err"})
  /\ tcp' = "FREED" /\ refused' = "none" /\ sndq' = 0
  /\ UNCHANGED <<at, connLock, segment, registered, rxclosed, connVars, goVars,
                 counters>>

\* tcp_slowtmr frees a pcb whose TIME_WAIT is over, without a callback.
TimeWaitExpires ==
  /\ lwip = "free" /\ tcp = "TIME_WAIT"
  /\ tcp' = "FREED" /\ refused' = "none"
  /\ UNCHANGED <<lwipVars, registered, rxclosed, sndq, connVars, goVars,
                 counters>>

\* The end of the dial goroutine: it looks for data refused while it dialled.
\* The pcb may be gone by then; what it reads there is not this connection's.
DialKick ==
  /\ pc["dial"] = "connected"
  /\ Enter("dial", Retry)
  /\ refused' = "none"
  /\ UNCHANGED <<at, connLock, segment, tcp, registered, rxclosed, sndq,
                 connVars, goVars, counters>>

\* Abort, after it has set the state: checkState under lwipMutex.
AbortEnter(g) ==
  /\ pc[g] = "abort"
  /\ Enter(g, {"abort"})
  /\ UNCHANGED <<at, connLock, segment, pcbVars, connVars, goVars, counters>>

\* The entry has nothing left to do: lwipMutex.Unlock.
Leave ==
  /\ lwip # "free" /\ todo = {} /\ at = "lwip" /\ connLock = "free"
  /\ lwip' = "free"
  /\ segment' = NoSegment
  /\ IF lwip \in Goroutines THEN Goto(lwip, "done") ELSE UNCHANGED pc
  /\ UNCHANGED <<todo, at, connLock, pcbVars, connVars, once, left, got,
                 counters>>

-----------------------------------------------------------------------------
(* What lwIP does between callbacks.                                       *)

\* tcp_input after refused data was offered again: a segment with data or FIN
\* is dropped if they are still refused; an RST ends the connection; anything
\* else goes through tcp_process, and tcp_input then makes its callbacks.
ProcessSegment ==
  /\ Now("segment")
  /\ LET s == segment
         dropped == refused # "none" /\ (s.len = 1 \/ s.fin)
     IN  IF dropped \/ s.rst
         THEN /\ todo' = IF dropped THEN {} ELSE {"err", "free"}
              /\ UNCHANGED <<tcp, sndq, refused, rcvd, fin>>
         ELSE /\ tcp' = Processed(tcp, s.fin, s.ackFin)
              /\ sndq' = sndq - s.ack
              /\ rcvd' = rcvd + s.len
              /\ fin' = (fin \/ s.fin)
              /\ refused' = IF tcp' = "TIME_WAIT" THEN "none" ELSE refused
              /\ todo' = When(s.ack > 0, "sent")
                         \cup When(tcp = "LAST_ACK" /\ s.ackFin, "closed")
                         \cup When(s.len = 1, "data") \cup When(s.fin, "fin")
  /\ UNCHANGED <<lwip, at, connLock, segment, registered, rxclosed, connVars,
                 goVars, read, wrote>>

\* tcp_input_delayed_close: our last FIN is acknowledged.  The connection hears
\* of it only if its receive side was not shut down.
DelayedClose ==
  /\ Now("closed")
  /\ todo' = IF rxclosed THEN {"free"} ELSE {"err", "free"}
  /\ UNCHANGED <<lwip, at, connLock, segment, pcbVars, connVars, goVars,
                 counters>>

\* tcp_pcb_remove and tcp_free.
FreePcb ==
  /\ Now("free")
  /\ tcp' = "FREED" /\ refused' = "none" /\ sndq' = 0
  /\ todo' = {}
  /\ UNCHANGED <<lwip, at, connLock, segment, registered, rxclosed, connVars,
                 goVars, counters>>

\* TCP_EVENT_SENT, _POLL, _CLOSED and _ERR do nothing without a callback.
SkipCallback ==
  /\ ~registered
  /\ \E event \in {"sent", "poll", "fin", "err"} :
       Now(event) /\ todo' = todo \ {event}
  /\ UNCHANGED <<lwip, at, connLock, segment, pcbVars, connVars, goVars,
                 counters>>

-----------------------------------------------------------------------------
(* Callbacks: tcpRecvFn, tcpSentFn, tcpPollFn and tcpErrFn.                *)

KeepNothingBug == refused' = "none" /\ todo' = todo \ {"data"}
KeepWithoutFinBug == refused' = "data" /\ todo' = todo \ {"data"}

\* lwIP keeps data the recv callback did not take, and the FIN behind it.
KeepRefused ==
  /\ refused' = IF "fin" \in todo THEN "data+fin" ELSE "data"
  /\ todo' = todo \ {"data", "fin"}

\* abortInternal, called with conn.Mutex held: release, then tcp_abort, which
\* frees the pcb and calls tcpErrFn, which locks conn.Mutex.  On a pcb that was
\* freed before, what tcp_abort reads is stale: it may or may not call back.
AbortInternal ==
  /\ Release /\ state' = "Closed"
  /\ tcp' = "FREED" /\ refused' = "none" /\ sndq' = 0
  /\ \E callsErr \in BOOLEAN :
       /\ callsErr => registered
       /\ tcp # "FREED" => (callsErr <=> registered /\ tcp # "TIME_WAIT")
       /\ Abandons(callsErr)
       /\ connLock' = IF callsErr THEN lwip ELSE connLock
  /\ at' = "lwip"

\* Receive starts with receiveCheck: nil, ERR_ABRT, or the data are refused, for
\* now (ERR_CONN) or for good (ERR_CLSD, tcpRecvFn shuts the receive side).
ReceiveCheck ==
  /\ Now("data") /\ registered /\ connLock = "free"
  /\ \/ /\ state \in {"Connected", "WriteClosed"}
        /\ at' = "pipe"
        /\ UNCHANGED <<todo, connLock, pcbVars, connVars>>
     \/ /\ state = "Errored"
        /\ AbortInternal
        /\ UNCHANGED <<registered, rxclosed>>
     \/ /\ state \notin {"Connected", "WriteClosed", "Errored"}
        /\ KeepRefused
        /\ rxclosed' = (rxclosed \/ RefusesForGood(state))
        /\ UNCHANGED <<at, connLock, tcp, registered, sndq, connVars>>
  /\ UNCHANGED <<lwip, segment, goVars, counters>>

\* The pipe hands the data to a goroutine that is in Read; tcp_recved.
PipeDeliver ==
  /\ at = "pipe" /\ pipeR /\ pipeW /\ pc["up"] = "reading"
  /\ read' = read + 1
  /\ Goto("up", "idle")
  /\ at' = "lwip" /\ todo' = todo \ {"data"}
  /\ UNCHANGED <<lwip, connLock, segment, pcbVars, connVars, once, left, got,
                 rcvd, fin, wrote>>

\* The pipe is closed: ERR_CLSD, tcpRecvFn shuts the receive side of the pcb.
PipeClosed ==
  /\ at = "pipe" /\ ~(pipeR /\ pipeW)
  /\ KeepRefused
  /\ rxclosed' = TRUE
  /\ at' = "lwip"
  /\ UNCHANGED <<lwip, connLock, segment, tcp, registered, sndq, connVars,
                 goVars, counters>>

\* LocalClosed starts with setLocalClosed and goes on with checkState.
SetLocalClosed ==
  /\ Now("fin") /\ registered /\ connLock = "free"
  /\ IF state \in ClosingOrLater \cup {"ReceiveClosed"}
     THEN UNCHANGED <<pipeW, state, pc>>
     ELSE /\ pipeW' = FALSE
          /\ state' = AfterFin(state)
          /\ Broadcast
  /\ at' = "localClosed" /\ todo' = todo \ {"fin"}
  /\ UNCHANGED <<lwip, connLock, segment, pcbVars, inMap, pipeR, once, left,
                 got, counters>>

\* checkState is what the sent and poll callbacks do, the end of LocalClosed
\* and the part of Abort under lwipMutex.  isClosed first: a callback that
\* finds the connection closed asserts the type of a nil error and panics.
IsClosed ==
  /\ connLock = "free"
  /\ \/ at = "localClosed" \/ Now("abort")
     \/ registered /\ (Now("sent") \/ Now("poll"))
  /\ at' = IF state # "Closed" THEN "checkClosing"
           ELSE IF "abort" \in todo THEN "lwip" ELSE "panic"
  /\ todo' = IF at = "localClosed" THEN todo ELSE todo \ {"sent", "poll", "abort"}
  /\ UNCHANGED <<lwip, connLock, segment, pcbVars, connVars, goVars, counters>>

\* checkClosing, and closeInternal when both sides are closed: the callbacks
\* are taken off the pcb, then release and tcp_close.
CheckClosing ==
  /\ at = "checkClosing" /\ connLock = "free"
  /\ \/ /\ state # "Closing"
        /\ at' = "checkAborting"
        /\ UNCHANGED <<pcbVars, connVars>>
     \/ /\ state = "Closing"
        /\ CallbacksOff /\ rxclosed' = TRUE
        /\ Release /\ state' = "Closed"
        /\ tcp' = FinSent(tcp)
        /\ at' = "lwip"
        /\ UNCHANGED <<refused, sndq>>
  /\ UNCHANGED <<lwip, todo, connLock, segment, goVars, counters>>

\* checkAborting, which keeps conn.Mutex while abortInternal runs.
CheckAborting ==
  /\ at = "checkAborting" /\ connLock = "free"
  /\ \/ /\ state # "Aborting"
        /\ at' = "broadcast"
        /\ UNCHANGED <<todo, connLock, pcbVars, connVars>>
     \/ /\ state = "Aborting"
        /\ AbortInternal
        /\ UNCHANGED <<registered, rxclosed>>
  /\ UNCHANGED <<lwip, segment, goVars, counters>>

\* The end of checkState: let a writer that waits for buffer space try again.
SignalWriter ==
  /\ at = "broadcast"
  /\ Broadcast
  /\ at' = "lwip"
  /\ UNCHANGED <<lwip, todo, connLock, segment, pcbVars, connVars, once, left, got,
                 counters>>

\* Err: the pcb is gone or about to go.
Err ==
  /\ Now("err") /\ registered /\ connLock = "free"
  /\ Release /\ state' = "Errored"
  /\ Broadcast
  /\ todo' = todo \ {"err"}
  /\ UNCHANGED <<lwip, at, connLock, segment, pcbVars, once, left, got, counters>>

-----------------------------------------------------------------------------
(* The goroutines that use the connection.                                 *)

\* Handle reaches the remote and starts the two directions of the relay ...
StartRelay ==
  /\ pc["dial"] = "handle" /\ pc["up"] = "none"
  /\ pc' = [pc EXCEPT !["up"] = "idle", !["down"] = "idle"]
  /\ UNCHANGED <<lwipVars, pcbVars, connVars, once, left, got, counters>>

\* ... and returns nil: the dial goroutine sets the state, whatever it was.
DialSucceeds ==
  /\ pc["dial"] = "handle" /\ pc["up"] # "none" /\ connLock = "free"
  /\ state' = "Connected"
  /\ Goto("dial", "connected")
  /\ UNCHANGED <<lwipVars, pcbVars, inMap, pipeR, pipeW, once, left, got,
                 counters>>

\* Abort up to the lwipMutex.
Abort(g) ==
  /\ connLock = "free"
  /\ state' = "Aborting"
  /\ Goto(g, "abort")
  /\ UNCHANGED <<lwipVars, pcbVars, inMap, pipeR, pipeW, once, left, got,
                 counters>>

\* Handle returns an error.
DialFails ==
  /\ "dial" \in Faults /\ pc["dial"] = "handle" /\ pc["up"] = "none"
  /\ Abort("dial")

\* lwipStack.Close aborts the connections it finds in tcpConns.
StackClose == "stop" \in Faults /\ inMap /\ pc["stop"] = "idle" /\ Abort("stop")

\* Read, called by the uplink's io.Copy until it fails.
Read ==
  /\ pc["up"] = "idle" /\ got = "more" /\ connLock = "free"
  /\ IF state = "ReceiveClosed" THEN got' = "eof" /\ UNCHANGED pc
     ELSE IF state \in ClosingOrLater THEN got' = "error" /\ UNCHANGED pc
     ELSE Goto("up", "reading") /\ UNCHANGED got
  /\ UNCHANGED <<lwipVars, pcbVars, connVars, once, left, counters>>

\* A Read that waits in the pipe returns io.EOF when an end of it is closed.
ReadEnds ==
  /\ pc["up"] = "reading" /\ ~(pipeR /\ pipeW)
  /\ got' = "eof"
  /\ Goto("up", "idle")
  /\ UNCHANGED <<lwipVars, pcbVars, connVars, once, left, counters>>

\* Write with the next units from the remote.
WriteBegins ==
  /\ pc["down"] = "idle"
  /\ \E n \in 1..(MaxWrite - wrote) : wrote' = wrote + n /\ left' = n
  /\ Goto("down", "check")
  /\ UNCHANGED <<lwipVars, pcbVars, connVars, once, got, rcvd, fin, read>>

\* writeCheck at the head of Write's loop; on an error io.Copy is over.
WriteCheck ==
  /\ pc["down"] = "check" /\ connLock = "free"
  /\ Goto("down", IF state \in {"Connecting", "Connected", "ReceiveClosed"}
                  THEN "write" ELSE "over")
  /\ UNCHANGED <<lwipVars, pcbVars, connVars, once, left, got, counters>>

\* The body of the loop under lwipMutex.  tcp_write takes all that fits or, out
\* of memory, nothing; a pcb that sent its FIN or was freed refuses data.
WriteEnqueue ==
  /\ pc["down"] = "write" /\ lwip = "free"
  /\ IF tcp \in {"ESTABLISHED", "CLOSE_WAIT"} \/ Fits = 0
     THEN \E n \in {0, Fits} :
            /\ sndq' = sndq + n
            /\ left' = left - n
            /\ Goto("down", IF left' = 0 THEN "idle" ELSE "wait")
     ELSE Goto("down", "over") /\ UNCHANGED <<sndq, left>>
  /\ UNCHANGED <<lwipVars, tcp, registered, rxclosed, refused, connVars, once,
                 got, counters>>

\* canWrite.Wait: from here on a Broadcast reaches the writer.
WriteWaits ==
  /\ pc["down"] = "wait"
  /\ Goto("down", "waiting")
  /\ UNCHANGED <<lwipVars, pcbVars, connVars, once, left, got, counters>>

\* The uplink half-closes, at EOF or because the remote takes no more data.
CloseRead ==
  /\ pc["up"] = "idle"
  /\ got # "more" \/ "interrupt" \in Faults
  /\ ReaderCloses
  /\ Goto("up", "done")
  /\ UNCHANGED <<lwipVars, pcbVars, state, inMap, pipeW, once, left, got,
                 counters>>

\* Either direction interrupts the connection after an error: Close runs close,
\* that is CloseRead and CloseWrite, once; a second caller waits for the first.
Close(g) ==
  /\ pc[g] \in {"idle", "over"}
  /\ \/ "interrupt" \in Faults \/ pc[g] = "over"
     \/ g = "up" /\ got = "error"
  /\ once \in {"new", "done"}
  /\ IF once = "new"
     THEN once' = g /\ ReaderCloses /\ Goto(g, "closeWrite")
     ELSE Goto(g, "done") /\ UNCHANGED <<once, pipeR>>
  /\ UNCHANGED <<lwipVars, pcbVars, state, inMap, pipeW, left, got, counters>>

CloseWriteReturns(g) ==
  /\ Goto(g, "done")
  /\ once' = IF once = g THEN "done" ELSE once

\* CloseWrite, from close or when the downlink half-closes: the state changes
\* under conn.Mutex ...
CloseWrite(g) ==
  /\ pc[g] = "closeWrite" \/ (g = "down" /\ pc[g] \in {"idle", "over"})
  /\ pc["dial"] # "handle" \/ "overtake" \in Faults
  /\ connLock = "free"
  /\ IF state \in ClosingOrLater \cup {"WriteClosed"}
     THEN CloseWriteReturns(g) /\ UNCHANGED state
     ELSE /\ state' = AfterCloseWrite(state)
          /\ Goto(g, "shutdown")
          /\ UNCHANGED once
  /\ UNCHANGED <<lwipVars, pcbVars, inMap, pipeR, pipeW, left, got, counters>>

\* ... and tcp_shutdown follows under lwipMutex.  A pcb that was freed in
\* between is touched all the same; that changes nothing of this connection.
ShutdownTx(g) ==
  /\ pc[g] = "shutdown" /\ lwip = "free"
  /\ tcp' = FinSent(tcp)
  /\ CloseWriteReturns(g)
  /\ UNCHANGED <<lwipVars, registered, rxclosed, refused, sndq, connVars, left,
                 got, counters>>

-----------------------------------------------------------------------------
\* The pcb is gone and every goroutine has returned.
Finished ==
  /\ lwip = "free" /\ tcp = "FREED" /\ pc["dial"] = "done"
  /\ pc["up"] \in {"none", "done"} /\ pc["down"] \in {"none", "done"}
  /\ pc["stop"] \in {"idle", "done"}
  /\ UNCHANGED vars

\* Steps of the thread that is inside lwIP.
LwipSteps ==
  \/ Leave \/ ProcessSegment \/ DelayedClose \/ FreePcb \/ SkipCallback
  \/ ReceiveCheck \/ PipeDeliver \/ PipeClosed \/ SetLocalClosed \/ IsClosed
  \/ CheckClosing \/ CheckAborting \/ SignalWriter \/ Err

Timers == FastTimer \/ Poll \/ SlowTimerRemove \/ TimeWaitExpires

Dial == StartRelay \/ DialSucceeds \/ DialFails \/ DialKick \/ AbortEnter("dial")

Up == Read \/ ReadEnds \/ CloseRead \/ Close("up") \/ CloseWrite("up")
      \/ ShutdownTx("up")

Down == WriteBegins \/ WriteCheck \/ WriteEnqueue \/ WriteWaits
        \/ Close("down") \/ CloseWrite("down") \/ ShutdownTx("down")

Stop == StackClose \/ AbortEnter("stop")

Next == Accept \/ Input \/ Timers \/ LwipSteps \/ Dial \/ Up \/ Down \/ Stop
        \/ Finished

Spec == Init /\ [][Next]_vars

(***************************************************************************)
(* Fairness.  The thread inside lwIP and every goroutine run whenever they *)
(* can.  A goroutine that waits for lwipMutex gets it if it is free again  *)
(* and again: sync.Mutex hands itself to a waiter after at most a          *)
(* millisecond of losing it to others (strong fairness).  So does the      *)
(* timer goroutine of lwipStack, which polls the connection every few      *)
(* seconds.  The remote ends its stream some day (SF of Down), and the     *)
(* local peer is alive: it acknowledges what it gets and ends its stream.  *)
(* tcp_write finds memory some day.                                        *)
(***************************************************************************)
GoFairness ==
  /\ WF_vars(LwipSteps) /\ SF_vars(Dial) /\ SF_vars(Up) /\ SF_vars(Down)
  /\ SF_vars(WriteEnqueue /\ left' < left)

TimerFairness == SF_vars(Poll) /\ WF_vars(TimeWaitExpires)

PeerProgress ==
  Input /\ (segment'.ack > 0 \/ segment'.ackFin \/ segment'.fin)

PeerFairness == WF_vars(Accept) /\ SF_vars(PeerProgress)

FairSpec == Spec /\ GoFairness /\ TimerFairness /\ PeerFairness

\* Enough to leave lwIP: the thread in it runs and the uplink reads or closes.
ReaderFairSpec == Spec /\ WF_vars(LwipSteps) /\ SF_vars(Up)

-----------------------------------------------------------------------------
TypeOK ==
  /\ lwip \in LwipThreads \cup {"free"} /\ connLock \in LwipThreads \cup {"free"}
  /\ todo \subseteq Events
  /\ at \in {"lwip", "pipe", "localClosed", "checkClosing", "checkAborting",
            "broadcast", "panic"}
  /\ segment \in Segments
  /\ tcp \in PcbStates /\ registered \in BOOLEAN /\ rxclosed \in BOOLEAN
  /\ refused \in {"none", "data", "data+fin"} /\ sndq \in 0..SndBuf
  /\ state \in ConnStates /\ inMap \in BOOLEAN
  /\ pipeR \in BOOLEAN /\ pipeW \in BOOLEAN
  /\ once \in {"new", "up", "down", "done"}
  /\ pc \in [Goroutines -> {"none", "idle", "handle", "connected", "abort", "reading",
                           "check", "write", "wait", "waiting", "over",
                           "closeWrite", "shutdown", "done"}]
  /\ pc["dial"] \in {"none", "handle", "connected", "abort", "done"}
  /\ pc["up"] \in {"none", "idle", "reading", "closeWrite", "shutdown", "done"}
  /\ pc["down"] \in {"none", "idle", "check", "write", "wait", "waiting", "over",
                    "closeWrite", "shutdown", "done"}
  /\ pc["stop"] \in {"idle", "abort", "done"}
  /\ left \in 0..MaxWrite /\ got \in {"more", "eof", "error"}
  /\ rcvd \in 0..MaxData /\ fin \in BOOLEAN
  /\ read \in 0..MaxData /\ wrote \in 0..MaxWrite

-----------------------------------------------------------------------------
\* A callback never finds the connection in state Closed, where checkState
\* returns nil and tcpSentFn, tcpPollFn and tcpRecvFn assert the type of it.
NoNilAssert == at # "panic"

\* lwIP holds the address of the tcpConn as the callback argument, which Go's
\* collector does not see: whenever a callback is about to be made, tcpConns
\* must still keep the connection alive.
CallbackTargetReachable ==
  registered /\ connLock = "free" =>
    \A event \in {"data", "fin", "sent", "poll", "err"} : Now(event) => inMap

\* A callback that frees the pcb tells lwIP so (ERR_ABRT), and one that returns
\* ERR_OK has not freed it: what the entry goes on to do never meets a freed pcb.
LwipContinuesOnLivePcb ==
  tcp = "FREED" => todo \subseteq {"err", "abort"} /\ at # "localClosed"

\* Until the handler stops reading or the connection is aborted, every unit lwIP
\* accepted from the peer has been read, is in the recv callback or is kept as
\* refused data.
NoUplinkLoss ==
  pipeR /\ tcp # "FREED" /\ state # "Aborting" /\ pc["stop"] = "idle" =>
    rcvd = read + (IF "data" \in todo \/ refused # "none" THEN 1 ELSE 0)

\* lwIP is told for good that nothing more is read (TF_RXCLOSED) only when the
\* handler closed its reading side: an early packet, a CloseWrite or a FIN that
\* overtakes the dial never costs the uplink.
RxShutOnlyByReader == rxclosed /\ registered => ~pipeR

\* When both sides are closed everything the peer sent has been read, so that
\* tcp_close ends the connection with a FIN and not with an RST.
ClosingHasNoUnreadData == state = "Closing" => refused = "none" /\ rcvd = read

\* The abstract stream this connection is for its reader.  It is broken when the
\* reader's end of the pipe is closed or an abort is under way.
Uplink == INSTANCE UplinkStream WITH
  sent <- rcvd, ended <- fin, delivered <- read, result <- got,
  broken <- ~pipeR \/ state = "Aborting"

\* Each step of the connection is a step of that stream or leaves it alone.
UplinkRefinement == Uplink!Spec

\* What can cut the stream towards the peer short: Close in the middle of the
\* relay, an error, an abort, or the pcb is gone.
Torn == once # "new" \/ state \in {"Aborting", "Errored"} \/ tcp = "FREED"
        \/ pc["stop"] # "idle"

\* The abstract stream this connection is for its writer.  It has ended when our
\* FIN is queued.
Downlink == INSTANCE DownlinkStream WITH
  offered <- wrote, taken <- wrote - left, buffered <- sndq,
  ended <- tcp \notin {"SYN_RCVD", "ESTABLISHED", "CLOSE_WAIT"}, torn <- Torn

\* Each step of the connection is a step of that stream or leaves it alone: in
\* particular no callback and no half-close sends a FIN before the handler's
\* data, however a Write that waits, the peer's FIN and the dial interleave.
DownlinkRefinement == Downlink!Spec

\* A writer waits for buffer space only while somebody will wake it: the pcb is
\* on lwIP's active list and polls the connection.
WaitingWriterIsPolled ==
  pc["down"] = "waiting" => registered /\ tcp \in Active

\* A thread that entered lwIP leaves it: the rest of the stack is not blocked
\* for good by one connection.
LwipReleased == lwip # "free" ~> lwip = "free"

\* A Write that has to wait for buffer space returns.
WriteReturns ==
  pc["down"] \in {"check", "write", "wait", "waiting"} ~>
  pc["down"] \notin {"check", "write", "wait", "waiting"}

\* When both ends finish their streams, the pcb is freed, tcpConns forgets the
\* connection and no goroutine of it is left.
ConnectionEnds ==
  <>[](tcp = "FREED" /\ ~inMap /\ \A g \in Goroutines \ {"stop"} : pc[g] = "done")

=============================================================================
