-------------------------------- MODULE Relay --------------------------------
(***************************************************************************)
(* The relay a TCP proxy handler runs between the TUN end of a connection  *)
(* (core's tcpConn) and its remote end (a kernel socket), from the moment  *)
(* Handle has reached the remote: relay of proxy/socks/tcp.go, handleInput *)
(* and handleOutput of proxy/redirect/tcp.go.  One goroutine copies each   *)
(* direction: "up" from TUN to remote, "down" from remote to TUN.          *)
(*                                                                         *)
(* The remote end is modelled by what Read, Write and the three ways to    *)
(* close promise.  Of the TUN end, Read is what TcpConn shows it to be;    *)
(* Write is the code's, with its wait for canWrite and the callbacks that  *)
(* broadcast it, because who closes decides whether a waiting Write wakes. *)
(* A unit is what one Read returns.  A definition whose name ends in Bug   *)
(* is a plausible defect of the one that follows it.                       *)
(***************************************************************************)
EXTENDS Naturals

CONSTANTS
  MaxData, \* units each peer sends
  Window,  \* units an end takes from Write before its peer has read them
  Styles,  \* the handlers: "socks", "redirect"
  Faults   \* "reset": the remote peer resets; "rst": the TUN peer does, or lwIP
           \* gives it up; "plain": an end cannot be half-closed; "reuse": the
           \* memory of a pcb that was freed is used again

ASSUME BoundsAssumption == MaxData \in Nat /\ Window \in Nat \ {0}
ASSUME StylesAssumption == Styles \subseteq {"socks", "redirect"}
ASSUME FaultsAssumption == Faults \subseteq {"reset", "rst", "plain", "reuse"}

VARIABLES
  style,   \* the handler
  duplex,  \* both ends implement duplexConn
  sent,    \* units the peer has sent in each direction
  ended,   \* ... and whether its stream has ended
  reset,   \* the peer of each end has reset the connection
  heard,   \* lwIP has told the TUN end of its peer's FIN (setLocalClosed)
  called,  \* the TUN end's callbacks are registered and lwIP has its pcb
  copied,  \* units io.Copy has read
  written, \* units io.Copy has written
  taken,   \* units the other peer has read
  rd,      \* the reading side of each end is open
  wr,      \* its writing side is open
  pc,      \* place of each direction's goroutine
  outcome  \* what io.Copy returned: "more" while it runs, "eof" (nil), "error"

peerVars  == <<sent, ended, reset, taken>>
lwipVars  == <<heard, called>>
endVars   == <<rd, wr>>
relayVars == <<style, duplex, copied, written, pc, outcome>>
vars      == <<peerVars, lwipVars, endVars, relayVars>>

Dirs == {"up", "down"}
Ends == {"tun", "remote"}
From(d) == IF d = "up" THEN "tun" ELSE "remote"
To(d)   == IF d = "up" THEN "remote" ELSE "tun"

Init ==
  /\ style \in Styles
  /\ duplex \in IF "plain" \in Faults /\ style = "socks" THEN BOOLEAN ELSE {TRUE}
  /\ sent = [d \in Dirs |-> 0] /\ ended = [d \in Dirs |-> FALSE]
  /\ reset = [e \in Ends |-> FALSE] /\ heard = FALSE /\ called = TRUE
  /\ copied = [d \in Dirs |-> 0] /\ written = [d \in Dirs |-> 0]
  /\ taken = [d \in Dirs |-> 0]
  /\ rd = [e \in Ends |-> TRUE] /\ wr = [e \in Ends |-> TRUE]
  /\ pc = [d \in Dirs |-> "copy"] /\ outcome = [d \in Dirs |-> "more"]

-----------------------------------------------------------------------------
(* The peers, and lwIP between the TUN end and its peer.                   *)

PeerSends(d) ==
  /\ ~ended[d] /\ ~reset[From(d)] /\ sent[d] < MaxData
  /\ sent' = [sent EXCEPT ![d] = @ + 1]
  /\ UNCHANGED <<ended, reset, taken, lwipVars, endVars, relayVars>>

PeerEnds(d) ==
  /\ ~ended[d] /\ ~reset[From(d)]
  /\ ended' = [ended EXCEPT ![d] = TRUE]
  /\ UNCHANGED <<sent, reset, taken, lwipVars, endVars, relayVars>>

PeerTakes(d) ==
  /\ ~reset[To(d)] /\ taken[d] < written[d]
  /\ taken' = [taken EXCEPT ![d] = @ + 1]
  /\ UNCHANGED <<sent, ended, reset, lwipVars, endVars, relayVars>>

BroadcastLostBug == UNCHANGED pc

\* canWrite.Broadcast, without canWrite.L: it wakes the Write that is in Wait, not
\* the one on its way there.
Broadcast ==
  pc' = IF pc["down"] = "waiting" THEN [pc EXCEPT !["down"] = "write"] ELSE pc

\* The TUN end learns of it in Err.
PeerResets(e) ==
  /\ (IF e = "tun" THEN "rst" ELSE "reset") \in Faults /\ ~reset[e]
  /\ reset' = [reset EXCEPT ![e] = TRUE]
  /\ IF e = "tun" /\ called THEN called' = FALSE /\ Broadcast
                            ELSE UNCHANGED <<called, pc>>
  /\ UNCHANGED <<sent, ended, taken, heard, endVars, style, duplex, copied, written,
                 outcome>>

\* The state of the TUN end is tcpClosing, or tcpClosed after it.
BothHalvesClosed == heard /\ ~wr["tun"]

\* LocalClosed: lwIP gives it the FIN once the pipe took all data before it.  With
\* the writing side closed too its checkState calls closeInternal.
LocalClosed ==
  /\ called /\ ~heard /\ ended["up"] /\ copied["up"] = sent["up"]
  /\ heard' = TRUE /\ called' = wr["tun"]
  /\ Broadcast
  /\ UNCHANGED <<peerVars, endVars, style, duplex, copied, written, outcome>>

\* checkState, from the sent and the poll callback: closeInternal takes the callbacks
\* off the pcb, and returns before the broadcast.
CheckState ==
  /\ called
  /\ IF BothHalvesClosed THEN called' = FALSE /\ UNCHANGED pc
                         ELSE Broadcast /\ UNCHANGED called
  /\ UNCHANGED <<peerVars, heard, endVars, style, duplex, copied, written, outcome>>

\* lwIP drops the pcb once our FIN is acknowledged, if the peer ended its stream
\* (LAST_ACK) or nobody takes the rest of it (FIN_WAIT_2, receive side shut): Err.
PcbEnds ==
  /\ called /\ ~wr["tun"] /\ taken["down"] = written["down"]
  /\ heard \/ (~rd["tun"] /\ copied["up"] < sent["up"])
  /\ called' = FALSE
  /\ Broadcast
  /\ UNCHANGED <<peerVars, heard, endVars, style, duplex, copied, written, outcome>>

-----------------------------------------------------------------------------
(* io.Copy: Read.                                                          *)

Goto(d, place) == pc' = [pc EXCEPT ![d] = place]

CopyReturns(d, how) ==
  /\ outcome' = [outcome EXCEPT ![d] = how]
  /\ Goto(d, "tun")

\* Read returns a unit.
CopyReads(d) ==
  /\ pc[d] = "copy" /\ rd[From(d)] /\ copied[d] < sent[d]
  /\ copied' = [copied EXCEPT ![d] = @ + 1]
  /\ Goto(d, "write")
  /\ UNCHANGED <<peerVars, lwipVars, endVars, style, duplex, written, outcome>>

\* The TUN end knows of its peer's end only what LocalClosed told it.
SeesEnd(d) == ended[d] /\ copied[d] = sent[d] /\ (d = "up" => heard)

\* What ends a blocked Read.  The TUN end reports its peer's reset, its own Close and
\* the closing of both its halves as the end of the stream or as an error.
CopyReadEnds(d) ==
  /\ pc[d] = "copy"
  /\ \/ SeesEnd(d) /\ rd[From(d)] /\ CopyReturns(d, "eof")
     \/ /\ reset[From(d)] \/ ~rd[From(d)]
        /\ CopyReturns(d, "error") \/ (From(d) = "tun" /\ CopyReturns(d, "eof"))
     \/ From(d) = "tun" /\ BothHalvesClosed /\ CopyReturns(d, "error")
  /\ UNCHANGED <<peerVars, lwipVars, endVars, style, duplex, copied, written>>

-----------------------------------------------------------------------------
(* io.Copy: Write.                                                         *)

RoomAlwaysBug(d) == TRUE

\* The send buffer, and what is behind it up to the peer, have room for a unit.
Room(d) == written[d] - taken[d] < Window

\* The unit is in the buffer: Write returns.
Written(d) ==
  /\ written' = [written EXCEPT ![d] = @ + 1]
  /\ Goto(d, "copy")

\* The kernel's socket: Write waits for room, and fails once it is closed or reset.
SocketWrites ==
  /\ pc["up"] = "write" /\ wr["remote"] /\ ~reset["remote"] /\ Room("up")
  /\ Written("up")
  /\ UNCHANGED <<peerVars, lwipVars, endVars, style, duplex, copied, outcome>>

SocketFails ==
  /\ pc["up"] = "write" /\ (~wr["remote"] \/ reset["remote"])
  /\ CopyReturns("up", "error")
  /\ UNCHANGED <<peerVars, lwipVars, endVars, style, duplex, copied, written>>

\* The TUN end: the head of Write's loop, writeCheck.
WriteChecks ==
  /\ pc["down"] = "write"
  /\ IF wr["tun"] /\ ~reset["tun"] THEN Goto("down", "enqueue") /\ UNCHANGED outcome
                                  ELSE CopyReturns("down", "error")
  /\ UNCHANGED <<peerVars, lwipVars, endVars, style, duplex, copied, written>>

\* The pcb was freed since writeCheck, at once or after our FIN was acknowledged: what
\* the part under lwipMutex reads of it may be anything.
Stale ==
  /\ "reuse" \in Faults /\ ~called
  /\ reset["tun"] \/ taken["down"] = written["down"]

WriteEnqueues ==
  /\ pc["down"] = "enqueue" /\ wr["tun"] /\ Room("down")
  /\ Written("down")
  /\ UNCHANGED <<peerVars, lwipVars, endVars, style, duplex, copied, outcome>>

\* tcp_write fails behind our FIN.
WriteFails ==
  /\ pc["down"] = "enqueue"
  /\ (~wr["tun"] /\ Room("down")) \/ Stale
  /\ CopyReturns("down", "error")
  /\ UNCHANGED <<peerVars, lwipVars, endVars, style, duplex, copied, written>>

\* No room: lwipMutex is released ...
WriteFindsFull ==
  /\ pc["down"] = "enqueue" /\ (~Room("down") \/ Stale)
  /\ Goto("down", "wait")
  /\ UNCHANGED <<peerVars, lwipVars, endVars, style, duplex, copied, written, outcome>>

\* ... and canWrite.Wait comes after it.
WriteWaits ==
  /\ pc["down"] = "wait"
  /\ Goto("down", "waiting")
  /\ UNCHANGED <<peerVars, lwipVars, endVars, style, duplex, copied, written, outcome>>

-----------------------------------------------------------------------------
(* How a direction ends.                                                   *)

HalfCloseAlwaysBug(d) == FALSE

\* cls of proxy/socks gives up both directions after an error; proxy/redirect
\* ignores what io.Copy returned.
Interrupts(d) == style = "socks" /\ (outcome[d] = "error" \/ ~duplex)

SwappedHalvesBug(d, e) ==
  IF e = From(d) THEN wr' = [wr EXCEPT ![e] = FALSE] /\ UNCHANGED rd
                 ELSE rd' = [rd EXCEPT ![e] = FALSE] /\ UNCHANGED wr

\* CloseRead of the end the direction reads, CloseWrite of the one it writes.
HalfClose(d, e) ==
  IF e = From(d) THEN rd' = [rd EXCEPT ![e] = FALSE] /\ UNCHANGED wr
                 ELSE wr' = [wr EXCEPT ![e] = FALSE] /\ UNCHANGED rd

CloseBoth(e) ==
  rd' = [rd EXCEPT ![e] = FALSE] /\ wr' = [wr EXCEPT ![e] = FALSE]

CloseEnd(d, e) ==
  /\ IF Interrupts(d) THEN CloseBoth(e) ELSE HalfClose(d, e)
  /\ UNCHANGED <<peerVars, lwipVars, style, duplex, copied, written, outcome>>

CloseTun(d) == pc[d] = "tun" /\ CloseEnd(d, "tun") /\ Goto(d, "remote")

\* The socks relay then meets in upCh; the goroutines of redirect return.
CloseRemote(d) ==
  /\ pc[d] = "remote" /\ CloseEnd(d, "remote")
  /\ Goto(d, IF style = "socks" THEN "meet" ELSE "done")

\* upCh is unbuffered: the uplink's send and the relay's receive are one step.
Meets(d) ==
  (\A other \in Dirs : pc[other] = "meet") /\ pc' = [other \in Dirs |-> "done"]

Meet(d) ==
  /\ pc[d] = "meet" /\ Meets(d)
  /\ UNCHANGED <<peerVars, lwipVars, endVars, style, duplex, copied, written, outcome>>

-----------------------------------------------------------------------------
Peer == \/ \E d \in Dirs : PeerSends(d) \/ PeerEnds(d) \/ PeerTakes(d)
        \/ \E e \in Ends : PeerResets(e)

Lwip == LocalClosed \/ CheckState \/ PcbEnds

Copier(d) ==
  CopyReads(d) \/ CopyReadEnds(d) \/ CloseTun(d) \/ CloseRemote(d) \/ Meet(d)

Uplink == Copier("up") \/ SocketWrites \/ SocketFails

Downlink ==
  \/ Copier("down")
  \/ WriteChecks \/ WriteEnqueues \/ WriteFails \/ WriteFindsFull \/ WriteWaits

Over == \A d \in Dirs : pc[d] = "done"

Next == Peer \/ Lwip \/ Uplink \/ Downlink

Spec == Init /\ [][Next]_vars

(***************************************************************************)
(* Fairness.  The two goroutines run.  lwIP passes a FIN on and its timers  *)
(* poll the TUN end as long as its callbacks are registered.  A peer that  *)
(* is connected reads what it is sent; nothing makes it send or end its    *)
(* stream.                                                                 *)
(***************************************************************************)
GoFairness == WF_vars(Uplink) /\ WF_vars(Downlink)
LwipFairness == WF_vars(LocalClosed) /\ WF_vars(CheckState)
FairSpec ==
  Spec /\ GoFairness /\ LwipFairness /\ \A d \in Dirs : WF_vars(PeerTakes(d))

-----------------------------------------------------------------------------
TypeOK ==
  /\ style \in Styles /\ duplex \in BOOLEAN
  /\ sent \in [Dirs -> 0..MaxData] /\ ended \in [Dirs -> BOOLEAN]
  /\ reset \in [Ends -> BOOLEAN] /\ heard \in BOOLEAN /\ called \in BOOLEAN
  /\ copied \in [Dirs -> 0..MaxData] /\ written \in [Dirs -> 0..MaxData]
  /\ taken \in [Dirs -> 0..MaxData]
  /\ rd \in [Ends -> BOOLEAN] /\ wr \in [Ends -> BOOLEAN]
  /\ pc \in [Dirs -> {"copy", "write", "enqueue", "wait", "waiting", "tun", "remote",
                      "meet", "done"}]
  /\ outcome \in [Dirs -> {"more", "eof", "error"}]
  /\ \A d \in Dirs : written[d] - taken[d] <= Window

\* The stream of direction d is cut short: its source was reset, its copy failed
\* or the other direction, with socks, took both down.
Broken(d) ==
  \/ reset[From(d)] \/ outcome[d] = "error"
  \/ \E other \in Dirs : Interrupts(other) /\ outcome[other] # "more"

\* Each direction is a stream of its own for the peer it leads to, which learns
\* of the end when its end's writing side is closed.
UpStream == INSTANCE UplinkStream WITH
  sent <- sent["up"], ended <- ended["up"], delivered <- written["up"],
  broken <- Broken("up"), result <- IF wr["remote"] THEN "more" ELSE "eof"

DownStream == INSTANCE UplinkStream WITH
  sent <- sent["down"], ended <- ended["down"], delivered <- written["down"],
  broken <- Broken("down"), result <- IF wr["tun"] THEN "more" ELSE "eof"

\* Each peer sees the end of the stream only when the other peer ended it and all
\* its data were written, unless that direction broke: the end of one direction
\* never cuts the other one.
StreamsRelayed == UpStream!Spec /\ DownStream!Spec

\* A Write that sleeps, or is about to, on a TUN end without callbacks: nobody calls
\* Broadcast any more.
Asleep == pc["down"] \in {"wait", "waiting"} /\ ~called

\* That happens only to a TUN end that was reset, or that the uplink interrupted: as
\* long as every direction closes its own halves, whatever lwIP is told in between,
\* the end of the uplink does not put the downlink's Write to sleep for good.
SleepsOnlyAfterInterrupt ==
  Asleep => reset["tun"] \/ (Interrupts("up") /\ outcome["up"] # "more")

\* With socks, an error in one direction ends the other one too, also when both
\* peers are silent and neither reads; with either handler the relay ends once both
\* peers are done.  No goroutine is left in Read or Write then, and both sides of both
\* ends are closed - but for the Write of the downlink that sleeps on a TUN end
\* without callbacks.
RelayEnds ==
  \/ style = "socks" /\ \E d \in Dirs : outcome[d] = "error"
  \/ \A d \in Dirs : ended[d] \/ reset[From(d)]
  ~> (Over /\ \A e \in Ends : ~rd[e] /\ ~wr[e]) \/ Asleep

=============================================================================
