------------------------------ MODULE SocksUdp ------------------------------
(***************************************************************************)
(* What the SOCKS UDP handler (proxy/socks/udp.go) does for one connection *)
(* of core: connectInternal's handshake with the proxy server, the two     *)
(* sockets of the association (the control connection c and the relay      *)
(* socket pc), the three maps that hold them, the goroutines handleTCP and *)
(* fetchUDPInput, ReceiveTo and Close.  ReceiveTo is called by core's lwIP *)
(* thread and by the goroutine that drains the early datagrams.            *)
(*                                                                         *)
(* The proxy server and the remotes behind it are the environment.  What a *)
(* relay datagram holds is modelled to the byte, because fetchUDPInput     *)
(* reads all of them into one buffer.  A definition whose name ends in Bug *)
(* is a plausible defect of the one that follows it.                       *)
(***************************************************************************)
EXTENDS SocksAddr, SequencesExt

CONSTANTS
  Size,  \* bytes of fetchUDPInput's buffer
  Marks, \* bytes that tell one datagram from another
  Faults \* "step" (a step of the handshake fails), "listen", "server" (it closes
         \* the control connection), "send", "odd" (datagrams cut short or empty)

ASSUME BoundsAssumption == Size \in Nat /\ Marks \subseteq Byte
ASSUME FaultsAssumption == Faults \subseteq {"step", "listen", "server", "send", "odd"}

VARIABLES
  conn,     \* core's state of the connection
  dial,     \* place of connectInternal, in the goroutine newUDPConn started
  ctl,      \* the control connection c: "none", "open", "ended" by the server
            \* or "closed"
  relay,    \* the relay socket pc: "none", "open" or "closed"
  maps,     \* which of tcpConns, udpConns and remoteAddrs have an entry
  worker,   \* place of handleTCP and fetchUDPInput
  send,     \* place of each caller of ReceiveTo
  looked,   \* it found pc and the server's address in the maps
  buf,      \* fetchUDPInput's buffer, with what earlier datagrams left in it
  received, \* the datagram last read
  handed,   \* the address and payload last given to WriteFrom
  crashed   \* the process has panicked

sockVars == <<ctl, relay, maps>>
sendVars == <<send, looked>>
dataVars == <<buf, received, handed>>
vars     == <<conn, dial, sockVars, worker, sendVars, dataVars, crashed>>

Workers == {"tcp", "udp"}
Senders == {"drain", "lwip"}
Maps    == {"tcpConns", "udpConns", "remoteAddrs"}
None    == [addr |-> Nil, payload |-> Nil]

Init ==
  /\ conn = "connecting" /\ dial = "dial" /\ ctl = "none" /\ relay = "none"
  /\ maps = {} /\ worker = [w \in Workers |-> "none"]
  /\ send = [s \in Senders |-> "idle"] /\ looked = [s \in Senders |-> FALSE]
  /\ buf = [i \in 1..Size |-> 0] /\ received = Nil /\ handed = None
  /\ crashed = FALSE

\* A panic ends the process.
Alive == ~crashed /\ UNCHANGED crashed

-----------------------------------------------------------------------------
(* connectInternal.                                                        *)

Handshake == <<"dial", "method", "reply", "address", "resolve", "spawn">>

\* It dials, reads the server's method, its reply and the relay's address, and
\* resolves that.
DialSteps ==
  /\ Alive
  /\ \E i \in 1..5 : dial = Handshake[i] /\ dial' = Handshake[i + 1]
  /\ ctl' = IF dial = "dial" THEN "open" ELSE ctl
  /\ UNCHANGED <<conn, relay, maps, worker, sendVars, dataVars>>

\* An error returns, and leaves c as it is; then newUDPConn's goroutine closes
\* core's connection.
DialFails ==
  /\ Alive /\ dial \in {"dial", "method", "reply", "address", "resolve"}
  /\ "step" \in Faults \/ (dial \notin {"dial", "resolve"} /\ ctl = "ended")
  /\ dial' = "failed" /\ conn' = "closed"
  /\ UNCHANGED <<sockVars, worker, sendVars, dataVars>>

\* go h.handleTCP(conn, c).
DialSpawns ==
  /\ Alive /\ dial = "spawn"
  /\ worker' = [worker EXCEPT !["tcp"] = "run"] /\ dial' = "listen"
  /\ UNCHANGED <<conn, sockVars, sendVars, dataVars>>

DialListens ==
  /\ Alive /\ dial = "listen"
  /\ \/ relay' = "open" /\ dial' = "store" /\ UNCHANGED conn
     \/ "listen" \in Faults /\ dial' = "failed" /\ conn' = "closed" /\ UNCHANGED relay
  /\ UNCHANGED <<ctl, maps, worker, sendVars, dataVars>>

StoresWithoutTcpBug == Maps \ {"tcpConns"}
Stored == Maps

DialStores ==
  /\ Alive /\ dial = "store"
  /\ maps' = Stored
  /\ worker' = [worker EXCEPT !["udp"] = "run"] /\ dial' = "done"
  /\ UNCHANGED <<conn, ctl, relay, sendVars, dataVars>>

\* newUDPConn's goroutine, once Connect has returned.
Connected ==
  /\ Alive /\ dial = "done" /\ conn' = "connected" /\ dial' = "connected"
  /\ UNCHANGED <<sockVars, worker, sendVars, dataVars>>

ServerEnds ==
  /\ Alive /\ "server" \in Faults /\ ctl = "open"
  /\ ctl' = "ended"
  /\ UNCHANGED <<conn, dial, relay, maps, worker, sendVars, dataVars>>

-----------------------------------------------------------------------------
(* Close, in whichever goroutine: conn.Close, then the maps under h.Lock.  *)

KeepsRelayBug ==
  /\ ctl' = IF "tcpConns" \in maps THEN "closed" ELSE ctl
  /\ UNCHANGED relay

CloseSockets ==
  /\ ctl' = IF "tcpConns" \in maps THEN "closed" ELSE ctl
  /\ relay' = IF "udpConns" \in maps THEN "closed" ELSE relay

ClosesConn  == conn' = "closed" /\ UNCHANGED sockVars
ForgetsConn == CloseSockets /\ maps' = {} /\ UNCHANGED conn

-----------------------------------------------------------------------------
(* handleTCP and fetchUDPInput.                                            *)

At(w, place) == worker' = [worker EXCEPT ![w] = place]

\* Read fails: the server ended the connection, or Close did.
TcpReadFails ==
  /\ Alive /\ worker["tcp"] = "run" /\ ctl \in {"ended", "closed"}
  /\ At("tcp", "close")
  /\ UNCHANGED <<conn, dial, sockVars, sendVars, dataVars>>

\* ReadFrom fails: Close closed the socket, or the deadline has passed.
UdpReadFails ==
  /\ Alive /\ worker["udp"] = "run"
  /\ At("udp", "close")
  /\ UNCHANGED <<conn, dial, sockVars, sendVars, dataVars>>

\* The deferred Close.
WorkerCloses(w) ==
  /\ Alive
  /\ \/ worker[w] = "close" /\ ClosesConn /\ At(w, "forget")
     \/ worker[w] = "forget" /\ ForgetsConn /\ At(w, "done")
  /\ UNCHANGED <<dial, sendVars, dataVars>>

\* A relay datagram: three bytes, the address it comes from and the payload.
Some(m) ==
  {[type |-> socks5IP4, host |-> [i \in 1..IPv4len |-> m], port |-> m],
   [type |-> socks5Domain, host |-> <<m>>, port |-> m]}
Header == <<0, 0, 0>>
Whole  == UNION {{Header \o ParseAddr(a) \o <<m>> : a \in Some(m)} : m \in Marks}
Odd    == UNION {{SubSeq(d, 1, n) : n \in 0..Len(d)} : d \in Whole}
Datagrams == Whole \cup IF "odd" \in Faults THEN Odd ELSE {}

ReslicedBug(d) == d

\* ReadFrom puts what fits into the front of the buffer and leaves the rest.
Fitting(d) == SubSeq(d, 1, IF Len(d) < Size THEN Len(d) ELSE Size)
Read(d) == [i \in 1..Size |-> IF i <= Len(d) THEN d[i] ELSE buf[i]]

\* The goroutine waits as long as no datagram comes and the deadline allows.
UdpReads ==
  /\ Alive /\ worker["udp"] = "run" /\ relay = "open"
  /\ \E d \in Datagrams : received' = Fitting(d) /\ buf' = Read(d)
  /\ At("udp", "split")
  /\ UNCHANGED <<conn, dial, sockVars, sendVars, handed>>

WholeBufferBug(addr) == SubSeq(buf, 4 + Len(addr), Size)

\* buf[3+len(addr):n].
Payload(addr) == SubSeq(buf, 4 + Len(addr), Len(received))

\* SplitAddr looks at the whole buffer, whatever n is; the slice panics if its
\* bounds cross.  A name may not resolve.
UdpSplits ==
  /\ ~crashed /\ worker["udp"] = "split"
  /\ LET addr == SplitAddr(SubSeq(buf, 4, Size))
     IN  \/ /\ addr # Nil => AddrOf(addr).type = socks5Domain
            /\ At("udp", "close") /\ UNCHANGED <<handed, crashed>>
         \/ /\ addr # Nil /\ Len(received) < 3 + Len(addr)
            /\ crashed' = TRUE /\ UNCHANGED <<worker, handed>>
         \/ /\ addr # Nil /\ Len(received) >= 3 + Len(addr)
            /\ handed' = [addr |-> addr, payload |-> Payload(addr)]
            /\ At("udp", "write") /\ UNCHANGED crashed
  /\ UNCHANGED <<conn, dial, sockVars, sendVars, buf, received>>

\* WriteFrom: an error unless core is connected; it takes the address of the first
\* byte, which an empty payload does not have.
UdpWrites ==
  /\ ~crashed /\ worker["udp"] = "write"
  /\ crashed' = (conn = "connected" /\ handed.payload = Nil)
  /\ At("udp", IF conn = "connected" THEN "run" ELSE "close")
  /\ UNCHANGED <<conn, dial, sockVars, sendVars, dataVars>>

-----------------------------------------------------------------------------
(* ReceiveTo.                                                              *)

SendAt(s, place) == send' = [send EXCEPT ![s] = place]

\* core calls it once the connection was connected, and may be late to do so.
SendLooks(s) ==
  /\ Alive /\ dial = "connected" /\ send[s] = "idle"
  /\ looked' = [looked EXCEPT ![s] = {"udpConns", "remoteAddrs"} \subseteq maps]
  /\ SendAt(s, "send")
  /\ UNCHANGED <<conn, dial, sockVars, worker, dataVars>>

\* WriteTo fails on a closed socket, as it may on an open one.
SendWrites(s) ==
  /\ Alive /\ send[s] = "send"
  /\ \/ looked[s] /\ relay = "open" /\ SendAt(s, "idle")
     \/ (~looked[s] \/ relay # "open" \/ "send" \in Faults) /\ SendAt(s, "close")
  /\ UNCHANGED <<conn, dial, sockVars, worker, looked, dataVars>>

SendCloses(s) ==
  /\ Alive
  /\ \/ send[s] = "close" /\ ClosesConn /\ SendAt(s, "forget")
     \/ send[s] = "forget" /\ ForgetsConn /\ SendAt(s, "idle")
  /\ UNCHANGED <<dial, worker, looked, dataVars>>

-----------------------------------------------------------------------------
Dial == DialSteps \/ DialFails \/ DialSpawns \/ DialListens \/ DialStores \/ Connected
Ends(w) == \/ WorkerCloses(w)
           \/ w = "tcp" /\ TcpReadFails
           \/ w = "udp" /\ UdpReadFails
Send(s) == SendLooks(s) \/ SendWrites(s) \/ SendCloses(s)

Next == \/ Dial \/ ServerEnds \/ UdpReads \/ UdpSplits \/ UdpWrites
        \/ \E w \in Workers : Ends(w)
        \/ \E s \in Senders : Send(s)

Spec == Init /\ [][Next]_vars

(***************************************************************************)
(* Fairness.  The goroutines run once their reads return.  A remote falls  *)
(* silent some day, and the deadline of fetchUDPInput then ends it.        *)
(***************************************************************************)
FairSpec ==
  /\ Spec
  /\ \A w \in Workers : WF_vars(Ends(w))
  /\ WF_vars(UdpSplits \/ UdpWrites)
  /\ SF_vars(UdpReadFails)

-----------------------------------------------------------------------------
TypeOK ==
  /\ conn \in {"connecting", "connected", "closed"}
  /\ dial \in ToSet(Handshake) \cup {"listen", "store", "done", "connected", "failed"}
  /\ ctl \in {"none", "open", "ended", "closed"} /\ relay \in {"none", "open", "closed"}
  /\ maps \subseteq Maps
  /\ worker \in [Workers -> {"none", "run", "split", "write", "close", "forget", "done"}]
  /\ send \in [Senders -> {"idle", "send", "close", "forget"}]
  /\ looked \in [Senders -> BOOLEAN]
  /\ buf \in [1..Size -> Byte] /\ received \in Seq(Byte)
  /\ handed.addr \in Seq(Byte) /\ handed.payload \in Seq(Byte)
  /\ crashed \in BOOLEAN

\* What fetchUDPInput gives to WriteFrom is the datagram it has just read, to the
\* byte: nothing that an earlier, longer one left in the buffer, although SplitAddr
\* searches the whole buffer.
HandedIsReceived ==
  worker["udp"] = "write" =>
    received = SubSeq(buf, 1, 3) \o handed.addr \o handed.payload

\* An open relay socket, and a control connection that handleTCP watches, can be
\* found in the maps by whoever closes the association, but for the moments before
\* connectInternal stores them and for a Connect that fails at net.ListenPacket.
SocketsFound ==
  /\ relay = "open" => dial = "store" \/ "udpConns" \in maps
  /\ ctl = "open" /\ worker["tcp"] # "none" =>
       dial \in {"listen", "store", "failed"} \/ "tcpConns" \in maps

\* An association that was set up ends: both sockets are closed, the maps forget
\* it and both goroutines return, whoever closes first, also when handleTCP ended
\* before the sockets were in the maps.
AssociationEnds ==
  dial = "connected" ~>
    \/ crashed
    \/ /\ ctl = "closed" /\ relay = "closed" /\ maps = {}
       /\ \A w \in Workers : worker[w] = "done"

=============================================================================
