----------------------------- MODULE PacketPath -----------------------------
(***************************************************************************)
(* Whose memory a packet is in on its way through core.  The main loop     *)
(* reads every packet into one buffer and gives it to LWIPStack.Write;     *)
(* input() lets lwIP refer to that buffer, or copies it; lwIP queues       *)
(* fragments (ip4_reass) and refused TCP data beyond the call; udpRecvFn   *)
(* and output() move chains through the buffer pool; enqueueEarlyPacket    *)
(* keeps datagrams for a handler that is still connecting.                 *)
(*                                                                         *)
(* A packet's payload is a sequence of units, each of one datagram; of the *)
(* IP header only what lwIP compares is kept.  A fragment takes one pbuf,  *)
(* since the MTU is below PBUF_POOL_BUFSIZE.  A definition whose name ends *)
(* in Bug is a plausible defect of the one that follows it.                *)
(***************************************************************************)
EXTENDS Naturals, Sequences, FiniteSets, SequencesExt

CONSTANTS
  Udp4, Udp6, Tcp, \* the datagrams and segments that may arrive, by protocol
  Short, Long,     \* units of those with an odd and with an even number
  Marks,           \* what tells one reply of a proxy from another
  Fetchers,        \* the goroutines fetchUDPInput
  Buffers,         \* the identities of Go buffers
  BufSize,         \* units of a buffer of the pool (2 KiB in the code)
  FetchSize,       \* units fetchUDPInput asks for: as many (redirect) or more (socks)
  MaxPbufs,        \* IP_REASS_MAX_PBUFS (10 in the code)
  MaxAge,          \* IP_REASS_MAXAGE (15 in the code)
  Cap              \* capacity of pending (64 in the code)

Ids == Udp4 \cup Udp6 \cup Tcp

ASSUME BoundsAssumption ==
  /\ Short \in Nat \ {0} /\ Long \in Nat \ {0}
  /\ BufSize \in Nat \ {0} /\ FetchSize \in Nat \ {0}
  /\ MaxPbufs \in Nat \ {0} /\ MaxAge \in Nat /\ Cap \in Nat
ASSUME KindsAssumption ==
  /\ Ids \subseteq Nat
  /\ Udp4 \cap Udp6 = {} /\ Udp4 \cap Tcp = {} /\ Udp6 \cap Tcp = {}
ASSUME BuffersAssumption == Buffers \cap {"none", "tun", "pbuf", "copy"} = {}

VARIABLES
  loop,    \* place of the main loop: "read" or "write"
  tun,     \* the packet in its buffer
  at,      \* the callback lwIP is in, with lwipMutex held: "udp" or "tcp" from
           \* input(), "retry" from the timer, or "idle"
  data,    \* ... and the slice it hands on
  reass,   \* reassdatagrams, the newest first
  count,   \* ip_reass_pbufcount
  refused, \* the refused_data of a TCP connection
  state,   \* of the udpConn: "connecting" or "connected"
  pending, \* its early datagrams
  fetch,   \* place of each fetchUDPInput, its buffer, and the one of output()
  memory,  \* size and contents of the Go buffers that are in use
  pool     \* buffers in the pool

lwipVars == <<reass, count, refused>>
udpVars  == <<state, pending>>
goVars   == <<fetch, memory, pool>>
vars == <<loop, tun, at, data, lwipVars, udpVars, goVars>>

Units(id)    == IF id % 2 = 1 THEN Short ELSE Long
Datagram(id) == [i \in 1..Units(id) |-> <<id, i>>]
Packet(id, off, n) ==
  [id |-> id, off |-> off, data |-> SubSeq(Datagram(id), off + 1, off + n)]
Cuts(id) == { c \in (0..Units(id) - 1) \X (1..Units(id)) : c[1] + c[2] <= Units(id) }
Packets  == { Packet(id, 0, Units(id)) : id \in Ids }
            \cup UNION { { Packet(id, c[1], c[2]) : c \in Cuts(id) } : id \in Udp4 }
Replies == { <<<<0, m>>>> : m \in Marks }
Nowhere == [in |-> "none", data |-> <<>>]
Unused  == [size |-> 0, data |-> <<>>]
Gone    == [at |-> "none", own |-> "none", out |-> "none", reply |-> <<>>]

Init ==
  /\ loop = "read" /\ tun = [id |-> 0, off |-> 0, data |-> <<>>]
  /\ at = "idle" /\ data = Nowhere
  /\ reass = <<>> /\ count = 0 /\ refused = Nowhere
  /\ state = "connecting" /\ pending = <<>>
  /\ fetch = [f \in Fetchers |-> Gone]
  /\ memory = [b \in Buffers |-> Unused] /\ pool = {}

-----------------------------------------------------------------------------
(* NewBytes and FreeBytes.                                                 *)

Fresh == { b \in Buffers \ pool : memory[b] = Unused }

\* Which identity a new buffer has does not matter.  sync.Pool may have lost what
\* it held, and then makes a buffer of BufSize.
MayGet(n, b) ==
  \/ Fresh # {} /\ b = CHOOSE c \in Fresh : TRUE
  \/ n <= BufSize /\ b \in pool

SizeOf(n, b) ==
  IF b \in pool THEN memory[b].size ELSE IF n <= BufSize THEN BufSize ELSE n

StaysPooledBug(b) == pool
Without(b) == pool \ {b}

First(bytes, n) == SubSeq(bytes, 1, IF Len(bytes) < n THEN Len(bytes) ELSE n)

\* NewBytes(n), and a copy into it; what exceeds the buffer is not there.
Gets(n, b, bytes) ==
  /\ MayGet(n, b)
  /\ memory' = [memory EXCEPT ![b] =
                  [size |-> SizeOf(n, b), data |-> First(bytes, SizeOf(n, b))]]
  /\ pool' = Without(b)

\* FreeBytes: what the buffer holds belongs to nobody from now on.
Puts(b) ==
  IF memory[b].size >= BufSize
  THEN /\ pool' = pool \cup {b} /\ memory' = [memory EXCEPT ![b].data = <<>>]
  ELSE /\ memory' = [memory EXCEPT ![b] = Unused] /\ UNCHANGED pool

Bytes(s) == IF s.in = "tun" THEN tun.data
            ELSE IF s.in \in Buffers THEN memory[s.in].data ELSE s.data

-----------------------------------------------------------------------------
(* input().                                                                *)

End(p) == p.off + Len(p.data)

\* For IPv6 both say "copy it".
MoreFrags(p)  == p.id \in Udp6 \/ End(p) < Units(p.id)
FragOffset(p) == IF p.id \in Udp6 THEN 1 ELSE p.off

OffsetIgnoredBug(p) == p.id \notin Tcp /\ ~MoreFrags(p)

\* PBUF_REF to the caller's buffer; any other packet is copied into a pbuf.
Referenced(p) == p.id \notin Tcp /\ ~(MoreFrags(p) \/ FragOffset(p) > 0)

Pbuf(p) == IF Referenced(p) THEN [in |-> "tun", data |-> <<>>]
                            ELSE [in |-> "pbuf", data |-> p.data]

\* The main loop reads the next packet into its one buffer.
ReadTun ==
  /\ loop = "read" /\ at \in {"idle", "retry"}
  /\ tun' \in Packets /\ loop' = "write"
  /\ UNCHANGED <<at, data, lwipVars, udpVars, goVars>>

\* LWIPStack.Write takes lwipMutex; lwIP has handled the packet, and calls
\* nothing back, when the callback is "idle".
Writes(callback, slice) ==
  /\ loop = "write" /\ at = "idle"
  /\ loop' = "read" /\ at' = callback /\ data' = slice
  /\ UNCHANGED <<tun, udpVars, fetch>>

IsFragment == tun.id \in Udp4 /\ (tun.off > 0 \/ End(tun) < Units(tun.id))

\* udpRecvFn and tcpRecvFn slice the payload of a packet in one pbuf.
InputWhole ==
  /\ ~IsFragment
  /\ Writes(IF tun.id \in Tcp THEN "tcp" ELSE "udp", Pbuf(tun))
  /\ UNCHANGED <<lwipVars, memory, pool>>

\* A callback answers ERR_CONN: lwIP keeps the segment for later.
InputRefused ==
  /\ tun.id \in Tcp /\ refused = Nowhere
  /\ Writes("idle", Nowhere)
  /\ refused' = Pbuf(tun)
  /\ UNCHANGED <<reass, count, memory, pool>>

-----------------------------------------------------------------------------
(* ip4_reass.  A queued pbuf is read through its payload pointer.          *)

Fragment(p) == [in |-> Pbuf(p).in, pkt |-> p]
View(f) == IF f.in = "tun" THEN tun ELSE f.pkt

\* The pbufs that these entries refer to, each by its datagram and its place.
PbufsOf(entries) == Cardinality(UNION { {e.id} \X DOMAIN e.frags : e \in entries })

ExpiredStillCountedBug(gone) == count
CountWithout(gone) == count - PbufsOf(gone)

\* A list that leaves the other entries out keeps the order of those at I.
Selected(list, I) ==
  LET places == CHOOSE f \in [1..Cardinality(I) -> I] :
               \A k, l \in 1..Cardinality(I) : k < l => f[k] < f[l]
  IN  [k \in 1..Cardinality(I) |-> list[places[k]]]

Others == { i \in DOMAIN reass : reass[i].id # tun.id }
Older(i, j) ==
  reass[i].timer < reass[j].timer \/ (reass[i].timer = reass[j].timer /\ i >= j)

\* What ip_reass_remove_oldest_datagram frees when there is no room: never the
\* datagram of the fragment itself.
Evicted == IF count < MaxPbufs THEN {}
           ELSE { i \in Others : \A j \in Others : Older(i, j) }

Remaining == Selected(reass, DOMAIN reass \ Evicted)
RemainingCount == CountWithout({ reass[i] : i \in Evicted })

\* The entry of the fragment's datagram, or a new one.
Entry ==
  IF \E i \in DOMAIN Remaining : Remaining[i].id = tun.id
  THEN Remaining[CHOOSE i \in DOMAIN Remaining : Remaining[i].id = tun.id]
  ELSE [id |-> tun.id, timer |-> MaxAge, last |-> FALSE, frags |-> <<>>]

Overlaps(p, q) == p.off < End(q) /\ q.off < End(p)

\* The fragment cannot be queued, or is there in part already.
Unwelcome ==
  \/ RemainingCount >= MaxPbufs
  \/ \E i \in DOMAIN Entry.frags : Overlaps(tun, View(Entry.frags[i]))

\* The first queued fragment with a larger offset, or behind all of them.
Place ==
  LET later == { i \in DOMAIN Entry.frags : View(Entry.frags[i]).off > tun.off }
  IN  IF later = {} THEN Len(Entry.frags) + 1
                    ELSE CHOOSE i \in later : \A j \in later : i <= j

\* ip_reass_chain_frag_into_datagram_and_validate.
Chained == [Entry EXCEPT !.last  = @ \/ End(tun) = Units(tun.id),
                         !.frags = InsertAt(@, Place, Fragment(tun))]

\* The last fragment was there, and nothing is missing before it.
Finished(e) ==
  /\ e.last /\ View(e.frags[1]).off = 0
  /\ \A i \in 2..Len(e.frags) : View(e.frags[i]).off = End(View(e.frags[i - 1]))

InputFragmentDropped ==
  /\ IsFragment /\ Unwelcome
  /\ Writes("idle", Nowhere)
  /\ reass' = Remaining /\ count' = RemainingCount
  /\ UNCHANGED <<refused, memory, pool>>

InputFragmentQueued ==
  /\ IsFragment /\ ~Unwelcome /\ ~Finished(Chained)
  /\ Writes("idle", Nowhere)
  /\ reass' = IF Entry.frags = <<>> THEN <<Chained>> \o Remaining
              ELSE [i \in DOMAIN Remaining |->
                      IF Remaining[i].id = tun.id THEN Chained ELSE Remaining[i]]
  /\ count' = RemainingCount + 1
  /\ UNCHANGED <<refused, memory, pool>>

\* udpRecvFn copies the chain of the whole datagram into a Go buffer.
InputFragmentFinishes ==
  /\ IsFragment /\ ~Unwelcome /\ Finished(Chained)
  /\ reass' = Selected(Remaining, { i \in DOMAIN Remaining : Remaining[i].id # tun.id })
  /\ count' = RemainingCount + 1 - Len(Chained.frags)
  /\ \E b \in Buffers :
       LET frags    == Chained.frags
           payloads == [i \in DOMAIN frags |-> View(frags[i]).data]
       IN  /\ Writes("udp", [in |-> b, data |-> <<>>])
           /\ Gets(Units(tun.id), b, FlattenSeq(payloads))
  /\ UNCHANGED refused

FirstOnlyBug ==
  IF reass[1].timer = 0 THEN Tail(reass) ELSE [reass EXCEPT ![1].timer = @ - 1]

\* ip_reass_tmr, which the timer goroutine calls under lwipMutex.
Expired == { i \in DOMAIN reass : reass[i].timer = 0 }
Aged ==
  LET live == Selected(reass, DOMAIN reass \ Expired)
  IN  [i \in DOMAIN live |-> [live[i] EXCEPT !.timer = @ - 1]]

ReassTimer ==
  /\ at = "idle" /\ reass # <<>>
  /\ reass' = Aged
  /\ count' = CountWithout({ reass[i] : i \in Expired })
  /\ UNCHANGED <<loop, tun, at, data, refused, udpVars, goVars>>

\* tcp_fasttmr, and tcp_input before the next segment of the connection, call
\* tcpRecvFn again with the refused one.
TcpRetry ==
  /\ at = "idle" /\ refused # Nowhere
  /\ at' = "retry" /\ data' = refused /\ refused' = Nowhere
  /\ UNCHANGED <<loop, tun, reass, count, udpVars, goVars>>

-----------------------------------------------------------------------------
(* The callbacks hand the slice on, to the handler or to pending.          *)

AliasBug(s) == s

\* append([]byte(nil), data...).
Copy(s) == [in |-> "copy", data |-> Bytes(s)]

\* The deferred FreeBytes, and the pbuf goes back to lwIP.
Returns ==
  /\ at' = "idle" /\ data' = Nowhere
  /\ IF data.in \in Buffers THEN Puts(data.in) ELSE UNCHANGED <<memory, pool>>
  /\ UNCHANGED <<loop, tun, reass, count, state, fetch>>

RoomAlwaysBug == state = "connecting"
HasRoom == state = "connecting" /\ Len(pending) < Cap

EnqueueEarlyPacket ==
  /\ at = "udp" /\ HasRoom
  /\ pending' = Append(pending, Copy(data))
  /\ Returns /\ UNCHANGED refused

\* The handler sends the bytes before it returns; without room they are lost.
ReceiveTo ==
  /\ at = "udp" /\ ~HasRoom
  /\ Returns /\ UNCHANGED <<refused, pending>>

\* tcpConn.Receive has written the slice to the pipe, or is refused again.
Receive ==
  /\ at \in {"tcp", "retry"}
  /\ refused' \in {refused} \cup IF at = "retry" THEN {data} ELSE {}
  /\ Returns /\ UNCHANGED pending

Connected ==
  /\ state = "connecting" /\ state' = "connected"
  /\ UNCHANGED <<loop, tun, at, data, lwipVars, pending, goVars>>

DrainPending ==
  /\ state = "connected" /\ pending # <<>>
  /\ pending' = Tail(pending)
  /\ UNCHANGED <<loop, tun, at, data, lwipVars, state, goVars>>

-----------------------------------------------------------------------------
(* fetchUDPInput of the handlers, and output().                            *)

Goes(f, place) == fetch' = [fetch EXCEPT ![f] = place]
CoreOnly == UNCHANGED <<loop, tun, at, data, lwipVars, udpVars>>

FetchStarts(f) ==
  /\ fetch[f].at = "none"
  /\ \E b \in Buffers : /\ Gets(FetchSize, b, <<>>)
                        /\ Goes(f, [Gone EXCEPT !.at = "read", !.own = b])
  /\ CoreOnly

FetchReads(f) ==
  /\ fetch[f].at = "read"
  /\ \E r \in Replies :
       /\ memory' = [memory EXCEPT ![fetch[f].own].data = r]
       /\ Goes(f, [fetch[f] EXCEPT !.at = "send", !.reply = r])
  /\ UNCHANGED pool /\ CoreOnly

\* WriteFrom's pbuf of the reply follows a header's, so that output copies both.
Output(f) ==
  /\ fetch[f].at = "send"
  /\ \E b \in Buffers :
       /\ Gets(Len(fetch[f].reply), b, memory[fetch[f].own].data)
       /\ Goes(f, [fetch[f] EXCEPT !.at = "out", !.out = b])
  /\ CoreOnly

\* OutputFn writes the packet to the TUN device, and FreeBytes.
OutputReturns(f) ==
  /\ fetch[f].at = "out"
  /\ Puts(fetch[f].out)
  /\ Goes(f, [fetch[f] EXCEPT !.at = "read", !.out = "none", !.reply = <<>>])
  /\ CoreOnly

FetchEnds(f) ==
  /\ fetch[f].at = "read"
  /\ Puts(fetch[f].own) /\ Goes(f, Gone) /\ CoreOnly

Next ==
  \/ ReadTun \/ InputWhole \/ InputRefused
  \/ InputFragmentDropped \/ InputFragmentQueued \/ InputFragmentFinishes
  \/ ReassTimer \/ TcpRetry
  \/ EnqueueEarlyPacket \/ ReceiveTo \/ Receive \/ Connected \/ DrainPending
  \/ \E f \in Fetchers : \/ FetchStarts(f) \/ FetchReads(f) \/ Output(f)
                         \/ OutputReturns(f) \/ FetchEnds(f)

Spec == Init /\ [][Next]_vars

-----------------------------------------------------------------------------
Slices == [in   : {"tun", "pbuf"} \cup Buffers,
           data : {<<>>} \cup {Datagram(id) : id \in Ids}]

\* The range of every variable; a queue is never longer than the code lets it be.
TypeOK ==
  /\ loop \in {"read", "write"} /\ at \in {"idle", "udp", "tcp", "retry"}
  /\ IF at = "idle" THEN data = Nowhere ELSE data \in Slices
  /\ refused \in {Nowhere} \cup Slices
  /\ loop = "write" => tun \in Packets
  /\ \A i \in DOMAIN reass :
       /\ reass[i].id \in Udp4 /\ reass[i].timer \in 0..MaxAge
       /\ reass[i].last \in BOOLEAN /\ reass[i].frags # <<>>
  /\ state \in {"connecting", "connected"} /\ Len(pending) <= Cap
  /\ \A f \in Fetchers : fetch[f].at \in {"none", "read", "send", "out"}
  /\ pool \subseteq Buffers /\ \A b \in Buffers : memory[b].size \in Nat

\* Every slice that is or will be handed to a handler, at once (udpRecvFn and
\* tcpRecvFn) or later (enqueueEarlyPacket, refused_data), holds the payload
\* that was sent, whatever has been read, queued and put back in the meantime.
DeliveredIntact ==
  /\ at \in {"udp", "tcp"} => Bytes(data) = Datagram(tun.id)
  /\ at = "retry" => Bytes(data) \in {Datagram(id) : id \in Tcp}
  /\ refused # Nowhere => Bytes(refused) \in {Datagram(id) : id \in Tcp}
  /\ \A i \in DOMAIN pending :
       Bytes(pending[i]) \in {Datagram(id) : id \in Udp4 \cup Udp6}

\* A fragment that ip4_reass queued stays what it was when it came: the test of
\* input() that copies it is as wide as the one of ip4_input that queues it.
FragmentsKept ==
  \A i \in DOMAIN reass : \A j \in DOMAIN reass[i].frags :
    View(reass[i].frags[j]) = reass[i].frags[j].pkt

\* ip_reass_pbufcount counts the queued pbufs, whichever way they left, and so
\* bounds them; a datagram has one entry.
ReassBounded ==
  /\ count = PbufsOf(ToSet(reass)) /\ count <= MaxPbufs
  /\ \A i, j \in DOMAIN reass : reass[i].id = reass[j].id => i = j

\* What output() gives to the TUN device is the reply that was read, though its
\* buffers come from the pool and go back to it in several goroutines.
SentIntact ==
  \A f \in Fetchers :
    /\ fetch[f].at = "send" => memory[fetch[f].own].data = fetch[f].reply
    /\ fetch[f].at = "out"  => memory[fetch[f].out].data = fetch[f].reply

\* An entry goes at the latest with the tick after MaxAge ticks of the timer: a tick
\* ages every entry or frees it, and fragments that keep coming, welcome or not, do
\* not make it younger.
EntriesAge ==
  [][\A i \in DOMAIN reass : \A j \in DOMAIN reass' :
       reass'[j].id = reass[i].id =>
         reass'[j].timer <= reass[i].timer - (IF ReassTimer THEN 1 ELSE 0)]_vars
=============================================================================
