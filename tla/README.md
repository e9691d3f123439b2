# A formal model of go-tun2socks

go-tun2socks turns IP packets from a TUN device into TCP and UDP connections
with the help of lwIP, a TCP/IP stack written in C, and hands each connection to
a proxy handler. This directory holds TLA+ modules of the part of the program
that is hard to get right: the connection objects between lwIP and the handlers,
the handlers' relays and associations, the memory packets are in on their way,
and the alternative stack `ipstack`; TLC configurations that check them on small
instances; and proofs, checked by TLAPS, of what holds for every instance.

    tlc -workers 4 -config TcpConn_safety.cfg TcpConn.tla   # and the other .cfg
    for m in *_proofs.tla SequenceLemmas.tla; do tlapm $m; done

## 1. The system

| part | files | state | operations |
|---|---|---|---|
| TCP connection | `core/tcp_conn.go`, `tcp_callback_export.go` | `state` (nine values), the pipe to the reader, `canWrite`, `closeOnce`, `tcpConns` | the callbacks accept, recv, sent, poll, err; `Read`, `Write`, `CloseRead`, `CloseWrite`, `Close`, `Abort`; the goroutine that dials |
| UDP connection | `core/udp_conn.go`, `udp_callback_export.go`, `udp_conn_map.go` | `state` (three values), `pending`, `udpConns` | `udpRecvFn`, `ReceiveTo`, `WriteFrom`, `Close`; the goroutine that connects and drains |
| lwIP's TCP | `core/c/core/tcp.c`, `tcp_in.c` (vendored, patched) | the protocol control block (pcb): its TCP state, flags, refused data, send buffer | `tcp_input`, `tcp_slowtmr`, `tcp_fasttmr`, `tcp_process_refused_data`, `tcp_shutdown`, `tcp_close`, `tcp_abort`, `tcp_write` |
| stack | `core/lwip.go` | `lwipMutex`, the listeners, a context | `NewLWIPStack`, `Write`, `RestartTimeouts`, `Close`; the timer goroutine |
| packet input, output | `core/input.go`, `output*.go` | none | refer to the caller's buffer or copy it; copy a reply's pbufs into one buffer |
| IP reassembly | `core/c/core/ipv4/ip4_frag.c` (vendored) | `reassdatagrams`, `ip_reass_pbufcount` | `ip4_reass`, `ip_reass_tmr`, `ip_reass_remove_oldest_datagram` |
| buffer pool | `core/buffer_pool.go` | a `sync.Pool` | `NewBytes`, `FreeBytes` |
| addresses, errors | `core/addr.go`, `errors.go` | none | convert |
| TCP handlers | `proxy/socks/tcp.go`, `proxy/redirect/tcp.go` | the two goroutines of a relay | `Handle`, `relay`, `handleInput`, `handleOutput` |
| UDP handlers | `proxy/socks/udp.go`, `proxy/redirect/udp.go` | maps from connection to sockets, a lock | `Connect`, `ReceiveTo`, `Close`, `fetchUDPInput`, `handleTCP` |
| SOCKS addresses | `proxy/socks/socks.go` | none | `ParseAddr`, `SplitAddr`, `readAddr`, `String` |
| DNS fallback | `proxy/dnsfallback/udp.go` | none | answer a query with a truncated response |
| ipstack, TCP | `ipstack/tcp.go`, `c_export.go`, `pool.go` | `chRead`, `condSent`, a read timer, `conn.pcb` | `ReadFrom`, `WriteTo`, `Close`, the callbacks, the accept goroutine |
| ipstack, UDP | `ipstack/udp.go` | a channel of one pbuf | `Read`, `Write`, `Close` |
| command, TUN, logging, DNS blocker | `cmd/`, `tun/`, `common/` | one buffer of the main loop, flags | wiring and I/O |

**How they interact.** Packets enter in `lwipStack.Write`, timers in a goroutine
of the stack; both lock `lwipMutex` and call into lwIP, which calls back into Go
(`tcpRecvFn`, `udpRecvFn`, ...) with the mutex held. A callback finds its
connection by an address lwIP keeps as an integer (TCP; `tcpConns` keeps the
object alive) or in `udpConns` by the source address (UDP). A new connection
starts a goroutine that asks the handler to reach the remote; the handler starts
goroutines that copy data both ways and call `Read`, `Write`, `WriteFrom`,
`Close` on the connection, which take `conn.Mutex`, `lwipMutex` or both. A TCP
callback hands data to the reader over an unbuffered pipe and waits for it
*inside* lwIP. `Abort` calls lwIP, which calls the error callback at once.

**What is hard.** Two locks and a condition variable with a lock of its own;
state that is looked at under one lock and acted upon under another; pcbs that
lwIP frees while Go still has a pointer to them; callbacks inside calls; data
refused while the handler dials, offered again later, with a FIN behind them;
half-closed connections; a table whose entry is written after the goroutine that
may delete it was started; one read buffer for all packets, of which lwIP and
core keep parts beyond the call; buffers that go round between goroutines; a
datagram that ends before the header it should have.

**What makes each part correct.** A TCP connection is a byte stream in each
direction whatever the interleaving: nothing lost, repeated or cut short while
it is intact; its callbacks meet neither a freed pcb nor a collected object; it
never holds the lwIP thread for good; it is released when both ends are done. A
UDP connection gives each datagram to the handler at most once, after `Connect`,
the early ones in order, and its sockets are closed some day. The stack stays
usable whatever one connection does. The handlers pass each end of stream and
each error on, and leak no socket. Whoever is handed a slice finds in it what was
sent, and the queue of fragments is bounded and empties itself.

The hazards, each at its line, are listed in `PROJECT.json`.

## 2. Modules and plan

| module | models | checked by | proofs |
|---|---|---|---|
| `UplinkStream`, `DownlinkStream` | what a connection promises: a byte stream to its reader, one to its peer | as properties of `TcpConn` (both), `Relay`, `IpStackTcp` (the first) | |
| `TcpConn` | a TCP connection between lwIP and a handler | `tcp_*` | `TcpConn_proofs`, `TcpConnWriter_proofs` |
| `UdpConn` | the UDP connections of one source | `udp_*` | `UdpConn_proofs` |
| `Relay` | the relay of a TCP handler, with both ends | `relay` | `Relay_proofs` |
| `SocksAddr` | SOCKS addresses as bytes | in `socks_udp` | `SocksUdp_proofs` |
| `SocksUdp` | a SOCKS UDP association; extends `SocksAddr` | `socks_udp` | `SocksUdp_proofs` |
| `PacketPath` | whose memory a packet is in: main loop, input, reassembly, pool, output | `packets` | `PacketPath_proofs` |
| `IpStackTcp` | a TCP connection of `ipstack` | `ipstack` | `IpStackTcp_proofs` |
| `SequenceLemmas` | no code: induction, concatenation and `FlattenSeq` | | itself |

The connection is modelled twice from two sides. Of the TUN end of a relay, `Relay`
takes `Read` from `TcpConn` (a byte stream, an end or an error at a reset and a close),
and has `Write` itself: the check of the state, the look at the send buffer, the wait
for `canWrite`, and the callbacks that broadcast it or are taken away, because who
closes decides whether a waiting `Write` wakes. `UdpConn` gives a handler's calls and
goroutines what `SocksUdp` shows of them.

Left for later: `StackClose` (`lwipStack.Close` against `Write` and accept over
several TCP connections), `IpStackUdp`, the header bits of `DnsFallback`, the
bounds of `peekNextProto`. Every safety property of a passing run is proved.

## 3. TcpConn: one TCP connection

| variable | in the code |
|---|---|
| `lwip` | who holds `lwipMutex` |
| `todo`, `segment` | what the running entry into lwIP has still to do: the local variables and flags of `tcp_input` (`recv_flags`, `recv_data`, `recv_acked`) and of the timers |
| `at` | place inside the running callback |
| `connLock` | `conn.Mutex`, when it is kept across a call into lwIP |
| `tcp`, `registered`, `rxclosed`, `refused`, `sndq` | the pcb: `state`, its callbacks, `TF_RXCLOSED`, `refused_data`, the send buffer |
| `state`, `inMap`, `pipeR`, `pipeW`, `once` | `conn.state`, membership in `tcpConns`, the ends of the pipe, `closeOnce` |
| `pc`, `left`, `got` | the goroutines: the dialler, the two of the relay, `lwipStack.Close` |
| `rcvd`, `fin`, `read`, `wrote` | what lwIP has accepted, what `Read` returned, what `Write` was given |

A critical section of `conn.Mutex` is one step, and so is one of `lwipMutex`
without callbacks; every other entry into lwIP holds the mutex over as many steps
as it makes calls, so that the handler's goroutines run between any two of
them. The entries are `Accept`, `Input` (any segment: data, FIN, ACK, RST),
`FastTimer`, `Poll`, `SlowTimerRemove`, `TimeWaitExpires`, `DialKick` (data that
were refused while the handler dialled) and `AbortEnter`. `Before` is the order
`tcp_input` works in: refused data first, then the segment; then sent, delayed
close, recv, FIN.

Abstractions. Data are counted in units of one segment. Sequence numbers,
windows, retransmission and reordering are left to lwIP: `Input` is a segment
that lwIP accepts. `tcp_shutdown` and `tcp_close` find memory for their FIN.
What a use after free reads is not this connection's: it changes nothing of it
(`ShutdownTx`, `DialKick`), or leads to a stale error callback (`AbortInternal`).
The RST that `tcp_close` sends when data are unread is not modelled because it
is unreachable: `ClosingHasNoUnreadData` shows that. A crash of the process is
a behaviour that stops.

### Runs

| run | bounds | shows |
|---|---|---|
| `tcp_safety` | 2 units each way, send buffer of 1, every fault | `TypeOK`; no callback panics (`NoNilAssert`), meets a collected connection (`CallbackTargetReachable`) or leaves lwIP with a freed pcb (`LwipContinuesOnLivePcb`); no unit is lost (`NoUplinkLoss`); the receive side is shut only by the reader (`RxShutOnlyByReader`); nothing is unread when both sides are closed; the connection implements `UplinkStream` (`UplinkRefinement`) and, for what the handler writes, `DownlinkStream` (`DownlinkRefinement`): a FIN never overtakes data |
| `tcp_live` | 2 units, buffer of 1, no fault | a waiting writer is polled, `Write` returns, the connection ends and is forgotten |
| `tcp_reader` | 1 unit, resets, timeouts, broken relay | a reader that reads or closes is enough for lwIP to be left |
| `tcp_dial` | a dial that fails | *violated*: the abort deadlocks the thread in lwIP |
| `tcp_wakeup` | a reset | *violated*: the broadcast is lost and `Write` never returns |

Two units are enough for one to be refused or in the pipe while the next, or the
FIN, arrives behind it, and for a `Write` that fits only in part with a buffer of
one; more only repeat this. `Faults` names what may go wrong, so that each
defect is shown with the least it needs. Deadlock is not checked where the
connection really stops the system: with an abort (the self-deadlock of
`tcp_dial`) or a lost wake-up.

### Fairness

The thread inside lwIP and every goroutine run when they can; a goroutine that
waits for `lwipMutex` gets it if it is free again and again (`sync.Mutex` hands
itself to a waiter after a millisecond), hence strong fairness. The timer
goroutine polls for ever. For `tcp_live` the peer and the remote are alive: they
acknowledge and end their streams. `ReaderFairSpec` assumes no more than the
thread in lwIP and the uplink.

## 4. UdpConn: the UDP connections of one source

| variable | in the code |
|---|---|
| `rx`, `rxConn`, `packet` | place of the lwIP thread in `udpRecvFn`, its `conn`, the datagram |
| `table` | the entry of the source in `udpConns` |
| `state`, `pending` | the connection's state and channel |
| `open` | the handler's maps hold its sockets |
| `pc` | the goroutine of `newUDPConn` and the handler's two workers |
| `stop` | place of `lwipStack.Close` |
| `early`, `handed` | histories: datagrams that waited, datagrams sent |

`Close` is three steps, as in the code: the state, the table's entry, the
handler's maps. `HasControl` and `ClosesOnError` tell `proxy/socks` (both true)
from `proxy/redirect` (both false). A handler's call that sends a datagram, and
`Connect` up to its error, are one step each. The result of `udp_sendto` is not
used by the code. `conn.pending = nil` has no effect that can be seen, since
nothing enters the channel of a connection that is not connecting.

| run | bounds | shows |
|---|---|---|
| `udp_safety` | 2 connections, 3 datagrams, channel of 2, every fault | `TypeOK`; the handler is used only after `Connect` (`ReadyBeforeUse`); no datagram is sent twice (`HandedOnce`); those that waited are sent in order (`EarlyInOrder`) |
| `udp_live` | 1 connection, 3 datagrams, SOCKS handler whose workers may end, a failing `Connect`, the end of the stack | sockets in the maps have a goroutine that will close them (`SocketsWatched`); the lwIP thread leaves `udpRecvFn`, though the channel is full (`RxReturns`); what waited is sent, or its connection is closed (`EarlyDelivered`) |
| `udp_table` | `Connect` fails at once | *violated*: the table keeps a closed connection |

Three datagrams and a channel of two let one wait, one follow and one overflow;
two connections let a late `Close` delete the entry of a newer one. Fairness: the
lwIP thread runs; `Connect` returns (the handlers dial with a timeout); a remote
falls silent some day, and the read deadline ends `fetchUDPInput`. `Quiet` is a
system in which no datagram is left and every goroutine waits for the network:
it may stop there, nowhere else.

## 5. Relay: the handlers' two copies

`Relay` begins where `Handle` has reached the remote. `style` tells `relay` of
`proxy/socks` from `handleInput` and `handleOutput` of `proxy/redirect`; `duplex`
is false if an end cannot be half-closed. Per direction: what the peer sent
(`sent`, `ended`), what `io.Copy` has read and written (`copied`, `written`), what
the other peer has read (`taken`), the goroutine's place `pc` and what `io.Copy`
returned (`outcome`). Per end: `reset`, and its open sides `rd` and `wr`. Of the TUN
end also `heard` (`setLocalClosed` ran: the reader learns of the FIN) and `called` (its
callbacks are registered and lwIP has the pcb). One step is a `Read`, a `Write` of the
remote socket or one of the closes in `cls`; `Meet` is the handshake over `upCh`.
`redirect` ignores what `io.Copy` returned, so `Interrupts` is never true of it: an
error half-closes like an end, and the other direction goes on.

The TUN end's `Write` is the loop of `tcpConn.Write`: `WriteChecks` under `conn.Mutex`,
the part under `lwipMutex` (`WriteEnqueues`, `WriteFails`, `WriteFindsFull`), and
`WriteWaits` after it, so that a broadcast can come in between and be missed.
`Broadcast` is that of `setLocalClosed`, `checkState` and `Err`. `LocalClosed`,
`CheckState` (the sent and the poll callback) and `PcbEnds` are lwIP's calls: once both
halves are closed, `checkState` calls `closeInternal`, which takes the callbacks away,
and returns without a broadcast. The remote end is what a socket of the kernel
promises: its `Write` fails once it is closed or reset. `Stale` is what `Write` may
read of a pcb that was freed under it, when its memory is used again (the fault
"reuse"). Two things the code has are left to `TcpConn`: an `ERR_MEM` of `tcp_write`,
and a state that the dial goroutine overwrites.

| run | bounds | shows |
|---|---|---|
| `relay` | 2 units each way, a window of 1, both handlers, ends that can and cannot be half-closed, resets of both ends, freed memory used again | `TypeOK`; only a reset of the TUN end, or an interrupt by the uplink, can leave a `Write` asleep on an end without callbacks (`SleepsOnlyAfterInterrupt`); each direction is an `UplinkStream` of its own, whose end neither comes early nor cuts the other (`StreamsRelayed`); with `socks` an error in one direction ends both although both peers are silent, and the relay ends when both peers are done, with both sides of both ends closed (`RelayEnds`) - but for a `Write` that is `Asleep` like that |

With a window of 1 a unit can be written while the next waits for room. Fairness: the
two goroutines run; lwIP passes a FIN on and polls the TUN end while its callbacks are
registered (the timer goroutine); a connected peer reads what it was sent. Nothing
makes a peer send or end. The relay stops when it is over, hence no deadlock check.
`Asleep` is not assumed away: without it TLC refutes `RelayEnds` even if the reset of
the remote is the only fault, and section 10 says how the code gets there.

## 6. SocksAddr and SocksUdp: SOCKS addresses and associations

`SocksAddr` has the four functions of `socks.go` over bytes. An address is its type,
the bytes of its host and its port; `AddrLen` is the length its first bytes call
for. The lengths of IP addresses are constants, so that TLC can use short ones.

`SocksUdp` is one association: `dial` is the place in `connectInternal`, `ctl` and
`relay` are its two sockets, `maps` says which of the three maps have an entry,
`worker` the places of `handleTCP` and `fetchUDPInput`, `send` those of the two
callers of `ReceiveTo`. `Close` is two steps, core's state and then the maps under
`h.Lock`. Relay datagrams are bytes, because `fetchUDPInput` reads all of them into one
buffer: `buf` is that buffer with its leftovers, `Read` changes its front only,
`SplitAddr` searches all of it, and `Payload` is the slice up to `n`. Bounds that
cross panic (`crashed`).

`socks_udp`: addresses of 1 and 2 bytes, names of 1, a buffer of 9 bytes that just
holds the longest datagram, two marks so that a leftover differs from what replaced
it, datagrams cut at every length, and every fault. What is handed to
`WriteFrom` is the datagram just read (`HandedIsReceived`); open sockets are in the
maps for whoever closes (`SocketsFound`); an association that was set up ends with
both sockets closed (`AssociationEnds`). Fairness: the goroutines run once their
reads return; a remote falls silent some day, and the read deadline then ends
`fetchUDPInput` (strong fairness, because a datagram may come before it). The
process stops after a panic and the association after its end: no deadlock check.

## 7. PacketPath: whose memory a packet is in

| variable | in the code |
|---|---|
| `loop`, `tun` | the main loop and its one read buffer |
| `at`, `data` | the callback lwIP is in, and the slice it hands on |
| `reass`, `count` | `reassdatagrams`, `ip_reass_pbufcount` |
| `refused` | `refused_data` of a TCP connection |
| `state`, `pending` | the udpConn's state and early datagrams |
| `fetch` | each `fetchUDPInput`: its buffer and the one `output` uses for it |
| `memory`, `pool` | the Go buffers: size and contents, and which are in the pool |

A slice is a place (`"tun"`, a pbuf, a Go buffer, a copy) and is resolved when it is
used, so that a reference to memory that was read over or put back shows as wrong
contents. `input()` decides with `MoreFrags` and `FragOffset` what it copies;
`ip4_input` decides separately what is a fragment. `ip4_reass` is modelled with its
eviction of the oldest datagram, its refusals (no room, an overlap), the sorted
list, completion and the timer. The list loses entries in three ways, each a set of
places (`Evicted`, the finished datagram's, `Expired`), and `Selected` is the list
without them; `Place` is where a fragment belongs among its datagram's. `NewBytes` may take any pooled buffer that is large
enough for the pool's rule, or a new one; with only two identities it sometimes has
to wait, which loses no behaviour of the others.

`packets`: two IPv4 datagrams that come in any fragments, one IPv6 datagram, one
TCP segment, payloads of 2 and 3 units, at most 2 queued fragments, entries that
live 1 tick, one early datagram, one fetcher whose buffer is larger than the pool's.
So fragments of two datagrams meet a full queue, evict each other, expire and
complete. Whatever slice is handed on holds what was sent (`DeliveredIntact`),
queued fragments stay what they were (`FragmentsKept`), the counter is the number of
queued fragments and bounded (`ReassBounded`), what goes to the TUN device is the
reply that was read (`SentIntact`), and an entry goes at the latest with the tick after
its last one (`EntriesAge`).
An instance with three buffers and three units (5.2 million states) shows the same.
Safety only: nothing here has to happen.

## 8. IpStackTcp: the alternative stack

`ipstack` binds lwIP anew; the command does not use it. The module's variables
follow `TCPConn` and its pcb: `lock`, `seg`, `step`, `retrying` and `data` are what
the holder of `is.Mutex` is doing inside lwIP; `connPcb`, `chRead`, `closed` the
connection's fields; `accept`, `writer`, `sender` and `errAt` the places of the accept
goroutine, `WriteTo`, `ReadFrom` and of `tcpErrFn` in each goroutine that aborts;
`offered`, `b` and `queued` are what `ReadFrom` has read, has in its buffer, and has
given to `tcp_write`. A `Read` returns a unit, an end, or both: with both, `ReadFrom`
leaves its loop with the unit in `b` (the place `"cut"`). A sent callback signals for
part of a unit as well.
`tcpRecvFn` is two steps, the look at `len(chRead)` and the send. Where the
code uses a pcb after lwIP freed it, the step has no effect on this connection.

`ipstack`: 3 units in chains of at most 2, a channel of 2 (full while a chain is
refused and another packet comes behind it), 2 units to write, every fault (resets,
failing writes, no memory, a failing handler, the read timer, `Close`): while the
connection is intact every unit is in exactly one place and in order
(`StreamKept`); nothing still referred to is freed (`HeldNotFreed`); `tcpRecvFn`
blocks with data only if an abort without `is.Mutex` came between its two steps
(`DataBlocksOnlyAfterAbort`); its reader sees a stream (`ReaderStream`); `tcp_write`
gets what `ReadFrom` reads once, in order and without a gap, and at most the last unit
is missing: on an intact connection that has been left, only one that came with the
end of the source (`SourceKept`).
There is no liveness to check: the model reaches the deadlock, the
lost wake-up and the stuck timer of section 10, which is also why deadlock is not
checked.

## 9. Proofs

Every proof holds for every value of the constants under the modules' named
assumptions, most of which say no more than that bounds are natural numbers. Each
follows one pattern: an inductive invariant `IInv`, a lemma per action or group of
facts, then the temporal step.

**`TcpConn_proofs`, `TcpConnWriter_proofs`**: all properties of `tcp_safety`, both
refinements included, for every `MaxData`, `MaxWrite`, `SndBuf` and set of faults;
and `WaitingWriterIsPolled` when there are no faults. None of the properties is
inductive: that no callback panics depends on which callbacks lwIP can still make,
that no unit is lost on where the unit is. `IInv` is the type invariant and six
groups of facts: `EarlyOK` (nothing happens before the handshake), `EntryOK` (what an
entry into lwIP has left to do fits together: an error comes alone, nothing follows
the delayed close), `UnitsOK` (the segment still fits the counters), `ReleaseOK`
(what a freed pcb and a forgotten connection exclude: this is where `tcpConns` and
the callbacks meet), `StreamOK` (until the pcb is freed or in TIME_WAIT
`rcvd = read + Held`; whoever was told of the FIN had everything before it) and
`ReaderOK` (what is lost, and shut, only after the reader left or an abort).
`StreamSimulation` maps each step to a step of `UplinkStream`: `Accept` and
`ProcessSegment` to `Send`, `PipeDeliver` to `Deliver`, the two ends of `Read` to
`EndOfFile` or `Fail`, the steps that close the pipe or set or leave `Aborting` to
`Disturb`, everything else to a stutter. For the writer, `WriterOK` is added: our
side of the stream is shut only by a downlink that has written all, which is what
lets `WriterSimulation` map `ShutdownTx` to the end of `DownlinkStream`.

**`UdpConn_proofs`**: the invariants of `udp_safety` and `SocketsWatched`, for every
number of connections and datagrams, every capacity, both kinds of handler and every
set of faults. What makes `IInv` inductive: `PhaseOK` (a connected
connection is past `Connect`: only the dial goroutine sets that state, so `ReceiveTo`
cannot reach the handler earlier), `ArrivedOK` (the datagram in the lwIP thread's
hands is newer than all that wait or were sent), `OnceOK` (a datagram is in one place
of one channel, or sent, never both) and `OrderOK` (a channel is in order, and behind
every early datagram that was sent). The `Data...` lemmas are the four ways a
datagram moves - it arrives, it is kept, it is sent, the drain takes it off - and
every other action leaves the datagrams alone (`DataFrame`).

**`Relay_proofs`**: `TypeOK`, `SleepsOnlyAfterInterrupt` and `StreamsRelayed`.
`UnitsOK` ties the copy's counters to its place, `OutcomeOK` says that a goroutine
closes only after its copy returned, `EndOK` that an end of stream was seen where it
is, and that the end a direction reads was closed under it only by what took both down.
`CalledOK` is why half-closes put no `Write` to sleep: lwIP lets go of the TUN end only
after a reset or once its writing side is closed, and while the downlink's copy runs
only the uplink's interrupt closes that. `StepCases` sorts the steps by what they can
change. Each step maps to a step of either stream.

**`SocksUdp_proofs`**: of the addresses, `AddressComesBack` (`SplitAddr` finds at the
front of any bytes the address `ParseAddr` wrote there, and `String` gives it back) and
`SameAddr` (`SplitAddr` and `readAddr` agree on all bytes), for all addresses of any
length. Of the association, the three invariants of `socks_udp`, for every buffer size
and any marks. `FrontOK` - the buffer begins with the datagram - is what makes the search
of the whole buffer harmless; `MapsOK` says what is stored at each place of the dial.

**`SequenceLemmas`** is what the two modules below share. An induction theorem of the
library takes a predicate as a parameter, which no prover here can instantiate;
`Induction` is the same for a set, from the least element of its complement
(`WFMin` over the numbers). With it, `FlattenSums` says what the recursive function
`FlattenSeq` of the community modules yields: the last of the sums of the first `i`
sequences. From that follow `FlattenAppend`, `FlattenHeadTail`, `FlattenPrefix` and
`FlattenPieces` (a sequence that was cut is whole again). `Join` is concatenation behind
a name, which keeps the provers from taking it apart.

**`IpStackTcp_proofs`**: all properties of `ipstack`. `ChanOK` says that `tcpErrFn`, the
only other sender on `chRead`, sends only after `conn.pcb` is nil; `AbortOK`, that while
`tcpRecvFn` runs it does so only for `WriteTo` or `ReadFrom`, which abort without the
lock, and that the pcb is gone then. With both follows when the send of data blocks.
`SourceOK` says that what `ReadFrom` has not written is at most the next unit, and where
it may stop with it; `NextUnit` is the step. The reader needs `ReaderOK` on top:
`CountOK` counts the units at every place - all the peer sent while the connection is
intact, never more after that; `CarriedOK` says that a callback and `refused_data` never
both hold a chain, `EofOK` that a nil in an intact connection's `chRead` is the last
thing there will be. `PeerOK` lets `Segment` map to `Send`, and to `Disturb` when lwIP
frees the pcb with it; `DeliveredIsSent` is the step of `WriteTo` to `Deliver` or
`EndOfFile`. For `StreamKept` and `HeldNotFreed` counting is not enough, the units'
order matters. `ArrivalOK` says that the segment lwIP has in hand, or is trying again,
starts at the next unit after `arrived`; `PlaceOK` that a callback and `refused_data`
never both hold a chain, even once the connection is no longer intact. `KeptOK`: while
it is intact, what was delivered and what is at each place, in the order in which it
will be read, are together the run of units from `newTcpConn` on up to `arrived`.
`CleanOK`: even after that the units still held rise strictly, so that none is at two
places, and none of them was given to `pbuf_free`. A move from one place to the next
leaves the concatenation as it is, which is what the lemmas on `FlattenSeq` are for.

**`PacketPath_proofs`**: all properties of `packets`, for any sets of datagrams,
buffers and fetchers, any limits of the queue and any sizes. The invariant comes in
three layers.
`IInv`: `OwnersOK`, a theorem of its own, gives a buffer one owner, a fetcher,
an `output` or `udpRecvFn`, and keeps it out of the pool while it has one. `CoreStep`
and `FetcherStep` say once what a step must show; `Got` and `Put` are the effects of
`NewBytes` and `FreeBytes`. `SentIntact` follows.
`ReassOK`: every entry of `reassdatagrams` is of its own datagram, its fragments are
copies, lie in their places without overlap, and `last` was set by one of them
(`InPlace`), and `ip_reass_pbufcount` is their number. `SelectedIs` shows that the places
`Selected` chooses exist and are all of them (by induction over the list); `PbufsSplit`
that the pbufs of two groups of entries add up, so that each way out of the list
takes off the counter what it takes off the queue (`ListKeeps`, `ListReplaces`,
`ListPrepends`, `ListAges`); `ChainedIs` that a fragment which overlaps none goes where
`Place` says. `ReassBounded`, `FragmentsKept` and `EntriesAge` follow.
`HandedOK`: what a callback, `refused_data` and `pending` hold is a payload that was
sent. The one hard step is the fragment that finishes its datagram: by `WholeIs` the
payloads of fragments that follow each other from 0 up to the last are the datagram,
and by `Got` the pooled buffer has room for all of it; that a fetcher leaves the buffer
alone meanwhile is `SliceKept`, from `OwnersOK`. `DeliveredIntact` and `TypeOK` follow.
TLC checked the whole of this invariant on the instance of `packets` as well.

Only model-checked: liveness under fairness (`tcp_live`, `tcp_reader`, `udp_live`,
`RelayEnds`, `AssociationEnds`), which is out of the prover's reach.

## 10. What disagrees with the code's own words

Three runs end in a counterexample; `PROJECT.json` quotes the comment each one
contradicts: an abort deadlocks the stack (`tcp_dial`); a writer misses its wake-up
(`tcp_wakeup`); the table keeps a closed connection (`udp_table`).

More follows from the same code without a run of its own; the models contain it,
as a step or as the exception a property makes.

TCP connections:
- a relay that is interrupted can hang, against `proxy/socks/tcp.go:69`: the downlink's
  `Write` has found no room, the remote resets the connection, the uplink's error closes
  the TUN end, and the TUN peer's FIN comes before or after that. With both halves
  closed `checkState` calls `closeInternal`, which takes the callbacks away, and returns
  before its broadcast (`core/tcp_conn.go:319-321`, `:349-352`). `Close` has none, and
  that of `setLocalClosed` comes too early: before the close, or before `Write` is in
  `Wait`. Nobody wakes the `Write` (`Asleep` of `Relay`);
- the dial goroutine overwrites a state that changed while it dialled: a dead
  connection is marked connected, and a relay that ends its writing side first loses
  `tcpWriteClosed`, so that the connection can stay in `tcpConns` for good
  (`core/tcp_conn.go:113`; the fault "overtake");
- `CloseWrite` and the dial goroutine use a pcb that a callback may have freed
  (`core/tcp_conn.go:300`, `:117`);
- a reset makes a blocked `Read` return `io.EOF` (`core/tcp_conn.go:201`);
- `lwipStack.Close` aborts connections and so meets the deadlock of `tcp_dial`.

UDP connections and handlers:
- the drain of early datagrams stops at the first error (`core/udp_conn.go:67`);
- closing the stack leaves open what is made after its `Range` (`core/lwip.go:136`,
  `core/udp_conn.go:58`);
- `WriteFrom` enters lwIP without `lwipMutex` (`core/udp_conn.go:142`);
- a handshake that fails leaves the control connection open, after line 141 with
  `handleTCP` reading it (`proxy/socks/udp.go:107`, `:141`);
- a relay datagram shorter than its header, or without payload, panics
  (`proxy/socks/udp.go:81`, `core/udp_conn.go:140`); line 70 compares the length of the
  buffer instead of `n`;
- `redirect` ignores what `io.Copy` returns.

Packets:
- the length checks of `peekNextProto` admit one byte too few (`core/input.go:73`);
- a datagram of more than ten fragments is never delivered (`IP_REASS_MAX_PBUFS`);
- any error of the stack's `Write` ends the program (`cmd/tun2socks/main.go:171`).

ipstack:
- EOF and errors are sent to `chRead` with `is.Mutex` held: a full channel and a
  reader that waits for the mutex stop the stack (`ipstack/c_export.go:72`, `:111`);
- data can block in the same way: `tcp_abort` without the lock, after `tcpRecvFn` has
  looked at `len(chRead)`, lets `tcpErrFn` take the last place with its nil
  (`ipstack/c_export.go:82`, `ipstack/tcp.go:67`);
- `ReadFrom` drops what a `Read` returns together with `io.EOF`, which `io.Reader`
  allows, and returns no error (`ipstack/tcp.go:101`);
- refused data are offered again by the next segment only, since the timers are
  commented out (`ipstack/ipstack.go:181`, against the comment at
  `ipstack/c_export.go:87`);
- the sent callback may signal `condSent` before `ReadFrom` waits
  (`ipstack/tcp.go:121`);
- `tcp_abort` is called without the lock, perhaps on a freed pcb (`ipstack/tcp.go:67`,
  `:126`), and `tcpErrFn` may send on the channel that `Close` has closed;
- data before `newTcpConn` are swallowed by lwIP's default callback;
- `SetReadDeadline` after a timeout waits for ever on a drained timer
  (`ipstack/pool.go:22`);
- `Read` of `ipstack/udp.go` frees a pbuf without the lock, and dereferences nil
  after `Close`.

## 11. Not modelled

lwIP but for what the modules name: sequence numbers, windows, retransmission, the
listener, IPv6 fragments (`input()` copies them), ICMP's time-exceeded, IP options,
sending fragments, pbufs and memory (`MEMP_MEM_MALLOC` is on, so there are no pool
limits), the timer wheel, applications and ports. It is third-party code, vendored two
to three times over (`core/c`, `ipstack/c/core`, `ipstack/c/core0`), and makes up
nearly all of the repository's lines; the models cover what of it the Go code depends on.

The DNS fallback handler (a few bit operations on a buffer nobody else has), the UDP
side of `ipstack` (nothing `TCPConn` does not have in a harder form), the bounds
checks on a packet's first bytes, creation of the stack and a `Write` that races with
its `Close`; TUN devices, flags, logging and the Windows DNS blocker are I/O.
