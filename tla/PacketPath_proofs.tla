-------------------------- MODULE PacketPath_proofs --------------------------
(***************************************************************************)
(* What is proved of PacketPath for any number of buffers, fetchers and    *)
(* datagrams and for every size.  NewBytes never hands out a buffer that   *)
(* somebody still uses (IInv), and so what output() gives to the TUN       *)
(* device is the reply that was read.  ip4_reass counts what it queues,    *)
(* keeps one entry of a datagram, its fragments in their places (ReassOK), *)
(* and so a datagram that is whole is the one that was sent.  With what    *)
(* the callbacks hold (HandedOK) that gives: every slice a handler gets is *)
(* the payload that was sent.                                              *)
(***************************************************************************)
EXTENDS PacketPath, SequenceLemmas, SequenceTheorems, FiniteSetTheorems,
        FunctionTheorems, TLAPS

\* The goroutine at place p uses buffer b.
Holds(p, b) == \/ p.at # "none" /\ p.own = b
               \/ p.at = "out" /\ p.out = b

PlaceOK(p) ==
  /\ p = [at |-> p.at, own |-> p.own, out |-> p.out, reply |-> p.reply]
  /\ p.at \in {"none", "read", "send", "out"}
  /\ p.at # "none" => p.own \in Buffers
  /\ p.at = "out" => p.out \in Buffers /\ p.out # p.own
  /\ p.at \in {"send", "out"} => p.reply \in Replies

SentOK(p, mem) ==
  /\ p.at = "send" => mem[p.own].data = p.reply
  /\ p.at = "out"  => mem[p.out].data = p.reply

FetchOK ==
  /\ fetch = [f \in Fetchers |-> fetch[f]]
  /\ \A f \in Fetchers : PlaceOK(fetch[f]) /\ SentOK(fetch[f], memory)

CellOK(m) == m = [size |-> m.size, data |-> m.data] /\ m.size \in Nat

MemoryOK ==
  /\ memory = [b \in Buffers |-> memory[b]]
  /\ \A b \in Buffers : CellOK(memory[b])
  /\ pool \subseteq Buffers
  /\ \A b \in pool : memory[b].size >= BufSize

InUse(b) == b \notin pool /\ memory[b].size > 0

\* A buffer has one owner, and is not in the pool while it has one.
OwnersOK ==
  /\ \A f \in Fetchers, b \in Buffers : Holds(fetch[f], b) => InUse(b)
  /\ \A f, g \in Fetchers, b \in Buffers :
       Holds(fetch[f], b) /\ Holds(fetch[g], b) => f = g
  /\ data.in \in Buffers =>
       InUse(data.in) /\ \A f \in Fetchers : ~Holds(fetch[f], data.in)
  /\ refused.in \notin Buffers
  /\ at = "retry" => data.in \notin Buffers

\* The inductive invariant of the buffers.
IInv == FetchOK /\ MemoryOK /\ OwnersOK

-----------------------------------------------------------------------------
(* NewBytes and FreeBytes.                                                 *)

LEMMA NothingIn == Nowhere.in \notin Buffers
  BY BuffersAssumption DEF Nowhere

LEMMA Stored ==
  ASSUME NEW b \in Buffers, NEW m, MemoryOK, CellOK(m),
         memory' = [memory EXCEPT ![b] = m]
  PROVE  /\ memory' = [c \in Buffers |-> memory'[c]]
         /\ memory'[b] = m
         /\ \A c \in Buffers \ {b} : memory'[c] = memory[c]
         /\ \A c \in Buffers : CellOK(memory'[c])
<1>1. memory = [c \in Buffers |-> memory[c]] /\ \A c \in Buffers : CellOK(memory[c])
  BY DEF MemoryOK
<1>2. memory' = [c \in Buffers |-> IF c = b THEN m ELSE memory[c]]
  BY <1>1
<1>3. /\ memory' = [c \in Buffers |-> memory'[c]]
      /\ memory'[b] = m
      /\ \A c \in Buffers \ {b} : memory'[c] = memory[c]
  BY <1>2
<1>4. \A c \in Buffers : CellOK(memory'[c])
  BY <1>1, <1>3
<1> QED
  BY <1>3, <1>4

\* A buffer that NewBytes may return is used by nobody.
LEMMA Free ==
  ASSUME NEW n, NEW b \in Buffers, IInv, MayGet(n, b)
  PROVE  ~InUse(b)
<1>1. CASE b \in pool
  BY <1>1 DEF InUse
<1>2. CASE Fresh # {} /\ b = CHOOSE c \in Fresh : TRUE
  <2>1. b \in Fresh
    BY <1>2
  <2>2. memory[b].size = 0
    BY <2>1 DEF Fresh, Unused
  <2> QED
    BY <2>2 DEF InUse
<1> QED
  BY <1>1, <1>2 DEF MayGet

LEMMA Got ==
  ASSUME NEW n \in Nat \ {0}, NEW b \in Buffers, NEW bytes, IInv, Gets(n, b, bytes)
  PROVE  /\ MemoryOK'
         /\ ~InUse(b) /\ InUse(b)'
         /\ \A c \in Buffers \ {b} :
              memory'[c] = memory[c] /\ (c \in pool' => c \in pool)
         /\ memory'[b].size >= n
         /\ memory'[b].data = First(bytes, memory'[b].size)
<1>1. MayGet(n, b) /\ ~InUse(b)
  BY Free DEF Gets
<1>2. PICK s : s = SizeOf(n, b)
  OBVIOUS
<1>3. s \in Nat /\ s > 0 /\ s >= n
  <2>1. MemoryOK
    BY DEF IInv
  <2>2. CASE b \in pool
    <3>1. n <= BufSize
      BY <1>1, <2>2 DEF MayGet, Fresh
    <3>2. s = memory[b].size /\ s \in Nat /\ s >= BufSize
      BY <1>2, <2>1, <2>2 DEF SizeOf, MemoryOK, CellOK
    <3> QED
      BY <3>1, <3>2, BoundsAssumption
  <2>3. CASE b \notin pool
    BY <1>2, <2>3, BoundsAssumption DEF SizeOf
  <2> QED
    BY <2>2, <2>3
<1>4. PICK m : m = [size |-> s, data |-> First(bytes, s)]
  OBVIOUS
<1>5. CellOK(m) /\ m.size = s /\ m.data = First(bytes, s)
  BY <1>3, <1>4 DEF CellOK
<1>6. memory' = [memory EXCEPT ![b] = m] /\ pool' = pool \ {b}
  BY <1>2, <1>4, Zenon DEF Gets, Without
<1>7. MemoryOK
  BY DEF IInv
<1>8. /\ memory' = [c \in Buffers |-> memory'[c]]
      /\ memory'[b] = m
      /\ \A c \in Buffers \ {b} : memory'[c] = memory[c]
      /\ \A c \in Buffers : CellOK(memory'[c])
  BY <1>5, <1>6, <1>7, Stored, Zenon
<1>9. /\ pool' \subseteq Buffers
      /\ \A c \in pool' : memory'[c].size >= BufSize
  <2>1. pool \subseteq Buffers /\ \A c \in pool : memory[c].size >= BufSize
    BY <1>7 DEF MemoryOK
  <2>2. \A c \in pool' : c \in pool /\ c \in Buffers \ {b}
    BY <1>6, <2>1
  <2> QED
    BY <1>8, <2>1, <2>2
<1>10. MemoryOK'
  BY <1>8, <1>9 DEF MemoryOK
<1>11. InUse(b)'
  BY <1>3, <1>5, <1>6, <1>8 DEF InUse
<1> QED
  BY <1>1, <1>3, <1>5, <1>6, <1>8, <1>10, <1>11

LEMMA Put ==
  ASSUME NEW b \in Buffers, MemoryOK, b \notin pool, Puts(b)
  PROVE  /\ MemoryOK'
         /\ \A c \in Buffers \ {b} :
              memory'[c] = memory[c] /\ (c \in pool' => c \in pool)
<1>1. /\ CellOK(memory[b]) /\ pool \subseteq Buffers
      /\ \A c \in pool : memory[c].size >= BufSize
  BY DEF MemoryOK
<1>2. CASE memory[b].size >= BufSize
  <2>1. PICK m : m = [size |-> memory[b].size, data |-> <<>>]
    OBVIOUS
  <2>2. CellOK(m) /\ m.size = memory[b].size
    BY <1>1, <2>1 DEF CellOK
  <2>3. [memory[b] EXCEPT !.data = <<>>] = m
    BY <1>1, <2>1 DEF CellOK
  <2>4. memory' = [memory EXCEPT ![b].data = <<>>] /\ pool' = pool \cup {b}
    BY <1>2 DEF Puts
  <2>5. memory' = [memory EXCEPT ![b] = m]
    BY <2>3, <2>4
  <2>6. /\ memory' = [c \in Buffers |-> memory'[c]]
        /\ memory'[b] = m
        /\ \A c \in Buffers \ {b} : memory'[c] = memory[c]
        /\ \A c \in Buffers : CellOK(memory'[c])
    BY <2>2, <2>5, Stored, Zenon
  <2>7. pool' \subseteq Buffers /\ \A c \in pool' : memory'[c].size >= BufSize
    BY <1>1, <1>2, <2>2, <2>4, <2>6
  <2> QED
    BY <2>4, <2>6, <2>7 DEF MemoryOK
<1>3. CASE ~(memory[b].size >= BufSize)
  <2>1. CellOK(Unused)
    BY DEF CellOK, Unused
  <2>2. memory' = [memory EXCEPT ![b] = Unused] /\ pool' = pool
    BY <1>3 DEF Puts
  <2>3. /\ memory' = [c \in Buffers |-> memory'[c]]
        /\ \A c \in Buffers \ {b} : memory'[c] = memory[c]
        /\ \A c \in Buffers : CellOK(memory'[c])
    BY <2>1, <2>2, Stored, Zenon
  <2>4. pool' \subseteq Buffers /\ \A c \in pool' : memory'[c].size >= BufSize
    BY <1>1, <2>2, <2>3
  <2> QED
    BY <2>2, <2>3, <2>4 DEF MemoryOK
<1> QED
  BY <1>2, <1>3

LEMMA WholeReply ==
  ASSUME NEW r \in Replies, NEW n \in Nat \ {0}
  PROVE  Len(r) = 1 /\ First(r, n) = r
<1>1. PICK m \in Marks : r = <<<<0, m>>>>
  BY DEF Replies
<1>2. PICK x : x = <<0, m>>
  OBVIOUS
<1>3. r = <<x>> /\ r \in Seq({x}) /\ Len(r) = 1
  BY <1>1, <1>2
<1>4. SubSeq(r, 1, 1) = r
  <2>1. PICK t : t = SubSeq(r, 1, 1)
    OBVIOUS
  <2>2. \A i \in 1..1 : r[i] \in {x}
    BY <1>3
  <2>3. t \in Seq({x}) /\ Len(t) = 1
    BY <2>1, <2>2, SubSeqProperties
  <2>4. t[1] = x
    BY <2>3
  <2>5. t = <<x>>
    BY <2>3, <2>4
  <2> QED
    BY <1>3, <2>1, <2>5
<1>5. First(r, n) = SubSeq(r, 1, 1)
  BY <1>3 DEF First
<1> QED
  BY <1>3, <1>4, <1>5

-----------------------------------------------------------------------------
(* What a step must show to keep the invariant.                            *)

\* A step of the main loop, the timer or a callback.
LEMMA CoreStep ==
  ASSUME IInv, UNCHANGED fetch, MemoryOK',
         \A b \in Buffers : InUse(b) /\ b # data.in =>
           memory'[b] = memory[b] /\ b \notin pool',
         data.in' \in Buffers =>
           InUse(data.in)' /\ \A f \in Fetchers : ~Holds(fetch[f], data.in'),
         refused.in' \notin Buffers,
         at' = "retry" => data.in' \notin Buffers
  PROVE  IInv'
<1>1. FetchOK /\ OwnersOK
  BY DEF IInv
<1>2. ASSUME NEW f \in Fetchers, NEW b \in Buffers, Holds(fetch[f], b)
      PROVE  memory'[b] = memory[b] /\ b \notin pool'
  BY <1>1, <1>2 DEF OwnersOK
<1>3. FetchOK'
  <2>1. \A f \in Fetchers : PlaceOK(fetch[f]) /\ SentOK(fetch[f], memory)
    BY <1>1 DEF FetchOK
  <2>2. ASSUME NEW f \in Fetchers PROVE SentOK(fetch[f], memory')
    BY <1>2, <2>1 DEF SentOK, Holds, PlaceOK
  <2> QED
    BY <1>1, <2>1, <2>2, Zenon DEF FetchOK
<1>4. \A f \in Fetchers, b \in Buffers : Holds(fetch[f], b) => InUse(b)'
  BY <1>1, <1>2 DEF OwnersOK, InUse
<1>5. OwnersOK'
  BY <1>1, <1>4, Zenon DEF OwnersOK
<1> QED
  BY <1>3, <1>5 DEF IInv

\* A step of fetchUDPInput f, which goes to place e and touches buffer x only.
LEMMA FetcherStep ==
  ASSUME IInv, CoreOnly, MemoryOK',
         NEW f \in Fetchers, NEW x \in Buffers, NEW e,
         fetch' = [fetch EXCEPT ![f] = e],
         PlaceOK(e), SentOK(e, memory'),
         \A b \in Buffers \ {x} : memory'[b] = memory[b] /\ (b \in pool' => b \in pool),
         data.in # x,
         \A g \in Fetchers \ {f} : ~Holds(fetch[g], x),
         \A b \in Buffers :
           Holds(e, b) => IF b = x THEN InUse(b)' ELSE Holds(fetch[f], b)
  PROVE  IInv'
<1>1. FetchOK /\ OwnersOK
  BY DEF IInv
<1>2. /\ fetch' = [g \in Fetchers |-> fetch'[g]]
      /\ fetch'[f] = e
      /\ \A g \in Fetchers \ {f} : fetch'[g] = fetch[g]
  BY <1>1 DEF FetchOK
<1>3. data' = data /\ refused' = refused /\ at' = at
  BY DEF CoreOnly, lwipVars
<1>4. \A b \in Buffers \ {x} : InUse(b) => InUse(b)'
  BY DEF InUse
<1>5. ASSUME NEW g \in Fetchers, g # f
      PROVE  PlaceOK(fetch'[g]) /\ SentOK(fetch'[g], memory')
  <2>1. PlaceOK(fetch[g]) /\ SentOK(fetch[g], memory)
    BY <1>1 DEF FetchOK
  <2>2. \A b \in Buffers : Holds(fetch[g], b) => memory'[b] = memory[b]
    BY <1>5
  <2>3. SentOK(fetch[g], memory')
    BY <2>1, <2>2 DEF SentOK, Holds, PlaceOK
  <2> QED
    BY <1>2, <1>5, <2>1, <2>3
<1>6. FetchOK'
  <2>1. \A g \in Fetchers : PlaceOK(fetch'[g]) /\ SentOK(fetch'[g], memory')
    BY <1>2, <1>5, Zenon
  <2> QED
    BY <1>2, <2>1, Zenon DEF FetchOK
<1>7. ASSUME NEW g \in Fetchers, NEW b \in Buffers, Holds(fetch'[g], b)
      PROVE  InUse(b)'
  <2>1. CASE g # f
    <3>1. Holds(fetch[g], b) /\ b # x
      BY <1>2, <1>7, <2>1
    <3> QED
      BY <1>1, <1>4, <3>1 DEF OwnersOK
  <2>2. CASE g = f /\ b # x
    <3>1. Holds(fetch[f], b)
      BY <1>2, <1>7, <2>2
    <3> QED
      BY <1>1, <1>4, <2>2, <3>1 DEF OwnersOK
  <2>3. CASE g = f /\ b = x
    BY <1>2, <1>7, <2>3
  <2> QED
    BY <2>1, <2>2, <2>3
<1>8. ASSUME NEW b \in Buffers, NEW g \in Fetchers \ {f},
             Holds(fetch'[f], b), Holds(fetch'[g], b)
      PROVE  FALSE
  <2>1. Holds(fetch[g], b) /\ b # x
    BY <1>2, <1>8
  <2>2. Holds(fetch[f], b)
    BY <1>2, <1>8, <2>1
  <2> QED
    BY <1>1, <2>1, <2>2 DEF OwnersOK
<1>9. ASSUME NEW g \in Fetchers, NEW h \in Fetchers, NEW b \in Buffers,
             Holds(fetch'[g], b), Holds(fetch'[h], b)
      PROVE  g = h
  <2>1. CASE g # f /\ h # f
    <3>1. Holds(fetch[g], b) /\ Holds(fetch[h], b)
      BY <1>2, <1>9, <2>1
    <3> QED
      BY <1>1, <3>1 DEF OwnersOK
  <2>2. CASE g = f
    BY <1>8, <1>9, <2>2
  <2>3. CASE h = f
    BY <1>8, <1>9, <2>3
  <2> QED
    BY <2>1, <2>2, <2>3
<1>10. ASSUME data.in \in Buffers
       PROVE  InUse(data.in)' /\ \A g \in Fetchers : ~Holds(fetch'[g], data.in)
  <2>1. InUse(data.in) /\ \A g \in Fetchers : ~Holds(fetch[g], data.in)
    BY <1>1, <1>10 DEF OwnersOK
  <2>2. InUse(data.in)'
    BY <1>3, <1>10, <2>1 DEF InUse
  <2>3. ASSUME NEW g \in Fetchers PROVE ~Holds(fetch'[g], data.in)
    <3>1. CASE g # f
      BY <1>2, <2>1, <3>1
    <3>2. CASE g = f
      BY <1>2, <1>10, <2>1, <3>2
    <3> QED
      BY <3>1, <3>2
  <2> QED
    BY <2>2, <2>3
<1>11. OwnersOK'
  <2>1. refused'.in \notin Buffers /\ (at' = "retry" => data'.in \notin Buffers)
    BY <1>1, <1>3 DEF OwnersOK
  <2> QED
    BY <1>3, <1>7, <1>9, <1>10, <2>1, Zenon DEF OwnersOK
<1> QED
  BY <1>6, <1>11 DEF IInv

-----------------------------------------------------------------------------
(* Each action.                                                            *)

LEMMA Initial == Init => IInv
<1> SUFFICES ASSUME Init PROVE IInv
  OBVIOUS
<1>1. PlaceOK(Gone) /\ SentOK(Gone, memory) /\ \A b : ~Holds(Gone, b)
  BY DEF Gone, PlaceOK, SentOK, Holds
<1>2. fetch = [f \in Fetchers |-> Gone] /\ \A f \in Fetchers : fetch[f] = Gone
  BY DEF Init
<1>3. FetchOK
  BY <1>1, <1>2 DEF FetchOK
<1>4. CellOK(Unused)
  BY DEF CellOK, Unused
<1>5. MemoryOK
  BY <1>4 DEF MemoryOK, Init
<1>6. data.in \notin Buffers /\ refused.in \notin Buffers /\ at # "retry"
  BY NothingIn DEF Init
<1>7. OwnersOK
  BY <1>1, <1>2, <1>6 DEF OwnersOK
<1> QED
  BY <1>3, <1>5, <1>7 DEF IInv

LEMMA PbufPlace == \A p : Pbuf(p).in \notin Buffers
  BY BuffersAssumption DEF Pbuf

\* A step that leaves the Go buffers alone and hands none of them on.
LEMMA LoopStep ==
  ASSUME IInv, UNCHANGED goVars,
         data.in' \notin Buffers \/ UNCHANGED data,
         refused.in' \notin Buffers,
         at' = "retry" => data.in' \notin Buffers
  PROVE  IInv'
<1>1. fetch' = fetch /\ memory' = memory /\ pool' = pool
  BY DEF goVars
<1>2. MemoryOK' /\ \A b : InUse(b)' <=> InUse(b)
  BY <1>1 DEF IInv, MemoryOK, InUse
<1>3. \A b \in Buffers : InUse(b) => memory'[b] = memory[b] /\ b \notin pool'
  BY <1>1 DEF InUse
<1>4. data.in' \in Buffers =>
        InUse(data.in)' /\ \A f \in Fetchers : ~Holds(fetch[f], data.in')
  BY <1>1, <1>2 DEF IInv, OwnersOK, InUse
<1> QED
  BY <1>1, <1>2, <1>3, <1>4, CoreStep, Zenon

LEMMA LoopSteps ==
  ASSUME IInv,
         \/ ReadTun \/ InputWhole \/ InputRefused
         \/ InputFragmentDropped \/ InputFragmentQueued
         \/ ReassTimer \/ TcpRetry \/ Connected \/ DrainPending
  PROVE  IInv'
<1>1. refused.in \notin Buffers /\ (at = "retry" => data.in \notin Buffers)
  BY DEF IInv, OwnersOK
<1>2. ASSUME \/ ReadTun \/ ReassTimer \/ Connected \/ DrainPending
      PROVE  UNCHANGED <<goVars, data, at, refused>>
  BY <1>2 DEF ReadTun, ReassTimer, Connected, DrainPending, lwipVars
<1>3. ASSUME \/ InputFragmentDropped \/ InputFragmentQueued
      PROVE  /\ UNCHANGED <<goVars, refused>>
             /\ data' = Nowhere /\ at' = "idle"
  BY <1>3 DEF InputFragmentDropped, InputFragmentQueued, Writes, goVars
<1>4. ASSUME InputWhole
      PROVE  /\ UNCHANGED <<goVars, refused>>
             /\ data' = Pbuf(tun) /\ at' # "retry"
  BY <1>4 DEF InputWhole, Writes, goVars, lwipVars
<1>5. ASSUME InputRefused
      PROVE  /\ UNCHANGED goVars
             /\ data' = Nowhere /\ at' = "idle" /\ refused' = Pbuf(tun)
  BY <1>5 DEF InputRefused, Writes, goVars
<1>6. ASSUME TcpRetry
      PROVE  UNCHANGED goVars /\ data' = refused /\ refused' = Nowhere
  BY <1>6 DEF TcpRetry
<1> QED
  BY <1>1, <1>2, <1>3, <1>4, <1>5, <1>6, NothingIn, PbufPlace, LoopStep

\* udpRecvFn takes a buffer for the whole datagram.
LEMMA FinishStep ==
  ASSUME IInv, InputFragmentFinishes
  PROVE  IInv'
<1>1. PICK b \in Buffers :
        /\ Writes("udp", [in |-> b, data |-> <<>>])
        /\ \E bytes : Gets(Units(tun.id), b, bytes)
  BY DEF InputFragmentFinishes
<1>2. PICK bytes : Gets(Units(tun.id), b, bytes)
  BY <1>1
<1>3. Units(tun.id) \in Nat \ {0}
  BY BoundsAssumption DEF Units
<1>4. /\ MemoryOK' /\ ~InUse(b) /\ InUse(b)'
      /\ \A c \in Buffers \ {b} : memory'[c] = memory[c] /\ (c \in pool' => c \in pool)
  BY <1>2, <1>3, Got, Zenon
<1>5. fetch' = fetch /\ at' = "udp" /\ data'.in = b /\ refused' = refused
  BY <1>1 DEF Writes, InputFragmentFinishes
<1>6. /\ \A f \in Fetchers : ~Holds(fetch[f], b)
      /\ refused.in \notin Buffers
  BY <1>4 DEF IInv, OwnersOK
<1>7. \A c \in Buffers : InUse(c) => memory'[c] = memory[c] /\ c \notin pool'
  BY <1>4 DEF InUse
<1> QED
  BY <1>4, <1>5, <1>6, <1>7, CoreStep

\* The callbacks put their buffer back before they return.
LEMMA ReturnStep ==
  ASSUME IInv, EnqueueEarlyPacket \/ ReceiveTo \/ Receive
  PROVE  IInv'
<1>1. Returns
  BY DEF EnqueueEarlyPacket, ReceiveTo, Receive
<1>2. fetch' = fetch /\ at' = "idle" /\ data' = Nowhere
  BY <1>1 DEF Returns
<1>3. refused'.in \notin Buffers
  <2>1. refused.in \notin Buffers /\ (at = "retry" => data.in \notin Buffers)
    BY DEF IInv, OwnersOK
  <2>2. refused' = refused \/ (at = "retry" /\ refused' = data)
    BY DEF EnqueueEarlyPacket, ReceiveTo, Receive
  <2> QED
    BY <2>1, <2>2
<1>4. MemoryOK
  BY DEF IInv
<1>5. CASE data.in \in Buffers
  <2>1. Puts(data.in) /\ InUse(data.in)
    BY <1>1, <1>5 DEF Returns, IInv, OwnersOK
  <2>2. PICK b \in Buffers : b = data.in
    BY <1>5
  <2>3. /\ MemoryOK'
        /\ \A c \in Buffers \ {b} :
             memory'[c] = memory[c] /\ (c \in pool' => c \in pool)
    BY <1>4, <2>1, <2>2, Put, Zenon DEF InUse
  <2>4. \A c \in Buffers : InUse(c) /\ c # data.in =>
          memory'[c] = memory[c] /\ c \notin pool'
    BY <2>2, <2>3 DEF InUse
  <2> QED
    BY <1>2, <1>3, <2>3, <2>4, NothingIn, CoreStep
<1>6. CASE data.in \notin Buffers
  <2>1. memory' = memory /\ pool' = pool
    BY <1>1, <1>6 DEF Returns
  <2>2. UNCHANGED goVars
    BY <1>2, <2>1 DEF goVars
  <2> QED
    BY <1>2, <1>3, <2>2, NothingIn, LoopStep
<1> QED
  BY <1>5, <1>6

\* The place of a fetcher and what follows from it.
LEMMA At ==
  ASSUME IInv, NEW f \in Fetchers
  PROVE  /\ PlaceOK(fetch[f]) /\ SentOK(fetch[f], memory)
         /\ \A b \in Buffers : Holds(fetch[f], b) =>
              /\ InUse(b) /\ data.in # b
              /\ \A g \in Fetchers \ {f} : ~Holds(fetch[g], b)
<1>1. PlaceOK(fetch[f]) /\ SentOK(fetch[f], memory)
  BY DEF IInv, FetchOK
<1>2. OwnersOK
  BY DEF IInv
<1> QED
  BY <1>1, <1>2 DEF OwnersOK

\* A buffer that nobody uses.
LEMMA Nobody ==
  ASSUME IInv, NEW b \in Buffers, ~InUse(b)
  PROVE  data.in # b /\ \A g \in Fetchers : ~Holds(fetch[g], b)
  BY DEF IInv, OwnersOK

-----------------------------------------------------------------------------
LEMMA StartsStep ==
  ASSUME IInv, NEW f \in Fetchers, FetchStarts(f)
  PROVE  IInv'
<1>1. PICK b \in Buffers :
        Gets(FetchSize, b, <<>>) /\ Goes(f, [Gone EXCEPT !.at = "read", !.own = b])
  BY DEF FetchStarts
<1>2. CoreOnly
  BY DEF FetchStarts
<1>3. PICK e : e = [at |-> "read", own |-> b, out |-> "none", reply |-> <<>>]
  OBVIOUS
<1>4. fetch' = [fetch EXCEPT ![f] = e]
  <2>1. PICK p : p = Gone
    OBVIOUS
  <2>2. p = [at |-> "none", own |-> "none", out |-> "none", reply |-> <<>>]
    BY <2>1 DEF Gone
  <2>3. PICK q : q = [p EXCEPT !.at = "read"]
    OBVIOUS
  <2>4. q = [at |-> "read", own |-> "none", out |-> "none", reply |-> <<>>]
    BY <2>2, <2>3
  <2>5. [p EXCEPT !.at = "read", !.own = b] = [q EXCEPT !.own = b]
    BY <2>3
  <2>6. [q EXCEPT !.own = b] = e
    BY <1>3, <2>4
  <2> QED
    BY <1>1, <2>1, <2>5, <2>6, Zenon DEF Goes
<1>5. PlaceOK(e) /\ SentOK(e, memory') /\ \A c : Holds(e, c) => c = b
  BY <1>3 DEF PlaceOK, SentOK, Holds
<1>6. FetchSize \in Nat \ {0}
  BY BoundsAssumption
<1>7. /\ MemoryOK' /\ ~InUse(b) /\ InUse(b)'
      /\ \A c \in Buffers \ {b} : memory'[c] = memory[c] /\ (c \in pool' => c \in pool)
  BY <1>1, <1>6, Got, Zenon
<1>8. data.in # b /\ \A g \in Fetchers : ~Holds(fetch[g], b)
  BY <1>7, Nobody
<1>9. \A c \in Buffers :
      Holds(e, c) => IF c = b THEN InUse(c)' ELSE Holds(fetch[f], c)
  BY <1>5, <1>7
<1> QED
  BY <1>2, <1>4, <1>5, <1>7, <1>8, <1>9, FetcherStep, Zenon

LEMMA ReadsStep ==
  ASSUME IInv, NEW f \in Fetchers, FetchReads(f)
  PROVE  IInv'
<1>1. PICK r \in Replies :
        /\ memory' = [memory EXCEPT ![fetch[f].own].data = r]
        /\ Goes(f, [fetch[f] EXCEPT !.at = "send", !.reply = r])
  BY DEF FetchReads
<1>2. fetch[f].at = "read" /\ pool' = pool /\ CoreOnly
  BY DEF FetchReads
<1>3. PlaceOK(fetch[f]) /\ MemoryOK
  BY At DEF IInv
<1>4. PICK b \in Buffers : b = fetch[f].own
  BY <1>2, <1>3 DEF PlaceOK
<1>5. PICK e : e = [at |-> "send", own |-> b, out |-> fetch[f].out, reply |-> r]
  OBVIOUS
<1>6. [fetch[f] EXCEPT !.at = "send", !.reply = r] = e
  <2>1. PICK p : p = fetch[f]
    OBVIOUS
  <2>2. p = [at |-> p.at, own |-> b, out |-> p.out, reply |-> p.reply]
    BY <1>3, <1>4, <2>1 DEF PlaceOK
  <2>3. e = [at |-> "send", own |-> b, out |-> p.out, reply |-> r]
    BY <1>5, <2>1
  <2>4. PICK q : q = [p EXCEPT !.at = "send"]
    OBVIOUS
  <2>5. q = [at |-> "send", own |-> b, out |-> p.out, reply |-> p.reply]
    BY <2>2, <2>4
  <2>6. [p EXCEPT !.at = "send", !.reply = r] = [q EXCEPT !.reply = r]
    BY <2>4
  <2>7. [q EXCEPT !.reply = r] = e
    BY <2>3, <2>5
  <2> QED
    BY <2>1, <2>6, <2>7
<1>7. fetch' = [fetch EXCEPT ![f] = e]
  BY <1>1, <1>6 DEF Goes
<1>8. PICK m : m = [size |-> memory[b].size, data |-> r]
  OBVIOUS
<1>9. CellOK(memory[b])
  BY <1>3 DEF MemoryOK
<1>10. CellOK(m) /\ m.size = memory[b].size /\ m.data = r
  BY <1>8, <1>9 DEF CellOK
<1>11. [memory[b] EXCEPT !.data = r] = m
  BY <1>8, <1>9 DEF CellOK
<1>12. memory' = [memory EXCEPT ![b] = m]
  BY <1>1, <1>4, <1>11
<1>13. /\ memory' = [c \in Buffers |-> memory'[c]]
       /\ memory'[b] = m
       /\ \A c \in Buffers \ {b} : memory'[c] = memory[c]
       /\ \A c \in Buffers : CellOK(memory'[c])
  BY <1>3, <1>10, <1>12, Stored, Zenon
<1>14. MemoryOK'
  <2>1. pool' \subseteq Buffers /\ \A c \in pool' : memory'[c].size >= BufSize
    BY <1>2, <1>3, <1>10, <1>13 DEF MemoryOK
  <2> QED
    BY <1>13, <2>1 DEF MemoryOK
<1>15. Holds(fetch[f], b)
  BY <1>2, <1>4 DEF Holds
<1>16. InUse(b) /\ data.in # b /\ \A g \in Fetchers \ {f} : ~Holds(fetch[g], b)
  BY <1>15, At
<1>17. InUse(b)'
  BY <1>2, <1>10, <1>13, <1>16 DEF InUse
<1>18. PlaceOK(e) /\ SentOK(e, memory')
  BY <1>5, <1>10, <1>13 DEF PlaceOK, SentOK
<1>19. \A c \in Buffers : Holds(e, c) => c = b
  <2>1. e.at = "send" /\ e.own = b
    BY <1>5
  <2>2. e.at # "out"
    BY <2>1
  <2> QED
    BY <2>1, <2>2, Zenon DEF Holds
<1>20. \A c \in Buffers :
       Holds(e, c) => IF c = b THEN InUse(c)' ELSE Holds(fetch[f], c)
  BY <1>17, <1>19
<1>21. \A c \in Buffers \ {b} :
         memory'[c] = memory[c] /\ (c \in pool' => c \in pool)
  BY <1>2, <1>13
<1> QED
  BY <1>2, <1>7, <1>14, <1>16, <1>18, <1>20, <1>21, FetcherStep, Zenon

LEMMA OutputStep ==
  ASSUME IInv, NEW f \in Fetchers, Output(f)
  PROVE  IInv'
<1>1. PICK b \in Buffers :
        /\ Gets(Len(fetch[f].reply), b, memory[fetch[f].own].data)
        /\ Goes(f, [fetch[f] EXCEPT !.at = "out", !.out = b])
  BY DEF Output
<1>2. fetch[f].at = "send" /\ CoreOnly
  BY DEF Output
<1>3. PlaceOK(fetch[f]) /\ SentOK(fetch[f], memory)
  BY At
<1>4. PICK o \in Buffers, r \in Replies : o = fetch[f].own /\ r = fetch[f].reply
  BY <1>2, <1>3 DEF PlaceOK
<1>5. memory[o].data = r
  BY <1>2, <1>3, <1>4 DEF SentOK
<1>6. PICK e : e = [at |-> "out", own |-> o, out |-> b, reply |-> r]
  OBVIOUS
<1>7. [fetch[f] EXCEPT !.at = "out", !.out = b] = e
  <2>1. PICK p : p = fetch[f]
    OBVIOUS
  <2>2. p = [at |-> p.at, own |-> o, out |-> p.out, reply |-> r]
    BY <1>3, <1>4, <2>1 DEF PlaceOK
  <2>3. PICK q : q = [p EXCEPT !.at = "out"]
    OBVIOUS
  <2>4. q = [at |-> "out", own |-> o, out |-> p.out, reply |-> r]
    BY <2>2, <2>3
  <2>5. [p EXCEPT !.at = "out", !.out = b] = [q EXCEPT !.out = b]
    BY <2>3
  <2>6. [q EXCEPT !.out = b] = e
    BY <1>6, <2>4
  <2> QED
    BY <2>1, <2>5, <2>6
<1>8. fetch' = [fetch EXCEPT ![f] = e]
  BY <1>1, <1>7 DEF Goes
<1>9. Len(r) = 1 /\ \A n \in Nat \ {0} : First(r, n) = r
  BY WholeReply
<1>10. Gets(Len(r), b, r) /\ Len(r) \in Nat \ {0}
  BY <1>1, <1>4, <1>5, <1>9
<1>11. /\ MemoryOK' /\ ~InUse(b) /\ InUse(b)'
       /\ \A c \in Buffers \ {b} : memory'[c] = memory[c] /\ (c \in pool' => c \in pool)
       /\ memory'[b].data = First(r, memory'[b].size)
  BY <1>10, Got, Zenon
<1>12. memory'[b].size \in Nat \ {0}
  BY <1>11 DEF MemoryOK, CellOK, InUse
<1>13. memory'[b].data = r
  BY <1>9, <1>11, <1>12
<1>14. data.in # b /\ \A g \in Fetchers : ~Holds(fetch[g], b)
  BY <1>11, Nobody, Zenon
<1>15. Holds(fetch[f], o)
  BY <1>2, <1>4 DEF Holds
<1>16. o # b
  BY <1>4, <1>14, <1>15
<1>17. PlaceOK(e) /\ SentOK(e, memory')
  BY <1>6, <1>13, <1>16 DEF PlaceOK, SentOK
<1>18. \A c \in Buffers : Holds(e, c) => c = b \/ c = o
  <2>1. e.own = o /\ e.out = b
    BY <1>6
  <2> QED
    BY <2>1, Zenon DEF Holds
<1>19. \A c \in Buffers :
       Holds(e, c) => IF c = b THEN InUse(c)' ELSE Holds(fetch[f], c)
  BY <1>11, <1>15, <1>18
<1>20. \A g \in Fetchers \ {f} : ~Holds(fetch[g], b)
  BY <1>14
<1> QED
  BY <1>2, <1>8, <1>11, <1>14, <1>17, <1>19, <1>20, FetcherStep, Zenon

LEMMA ReturnsStep ==
  ASSUME IInv, NEW f \in Fetchers, OutputReturns(f)
  PROVE  IInv'
<1>1. fetch[f].at = "out" /\ CoreOnly /\ Puts(fetch[f].out)
  BY DEF OutputReturns
<1>2. PlaceOK(fetch[f]) /\ MemoryOK
  BY At DEF IInv
<1>3. PICK o \in Buffers, b \in Buffers :
        o = fetch[f].own /\ b = fetch[f].out /\ b # o
  BY <1>1, <1>2 DEF PlaceOK
<1>4. PICK e : e = [at |-> "read", own |-> o, out |-> "none", reply |-> <<>>]
  OBVIOUS
<1>5. [fetch[f] EXCEPT !.at = "read", !.out = "none", !.reply = <<>>] = e
  <2>1. PICK p : p = fetch[f]
    OBVIOUS
  <2>2. p = [at |-> p.at, own |-> o, out |-> p.out, reply |-> p.reply]
    BY <1>2, <1>3, <2>1 DEF PlaceOK
  <2>3. PICK q : q = [p EXCEPT !.at = "read"]
    OBVIOUS
  <2>4. q = [at |-> "read", own |-> o, out |-> p.out, reply |-> p.reply]
    BY <2>2, <2>3
  <2>5. PICK w : w = [q EXCEPT !.out = "none"]
    OBVIOUS
  <2>6. w = [at |-> "read", own |-> o, out |-> "none", reply |-> p.reply]
    BY <2>4, <2>5
  <2>7. [p EXCEPT !.at = "read", !.out = "none", !.reply = <<>>]
          = [w EXCEPT !.reply = <<>>]
    BY <2>3, <2>5
  <2>8. [w EXCEPT !.reply = <<>>] = e
    BY <1>4, <2>6
  <2> QED
    BY <2>1, <2>7, <2>8
<1>6. fetch' = [fetch EXCEPT ![f] = e]
  BY <1>5 DEF OutputReturns, Goes
<1>7. Holds(fetch[f], o) /\ Holds(fetch[f], b)
  BY <1>1, <1>3 DEF Holds
<1>8. InUse(b) /\ data.in # b /\ \A g \in Fetchers \ {f} : ~Holds(fetch[g], b)
  BY <1>7, At
<1>9. /\ MemoryOK'
      /\ \A c \in Buffers \ {b} : memory'[c] = memory[c] /\ (c \in pool' => c \in pool)
  BY <1>1, <1>2, <1>3, <1>8, Put, Zenon DEF InUse
<1>10. PlaceOK(e) /\ SentOK(e, memory')
  BY <1>4 DEF PlaceOK, SentOK
<1>11. \A c \in Buffers : Holds(e, c) => c = o
  <2>1. e.at = "read" /\ e.own = o
    BY <1>4
  <2>2. e.at # "out"
    BY <2>1
  <2> QED
    BY <2>1, <2>2, Zenon DEF Holds
<1>12. \A c \in Buffers :
       Holds(e, c) => IF c = b THEN InUse(c)' ELSE Holds(fetch[f], c)
  BY <1>3, <1>7, <1>11
<1> QED
  BY <1>1, <1>6, <1>8, <1>9, <1>10, <1>12, FetcherStep, Zenon

LEMMA EndsStep ==
  ASSUME IInv, NEW f \in Fetchers, FetchEnds(f)
  PROVE  IInv'
<1>1. fetch[f].at = "read" /\ CoreOnly /\ Puts(fetch[f].own)
  BY DEF FetchEnds
<1>2. PlaceOK(fetch[f]) /\ MemoryOK
  BY At DEF IInv
<1>3. PICK b \in Buffers : b = fetch[f].own
  BY <1>1, <1>2 DEF PlaceOK
<1>4. fetch' = [fetch EXCEPT ![f] = Gone]
  BY DEF FetchEnds, Goes
<1>5. Holds(fetch[f], b)
  BY <1>1, <1>3 DEF Holds
<1>6. InUse(b) /\ data.in # b /\ \A g \in Fetchers \ {f} : ~Holds(fetch[g], b)
  BY <1>5, At
<1>7. /\ MemoryOK'
      /\ \A c \in Buffers \ {b} : memory'[c] = memory[c] /\ (c \in pool' => c \in pool)
  BY <1>1, <1>2, <1>3, <1>6, Put, Zenon DEF InUse
<1>8. PlaceOK(Gone) /\ SentOK(Gone, memory') /\ \A c : ~Holds(Gone, c)
  BY DEF Gone, PlaceOK, SentOK, Holds
<1> QED
  BY <1>1, <1>4, <1>6, <1>7, <1>8, FetcherStep

LEMMA Inductive == IInv /\ [Next]_vars => IInv'
<1> SUFFICES ASSUME IInv, [Next]_vars PROVE IInv'
  OBVIOUS
<1>1. CASE UNCHANGED vars
  <2>1. UNCHANGED goVars /\ data' = data /\ refused' = refused /\ at' = at
    BY <1>1 DEF vars, lwipVars
  <2>2. refused.in \notin Buffers /\ (at = "retry" => data.in \notin Buffers)
    BY DEF IInv, OwnersOK
  <2> QED
    BY <2>1, <2>2, LoopStep
<1>2. ASSUME NEW f \in Fetchers,
             \/ FetchStarts(f) \/ FetchReads(f) \/ Output(f)
             \/ OutputReturns(f) \/ FetchEnds(f)
      PROVE  IInv'
  BY <1>2, StartsStep, ReadsStep, OutputStep, ReturnsStep, EndsStep, Zenon
<1>3. ASSUME \/ ReadTun \/ InputWhole \/ InputRefused
             \/ InputFragmentDropped \/ InputFragmentQueued
             \/ ReassTimer \/ TcpRetry \/ Connected \/ DrainPending
      PROVE  IInv'
  BY <1>3, LoopSteps, Zenon
<1>4. ASSUME InputFragmentFinishes PROVE IInv'
  BY <1>4, FinishStep
<1>5. ASSUME EnqueueEarlyPacket \/ ReceiveTo \/ Receive PROVE IInv'
  BY <1>5, ReturnStep
<1> QED
  BY <1>1, <1>2, <1>3, <1>4, <1>5, Zenon DEF Next

LEMMA Invariant == Spec => []IInv
  BY Initial, Inductive, PTL DEF Spec

-----------------------------------------------------------------------------
\* Nobody ever gets from NewBytes a buffer that a fetcher, output() or udpRecvFn has
\* not put back yet, and nobody puts one back twice (core/buffer_pool.go).
THEOREM OneOwner == Spec => []OwnersOK
<1>1. IInv => OwnersOK
  BY DEF IInv
<1> QED
  BY <1>1, Invariant, PTL

\* So what output() gives to the TUN device is the reply that fetchUDPInput read,
\* with whatever other goroutines the pool is shared (output, core/output_export.go).
THEOREM Sent == Spec => []SentIntact
<1>1. IInv => SentIntact
  BY DEF IInv, FetchOK, SentOK, SentIntact
<1> QED
  BY <1>1, Invariant, PTL

-----------------------------------------------------------------------------
(* Lists with entries left out.                                            *)

Increasing(f, n) == \A k, l \in 1..n : k < l => f[k] < f[l]
Enumerates(f, n, J) == f \in [1..n -> J] /\ Increasing(f, n)
Covers(f, n, J) == \A j \in J : \E k \in 1..n : f[k] = j

\* The numbers of a set have an order.
Ordered(J) ==
  IsFiniteSet(J) /\ Cardinality(J) \in Nat /\ \E f : Enumerates(f, Cardinality(J), J)

LEMMA OrderedNone == Ordered({})
<1>1. IsFiniteSet({}) /\ Cardinality({}) = 0
  BY FS_EmptySet
<1>2. PICK f : f = [i \in 1..0 |-> i]
  OBVIOUS
<1>3. f \in [1..0 -> {}]
  BY <1>2
<1>4. Increasing(f, 0)
  BY DEF Increasing
<1>5. Enumerates(f, 0, {})
  BY <1>3, <1>4 DEF Enumerates
<1> QED
  BY <1>1, <1>5 DEF Ordered

LEMMA OrderedMore ==
  ASSUME NEW m \in Nat, NEW U, Ordered(U), U \subseteq 1..m, NEW x, x = m + 1
  PROVE  Ordered(U \cup {x})
<1>0. PICK c \in Nat : /\ c = Cardinality(U) /\ IsFiniteSet(U)
                       /\ \E f : Enumerates(f, c, U)
  BY DEF Ordered
<1>1. PICK f : c = Cardinality(U) /\ IsFiniteSet(U) /\ Enumerates(f, c, U)
  BY <1>0
<1>2. PICK V, d : V = U \cup {x} /\ d = c + 1
  OBVIOUS
<1>3. IsFiniteSet(V) /\ Cardinality(V) = d
  <2>1. x \notin U
    OBVIOUS
  <2> QED
    BY <1>1, <1>2, <2>1, FS_AddElement
<1>4. PICK g : g = [k \in 1..d |-> IF k = d THEN x ELSE f[k]]
  OBVIOUS
<1>5. f \in [1..c -> U] /\ \A k, l \in 1..c : k < l => f[k] < f[l]
  BY <1>1 DEF Enumerates, Increasing
<1>6. g[d] = x
  BY <1>2, <1>4
<1>7. \A k \in 1..d : k # d => k \in 1..c /\ g[k] = f[k] /\ g[k] \in U
  BY <1>2, <1>4, <1>5
<1>8. g \in [1..d -> V]
  <2>1. \A k \in 1..d : g[k] \in V
    BY <1>2, <1>6, <1>7
  <2> QED
    BY <1>4, <2>1
<1>9. ASSUME NEW k \in 1..d, NEW l \in 1..d, k < l
      PROVE  g[k] < g[l]
  <2>1. k # d
    BY <1>2, <1>9
  <2>2. CASE l = d
    <3>1. g[k] \in 1..m
      BY <1>7, <2>1
    <3> QED
      BY <1>6, <2>2, <3>1
  <2>3. CASE l # d
    BY <1>5, <1>7, <1>9, <2>1, <2>3
  <2> QED
    BY <2>2, <2>3
<1>10. Enumerates(g, d, V)
  BY <1>8, <1>9 DEF Enumerates, Increasing
<1> QED
  <2>1. d \in Nat
    BY <1>2
  <2> QED
    BY <1>2, <1>3, <1>10, <2>1 DEF Ordered

LEMMA OrderedAll ==
  ASSUME NEW n \in Nat, NEW I, I \subseteq 1..n
  PROVE  Ordered(I)
<1> DEFINE Up(m) == I \cap (1..m)
           Done  == {m \in 0..n : Ordered(Up(m))}
<1>1. 0 \in Done
  <2>1. Up(0) = {}
    OBVIOUS
  <2>2. Ordered(Up(0))
    BY <2>1, OrderedNone
  <2> QED
    BY <2>2
<1>2. ASSUME NEW m \in 0..n, m \in Done, m < n
      PROVE  m + 1 \in Done
  <2>1. PICK x : x = m + 1
    OBVIOUS
  <2>2. Ordered(Up(m)) /\ Up(m) \subseteq 1..m /\ m \in Nat
    BY <1>2
  <2>3. Up(x) = Up(m) \/ Up(x) = Up(m) \cup {x}
    BY <1>2, <2>1
  <2>4. Ordered(Up(x))
    <3> HIDE DEF Up
    <3>1. Ordered(Up(m) \cup {x})
      BY <2>1, <2>2, OrderedMore
    <3> QED
      BY <2>2, <2>3, <3>1
  <2> QED
    BY <1>2, <2>1, <2>4
<1>3. n \in Done
  <2> HIDE DEF Done
  <2> QED
    BY <1>1, <1>2, Induction
<1>4. Up(n) = I
  OBVIOUS
<1> QED
  BY <1>3, <1>4

\* Each is there.
LEMMA EnumeratesAll ==
  ASSUME NEW I, Ordered(I), NEW c \in Nat, c = Cardinality(I), NEW f, Enumerates(f, c, I),
         I \subseteq Nat
  PROVE  Covers(f, c, I)
<1>1. IsFiniteSet(I)
  BY DEF Ordered
<1>2. IsFiniteSet(1..c) /\ Cardinality(1..c) = c
  BY <1>1, FS_Interval
<1>3. f \in [1..c -> I] /\ \A k, l \in 1..c : k < l => f[k] < f[l]
  BY DEF Enumerates, Increasing
<1>4. ASSUME NEW k \in 1..c, NEW l \in 1..c, f[k] = f[l]
      PROVE  k = l
  <2>1. f[k] \in Nat /\ (k < l => f[k] < f[l]) /\ (l < k => f[l] < f[k])
    BY <1>3
  <2> QED
    BY <1>4, <2>1
<1>5. f \in Injection(1..c, I)
  BY <1>3, <1>4, Zenon DEF Injection, IsInjective
<1>6. f \in Surjection(1..c, I)
  <2>1. Cardinality(1..c) = Cardinality(I) <=> f \in Surjection(1..c, I)
    BY <1>1, <1>5, FS_Injection
  <2> QED
    BY <1>1, <1>2, <2>1
<1> QED
  BY <1>6 DEF Surjection, Covers

Selects(t, list, I, f, c) ==
  /\ c \in Nat /\ Enumerates(f, c, I) /\ Covers(f, c, I)
  /\ t = [k \in 1..c |-> list[f[k]]]

LEMMA SelectedIs ==
  ASSUME NEW n \in Nat, NEW I, I \subseteq 1..n, NEW list
  PROVE  \E f, c : Selects(Selected(list, I), list, I, f, c)
<1>1. PICK c : c = Cardinality(I)
  OBVIOUS
<1>2. Ordered(I) /\ I \subseteq Nat
  <2>1. Ordered(I)
    BY OrderedAll, Zenon
  <2>2. I \subseteq Nat
    OBVIOUS
  <2> QED
    BY <2>1, <2>2
<1>3. c \in Nat /\ \E g : Enumerates(g, c, I)
  BY <1>1, <1>2 DEF Ordered
<1>4. PICK f : f = CHOOSE g \in [1..c -> I] : \A k, l \in 1..c : k < l => g[k] < g[l]
  OBVIOUS
<1>5. Enumerates(f, c, I)
  BY <1>3, <1>4 DEF Enumerates, Increasing
<1>6. Covers(f, c, I)
  BY <1>1, <1>2, <1>3, <1>5, EnumeratesAll
<1>7. Selected(list, I) = [k \in 1..c |-> list[f[k]]]
  BY <1>1, <1>4 DEF Selected
<1> QED
  BY <1>3, <1>5, <1>6, <1>7 DEF Selects

\* A datagram has one entry.
Distinct(list) == \A i, j \in DOMAIN list : list[i].id = list[j].id => i = j

LEMMA SelectedKeeps ==
  ASSUME NEW S, NEW list \in Seq(S), NEW I, I \subseteq DOMAIN list
  PROVE  /\ Selected(list, I) \in Seq(S)
         /\ ToSet(Selected(list, I)) = {list[i] : i \in I}
         /\ Distinct(list) => Distinct(Selected(list, I))
<1>1. PICK n : n = Len(list)
  OBVIOUS
<1>2. /\ n \in Nat /\ DOMAIN list = 1..n /\ \A i \in 1..n : list[i] \in S
      /\ I \subseteq 1..n
  BY <1>1
<1>10. PICK f, c : Selects(Selected(list, I), list, I, f, c)
  BY <1>2, SelectedIs
<1>3. \A k \in 1..c : f[k] \in I /\ f[k] \in 1..n
  BY <1>2, <1>10 DEF Selects, Enumerates
<1>4. PICK t : t = [k \in 1..c |-> list[f[k]]]
  OBVIOUS
<1>5. t \in Seq(S) /\ DOMAIN t = 1..c
  BY <1>2, <1>3, <1>4, <1>10 DEF Selects
<1>6. ToSet(t) = {list[i] : i \in I}
  <2>1. ToSet(t) = {t[k] : k \in 1..c}
    BY <1>5 DEF ToSet
  <2>2. \A k \in 1..c : t[k] = list[f[k]]
    BY <1>4
  <2>3. \A i \in I : \E k \in 1..c : t[k] = list[i]
    BY <1>10, <2>2 DEF Selects, Covers
  <2> QED
    BY <1>3, <2>1, <2>2, <2>3
<1>7. ASSUME Distinct(list), NEW k \in 1..c, NEW l \in 1..c, t[k].id = t[l].id
      PROVE  k = l
  <2>1. f[k] = f[l]
    BY <1>2, <1>3, <1>4, <1>7 DEF Distinct
  <2>2. f[k] \in Nat /\ (k < l => f[k] < f[l]) /\ (l < k => f[l] < f[k])
    BY <1>3, <1>10 DEF Selects, Enumerates, Increasing
  <2> QED
    BY <2>1, <2>2
<1>8. Distinct(list) => Distinct(t)
  BY <1>5, <1>7 DEF Distinct
<1> QED
  BY <1>4, <1>5, <1>6, <1>8, <1>10 DEF Selects

-----------------------------------------------------------------------------
(* How many pbufs are queued.                                              *)

Fragments ==
  [in : {"pbuf"}, pkt : UNION {{Packet(id, c[1], c[2]) : c \in Cuts(id)} : id \in Udp4}]

Framed(E) == IsFiniteSet(E) /\ \A e \in E : e.frags \in Seq(Fragments)

PairsOf(E) == UNION { {e.id} \X DOMAIN e.frags : e \in E }

LEMMA PairsFinite ==
  ASSUME NEW E, Framed(E)
  PROVE  /\ IsFiniteSet(PairsOf(E)) /\ PbufsOf(E) \in Nat
         /\ PbufsOf(E) = Cardinality(PairsOf(E))
<1>1. PICK T, f : /\ T = { {e.id} \X DOMAIN e.frags : e \in E }
                  /\ f = [e \in E |-> {e.id} \X DOMAIN e.frags]
  OBVIOUS
<1>2. f \in Surjection(E, T)
  BY <1>1 DEF Surjection
<1>3. IsFiniteSet(T)
  BY <1>2, FS_Surjection DEF Framed
<1>4. ASSUME NEW e \in E
      PROVE  IsFiniteSet({e.id} \X DOMAIN e.frags)
  <2>1. PICK n \in Nat : n = Len(e.frags)
    BY DEF Framed
  <2>2. DOMAIN e.frags = 1..n
    BY <2>1 DEF Framed
  <2>3. IsFiniteSet(1..n)
    BY FS_Interval
  <2>4. IsFiniteSet({e.id})
    BY FS_Singleton, Zenon
  <2> QED
    BY <2>2, <2>3, <2>4, FS_Product
<1>5. \A t \in T : IsFiniteSet(t)
  BY <1>1, <1>4
<1>6. IsFiniteSet(UNION T)
  BY <1>3, <1>5, FS_UNION
<1>7. IsFiniteSet(PairsOf(E))
  BY <1>1, <1>6 DEF PairsOf
<1>8. PbufsOf(E) = Cardinality(PairsOf(E))
  BY DEF PbufsOf, PairsOf
<1> QED
  BY <1>7, <1>8, FS_CardinalityType

LEMMA PbufsSplit ==
  ASSUME NEW A, NEW B, Framed(A), Framed(B), \A a \in A, b \in B : a.id # b.id
  PROVE  Framed(A \cup B) /\ PbufsOf(A \cup B) = PbufsOf(A) + PbufsOf(B)
<1>1. Framed(A \cup B)
  <2>1. IsFiniteSet(A) /\ IsFiniteSet(B)
    BY DEF Framed
  <2>2. IsFiniteSet(A \cup B)
    BY <2>1, FS_Union
  <2>3. \A e \in A \cup B : e.frags \in Seq(Fragments)
    BY DEF Framed
  <2> QED
    BY <2>2, <2>3 DEF Framed
<1>2. PairsOf(A \cup B) = PairsOf(A) \cup PairsOf(B)
  BY DEF PairsOf
<1>3. PairsOf(A) \cap PairsOf(B) = {}
  BY DEF PairsOf
<1>4. PICK P, Q : P = PairsOf(A) /\ Q = PairsOf(B)
  OBVIOUS
<1>5. IsFiniteSet(P) /\ IsFiniteSet(Q) /\ PbufsOf(A) = Cardinality(P)
      /\ PbufsOf(B) = Cardinality(Q) /\ PbufsOf(A \cup B) = Cardinality(P \cup Q)
      /\ PbufsOf(A) \in Nat /\ PbufsOf(B) \in Nat
  BY <1>1, <1>2, <1>4, PairsFinite
<1>6. Cardinality(P \cup Q) = Cardinality(P) + Cardinality(Q) - Cardinality(P \cap Q)
  BY <1>5, FS_Union
<1>7. Cardinality(P \cap Q) = 0
  BY <1>3, <1>4, FS_EmptySet
<1> QED
  BY <1>1, <1>5, <1>6, <1>7

LEMMA PbufsOne ==
  ASSUME NEW e, e.frags \in Seq(Fragments)
  PROVE  Framed({e}) /\ PbufsOf({e}) = Len(e.frags)
<1>1. Framed({e})
  <2>1. IsFiniteSet({e})
    BY FS_Singleton, Zenon
  <2> QED
    BY <2>1 DEF Framed
<1>2. PICK n \in Nat : n = Len(e.frags)
  OBVIOUS
<1>3. PairsOf({e}) = {e.id} \X (1..n)
  <2>1. DOMAIN e.frags = 1..n
    BY <1>2
  <2> QED
    BY <2>1 DEF PairsOf
<1>4. IsFiniteSet(1..n) /\ Cardinality(1..n) = n
  BY FS_Interval
<1>5. IsFiniteSet({e.id}) /\ Cardinality({e.id}) = 1
  BY FS_Singleton, Zenon
<1>6. Cardinality({e.id} \X (1..n)) = Cardinality({e.id}) * Cardinality(1..n)
  BY <1>4, <1>5, FS_Product
<1>7. PbufsOf({e}) = Cardinality(PairsOf({e}))
  BY <1>1, PairsFinite
<1>8. Cardinality(PairsOf({e})) = 1 * n
  BY <1>3, <1>4, <1>5, <1>6
<1> QED
  BY <1>1, <1>2, <1>7, <1>8

LEMMA FramedPart ==
  ASSUME NEW E, Framed(E), NEW D, D \subseteq E
  PROVE  Framed(D)
<1>1. IsFiniteSet(E) /\ \A e \in E : e.frags \in Seq(Fragments)
  BY DEF Framed
<1>2. IsFiniteSet(D)
  BY <1>1, FS_Subset
<1> QED
  BY <1>1, <1>2 DEF Framed

LEMMA FramedList ==
  ASSUME NEW S, NEW list \in Seq(S), \A e \in S : e.frags \in Seq(Fragments)
  PROVE  Framed(ToSet(list))
<1>1. PICK n \in Nat : n = Len(list)
  OBVIOUS
<1>2. list \in Surjection(1..n, ToSet(list))
  <2>1. list \in [1..n -> S]
    BY <1>1
  <2>2. ToSet(list) = {list[i] : i \in 1..n}
    BY <2>1 DEF ToSet
  <2>3. list \in [1..n -> ToSet(list)]
    BY <2>1, <2>2
  <2>4. \A t \in ToSet(list) : \E i \in 1..n : list[i] = t
    BY <2>2
  <2> QED
    BY <2>3, <2>4 DEF Surjection
<1>3. IsFiniteSet(1..n)
  BY FS_Interval
<1>4. IsFiniteSet(ToSet(list))
  BY <1>2, <1>3, FS_Surjection
<1>5. \A e \in ToSet(list) : e \in S
  <2>1. \A i \in DOMAIN list : list[i] \in S
    OBVIOUS
  <2> QED
    BY <2>1 DEF ToSet
<1> QED
  BY <1>4, <1>5 DEF Framed

-----------------------------------------------------------------------------
(* Packets and their fragments.                                            *)

LEMMA UnitsType == \A id : Units(id) \in Nat /\ Units(id) > 0
  BY BoundsAssumption DEF Units

LEMMA PacketIs ==
  ASSUME NEW id, NEW off \in Nat, NEW n \in Nat, off + n <= Units(id),
         NEW pkt, pkt = Packet(id, off, n)
  PROVE  /\ pkt.id = id /\ pkt.off = off /\ End(pkt) = off + n
         /\ pkt.data = SubSeq(Datagram(id), off + 1, off + n)
<1>1. PICK u \in Nat : u = Units(id)
  BY UnitsType
<1>2. PICK d : d = Datagram(id)
  OBVIOUS
<1>3. d \in Seq({<<id, i>> : i \in 1..u}) /\ Len(d) = u
  BY <1>1, <1>2 DEF Datagram
<1>4. pkt.id = id /\ pkt.off = off /\ pkt.data = SubSeq(d, off + 1, off + n)
  BY <1>2 DEF Packet
<1>5. Len(SubSeq(d, off + 1, off + n)) = n
  BY <1>1, <1>3
<1> QED
  BY <1>2, <1>4, <1>5 DEF End

\* The fragments a datagram may come in.
FragmentsOf(id) == {Packet(id, c[1], c[2]) : c \in Cuts(id)}

LEMMA FragmentIs ==
  ASSUME NEW id, NEW pkt \in FragmentsOf(id)
  PROVE  /\ pkt.id = id /\ pkt.off \in Nat /\ End(pkt) \in Nat
         /\ pkt.off < End(pkt) /\ End(pkt) <= Units(id)
         /\ pkt.data = SubSeq(Datagram(id), pkt.off + 1, End(pkt))
<1>1. PICK c \in Cuts(id) : pkt = Packet(id, c[1], c[2])
  BY DEF FragmentsOf
<1>2. PICK off \in Nat, n \in Nat : off = c[1] /\ n = c[2] /\ n > 0 /\ off + n <= Units(id)
  <2>1. PICK u \in Nat : u = Units(id)
    BY UnitsType
  <2>2. c \in (0..(u - 1)) \X (1..u) /\ c[1] + c[2] <= u
    <3>1. c \in (0..(Units(id) - 1)) \X (1..Units(id)) /\ c[1] + c[2] <= Units(id)
      BY DEF Cuts
    <3> QED
      BY <2>1, <3>1
  <2>3. c[1] \in 0..(u - 1) /\ c[2] \in 1..u
    BY <2>2
  <2>4. PICK off, n : off = c[1] /\ n = c[2]
    OBVIOUS
  <2>5. off \in Nat /\ n \in Nat /\ n > 0 /\ off + n <= Units(id)
    BY <2>1, <2>2, <2>3, <2>4
  <2> QED
    BY <2>4, <2>5
<1>3. pkt = Packet(id, off, n)
  BY <1>1, <1>2
<1>4. /\ pkt.id = id /\ pkt.off = off /\ End(pkt) = off + n
      /\ pkt.data = SubSeq(Datagram(id), off + 1, off + n)
  <2>1. off + n <= Units(id)
    BY <1>2
  <2> QED
    BY <1>3, <2>1, PacketIs
<1>5. off + n <= Units(id) /\ off < off + n /\ off + n \in Nat
  <2>1. n > 0 /\ off + n <= Units(id)
    BY <1>2
  <2> QED
    BY <2>1
<1> QED
  BY <1>4, <1>5

\* What ip4_input takes for a fragment is one, and what it does not is whole.
LEMMA TunIs ==
  ASSUME tun \in Packets
  PROVE  /\ tun.id \in Ids
         /\ IsFragment => tun \in FragmentsOf(tun.id) /\ tun.id \in Udp4
         /\ ~IsFragment => tun.data = Datagram(tun.id)
<1>1. CASE \E id \in Ids : tun = Packet(id, 0, Units(id))
  <2>1. PICK id \in Ids : tun = Packet(id, 0, Units(id))
    BY <1>1
  <2>2. PICK u \in Nat : u = Units(id)
    BY UnitsType
  <2>3. /\ tun.id = id /\ tun.off = 0 /\ End(tun) = u
        /\ tun.data = SubSeq(Datagram(id), 1, u)
    BY <2>1, <2>2, PacketIs
  <2>4. SubSeq(Datagram(id), 1, u) = Datagram(id)
    <3>1. PICK d : d = Datagram(id)
      OBVIOUS
    <3>2. d \in Seq({<<id, i>> : i \in 1..u}) /\ Len(d) = u
      BY <2>2, <3>1 DEF Datagram
    <3>3. SubSeq(d, 1, u) = d
      BY <3>2
    <3> QED
      BY <3>1, <3>3
  <2>5. ~IsFragment
    BY <2>2, <2>3 DEF IsFragment
  <2> QED
    BY <2>3, <2>4, <2>5
<1>2. CASE \E id \in Udp4 : tun \in FragmentsOf(id)
  <2>1. PICK id \in Udp4 : tun \in FragmentsOf(id)
    BY <1>2
  <2>2. PICK u \in Nat : u = Units(id)
    BY UnitsType
  <2>3. /\ tun.id = id /\ tun.off \in Nat /\ End(tun) \in Nat /\ End(tun) <= u
        /\ tun.data = SubSeq(Datagram(id), tun.off + 1, End(tun))
    BY <2>1, <2>2, FragmentIs
  <2>4. tun.id \in Ids
    BY <2>3 DEF Ids
  <2>5. ASSUME ~IsFragment PROVE tun.data = Datagram(tun.id)
    <3>1. tun.off = 0 /\ End(tun) = u
      BY <2>2, <2>3, <2>5 DEF IsFragment
    <3>2. PICK d : d = Datagram(id)
      OBVIOUS
    <3>3. d \in Seq({<<id, i>> : i \in 1..u}) /\ Len(d) = u
      BY <2>2, <3>2 DEF Datagram
    <3>4. SubSeq(d, 0 + 1, u) = d
      BY <3>3
    <3> QED
      BY <2>3, <3>1, <3>2, <3>4
  <2> QED
    BY <2>1, <2>3, <2>4, <2>5
<1> QED
  BY <1>1, <1>2 DEF Packets, FragmentsOf

LEMMA Kinds == \A id \in Udp4 : id \notin Tcp /\ id \notin Udp6
  BY KindsAssumption

\* input() copies every fragment.
LEMMA FragmentCopied ==
  ASSUME tun \in Packets, IsFragment
  PROVE  Fragment(tun) \in Fragments /\ Fragment(tun).pkt = tun
<1>1. tun \in FragmentsOf(tun.id) /\ tun.id \in Udp4
  BY TunIs
<1>2. tun.off \in Nat
  BY <1>1, FragmentIs
<1>3. ~Referenced(tun)
  BY <1>1, <1>2, Kinds DEF Referenced, MoreFrags, FragOffset, IsFragment
<1>4. Fragment(tun) = [in |-> "pbuf", pkt |-> tun]
  BY <1>3 DEF Fragment, Pbuf
<1>5. tun \in UNION {FragmentsOf(id) : id \in Udp4}
  BY <1>1
<1> QED
  BY <1>4, <1>5 DEF Fragments, FragmentsOf

-----------------------------------------------------------------------------
(* The list of ip4_reass.                                                  *)

Entries == [id : Udp4, timer : 0..MaxAge, last : BOOLEAN, frags : Seq(Fragments)]

\* The fragments of an entry are its datagram's, in their order and without overlap,
\* and `last` was set by one of them.
InPlace(e) ==
  /\ e.frags # <<>>
  /\ \A i \in DOMAIN e.frags : e.frags[i].pkt \in FragmentsOf(e.id)
  /\ \A i, j \in DOMAIN e.frags : i < j => End(e.frags[i].pkt) <= e.frags[j].pkt.off
  /\ e.last => \E i \in DOMAIN e.frags : End(e.frags[i].pkt) = Units(e.id)

\* The list has an entry of each datagram, and its fragments are n pbufs.
ListOK(list, n) ==
  /\ list \in Seq(Entries) /\ \A e \in ToSet(list) : InPlace(e)
  /\ Distinct(list) /\ n = PbufsOf(ToSet(list))

LEMMA ListIs ==
  ASSUME NEW list, NEW n, ListOK(list, n)
  PROVE  /\ Framed(ToSet(list)) /\ n \in Nat
         /\ \A e \in ToSet(list) : e \in Entries /\ InPlace(e)
<1>1. list \in Seq(Entries) /\ n = PbufsOf(ToSet(list))
      /\ \A e \in ToSet(list) : InPlace(e)
  BY DEF ListOK
<1>2. \A e \in Entries : e.frags \in Seq(Fragments)
  BY DEF Entries
<1>3. Framed(ToSet(list))
  BY <1>1, <1>2, FramedList
<1>4. \A e \in ToSet(list) : e \in Entries
  <2>1. \A i \in DOMAIN list : list[i] \in Entries
    BY <1>1
  <2> QED
    BY <2>1 DEF ToSet
<1> QED
  BY <1>1, <1>3, <1>4, PairsFinite

\* Entries are taken out.
LEMMA ListKeeps ==
  ASSUME NEW list, NEW n, ListOK(list, n), NEW I, I \subseteq DOMAIN list,
         NEW m, m = PbufsOf({list[i] : i \in DOMAIN list \ I})
  PROVE  ListOK(Selected(list, I), n - m) /\ m \in Nat /\ n - m \in Nat /\ n - m <= n
<1>1. list \in Seq(Entries) /\ Distinct(list) /\ n = PbufsOf(ToSet(list))
  BY DEF ListOK
<1>2. PICK A, B : A = {list[i] : i \in I} /\ B = {list[i] : i \in DOMAIN list \ I}
  OBVIOUS
<1>3. PICK t : t = Selected(list, I)
  OBVIOUS
<1>4. t \in Seq(Entries) /\ ToSet(t) = A /\ Distinct(t)
  BY <1>1, <1>2, <1>3, SelectedKeeps
<1>5. ToSet(list) = A \cup B
  BY <1>2 DEF ToSet
<1>6. Framed(A) /\ Framed(B)
  BY <1>5, ListIs, FramedPart
<1>7. \A a \in A, b \in B : a.id # b.id
  BY <1>1, <1>2 DEF Distinct
<1>8. PbufsOf(A \cup B) = PbufsOf(A) + PbufsOf(B)
  BY <1>6, <1>7, PbufsSplit
<1>9. PbufsOf(A) \in Nat /\ PbufsOf(B) \in Nat
  BY <1>6, PairsFinite
<1>10. n - m = PbufsOf(A) /\ m = PbufsOf(B)
  BY <1>1, <1>2, <1>5, <1>8, <1>9
<1>11. \A e \in A : InPlace(e)
  BY <1>5 DEF ListOK
<1>12. ListOK(t, n - m)
  BY <1>4, <1>10, <1>11 DEF ListOK
<1>13. n = (n - m) + m
  BY <1>1, <1>5, <1>8, <1>10
<1> QED
  BY <1>3, <1>9, <1>10, <1>12, <1>13

\* An entry is changed.
LEMMA ListReplaces ==
  ASSUME NEW list, NEW n, ListOK(list, n), NEW k \in DOMAIN list,
         NEW e \in Entries, InPlace(e), e.id = list[k].id,
         NEW t, t = [i \in DOMAIN list |-> IF list[i].id = e.id THEN e ELSE list[i]]
  PROVE  ListOK(t, n - Len(list[k].frags) + Len(e.frags))
<1>1. list \in Seq(Entries) /\ Distinct(list) /\ n = PbufsOf(ToSet(list))
  BY DEF ListOK
<1>2. PICK A, d : A = {list[i] : i \in DOMAIN list \ {k}} /\ d = list[k]
  OBVIOUS
<1>3. \A i \in DOMAIN list : t[i] = IF i = k THEN e ELSE list[i]
  BY <1>1 DEF Distinct
<1>4. t \in Seq(Entries) /\ DOMAIN t = DOMAIN list
  BY <1>1
<1>5. ToSet(list) = A \cup {d} /\ ToSet(t) = A \cup {e}
  BY <1>2, <1>3, <1>4 DEF ToSet
<1>6. d \in Entries /\ d.id = e.id
  BY <1>1, <1>2
<1>7. Framed(A)
  BY <1>5, ListIs, FramedPart
<1>8. \A a \in A : a.id # e.id
  BY <1>1, <1>2 DEF Distinct
<1>9. Distinct(t)
  BY <1>1, <1>3, <1>4 DEF Distinct
<1>10. /\ Framed({d}) /\ PbufsOf({d}) = Len(d.frags) /\ Len(d.frags) \in Nat
       /\ Framed({e}) /\ PbufsOf({e}) = Len(e.frags) /\ Len(e.frags) \in Nat
  <2>1. d.frags \in Seq(Fragments) /\ e.frags \in Seq(Fragments)
    BY <1>6 DEF Entries
  <2>2. Len(d.frags) \in Nat /\ Len(e.frags) \in Nat
    BY <2>1
  <2>3. Framed({d}) /\ PbufsOf({d}) = Len(d.frags)
    BY <2>1, PbufsOne
  <2>4. Framed({e}) /\ PbufsOf({e}) = Len(e.frags)
    BY <2>1, PbufsOne
  <2> QED
    BY <2>2, <2>3, <2>4
<1>11. PbufsOf(A \cup {d}) = PbufsOf(A) + PbufsOf({d})
  BY <1>6, <1>7, <1>8, <1>10, PbufsSplit
<1>12. PbufsOf(A \cup {e}) = PbufsOf(A) + PbufsOf({e})
  BY <1>7, <1>8, <1>10, PbufsSplit
<1>13. PbufsOf(A) \in Nat
  BY <1>7, PairsFinite
<1>14. PbufsOf(ToSet(t)) = n - Len(d.frags) + Len(e.frags)
  <2>1. PICK a, b, c : a = PbufsOf(A) /\ b = Len(d.frags) /\ c = Len(e.frags)
    OBVIOUS
  <2>2. n = a + b
    BY <1>1, <1>5, <1>10, <1>11, <2>1
  <2>3. PbufsOf(ToSet(t)) = a + c
    BY <1>5, <1>10, <1>12, <2>1
  <2>4. a \in Nat /\ b \in Nat /\ c \in Nat
    BY <1>10, <1>13, <2>1
  <2>5. a + c = n - b + c
    BY <2>2, <2>4
  <2> QED
    BY <2>1, <2>3, <2>5
<1>15. \A a \in A \cup {e} : InPlace(a)
  BY <1>5 DEF ListOK
<1> QED
  BY <1>2, <1>4, <1>5, <1>9, <1>14, <1>15 DEF ListOK

\* A new entry comes first.
LEMMA ListPrepends ==
  ASSUME NEW list, NEW n, ListOK(list, n), NEW e \in Entries, InPlace(e),
         \A i \in DOMAIN list : list[i].id # e.id
  PROVE  ListOK(<<e>> \o list, n + Len(e.frags))
<1>1. list \in Seq(Entries) /\ Distinct(list) /\ n = PbufsOf(ToSet(list))
  BY DEF ListOK
<1>2. PICK m \in Nat : m = Len(list)
  BY <1>1
<1>3. PICK t : t = <<e>> \o list
  OBVIOUS
<1>4. /\ t \in Seq(Entries) /\ DOMAIN t = 1..(m + 1) /\ DOMAIN list = 1..m
      /\ t[1] = e /\ \A i \in 1..m : t[i + 1] = list[i]
  BY <1>1, <1>2, <1>3
<1>5. \A i \in 1..(m + 1) : i # 1 => i - 1 \in 1..m /\ t[i] = list[i - 1]
  <2>1. TAKE i \in 1..(m + 1)
  <2>2. HAVE i # 1
  <2>3. PICK j : j = i - 1
    OBVIOUS
  <2>4. j \in 1..m /\ j + 1 = i
    BY <1>2, <2>2, <2>3
  <2> QED
    BY <1>4, <2>3, <2>4
<1>6. ToSet(t) = ToSet(list) \cup {e}
  <2>1. ToSet(t) = {t[i] : i \in 1..(m + 1)} /\ ToSet(list) = {list[i] : i \in 1..m}
    BY <1>4 DEF ToSet
  <2>2. 1 \in 1..(m + 1) /\ \A i \in 1..m : i + 1 \in 1..(m + 1)
    BY <1>2
  <2>3. ASSUME NEW i \in 1..(m + 1) PROVE t[i] \in {list[k] : k \in 1..m} \cup {e}
    BY <1>4, <1>5
  <2>4. \A i \in 1..m : list[i] \in {t[k] : k \in 1..(m + 1)}
    BY <1>4, <2>2
  <2>5. e \in {t[k] : k \in 1..(m + 1)}
    BY <1>4, <2>2
  <2> QED
    BY <2>1, <2>3, <2>4, <2>5
<1>7. Distinct(t)
  <2> SUFFICES ASSUME NEW i \in 1..(m + 1), NEW j \in 1..(m + 1), t[i].id = t[j].id
               PROVE  i = j
    BY <1>4 DEF Distinct
  <2>1. CASE i = 1
    BY <1>4, <1>5, <2>1
  <2>2. CASE j = 1
    BY <1>4, <1>5, <2>2
  <2>3. CASE i # 1 /\ j # 1
    <3>1. PICK k \in 1..m, l \in 1..m : k = i - 1 /\ l = j - 1
      BY <1>5, <2>3
    <3>2. list[k].id = list[l].id
      BY <1>5, <2>3, <3>1
    <3>3. k = l
      BY <1>1, <1>4, <3>2 DEF Distinct
    <3> QED
      BY <3>1, <3>3
  <2> QED
    BY <2>1, <2>2, <2>3
<1>8. Framed(ToSet(list)) /\ \A a \in ToSet(list) : InPlace(a) /\ a.id # e.id
  BY ListIs DEF ToSet
<1>9. Framed({e}) /\ PbufsOf({e}) = Len(e.frags)
  <2>1. e.frags \in Seq(Fragments)
    BY DEF Entries
  <2> QED
    BY <2>1, PbufsOne
<1>10. PbufsOf(ToSet(list) \cup {e}) = PbufsOf(ToSet(list)) + PbufsOf({e})
  BY <1>8, <1>9, PbufsSplit
<1>11. \A a \in ToSet(t) : InPlace(a)
  BY <1>6, <1>8
<1>12. n + Len(e.frags) = PbufsOf(ToSet(t))
  BY <1>1, <1>6, <1>9, <1>10
<1> QED
  BY <1>3, <1>4, <1>7, <1>11, <1>12 DEF ListOK

\* All entries are a tick older.
LEMMA ListAges ==
  ASSUME NEW list, NEW n, ListOK(list, n), \A i \in DOMAIN list : list[i].timer > 0,
         NEW t, t = [i \in DOMAIN list |-> [list[i] EXCEPT !.timer = @ - 1]]
  PROVE  ListOK(t, n)
<1>1. list \in Seq(Entries) /\ Distinct(list) /\ n = PbufsOf(ToSet(list))
  BY DEF ListOK
<1>2. \A i \in DOMAIN list : list[i] \in Entries
  BY <1>1
<1>3. ASSUME NEW i \in DOMAIN list
      PROVE  /\ t[i] \in Entries /\ t[i].id = list[i].id /\ t[i].last = list[i].last
             /\ t[i].frags = list[i].frags
  BY <1>2, BoundsAssumption DEF Entries
<1>4. t \in Seq(Entries) /\ DOMAIN t = DOMAIN list
  BY <1>1, <1>3
<1>5. Distinct(t)
  BY <1>1, <1>3, <1>4 DEF Distinct
<1>6. PairsOf(ToSet(t)) = PairsOf(ToSet(list))
  BY <1>3, <1>4 DEF PairsOf, ToSet
<1>7. n = PbufsOf(ToSet(t))
  BY <1>1, <1>6 DEF PbufsOf, PairsOf
<1>8. ASSUME NEW i \in DOMAIN list PROVE InPlace(t[i])
  <2>1. InPlace(list[i])
    BY DEF ListOK, ToSet
  <2> QED
    BY <1>3, <2>1 DEF InPlace
<1>9. \A e \in ToSet(t) : InPlace(e)
  BY <1>4, <1>8 DEF ToSet
<1> QED
  BY <1>4, <1>5, <1>7, <1>9 DEF ListOK

-----------------------------------------------------------------------------
(* ip4_reass.                                                              *)

ReassOK == ListOK(reass, count) /\ count <= MaxPbufs

LEMMA RemainingIs ==
  ASSUME ListOK(reass, count)
  PROVE  /\ ListOK(Remaining, RemainingCount)
         /\ RemainingCount \in Nat /\ RemainingCount <= count
         /\ ToSet(Remaining) \subseteq ToSet(reass)
         /\ \A e \in ToSet(reass) : e.id = tun.id => e \in ToSet(Remaining)
<1>1. PICK I : I = DOMAIN reass \ Evicted
  OBVIOUS
<1>2. Evicted \subseteq DOMAIN reass /\ \A i \in Evicted : reass[i].id # tun.id
  BY DEF Evicted, Others
<1>3. DOMAIN reass \ I = Evicted /\ I \subseteq DOMAIN reass
  BY <1>1, <1>2
<1>4. PICK m : m = PbufsOf({reass[i] : i \in Evicted})
  OBVIOUS
<1>5. /\ ListOK(Selected(reass, I), count - m)
      /\ count - m \in Nat /\ count - m <= count
  BY <1>3, <1>4, ListKeeps
<1>6. Remaining = Selected(reass, I) /\ RemainingCount = count - m
  BY <1>1, <1>4 DEF Remaining, RemainingCount, CountWithout
<1>7. ToSet(Remaining) = {reass[i] : i \in I}
  <2>1. reass \in Seq(Entries)
    BY DEF ListOK
  <2> QED
    BY <1>3, <1>6, <2>1, SelectedKeeps
<1>8. \A i \in DOMAIN reass : reass[i].id = tun.id => i \in I
  BY <1>1, <1>2
<1>9. /\ ToSet(Remaining) \subseteq ToSet(reass)
      /\ \A e \in ToSet(reass) : e.id = tun.id => e \in ToSet(Remaining)
  BY <1>3, <1>7, <1>8 DEF ToSet
<1> QED
  BY <1>5, <1>6, <1>9

\* The entry is the one that is there, or new and empty.
LEMMA EntryIs ==
  ASSUME ListOK(Remaining, RemainingCount), tun.id \in Udp4
  PROVE  /\ Entry \in Entries /\ Entry.id = tun.id
         /\ \/ \E k \in DOMAIN Remaining : Entry = Remaining[k] /\ InPlace(Entry)
            \/ /\ \A k \in DOMAIN Remaining : Remaining[k].id # tun.id
               /\ Entry.frags = <<>> /\ Entry.last = FALSE /\ Entry.timer = MaxAge
<1>1. \A k \in DOMAIN Remaining : Remaining[k] \in Entries /\ InPlace(Remaining[k])
  BY ListIs DEF ToSet
<1>2. CASE \E k \in DOMAIN Remaining : Remaining[k].id = tun.id
  <2>1. PICK k : k = CHOOSE i \in DOMAIN Remaining : Remaining[i].id = tun.id
    OBVIOUS
  <2>2. k \in DOMAIN Remaining /\ Remaining[k].id = tun.id
    BY <1>2, <2>1
  <2>3. Entry = Remaining[k]
    BY <1>2, <2>1 DEF Entry
  <2> QED
    BY <1>1, <2>2, <2>3
<1>3. CASE ~ \E k \in DOMAIN Remaining : Remaining[k].id = tun.id
  <2>1. Entry = [id |-> tun.id, timer |-> MaxAge, last |-> FALSE, frags |-> <<>>]
    BY <1>3 DEF Entry
  <2>2. Entry \in Entries
    BY <2>1, BoundsAssumption DEF Entries
  <2> QED
    BY <1>3, <2>1, <2>2
<1> QED
  BY <1>2, <1>3

Inserted(t, s, k, x, n) ==
  /\ Len(t) = n + 1 /\ t[k] = x
  /\ \A i \in 1..n : i < k => t[i] = s[i]
  /\ \A i \in 1..n : i >= k => t[i + 1] = s[i]

LEMMA InsertedIs ==
  ASSUME NEW S, NEW s \in Seq(S), NEW n \in Nat, n = Len(s), NEW x \in S,
         NEW k \in 1..(n + 1), NEW t, t = InsertAt(s, k, x)
  PROVE  t \in Seq(S) /\ Inserted(t, s, k, x, n)
<1>1. PICK a, b, m : a = SubSeq(s, 1, k - 1) /\ b = SubSeq(s, k, n) /\ m = k - 1
  OBVIOUS
<1>2. /\ m \in Nat /\ a \in Seq(S) /\ b \in Seq(S) /\ Len(a) = m /\ Len(b) = n - m
      /\ \A i \in 1..m : a[i] = s[i]
      /\ \A i \in 1..(n - m) : b[i] = s[m + i]
  BY <1>1
<1>3. PICK y, c : y = <<x>> /\ c = Join(a, y)
  OBVIOUS
<1>4. y \in Seq(S) /\ Len(y) = 1 /\ y[1] = x
  BY <1>3
<1>5. c \in Seq(S) /\ Joined(c, a, y, m, 1)
  BY <1>2, <1>3, <1>4, JoinType, JoinIs
<1>6. t \in Seq(S) /\ Joined(t, c, b, m + 1, n - m)
  <2>1. t = Join(c, b)
    BY <1>1, <1>3 DEF InsertAt, Join
  <2>2. Len(c) = m + 1
    BY <1>5 DEF Joined
  <2>3. t \in Seq(S)
    BY <1>2, <1>5, <2>1, JoinType
  <2>4. Joined(Join(c, b), c, b, Len(c), Len(b))
    BY <1>2, <1>5, JoinIs
  <2>5. Joined(t, c, b, m + 1, n - m)
    BY <1>2, <2>1, <2>2, <2>4
  <2> QED
    BY <2>3, <2>5
<1>10. /\ c[m + 1] = x /\ Len(t) = n + 1
       /\ \A i \in 1..m : c[i] = a[i]
       /\ \A i \in 1..(m + 1) : t[i] = c[i]
       /\ \A i \in 1..(n - m) : t[(m + 1) + i] = b[i]
  <2>1. Len(t) = (m + 1) + (n - m) /\ (m + 1) + (n - m) = n + 1
    BY <1>1, <1>2, <1>6 DEF Joined
  <2>2. 1 \in 1..1
    OBVIOUS
  <2>3. c[m + 1] = y[1]
    BY <1>5, <2>2 DEF Joined
  <2> QED
    BY <1>4, <1>5, <1>6, <2>1, <2>3 DEF Joined
<1>7. t[k] = x
  BY <1>1, <1>2, <1>10
<1>8. ASSUME NEW i \in 1..n, i < k PROVE t[i] = s[i]
  <2>1. i \in 1..m /\ i \in 1..(m + 1)
    BY <1>1, <1>8
  <2> QED
    BY <1>2, <1>10, <2>1
<1>9. ASSUME NEW i \in 1..n, i >= k PROVE t[i + 1] = s[i]
  <2>1. PICK j : j = i - m
    OBVIOUS
  <2>2. j \in 1..(n - m) /\ m + j = i /\ (m + 1) + j = i + 1
    BY <1>1, <1>9, <2>1
  <2>3. t[(m + 1) + j] = b[j] /\ b[j] = s[m + j]
    BY <1>2, <1>10, <2>2
  <2> QED
    BY <2>2, <2>3
<1> QED
  BY <1>6, <1>7, <1>8, <1>9, <1>10 DEF Inserted

LEMMA ViewIs == \A f \in Fragments : View(f) = f.pkt
  BY DEF View, Fragments

\* A fragment that overlaps none of those queued finds its place among them.
LEMMA ChainedIs ==
  ASSUME ListOK(Remaining, RemainingCount), tun \in Packets, IsFragment, ~Unwelcome
  PROVE  /\ Chained \in Entries /\ InPlace(Chained)
         /\ Chained.id = tun.id /\ Chained.timer = Entry.timer
         /\ Len(Entry.frags) \in Nat /\ Len(Chained.frags) = Len(Entry.frags) + 1
<1>1. tun.id \in Udp4 /\ tun \in FragmentsOf(tun.id)
  BY TunIs
<1>2. PICK s, n, x, k, t : /\ s = Entry.frags /\ n = Len(s) /\ x = Fragment(tun)
                           /\ k = Place /\ t = InsertAt(s, k, x)
  OBVIOUS
<1>3. /\ Entry \in Entries /\ Entry.id = tun.id
      /\ InPlace(Entry) \/ (s = <<>> /\ Entry.last = FALSE)
  <2>1. /\ Entry \in Entries /\ Entry.id = tun.id
        /\ \/ \E i \in DOMAIN Remaining : Entry = Remaining[i] /\ InPlace(Entry)
           \/ /\ \A i \in DOMAIN Remaining : Remaining[i].id # tun.id
              /\ Entry.frags = <<>> /\ Entry.last = FALSE /\ Entry.timer = MaxAge
    BY <1>1, EntryIs
  <2> QED
    BY <1>2, <2>1
<1>4. s \in Seq(Fragments) /\ n \in Nat /\ DOMAIN s = 1..n
      /\ \A i \in 1..n : s[i] \in Fragments
  BY <1>2, <1>3 DEF Entries
<1>5. /\ \A i \in 1..n : s[i].pkt \in FragmentsOf(tun.id)
      /\ \A i, j \in 1..n : i < j => End(s[i].pkt) <= s[j].pkt.off
      /\ Entry.last => \E i \in 1..n : End(s[i].pkt) = Units(tun.id)
  <2>1. CASE InPlace(Entry)
    BY <1>2, <1>3, <1>4, <2>1 DEF InPlace
  <2>2. CASE s = <<>> /\ Entry.last = FALSE
    <3>1. n = 0
      BY <1>2, <2>2
    <3> QED
      BY <2>2, <3>1
  <2> QED
    BY <1>3, <2>1, <2>2
<1>6. \A i \in 1..n : View(s[i]) = s[i].pkt
  BY <1>4, ViewIs
<1>7. PICK from, to : /\ from = [i \in 1..n |-> s[i].pkt.off]
                      /\ to = [i \in 1..n |-> End(s[i].pkt)]
  OBVIOUS
<1>8. PICK a, b : a = tun.off /\ b = End(tun)
  OBVIOUS
<1>9. /\ a \in Nat /\ b \in Nat /\ a < b
      /\ \A i \in 1..n : from[i] \in Nat /\ to[i] \in Nat /\ from[i] < to[i]
      /\ \A i, j \in 1..n : i < j => to[i] <= from[j]
  BY <1>1, <1>5, <1>7, <1>8, FragmentIs
<1>10. \A i \in 1..n : ~(a < to[i] /\ from[i] < b)
  BY <1>2, <1>4, <1>6, <1>7, <1>8 DEF Unwelcome, Overlaps
<1>11. /\ k \in 1..(n + 1)
       /\ \A i \in 1..n : i < k => from[i] <= a
       /\ k <= n => from[k] > a
  <2>1. PICK later : later = {i \in 1..n : from[i] > a}
    OBVIOUS
  <2>2. k = IF later = {} THEN n + 1 ELSE CHOOSE i \in later : \A j \in later : i <= j
    <3>1. later = {i \in DOMAIN Entry.frags : View(Entry.frags[i]).off > tun.off}
      BY <1>2, <1>4, <1>6, <1>7, <1>8, <2>1
    <3> QED
      BY <1>2, <3>1 DEF Place
  <2>3. CASE later = {}
    BY <1>4, <1>9, <2>1, <2>2, <2>3
  <2>4. CASE later # {}
    <3>1. \E i \in later : \A j \in later : i <= j
      <4>1. later \subseteq Nat
        BY <2>1
      <4> QED
        BY <2>4, <4>1, LeastElement
    <3>2. k \in later /\ \A j \in later : k <= j
      BY <2>2, <2>4, <3>1
    <3>3. k \in 1..n /\ from[k] > a /\ \A j \in 1..n : from[j] > a => k <= j
      BY <2>1, <3>2
    <3> QED
      BY <1>4, <1>9, <3>3
  <2> QED
    BY <2>3, <2>4
<1>12. \A i \in 1..n : i < k => to[i] <= a
  BY <1>9, <1>10, <1>11
<1>13. ASSUME NEW i \in 1..n, i >= k PROVE b <= from[i]
  <2>1. from[i] > a
    <3>1. k \in 1..n /\ from[k] > a
      BY <1>4, <1>11, <1>13
    <3>2. i = k \/ to[k] <= from[i]
      BY <1>9, <1>13, <3>1
    <3> QED
      BY <1>9, <3>1, <3>2
  <2> QED
    BY <1>9, <1>10, <2>1
<1>14. x \in Fragments /\ x.pkt = tun
  BY <1>2, FragmentCopied
<1>15. /\ t \in Seq(Fragments) /\ Len(t) = n + 1 /\ t[k] = x
       /\ \A i \in 1..n : i < k => t[i] = s[i]
       /\ \A i \in 1..n : i >= k => t[i + 1] = s[i]
  <2>1. n = Len(s) /\ t = InsertAt(s, k, x)
    BY <1>2
  <2>2. k \in 1..(n + 1)
    BY <1>11
  <2>3. t \in Seq(Fragments) /\ Inserted(t, s, k, x, n)
    BY <1>4, <1>14, <2>1, <2>2, InsertedIs
  <2> QED
    BY <2>3 DEF Inserted
\* Every place but k is an old one.
<1>16. ASSUME NEW i \in 1..(n + 1)
       PROVE  \/ i = k
              \/ i < k /\ i \in 1..n /\ t[i] = s[i]
              \/ i > k /\ i - 1 \in 1..n /\ i - 1 >= k /\ t[i] = s[i - 1]
  <2>1. CASE i > k
    <3>1. PICK j : j = i - 1
      OBVIOUS
    <3>2. j \in 1..n /\ j >= k /\ j + 1 = i
      BY <1>4, <1>11, <2>1, <3>1
    <3>3. t[j + 1] = s[j]
      BY <1>15, <3>2
    <3> QED
      BY <2>1, <3>1, <3>2, <3>3
  <2>2. CASE i < k
    BY <1>4, <1>11, <1>15, <2>2
  <2> QED
    BY <1>4, <1>11, <2>1, <2>2
<1>17. ASSUME NEW i \in 1..(n + 1), NEW j \in 1..(n + 1), i < j
       PROVE  End(t[i].pkt) <= t[j].pkt.off
  <2>1. ASSUME NEW l \in 1..n
        PROVE  from[l] = s[l].pkt.off /\ to[l] = End(s[l].pkt)
    BY <1>7
  <2>2. t[k].pkt.off = a /\ End(t[k].pkt) = b
    BY <1>8, <1>14, <1>15
  <2>3. CASE i = k
    <3>1. j - 1 \in 1..n /\ j - 1 >= k /\ t[j] = s[j - 1]
      BY <1>11, <1>16, <1>17, <2>3
    <3> QED
      BY <1>13, <2>1, <2>2, <2>3, <3>1
  <2>4. CASE j = k
    <3>1. i < k /\ i \in 1..n /\ t[i] = s[i]
      BY <1>11, <1>16, <1>17, <2>4
    <3> QED
      BY <1>12, <2>1, <2>2, <2>4, <3>1
  <2>5. CASE i # k /\ j # k
    <3>1. PICK l \in 1..n : t[i] = s[l] /\ l = IF i < k THEN i ELSE i - 1
      BY <1>11, <1>16, <2>5
    <3>2. PICK m \in 1..n : t[j] = s[m] /\ m = IF j < k THEN j ELSE j - 1
      BY <1>11, <1>16, <2>5
    <3>3. l < m
      BY <1>11, <1>17, <2>5, <3>1, <3>2
    <3> QED
      BY <1>5, <3>1, <3>2, <3>3
  <2> QED
    BY <2>3, <2>4, <2>5
<1>18. \A i \in 1..(n + 1) : t[i].pkt \in FragmentsOf(tun.id)
  BY <1>1, <1>5, <1>14, <1>15, <1>16
<1>19. \A i \in 1..n : \E j \in 1..(n + 1) : t[j] = s[i]
  <2>1. TAKE i \in 1..n
  <2>2. i \in 1..(n + 1) /\ i + 1 \in 1..(n + 1)
    BY <1>4
  <2> QED
    BY <1>11, <1>15, <2>2
<1>20. PICK e : e = Chained
  OBVIOUS
<1>21. /\ e \in Entries /\ e.id = tun.id /\ e.timer = Entry.timer /\ e.frags = t
       /\ e.last = (Entry.last \/ b = Units(tun.id))
  <2>1. e = [Entry EXCEPT !.last = @ \/ b = Units(tun.id), !.frags = t]
    BY <1>2, <1>8, <1>20 DEF Chained
  <2> QED
    BY <1>3, <1>15, <2>1 DEF Entries
<1>22. e.last => \E i \in 1..(n + 1) : End(t[i].pkt) = Units(tun.id)
  <2>1. CASE Entry.last
    BY <1>5, <1>19, <2>1
  <2>2. CASE b = Units(tun.id)
    BY <1>8, <1>11, <1>14, <1>15, <2>2
  <2> QED
    BY <1>21, <2>1, <2>2
<1>23. InPlace(e)
  <2>1. DOMAIN t = 1..(n + 1) /\ t # <<>>
    BY <1>4, <1>15
  <2> QED
    BY <1>17, <1>18, <1>21, <1>22, <2>1 DEF InPlace
<1> QED
  BY <1>2, <1>4, <1>15, <1>20, <1>21, <1>23

-----------------------------------------------------------------------------
(* The steps of ip4_reass keep its list.                                   *)

LEMMA DroppedKeeps ==
  ASSUME ReassOK, InputFragmentDropped
  PROVE  ReassOK'
<1>1. ListOK(reass, count) /\ count \in Nat /\ count <= MaxPbufs
  BY ListIs DEF ReassOK
<1>2. /\ ListOK(Remaining, RemainingCount)
      /\ RemainingCount \in Nat /\ RemainingCount <= count
  BY <1>1, RemainingIs
<1>3. reass' = Remaining /\ count' = RemainingCount
  BY DEF InputFragmentDropped
<1>4. RemainingCount <= MaxPbufs
  BY <1>1, <1>2, BoundsAssumption
<1> QED
  BY <1>2, <1>3, <1>4 DEF ReassOK

LEMMA QueuedKeeps ==
  ASSUME ReassOK, tun \in Packets, InputFragmentQueued
  PROVE  ReassOK'
<1>1. ListOK(reass, count)
  BY DEF ReassOK
<1>2. PICK list, n : list = Remaining /\ n = RemainingCount
  OBVIOUS
<1>3. ListOK(list, n) /\ n \in Nat
  BY <1>1, <1>2, RemainingIs
<1>4. IsFragment /\ ~Unwelcome
  BY DEF InputFragmentQueued
<1>5. PICK e, c : e = Entry /\ c = Chained
  OBVIOUS
<1>6. /\ c \in Entries /\ InPlace(c) /\ c.id = tun.id
      /\ Len(e.frags) \in Nat /\ Len(c.frags) = Len(e.frags) + 1
  BY <1>2, <1>3, <1>4, <1>5, ChainedIs
<1>7. /\ e.id = tun.id
      /\ \/ \E k \in DOMAIN list : e = list[k] /\ InPlace(e)
         \/ (\A k \in DOMAIN list : list[k].id # tun.id) /\ e.frags = <<>>
  <2>1. tun.id \in Udp4
    BY <1>4 DEF IsFragment
  <2> QED
    BY <1>2, <1>3, <1>5, <2>1, EntryIs
<1>8. n + 1 <= MaxPbufs
  <2>1. ~(n >= MaxPbufs)
    BY <1>2, <1>4 DEF Unwelcome
  <2> QED
    BY <1>3, <2>1, BoundsAssumption
<1>9. count' = n + 1
  BY <1>2 DEF InputFragmentQueued
<1>10. reass' = IF e.frags = <<>> THEN <<c>> \o list
                ELSE [i \in DOMAIN list |-> IF list[i].id = tun.id THEN c ELSE list[i]]
  BY <1>2, <1>5 DEF InputFragmentQueued
<1>11. CASE e.frags = <<>>
  <2>1. \A k \in DOMAIN list : list[k].id # c.id
    BY <1>6, <1>7, <1>11 DEF InPlace
  <2>2. ListOK(<<c>> \o list, n + Len(c.frags))
    BY <1>3, <1>6, <2>1, ListPrepends
  <2>3. Len(c.frags) = 1
    BY <1>6, <1>11
  <2>4. ListOK(reass', count')
    BY <1>9, <1>10, <1>11, <2>2, <2>3
  <2> QED
    BY <1>8, <1>9, <2>4 DEF ReassOK
<1>12. CASE e.frags # <<>>
  <2>1. PICK k \in DOMAIN list : e = list[k]
    BY <1>7, <1>12
  <2>2. PICK t : t = [i \in DOMAIN list |-> IF list[i].id = c.id THEN c ELSE list[i]]
    OBVIOUS
  <2>3. reass' = t
    BY <1>6, <1>10, <1>12, <2>2
  <2>4. c.id = list[k].id
    BY <1>6, <1>7, <2>1
  <2>5. ListOK(t, n - Len(list[k].frags) + Len(c.frags))
    BY <1>3, <1>6, <2>2, <2>4, ListReplaces
  <2>6. n - Len(list[k].frags) + Len(c.frags) = n + 1
    <3>1. PICK a \in Nat, b \in Nat : a = Len(e.frags) /\ b = Len(c.frags) /\ b = a + 1
      BY <1>6
    <3>2. (n - a) + b = n + 1
      <4>1. n \in Nat /\ b = a + 1
        BY <1>3, <3>1
      <4> QED
        BY <4>1
    <3>3. Len(list[k].frags) = a
      BY <2>1, <3>1
    <3> QED
      BY <3>1, <3>2, <3>3
  <2>7. ListOK(reass', count')
    BY <1>9, <2>3, <2>5, <2>6
  <2> QED
    BY <1>8, <1>9, <2>7 DEF ReassOK
<1> QED
  BY <1>11, <1>12

\* The entry leaves the list, if it ever was there.
LEMMA FinishedKeeps ==
  ASSUME ReassOK, tun \in Packets, InputFragmentFinishes
  PROVE  ReassOK'
<1>1. ListOK(reass, count) /\ count \in Nat /\ count <= MaxPbufs
  BY ListIs DEF ReassOK
<1>2. PICK list, n : list = Remaining /\ n = RemainingCount
  OBVIOUS
<1>3. ListOK(list, n) /\ n \in Nat /\ n <= count
  BY <1>1, <1>2, RemainingIs
<1>4. IsFragment /\ ~Unwelcome
  BY DEF InputFragmentFinishes
<1>5. PICK e, c : e = Entry /\ c = Chained
  OBVIOUS
<1>6. PICK l \in Nat : l = Len(e.frags) /\ Len(c.frags) = l + 1
  BY <1>2, <1>3, <1>4, <1>5, ChainedIs
<1>7. /\ e.id = tun.id
      /\ \/ \E k \in DOMAIN list : e = list[k] /\ InPlace(e)
         \/ (\A k \in DOMAIN list : list[k].id # tun.id) /\ e.frags = <<>>
  <2>1. tun.id \in Udp4
    BY <1>4 DEF IsFragment
  <2> QED
    BY <1>2, <1>3, <1>5, <2>1, EntryIs
<1>8. PICK I, m : /\ I = {i \in DOMAIN list : list[i].id # tun.id}
                  /\ m = PbufsOf({list[i] : i \in DOMAIN list \ I})
  OBVIOUS
<1>9. I \subseteq DOMAIN list
  BY <1>8
<1>10. ListOK(Selected(list, I), n - m) /\ m \in Nat /\ n - m \in Nat /\ n - m <= n
  BY <1>3, <1>8, <1>9, ListKeeps
<1>11. m = l
  <2>1. CASE \E k \in DOMAIN list : e = list[k] /\ InPlace(e)
    <3>1. PICK k \in DOMAIN list : e = list[k]
      BY <2>1
    <3>2. \A i \in DOMAIN list \ I : i = k
      BY <1>3, <1>7, <1>8, <3>1 DEF ListOK, Distinct
    <3>3. k \in DOMAIN list \ I
      BY <1>7, <1>8, <3>1
    <3>4. {list[i] : i \in DOMAIN list \ I} = {e}
      BY <3>1, <3>2, <3>3
    <3>5. e.frags \in Seq(Fragments)
      <4>1. list \in Seq(Entries)
        BY <1>3 DEF ListOK
      <4>2. e \in Entries
        BY <3>1, <4>1
      <4> QED
        BY <4>2 DEF Entries
    <3> QED
      BY <1>6, <1>8, <3>4, <3>5, PbufsOne
  <2>2. CASE (\A k \in DOMAIN list : list[k].id # tun.id) /\ e.frags = <<>>
    <3>1. {list[i] : i \in DOMAIN list \ I} = {}
      BY <1>8, <2>2
    <3>2. PbufsOf({}) = 0
      <4>1. PairsOf({}) = {}
        BY DEF PairsOf
      <4> QED
        BY <4>1, FS_EmptySet DEF PbufsOf, PairsOf
    <3>3. l = 0
      BY <1>6, <2>2
    <3> QED
      BY <1>8, <3>1, <3>2, <3>3
  <2> QED
    BY <1>7, <2>1, <2>2
<1>12. reass' = Selected(list, I) /\ count' = n + 1 - Len(c.frags)
  BY <1>2, <1>5, <1>8 DEF InputFragmentFinishes
<1>13. count' = n - m
  BY <1>3, <1>6, <1>11, <1>12
<1>14. count' <= MaxPbufs
  BY <1>1, <1>3, <1>10, <1>13, BoundsAssumption
<1>15. ListOK(reass', count')
  BY <1>10, <1>12, <1>13
<1> QED
  BY <1>14, <1>15 DEF ReassOK

LEMMA TimerKeeps ==
  ASSUME ReassOK, ReassTimer
  PROVE  ReassOK'
<1>1. ListOK(reass, count) /\ count \in Nat /\ count <= MaxPbufs
  BY ListIs DEF ReassOK
<1>2. PICK I, m : I = DOMAIN reass \ Expired /\ m = PbufsOf({reass[i] : i \in Expired})
  OBVIOUS
<1>3. I \subseteq DOMAIN reass /\ DOMAIN reass \ I = Expired
  BY <1>2 DEF Expired
<1>4. PICK live : live = Selected(reass, I)
  OBVIOUS
<1>5. ListOK(live, count - m) /\ m \in Nat /\ count - m \in Nat /\ count - m <= count
  BY <1>1, <1>2, <1>3, <1>4, ListKeeps
<1>6. \A i \in DOMAIN live : live[i].timer > 0
  <2>1. reass \in Seq(Entries) /\ live \in Seq(Entries)
    BY <1>1, <1>5 DEF ListOK
  <2>2. ToSet(live) = {reass[i] : i \in I}
    BY <1>3, <1>4, <2>1, SelectedKeeps
  <2>3. \A i \in I : reass[i].timer # 0 /\ reass[i].timer \in Nat
    <3>1. \A e \in Entries : e.timer \in Nat
      BY BoundsAssumption DEF Entries
    <3>2. \A i \in DOMAIN reass : reass[i] \in Entries
      BY <2>1
    <3>3. \A i \in I : i \in DOMAIN reass /\ reass[i].timer # 0
      BY <1>2 DEF Expired
    <3> QED
      BY <3>1, <3>2, <3>3
  <2>4. \A e \in ToSet(live) : e.timer > 0
    BY <2>2, <2>3
  <2> QED
    BY <2>4 DEF ToSet
<1>7. PICK t : t = [i \in DOMAIN live |-> [live[i] EXCEPT !.timer = @ - 1]]
  OBVIOUS
<1>8. ListOK(t, count - m)
  BY <1>5, <1>6, <1>7, ListAges
<1>9. reass' = t /\ count' = count - m
  BY <1>2, <1>4, <1>7 DEF ReassTimer, Aged, CountWithout
<1>10. count' <= MaxPbufs
  BY <1>1, <1>5, <1>9, BoundsAssumption
<1>11. ListOK(reass', count')
  BY <1>8, <1>9
<1> QED
  BY <1>10, <1>11 DEF ReassOK

LEMMA ReassInitial == Init => ReassOK
<1> SUFFICES ASSUME Init PROVE ReassOK
  OBVIOUS
<1>1. reass = <<>> /\ count = 0
  BY DEF Init
<1>2. reass \in Seq(Entries) /\ DOMAIN reass = {}
  BY <1>1
<1>3. ToSet(reass) = {}
  BY <1>2 DEF ToSet
<1>4. PbufsOf({}) = 0
  <2>1. PairsOf({}) = {}
    BY DEF PairsOf
  <2> QED
    BY <2>1, FS_EmptySet DEF PbufsOf, PairsOf
<1>5. ListOK(reass, count)
  BY <1>1, <1>2, <1>3, <1>4 DEF ListOK, Distinct
<1> QED
  BY <1>1, <1>5, BoundsAssumption DEF ReassOK

LEMMA FetchersOnly ==
  ASSUME NEW f \in Fetchers,
         \/ FetchStarts(f) \/ FetchReads(f) \/ Output(f)
         \/ OutputReturns(f) \/ FetchEnds(f)
  PROVE  CoreOnly
  BY DEF FetchStarts, FetchReads, Output, OutputReturns, FetchEnds

LEMMA ReassInductive ==
  ReassOK /\ (loop = "write" => tun \in Packets) /\ [Next]_vars => ReassOK'
<1> SUFFICES ASSUME ReassOK, loop = "write" => tun \in Packets, [Next]_vars
             PROVE  ReassOK'
  OBVIOUS
<1>1. CASE UNCHANGED <<reass, count>>
  BY <1>1 DEF ReassOK
<1>2. CASE InputFragmentDropped
  BY <1>2, DroppedKeeps
<1>3. CASE InputFragmentQueued
  BY <1>3, QueuedKeeps DEF InputFragmentQueued, Writes
<1>4. CASE InputFragmentFinishes
  <2>1. tun \in Packets
    BY <1>4 DEF InputFragmentFinishes, Writes
  <2> QED
    BY <1>4, <2>1, FinishedKeeps
<1>5. CASE ReassTimer
  BY <1>5, TimerKeeps
<1>6. CASE \/ UNCHANGED vars
           \/ ReadTun \/ InputWhole \/ InputRefused \/ TcpRetry
           \/ EnqueueEarlyPacket \/ ReceiveTo \/ Receive \/ Connected \/ DrainPending
  <2>1. UNCHANGED <<reass, count>>
    BY <1>6 DEF vars, lwipVars, ReadTun, InputWhole, InputRefused, TcpRetry,
                EnqueueEarlyPacket, ReceiveTo, Receive, Returns, Connected, DrainPending
  <2> QED
    BY <1>1, <2>1
<1>7. CASE \E f \in Fetchers : \/ FetchStarts(f) \/ FetchReads(f) \/ Output(f)
                              \/ OutputReturns(f) \/ FetchEnds(f)
  <2>1. CoreOnly
    BY <1>7, FetchersOnly
  <2> QED
    BY <1>1, <2>1 DEF CoreOnly, lwipVars
<1> QED
  BY <1>2, <1>3, <1>4, <1>5, <1>6, <1>7, Zenon DEF Next

-----------------------------------------------------------------------------
(* The whole datagram.                                                     *)

\* The payloads of fragments that follow each other up to the last one.
LEMMA WholeIs ==
  ASSUME NEW e \in Entries, InPlace(e), Finished(e),
         NEW q, q = [i \in DOMAIN e.frags |-> View(e.frags[i]).data]
  PROVE  FlattenSeq(q) = Datagram(e.id)
<1>1. PICK s, d, u : s = e.frags /\ d = Datagram(e.id) /\ u = Units(e.id)
  OBVIOUS
<1>2. PICK S : d \in Seq(S) /\ Len(d) = u /\ u \in Nat /\ u > 0
  <2>1. u \in Nat /\ u > 0
    BY <1>1, UnitsType
  <2>2. d \in Seq({<<e.id, i>> : i \in 1..u}) /\ Len(d) = u
    BY <1>1, <2>1 DEF Datagram
  <2> QED
    BY <2>1, <2>2
<1>3. PICK n \in Nat : n = Len(s) /\ DOMAIN s = 1..n /\ n > 0
  <2>1. s \in Seq(Fragments) /\ s # <<>>
    BY <1>1 DEF Entries, InPlace
  <2> QED
    BY <2>1
<1>4. \A i \in 1..n : View(s[i]) = s[i].pkt
  <2>1. s \in Seq(Fragments)
    BY <1>1 DEF Entries
  <2>2. \A i \in 1..n : s[i] \in Fragments
    BY <1>3, <2>1
  <2> QED
    BY <2>2, ViewIs
<1>5. /\ \A i, j \in 1..n : i < j => End(s[i].pkt) <= s[j].pkt.off
      /\ \E i \in 1..n : End(s[i].pkt) = u
      /\ s[1].pkt.off = 0
      /\ \A i \in 2..n : s[i].pkt.off = End(s[i - 1].pkt)
  <2>1. /\ \A i, j \in 1..n : i < j => End(s[i].pkt) <= s[j].pkt.off
        /\ e.last => \E i \in 1..n : End(s[i].pkt) = u
    BY <1>1, <1>3 DEF InPlace
  <2>2. e.last /\ View(s[1]).off = 0
        /\ \A i \in 2..n : View(s[i]).off = End(View(s[i - 1]))
    BY <1>1, <1>3 DEF Finished
  <2>3. 1 \in 1..n /\ \A i \in 2..n : i \in 1..n /\ i - 1 \in 1..n
    BY <1>3
  <2> QED
    BY <1>4, <2>1, <2>2, <2>3
<1>6. ASSUME NEW i \in 1..n
      PROVE  /\ s[i].pkt.off \in Nat /\ End(s[i].pkt) \in Nat
             /\ s[i].pkt.off < End(s[i].pkt) /\ End(s[i].pkt) <= u
             /\ s[i].pkt.data = SubSeq(d, s[i].pkt.off + 1, End(s[i].pkt))
  <2>1. s[i].pkt \in FragmentsOf(e.id)
    BY <1>1, <1>3 DEF InPlace
  <2> QED
    BY <1>1, <2>1, FragmentIs
<1>7. End(s[n].pkt) = u
  <2>1. PICK i \in 1..n : End(s[i].pkt) = u
    BY <1>5
  <2>2. CASE i < n
    <3>1. n \in 1..n
      BY <1>3
    <3>2. End(s[i].pkt) <= s[n].pkt.off
      BY <1>5, <2>2, <3>1
    <3>3. s[n].pkt.off < End(s[n].pkt) /\ End(s[n].pkt) <= u
      BY <1>6, <3>1
    <3>4. s[n].pkt.off \in Nat /\ End(s[n].pkt) \in Nat
      BY <1>6, <3>1
    <3> QED
      BY <1>2, <2>1, <3>2, <3>3, <3>4
  <2> QED
    BY <1>3, <2>1, <2>2
<1>8. PICK to : to = [k \in 0..n |-> IF k = 0 THEN 0 ELSE End(s[k].pkt)]
  OBVIOUS
<1>9. to[0] = 0 /\ to[n] = u /\ \A k \in 1..n : to[k] = End(s[k].pkt)
  BY <1>3, <1>7, <1>8
<1>10. \A i \in 1..n : q[i] = s[i].pkt.data
  BY <1>1, <1>3, <1>4
<1>11. ASSUME NEW k \in 0..(n - 1), NEW j, j = k + 1
       PROVE  to[k] <= to[j] /\ q[j] = SubSeq(d, to[k] + 1, to[j])
  <2>1. j \in 1..n /\ k = j - 1
    BY <1>3, <1>11
  <2>2. s[j].pkt.off = to[k]
    <3>1. CASE k = 0
      <4>1. j = 1
        BY <1>11, <3>1
      <4> QED
        BY <1>5, <1>9, <3>1, <4>1
    <3>2. CASE k # 0
      <4>1. j \in 2..n /\ k \in 1..n
        BY <1>11, <2>1, <3>2
      <4>2. s[j].pkt.off = End(s[j - 1].pkt)
        BY <1>5, <4>1
      <4> QED
        BY <1>9, <2>1, <4>1, <4>2
    <3> QED
      BY <3>1, <3>2
  <2>3. /\ s[j].pkt.off \in Nat /\ End(s[j].pkt) \in Nat
        /\ s[j].pkt.off < End(s[j].pkt)
        /\ s[j].pkt.data = SubSeq(d, s[j].pkt.off + 1, End(s[j].pkt))
    BY <1>6, <2>1
  <2>4. to[j] = End(s[j].pkt) /\ q[j] = s[j].pkt.data
    BY <1>9, <1>10, <2>1
  <2> QED
    BY <2>2, <2>3, <2>4
<1>12. to \in [0..n -> 0..Len(d)]
  <2>1. \A k \in 0..n : k # 0 => k \in 1..n
    OBVIOUS
  <2>2. \A k \in 1..n : to[k] \in 0..u
    BY <1>2, <1>6, <1>9
  <2>3. \A k \in 0..n : to[k] \in 0..u
    BY <1>2, <1>9, <2>1, <2>2
  <2> QED
    BY <1>2, <1>8, <2>3
<1>13. Pieces(q, d, to, n)
  BY <1>2, <1>9, <1>11, <1>12 DEF Pieces
<1>14. q \in Seq(Seq(S)) /\ Len(q) = n
  <2>1. \A i \in 1..n : q[i] \in Seq(S)
    <3>1. TAKE i \in 1..n
    <3>2. PICK a, b : a = s[i].pkt.off /\ b = End(s[i].pkt)
      OBVIOUS
    <3>3. a \in Nat /\ b \in Nat /\ a < b /\ b <= u /\ q[i] = SubSeq(d, a + 1, b)
      BY <1>6, <1>10, <3>2
    <3>4. a \in 0..Len(d) /\ b \in a..Len(d)
      BY <1>2, <3>3
    <3> QED
      BY <1>2, <3>3, <3>4, PieceIs
  <2>2. q = [i \in 1..n |-> View(s[i]).data]
    BY <1>1, <1>3
  <2>3. PICK T : T = Seq(S)
    OBVIOUS
  <2>4. \A i \in 1..n : q[i] \in T
    BY <2>1, <2>3
  <2>5. q \in Seq(T) /\ Len(q) = n
    <3>1. q \in [1..n -> T]
      BY <2>2, <2>4, Zenon
    <3>2. n \in Nat
      BY <1>3
    <3> QED
      BY <3>1, <3>2
  <2> QED
    BY <2>3, <2>5
<1>15. FlattenSeq(q) = d
  BY <1>2, <1>13, <1>14, FlattenPieces
<1> QED
  BY <1>1, <1>15

-----------------------------------------------------------------------------
(* What is handed on.                                                      *)

UdpIds == Udp4 \cup Udp6
\* A segment that was refused, and a datagram that came early.
Refusals == [in : {"pbuf"}, data : {Datagram(id) : id \in Tcp}]
Earlies  == [in : {"copy"}, data : {Datagram(id) : id \in UdpIds}]

PlacesOK ==
  /\ loop \in {"read", "write"} /\ at \in {"idle", "udp", "tcp", "retry"}
  /\ state \in {"connecting", "connected"}

\* The slice of a callback, and the packet whose it is.
SliceOK ==
  /\ loop = "write" \/ at \in {"udp", "tcp"} => tun \in Packets
  /\ at = "idle" => data = Nowhere
  /\ at = "udp" => tun.id \in UdpIds
  /\ at \in {"udp", "tcp"} => data \in Slices /\ Bytes(data) = Datagram(tun.id)

KeptOK ==
  /\ at = "retry" => data \in Refusals
  /\ refused \in {Nowhere} \cup Refusals
  /\ pending \in Seq(Earlies) /\ Len(pending) <= Cap

HandedOK == PlacesOK /\ SliceOK /\ KeptOK

LEMMA RefusalIs == \A r \in Refusals : r.in = "pbuf" /\ r # Nowhere
  BY DEF Refusals, Nowhere

\* input() refers to the packet or copies it: the slice is the payload.
LEMMA PbufIs ==
  ASSUME tun \in Packets, ~IsFragment, UNCHANGED tun, data' = Pbuf(tun)
  PROVE  data' \in Slices /\ Bytes(data)' = Datagram(tun.id)
<1>1. tun.id \in Ids /\ tun.data = Datagram(tun.id)
  BY TunIs
<1>2. PICK d : d = tun.data
  OBVIOUS
<1>3. CASE Referenced(tun)
  <2>1. data' = [in |-> "tun", data |-> <<>>]
    BY <1>3 DEF Pbuf
  <2>2. Bytes(data)' = tun'.data
    BY <2>1 DEF Bytes
  <2> QED
    BY <1>1, <2>1, <2>2 DEF Slices
<1>4. CASE ~Referenced(tun)
  <2>1. data' = [in |-> "pbuf", data |-> d]
    BY <1>2, <1>4 DEF Pbuf
  <2>2. Bytes(data)' = d
    BY <2>1, BuffersAssumption DEF Bytes
  <2>3. d \in {Datagram(id) : id \in Ids}
    BY <1>1, <1>2
  <2> QED
    BY <1>1, <1>2, <2>1, <2>2, <2>3 DEF Slices
<1> QED
  BY <1>3, <1>4

LEMMA SegmentIs ==
  ASSUME tun \in Packets, tun.id \in Tcp
  PROVE  ~IsFragment /\ Pbuf(tun) \in Refusals
<1>1. tun.id \notin Udp4
  BY KindsAssumption
<1>2. ~IsFragment
  BY <1>1 DEF IsFragment
<1>3. tun.data = Datagram(tun.id)
  BY <1>2, TunIs
<1>4. Pbuf(tun) = [in |-> "pbuf", data |-> tun.data]
  BY DEF Pbuf, Referenced
<1> QED
  BY <1>2, <1>3, <1>4 DEF Refusals

LEMMA WholeStep ==
  ASSUME HandedOK, InputWhole
  PROVE  HandedOK'
<1>1. /\ loop = "write" /\ loop' = "read" /\ ~IsFragment
      /\ at' = IF tun.id \in Tcp THEN "tcp" ELSE "udp"
      /\ data' = Pbuf(tun) /\ UNCHANGED <<tun, refused, state, pending>>
  BY DEF InputWhole, Writes, lwipVars, udpVars
<1>2. tun \in Packets
  BY <1>1 DEF HandedOK, SliceOK
<1>3. data' \in Slices /\ Bytes(data)' = Datagram(tun.id)
  BY <1>1, <1>2, PbufIs
<1>4. at' = "udp" => tun.id \in UdpIds
  BY <1>1, <1>2, TunIs DEF Ids, UdpIds
<1>5. PlacesOK'
  BY <1>1 DEF HandedOK, PlacesOK
<1>6. SliceOK'
  BY <1>1, <1>2, <1>3, <1>4 DEF SliceOK
<1>7. KeptOK'
  BY <1>1 DEF HandedOK, KeptOK
<1> QED
  BY <1>5, <1>6, <1>7 DEF HandedOK

LEMMA RefusedStep ==
  ASSUME HandedOK, InputRefused
  PROVE  HandedOK'
<1>1. /\ loop = "write" /\ loop' = "read" /\ at' = "idle" /\ tun.id \in Tcp
      /\ data' = Nowhere /\ refused' = Pbuf(tun) /\ UNCHANGED <<tun, state, pending>>
  BY DEF InputRefused, Writes, udpVars
<1>2. tun \in Packets
  BY <1>1 DEF HandedOK, SliceOK
<1>3. refused' \in Refusals
  BY <1>1, <1>2, SegmentIs
<1>4. PlacesOK'
  BY <1>1 DEF HandedOK, PlacesOK
<1>5. SliceOK'
  BY <1>1 DEF SliceOK
<1>6. KeptOK'
  BY <1>1, <1>3 DEF HandedOK, KeptOK
<1> QED
  BY <1>4, <1>5, <1>6 DEF HandedOK

\* A fragment that finishes nothing.
LEMMA QuietStep ==
  ASSUME HandedOK, InputFragmentDropped \/ InputFragmentQueued
  PROVE  HandedOK'
<1>1. /\ loop' = "read" /\ at' = "idle" /\ data' = Nowhere
      /\ UNCHANGED <<tun, refused, state, pending>>
  BY DEF InputFragmentDropped, InputFragmentQueued, Writes, udpVars
<1>2. PlacesOK'
  BY <1>1 DEF HandedOK, PlacesOK
<1>3. SliceOK'
  BY <1>1 DEF SliceOK
<1>4. KeptOK'
  BY <1>1 DEF HandedOK, KeptOK
<1> QED
  BY <1>2, <1>3, <1>4 DEF HandedOK

LEMMA FirstOfAll ==
  ASSUME NEW S, NEW d \in Seq(S), NEW n \in Nat, n >= Len(d)
  PROVE  First(d, n) = d
<1>1. PICK m \in Nat : m = Len(d)
  OBVIOUS
<1>2. First(d, n) = SubSeq(d, 1, m)
  BY <1>1 DEF First
<1>3. SubSeq(d, 1, m) = d
  BY <1>1
<1> QED
  BY <1>2, <1>3

\* The buffer of udpRecvFn has room for the whole datagram.
LEMMA FinishedStep ==
  ASSUME IInv, ReassOK, HandedOK, InputFragmentFinishes
  PROVE  HandedOK'
<1>0. PICK q : q = [i \in DOMAIN Chained.frags |-> View(Chained.frags[i]).data]
  OBVIOUS
<1>1. PICK b \in Buffers :
        /\ Writes("udp", [in |-> b, data |-> <<>>])
        /\ Gets(Units(tun.id), b, FlattenSeq(q))
  <2>1. \E b \in Buffers :
          /\ Writes("udp", [in |-> b, data |-> <<>>])
          /\ Gets(Units(tun.id), b,
                  FlattenSeq([i \in DOMAIN Chained.frags |-> View(Chained.frags[i]).data]))
    BY DEF InputFragmentFinishes
  <2> QED
    BY <1>0, <2>1
<1>2. /\ loop = "write" /\ loop' = "read" /\ at' = "udp"
      /\ data' = [in |-> b, data |-> <<>>] /\ UNCHANGED <<tun, refused, state, pending>>
  BY <1>1 DEF Writes, udpVars, InputFragmentFinishes
<1>3. tun \in Packets /\ IsFragment /\ ~Unwelcome /\ Finished(Chained) /\ tun.id \in Udp4
  BY <1>2, TunIs DEF HandedOK, SliceOK, InputFragmentFinishes
<1>4. Chained \in Entries /\ InPlace(Chained) /\ Chained.id = tun.id
  <2>1. ListOK(Remaining, RemainingCount)
    BY RemainingIs DEF ReassOK
  <2> QED
    BY <1>3, <2>1, ChainedIs
<1>5. PICK d, u : d = Datagram(tun.id) /\ u = Units(tun.id)
  OBVIOUS
<1>6. FlattenSeq(q) = d
  BY <1>0, <1>3, <1>4, <1>5, WholeIs
<1>7. u \in Nat \ {0} /\ Len(d) = u /\ \E S : d \in Seq(S)
  <2>1. u \in Nat /\ u > 0
    BY <1>5, UnitsType
  <2>2. d \in Seq({<<tun.id, i>> : i \in 1..u}) /\ Len(d) = u
    BY <1>5, <2>1 DEF Datagram
  <2> QED
    BY <2>1, <2>2
<1>8. Gets(u, b, d)
  BY <1>1, <1>5, <1>6
<1>9. /\ MemoryOK' /\ memory'[b].size >= u
      /\ memory'[b].data = First(d, memory'[b].size)
  BY <1>7, <1>8, Got, Zenon
<1>10. memory'[b].data = d
  <2>1. memory'[b].size \in Nat
    BY <1>9 DEF MemoryOK, CellOK
  <2> QED
    BY <1>7, <1>9, <2>1, FirstOfAll
<1>11. Bytes(data)' = d
  BY <1>2, <1>10, BuffersAssumption DEF Bytes
<1>12. data' \in Slices
  BY <1>2 DEF Slices
<1>13. PlacesOK'
  BY <1>2 DEF HandedOK, PlacesOK
<1>14. SliceOK'
  <2>1. tun'.id \in UdpIds /\ tun' \in Packets /\ Datagram(tun.id)' = d
    BY <1>2, <1>3, <1>5 DEF UdpIds
  <2> QED
    BY <1>2, <1>11, <1>12, <2>1 DEF SliceOK
<1>15. KeptOK'
  BY <1>2 DEF HandedOK, KeptOK
<1> QED
  BY <1>13, <1>14, <1>15 DEF HandedOK

LEMMA ReadStep ==
  ASSUME HandedOK, ReadTun
  PROVE  HandedOK'
<1>1. /\ loop' = "write" /\ tun' \in Packets /\ at \in {"idle", "retry"}
      /\ UNCHANGED <<at, data, refused, state, pending>>
  BY DEF ReadTun, lwipVars, udpVars
<1>2. PlacesOK'
  BY <1>1 DEF HandedOK, PlacesOK
<1>3. SliceOK'
  BY <1>1 DEF HandedOK, SliceOK
<1>4. KeptOK'
  BY <1>1 DEF HandedOK, KeptOK
<1> QED
  BY <1>2, <1>3, <1>4 DEF HandedOK

LEMMA RetryStep ==
  ASSUME HandedOK, TcpRetry
  PROVE  HandedOK'
<1>1. /\ at' = "retry" /\ data' = refused /\ refused # Nowhere /\ refused' = Nowhere
      /\ UNCHANGED <<loop, tun, state, pending>>
  BY DEF TcpRetry, udpVars
<1>2. PlacesOK'
  BY <1>1 DEF HandedOK, PlacesOK
<1>3. SliceOK'
  BY <1>1 DEF HandedOK, SliceOK
<1>4. KeptOK'
  BY <1>1 DEF HandedOK, KeptOK
<1> QED
  BY <1>2, <1>3, <1>4 DEF HandedOK

\* What a callback that returns must show.
LEMMA HandsOn ==
  ASSUME HandedOK, Returns, refused' \in {Nowhere} \cup Refusals,
         pending' \in Seq(Earlies), Len(pending') <= Cap
  PROVE  HandedOK'
<1>1. at' = "idle" /\ data' = Nowhere /\ UNCHANGED <<loop, tun, state>>
  BY DEF Returns
<1>2. PlacesOK'
  BY <1>1 DEF HandedOK, PlacesOK
<1>3. SliceOK'
  BY <1>1 DEF HandedOK, SliceOK
<1>4. KeptOK'
  BY <1>1 DEF KeptOK
<1> QED
  BY <1>2, <1>3, <1>4 DEF HandedOK

LEMMA HandsOnStep ==
  ASSUME HandedOK, EnqueueEarlyPacket \/ ReceiveTo \/ Receive
  PROVE  HandedOK'
<1>1. Returns
  BY DEF EnqueueEarlyPacket, ReceiveTo, Receive
<1>2. /\ at = "retry" => data \in Refusals
      /\ refused \in {Nowhere} \cup Refusals
      /\ pending \in Seq(Earlies) /\ Len(pending) <= Cap
  BY DEF HandedOK, KeptOK
<1>3. refused' \in {Nowhere} \cup Refusals
  BY <1>2 DEF EnqueueEarlyPacket, ReceiveTo, Receive
<1>4. CASE EnqueueEarlyPacket
  <2>1. at = "udp" /\ Len(pending) < Cap /\ pending' = Append(pending, Copy(data))
    BY <1>4 DEF EnqueueEarlyPacket, HasRoom
  <2>2. Copy(data) \in Earlies
    <3>1. Bytes(data) = Datagram(tun.id) /\ tun.id \in UdpIds
      BY <2>1 DEF HandedOK, SliceOK
    <3> QED
      BY <3>1 DEF Copy, Earlies
  <2>3. pending' \in Seq(Earlies) /\ Len(pending') = Len(pending) + 1
    BY <1>2, <2>1, <2>2
  <2>4. Len(pending') <= Cap
    BY <1>2, <2>1, <2>3, BoundsAssumption
  <2> QED
    BY <1>1, <1>3, <2>3, <2>4, HandsOn
<1>5. CASE ReceiveTo \/ Receive
  <2>1. pending' = pending
    BY <1>5 DEF ReceiveTo, Receive
  <2> QED
    BY <1>1, <1>2, <1>3, <2>1, HandsOn
<1> QED
  BY <1>4, <1>5

\* A step that leaves the main loop and the slice alone.
LEMMA ElsewhereStep ==
  ASSUME HandedOK, UNCHANGED <<loop, tun, at, data, refused>>,
         data.in \in Buffers => memory'[data.in] = memory[data.in],
         state' \in {"connecting", "connected"},
         pending' \in Seq(Earlies), Len(pending') <= Cap
  PROVE  HandedOK'
<1>1. Bytes(data)' = Bytes(data)
  BY DEF Bytes
<1>2. PlacesOK'
  BY DEF HandedOK, PlacesOK
<1>3. SliceOK'
  <2>1. SliceOK
    BY DEF HandedOK
  <2> QED
    BY <1>1, <2>1 DEF SliceOK
<1>4. KeptOK'
  BY DEF HandedOK, KeptOK
<1> QED
  BY <1>2, <1>3, <1>4 DEF HandedOK

LEMMA PendingStep ==
  ASSUME HandedOK, ReassTimer \/ Connected \/ DrainPending
  PROVE  HandedOK'
<1>1. UNCHANGED <<loop, tun, at, data, refused, memory>>
  BY DEF ReassTimer, Connected, DrainPending, lwipVars, goVars
<1>2. /\ state \in {"connecting", "connected"}
      /\ pending \in Seq(Earlies) /\ Len(pending) <= Cap
  BY DEF HandedOK, KeptOK, PlacesOK
<1>3. state' \in {"connecting", "connected"}
  BY <1>2 DEF ReassTimer, Connected, DrainPending, udpVars
<1>4. pending' = pending \/ (pending # <<>> /\ pending' = Tail(pending))
  BY DEF ReassTimer, Connected, DrainPending, udpVars
<1>5. pending' \in Seq(Earlies) /\ Len(pending') <= Len(pending)
  <2>1. CASE pending' = pending
    BY <1>2, <2>1
  <2>2. CASE pending # <<>> /\ pending' = Tail(pending)
    <3>1. PICK s : s = pending
      OBVIOUS
    <3>2. Tail(s) \in Seq(Earlies) /\ Len(Tail(s)) \in Nat /\ Len(s) = Len(Tail(s)) + 1
      BY <1>2, <2>2, <3>1, TailIs
    <3> QED
      BY <2>2, <3>1, <3>2
  <2> QED
    BY <1>4, <2>1, <2>2
<1>6. Len(pending') <= Cap
  BY <1>2, <1>5, BoundsAssumption
<1> QED
  BY <1>1, <1>3, <1>5, <1>6, ElsewhereStep

-----------------------------------------------------------------------------
(* The goroutines fetchUDPInput leave the slice alone.                     *)

\* A step changes buffer b, and no other.
Touches(b) ==
  \/ \E m : memory' = [memory EXCEPT ![b] = m]
  \/ \E r : memory' = [memory EXCEPT ![b].data = r]

LEMMA GetTouches ==
  ASSUME NEW n, NEW b, NEW bytes, Gets(n, b, bytes)
  PROVE  Touches(b)
  BY Zenon DEF Gets, Touches

LEMMA PutTouches ==
  ASSUME NEW b, Puts(b)
  PROVE  Touches(b) \/ memory' = memory
  BY Zenon DEF Puts, Touches

LEMMA OtherBuffer ==
  ASSUME MemoryOK, NEW b, NEW c \in Buffers, c # b, Touches(b)
  PROVE  memory'[c] = memory[c]
<1>1. memory = [x \in Buffers |-> memory[x]]
  BY DEF MemoryOK
<1>2. \/ \E m : memory' = [memory EXCEPT ![b] = m]
      \/ \E r : memory' = [memory EXCEPT ![b].data = r]
  BY DEF Touches
<1> QED
  BY <1>1, <1>2

LEMMA SliceKept ==
  ASSUME IInv, NEW f \in Fetchers, data.in \in Buffers,
         \/ FetchStarts(f) \/ FetchReads(f) \/ Output(f)
         \/ OutputReturns(f) \/ FetchEnds(f)
  PROVE  memory'[data.in] = memory[data.in]
<1>1. PICK c \in Buffers : c = data.in
  OBVIOUS
<1>2. MemoryOK
  BY DEF IInv
<1>3. ASSUME NEW b \in Buffers, Holds(fetch[f], b) PROVE c # b
  BY <1>1, <1>3, At
<1>4. ASSUME NEW n, NEW b \in Buffers, NEW bytes, Gets(n, b, bytes)
      PROVE  memory'[c] = memory[c]
  <2>1. ~InUse(b)
    BY <1>4, Free DEF Gets
  <2>2. c # b
    BY <1>1, <2>1, Nobody
  <2>3. Touches(b)
    BY <1>4, GetTouches
  <2> QED
    BY <1>1, <1>2, <2>2, <2>3, OtherBuffer, Zenon
<1>5. CASE FetchStarts(f) \/ Output(f)
  <2>1. \E n, bytes : \E b \in Buffers : Gets(n, b, bytes)
    BY <1>5, Zenon DEF FetchStarts, Output
  <2> QED
    BY <1>1, <1>4, <2>1, Zenon
<1>6. CASE FetchReads(f) \/ FetchEnds(f)
  <2>1. fetch[f].at = "read"
    BY <1>6 DEF FetchReads, FetchEnds
  <2>2. PICK b : b = fetch[f].own
    OBVIOUS
  <2>3. b \in Buffers /\ Holds(fetch[f], b)
    <3>1. PlaceOK(fetch[f])
      BY At
    <3> QED
      BY <2>1, <2>2, <3>1 DEF PlaceOK, Holds
  <2>4. c # b
    BY <1>3, <2>3
  <2>5. CASE FetchReads(f)
    <3>1. Touches(b)
      BY <2>2, <2>5, Zenon DEF FetchReads, Touches
    <3> QED
      BY <1>1, <1>2, <2>4, <3>1, OtherBuffer, Zenon
  <2>6. CASE FetchEnds(f)
    <3>1. Touches(b) \/ memory' = memory
      BY <2>2, <2>6, PutTouches DEF FetchEnds
    <3> QED
      BY <1>1, <1>2, <2>4, <3>1, OtherBuffer, Zenon
  <2> QED
    BY <1>6, <2>5, <2>6, Zenon
<1>7. CASE OutputReturns(f)
  <2>1. fetch[f].at = "out"
    BY <1>7 DEF OutputReturns
  <2>2. PICK b : b = fetch[f].out
    OBVIOUS
  <2>3. b \in Buffers /\ Holds(fetch[f], b)
    <3>1. PlaceOK(fetch[f])
      BY At
    <3> QED
      BY <2>1, <2>2, <3>1 DEF PlaceOK, Holds
  <2>4. c # b
    BY <1>3, <2>3
  <2>5. Touches(b) \/ memory' = memory
    BY <1>7, <2>2, PutTouches DEF OutputReturns
  <2> QED
    BY <1>1, <1>2, <2>4, <2>5, OtherBuffer, Zenon
<1> QED
  BY <1>1, <1>5, <1>6, <1>7

LEMMA FetchersStep ==
  ASSUME IInv, HandedOK, NEW f \in Fetchers,
         \/ FetchStarts(f) \/ FetchReads(f) \/ Output(f)
         \/ OutputReturns(f) \/ FetchEnds(f)
  PROVE  HandedOK'
<1>1. UNCHANGED <<loop, tun, at, data, refused, state, pending>>
  <2>1. CoreOnly
    BY FetchersOnly
  <2> QED
    BY <2>1 DEF CoreOnly, lwipVars, udpVars
<1>2. data.in \in Buffers => memory'[data.in] = memory[data.in]
  BY SliceKept
<1>3. /\ state \in {"connecting", "connected"}
      /\ pending \in Seq(Earlies) /\ Len(pending) <= Cap
  BY DEF HandedOK, KeptOK, PlacesOK
<1> QED
  BY <1>1, <1>2, <1>3, ElsewhereStep

-----------------------------------------------------------------------------
\* The inductive invariant, with what is handed on and what is queued.
FullInv == IInv /\ ReassOK /\ HandedOK

LEMMA FullInitial == Init => FullInv
<1> SUFFICES ASSUME Init PROVE FullInv
  OBVIOUS
<1>1. IInv /\ ReassOK
  BY Initial, ReassInitial
<1>2. PlacesOK /\ SliceOK
  BY DEF Init, PlacesOK, SliceOK
<1>3. KeptOK
  <2>1. pending = <<>> /\ refused = Nowhere /\ at = "idle"
    BY DEF Init
  <2>2. pending \in Seq(Earlies) /\ Len(pending) = 0
    BY <2>1
  <2> QED
    BY <2>1, <2>2, BoundsAssumption DEF KeptOK
<1> QED
  BY <1>1, <1>2, <1>3 DEF FullInv, HandedOK

LEMMA HandedInductive ==
  ASSUME FullInv, [Next]_vars
  PROVE  HandedOK'
<1>1. IInv /\ ReassOK /\ HandedOK
  BY DEF FullInv
<1>2. CASE UNCHANGED vars
  <2>1. UNCHANGED <<loop, tun, at, data, refused, memory, state, pending>>
    BY <1>2 DEF vars, lwipVars, udpVars, goVars
  <2>2. /\ state \in {"connecting", "connected"}
        /\ pending \in Seq(Earlies) /\ Len(pending) <= Cap
    BY <1>1 DEF HandedOK, KeptOK, PlacesOK
  <2> QED
    BY <1>1, <2>1, <2>2, ElsewhereStep
<1>3. ASSUME NEW f \in Fetchers,
             \/ FetchStarts(f) \/ FetchReads(f) \/ Output(f)
             \/ OutputReturns(f) \/ FetchEnds(f)
      PROVE  HandedOK'
  BY <1>1, <1>3, FetchersStep
<1>4. ASSUME ReadTun \/ InputWhole \/ InputRefused \/ TcpRetry PROVE HandedOK'
  BY <1>1, <1>4, ReadStep, WholeStep, RefusedStep, RetryStep
<1>5. ASSUME \/ InputFragmentDropped \/ InputFragmentQueued \/ InputFragmentFinishes
      PROVE  HandedOK'
  BY <1>1, <1>5, QuietStep, FinishedStep
<1>6. ASSUME EnqueueEarlyPacket \/ ReceiveTo \/ Receive PROVE HandedOK'
  BY <1>1, <1>6, HandsOnStep
<1>7. ASSUME ReassTimer \/ Connected \/ DrainPending PROVE HandedOK'
  BY <1>1, <1>7, PendingStep
<1> QED
  BY <1>2, <1>3, <1>4, <1>5, <1>6, <1>7, Zenon DEF Next

LEMMA FullInductive == FullInv /\ [Next]_vars => FullInv'
<1> SUFFICES ASSUME FullInv, [Next]_vars PROVE FullInv'
  OBVIOUS
<1>1. IInv' /\ HandedOK'
  BY Inductive, HandedInductive DEF FullInv
<1>2. ReassOK'
  BY ReassInductive DEF FullInv, HandedOK, SliceOK
<1> QED
  BY <1>1, <1>2 DEF FullInv

LEMMA FullInvariant == Spec => []FullInv
  BY FullInitial, FullInductive, PTL DEF Spec

\* ip_reass_pbufcount is the number of queued pbufs and never exceeds
\* IP_REASS_MAX_PBUFS, and no datagram has two entries (ip4_reass and its helpers).
THEOREM Bounded == Spec => []ReassBounded
<1>1. FullInv => ReassBounded
  BY DEF FullInv, ReassOK, ListOK, Distinct, ReassBounded
<1> QED
  BY <1>1, FullInvariant, PTL

\* A fragment that waits for the others is not overwritten by the packets that the
\* main loop reads meanwhile: input() copied it (core/input.go).
THEOREM FragmentsStay == Spec => []FragmentsKept
<1>1. ASSUME FullInv PROVE FragmentsKept
  <2>1. reass \in Seq(Entries)
    BY <1>1 DEF FullInv, ReassOK, ListOK
  <2>2. SUFFICES ASSUME NEW i \in DOMAIN reass
                 PROVE  \A j \in DOMAIN reass[i].frags :
                          View(reass[i].frags[j]) = reass[i].frags[j].pkt
    BY DEF FragmentsKept
  <2>3. PICK s : s = reass[i].frags /\ s \in Seq(Fragments)
    <3>1. reass[i] \in Entries
      BY <2>1
    <3> QED
      BY <3>1 DEF Entries
  <2>4. \A j \in DOMAIN s : s[j] \in Fragments
    BY <2>3
  <2> QED
    BY <2>3, <2>4, ViewIs
<1> QED
  BY <1>1, FullInvariant, PTL

\* Every slice that a handler gets, at once, after reassembly, from the early datagrams
\* or when lwIP offers refused data again, is the payload that was sent.
THEOREM Delivered == Spec => []DeliveredIntact
<1>1. ASSUME FullInv PROVE DeliveredIntact
  <2>1. SliceOK /\ KeptOK
    BY <1>1 DEF FullInv, HandedOK
  <2>2. at \in {"udp", "tcp"} => Bytes(data) = Datagram(tun.id)
    BY <2>1 DEF SliceOK
  <2>3. ASSUME NEW r \in Refusals PROVE Bytes(r) \in {Datagram(id) : id \in Tcp}
    <3>1. r.in = "pbuf" /\ r.data \in {Datagram(id) : id \in Tcp}
      BY DEF Refusals
    <3> QED
      BY <3>1, BuffersAssumption DEF Bytes
  <2>4. ASSUME NEW r \in Earlies PROVE Bytes(r) \in {Datagram(id) : id \in Udp4 \cup Udp6}
    <3>1. r.in = "copy" /\ r.data \in {Datagram(id) : id \in Udp4 \cup Udp6}
      BY DEF Earlies, UdpIds
    <3> QED
      BY <3>1, BuffersAssumption DEF Bytes
  <2>5. \A i \in DOMAIN pending : pending[i] \in Earlies
    BY <2>1 DEF KeptOK
  <2>6. (at = "retry" => data \in Refusals) /\ (refused # Nowhere => refused \in Refusals)
    BY <2>1 DEF KeptOK
  <2> QED
    BY <2>2, <2>3, <2>4, <2>5, <2>6 DEF DeliveredIntact
<1> QED
  BY <1>1, FullInvariant, PTL

\* Every variable keeps to its range; the early datagrams are never more than the
\* capacity of their queue.
THEOREM Types == Spec => []TypeOK
<1>1. ASSUME FullInv PROVE TypeOK
  <2>1. PlacesOK /\ SliceOK /\ KeptOK /\ MemoryOK /\ FetchOK /\ ListOK(reass, count)
    BY <1>1 DEF FullInv, HandedOK, IInv, ReassOK
  <2>2. Refusals \subseteq Slices
    BY DEF Refusals, Slices, Ids
  <2>3. IF at = "idle" THEN data = Nowhere ELSE data \in Slices
    BY <2>1, <2>2 DEF PlacesOK, SliceOK, KeptOK
  <2>4. refused \in {Nowhere} \cup Slices /\ Len(pending) <= Cap
    BY <2>1, <2>2 DEF KeptOK
  <2>5. loop = "write" => tun \in Packets
    BY <2>1 DEF SliceOK
  <2>6. ASSUME NEW i \in DOMAIN reass
        PROVE  /\ reass[i].id \in Udp4 /\ reass[i].timer \in 0..MaxAge
               /\ reass[i].last \in BOOLEAN /\ reass[i].frags # <<>>
    <3>1. reass[i] \in Entries /\ InPlace(reass[i])
      BY <2>1, ListIs DEF ToSet
    <3> QED
      BY <3>1 DEF Entries, InPlace
  <2>7. \A f \in Fetchers : fetch[f].at \in {"none", "read", "send", "out"}
    BY <2>1 DEF FetchOK, PlaceOK
  <2>8. pool \subseteq Buffers /\ \A b \in Buffers : memory[b].size \in Nat
    BY <2>1 DEF MemoryOK, CellOK
  <2>9. /\ loop \in {"read", "write"} /\ at \in {"idle", "udp", "tcp", "retry"}
        /\ state \in {"connecting", "connected"}
    BY <2>1 DEF PlacesOK
  <2> QED
    BY <2>3, <2>4, <2>5, <2>6, <2>7, <2>8, <2>9 DEF TypeOK
<1> QED
  BY <1>1, FullInvariant, PTL

-----------------------------------------------------------------------------
(* The entries age.                                                        *)

\* The entries of a datagram in `new` are d ticks nearer to their end than in `old`.
Ages(new, old, d) ==
  \A i \in DOMAIN old : \A j \in DOMAIN new :
    new[j].id = old[i].id => new[j].timer <= old[i].timer - d

LEMMA SameAge ==
  ASSUME NEW list \in Seq(Entries), Distinct(list), NEW t, ToSet(t) \subseteq ToSet(list)
  PROVE  Ages(t, list, 0)
<1> SUFFICES ASSUME NEW i \in DOMAIN list, NEW j \in DOMAIN t, t[j].id = list[i].id
             PROVE  t[j].timer <= list[i].timer - 0
  BY DEF Ages
<1>1. PICK k \in DOMAIN list : t[j] = list[k]
  <2>1. t[j] \in ToSet(list)
    BY DEF ToSet
  <2> QED
    BY <2>1 DEF ToSet
<1>2. k = i
  BY <1>1 DEF Distinct
<1>3. list[i].timer \in Nat
  <2>1. list[i] \in Entries
    OBVIOUS
  <2> QED
    BY <2>1, BoundsAssumption DEF Entries
<1> QED
  BY <1>1, <1>2, <1>3

LEMMA TimerAges ==
  ASSUME ReassOK, ReassTimer
  PROVE  Ages(reass', reass, 1)
<1>1. reass \in Seq(Entries) /\ Distinct(reass)
  BY DEF ReassOK, ListOK
<1>2. PICK I, live : I = DOMAIN reass \ Expired /\ live = Selected(reass, I)
  OBVIOUS
<1>3. I \subseteq DOMAIN reass
  BY <1>2
<1>4. ToSet(live) \subseteq ToSet(reass) /\ live \in Seq(Entries)
  <2>1. live \in Seq(Entries) /\ ToSet(live) = {reass[i] : i \in I}
    BY <1>1, <1>2, <1>3, SelectedKeeps
  <2> QED
    BY <1>3, <2>1 DEF ToSet
<1>5. Ages(live, reass, 0)
  BY <1>1, <1>4, SameAge
<1>6. reass' = [i \in DOMAIN live |-> [live[i] EXCEPT !.timer = @ - 1]]
  BY <1>2 DEF ReassTimer, Aged
<1> SUFFICES ASSUME NEW i \in DOMAIN reass, NEW j \in DOMAIN reass',
                    reass'[j].id = reass[i].id
             PROVE  reass'[j].timer <= reass[i].timer - 1
  BY DEF Ages
<1>7. j \in DOMAIN live /\ reass'[j] = [live[j] EXCEPT !.timer = @ - 1]
  BY <1>6
<1>8. live[j] \in Entries /\ reass[i] \in Entries
  BY <1>1, <1>4, <1>7
<1>9. reass'[j].id = live[j].id /\ reass'[j].timer = live[j].timer - 1
  BY <1>7, <1>8 DEF Entries
<1>10. live[j].timer <= reass[i].timer - 0
  BY <1>5, <1>7, <1>9 DEF Ages
<1>11. live[j].timer \in Nat /\ reass[i].timer \in Nat
  BY <1>8, BoundsAssumption DEF Entries
<1> QED
  BY <1>9, <1>10, <1>11

\* A fragment that is queued leaves the timer of its entry as it was.
LEMMA QueuedAges ==
  ASSUME ReassOK, tun \in Packets, InputFragmentQueued
  PROVE  Ages(reass', reass, 0)
<1>1. reass \in Seq(Entries) /\ Distinct(reass) /\ ListOK(reass, count)
  BY DEF ReassOK, ListOK
<1>2. PICK list, e, c : list = Remaining /\ e = Entry /\ c = Chained
  OBVIOUS
<1>3. /\ ListOK(Remaining, RemainingCount) /\ list \in Seq(Entries)
      /\ ToSet(list) \subseteq ToSet(reass)
      /\ \A x \in ToSet(reass) : x.id = tun.id => x \in ToSet(list)
  BY <1>1, <1>2, RemainingIs DEF ListOK
<1>4. IsFragment /\ ~Unwelcome /\ tun.id \in Udp4
  BY DEF InputFragmentQueued, IsFragment
<1>5. c.id = tun.id /\ c.timer = e.timer
  BY <1>2, <1>3, <1>4, ChainedIs
<1>6. /\ e.id = tun.id
      /\ \/ \E k \in DOMAIN list : e = list[k]
         \/ \A k \in DOMAIN list : list[k].id # tun.id
  BY <1>2, <1>3, <1>4, EntryIs
<1>7. Ages(list, reass, 0)
  BY <1>1, <1>3, SameAge
<1>8. reass' = IF e.frags = <<>> THEN <<c>> \o list
               ELSE [i \in DOMAIN list |-> IF list[i].id = tun.id THEN c ELSE list[i]]
  BY <1>2 DEF InputFragmentQueued
<1>9. \A j \in DOMAIN reass' : reass'[j] = c \/ \E k \in DOMAIN list : reass'[j] = list[k]
  <2>1. CASE e.frags = <<>>
    <3>1. PICK m \in Nat : m = Len(list)
      <4>1. list \in Seq(Entries)
        BY <1>3
      <4> QED
        BY <4>1
    <3>2. PICK t : t = <<c>> \o list
      OBVIOUS
    <3>3. DOMAIN t = 1..(m + 1) /\ DOMAIN list = 1..m /\ t[1] = c
          /\ \A i \in 1..m : t[i + 1] = list[i]
      BY <1>3, <3>1, <3>2
    <3>4. \A j \in 1..(m + 1) : j # 1 => j - 1 \in 1..m /\ (j - 1) + 1 = j
      BY <3>1
    <3>5. \A j \in 1..(m + 1) : t[j] = c \/ \E k \in 1..m : t[j] = list[k]
      BY <3>3, <3>4
    <3> QED
      BY <1>8, <2>1, <3>2, <3>3, <3>5
  <2>2. CASE e.frags # <<>>
    BY <1>8, <2>2
  <2> QED
    BY <2>1, <2>2
<1> SUFFICES ASSUME NEW i \in DOMAIN reass, NEW j \in DOMAIN reass',
                    reass'[j].id = reass[i].id
             PROVE  reass'[j].timer <= reass[i].timer - 0
  BY DEF Ages
<1>10. CASE \E k \in DOMAIN list : reass'[j] = list[k]
  BY <1>7, <1>10 DEF Ages
<1>11. CASE reass'[j] = c
  <2>1. reass[i].id = tun.id
    BY <1>5, <1>11
  <2>2. PICK k \in DOMAIN list : reass[i] = list[k]
    BY <1>3, <2>1 DEF ToSet
  <2>3. PICK l \in DOMAIN list : e = list[l]
    BY <1>6, <2>1, <2>2
  <2>4. list[l].timer <= reass[i].timer - 0
    BY <1>6, <1>7, <2>1, <2>3 DEF Ages
  <2> QED
    BY <1>5, <1>11, <2>3, <2>4
<1> QED
  BY <1>9, <1>10, <1>11

LEMMA StepAges ==
  ASSUME FullInv, [Next]_vars, ~ReassTimer
  PROVE  Ages(reass', reass, 0)
<1>1. ReassOK /\ reass \in Seq(Entries) /\ Distinct(reass) /\ ListOK(reass, count)
  BY DEF FullInv, ReassOK, ListOK
<1>2. CASE reass' = reass
  BY <1>1, <1>2, SameAge
<1>3. ToSet(Remaining) \subseteq ToSet(reass) /\ Remaining \in Seq(Entries)
  BY <1>1, RemainingIs DEF ListOK
<1>4. CASE InputFragmentDropped
  <2>1. reass' = Remaining
    BY <1>4 DEF InputFragmentDropped
  <2> QED
    BY <1>1, <1>3, <2>1, SameAge
<1>5. CASE InputFragmentFinishes
  <2>1. PICK list, I : /\ list = Remaining
                       /\ I = {i \in DOMAIN list : list[i].id # tun.id}
    OBVIOUS
  <2>2. reass' = Selected(list, I)
    BY <1>5, <2>1 DEF InputFragmentFinishes
  <2>3. I \subseteq DOMAIN list /\ list \in Seq(Entries)
    BY <1>3, <2>1
  <2>4. ToSet(reass') = {list[i] : i \in I}
    BY <2>2, <2>3, SelectedKeeps
  <2>5. ToSet(reass') \subseteq ToSet(reass)
    BY <1>3, <2>1, <2>3, <2>4 DEF ToSet
  <2> QED
    BY <1>1, <2>5, SameAge
<1>6. CASE InputFragmentQueued
  <2>1. tun \in Packets
    BY <1>6 DEF FullInv, HandedOK, SliceOK, InputFragmentQueued, Writes
  <2> QED
    BY <1>1, <1>6, <2>1, QueuedAges
<1>7. CASE \/ UNCHANGED vars
           \/ ReadTun \/ InputWhole \/ InputRefused \/ TcpRetry
           \/ EnqueueEarlyPacket \/ ReceiveTo \/ Receive \/ Connected \/ DrainPending
  <2>1. UNCHANGED reass
    BY <1>7 DEF vars, lwipVars, ReadTun, InputWhole, InputRefused, TcpRetry,
                EnqueueEarlyPacket, ReceiveTo, Receive, Returns, Connected, DrainPending
  <2> QED
    BY <1>2, <2>1
<1>8. CASE \E f \in Fetchers : \/ FetchStarts(f) \/ FetchReads(f) \/ Output(f)
                              \/ OutputReturns(f) \/ FetchEnds(f)
  <2>1. CoreOnly
    BY <1>8, FetchersOnly
  <2> QED
    BY <1>2, <2>1 DEF CoreOnly, lwipVars
<1> QED
  BY <1>4, <1>5, <1>6, <1>7, <1>8, Zenon DEF Next

\* A tick of ip_reass_tmr makes every entry that stays a tick older, and no fragment,
\* welcome or not, makes one younger: the tick after IP_REASS_MAXAGE ticks
\* takes it at the latest.
THEOREM Age == Spec => EntriesAge
<1>1. ASSUME FullInv, [Next]_vars
      PROVE  \A i \in DOMAIN reass : \A j \in DOMAIN reass' :
               reass'[j].id = reass[i].id =>
                 reass'[j].timer <= reass[i].timer - (IF ReassTimer THEN 1 ELSE 0)
  <2>1. CASE ReassTimer
    <3>1. Ages(reass', reass, 1)
      BY <1>1, <2>1, TimerAges DEF FullInv
    <3> QED
      BY <2>1, <3>1 DEF Ages
  <2>2. CASE ~ReassTimer
    <3>1. Ages(reass', reass, 0)
      BY <1>1, <2>2, StepAges
    <3> QED
      BY <2>2, <3>1 DEF Ages
  <2> QED
    BY <2>1, <2>2
<1>2. FullInv /\ [Next]_vars =>
        [\A i \in DOMAIN reass : \A j \in DOMAIN reass' :
           reass'[j].id = reass[i].id =>
             reass'[j].timer <= reass[i].timer - (IF ReassTimer THEN 1 ELSE 0)]_vars
  BY <1>1
<1> QED
  BY <1>2, FullInvariant, PTL DEF Spec, EntriesAge

=============================================================================
