-------------------------- MODULE IpStackTcp_proofs --------------------------
(***************************************************************************)
(* What is proved of IpStackTcp for every amount of data, every capacity   *)
(* of chRead, all lengths of chains and all faults: its types, when        *)
(* tcpRecvFn blocks with data, that WriteTo is the stream of UplinkStream, *)
(* that every unit is in its place in that stream, that none is freed      *)
(* while somebody holds it, and what ReadFrom passes on.                   *)
(***************************************************************************)
EXTENDS IpStackTcp, SequenceLemmas, TLAPS

\* lwIP is inside exactly while somebody holds is.Mutex; refused data are offered
\* before the segment, which still fits what the peer may send.
CallOK ==
  /\ lock = "none" => step = "none"
  /\ lock # "input" => seg = Ack /\ step # "segment"
  /\ retrying => step \in {"recv", "put", "eof", "eofput"}
  /\ step \in {"retry", "segment"} \/ retrying
       => arrived + Len(seg.data) <= MaxData

\* Once conn.pcb is nil it stays so, and only then does tcpErrFn send.
ChanOK ==
  /\ \A c \in Callers : errAt[c] \in {"put", "panic"} => ~connPcb
  /\ step = "put" /\ connPcb => Len(chRead) < Cap
  /\ writer \in {"check", "write", "lock"} => p # Nil

\* Before newTcpConn the handler does nothing, and lwIP frees the pcb only as the
\* last thing it does with a packet.
AcceptOK ==
  /\ accept = "spawned" => writer = "idle" /\ sender = "idle"
  /\ ~registered => accept = "spawned" \/ pcb = "gone"
  /\ lock = "accept" => accept # "spawned"
  /\ lock = "input" /\ ~registered => pcb # "gone" \/ step = "leave"

\* What ReadFrom checks and writes is a unit.
SenderOK == sender \in {"check", "write"} => Len(b) = 1

\* The inductive invariant.
IInv == TypeOK /\ CallOK /\ ChanOK /\ AcceptOK /\ SenderOK

-----------------------------------------------------------------------------
(* Chains.                                                                 *)

LEMMA ChainUnits ==
  ASSUME NEW first \in Nat, NEW n \in Nat, n > 0 => first + n <= MaxData
  PROVE  Chain(first, n) \in Chains /\ Len(Chain(first, n)) = n
  BY BoundsAssumption DEF Chain, Chains

LEMMA NilChain == Nil \in Chains /\ Len(Nil) = 0
  BY DEF Nil, Chains

LEMMA Popped ==
  ASSUME NEW S, NEW q \in Seq(S), q # Nil
  PROVE  Head(q) \in S /\ Tail(q) \in Seq(S) /\ Len(Tail(q)) = Len(q) - 1
  BY DEF Nil

LEMMA Pushed ==
  ASSUME NEW S, NEW q \in Seq(S), NEW x \in S
  PROVE  Append(q, x) \in Seq(S) /\ Len(Append(q, x)) = Len(q) + 1
  OBVIOUS

LEMMA OneMore ==
  ASSUME NEW S, NEW q \in Seq(S), NEW unit \in Seq(S), Len(unit) = 1
  PROVE  q \o unit \in Seq(S) /\ Len(q \o unit) = Len(q) + 1
<1>1. PICK l : l = Len(q)
  OBVIOUS
<1>2. Joined(Join(q, unit), q, unit, l, 1)
  BY <1>1, JoinIs
<1>3. Len(Join(q, unit)) = l + 1
  BY <1>2 DEF Joined
<1>4. Join(q, unit) \in Seq(S)
  BY JoinType
<1> QED
  BY <1>1, <1>3, <1>4 DEF Join

LEMMA RefusedType ==
  /\ Nothing \in [data : Chains, fin : BOOLEAN]
  /\ \A d \in Chains, f \in BOOLEAN :
       [data |-> d, fin |-> f] \in [data : Chains, fin : BOOLEAN]
  /\ \A d \in Chains, r \in [data : Chains, fin : BOOLEAN] :
       [r EXCEPT !.data = d] \in [data : Chains, fin : BOOLEAN]
  BY NilChain DEF Nothing

-----------------------------------------------------------------------------
(* The invariant.                                                          *)

LEMMA Initial == Init => IInv
<1> SUFFICES ASSUME Init PROVE IInv
  OBVIOUS
<1> USE BoundsAssumption, NilChain
<1>1. /\ Nothing \in [data : Chains, fin : BOOLEAN]
      /\ Ack \in [data : Chains, fin : BOOLEAN, rst : BOOLEAN]
  BY DEF Nothing, Ack
<1>2. TypeOK
  <2>1. chRead \in Seq(Chains) /\ Len(chRead) = 0 /\ 0 \in 0..MaxData
    BY DEF Init
  <2>2. /\ refused \in [data : Chains, fin : BOOLEAN]
        /\ seg \in [data : Chains, fin : BOOLEAN, rst : BOOLEAN]
    BY <1>1 DEF Init
  <2>3. errAt \in [Callers -> {"out", "test", "clear", "put", "panic"}]
    BY DEF Init
  <2>4. data \in Chains /\ p \in Chains /\ delivered \in Chains
    <3>1. <<>> \in Chains
      BY DEF Chains
    <3> QED
      BY <3>1 DEF Init
  <2>5. /\ registered \in BOOLEAN /\ ended \in BOOLEAN /\ retrying \in BOOLEAN
        /\ connPcb \in BOOLEAN /\ closed \in BOOLEAN
    BY Zenon DEF Init
  <2>6. b \in Seq(1..MaxWrite) /\ queued \in Seq(1..MaxWrite) /\ Len(queued) = 0
    BY DEF Init, Nil
  <2> QED
    BY <2>1, <2>2, <2>3, <2>4, <2>5, <2>6 DEF Init, TypeOK
<1>3. CallOK /\ ChanOK /\ AcceptOK /\ SenderOK
  BY DEF Init, CallOK, ChanOK, AcceptOK, SenderOK, Callers, Ack
<1> QED
  BY <1>2, <1>3 DEF IInv

\* What a callback that returned ERR_OK leaves.
LEMMA AcceptedTypes ==
  ASSUME TypeOK, Accepted
  PROVE  /\ step' \in {"eof", "segment", "leave"} /\ retrying' \in BOOLEAN
         /\ refused' \in [data : Chains, fin : BOOLEAN] /\ data' \in Chains
<1>1. step' \in {"eof", "segment", "leave"}
  BY DEF Accepted, Resume
<1>2. refused.fin \in BOOLEAN /\ retrying \in BOOLEAN
  BY DEF TypeOK
<1>3. retrying' \in BOOLEAN
  BY <1>2, Zenon DEF Accepted
<1> QED
  BY <1>1, <1>3, NilChain, RefusedType DEF Accepted

LEMMA TypeStep == IInv /\ [Next]_vars => TypeOK'
<1> SUFFICES ASSUME IInv, [Next]_vars PROVE TypeOK'
  OBVIOUS
<1> USE BoundsAssumption, NilChain, RefusedType
<1> USE DEF TypeOK, lwipVars, callVars, chanVars, writerVars, senderVars
<1>1. TypeOK
  BY DEF IInv
<1>2. CASE UNCHANGED vars
  BY <1>1, <1>2 DEF vars
<1>3. CASE Packet
  <2>1. PICK n \in 0..MaxChain, fin \in BOOLEAN, rst \in BOOLEAN :
          /\ n > 0 => arrived + n <= MaxData
          /\ seg' = [data |-> Chain(arrived, n), fin |-> fin, rst |-> rst]
    BY <1>3 DEF Packet
  <2>2. Chain(arrived, n) \in Chains
    BY <1>1, <2>1, ChainUnits
  <2>3. seg' \in [data : Chains, fin : BOOLEAN, rst : BOOLEAN]
    BY <2>1, <2>2
  <2> QED
    BY <1>1, <1>3, <2>3 DEF Packet
<1>4. CASE Retry
  <2>1. refused' \in [data : Chains, fin : BOOLEAN] /\ data' \in Chains
    BY <1>1, <1>4 DEF Retry
  <2> QED
    BY <1>1, <1>4, <2>1 DEF Retry
<1>5. CASE Segment
  <2>1. seg.data \in Chains /\ seg.fin \in BOOLEAN /\ Len(seg.data) \in Nat
    BY <1>1 DEF Chains
  <2>2. arrived' \in 0..MaxData /\ arrived' = arrived + Len(seg.data)
    BY <1>1, <1>5, <2>1 DEF IInv, CallOK, Segment
  <2>3. early' \in 0..arrived'
    BY <1>1, <1>5, <2>1, <2>2 DEF Segment
  <2>4. ended' \in BOOLEAN
    BY <1>1, <1>5, <2>1, Zenon DEF Segment
  <2>5. unacked' \in 0..Len(queued) /\ sender' \in {sender, "read"}
    BY <1>1, <1>5 DEF Segment, Signalled
  <2>6. /\ pcb' \in {"live", "closing", "gone"}
        /\ step' \in {"recv", "eof", "leave"}
        /\ data' \in Chains
    BY <1>1, <1>5, <2>1 DEF Segment
  <2>7. /\ UNCHANGED <<registered, refused, lock, seg, retrying, chanVars, accept>>
        /\ UNCHANGED <<writerVars, freed, offered, b, queued, errAt>>
    BY <1>5 DEF Segment
  <2> QED
    BY <1>1, <2>2, <2>3, <2>4, <2>5, <2>6, <2>7
<1>6. CASE ResetEnters \/ ResetLeaves
  BY <1>1, <1>6 DEF ResetEnters, ResetLeaves, Callers
<1>7. CASE RecvDrops
  BY <1>1, <1>7, AcceptedTypes DEF RecvDrops
<1>8. CASE RecvTakes
  BY <1>1, <1>8 DEF RecvTakes
<1>9. CASE RecvPuts
  <2>1. chRead' \in Seq(Chains) /\ Len(chRead') <= Cap
    BY <1>1, <1>9, Pushed DEF RecvPuts, ChannelHasRoom
  <2> QED
    BY <1>1, <1>9, <2>1, AcceptedTypes DEF RecvPuts
<1>10. CASE RecvRefuses
  <2>1. Kept \in [data : Chains, fin : BOOLEAN]
    BY <1>1 DEF Kept
  <2>2. AfterRefusal \in {"leave", "segment"}
    BY DEF AfterRefusal, Resume
  <2>3. retrying' \in BOOLEAN
    BY <1>10, Zenon DEF RecvRefuses
  <2> QED
    BY <1>1, <1>10, <2>1, <2>2, <2>3 DEF RecvRefuses
<1>11. CASE Eof
  <2>1. retrying' \in BOOLEAN
    BY <1>1, <1>11, Zenon DEF Eof
  <2> QED
    BY <1>1, <1>11, <2>1 DEF Eof, Resume
<1>12. CASE EofPuts
  <2>1. chRead' \in Seq(Chains) /\ Len(chRead') <= Cap
    BY <1>1, <1>12, Pushed DEF EofPuts, ChannelHasRoom
  <2>2. retrying' \in BOOLEAN
    BY <1>12, Zenon DEF EofPuts
  <2> QED
    BY <1>1, <1>12, <2>1, <2>2 DEF EofPuts, Resume
<1>13. CASE PcbLost
  <2>1. retrying' \in BOOLEAN
    BY <1>13, Zenon DEF PcbLost
  <2> QED
    BY <1>1, <1>13, <2>1 DEF PcbLost
<1>14. CASE Leave
  <2>1. seg' \in [data : Chains, fin : BOOLEAN, rst : BOOLEAN]
    BY <1>14 DEF Leave, Ack
  <2> QED
    BY <1>1, <1>14, <2>1 DEF Leave
<1>15. CASE Register
  BY <1>1, <1>15 DEF Register
<1>16. CASE HandleReturns \/ AcceptRetries \/ AcceptAborted
  BY <1>1, <1>16 DEF HandleReturns, AcceptRetries, AcceptAborted
<1>17. CASE AcceptAborts
  BY <1>1, <1>17 DEF AcceptAborts, At, Callers
<1>18. CASE Close
  <2>1. connPcb' \in BOOLEAN /\ closed' \in BOOLEAN
    BY <1>18, Zenon DEF Close
  <2>2. chRead' \in Seq(Chains) /\ Len(chRead') <= Cap
    BY <1>1, <1>18 DEF Close
  <2> QED
    BY <1>1, <1>18, <2>1, <2>2 DEF Close
<1>19. CASE WriterTakes
  <2>1. /\ Head(chRead) \in Chains /\ Tail(chRead) \in Seq(Chains)
        /\ Len(Tail(chRead)) <= Cap
    BY <1>1, <1>19, Popped DEF WriterTakes, Nil
  <2> QED
    BY <1>1, <1>19, <2>1 DEF WriterTakes
<1>20. CASE WriterTakesNil
  <2>1. chRead' \in Seq(Chains) /\ Len(chRead') <= Cap
    <3>1. CASE chRead # <<>> /\ chRead' = Tail(chRead)
      BY <1>1, <3>1, Popped DEF Nil
    <3> QED
      BY <1>1, <1>20, <3>1 DEF WriterTakesNil
  <2> QED
    BY <1>1, <1>20, <2>1 DEF WriterTakesNil
<1>21. CASE WriterStarts \/ WriterTimesOut \/ WriterGoesOn \/ WriterChecks
            \/ WriterReturns
  BY <1>1, <1>21 DEF WriterStarts, WriterTimesOut, WriterGoesOn, WriterChecks,
     WriterReturns
<1>22. CASE WriterWrites
  <2>1. delivered' \in Chains
    BY <1>1, <1>22, Popped, Pushed DEF WriterWrites, IInv, ChanOK, Chains
  <2> QED
    BY <1>1, <1>22, <2>1 DEF WriterWrites
<1>23. CASE WriterFrees
  <2>1. p' \in Chains
    BY <1>1, <1>23, Popped DEF WriterFrees, IInv, ChanOK, Chains
  <2> QED
    BY <1>1, <1>23, <2>1 DEF WriterFrees
<1>24. CASE WriterFails \/ SenderFails
  BY <1>1, <1>24 DEF WriterFails, SenderFails, Aborts, At, Callers
<1>25. CASE SenderStarts \/ SenderChecks \/ SenderReturns \/ SenderOutputs
            \/ SenderWaits
  BY <1>1, <1>25 DEF SenderStarts, SenderChecks, SenderReturns, SenderOutputs,
     SenderWaits
<1>26. CASE SenderReads
  <2>1. CASE UNCHANGED offered /\ b' = Nil /\ sender' = "done"
    BY <1>1, <1>26, <2>1 DEF SenderReads, Nil
  <2>2. CASE offered < MaxWrite /\ offered' = offered + 1 /\ b' = <<offered'>>
    <3>1. offered' \in 0..MaxWrite /\ offered' \in 1..MaxWrite
      BY <1>1, <2>2
    <3>2. b' \in Seq(1..MaxWrite)
      BY <2>2, <3>1
    <3> QED
      BY <1>1, <1>26, <3>1, <3>2 DEF SenderReads
  <2> QED
    BY <1>26, <2>1, <2>2 DEF SenderReads
<1>27. CASE SenderWrites
  <2>1. CASE UNCHANGED <<queued, unacked>>
    BY <1>1, <1>27, <2>1 DEF SenderWrites
  <2>2. CASE queued' = queued \o b /\ unacked' = unacked + 1
    <3>1. Len(b) = 1 /\ b \in Seq(1..MaxWrite) /\ queued \in Seq(1..MaxWrite)
      BY <1>1, <1>27 DEF SenderWrites, IInv, SenderOK
    <3>2. queued' \in Seq(1..MaxWrite) /\ Len(queued') = Len(queued) + 1
      BY <2>2, <3>1, OneMore
    <3>3. unacked' \in 0..Len(queued')
      BY <1>1, <2>2, <3>1, <3>2
    <3> QED
      BY <1>1, <1>27, <3>2, <3>3 DEF SenderWrites
  <2> QED
    BY <1>27, <2>1, <2>2 DEF SenderWrites
<1>28. ASSUME NEW c \in Callers, Callback(c) PROVE TypeOK'
  <2>1. CASE ErrTests(c) \/ ErrPanics(c)
    BY <1>1, <2>1 DEF ErrTests, ErrPanics, At, Callers
  <2>2. CASE ErrClears(c)
    <3>1. connPcb' \in BOOLEAN
      BY <2>2, Zenon DEF ErrClears
    <3> QED
      BY <1>1, <2>2, <3>1 DEF ErrClears, At, Callers
  <2>3. CASE ErrPuts(c)
    <3>1. chRead' \in Seq(Chains) /\ Len(chRead') <= Cap
      BY <1>1, <2>3, Pushed DEF ErrPuts, ChannelHasRoom
    <3> QED
      BY <1>1, <2>3, <3>1 DEF ErrPuts, At, Callers
  <2> QED
    BY <1>28, <2>1, <2>2, <2>3 DEF Callback
<1> QED
  BY <1>2, <1>3, <1>4, <1>5, <1>6, <1>7, <1>8, <1>9, <1>10, <1>11, <1>12, <1>13,
     <1>14, <1>15, <1>16, <1>17, <1>18, <1>19, <1>20, <1>21, <1>22, <1>23, <1>24,
     <1>25, <1>26, <1>27, <1>28
     DEF Next, Lwip, Acceptor, WriteTo, ReadFrom

\* Where lwIP goes on after a callback.
LEMMA AcceptedGoes ==
  ASSUME CallOK, Accepted, step \in {"recv", "put"}
  PROVE  /\ step' # "none" /\ step' # "put" /\ (step' = "segment" => lock = "input")
         /\ retrying' => step' = "eof"
         /\ step' \in {"retry", "segment"} \/ retrying' => retrying
<1> USE DEF CallOK
<1>1. CASE retrying /\ refused.fin
  BY <1>1 DEF Accepted
<1>2. CASE retrying /\ ~refused.fin
  BY <1>2 DEF Accepted, Resume
<1>3. CASE ~retrying
  <2>1. step' \in {"eof", "leave"} /\ ~retrying'
    BY <1>3 DEF Accepted, Resume
  <2> QED
    BY <2>1
<1> QED
  BY <1>1, <1>2, <1>3

LEMMA CallStep == IInv /\ [Next]_vars => CallOK'
<1> SUFFICES ASSUME IInv, [Next]_vars PROVE CallOK'
  OBVIOUS
<1>1. TypeOK /\ CallOK
  BY DEF IInv
<1> USE <1>1, BoundsAssumption DEF lwipVars, callVars, chanVars, writerVars, senderVars
<1>2. CASE UNCHANGED vars
  BY <1>2 DEF vars, CallOK
<1>3. CASE Packet
  <2>1. PICK n \in 0..MaxChain, fin \in BOOLEAN, rst \in BOOLEAN :
          /\ n > 0 => arrived + n <= MaxData
          /\ seg' = [data |-> Chain(arrived, n), fin |-> fin, rst |-> rst]
    BY <1>3 DEF Packet
  <2>2. arrived \in Nat /\ arrived <= MaxData
    BY DEF TypeOK
  <2>3. arrived + Len(seg'.data) <= MaxData
    BY <2>1, <2>2, ChainUnits
  <2> QED
    BY <1>3, <2>3 DEF Packet, CallOK
<1>4. CASE Retry
  BY <1>4 DEF Retry, CallOK
<1>5. CASE Segment
  <2>1. lock # "none" /\ ~retrying /\ step' \in {"recv", "eof", "leave"}
    BY <1>5 DEF Segment, CallOK
  <2> QED
    BY <1>5, <2>1 DEF Segment, CallOK
<1>6. CASE ResetEnters \/ ResetLeaves
  BY <1>6 DEF ResetEnters, ResetLeaves, CallOK
<1>7. CASE RecvDrops \/ RecvPuts
  <2>1. Accepted /\ step \in {"recv", "put"} /\ UNCHANGED <<lock, seg, arrived>>
    BY <1>7 DEF RecvDrops, RecvPuts
  <2> QED
    BY <2>1, AcceptedGoes DEF CallOK
<1>8. CASE RecvTakes
  BY <1>8 DEF RecvTakes, CallOK
<1>9. CASE RecvRefuses
  <2>1. \/ AfterRefusal = "leave"
        \/ AfterRefusal = "segment" /\ retrying /\ lock = "input"
    BY DEF AfterRefusal, Resume
  <2> QED
    BY <1>9, <2>1 DEF RecvRefuses, CallOK
<1>10. CASE Eof
  BY <1>10 DEF Eof, Resume, CallOK
<1>11. CASE EofPuts
  BY <1>11 DEF EofPuts, Resume, CallOK
<1>12. CASE PcbLost
  BY <1>12 DEF PcbLost, CallOK
<1>13. CASE Leave
  BY <1>13 DEF Leave, CallOK
<1>14. CASE AcceptRetries \/ AcceptAborts \/ AcceptAborted
  <2>1. Len(Ack.data) = 0 /\ arrived \in Nat /\ arrived <= MaxData
    BY NilChain DEF Ack, TypeOK
  <2> QED
    BY <1>14, <2>1 DEF AcceptRetries, AcceptAborts, AcceptAborted, CallOK
<1>15. CASE UNCHANGED <<callVars, arrived>>
  BY <1>15 DEF CallOK
<1>16. CASE Register \/ HandleReturns \/ Close
  BY <1>15, <1>16 DEF Register, HandleReturns, Close
<1>17. CASE WriteTo
  BY <1>15, <1>17 DEF WriteTo, WriterStarts, WriterTakes, WriterTakesNil,
     WriterTimesOut, WriterGoesOn, WriterChecks, WriterWrites, WriterFrees,
     WriterFails, WriterReturns
<1>18. CASE ReadFrom
  BY <1>15, <1>18 DEF ReadFrom, SenderStarts, SenderReads, SenderChecks,
     SenderWrites, SenderFails, SenderReturns, SenderOutputs, SenderWaits
<1>19. ASSUME NEW c \in Callers, Callback(c) PROVE CallOK'
  BY <1>15, <1>19 DEF Callback, ErrTests, ErrClears, ErrPuts, ErrPanics
<1> QED
  BY <1>2, <1>3, <1>4, <1>5, <1>6, <1>7, <1>8, <1>9, <1>10, <1>11, <1>12, <1>13,
     <1>14, <1>16, <1>17, <1>18, <1>19 DEF Next, Lwip, Acceptor

LEMMA ChanStep == IInv /\ [Next]_vars => ChanOK'
<1> SUFFICES ASSUME IInv, [Next]_vars PROVE ChanOK'
  OBVIOUS
<1>1. TypeOK /\ CallOK /\ ChanOK
  BY DEF IInv
<1> USE <1>1 DEF lwipVars, callVars, chanVars, writerVars, senderVars
<1>2. CASE UNCHANGED <<step, connPcb, chRead, writer, p, errAt>>
  BY <1>2 DEF ChanOK
<1>3. ASSUME UNCHANGED <<connPcb, chRead, errAt, writer, p>>,
             step' = "put" => step = "put"
      PROVE  ChanOK'
  BY <1>3 DEF ChanOK
<1>4. CASE UNCHANGED vars
  BY <1>2, <1>4 DEF vars
<1>5. CASE Packet \/ Retry \/ Segment \/ RecvDrops \/ RecvRefuses \/ Eof \/ PcbLost
           \/ Leave
  <2>1. step' # "put"
    BY <1>5, AcceptedGoes DEF Packet, Retry, Segment, RecvDrops, RecvRefuses,
       AfterRefusal, Resume, Eof, PcbLost, Leave
  <2>2. UNCHANGED <<connPcb, chRead, errAt, writer, p>>
    BY <1>5 DEF Packet, Retry, Segment, RecvDrops, RecvRefuses, Eof, PcbLost, Leave
  <2> QED
    BY <1>3, <2>1, <2>2
<1>6. CASE ResetEnters
  BY <1>6 DEF ResetEnters, ChanOK, TypeOK, Callers
<1>7. CASE ResetLeaves
  BY <1>3, <1>7 DEF ResetLeaves
<1>8. CASE RecvTakes
  <2>1. Len(chRead) < Cap
    BY <1>8, BoundsAssumption DEF RecvTakes, Refuses, TypeOK
  <2> QED
    BY <1>8, <2>1 DEF RecvTakes, ChanOK
<1>9. CASE RecvPuts \/ EofPuts
  <2>1. step' # "put"
    BY <1>9, AcceptedGoes DEF RecvPuts, EofPuts, Resume
  <2>2. UNCHANGED <<connPcb, errAt, writer, p>>
    BY <1>9 DEF RecvPuts, EofPuts
  <2> QED
    BY <2>1, <2>2 DEF ChanOK
<1>10. CASE Register \/ HandleReturns \/ AcceptRetries \/ AcceptAborted
  BY <1>3, <1>10 DEF Register, HandleReturns, AcceptRetries, AcceptAborted
<1>11. CASE AcceptAborts
  <2>1. errAt' = errAt \/ errAt' = [errAt EXCEPT !["locked"] = "test"]
    BY <1>11 DEF AcceptAborts, At
  <2>2. UNCHANGED <<connPcb, chRead, writer, p>> /\ step' = "aborted"
    BY <1>11 DEF AcceptAborts
  <2> QED
    BY <2>1, <2>2 DEF ChanOK, TypeOK, Callers
<1>12. CASE Close
  BY <1>12 DEF Close, ChanOK
<1>13. CASE WriterTakes
  <2>1. Len(chRead') < Len(chRead) /\ Len(chRead) \in Nat /\ Len(chRead') \in Nat
    BY <1>13 DEF WriterTakes, TypeOK
  <2>2. UNCHANGED <<step, connPcb, errAt>> /\ p' # Nil
    BY <1>13 DEF WriterTakes
  <2> QED
    BY <2>1, <2>2, BoundsAssumption DEF ChanOK
<1>14. CASE WriterTakesNil
  <2>1. Len(chRead') <= Len(chRead) /\ Len(chRead) \in Nat /\ Len(chRead') \in Nat
    BY <1>14 DEF WriterTakesNil, TypeOK
  <2>2. UNCHANGED <<step, connPcb, errAt>> /\ writer' = "done"
    BY <1>14 DEF WriterTakesNil
  <2> QED
    BY <2>1, <2>2, BoundsAssumption DEF ChanOK
<1>15. CASE WriterStarts \/ WriterTimesOut \/ WriterGoesOn \/ WriterChecks
            \/ WriterWrites \/ WriterFrees \/ WriterReturns
  <2>1. UNCHANGED <<step, connPcb, chRead, errAt>>
    BY <1>15 DEF WriterStarts, WriterTimesOut, WriterGoesOn, WriterChecks,
       WriterWrites, WriterFrees, WriterReturns
  <2>2. writer' \in {"check", "write", "lock"} => p' # Nil
    BY <1>15 DEF WriterStarts, WriterTimesOut, WriterGoesOn, WriterChecks,
       WriterWrites, WriterFrees, WriterReturns, ChanOK
  <2> QED
    BY <2>1, <2>2 DEF ChanOK
<1>16. CASE WriterFails \/ SenderFails
  <2>1. PICK c \in Callers : errAt' = errAt \/ errAt' = [errAt EXCEPT ![c] = "test"]
    BY <1>16 DEF WriterFails, SenderFails, Aborts, At, Callers
  <2>2. /\ UNCHANGED <<step, connPcb, chRead, p>>
        /\ writer' = writer \/ writer' = "abort"
    BY <1>16 DEF WriterFails, SenderFails
  <2> QED
    BY <2>1, <2>2 DEF ChanOK, TypeOK
<1>17. CASE ReadFrom /\ ~SenderFails
  BY <1>2, <1>17 DEF ReadFrom, SenderStarts, SenderReads, SenderChecks,
     SenderWrites, SenderReturns, SenderOutputs, SenderWaits
<1>18. ASSUME NEW c \in Callers, Callback(c) PROVE ChanOK'
  <2>1. UNCHANGED <<step, writer, p>>
    BY <1>18 DEF Callback, ErrTests, ErrClears, ErrPuts, ErrPanics
  <2>2. CASE ErrTests(c)
    BY <2>1, <2>2 DEF ErrTests, At, ChanOK, TypeOK
  <2>3. CASE ErrClears(c)
    BY <2>1, <2>3 DEF ErrClears, At, ChanOK, TypeOK
  <2>4. CASE ErrPuts(c) \/ ErrPanics(c)
    BY <2>1, <2>4 DEF ErrPuts, ErrPanics, At, ChanOK, TypeOK
  <2> QED
    BY <1>18, <2>2, <2>3, <2>4 DEF Callback
<1> QED
  BY <1>4, <1>5, <1>6, <1>7, <1>8, <1>9, <1>10, <1>11, <1>12, <1>13, <1>14, <1>15,
     <1>16, <1>17, <1>18 DEF Next, Lwip, Acceptor, WriteTo

\* A packet that finds no callbacks finds the pcb.
LEMMA Unregistered ==
  ASSUME IInv, step = "segment", ~registered
  PROVE  accept = "spawned" /\ pcb # "gone"
<1>1. lock = "input"
  BY DEF IInv, CallOK
<1> QED
  BY <1>1 DEF IInv, AcceptOK

LEMMA AcceptStep == IInv /\ [Next]_vars => AcceptOK'
<1> SUFFICES ASSUME IInv, [Next]_vars PROVE AcceptOK'
  OBVIOUS
<1>1. TypeOK /\ CallOK /\ AcceptOK
  BY DEF IInv
<1> USE <1>1 DEF lwipVars, callVars, chanVars, writerVars, senderVars
<1>2. ASSUME UNCHANGED <<registered, accept, lock, pcb>>,
             accept = "spawned" => UNCHANGED <<writer, sender>>,
             step = "leave" => step' = "leave"
      PROVE  AcceptOK'
  BY <1>2 DEF AcceptOK
<1>3. CASE UNCHANGED vars
  BY <1>2, <1>3 DEF vars
<1>4. CASE Packet
  BY <1>4 DEF Packet, AcceptOK
<1>5. CASE Retry \/ ResetEnters \/ RecvDrops \/ RecvTakes \/ RecvPuts \/ RecvRefuses
           \/ Eof \/ EofPuts \/ PcbLost
  BY <1>2, <1>5 DEF Retry, ResetEnters, RecvDrops, RecvTakes, RecvPuts, RecvRefuses,
     Eof, EofPuts, PcbLost
<1>6. CASE Segment
  <2>1. UNCHANGED <<registered, accept, lock, writer>>
    BY <1>6 DEF Segment
  <2>2. accept = "spawned" => sender' = sender
    BY <1>6 DEF Segment, Signalled, AcceptOK
  <2>3. step' = "leave" \/ registered
    BY <1>6 DEF Segment
  <2>4. ~registered => accept = "spawned"
    BY <1>6, Unregistered DEF Segment
  <2> QED
    BY <2>1, <2>2, <2>3, <2>4 DEF AcceptOK
<1>7. CASE ResetLeaves
  BY <1>7 DEF ResetLeaves, AcceptOK
<1>8. CASE Leave
  BY <1>8 DEF Leave, AcceptOK
<1>9. CASE Register
  BY <1>9 DEF Register, AcceptOK
<1>10. CASE HandleReturns \/ AcceptRetries \/ AcceptAborts \/ AcceptAborted
  BY <1>10 DEF HandleReturns, AcceptRetries, AcceptAborts, AcceptAborted, AcceptOK
<1>11. CASE Close
  BY <1>2, <1>11 DEF Close
<1>12. CASE WriteTo
  <2>1. /\ accept # "spawned" /\ UNCHANGED <<registered, accept, lock, step>>
        /\ pcb' = pcb \/ (pcb # "gone" /\ pcb' = "gone")
    BY <1>12 DEF WriteTo, WriterStarts, WriterTakes, WriterTakesNil, WriterTimesOut,
       WriterGoesOn, WriterChecks, WriterWrites, WriterFrees, WriterFails,
       WriterReturns, Aborts, AcceptOK
  <2> QED
    BY <2>1 DEF AcceptOK
<1>13. CASE ReadFrom
  <2>1. /\ accept # "spawned" /\ UNCHANGED <<registered, accept, lock, step>>
        /\ pcb' = pcb \/ (pcb # "gone" /\ pcb' = "gone")
    BY <1>13 DEF ReadFrom, SenderStarts, SenderReads, SenderChecks, SenderWrites,
       SenderFails, SenderReturns, SenderOutputs, SenderWaits, Aborts, AcceptOK
  <2> QED
    BY <2>1 DEF AcceptOK
<1>14. ASSUME NEW c \in Callers, Callback(c) PROVE AcceptOK'
  BY <1>2, <1>14 DEF Callback, ErrTests, ErrClears, ErrPuts, ErrPanics
<1> QED
  BY <1>3, <1>4, <1>5, <1>6, <1>7, <1>8, <1>9, <1>10, <1>11, <1>12, <1>13, <1>14
     DEF Next, Lwip, Acceptor

LEMMA SenderStep == IInv /\ [Next]_vars => SenderOK'
<1> SUFFICES ASSUME IInv, [Next]_vars PROVE SenderOK'
  OBVIOUS
<1>1. TypeOK /\ SenderOK
  BY DEF IInv
<1> USE <1>1 DEF lwipVars, callVars, chanVars, writerVars, senderVars
<1>2. ASSUME UNCHANGED <<sender, b>> PROVE SenderOK'
  BY <1>2 DEF SenderOK
<1>3. CASE UNCHANGED vars
  BY <1>2, <1>3 DEF vars
<1>4. CASE Lwip /\ ~Segment
  BY <1>2, <1>4 DEF Lwip, Packet, Retry, ResetEnters, ResetLeaves, RecvDrops,
     RecvTakes, RecvPuts, RecvRefuses, Eof, EofPuts, PcbLost, Leave
<1>5. CASE Segment
  <2>1. sender' \in {sender, "read"} /\ b' = b
    BY <1>5 DEF Segment, Signalled
  <2> QED
    BY <2>1 DEF SenderOK
<1>6. CASE Acceptor \/ Close
  BY <1>2, <1>6 DEF Acceptor, Register, HandleReturns, AcceptRetries, AcceptAborts,
     AcceptAborted, Close
<1>7. CASE WriteTo
  BY <1>2, <1>7 DEF WriteTo, WriterStarts, WriterTakes, WriterTakesNil,
     WriterTimesOut, WriterGoesOn, WriterChecks, WriterWrites, WriterFrees,
     WriterFails, WriterReturns
<1>8. CASE ReadFrom
  <2>1. CASE SenderReads
    BY <2>1 DEF SenderReads, SenderOK
  <2>2. CASE SenderWrites
    BY <2>2 DEF SenderWrites, SenderOK
  <2>3. CASE ReadFrom /\ ~SenderReads /\ ~SenderWrites
    BY <2>3 DEF ReadFrom, SenderStarts, SenderChecks, SenderFails, SenderReturns,
       SenderOutputs, SenderWaits, SenderOK
  <2> QED
    BY <1>8, <2>1, <2>2, <2>3
<1>9. ASSUME NEW c \in Callers, Callback(c) PROVE SenderOK'
  BY <1>2, <1>9 DEF Callback, ErrTests, ErrClears, ErrPuts, ErrPanics
<1> QED
  BY <1>3, <1>4, <1>5, <1>6, <1>7, <1>8, <1>9 DEF Next

LEMMA Inductive == IInv /\ [Next]_vars => IInv'
  BY TypeStep, CallStep, ChanStep, AcceptStep, SenderStep DEF IInv

LEMMA Invariant == Spec => []IInv
  BY Initial, Inductive, PTL DEF Spec

-----------------------------------------------------------------------------
\* Every variable has its type, and chRead never holds more than its capacity.
THEOREM TypeCorrect == Spec => []TypeOK
<1>1. IInv => TypeOK
  BY DEF IInv
<1> QED
  BY <1>1, Invariant, PTL

-----------------------------------------------------------------------------
(* When tcpRecvFn blocks with data.                                        *)

\* Only an abort without is.Mutex has tcpErrFn send while tcpRecvFn does, and the
\* pcb is gone then.
AbortOK ==
  /\ \A c \in {"writer", "sender"} : errAt[c] # "out" => pcb = "gone"
  /\ errAt["locked"] \in {"test", "clear", "put"} => step \in {"reset", "aborted"}
  /\ step = "put" /\ ~ChannelHasRoom => pcb = "gone" /\ Last(chRead) = Nil

\* Before newTcpConn no abort without is.Mutex has begun.
LEMMA PcbStaysGone ==
  ASSUME IInv, AbortOK, Segment,
         NEW c \in {"writer", "sender"}, errAt[c] # "out"
  PROVE  pcb' = "gone"
<1>1. pcb = "gone"
  BY DEF AbortOK
<1>2. registered
  BY <1>1, Unregistered DEF Segment
<1> QED
  BY <1>1, <1>2 DEF Segment

LEMMA AbortStep == IInv /\ AbortOK /\ [Next]_vars => AbortOK'
<1> SUFFICES ASSUME IInv, AbortOK, [Next]_vars PROVE AbortOK'
  OBVIOUS
<1>1. TypeOK /\ CallOK
  BY DEF IInv
<1> USE <1>1 DEF lwipVars, callVars, chanVars, writerVars, senderVars
<1>2. ASSUME UNCHANGED <<pcb, errAt, step, chRead>> PROVE AbortOK'
  BY <1>2 DEF AbortOK, ChannelHasRoom
<1>3. ASSUME UNCHANGED <<pcb, errAt>>, step' # "put",
             step \in {"reset", "aborted"} => errAt["locked"] = "out"
      PROVE  AbortOK'
  BY <1>3 DEF AbortOK
<1>4. CASE UNCHANGED vars
  BY <1>2, <1>4 DEF vars
<1>5. CASE Packet \/ Retry \/ RecvDrops \/ RecvRefuses \/ RecvPuts \/ Eof
           \/ EofPuts \/ PcbLost \/ Leave \/ AcceptRetries
  <2>1. step' # "put"
    BY <1>5, AcceptedGoes DEF Packet, Retry, RecvDrops, RecvRefuses, RecvPuts,
       AfterRefusal, Resume, Eof, EofPuts, PcbLost, Leave, AcceptRetries
  <2>2. step \notin {"reset", "aborted"}
    BY <1>5 DEF Packet, Retry, RecvDrops, RecvRefuses, RecvPuts, Eof, EofPuts,
       PcbLost, Leave, AcceptRetries, CallOK
  <2>3. UNCHANGED <<pcb, errAt>>
    BY <1>5 DEF Packet, Retry, RecvDrops, RecvRefuses, RecvPuts, Eof, EofPuts,
       PcbLost, Leave, AcceptRetries
  <2> QED
    BY <1>3, <2>1, <2>2, <2>3
<1>6. CASE Segment
  <2>1. errAt' = errAt /\ step' # "put" /\ step = "segment"
    BY <1>6 DEF Segment
  <2>2. \A c \in {"writer", "sender"} : errAt[c] # "out" => pcb' = "gone"
    BY <1>6, PcbStaysGone
  <2> QED
    BY <2>1, <2>2 DEF AbortOK
<1>7. CASE ResetEnters
  BY <1>7 DEF ResetEnters, AbortOK, TypeOK, Callers
<1>8. CASE ResetLeaves
  BY <1>8 DEF ResetLeaves, AbortOK
<1>9. CASE AcceptAborted
  BY <1>3, <1>9 DEF AcceptAborted
<1>10. CASE RecvTakes
  <2>1. Len(chRead) < Cap
    BY <1>10, BoundsAssumption DEF RecvTakes, Refuses, TypeOK
  <2> QED
    BY <1>10, <2>1 DEF RecvTakes, AbortOK, ChannelHasRoom
<1>11. CASE Register \/ HandleReturns
  BY <1>2, <1>11 DEF Register, HandleReturns
<1>12. CASE AcceptAborts
  BY <1>12 DEF AcceptAborts, At, AbortOK, TypeOK, Callers
<1>13. CASE Close
  BY <1>13 DEF Close, CallOK, AbortOK
<1>14. CASE WriterTakes \/ WriterTakesNil
  <2>1. UNCHANGED <<pcb, errAt, step>>
    BY <1>14 DEF WriterTakes, WriterTakesNil
  <2>2. chRead' = chRead \/ (chRead # <<>> /\ chRead' = Tail(chRead))
    BY <1>14, Zenon DEF WriterTakes, WriterTakesNil, Nil
  <2>3. CASE chRead # <<>> /\ chRead' = Tail(chRead)
    <3>1. Len(chRead') < Cap
      BY <2>3, Popped, BoundsAssumption DEF TypeOK, Nil
    <3> QED
      BY <2>1, <3>1 DEF AbortOK, ChannelHasRoom
  <2> QED
    BY <1>2, <2>1, <2>2, <2>3
<1>15. CASE WriterStarts \/ WriterTimesOut \/ WriterGoesOn \/ WriterChecks
            \/ WriterWrites \/ WriterFrees \/ WriterReturns
  BY <1>2, <1>15 DEF WriterStarts, WriterTimesOut, WriterGoesOn, WriterChecks,
     WriterWrites, WriterFrees, WriterReturns
<1>16. CASE ReadFrom /\ ~SenderFails
  BY <1>2, <1>16 DEF ReadFrom, SenderStarts, SenderReads, SenderChecks,
     SenderWrites, SenderReturns, SenderOutputs, SenderWaits
<1>17. ASSUME NEW c \in {"writer", "sender"}, Aborts(c), UNCHANGED <<step, chRead>>
       PROVE  AbortOK'
  <2>1. CASE UNCHANGED <<pcb, errAt>>
    BY <1>2, <1>17, <2>1
  <2>2. CASE pcb' = "gone" /\ errAt' = [errAt EXCEPT ![c] = "test"]
    BY <1>17, <2>2 DEF AbortOK, ChannelHasRoom, TypeOK, Callers
  <2> QED
    BY <1>17, <2>1, <2>2 DEF Aborts, At
<1>18. CASE WriterFails \/ SenderFails
  BY <1>17, <1>18 DEF WriterFails, SenderFails
<1>19. ASSUME NEW c \in Callers, Callback(c) PROVE AbortOK'
  <2>1. /\ UNCHANGED <<pcb, step>> /\ errAt[c] # "out"
        /\ \E place \in {"out", "clear", "put", "panic"} :
             errAt' = [errAt EXCEPT ![c] = place]
        /\ errAt[c] \in {"test", "clear", "put"}
    BY <1>19 DEF Callback, ErrTests, ErrClears, ErrPuts, ErrPanics, At
  <2>2. /\ \A d \in {"writer", "sender"} : errAt'[d] # "out" => pcb' = "gone"
        /\ errAt'["locked"] \in {"test", "clear", "put"}
             => step' \in {"reset", "aborted"}
    BY <2>1 DEF AbortOK, TypeOK, Callers
  <2>3. CASE chRead' = chRead
    BY <2>1, <2>2, <2>3 DEF AbortOK, ChannelHasRoom
  <2>4. CASE chRead' = Append(chRead, Nil)
    <3>1. step = "put" => pcb = "gone"
      BY <2>1 DEF AbortOK, Callers
    <3>2. Last(chRead') = Nil
      BY <2>4, NilChain DEF TypeOK, Last
    <3> QED
      BY <2>1, <2>2, <3>1, <3>2 DEF AbortOK
  <2> QED
    BY <1>19, <2>3, <2>4 DEF Callback, ErrTests, ErrClears, ErrPuts, ErrPanics
<1> QED
  BY <1>4, <1>5, <1>6, <1>7, <1>8, <1>9, <1>10, <1>11, <1>12, <1>13, <1>14, <1>15,
     <1>16, <1>18, <1>19 DEF Next, Lwip, Acceptor, WriteTo

\* tcpRecvFn finds the room it saw, or else the pcb was aborted between len and the
\* send, without is.Mutex, and tcpErrFn was faster: nobody but these two sends on
\* chRead (tcpRecvFn and tcpErrFn, ipstack/c_export.go).
THEOREM BlocksOnlyAfterAbort == Spec => []DataBlocksOnlyAfterAbort
<1>1. Init => AbortOK
  BY DEF Init, AbortOK, Callers
<1>2. IInv /\ AbortOK => DataBlocksOnlyAfterAbort
  BY DEF IInv, ChanOK, AbortOK, DataBlocksOnlyAfterAbort, ChannelHasRoom
<1> QED
  BY <1>1, <1>2, AbortStep, Invariant, PTL DEF Spec

-----------------------------------------------------------------------------
(* The reader.                                                             *)

\* The running totals f of the units of the chains in q.
Totals(q, f) ==
  /\ f \in [1..Len(q) + 1 -> Nat] /\ f[1] = 0
  /\ \A i \in 1..Len(q) : f[i + 1] = f[i] + Len(q[i])
  /\ \A i, j \in 1..Len(q) + 1 : i <= j => f[i] <= f[j]

\* The chains of q have n units.
HoldsUnits(q, n) == \E f : Totals(q, f) /\ f[Len(q) + 1] = n

\* What the places of a unit other than chRead hold.
Held == early + Len(delivered) + Len(InHand) + Len(data) + Len(refused.data)

\* Every unit the peer sent is in one place while the connection is intact, and in
\* at most one place ever after.
CountOK ==
  \E n \in Nat : /\ HoldsUnits(chRead, n) /\ Held + n <= arrived
                 /\ Intact => Held + n = arrived

\* What a callback carries and what lwIP keeps for later are never both there.
CarriedOK ==
  /\ data # Nil <=> step \in {"recv", "put"}
  /\ step \in {"recv", "put", "eof", "eofput"} => refused.data = Nil
  /\ refused.fin /\ refused.data = Nil => retrying /\ step \in {"recv", "put"}
  /\ step = "retry" => refused.data # Nil
  /\ step = "segment" /\ refused.data # Nil => seg.data = Nil /\ ~seg.fin

\* A FIN that lwIP has processed and the reader has not been told of.
FinPending ==
  \/ refused.fin
  \/ step \in {"eof", "eofput"}
  \/ step \in {"recv", "put"} /\ ~retrying /\ seg.fin

\* The FIN is announced once, behind everything.
EofOK ==
  /\ FinPending => ended
  /\ \A i \in 1..Len(chRead) : chRead[i] = Nil =>
       /\ i = Len(chRead) /\ ended /\ ~FinPending
       /\ data = Nil /\ refused.data = Nil

\* The peer sends nothing behind its FIN.
PeerOK ==
  /\ pcb = "closing" => ended
  /\ ended /\ (step \in {"retry", "segment"} \/ retrying)
       => seg.data = Nil /\ ~seg.fin

\* Where WriteTo stands.
TakenOK ==
  /\ writer # "done" => result = "more"
  /\ writer = "abort" => ~Intact
  /\ closed => ~connPcb
  /\ writer \in {"idle", "select", "timedout", "stuck"} => p = Nil

\* The invariant of the reader, on top of IInv.
ReaderOK ==
  /\ CountOK /\ PeerOK /\ TakenOK
  /\ Intact => CarriedOK /\ EofOK

LEMMA UnitsEmpty == HoldsUnits(Nil, 0)
<1>1. PICK f : f = [i \in 1..1 |-> 0]
  OBVIOUS
<1>2. Totals(Nil, f) /\ f[Len(Nil) + 1] = 0
  BY <1>1 DEF Totals, Nil
<1> QED
  BY <1>2 DEF HoldsUnits

LEMMA UnitsPushed ==
  ASSUME NEW q \in Seq(Chains), NEW c \in Chains, NEW n, HoldsUnits(q, n)
  PROVE  HoldsUnits(Append(q, c), n + Len(c))
<1>1. PICK f : Totals(q, f) /\ f[Len(q) + 1] = n
  BY DEF HoldsUnits
<1>2. PICK k : k = Len(q)
  OBVIOUS
<1>3. PICK u : u = Len(c)
  OBVIOUS
<1>4. k \in Nat /\ u \in Nat /\ n \in Nat
  BY <1>1, <1>2, <1>3 DEF Totals, Chains
<1>5. PICK r : r = Append(q, c)
  OBVIOUS
<1>6. /\ Len(r) = k + 1 /\ r[k + 1] = c
      /\ \A i \in 1..k : r[i] = q[i]
  BY <1>2, <1>4, <1>5
<1>7. PICK g : g = [i \in 1..(k + 2) |-> IF i = k + 2 THEN n + u ELSE f[i]]
  OBVIOUS
<1>8. \A i \in 1..(k + 1) : f[i] \in Nat
  BY <1>1, <1>2, <1>4 DEF Totals
<1>9. /\ g[k + 2] = n + u
      /\ \A i \in 1..(k + 1) : g[i] = f[i]
  BY <1>4, <1>7
<1>10. g \in [1..(k + 2) -> Nat] /\ g[1] = 0
  <2>1. \A i \in 1..(k + 2) : g[i] \in Nat
    BY <1>4, <1>8, <1>9
  <2>2. g[1] = 0
    BY <1>1, <1>4, <1>9 DEF Totals
  <2> QED
    BY <1>7, <2>1, <2>2
<1>11. ASSUME NEW i \in 1..(k + 1) PROVE g[i + 1] = g[i] + Len(r[i])
  <2>1. CASE i = k + 1
    BY <1>1, <1>2, <1>3, <1>4, <1>6, <1>9, <2>1
  <2>2. CASE i # k + 1
    <3>1. i \in 1..k /\ i + 1 \in 1..(k + 1)
      BY <1>4, <2>2
    <3> QED
      BY <1>1, <1>2, <1>6, <1>9, <3>1 DEF Totals
  <2> QED
    BY <2>1, <2>2
<1>12. ASSUME NEW i \in 1..(k + 2), NEW j \in 1..(k + 2), i <= j PROVE g[i] <= g[j]
  <2>1. CASE j # k + 2
    <3>1. i \in 1..(k + 1) /\ j \in 1..(k + 1)
      BY <1>4, <1>12, <2>1
    <3> QED
      BY <1>1, <1>2, <1>9, <1>12, <3>1 DEF Totals
  <2>2. CASE j = k + 2 /\ i # k + 2
    <3>1. i \in 1..(k + 1) /\ k + 1 \in 1..(k + 1) /\ i <= k + 1
      BY <1>4, <2>2
    <3>2. f[i] <= n /\ f[i] \in Nat
      BY <1>1, <1>2, <1>8, <3>1 DEF Totals
    <3> QED
      BY <1>4, <1>9, <2>2, <3>1, <3>2
  <2>3. CASE j = k + 2 /\ i = k + 2
    BY <1>4, <1>9, <2>3
  <2> QED
    BY <2>1, <2>2, <2>3
<1>13. Len(r) + 1 = k + 2
  BY <1>4, <1>6
<1>14. Totals(r, g) /\ g[Len(r) + 1] = n + u
  BY <1>6, <1>9, <1>10, <1>11, <1>12, <1>13 DEF Totals
<1> QED
  BY <1>3, <1>5, <1>14 DEF HoldsUnits

LEMMA UnitsPopped ==
  ASSUME NEW q \in Seq(Chains), q # Nil, NEW n, HoldsUnits(q, n)
  PROVE  \E m \in Nat : HoldsUnits(Tail(q), m) /\ n = Len(Head(q)) + m
<1>1. PICK f : Totals(q, f) /\ f[Len(q) + 1] = n
  BY DEF HoldsUnits
<1>2. PICK k : k = Len(q)
  OBVIOUS
<1>3. k \in Nat /\ k > 0 /\ n \in Nat
  BY <1>1, <1>2 DEF Totals, Nil
<1>4. PICK r : r = Tail(q)
  OBVIOUS
<1>5. Len(r) = k - 1 /\ \A i \in 1..(k - 1) : r[i] = q[i + 1]
  BY <1>2, <1>3, <1>4 DEF Nil
<1>6. PICK u : u = Len(Head(q))
  OBVIOUS
<1>7. u \in Nat /\ f[2] = u
  <2>1. Head(q) = q[1] /\ Head(q) \in Chains
    BY <1>2, <1>3 DEF Nil
  <2>2. f[2] = f[1] + Len(q[1]) /\ f[1] = 0
    BY <1>1, <1>2, <1>3 DEF Totals
  <2>3. u \in Nat
    BY <1>6, <2>1 DEF Chains
  <2> QED
    BY <1>6, <2>1, <2>2, <2>3
<1>8. \A i \in 1..k : f[i + 1] \in Nat /\ u <= f[i + 1]
  <2>1. \A i \in 1..k : f[i + 1] \in Nat
    <3>1. f \in [1..k + 1 -> Nat]
      BY <1>1, <1>2 DEF Totals
    <3>2. \A i \in 1..k : i + 1 \in 1..k + 1
      BY <1>3
    <3> QED
      BY <3>1, <3>2
  <2>2. \A i \in 1..k : f[2] <= f[i + 1]
    BY <1>1, <1>2, <1>3 DEF Totals
  <2> QED
    BY <1>7, <2>1, <2>2
<1>9. PICK g : g = [i \in 1..k |-> f[i + 1] - u]
  OBVIOUS
<1>10. g \in [1..k -> Nat] /\ g[1] = 0
  <2>1. \A i \in 1..k : f[i + 1] - u \in Nat
    BY <1>7, <1>8
  <2> QED
    BY <1>3, <1>7, <1>9, <2>1
<1>11. \A i \in 1..(k - 1) : g[i + 1] = g[i] + Len(r[i])
  <2>1. TAKE i \in 1..(k - 1)
  <2>2. i \in 1..k /\ i + 1 \in 1..k
    BY <1>3
  <2>3. f[i + 2] = f[i + 1] + Len(q[i + 1])
    BY <1>1, <1>2, <2>2 DEF Totals
  <2>4. g[i] = f[i + 1] - u /\ g[i + 1] = f[i + 2] - u
    BY <1>9, <2>2
  <2>5. f[i + 1] \in Nat /\ f[i + 2] \in Nat
    BY <1>8, <2>2
  <2>6. Len(r[i]) = Len(q[i + 1]) /\ Len(q[i + 1]) \in Nat
    BY <1>2, <1>5, <2>2 DEF Chains
  <2> QED
    BY <1>7, <2>3, <2>4, <2>5, <2>6
<1>12. \A i, j \in 1..k : i <= j => g[i] <= g[j]
  <2>1. TAKE i, j \in 1..k
  <2>2. i <= j => f[i + 1] <= f[j + 1]
    BY <1>1, <1>2, <1>3 DEF Totals
  <2>3. f[i + 1] \in Nat /\ f[j + 1] \in Nat
    BY <1>8
  <2> QED
    BY <1>7, <1>9, <2>2, <2>3
<1>13. Len(r) + 1 = k
  BY <1>3, <1>5
<1>14. Totals(r, g)
  BY <1>5, <1>10, <1>11, <1>12, <1>13 DEF Totals
<1>15. g[k] = n - u /\ n - u \in Nat
  BY <1>1, <1>2, <1>3, <1>7, <1>8, <1>9
<1>16. HoldsUnits(r, n - u)
  BY <1>13, <1>14, <1>15 DEF HoldsUnits
<1> QED
  BY <1>3, <1>4, <1>6, <1>7, <1>15, <1>16

LEMMA UnitsOne ==
  ASSUME NEW q \in Seq(Chains), Len(q) = 1, q[1] = Nil, NEW n, HoldsUnits(q, n)
  PROVE  n = 0
<1>1. PICK f : Totals(q, f) /\ f[2] = n
  BY DEF HoldsUnits
<1>2. f[2] = f[1] + Len(q[1]) /\ f[1] = 0
  BY <1>1 DEF Totals
<1> QED
  BY <1>1, <1>2, NilChain

-----------------------------------------------------------------------------
\* A connection that was closed or aborted stays so.
LEMMA StaysBroken ==
  ASSUME IInv, [Next]_vars, Intact'
  PROVE  Intact
<1> USE DEF lwipVars, callVars, chanVars, writerVars, senderVars
<1>1. ASSUME connPcb' = connPcb \/ connPcb' = FALSE, pcb' = pcb \/ pcb' = "gone"
      PROVE  Intact
  BY <1>1 DEF Intact
<1>2. CASE UNCHANGED vars
  BY <1>1, <1>2 DEF vars
<1>3. CASE Lwip /\ ~Segment
  BY <1>1, <1>3 DEF Lwip, Packet, Retry, ResetEnters, ResetLeaves, RecvDrops,
     RecvTakes, RecvPuts, RecvRefuses, Eof, EofPuts, PcbLost, Leave
<1>4. CASE Segment
  <2>1. registered => pcb' = pcb \/ pcb' = "gone"
    BY <1>4 DEF Segment
  <2>2. ~registered => pcb # "gone"
    BY <1>4, Unregistered DEF Segment
  <2>3. connPcb' = connPcb
    BY <1>4 DEF Segment
  <2> QED
    BY <1>1, <2>1, <2>2, <2>3 DEF Intact
<1>5. CASE Acceptor \/ Close
  BY <1>1, <1>5 DEF Acceptor, Register, HandleReturns, AcceptRetries, AcceptAborts,
     AcceptAborted, Close
<1>6. CASE WriteTo
  BY <1>1, <1>6 DEF WriteTo, WriterStarts, WriterTakes, WriterTakesNil,
     WriterTimesOut, WriterGoesOn, WriterChecks, WriterWrites, WriterFrees,
     WriterFails, WriterReturns, Aborts
<1>7. CASE ReadFrom
  BY <1>1, <1>7 DEF ReadFrom, SenderStarts, SenderReads, SenderChecks, SenderWrites,
     SenderFails, SenderReturns, SenderOutputs, SenderWaits, Aborts
<1>8. ASSUME NEW c \in Callers, Callback(c)
      PROVE  Intact
  BY <1>1, <1>8 DEF Callback, ErrTests, ErrClears, ErrPuts, ErrPanics
<1> QED
  BY <1>2, <1>3, <1>4, <1>5, <1>6, <1>7, <1>8 DEF Next

\* Aborts breaks the connection.
LEMMA AbortsBreaks ==
  ASSUME TypeOK, NEW c \in Callers, Aborts(c), UNCHANGED connPcb
  PROVE  ~Intact'
  BY DEF Aborts, Intact, TypeOK

LEMMA PeerStep == IInv /\ PeerOK /\ [Next]_vars => PeerOK'
<1> SUFFICES ASSUME IInv, PeerOK, [Next]_vars PROVE PeerOK'
  OBVIOUS
<1>1. TypeOK /\ CallOK
  BY DEF IInv
<1> USE <1>1 DEF lwipVars, callVars, chanVars, writerVars, senderVars
<1>2. ASSUME UNCHANGED <<ended, seg>>, pcb' = pcb \/ pcb' = "gone",
             step' \in {"retry", "segment"} \/ retrying'
               => step \in {"retry", "segment"} \/ retrying
      PROVE  PeerOK'
  BY <1>2 DEF PeerOK
<1>3. CASE UNCHANGED vars
  BY <1>2, <1>3 DEF vars
<1>4. CASE Packet
  <2>1. PICK n \in 0..MaxChain, fin \in BOOLEAN, rst \in BOOLEAN :
          /\ n > 0 \/ fin => ~ended
          /\ seg' = [data |-> Chain(arrived, n), fin |-> fin, rst |-> rst]
    BY <1>4 DEF Packet
  <2>2. ended => seg'.data = Nil /\ ~seg'.fin
    <3>1. n = 0 => Chain(arrived, n) = Nil
      BY DEF Chain, Nil
    <3> QED
      BY <2>1, <3>1
  <2> QED
    BY <1>4, <2>2 DEF Packet, PeerOK
<1>5. CASE Segment
  <2>1. ~retrying /\ step' \notin {"retry", "segment"} /\ retrying' = retrying
    BY <1>5 DEF Segment, CallOK
  <2>2. pcb' = "closing" => ended'
    BY <1>5 DEF Segment, PeerOK
  <2> QED
    BY <2>1, <2>2 DEF PeerOK
<1>6. CASE Retry \/ ResetEnters \/ ResetLeaves \/ RecvTakes \/ PcbLost \/ Close
  BY <1>2, <1>6 DEF Retry, ResetEnters, ResetLeaves, RecvTakes, PcbLost, Close
<1>7. CASE RecvDrops \/ RecvPuts
  BY <1>2, <1>7 DEF RecvDrops, RecvPuts, Accepted, Resume
<1>8. CASE RecvRefuses
  BY <1>2, <1>8 DEF RecvRefuses, AfterRefusal, Resume
<1>9. CASE Eof \/ EofPuts
  BY <1>2, <1>9 DEF Eof, EofPuts, Resume
<1>10. CASE Leave
  <2>1. ~retrying /\ step' = "none" /\ UNCHANGED <<ended, retrying, pcb>>
    BY <1>10 DEF Leave, CallOK
  <2> QED
    BY <2>1 DEF PeerOK
<1>11. CASE AcceptRetries
  <2>1. seg = Ack /\ UNCHANGED <<ended, seg, pcb>>
    BY <1>11 DEF AcceptRetries, CallOK
  <2> QED
    BY <2>1 DEF PeerOK, Ack
<1>12. CASE Register \/ HandleReturns \/ AcceptAborts \/ AcceptAborted
  BY <1>2, <1>12 DEF Register, HandleReturns, AcceptAborts, AcceptAborted
<1>13. CASE WriteTo
  BY <1>2, <1>13 DEF WriteTo, WriterStarts, WriterTakes, WriterTakesNil,
     WriterTimesOut, WriterGoesOn, WriterChecks, WriterWrites, WriterFrees,
     WriterFails, WriterReturns, Aborts
<1>14. CASE ReadFrom
  BY <1>2, <1>14 DEF ReadFrom, SenderStarts, SenderReads, SenderChecks, SenderWrites,
     SenderFails, SenderReturns, SenderOutputs, SenderWaits, Aborts
<1>15. ASSUME NEW c \in Callers, Callback(c) PROVE PeerOK'
  BY <1>2, <1>15 DEF Callback, ErrTests, ErrClears, ErrPuts, ErrPanics
<1> QED
  BY <1>3, <1>4, <1>5, <1>6, <1>7, <1>8, <1>9, <1>10, <1>11, <1>12, <1>13, <1>14,
     <1>15 DEF Next, Lwip, Acceptor

LEMMA TakenStep == IInv /\ TakenOK /\ [Next]_vars => TakenOK'
<1> SUFFICES ASSUME IInv, TakenOK, [Next]_vars PROVE TakenOK'
  OBVIOUS
<1>1. TypeOK
  BY DEF IInv
<1> USE <1>1 DEF lwipVars, callVars, chanVars, writerVars, senderVars
<1>2. Intact' => Intact
  BY StaysBroken
<1>3. ASSUME UNCHANGED <<writer, result, p, closed>>, connPcb' => connPcb
      PROVE  TakenOK'
  BY <1>2, <1>3 DEF TakenOK
<1>4. CASE UNCHANGED vars
  BY <1>3, <1>4 DEF vars
<1>5. CASE Lwip
  BY <1>3, <1>5 DEF Lwip, Packet, Retry, Segment, ResetEnters, ResetLeaves, RecvDrops,
     RecvTakes, RecvPuts, RecvRefuses, Eof, EofPuts, PcbLost, Leave
<1>6. CASE Acceptor
  BY <1>3, <1>6 DEF Acceptor, Register, HandleReturns, AcceptRetries, AcceptAborts,
     AcceptAborted
<1>7. CASE Close
  BY <1>2, <1>7 DEF Close, TakenOK
<1>8. CASE WriterFails
  <2>1. ~Intact'
    BY <1>8, AbortsBreaks DEF WriterFails, Callers
  <2> QED
    BY <1>8, <2>1 DEF WriterFails, TakenOK
<1>9. CASE WriterStarts \/ WriterTakes \/ WriterTakesNil \/ WriterTimesOut
           \/ WriterGoesOn
  BY <1>9 DEF WriterStarts, WriterTakes, WriterTakesNil, WriterTimesOut,
     WriterGoesOn, TakenOK
<1>10. CASE WriterChecks \/ WriterWrites \/ WriterReturns
  BY <1>10 DEF WriterChecks, WriterWrites, WriterReturns, TakenOK
<1>11. CASE WriterFrees
  BY <1>11 DEF WriterFrees, TakenOK
<1>12. CASE ReadFrom
  BY <1>3, <1>12 DEF ReadFrom, SenderStarts, SenderReads, SenderChecks, SenderWrites,
     SenderFails, SenderReturns, SenderOutputs, SenderWaits
<1>13. ASSUME NEW c \in Callers, Callback(c) PROVE TakenOK'
  BY <1>3, <1>13 DEF Callback, ErrTests, ErrClears, ErrPuts, ErrPanics
<1> QED
  BY <1>4, <1>5, <1>6, <1>7, <1>8, <1>9, <1>10, <1>11, <1>12, <1>13
     DEF Next, WriteTo

LEMMA CarriedStep ==
  ASSUME IInv, Intact, CarriedOK, [Next]_vars, Intact'
  PROVE  CarriedOK'
<1>1. TypeOK /\ CallOK
  BY DEF IInv
<1> USE <1>1 DEF lwipVars, callVars, chanVars, writerVars, senderVars
<1>2. ASSUME UNCHANGED <<data, refused, retrying, step, seg>>
      PROVE  CarriedOK'
  BY <1>2 DEF CarriedOK
<1>3. CASE UNCHANGED vars
  BY <1>2, <1>3 DEF vars
<1>4. CASE Packet
  <2>1. step = "none" /\ ~retrying
    BY <1>4 DEF Packet, CallOK
  <2>2. /\ UNCHANGED <<data, refused, retrying>>
        /\ step' = IF refused.data # Nil THEN "retry" ELSE "segment"
    BY <1>4 DEF Packet
  <2> QED
    BY <2>1, <2>2 DEF CarriedOK
<1>5. CASE Retry
  <2>1. /\ refused'.data = Nil /\ refused'.fin = refused.fin /\ data' = refused.data
        /\ step' = "recv" /\ retrying' = TRUE /\ step = "retry"
    BY <1>5 DEF Retry
  <2> QED
    BY <2>1 DEF CarriedOK
<1>6. CASE Segment
  <2>1. data = Nil /\ ~retrying /\ step = "segment"
    BY <1>6 DEF Segment, CarriedOK, CallOK
  <2>2. UNCHANGED <<refused, retrying, seg>>
    BY <1>6 DEF Segment
  <2>3. \/ data' = Nil /\ step' = "leave"
        \/ data' = Nil /\ step' = "eof" /\ seg.fin
        \/ data' # Nil /\ step' = "recv" /\ seg.data # Nil
    BY <1>6, <2>1 DEF Segment
  <2> QED
    BY <2>1, <2>2, <2>3 DEF CarriedOK
<1>7. CASE ResetEnters \/ RecvTakes \/ AcceptAborted
  BY <1>7 DEF ResetEnters, RecvTakes, AcceptAborted, CarriedOK
<1>8. CASE ResetLeaves \/ PcbLost \/ Close
  BY <1>8 DEF ResetLeaves, PcbLost, Close, Intact
<1>9. CASE RecvDrops
  BY <1>9 DEF RecvDrops, Intact
<1>10. CASE RecvPuts
  <2>1. data' = Nil /\ refused' = Nothing /\ step' \in {"eof", "segment", "leave"}
    BY <1>10 DEF RecvPuts, Accepted, Resume
  <2> QED
    BY <2>1 DEF CarriedOK, Nothing
<1>11. CASE RecvRefuses
  <2>1. data' = Nil /\ refused'.data = data /\ seg' = seg
    BY <1>11 DEF RecvRefuses, Kept
  <2>2. \/ step' = "leave"
        \/ step' = "segment" /\ seg.data = Nil /\ ~seg.fin
    BY <1>11 DEF RecvRefuses, AfterRefusal, Resume
  <2>3. data # Nil
    BY <1>11 DEF RecvRefuses, CarriedOK
  <2> QED
    BY <2>1, <2>2, <2>3 DEF CarriedOK
<1>12. CASE Eof \/ EofPuts
  <2>1. /\ UNCHANGED <<data, refused>>
        /\ step \in {"eof", "eofput"} /\ step' \in {"eofput", "segment", "leave"}
    BY <1>12 DEF Eof, EofPuts, Resume
  <2> QED
    BY <2>1 DEF CarriedOK
<1>13. CASE Leave
  <2>1. UNCHANGED <<data, refused>> /\ step = "leave" /\ step' = "none"
    BY <1>13 DEF Leave
  <2> QED
    BY <2>1 DEF CarriedOK
<1>14. CASE AcceptRetries
  <2>1. /\ UNCHANGED <<data, refused, retrying, seg>> /\ step = "none"
        /\ step' = IF refused.data # Nil THEN "retry" ELSE "leave"
    BY <1>14 DEF AcceptRetries, CallOK
  <2> QED
    BY <2>1 DEF CarriedOK
<1>15. CASE AcceptAborts
  <2>1. step = "none" /\ step' = "aborted" /\ UNCHANGED <<data, seg, retrying, connPcb>>
    BY <1>15 DEF AcceptAborts, CallOK
  <2>2. refused' = refused \/ pcb' = "gone"
    BY <1>15 DEF AcceptAborts
  <2> QED
    BY <2>1, <2>2 DEF CarriedOK, Intact
<1>16. CASE Register \/ HandleReturns
  BY <1>2, <1>16 DEF Register, HandleReturns
<1>17. CASE WriteTo
  <2>1. UNCHANGED <<data, refused, retrying, step, seg>> \/ pcb' = "gone"
    BY <1>17 DEF WriteTo, WriterStarts, WriterTakes, WriterTakesNil, WriterTimesOut,
       WriterGoesOn, WriterChecks, WriterWrites, WriterFrees, WriterFails,
       WriterReturns, Aborts
  <2> QED
    BY <1>2, <2>1 DEF Intact
<1>18. CASE ReadFrom
  <2>1. UNCHANGED <<data, refused, retrying, step, seg>> \/ pcb' = "gone"
    BY <1>18 DEF ReadFrom, SenderStarts, SenderReads, SenderChecks, SenderWrites,
       SenderFails, SenderReturns, SenderOutputs, SenderWaits, Aborts
  <2> QED
    BY <1>2, <2>1 DEF Intact
<1>19. ASSUME NEW c \in Callers, Callback(c) PROVE CarriedOK'
  BY <1>2, <1>19 DEF Callback, ErrTests, ErrClears, ErrPuts, ErrPanics
<1> QED
  BY <1>3, <1>4, <1>5, <1>6, <1>7, <1>8, <1>9, <1>10, <1>11, <1>12, <1>13, <1>14,
     <1>15, <1>16, <1>17, <1>18, <1>19 DEF Next, Lwip, Acceptor

LEMMA EofStep ==
  ASSUME IInv, PeerOK, TakenOK, Intact, CarriedOK, EofOK, [Next]_vars, Intact'
  PROVE  EofOK'
<1>1. TypeOK /\ CallOK
  BY DEF IInv
<1> USE <1>1 DEF lwipVars, callVars, chanVars, writerVars, senderVars
<1>2. connPcb /\ pcb # "gone" /\ connPcb' /\ pcb' # "gone"
  BY DEF Intact
<1>3. chRead \in Seq(Chains) /\ Len(chRead) \in Nat
  BY DEF TypeOK
<1>4. ASSUME UNCHANGED <<ended, chRead, data, refused>>, FinPending' => FinPending
      PROVE  EofOK'
  BY <1>4 DEF EofOK
<1>5. ASSUME UNCHANGED <<ended, chRead, data, refused, retrying, step, seg>>
      PROVE  EofOK'
  BY <1>4, <1>5 DEF FinPending
\* Data in a callback, refused data or a FIN to announce: no nil in chRead.
<1>6. ASSUME UNCHANGED <<ended, chRead>>, FinPending' => FinPending,
             data # Nil \/ refused.data # Nil \/ FinPending
      PROVE  EofOK'
  BY <1>6 DEF EofOK
<1>7. CASE UNCHANGED vars
  BY <1>5, <1>7 DEF vars
<1>8. CASE Packet
  <2>1. /\ UNCHANGED <<ended, chRead, data, refused>>
        /\ step' \in {"retry", "segment"}
    BY <1>8 DEF Packet
  <2>2. FinPending' => FinPending
    BY <2>1 DEF FinPending
  <2> QED
    BY <1>4, <2>1, <2>2
<1>9. CASE Retry
  <2>1. /\ UNCHANGED <<ended, chRead>> /\ step = "retry" /\ step' = "recv"
        /\ retrying' = TRUE /\ refused'.fin = refused.fin
    BY <1>9 DEF Retry
  <2>2. FinPending' => FinPending
    BY <2>1 DEF FinPending
  <2> QED
    BY <1>6, <2>1, <2>2 DEF CarriedOK
<1>10. CASE Segment
  <2>1. step = "segment" /\ data = Nil /\ ~retrying
    BY <1>10 DEF Segment, CarriedOK, CallOK
  <2>2. /\ UNCHANGED <<chRead, refused, seg, retrying>>
        /\ ended' = (ended \/ seg.fin)
    BY <1>10 DEF Segment
  <2>3. \/ data' = Nil /\ step' = "leave"
        \/ data' = Nil /\ step' = "eof" /\ seg.fin
        \/ data' # Nil /\ step' = "recv" /\ seg.data # Nil
    BY <1>10, <2>1 DEF Segment
  <2>4. FinPending' => FinPending \/ seg.fin
    BY <2>2, <2>3 DEF FinPending
  <2>5. ended => seg.data = Nil /\ ~seg.fin
    BY <2>1 DEF PeerOK
  <2>6. seg.fin \in BOOLEAN /\ ended \in BOOLEAN
    BY DEF TypeOK
  <2>7. FinPending' => ended'
    BY <2>2, <2>4, <2>6, Zenon DEF EofOK
  <2>8. ASSUME NEW i \in 1..Len(chRead), chRead[i] = Nil
        PROVE  /\ i = Len(chRead) /\ ended' /\ ~FinPending'
               /\ data' = Nil /\ refused.data = Nil
    <3>1. i = Len(chRead) /\ ended /\ ~FinPending /\ refused.data = Nil
      BY <2>8 DEF EofOK
    <3>2. data' = Nil /\ ~FinPending'
      BY <2>3, <2>4, <2>5, <3>1
    <3>3. ended'
      BY <2>2, <3>1, Zenon
    <3> QED
      BY <3>1, <3>2, <3>3
  <2> QED
    BY <2>2, <2>7, <2>8 DEF EofOK
<1>11. CASE ResetEnters \/ RecvTakes \/ AcceptAborted
  <2>1. UNCHANGED <<ended, chRead, data, refused>>
    BY <1>11 DEF ResetEnters, RecvTakes, AcceptAborted
  <2>2. FinPending' => FinPending
    BY <1>11 DEF ResetEnters, RecvTakes, AcceptAborted, FinPending
  <2> QED
    BY <1>4, <2>1, <2>2
<1>12. CASE ResetLeaves \/ PcbLost \/ RecvDrops \/ Close
  BY <1>2, <1>12 DEF ResetLeaves, PcbLost, RecvDrops, Close
<1>13. CASE RecvPuts
  <2>1. /\ ended' = ended /\ chRead' = Append(chRead, data)
        /\ data' = Nil /\ refused' = Nothing
        /\ step' \in {"eof", "segment", "leave"}
        /\ step' = "eof" => FinPending
    BY <1>13 DEF RecvPuts, Accepted, Resume, FinPending
  <2>2. FinPending' => FinPending
    BY <2>1 DEF FinPending, Nothing
  <2>3. data # Nil /\ data \in Chains
    BY <1>13 DEF RecvPuts, CarriedOK, TypeOK
  <2>4. \A i \in 1..Len(chRead') : chRead'[i] # Nil
    <3>1. \A i \in 1..Len(chRead) : chRead[i] # Nil
      BY <2>3 DEF EofOK
    <3> QED
      BY <1>3, <2>1, <2>3, <3>1
  <2> QED
    BY <2>1, <2>2, <2>4 DEF EofOK
<1>14. CASE RecvRefuses
  <2>1. /\ UNCHANGED <<ended, chRead>> /\ retrying' = FALSE
        /\ step' \in {"leave", "segment"} /\ step = "recv"
        /\ refused'.fin => FinPending
    BY <1>14 DEF RecvRefuses, AfterRefusal, Resume, Kept, FinPending
  <2>2. FinPending' => FinPending
    BY <2>1 DEF FinPending
  <2>3. data # Nil
    BY <2>1 DEF CarriedOK
  <2> QED
    BY <1>6, <2>1, <2>2, <2>3
<1>15. CASE Eof
  <2>1. UNCHANGED <<ended, chRead, data, refused>> /\ step = "eof"
    BY <1>15 DEF Eof
  <2>2. FinPending
    BY <2>1 DEF FinPending
  <2> QED
    BY <1>4, <2>1, <2>2
<1>16. CASE EofPuts
  <2>1. /\ UNCHANGED <<ended, data, refused>> /\ chRead' = Append(chRead, Nil)
        /\ step = "eofput" /\ step' \in {"segment", "leave"}
    BY <1>16 DEF EofPuts, Resume
  <2>2. data = Nil /\ refused.data = Nil /\ ~refused.fin
    BY <2>1 DEF CarriedOK
  <2>3. ended /\ FinPending
    BY <2>1 DEF EofOK, FinPending
  <2>4. ~FinPending'
    BY <2>1, <2>2 DEF FinPending
  <2>5. \A i \in 1..Len(chRead) : chRead[i] # Nil
    BY <2>3 DEF EofOK
  <2>6. \A i \in 1..Len(chRead') : chRead'[i] = Nil => i = Len(chRead')
    BY <1>3, <2>1, <2>5, NilChain
  <2> QED
    BY <2>1, <2>2, <2>3, <2>4, <2>6 DEF EofOK
<1>17. CASE Leave
  <2>1. UNCHANGED <<ended, chRead, data, refused>> /\ step' = "none"
    BY <1>17 DEF Leave
  <2>2. FinPending' => FinPending
    BY <2>1 DEF FinPending
  <2> QED
    BY <1>4, <2>1, <2>2
<1>18. CASE AcceptRetries
  <2>1. UNCHANGED <<ended, chRead, data, refused>> /\ step' \in {"retry", "leave"}
    BY <1>18 DEF AcceptRetries
  <2>2. FinPending' => FinPending
    BY <2>1 DEF FinPending
  <2> QED
    BY <1>4, <2>1, <2>2
<1>19. CASE AcceptAborts
  <2>1. UNCHANGED <<ended, chRead, data, refused>> /\ step' = "aborted"
    BY <1>2, <1>19 DEF AcceptAborts
  <2>2. FinPending' => FinPending
    BY <2>1 DEF FinPending
  <2> QED
    BY <1>4, <2>1, <2>2
<1>20. CASE Register \/ HandleReturns
  BY <1>5, <1>20 DEF Register, HandleReturns
<1>21. CASE WriteTo /\ ~WriterTakes /\ ~WriterTakesNil
  <2>1. UNCHANGED <<ended, chRead, data, refused, retrying, step, seg>>
    BY <1>2, <1>21 DEF WriteTo, WriterStarts, WriterTimesOut, WriterGoesOn,
       WriterChecks, WriterWrites, WriterFrees, WriterFails, WriterReturns, Aborts
  <2> QED
    BY <1>5, <2>1
<1>22. CASE WriterTakes \/ WriterTakesNil
  <2>1. UNCHANGED <<ended, data, refused, retrying, step, seg>>
    BY <1>22 DEF WriterTakes, WriterTakesNil
  <2>2. FinPending' = FinPending
    BY <2>1 DEF FinPending
  <2>3. chRead' = chRead \/ (chRead # Nil /\ chRead' = Tail(chRead))
    BY <1>22 DEF WriterTakes, WriterTakesNil, Nil
  <2>4. CASE chRead # Nil /\ chRead' = Tail(chRead)
    <3>1. /\ Len(chRead') = Len(chRead) - 1 /\ Len(chRead) > 0
          /\ \A i \in 1..Len(chRead') : chRead'[i] = chRead[i + 1]
      BY <1>3, <2>4 DEF Nil
    <3>2. ASSUME NEW i \in 1..Len(chRead'), chRead'[i] = Nil
          PROVE  /\ i = Len(chRead') /\ ended' /\ ~FinPending'
                 /\ data' = Nil /\ refused'.data = Nil
      <4>1. i + 1 \in 1..Len(chRead) /\ chRead[i + 1] = Nil
        BY <1>3, <3>1, <3>2
      <4>2. i + 1 = Len(chRead)
        BY <4>1 DEF EofOK
      <4>3. ended /\ ~FinPending /\ data = Nil /\ refused.data = Nil
        BY <4>1 DEF EofOK
      <4>4. i = Len(chRead')
        BY <1>3, <3>1, <4>2
      <4> QED
        BY <2>1, <2>2, <4>3, <4>4
    <3>3. FinPending' => ended'
      BY <2>1, <2>2 DEF EofOK
    <3> QED
      BY <3>2, <3>3 DEF EofOK
  <2> QED
    BY <1>4, <2>1, <2>2, <2>3, <2>4
<1>23. CASE ReadFrom
  <2>1. UNCHANGED <<ended, chRead, data, refused, retrying, step, seg>>
    BY <1>2, <1>23 DEF ReadFrom, SenderStarts, SenderReads, SenderChecks,
       SenderWrites, SenderFails, SenderReturns, SenderOutputs, SenderWaits, Aborts
  <2> QED
    BY <1>5, <2>1
<1>24. ASSUME NEW c \in Callers, Callback(c) PROVE EofOK'
  <2>1. ~ErrPuts(c)
    BY <1>2 DEF ErrPuts, IInv, ChanOK
  <2> QED
    BY <1>5, <1>24, <2>1 DEF Callback, ErrTests, ErrClears, ErrPanics
<1> QED
  BY <1>7, <1>8, <1>9, <1>10, <1>11, <1>12, <1>13, <1>14, <1>15, <1>16, <1>17,
     <1>18, <1>19, <1>20, <1>21, <1>22, <1>23, <1>24 DEF Next, Lwip, Acceptor

LEMMA ChainInHand ==
  ASSUME NEW w, NEW q \in Chains
  PROVE  Len(IF w = "lock" THEN Tail(q) ELSE q) \in Nat
<1>1. CASE q = Nil
  <2>1. Tail(q) = Nil
    BY <1>1 DEF Nil
  <2> QED
    BY <1>1, <2>1, NilChain
<1>2. CASE q # Nil
  <2>1. Len(Tail(q)) \in Nat /\ Len(q) \in Nat
    BY <1>2, Popped DEF Chains
  <2> QED
    BY <2>1
<1> QED
  BY <1>1, <1>2

LEMMA ChainLength == \A q \in Chains : Len(q) \in Nat
  BY DEF Chains

LEMMA CountsAreNats ==
  ASSUME TypeOK
  PROVE  /\ arrived \in Nat /\ early \in Nat
         /\ Len(delivered) \in Nat /\ Len(p) \in Nat /\ Len(data) \in Nat
<1>1. MaxData \in Nat /\ arrived \in 0..MaxData /\ early \in 0..arrived
  BY BoundsAssumption DEF TypeOK
<1>2. delivered \in Chains /\ p \in Chains /\ data \in Chains
  BY DEF TypeOK
<1> QED
  BY <1>1, <1>2, ChainLength

LEMMA CountStep == IInv /\ ReaderOK /\ [Next]_vars => CountOK'
<1> SUFFICES ASSUME IInv, ReaderOK, [Next]_vars PROVE CountOK'
  OBVIOUS
<1>1. TypeOK /\ TypeOK' /\ CallOK /\ ChanOK /\ TakenOK
  BY TypeStep DEF IInv, ReaderOK
<1>2. Intact' => Intact /\ CarriedOK /\ connPcb' /\ pcb' # "gone"
  BY StaysBroken DEF ReaderOK, Intact
<1> USE DEF lwipVars, callVars, chanVars, writerVars, senderVars
<1>3. PICK n \in Nat : HoldsUnits(chRead, n) /\ Held + n <= arrived
                      /\ (Intact => Held + n = arrived)
  BY DEF ReaderOK, CountOK
<1>4. PICK r0, r1, h0, h1 :
        /\ r0 = Len(refused.data) /\ r1 = Len(refused'.data)
        /\ h0 = Held /\ h1 = Held'
  OBVIOUS
<1>5. /\ arrived \in Nat /\ early \in Nat
      /\ Len(delivered) \in Nat /\ Len(p) \in Nat /\ Len(data) \in Nat
      /\ r0 \in Nat /\ Len(InHand) \in Nat
  <2>1. Len(InHand) \in Nat
    BY <1>1, ChainInHand DEF InHand, TypeOK
  <2>2. refused.data \in Chains
    BY <1>1 DEF TypeOK
  <2>3. r0 \in Nat
    BY <1>4, <2>2, ChainLength, Zenon
  <2> QED
    BY <1>1, <2>1, <2>3, CountsAreNats
<1>6. /\ arrived' \in Nat /\ early' \in Nat
      /\ Len(delivered') \in Nat /\ Len(p') \in Nat /\ Len(data') \in Nat
      /\ r1 \in Nat /\ Len(InHand') \in Nat
  <2>1. Len(InHand') \in Nat
    BY <1>1, ChainInHand DEF InHand, TypeOK
  <2>2. refused'.data \in Chains
    BY <1>1 DEF TypeOK
  <2>3. r1 \in Nat
    BY <1>4, <2>2, ChainLength, Zenon
  <2>4. arrived' \in Nat /\ early' \in Nat
    BY <1>1, BoundsAssumption DEF TypeOK
  <2>5. delivered' \in Chains /\ p' \in Chains /\ data' \in Chains
    BY <1>1 DEF TypeOK
  <2> QED
    BY <2>1, <2>3, <2>4, <2>5, ChainLength
<1>7. /\ h0 = early + Len(delivered) + Len(InHand) + Len(data) + r0
      /\ h1 = early' + Len(delivered') + Len(InHand') + Len(data') + r1
      /\ h0 \in Nat /\ h1 \in Nat
      /\ n \in Nat /\ h0 + n <= arrived /\ (Intact => h0 + n = arrived)
  <2>1. h0 = early + Len(delivered) + Len(InHand) + Len(data) + r0
    BY <1>4, <1>4, Zenon DEF Held
  <2>2. h1 = early' + Len(delivered') + Len(InHand') + Len(data') + r1
    BY <1>4, <1>4, Zenon DEF Held
  <2>3. h0 \in Nat /\ h1 \in Nat
    <3>1. h0 \in Nat
      BY <1>5, <2>1
    <3>2. h1 \in Nat
      BY <1>6, <2>2
    <3> QED
      BY <3>1, <3>2
  <2>4. n \in Nat /\ h0 + n <= arrived /\ (Intact => h0 + n = arrived)
    BY <1>3, <1>4, Zenon
  <2> QED
    BY <2>1, <2>2, <2>3, <2>4
\* Nothing but the places of the units changes.
<1>8. ASSUME NEW m \in Nat, HoldsUnits(chRead', m), arrived' = arrived,
             h1 + m <= h0 + n, Intact' => h1 + m = h0 + n
      PROVE  CountOK'
  <2>1. h1 + m <= arrived'
    BY <1>5, <1>7, <1>8
  <2>2. Intact' => h1 + m = arrived'
    BY <1>2, <1>7, <1>8
  <2> QED
    BY <1>4, <1>8, <2>1, <2>2, Zenon DEF CountOK
<1>9. ASSUME UNCHANGED <<arrived, early, delivered, writer, p, chRead>>,
             Len(data') + r1 <= Len(data) + r0,
             Intact' => Len(data') + r1 = Len(data) + r0
      PROVE  CountOK'
  <2>1. InHand' = InHand
    BY <1>9 DEF InHand
  <2>2. h1 + n <= h0 + n
    BY <1>5, <1>6, <1>7, <1>9, <2>1
  <2>3. Intact' => h1 + n = h0 + n
    BY <1>5, <1>6, <1>7, <1>9, <2>1
  <2> QED
    BY <1>3, <1>8, <1>9, <2>2, <2>3
<1>10. CASE UNCHANGED vars
  <2>1. UNCHANGED <<arrived, early, delivered, writer, p, chRead, data>> /\ r1 = r0
    BY <1>4, <1>10 DEF vars
  <2> QED
    BY <1>5, <1>9, <2>1
<1>11. CASE Packet \/ ResetEnters \/ RecvTakes \/ Eof \/ Leave
  <2>1. UNCHANGED <<arrived, early, delivered, writer, p, chRead, data>> /\ r1 = r0
    BY <1>4, <1>11 DEF Packet, ResetEnters, RecvTakes, Eof, Leave
  <2> QED
    BY <1>5, <1>9, <2>1
<1>12. CASE Retry
  <2>1. /\ UNCHANGED <<arrived, early, delivered, writer, p, chRead>>
        /\ Len(data') = r0 /\ r1 = 0 /\ step = "retry"
    BY <1>4, <1>12, NilChain DEF Retry
  <2>2. Intact' => data = Nil
    BY <1>2, <2>1 DEF CarriedOK
  <2> QED
    BY <1>5, <1>9, <2>1, <2>2, NilChain
<1>13. CASE Segment
  <2>1. PICK u : u = Len(seg.data)
    OBVIOUS
  <2>2. u \in Nat
    <3>1. seg.data \in Chains
      BY <1>1 DEF TypeOK
    <3> QED
      BY <2>1, <3>1, ChainLength, Zenon
  <2>3. /\ UNCHANGED <<delivered, writer, p, chRead>> /\ r1 = r0
        /\ arrived' = arrived + u /\ step = "segment"
    BY <1>4, <1>13, <2>1 DEF Segment
  <2>4. InHand' = InHand
    BY <2>3 DEF InHand
  <2>5. Intact' => Len(data) = 0
    BY <1>2, <2>3, NilChain DEF CarriedOK
  <2>6. \/ early' = early /\ Len(data') = u
        \/ early' = early + u /\ Len(data') = Len(data)
    BY <1>13, <2>1 DEF Segment
  <2>7. PICK w : w = Len(delivered) + Len(InHand) + r0
    OBVIOUS
  <2>8. w \in Nat /\ h0 = early + w + Len(data) /\ h1 = early' + w + Len(data')
    <3>1. delivered' = delivered /\ r1 = r0 /\ Len(InHand') = Len(InHand)
      BY <2>3, <2>4
    <3>2. h1 = early' + Len(delivered) + Len(InHand) + Len(data') + r0
      BY <1>7, <3>1, Zenon
    <3>3. w \in Nat
      <4>1. /\ Len(delivered) \in Nat /\ Len(InHand) \in Nat /\ r0 \in Nat
        BY <1>5
      <4> QED
        BY <2>7, <4>1
    <3>4. h0 = early + w + Len(data)
      BY <1>5, <1>7, <2>7
    <3>5. h1 = early' + w + Len(data')
      <4>1. PICK e, d, a, i : e = early' /\ d = Len(data') /\ a = Len(delivered)
                              /\ i = Len(InHand)
        OBVIOUS
      <4>2. e \in Nat /\ d \in Nat /\ a \in Nat /\ i \in Nat /\ r0 \in Nat
        BY <1>5, <1>6, <4>1
      <4>3. h1 = e + a + i + d + r0 /\ w = a + i + r0
        BY <2>7, <3>2, <4>1, Zenon
      <4>4. h1 = e + w + d
        BY <4>2, <4>3
      <4> QED
        BY <4>1, <4>4, Zenon
    <3> QED
      BY <3>3, <3>4, <3>5
  <2>9. h1 <= h0 + u /\ (Len(data) = 0 => h1 = h0 + u)
    <3>1. CASE early' = early /\ Len(data') = u
      BY <1>5, <2>2, <2>8, <3>1
    <3>2. CASE early' = early + u /\ Len(data') = Len(data)
      BY <1>5, <2>2, <2>8, <3>2
    <3> QED
      BY <2>6, <3>1, <3>2
  <2>10. h1 + n <= arrived + u
    BY <1>5, <1>7, <2>2, <2>9
  <2>11. Intact' => h1 + n = arrived + u
    <3>1. Intact' => Intact /\ Len(data) = 0
      BY <1>2, <2>5
    <3> QED
      BY <1>5, <1>7, <2>2, <2>9, <3>1
  <2>12. arrived' = arrived + u /\ chRead' = chRead
    BY <2>3
  <2> QED
    BY <1>3, <1>4, <2>10, <2>11, <2>12, Zenon DEF CountOK
<1>14. CASE ResetLeaves
  <2>1. /\ UNCHANGED <<arrived, early, delivered, writer, p, chRead, data>>
        /\ r1 = 0 /\ pcb' = "gone"
    BY <1>4, <1>14, NilChain DEF ResetLeaves, Nothing
  <2> QED
    BY <1>2, <1>5, <1>9, <2>1, NilChain
<1>15. CASE RecvDrops \/ PcbLost
  <2>1. /\ UNCHANGED <<arrived, early, delivered, writer, p, chRead, connPcb, pcb>>
        /\ data' = Nil /\ (refused' = Nothing \/ refused' = refused)
        /\ ~connPcb \/ pcb = "gone"
    BY <1>15 DEF RecvDrops, PcbLost, Accepted
  <2>2. r1 = 0 \/ r1 = r0
    BY <1>4, <2>1, NilChain DEF Nothing
  <2> QED
    BY <1>2, <1>5, <1>9, <2>1, <2>2, NilChain
<1>16. CASE RecvPuts
  <2>1. /\ UNCHANGED <<arrived, early, delivered, writer, p>>
        /\ chRead' = Append(chRead, data)
        /\ data' = Nil /\ r1 = 0 /\ step = "put"
    BY <1>4, <1>16, NilChain DEF RecvPuts, Accepted, Nothing
  <2>2. InHand' = InHand
    BY <2>1 DEF InHand
  <2>3. PICK m \in Nat : HoldsUnits(chRead', m) /\ m = n + Len(data)
    <3>1. chRead \in Seq(Chains) /\ data \in Chains
      BY <1>1 DEF TypeOK
    <3>2. HoldsUnits(chRead, n)
      BY <1>3
    <3>3. HoldsUnits(Append(chRead, data), n + Len(data))
      BY <3>1, <3>2, UnitsPushed, Zenon
    <3>4. n + Len(data) \in Nat
      BY <1>3, <1>5
    <3> QED
      BY <2>1, <3>3, <3>4
  <2>4. Intact' => r0 = 0
    BY <1>4, <1>2, <2>1, NilChain DEF CarriedOK
  <2>5. h1 + m <= h0 + n
    BY <1>2, <1>5, <1>6, <1>7, <2>1, <2>2, <2>3, <2>4, NilChain
  <2>6. Intact' => h1 + m = h0 + n
    BY <1>2, <1>5, <1>6, <1>7, <2>1, <2>2, <2>3, <2>4, NilChain
  <2> QED
    BY <1>3, <1>8, <2>1, <2>3, <2>5, <2>6
<1>17. CASE RecvRefuses
  <2>1. /\ UNCHANGED <<arrived, early, delivered, writer, p, chRead>>
        /\ data' = Nil /\ r1 = Len(data) /\ step = "recv"
    BY <1>4, <1>17 DEF RecvRefuses, Kept
  <2>2. Intact' => r0 = 0
    BY <1>4, <1>2, <2>1, NilChain DEF CarriedOK
  <2> QED
    BY <1>5, <1>9, <2>1, <2>2, NilChain
<1>18. CASE EofPuts \/ \E c \in Callers : ErrPuts(c)
  <2>1. /\ UNCHANGED <<arrived, early, delivered, writer, p, data>> /\ r1 = r0
        /\ chRead' = Append(chRead, Nil)
    BY <1>4, <1>18 DEF EofPuts, ErrPuts
  <2>2. InHand' = InHand
    BY <2>1 DEF InHand
  <2>3. HoldsUnits(chRead', n)
    <3>1. chRead \in Seq(Chains)
      BY <1>1 DEF TypeOK
    <3>2. HoldsUnits(chRead', n + Len(Nil))
      BY <1>3, <2>1, <3>1, UnitsPushed, NilChain
    <3>3. n + Len(Nil) = n
      BY <1>3, NilChain
    <3> QED
      BY <3>2, <3>3
  <2>4. h1 + n <= h0 + n
    BY <1>5, <1>6, <1>7, <2>1, <2>2
  <2>5. Intact' => h1 + n = h0 + n
    BY <1>5, <1>6, <1>7, <2>1, <2>2
  <2> QED
    BY <1>3, <1>8, <2>1, <2>3, <2>4, <2>5
<1>19. CASE Register \/ HandleReturns \/ AcceptRetries \/ AcceptAborted
  <2>1. UNCHANGED <<arrived, early, delivered, writer, p, chRead, data>> /\ r1 = r0
    BY <1>4, <1>19 DEF Register, HandleReturns, AcceptRetries, AcceptAborted
  <2> QED
    BY <1>5, <1>9, <2>1
<1>20. CASE AcceptAborts
  <2>1. /\ UNCHANGED <<arrived, early, delivered, writer, p, chRead, data>>
        /\ refused' = refused \/ (pcb' = "gone" /\ refused' = Nothing)
    BY <1>20 DEF AcceptAborts
  <2>2. r1 = r0 \/ (pcb' = "gone" /\ r1 = 0)
    BY <1>4, <2>1, NilChain DEF Nothing
  <2> QED
    BY <1>2, <1>5, <1>9, <2>1, <2>2, NilChain
<1>21. CASE Close
  <2>1. /\ UNCHANGED <<arrived, early, delivered, writer, p, data>> /\ r1 = r0
        /\ chRead' = Nil /\ ~connPcb'
    BY <1>4, <1>21 DEF Close, Nil
  <2>2. InHand' = InHand
    BY <2>1 DEF InHand
  <2>3. HoldsUnits(chRead', 0)
    BY <2>1, UnitsEmpty
  <2>4. h1 + 0 <= h0 + n
    BY <1>2, <1>5, <1>6, <1>7, <2>1, <2>2
  <2>5. Intact' => h1 + 0 = h0 + n
    BY <1>2, <1>5, <1>6, <1>7, <2>1, <2>2
  <2> QED
    BY <1>3, <1>8, <2>1, <2>3, <2>4, <2>5
<1>22. CASE WriterStarts \/ WriterTimesOut \/ WriterGoesOn \/ WriterChecks
            \/ WriterReturns
  <2>1. /\ UNCHANGED <<arrived, early, delivered, p, chRead, data>> /\ r1 = r0
        /\ writer # "lock" /\ writer' # "lock"
    BY <1>4, <1>22 DEF WriterStarts, WriterTimesOut, WriterGoesOn, WriterChecks,
       WriterReturns
  <2>2. InHand' = InHand
    BY <2>1 DEF InHand
  <2>3. h1 + n <= h0 + n
    BY <1>5, <1>6, <1>7, <2>1, <2>2
  <2>4. Intact' => h1 + n = h0 + n
    BY <1>5, <1>6, <1>7, <2>1, <2>2
  <2> QED
    BY <1>3, <1>8, <2>1, <2>3, <2>4
<1>23. CASE WriterFails
  <2>1. /\ UNCHANGED <<arrived, early, delivered, p, chRead, data>>
        /\ writer # "lock" /\ writer' # "lock"
        /\ refused' = refused \/ (pcb' = "gone" /\ refused' = Nothing)
    BY <1>23 DEF WriterFails, Aborts
  <2>2. r1 = r0 \/ (pcb' = "gone" /\ r1 = 0)
    BY <1>4, <2>1, NilChain DEF Nothing
  <2>3. InHand' = InHand
    BY <2>1 DEF InHand
  <2>4. h1 + n <= h0 + n
    BY <1>2, <1>5, <1>6, <1>7, <2>1, <2>2, <2>3, NilChain
  <2>5. Intact' => h1 + n = h0 + n
    BY <1>2, <1>5, <1>6, <1>7, <2>1, <2>2, <2>3, NilChain
  <2> QED
    BY <1>3, <1>8, <2>1, <2>4, <2>5
<1>24. CASE WriterTakes
  <2>1. /\ UNCHANGED <<arrived, early, delivered, data>> /\ r1 = r0
        /\ writer = "select" /\ writer' = "check" /\ p' = Head(chRead)
        /\ chRead # Nil /\ chRead' = Tail(chRead)
    BY <1>4, <1>24 DEF WriterTakes, Nil
  <2>2. InHand = Nil /\ InHand' = Head(chRead)
    BY <1>1, <2>1 DEF InHand, TakenOK
  <2>3. PICK m \in Nat : HoldsUnits(chRead', m) /\ n = Len(Head(chRead)) + m
    <3>1. chRead \in Seq(Chains)
      BY <1>1 DEF TypeOK
    <3> QED
      BY <1>3, <2>1, <3>1, UnitsPopped
  <2>4. Len(InHand) = 0 /\ n = Len(InHand') + m /\ m \in Nat
    BY <2>2, <2>3, NilChain, Zenon
  <2>5. h1 + m = h0 + n /\ h0 + n \in Nat
    <3>1. UNCHANGED <<early, delivered, data>> /\ r1 = r0
      BY <2>1
    <3> QED
      BY <1>5, <1>6, <1>7, <2>4, <3>1
  <2>6. h1 + m <= h0 + n
    BY <2>5
  <2> QED
    BY <1>8, <2>1, <2>3, <2>5, <2>6
<1>25. CASE WriterTakesNil
  <2>1. /\ UNCHANGED <<arrived, early, delivered, p, data>> /\ r1 = r0
        /\ writer # "lock" /\ writer' # "lock"
        /\ \/ chRead' = chRead
           \/ chRead # Nil /\ Head(chRead) = Nil /\ chRead' = Tail(chRead)
    BY <1>4, <1>25 DEF WriterTakesNil, Nil
  <2>2. InHand' = InHand
    BY <2>1 DEF InHand
  <2>3. HoldsUnits(chRead', n)
    <3>1. CASE chRead # Nil /\ Head(chRead) = Nil /\ chRead' = Tail(chRead)
      <4>1. chRead \in Seq(Chains)
        BY <1>1 DEF TypeOK
      <4>2. PICK m \in Nat : HoldsUnits(chRead', m) /\ n = Len(Head(chRead)) + m
        BY <1>3, <3>1, <4>1, UnitsPopped
      <4>3. m = n
        BY <3>1, <4>2, NilChain
      <4> QED
        BY <4>2, <4>3
    <3> QED
      BY <1>3, <2>1, <3>1
  <2>4. h1 + n <= h0 + n
    BY <1>5, <1>6, <1>7, <2>1, <2>2
  <2>5. Intact' => h1 + n = h0 + n
    BY <1>5, <1>6, <1>7, <2>1, <2>2
  <2> QED
    BY <1>3, <1>8, <2>1, <2>3, <2>4, <2>5
<1>26. CASE WriterWrites
  <2>1. /\ UNCHANGED <<arrived, early, p, chRead, data>> /\ r1 = r0
        /\ writer = "write" /\ writer' = "lock"
        /\ delivered' = Append(delivered, Head(p))
    BY <1>4, <1>26 DEF WriterWrites
  <2>2. p # Nil /\ InHand = p /\ InHand' = Tail(p)
    BY <1>1, <2>1 DEF InHand, ChanOK
  <2>3. Len(Tail(p)) = Len(p) - 1 /\ Len(delivered') = Len(delivered) + 1
    BY <1>1, <2>1, <2>2, Popped DEF TypeOK, Chains
  <2>4. Len(InHand') = Len(InHand) - 1
    BY <2>2, <2>3
  <2>5. h1 + n = h0 + n /\ h0 + n \in Nat
    BY <1>5, <1>6, <1>7, <2>1, <2>3, <2>4
  <2>6. h1 + n <= h0 + n
    BY <2>5
  <2> QED
    BY <1>3, <1>8, <2>1, <2>5, <2>6
<1>27. CASE WriterFrees
  <2>1. /\ UNCHANGED <<arrived, early, delivered, chRead, data>> /\ r1 = r0
        /\ writer = "lock" /\ writer' # "lock" /\ p' = Tail(p)
    BY <1>4, <1>27 DEF WriterFrees
  <2>2. InHand' = InHand
    BY <2>1 DEF InHand
  <2>3. h1 + n <= h0 + n
    BY <1>5, <1>6, <1>7, <2>1, <2>2
  <2>4. Intact' => h1 + n = h0 + n
    BY <1>5, <1>6, <1>7, <2>1, <2>2
  <2> QED
    BY <1>3, <1>8, <2>1, <2>3, <2>4
<1>28. CASE ReadFrom
  <2>1. /\ UNCHANGED <<arrived, early, delivered, writer, p, chRead, data>>
        /\ refused' = refused \/ (pcb' = "gone" /\ refused' = Nothing)
    BY <1>28 DEF ReadFrom, SenderStarts, SenderReads, SenderChecks, SenderWrites,
       SenderFails, SenderReturns, SenderOutputs, SenderWaits, Aborts
  <2>2. r1 = r0 \/ (pcb' = "gone" /\ r1 = 0)
    BY <1>4, <2>1, NilChain DEF Nothing
  <2> QED
    BY <1>2, <1>5, <1>9, <2>1, <2>2, NilChain
<1>29. ASSUME NEW c \in Callers, Callback(c) /\ ~ErrPuts(c) PROVE CountOK'
  <2>1. UNCHANGED <<arrived, early, delivered, writer, p, chRead, data>> /\ r1 = r0
    BY <1>4, <1>29 DEF Callback, ErrTests, ErrClears, ErrPanics
  <2> QED
    BY <1>5, <1>9, <2>1
<1> QED
  BY <1>10, <1>11, <1>12, <1>13, <1>14, <1>15, <1>16, <1>17, <1>18, <1>19, <1>20,
     <1>21, <1>22, <1>23, <1>24, <1>25, <1>26, <1>27, <1>28, <1>29
     DEF Next, Lwip, Acceptor, WriteTo

LEMMA ReaderInitial == Init => ReaderOK
<1> SUFFICES ASSUME Init PROVE ReaderOK
  OBVIOUS
<1>1. HoldsUnits(chRead, 0)
  BY UnitsEmpty DEF Init, Nil
<1>2. CountOK
  <2>1. /\ arrived = 0 /\ early = 0 /\ delivered = Nil /\ InHand = Nil
        /\ data = Nil /\ refused.data = Nil
    BY DEF Init, InHand, Nothing, Nil
  <2>2. /\ Len(delivered) = 0 /\ Len(InHand) = 0 /\ Len(data) = 0
        /\ Len(refused.data) = 0
    BY <2>1, NilChain
  <2>3. Held = 0
    BY <2>1, <2>2 DEF Held
  <2> QED
    BY <1>1, <2>1, <2>3 DEF CountOK
<1>3. PeerOK /\ TakenOK
  BY DEF Init, PeerOK, TakenOK, Intact
<1>4. ~FinPending /\ CarriedOK
  BY DEF Init, FinPending, CarriedOK, Nothing
<1>5. EofOK
  BY <1>4 DEF Init, EofOK
<1> QED
  BY <1>2, <1>3, <1>4, <1>5 DEF ReaderOK

LEMMA ReaderStep == IInv /\ ReaderOK /\ [Next]_vars => ReaderOK'
<1> SUFFICES ASSUME IInv, ReaderOK, [Next]_vars PROVE ReaderOK'
  OBVIOUS
<1>1. CountOK' /\ PeerOK' /\ TakenOK'
  BY CountStep, PeerStep, TakenStep DEF ReaderOK
<1>2. ASSUME Intact' PROVE CarriedOK' /\ EofOK'
  <2>1. Intact
    BY <1>2, StaysBroken
  <2>2. PeerOK /\ TakenOK /\ CarriedOK /\ EofOK
    BY <2>1 DEF ReaderOK
  <2> QED
    BY <1>2, <2>1, <2>2, CarriedStep, EofStep
<1> QED
  BY <1>1, <1>2 DEF ReaderOK

LEMMA ReaderInvariant == Spec => [](IInv /\ ReaderOK)
<1>1. Init => IInv /\ ReaderOK
  BY Initial, ReaderInitial
<1>2. IInv /\ ReaderOK /\ [Next]_vars => (IInv /\ ReaderOK)'
  BY Inductive, ReaderStep
<1> QED
  BY <1>1, <1>2, PTL DEF Spec

-----------------------------------------------------------------------------
\* A segment is the next units or the end of the stream; when lwIP frees the pcb with
\* it, there was a FIN before.
LEMMA SegmentSends ==
  ASSUME IInv, ReaderOK, Segment
  PROVE  Uplink!Send \/ Uplink!Disturb \/ UNCHANGED Uplink!vars
<1>1. TypeOK /\ TypeOK' /\ PeerOK
  BY TypeStep DEF IInv, ReaderOK, Next, Lwip
<1>2. UNCHANGED <<delivered, result, connPcb>> /\ step = "segment"
  BY DEF Segment, chanVars, writerVars
<1>3. /\ arrived' = arrived + Len(seg.data) /\ ended' = (ended \/ seg.fin)
      /\ early' = early \/ early' = early + Len(seg.data)
  BY DEF Segment
<1>4. PICK u : u = Len(seg.data) /\ u \in Nat
  <2>1. seg.data \in Chains
    BY <1>1 DEF TypeOK
  <2> QED
    BY <2>1, ChainLength, Zenon
<1>5. /\ arrived' = arrived + u /\ (early' = early \/ early' = early + u)
      /\ u \in Nat /\ arrived \in Nat /\ early \in Nat
  <2>1. arrived \in Nat /\ early \in Nat
    BY <1>1, BoundsAssumption DEF TypeOK
  <2>2. arrived' = arrived + u /\ (early' = early \/ early' = early + u)
    BY <1>3, <1>4, Zenon
  <2> QED
    BY <1>4, <2>1, <2>2
<1>6. CASE ended
  <2>1. u = 0
    BY <1>1, <1>2, <1>4, <1>6, NilChain, Zenon DEF PeerOK
  <2>2. ~seg.fin
    BY <1>1, <1>2, <1>6 DEF PeerOK
  <2>3. ended' = ended
    BY <1>3, <1>6, <2>2, Zenon
  <2>4. arrived' - early' = arrived - early
    BY <1>5, <2>1
  <2>5. (~Intact)' = ~Intact \/ (~Intact)' = ~(~Intact)
    BY DEF Intact
  <2>6. Len(delivered') = Len(delivered) /\ result' = result
    BY <1>2
  <2> QED
    BY <2>3, <2>4, <2>5, <2>6, Zenon DEF Uplink!Disturb, Uplink!vars
<1>7. CASE ~ended
  <2>1. pcb # "closing"
    BY <1>1, <1>7 DEF PeerOK
  <2>2. pcb' = pcb \/ (pcb' = "closing" /\ pcb # "gone")
    <3>1. CASE registered
      BY <2>1, <3>1 DEF Segment
    <3>2. CASE ~registered
      <4>1. pcb # "gone"
        BY <1>2, <3>2, Unregistered
      <4> QED
        BY <2>1, <3>2, <4>1 DEF Segment
    <3> QED
      BY <3>1, <3>2
  <2>3. (~Intact)' = ~Intact
    BY <1>2, <2>2 DEF Intact
  <2>4. arrived' - early' >= arrived - early
    BY <1>5
  <2>5. ended' \in BOOLEAN
    BY <1>1 DEF TypeOK
  <2>6. Len(delivered') = Len(delivered) /\ result' = result
    BY <1>2
  <2> QED
    BY <1>7, <2>3, <2>4, <2>5, <2>6, Zenon DEF Uplink!Send
<1> QED
  BY <1>6, <1>7

\* What w.Write has got is at most what the peer sent, and is all of it when WriteTo
\* finds the nil of a FIN.
LEMMA DeliveredIsSent ==
  ASSUME IInv, ReaderOK
  PROVE  /\ arrived - early \in Nat /\ Len(delivered) \in Nat
         /\ writer = "write" => Len(delivered) < arrived - early
         /\ writer = "select" /\ chRead # Nil /\ Head(chRead) = Nil /\ Intact
              => ended /\ Len(delivered) = arrived - early
<1>1. TypeOK /\ ChanOK /\ TakenOK
  BY DEF IInv, ReaderOK
<1>2. PICK n \in Nat : HoldsUnits(chRead, n) /\ Held + n <= arrived
                      /\ (Intact => Held + n = arrived)
  BY DEF ReaderOK, CountOK
<1>3. PICK i, r : i = Len(InHand) /\ r = Len(refused.data)
  OBVIOUS
<1>4. i \in Nat /\ r \in Nat
  <2>1. Len(InHand) \in Nat
    BY <1>1, ChainInHand DEF InHand, TypeOK
  <2>2. refused.data \in Chains
    BY <1>1 DEF TypeOK
  <2>3. Len(refused.data) \in Nat
    BY <2>2, ChainLength, Zenon
  <2> QED
    BY <1>3, <2>1, <2>3, Zenon
<1>5. /\ arrived \in Nat /\ early \in Nat /\ early <= arrived
      /\ Len(delivered) \in Nat /\ Len(data) \in Nat
  BY <1>1, BoundsAssumption DEF TypeOK, Chains
<1>6. /\ n \in Nat /\ early + Len(delivered) + i + Len(data) + r + n <= arrived
      /\ Intact => early + Len(delivered) + i + Len(data) + r + n = arrived
  BY <1>2, <1>3, Zenon DEF Held
<1>7. ASSUME writer = "write" PROVE Len(delivered) < arrived - early
  <2>1. p \in Chains /\ p # Nil /\ InHand = p
    BY <1>1, <1>7 DEF TypeOK, ChanOK, InHand
  <2>2. Len(p) > 0
    BY <2>1, Popped DEF Chains
  <2>3. i > 0
    BY <1>3, <2>1, <2>2, Zenon
  <2> QED
    BY <1>4, <1>5, <1>6, <2>3
<1>8. ASSUME writer = "select", chRead # Nil, Head(chRead) = Nil, Intact
      PROVE  ended /\ Len(delivered) = arrived - early
  <2>1. EofOK
    BY <1>8 DEF ReaderOK
  <2>2. chRead \in Seq(Chains) /\ Len(chRead) \in Nat /\ Len(chRead) > 0
    BY <1>1, <1>8 DEF TypeOK, Nil
  <2>3. chRead[1] = Nil /\ 1 \in 1..Len(chRead)
    BY <1>8, <2>2 DEF Nil
  <2>4. Len(chRead) = 1 /\ ended /\ data = Nil /\ refused.data = Nil
    BY <2>1, <2>3, Zenon DEF EofOK
  <2>5. n = 0
    BY <1>2, <2>2, <2>3, <2>4, UnitsOne
  <2>6. i = 0 /\ r = 0 /\ Len(data) = 0
    <3>1. InHand = Nil
      BY <1>1, <1>8 DEF InHand, TakenOK
    <3> QED
      BY <1>3, <2>4, <3>1, NilChain, Zenon
  <2>7. early + Len(delivered) + i + Len(data) + r + n = arrived
    BY <1>6, <1>8
  <2>8. Len(delivered) = arrived - early
    BY <1>5, <2>5, <2>6, <2>7
  <2> QED
    BY <2>4, <2>8
<1>9. arrived - early \in Nat
  BY <1>5
<1> QED
  BY <1>5, <1>7, <1>8, <1>9

\* Every step is one of UplinkStream, or none.
LEMMA ReaderSimulates ==
  IInv /\ ReaderOK /\ [Next]_vars => [Uplink!Next]_(Uplink!vars)
<1> SUFFICES ASSUME IInv, ReaderOK, [Next]_vars
             PROVE  Uplink!Next \/ UNCHANGED Uplink!vars
  OBVIOUS
<1> USE DEF lwipVars, callVars, chanVars, writerVars, senderVars
<1>1. TypeOK /\ TakenOK
  BY DEF IInv, ReaderOK
<1>2. ASSUME UNCHANGED <<arrived, early, ended, delivered, result>>
      PROVE  Uplink!Next \/ UNCHANGED Uplink!vars
  <2>1. (~Intact)' = ~Intact \/ (~Intact)' = ~(~Intact)
    BY DEF Intact
  <2> QED
    BY <1>2, <2>1, Zenon DEF Uplink!Next, Uplink!Disturb, Uplink!vars
<1>3. CASE UNCHANGED vars
  BY <1>2, <1>3 DEF vars
<1>4. CASE Lwip /\ ~Segment
  BY <1>2, <1>4 DEF Lwip, Packet, Retry, ResetEnters, ResetLeaves, RecvDrops,
     RecvTakes, RecvPuts, RecvRefuses, Accepted, Eof, EofPuts, PcbLost, Leave
<1>5. CASE Segment
  BY <1>5, SegmentSends DEF Uplink!Next
<1>6. CASE Acceptor \/ Close
  BY <1>2, <1>6 DEF Acceptor, Register, HandleReturns, AcceptRetries, AcceptAborts,
     AcceptAborted, Close
<1>7. CASE ReadFrom
  BY <1>2, <1>7 DEF ReadFrom, SenderStarts, SenderReads, SenderChecks, SenderWrites,
     SenderFails, SenderReturns, SenderOutputs, SenderWaits
<1>8. ASSUME NEW c \in Callers, Callback(c)
      PROVE  Uplink!Next \/ UNCHANGED Uplink!vars
  BY <1>2, <1>8 DEF Callback, ErrTests, ErrClears, ErrPuts, ErrPanics
<1>9. CASE WriterStarts \/ WriterTakes \/ WriterTimesOut \/ WriterGoesOn
           \/ WriterFrees \/ WriterFails
  BY <1>2, <1>9 DEF WriterStarts, WriterTakes, WriterTimesOut, WriterGoesOn,
     WriterFrees, WriterFails
\* An end that WriteTo reports once the connection is broken.
<1>10. ASSUME ~Intact, UNCHANGED <<arrived, early, ended, delivered, connPcb, pcb>>,
              result = "more", result' \in {"eof", "error"}
       PROVE  Uplink!Next \/ UNCHANGED Uplink!vars
  <2>1. (~Intact)' = ~Intact
    BY <1>10 DEF Intact
  <2> QED
    BY <1>10, <2>1 DEF Uplink!Next, Uplink!EndOfFile, Uplink!Fail
<1>11. CASE WriterTakesNil
  <2>1. /\ UNCHANGED <<arrived, early, ended, delivered, connPcb, pcb>>
        /\ result = "more" /\ result' = "eof" /\ writer = "select"
    BY <1>1, <1>11 DEF WriterTakesNil, TakenOK
  <2>2. CASE ~Intact
    BY <1>10, <2>1, <2>2
  <2>3. CASE Intact
    <3>1. chRead # Nil /\ Head(chRead) = Nil
      BY <1>1, <1>11, <2>3 DEF WriterTakesNil, TakenOK, Intact, Nil
    <3>2. ended /\ Len(delivered) = arrived - early
      BY <2>1, <2>3, <3>1, DeliveredIsSent
    <3>3. (~Intact)' = ~Intact
      BY <2>1 DEF Intact
    <3> QED
      BY <2>1, <3>2, <3>3, Zenon DEF Uplink!Next, Uplink!EndOfFile
  <2> QED
    BY <2>2, <2>3
<1>12. CASE WriterChecks
  <2>1. UNCHANGED <<arrived, early, ended, delivered, connPcb, pcb>>
    BY <1>12 DEF WriterChecks
  <2>2. CASE connPcb
    BY <1>2, <1>12, <2>1, <2>2 DEF WriterChecks
  <2>3. CASE ~connPcb
    <3>1. ~Intact /\ result = "more" /\ result' = "eof"
      BY <1>1, <1>12, <2>3 DEF WriterChecks, TakenOK, Intact
    <3> QED
      BY <1>10, <2>1, <3>1
  <2> QED
    BY <2>2, <2>3
<1>13. CASE WriterReturns
  <2>1. UNCHANGED <<arrived, early, ended, delivered, connPcb, pcb>>
    BY <1>13 DEF WriterReturns
  <2>2. ~Intact /\ result = "more" /\ result' = "error"
    BY <1>1, <1>13 DEF WriterReturns, TakenOK
  <2> QED
    BY <1>10, <2>1, <2>2
<1>14. CASE WriterWrites
  <2>1. /\ UNCHANGED <<arrived, early, ended, result, connPcb, pcb>>
        /\ writer = "write" /\ result = "more"
    BY <1>1, <1>14 DEF WriterWrites, TakenOK
  <2>2. Len(delivered) < arrived - early
    BY <2>1, DeliveredIsSent
  <2>3. Len(delivered') = Len(delivered) + 1
    BY <1>1, <1>14 DEF WriterWrites, TypeOK, Chains
  <2>4. (~Intact)' = ~Intact
    BY <2>1 DEF Intact
  <2> QED
    BY <2>1, <2>2, <2>3, <2>4, Zenon DEF Uplink!Next, Uplink!Deliver
<1> QED
  BY <1>3, <1>4, <1>5, <1>6, <1>7, <1>8, <1>9, <1>11, <1>12, <1>13, <1>14
     DEF Next, WriteTo

\* To its reader the connection gives what the peer sent once and in order, then EOF,
\* whatever is refused and offered again, and EOF early only if it was closed or
\* aborted (WriteTo, ipstack/tcp.go; tcpRecvFn, ipstack/c_export.go).
THEOREM Read == Spec => ReaderStream
<1>1. Init => Uplink!Init
  BY NilChain DEF Init, Uplink!Init, Intact, Nil
<1> QED
  BY <1>1, ReaderSimulates, ReaderInvariant, PTL DEF Spec, ReaderStream, Uplink!Spec

-----------------------------------------------------------------------------
(* Which units are where.                                                  *)

\* The segment lwIP has in hand is what comes next, and nothing but what
\* tcp_recv_null swallows comes before newTcpConn.
ArrivalOK ==
  /\ step \in {"retry", "segment"} \/ retrying
       => seg.data = Chain(arrived, Len(seg.data))
  /\ ~registered => arrived = early
  /\ accept = "spawned" => ~registered

\* What CarriedOK says is there in one place only, without asking that the connection
\* be intact.
PlaceOK ==
  /\ data # Nil => step \in {"recv", "put"}
  /\ step \in {"recv", "put", "eof", "eofput"} => refused.data = Nil
  /\ step = "segment" /\ refused.data # Nil => seg.data = Nil /\ ~seg.fin

LEMMA ChainNone == \A first \in Nat : Chain(first, 0) = Nil
  BY DEF Chain, Nil

LEMMA ArrivalStep == IInv /\ ArrivalOK /\ [Next]_vars => ArrivalOK'
<1> SUFFICES ASSUME IInv, ArrivalOK, [Next]_vars PROVE ArrivalOK'
  OBVIOUS
<1>1. TypeOK /\ CallOK
  BY DEF IInv
<1> USE DEF lwipVars, callVars, chanVars, writerVars, senderVars
<1>2. arrived \in Nat /\ early \in Nat
  BY <1>1, CountsAreNats
<1>3. ASSUME UNCHANGED <<arrived, early, seg, registered>>,
             accept' = "spawned" => accept = "spawned",
             step' \in {"retry", "segment"} \/ retrying'
               => step \in {"retry", "segment"} \/ retrying
      PROVE  ArrivalOK'
  BY <1>3 DEF ArrivalOK
<1>4. CASE UNCHANGED vars
  BY <1>3, <1>4 DEF vars
<1>5. CASE Packet
  <2>1. PICK n \in 0..MaxChain, fin \in BOOLEAN, rst \in BOOLEAN :
          /\ n > 0 => arrived + n <= MaxData
          /\ seg' = [data |-> Chain(arrived, n), fin |-> fin, rst |-> rst]
    BY <1>5 DEF Packet
  <2>2. Len(Chain(arrived, n)) = n
    BY <1>2, <2>1, ChainUnits, BoundsAssumption
  <2>3. seg'.data = Chain(arrived, Len(seg'.data))
    BY <2>1, <2>2
  <2> QED
    BY <1>5, <2>3 DEF Packet, ArrivalOK
<1>6. CASE Segment
  <2>1. step' \in {"recv", "eof", "leave"} /\ ~retrying'
    BY <1>1, <1>5, <1>6 DEF Segment, CallOK
  <2>2. UNCHANGED <<registered, accept>>
    BY <1>6 DEF Segment
  <2>3. ~registered => arrived' = arrived + Len(seg.data) /\ early' = early + Len(seg.data)
    BY <1>6 DEF Segment
  <2> QED
    BY <2>1, <2>2, <2>3 DEF ArrivalOK
<1>7. CASE RecvDrops \/ RecvPuts
  <2>1. Accepted /\ step \in {"recv", "put"} /\ UNCHANGED <<lock, seg, arrived>>
    BY <1>7 DEF RecvDrops, RecvPuts
  <2>2. step' \in {"retry", "segment"} \/ retrying' => retrying
    BY <1>1, <2>1, AcceptedGoes
  <2> QED
    BY <1>3, <1>7, <2>2 DEF RecvDrops, RecvPuts
<1>8. CASE Retry \/ ResetEnters \/ ResetLeaves \/ RecvTakes \/ PcbLost
  BY <1>3, <1>8 DEF Retry, ResetEnters, ResetLeaves, RecvTakes, PcbLost
<1>9. CASE RecvRefuses
  <2>1. step' = "segment" => retrying
    BY <1>9 DEF RecvRefuses, AfterRefusal, Resume
  <2>2. step' \in {"segment", "leave"} /\ ~retrying'
    BY <1>9 DEF RecvRefuses, AfterRefusal, Resume
  <2> QED
    BY <1>3, <1>9, <2>1, <2>2 DEF RecvRefuses
<1>10. CASE Eof \/ EofPuts
  <2>1. step' \in {"eofput", "segment", "leave"} /\ (step' = "segment" => retrying)
        /\ (retrying' => retrying)
    BY <1>10 DEF Eof, EofPuts, Resume
  <2> QED
    BY <1>3, <1>10, <2>1 DEF Eof, EofPuts
<1>11. CASE Leave
  <2>1. step' = "none" /\ ~retrying'
    BY <1>1, <1>11 DEF Leave, CallOK
  <2>2. /\ UNCHANGED <<arrived, early, registered>>
        /\ accept' = "spawned" => accept = "spawned"
    BY <1>11 DEF Leave
  <2> QED
    BY <2>1, <2>2 DEF ArrivalOK
<1>12. CASE Register
  <2>1. UNCHANGED <<arrived, early, seg, step, retrying>> /\ accept' = "handling"
        /\ accept = "spawned"
    BY <1>12 DEF Register
  <2> QED
    BY <2>1 DEF ArrivalOK
<1>13. CASE AcceptRetries
  <2>1. seg.data = Nil /\ Len(seg.data) = 0
    BY <1>1, <1>13, NilChain DEF AcceptRetries, CallOK, Ack
  <2>2. seg.data = Chain(arrived, Len(seg.data))
    BY <1>2, <2>1, ChainNone
  <2> QED
    BY <1>13, <2>2 DEF AcceptRetries, ArrivalOK
<1>14. CASE HandleReturns \/ AcceptAborts \/ AcceptAborted
  BY <1>3, <1>14 DEF HandleReturns, AcceptAborts, AcceptAborted
<1>15. CASE Close
  BY <1>3, <1>15 DEF Close
<1>16. CASE WriteTo
  BY <1>3, <1>16 DEF WriteTo, WriterStarts, WriterTakes, WriterTakesNil,
     WriterTimesOut, WriterGoesOn, WriterChecks, WriterWrites, WriterFrees,
     WriterFails, WriterReturns
<1>17. CASE ReadFrom
  BY <1>3, <1>17 DEF ReadFrom, SenderStarts, SenderReads, SenderChecks, SenderWrites,
     SenderFails, SenderReturns, SenderOutputs, SenderWaits
<1>18. ASSUME NEW c \in Callers, Callback(c) PROVE ArrivalOK'
  BY <1>3, <1>18 DEF Callback, ErrTests, ErrClears, ErrPuts, ErrPanics
<1> QED
  BY <1>4, <1>5, <1>6, <1>7, <1>8, <1>9, <1>10, <1>11, <1>12, <1>13, <1>14, <1>15,
     <1>16, <1>17, <1>18 DEF Next, Lwip, Acceptor

LEMMA PlaceStep == IInv /\ PlaceOK /\ [Next]_vars => PlaceOK'
<1> SUFFICES ASSUME IInv, PlaceOK, [Next]_vars PROVE PlaceOK'
  OBVIOUS
<1>1. TypeOK /\ CallOK
  BY DEF IInv
<1> USE DEF lwipVars, callVars, chanVars, writerVars, senderVars
<1>2. ASSUME UNCHANGED <<data, refused, seg, step>>
      PROVE  PlaceOK'
  BY <1>2 DEF PlaceOK
<1>3. ASSUME data' = Nil, refused'.data = Nil
      PROVE  PlaceOK'
  BY <1>3 DEF PlaceOK
<1>4. CASE UNCHANGED vars
  BY <1>2, <1>4 DEF vars
<1>5. CASE Packet
  <2>1. step = "none" /\ UNCHANGED <<data, refused>>
        /\ step' = IF refused.data # Nil THEN "retry" ELSE "segment"
    BY <1>1, <1>5 DEF Packet, CallOK
  <2> QED
    BY <2>1 DEF PlaceOK
<1>6. CASE Retry
  <2>1. refused'.data = Nil /\ step' = "recv"
    BY <1>6 DEF Retry
  <2> QED
    BY <2>1 DEF PlaceOK
<1>7. CASE Segment
  <2>1. data = Nil /\ step = "segment" /\ UNCHANGED <<refused, seg>>
    BY <1>7 DEF Segment, PlaceOK
  <2>2. CASE registered
    <3>1. data' = seg.data
          /\ step' = IF seg.data # Nil THEN "recv" ELSE IF seg.fin THEN "eof" ELSE "leave"
      BY <1>7, <2>2 DEF Segment
    <3>2. refused.data # Nil => seg.data = Nil /\ ~seg.fin
      BY <2>1 DEF PlaceOK
    <3> QED
      BY <2>1, <3>1, <3>2 DEF PlaceOK
  <2>3. CASE ~registered
    <3>1. data' = data /\ step' = "leave"
      BY <1>7, <2>3 DEF Segment
    <3> QED
      BY <2>1, <3>1 DEF PlaceOK
  <2> QED
    BY <2>2, <2>3
<1>8. CASE RecvDrops \/ RecvPuts
  <2>1. data' = Nil /\ refused' = Nothing
    BY <1>8 DEF RecvDrops, RecvPuts, Accepted
  <2> QED
    BY <1>3, <2>1 DEF Nothing
<1>9. CASE RecvTakes
  <2>1. step = "recv" /\ step' = "put" /\ UNCHANGED <<data, refused, seg>>
    BY <1>9 DEF RecvTakes
  <2> QED
    BY <2>1 DEF PlaceOK
<1>10. CASE RecvRefuses
  <2>1. data' = Nil /\ seg' = seg /\ step' \in {"leave", "segment"}
        /\ (step' = "segment" => seg.data = Nil /\ ~seg.fin)
    BY <1>10 DEF RecvRefuses, AfterRefusal, Resume
  <2> QED
    BY <2>1 DEF PlaceOK
<1>11. CASE Eof \/ EofPuts
  <2>1. step \in {"eof", "eofput"} /\ UNCHANGED <<data, refused>>
    BY <1>11 DEF Eof, EofPuts
  <2>2. data = Nil /\ refused.data = Nil
    BY <2>1 DEF PlaceOK
  <2> QED
    BY <1>3, <2>1, <2>2
<1>12. CASE PcbLost
  <2>1. data' = Nil /\ step' = "leave"
    BY <1>12 DEF PcbLost
  <2> QED
    BY <2>1 DEF PlaceOK
<1>13. CASE ResetEnters
  <2>1. step = "segment" /\ step' = "reset" /\ UNCHANGED data
    BY <1>13 DEF ResetEnters
  <2> QED
    BY <2>1 DEF PlaceOK
<1>14. CASE ResetLeaves \/ AcceptAborted \/ Leave
  <2>1. step \in {"reset", "aborted", "leave"} /\ step' \in {"leave", "none"}
        /\ UNCHANGED data
    BY <1>14 DEF ResetLeaves, AcceptAborted, Leave
  <2> QED
    BY <2>1 DEF PlaceOK
<1>15. CASE AcceptRetries \/ AcceptAborts
  <2>1. step = "none" /\ step' \in {"retry", "leave", "aborted"} /\ UNCHANGED data
    BY <1>1, <1>15 DEF AcceptRetries, AcceptAborts, CallOK
  <2> QED
    BY <2>1 DEF PlaceOK
<1>16. CASE Register \/ HandleReturns \/ Close
  BY <1>2, <1>16 DEF Register, HandleReturns, Close
\* tcp_abort frees what is refused.
<1>17. ASSUME UNCHANGED <<data, seg, step>>, refused' \in {refused, Nothing}
       PROVE  PlaceOK'
  BY <1>17 DEF PlaceOK, Nothing
<1>18. CASE WriteTo
  BY <1>17, <1>18 DEF WriteTo, WriterStarts, WriterTakes, WriterTakesNil,
     WriterTimesOut, WriterGoesOn, WriterChecks, WriterWrites, WriterFrees,
     WriterFails, WriterReturns, Aborts
<1>19. CASE ReadFrom
  BY <1>17, <1>19 DEF ReadFrom, SenderStarts, SenderReads, SenderChecks, SenderWrites,
     SenderFails, SenderReturns, SenderOutputs, SenderWaits, Aborts
<1>20. ASSUME NEW c \in Callers, Callback(c) PROVE PlaceOK'
  BY <1>2, <1>20 DEF Callback, ErrTests, ErrClears, ErrPuts, ErrPanics
<1> QED
  BY <1>4, <1>5, <1>6, <1>7, <1>8, <1>9, <1>10, <1>11, <1>12, <1>13, <1>14, <1>15,
     <1>16, <1>18, <1>19, <1>20 DEF Next, Lwip, Acceptor

-----------------------------------------------------------------------------
(* The stream.                                                             *)

\* The numbers in s rise, up to n at most, and none of them is in gone.
Clean(s, gone, n) ==
  /\ \A i, j \in 1..Len(s) : i < j => s[i] < s[j]
  /\ \A i \in 1..Len(s) : s[i] \in 1..n /\ s[i] \notin gone
  /\ gone \subseteq 1..n

\* What is taken out of the middle may go.
LEMMA CleanWithout ==
  ASSUME NEW S, NEW s \in Seq(S), NEW t \in Seq(S), NEW u \in Seq(S), NEW n \in Nat,
         NEW gone, NEW more, more \subseteq gone \cup ToSet(t),
         Clean(Join(Join(s, t), u), gone, n)
  PROVE  Clean(Join(s, u), more, n)
<1>1. PICK ls \in Nat, lt \in Nat, lu \in Nat : ls = Len(s) /\ lt = Len(t) /\ lu = Len(u)
  OBVIOUS
<1>2. PICK st, a, z : st = Join(s, t) /\ a = Join(st, u) /\ z = Join(s, u)
  OBVIOUS
<1>3. Joined(st, s, t, ls, lt) /\ st \in Seq(S)
  BY <1>1, <1>2, JoinIs, JoinType
<1>4. Joined(z, s, u, ls, lu)
  BY <1>1, <1>2, JoinIs
<1>5. Joined(a, st, u, ls + lt, lu)
  <2>1. Joined(a, st, u, Len(st), lu)
    BY <1>1, <1>2, <1>3, JoinIs
  <2> QED
    BY <1>3, <2>1 DEF Joined
<1> DEFINE Place(i) == IF i <= ls THEN i ELSE i + lt
<1>6. ASSUME NEW i \in 1..(ls + lu)
      PROVE  z[i] = a[Place(i)] /\ Place(i) \in 1..(ls + lt + lu)
             /\ Place(i) \notin (ls + 1)..(ls + lt)
  <2>1. CASE i <= ls
    <3>1. i \in 1..ls /\ i \in 1..(ls + lt)
      BY <2>1
    <3>2. z[i] = s[i] /\ st[i] = s[i] /\ a[i] = st[i]
      BY <1>3, <1>4, <1>5, <3>1 DEF Joined
    <3> QED
      BY <2>1, <3>2
  <2>2. CASE ~(i <= ls)
    <3>1. PICK k : k = i - ls
      OBVIOUS
    <3>2. k \in 1..lu /\ ls + k = i /\ (ls + lt) + k = i + lt
      BY <2>2, <3>1
    <3>3. z[ls + k] = u[k]
      BY <1>4, <3>2 DEF Joined
    <3>4. a[(ls + lt) + k] = u[k]
      BY <1>5, <3>2 DEF Joined
    <3>5. z[i] = u[k]
      BY <3>2, <3>3
    <3>6. a[i + lt] = u[k]
      BY <3>2, <3>4
    <3>7. i + lt \in 1..(ls + lt + lu) /\ i + lt \notin (ls + 1)..(ls + lt)
      BY <2>2
    <3> QED
      BY <2>2, <3>5, <3>6, <3>7
  <2> QED
    BY <2>1, <2>2
<1>7. ASSUME NEW j \in 1..lt PROVE a[ls + j] = t[j] /\ ls + j \in 1..(ls + lt + lu)
  <2>1. ls + j \in 1..(ls + lt)
    OBVIOUS
  <2>2. a[ls + j] = st[ls + j] /\ st[ls + j] = t[j]
    BY <1>3, <1>5, <2>1 DEF Joined
  <2> QED
    BY <2>2
<1>8. /\ \A i, j \in 1..(ls + lt + lu) : i < j => a[i] < a[j]
      /\ \A i \in 1..(ls + lt + lu) : a[i] \in 1..n /\ a[i] \notin gone
      /\ gone \subseteq 1..n
  <2>1. Len(a) = ls + lt + lu
    BY <1>5 DEF Joined
  <2> QED
    BY <1>2, <2>1 DEF Clean
<1>9. \A i, j \in 1..(ls + lt + lu) : i # j => a[i] # a[j]
  <2>1. TAKE i, j \in 1..(ls + lt + lu)
  <2>2. a[i] \in Nat /\ a[j] \in Nat /\ (i < j => a[i] < a[j]) /\ (j < i => a[j] < a[i])
    BY <1>8
  <2> QED
    BY <2>2
<1>10. ASSUME NEW i \in 1..(ls + lu), NEW j \in 1..(ls + lu), i < j
       PROVE  z[i] < z[j]
  <2>1. Place(i) < Place(j)
    BY <1>10
  <2> QED
    BY <1>6, <1>8, <2>1
<1>11. ASSUME NEW i \in 1..(ls + lu)
       PROVE  z[i] \in 1..n /\ z[i] \notin more
  <2>1. PICK k : k = Place(i)
    OBVIOUS
  <2>2. z[i] = a[k] /\ k \in 1..(ls + lt + lu) /\ k \notin (ls + 1)..(ls + lt)
    BY <1>6, <2>1
  <2>3. a[k] \in 1..n /\ a[k] \notin gone
    BY <1>8, <2>2
  <2>4. ASSUME NEW j \in 1..lt PROVE a[k] # t[j]
    <3>1. k # ls + j
      BY <2>2
    <3> QED
      BY <1>7, <1>9, <2>2, <3>1
  <2>5. a[k] \notin ToSet(t)
    BY <1>1, <2>4 DEF ToSet
  <2> QED
    BY <2>2, <2>3, <2>5
<1>12. more \subseteq 1..n
  <2>1. \A j \in 1..lt : t[j] \in 1..n
    BY <1>7, <1>8
  <2> QED
    BY <1>1, <1>8, <2>1 DEF ToSet
<1>13. Clean(z, more, n)
  <2>1. Len(z) = ls + lu
    BY <1>4 DEF Joined
  <2> QED
    BY <1>10, <1>11, <1>12, <2>1 DEF Clean
<1> QED
  BY <1>2, <1>13

\* What comes from n on fits behind.
LEMMA CleanWith ==
  ASSUME NEW S, NEW s \in Seq(S), NEW c \in Seq(S), NEW n \in Nat, NEW k \in Nat, NEW gone,
         Clean(s, gone, n), Len(c) = k, \A i \in 1..k : c[i] = n + i
  PROVE  Clean(Join(s, c), gone, n + k)
<1>1. PICK ls \in Nat : ls = Len(s)
  OBVIOUS
<1>2. PICK z : z = Join(s, c)
  OBVIOUS
<1>3. \A i \in 1..ls : s[i] \in 1..n /\ s[i] \notin gone
  BY <1>1 DEF Clean
<1>4. Joined(z, s, c, ls, k)
  BY <1>1, <1>2, <1>3, JoinIs
<1>5. ASSUME NEW i \in 1..(ls + k)
      PROVE  z[i] = IF i <= ls THEN s[i] ELSE n + (i - ls)
  <2>1. CASE i <= ls
    BY <1>4, <2>1 DEF Joined
  <2>2. CASE ~(i <= ls)
    <3>1. PICK j : j = i - ls
      OBVIOUS
    <3>2. j \in 1..k /\ ls + j = i
      BY <2>2, <3>1
    <3>3. z[ls + j] = c[j] /\ c[j] = n + j
      BY <1>4, <3>2 DEF Joined
    <3> QED
      BY <2>2, <3>1, <3>2, <3>3
  <2> QED
    BY <2>1, <2>2
<1>6. gone \subseteq 1..n /\ \A i, j \in 1..ls : i < j => s[i] < s[j]
  BY <1>1 DEF Clean
<1>7. ASSUME NEW i \in 1..(ls + k), NEW j \in 1..(ls + k), i < j
      PROVE  z[i] < z[j]
  <2>1. CASE j <= ls
    BY <1>3, <1>5, <1>6, <1>7, <2>1
  <2>2. CASE ~(j <= ls) /\ i <= ls
    <3>1. i \in 1..ls /\ z[i] = s[i]
      BY <1>5, <2>2
    <3>2. z[i] \in 1..n
      BY <1>3, <3>1
    <3>3. z[j] = n + (j - ls) /\ j - ls > 0
      BY <1>5, <2>2
    <3> QED
      BY <3>2, <3>3
  <2>3. CASE ~(j <= ls) /\ ~(i <= ls)
    BY <1>5, <1>7, <2>3
  <2> QED
    BY <2>1, <2>2, <2>3
<1>8. ASSUME NEW i \in 1..(ls + k) PROVE z[i] \in 1..(n + k) /\ z[i] \notin gone
  <2>1. CASE i <= ls
    <3>1. z[i] \in 1..n /\ z[i] \notin gone
      BY <1>3, <1>5, <2>1
    <3> QED
      BY <3>1
  <2>2. CASE ~(i <= ls)
    <3>1. z[i] = n + (i - ls) /\ i - ls \in 1..k
      BY <1>5, <2>2
    <3> QED
      BY <1>6, <3>1
  <2> QED
    BY <2>1, <2>2
<1>9. gone \subseteq 1..(n + k)
  BY <1>6
<1> QED
  <2>1. Len(z) = ls + k
    BY <1>4 DEF Joined
  <2> QED
    BY <1>2, <1>7, <1>8, <1>9, <2>1 DEF Clean

\* The units of a chain in hand, of chRead, of a callback and of refused_data.
Parts(x, f, d, r) == Join(Join(Join(x, f), d), r)

LEMMA ChainsJoin ==
  ASSUME NEW s \in Chains, NEW t \in Chains
  PROVE  /\ Join(s, t) \in Chains
         /\ Join(Nil, t) = t /\ Join(s, Nil) = s
  BY JoinType, JoinNone DEF Chains, Nil

LEMMA ChainsAssociate ==
  ASSUME NEW s \in Chains, NEW t \in Chains, NEW u \in Chains
  PROVE  Join(Join(s, t), u) = Join(s, Join(t, u))
  BY JoinAssociative DEF Chains

\* Units that go from one place to the next stay where they are in the stream.
LEMMA PartsMove ==
  ASSUME NEW x \in Chains, NEW f \in Chains, NEW d \in Chains
  PROVE  /\ Parts(x, f, Nil, d) = Parts(x, f, d, Nil)
         /\ Parts(x, Join(f, d), Nil, Nil) = Parts(x, f, d, Nil)
         /\ Parts(x, f, d, Nil) = Join(Parts(x, f, Nil, Nil), d)
<1>1. Nil \in Chains
  BY NilChain
<1>2. PICK xf : xf = Join(x, f)
  OBVIOUS
<1>3. xf \in Chains
  BY <1>2, ChainsJoin
<1>4. Parts(x, f, Nil, d) = Join(xf, d) /\ Parts(x, f, d, Nil) = Join(xf, d)
      /\ Parts(x, f, Nil, Nil) = xf
  BY <1>1, <1>2, <1>3, ChainsJoin DEF Parts
<1>5. Parts(x, Join(f, d), Nil, Nil) = Join(xf, d)
  <2>1. Join(x, Join(f, d)) = Join(xf, d) /\ Join(xf, d) \in Chains
    BY <1>2, <1>3, ChainsJoin, ChainsAssociate
  <2> QED
    BY <2>1, ChainsJoin DEF Parts
<1> QED
  BY <1>4, <1>5

LEMMA PartsTaken ==
  ASSUME NEW x \in Chains, NEW f \in Chains, NEW h \in Chains, NEW d, NEW r
  PROVE  Parts(x, Join(h, f), d, r) = Parts(Join(x, h), f, d, r)
<1>1. Join(x, Join(h, f)) = Join(Join(x, h), f)
  BY ChainsAssociate
<1> QED
  BY <1>1 DEF Parts

LEMMA PartsType ==
  ASSUME NEW x \in Chains, NEW f \in Chains, NEW d \in Chains, NEW r \in Chains
  PROVE  Parts(x, f, d, r) \in Chains
<1>1. Join(x, f) \in Chains
  BY ChainsJoin
<1>2. Join(Join(x, f), d) \in Chains
  BY <1>1, ChainsJoin
<1> QED
  BY <1>2, ChainsJoin DEF Parts

LEMMA ChainsWithout ==
  ASSUME NEW s \in Chains, NEW t \in Chains, NEW u \in Chains, NEW n \in Nat,
         NEW gone, NEW more, more \subseteq gone \cup ToSet(t),
         Clean(Join(Join(s, t), u), gone, n)
  PROVE  Clean(Join(s, u), more, n)
  BY CleanWithout DEF Chains

\* One of the four places is emptied, and what it held may be freed.
LEMMA PartsWithout ==
  ASSUME NEW x \in Chains, NEW f \in Chains, NEW d \in Chains, NEW r \in Chains,
         NEW n \in Nat, NEW gone, NEW more, Clean(Parts(x, f, d, r), gone, n)
  PROVE  /\ more \subseteq gone \cup ToSet(f) => Clean(Parts(x, Nil, d, r), more, n)
         /\ more \subseteq gone \cup ToSet(d) => Clean(Parts(x, f, Nil, r), more, n)
         /\ more \subseteq gone \cup ToSet(r) => Clean(Parts(x, f, d, Nil), more, n)
<1>1. Nil \in Chains
  BY NilChain
<1>2. PICK xf, dr : xf = Join(x, f) /\ dr = Join(d, r)
  OBVIOUS
<1>3. xf \in Chains /\ dr \in Chains /\ Join(xf, d) \in Chains
  BY <1>2, ChainsJoin
<1>4. /\ Parts(x, f, d, r) = Join(Join(xf, d), r)
      /\ Parts(x, f, Nil, r) = Join(xf, r)
      /\ Parts(x, f, d, Nil) = Join(xf, d)
  BY <1>1, <1>2, <1>3, ChainsJoin DEF Parts
<1>5. ASSUME more \subseteq gone \cup ToSet(f)
      PROVE  Clean(Parts(x, Nil, d, r), more, n)
  <2>1. Parts(x, f, d, r) = Join(xf, dr)
    BY <1>2, <1>3, <1>4, ChainsAssociate
  <2>2. Clean(Join(Join(x, f), dr), gone, n)
    BY <1>2, <2>1
  <2>3. Clean(Join(x, dr), more, n)
    BY <1>3, <1>5, <2>2, ChainsWithout
  <2>4. Parts(x, Nil, d, r) = Join(Join(x, d), r)
    BY <1>1, ChainsJoin DEF Parts
  <2>5. Parts(x, Nil, d, r) = Join(x, dr)
    BY <1>2, <2>4, ChainsAssociate
  <2> QED
    BY <2>3, <2>5
<1>6. ASSUME more \subseteq gone \cup ToSet(d)
      PROVE  Clean(Parts(x, f, Nil, r), more, n)
  BY <1>3, <1>4, <1>6, ChainsWithout
<1>7. ASSUME more \subseteq gone \cup ToSet(r)
      PROVE  Clean(Parts(x, f, d, Nil), more, n)
  <2>1. PICK s : s = Join(xf, d)
    OBVIOUS
  <2>2. Join(Join(s, r), Nil) = Join(s, r) /\ Join(s, Nil) = s
    BY <1>1, <1>3, <2>1, ChainsJoin
  <2>3. Clean(Join(Join(s, r), Nil), gone, n)
    BY <1>4, <2>1, <2>2
  <2>4. Clean(Join(s, Nil), more, n)
    BY <1>1, <1>3, <1>7, <2>1, <2>3, ChainsWithout
  <2> QED
    BY <1>4, <2>1, <2>2, <2>4
<1> QED
  BY <1>5, <1>6, <1>7

\* So is the first unit of the chain in hand.
LEMMA PartsFirst ==
  ASSUME NEW x \in Chains, x # Nil, NEW f \in Chains, NEW d \in Chains, NEW r \in Chains,
         NEW n \in Nat, NEW gone, Clean(Parts(x, f, d, r), gone, n)
  PROVE  Clean(Parts(Tail(x), f, d, r), gone \cup {Head(x)}, n)
<1>1. PICK a, y : a = <<Head(x)>> /\ y = Tail(x)
  OBVIOUS
<1>2. a \in Chains /\ y \in Chains /\ x = Join(a, y) /\ ToSet(a) = {Head(x)}
  <2>1. a \in Chains /\ y \in Chains
    <3>1. x \in Seq(1..MaxData) /\ x # <<>>
      BY DEF Chains, Nil
    <3>2. Tail(x) \in Seq(1..MaxData) /\ Head(x) \in 1..MaxData
      BY <3>1, TailIs
    <3> QED
      BY <1>1, <3>2 DEF Chains
  <2>2. x = Join(a, y)
    BY <1>1, HeadJoinsTail DEF Chains, Nil
  <2>3. ToSet(a) = {Head(x)}
    BY <1>1 DEF ToSet
  <2> QED
    BY <2>1, <2>2, <2>3
<1>3. PICK rest : rest = Parts(y, f, d, r)
  OBVIOUS
<1>4. Parts(x, f, d, r) = Join(a, rest) /\ rest \in Chains
  <2>1. PICK yf : yf = Join(y, f)
    OBVIOUS
  <2>2. PICK yfd : yfd = Join(yf, d)
    OBVIOUS
  <2>3. yf \in Chains /\ yfd \in Chains
    BY <1>2, <2>1, <2>2, ChainsJoin
  <2>4. Join(x, f) = Join(a, yf)
    BY <1>2, <2>1, ChainsAssociate
  <2>5. Join(Join(a, yf), d) = Join(a, yfd)
    BY <1>2, <2>2, <2>3, ChainsAssociate
  <2>6. Join(Join(a, yfd), r) = Join(a, Join(yfd, r))
    BY <1>2, <2>3, ChainsAssociate
  <2>7. rest = Join(yfd, r)
    BY <1>3, <2>1, <2>2 DEF Parts
  <2>8. rest \in Chains
    BY <2>3, <2>7, ChainsJoin
  <2> QED
    BY <2>4, <2>5, <2>6, <2>7, <2>8 DEF Parts
<1>5. Nil \in Chains /\ Join(Nil, a) = a /\ Join(Nil, rest) = rest
  BY <1>2, <1>4, NilChain, ChainsJoin
<1>6. Clean(Join(Join(Nil, a), rest), gone, n)
  BY <1>4, <1>5
<1>7. Clean(Join(Nil, rest), gone \cup {Head(x)}, n)
  <2>1. PICK more : more = gone \cup {Head(x)}
    OBVIOUS
  <2>2. more \subseteq gone \cup ToSet(a)
    BY <1>2, <2>1
  <2> QED
    BY <1>2, <1>4, <1>5, <1>6, <2>1, <2>2, ChainsWithout
<1> QED
  BY <1>1, <1>3, <1>5, <1>7

LEMMA FlattenedChains ==
  ASSUME NEW q \in Seq(Chains)
  PROVE  /\ FlattenSeq(q) \in Chains
         /\ \A c \in Chains : FlattenSeq(Append(q, c)) = Join(FlattenSeq(q), c)
         /\ q # Nil => FlattenSeq(q) = Join(Head(q), FlattenSeq(Tail(q)))
<1>1. FlattenSeq(q) \in Chains
  BY FlattenType DEF Chains
<1>2. \A c \in Chains : FlattenSeq(Append(q, c)) = Join(FlattenSeq(q), c)
  BY FlattenAppend DEF Chains, Join
<1>3. q # Nil => FlattenSeq(q) = Join(Head(q), FlattenSeq(Tail(q)))
  BY FlattenHeadTail DEF Chains, Nil, Join
<1> QED
  BY <1>1, <1>2, <1>3

\* The invariant of the units, from which HeldNotFreed follows: those that somebody
\* still holds are in the order they came in, and none is freed.
CleanOK == Clean(Parts(p, FlattenSeq(chRead), data, refused.data), freed, arrived)

\* What Close frees was in chRead.
LEMMA DrainedOfChannel ==
  ASSUME chRead \in Seq(Chains)
  PROVE  Drained \subseteq ToSet(FlattenSeq(chRead))
<1>1. PICK n \in Nat : n = Len(chRead)
  OBVIOUS
<1> DEFINE nils == {i \in 1..Len(chRead) : chRead[i] = Nil}
           nil  == IF nils # {} THEN CHOOSE x \in nils : \A y \in nils : x <= y ELSE 0
<1>2. Drained = ToSet(FlattenSeq(IF nil = 0 THEN chRead ELSE SubSeq(chRead, 1, nil)))
  BY DEF Drained, SelectInSeq, Min
<1>3. nil \in 0..n
  <2>1. CASE nils = {}
    BY <1>1, <2>1
  <2>2. CASE nils # {}
    <3>1. nils \subseteq Nat
      OBVIOUS
    <3> HIDE DEF nils
    <3>2. \E x \in nils : \A y \in nils : x <= y
      BY <2>2, <3>1, LeastElement
    <3>3. nil \in nils
      BY <2>2, <3>2
    <3> QED
      BY <1>1, <3>3 DEF nils
  <2> QED
    BY <2>1, <2>2
<1> HIDE DEF nil
<1>4. PICK m : m = nil
  OBVIOUS
<1>5. m \in 0..Len(chRead)
  BY <1>1, <1>3, <1>4
<1>6. ToSet(FlattenSeq(SubSeq(chRead, 1, m))) \subseteq ToSet(FlattenSeq(chRead))
  BY <1>5, FlattenPrefix DEF Chains
<1> QED
  BY <1>2, <1>4, <1>6

LEMMA CleanStep ==
  IInv /\ ReaderOK /\ ArrivalOK /\ PlaceOK /\ CleanOK /\ [Next]_vars => CleanOK'
<1> SUFFICES ASSUME IInv, ReaderOK, ArrivalOK, PlaceOK, CleanOK, [Next]_vars
             PROVE  CleanOK'
  OBVIOUS
<1>1. TypeOK /\ TypeOK' /\ CallOK /\ ChanOK /\ TakenOK
  BY TypeStep DEF IInv, ReaderOK
<1> USE DEF lwipVars, callVars, chanVars, writerVars, senderVars
<1>2. PICK x0, x1, f0, f1, d0, d1, r0, r1, n0, n1 :
        /\ x0 = p /\ f0 = FlattenSeq(chRead) /\ d0 = data /\ r0 = refused.data
        /\ n0 = arrived
        /\ x1 = p' /\ f1 = FlattenSeq(chRead)' /\ d1 = data' /\ r1 = refused'.data
        /\ n1 = arrived'
  OBVIOUS
<1>3. /\ x0 \in Chains /\ f0 \in Chains /\ d0 \in Chains /\ r0 \in Chains /\ n0 \in Nat
      /\ x1 \in Chains /\ f1 \in Chains /\ d1 \in Chains /\ r1 \in Chains /\ n1 \in Nat
      /\ Nil \in Chains
  <2>1. f0 \in Chains
    BY <1>1, <1>2, FlattenedChains DEF TypeOK
  <2>2. f1 \in Chains
    <3>1. chRead' \in Seq(Chains)
      BY <1>1 DEF TypeOK
    <3>2. FlattenSeq(chRead') \in Chains
      BY <3>1, FlattenedChains
    <3> QED
      BY <1>2, <3>2
  <2>3. n0 \in Nat /\ n1 \in Nat
    BY <1>1, <1>2, BoundsAssumption DEF TypeOK
  <2>4. /\ x0 \in Chains /\ d0 \in Chains /\ r0 \in Chains
        /\ x1 \in Chains /\ d1 \in Chains /\ r1 \in Chains
    BY <1>1, <1>2 DEF TypeOK
  <2> QED
    BY <2>1, <2>2, <2>3, <2>4, NilChain
<1>4. Clean(Parts(x0, f0, d0, r0), freed, n0)
  BY <1>2 DEF CleanOK
<1>5. ASSUME Clean(Parts(x1, f1, d1, r1), freed', n1)
      PROVE  CleanOK'
  BY <1>2, <1>5 DEF CleanOK
\* Nothing is freed, and the units stay in order.
<1>6. ASSUME Parts(x1, f1, d1, r1) = Parts(x0, f0, d0, r0), UNCHANGED <<freed, arrived>>
      PROVE  CleanOK'
  BY <1>2, <1>4, <1>5, <1>6
<1>7. ASSUME UNCHANGED <<p, chRead, data, refused, freed, arrived>>
      PROVE  CleanOK'
  <2>1. x1 = x0 /\ f1 = f0 /\ d1 = d0 /\ r1 = r0
    BY <1>2, <1>7
  <2> QED
    BY <1>6, <1>7, <2>1
<1>8. CASE UNCHANGED vars
  BY <1>7, <1>8 DEF vars
<1>9. CASE Packet \/ ResetEnters \/ RecvTakes \/ Eof \/ Leave
  BY <1>7, <1>9 DEF Packet, ResetEnters, RecvTakes, Eof, Leave
<1>10. CASE Retry
  <2>1. x1 = x0 /\ f1 = f0 /\ d1 = r0 /\ r1 = Nil /\ UNCHANGED <<freed, arrived>>
    BY <1>2, <1>10 DEF Retry
  <2>2. d0 = Nil
    BY <1>2, <1>10 DEF Retry, PlaceOK
  <2>3. Parts(x0, f0, Nil, r0) = Parts(x0, f0, r0, Nil)
    BY <1>3, PartsMove
  <2> QED
    BY <1>6, <2>1, <2>2, <2>3
<1>11. CASE Segment
  <2>1. d0 = Nil /\ x1 = x0 /\ f1 = f0 /\ r1 = r0 /\ freed' = freed
    BY <1>2, <1>11 DEF Segment, PlaceOK
  <2>2. PICK c : c = seg.data
    OBVIOUS
  <2>3. c \in Chains /\ Len(c) \in Nat /\ n1 = n0 + Len(c) /\ \A i \in 1..Len(c) : c[i] = n0 + i
    <3>1. c = Chain(arrived, Len(c)) /\ c \in Chains
      BY <1>1, <1>11, <2>2 DEF Segment, ArrivalOK, TypeOK
    <3>2. Len(c) \in Nat
      BY <3>1, ChainLength
    <3>3. \A i \in 1..Len(c) : c[i] = n0 + i
      BY <1>2, <3>1 DEF Chain
    <3> QED
      BY <1>2, <1>11, <2>2, <3>1, <3>2, <3>3 DEF Segment
  <2>4. d1 \in {Nil, c} /\ (c # Nil => r0 = Nil)
    BY <1>2, <1>11, <2>1, <2>2 DEF Segment, PlaceOK
  <2>5. PICK k \in Nat, l \in Nat : k = Len(c) /\ l = Len(Nil)
    BY <2>3, NilChain
  <2>6. ASSUME NEW s \in Chains, Clean(s, freed, n0)
        PROVE  Clean(Join(s, c), freed, n1)
    BY <1>3, <2>3, <2>6, CleanWith DEF Chains
  <2>7. ASSUME NEW s, Clean(s, freed, n0)
        PROVE  Clean(s, freed, n1)
    <3>1. 1..n0 \subseteq 1..n1
      BY <1>3, <2>3
    <3> QED
      BY <2>7, <3>1 DEF Clean
  <2>8. CASE d1 = Nil
    <3>1. Parts(x1, f1, d1, r1) = Parts(x0, f0, d0, r0)
      BY <2>1, <2>8
    <3> QED
      BY <1>4, <1>5, <2>1, <2>7, <3>1
  <2>9. CASE d1 = c /\ c # Nil
    <3>1. Parts(x1, f1, d1, r1) = Join(Parts(x0, f0, d0, r0), c)
      BY <1>3, <2>1, <2>3, <2>4, <2>9, PartsMove
    <3>2. Parts(x0, f0, d0, r0) \in Chains
      BY <1>3, PartsType
    <3> QED
      BY <1>4, <1>5, <2>1, <2>6, <3>1, <3>2
  <2> QED
    BY <2>4, <2>8, <2>9
\* The units in one place are lost.
<1>12. ASSUME UNCHANGED <<p, chRead, data, arrived, freed>>, r1 = Nil
       PROVE  CleanOK'
  <2>1. Clean(Parts(x0, f0, d0, Nil), freed, n0)
    BY <1>3, <1>4, PartsWithout
  <2>2. x1 = x0 /\ f1 = f0 /\ d1 = d0 /\ n1 = n0
    BY <1>2, <1>12
  <2> QED
    BY <1>5, <1>12, <2>1, <2>2
<1>13. ASSUME UNCHANGED <<p, chRead, data, arrived, freed>>, refused' \in {refused, Nothing}
       PROVE  CleanOK'
  BY <1>2, <1>7, <1>12, <1>13 DEF Nothing
<1>14. CASE ResetLeaves \/ AcceptAborts
  BY <1>13, <1>14 DEF ResetLeaves, AcceptAborts
<1>15. CASE RecvDrops
  <2>1. /\ x1 = x0 /\ f1 = f0 /\ d1 = Nil /\ r1 = Nil /\ n1 = n0
        /\ freed' = freed \cup ToSet(d0)
    BY <1>2, <1>15 DEF RecvDrops, Accepted, Nothing
  <2>2. r0 = Nil
    BY <1>2, <1>15 DEF RecvDrops, PlaceOK
  <2>3. Clean(Parts(x0, f0, Nil, r0), freed', n0)
    BY <1>3, <1>4, <2>1, PartsWithout
  <2> QED
    BY <1>5, <2>1, <2>2, <2>3
<1>16. CASE RecvPuts
  <2>1. /\ x1 = x0 /\ d1 = Nil /\ r1 = Nil /\ UNCHANGED <<freed, arrived>>
        /\ chRead' = Append(chRead, data)
    BY <1>2, <1>16 DEF RecvPuts, Accepted, Nothing
  <2>2. r0 = Nil
    BY <1>2, <1>16 DEF RecvPuts, PlaceOK
  <2>3. f1 = Join(f0, d0)
    BY <1>1, <1>2, <2>1, FlattenedChains DEF TypeOK
  <2>4. Parts(x0, Join(f0, d0), Nil, Nil) = Parts(x0, f0, d0, Nil)
    BY <1>3, PartsMove
  <2> QED
    BY <1>6, <2>1, <2>2, <2>3, <2>4
<1>17. CASE RecvRefuses
  <2>1. /\ x1 = x0 /\ f1 = f0 /\ d1 = Nil /\ r1 = d0 /\ UNCHANGED <<freed, arrived>>
    BY <1>2, <1>17 DEF RecvRefuses, Kept
  <2>2. r0 = Nil
    BY <1>2, <1>17 DEF RecvRefuses, PlaceOK
  <2>3. Parts(x0, f0, Nil, d0) = Parts(x0, f0, d0, Nil)
    BY <1>3, PartsMove
  <2> QED
    BY <1>6, <2>1, <2>2, <2>3
\* A nil holds no unit.
<1>18. ASSUME UNCHANGED <<p, data, refused, freed, arrived>>, chRead' = Append(chRead, Nil)
       PROVE  CleanOK'
  <2>1. f1 = Join(f0, Nil)
    BY <1>1, <1>2, <1>3, <1>18, FlattenedChains DEF TypeOK
  <2>2. f1 = f0
    BY <1>3, <2>1, ChainsJoin
  <2>3. x1 = x0 /\ d1 = d0 /\ r1 = r0
    BY <1>2, <1>18
  <2> QED
    BY <1>6, <1>18, <2>2, <2>3
<1>19. CASE EofPuts
  BY <1>18, <1>19 DEF EofPuts
<1>20. CASE PcbLost
  <2>1. x1 = x0 /\ f1 = f0 /\ d1 = Nil /\ r1 = r0 /\ n1 = n0 /\ freed' = freed
    BY <1>2, <1>20 DEF PcbLost
  <2>2. Clean(Parts(x0, f0, Nil, r0), freed, n0)
    BY <1>3, <1>4, PartsWithout
  <2> QED
    BY <1>5, <2>1, <2>2
<1>21. CASE Register \/ HandleReturns \/ AcceptRetries \/ AcceptAborted
  BY <1>7, <1>21 DEF Register, HandleReturns, AcceptRetries, AcceptAborted
<1>22. CASE Close
  <2>1. /\ x1 = x0 /\ d1 = d0 /\ r1 = r0 /\ n1 = n0 /\ chRead' = <<>>
        /\ freed' = freed \cup Drained
    BY <1>2, <1>22 DEF Close
  <2>2. f1 = Nil
    BY <1>2, <2>1, FlattenOfNone DEF Nil
  <2>3. freed' \subseteq freed \cup ToSet(f0)
    BY <1>1, <1>2, <2>1, DrainedOfChannel DEF TypeOK
  <2>4. Clean(Parts(x0, Nil, d0, r0), freed', n0)
    BY <1>3, <1>4, <2>3, PartsWithout
  <2> QED
    BY <1>5, <2>1, <2>2, <2>4
<1>23. CASE WriterTakes
  <2>1. /\ chRead # Nil /\ x1 = Head(chRead) /\ chRead' = Tail(chRead)
        /\ d1 = d0 /\ r1 = r0 /\ UNCHANGED <<freed, arrived>>
    BY <1>2, <1>23 DEF WriterTakes, Nil
  <2>2. x0 = Nil
    BY <1>1, <1>2, <1>23 DEF WriterTakes, TakenOK
  <2>3. f0 = Join(x1, f1)
    BY <1>1, <1>2, <2>1, FlattenedChains DEF TypeOK
  <2>4. Parts(Nil, Join(x1, f1), d0, r0) = Parts(Join(Nil, x1), f1, d0, r0)
    BY <1>3, PartsTaken
  <2>5. Join(Nil, x1) = x1
    BY <1>3, ChainsJoin
  <2> QED
    BY <1>6, <2>1, <2>2, <2>3, <2>4, <2>5
<1>24. CASE WriterTakesNil
  <2>1. CASE chRead # Nil /\ Head(chRead) = Nil /\ chRead' = Tail(chRead)
    <3>1. f0 = Join(Nil, f1)
      BY <1>1, <1>2, <2>1, FlattenedChains DEF TypeOK
    <3>2. f1 = f0
      BY <1>3, <3>1, ChainsJoin
    <3>3. x1 = x0 /\ d1 = d0 /\ r1 = r0 /\ UNCHANGED <<freed, arrived>>
      BY <1>2, <1>24 DEF WriterTakesNil
    <3> QED
      BY <1>6, <3>2, <3>3
  <2>2. CASE UNCHANGED chRead
    BY <1>7, <1>24, <2>2 DEF WriterTakesNil
  <2> QED
    BY <1>24, <2>1, <2>2 DEF WriterTakesNil, Nil
<1>25. CASE WriterFrees
  <2>1. /\ x0 # Nil /\ x1 = Tail(x0) /\ f1 = f0 /\ d1 = d0 /\ r1 = r0 /\ n1 = n0
        /\ freed' = freed \cup {Head(x0)}
    BY <1>1, <1>2, <1>25 DEF WriterFrees, Freed, ChanOK
  <2>2. Clean(Parts(Tail(x0), f0, d0, r0), freed \cup {Head(x0)}, n0)
    BY <1>3, <1>4, <2>1, PartsFirst
  <2> QED
    BY <1>5, <2>1, <2>2
<1>26. CASE WriterStarts \/ WriterTimesOut \/ WriterGoesOn \/ WriterChecks
            \/ WriterWrites \/ WriterReturns
  BY <1>7, <1>26 DEF WriterStarts, WriterTimesOut, WriterGoesOn, WriterChecks,
     WriterWrites, WriterReturns
<1>27. CASE WriterFails \/ SenderFails
  BY <1>13, <1>27 DEF WriterFails, SenderFails, Aborts
<1>28. CASE SenderStarts \/ SenderReads \/ SenderChecks \/ SenderWrites
            \/ SenderReturns \/ SenderOutputs \/ SenderWaits
  BY <1>7, <1>28 DEF SenderStarts, SenderReads, SenderChecks, SenderWrites,
     SenderReturns, SenderOutputs, SenderWaits
<1>29. ASSUME NEW c \in Callers, Callback(c) PROVE CleanOK'
  <2>1. CASE ErrPuts(c)
    BY <1>18, <2>1 DEF ErrPuts
  <2>2. CASE ErrTests(c) \/ ErrClears(c) \/ ErrPanics(c)
    BY <1>7, <2>2 DEF ErrTests, ErrClears, ErrPanics
  <2> QED
    BY <1>29, <2>1, <2>2 DEF Callback
<1> QED
  BY <1>8, <1>9, <1>10, <1>11, <1>14, <1>15, <1>16, <1>17, <1>19, <1>20, <1>21,
     <1>22, <1>23, <1>24, <1>25, <1>26, <1>27, <1>28, <1>29
     DEF Next, Lwip, Acceptor, WriteTo, ReadFrom

LEMMA ChainsFollow ==
  ASSUME NEW first \in Nat, NEW n \in Nat, first <= n, NEW k \in Nat
  PROVE  Join(Chain(first, n - first), Chain(n, k)) = Chain(first, n + k - first)
<1>1. PICK a, z, c, m : /\ a = Chain(first, n - first) /\ z = Chain(n, k)
                        /\ c = Chain(first, n + k - first) /\ m = n - first
  OBVIOUS
<1>2. /\ m \in Nat /\ a \in Seq(Nat) /\ z \in Seq(Nat) /\ c \in Seq(Nat)
      /\ Len(a) = m /\ Len(z) = k /\ Len(c) = m + k
      /\ \A i \in 1..m : a[i] = first + i
      /\ \A i \in 1..k : z[i] = n + i
      /\ \A i \in 1..(m + k) : c[i] = first + i
  BY <1>1 DEF Chain
<1>3. PICK j : j = Join(a, z)
  OBVIOUS
<1>4. Joined(j, a, z, m, k) /\ j \in Seq(Nat)
  BY <1>2, <1>3, JoinIs, JoinType
<1>5. Len(j) = m + k
  BY <1>4 DEF Joined
<1>6. ASSUME NEW i \in 1..(m + k) PROVE j[i] = c[i]
  <2>1. CASE i <= m
    <3>1. i \in 1..m
      BY <2>1
    <3> QED
      BY <1>2, <1>4, <3>1 DEF Joined
  <2>2. CASE ~(i <= m)
    <3>1. PICK l : l = i - m
      OBVIOUS
    <3>2. l \in 1..k /\ m + l = i
      BY <1>2, <2>2, <3>1
    <3>3. j[m + l] = z[l]
      BY <1>4, <3>2 DEF Joined
    <3>4. z[l] = n + l /\ c[i] = first + i /\ n + l = first + i
      BY <1>1, <1>2, <3>2
    <3> QED
      BY <3>2, <3>3, <3>4
  <2> QED
    BY <2>1, <2>2
<1>7. j = c
  BY <1>2, <1>4, <1>5, <1>6, SameSeq
<1> QED
  BY <1>1, <1>3, <1>7

LEMMA UnitMoves ==
  ASSUME NEW v \in Chains, NEW q \in Chains, q # Nil
  PROVE  Join(Append(v, Head(q)), Tail(q)) = Join(v, q)
<1>1. PICK a, t : a = <<Head(q)>> /\ t = Tail(q)
  OBVIOUS
<1>2. q \in Seq(1..MaxData) /\ q # <<>> /\ v \in Seq(1..MaxData)
  BY DEF Chains, Nil
<1>3. Head(q) \in 1..MaxData /\ t \in Seq(1..MaxData)
  BY <1>1, <1>2, TailIs
<1>4. a \in Seq(1..MaxData)
  BY <1>1, <1>3
<1>5. q = Join(a, t)
  BY <1>1, <1>2, HeadJoinsTail
<1>6. Append(v, Head(q)) = Join(v, a)
  <2>1. PICK e : e = Head(q)
    OBVIOUS
  <2>2. Append(v, e) = v \o <<e>>
    BY <1>2, <1>3, <2>1
  <2> QED
    BY <1>1, <2>1, <2>2 DEF Join
<1>7. Join(Join(v, a), t) = Join(v, Join(a, t))
  BY <1>2, <1>3, <1>4, JoinAssociative
<1> QED
  BY <1>1, <1>5, <1>6, <1>7

\* The stream from newTcpConn on, place by place.
KeptOK ==
  Intact => Parts(Join(delivered, InHand), FlattenSeq(chRead), data, refused.data)
              = Chain(early, arrived - early)

LEMMA KeptStep ==
  IInv /\ ReaderOK /\ ArrivalOK /\ PlaceOK /\ KeptOK /\ [Next]_vars => KeptOK'
<1> SUFFICES ASSUME IInv, ReaderOK, ArrivalOK, PlaceOK, KeptOK, [Next]_vars, Intact'
             PROVE  KeptOK'
  BY DEF KeptOK
<1>1. TypeOK /\ TypeOK' /\ CallOK /\ ChanOK /\ TakenOK /\ Intact
  BY TypeStep, StaysBroken DEF IInv, ReaderOK
<1> USE DEF lwipVars, callVars, chanVars, writerVars, senderVars
<1>2. PICK x0, x1, f0, f1, d0, d1, r0, r1, n0, n1, e0, e1 :
        /\ x0 = Join(delivered, InHand) /\ f0 = FlattenSeq(chRead)
        /\ d0 = data /\ r0 = refused.data /\ n0 = arrived /\ e0 = early
        /\ x1 = Join(delivered, InHand)' /\ f1 = FlattenSeq(chRead)'
        /\ d1 = data' /\ r1 = refused'.data /\ n1 = arrived' /\ e1 = early'
  OBVIOUS
<1>3. PICK v0, h0 : v0 = delivered /\ h0 = InHand
  OBVIOUS
<1>4. v0 \in Chains /\ h0 \in Chains /\ x0 = Join(v0, h0) /\ x0 \in Chains
  <2>1. p \in Chains /\ v0 \in Chains
    BY <1>1, <1>3 DEF TypeOK
  <2>2. h0 \in Chains
    <3>1. CASE writer = "lock"
      <4>1. Tail(p) \in Seq(1..MaxData)
        BY <1>1, <2>1, <3>1, Popped DEF ChanOK, Chains
      <4> QED
        BY <1>3, <3>1, <4>1 DEF InHand, Chains
    <3>2. CASE writer # "lock"
      BY <1>3, <2>1, <3>2 DEF InHand
    <3> QED
      BY <3>1, <3>2
  <2>3. x0 = Join(v0, h0)
    BY <1>2, <1>3
  <2> QED
    BY <2>1, <2>2, <2>3, ChainsJoin
<1>5. /\ f0 \in Chains /\ d0 \in Chains /\ r0 \in Chains /\ n0 \in Nat /\ e0 \in 0..n0
      /\ f1 \in Chains /\ d1 \in Chains /\ Nil \in Chains
  <2>1. f0 \in Chains
    BY <1>1, <1>2, FlattenedChains DEF TypeOK
  <2>2. f1 \in Chains
    <3>1. chRead' \in Seq(Chains)
      BY <1>1 DEF TypeOK
    <3>2. FlattenSeq(chRead') \in Chains
      BY <3>1, FlattenedChains
    <3> QED
      BY <1>2, <3>2
  <2>3. n0 \in Nat /\ e0 \in 0..n0
    BY <1>1, <1>2, BoundsAssumption DEF TypeOK
  <2>4. d0 \in Chains /\ r0 \in Chains /\ d1 \in Chains
    BY <1>1, <1>2 DEF TypeOK
  <2> QED
    BY <2>1, <2>2, <2>3, <2>4, NilChain
<1>6. Parts(x0, f0, d0, r0) = Chain(e0, n0 - e0)
  BY <1>1, <1>2 DEF KeptOK
<1>7. ASSUME Parts(x1, f1, d1, r1) = Chain(e1, n1 - e1)
      PROVE  KeptOK'
  BY <1>2, <1>7 DEF KeptOK
\* The units only move.
<1>8. ASSUME Parts(x1, f1, d1, r1) = Parts(x0, f0, d0, r0), UNCHANGED <<arrived, early>>
      PROVE  KeptOK'
  BY <1>2, <1>6, <1>7, <1>8
<1>9. ASSUME UNCHANGED <<delivered, p>>, writer' = "lock" <=> writer = "lock"
      PROVE  x1 = x0
  BY <1>2, <1>9 DEF InHand
<1>10. ASSUME UNCHANGED <<delivered, p, writer, chRead, data, refused, arrived, early>>
       PROVE  KeptOK'
  <2>1. x1 = x0 /\ f1 = f0 /\ d1 = d0 /\ r1 = r0
    BY <1>2, <1>9, <1>10
  <2> QED
    BY <1>8, <1>10, <2>1
<1>11. CASE UNCHANGED vars
  BY <1>10, <1>11 DEF vars
<1>12. CASE Packet \/ ResetEnters \/ RecvTakes \/ Eof \/ Leave
  BY <1>10, <1>12 DEF Packet, ResetEnters, RecvTakes, Eof, Leave
<1>13. CASE Retry
  <2>1. f1 = f0 /\ d1 = r0 /\ r1 = Nil /\ UNCHANGED <<arrived, early, delivered, p, writer>>
    BY <1>2, <1>13 DEF Retry
  <2>2. d0 = Nil
    BY <1>2, <1>13 DEF Retry, PlaceOK
  <2>3. Parts(x0, f0, Nil, r0) = Parts(x0, f0, r0, Nil)
    BY <1>4, <1>5, PartsMove
  <2>4. x1 = x0
    BY <1>9, <2>1
  <2> QED
    BY <1>8, <2>1, <2>2, <2>3, <2>4
<1>14. CASE Segment
  <2>1. /\ d0 = Nil /\ f1 = f0 /\ r1 = r0 /\ UNCHANGED <<delivered, p, writer>>
    BY <1>2, <1>14 DEF Segment, PlaceOK
  <2>2. x1 = x0
    BY <1>9, <2>1
  <2>3. PICK c : c = seg.data
    OBVIOUS
  <2>4. c \in Chains /\ c = Chain(n0, Len(c)) /\ n1 = n0 + Len(c)
    <3>1. c = Chain(arrived, Len(c)) /\ c \in Chains
      BY <1>1, <1>14, <2>3 DEF Segment, ArrivalOK, TypeOK
    <3> QED
      BY <1>2, <1>14, <2>3, <3>1 DEF Segment
  <2>5. PICK k : k = Len(c)
    OBVIOUS
  <2>6. k \in Nat
    BY <2>4, <2>5, ChainLength
  <2>7. CASE ~registered
    <3>1. d1 = d0 /\ e1 = e0 + k /\ n1 = n0 + k /\ n0 = e0
      BY <1>2, <1>14, <2>3, <2>4, <2>5, <2>7 DEF Segment, ArrivalOK
    <3>2. n0 - e0 = 0 /\ n1 - e1 = 0 /\ e0 \in Nat /\ e1 \in Nat
      BY <1>5, <2>6, <3>1
    <3>3. Chain(e0, n0 - e0) = Nil /\ Chain(e1, n1 - e1) = Nil
      BY <3>2, ChainNone
    <3> QED
      BY <1>6, <1>7, <2>1, <2>2, <3>1, <3>3
  <2>8. CASE registered
    <3>1. d1 = c /\ e1 = e0 /\ (c # Nil => r0 = Nil)
      BY <1>2, <1>14, <2>3, <2>8 DEF Segment, PlaceOK
    <3>2. PICK all : all = Parts(x0, f0, Nil, r0)
      OBVIOUS
    <3>3. Parts(x1, f1, d1, r1) = Join(all, c)
      <4>1. CASE c # Nil
        <5>1. Parts(x0, f0, c, Nil) = Join(Parts(x0, f0, Nil, Nil), c)
          BY <1>4, <1>5, <2>4, PartsMove
        <5> QED
          BY <2>1, <2>2, <3>1, <3>2, <4>1, <5>1
      <4>2. CASE c = Nil
        <5>1. all \in Chains
          BY <1>4, <1>5, <3>2, PartsType
        <5> QED
          BY <2>1, <2>2, <3>1, <3>2, <4>2, <5>1, ChainsJoin
      <4> QED
        BY <4>1, <4>2
    <3>4. all = Chain(e0, n0 - e0)
      BY <1>6, <2>1, <3>2
    <3>5. Join(Chain(e0, n0 - e0), Chain(n0, k)) = Chain(e0, n0 + k - e0)
      BY <1>5, <2>6, ChainsFollow
    <3>6. n1 = n0 + k
      BY <2>4, <2>5
    <3>7. Parts(x1, f1, d1, r1) = Chain(e0, n0 + k - e0)
      BY <2>4, <2>5, <3>3, <3>4, <3>5, Zenon
    <3>8. e1 = e0
      BY <3>1
    <3>10. n1 - e1 = n0 + k - e0
      BY <1>5, <2>6, <3>6, <3>8
    <3>9. Parts(x1, f1, d1, r1) = Chain(e1, n1 - e1)
      BY <3>7, <3>8, <3>10
    <3> QED
      BY <1>7, <3>9, Zenon
  <2> QED
    BY <2>7, <2>8
<1>15. ASSUME UNCHANGED refused
       PROVE  r1 = r0
  BY <1>2, <1>15
<1>16. CASE ResetLeaves \/ AcceptAborts
  BY <1>10, <1>16 DEF ResetLeaves, AcceptAborts, Intact
<1>17. CASE RecvDrops
  BY <1>1, <1>17 DEF RecvDrops, Intact
<1>18. CASE RecvPuts
  <2>1. /\ d1 = Nil /\ r1 = Nil /\ chRead' = Append(chRead, data)
        /\ UNCHANGED <<arrived, early, delivered, p, writer>>
    BY <1>2, <1>18 DEF RecvPuts, Accepted, Nothing
  <2>2. r0 = Nil /\ x1 = x0
    BY <1>2, <1>9, <1>18, <2>1 DEF RecvPuts, PlaceOK
  <2>3. f1 = Join(f0, d0)
    BY <1>1, <1>2, <2>1, FlattenedChains DEF TypeOK
  <2>4. Parts(x0, Join(f0, d0), Nil, Nil) = Parts(x0, f0, d0, Nil)
    BY <1>4, <1>5, PartsMove
  <2> QED
    BY <1>8, <2>1, <2>2, <2>3, <2>4
<1>19. CASE RecvRefuses
  <2>1. /\ f1 = f0 /\ d1 = Nil /\ r1 = d0
        /\ UNCHANGED <<arrived, early, delivered, p, writer>>
    BY <1>2, <1>19 DEF RecvRefuses, Kept
  <2>2. r0 = Nil /\ x1 = x0
    BY <1>2, <1>9, <1>19, <2>1 DEF RecvRefuses, PlaceOK
  <2>3. Parts(x0, f0, Nil, d0) = Parts(x0, f0, d0, Nil)
    BY <1>4, <1>5, PartsMove
  <2> QED
    BY <1>8, <2>1, <2>2, <2>3
<1>20. CASE EofPuts
  <2>1. /\ chRead' = Append(chRead, Nil)
        /\ UNCHANGED <<arrived, early, delivered, p, writer, data, refused>>
    BY <1>20 DEF EofPuts
  <2>2. f1 = Join(f0, Nil)
    BY <1>1, <1>2, <1>5, <2>1, FlattenedChains DEF TypeOK
  <2>3. f1 = f0 /\ x1 = x0 /\ d1 = d0 /\ r1 = r0
    BY <1>2, <1>5, <1>9, <2>1, <2>2, ChainsJoin
  <2> QED
    BY <1>8, <2>1, <2>3
<1>21. CASE PcbLost
  BY <1>1, <1>21 DEF PcbLost, Intact
<1>22. CASE Register \/ HandleReturns \/ AcceptRetries \/ AcceptAborted
  BY <1>10, <1>22 DEF Register, HandleReturns, AcceptRetries, AcceptAborted
<1>23. CASE Close
  BY <1>23 DEF Close, Intact
<1>24. CASE WriterTakes
  <2>1. PICK h : h = Head(chRead)
    OBVIOUS
  <2>2. /\ chRead # Nil /\ chRead' = Tail(chRead) /\ p' = h /\ writer' = "check"
        /\ writer = "select" /\ d1 = d0 /\ r1 = r0 /\ UNCHANGED <<arrived, early, delivered>>
    BY <1>2, <1>24, <2>1 DEF WriterTakes, Nil
  <2>3. h0 = Nil /\ x1 = Join(v0, h) /\ h \in Chains
    <3>1. p = Nil
      BY <1>1, <2>2 DEF TakenOK
    <3>2. p' \in Chains
      BY <1>1 DEF TypeOK
    <3> QED
      BY <1>2, <1>3, <2>2, <3>1, <3>2 DEF InHand
  <2>4. f0 = Join(h, f1)
    BY <1>1, <1>2, <2>1, <2>2, FlattenedChains DEF TypeOK
  <2>5. x0 = v0
    BY <1>4, <2>3, ChainsJoin
  <2>6. Parts(v0, Join(h, f1), d0, r0) = Parts(Join(v0, h), f1, d0, r0)
    BY <1>4, <1>5, <2>3, PartsTaken
  <2> QED
    BY <1>8, <2>2, <2>3, <2>4, <2>5, <2>6
<1>25. CASE WriterTakesNil
  <2>1. /\ writer = "select" /\ writer' = "done"
        /\ UNCHANGED <<arrived, early, delivered, p, data, refused>>
    BY <1>25 DEF WriterTakesNil
  <2>2. x1 = x0 /\ d1 = d0 /\ r1 = r0
    BY <1>2, <1>9, <2>1
  <2>3. CASE chRead # Nil /\ Head(chRead) = Nil /\ chRead' = Tail(chRead)
    <3>1. f0 = Join(Nil, f1)
      BY <1>1, <1>2, <2>3, FlattenedChains DEF TypeOK
    <3>2. f1 = f0
      BY <1>5, <3>1, ChainsJoin
    <3> QED
      BY <1>8, <2>1, <2>2, <3>2
  <2>4. CASE UNCHANGED chRead
    BY <1>2, <1>8, <2>1, <2>2, <2>4
  <2> QED
    BY <1>25, <2>3, <2>4 DEF WriterTakesNil, Nil
<1>26. CASE WriterWrites
  <2>1. PICK a, t : a = Head(p) /\ t = Tail(p)
    OBVIOUS
  <2>2. /\ p # Nil /\ p \in Chains /\ delivered' = Append(v0, a) /\ p' = p
        /\ writer = "write" /\ writer' = "lock"
        /\ f1 = f0 /\ d1 = d0 /\ r1 = r0 /\ UNCHANGED <<arrived, early>>
    BY <1>1, <1>2, <1>3, <1>26, <2>1 DEF WriterWrites, ChanOK, TypeOK
  <2>3. x1 = Join(Append(v0, a), t) /\ h0 = p
    BY <1>2, <1>3, <2>1, <2>2 DEF InHand
  <2>4. Join(Append(v0, a), t) = Join(v0, p)
    BY <1>4, <2>1, <2>2, UnitMoves
  <2> QED
    BY <1>4, <1>8, <2>2, <2>3, <2>4
<1>27. CASE WriterFrees
  <2>1. /\ p' = Tail(p) /\ writer = "lock" /\ writer' # "lock"
        /\ UNCHANGED <<arrived, early, delivered>> /\ f1 = f0 /\ d1 = d0 /\ r1 = r0
    BY <1>2, <1>27 DEF WriterFrees
  <2>2. x1 = x0
    BY <1>2, <2>1 DEF InHand
  <2> QED
    BY <1>8, <2>1, <2>2
<1>28. CASE WriterStarts \/ WriterTimesOut \/ WriterGoesOn \/ WriterChecks
            \/ WriterReturns
  <2>1. /\ UNCHANGED <<delivered, p, chRead, data, refused, arrived, early>>
        /\ writer # "lock" /\ writer' # "lock"
    BY <1>28 DEF WriterStarts, WriterTimesOut, WriterGoesOn, WriterChecks, WriterReturns
  <2>2. x1 = x0 /\ f1 = f0 /\ d1 = d0 /\ r1 = r0
    BY <1>2, <1>9, <2>1
  <2> QED
    BY <1>8, <2>1, <2>2
<1>29. CASE WriterFails \/ SenderFails
  <2>1. (Aborts("writer") \/ Aborts("sender")) /\ UNCHANGED connPcb
    BY <1>29 DEF WriterFails, SenderFails
  <2> QED
    BY <1>1, <2>1, AbortsBreaks DEF Callers
<1>30. CASE SenderStarts \/ SenderReads \/ SenderChecks \/ SenderWrites
            \/ SenderReturns \/ SenderOutputs \/ SenderWaits
  BY <1>10, <1>30 DEF SenderStarts, SenderReads, SenderChecks, SenderWrites,
     SenderReturns, SenderOutputs, SenderWaits
<1>31. ASSUME NEW c \in Callers, Callback(c) PROVE KeptOK'
  <2>1. CASE ErrPuts(c)
    BY <1>1, <2>1 DEF ErrPuts, ChanOK, Intact
  <2>2. CASE ErrTests(c) \/ ErrClears(c) \/ ErrPanics(c)
    BY <1>10, <2>2 DEF ErrTests, ErrClears, ErrPanics
  <2> QED
    BY <1>31, <2>1, <2>2 DEF Callback
<1> QED
  BY <1>11, <1>12, <1>13, <1>14, <1>16, <1>17, <1>18, <1>19, <1>20, <1>21, <1>22,
     <1>23, <1>24, <1>25, <1>26, <1>27, <1>28, <1>29, <1>30, <1>31
     DEF Next, Lwip, Acceptor, WriteTo, ReadFrom

LEMMA UnitsInitial == Init => ArrivalOK /\ PlaceOK /\ CleanOK /\ KeptOK
<1> SUFFICES ASSUME Init PROVE ArrivalOK /\ PlaceOK /\ CleanOK /\ KeptOK
  OBVIOUS
<1>1. ArrivalOK
  BY DEF Init, ArrivalOK
<1>2. PlaceOK
  BY DEF Init, PlaceOK, Nil, Nothing
<1>3. FlattenSeq(chRead) = Nil /\ data = Nil /\ refused.data = Nil /\ p = Nil
      /\ delivered = Nil /\ InHand = Nil /\ freed = {} /\ arrived = 0 /\ early = 0
  BY FlattenOfNone DEF Init, InHand, Nothing, Nil
<1>4. Join(Nil, Nil) = Nil
  BY NilChain, ChainsJoin
<1>5. Parts(Nil, Nil, Nil, Nil) = Nil
  BY <1>4 DEF Parts
<1>6. CleanOK
  <2>1. Clean(Nil, {}, 0)
    BY DEF Clean, Nil
  <2> QED
    BY <1>3, <1>5, <2>1 DEF CleanOK
<1>7. KeptOK
  <2>1. Chain(0, 0 - 0) = Nil
    BY DEF Chain, Nil
  <2> QED
    BY <1>3, <1>4, <1>5, <2>1 DEF KeptOK
<1> QED
  BY <1>1, <1>2, <1>6, <1>7

LEMMA UnitsInvariant == Spec => [](IInv /\ ReaderOK /\ ArrivalOK /\ PlaceOK /\ CleanOK /\ KeptOK)
<1>1. Init => IInv /\ ReaderOK /\ ArrivalOK /\ PlaceOK /\ CleanOK /\ KeptOK
  BY Initial, ReaderInitial, UnitsInitial
<1>2. IInv /\ ReaderOK /\ ArrivalOK /\ PlaceOK /\ CleanOK /\ KeptOK /\ [Next]_vars
        => (IInv /\ ReaderOK /\ ArrivalOK /\ PlaceOK /\ CleanOK /\ KeptOK)'
  BY Inductive, ReaderStep, ArrivalStep, PlaceStep, CleanStep, KeptStep
<1> QED
  BY <1>1, <1>2, PTL DEF Spec

\* While nobody closes or aborts the connection, nothing is lost, doubled or moved
\* between lwIP and what WriteTo writes, though chains are refused, offered again,
\* queued and written unit by unit (tcpRecvFn, ipstack/c_export.go; WriteTo,
\* ipstack/tcp.go).
THEOREM StreamIsKept == Spec => []StreamKept
<1>1. KeptOK => StreamKept
  BY DEF KeptOK, StreamKept, Parts, Join
<1> QED
  BY <1>1, UnitsInvariant, PTL

\* No unit is freed while WriteTo, chRead, a callback or lwIP still holds it, and so
\* none twice: not when Close drains the channel, w.Write fails, tcpRecvFn drops a
\* chain or the pcb is aborted (Close and WriteTo, ipstack/tcp.go; tcpRecvFn,
\* ipstack/c_export.go).
THEOREM NotFreed == Spec => []HeldNotFreed
<1>1. TypeOK /\ CleanOK => HeldNotFreed
  <2> SUFFICES ASSUME TypeOK, CleanOK PROVE HeldNotFreed
    OBVIOUS
  <2>1. PICK all : all = Parts(p, FlattenSeq(chRead), data, refused.data)
    OBVIOUS
  <2>2. Clean(all, freed, arrived)
    BY <2>1 DEF CleanOK
  <2>3. all \in Seq(1..MaxData)
    <3>1. FlattenSeq(chRead) \in Chains
      BY FlattenedChains DEF TypeOK
    <3>2. p \in Chains /\ data \in Chains /\ refused.data \in Chains
      BY DEF TypeOK
    <3>3. all \in Chains
      BY <2>1, <3>1, <3>2, PartsType
    <3> QED
      BY <3>3 DEF Chains
  <2>4. ToSet(all) \cap freed = {}
    BY <2>2, <2>3 DEF Clean, ToSet
  <2> QED
    BY <2>1, <2>4 DEF HeldNotFreed, Parts, Join
<1>2. IInv => TypeOK
  BY DEF IInv
<1> QED
  BY <1>1, <1>2, UnitsInvariant, PTL

-----------------------------------------------------------------------------
(* What ReadFrom passes on.                                                *)

\* The invariant of ReadFrom, on top of IInv: it has at most one unit in b, the next
\* one, and returns with it only from an end, or a connection that is not intact.
SourceOK ==
  /\ queued = Chain(0, Len(queued))
  /\ \/ Unwritten = Nil /\ offered = Len(queued)
     \/ Unwritten = <<offered>> /\ offered = Len(queued) + 1
  /\ sender \in {"check", "write", "fail", "abort", "cut"} => Unwritten # Nil
  /\ sender \in {"abort", "done"} /\ Unwritten # Nil => ~Intact

\* One more unit continues the chain.
LEMMA NextUnit ==
  ASSUME NEW n \in Nat
  PROVE  Chain(0, n) \o <<n + 1>> = Chain(0, n + 1)
<1>1. Chain(n, 1) = <<n + 1>>
  <2>1. PICK c : c = Chain(n, 1)
    OBVIOUS
  <2>2. c \in Seq(Nat) /\ Len(c) = 1 /\ c[1] = n + 1
    BY <2>1 DEF Chain
  <2>3. c = <<n + 1>>
    BY <2>2
  <2> QED
    BY <2>1, <2>3
<1>2. n - 0 = n /\ n + 1 - 0 = n + 1
  OBVIOUS
<1>3. Join(Chain(0, n - 0), Chain(n, 1)) = Chain(0, n + 1 - 0)
  BY ChainsFollow
<1> QED
  BY <1>1, <1>2, <1>3 DEF Join

LEMMA SourceStep == IInv /\ SourceOK /\ [Next]_vars => SourceOK'
<1> SUFFICES ASSUME IInv, SourceOK, [Next]_vars PROVE SourceOK'
  OBVIOUS
<1>1. TypeOK
  BY DEF IInv
<1>2. Intact' => Intact
  BY StaysBroken
<1> USE <1>1, <1>2 DEF lwipVars, callVars, chanVars, writerVars, senderVars
<1>3. ASSUME UNCHANGED senderVars PROVE SourceOK'
  BY <1>3 DEF SourceOK, Unwritten
<1>4. CASE UNCHANGED vars
  BY <1>3, <1>4 DEF vars
<1>5. CASE Lwip /\ ~Segment
  BY <1>3, <1>5 DEF Lwip, Packet, Retry, ResetEnters, ResetLeaves, RecvDrops,
     RecvTakes, RecvPuts, RecvRefuses, Eof, EofPuts, PcbLost, Leave
<1>6. CASE Segment
  <2>1. /\ UNCHANGED <<offered, b, queued>>
        /\ sender' = sender \/ (sender = "waiting" /\ sender' = "read")
    BY <1>6 DEF Segment, Signalled
  <2> QED
    BY <2>1 DEF SourceOK, Unwritten
<1>7. CASE Acceptor \/ Close
  BY <1>3, <1>7 DEF Acceptor, Register, HandleReturns, AcceptRetries, AcceptAborts,
     AcceptAborted, Close
<1>8. CASE WriteTo
  BY <1>3, <1>8 DEF WriteTo, WriterStarts, WriterTakes, WriterTakesNil,
     WriterTimesOut, WriterGoesOn, WriterChecks, WriterWrites, WriterFrees,
     WriterFails, WriterReturns
<1>9. CASE SenderReads
  <2>1. queued' = queued /\ Unwritten = Nil /\ offered = Len(queued)
    BY <1>9 DEF SenderReads, SourceOK, Unwritten, Nil
  <2>2. CASE /\ offered' = offered + 1 /\ b' = <<offered'>>
             /\ sender' \in {"check", "cut"}
    BY <2>1, <2>2 DEF SourceOK, Unwritten, Nil
  <2>3. CASE sender' = "done" /\ b' = Nil /\ UNCHANGED offered
    BY <2>1, <2>3 DEF SourceOK, Unwritten
  <2> QED
    BY <1>9, <2>2, <2>3 DEF SenderReads
<1>10. CASE SenderWrites
  <2>1. Unwritten = b /\ b = <<offered>> /\ offered = Len(queued) + 1
    BY <1>10 DEF SenderWrites, SourceOK, Unwritten
  <2>2. CASE queued' = queued \o b /\ sender' = "output"
    <3>1. queued' = Chain(0, offered)
      BY <2>1, <2>2, NextUnit DEF SourceOK, TypeOK
    <3>2. Len(queued') = offered /\ offered' = offered
      BY <1>10, <3>1 DEF SenderWrites, Chain, TypeOK
    <3>3. sender' = "output" /\ Unwritten' = Nil
      BY <2>2 DEF Unwritten
    <3> QED
      BY <3>1, <3>2, <3>3 DEF SourceOK
  <2>3. CASE sender' = "fail" /\ UNCHANGED queued
    <3>1. Unwritten' = Unwritten /\ offered' = offered
      BY <1>10, <2>1, <2>3 DEF SenderWrites, Unwritten
    <3> QED
      BY <2>1, <2>3, <3>1 DEF SourceOK, Nil
  <2> QED
    BY <1>10, <2>2, <2>3 DEF SenderWrites
<1>11. CASE SenderChecks
  <2>1. UNCHANGED <<offered, b, queued, connPcb, pcb>>
    BY <1>11 DEF SenderChecks
  <2>2. /\ sender = "check" /\ sender' \in {"write", "done"}
        /\ sender' = "done" => ~connPcb
    BY <1>11 DEF SenderChecks
  <2>3. Unwritten' = Unwritten
    BY <2>1, <2>2 DEF Unwritten
  <2> QED
    BY <2>1, <2>2, <2>3 DEF SourceOK, Intact
<1>12. CASE SenderFails
  <2>1. ~Intact'
    BY <1>12, AbortsBreaks DEF SenderFails, Callers
  <2>2. UNCHANGED <<offered, b, queued>> /\ sender = "fail" /\ sender' = "abort"
    BY <1>12 DEF SenderFails
  <2>3. Unwritten' = Unwritten
    BY <2>2 DEF Unwritten
  <2> QED
    BY <2>1, <2>2, <2>3 DEF SourceOK
<1>13. CASE SenderReturns
  <2>1. UNCHANGED <<offered, b, queued>> /\ sender = "abort" /\ sender' = "done"
    BY <1>13 DEF SenderReturns
  <2>2. Unwritten' = Unwritten
    BY <2>1 DEF Unwritten
  <2> QED
    BY <2>1, <2>2 DEF SourceOK
<1>14. CASE SenderStarts \/ SenderOutputs \/ SenderWaits
  BY <1>14 DEF SenderStarts, SenderOutputs, SenderWaits, SourceOK, Unwritten
<1>15. ASSUME NEW c \in Callers, Callback(c) PROVE SourceOK'
  BY <1>3, <1>15 DEF Callback, ErrTests, ErrClears, ErrPuts, ErrPanics
<1> QED
  BY <1>4, <1>5, <1>6, <1>7, <1>8, <1>9, <1>10, <1>11, <1>12, <1>13, <1>14, <1>15
     DEF Next, ReadFrom

\* What ReadFrom reads goes to tcp_write once and in order, and is all there but for
\* the last unit: one in its hands, one that an error kept back, or one that came
\* with the end of the source and is dropped (ReadFrom, ipstack/tcp.go).
THEOREM SourceIsKept == Spec => []SourceKept
<1>1. Init => SourceOK
  BY DEF Init, SourceOK, Unwritten, Chain, Nil
<1>2. IInv /\ SourceOK => SourceKept
  <2> SUFFICES ASSUME IInv, SourceOK PROVE SourceKept
    OBVIOUS
  <2>1. offered \in Nat /\ queued \in Seq(1..MaxWrite)
    BY BoundsAssumption DEF IInv, TypeOK
  <2>2. queued \o Unwritten = Chain(0, offered)
    <3>1. CASE Unwritten = Nil /\ offered = Len(queued)
      BY <2>1, <3>1 DEF SourceOK, Nil
    <3>2. CASE Unwritten = <<offered>> /\ offered = Len(queued) + 1
      BY <2>1, <3>2, NextUnit DEF SourceOK
    <3> QED
      BY <3>1, <3>2 DEF SourceOK
  <2>3. Intact /\ Unwritten # Nil => sender \in {"check", "write", "fail", "cut"}
    <3>1. sender \notin {"idle", "read", "output", "wait", "waiting"} \/ Unwritten = Nil
      BY DEF Unwritten
    <3> QED
      BY <3>1 DEF IInv, TypeOK, SourceOK
  <2> QED
    BY <2>2, <2>3 DEF SourceKept
<1> QED
  BY <1>1, <1>2, SourceStep, Invariant, PTL DEF Spec

=============================================================================
