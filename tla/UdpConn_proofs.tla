--------------------------- MODULE UdpConn_proofs ---------------------------
(***************************************************************************)
(* What is proved of UdpConn for every number of connections, datagrams    *)
(* and places in the pending channel, every kind of handler and every set  *)
(* of faults.                                                              *)
(***************************************************************************)
EXTENDS UdpConn, TLAPS

\* The lwIP thread still has the newest datagram in its hands.
InHand == rx \in {"store", "offer", "check", "forward"}

\* A connection is connected, and its handler used, only after Connect; one
\* that does not exist has no goroutine yet.
PhaseOK ==
  /\ ReadyBeforeUse
  /\ \A c \in Conns : c > created => pc[c]["dial"] = "none"
  /\ \A c \in Conns : state[c] = "connected" =>
       pc[c]["dial"] \notin {"none", "connect", "connected"}

\* What waits or was sent has arrived, and was in nobody's hands since.
ArrivedOK ==
  /\ InHand => packet # 0
  /\ \A c \in Conns :
       /\ \A i \in DOMAIN pending[c] :
            pending[c][i] <= packet /\ (InHand => pending[c][i] < packet)
       /\ \A i \in DOMAIN handed[c] :
            handed[c][i] <= packet /\ (InHand => handed[c][i] < packet)
       /\ \A p \in early[c] : p <= packet /\ (InHand => p < packet)

\* A datagram is in one place only.
OnceOK ==
  /\ \A c, d \in Conns : \A i \in DOMAIN pending[c], j \in DOMAIN handed[d] :
       pending[c][i] # handed[d][j]
  /\ \A c, d \in Conns : \A i \in DOMAIN pending[c], j \in DOMAIN pending[d] :
       pending[c][i] = pending[d][j] => c = d /\ i = j
  /\ HandedOnce

\* The channel is in order, and behind every early datagram that was sent.
OrderOK ==
  /\ \A c \in Conns : \A i, j \in DOMAIN pending[c] :
       i < j => pending[c][i] < pending[c][j]
  /\ \A c \in Conns : \A i \in DOMAIN handed[c], j \in DOMAIN pending[c] :
       handed[c][i] \in early[c] => handed[c][i] < pending[c][j]
  /\ EarlyInOrder

\* The inductive invariant.
IInv == TypeOK /\ PhaseOK /\ SocketsWatched /\ ArrivedOK /\ OnceOK /\ OrderOK

-----------------------------------------------------------------------------
(* What the shared pieces do.                                              *)

\* Where a goroutine of a connection can be.
Places == {"none", "connect", "connected", "drain", "run", "sendto", "done"}
          \cup CloseSteps

\* A goroutine is at its new place, all others are where they were.
LEMMA GotoEffect ==
  ASSUME TypeOK, NEW c \in Conns, NEW g \in Goroutines, NEW place \in Places,
         Goto(c, g, place)
  PROVE  /\ pc' \in [Conns -> [Goroutines -> Places]]
         /\ \A d \in Conns, h \in Goroutines :
              pc'[d][h] = IF d = c /\ h = g THEN place ELSE pc[d][h]
  BY DEF TypeOK, Goto, Places

\* Append puts one datagram behind the others and moves none.
LEMMA AppendFacts ==
  ASSUME NEW s \in Seq(Packets), NEW p \in Packets
  PROVE  /\ Append(s, p) \in Seq(Packets)
         /\ Len(Append(s, p)) = Len(s) + 1
         /\ \A i \in DOMAIN Append(s, p) :
              \/ i \in DOMAIN s /\ Append(s, p)[i] = s[i]
              \/ i = Len(s) + 1 /\ Append(s, p)[i] = p
  OBVIOUS

\* Tail moves every datagram but the first, which is Head, one place forward.
LEMMA TailFacts ==
  ASSUME NEW s \in Seq(Packets), s # <<>>
  PROVE  /\ Head(s) \in Packets /\ Tail(s) \in Seq(Packets)
         /\ Len(Tail(s)) <= Len(s)
         /\ 1 \in DOMAIN s /\ Head(s) = s[1]
         /\ \A i \in DOMAIN Tail(s) :
              i + 1 \in DOMAIN s /\ i \in Nat \ {0} /\ Tail(s)[i] = s[i + 1]
  OBVIOUS

\* A datagram that is sent is added to what was sent; nothing else is.
LEMMA SendsEffect ==
  ASSUME TypeOK, NEW c \in Conns, NEW p \in Packets, Sends(c, p)
  PROVE  /\ handed' \in [Conns -> Seq(Packets)]
         /\ open[c]
         /\ \A d \in Conns : \A i \in DOMAIN handed'[d] :
              \/ i \in DOMAIN handed[d] /\ handed'[d][i] = handed[d][i]
              \/ d = c /\ i = Len(handed[d]) + 1 /\ handed'[d][i] = p
<1>1. handed' = [handed EXCEPT ![c] = Append(@, p)]
  BY Zenon DEF Sends
<1>2. handed[c] \in Seq(Packets)
  BY DEF TypeOK
<1>3. handed' \in [Conns -> Seq(Packets)]
  BY <1>1, <1>2, AppendFacts DEF TypeOK
<1>4. ASSUME NEW d \in Conns, NEW i \in DOMAIN handed'[d]
      PROVE  \/ i \in DOMAIN handed[d] /\ handed'[d][i] = handed[d][i]
             \/ d = c /\ i = Len(handed[d]) + 1 /\ handed'[d][i] = p
  <2>1. CASE d = c
    <3>1. handed'[d] = Append(handed[c], p)
      BY <1>1, <2>1 DEF TypeOK
    <3> QED
      BY <3>1, <2>1, <1>2, <1>4, AppendFacts
  <2>2. CASE d # c
    <3>1. handed'[d] = handed[d]
      BY <1>1, <2>2 DEF TypeOK
    <3> QED
      BY <3>1, <1>4
  <2> QED
    BY <2>1, <2>2
<1>5. open[c]
  BY Zenon DEF Sends
<1> QED
  BY <1>3, <1>4, <1>5

\* What waits when the datagram in hand is kept ...
LEMMA KeptEffect ==
  ASSUME TypeOK, NEW c \in Conns, NEW p \in Packets, Len(pending[c]) < Cap,
         pending' = [pending EXCEPT ![c] = Append(@, p)]
  PROVE  /\ pending' \in [Conns -> Seq(Packets)]
         /\ \A d \in Conns : Len(pending'[d]) <= Cap
         /\ \A d \in Conns : \A i \in DOMAIN pending'[d] :
              \/ i \in DOMAIN pending[d] /\ pending'[d][i] = pending[d][i]
              \/ d = c /\ i = Len(pending[d]) + 1 /\ pending'[d][i] = p
<1>1. pending[c] \in Seq(Packets) /\ Len(pending[c]) \in Nat /\ Cap \in Nat
  BY BoundsAssumption DEF TypeOK
<1>2. pending' \in [Conns -> Seq(Packets)]
  BY <1>1, AppendFacts DEF TypeOK
<1>3. ASSUME NEW d \in Conns
      PROVE  /\ Len(pending'[d]) <= Cap
             /\ \A i \in DOMAIN pending'[d] :
                  \/ i \in DOMAIN pending[d] /\ pending'[d][i] = pending[d][i]
                  \/ d = c /\ i = Len(pending[d]) + 1 /\ pending'[d][i] = p
  <2>1. CASE d = c
    <3>1. pending'[d] = Append(pending[c], p)
      BY <2>1 DEF TypeOK
    <3>2. Len(Append(pending[c], p)) <= Cap
      BY <1>1, AppendFacts
    <3> QED
      BY <3>1, <3>2, <2>1, <1>1, AppendFacts
  <2>2. CASE d # c
    <3>1. pending'[d] = pending[d]
      BY <2>2 DEF TypeOK
    <3> QED
      BY <3>1 DEF TypeOK
  <2> QED
    BY <2>1, <2>2
<1> QED
  BY <1>2, <1>3

\* ... and when the drain takes a datagram off.
LEMMA DrainEffect ==
  ASSUME TypeOK, NEW c \in Conns, pending[c] # <<>>,
         pending' = [pending EXCEPT ![c] = Tail(@)]
  PROVE  /\ pending' \in [Conns -> Seq(Packets)]
         /\ \A d \in Conns : Len(pending'[d]) <= Cap
         /\ 1 \in DOMAIN pending[c] /\ Head(pending[c]) = pending[c][1]
         /\ Head(pending[c]) \in Packets
         /\ \A d \in Conns : \A i \in DOMAIN pending'[d] :
              \/ d # c /\ i \in DOMAIN pending[d] /\ pending'[d][i] = pending[d][i]
              \/ /\ d = c /\ i \in Nat \ {0} /\ i + 1 \in DOMAIN pending[d]
                 /\ pending'[d][i] = pending[d][i + 1]
<1>1. pending[c] \in Seq(Packets) /\ Len(pending[c]) \in Nat /\ Cap \in Nat
  BY BoundsAssumption DEF TypeOK
<1>2. pending' \in [Conns -> Seq(Packets)]
  BY <1>1, TailFacts DEF TypeOK
<1>3. ASSUME NEW d \in Conns
      PROVE  /\ Len(pending'[d]) <= Cap
             /\ \A i \in DOMAIN pending'[d] :
                  \/ /\ d # c /\ i \in DOMAIN pending[d]
                     /\ pending'[d][i] = pending[d][i]
                  \/ /\ d = c /\ i \in Nat \ {0} /\ i + 1 \in DOMAIN pending[d]
                     /\ pending'[d][i] = pending[d][i + 1]
  <2>1. CASE d = c
    <3>1. pending'[d] = Tail(pending[c])
      BY <2>1 DEF TypeOK
    <3>2. Len(Tail(pending[c])) <= Len(pending[c]) /\ Len(pending[c]) <= Cap
      BY <1>1, TailFacts DEF TypeOK
    <3>3. Len(Tail(pending[c])) \in Nat
      BY <1>1, TailFacts
    <3>4. Len(Tail(pending[c])) <= Cap
      BY <3>2, <3>3, <1>1
    <3> QED
      BY <3>1, <3>4, <2>1, <1>1, TailFacts
  <2>2. CASE d # c
    <3>1. pending'[d] = pending[d]
      BY <2>2 DEF TypeOK
    <3> QED
      BY <3>1, <2>2 DEF TypeOK
  <2> QED
    BY <2>1, <2>2
<1>4. /\ 1 \in DOMAIN pending[c] /\ Head(pending[c]) = pending[c][1]
      /\ Head(pending[c]) \in Packets
  BY <1>1, TailFacts
<1> QED
  BY <1>2, <1>3, <1>4


\* Forgets closes the sockets of one connection and opens none.
LEMMA ForgetsEffect ==
  ASSUME TypeOK, NEW c \in Conns, Forgets(c)
  PROVE  /\ open' \in [Conns -> BOOLEAN]
         /\ \A d \in Conns : open'[d] => d # c /\ open[d]
<1>1. open \in [Conns -> BOOLEAN] /\ open' = [open EXCEPT ![c] = FALSE]
  BY Zenon DEF TypeOK, Forgets
<1> QED
  BY <1>1

\* Of a new datagram udpRecvFn takes the connection in the table or makes one.
LEMMA ArriveEffect ==
  ASSUME TypeOK, Arrive
  PROVE  /\ rx = "idle" /\ packet' = packet + 1 /\ packet' \in Packets
         /\ rxConn' \in 1..created' /\ created' \in 0..MaxConns /\ created <= created'
         /\ rx' \in {"store", "offer"}
         /\ UNCHANGED <<table, state, pending, open, stop, early, handed>>
         /\ \/ pc' = pc
            \/ /\ table = 0 /\ created < MaxConns /\ created' = created + 1
               /\ created' \in Conns /\ Goto(created', "dial", "connect")
<1> USE BoundsAssumption
<1>1. /\ rx = "idle" /\ packet < MaxPackets /\ packet' = packet + 1
      /\ UNCHANGED <<table, state, pending, open, stop, early, handed>>
  BY DEF Arrive, connVars, history
<1>2. packet \in Nat /\ created \in 0..MaxConns /\ table \in 0..created
  BY DEF TypeOK
<1>3. CASE /\ table # 0 /\ rxConn' = table /\ rx' = "offer"
           /\ created' = created /\ pc' = pc
  BY <1>1, <1>2, <1>3 DEF Packets
<1>4. CASE /\ table = 0 /\ created < MaxConns
           /\ created' = created + 1 /\ rxConn' = created'
           /\ Goto(created', "dial", "connect") /\ rx' = "store"
  BY <1>1, <1>2, <1>4 DEF Packets, Conns
<1> QED
  BY <1>3, <1>4 DEF Arrive


\* The drain is over, sends the first datagram that waits, or fails to.
LEMMA DrainCases ==
  ASSUME TypeOK, NEW c \in Conns, Drain(c)
  PROVE  /\ pc' \in [Conns -> [Goroutines -> Places]]
         /\ \A d \in Conns, h \in Goroutines :
              pc'[d][h] # pc[d][h] =>
                d = c /\ h = "dial" /\ pc'[d][h] \in {"done", "close"}
         /\ pc[c]["dial"] = "drain"
         /\ pending' \in [Conns -> Seq(Packets)]
         /\ handed' \in [Conns -> Seq(Packets)]
         /\ \A d \in Conns : Len(pending'[d]) <= Cap
         /\ \/ pending' = pending /\ handed' = handed
            \/ /\ pending[c] # <<>> /\ pending' = [pending EXCEPT ![c] = Tail(@)]
               /\ handed' = handed \/ Sends(c, Head(pending[c]))
<1>1. pc[c]["dial"] = "drain"
  BY DEF Drain
<1>2. CASE /\ pending[c] = <<>> /\ Goto(c, "dial", "done")
           /\ UNCHANGED <<pending, handed>>
  BY <1>1, <1>2, GotoEffect DEF TypeOK, Goroutines, Places
<1>3. CASE /\ pending[c] # <<>>
           /\ pending' = [pending EXCEPT ![c] = Tail(@)]
           /\ Sends(c, NextPending(c)) /\ UNCHANGED pc
  BY <1>1, <1>3, DrainEffect, SendsEffect DEF TypeOK, Places, NextPending
<1>4. CASE /\ pending[c] # <<>>
           /\ pending' = [pending EXCEPT ![c] = Tail(@)]
           /\ Refuses(c)
           /\ Goto(c, "dial", IF ClosesOnError THEN "close" ELSE "done")
  <2>1. handed' = handed
    BY <1>4, Zenon DEF Refuses
  <2>2. PICK place \in {"close", "done"} : Goto(c, "dial", place)
    BY <1>4
  <2>3. /\ pc' \in [Conns -> [Goroutines -> Places]]
        /\ \A d \in Conns, h \in Goroutines :
             pc'[d][h] = IF d = c /\ h = "dial" THEN place ELSE pc[d][h]
    BY <2>2, GotoEffect DEF Goroutines, Places, CloseSteps
  <2>4. /\ pending' \in [Conns -> Seq(Packets)]
        /\ \A d \in Conns : Len(pending'[d]) <= Cap
    BY <1>4, DrainEffect
  <2> QED
    BY <1>1, <1>4, <2>1, <2>3, <2>4 DEF TypeOK
<1> QED
  BY <1>2, <1>3, <1>4 DEF Drain

\* Every step preserves the type invariant.
LEMMA TypeStep == IInv /\ [Next]_vars => TypeOK'
<1> SUFFICES ASSUME IInv, [Next]_vars PROVE TypeOK'
  OBVIOUS
<1> USE BoundsAssumption DEF IInv, rxVars, connVars, history
<1>1. CASE Arrive
  <2>1. PICK p : p = pc' /\ p \in [Conns -> [Goroutines -> Places]]
    <3>1. CASE pc' = pc
      BY <3>1 DEF TypeOK, Places
    <3>2. CASE /\ created' \in Conns /\ Goto(created', "dial", "connect")
      BY <3>2, GotoEffect DEF Goroutines, Places
    <3> QED
      BY <1>1, <3>1, <3>2, ArriveEffect
  <2>2. rxConn' \in 0..created' /\ rxConn' # 0 /\ table' \in 0..created'
    BY <1>1, ArriveEffect, BoundsAssumption DEF TypeOK
  <2>3. packet' \in 0..MaxPackets
    BY <1>1, ArriveEffect, BoundsAssumption DEF Packets
  <2> QED
    BY <1>1, <2>1, <2>2, <2>3, ArriveEffect DEF TypeOK, Places
<1>2. CASE Store
  BY <1>2 DEF Store, TypeOK, CloseSteps, Conns, Packets, Goroutines
<1>3. CASE Offer
  <2>1. /\ rx = "offer"
        /\ UNCHANGED <<rxConn, packet, table, created, state, open, pc, stop,
                       handed>>
    BY <1>3 DEF Offer
  <2>2. rxConn \in Conns
    BY <2>1 DEF TypeOK, Conns
  <2>3. CASE GoesPending(rxConn)
    <3>1. /\ pending' = [pending EXCEPT ![rxConn] = Append(@, packet)]
          /\ early' = [early EXCEPT ![rxConn] = @ \cup {packet}] /\ rx' = "idle"
          /\ Len(pending[rxConn]) < Cap
      BY <1>3, <2>3 DEF Offer, Kept, GoesPending
    <3>2. packet \in Packets
      BY <2>1 DEF ArrivedOK, InHand, TypeOK, Packets
    <3>3. early' \in [Conns -> SUBSET Packets]
      BY <2>2, <3>1, <3>2 DEF TypeOK
    <3>4. /\ pending' \in [Conns -> Seq(Packets)]
          /\ \A d \in Conns : Len(pending'[d]) <= Cap
      BY <2>2, <3>1, <3>2, KeptEffect
    <3> QED
      BY <2>1, <3>1, <3>3, <3>4 DEF TypeOK
  <2>4. CASE ~GoesPending(rxConn)
    <3>1. rx' = "check" /\ UNCHANGED <<pending, early>>
      BY <1>3, <2>4 DEF Offer, NotKept
    <3> QED
      BY <2>1, <3>1 DEF TypeOK
  <2> QED
    BY <2>3, <2>4
<1>4. CASE Check
  BY <1>4 DEF Check, MayForward, TypeOK, CloseSteps, Conns, Packets, Goroutines
<1>5. CASE Forward
  <2>1. /\ rx = "forward"
        /\ UNCHANGED <<rxConn, packet, table, created, state, pending, open, pc,
                       stop, early>>
    BY <1>5 DEF Forward
  <2>2. rxConn \in Conns
    BY <2>1 DEF TypeOK, Conns
  <2>3. packet \in Packets
    BY <2>1 DEF ArrivedOK, InHand, TypeOK, Packets
  <2>4. CASE Sends(rxConn, packet) /\ rx' = "idle"
    BY <2>1, <2>2, <2>3, <2>4, SendsEffect DEF TypeOK
  <2>5. CASE Refuses(rxConn) /\ rx' = IF ClosesOnError THEN "close" ELSE "idle"
    <3>1. handed' = handed
      BY <2>5, Zenon DEF Refuses
    <3>2. rx' \in {"close", "idle"}
      BY <2>5
    <3> QED
      BY <2>1, <3>1, <3>2 DEF TypeOK, CloseSteps
  <2> QED
    BY <1>5, <2>4, <2>5 DEF Forward
<1>6. CASE RxClose
  <2>1. UNCHANGED <<rxConn, packet, created, pending, pc, stop, early, handed>>
    BY <1>6 DEF RxClose
  <2>2. rx # "idle" => rxConn \in Conns
    BY DEF TypeOK, Conns
  <2>3. CASE /\ rx = "close" /\ SetClosed(rxConn) /\ rx' = "delete"
             /\ UNCHANGED <<table, open>>
    BY <2>1, <2>2, <2>3 DEF TypeOK, SetClosed, CloseSteps
  <2>4. CASE /\ rx = "delete" /\ DeleteEntry /\ rx' = "forget"
             /\ UNCHANGED <<state, open>>
    BY <2>1, <2>2, <2>4 DEF TypeOK, DeleteEntry, CloseSteps
  <2>5. CASE /\ rx = "forget" /\ Forgets(rxConn) /\ rx' = "idle"
             /\ UNCHANGED <<state, table>>
    <3>1. open' \in [Conns -> BOOLEAN]
      BY <2>2, <2>5, ForgetsEffect
    <3> QED
      BY <2>1, <2>2, <2>5, <3>1 DEF TypeOK, CloseSteps
  <2> QED
    BY <1>6, <2>3, <2>4, <2>5 DEF RxClose
<1>7. ASSUME NEW c \in Conns, StartControl(c) PROVE TypeOK'
  BY <1>7 DEF StartControl, Goto, TypeOK, CloseSteps, Conns, Packets,
     Goroutines
<1>8. ASSUME NEW c \in Conns, Register(c) PROVE TypeOK'
  BY <1>8 DEF Register, TypeOK, CloseSteps, Conns, Packets, Goroutines
<1>9. ASSUME NEW c \in Conns, SetConnected(c) PROVE TypeOK'
  BY <1>9 DEF SetConnected, Goto, TypeOK, CloseSteps, Conns, Packets,
     Goroutines
<1>10. ASSUME NEW c \in Conns, ConnectFails(c) PROVE TypeOK'
  BY <1>10 DEF ConnectFails, Goto, TypeOK, CloseSteps, Conns, Packets,
     Goroutines
<1>11. ASSUME NEW c \in Conns, Drain(c) PROVE TypeOK'
  <2>1. UNCHANGED <<rx, rxConn, packet, table, created, state, open, stop, early>>
    BY <1>11 DEF Drain
  <2>2. /\ pc' \in [Conns -> [Goroutines -> Places]]
        /\ pending' \in [Conns -> Seq(Packets)]
        /\ handed' \in [Conns -> Seq(Packets)]
        /\ \A d \in Conns : Len(pending'[d]) <= Cap
    BY <1>11, DrainCases DEF TypeOK
  <2> QED
    BY <2>1, <2>2 DEF TypeOK, Places
<1>12. ASSUME NEW c \in Conns, NEW w \in {"fetch", "control"}, WorkerEnds(c, w)
      PROVE  TypeOK'
  BY <1>12 DEF WorkerEnds, Goto, TypeOK, CloseSteps, Conns, Packets, Goroutines
<1>13. ASSUME NEW c \in Conns, WriteFrom(c) PROVE TypeOK'
  BY <1>13 DEF WriteFrom, Goto, MayForward, TypeOK, CloseSteps, Conns, Packets,
     Goroutines
<1>14. ASSUME NEW c \in Conns, Sendto(c) PROVE TypeOK'
  BY <1>14 DEF Sendto, Goto, TypeOK, CloseSteps, Conns, Packets, Goroutines
<1>15. ASSUME NEW c \in Conns, NEW g \in Goroutines, Close(c, g)
      PROVE  TypeOK'
  <2>1. UNCHANGED <<rx, rxConn, packet, created, pending, stop, early, handed>>
    BY <1>15 DEF Close
  <2>2. pc' \in [Conns -> [Goroutines -> Places]]
    <3>1. PICK place \in CloseSteps \cup {"done"} : Goto(c, g, place)
      BY <1>15, Zenon DEF Close, CloseSteps
    <3> QED
      BY <1>15, <3>1, GotoEffect DEF Places
  <2>3. CASE SetClosed(c) /\ UNCHANGED <<table, open>>
    BY <2>1, <2>2, <2>3 DEF TypeOK, SetClosed, Places
  <2>4. CASE DeleteEntry /\ UNCHANGED <<state, open>>
    BY <2>1, <2>2, <2>4 DEF TypeOK, DeleteEntry, Places
  <2>5. CASE Forgets(c) /\ UNCHANGED <<state, table>>
    <3>1. open' \in [Conns -> BOOLEAN]
      BY <1>15, <2>5, ForgetsEffect
    <3> QED
      BY <2>1, <2>2, <2>5, <3>1 DEF TypeOK, Places
  <2> QED
    BY <1>15, <2>3, <2>4, <2>5 DEF Close
<1>16. CASE StopRange
  BY <1>16 DEF StopRange, SetClosed, TypeOK, CloseSteps, Conns, Packets,
     Goroutines
<1>17. CASE StopDelete
  BY <1>17 DEF StopDelete, DeleteEntry, TypeOK, CloseSteps, Conns, Packets,
     Goroutines
<1>18. CASE StopRemove
  BY <1>18 DEF StopRemove, TypeOK, CloseSteps, Conns, Packets, Goroutines
<1>19. CASE UNCHANGED vars
  BY <1>19 DEF vars, TypeOK, CloseSteps, Conns, Packets, Goroutines
<1> QED
  BY <1>1, <1>2, <1>3, <1>4, <1>5, <1>6, <1>7, <1>8, <1>9, <1>10, <1>11, <1>12,
     <1>13, <1>14, <1>15, <1>16, <1>17, <1>18, <1>19
   DEF Next, Rx, Dial, Worker, Stop, Quiet, Goroutines


\* A step of Close moves its goroutine on and connects nothing.
LEMMA CloseGoto ==
  ASSUME TypeOK, NEW c \in Conns, NEW g \in Goroutines, Close(c, g)
  PROVE  /\ pc[c][g] \in CloseSteps
         /\ \A d \in Conns, h \in Goroutines :
              pc'[d][h] # pc[d][h] =>
                d = c /\ h = g /\ pc'[d][h] \in {"delete", "forget", "done"}
         /\ \A d \in Conns : state'[d] = "connected" => state[d] = "connected"
         /\ \A d \in Conns : open'[d] => open[d]
         /\ pc'[c][g] = "done" => ~open'[c]
<1>1. CASE pc[c][g] = "close" /\ SetClosed(c) /\ Goto(c, g, "delete") /\ open' = open
  BY <1>1, GotoEffect DEF SetClosed, TypeOK, Places, CloseSteps
<1>2. CASE pc[c][g] = "delete" /\ Goto(c, g, "forget") /\ UNCHANGED <<state, open>>
  BY <1>2, GotoEffect DEF Places, CloseSteps
<1>3. CASE pc[c][g] = "forget" /\ Forgets(c) /\ Goto(c, g, "done") /\ state' = state
  BY <1>3, GotoEffect, ForgetsEffect DEF Places, CloseSteps
<1> QED
  BY <1>1, <1>2, <1>3 DEF Close

\* Every step preserves what ties a connection's use to its Connect.
LEMMA PhaseStep == IInv /\ [Next]_vars => PhaseOK'
<1> SUFFICES ASSUME IInv, [Next]_vars PROVE PhaseOK'
  OBVIOUS
<1> USE BoundsAssumption DEF IInv, rxVars, connVars, history
<1>1. CASE Arrive
  <2>1. rx' # "forward" /\ state' = state /\ created <= created'
    BY <1>1, ArriveEffect
  <2>2. created \in Nat /\ created' \in Nat
    BY <1>1, ArriveEffect DEF TypeOK
  <2>3. CASE pc' = pc
    BY <2>1, <2>2, <2>3 DEF PhaseOK, ReadyBeforeUse, Conns
  <2>4. CASE /\ created' = created + 1 /\ created' \in Conns
             /\ Goto(created', "dial", "connect")
    <3>1. \A d \in Conns, h \in Goroutines :
            pc'[d][h] = IF d = created' /\ h = "dial" THEN "connect" ELSE pc[d][h]
      BY <2>4, GotoEffect DEF Goroutines, Places
    <3>2. pc[created']["dial"] = "none" /\ state[created'] # "connected"
      BY <2>2, <2>4 DEF PhaseOK
    <3> QED
      BY <2>1, <2>2, <2>4, <3>1, <3>2 DEF PhaseOK, ReadyBeforeUse, Conns, Goroutines
  <2> QED
    BY <1>1, <2>3, <2>4, ArriveEffect
<1>2. CASE Store
  BY <1>2 DEF Store, PhaseOK, ReadyBeforeUse, TypeOK, Conns, Goroutines
<1>3. CASE Offer
  BY <1>3 DEF Offer, Kept, NotKept, GoesPending, PhaseOK, ReadyBeforeUse,
     TypeOK, Conns, Goroutines
<1>4. CASE Check
  BY <1>4 DEF Check, MayForward, PhaseOK, ReadyBeforeUse, TypeOK, Conns,
     Goroutines
<1>5. CASE Forward
  BY <1>5 DEF Forward, Sends, Refuses, PhaseOK, ReadyBeforeUse, TypeOK, Conns,
     Goroutines
<1>6. CASE RxClose
  BY <1>6 DEF RxClose, SetClosed, DeleteEntry, Forgets, PhaseOK,
     ReadyBeforeUse, TypeOK, Conns, Goroutines
<1>7. ASSUME NEW c \in Conns, StartControl(c) PROVE PhaseOK'
  BY <1>7 DEF StartControl, Goto, PhaseOK, ReadyBeforeUse, TypeOK, Conns,
     Goroutines
<1>8. ASSUME NEW c \in Conns, Register(c) PROVE PhaseOK'
  BY <1>8 DEF Register, PhaseOK, ReadyBeforeUse, TypeOK, Conns, Goroutines
<1>9. ASSUME NEW c \in Conns, SetConnected(c) PROVE PhaseOK'
  BY <1>9 DEF SetConnected, Goto, PhaseOK, ReadyBeforeUse, TypeOK, Conns,
     Goroutines
<1>10. ASSUME NEW c \in Conns, ConnectFails(c) PROVE PhaseOK'
  BY <1>10 DEF ConnectFails, Goto, PhaseOK, ReadyBeforeUse, TypeOK, Conns,
     Goroutines
<1>11. ASSUME NEW c \in Conns, Drain(c) PROVE PhaseOK'
  <2>1. UNCHANGED <<rx, rxConn, created, state>> /\ rxConn \in 0..created
        /\ created \in 0..MaxConns /\ (rx # "idle" => rxConn # 0)
    BY <1>11 DEF Drain, TypeOK
  <2>2. /\ pc[c]["dial"] = "drain"
        /\ \A d \in Conns, h \in Goroutines :
             pc'[d][h] # pc[d][h] =>
               d = c /\ h = "dial" /\ pc'[d][h] \in {"done", "close"}
    BY <1>11, DrainCases
  <2>3. rx = "forward" => rxConn \in Conns
    BY <2>1 DEF Conns
  <2> QED
    BY <2>1, <2>2, <2>3 DEF PhaseOK, ReadyBeforeUse, Goroutines
<1>12. ASSUME NEW c \in Conns, NEW w \in {"fetch", "control"}, WorkerEnds(c, w)
      PROVE  PhaseOK'
  BY <1>12 DEF WorkerEnds, Goto, PhaseOK, ReadyBeforeUse, TypeOK, Conns,
     Goroutines
<1>13. ASSUME NEW c \in Conns, WriteFrom(c) PROVE PhaseOK'
  BY <1>13 DEF WriteFrom, Goto, MayForward, PhaseOK, ReadyBeforeUse, TypeOK,
     Conns, Goroutines
<1>14. ASSUME NEW c \in Conns, Sendto(c) PROVE PhaseOK'
  BY <1>14 DEF Sendto, Goto, PhaseOK, ReadyBeforeUse, TypeOK, Conns, Goroutines
<1>15. ASSUME NEW c \in Conns, NEW g \in Goroutines, Close(c, g)
      PROVE  PhaseOK'
  <2>1. UNCHANGED <<rx, rxConn, created>> /\ rxConn \in 0..created
        /\ created \in 0..MaxConns /\ (rx # "idle" => rxConn # 0)
    BY <1>15 DEF Close, TypeOK
  <2>2. /\ pc[c][g] \in CloseSteps
        /\ \A d \in Conns, h \in Goroutines :
             pc'[d][h] # pc[d][h] =>
               d = c /\ h = g /\ pc'[d][h] \in {"delete", "forget", "done"}
    BY <1>15, CloseGoto
  <2>3. \A d \in Conns : state'[d] = "connected" => state[d] = "connected"
    BY <1>15, CloseGoto
  <2>4. rx = "forward" => rxConn \in Conns
    BY <2>1 DEF Conns
  <2> QED
    BY <2>1, <2>2, <2>3, <2>4 DEF PhaseOK, ReadyBeforeUse, Goroutines, CloseSteps
<1>16. CASE StopRange
  BY <1>16 DEF StopRange, SetClosed, PhaseOK, ReadyBeforeUse, TypeOK, Conns,
     Goroutines
<1>17. CASE StopDelete
  BY <1>17 DEF StopDelete, DeleteEntry, PhaseOK, ReadyBeforeUse, TypeOK, Conns,
     Goroutines
<1>18. CASE StopRemove
  BY <1>18 DEF StopRemove, PhaseOK, ReadyBeforeUse, TypeOK, Conns, Goroutines
<1>19. CASE UNCHANGED vars
  BY <1>19 DEF vars, PhaseOK, ReadyBeforeUse, TypeOK, Conns, Goroutines
<1> QED
  BY <1>1, <1>2, <1>3, <1>4, <1>5, <1>6, <1>7, <1>8, <1>9, <1>10, <1>11, <1>12,
     <1>13, <1>14, <1>15, <1>16, <1>17, <1>18, <1>19
   DEF Next, Rx, Dial, Worker, Stop, Quiet, Goroutines

\* Every step leaves open sockets a goroutine that will close them.
LEMMA SocketsStep == IInv /\ [Next]_vars => SocketsWatched'
<1> SUFFICES ASSUME IInv, [Next]_vars PROVE SocketsWatched'
  OBVIOUS
<1> USE BoundsAssumption DEF IInv, rxVars, connVars, history
<1>1. CASE Arrive
  <2>1. open' = open
    BY <1>1, ArriveEffect
  <2>2. CASE pc' = pc
    BY <2>1, <2>2 DEF SocketsWatched
  <2>3. CASE created' \in Conns /\ Goto(created', "dial", "connect")
    BY <2>1, <2>3, GotoEffect DEF Goroutines, Places, SocketsWatched
  <2> QED
    BY <1>1, <2>2, <2>3, ArriveEffect
<1>2. CASE Store
  BY <1>2 DEF Store, SocketsWatched, TypeOK, Conns, Goroutines
<1>3. CASE Offer
  BY <1>3 DEF Offer, Kept, NotKept, GoesPending, SocketsWatched, TypeOK, Conns,
     Goroutines
<1>4. CASE Check
  BY <1>4 DEF Check, MayForward, SocketsWatched, TypeOK, Conns, Goroutines
<1>5. CASE Forward
  BY <1>5 DEF Forward, Sends, Refuses, SocketsWatched, TypeOK, Conns,
     Goroutines
<1>6. CASE RxClose
  <2>1. pc' = pc /\ (rx # "idle" => rxConn \in Conns)
    BY <1>6 DEF RxClose, TypeOK, Conns
  <2>2. CASE open' = open
    BY <2>1, <2>2 DEF SocketsWatched
  <2>3. CASE rx = "forget" /\ Forgets(rxConn)
    BY <2>1, <2>3, ForgetsEffect DEF SocketsWatched
  <2> QED
    BY <1>6, <2>2, <2>3 DEF RxClose
<1>7. ASSUME NEW c \in Conns, StartControl(c) PROVE SocketsWatched'
  BY <1>7 DEF StartControl, Goto, SocketsWatched, TypeOK, Conns, Goroutines
<1>8. ASSUME NEW c \in Conns, Register(c) PROVE SocketsWatched'
  BY <1>8 DEF Register, SocketsWatched, TypeOK, Conns, Goroutines
<1>9. ASSUME NEW c \in Conns, SetConnected(c) PROVE SocketsWatched'
  BY <1>9 DEF SetConnected, Goto, SocketsWatched, TypeOK, Conns, Goroutines
<1>10. ASSUME NEW c \in Conns, ConnectFails(c) PROVE SocketsWatched'
  BY <1>10 DEF ConnectFails, Goto, SocketsWatched, TypeOK, Conns, Goroutines
<1>11. ASSUME NEW c \in Conns, Drain(c) PROVE SocketsWatched'
  <2>1. open' = open
    BY <1>11 DEF Drain
  <2> QED
    BY <1>11, <2>1, DrainCases DEF Goroutines, SocketsWatched
<1>12. ASSUME NEW c \in Conns, NEW w \in {"fetch", "control"}, WorkerEnds(c, w)
      PROVE  SocketsWatched'
  BY <1>12 DEF WorkerEnds, Goto, SocketsWatched, TypeOK, Conns, Goroutines
<1>13. ASSUME NEW c \in Conns, WriteFrom(c) PROVE SocketsWatched'
  BY <1>13 DEF WriteFrom, Goto, MayForward, SocketsWatched, TypeOK, Conns,
     Goroutines
<1>14. ASSUME NEW c \in Conns, Sendto(c) PROVE SocketsWatched'
  BY <1>14 DEF Sendto, Goto, SocketsWatched, TypeOK, Conns, Goroutines
<1>15. ASSUME NEW c \in Conns, NEW g \in Goroutines, Close(c, g)
      PROVE  SocketsWatched'
  <2> QED
    BY <1>15, CloseGoto DEF Goroutines, SocketsWatched
<1>16. CASE StopRange
  BY <1>16 DEF StopRange, SetClosed, SocketsWatched, TypeOK, Conns, Goroutines
<1>17. CASE StopDelete
  BY <1>17 DEF StopDelete, DeleteEntry, SocketsWatched, TypeOK, Conns,
     Goroutines
<1>18. CASE StopRemove
  BY <1>18 DEF StopRemove, SocketsWatched, TypeOK, Conns, Goroutines
<1>19. CASE UNCHANGED vars
  BY <1>19 DEF vars, SocketsWatched, TypeOK, Conns, Goroutines
<1> QED
  BY <1>1, <1>2, <1>3, <1>4, <1>5, <1>6, <1>7, <1>8, <1>9, <1>10, <1>11, <1>12,
     <1>13, <1>14, <1>15, <1>16, <1>17, <1>18, <1>19
   DEF Next, Rx, Dial, Worker, Stop, Quiet, Goroutines


\* All that the invariant says of the datagrams.
DataOK == ArrivedOK /\ OnceOK /\ OrderOK

\* A step that leaves the datagrams where they are.
LEMMA DataFrame ==
  ASSUME DataOK, UNCHANGED <<pending, handed, early, packet>>, InHand' => InHand
  PROVE  DataOK'
<1>1. ArrivedOK'
  BY DEF DataOK, ArrivedOK
<1>2. OnceOK'
  BY DEF DataOK, OnceOK, HandedOnce
<1>3. OrderOK'
  BY DEF DataOK, OrderOK, EarlyInOrder
<1> QED
  BY <1>1, <1>2, <1>3 DEF DataOK

\* The next datagram arrives.
LEMMA DataArrive == ASSUME TypeOK, DataOK, Arrive PROVE DataOK'
<1>1. /\ packet' = packet + 1 /\ ~InHand
      /\ UNCHANGED <<pending, handed, early>>
  BY ArriveEffect DEF InHand
<1>2. packet \in Nat
  BY BoundsAssumption DEF TypeOK
<1>3. ArrivedOK'
  <2>1. packet' # 0
    BY <1>1, <1>2
  <2>2. ASSUME NEW c \in Conns
        PROVE  /\ \A i \in DOMAIN pending[c] :
                    pending[c][i] <= packet' /\ pending[c][i] < packet'
               /\ \A i \in DOMAIN handed[c] :
                    handed[c][i] <= packet' /\ handed[c][i] < packet'
               /\ \A p \in early[c] : p <= packet' /\ p < packet'
    <3>1. /\ pending[c] \in Seq(Packets) /\ handed[c] \in Seq(Packets)
          /\ early[c] \subseteq Packets /\ Packets \subseteq Nat
      BY DEF TypeOK, Packets
    <3>2. \A p \in Packets : p <= packet => p <= packet' /\ p < packet'
      BY <1>1, <1>2 DEF Packets
    <3>3. /\ \A i \in DOMAIN pending[c] :
               pending[c][i] \in Packets /\ pending[c][i] <= packet
          /\ \A i \in DOMAIN handed[c] :
               handed[c][i] \in Packets /\ handed[c][i] <= packet
          /\ \A p \in early[c] : p \in Packets /\ p <= packet
      BY <3>1 DEF DataOK, ArrivedOK
    <3> QED
      BY <3>2, <3>3
  <2> QED
    BY <1>1, <2>1, <2>2 DEF ArrivedOK
<1>4. OnceOK'
  BY <1>1 DEF DataOK, OnceOK, HandedOnce
<1>5. OrderOK'
  BY <1>1 DEF DataOK, OrderOK, EarlyInOrder
<1> QED
  BY <1>3, <1>4, <1>5 DEF DataOK

\* The datagram in hand is put behind the others that wait.
LEMMA DataKept ==
  ASSUME TypeOK, DataOK, NEW c \in Conns, InHand, Len(pending[c]) < Cap,
         pending' = [pending EXCEPT ![c] = Append(@, packet)],
         early' = [early EXCEPT ![c] = @ \cup {packet}],
         rx' = "idle", UNCHANGED <<packet, handed>>
  PROVE  DataOK'
<1>1. packet \in Packets /\ packet \in Nat /\ Packets \subseteq Nat
  BY DEF DataOK, ArrivedOK, TypeOK, Packets
<1>2. \A d \in Conns : \A i \in DOMAIN pending'[d] :
        \/ i \in DOMAIN pending[d] /\ pending'[d][i] = pending[d][i]
        \/ d = c /\ i = Len(pending[d]) + 1 /\ pending'[d][i] = packet
  BY <1>1, KeptEffect
<1>3. ASSUME NEW d \in Conns
      PROVE  /\ \A i \in DOMAIN pending[d] :
                  pending[d][i] \in Packets /\ pending[d][i] < packet
             /\ \A i \in DOMAIN handed[d] :
                  handed[d][i] \in Packets /\ handed[d][i] < packet
             /\ \A p \in early[d] : p < packet
             /\ DOMAIN pending[d] = 1..Len(pending[d]) /\ Len(pending[d]) \in Nat
             /\ DOMAIN handed[d] = 1..Len(handed[d])
             /\ early'[d] = early[d] \cup (IF d = c THEN {packet} ELSE {})
  BY DEF DataOK, ArrivedOK, TypeOK
<1>4. ArrivedOK'
  <2>1. ~InHand' /\ packet' = packet /\ handed' = handed
    BY DEF InHand
  <2>2. ASSUME NEW d \in Conns
        PROVE  /\ \A i \in DOMAIN pending'[d] : pending'[d][i] <= packet
               /\ \A i \in DOMAIN handed[d] : handed[d][i] <= packet
               /\ \A p \in early'[d] : p <= packet
    <3>1. packet <= packet /\ \A x \in Packets : x < packet => x <= packet
      BY <1>1
    <3>2. \A i \in DOMAIN pending'[d] : pending'[d][i] <= packet
      BY <1>2, <1>3, <3>1
    <3>3. \A i \in DOMAIN handed[d] : handed[d][i] <= packet
      BY <1>3, <3>1
    <3>4. \A p \in early[d] : p <= packet
      BY DEF DataOK, ArrivedOK
    <3> QED
      BY <1>3, <3>1, <3>2, <3>3, <3>4
  <2> QED
    BY <2>1, <2>2 DEF ArrivedOK
<1>5. OnceOK'
  <2>1. ASSUME NEW d \in Conns, NEW e \in Conns,
               NEW i \in DOMAIN pending'[d], NEW j \in DOMAIN handed[e]
        PROVE  pending'[d][i] # handed[e][j]
    BY <1>1, <1>2, <1>3 DEF DataOK, OnceOK
  <2>2. ASSUME NEW d \in Conns, NEW e \in Conns,
               NEW i \in DOMAIN pending'[d], NEW j \in DOMAIN pending'[e],
               pending'[d][i] = pending'[e][j]
        PROVE  d = e /\ i = j
    BY <1>1, <1>2, <1>3, <2>2 DEF DataOK, OnceOK
  <2> QED
    BY <2>1, <2>2 DEF DataOK, OnceOK, HandedOnce
<1>6. OrderOK'
  <2>1. ASSUME NEW d \in Conns, NEW i \in DOMAIN pending'[d],
               NEW j \in DOMAIN pending'[d], i < j
        PROVE  pending'[d][i] < pending'[d][j]
    <3>1. i \in DOMAIN pending[d]
      <4>1. DOMAIN pending'[d] \subseteq 1..(Len(pending[d]) + 1)
        BY <1>2, <1>3
      <4> QED
        BY <1>2, <1>3, <2>1, <4>1
    <3>2. pending'[d][i] = pending[d][i]
      BY <1>2, <1>3, <3>1
    <3> QED
      BY <1>2, <1>3, <2>1, <3>1, <3>2 DEF DataOK, OrderOK
  <2>2. ASSUME NEW d \in Conns, NEW i \in DOMAIN handed[d],
               NEW j \in DOMAIN pending'[d], handed[d][i] \in early'[d]
        PROVE  handed[d][i] < pending'[d][j]
    BY <1>1, <1>2, <1>3, <2>2 DEF DataOK, OrderOK
  <2>3. ASSUME NEW d \in Conns,
               NEW i \in DOMAIN handed[d], NEW j \in DOMAIN handed[d],
               i < j, {handed[d][i], handed[d][j]} \subseteq early'[d]
        PROVE  handed[d][i] < handed[d][j]
    BY <1>1, <1>3, <2>3 DEF DataOK, OrderOK, EarlyInOrder
  <2> QED
    BY <2>1, <2>2, <2>3 DEF OrderOK, EarlyInOrder
<1> QED
  BY <1>4, <1>5, <1>6 DEF DataOK

\* The datagram in hand is sent.
LEMMA DataSent ==
  ASSUME TypeOK, DataOK, NEW c \in Conns, InHand, Sends(c, packet), rx' = "idle",
         UNCHANGED <<packet, pending, early>>
  PROVE  DataOK'
<1>1. packet \in Packets /\ packet \in Nat /\ Packets \subseteq Nat
  BY DEF DataOK, ArrivedOK, TypeOK, Packets
<1>2. \A d \in Conns : \A i \in DOMAIN handed'[d] :
        \/ i \in DOMAIN handed[d] /\ handed'[d][i] = handed[d][i]
        \/ d = c /\ i = Len(handed[d]) + 1 /\ handed'[d][i] = packet
  BY <1>1, SendsEffect
<1>3. ASSUME NEW d \in Conns
      PROVE  /\ \A i \in DOMAIN pending[d] :
                  pending[d][i] \in Packets /\ pending[d][i] < packet
             /\ \A i \in DOMAIN handed[d] :
                  handed[d][i] \in Packets /\ handed[d][i] < packet
             /\ \A p \in early[d] : p \in Packets /\ p < packet
             /\ DOMAIN handed[d] = 1..Len(handed[d]) /\ Len(handed[d]) \in Nat
  BY DEF DataOK, ArrivedOK, TypeOK
<1>4. ArrivedOK'
  <2>1. /\ ~InHand' /\ packet' = packet
        /\ pending' = pending /\ early' = early
    BY DEF InHand
  <2>2. ASSUME NEW d \in Conns
        PROVE  /\ \A i \in DOMAIN pending[d] : pending[d][i] <= packet
               /\ \A i \in DOMAIN handed'[d] : handed'[d][i] <= packet
               /\ \A p \in early[d] : p <= packet
    <3>1. packet <= packet /\ \A x \in Packets : x < packet => x <= packet
      BY <1>1
    <3>2. \A i \in DOMAIN handed'[d] : handed'[d][i] <= packet
      BY <1>2, <1>3, <3>1
    <3> QED
      BY <1>3, <3>1, <3>2
  <2> QED
    BY <2>1, <2>2 DEF ArrivedOK
<1>5. OnceOK'
  <2>1. ASSUME NEW d \in Conns, NEW e \in Conns,
               NEW i \in DOMAIN pending[d], NEW j \in DOMAIN handed'[e]
        PROVE  pending[d][i] # handed'[e][j]
    BY <1>1, <1>2, <1>3 DEF DataOK, OnceOK
  <2>2. ASSUME NEW d \in Conns, NEW e \in Conns,
               NEW i \in DOMAIN handed'[d], NEW j \in DOMAIN handed'[e],
               handed'[d][i] = handed'[e][j]
        PROVE  d = e /\ i = j
    BY <1>1, <1>2, <1>3, <2>2 DEF DataOK, OnceOK, HandedOnce
  <2> QED
    BY <2>1, <2>2 DEF DataOK, OnceOK, HandedOnce
<1>6. OrderOK'
  <2>1. \A d \in Conns : packet \notin early[d]
    BY <1>1, <1>3
  <2>2. ASSUME NEW d \in Conns, NEW i \in DOMAIN handed'[d],
               NEW j \in DOMAIN pending[d], handed'[d][i] \in early[d]
        PROVE  handed'[d][i] < pending[d][j]
    BY <1>2, <2>1, <2>2 DEF DataOK, OrderOK
  <2>3. ASSUME NEW d \in Conns,
               NEW i \in DOMAIN handed'[d], NEW j \in DOMAIN handed'[d],
               i < j, {handed'[d][i], handed'[d][j]} \subseteq early[d]
        PROVE  handed'[d][i] < handed'[d][j]
    BY <1>2, <2>1, <2>3 DEF DataOK, OrderOK, EarlyInOrder
  <2> QED
    BY <2>2, <2>3 DEF DataOK, OrderOK, EarlyInOrder
<1> QED
  BY <1>4, <1>5, <1>6 DEF DataOK

\* What the drain takes off is the oldest that waits; it is sent or lost.
LEMMA DataDrain ==
  ASSUME TypeOK, DataOK, NEW c \in Conns, pending[c] # <<>>,
         pending' = [pending EXCEPT ![c] = Tail(@)],
         handed' = handed \/ Sends(c, Head(pending[c])),
         UNCHANGED <<rx, packet, early>>
  PROVE  DataOK'
<1> DEFINE p == pending[c][1]
<1>1. /\ 1 \in DOMAIN pending[c] /\ Head(pending[c]) = p /\ p \in Packets
      /\ \A d \in Conns : \A i \in DOMAIN pending'[d] :
           \/ d # c /\ i \in DOMAIN pending[d] /\ pending'[d][i] = pending[d][i]
           \/ /\ d = c /\ i \in Nat \ {0} /\ i + 1 \in DOMAIN pending[d]
              /\ pending'[d][i] = pending[d][i + 1]
  <2>1. /\ 1 \in DOMAIN pending[c] /\ Head(pending[c]) = pending[c][1]
        /\ Head(pending[c]) \in Packets
    BY DrainEffect
  <2>2. \A d \in Conns : \A i \in DOMAIN pending'[d] :
           \/ d # c /\ i \in DOMAIN pending[d] /\ pending'[d][i] = pending[d][i]
           \/ /\ d = c /\ i \in Nat \ {0} /\ i + 1 \in DOMAIN pending[d]
              /\ pending'[d][i] = pending[d][i + 1]
    BY DrainEffect, Zenon
  <2> QED
    BY <2>1, <2>2
<1>2. \A d \in Conns : \A i \in DOMAIN handed'[d] :
        \/ i \in DOMAIN handed[d] /\ handed'[d][i] = handed[d][i]
        \/ d = c /\ i = Len(handed[d]) + 1 /\ handed'[d][i] = p
  <2>1. CASE handed' = handed
    BY <2>1
  <2>2. CASE Sends(c, p)
    BY <1>1, <2>2, SendsEffect
  <2> QED
    BY <1>1, <2>1, <2>2
<1>3. ASSUME NEW d \in Conns
      PROVE  /\ \A i \in DOMAIN pending[d] : pending[d][i] \in Packets
             /\ \A i \in DOMAIN handed[d] : handed[d][i] \in Packets
             /\ DOMAIN handed[d] = 1..Len(handed[d]) /\ Len(handed[d]) \in Nat
             /\ DOMAIN pending[d] \subseteq Nat /\ Packets \subseteq Nat
  <2>1. pending[d] \in Seq(Packets) /\ handed[d] \in Seq(Packets)
    BY DEF TypeOK
  <2>2. Packets \subseteq Nat
    BY DEF Packets
  <2> QED
    BY <2>1, <2>2
<1>4. (InHand' <=> InHand) /\ packet' = packet /\ early' = early
  BY DEF InHand
<1>5. ArrivedOK'
  BY <1>1, <1>2, <1>4 DEF DataOK, ArrivedOK
\* Whatever else waits is another datagram, and a newer one in the same channel.
<1>6. ASSUME NEW d \in Conns, NEW i \in DOMAIN pending'[d]
      PROVE  /\ pending'[d][i] # p
             /\ d = c => p < pending'[d][i]
             /\ \E k \in DOMAIN pending[d] :
                  k = (IF d = c THEN i + 1 ELSE i) /\ pending'[d][i] = pending[d][k]
  <2>1. PICK k \in DOMAIN pending[d] :
          /\ k = (IF d = c THEN i + 1 ELSE i)
          /\ pending'[d][i] = pending[d][k]
          /\ d = c => i \in Nat \ {0}
    BY <1>1
  <2>2. d = c => k # 1 /\ 1 < k
    BY <2>1
  <2>3. pending[d][k] # p
    BY <1>1, <2>2 DEF DataOK, OnceOK
  <2>4. d = c => p < pending[d][k]
    BY <1>1, <2>2 DEF DataOK, OrderOK
  <2> QED
    BY <2>1, <2>3, <2>4
<1>7. OnceOK'
  <2>1. ASSUME NEW d \in Conns, NEW e \in Conns,
               NEW i \in DOMAIN pending'[d], NEW j \in DOMAIN handed'[e]
        PROVE  pending'[d][i] # handed'[e][j]
    BY <1>2, <1>6 DEF DataOK, OnceOK
  <2>2. ASSUME NEW d \in Conns, NEW e \in Conns,
               NEW i \in DOMAIN pending'[d], NEW j \in DOMAIN pending'[e],
               pending'[d][i] = pending'[e][j]
        PROVE  d = e /\ i = j
    <3>1. PICK k \in DOMAIN pending[d] :
            /\ k = (IF d = c THEN i + 1 ELSE i) /\ pending'[d][i] = pending[d][k]
      BY <1>6
    <3>2. PICK l \in DOMAIN pending[e] :
            /\ l = (IF e = c THEN j + 1 ELSE j) /\ pending'[e][j] = pending[e][l]
      BY <1>6
    <3>3. d = e /\ k = l
      BY <2>2, <3>1, <3>2 DEF DataOK, OnceOK
    <3>4. d = c => i \in Nat /\ j \in Nat
      BY <1>1, <3>3
    <3> QED
      BY <3>1, <3>2, <3>3, <3>4
  <2>3. ASSUME NEW d \in Conns, NEW e \in Conns,
               NEW i \in DOMAIN handed'[d], NEW j \in DOMAIN handed'[e],
               handed'[d][i] = handed'[e][j]
        PROVE  d = e /\ i = j
    <3>1. \A f \in Conns : \A k \in DOMAIN handed[f] : handed[f][k] # p
      BY <1>1 DEF DataOK, OnceOK
    <3> QED
      BY <1>2, <2>3, <3>1 DEF DataOK, OnceOK, HandedOnce
  <2> QED
    BY <2>1, <2>2, <2>3 DEF OnceOK, HandedOnce
<1>8. OrderOK'
  <2>1. ASSUME NEW d \in Conns, NEW i \in DOMAIN pending'[d],
               NEW j \in DOMAIN pending'[d], i < j
        PROVE  pending'[d][i] < pending'[d][j]
    <3>1. CASE d = c
      <4>1. /\ i \in Nat /\ j \in Nat
            /\ i + 1 \in DOMAIN pending[d] /\ j + 1 \in DOMAIN pending[d]
            /\ pending'[d][i] = pending[d][i + 1]
            /\ pending'[d][j] = pending[d][j + 1]
        BY <1>1, <3>1
      <4>2. i + 1 < j + 1
        BY <2>1, <4>1
      <4> QED
        BY <4>1, <4>2 DEF DataOK, OrderOK
    <3>2. CASE d # c
      BY <1>1, <2>1, <3>2 DEF DataOK, OrderOK
    <3> QED
      BY <3>1, <3>2
  <2>2. ASSUME NEW d \in Conns, NEW i \in DOMAIN handed'[d],
               NEW j \in DOMAIN pending'[d], handed'[d][i] \in early[d]
        PROVE  handed'[d][i] < pending'[d][j]
    BY <1>2, <1>6, <2>2 DEF DataOK, OrderOK
  <2>3. ASSUME NEW d \in Conns,
               NEW i \in DOMAIN handed'[d], NEW j \in DOMAIN handed'[d],
               i < j, {handed'[d][i], handed'[d][j]} \subseteq early[d]
        PROVE  handed'[d][i] < handed'[d][j]
    <3>1. i \in DOMAIN handed[d] /\ handed'[d][i] = handed[d][i]
      <4>1. DOMAIN handed'[d] \subseteq 1..(Len(handed[d]) + 1)
        BY <1>2, <1>3
      <4> QED
        BY <1>2, <1>3, <2>3, <4>1
    <3>2. CASE j \in DOMAIN handed[d] /\ handed'[d][j] = handed[d][j]
      BY <2>3, <3>1, <3>2 DEF DataOK, OrderOK, EarlyInOrder
    <3>3. CASE d = c /\ handed'[d][j] = p
      BY <1>1, <2>3, <3>1, <3>3 DEF DataOK, OrderOK
    <3> QED
      BY <1>2, <3>2, <3>3
  <2> QED
    BY <1>4, <2>1, <2>2, <2>3 DEF OrderOK, EarlyInOrder
<1> QED
  BY <1>5, <1>7, <1>8 DEF DataOK

\* Every step preserves it.
LEMMA DataStep == IInv /\ [Next]_vars => DataOK'
<1> SUFFICES ASSUME IInv, [Next]_vars PROVE DataOK'
  OBVIOUS
<1> USE DEF rxVars, connVars, history
<1>0. TypeOK /\ DataOK
  BY DEF IInv, DataOK
<1>1. CASE Arrive
  BY <1>0, <1>1, DataArrive
<1>2. CASE Store
  BY <1>0, <1>2, DataFrame DEF Store, InHand
<1>3. CASE Offer
  <2>1. /\ rx = "offer" /\ UNCHANGED <<packet, handed>>
    BY <1>0, <1>3 DEF Offer
  <2>2. rxConn \in Conns
    BY <1>0, <2>1, BoundsAssumption DEF TypeOK, Conns
  <2>3. CASE GoesPending(rxConn)
    <3>1. /\ pending' = [pending EXCEPT ![rxConn] = Append(@, packet)]
          /\ early' = [early EXCEPT ![rxConn] = @ \cup {packet}] /\ rx' = "idle"
          /\ Len(pending[rxConn]) < Cap
      BY <1>0, <1>3, <2>3 DEF Offer, Kept, GoesPending
    <3>2. InHand
      BY <2>1 DEF InHand
    <3> QED
      BY <1>0, <2>1, <2>2, <3>1, <3>2, DataKept
  <2>4. CASE ~GoesPending(rxConn)
    <3>1. UNCHANGED <<pending, early>>
      BY <1>0, <1>3, <2>4 DEF Offer
    <3> QED
      BY <1>0, <2>1, <3>1, DataFrame DEF InHand
  <2> QED
    BY <2>3, <2>4
<1>4. CASE Check
  BY <1>0, <1>4, DataFrame DEF Check, MayForward, InHand
<1>5. CASE Forward
  <2>1. rx = "forward" /\ UNCHANGED <<packet, pending, early>>
    BY <1>0, <1>5 DEF Forward
  <2>2. rxConn \in Conns
    BY <1>0, <2>1, BoundsAssumption DEF TypeOK, Conns
  <2>3. InHand
    BY <2>1 DEF InHand
  <2>4. CASE Sends(rxConn, packet) /\ rx' = "idle"
    BY <1>0, <2>1, <2>2, <2>3, <2>4, DataSent
  <2>5. CASE Refuses(rxConn)
    <3>1. handed' = handed
      BY <2>5, Zenon DEF Refuses
    <3> QED
      BY <1>0, <2>1, <2>3, <3>1, DataFrame
  <2> QED
    BY <1>0, <1>5, <2>4, <2>5 DEF Forward
<1>6. CASE RxClose
  BY <1>0, <1>6, DataFrame DEF RxClose, SetClosed, DeleteEntry, Forgets, InHand
<1>7. ASSUME NEW c \in Conns, StartControl(c) PROVE DataOK'
  BY <1>0, <1>7, DataFrame DEF StartControl, Goto, InHand
<1>8. ASSUME NEW c \in Conns, Register(c) PROVE DataOK'
  BY <1>0, <1>8, DataFrame DEF Register, InHand
<1>9. ASSUME NEW c \in Conns, SetConnected(c) PROVE DataOK'
  BY <1>0, <1>9, DataFrame DEF SetConnected, Goto, InHand
<1>10. ASSUME NEW c \in Conns, ConnectFails(c) PROVE DataOK'
  BY <1>0, <1>10, DataFrame DEF ConnectFails, Goto, InHand
<1>11. ASSUME NEW c \in Conns, Drain(c) PROVE DataOK'
  <2>1. UNCHANGED <<rx, packet, early>>
    BY <1>0, <1>11 DEF Drain
  <2>2. CASE pending' = pending /\ handed' = handed
    BY <1>0, <2>1, <2>2, DataFrame DEF InHand
  <2>3. CASE /\ pending[c] # <<>> /\ pending' = [pending EXCEPT ![c] = Tail(@)]
             /\ handed' = handed \/ Sends(c, Head(pending[c]))
    BY <1>0, <1>11, <2>1, <2>3, DataDrain
  <2> QED
    BY <1>0, <1>11, <2>2, <2>3, DrainCases
<1>12. ASSUME NEW c \in Conns, NEW w \in {"fetch", "control"}, WorkerEnds(c, w)
      PROVE  DataOK'
  BY <1>0, <1>12, DataFrame DEF WorkerEnds, Goto, InHand
<1>13. ASSUME NEW c \in Conns, WriteFrom(c) PROVE DataOK'
  BY <1>0, <1>13, DataFrame DEF WriteFrom, Goto, MayForward, InHand
<1>14. ASSUME NEW c \in Conns, Sendto(c) PROVE DataOK'
  BY <1>0, <1>14, DataFrame DEF Sendto, Goto, InHand
<1>15. ASSUME NEW c \in Conns, NEW g \in Goroutines, Close(c, g)
      PROVE  DataOK'
  BY <1>0, <1>15, DataFrame DEF Close, SetClosed, DeleteEntry, Forgets, Goto,
     InHand
<1>16. CASE StopRange
  BY <1>0, <1>16, DataFrame DEF StopRange, SetClosed, InHand
<1>17. CASE StopDelete
  BY <1>0, <1>17, DataFrame DEF StopDelete, DeleteEntry, InHand
<1>18. CASE StopRemove
  BY <1>0, <1>18, DataFrame DEF StopRemove, InHand
<1>19. CASE UNCHANGED vars
  BY <1>0, <1>19, DataFrame DEF vars, InHand
<1> QED
  BY <1>0, <1>1, <1>2, <1>3, <1>4, <1>5, <1>6, <1>7, <1>8, <1>9, <1>10, <1>11,
     <1>12, <1>13, <1>14, <1>15, <1>16, <1>17, <1>18, <1>19
   DEF Next, Rx, Dial, Worker, Stop, Quiet, Goroutines


-----------------------------------------------------------------------------
(* The invariant and what follows from it.                                 *)

\* The invariant holds in the beginning.
LEMMA InitIInv == Init => IInv
<1> SUFFICES ASSUME Init PROVE IInv
  OBVIOUS
<1> USE BoundsAssumption DEF Init
<1>1. TypeOK
  BY DEF TypeOK, Conns, Packets, Goroutines, CloseSteps
<1>2. PhaseOK /\ SocketsWatched
  BY DEF PhaseOK, ReadyBeforeUse, SocketsWatched, Conns, Goroutines
<1>3. /\ ~InHand
      /\ \A c \in Conns : /\ DOMAIN pending[c] = {} /\ DOMAIN handed[c] = {}
                          /\ early[c] = {}
  BY DEF InHand
<1>4. ArrivedOK /\ OnceOK /\ OrderOK
  BY <1>3 DEF ArrivedOK, OnceOK, HandedOnce, OrderOK, EarlyInOrder
<1> QED
  BY <1>1, <1>2, <1>4 DEF IInv

\* IInv is an invariant of the specification.
LEMMA Invariance == Spec => []IInv
<1>1. IInv /\ [Next]_vars => IInv'
  BY TypeStep, PhaseStep, SocketsStep, DataStep DEF IInv, DataOK
<1> QED
  BY <1>1, InitIInv, PTL DEF Spec

\* The variables keep their types; no pending channel holds more than it can.
THEOREM TypeCorrect == Spec => []TypeOK
<1>1. IInv => TypeOK
  BY DEF IInv
<1> QED
  BY <1>1, Invariance, PTL

\* ReceiveTo gives a datagram to the handler only when Connect has returned.
THEOREM HandlerReady == Spec => []ReadyBeforeUse
<1>1. IInv => ReadyBeforeUse
  BY DEF IInv, PhaseOK
<1> QED
  BY <1>1, Invariance, PTL

\* Sockets in the handler's maps have a goroutine that will close them.
THEOREM SocketsCared == Spec => []SocketsWatched
<1>1. IInv => SocketsWatched
  BY DEF IInv
<1> QED
  BY <1>1, Invariance, PTL

\* No datagram is sent twice, by the drain and by ReceiveTo or through two
\* connections.
THEOREM SentOnce == Spec => []HandedOnce
<1>1. IInv => HandedOnce
  BY DEF IInv, OnceOK
<1> QED
  BY <1>1, Invariance, PTL

\* What waited for Connect is sent in the order it came.
THEOREM SentInOrder == Spec => []EarlyInOrder
<1>1. IInv => EarlyInOrder
  BY DEF IInv, OrderOK
<1> QED
  BY <1>1, Invariance, PTL

=============================================================================
