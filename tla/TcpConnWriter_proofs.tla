------------------------ MODULE TcpConnWriter_proofs ------------------------
(***************************************************************************)
(* What is proved of TcpConn for its writer, from the inductive invariant  *)
(* of TcpConn_proofs: the connection implements DownlinkStream, and a      *)
(* writer that waits is polled as long as nothing fails.                   *)
(***************************************************************************)
EXTENDS TcpConn_proofs

\* Nothing more can be taken from the writer.
EndedTcp == tcp \notin {"SYN_RCVD", "ESTABLISHED", "CLOSE_WAIT"}

\* The writer's stream is cut short for good.  Torn says the same, but a state
\* that says so can be overwritten by the dial goroutine.
Cut == once # "new" \/ tcp = "FREED" \/ pc["stop"] # "idle"

\* The downlink has half-closed, or is about to.
Past == {"shutdown", "done"}

\* Our side of the stream is shut only by a downlink that has written all.
WriterOK ==
  /\ state = "Errored" => tcp = "FREED" \/ todo = {"free"}
  /\ state = "Aborting" => pc["stop"] # "idle" \/ pc["down"] = "none"
  /\ pc["up"] = "none" => pc["down"] = "none"
  /\ \A g \in {"up", "down"} : pc[g] = "closeWrite" => once # "new"
  /\ pc["up"] = "shutdown" => once # "new"
  /\ pc["down"] \in {"none", "idle"} => left = 0
  /\ ~Cut /\ state \in {"WriteClosed", "Closing", "Closed"}
       => pc["down"] \in Past
  /\ ~Cut /\ EndedTcp => pc["down"] \in Past
  /\ ~Cut /\ todo # {"free"} =>
       pc["down"] # "over" /\ (pc["down"] \in Past => left = 0)

LEMMA EnqueueEffect ==
  ASSUME TypeOK, WriteEnqueue
  PROVE  /\ tcp' = tcp
         /\ \/ /\ tcp \in {"ESTABLISHED", "CLOSE_WAIT"} \/ Fits = 0
               /\ \E n \in {0, Fits} : sndq' = sndq + n /\ left' = left - n
               /\ pc' = [pc EXCEPT !["down"] = IF left' = 0 THEN "idle" ELSE
                 "wait"]
            \/ /\ tcp \notin {"ESTABLISHED", "CLOSE_WAIT"}
               /\ left' = left /\ sndq' = sndq
               /\ pc' = [pc EXCEPT !["down"] = "over"]
  BY DEF WriteEnqueue, Goto, pcbVars

\* tcp_process never moves a pcb past our FIN or back.
LEMMA ProcessedEnds ==
  ASSUME NEW t \in PcbStates, NEW gotFin \in BOOLEAN, NEW ackFin \in BOOLEAN
  PROVE  Processed(t, gotFin, ackFin) \in {"SYN_RCVD", "ESTABLISHED",
    "CLOSE_WAIT"}
           <=> t \in {"SYN_RCVD", "ESTABLISHED", "CLOSE_WAIT"}
  BY DEF Processed, PcbStates, Active

LEMMA WriterStep == IInv /\ WriterOK /\ [Next]_vars => WriterOK'
<1> SUFFICES ASSUME IInv, WriterOK, [Next]_vars PROVE WriterOK'
  OBVIOUS
<1> USE BoundsAssumption DEF IInv, lwipVars, pcbVars, connVars, goVars,
  counters, WriterOK, Cut, EndedTcp, Past
<1>1. CASE Accept
  BY <1>1 DEF Accept, Goto, Enter, When, EarlyOK, Goroutines, TypeOK
<1>2. CASE Input
  BY <1>2 DEF Input, Enter, Retry, When, EntryOK, Goroutines, TypeOK
<1>3. CASE FastTimer
  BY <1>3 DEF FastTimer, Enter, Retry, When, EntryOK, Goroutines, TypeOK
<1>4. CASE Poll
  BY <1>4 DEF Poll, Enter, EntryOK, Goroutines, TypeOK
<1>5. CASE SlowTimerRemove
  BY <1>5 DEF SlowTimerRemove, Enter, Goroutines, TypeOK
<1>6. CASE TimeWaitExpires
  BY <1>6 DEF TimeWaitExpires, Goroutines, TypeOK
<1>7. CASE Leave
  BY <1>7 DEF Leave, Goto, LwipThreads, Goroutines, TypeOK
<1>8. CASE ProcessSegment
  <2> DEFINE s == segment
  <2>1. /\ UNCHANGED <<at, registered, state, once, pc, left>>
        /\ tcp' = tcp \/ tcp' = Processed(tcp, s.fin, s.ackFin)
    BY <1>8 DEF ProcessSegment
  <2>2. s.fin \in BOOLEAN /\ s.ackFin \in BOOLEAN /\ tcp \in PcbStates
    BY DEF TypeOK, Segments
  <2>3. tcp' \in {"SYN_RCVD", "ESTABLISHED", "CLOSE_WAIT"}
          <=> tcp \in {"SYN_RCVD", "ESTABLISHED", "CLOSE_WAIT"}
    BY <2>1, <2>2, ProcessedEnds
  <2>4. tcp' = "FREED" <=> tcp = "FREED"
    BY <2>1, <2>2, ProcessedFacts DEF Processed
  <2>5. todo' # {"free"} /\ todo = {"segment"}
    BY <1>8, BeforeSegment DEF ProcessSegment, Now, EntryOK, When
  <2> QED
    BY <2>1, <2>3, <2>4, <2>5
<1>9. CASE DelayedClose
  BY <1>9 DEF DelayedClose, Now, Before, EntryOK, Goroutines, TypeOK
<1>10. CASE FreePcb
  BY <1>10 DEF FreePcb, Goroutines, TypeOK
<1>11. CASE SkipCallback
  BY <1>11 DEF SkipCallback, EntryOK, Goroutines, TypeOK
<1>12. CASE ReceiveCheck
  <2>1. CASE state \in {"Connected", "WriteClosed"}
    <3>1. UNCHANGED <<todo, tcp, state, once, pc, left>>
      BY <1>12, <2>1 DEF ReceiveCheck
    <3> QED
      BY <3>1
  <2>2. CASE state = "Errored"
    <3>1. AbortInternal /\ UNCHANGED goVars
      BY <1>12, <2>2 DEF ReceiveCheck
    <3> QED
      BY <3>1, AbortEffect
  <2>3. CASE state \notin {"Connected", "WriteClosed", "Errored"}
    <3>1. KeepRefused /\ UNCHANGED <<tcp, connVars, goVars>>
      BY <1>12, <2>3 DEF ReceiveCheck
    <3>2. todo' = todo \ {"data", "fin"} /\ "data" \in todo
      BY <1>12, <3>1 DEF ReceiveCheck, Now, KeepRefused
    <3>3. todo # {"free"} /\ "free" \notin todo
      BY <3>2 DEF EntryOK
    <3> QED
      BY <3>1, <3>2, <3>3
  <2> QED
    BY <2>1, <2>2, <2>3
<1>13. CASE PipeDeliver
  BY <1>13 DEF PipeDeliver, Goto, EntryOK, Goroutines, TypeOK
<1>14. CASE PipeClosed
  BY <1>14 DEF PipeClosed, KeepRefused, EntryOK, Goroutines, TypeOK
<1>15. CASE SetLocalClosed
  BY <1>15 DEF SetLocalClosed, Broadcast, ClosingOrLater, AfterFin,
     Goroutines, TypeOK
<1>16. CASE IsClosed
  BY <1>16 DEF IsClosed, Goroutines, TypeOK
<1>17. CASE CheckClosing
  BY <1>17 DEF CheckClosing, CallbacksOff, Release, FinSent, Goroutines, TypeOK
<1>18. CASE CheckAborting
  <2>1. CASE state # "Aborting"
    <3>1. UNCHANGED <<todo, tcp, state, once, pc, left>>
      BY <1>18, <2>1 DEF CheckAborting
    <3> QED
      BY <3>1
  <2>2. CASE state = "Aborting"
    <3>1. AbortInternal /\ UNCHANGED goVars
      BY <1>18, <2>2 DEF CheckAborting
    <3> QED
      BY <3>1, AbortEffect
  <2> QED
    BY <2>1, <2>2
<1>19. CASE SignalWriter
  BY <1>19 DEF SignalWriter, Broadcast, Goroutines, TypeOK
<1>20. CASE Err
  BY <1>20 DEF Err, Release, Broadcast, Now, Before, EntryOK, ReleaseOK,
     Goroutines, TypeOK
<1>21. CASE StartRelay
  BY <1>21 DEF StartRelay, ReaderOK, EarlyOK, Goroutines, TypeOK
<1>22. CASE DialSucceeds
  BY <1>22 DEF DialSucceeds, Goto, Goroutines, TypeOK
<1>23. CASE DialFails
  BY <1>23 DEF DialFails, Abort, Goto, Goroutines, TypeOK
<1>24. CASE DialKick
  BY <1>24 DEF DialKick, Enter, Retry, When, EntryOK, Goroutines, TypeOK
<1>25. CASE AbortEnter("dial")
  BY <1>25 DEF AbortEnter, Enter, EntryOK, Goroutines, TypeOK
<1>26. CASE Read
  BY <1>26 DEF Read, Goto, Goroutines, TypeOK
<1>27. CASE ReadEnds
  BY <1>27 DEF ReadEnds, Goto, Goroutines, TypeOK
<1>28. CASE CloseRead
  BY <1>28 DEF CloseRead, ReaderCloses, Goto, Goroutines, TypeOK
<1>29. CASE Close("up")
  BY <1>29 DEF Close, ReaderCloses, Goto, Goroutines, TypeOK
<1>30. CASE CloseWrite("up")
  BY <1>30 DEF CloseWrite, ClosingOrLater, CloseWriteReturns, Goto,
     AfterCloseWrite, Goroutines, TypeOK
<1>31. CASE ShutdownTx("up")
  BY <1>31 DEF ShutdownTx, FinSent, CloseWriteReturns, Goto, Goroutines, TypeOK
<1>32. CASE WriteBegins
  BY <1>32 DEF WriteBegins, Goto, Goroutines, TypeOK
<1>33. CASE WriteCheck
  BY <1>33 DEF WriteCheck, Goto, EarlyOK, ConnStates, Goroutines, TypeOK
<1>34. CASE WriteEnqueue
  BY <1>34 DEF WriteEnqueue, Goto, Fits, EarlyOK, EntryOK, Goroutines, TypeOK
<1>35. CASE WriteWaits
  BY <1>35 DEF WriteWaits, Goto, Goroutines, TypeOK
<1>36. CASE Close("down")
  BY <1>36 DEF Close, ReaderCloses, Goto, Goroutines, TypeOK
<1>37. CASE CloseWrite("down")
  BY <1>37 DEF CloseWrite, ClosingOrLater, CloseWriteReturns, Goto,
     AfterCloseWrite, Goroutines, TypeOK
<1>38. CASE ShutdownTx("down")
  BY <1>38 DEF ShutdownTx, FinSent, CloseWriteReturns, Goto, Goroutines, TypeOK
<1>39. CASE StackClose
  BY <1>39 DEF StackClose, Abort, Goto, Goroutines, TypeOK
<1>40. CASE AbortEnter("stop")
  BY <1>40 DEF AbortEnter, Enter, EntryOK, Goroutines, TypeOK
<1>41. CASE UNCHANGED vars
  BY <1>41 DEF vars
<1> QED
  BY <1>1, <1>2, <1>3, <1>4, <1>5, <1>6, <1>7, <1>8, <1>9, <1>10, <1>11,
     <1>12, <1>13, <1>14, <1>15, <1>16, <1>17, <1>18, <1>19, <1>20, <1>21,
     <1>22, <1>23, <1>24, <1>25, <1>26, <1>27, <1>28, <1>29, <1>30, <1>31,
     <1>32, <1>33, <1>34, <1>35, <1>36, <1>37, <1>38, <1>39, <1>40, <1>41 DEF
     Next, Timers, LwipSteps, Dial, Up, Down, Stop, Finished

-----------------------------------------------------------------------------
(* The connection implements the writer's abstract stream.                 *)

\* A step that neither takes nor acknowledges anything, nor ends the stream, at
\* most tears it or, in DialSucceeds, hides that it was torn.
LEMMA WriterFrame ==
  ASSUME UNCHANGED <<wrote, left, sndq>>, EndedTcp' = EndedTcp
  PROVE  [Downlink!Next]_(Downlink!vars)
<1>1. CASE Torn' = Torn
  BY <1>1 DEF Downlink!vars, EndedTcp
<1>2. CASE Torn' = ~Torn
  BY <1>2 DEF Downlink!Next, Downlink!Disturb, EndedTcp
<1> QED
  BY <1>1, <1>2, Zenon DEF Torn

\* A step that frees the pcb.
LEMMA FreedFrame ==
  ASSUME UNCHANGED <<wrote, left>>, tcp' = "FREED", sndq' \in {0, sndq}
  PROVE  [Downlink!Next]_(Downlink!vars)
<1>1. Torn' /\ EndedTcp' /\ Torn' \in BOOLEAN /\ EndedTcp' \in BOOLEAN
  BY Zenon DEF Torn, EndedTcp
<1>2. Downlink!Destroy
  BY <1>1 DEF Downlink!Destroy, EndedTcp
<1> QED
  BY <1>2 DEF Downlink!Next

LEMMA WriterStreamInit == Init => Downlink!Init
  BY DEF Init, Downlink!Init, Torn, Goroutines

LEMMA WriterSimulation ==
  IInv /\ WriterOK /\ [Next]_vars => [Downlink!Next]_(Downlink!vars)
<1> SUFFICES ASSUME IInv, WriterOK, [Next]_vars
             PROVE  [Downlink!Next]_(Downlink!vars)
  OBVIOUS
<1> USE DEF connVars, goVars, counters, pcbVars, lwipVars
<1>1. CASE ProcessSegment
  <2>1. UNCHANGED <<wrote, left, state, once, pc>>
    BY <1>1 DEF ProcessSegment
  <2>2. /\ segment.fin \in BOOLEAN /\ segment.ackFin \in BOOLEAN
        /\ segment.ack \in Nat /\ segment.ack <= sndq /\ sndq \in Nat
        /\ tcp \in PcbStates
    BY <1>1, BoundsAssumption
    DEF ProcessSegment, Now, IInv, UnitsOK, TypeOK, Segments
  <2>3. \/ tcp' = tcp /\ sndq' = sndq
        \/ /\ tcp' = Processed(tcp, segment.fin, segment.ackFin)
           /\ sndq' = sndq - segment.ack
    BY <1>1 DEF ProcessSegment
  <2>4. EndedTcp' = EndedTcp
    BY <2>2, <2>3, ProcessedEnds DEF EndedTcp
  <2>5. tcp' = "FREED" <=> tcp = "FREED"
    BY <2>2, <2>3, ProcessedFacts DEF Processed
  <2>6. Torn' = Torn
    BY <2>1, <2>5 DEF Torn
  <2>7. CASE sndq' = sndq
    BY <2>1, <2>4, <2>7, WriterFrame
  <2>8. CASE sndq' < sndq
    BY <2>1, <2>4, <2>6, <2>8
    DEF Downlink!Next, Downlink!Acknowledge, EndedTcp
  <2> QED
    BY <2>2, <2>3, <2>7, <2>8
<1>2. CASE SlowTimerRemove \/ TimeWaitExpires \/ FreePcb
  BY <1>2, FreedFrame DEF SlowTimerRemove, TimeWaitExpires, FreePcb
<1>3. CASE ReceiveCheck \/ CheckAborting
  <2>1. UNCHANGED <<wrote, left>>
    BY <1>3 DEF ReceiveCheck, CheckAborting
  <2>2. AbortInternal \/ UNCHANGED <<tcp, sndq>>
    BY <1>3 DEF ReceiveCheck, CheckAborting
  <2>3. CASE AbortInternal
    BY <2>1, <2>3, AbortEffect, FreedFrame DEF IInv
  <2>4. CASE UNCHANGED <<tcp, sndq>>
    BY <2>1, <2>4, WriterFrame DEF EndedTcp
  <2> QED
    BY <2>2, <2>3, <2>4
<1>4. CASE CheckClosing
  <2>1. UNCHANGED <<wrote, left, sndq, once, pc>>
    BY <1>4 DEF CheckClosing
  <2>2. CASE UNCHANGED <<tcp, state>>
    BY <2>1, <2>2, WriterFrame DEF EndedTcp
  <2>3. CASE state = "Closing" /\ state' = "Closed" /\ tcp' = FinSent(tcp)
    <3>1. Torn' = Torn /\ (EndedTcp => EndedTcp')
      BY <2>1, <2>3 DEF Torn, FinSent, EndedTcp
    <3>2. todo # {"free"}
      BY <1>4 DEF CheckClosing, IInv, EntryOK
    <3>3. Torn \/ left = 0
      BY <2>3, <3>2 DEF Torn, WriterOK, Cut
    <3>4. CASE EndedTcp' = EndedTcp
      BY <2>1, <3>4, WriterFrame
    <3>5. CASE ~EndedTcp /\ EndedTcp'
      <4>1. EndedTcp' = TRUE /\ wrote - left = wrote - left
        BY <3>5, Zenon DEF EndedTcp
      <4>2. Torn \/ wrote - left = wrote
        BY <3>3 DEF IInv, TypeOK
      <4>3. Downlink!End
        BY <2>1, <3>1, <3>5, <4>1, <4>2 DEF Downlink!End, EndedTcp
      <4> QED
        BY <4>3 DEF Downlink!Next
    <3> QED
      BY <3>1, <3>4, <3>5, Zenon DEF EndedTcp
  <2> QED
    BY <1>4, <2>2, <2>3 DEF CheckClosing
<1>5. CASE \E g \in {"up", "down"} : ShutdownTx(g)
  <2> PICK g \in {"up", "down"} : ShutdownTx(g)
    BY <1>5
  <2>1. /\ UNCHANGED <<wrote, left, sndq, state>>
        /\ tcp' = FinSent(tcp) /\ pc[g] = "shutdown" /\ lwip = "free"
        /\ pc' = [pc EXCEPT ![g] = "done"]
        /\ once' = IF once = g THEN "done" ELSE once
    BY DEF ShutdownTx, CloseWriteReturns, Goto
  <2>2. todo # {"free"}
    BY <2>1 DEF IInv, EntryOK
  <2>3. Torn' = Torn /\ (EndedTcp => EndedTcp')
    <3>1. pc'["stop"] = pc["stop"] /\ (once' = "new" <=> once = "new")
      BY <2>1 DEF IInv, TypeOK, Goroutines
    <3>2. tcp' = "FREED" <=> tcp = "FREED"
      BY <2>1 DEF FinSent
    <3> QED
      BY <2>1, <3>1, <3>2 DEF Torn, FinSent, EndedTcp
  <2>4. Torn \/ left = 0
    BY <2>1, <2>2 DEF Torn, WriterOK, Cut, Past
  <2>5. CASE EndedTcp' = EndedTcp
    BY <2>1, <2>5, WriterFrame
  <2>6. CASE ~EndedTcp /\ EndedTcp'
    <3>1. EndedTcp' = TRUE
      BY <2>6, Zenon DEF EndedTcp
    <3>2. Torn \/ wrote - left = wrote
      BY <2>4 DEF IInv, TypeOK
    <3>3. Downlink!End
      BY <2>1, <2>3, <2>6, <3>1, <3>2 DEF Downlink!End, EndedTcp
    <3> QED
      BY <3>3 DEF Downlink!Next
  <2> QED
    BY <2>3, <2>5, <2>6, Zenon DEF EndedTcp
<1>6. CASE WriteBegins
  <2>1. PICK n \in 1..(MaxWrite - wrote) : wrote' = wrote + n /\ left' = n
    BY <1>6 DEF WriteBegins
  <2>2. /\ UNCHANGED <<sndq, tcp, state, once>> /\ pc["down"] = "idle"
        /\ pc' = [pc EXCEPT !["down"] = "check"]
    BY <1>6 DEF WriteBegins, Goto
  <2>3. Torn' = Torn /\ EndedTcp' = EndedTcp
    BY <2>2 DEF Torn, EndedTcp, IInv, TypeOK, Goroutines
  <2>4. left = 0 /\ (EndedTcp => Torn)
    BY <2>2 DEF WriterOK, Cut, Past, Torn
  <2>5. wrote' > wrote /\ wrote' - left' = wrote - left
    BY <2>1, <2>4, BoundsAssumption DEF IInv, TypeOK
  <2> QED
    BY <2>2, <2>3, <2>4, <2>5 DEF Downlink!Next, Downlink!Offer, EndedTcp
<1>7. CASE WriteEnqueue
  <2>1. /\ UNCHANGED <<wrote, tcp, state, once>>
        /\ pc'["stop"] = pc["stop"]
    BY <1>7, EnqueueEffect DEF WriteEnqueue, IInv, TypeOK, Goroutines
  <2>2. Torn' = Torn /\ EndedTcp' = EndedTcp
    BY <2>1 DEF Torn, EndedTcp
  <2>3. CASE UNCHANGED <<left, sndq>>
    BY <2>1, <2>2, <2>3, WriterFrame
  <2>4. CASE /\ tcp \in {"ESTABLISHED", "CLOSE_WAIT"} \/ Fits = 0
             /\ \E n \in {0, Fits} : sndq' = sndq + n /\ left' = left - n
             /\ ~UNCHANGED <<left, sndq>>
    <3>1. left \in Nat /\ wrote \in Nat /\ sndq \in Nat /\ sndq <= SndBuf
          /\ SndBuf \in Nat
      BY BoundsAssumption DEF IInv, TypeOK
    <3>2. Fits \in Nat /\ Fits <= left
      BY <3>1 DEF Fits
    <3>3. sndq' = sndq + Fits /\ left' = left - Fits /\ Fits # 0
      BY <2>4, <3>1, <3>2
    <3>4. /\ wrote - left < wrote' - left'
          /\ sndq' = sndq + ((wrote' - left') - (wrote - left))
      BY <2>1, <3>1, <3>2, <3>3
    <3>5. wrote' - left' <= wrote
      BY <2>1, <3>1, <3>2, <3>3
    <3>6. ~EndedTcp
      BY <2>4, <3>3 DEF EndedTcp
    <3> QED
      BY <2>1, <2>2, <3>4, <3>5, <3>6
      DEF Downlink!Next, Downlink!Take, EndedTcp
  <2> QED
    BY <1>7, <2>3, <2>4, EnqueueEffect DEF IInv
<1>8. CASE ~(\/ ProcessSegment \/ SlowTimerRemove \/ TimeWaitExpires \/ FreePcb
             \/ ReceiveCheck \/ CheckAborting \/ CheckClosing \/ WriteBegins
             \/ WriteEnqueue \/ \E g \in {"up", "down"} : ShutdownTx(g))
  <2>1. CASE Accept
    BY <2>1, WriterFrame DEF Accept, EndedTcp, IInv, EarlyOK
  <2>2. CASE ~Accept
    <3>1. UNCHANGED <<wrote, left, sndq, tcp>>
      BY <1>8, <2>2 DEF Next, Timers, LwipSteps, Dial, Up, Down, Stop, Finished,
         vars, Input, FastTimer, Poll, Leave, DelayedClose, SkipCallback,
         PipeDeliver, PipeClosed, SetLocalClosed, IsClosed, SignalWriter, Err,
         StartRelay, DialSucceeds, DialFails, DialKick, AbortEnter, Read,
         ReadEnds, CloseRead, Close, CloseWrite, WriteCheck, WriteWaits,
         StackClose, Abort
    <3> QED
      BY <3>1, WriterFrame DEF EndedTcp
  <2> QED
    BY <2>1, <2>2
<1> QED
  BY <1>1, <1>2, <1>3, <1>4, <1>5, <1>6, <1>7, <1>8

LEMMA WriterInit == Init => WriterOK
  BY DEF Init, WriterOK, Cut, EndedTcp, Past, Goroutines

LEMMA WriterInvariance == Spec => []WriterOK
  BY Invariance, WriterInit, WriterStep, PTL DEF Spec

\* What the peer gets of the handler's data is a run of the abstract stream: in
\* order, each unit once, and a FIN behind the last of them unless the
\* connection was closed in mid-stream, aborted or lost.
THEOREM WriterRefinement == Spec => DownlinkRefinement
  BY Invariance, WriterInvariance, WriterStreamInit, WriterSimulation, PTL
  DEF Spec, DownlinkRefinement, Downlink!Spec

-----------------------------------------------------------------------------
(* A writer that waits, when nothing goes wrong around the connection.     *)

\* Until the downlink half-closes, nothing ends the connection.
CalmOK ==
  /\ pc["up"] = "none" => pc["down"] = "none"
  /\ pc["down"] \notin Past =>
    /\ lwip # "stop" /\ once = "new" /\ pc["stop"] = "idle" /\ pc["dial"] #
      "abort"
    /\ pc["up"] \notin {"closeWrite", "shutdown"}
    /\ pc["down"] \notin {"over", "closeWrite"}
    /\ tcp \in {"SYN_RCVD", "ESTABLISHED", "CLOSE_WAIT"}
    /\ tcp = "SYN_RCVD" \/ registered
    /\ todo \cap {"err", "free", "abort", "closed"} = {}
    /\ state \in {"New", "Connecting", "Connected", "ReceiveClosed"}
    /\ got # "error" /\ segment.rst = FALSE

LEMMA CalmStep == Faults = {} /\ IInv /\ CalmOK /\ [Next]_vars => CalmOK'
<1> SUFFICES ASSUME Faults = {}, IInv, CalmOK, [Next]_vars PROVE CalmOK'
  OBVIOUS
<1> USE BoundsAssumption DEF IInv, lwipVars, pcbVars, connVars, goVars,
  counters, CalmOK, Past
<1>1. CASE Accept
  BY <1>1 DEF Accept, Goto, Enter, When, EarlyOK, NoSegment, Goroutines, TypeOK
<1>2. CASE Input
  <2>1. /\ UNCHANGED <<tcp, registered, state, once, pc, got>>
        /\ lwip' = "stack" /\ todo' \subseteq {"data", "fin", "segment"}
    BY <1>2 DEF Input, Enter, Retry, When
  <2>2. segment'.rst = FALSE
    <3>1. PICK s \in Segments \ {NoSegment} :
            /\ s.rst => "rst" \in Faults
            /\ segment' = s
      BY <1>2, Zenon DEF Input
    <3> QED
      BY <3>1 DEF Segments
  <2> QED
    BY <2>1, <2>2
<1>3. CASE FastTimer
  BY <1>3 DEF FastTimer, Enter, Retry, When, EntryOK, Goroutines, TypeOK
<1>4. CASE Poll
  BY <1>4 DEF Poll, Enter, EntryOK, Goroutines, TypeOK
<1>5. CASE SlowTimerRemove
  BY <1>5 DEF SlowTimerRemove, Enter, Goroutines, TypeOK
<1>6. CASE TimeWaitExpires
  BY <1>6 DEF TimeWaitExpires, Goroutines, TypeOK
<1>7. CASE Leave
  <2>1. /\ UNCHANGED <<tcp, todo, registered, state, once, got>>
        /\ lwip' = "free" /\ segment' = NoSegment
        /\ pc' = pc \/ (lwip \in Goroutines /\ pc' = [pc EXCEPT ![lwip] =
          "done"])
    BY <1>7 DEF Leave, Goto
  <2>2. lwip \notin {"up", "down"}
    BY DEF TypeOK, LwipThreads
  <2> QED
    BY <2>1, <2>2 DEF NoSegment, Goroutines, TypeOK
<1>8. CASE ProcessSegment
  <2> DEFINE s == segment
  <2>1. /\ UNCHANGED <<lwip, at, registered, state, once, pc, left, got>>
        /\ UNCHANGED segment
        /\ tcp' = tcp \/ tcp' = Processed(tcp, s.fin, s.ackFin)
    BY <1>8 DEF ProcessSegment
  <2>2. s.fin \in BOOLEAN /\ s.ackFin \in BOOLEAN /\ tcp \in PcbStates
    BY DEF TypeOK, Segments
  <2>3. tcp' \in {"SYN_RCVD", "ESTABLISHED", "CLOSE_WAIT"}
          <=> tcp \in {"SYN_RCVD", "ESTABLISHED", "CLOSE_WAIT"}
    BY <2>1, <2>2, ProcessedEnds
  <2>4. tcp' = "SYN_RCVD" <=> tcp = "SYN_RCVD"
    BY <2>1, <2>2 DEF Processed, PcbStates, Active
  <2>5. pc["down"] \notin Past => todo' \subseteq {"sent", "data", "fin"}
    BY <1>8 DEF ProcessSegment, When
  <2> QED
    BY <2>1, <2>3, <2>4, <2>5
<1>9. CASE DelayedClose
  BY <1>9 DEF DelayedClose, Now, Before, EntryOK, Goroutines, TypeOK
<1>10. CASE FreePcb
  BY <1>10 DEF FreePcb, Now, Goroutines, TypeOK
<1>11. CASE SkipCallback
  BY <1>11 DEF SkipCallback, EntryOK, Goroutines, TypeOK
<1>12. CASE ReceiveCheck
  <2>1. CASE state = "Errored"
    <3>1. UNCHANGED pc
      BY <1>12, <2>1 DEF ReceiveCheck
    <3> QED
      BY <2>1, <3>1
  <2>2. CASE state # "Errored"
    <3>1. UNCHANGED <<lwip, tcp, registered, state, once, pc, got, segment>>
      BY <1>12, <2>2 DEF ReceiveCheck
    <3>2. todo' \subseteq todo
      BY <1>12, <2>2 DEF ReceiveCheck, KeepRefused
    <3> QED
      BY <3>1, <3>2
  <2> QED
    BY <2>1, <2>2
<1>13. CASE PipeDeliver
  BY <1>13 DEF PipeDeliver, Goto, EntryOK, Goroutines, TypeOK
<1>14. CASE PipeClosed
  BY <1>14 DEF PipeClosed, KeepRefused, EntryOK, Goroutines, TypeOK
<1>15. CASE SetLocalClosed
  BY <1>15 DEF SetLocalClosed, Broadcast, ClosingOrLater, AfterFin,
     Goroutines, TypeOK
<1>16. CASE IsClosed
  BY <1>16 DEF IsClosed, Goroutines, TypeOK
<1>17. CASE CheckClosing
  BY <1>17 DEF CheckClosing, CallbacksOff, Release, FinSent, Goroutines, TypeOK
<1>18. CASE CheckAborting
  <2>1. CASE state # "Aborting"
    <3>1. UNCHANGED <<lwip, tcp, todo, registered, state, once, pc, got,
      segment>>
      BY <1>18, <2>1 DEF CheckAborting
    <3> QED
      BY <3>1
  <2>2. CASE state = "Aborting"
    <3>1. UNCHANGED pc
      BY <1>18, <2>2 DEF CheckAborting
    <3> QED
      BY <2>2, <3>1
  <2> QED
    BY <2>1, <2>2
<1>19. CASE SignalWriter
  BY <1>19 DEF SignalWriter, Broadcast, Goroutines, TypeOK
<1>20. CASE Err
  BY <1>20 DEF Err, Release, Broadcast, Now, Before, EntryOK, ReleaseOK,
     Goroutines, TypeOK
<1>21. CASE StartRelay
  BY <1>21 DEF StartRelay, ReaderOK, EarlyOK, Goroutines, TypeOK
<1>22. CASE DialSucceeds
  BY <1>22 DEF DialSucceeds, Goto, Goroutines, TypeOK
<1>23. CASE DialFails
  BY <1>23 DEF DialFails, Abort, Goto, Goroutines, TypeOK
<1>24. CASE DialKick
  BY <1>24 DEF DialKick, Enter, Retry, When, EntryOK, Goroutines, TypeOK
<1>25. CASE AbortEnter("dial")
  BY <1>25 DEF AbortEnter, Enter, EntryOK, Goroutines, TypeOK
<1>26. CASE Read
  BY <1>26 DEF Read, Goto, ClosingOrLater, Goroutines, TypeOK
<1>27. CASE ReadEnds
  BY <1>27 DEF ReadEnds, Goto, Goroutines, TypeOK
<1>28. CASE CloseRead
  BY <1>28 DEF CloseRead, ReaderCloses, Goto, Goroutines, TypeOK
<1>29. CASE Close("up")
  BY <1>29 DEF Close, ReaderCloses, Goto, Goroutines, TypeOK
<1>30. CASE CloseWrite("up")
  BY <1>30 DEF CloseWrite, ClosingOrLater, CloseWriteReturns, Goto,
     AfterCloseWrite, Goroutines, TypeOK
<1>31. CASE ShutdownTx("up")
  BY <1>31 DEF ShutdownTx, FinSent, CloseWriteReturns, Goto, Goroutines, TypeOK
<1>32. CASE WriteBegins
  BY <1>32 DEF WriteBegins, Goto, Goroutines, TypeOK
<1>33. CASE WriteCheck
  BY <1>33 DEF WriteCheck, Goto, EarlyOK, Goroutines, TypeOK
<1>34. CASE WriteEnqueue
  <2>1. /\ UNCHANGED <<lwip, tcp, todo, registered, state, once, got, segment>>
        /\ lwip = "free" /\ pc["down"] = "write"
    BY <1>34 DEF WriteEnqueue
  <2>2. tcp \in {"ESTABLISHED", "CLOSE_WAIT"}
    BY <2>1 DEF EarlyOK, Goroutines
  <2>3. pc' = [pc EXCEPT !["down"] = IF left' = 0 THEN "idle" ELSE "wait"]
    BY <1>34, <2>2, EnqueueEffect
  <2> QED
    BY <2>1, <2>3 DEF Goroutines, TypeOK
<1>35. CASE WriteWaits
  BY <1>35 DEF WriteWaits, Goto, Goroutines, TypeOK
<1>36. CASE Close("down")
  BY <1>36 DEF Close, ReaderCloses, Goto, Goroutines, TypeOK
<1>37. CASE CloseWrite("down")
  BY <1>37 DEF CloseWrite, ClosingOrLater, CloseWriteReturns, Goto,
     AfterCloseWrite, Goroutines, TypeOK
<1>38. CASE ShutdownTx("down")
  BY <1>38 DEF ShutdownTx, FinSent, CloseWriteReturns, Goto, Goroutines, TypeOK
<1>39. CASE StackClose
  BY <1>39 DEF StackClose, Abort, Goto, Goroutines, TypeOK
<1>40. CASE AbortEnter("stop")
  BY <1>40 DEF AbortEnter, Enter, EntryOK, Goroutines, TypeOK
<1>41. CASE UNCHANGED vars
  BY <1>41 DEF vars
<1> QED
  BY <1>1, <1>2, <1>3, <1>4, <1>5, <1>6, <1>7, <1>8, <1>9, <1>10, <1>11,
     <1>12, <1>13, <1>14, <1>15, <1>16, <1>17, <1>18, <1>19, <1>20, <1>21,
     <1>22, <1>23, <1>24, <1>25, <1>26, <1>27, <1>28, <1>29, <1>30, <1>31,
     <1>32, <1>33, <1>34, <1>35, <1>36, <1>37, <1>38, <1>39, <1>40, <1>41 DEF
     Next, Timers, LwipSteps, Dial, Up, Down, Stop, Finished

\* A writer that waits for buffer space can rely on the timers: without a fault
\* the pcb stays on lwIP's active list, and polls the connection, until the
\* downlink has written all and half-closes.
THEOREM WriterPolled ==
  ASSUME Faults = {}
  PROVE  Spec => []WaitingWriterIsPolled
<1>1. Init => CalmOK
  BY DEF Init, CalmOK, Past, NoSegment, Goroutines
<1>2. IInv /\ CalmOK /\ [Next]_vars => CalmOK'
  BY CalmStep
<1>3. IInv /\ CalmOK => WaitingWriterIsPolled
  BY DEF IInv, EarlyOK, CalmOK, Past, WaitingWriterIsPolled, Active, Goroutines
<1> QED
  BY Invariance, <1>1, <1>2, <1>3, PTL DEF Spec

=============================================================================
