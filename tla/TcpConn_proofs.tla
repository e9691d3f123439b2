--------------------------- MODULE TcpConn_proofs ---------------------------
(***************************************************************************)
(* What is proved of TcpConn for every MaxData, MaxWrite, SndBuf and every *)
(* set of faults.                                                          *)
(***************************************************************************)
EXTENDS TcpConn, TLAPS

\* Nothing happens to a connection before the handshake is complete.
EarlyOK ==
  /\ tcp = "SYN_RCVD" =>
       /\ lwip = "free" /\ ~registered /\ ~rxclosed /\ refused = "none"
       /\ state = "New" /\ ~inMap /\ rcvd = 0 /\ ~fin
       /\ pc = [g \in Goroutines |-> IF g = "stop" THEN "idle" ELSE "none"]
  /\ state = "New" => tcp = "SYN_RCVD"

\* The entry into lwIP in progress is one lwIP makes: what it has still to do
\* fits together, and a callback that waits is about what is still there.
EntryOK ==
  /\ lwip = "free" => todo = {} /\ at = "lwip" /\ connLock = "free"
  /\ at = "pipe" => "data" \in todo
  /\ at \in {"pipe", "localClosed"} => registered
  /\ at # "lwip" => todo \subseteq {"closed", "data", "fin", "segment"}
  /\ {"err", "free"} \cap todo # {} => todo \subseteq {"err", "free"}
  /\ "closed" \in todo => todo \subseteq {"sent", "closed"}
  /\ "segment" \in todo => todo \subseteq {"data", "fin", "segment"}
  /\ "poll" \in todo => todo = {"poll"}
  /\ "abort" \in todo => todo = {"abort"}
  /\ connLock # "free" => todo = {"err"} /\ at = "lwip" /\ registered

\* The segment still fits what the counters will be charged with it, and every
\* unit that is read, offered or refused was accepted before.
UnitsOK ==
  /\ "segment" \in todo => segment.ack <= sndq /\ rcvd + segment.len <= MaxData
  /\ "segment" \in todo /\ (segment.len = 1 \/ segment.fin) => tcp \in CanReceive
  /\ ~("data" \in todo /\ refused # "none")
  /\ read <= rcvd
  /\ "data" \in todo \/ refused # "none" => read + 1 <= rcvd

\* What a freed pcb, and a connection that was taken out of tcpConns, exclude.
ReleaseOK ==
  /\ tcp = "FREED" =>
       todo \subseteq {"err", "abort"} /\ at # "localClosed" /\ refused = "none"
  /\ todo = {"err"} => tcp = "FREED"
  /\ registered /\ state = "Closed" => tcp = "FREED"
  /\ registered /\ ~inMap => tcp = "FREED" \/ todo = {"free"}
  /\ registered /\ "err" \in todo => inMap \/ connLock # "free"

\* Units the connection was given and has not handed to its reader.
Held == IF "data" \in todo \/ refused # "none" THEN 1 ELSE 0

AllRead == fin /\ rcvd = read /\ refused = "none" /\ "data" \notin todo

\* The stream up to the reader: nothing is missing between lwIP and the pipe,
\* and who was told of the FIN was given everything before it.
StreamOK ==
  /\ fin => tcp \notin CanReceive
  /\ "fin" \in todo => fin /\ refused = "none"
  /\ refused = "data+fin" => fin
  /\ tcp \notin {"FREED", "TIME_WAIT"} => rcvd = read + Held
  /\ "data" \in todo \/ "fin" \in todo \/ refused # "none" => rcvd = read + Held
  /\ state \in {"ReceiveClosed", "Closing"} => AllRead
  /\ pipeR /\ ~pipeW => AllRead

\* What can excuse a loss: the reader left, or the connection is aborted.
Excused == ~pipeR \/ state = "Aborting" \/ pc["stop"] # "idle"

\* Who gave up reading, and what is lost when TIME_WAIT purges the pcb.
ReaderOK ==
  /\ state = "Connecting" => /\ tcp \in {"ESTABLISHED", "CLOSE_WAIT", "FREED"}
                             /\ pc["up"] # "shutdown" /\ pc["down"] # "shutdown"
  /\ state = "Aborting" /\ pc["stop"] = "idle" => pc["dial"] \in {"abort", "done"}
  /\ tcp \in {"CLOSING", "TIME_WAIT"} /\ "segment" \in todo /\ refused # "none" =>
       Excused
  /\ tcp = "TIME_WAIT" /\ rcvd # read + Held => Excused
  /\ state \in {"Closed", "Errored"} => ~pipeR
  /\ rxclosed /\ registered => ~pipeR
  /\ pc["up"] = "reading" => got = "more"

\* The inductive invariant.
IInv ==
  /\ TypeOK /\ EarlyOK /\ EntryOK /\ UnitsOK /\ ReleaseOK /\ StreamOK /\ ReaderOK
  /\ at # "panic"

-----------------------------------------------------------------------------
(* What the shared pieces do, where a Boolean hides it from the SMT solver. *)

LEMMA ReleaseEffect ==
  Release => /\ ~inMap' /\ ~pipeR' /\ ~pipeW'
         /\ inMap' \in BOOLEAN /\ pipeR' \in BOOLEAN /\ pipeW' \in BOOLEAN
  BY Zenon DEF Release

LEMMA ReaderClosesEffect == ReaderCloses => ~pipeR' /\ pipeR' \in BOOLEAN
  BY Zenon DEF ReaderCloses

LEMMA CallbacksOffEffect ==
  CallbacksOff => ~registered' /\ registered' \in BOOLEAN
  BY Zenon DEF CallbacksOff

\* However stale the pcb, abortInternal leaves it freed and at most its error
\* callback to be made, with conn.Mutex held.
LEMMA AbortEffect ==
  ASSUME TypeOK, AbortInternal
  PROVE  /\ tcp' = "FREED" /\ refused' = "none" /\ sndq' = 0
         /\ state' = "Closed" /\ at' = "lwip"
         /\ ~inMap' /\ ~pipeR' /\ ~pipeW'
         /\ inMap' \in BOOLEAN /\ pipeR' \in BOOLEAN /\ pipeW' \in BOOLEAN
         /\ \/ todo' = {} /\ connLock' = connLock
            \/ todo' = {"err"} /\ connLock' = lwip /\ registered
<1>1. PICK callsErr \in BOOLEAN :
        /\ todo' = When(callsErr, "err")
        /\ connLock' = IF callsErr THEN lwip ELSE connLock
        /\ callsErr => registered
  BY Zenon DEF AbortInternal, Abandons
<1> QED
  BY <1>1, ReleaseEffect DEF AbortInternal, When

LEMMA FinSentType == \A t \in PcbStates : FinSent(t) \in PcbStates
  BY DEF FinSent, PcbStates, Active

LEMMA BeforeSegment == Before("segment") = {"data", "fin"}
  BY DEF Before

LEMMA ProcessedFacts ==
  ASSUME NEW t \in PcbStates, NEW gotFin \in BOOLEAN, NEW ackFin \in BOOLEAN
  PROVE  /\ Processed(t, gotFin, ackFin) \in PcbStates
         /\ Processed(t, gotFin, ackFin) \in CanReceive => t \in CanReceive
         /\ gotFin => Processed(t, gotFin, ackFin) \notin CanReceive
         /\ Processed(t, gotFin, ackFin) = "TIME_WAIT" =>
              t \in {"TIME_WAIT", "CLOSING"} \/ gotFin
         /\ Processed(t, gotFin, ackFin) = "FREED" => t = "FREED"
         /\ t = "ESTABLISHED" =>
              Processed(t, gotFin, ackFin) \in {"ESTABLISHED", "CLOSE_WAIT"}
         /\ t \in {"CLOSE_WAIT", "TIME_WAIT", "FREED"} =>
              Processed(t, gotFin, ackFin) = t
  BY DEF Processed, PcbStates, Active, CanReceive

-----------------------------------------------------------------------------
(* The invariant is inductive: one lemma for each part of it, one step for  *)
(* each action.                                                             *)

\* Each step keeps the types; ProcessSegment and WriteEnqueue stay within
\* the bounds because the segment fits the send buffer and the peer's data.
LEMMA TypeStep == IInv /\ [Next]_vars => TypeOK'
<1> SUFFICES ASSUME IInv, [Next]_vars PROVE TypeOK'
  OBVIOUS
<1> USE BoundsAssumption DEF IInv, lwipVars, pcbVars, connVars, goVars, counters
<1>1. CASE Accept
  BY <1>1 DEF Accept, Enter, When, Goto, TypeOK, LwipThreads, Events,
     PcbStates, Active, ConnStates, Goroutines
<1>2. CASE Input
  BY <1>2 DEF Input, Enter, Retry, When, TypeOK, LwipThreads, Events
<1>3. CASE FastTimer
  BY <1>3 DEF FastTimer, Enter, Retry, When, TypeOK, LwipThreads, Events
<1>4. CASE Poll
  BY <1>4 DEF Poll, Enter, TypeOK, LwipThreads, Events
<1>5. CASE SlowTimerRemove
  BY <1>5 DEF SlowTimerRemove, Enter, TypeOK, LwipThreads, Events, PcbStates
<1>6. CASE TimeWaitExpires
  BY <1>6 DEF TimeWaitExpires, TypeOK, PcbStates
<1>7. CASE Leave
  BY <1>7 DEF Leave, NoSegment, Goroutines, Goto, TypeOK, Segments
<1>8. CASE ProcessSegment
  <2>1. fin' \in BOOLEAN
    BY <1>8, Zenon DEF ProcessSegment, TypeOK
  <2>2. tcp' \in PcbStates
    <3>1. Processed(tcp, segment.fin, segment.ackFin) \in PcbStates
      BY ProcessedFacts DEF TypeOK, Segments
    <3> QED
      BY <1>8, <3>1 DEF ProcessSegment, TypeOK
  <2> QED
    BY <1>8, <2>1, <2>2 DEF ProcessSegment, When, Now, UnitsOK, TypeOK,
       Segments, Events
<1>9. CASE DelayedClose
  BY <1>9 DEF DelayedClose, TypeOK, Events
<1>10. CASE FreePcb
  BY <1>10 DEF FreePcb, TypeOK, PcbStates
<1>11. CASE SkipCallback
  BY <1>11 DEF SkipCallback, TypeOK
<1>12. CASE ReceiveCheck
  <2>1. CASE state \in {"Connected", "WriteClosed"}
    <3>1. /\ at' = "pipe"
          /\ UNCHANGED <<lwip, todo, connLock, segment, pcbVars, connVars,
                         goVars, counters>>
      BY <1>12, <2>1 DEF ReceiveCheck
    <3> QED
      BY <1>12, <3>1 DEF ReceiveCheck, Now, TypeOK
  <2>2. CASE state = "Errored"
    <3>1. /\ AbortInternal
          /\ UNCHANGED <<lwip, segment, registered, rxclosed, goVars, counters>>
      BY <1>12, <2>2 DEF ReceiveCheck
    <3> QED
      BY <1>12, <3>1, AbortEffect DEF ReceiveCheck, Now, TypeOK, ConnStates,
         PcbStates, Events
  <2>3. CASE state \notin {"Connected", "WriteClosed", "Errored"}
    <3>1. rxclosed' \in BOOLEAN
      BY <1>12, <2>3, Zenon DEF ReceiveCheck
    <3>2. /\ KeepRefused
          /\ UNCHANGED <<lwip, at, connLock, segment, tcp, registered, sndq,
                         connVars, goVars, counters>>
      BY <1>12, <2>3 DEF ReceiveCheck
    <3> QED
      BY <1>12, <3>1, <3>2 DEF ReceiveCheck, Now, Before, KeepRefused, TypeOK,
         Events
  <2> QED
    BY <2>1, <2>2, <2>3
<1>13. CASE PipeDeliver
  BY <1>13 DEF PipeDeliver, Goto, TypeOK, Goroutines, UnitsOK, EntryOK
<1>14. CASE PipeClosed
  BY <1>14 DEF PipeClosed, KeepRefused, TypeOK
<1>15. CASE SetLocalClosed
  <2>1. pipeW' \in BOOLEAN
    BY <1>15, Zenon DEF SetLocalClosed, TypeOK
  <2> QED
    BY <1>15, <2>1 DEF SetLocalClosed, AfterFin, Broadcast, Now, TypeOK,
       Events, ClosingOrLater, ConnStates, Goroutines
<1>16. CASE IsClosed
  BY <1>16 DEF IsClosed, TypeOK
<1>17. CASE CheckClosing
  <2>1. CASE state # "Closing"
    BY <1>17, <2>1 DEF CheckClosing, TypeOK
  <2>2. CASE state = "Closing"
    BY <1>17, <2>2, ReleaseEffect, CallbacksOffEffect, FinSentType
     DEF CheckClosing, TypeOK, ConnStates
  <2> QED
    BY <2>1, <2>2
<1>18. CASE CheckAborting
  <2>1. CASE state # "Aborting"
    <3>1. /\ at' = "broadcast"
          /\ UNCHANGED <<lwip, todo, connLock, segment, pcbVars, connVars,
                         goVars, counters>>
      BY <1>18, <2>1 DEF CheckAborting
    <3> QED
      BY <1>18, <3>1 DEF CheckAborting, TypeOK
  <2>2. CASE state = "Aborting"
    <3>1. /\ AbortInternal
          /\ UNCHANGED <<lwip, segment, registered, rxclosed, goVars, counters>>
      BY <1>18, <2>2 DEF CheckAborting
    <3> QED
      BY <1>18, <3>1, AbortEffect DEF CheckAborting, TypeOK, ConnStates,
         PcbStates, Events
  <2> QED
    BY <2>1, <2>2
<1>19. CASE SignalWriter
  BY <1>19 DEF SignalWriter, Broadcast, TypeOK, Goroutines
<1>20. CASE Err
  BY <1>20, ReleaseEffect DEF Err, Broadcast, TypeOK, ConnStates, Goroutines
<1>21. CASE StartRelay
  BY <1>21 DEF StartRelay, TypeOK, Goroutines
<1>22. CASE DialSucceeds
  BY <1>22 DEF DialSucceeds, Goto, TypeOK, ConnStates, Goroutines
<1>23. CASE DialFails
  BY <1>23 DEF DialFails, Abort, Goto, TypeOK, ConnStates, Goroutines
<1>24. CASE DialKick
  BY <1>24 DEF DialKick, Enter, Retry, When, TypeOK, LwipThreads, Events
<1>25. CASE AbortEnter("dial")
  BY <1>25 DEF AbortEnter, Enter, TypeOK, LwipThreads, Events
<1>26. CASE Read
  BY <1>26 DEF Read, Goto, TypeOK, Goroutines
<1>27. CASE ReadEnds
  BY <1>27 DEF ReadEnds, Goto, TypeOK, Goroutines
<1>28. CASE CloseRead
  BY <1>28, ReaderClosesEffect DEF CloseRead, Goto, TypeOK, Goroutines
<1>29. CASE Close("up")
  BY <1>29, ReaderClosesEffect DEF Close, Goto, TypeOK, Goroutines
<1>30. CASE CloseWrite("up")
  BY <1>30 DEF CloseWrite, CloseWriteReturns, Goto, AfterCloseWrite, TypeOK,
     ConnStates, Goroutines
<1>31. CASE ShutdownTx("up")
  BY <1>31 DEF ShutdownTx, FinSent, CloseWriteReturns, Goto, TypeOK, PcbStates,
     Active, Goroutines
<1>32. CASE WriteBegins
  BY <1>32 DEF WriteBegins, Goto, TypeOK, Goroutines
<1>33. CASE WriteCheck
  BY <1>33 DEF WriteCheck, Goto, TypeOK, Goroutines
<1>34. CASE WriteEnqueue
  BY <1>34 DEF WriteEnqueue, Fits, Goto, TypeOK, Goroutines
<1>35. CASE WriteWaits
  BY <1>35 DEF WriteWaits, Goto, TypeOK, Goroutines
<1>36. CASE Close("down")
  BY <1>36, ReaderClosesEffect DEF Close, Goto, TypeOK, Goroutines
<1>37. CASE CloseWrite("down")
  BY <1>37 DEF CloseWrite, CloseWriteReturns, Goto, AfterCloseWrite, TypeOK,
     ConnStates, Goroutines
<1>38. CASE ShutdownTx("down")
  BY <1>38 DEF ShutdownTx, FinSent, CloseWriteReturns, Goto, TypeOK, PcbStates,
     Active, Goroutines
<1>39. CASE StackClose
  BY <1>39 DEF StackClose, Abort, Goto, TypeOK, ConnStates, Goroutines
<1>40. CASE AbortEnter("stop")
  BY <1>40 DEF AbortEnter, Enter, TypeOK, LwipThreads, Events
<1>41. CASE UNCHANGED vars
  BY <1>41 DEF vars, TypeOK
<1> QED
  BY <1>1, <1>2, <1>3, <1>4, <1>5, <1>6, <1>7, <1>8, <1>9, <1>10, <1>11,
     <1>12, <1>13, <1>14, <1>15, <1>16, <1>17, <1>18, <1>19, <1>20, <1>21,
     <1>22, <1>23, <1>24, <1>25, <1>26, <1>27, <1>28, <1>29, <1>30, <1>31,
     <1>32, <1>33, <1>34, <1>35, <1>36, <1>37, <1>38, <1>39, <1>40, <1>41 DEF
     Next, Timers, LwipSteps, Dial, Up, Down, Stop, Finished

\* Only Accept ends the time before the handshake, and no step but it and
\* those of an accepted connection can be taken before.
LEMMA EarlyStep == IInv /\ [Next]_vars => EarlyOK'
<1> SUFFICES ASSUME IInv, [Next]_vars PROVE EarlyOK'
  OBVIOUS
<1> USE BoundsAssumption DEF IInv, lwipVars, pcbVars, connVars, goVars, counters
<1>1. CASE Accept
  BY <1>1 DEF Accept, EarlyOK
<1>2. CASE Input
  BY <1>2 DEF Input, Active, EarlyOK
<1>3. CASE FastTimer
  BY <1>3 DEF FastTimer, EarlyOK
<1>4. CASE Poll
  BY <1>4 DEF Poll, EarlyOK
<1>5. CASE SlowTimerRemove
  BY <1>5 DEF SlowTimerRemove, FinUnacked, Active, EarlyOK
<1>6. CASE TimeWaitExpires
  BY <1>6 DEF TimeWaitExpires, EarlyOK
<1>7. CASE Leave
  BY <1>7 DEF Leave, EarlyOK
<1>8. CASE ProcessSegment
  BY <1>8 DEF ProcessSegment, Now, Processed, EarlyOK, EntryOK
<1>9. CASE DelayedClose
  BY <1>9 DEF DelayedClose, EarlyOK
<1>10. CASE FreePcb
  BY <1>10 DEF FreePcb, Now, EarlyOK, EntryOK
<1>11. CASE SkipCallback
  BY <1>11 DEF SkipCallback, EarlyOK
<1>12. CASE ReceiveCheck
  <2>1. CASE state \in {"Connected", "WriteClosed"}
    <3>1. /\ at' = "pipe"
          /\ UNCHANGED <<lwip, todo, connLock, segment, pcbVars, connVars,
                         goVars, counters>>
      BY <1>12, <2>1 DEF ReceiveCheck
    <3> QED
      BY <1>12, <3>1 DEF ReceiveCheck, Now, EarlyOK, EntryOK
  <2>2. CASE state = "Errored"
    <3>1. /\ AbortInternal
          /\ UNCHANGED <<lwip, segment, registered, rxclosed, goVars, counters>>
      BY <1>12, <2>2 DEF ReceiveCheck
    <3> QED
      BY <1>12, <3>1, AbortEffect DEF ReceiveCheck, Now, EarlyOK, TypeOK,
         ReleaseOK, EntryOK
  <2>3. CASE state \notin {"Connected", "WriteClosed", "Errored"}
    <3>1. rxclosed' \in BOOLEAN
      BY <1>12, <2>3, Zenon DEF ReceiveCheck
    <3>2. /\ KeepRefused
          /\ UNCHANGED <<lwip, at, connLock, segment, tcp, registered, sndq,
                         connVars, goVars, counters>>
      BY <1>12, <2>3 DEF ReceiveCheck
    <3> QED
      BY <1>12, <3>1, <3>2 DEF ReceiveCheck, Now, Before, KeepRefused, EarlyOK,
         EntryOK
  <2> QED
    BY <2>1, <2>2, <2>3
<1>13. CASE PipeDeliver
  BY <1>13 DEF PipeDeliver, Goto, EarlyOK
<1>14. CASE PipeClosed
  BY <1>14 DEF PipeClosed, KeepRefused, EarlyOK, EntryOK
<1>15. CASE SetLocalClosed
  BY <1>15 DEF SetLocalClosed, AfterFin, EarlyOK
<1>16. CASE IsClosed
  BY <1>16 DEF IsClosed, EarlyOK
<1>17. CASE CheckClosing
  BY <1>17 DEF CheckClosing, CallbacksOff, Release, FinSent, EarlyOK
<1>18. CASE CheckAborting
  <2>1. CASE state # "Aborting"
    <3>1. /\ at' = "broadcast"
          /\ UNCHANGED <<lwip, todo, connLock, segment, pcbVars, connVars,
                         goVars, counters>>
      BY <1>18, <2>1 DEF CheckAborting
    <3> QED
      BY <1>18, <3>1 DEF CheckAborting, EarlyOK, EntryOK
  <2>2. CASE state = "Aborting"
    <3>1. /\ AbortInternal
          /\ UNCHANGED <<lwip, segment, registered, rxclosed, goVars, counters>>
      BY <1>18, <2>2 DEF CheckAborting
    <3> QED
      BY <1>18, <3>1, AbortEffect DEF CheckAborting, EarlyOK, EntryOK, TypeOK
  <2> QED
    BY <2>1, <2>2
<1>19. CASE SignalWriter
  BY <1>19 DEF SignalWriter, Broadcast, EarlyOK
<1>20. CASE Err
  BY <1>20 DEF Err, Release, EarlyOK
<1>21. CASE StartRelay
  BY <1>21 DEF StartRelay, EarlyOK, Goroutines
<1>22. CASE DialSucceeds
  BY <1>22 DEF DialSucceeds, EarlyOK, Goroutines
<1>23. CASE DialFails
  BY <1>23 DEF DialFails, Abort, EarlyOK, Goroutines
<1>24. CASE DialKick
  BY <1>24 DEF DialKick, EarlyOK, Goroutines
<1>25. CASE AbortEnter("dial")
  BY <1>25 DEF AbortEnter, EarlyOK, Goroutines
<1>26. CASE Read
  BY <1>26 DEF Read, Goto, EarlyOK
<1>27. CASE ReadEnds
  BY <1>27 DEF ReadEnds, Goto, EarlyOK
<1>28. CASE CloseRead
  BY <1>28 DEF CloseRead, ReaderCloses, Goto, EarlyOK
<1>29. CASE Close("up")
  BY <1>29 DEF Close, ReaderCloses, Goto, EarlyOK
<1>30. CASE CloseWrite("up")
  BY <1>30 DEF CloseWrite, AfterCloseWrite, EarlyOK, Goroutines
<1>31. CASE ShutdownTx("up")
  BY <1>31 DEF ShutdownTx, FinSent, CloseWriteReturns, Goto, EarlyOK
<1>32. CASE WriteBegins
  BY <1>32 DEF WriteBegins, Goto, EarlyOK
<1>33. CASE WriteCheck
  BY <1>33 DEF WriteCheck, Goto, EarlyOK
<1>34. CASE WriteEnqueue
  BY <1>34 DEF WriteEnqueue, Goto, EarlyOK
<1>35. CASE WriteWaits
  BY <1>35 DEF WriteWaits, Goto, EarlyOK
<1>36. CASE Close("down")
  BY <1>36 DEF Close, ReaderCloses, Goto, EarlyOK
<1>37. CASE CloseWrite("down")
  BY <1>37 DEF CloseWrite, AfterCloseWrite, EarlyOK, Goroutines
<1>38. CASE ShutdownTx("down")
  BY <1>38 DEF ShutdownTx, FinSent, CloseWriteReturns, Goto, EarlyOK
<1>39. CASE StackClose
  BY <1>39 DEF StackClose, Abort, EarlyOK
<1>40. CASE AbortEnter("stop")
  BY <1>40 DEF AbortEnter, EarlyOK, Goroutines
<1>41. CASE UNCHANGED vars
  BY <1>41 DEF vars, EarlyOK
<1> QED
  BY <1>1, <1>2, <1>3, <1>4, <1>5, <1>6, <1>7, <1>8, <1>9, <1>10, <1>11,
     <1>12, <1>13, <1>14, <1>15, <1>16, <1>17, <1>18, <1>19, <1>20, <1>21,
     <1>22, <1>23, <1>24, <1>25, <1>26, <1>27, <1>28, <1>29, <1>30, <1>31,
     <1>32, <1>33, <1>34, <1>35, <1>36, <1>37, <1>38, <1>39, <1>40, <1>41 DEF
     Next, Timers, LwipSteps, Dial, Up, Down, Stop, Finished

\* What an entry into lwIP has to do stays one of the combinations that
\* tcp_input, the timers and Abort can produce.
LEMMA EntryStep == IInv /\ [Next]_vars => EntryOK'
<1> SUFFICES ASSUME IInv, [Next]_vars PROVE EntryOK'
  OBVIOUS
<1> USE BoundsAssumption DEF IInv, lwipVars, pcbVars, connVars, goVars, counters
<1>1. CASE Accept
  BY <1>1 DEF Accept, Enter, When, EntryOK
<1>2. CASE Input
  BY <1>2 DEF Input, Enter, Retry, When, EntryOK
<1>3. CASE FastTimer
  BY <1>3 DEF FastTimer, Enter, Retry, When, EntryOK
<1>4. CASE Poll
  BY <1>4 DEF Poll, Enter, EntryOK
<1>5. CASE SlowTimerRemove
  BY <1>5 DEF SlowTimerRemove, Enter, EntryOK
<1>6. CASE TimeWaitExpires
  BY <1>6 DEF TimeWaitExpires, EntryOK
<1>7. CASE Leave
  BY <1>7 DEF Leave, EntryOK
<1>8. CASE ProcessSegment
  <2>1. /\ \/ todo' = {}
           \/ todo' = {"err", "free"}
           \/ /\ todo' \subseteq {"sent", "closed", "data", "fin"}
              /\ "closed" \in todo' => tcp = "LAST_ACK"
              /\ "data" \in todo' => segment.len = 1
              /\ "fin" \in todo' => segment.fin
        /\ UNCHANGED <<lwip, at, connLock, registered>>
    BY <1>8 DEF ProcessSegment, When, TypeOK, Segments
  <2> QED
    BY <1>8, <2>1 DEF ProcessSegment, Now, EntryOK, UnitsOK, CanReceive
<1>9. CASE DelayedClose
  BY <1>9 DEF DelayedClose, Now, EntryOK
<1>10. CASE FreePcb
  BY <1>10 DEF FreePcb, Now, EntryOK
<1>11. CASE SkipCallback
  BY <1>11 DEF SkipCallback, EntryOK
<1>12. CASE ReceiveCheck
  <2>1. CASE state \in {"Connected", "WriteClosed"}
    <3>1. /\ at' = "pipe"
          /\ UNCHANGED <<lwip, todo, connLock, segment, pcbVars, connVars,
                         goVars, counters>>
      BY <1>12, <2>1 DEF ReceiveCheck
    <3> QED
      BY <1>12, <3>1 DEF ReceiveCheck, Now, Before, EntryOK, TypeOK, Events
  <2>2. CASE state = "Errored"
    <3>1. /\ AbortInternal
          /\ UNCHANGED <<lwip, segment, registered, rxclosed, goVars, counters>>
      BY <1>12, <2>2 DEF ReceiveCheck
    <3> QED
      BY <1>12, <3>1, AbortEffect DEF ReceiveCheck, Now, EntryOK, TypeOK
  <2>3. CASE state \notin {"Connected", "WriteClosed", "Errored"}
    <3>1. rxclosed' \in BOOLEAN
      BY <1>12, <2>3, Zenon DEF ReceiveCheck
    <3>2. /\ KeepRefused
          /\ UNCHANGED <<lwip, at, connLock, segment, tcp, registered, sndq,
                         connVars, goVars, counters>>
      BY <1>12, <2>3 DEF ReceiveCheck
    <3> QED
      BY <1>12, <3>1, <3>2 DEF ReceiveCheck, Now, Before, KeepRefused, EntryOK
  <2> QED
    BY <2>1, <2>2, <2>3
<1>13. CASE PipeDeliver
  BY <1>13 DEF PipeDeliver, EntryOK
<1>14. CASE PipeClosed
  BY <1>14 DEF PipeClosed, KeepRefused, EntryOK
<1>15. CASE SetLocalClosed
  BY <1>15 DEF SetLocalClosed, Now, Before, EntryOK, TypeOK, Events
<1>16. CASE IsClosed
  BY <1>16 DEF IsClosed, Now, EntryOK, TypeOK, Events
<1>17. CASE CheckClosing
  BY <1>17 DEF CheckClosing, CallbacksOff, Release, EntryOK
<1>18. CASE CheckAborting
  <2>1. CASE state # "Aborting"
    <3>1. /\ at' = "broadcast"
          /\ UNCHANGED <<lwip, todo, connLock, segment, pcbVars, connVars,
                         goVars, counters>>
      BY <1>18, <2>1 DEF CheckAborting
    <3> QED
      BY <1>18, <3>1 DEF CheckAborting, EntryOK
  <2>2. CASE state = "Aborting"
    <3>1. /\ AbortInternal
          /\ UNCHANGED <<lwip, segment, registered, rxclosed, goVars, counters>>
      BY <1>18, <2>2 DEF CheckAborting
    <3> QED
      BY <1>18, <3>1, AbortEffect DEF CheckAborting, EntryOK, TypeOK
  <2> QED
    BY <2>1, <2>2
<1>19. CASE SignalWriter
  BY <1>19 DEF SignalWriter, EntryOK
<1>20. CASE Err
  BY <1>20 DEF Err, Release, EntryOK
<1>21. CASE StartRelay
  BY <1>21 DEF StartRelay, EntryOK
<1>22. CASE DialSucceeds
  BY <1>22 DEF DialSucceeds, EntryOK
<1>23. CASE DialFails
  BY <1>23 DEF DialFails, Abort, EntryOK
<1>24. CASE DialKick
  BY <1>24 DEF DialKick, Enter, Retry, When, EntryOK
<1>25. CASE AbortEnter("dial")
  BY <1>25 DEF AbortEnter, Enter, EntryOK
<1>26. CASE Read
  BY <1>26 DEF Read, EntryOK
<1>27. CASE ReadEnds
  BY <1>27 DEF ReadEnds, EntryOK
<1>28. CASE CloseRead
  BY <1>28 DEF CloseRead, ReaderCloses, EntryOK
<1>29. CASE Close("up")
  BY <1>29 DEF Close, ReaderCloses, EntryOK
<1>30. CASE CloseWrite("up")
  BY <1>30 DEF CloseWrite, EntryOK
<1>31. CASE ShutdownTx("up")
  BY <1>31 DEF ShutdownTx, EntryOK
<1>32. CASE WriteBegins
  BY <1>32 DEF WriteBegins, EntryOK
<1>33. CASE WriteCheck
  BY <1>33 DEF WriteCheck, EntryOK
<1>34. CASE WriteEnqueue
  BY <1>34 DEF WriteEnqueue, EntryOK
<1>35. CASE WriteWaits
  BY <1>35 DEF WriteWaits, EntryOK
<1>36. CASE Close("down")
  BY <1>36 DEF Close, ReaderCloses, EntryOK
<1>37. CASE CloseWrite("down")
  BY <1>37 DEF CloseWrite, EntryOK
<1>38. CASE ShutdownTx("down")
  BY <1>38 DEF ShutdownTx, EntryOK
<1>39. CASE StackClose
  BY <1>39 DEF StackClose, Abort, EntryOK
<1>40. CASE AbortEnter("stop")
  BY <1>40 DEF AbortEnter, Enter, EntryOK
<1>41. CASE UNCHANGED vars
  BY <1>41 DEF vars, EntryOK
<1> QED
  BY <1>1, <1>2, <1>3, <1>4, <1>5, <1>6, <1>7, <1>8, <1>9, <1>10, <1>11,
     <1>12, <1>13, <1>14, <1>15, <1>16, <1>17, <1>18, <1>19, <1>20, <1>21,
     <1>22, <1>23, <1>24, <1>25, <1>26, <1>27, <1>28, <1>29, <1>30, <1>31,
     <1>32, <1>33, <1>34, <1>35, <1>36, <1>37, <1>38, <1>39, <1>40, <1>41 DEF
     Next, Timers, LwipSteps, Dial, Up, Down, Stop, Finished

\* No step charges a counter twice for one unit, and nothing touches the
\* segment or the counters while tcp_input is working on it.
LEMMA UnitsStep == IInv /\ [Next]_vars => UnitsOK'
<1> SUFFICES ASSUME IInv, [Next]_vars PROVE UnitsOK'
  OBVIOUS
<1> USE BoundsAssumption DEF IInv, lwipVars, pcbVars, connVars, goVars, counters
<1>1. CASE Accept
  <2>1. PICK len \in {0, 1} :
          /\ rcvd' = rcvd + len
          /\ todo' = When(len = 1, "data") \cup When(fin', "fin")
    BY <1>1 DEF Accept, Enter
  <2> QED
    BY <1>1, <2>1 DEF Accept, Enter, When, EarlyOK, UnitsOK, EntryOK, TypeOK
<1>2. CASE Input
  BY <1>2 DEF Input, Enter, Retry, When, UnitsOK
<1>3. CASE FastTimer
  BY <1>3 DEF FastTimer, Enter, Retry, When, UnitsOK
<1>4. CASE Poll
  BY <1>4 DEF Poll, Enter, UnitsOK
<1>5. CASE SlowTimerRemove
  BY <1>5 DEF SlowTimerRemove, Enter, UnitsOK
<1>6. CASE TimeWaitExpires
  BY <1>6 DEF TimeWaitExpires, UnitsOK, CanReceive
<1>7. CASE Leave
  BY <1>7 DEF Leave, UnitsOK
<1>8. CASE ProcessSegment
  BY <1>8 DEF ProcessSegment, When, UnitsOK, TypeOK, Segments
<1>9. CASE DelayedClose
  BY <1>9 DEF DelayedClose, UnitsOK
<1>10. CASE FreePcb
  BY <1>10 DEF FreePcb, UnitsOK
<1>11. CASE SkipCallback
  BY <1>11 DEF SkipCallback, UnitsOK
<1>12. CASE ReceiveCheck
  <2>1. CASE state \in {"Connected", "WriteClosed"}
    <3>1. /\ at' = "pipe"
          /\ UNCHANGED <<lwip, todo, connLock, segment, pcbVars, connVars,
                         goVars, counters>>
      BY <1>12, <2>1 DEF ReceiveCheck
    <3> QED
      BY <1>12, <3>1 DEF ReceiveCheck, Now, UnitsOK
  <2>2. CASE state = "Errored"
    <3>1. /\ AbortInternal
          /\ UNCHANGED <<lwip, segment, registered, rxclosed, goVars, counters>>
      BY <1>12, <2>2 DEF ReceiveCheck
    <3> QED
      BY <1>12, <3>1, AbortEffect DEF ReceiveCheck, Now, UnitsOK, TypeOK
  <2>3. CASE state \notin {"Connected", "WriteClosed", "Errored"}
    <3>1. rxclosed' \in BOOLEAN
      BY <1>12, <2>3, Zenon DEF ReceiveCheck
    <3>2. /\ KeepRefused
          /\ UNCHANGED <<lwip, at, connLock, segment, tcp, registered, sndq,
                         connVars, goVars, counters>>
      BY <1>12, <2>3 DEF ReceiveCheck
    <3> QED
      BY <1>12, <3>1, <3>2 DEF ReceiveCheck, Now, Before, KeepRefused, EarlyOK,
         UnitsOK, EntryOK, TypeOK
  <2> QED
    BY <2>1, <2>2, <2>3
<1>13. CASE PipeDeliver
  BY <1>13 DEF PipeDeliver, UnitsOK, EntryOK
<1>14. CASE PipeClosed
  BY <1>14 DEF PipeClosed, KeepRefused, UnitsOK, EntryOK
<1>15. CASE SetLocalClosed
  BY <1>15 DEF SetLocalClosed, UnitsOK
<1>16. CASE IsClosed
  BY <1>16 DEF IsClosed, UnitsOK
<1>17. CASE CheckClosing
  BY <1>17 DEF CheckClosing, CallbacksOff, Release, FinSent, UnitsOK,
     CanReceive
<1>18. CASE CheckAborting
  <2>1. CASE state # "Aborting"
    <3>1. /\ at' = "broadcast"
          /\ UNCHANGED <<lwip, todo, connLock, segment, pcbVars, connVars,
                         goVars, counters>>
      BY <1>18, <2>1 DEF CheckAborting
    <3> QED
      BY <1>18, <3>1 DEF CheckAborting, UnitsOK
  <2>2. CASE state = "Aborting"
    <3>1. /\ AbortInternal
          /\ UNCHANGED <<lwip, segment, registered, rxclosed, goVars, counters>>
      BY <1>18, <2>2 DEF CheckAborting
    <3> QED
      BY <1>18, <3>1, AbortEffect DEF CheckAborting, UnitsOK, TypeOK
  <2> QED
    BY <2>1, <2>2
<1>19. CASE SignalWriter
  BY <1>19 DEF SignalWriter, UnitsOK
<1>20. CASE Err
  BY <1>20 DEF Err, Release, UnitsOK
<1>21. CASE StartRelay
  BY <1>21 DEF StartRelay, UnitsOK
<1>22. CASE DialSucceeds
  BY <1>22 DEF DialSucceeds, UnitsOK
<1>23. CASE DialFails
  BY <1>23 DEF DialFails, Abort, UnitsOK
<1>24. CASE DialKick
  BY <1>24 DEF DialKick, Enter, Retry, When, UnitsOK
<1>25. CASE AbortEnter("dial")
  BY <1>25 DEF AbortEnter, Enter, UnitsOK
<1>26. CASE Read
  BY <1>26 DEF Read, UnitsOK
<1>27. CASE ReadEnds
  BY <1>27 DEF ReadEnds, UnitsOK
<1>28. CASE CloseRead
  BY <1>28 DEF CloseRead, ReaderCloses, UnitsOK
<1>29. CASE Close("up")
  BY <1>29 DEF Close, ReaderCloses, UnitsOK
<1>30. CASE CloseWrite("up")
  BY <1>30 DEF CloseWrite, UnitsOK
<1>31. CASE ShutdownTx("up")
  BY <1>31 DEF ShutdownTx, FinSent, UnitsOK, CanReceive
<1>32. CASE WriteBegins
  BY <1>32 DEF WriteBegins, UnitsOK
<1>33. CASE WriteCheck
  BY <1>33 DEF WriteCheck, UnitsOK
<1>34. CASE WriteEnqueue
  BY <1>34 DEF WriteEnqueue, UnitsOK, EntryOK
<1>35. CASE WriteWaits
  BY <1>35 DEF WriteWaits, UnitsOK
<1>36. CASE Close("down")
  BY <1>36 DEF Close, ReaderCloses, UnitsOK
<1>37. CASE CloseWrite("down")
  BY <1>37 DEF CloseWrite, UnitsOK
<1>38. CASE ShutdownTx("down")
  BY <1>38 DEF ShutdownTx, FinSent, UnitsOK, CanReceive
<1>39. CASE StackClose
  BY <1>39 DEF StackClose, Abort, UnitsOK
<1>40. CASE AbortEnter("stop")
  BY <1>40 DEF AbortEnter, Enter, UnitsOK
<1>41. CASE UNCHANGED vars
  BY <1>41 DEF vars, UnitsOK
<1> QED
  BY <1>1, <1>2, <1>3, <1>4, <1>5, <1>6, <1>7, <1>8, <1>9, <1>10, <1>11,
     <1>12, <1>13, <1>14, <1>15, <1>16, <1>17, <1>18, <1>19, <1>20, <1>21,
     <1>22, <1>23, <1>24, <1>25, <1>26, <1>27, <1>28, <1>29, <1>30, <1>31,
     <1>32, <1>33, <1>34, <1>35, <1>36, <1>37, <1>38, <1>39, <1>40, <1>41 DEF
     Next, Timers, LwipSteps, Dial, Up, Down, Stop, Finished

\* A step that frees the pcb or takes the connection out of tcpConns leaves
\* nothing for lwIP to do but the callbacks it still owes; and so no callback
\* panics.
LEMMA ReleaseStep == IInv /\ [Next]_vars => ReleaseOK' /\ at' # "panic"
<1> SUFFICES ASSUME IInv, [Next]_vars PROVE ReleaseOK' /\ at' # "panic"
  OBVIOUS
<1> USE BoundsAssumption DEF IInv, lwipVars, pcbVars, connVars, goVars, counters
<1>1. CASE Accept
  BY <1>1 DEF Accept, Enter, When, ReleaseOK
<1>2. CASE Input
  BY <1>2 DEF Input, Active, Enter, EntryOK, ReleaseOK
<1>3. CASE FastTimer
  BY <1>3 DEF FastTimer, Enter, Retry, When, EntryOK, ReleaseOK
<1>4. CASE Poll
  BY <1>4 DEF Poll, Active, Enter, EntryOK, ReleaseOK
<1>5. CASE SlowTimerRemove
  BY <1>5 DEF SlowTimerRemove, FinUnacked, Active, Enter, EntryOK, ReleaseOK
<1>6. CASE TimeWaitExpires
  BY <1>6 DEF TimeWaitExpires, EntryOK, ReleaseOK
<1>7. CASE Leave
  BY <1>7 DEF Leave, ReleaseOK
<1>8. CASE ProcessSegment
  BY <1>8 DEF ProcessSegment, Now, Processed, When, ReleaseOK
<1>9. CASE DelayedClose
  BY <1>9 DEF DelayedClose, Now, ReleaseOK
<1>10. CASE FreePcb
  BY <1>10 DEF FreePcb, Now, ReleaseOK
<1>11. CASE SkipCallback
  BY <1>11 DEF SkipCallback, EntryOK, ReleaseOK
<1>12. CASE ReceiveCheck
  <2>1. CASE state \in {"Connected", "WriteClosed"}
    <3>1. /\ at' = "pipe"
          /\ UNCHANGED <<lwip, todo, connLock, segment, pcbVars, connVars,
                         goVars, counters>>
      BY <1>12, <2>1 DEF ReceiveCheck
    <3> QED
      BY <1>12, <3>1 DEF ReceiveCheck, Now, ReleaseOK, EntryOK
  <2>2. CASE state = "Errored"
    <3>1. /\ AbortInternal
          /\ UNCHANGED <<lwip, segment, registered, rxclosed, goVars, counters>>
      BY <1>12, <2>2 DEF ReceiveCheck
    <3> QED
      BY <1>12, <3>1, AbortEffect DEF ReceiveCheck, Now, ReleaseOK, EntryOK,
         TypeOK
  <2>3. CASE state \notin {"Connected", "WriteClosed", "Errored"}
    <3>1. rxclosed' \in BOOLEAN
      BY <1>12, <2>3, Zenon DEF ReceiveCheck
    <3>2. /\ KeepRefused
          /\ UNCHANGED <<lwip, at, connLock, segment, tcp, registered, sndq,
                         connVars, goVars, counters>>
      BY <1>12, <2>3 DEF ReceiveCheck
    <3> QED
      BY <1>12, <3>1, <3>2 DEF ReceiveCheck, Now, Before, KeepRefused,
         ReleaseOK, EntryOK
  <2> QED
    BY <2>1, <2>2, <2>3
<1>13. CASE PipeDeliver
  BY <1>13 DEF PipeDeliver, EntryOK, ReleaseOK
<1>14. CASE PipeClosed
  BY <1>14 DEF PipeClosed, KeepRefused, EntryOK, ReleaseOK
<1>15. CASE SetLocalClosed
  BY <1>15 DEF SetLocalClosed, Now, AfterFin, EntryOK, ReleaseOK
<1>16. CASE IsClosed
  BY <1>16 DEF IsClosed, Now, EntryOK, ReleaseOK
<1>17. CASE CheckClosing
  BY <1>17, ReleaseEffect, CallbacksOffEffect DEF CheckClosing, FinSent,
     ReleaseOK
<1>18. CASE CheckAborting
  <2>1. CASE state # "Aborting"
    <3>1. /\ at' = "broadcast"
          /\ UNCHANGED <<lwip, todo, connLock, segment, pcbVars, connVars,
                         goVars, counters>>
      BY <1>18, <2>1 DEF CheckAborting
    <3> QED
      BY <1>18, <3>1 DEF CheckAborting, ReleaseOK, EntryOK
  <2>2. CASE state = "Aborting"
    <3>1. /\ AbortInternal
          /\ UNCHANGED <<lwip, segment, registered, rxclosed, goVars, counters>>
      BY <1>18, <2>2 DEF CheckAborting
    <3> QED
      BY <1>18, <3>1, AbortEffect DEF CheckAborting, ReleaseOK, EntryOK, TypeOK
  <2> QED
    BY <2>1, <2>2
<1>19. CASE SignalWriter
  BY <1>19 DEF SignalWriter, ReleaseOK
<1>20. CASE Err
  BY <1>20 DEF Err, Now, Release, EntryOK, ReleaseOK
<1>21. CASE StartRelay
  BY <1>21 DEF StartRelay, ReleaseOK
<1>22. CASE DialSucceeds
  BY <1>22 DEF DialSucceeds, ReleaseOK
<1>23. CASE DialFails
  BY <1>23 DEF DialFails, Abort, ReleaseOK
<1>24. CASE DialKick
  BY <1>24 DEF DialKick, Enter, Retry, When, EntryOK, ReleaseOK
<1>25. CASE AbortEnter("dial")
  BY <1>25 DEF AbortEnter, Enter, EntryOK, ReleaseOK
<1>26. CASE Read
  BY <1>26 DEF Read, ReleaseOK
<1>27. CASE ReadEnds
  BY <1>27 DEF ReadEnds, ReleaseOK
<1>28. CASE CloseRead
  BY <1>28 DEF CloseRead, ReaderCloses, ReleaseOK
<1>29. CASE Close("up")
  BY <1>29 DEF Close, ReaderCloses, ReleaseOK
<1>30. CASE CloseWrite("up")
  BY <1>30 DEF CloseWrite, AfterCloseWrite, ReleaseOK
<1>31. CASE ShutdownTx("up")
  BY <1>31 DEF ShutdownTx, FinSent, ReleaseOK
<1>32. CASE WriteBegins
  BY <1>32 DEF WriteBegins, ReleaseOK
<1>33. CASE WriteCheck
  BY <1>33 DEF WriteCheck, ReleaseOK
<1>34. CASE WriteEnqueue
  BY <1>34 DEF WriteEnqueue, ReleaseOK
<1>35. CASE WriteWaits
  BY <1>35 DEF WriteWaits, ReleaseOK
<1>36. CASE Close("down")
  BY <1>36 DEF Close, ReaderCloses, ReleaseOK
<1>37. CASE CloseWrite("down")
  BY <1>37 DEF CloseWrite, AfterCloseWrite, ReleaseOK
<1>38. CASE ShutdownTx("down")
  BY <1>38 DEF ShutdownTx, FinSent, ReleaseOK
<1>39. CASE StackClose
  BY <1>39 DEF StackClose, Abort, ReleaseOK
<1>40. CASE AbortEnter("stop")
  BY <1>40 DEF AbortEnter, Enter, EntryOK, ReleaseOK
<1>41. CASE UNCHANGED vars
  BY <1>41 DEF vars, ReleaseOK
<1> QED
  BY <1>1, <1>2, <1>3, <1>4, <1>5, <1>6, <1>7, <1>8, <1>9, <1>10, <1>11,
     <1>12, <1>13, <1>14, <1>15, <1>16, <1>17, <1>18, <1>19, <1>20, <1>21,
     <1>22, <1>23, <1>24, <1>25, <1>26, <1>27, <1>28, <1>29, <1>30, <1>31,
     <1>32, <1>33, <1>34, <1>35, <1>36, <1>37, <1>38, <1>39, <1>40, <1>41 DEF
     Next, Timers, LwipSteps, Dial, Up, Down, Stop, Finished

\* No unit is lost between lwIP and the pipe, and the FIN is reported after
\* the last of them.
LEMMA StreamStep == IInv /\ [Next]_vars => StreamOK'
<1> SUFFICES ASSUME IInv, [Next]_vars PROVE StreamOK'
  OBVIOUS
<1> USE BoundsAssumption DEF IInv, lwipVars, pcbVars, connVars, goVars, counters
<1>1. CASE Accept
  BY <1>1 DEF Accept, Enter, When, EarlyOK, StreamOK, CanReceive, Held,
     AllRead, TypeOK
<1>2. CASE Input
  BY <1>2 DEF Input, Enter, Retry, When, StreamOK, Held, AllRead, EntryOK
<1>3. CASE FastTimer
  BY <1>3 DEF FastTimer, Enter, Retry, When, StreamOK, Held, AllRead
<1>4. CASE Poll
  BY <1>4 DEF Poll, Enter, StreamOK, Held, AllRead, EntryOK
<1>5. CASE SlowTimerRemove
  BY <1>5 DEF SlowTimerRemove, Enter, StreamOK, CanReceive, AllRead
<1>6. CASE TimeWaitExpires
  BY <1>6 DEF TimeWaitExpires, StreamOK, CanReceive, Held, AllRead
<1>7. CASE Leave
  BY <1>7 DEF Leave, StreamOK, Held, AllRead
<1>8. CASE ProcessSegment
  <2> DEFINE s == segment
  <2>1. /\ UNCHANGED <<at, rxclosed, registered, state, pipeR, pipeW, pc, got, read>>
        /\ todo = {"segment"}
    BY <1>8, BeforeSegment DEF ProcessSegment, Now, EntryOK
  <2>2. /\ s.len \in {0, 1} /\ s.fin \in BOOLEAN /\ s.ackFin \in BOOLEAN
        /\ fin \in BOOLEAN
    BY DEF TypeOK, Segments
  <2>3. CASE /\ UNCHANGED <<tcp, refused, rcvd, fin>>
             /\ todo' \subseteq {"err", "free"}
    BY <2>1, <2>3 DEF StreamOK, AllRead, Held
  <2>4. CASE /\ tcp' = Processed(tcp, s.fin, s.ackFin)
             /\ rcvd' = rcvd + s.len
             /\ fin' = (fin \/ s.fin)
             /\ refused' = IF tcp' = "TIME_WAIT" THEN "none" ELSE refused
             /\ refused = "none" \/ (s.len # 1 /\ ~s.fin)
             /\ "data" \in todo' <=> s.len = 1
             /\ "fin" \in todo' <=> s.fin
             /\ "segment" \notin todo'
    <3>1. tcp \in PcbStates /\ tcp' = Processed(tcp, s.fin, s.ackFin)
      BY <2>4 DEF TypeOK
    <3>2. /\ tcp' \in CanReceive => tcp \in CanReceive
          /\ s.fin => tcp' \notin CanReceive
          /\ tcp' = "TIME_WAIT" => tcp \in {"TIME_WAIT", "CLOSING"} \/ s.fin
          /\ tcp' = "FREED" => tcp = "FREED"
          /\ tcp = "ESTABLISHED" => tcp' \in {"ESTABLISHED", "CLOSE_WAIT"}
          /\ tcp \in {"CLOSE_WAIT", "TIME_WAIT", "FREED"} => tcp' = tcp
      BY <2>2, <3>1, ProcessedFacts
    <3>3. (s.fin => fin') /\ (~s.fin => fin' = fin)
      BY <2>2, <2>4
    <3>4. /\ refused = "none" \/ (s.len = 0 /\ ~s.fin)
          /\ refused' \in {"none", refused}
          /\ refused' # refused => tcp' = "TIME_WAIT"
          /\ rcvd' = rcvd + s.len
          /\ "data" \in todo' <=> s.len = 1
          /\ "fin" \in todo' <=> s.fin
          /\ "segment" \notin todo'
      BY <2>2, <2>4
    <3> QED
      BY <2>1, <2>2, <3>2, <3>3, <3>4 DEF StreamOK, AllRead, Held, UnitsOK,
         CanReceive, TypeOK
  <2> DEFINE dropped == refused # "none" /\ (s.len = 1 \/ s.fin)
  <2>5. dropped \/ s.rst => UNCHANGED <<tcp, refused, rcvd, fin>>
                          /\ todo' \subseteq {"err", "free"}
    BY <1>8 DEF ProcessSegment
  <2>6. CASE ~(dropped \/ s.rst)
    <3>1. /\ tcp' = Processed(tcp, s.fin, s.ackFin)
          /\ rcvd' = rcvd + s.len
          /\ fin' = (fin \/ s.fin)
          /\ refused' = IF tcp' = "TIME_WAIT" THEN "none" ELSE refused
          /\ todo' = When(s.ack > 0, "sent")
                     \cup When(tcp = "LAST_ACK" /\ s.ackFin, "closed")
                     \cup When(s.len = 1, "data") \cup When(s.fin, "fin")
      BY <1>8, <2>6 DEF ProcessSegment
    <3>2. /\ "data" \in todo' <=> s.len = 1
          /\ "fin" \in todo' <=> s.fin
          /\ "segment" \notin todo'
      BY <3>1, <2>2 DEF When
    <3> QED
      BY <3>1, <3>2, <2>4, <2>6
  <2> QED
    BY <2>3, <2>5, <2>6
<1>9. CASE DelayedClose
  BY <1>9 DEF DelayedClose, Now, StreamOK, Held, AllRead, EntryOK
<1>10. CASE FreePcb
  BY <1>10 DEF FreePcb, StreamOK, CanReceive, AllRead
<1>11. CASE SkipCallback
  BY <1>11 DEF SkipCallback, StreamOK, Held, AllRead
<1>12. CASE ReceiveCheck
  <2>1. CASE state \in {"Connected", "WriteClosed"}
    <3>1. /\ at' = "pipe"
          /\ UNCHANGED <<lwip, todo, connLock, segment, pcbVars, connVars,
                         goVars, counters>>
      BY <1>12, <2>1 DEF ReceiveCheck
    <3> QED
      BY <1>12, <3>1 DEF ReceiveCheck, Now, StreamOK, AllRead, Held
  <2>2. CASE state = "Errored"
    <3>1. /\ AbortInternal
          /\ UNCHANGED <<lwip, segment, registered, rxclosed, goVars, counters>>
      BY <1>12, <2>2 DEF ReceiveCheck
    <3> QED
      BY <1>12, <3>1, AbortEffect DEF ReceiveCheck, Now, StreamOK, AllRead,
         Held, CanReceive, TypeOK
  <2>3. CASE state \notin {"Connected", "WriteClosed", "Errored"}
    <3>1. rxclosed' \in BOOLEAN
      BY <1>12, <2>3, Zenon DEF ReceiveCheck
    <3>2. /\ KeepRefused
          /\ UNCHANGED <<lwip, at, connLock, segment, tcp, registered, sndq,
                         connVars, goVars, counters>>
      BY <1>12, <2>3 DEF ReceiveCheck
    <3> QED
      BY <1>12, <3>1, <3>2 DEF ReceiveCheck, Now, Before, KeepRefused,
         StreamOK, AllRead, Held, UnitsOK, EntryOK, TypeOK
  <2> QED
    BY <2>1, <2>2, <2>3
<1>13. CASE PipeDeliver
  BY <1>13 DEF PipeDeliver, StreamOK, Held, AllRead, UnitsOK, EntryOK
<1>14. CASE PipeClosed
  BY <1>14 DEF PipeClosed, KeepRefused, StreamOK, Held, AllRead, EntryOK
<1>15. CASE SetLocalClosed
  BY <1>15 DEF SetLocalClosed, Now, Before, StreamOK, Held, AllRead, TypeOK
<1>16. CASE IsClosed
  BY <1>16 DEF IsClosed, StreamOK, Held, AllRead
<1>17. CASE CheckClosing
  BY <1>17 DEF CheckClosing, CallbacksOff, Release, FinSent, StreamOK,
     CanReceive, Held, AllRead
<1>18. CASE CheckAborting
  <2>1. CASE state # "Aborting"
    <3>1. /\ at' = "broadcast"
          /\ UNCHANGED <<lwip, todo, connLock, segment, pcbVars, connVars,
                         goVars, counters>>
      BY <1>18, <2>1 DEF CheckAborting
    <3> QED
      BY <1>18, <3>1 DEF CheckAborting, StreamOK, AllRead, Held
  <2>2. CASE state = "Aborting"
    <3>1. /\ AbortInternal
          /\ UNCHANGED <<lwip, segment, registered, rxclosed, goVars, counters>>
      BY <1>18, <2>2 DEF CheckAborting
    <3> QED
      BY <1>18, <3>1, AbortEffect DEF CheckAborting, StreamOK, AllRead, Held,
         CanReceive, EntryOK, TypeOK
  <2> QED
    BY <2>1, <2>2
<1>19. CASE SignalWriter
  BY <1>19 DEF SignalWriter, StreamOK, Held, AllRead
<1>20. CASE Err
  BY <1>20 DEF Err, Release, StreamOK, Held
<1>21. CASE StartRelay
  BY <1>21 DEF StartRelay, StreamOK, Held, AllRead
<1>22. CASE DialSucceeds
  BY <1>22 DEF DialSucceeds, StreamOK, Held, AllRead
<1>23. CASE DialFails
  BY <1>23 DEF DialFails, Abort, StreamOK, Held, AllRead
<1>24. CASE DialKick
  BY <1>24 DEF DialKick, Enter, Retry, When, StreamOK, Held, AllRead, EntryOK
<1>25. CASE AbortEnter("dial")
  BY <1>25 DEF AbortEnter, Enter, StreamOK, Held, AllRead, EntryOK
<1>26. CASE Read
  BY <1>26 DEF Read, StreamOK, Held, AllRead
<1>27. CASE ReadEnds
  BY <1>27 DEF ReadEnds, StreamOK, Held, AllRead
<1>28. CASE CloseRead
  BY <1>28 DEF CloseRead, ReaderCloses, StreamOK, Held, AllRead
<1>29. CASE Close("up")
  BY <1>29 DEF Close, ReaderCloses, StreamOK, Held, AllRead
<1>30. CASE CloseWrite("up")
  BY <1>30 DEF CloseWrite, AfterCloseWrite, StreamOK, Held, AllRead
<1>31. CASE ShutdownTx("up")
  BY <1>31 DEF ShutdownTx, FinSent, StreamOK, CanReceive, Held, AllRead
<1>32. CASE WriteBegins
  BY <1>32 DEF WriteBegins, StreamOK, Held, AllRead
<1>33. CASE WriteCheck
  BY <1>33 DEF WriteCheck, StreamOK, Held, AllRead
<1>34. CASE WriteEnqueue
  BY <1>34 DEF WriteEnqueue, StreamOK, Held, AllRead
<1>35. CASE WriteWaits
  BY <1>35 DEF WriteWaits, StreamOK, Held, AllRead
<1>36. CASE Close("down")
  BY <1>36 DEF Close, ReaderCloses, StreamOK, Held, AllRead
<1>37. CASE CloseWrite("down")
  BY <1>37 DEF CloseWrite, AfterCloseWrite, StreamOK, Held, AllRead
<1>38. CASE ShutdownTx("down")
  BY <1>38 DEF ShutdownTx, FinSent, StreamOK, CanReceive, Held, AllRead
<1>39. CASE StackClose
  BY <1>39 DEF StackClose, Abort, StreamOK, Held, AllRead
<1>40. CASE AbortEnter("stop")
  BY <1>40 DEF AbortEnter, Enter, StreamOK, Held, AllRead, EntryOK
<1>41. CASE UNCHANGED vars
  BY <1>41 DEF vars, StreamOK, Held, AllRead
<1> QED
  BY <1>1, <1>2, <1>3, <1>4, <1>5, <1>6, <1>7, <1>8, <1>9, <1>10, <1>11,
     <1>12, <1>13, <1>14, <1>15, <1>16, <1>17, <1>18, <1>19, <1>20, <1>21,
     <1>22, <1>23, <1>24, <1>25, <1>26, <1>27, <1>28, <1>29, <1>30, <1>31,
     <1>32, <1>33, <1>34, <1>35, <1>36, <1>37, <1>38, <1>39, <1>40, <1>41 DEF
     Next, Timers, LwipSteps, Dial, Up, Down, Stop, Finished

\* The receive side is shut, and refused data are lost, only when the reader
\* left or the connection is aborted.
LEMMA ReaderStep == IInv /\ [Next]_vars => ReaderOK'
<1> SUFFICES ASSUME IInv, [Next]_vars PROVE ReaderOK'
  OBVIOUS
<1> USE BoundsAssumption DEF IInv, lwipVars, pcbVars, connVars, goVars, counters
<1>1. CASE Accept
  BY <1>1 DEF Accept, Goto, EarlyOK, Goroutines, ReaderOK
<1>2. CASE Input
  BY <1>2 DEF Input, Enter, Retry, When, ReaderOK, Excused, Held, EntryOK
<1>3. CASE FastTimer
  BY <1>3 DEF FastTimer, Enter, Retry, When, ReaderOK, Excused, Held
<1>4. CASE Poll
  BY <1>4 DEF Poll, Enter, ReaderOK, Excused, Held, EntryOK
<1>5. CASE SlowTimerRemove
  BY <1>5 DEF SlowTimerRemove, ReaderOK
<1>6. CASE TimeWaitExpires
  BY <1>6 DEF TimeWaitExpires, ReaderOK
<1>7. CASE Leave
  BY <1>7 DEF Leave, Goroutines, Goto, ReaderOK, Excused, Held, TypeOK
<1>8. CASE ProcessSegment
  <2> DEFINE s == segment
  <2>1. /\ UNCHANGED <<at, rxclosed, registered, state, pipeR, pipeW, pc, got, read>>
        /\ todo = {"segment"}
    BY <1>8, BeforeSegment DEF ProcessSegment, Now, EntryOK
  <2>2. /\ s.len \in {0, 1} /\ s.fin \in BOOLEAN /\ s.ackFin \in BOOLEAN
        /\ fin \in BOOLEAN
    BY DEF TypeOK, Segments
  <2>3. CASE /\ UNCHANGED <<tcp, refused, rcvd, fin>>
             /\ todo' \subseteq {"err", "free"}
    BY <2>1, <2>3 DEF ReaderOK, Excused, Held
  <2>4. CASE /\ tcp' = Processed(tcp, s.fin, s.ackFin)
             /\ rcvd' = rcvd + s.len
             /\ fin' = (fin \/ s.fin)
             /\ refused' = IF tcp' = "TIME_WAIT" THEN "none" ELSE refused
             /\ refused = "none" \/ (s.len # 1 /\ ~s.fin)
             /\ "data" \in todo' <=> s.len = 1
             /\ "fin" \in todo' <=> s.fin
             /\ "segment" \notin todo'
    <3>1. tcp \in PcbStates /\ tcp' = Processed(tcp, s.fin, s.ackFin)
      BY <2>4 DEF TypeOK
    <3>2. /\ tcp' \in CanReceive => tcp \in CanReceive
          /\ s.fin => tcp' \notin CanReceive
          /\ tcp' = "TIME_WAIT" => tcp \in {"TIME_WAIT", "CLOSING"} \/ s.fin
          /\ tcp' = "FREED" => tcp = "FREED"
          /\ tcp = "ESTABLISHED" => tcp' \in {"ESTABLISHED", "CLOSE_WAIT"}
          /\ tcp \in {"CLOSE_WAIT", "TIME_WAIT", "FREED"} => tcp' = tcp
      BY <2>2, <3>1, ProcessedFacts
    <3>3. (s.fin => fin') /\ (~s.fin => fin' = fin)
      BY <2>2, <2>4
    <3>4. /\ refused = "none" \/ (s.len = 0 /\ ~s.fin)
          /\ refused' \in {"none", refused}
          /\ refused' # refused => tcp' = "TIME_WAIT"
          /\ rcvd' = rcvd + s.len
          /\ "data" \in todo' <=> s.len = 1
          /\ "fin" \in todo' <=> s.fin
          /\ "segment" \notin todo'
      BY <2>2, <2>4
    <3> QED
      BY <2>1, <2>2, <3>2, <3>3, <3>4 DEF ReaderOK, Excused, StreamOK, Held,
         UnitsOK, CanReceive, TypeOK
  <2> DEFINE dropped == refused # "none" /\ (s.len = 1 \/ s.fin)
  <2>5. dropped \/ s.rst => UNCHANGED <<tcp, refused, rcvd, fin>>
                          /\ todo' \subseteq {"err", "free"}
    BY <1>8 DEF ProcessSegment
  <2>6. CASE ~(dropped \/ s.rst)
    <3>1. /\ tcp' = Processed(tcp, s.fin, s.ackFin)
          /\ rcvd' = rcvd + s.len
          /\ fin' = (fin \/ s.fin)
          /\ refused' = IF tcp' = "TIME_WAIT" THEN "none" ELSE refused
          /\ todo' = When(s.ack > 0, "sent")
                     \cup When(tcp = "LAST_ACK" /\ s.ackFin, "closed")
                     \cup When(s.len = 1, "data") \cup When(s.fin, "fin")
      BY <1>8, <2>6 DEF ProcessSegment
    <3>2. /\ "data" \in todo' <=> s.len = 1
          /\ "fin" \in todo' <=> s.fin
          /\ "segment" \notin todo'
      BY <3>1, <2>2 DEF When
    <3> QED
      BY <3>1, <3>2, <2>4, <2>6
  <2> QED
    BY <2>3, <2>5, <2>6
<1>9. CASE DelayedClose
  BY <1>9 DEF DelayedClose, Now, ReaderOK, Excused, Held, EntryOK
<1>10. CASE FreePcb
  BY <1>10 DEF FreePcb, ReaderOK
<1>11. CASE SkipCallback
  BY <1>11 DEF SkipCallback, ReaderOK, Excused, Held
<1>12. CASE ReceiveCheck
  <2>1. CASE state \in {"Connected", "WriteClosed"}
    <3>1. /\ at' = "pipe"
          /\ UNCHANGED <<lwip, todo, connLock, segment, pcbVars, connVars,
                         goVars, counters>>
      BY <1>12, <2>1 DEF ReceiveCheck
    <3> QED
      BY <1>12, <3>1 DEF ReceiveCheck, Now, ReaderOK, Excused, Held
  <2>2. CASE state = "Errored"
    <3>1. /\ AbortInternal
          /\ UNCHANGED <<lwip, segment, registered, rxclosed, goVars, counters>>
      BY <1>12, <2>2 DEF ReceiveCheck
    <3> QED
      BY <1>12, <3>1, AbortEffect DEF ReceiveCheck, Now, ReaderOK, Excused,
         Held, ReleaseOK, TypeOK
  <2>3. CASE state \notin {"Connected", "WriteClosed", "Errored"}
    <3>1. rxclosed' \in BOOLEAN
      BY <1>12, <2>3, Zenon DEF ReceiveCheck
    <3>2. /\ KeepRefused
          /\ UNCHANGED <<lwip, at, connLock, segment, tcp, registered, sndq,
                         connVars, goVars, counters>>
      BY <1>12, <2>3 DEF ReceiveCheck
    <3> QED
      BY <1>12, <3>1, <3>2 DEF ReceiveCheck, Now, Before, KeepRefused, EarlyOK,
         ReaderOK, StreamOK, AllRead, Excused, RefusesForGood, Held, UnitsOK,
         EntryOK, ReleaseOK, TypeOK, ConnStates
  <2> QED
    BY <2>1, <2>2, <2>3
<1>13. CASE PipeDeliver
  BY <1>13 DEF PipeDeliver, Goto, ReaderOK, Excused, Held, UnitsOK, EntryOK
<1>14. CASE PipeClosed
  BY <1>14 DEF PipeClosed, KeepRefused, ReaderOK, Excused, StreamOK, AllRead,
     EntryOK
<1>15. CASE SetLocalClosed
  BY <1>15 DEF SetLocalClosed, ClosingOrLater, AfterFin, Broadcast, Goroutines,
     ReaderOK, Excused, Held, TypeOK
<1>16. CASE IsClosed
  BY <1>16 DEF IsClosed, ReaderOK, Excused, Held
<1>17. CASE CheckClosing
  BY <1>17 DEF CheckClosing, CallbacksOff, Release, ReaderOK, Excused, Held
<1>18. CASE CheckAborting
  <2>1. CASE state # "Aborting"
    <3>1. /\ at' = "broadcast"
          /\ UNCHANGED <<lwip, todo, connLock, segment, pcbVars, connVars,
                         goVars, counters>>
      BY <1>18, <2>1 DEF CheckAborting
    <3> QED
      BY <1>18, <3>1 DEF CheckAborting, ReaderOK, Excused, Held
  <2>2. CASE state = "Aborting"
    <3>1. /\ AbortInternal
          /\ UNCHANGED <<lwip, segment, registered, rxclosed, goVars, counters>>
      BY <1>18, <2>2 DEF CheckAborting
    <3> QED
      BY <1>18, <3>1, AbortEffect DEF CheckAborting, ReaderOK, Excused, Held,
         ReleaseOK, EntryOK, TypeOK
  <2> QED
    BY <2>1, <2>2
<1>19. CASE SignalWriter
  BY <1>19 DEF SignalWriter, Broadcast, ReaderOK, Excused, Held
<1>20. CASE Err
  BY <1>20 DEF Err, Release, Broadcast, ReaderOK, Excused
<1>21. CASE StartRelay
  BY <1>21 DEF StartRelay, Goroutines, ReaderOK, Excused, Held, TypeOK
<1>22. CASE DialSucceeds
  BY <1>22 DEF DialSucceeds, Goto, ReaderOK, Excused, Held
<1>23. CASE DialFails
  BY <1>23 DEF DialFails, Abort, Goto, Goroutines, ReaderOK, Excused, TypeOK
<1>24. CASE DialKick
  BY <1>24 DEF DialKick, Enter, Retry, When, ReaderOK, Excused, Held, EntryOK
<1>25. CASE AbortEnter("dial")
  BY <1>25 DEF AbortEnter, Enter, ReaderOK, Excused, Held, EntryOK
<1>26. CASE Read
  BY <1>26 DEF Read, Goto, Goroutines, ReaderOK, Excused, Held, TypeOK
<1>27. CASE ReadEnds
  BY <1>27 DEF ReadEnds, Goto, Goroutines, ReaderOK, Excused, Held, TypeOK
<1>28. CASE CloseRead
  BY <1>28 DEF CloseRead, ReaderCloses, Goto, ReaderOK, Excused
<1>29. CASE Close("up")
  BY <1>29 DEF Close, ReaderCloses, Goto, Goroutines, ReaderOK, Excused, Held,
     TypeOK
<1>30. CASE CloseWrite("up")
  BY <1>30 DEF CloseWrite, ClosingOrLater, CloseWriteReturns, Goto,
     AfterCloseWrite, Goroutines, ReaderOK, Excused, Held, TypeOK
<1>31. CASE ShutdownTx("up")
  BY <1>31 DEF ShutdownTx, FinSent, CloseWriteReturns, Goto, ReaderOK, Excused,
     Held
<1>32. CASE WriteBegins
  BY <1>32 DEF WriteBegins, Goto, ReaderOK, Excused, Held
<1>33. CASE WriteCheck
  BY <1>33 DEF WriteCheck, Goto, ReaderOK, Excused, Held
<1>34. CASE WriteEnqueue
  BY <1>34 DEF WriteEnqueue, Goto, Goroutines, ReaderOK, Excused, Held, TypeOK
<1>35. CASE WriteWaits
  BY <1>35 DEF WriteWaits, Goto, ReaderOK, Excused, Held
<1>36. CASE Close("down")
  BY <1>36 DEF Close, ReaderCloses, Goto, Goroutines, ReaderOK, Excused, Held,
     TypeOK
<1>37. CASE CloseWrite("down")
  BY <1>37 DEF CloseWrite, ClosingOrLater, CloseWriteReturns, Goto,
     AfterCloseWrite, Goroutines, ReaderOK, Excused, Held, TypeOK
<1>38. CASE ShutdownTx("down")
  BY <1>38 DEF ShutdownTx, FinSent, CloseWriteReturns, Goto, ReaderOK, Excused,
     Held
<1>39. CASE StackClose
  BY <1>39 DEF StackClose, Abort, Goto, Goroutines, ReaderOK, Excused, TypeOK
<1>40. CASE AbortEnter("stop")
  BY <1>40 DEF AbortEnter, ReaderOK, Excused
<1>41. CASE UNCHANGED vars
  BY <1>41 DEF vars, ReaderOK, Excused, Held
<1> QED
  BY <1>1, <1>2, <1>3, <1>4, <1>5, <1>6, <1>7, <1>8, <1>9, <1>10, <1>11,
     <1>12, <1>13, <1>14, <1>15, <1>16, <1>17, <1>18, <1>19, <1>20, <1>21,
     <1>22, <1>23, <1>24, <1>25, <1>26, <1>27, <1>28, <1>29, <1>30, <1>31,
     <1>32, <1>33, <1>34, <1>35, <1>36, <1>37, <1>38, <1>39, <1>40, <1>41 DEF
     Next, Timers, LwipSteps, Dial, Up, Down, Stop, Finished

-----------------------------------------------------------------------------
(* The invariant and what follows from it.                                 *)

LEMMA InitIInv == Init => IInv
<1> SUFFICES ASSUME Init PROVE IInv
  OBVIOUS
<1> USE BoundsAssumption DEF Init
<1>1. TypeOK
  <2>1. segment \in Segments
    BY DEF Segments, NoSegment
  <2>2. /\ registered \in BOOLEAN /\ rxclosed \in BOOLEAN /\ inMap \in BOOLEAN
        /\ pipeR \in BOOLEAN /\ pipeW \in BOOLEAN /\ fin \in BOOLEAN
    BY Zenon
  <2> QED
    BY <2>1, <2>2 DEF TypeOK, LwipThreads, Events, PcbStates, Active,
       ConnStates, Goroutines
<1>2. EarlyOK
  BY DEF EarlyOK
<1>3. EntryOK /\ UnitsOK /\ ReleaseOK /\ at # "panic"
  BY DEF EntryOK, UnitsOK, ReleaseOK
<1>4. StreamOK /\ ReaderOK
  BY DEF StreamOK, AllRead, Held, CanReceive, ReaderOK, Excused, Goroutines
<1> QED
  BY <1>1, <1>2, <1>3, <1>4 DEF IInv

LEMMA Invariance == Spec => []IInv
<1>1. IInv /\ [Next]_vars => IInv'
  <2> SUFFICES ASSUME IInv /\ [Next]_vars PROVE IInv'
    OBVIOUS
  <2> QED
    BY TypeStep, EarlyStep, EntryStep, UnitsStep, ReleaseStep, StreamStep,
       ReaderStep
     DEF IInv
<1> QED
  BY InitIInv, <1>1, PTL DEF Spec

\* The variables keep their types: in particular the units in the send buffer
\* never exceed it and no counter passes its bound.
THEOREM TypeCorrect == Spec => []TypeOK
<1>1. IInv => TypeOK
  BY DEF IInv
<1> QED
  BY Invariance, <1>1, PTL

\* No callback meets state Closed, where checkState's nil error panics in
\* tcpSentFn, tcpPollFn or tcpRecvFn.
THEOREM NoPanic == Spec => []NoNilAssert
<1>1. IInv => NoNilAssert
  BY DEF IInv, NoNilAssert
<1> QED
  BY Invariance, <1>1, PTL

\* tcpConns keeps the connection alive for every callback lwIP makes on it.
THEOREM TargetReachable == Spec => []CallbackTargetReachable
<1>1. IInv => CallbackTargetReachable
  <2> SUFFICES ASSUME IInv, registered, connLock = "free", ~inMap,
                      NEW event \in {"data", "fin", "sent", "poll", "err"},
                      event \in todo
               PROVE  FALSE
    BY DEF CallbackTargetReachable, Now
  <2>1. CASE tcp = "FREED"
    BY <2>1 DEF IInv, ReleaseOK
  <2>2. CASE todo = {"free"}
    BY <2>2
  <2> QED
    BY <2>1, <2>2 DEF IInv, ReleaseOK
<1> QED
  BY Invariance, <1>1, PTL

\* What an entry into lwIP goes on to do never touches a pcb that a callback of
\* the same entry freed.
THEOREM LivePcb == Spec => []LwipContinuesOnLivePcb
<1>1. IInv => LwipContinuesOnLivePcb
  BY DEF IInv, ReleaseOK, LwipContinuesOnLivePcb
<1> QED
  BY Invariance, <1>1, PTL

\* Unless the handler stops reading or the connection is aborted, no unit lwIP
\* accepted is missing: refused data survive every retry, the dial and the FIN.
THEOREM UplinkComplete == Spec => []NoUplinkLoss
<1>1. IInv => NoUplinkLoss
  BY DEF IInv, StreamOK, ReaderOK, Excused, Held, NoUplinkLoss
<1> QED
  BY Invariance, <1>1, PTL

\* Only the handler's own CloseRead shuts the receive side of a pcb that still
\* calls the connection.
THEOREM RxShutByReader == Spec => []RxShutOnlyByReader
<1>1. IInv => RxShutOnlyByReader
  BY DEF IInv, ReaderOK, RxShutOnlyByReader
<1> QED
  BY Invariance, <1>1, PTL

\* tcp_close, made when both sides are closed, never finds unread data and so
\* never answers the peer with a reset.
THEOREM ClosingClean == Spec => []ClosingHasNoUnreadData
<1>1. IInv => ClosingHasNoUnreadData
  BY DEF IInv, StreamOK, AllRead, ClosingHasNoUnreadData
<1> QED
  BY Invariance, <1>1, PTL

-----------------------------------------------------------------------------
(* The connection implements the abstract stream.                          *)

\* A step that neither moves data nor changes what the reader knows at most
\* breaks the stream or, in DialSucceeds, mends it.
LEMMA StreamFrame ==
  UNCHANGED <<rcvd, fin, read, got>> => [Uplink!Next]_(Uplink!vars)
<1> SUFFICES ASSUME UNCHANGED <<rcvd, fin, read, got>>
             PROVE  [Uplink!Next]_(Uplink!vars)
  OBVIOUS
<1> DEFINE broken == ~pipeR \/ state = "Aborting"
<1>1. CASE broken' = broken
  BY <1>1 DEF Uplink!vars
<1>2. CASE broken' = ~broken
  BY <1>2 DEF Uplink!Next, Uplink!Disturb
<1> QED
  BY <1>1, <1>2, Zenon

LEMMA StreamInit == Init => Uplink!Init
  BY DEF Init, Uplink!Init

LEMMA StreamSimulation == IInv /\ [Next]_vars => [Uplink!Next]_(Uplink!vars)
<1> SUFFICES ASSUME IInv, [Next]_vars PROVE [Uplink!Next]_(Uplink!vars)
  OBVIOUS
<1>1. CASE Accept
  <2>1. /\ rcvd' \in {rcvd, rcvd + 1} /\ fin' \in BOOLEAN /\ ~fin
        /\ UNCHANGED <<read, got, pipeR>>
    BY <1>1 DEF Accept, IInv, EarlyOK, TypeOK
  <2>2. state # "Aborting" /\ state' # "Aborting"
    BY <1>1 DEF Accept, IInv, EarlyOK
  <2>3. rcvd' >= rcvd
    BY <2>1 DEF IInv, TypeOK
  <2> QED
    BY <2>1, <2>2, <2>3, Zenon DEF Uplink!Next, Uplink!Send
<1>2. CASE ProcessSegment
  <2>1. UNCHANGED <<read, got, pipeR, state>>
    BY <1>2 DEF ProcessSegment, connVars, goVars
  <2>2. CASE UNCHANGED <<rcvd, fin>>
    BY <2>1, <2>2, StreamFrame
  <2>3. CASE /\ rcvd' = rcvd + segment.len /\ fin' = (fin \/ segment.fin)
             /\ ~UNCHANGED <<rcvd, fin>>
    <3>1. segment.len \in {0, 1} /\ segment.fin \in BOOLEAN /\ fin \in BOOLEAN
          /\ rcvd \in Nat
      BY DEF IInv, TypeOK, Segments
    <3>2. segment.len = 1 \/ segment.fin
      BY <2>3, <3>1
    <3>3. ~fin
      BY <1>2, <3>2 DEF ProcessSegment, Now, IInv, UnitsOK, StreamOK
    <3>4. fin' \in BOOLEAN /\ rcvd' >= rcvd
      BY <2>3, <3>1
    <3> QED
      BY <2>1, <3>3, <3>4, Zenon DEF Uplink!Next, Uplink!Send
  <2> QED
    BY <1>2, <2>2, <2>3 DEF ProcessSegment
<1>3. CASE PipeDeliver
  <2>1. /\ read' = read + 1 /\ UNCHANGED <<rcvd, fin, got, pipeR, state>>
        /\ got = "more" /\ read < rcvd
    BY <1>3 DEF PipeDeliver, connVars, IInv, TypeOK, EntryOK, UnitsOK, ReaderOK
  <2> QED
    BY <2>1 DEF Uplink!Next, Uplink!Deliver
<1>4. CASE Read
  <2>1. UNCHANGED <<rcvd, fin, read, pipeR, state>>
    BY <1>4 DEF Read, connVars, counters
  <2>2. CASE got' = got
    BY <2>1, <2>2, StreamFrame
  <2>3. CASE got' = "eof" /\ state = "ReceiveClosed"
    BY <1>4, <2>1, <2>3 DEF Read, IInv, StreamOK, AllRead, Uplink!Next,
       Uplink!EndOfFile
  <2>4. CASE got' = "error" /\ state \in ClosingOrLater
    BY <1>4, <2>1, <2>4 DEF Read, ClosingOrLater, IInv, StreamOK, AllRead,
       ReaderOK, Uplink!Next, Uplink!Fail
  <2> QED
    BY <1>4, <2>2, <2>3, <2>4 DEF Read
<1>5. CASE ReadEnds
  <2>1. /\ got = "more" /\ got' = "eof" /\ ~(pipeR /\ pipeW)
        /\ UNCHANGED <<rcvd, fin, read, pipeR, state>>
    BY <1>5 DEF ReadEnds, connVars, counters, IInv, ReaderOK
  <2> QED
    BY <2>1 DEF IInv, StreamOK, AllRead, Uplink!Next, Uplink!EndOfFile
<1>6. CASE ~(Accept \/ ProcessSegment \/ PipeDeliver \/ Read \/ ReadEnds)
  <2>1. UNCHANGED <<rcvd, fin, read, got>>
    BY <1>6 DEF Next, Timers, LwipSteps, Dial, Up, Down, Stop, Finished, vars,
       goVars, counters, Input, FastTimer, Poll, SlowTimerRemove,
       TimeWaitExpires, Leave, DelayedClose, FreePcb, SkipCallback,
       ReceiveCheck, PipeClosed, SetLocalClosed, IsClosed, CheckClosing,
       CheckAborting, SignalWriter, Err, StartRelay, DialSucceeds, DialFails,
       DialKick, AbortEnter, CloseRead, Close, CloseWrite, ShutdownTx,
       WriteBegins, WriteCheck, WriteEnqueue, WriteWaits, StackClose, Abort
  <2> QED
    BY <2>1, StreamFrame
<1> QED
  BY <1>1, <1>2, <1>3, <1>4, <1>5, <1>6

\* What a reader of the connection sees is a run of the abstract stream: every
\* unit once and in order, and EOF or an error only when all has been read or
\* the connection was closed for reading or is being aborted.
THEOREM Refinement == Spec => UplinkRefinement
  BY Invariance, StreamInit, StreamSimulation, PTL
  DEF Spec, UplinkRefinement, Uplink!Spec

=============================================================================
