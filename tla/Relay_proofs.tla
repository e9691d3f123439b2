---------------------------- MODULE Relay_proofs ----------------------------
(***************************************************************************)
(* What is proved of Relay for every amount of data, every window, both    *)
(* handlers and every set of faults: its types, that each direction is a   *)
(* stream the other one never cuts, and when a Write can sleep for good.   *)
(***************************************************************************)
EXTENDS Relay, TLAPS

\* io.Copy is in Write; it has not returned.
InWrite == {"write", "enqueue", "wait", "waiting"}
InCopy  == {"copy"} \cup InWrite

\* A unit that was read is written before the next one is.
UnitsOK(d) ==
  /\ written[d] <= copied[d] /\ copied[d] <= sent[d]
  /\ pc[d] = "copy" => copied[d] = written[d]
  /\ pc[d] \in InWrite => copied[d] = written[d] + 1

\* The copy has returned once its goroutine closes, and only then.
OutcomeOK(d) == outcome[d] = "more" <=> pc[d] \in InCopy

\* io.Copy saw the end of the stream where it is, and the end it reads was closed
\* under it only by what took both directions down.
EndOK(d) ==
  /\ outcome[d] = "eof" => Broken(d) \/ (ended[d] /\ written[d] = sent[d])
  /\ ~rd[From(d)] => outcome[d] # "more" \/ Broken(d)

\* The uplink took the TUN end down.
UplinkInterrupted == Interrupts("up") /\ outcome["up"] # "more"

\* lwIP lets go of a TUN end only after a reset or once its writing side is closed,
\* and that closes only behind the downlink's copy or by an interrupt.
CalledOK ==
  /\ ~called => reset["tun"] \/ ~wr["tun"]
  /\ ~wr["tun"] => outcome["down"] # "more" \/ UplinkInterrupted

\* The inductive invariant.
IInv ==
  TypeOK /\ CalledOK /\ \A d \in Dirs : UnitsOK(d) /\ OutcomeOK(d) /\ EndOK(d)

USE DEF Dirs, Ends, From, To

-----------------------------------------------------------------------------
(* What the shared pieces do.                                              *)

\* The two directions lead to different ends.
LEMMA DirsCross ==
  ASSUME NEW d \in Dirs, NEW other \in Dirs, other # d
  PROVE  From(d) = To(other) /\ To(d) = From(other) /\ From(d) # To(d)
  OBVIOUS

Places == InCopy \cup {"tun", "remote", "meet", "done"}

\* A broadcast moves a Write that waits, and nothing else.
LEMMA Broadcasts ==
  ASSUME TypeOK, Broadcast
  PROVE  /\ pc' \in [Dirs -> Places]
         /\ \A d \in Dirs : pc'[d] = pc[d] \/ (pc[d] = "waiting" /\ pc'[d] = "write")
<1>1. pc \in [Dirs -> Places]
  BY DEF TypeOK, Places, InCopy, InWrite
<1> QED
  BY <1>1 DEF Broadcast, Places, InCopy, InWrite

\* Every step, sorted by what it can do to outcome and to the halves.
PeerMoves ==
  \E d \in Dirs : PeerSends(d) \/ PeerEnds(d) \/ PeerTakes(d)

Wakes ==
  \/ \E e \in Ends : PeerResets(e)
  \/ LocalClosed \/ CheckState \/ PcbEnds

Writes(d) == (d = "up" /\ SocketWrites) \/ (d = "down" /\ WriteEnqueues)

Moves(d) ==
  d = "down" /\ (WriteFindsFull \/ WriteWaits
                   \/ (WriteChecks /\ Goto(d, "enqueue") /\ UNCHANGED outcome))

Fails(d) ==
  \/ d = "up" /\ SocketFails
  \/ d = "down" /\ (WriteFails \/ (WriteChecks /\ CopyReturns("down", "error")))

Closings(d) == CloseTun(d) \/ CloseRemote(d)

LEMMA StepCases ==
  ASSUME [Next]_vars
  PROVE  \/ UNCHANGED vars
         \/ PeerMoves
         \/ Wakes
         \/ \E d \in Dirs : \/ CopyReads(d) \/ CopyReadEnds(d) \/ Writes(d)
                            \/ Moves(d) \/ Fails(d) \/ Closings(d) \/ Meet(d)
<1>1. CASE Peer
  BY <1>1 DEF Peer, PeerMoves, Wakes
<1>2. CASE Lwip
  BY <1>2 DEF Lwip, Wakes
<1>3. CASE Uplink
  BY <1>3 DEF Uplink, Copier, Writes, Fails, Closings
<1>4. CASE Downlink
  <2>1. WriteChecks => Moves("down") \/ Fails("down")
    BY DEF WriteChecks, Moves, Fails
  <2> QED
    BY <1>4, <2>1 DEF Downlink, Copier, Writes, Moves, Fails, Closings
<1> QED
  BY <1>1, <1>2, <1>3, <1>4 DEF Next

LEMMA PeerMoveFacts ==
  ASSUME TypeOK, PeerMoves
  PROVE  /\ UNCHANGED <<reset, lwipVars, endVars, relayVars>>
         /\ sent' \in [Dirs -> 0..MaxData] /\ ended' \in [Dirs -> BOOLEAN]
         /\ taken' \in [Dirs -> 0..MaxData]
         /\ \A d \in Dirs : /\ sent[d] <= sent'[d] /\ taken[d] <= taken'[d]
                            /\ ended[d] => ended'[d] /\ sent'[d] = sent[d]
<1> PICK d \in Dirs : PeerSends(d) \/ PeerEnds(d) \/ PeerTakes(d)
  BY DEF PeerMoves
<1> USE BoundsAssumption DEF TypeOK
<1>1. CASE PeerSends(d)
  BY <1>1 DEF PeerSends
<1>2. CASE PeerEnds(d)
  BY <1>2 DEF PeerEnds
<1>3. CASE PeerTakes(d)
  BY <1>3 DEF PeerTakes
<1> QED
  BY <1>1, <1>2, <1>3

LEMMA WakeFacts ==
  ASSUME TypeOK, Wakes
  PROVE  /\ UNCHANGED <<sent, ended, taken, endVars>>
         /\ UNCHANGED <<style, duplex, copied, written, outcome>>
         /\ reset' \in [Ends -> BOOLEAN] /\ heard' \in BOOLEAN /\ called' \in BOOLEAN
         /\ \A e \in Ends : reset[e] => reset'[e]
         /\ called /\ ~called' => reset'["tun"] \/ ~wr["tun"]
         /\ ~called => ~called'
         /\ pc' \in [Dirs -> Places]
         /\ \A d \in Dirs : pc'[d] = pc[d] \/ (pc[d] = "waiting" /\ pc'[d] = "write")
<1>1. UNCHANGED pc \/ Broadcast
  BY DEF Wakes, PeerResets, LocalClosed, CheckState, PcbEnds
<1>2. /\ pc' \in [Dirs -> Places]
      /\ \A d \in Dirs : pc'[d] = pc[d] \/ (pc[d] = "waiting" /\ pc'[d] = "write")
  BY <1>1, Broadcasts DEF TypeOK, Places, InCopy, InWrite
<1>3. /\ UNCHANGED <<sent, ended, taken, endVars>>
      /\ UNCHANGED <<style, duplex, copied, written, outcome>>
  BY DEF Wakes, PeerResets, LocalClosed, CheckState, PcbEnds, peerVars
<1>4. /\ reset' \in [Ends -> BOOLEAN] /\ heard' \in BOOLEAN /\ called' \in BOOLEAN
      /\ \A e \in Ends : reset[e] => reset'[e]
      /\ called /\ ~called' => reset'["tun"] \/ ~wr["tun"]
      /\ ~called => ~called'
  <2> DEFINE
        Freed == called /\ ~called' => reset'["tun"] \/ ~wr["tun"]
        Kept == \A e \in Ends : reset[e] => reset'[e]
        Typed == /\ reset' \in [Ends -> BOOLEAN]
                 /\ heard' \in BOOLEAN /\ called' \in BOOLEAN
        Held == Typed /\ Kept /\ Freed /\ (~called => ~called')
  <2> SUFFICES Held
    OBVIOUS
  <2> USE DEF TypeOK
  <2>1. ASSUME NEW e \in Ends, PeerResets(e) PROVE Held
    BY <2>1 DEF PeerResets
  <2>2. CASE LocalClosed
    BY <2>2 DEF LocalClosed, peerVars
  <2>3. CASE CheckState
    BY <2>3 DEF CheckState, BothHalvesClosed, peerVars
  <2>4. CASE PcbEnds
    BY <2>4 DEF PcbEnds, peerVars
  <2> QED
    BY <2>1, <2>2, <2>3, <2>4 DEF Wakes
<1> QED
  BY <1>2, <1>3, <1>4

LEMMA WriteFacts ==
  ASSUME NEW d \in Dirs, Writes(d)
  PROVE  /\ UNCHANGED <<peerVars, lwipVars, endVars, style, duplex, copied, outcome>>
         /\ pc[d] \in InWrite /\ wr[To(d)] /\ Room(d)
         /\ written' = [written EXCEPT ![d] = @ + 1]
         /\ pc' = [pc EXCEPT ![d] = "copy"]
  BY DEF Writes, SocketWrites, WriteEnqueues, Written, Goto, InWrite

LEMMA MoveFacts ==
  ASSUME NEW d \in Dirs, Moves(d)
  PROVE  /\ UNCHANGED <<peerVars, lwipVars, endVars>>
         /\ UNCHANGED <<style, duplex, copied, written, outcome>>
         /\ pc[d] \in InWrite
         /\ \E place \in InWrite : pc' = [pc EXCEPT ![d] = place]
  BY DEF Moves, WriteFindsFull, WriteWaits, WriteChecks, Goto, InWrite

LEMMA FailFacts ==
  ASSUME NEW d \in Dirs, Fails(d)
  PROVE  /\ UNCHANGED <<peerVars, lwipVars, endVars, style, duplex, copied, written>>
         /\ pc[d] \in InWrite
         /\ outcome' = [outcome EXCEPT ![d] = "error"]
         /\ pc' = [pc EXCEPT ![d] = "tun"]
  BY DEF Fails, SocketFails, WriteFails, WriteChecks, CopyReturns, Goto, InWrite

\* A direction that is broken stays so: resets and errors are not taken back.
LEMMA BrokenStays ==
  ASSUME IInv, [Next]_vars, NEW d \in Dirs, Broken(d)
  PROVE  Broken(d)'
<1> USE DEF Broken, Interrupts
<1>1. /\ \A e \in Ends : reset[e] => reset'[e]
      /\ style' = style /\ duplex' = duplex
      /\ \A o \in Dirs : outcome[o] # "more" => outcome'[o] = outcome[o]
  <2> DEFINE Kept == /\ \A e \in Ends : reset[e] => reset'[e]
                     /\ style' = style /\ duplex' = duplex
                     /\ \A o \in Dirs : outcome[o] # "more" => outcome'[o] = outcome[o]
  <2> USE DEF IInv, TypeOK, OutcomeOK, InCopy
  <2>1. CASE UNCHANGED vars
    BY <2>1 DEF vars, peerVars, relayVars
  <2>2. CASE PeerMoves
    BY <2>2, PeerMoveFacts DEF relayVars
  <2>3. CASE Wakes
    BY <2>3, WakeFacts
  <2>4. ASSUME NEW o \in Dirs, CopyReads(o) \/ Writes(o) \/ Moves(o) \/ Closings(o) \/ Meet(o)
        PROVE  Kept
    <3>1. UNCHANGED <<reset, style, duplex, outcome>>
      BY <2>4, WriteFacts, MoveFacts
         DEF CopyReads, Closings, CloseTun, CloseRemote, Meet, CloseEnd, peerVars
    <3> QED
      BY <3>1
  <2>5. ASSUME NEW o \in Dirs, CopyReadEnds(o) \/ Fails(o)
        PROVE  Kept
    <3>1. /\ UNCHANGED <<reset, style, duplex>> /\ outcome[o] = "more"
          /\ \A other \in Dirs : other # o => outcome'[other] = outcome[other]
      BY <2>5, FailFacts DEF CopyReadEnds, CopyReturns, peerVars
    <3> QED
      BY <3>1
  <2> QED
    BY <2>1, <2>2, <2>3, <2>4, <2>5, StepCases
<1> QED
  BY <1>1, Zenon DEF Ends

\* Closing an end touches the ends only.
LEMMA EndCloses ==
  ASSUME TypeOK, NEW d \in Dirs, Closings(d)
  PROVE  /\ rd' \in [Ends -> BOOLEAN] /\ wr' \in [Ends -> BOOLEAN]
         /\ UNCHANGED <<peerVars, lwipVars, style, duplex, copied, written, outcome>>
         /\ pc[d] \in {"tun", "remote"}
         /\ \E place \in {"remote", "meet", "done"} : pc' = [pc EXCEPT ![d] = place]
<1>1. rd \in [Ends -> BOOLEAN] /\ wr \in [Ends -> BOOLEAN]
  BY DEF TypeOK
<1>2. PICK e \in Ends : CloseEnd(d, e)
  BY DEF Closings, CloseTun, CloseRemote
<1>3. rd' \in [Ends -> BOOLEAN] /\ wr' \in [Ends -> BOOLEAN]
  <2>1. CASE Interrupts(d)
    BY <1>1, <1>2, <2>1 DEF CloseEnd, CloseBoth
  <2>2. CASE ~Interrupts(d)
    BY <1>1, <1>2, <2>2 DEF CloseEnd, HalfClose
  <2> QED
    BY <2>1, <2>2
<1>4. /\ pc[d] \in {"tun", "remote"}
      /\ \E place \in {"remote", "meet", "done"} : pc' = [pc EXCEPT ![d] = place]
  BY DEF Closings, CloseTun, CloseRemote, Goto
<1> QED
  BY <1>2, <1>3, <1>4 DEF CloseEnd

\* A step that closes an end: its direction's copy has returned, and what it closes
\* of the other direction it closes only when both are interrupted.
LEMMA Closes ==
  ASSUME IInv, NEW o \in Dirs, Closings(o)
  PROVE  /\ outcome[o] # "more"
         /\ UNCHANGED <<peerVars, lwipVars, style, duplex, copied, written, outcome>>
         /\ \A e \in Ends :
              /\ e # From(o) => rd'[e] = rd[e] \/ Interrupts(o)
              /\ e # To(o) => wr'[e] = wr[e] \/ Interrupts(o)
              /\ ~wr[e] => ~wr'[e]
<1> USE DEF IInv, TypeOK
<1>1. PICK e \in Ends : CloseEnd(o, e)
  BY DEF Closings, CloseTun, CloseRemote
<1>2. outcome[o] # "more"
  BY EndCloses DEF OutcomeOK, InCopy, InWrite
<1>3. UNCHANGED <<peerVars, lwipVars, style, duplex, copied, written, outcome>>
  BY <1>1 DEF CloseEnd
<1>4. Interrupts(o) \/ HalfClose(o, e)
  BY <1>1 DEF CloseEnd
<1>5. \A end \in Ends : ~wr[end] => ~wr'[end]
  BY <1>1 DEF CloseEnd, CloseBoth, HalfClose
<1> QED
  BY <1>2, <1>3, <1>4, <1>5 DEF HalfClose

-----------------------------------------------------------------------------
(* The invariant is inductive.                                             *)

LEMMA TypeStep == IInv /\ [Next]_vars => TypeOK'
<1> SUFFICES ASSUME IInv, [Next]_vars PROVE TypeOK'
  OBVIOUS
<1> USE BoundsAssumption
    DEF IInv, TypeOK, UnitsOK, peerVars, lwipVars, endVars, relayVars, InWrite
<1>1. CASE UNCHANGED vars
  BY <1>1 DEF vars
<1>2. CASE PeerMoves
  BY <1>2, PeerMoveFacts
<1>3. CASE Wakes
  BY <1>3, WakeFacts DEF Places, InCopy
<1>4. ASSUME NEW d \in Dirs, CopyReads(d) PROVE TypeOK'
  BY <1>4 DEF CopyReads, Goto
<1>5. ASSUME NEW d \in Dirs, CopyReadEnds(d) PROVE TypeOK'
  BY <1>5 DEF CopyReadEnds, CopyReturns, Goto
<1>6. ASSUME NEW d \in Dirs, Writes(d) PROVE TypeOK'
  <2>1. written[d] < MaxData
    BY <1>6, WriteFacts
  <2> QED
    BY <1>6, <2>1, WriteFacts DEF Room
<1>7. ASSUME NEW d \in Dirs, Moves(d) PROVE TypeOK'
  BY <1>7, MoveFacts
<1>8. ASSUME NEW d \in Dirs, Fails(d) PROVE TypeOK'
  BY <1>8, FailFacts
<1>9. ASSUME NEW d \in Dirs, Closings(d) PROVE TypeOK'
  BY <1>9, EndCloses
<1>10. ASSUME NEW d \in Dirs, Meet(d) PROVE TypeOK'
  BY <1>10 DEF Meet, Meets
<1> QED
  BY <1>1, <1>2, <1>3, <1>4, <1>5, <1>6, <1>7, <1>8, <1>9, <1>10, StepCases

LEMMA UnitsStep ==
  ASSUME IInv, [Next]_vars, NEW d \in Dirs
  PROVE  UnitsOK(d)' /\ OutcomeOK(d)'
<1> USE BoundsAssumption
    DEF IInv, TypeOK, UnitsOK, OutcomeOK, InCopy, InWrite, peerVars, relayVars
<1>1. CASE UNCHANGED vars
  BY <1>1 DEF vars
<1>2. CASE PeerMoves
  BY <1>2, PeerMoveFacts
<1>3. CASE Wakes
  BY <1>3, WakeFacts
<1>4. ASSUME NEW o \in Dirs, CopyReads(o) PROVE UnitsOK(d)' /\ OutcomeOK(d)'
  BY <1>4 DEF CopyReads, Goto
<1>5. ASSUME NEW o \in Dirs, CopyReadEnds(o) PROVE UnitsOK(d)' /\ OutcomeOK(d)'
  BY <1>5 DEF CopyReadEnds, CopyReturns, Goto
<1>6. ASSUME NEW o \in Dirs, Writes(o) PROVE UnitsOK(d)' /\ OutcomeOK(d)'
  BY <1>6, WriteFacts
<1>7. ASSUME NEW o \in Dirs, Moves(o) PROVE UnitsOK(d)' /\ OutcomeOK(d)'
  BY <1>7, MoveFacts
<1>8. ASSUME NEW o \in Dirs, Fails(o) PROVE UnitsOK(d)' /\ OutcomeOK(d)'
  BY <1>8, FailFacts
<1>9. ASSUME NEW o \in Dirs, Closings(o) PROVE UnitsOK(d)' /\ OutcomeOK(d)'
  BY <1>9, EndCloses
<1>10. ASSUME NEW o \in Dirs, Meet(o) PROVE UnitsOK(d)' /\ OutcomeOK(d)'
  BY <1>10 DEF Meet, Meets
<1> QED
  BY <1>1, <1>2, <1>3, <1>4, <1>5, <1>6, <1>7, <1>8, <1>9, <1>10, StepCases

LEMMA EndStep ==
  ASSUME IInv, [Next]_vars, NEW d \in Dirs
  PROVE  EndOK(d)'
<1> USE DEF IInv, TypeOK, EndOK
<1>1. Broken(d) => Broken(d)'
  BY BrokenStays
<1>2. CASE UNCHANGED vars
  BY <1>1, <1>2 DEF vars, peerVars, endVars, relayVars
<1>3. CASE PeerMoves
  BY <1>1, <1>3, PeerMoveFacts DEF endVars, relayVars
<1>4. CASE Wakes
  BY <1>1, <1>4, WakeFacts DEF endVars
<1>5. ASSUME NEW o \in Dirs, CopyReads(o) \/ Moves(o) \/ Meet(o) PROVE EndOK(d)'
  BY <1>1, <1>5, MoveFacts DEF CopyReads, Meet, peerVars, endVars
<1>6. ASSUME NEW o \in Dirs, CopyReadEnds(o) PROVE EndOK(d)'
  <2>1. UNCHANGED <<sent, ended, reset, rd, written>>
    BY <1>6 DEF CopyReadEnds, peerVars, endVars
  <2>2. CASE o = d
    <3>1. outcome[d] = "more" /\ copied[d] = written[d]
      BY <1>6, <2>2 DEF CopyReadEnds, UnitsOK, OutcomeOK, InCopy
    <3>2. outcome'[d] # "more"
      BY <1>6, <2>2 DEF CopyReadEnds, CopyReturns
    <3>3. Broken(d) \/ (ended[d] /\ copied[d] = sent[d]) \/ outcome'[d] = "error"
      BY <1>6, <2>2, <3>1 DEF CopyReadEnds, CopyReturns, SeesEnd, Broken
    <3> QED
      BY <1>1, <2>1, <3>1, <3>2, <3>3
  <2>3. CASE o # d
    <3>1. outcome'[d] = outcome[d]
      BY <1>6, <2>3 DEF CopyReadEnds, CopyReturns
    <3> QED
      BY <1>1, <2>1, <3>1
  <2> QED
    BY <2>2, <2>3
<1>7. ASSUME NEW o \in Dirs, Writes(o) PROVE EndOK(d)'
  <2>1. UNCHANGED <<sent, ended, rd, outcome>> /\ outcome[o] = "more"
    BY <1>7, WriteFacts DEF OutcomeOK, InCopy, peerVars, endVars
  <2>2. outcome[d] # "more" => written'[d] = written[d]
    BY <1>7, <2>1, WriteFacts
  <2> QED
    BY <1>1, <2>1, <2>2
<1>8. ASSUME NEW o \in Dirs, Fails(o) PROVE EndOK(d)'
  <2>1. UNCHANGED <<sent, ended, rd, written>>
    BY <1>8, FailFacts DEF peerVars, endVars
  <2>2. outcome'[d] = outcome[d] \/ outcome'[d] = "error"
    BY <1>8, FailFacts
  <2> QED
    BY <1>1, <2>1, <2>2
<1>9. ASSUME NEW o \in Dirs, Closings(o) PROVE EndOK(d)'
  <2>1. UNCHANGED <<sent, ended, written, outcome>> /\ outcome[o] # "more"
    BY <1>9, Closes DEF peerVars
  <2>2. o # d => rd'[From(d)] = rd[From(d)] \/ Broken(d)
    BY <1>9, Closes DEF Broken
  <2> QED
    BY <1>1, <2>1, <2>2
<1> QED
  BY <1>2, <1>3, <1>4, <1>5, <1>6, <1>7, <1>8, <1>9, StepCases

\* Who lets go of the TUN end, and who closes its writing side.
LEMMA CalledStep == IInv /\ [Next]_vars => CalledOK'
<1> SUFFICES ASSUME IInv, [Next]_vars PROVE CalledOK'
  OBVIOUS
<1> USE DEF IInv, TypeOK, CalledOK, UplinkInterrupted
<1>1. CASE UNCHANGED vars
  BY <1>1 DEF vars, peerVars, lwipVars, endVars, relayVars, Interrupts
<1>2. CASE PeerMoves
  BY <1>2, PeerMoveFacts DEF lwipVars, endVars, relayVars, Interrupts
<1>3. CASE Wakes
  BY <1>3, WakeFacts DEF endVars, Interrupts
<1>4. ASSUME NEW o \in Dirs, CopyReads(o) \/ Writes(o) \/ Moves(o) \/ Meet(o)
      PROVE  CalledOK'
  <2>1. UNCHANGED <<reset, called, wr, style, duplex, outcome>>
    BY <1>4, WriteFacts, MoveFacts DEF CopyReads, Meet, peerVars, lwipVars, endVars
  <2> QED
    BY <2>1 DEF Interrupts
<1>5. ASSUME NEW o \in Dirs, CopyReadEnds(o) \/ Fails(o)
      PROVE  CalledOK'
  <2>1. /\ UNCHANGED <<reset, called, wr, style, duplex>> /\ outcome[o] = "more"
        /\ \A other \in Dirs : other # o => outcome'[other] = outcome[other]
        /\ outcome'[o] # "more"
    BY <1>5, FailFacts
       DEF CopyReadEnds, CopyReturns, OutcomeOK, InCopy, peerVars, lwipVars, endVars
  <2> QED
    BY <2>1 DEF Interrupts
<1>6. ASSUME NEW o \in Dirs, Closings(o) PROVE CalledOK'
  <2>1. /\ UNCHANGED <<reset, called, style, duplex, outcome>> /\ outcome[o] # "more"
        /\ ~wr["tun"] => ~wr'["tun"]
        /\ o = "up" => wr'["tun"] = wr["tun"] \/ Interrupts(o)
    BY <1>6, Closes DEF peerVars, lwipVars
  <2>2. CASE o = "down"
    BY <2>1, <2>2 DEF Interrupts
  <2>3. CASE o = "up"
    BY <2>1, <2>3 DEF Interrupts
  <2> QED
    BY <2>2, <2>3
<1> QED
  BY <1>1, <1>2, <1>3, <1>4, <1>5, <1>6, StepCases

LEMMA Inductive == IInv /\ [Next]_vars => IInv'
<1> SUFFICES ASSUME IInv, [Next]_vars PROVE IInv'
  OBVIOUS
<1>1. TypeOK' /\ CalledOK'
  BY TypeStep, CalledStep
<1>2. ASSUME NEW d \in Dirs PROVE (UnitsOK(d) /\ OutcomeOK(d) /\ EndOK(d))'
  BY UnitsStep, EndStep
<1> QED
  BY <1>1, <1>2 DEF IInv

LEMMA Initial == Init => IInv
<1> SUFFICES ASSUME Init PROVE IInv
  OBVIOUS
<1>1. TypeOK
  <2>1. duplex \in BOOLEAN
    BY DEF Init
  <2>2. 0 \in 0..MaxData /\ 0 - 0 <= Window
    BY BoundsAssumption
  <2>3. \A d \in Dirs : written[d] - taken[d] <= Window
    BY <2>2 DEF Init
  <2> QED
    BY <2>1, <2>2, <2>3, Zenon DEF Init, TypeOK
<1>2. ASSUME NEW d \in Dirs PROVE UnitsOK(d) /\ OutcomeOK(d) /\ EndOK(d)
  BY DEF Init, UnitsOK, OutcomeOK, EndOK, InCopy, InWrite
<1>3. CalledOK
  BY DEF Init, CalledOK
<1> QED
  BY <1>1, <1>2, <1>3 DEF IInv

LEMMA Invariant == Spec => []IInv
  BY Initial, Inductive, PTL DEF Spec

\* Every variable has its type.
THEOREM TypeCorrect == Spec => []TypeOK
<1>1. IInv => TypeOK
  BY DEF IInv
<1> QED
  BY <1>1, Invariant, PTL

\* A downlink's Write (Wait, core/tcp_conn.go) sleeps on a TUN end that lwIP no longer
\* calls back only after a reset or an interrupt by the uplink (cls, proxy/socks/tcp.go).
THEOREM Sleeps == Spec => []SleepsOnlyAfterInterrupt
<1>1. IInv => SleepsOnlyAfterInterrupt
  BY DEF IInv, CalledOK, UplinkInterrupted, OutcomeOK, InCopy, InWrite, Asleep,
         SleepsOnlyAfterInterrupt
<1> QED
  BY <1>1, Invariant, PTL

-----------------------------------------------------------------------------
(* Each direction is a stream.                                             *)

\* The steps of UplinkStream, of direction d.
StreamSends(d) ==
  /\ ~ended[d] /\ sent'[d] >= sent[d] /\ ended'[d] \in BOOLEAN
  /\ written'[d] = written[d] /\ Broken(d)' = Broken(d) /\ wr'[To(d)] = wr[To(d)]

StreamDelivers(d) ==
  /\ wr[To(d)] /\ written[d] < sent[d] /\ written'[d] = written[d] + 1
  /\ sent'[d] = sent[d] /\ ended'[d] = ended[d]
  /\ Broken(d)' = Broken(d) /\ wr'[To(d)] = wr[To(d)]

StreamEnds(d) ==
  /\ wr[To(d)] /\ ~wr'[To(d)] /\ (Broken(d) \/ (ended[d] /\ written[d] = sent[d]))
  /\ sent'[d] = sent[d] /\ ended'[d] = ended[d] /\ written'[d] = written[d]
  /\ Broken(d)' = Broken(d)

\* Nothing changes, or only whether the stream is broken.
StreamRests(d) ==
  /\ sent'[d] = sent[d] /\ ended'[d] = ended[d] /\ written'[d] = written[d]
  /\ wr'[To(d)] = wr[To(d)]

StreamStep(d) ==
  StreamSends(d) \/ StreamDelivers(d) \/ StreamEnds(d) \/ StreamRests(d)

\* Whatever the two directions do, each of them sees a step of a stream.
LEMMA StreamSteps ==
  ASSUME IInv, [Next]_vars, NEW d \in Dirs
  PROVE  StreamStep(d)
<1> USE DEF IInv, TypeOK
<1>1. ASSUME UNCHANGED <<reset, outcome, style, duplex>>
      PROVE  Broken(d)' = Broken(d)
  BY <1>1 DEF Broken, Interrupts
<1>2. CASE UNCHANGED vars
  BY <1>2 DEF vars, peerVars, endVars, relayVars, StreamStep, StreamRests
<1>3. CASE PeerMoves
  <2>1. PICK o \in Dirs : PeerSends(o) \/ PeerEnds(o) \/ PeerTakes(o)
    BY <1>3 DEF PeerMoves
  <2>2. UNCHANGED <<reset, wr, written, outcome, style, duplex>>
    BY <1>3, PeerMoveFacts DEF endVars, relayVars
  <2>3. CASE sent'[d] = sent[d] /\ ended'[d] = ended[d]
    BY <2>2, <2>3 DEF StreamStep, StreamRests
  <2>4. CASE ~(sent'[d] = sent[d] /\ ended'[d] = ended[d])
    <3>1. ~ended[d]
      BY <2>1, <2>4 DEF PeerSends, PeerEnds, PeerTakes
    <3>2. sent'[d] >= sent[d] /\ ended'[d] \in BOOLEAN
      BY <1>3, PeerMoveFacts, BoundsAssumption
    <3> QED
      BY <1>1, <2>2, <3>1, <3>2 DEF StreamStep, StreamSends
  <2> QED
    BY <2>3, <2>4
<1>4. CASE Wakes
  BY <1>4, WakeFacts DEF endVars, StreamStep, StreamRests
<1>5. ASSUME NEW o \in Dirs, CopyReads(o) \/ CopyReadEnds(o) \/ Moves(o) \/ Fails(o)
                              \/ Meet(o)
      PROVE  StreamStep(d)
  BY <1>5, MoveFacts, FailFacts DEF CopyReads, CopyReadEnds, Meet, peerVars, endVars,
              StreamStep, StreamRests
<1>6. ASSUME NEW o \in Dirs, Writes(o) PROVE StreamStep(d)
  <2>1. UNCHANGED <<sent, ended, wr, reset, outcome, style, duplex>>
    BY <1>6, WriteFacts DEF peerVars, endVars
  <2>2. CASE o = d
    <3>1. wr[To(d)] /\ written'[d] = written[d] + 1
      BY <1>6, <2>2, WriteFacts
    <3>2. written[d] < sent[d]
      BY <1>6, <2>2, WriteFacts, BoundsAssumption DEF UnitsOK
    <3> QED
      BY <1>1, <2>1, <3>1, <3>2 DEF StreamStep, StreamDelivers
  <2>3. CASE o # d
    BY <1>6, <2>1, <2>3, WriteFacts DEF StreamStep, StreamRests
  <2> QED
    BY <2>2, <2>3
<1>7. ASSUME NEW o \in Dirs, Closings(o) PROVE StreamStep(d)
  <2>1. /\ UNCHANGED <<sent, ended, written, reset, outcome, style, duplex>>
        /\ outcome[o] # "more" /\ (~wr[To(d)] => ~wr'[To(d)])
    BY <1>7, Closes DEF peerVars
  <2>2. CASE wr'[To(d)] = wr[To(d)]
    BY <2>1, <2>2 DEF StreamStep, StreamRests
  <2>3. CASE wr'[To(d)] # wr[To(d)]
    <3>0. wr[To(d)] \in BOOLEAN /\ wr'[To(d)] \in BOOLEAN
      BY TypeStep
    <3>1. wr[To(d)] /\ ~wr'[To(d)]
      BY <2>1, <2>3, <3>0
    <3>2. o = d \/ Interrupts(o)
      BY <1>7, <2>3, Closes
    <3>3. Broken(d) \/ (ended[d] /\ written[d] = sent[d])
      BY <2>1, <3>2 DEF EndOK, Broken
    <3> QED
      BY <1>1, <2>1, <3>1, <3>3 DEF StreamStep, StreamEnds
  <2> QED
    BY <2>2, <2>3
<1> QED
  BY <1>2, <1>3, <1>4, <1>5, <1>6, <1>7, StepCases

LEMMA UpStep == IInv /\ [Next]_vars => [UpStream!Next]_(UpStream!vars)
<1> SUFFICES ASSUME IInv, [Next]_vars PROVE [UpStream!Next]_(UpStream!vars)
  OBVIOUS
<1>1. StreamStep("up")
  BY StreamSteps
<1> USE DEF IInv, TypeOK
<1>2. CASE StreamSends("up")
  <2>1. UpStream!Send
    BY <1>2 DEF StreamSends, UpStream!Send
  <2> QED
    BY <2>1 DEF UpStream!Next
<1>3. CASE StreamDelivers("up")
  <2>1. UpStream!Deliver
    BY <1>3 DEF StreamDelivers, UpStream!Deliver
  <2> QED
    BY <2>1 DEF UpStream!Next
<1>4. CASE StreamEnds("up")
  <2>1. UpStream!EndOfFile
    BY <1>4 DEF StreamEnds, UpStream!EndOfFile
  <2> QED
    BY <2>1 DEF UpStream!Next
<1>5. CASE StreamRests("up")
  <2>1. CASE Broken("up")' = Broken("up")
    BY <1>5, <2>1 DEF StreamRests, UpStream!vars
  <2>2. CASE Broken("up")' # Broken("up")
    <3>1. Broken("up")' = ~Broken("up")
      BY <2>2 DEF Broken
    <3>2. UpStream!Disturb
      BY <1>5, <3>1 DEF StreamRests, UpStream!Disturb
    <3> QED
      BY <3>2 DEF UpStream!Next
  <2> QED
    BY <2>1, <2>2
<1> QED
  BY <1>1, <1>2, <1>3, <1>4, <1>5 DEF StreamStep

LEMMA DownStep == IInv /\ [Next]_vars => [DownStream!Next]_(DownStream!vars)
<1> SUFFICES ASSUME IInv, [Next]_vars PROVE [DownStream!Next]_(DownStream!vars)
  OBVIOUS
<1>1. StreamStep("down")
  BY StreamSteps
<1> USE DEF IInv, TypeOK
<1>2. CASE StreamSends("down")
  <2>1. DownStream!Send
    BY <1>2 DEF StreamSends, DownStream!Send
  <2> QED
    BY <2>1 DEF DownStream!Next
<1>3. CASE StreamDelivers("down")
  <2>1. DownStream!Deliver
    BY <1>3 DEF StreamDelivers, DownStream!Deliver
  <2> QED
    BY <2>1 DEF DownStream!Next
<1>4. CASE StreamEnds("down")
  <2>1. DownStream!EndOfFile
    BY <1>4 DEF StreamEnds, DownStream!EndOfFile
  <2> QED
    BY <2>1 DEF DownStream!Next
<1>5. CASE StreamRests("down")
  <2>1. CASE Broken("down")' = Broken("down")
    BY <1>5, <2>1 DEF StreamRests, DownStream!vars
  <2>2. CASE Broken("down")' # Broken("down")
    <3>1. Broken("down")' = ~Broken("down")
      BY <2>2 DEF Broken
    <3>2. DownStream!Disturb
      BY <1>5, <3>1 DEF StreamRests, DownStream!Disturb
    <3> QED
      BY <3>2 DEF DownStream!Next
  <2> QED
    BY <2>1, <2>2
<1> QED
  BY <1>1, <1>2, <1>3, <1>4, <1>5 DEF StreamStep

LEMMA StreamsStart == Init => UpStream!Init /\ DownStream!Init
  BY DEF Init, UpStream!Init, DownStream!Init, Broken, Interrupts

\* Each direction of a relayed connection is a stream: its end is passed on only
\* behind all its data, whatever the other direction does (the two goroutines of
\* relay, proxy/socks/tcp.go, and of Handle, proxy/redirect/tcp.go).
THEOREM Relayed == Spec => StreamsRelayed
<1>1. Spec => UpStream!Spec
  BY StreamsStart, UpStep, Invariant, PTL DEF Spec, UpStream!Spec
<1>2. Spec => DownStream!Spec
  BY StreamsStart, DownStep, Invariant, PTL DEF Spec, DownStream!Spec
<1> QED
  BY <1>1, <1>2 DEF StreamsRelayed

=============================================================================
