--------------------------- MODULE DownlinkStream ---------------------------
(***************************************************************************)
(* What core promises the handler that writes to a TCP connection: what it *)
(* passes to Write goes to the local peer in that order, each unit once,   *)
(* and the FIN comes behind all of it - unless the connection is torn down *)
(* first.                                                                  *)
(***************************************************************************)
EXTENDS Naturals

VARIABLES
  offered,  \* units the handler has passed to Write
  taken,    \* units in the send buffer or beyond
  buffered, \* units taken and not acknowledged by the peer
  ended,    \* nothing can be taken any more: our FIN is behind the data
  torn      \* the connection is closed in mid-stream, aborted or gone

vars == <<offered, taken, buffered, ended, torn>>

Init ==
  /\ offered = 0 /\ taken = 0 /\ buffered = 0
  /\ ended = FALSE /\ torn = FALSE

Offer ==
  /\ ended => torn
  /\ offered' > offered
  /\ UNCHANGED <<taken, buffered, ended, torn>>

Take ==
  /\ ~ended
  /\ taken < taken' /\ taken' <= offered
  /\ buffered' = buffered + (taken' - taken)
  /\ UNCHANGED <<offered, ended, torn>>

Acknowledge ==
  /\ buffered' < buffered
  /\ UNCHANGED <<offered, taken, ended, torn>>

End ==
  /\ ~ended /\ (torn \/ taken = offered)
  /\ ended' = TRUE
  /\ UNCHANGED <<offered, taken, buffered, torn>>

Disturb ==
  /\ torn' = ~torn
  /\ UNCHANGED <<offered, taken, buffered, ended>>

\* The pcb is gone, with whatever was in its send buffer.
Destroy ==
  /\ ended' = TRUE /\ torn' = TRUE /\ buffered' \in {0, buffered}
  /\ UNCHANGED <<offered, taken>>

Next == Offer \/ Take \/ Acknowledge \/ End \/ Disturb \/ Destroy

Spec == Init /\ [][Next]_vars

=============================================================================
