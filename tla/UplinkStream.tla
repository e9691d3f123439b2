---------------------------- MODULE UplinkStream ----------------------------
(***************************************************************************)
(* What core promises the handler that reads a TCP connection: the units   *)
(* the local peer sent, each once and in order, then EOF - and no EOF that *)
(* cuts the stream short while the connection is intact.                   *)
(***************************************************************************)
EXTENDS Naturals

VARIABLES
  sent,      \* units the peer sent and lwIP took over
  ended,     \* the peer ended its stream
  delivered, \* units handed to the reader
  broken,    \* the connection was torn down or is being aborted
  result     \* what the reader knows: "more", "eof" or "error"

vars == <<sent, ended, delivered, broken, result>>

Init ==
  /\ sent = 0 /\ ended = FALSE /\ delivered = 0
  /\ broken = FALSE /\ result = "more"

\* A segment of the peer: the next units, the end of the stream, or both.
Send ==
  /\ ~ended
  /\ sent' >= sent /\ ended' \in BOOLEAN
  /\ UNCHANGED <<delivered, broken, result>>

Deliver ==
  /\ result = "more" /\ delivered < sent
  /\ delivered' = delivered + 1
  /\ UNCHANGED <<sent, ended, broken, result>>

EndOfFile ==
  /\ result = "more"
  /\ broken \/ (ended /\ delivered = sent)
  /\ result' = "eof"
  /\ UNCHANGED <<sent, ended, delivered, broken>>

\* The reader learns of a failure, or that both directions are closed.
Fail ==
  /\ result = "more"
  /\ broken \/ (ended /\ delivered = sent)
  /\ result' = "error"
  /\ UNCHANGED <<sent, ended, delivered, broken>>

Disturb ==
  /\ broken' = ~broken
  /\ UNCHANGED <<sent, ended, delivered, result>>

Next == Send \/ Deliver \/ EndOfFile \/ Fail \/ Disturb

Spec == Init /\ [][Next]_vars

=============================================================================
