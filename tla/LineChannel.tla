----------------------------- MODULE LineChannel ----------------------------
(***************************************************************************)
(* What a connection that carries lines promises its reader: every line    *)
(* written is heard once, whole and in order, as long as the connection    *)
(* lives.  What was not heard when it ends is lost.                        *)
(***************************************************************************)
EXTENDS Naturals, Sequences

CONSTANT Lines

VARIABLES
  queue,   \* the lines written to the connection and not yet heard
  heard,   \* the lines heard at once by the last call of the reader
  session  \* changes with the connection

Init == queue = <<>> /\ heard = <<>> /\ session = 0

Write(l) ==
  /\ queue' = Append(queue, l)
  /\ UNCHANGED <<heard, session>>

\* No line at all when what arrived ends inside the first.
Hear(k) ==
  /\ heard' = SubSeq(queue, 1, k)
  /\ queue' = SubSeq(queue, k + 1, Len(queue))
  /\ UNCHANGED session

\* The connection ends, or another takes its place, with what was already written to that.
Change ==
  /\ session' = 1 - session
  /\ queue' \in Seq(Lines)
  /\ heard' = <<>>

Next ==
  \/ \E l \in Lines : Write(l)
  \/ \E k \in 0 .. Len(queue) : Hear(k)
  \/ Change

Spec == Init /\ [][Next]_<<queue, heard, session>>

=============================================================================
