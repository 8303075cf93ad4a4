---------------------------- MODULE BoundedQueue ----------------------------
(***************************************************************************)
(* What a bounded single-producer single-consumer queue promises: values   *)
(* leave in the order they came, none twice, and one is refused only while *)
(* the queue is full.                                                      *)
(***************************************************************************)
EXTENDS Naturals, Sequences

CONSTANTS
  Data,    \* the values passed
  Bound,   \* how many the queue holds
  NoDatum  \* before the first value is taken

VARIABLES
  queue,   \* the values put and not yet taken
  taken,   \* the value last taken
  refused  \* how many values were refused

Init == queue = <<>> /\ taken = NoDatum /\ refused = 0

Put(v) ==
  /\ Len(queue) < Bound
  /\ queue' = Append(queue, v)
  /\ UNCHANGED <<taken, refused>>

Refuse ==
  /\ Len(queue) = Bound
  /\ refused' = refused + 1
  /\ UNCHANGED <<queue, taken>>

Take ==
  /\ queue # <<>>
  /\ taken' = Head(queue)
  /\ queue' = Tail(queue)
  /\ UNCHANGED refused

Next == (\E v \in Data : Put(v)) \/ Refuse \/ Take

Spec == Init /\ [][Next]_<<queue, taken, refused>>

=============================================================================
