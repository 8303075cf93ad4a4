----------------------------- MODULE Recording ------------------------------
(***************************************************************************)
(* One side of a book as the feed changes it, the file in which the engine *)
(* records the feed (storage/pt_dataset.c), and what replay/pt_replay.c    *)
(* makes of that file.  Only the bridge's own book message is recorded;    *)
(* the exchange's snapshots and price changes are not.                     *)
(***************************************************************************)
EXTENDS Book

CONSTANTS
  Prices, LevelSizes,
  Snapshots,    \* what a snapshot may show: sets of levels, one to a price
  MaxRecorded,  \* bound: events recorded by a process
  MaxRuns       \* bound: processes

ASSUME RecordingAssumption ==
  /\ Prices \subseteq Nat \ {0} /\ LevelSizes \subseteq Nat
  /\ \A snap \in Snapshots :
       /\ snap \subseteq [price : Prices, size : LevelSizes]
       /\ \A l, m \in snap : l.price = m.price => l = m
       /\ IsFiniteSet(snap) /\ Cardinality(snap) <= MaxLevels
  /\ MaxRecorded \in Nat /\ MaxRuns \in Nat

VARIABLES
  side,      \* the engine's levels
  fed,       \* history: the size of each price by the feed
  refused,   \* history: prices the full array had no room for
  recorded,  \* the events appended by this process
  disk,      \* the file: the header's total_events, and the events written
  running,
  runs       \* processes started

rec_vars == <<side, fed, refused, recorded, disk, running, runs>>

Event == [price : Nat, size : Nat]

RecTypeOK ==
  /\ side \in Seq(Level) /\ Len(side) <= MaxLevels
  /\ fed \in [Prices -> Nat]
  /\ refused \subseteq Prices
  /\ recorded \in Seq(Event)
  /\ disk.total \in Nat /\ disk.events \in Seq(Event)
  /\ running \in BOOLEAN /\ runs \in Nat

EmptyFile == [total |-> 0, events |-> <<>>]

\* pt_book_init, and pt_dataset_writer_open, which empties the file.
RecInit ==
  /\ side = <<>>
  /\ fed = [p \in Prices |-> 0] /\ refused = {}
  /\ recorded = <<>> /\ disk = EmptyFile
  /\ running = TRUE /\ runs = 1

\* pt_book_update with an absolute size.
Update(price, size) ==
  /\ running
  /\ side' = side_apply(side, price, size, FALSE)
  /\ fed' = [fed EXCEPT ![price] = size]
  /\ refused' = IF Refused(side, price, size) THEN refused \cup {price} ELSE refused \ {price}

\* A price change of the exchange.
PriceChange(price, size) ==
  /\ Update(price, size)
  /\ UNCHANGED <<recorded, disk, running, runs>>

\* The bridge's own message: applied as an absolute size, recorded as a POLY_DELTA.
BookMessage(price, size) ==
  /\ Len(recorded) < MaxRecorded
  /\ Update(price, size)
  /\ recorded' = Append(recorded, [price |-> price, size |-> size])
  /\ UNCHANGED <<disk, running, runs>>

BookSnapshot(levels) ==
  /\ running
  /\ side' = pt_book_snapshot(levels)
  /\ fed' = [p \in Prices |-> IF \E l \in levels : l.price = p
                              THEN (CHOOSE l \in levels : l.price = p).size ELSE 0]
  /\ refused' = {}
  /\ UNCHANGED <<recorded, disk, running, runs>>

\* The C library writes part of its buffer.
Flush ==
  /\ running
  /\ \E n \in Len(disk.events) + 1 .. Len(recorded) :
       disk' = [disk EXCEPT !.events = SubSeq(recorded, 1, n)]
  /\ UNCHANGED <<side, fed, refused, recorded, running, runs>>

\* Seeded fault: the last event is not counted.
LastNotCounted(n) == IF n = 0 THEN 0 ELSE n - 1

TotalOfClose(n) == n

\* pt_dataset_writer_close at shutdown.
CloseRecording ==
  /\ running
  /\ disk' = [total |-> TotalOfClose(Len(recorded)), events |-> recorded]
  /\ running' = FALSE
  /\ UNCHANGED <<side, fed, refused, recorded, runs>>

Crash ==
  /\ running
  /\ running' = FALSE
  /\ UNCHANGED <<side, fed, refused, recorded, disk, runs>>

\* The next process opens the same file anew.
Restart ==
  /\ ~running
  /\ runs < MaxRuns
  /\ runs' = runs + 1
  /\ running' = TRUE
  /\ side' = <<>> /\ fed' = [p \in Prices |-> 0] /\ refused' = {}
  /\ recorded' = <<>> /\ disk' = EmptyFile

RecNext ==
  \/ \E p \in Prices, n \in LevelSizes : PriceChange(p, n) \/ BookMessage(p, n)
  \/ \E levels \in Snapshots : BookSnapshot(levels)
  \/ Flush
  \/ CloseRecording \/ Crash \/ Restart

RecSpec == RecInit /\ [][RecNext]_rec_vars

-----------------------------------------------------------------------------

\* The bisection keeps the array in order and finds every level: the book shows, price by
\* price, what the feed last said, but for prices that came when the array was full.
BookFollowsFeed ==
  /\ \A i, j \in DOMAIN side : i < j => side[i].price < side[j].price
  /\ \A p \in Prices : level_size(side, p) = IF p \in refused THEN 0 ELSE fed[p]

\* pt_dataset_reader_next: as many events as the header says, and the file holds.
Readable == SubSeq(disk.events, 1, disk.total)

\* A replay applies each event as a change of the size.
Replayed ==
  FoldLeft(LAMBDA s, e : side_apply(s, e.price, e.size, TRUE), <<>>, Readable)

\* A file whose writer did not close it replays as nothing, whatever part of it reached the
\* disk.  One that was closed replays every event; but as the sizes are added up no level
\* ever shrinks or goes: the replayed book has every level that was ever recorded.
ReplayAddsUp ==
  Readable # <<>> =>
    /\ ~running /\ Readable = recorded
    /\ \A e \in ToSet(recorded) : e.size > 0 =>
         level_size(Replayed, e.price) >= e.size \/ Len(Replayed) = MaxLevels

=============================================================================
