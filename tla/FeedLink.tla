------------------------------ MODULE FeedLink ------------------------------
(***************************************************************************)
(* The collector, scripts/feed_bridge.py, and the connection on which it   *)
(* sends lines to the engine, net/pt_feed_bridge.c.  The collector         *)
(* announces the market to trade, forwards what the exchanges send, and    *)
(* reports the resolution of markets that are over.  Either side's writes  *)
(* and reads go on while the other fails: the engine crashes and restarts, *)
(* the connection breaks.                                                  *)
(*                                                                         *)
(* A line is cut into pieces; a read returns any number of them.           *)
(***************************************************************************)
EXTENDS Naturals, Sequences, SequencesExt

CONSTANTS
  Markets, NoMarket,
  ReadMax,     \* pieces read at once (4096 bytes in the code)
  BufMax,      \* pieces the buffer holds (65535 bytes in the code)
  MaxConnects, \* bound: connect_to_engine tasks at a time
  MaxQueue,    \* bound: pieces on the way in a connection
  MaxFaults    \* bound: crashes of the engine and losses of the connection

ASSUME FeedLinkAssumption ==
  /\ NoMarket \notin Markets
  /\ ReadMax \in Nat \ {0} /\ BufMax \in Nat /\ BufMax > ReadMax
  /\ MaxConnects \in Nat \ {0} /\ MaxQueue \in Nat /\ MaxFaults \in Nat

VARIABLES
  active,      \* active_market
  pending,     \* pending_resolutions
  over,        \* history: markets that were active and are not any more
  writer,      \* engine_writer: "none", "open", on a connection the engine has left ("dead"),
               \* or one that will raise an exception ("reset")
  connecting,  \* how many connect_to_engine tasks run
  up,          \* the engine runs
  backlog,     \* connections not yet accepted: what was written to each
  client,      \* client_fd, and what was written to it and not yet read
  buf,         \* the engine's buffer
  heard,       \* the lines the last read dispatched
  known,       \* the markets in the engine's registry
  session,     \* history: changes with client_fd
  faults

collector_vars == <<active, pending, over>>
engine_vars == <<up, client, buf, heard, known, session>>
feed_vars == <<collector_vars, writer, connecting, backlog, engine_vars, faults>>

\* A "book" is a message longer than the buffer.
Messages ==
  [kind : {"discovery", "resolution"}, market : Markets]
    \cup [kind : {"tick", "book"}, market : {NoMarket}]

Discovery(m) == [kind |-> "discovery", market |-> m]

Resolution(m) == [kind |-> "resolution", market |-> m]

FeedMessage(kind) == [kind |-> kind, market |-> NoMarket]

\* A line that is not longer than this is safe: its beginning and a read fit into the buffer.
Pieces(msg) ==
  CASE msg.kind = "tick" -> 1
    [] msg.kind = "book" -> BufMax + 1
    [] OTHER             -> BufMax - ReadMax + 1

Line(msg) == [i \in 1 .. Pieces(msg) |-> [msg |-> msg, at |-> i]]

Piece == [msg : Messages, at : Nat \ {0}]

NoClient == [open |-> FALSE, inq |-> <<>>]

FeedTypeOK ==
  /\ active \in Markets \cup {NoMarket}
  /\ pending \subseteq over /\ over \subseteq Markets
  /\ writer \in {"none", "open", "dead", "reset"}
  /\ connecting \in 0 .. MaxConnects
  /\ writer = "none" => connecting > 0
  /\ up \in BOOLEAN
  /\ backlog \in Seq(Seq(Piece))
  /\ client.open \in BOOLEAN /\ client.inq \in Seq(Piece)
  /\ writer = "open" => up /\ (client.open \/ backlog # <<>>)
  /\ buf \in Seq(Piece) /\ Len(buf) <= BufMax
  /\ known \subseteq Markets
  /\ session \in {0, 1}
  /\ faults \in Nat

\* start() connects before anything else.
FeedInit ==
  /\ active = NoMarket /\ pending = {} /\ over = {}
  /\ writer = "none" /\ connecting = 1
  /\ up = TRUE
  /\ backlog = <<>>
  /\ client = NoClient /\ buf = <<>> /\ heard = <<>> /\ known = {}
  /\ session = 0 /\ faults = 0

-----------------------------------------------------------------------------
(* The collector                                                           *)

\* Seeded fault: a reconnect does not announce the market again.
SilentConnect(m) == <<>>

Greeting(m) == IF m = NoMarket THEN <<>> ELSE Line(Discovery(m))

\* An iteration of connect_to_engine that succeeds; while the engine is down it is retried.
\* The announcement is written before any other task runs.
ConnectToEngine ==
  /\ connecting > 0
  /\ up
  /\ connecting' = connecting - 1
  /\ writer' = "open"
  /\ backlog' = Append(backlog, Greeting(active))
  /\ UNCHANGED <<collector_vars, engine_vars, faults>>

\* Where an open writer's pieces go: to the connection made last.
Written(pieces) ==
  /\ writer = "open"
  /\ IF backlog = <<>>
     THEN /\ client' = [client EXCEPT !.inq = @ \o pieces]
          /\ Len(client'.inq) <= MaxQueue
          /\ UNCHANGED backlog
     ELSE /\ backlog' = [backlog EXCEPT ![Len(backlog)] = @ \o pieces]
          /\ Len(Last(backlog')) <= MaxQueue
          /\ UNCHANGED client
  /\ UNCHANGED <<writer, connecting>>

\* Several tasks may be waiting in drain when the connection fails; each starts a connect.
Raised ==
  /\ writer \in {"dead", "reset"}
  /\ writer' = "none"
  /\ connecting' \in {connecting + 1, connecting + 2} \cap 1 .. MaxConnects
  /\ UNCHANGED <<backlog, client>>

\* The first write to a connection the engine has left may still go unnoticed.
Unnoticed ==
  /\ writer = "dead"
  /\ writer' = "reset"
  /\ UNCHANGED <<connecting, backlog, client>>

\* send_to_engine: without a writer the message is dropped.
Send(msg) ==
  /\ \/ Written(Line(msg))
     \/ Raised
     \/ Unnoticed
     \/ writer = "none" /\ UNCHANGED <<writer, connecting, backlog, client>>
  /\ UNCHANGED <<up, buf, heard, known, session, faults>>

\* run_discovery_loop: another market is at the top of the list.
NewMarket(m) ==
  /\ m \notin over \cup {active}
  /\ active' = m
  /\ pending' = IF active = NoMarket THEN pending ELSE pending \cup {active}
  /\ over' = IF active = NoMarket THEN over ELSE over \cup {active}
  /\ Send(Discovery(m))

MarketExpired ==
  /\ active # NoMarket
  /\ pending' = pending \cup {active}
  /\ over' = over \cup {active}
  /\ active' = NoMarket
  /\ UNCHANGED <<writer, connecting, backlog, engine_vars, faults>>

\* A verified winner is sent, and forgotten whether or not it went anywhere.
ReportResolution(m) ==
  /\ m \in pending
  /\ pending' = pending \ {m}
  /\ UNCHANGED <<active, over>>
  /\ Send(Resolution(m))

\* run_binance_feed and run_polymarket_feed.
Forward(kind) ==
  /\ Send(FeedMessage(kind))
  /\ UNCHANGED collector_vars

-----------------------------------------------------------------------------
(* The engine                                                              *)

Emptied(b) == <<>>

\* on_accept: the connection before is closed.
OnAccept ==
  /\ up
  /\ backlog # <<>>
  /\ client' = [open |-> TRUE, inq |-> Head(backlog)]
  /\ backlog' = Tail(backlog)
  /\ buf' = Emptied(buf)
  /\ heard' = <<>>
  /\ session' = 1 - session
  /\ UNCHANGED <<collector_vars, writer, connecting, up, known, faults>>

IsEnd(p) == p.at = Pieces(p.msg)

\* Where the lines of a sequence of pieces end.
Ends(ps) ==
  LET ends[n \in 0 .. Len(ps)] ==
        IF n = 0 THEN <<>>
        ELSE IF IsEnd(ps[n]) THEN Append(ends[n - 1], n)
        ELSE ends[n - 1]
  IN  ends[Len(ps)]

LastEnd(ps) == IF Ends(ps) = <<>> THEN 0 ELSE Last(Ends(ps))

\* What the parsers make of the pieces up to an end: a message if they are its line.  Of one
\* longer than the buffer they see a tail, which is no message to them.
Parsed(ps) ==
  IF ps = Line(Last(ps).msg) \/ (Last(ps).msg.kind = "book" /\ \A i \in DOMAIN ps : ps[i].msg = Last(ps).msg)
  THEN Last(ps).msg
  ELSE [kind |-> "torn", market |-> NoMarket]

Dispatched(ps) ==
  LET e == Ends(ps)
  IN  [i \in DOMAIN e |-> Parsed(SubSeq(ps, IF i = 1 THEN 1 ELSE e[i - 1] + 1, e[i]))]

\* Seeded fault: a buffer that would overflow takes nothing.
Unread(b, chunk) == IF Len(b) + Len(chunk) > BufMax THEN b ELSE b \o chunk

Buffered(b, chunk) == IF Len(b) + Len(chunk) > BufMax THEN chunk ELSE b \o chunk

\* on_client_data: every complete line is dispatched, the rest moved to the front.
OnClientData(n) ==
  LET got == Buffered(buf, SubSeq(client.inq, 1, n))
  IN  /\ up /\ client.open
      /\ n <= Len(client.inq)
      /\ client' = [client EXCEPT !.inq = SubSeq(@, n + 1, Len(@))]
      /\ heard' = Dispatched(got)
      /\ known' = known \cup {m \in Markets : \E i \in DOMAIN heard' : heard'[i] = Discovery(m)}
      /\ buf' = SubSeq(got, LastEnd(got) + 1, Len(got))
      /\ UNCHANGED <<collector_vars, writer, connecting, up, backlog, session, faults>>

\* The connection is reset: the engine's read fails and it closes the descriptor.
ConnectionLost ==
  /\ faults < MaxFaults
  /\ faults' = faults + 1
  /\ client.open
  /\ client' = NoClient
  /\ heard' = <<>>
  /\ session' = 1 - session
  /\ IF writer = "open" /\ backlog = <<>> THEN writer' \in {"dead", "reset"} ELSE UNCHANGED writer
  /\ UNCHANGED <<collector_vars, connecting, up, backlog, buf, known>>

EngineCrash ==
  /\ faults < MaxFaults
  /\ faults' = faults + 1
  /\ up
  /\ up' = FALSE
  /\ client' = NoClient /\ backlog' = <<>> /\ buf' = <<>> /\ heard' = <<>> /\ known' = {}
  /\ session' = 1 - session
  /\ writer' = IF writer = "open" THEN "dead" ELSE writer
  /\ UNCHANGED <<collector_vars, connecting>>

EngineStart ==
  /\ ~up
  /\ up' = TRUE
  /\ UNCHANGED <<collector_vars, writer, connecting, backlog, client, buf, heard, known,
                 session, faults>>

FeedNext ==
  \/ ConnectToEngine
  \/ \E m \in Markets : NewMarket(m) \/ ReportResolution(m)
  \/ MarketExpired
  \/ \E kind \in {"tick", "book"} : Forward(kind)
  \/ OnAccept
  \/ \E n \in 1 .. ReadMax : OnClientData(n)
  \/ ConnectionLost \/ EngineCrash \/ EngineStart

\* The tasks of the collector run, the exchanges go on sending, the engine polls its sockets
\* and is started again after a crash.
FeedFairness ==
  /\ WF_feed_vars(ConnectToEngine)
  /\ WF_feed_vars(Forward("tick"))
  /\ WF_feed_vars(OnAccept)
  /\ WF_feed_vars(\E n \in 1 .. ReadMax : OnClientData(n))
  /\ WF_feed_vars(EngineStart)

FeedSpec == FeedInit /\ [][FeedNext]_feed_vars /\ FeedFairness

-----------------------------------------------------------------------------

\* The messages whose lines end in what is buffered or on the way.
InTransit ==
  LET ps == buf \o client.inq IN [i \in DOMAIN Ends(ps) |-> ps[Ends(ps)[i]].msg]

Channel == INSTANCE LineChannel
             WITH Lines <- Messages, queue <- IF client.open THEN InTransit ELSE <<>>

\* However the stream is cut into reads, and whatever connections came before, the engine
\* hears every line written to its connection once, whole and in order; only a line longer
\* than the buffer is torn, and takes no other line with it.
LinesHeard == Channel!Spec

\* The market to trade becomes known to the engine, across crashes of the engine, lost
\* connections and announcements sent while there was none, or is no longer the one to trade.
ActiveAnnounced ==
  \A m \in Markets : active = m ~> m \in known \/ active # m

=============================================================================
