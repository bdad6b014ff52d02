----------------------------- MODULE EventStream -----------------------------
(***************************************************************************)
(* The event stream of one Run: RunEventBroker                             *)
(* (src/src/http/run-event-broker.ts; quick-deck-evaluation-event-broker.ts*)
(* is the same code over another log), the server-sent events of           *)
(* src/src/http/handler.ts and the pages of readEvents                     *)
(* (src/src/adapters/sqlite-repository.ts).                                *)
(*                                                                         *)
(* All subscribers of a Run share one channel, one cursor and one poll of  *)
(* the database.  A client that comes later is first brought up to the     *)
(* cursor of the channel.  SQLite is read without yielding to a timer or   *)
(* to another request, so a subscription and a poll are one action each.   *)
(*                                                                         *)
(* A sequence is the position of an event in log.  What is written to a    *)
(* connection is read by the client later, in order, also after the server *)
(* closed it; a connection that breaks takes with it what was not read.    *)
(* Left out: the contents of events, heartbeats, the delay of the poll.    *)
(***************************************************************************)
EXTENDS Integers, Sequences, FiniteSets

CONSTANTS
  Clients,
  Limit,      \* DEFAULT_EVENT_BATCH_LIMIT; a page may be cut shorter by its bytes
  MaxEvents,  \* bound: the length of the log
  Starts      \* what a client may claim to have read when it comes first

ASSUME StreamAssumption ==
  Limit \in Nat \ {0} /\ MaxEvents \in Nat /\ Starts \subseteq Nat /\ Starts # {}

VARIABLES
  log,      \* the kinds of the events of the Run
  billed,   \* whether the bill of a Run of Usage V2 is closed
  channel,  \* the channel of the Run in the broker
  on,       \* its subscribers
  cursor,   \* by client: the cursor of its subscriber
  wire,     \* by client: written to its connection and not yet read
  seen,     \* by client: the sequence it reconnects with
  read      \* history: by client, the sequences it has read

streamVars == <<log, billed, channel, on, cursor, wire, seen, read>>

Kinds == {"event", "completed", "ended", "resumed"}

\* terminalEventRow: the first event that ends the Run and was not undone by a
\* later run.resumed; run.completed does only once the bill is closed.
Ending == {"ended"} \cup (IF billed THEN {"completed"} ELSE {})
Ends(n) == log[n] \in Ending /\ \A m \in DOMAIN log : m > n => log[m] # "resumed"
IsTerminal(n) == n \in DOMAIN log /\ Ends(n) /\ \A m \in 1..(n - 1) : ~Ends(m)
NoTerminalTo(n) == \A m \in DOMAIN log : m <= n => ~Ends(m)

Closed == [open |-> FALSE, cursor |-> 0]

StreamInit ==
  /\ log = <<>> /\ billed = FALSE
  /\ channel = Closed /\ on = {}
  /\ cursor = [c \in Clients |-> 0]
  /\ wire = [c \in Clients |-> {}]
  /\ seen \in [Clients -> Starts]
  /\ read = [c \in Clients |-> 1..seen[c]]

\* appendEvent.
Publish(kind) ==
  /\ Len(log) < MaxEvents /\ log' = Append(log, kind)
  /\ UNCHANGED <<billed, channel, on, cursor, wire, seen, read>>

\* The bill is closed: a run.completed of the past is terminal from now on.
Settle ==
  /\ ~billed /\ billed' = TRUE
  /\ UNCHANGED <<log, channel, on, cursor, wire, seen, read>>

-----------------------------------------------------------------------------
\* subscribe.

\* The last event of a page that begins before the cursor of the channel.
Reach == IF channel.cursor + Limit - 1 < Len(log) THEN channel.cursor + Limit - 1 ELSE Len(log)

\* A client that has read up to after is brought up to the channel, as far as
\* there are events, ...
CaughtUp(after, upto) ==
  IF after >= channel.cursor THEN upto = after
  ELSE /\ NoTerminalTo(upto)
       /\ \/ upto \in channel.cursor..Reach
          \/ Len(log) < channel.cursor /\ upto = IF after < Len(log) THEN Len(log) ELSE after

\* ... or no subscriber: the end was reached, or its buffer did not take an event.
TurnedAway(after, upto) ==
  /\ after < channel.cursor
  /\ \/ upto = after /\ ~NoTerminalTo(after)
     \/ upto \in (after + 1)..Reach /\ IsTerminal(upto)
     \/ upto \in after..(Reach - 1) /\ NoTerminalTo(upto)

Write(c, upto) ==
  /\ wire' = [wire EXCEPT ![c] = (seen[c] + 1)..upto]
  /\ cursor' = [cursor EXCEPT ![c] = upto]

\* Variant: the first subscriber opens the channel at the end of the log.
OpenAtEnd(c) ==
  /\ c \notin on /\ wire[c] = {} /\ ~channel.open
  /\ channel' = [open |-> TRUE, cursor |-> Len(log)]
  /\ on' = {c} /\ Write(c, seen[c])
  /\ UNCHANGED <<log, billed, seen, read>>

\* The first subscriber opens the channel at its own cursor.
OpenChannel(c) ==
  /\ c \notin on /\ wire[c] = {} /\ ~channel.open
  /\ channel' = [open |-> TRUE, cursor |-> seen[c]]
  /\ on' = {c} /\ Write(c, seen[c])
  /\ UNCHANGED <<log, billed, seen, read>>

\* Variant: a client joins at the cursor of the channel without the events before it.
JoinAtCursor(c) ==
  /\ c \notin on /\ wire[c] = {} /\ channel.open
  /\ on' = on \cup {c} /\ cursor' = [cursor EXCEPT ![c] = channel.cursor]
  /\ UNCHANGED <<log, billed, channel, wire, seen, read>>

Join(c) ==
  /\ c \notin on /\ wire[c] = {} /\ channel.open
  /\ \E upto \in 0..(Len(log) + seen[c]) :
       /\ \/ CaughtUp(seen[c], upto) /\ on' = on \cup {c}
          \/ TurnedAway(seen[c], upto) /\ on' = on
       /\ Write(c, upto)
  /\ UNCHANGED <<log, billed, channel, seen, read>>

-----------------------------------------------------------------------------
\* poll.

\* What a poll has to write to a subscriber, which may not take all of it.
Target(c, last) == IF cursor[c] < last THEN last ELSE cursor[c]

\* The page from the cursor of the channel on, up to the end of the Run.  A
\* subscriber that does not take an event is closed.
PollPage(last) ==
  /\ last \in channel.cursor..(channel.cursor + Limit) /\ last <= Len(log)
  /\ last = channel.cursor => last = Len(log)
  /\ NoTerminalTo(last - 1)
  /\ \E upto \in [on -> 0..(Len(log) + channel.cursor)] :
       /\ \A c \in on : upto[c] \in cursor[c]..Target(c, last)
       /\ wire' = [c \in Clients |-> IF c \in on
                     THEN wire[c] \cup {n \in (channel.cursor + 1)..last : cursor[c] < n /\ n <= upto[c]}
                     ELSE wire[c]]
       /\ cursor' = [c \in Clients |-> IF c \in on THEN upto[c] ELSE cursor[c]]
       /\ on' = IF last > channel.cursor /\ Ends(last) THEN {}
                ELSE {c \in on : upto[c] = Target(c, last)}
  /\ channel' = IF on' = {} THEN Closed ELSE [channel EXCEPT !.cursor = last]

\* The Run has ended at or before the cursor of the channel.
PollEnd ==
  /\ ~NoTerminalTo(channel.cursor)
  /\ on' = {} /\ channel' = Closed
  /\ UNCHANGED <<wire, cursor>>

Poll ==
  /\ channel.open
  /\ PollEnd \/ (NoTerminalTo(channel.cursor) /\ \E last \in 0..Len(log) : PollPage(last))
  /\ UNCHANGED <<log, billed, seen, read>>

-----------------------------------------------------------------------------
\* A read of the database throws, or the service restarts: every stream is closed.
CloseAll ==
  /\ on # {} /\ on' = {} /\ channel' = Closed
  /\ UNCHANGED <<log, billed, cursor, wire, seen, read>>

\* The client reads the next event of its connection.
Receive(c) ==
  /\ \E n \in wire[c] :
       /\ \A m \in wire[c] : n <= m
       /\ wire' = [wire EXCEPT ![c] = @ \ {n}]
       /\ seen' = [seen EXCEPT ![c] = n]
       /\ read' = [read EXCEPT ![c] = @ \cup {n}]
  /\ UNCHANGED <<log, billed, channel, on, cursor>>

\* Variant: the last subscriber leaves its channel open.
DisconnectKeepsChannel(c) ==
  /\ c \in on \/ wire[c] # {}
  /\ wire' = [wire EXCEPT ![c] = {}]
  /\ on' = on \ {c}
  /\ UNCHANGED <<log, billed, channel, cursor, seen, read>>

\* The connection breaks, or the client leaves.
Disconnect(c) ==
  /\ c \in on \/ wire[c] # {}
  /\ wire' = [wire EXCEPT ![c] = {}]
  /\ on' = on \ {c} /\ channel' = IF on' = {} THEN Closed ELSE channel
  /\ UNCHANGED <<log, billed, cursor, seen, read>>

StreamNext ==
  \/ \E kind \in Kinds : Publish(kind)
  \/ Settle \/ Poll \/ CloseAll
  \/ \E c \in Clients : OpenChannel(c) \/ Join(c) \/ Receive(c) \/ Disconnect(c)

StreamSpec == StreamInit /\ [][StreamNext]_streamVars

\* The timer of a channel with subscribers is always set again, and a connected
\* client reads.
FairStreamSpec == StreamSpec /\ WF_streamVars(Poll) /\ \A c \in Clients : WF_streamVars(Receive(c))

-----------------------------------------------------------------------------
\* Every variable holds what the code can put into it; a channel is kept, and its
\* timer set, exactly as long as it has subscribers.  (remove and stop)
StreamTypeOK ==
  /\ log \in Seq(Kinds) /\ Len(log) <= MaxEvents /\ billed \in BOOLEAN
  /\ channel \in [open: BOOLEAN, cursor: Nat] /\ on \subseteq Clients
  /\ channel.open <=> on # {}
  /\ cursor \in [Clients -> Nat] /\ seen \in [Clients -> Nat]
  /\ wire \in [Clients -> SUBSET Nat] /\ read \in [Clients -> SUBSET Nat]

\* However its connections break and its subscriptions share a poll, what a
\* client has read is a prefix of the log: it resumes by sequence without a gap.
\* (README.md:22, subscribe and poll of RunEventBroker)
Feed == INSTANCE EventFeed
ReadsPrefix == Feed!Spec

\* Nothing is written to a connection past the event that ends the Run, and
\* nothing at all once the client has it.  (subscribe and poll, terminalSequence)
EndsAreKept ==
  [][\A c \in Clients : \A n \in wire'[c] \ wire[c] : NoTerminalTo(n - 1)]_streamVars

\* Both: what is sent and read of a Run is its log, in order, up to its end.
\* (RunEventBroker)
ReadsInOrder == ReadsPrefix /\ EndsAreKept

\* A client that stays connected reads every event, whoever else shares the
\* channel.  (poll, the cursor of the channel)
EveryEventIsRead ==
  \A c \in Clients, n \in 1..MaxEvents :
    c \in on /\ n <= Len(log) ~> n \in read[c] \/ c \notin on
=============================================================================
