----------------------------- MODULE EventStream -----------------------------
(***************************************************************************)
(* How a client follows a migration: the events the coordinator stores and *)
(* announces, the handler that streams them (GET .../events), and the      *)
(* SDK's watch(), which reads the stream, reconnects with the last id it   *)
(* has seen, and falls back to polling the migration's row.                *)
(*                                                                         *)
(* An event is its sequence number; log gives its kind.  The row changes   *)
(* in the transaction that stores the event, so the row's phase is the     *)
(* last event's.  There is one watch, and at most one open stream.         *)
(***************************************************************************)
EXTENDS Naturals, Sequences

CONSTANTS
    MaxReconnects,   \* maxSseReconnects
    MaxEvents,       \* bound: events of the migration
    MaxKills,        \* bound: runners killed between a commit and its broadcast
    MaxFaults        \* bound: connections that end, break or are refused, and crashes

ASSUME EventStreamBounds == /\ MaxReconnects \in Nat /\ MaxEvents \in Nat \ {0}
                            /\ MaxKills \in Nat /\ MaxFaults \in Nat

VARIABLES
    log,         \* log[s]: the kind of event s, in the table
    unsent,      \* the stored events whose process has not broadcast them yet
    silent,      \* the events that never were, or will be, broadcast (history)
    stream,      \* the handler of the open stream
    mailbox,     \* its messages: the events broadcast since it subscribed
    conn, wire,  \* the connection, and the events on it
    client,      \* what watch() is doing
    seen,        \* what watch() has yielded (history)
    kills, faults

coordinator == <<log, unsent, silent>>
handler     == <<stream, mailbox>>
streamVars  == <<coordinator, handler, conn, wire, client, seen, kills, faults>>

Kinds          == {"progress", "done", "failed"}
Terminal(kind) == kind # "progress"
Phase          == log[Len(log)]

Events == 1..MaxEvents
NoStream == [at |-> "gone", phase |-> "progress", seq |-> 0, subscribed |-> FALSE]

EventStreamTypeOK ==
    /\ log \in Seq(Kinds) /\ Len(log) \in Events
    /\ unsent \subseteq 1..Len(log)
    /\ silent \subseteq 1..Len(log)
    /\ stream \in [at : {"lookup", "subscribe", "backlog", "live", "gone"}, phase : Kinds,
                   seq : 0..Len(log), subscribed : BOOLEAN]
    /\ mailbox \in Seq(1..Len(log))
    /\ conn \in {"closed", "opening", "open", "ended", "broken"}
    /\ wire \in Seq(1..Len(log))
    /\ client \in [at : {"connect", "read", "poll", "returned", "failed", "threw"},
                   lastId : 0..Len(log), reconnects : 0..(MaxReconnects + 1),
                   polled : 0..Len(log)]
    /\ seen \in Seq([seq : 1..Len(log), from : {"stream", "poll"}])
    /\ kills \in 0..MaxKills
    /\ faults \in 0..MaxFaults

\* The migration is stored; the process that stored it has yet to announce it. (A client can
\* know the migration already: the answer to a repeated request names it.)
EventStreamInit ==
    /\ log = <<"progress">> /\ unsent = {1} /\ silent = {}
    /\ stream = NoStream /\ mailbox = <<>>
    /\ conn = "closed" /\ wire = <<>>
    /\ client = [at |-> "connect", lastId |-> 0, reconnects |-> 0, polled |-> 0]
    /\ seen = <<>>
    /\ kills = 0 /\ faults = 0

-----------------------------------------------------------------------------
(* The coordinator's events.                                               *)

\* A transaction of the runner. It has announced its last event; the event of the start is
\* announced by another process.
StoreEvent ==
    /\ ~Terminal(Phase) /\ Len(log) < MaxEvents
    /\ unsent \subseteq {1}
    /\ \E kind \in Kinds : log' = Append(log, kind)
    /\ unsent' = unsent \cup {Len(log')}
    /\ UNCHANGED <<silent, handler, conn, wire, client, seen, kills, faults>>

\* Events.after_start and after_event.
Broadcast ==
    \E s \in unsent :
        /\ unsent' = unsent \ {s}
        /\ mailbox' = IF stream.subscribed THEN Append(mailbox, s) ELSE mailbox
        /\ UNCHANGED <<log, silent, stream, conn, wire, client, seen, kills, faults>>

\* The runner dies with its supervisor. The one that follows it starts from the row.
RunnerKilled ==
    \E s \in unsent \ {1} :
        /\ kills < MaxKills
        /\ kills' = kills + 1
        /\ unsent' = unsent \ {s}
        /\ silent' = silent \cup {s}
        /\ UNCHANGED <<log, handler, conn, wire, client, seen, faults>>

-----------------------------------------------------------------------------
(* The handler of a stream.                                                *)

\* Mutant: the backlog is read before the handler subscribes.
MutantSteps == <<"lookup", "backlog", "subscribe", "live">>

\* The order of its steps.
Steps == <<"lookup", "subscribe", "backlog", "live">>

After(step) == Steps[1 + CHOOSE i \in 1..3 : Steps[i] = step]

LookUp ==
    /\ stream.at = "lookup"
    /\ stream' = [stream EXCEPT !.at = After("lookup"), !.phase = Phase]
    /\ UNCHANGED <<coordinator, mailbox, conn, wire, client, seen, kills, faults>>

\* The answer's headers follow.
Subscribe ==
    /\ stream.at = "subscribe"
    /\ stream' = [stream EXCEPT !.at = After("subscribe"), !.subscribed = TRUE]
    /\ conn' = "open"
    /\ UNCHANGED <<coordinator, mailbox, wire, client, seen, kills, faults>>

\* The handler has sent events up to seq. It is done after a terminal one.
GoesOn(at, phase, seq) ==
    IF Terminal(phase)
    THEN stream' = NoStream /\ conn' = "ended"
    ELSE /\ stream' = [stream EXCEPT !.at = at, !.phase = phase, !.seq = seq]
         /\ UNCHANGED conn

\* Mutant: one event too far.
MutantEventsAfter(seq) == [i \in 1..(Len(log) - seq - 1) |-> seq + 1 + i]

\* events_after/2.
EventsAfter(seq) == [i \in 1..(Len(log) - seq) |-> seq + i]

Backlog ==
    /\ stream.at = "backlog"
    /\ LET events == EventsAfter(stream.seq)
           phase  == IF events = <<>> THEN stream.phase ELSE log[events[Len(events)]]
           seq    == IF events = <<>> THEN stream.seq ELSE events[Len(events)]
       IN /\ wire' = wire \o events
          /\ GoesOn(After("backlog"), phase, seq)
    /\ UNCHANGED <<coordinator, mailbox, client, seen, kills, faults>>

\* Mutant: an event that the backlog had is sent again.
MutantLive ==
    /\ stream.at = "live" /\ mailbox # <<>>
    /\ mailbox' = Tail(mailbox)
    /\ wire' = Append(wire, Head(mailbox))
    /\ GoesOn("live", log[Head(mailbox)], Head(mailbox))
    /\ UNCHANGED <<coordinator, client, seen, kills, faults>>

Live ==
    /\ stream.at = "live" /\ mailbox # <<>>
    /\ mailbox' = Tail(mailbox)
    /\ \/ /\ Head(mailbox) <= stream.seq
          /\ UNCHANGED <<stream, conn, wire>>
       \/ /\ Head(mailbox) > stream.seq
          /\ wire' = Append(wire, Head(mailbox))
          /\ GoesOn("live", log[Head(mailbox)], Head(mailbox))
    /\ UNCHANGED <<coordinator, client, seen, kills, faults>>

-----------------------------------------------------------------------------
(* watch().                                                                *)

\* The stream is closed, and its handler gone, as far as the client is concerned.
Disconnected == /\ conn' = "closed" /\ wire' = <<>>
                /\ stream' = NoStream /\ mailbox' = <<>>

Yields(s, from) == seen' = Append(seen, [seq |-> s, from |-> from])

OpenStream ==
    /\ client.at = "connect"
    /\ client' = [client EXCEPT !.at = "read"]
    /\ conn' = "opening" /\ wire' = <<>>
    /\ stream' = [NoStream EXCEPT !.at = "lookup", !.seq = client.lastId]
    /\ mailbox' = <<>>
    /\ UNCHANGED <<coordinator, seen, kills, faults>>

Ended(kind) == IF kind = "failed" THEN "failed" ELSE "returned"

\* The next event. A terminal one ends the watch.
ReadEvent ==
    /\ client.at = "read" /\ conn # "opening" /\ wire # <<>>
    /\ LET s == Head(wire) IN
          /\ Yields(s, "stream")
          /\ IF Terminal(log[s])
             THEN /\ client' = [client EXCEPT !.at = Ended(log[s]), !.lastId = s]
                  /\ Disconnected
             ELSE /\ client' = [client EXCEPT !.lastId = s]
                  /\ wire' = Tail(wire)
                  /\ UNCHANGED <<handler, conn>>
    /\ UNCHANGED <<coordinator, kills, faults>>

\* The stream has ended without a terminal event.
Reconnect ==
    /\ client.at = "read" /\ conn = "ended" /\ wire = <<>>
    /\ client' = [client EXCEPT !.reconnects = @ + 1,
                                !.at = IF client.reconnects + 1 <= MaxReconnects
                                       THEN "connect" ELSE "poll"]
    /\ Disconnected
    /\ UNCHANGED <<coordinator, seen, kills, faults>>

\* A connection that breaks is an error of the read, and the watch ends with it.
ReadFails ==
    /\ client.at = "read" /\ conn = "broken" /\ wire = <<>>
    /\ client' = [client EXCEPT !.at = "threw"]
    /\ Disconnected
    /\ UNCHANGED <<coordinator, seen, kills, faults>>

\* A request that fails before it is answered ends the attempts at streaming.
OpenFails ==
    /\ client.at = "read" /\ conn = "opening" /\ faults < MaxFaults
    /\ faults' = faults + 1
    /\ client' = [client EXCEPT !.at = "poll"]
    /\ Disconnected
    /\ UNCHANGED <<coordinator, seen, kills>>

Poll ==
    /\ client.at = "poll"
    /\ client' = [client EXCEPT !.polled = Len(log),
                                !.at = IF Terminal(Phase) THEN Ended(Phase) ELSE "poll"]
    /\ IF client.polled # Len(log) THEN Yields(Len(log), "poll") ELSE UNCHANGED seen
    /\ UNCHANGED <<coordinator, handler, conn, wire, kills, faults>>

\* The request and its retries fail.
PollFails ==
    /\ client.at = "poll" /\ faults < MaxFaults
    /\ faults' = faults + 1
    /\ client' = [client EXCEPT !.at = "threw"]
    /\ UNCHANGED <<coordinator, handler, conn, wire, seen, kills>>

-----------------------------------------------------------------------------
(* Connections and crashes.                                                *)

\* Some of what was sent has arrived, or will.
Delivered == \E n \in 0..Len(wire) : wire' = SubSeq(wire, 1, n)

\* The response ends, or the connection breaks.
Cut(how) ==
    /\ conn = "open" /\ faults < MaxFaults
    /\ faults' = faults + 1
    /\ conn' = how
    /\ Delivered
    /\ stream' = NoStream /\ mailbox' = <<>>
    /\ UNCHANGED <<coordinator, client, seen, kills>>

ResponseEnds     == Cut("ended")
ConnectionBreaks == Cut("broken")

\* The tables stay. (What was not announced, the backlog of a later stream has.)
CoordinatorCrash ==
    /\ faults < MaxFaults
    /\ faults' = faults + 1
    /\ unsent' = {}
    /\ stream' = NoStream /\ mailbox' = <<>>
    /\ \/ /\ conn = "opening"
          /\ conn' = "closed" /\ client' = [client EXCEPT !.at = "poll"]
          /\ UNCHANGED wire
       \/ /\ conn = "open"
          /\ conn' = "broken" /\ Delivered
          /\ UNCHANGED client
       \/ /\ conn \notin {"opening", "open"}
          /\ UNCHANGED <<conn, wire, client>>
    /\ UNCHANGED <<log, silent, seen, kills>>

Announcing == StoreEvent \/ Broadcast \/ RunnerKilled
Handling   == LookUp \/ Subscribe \/ Backlog \/ Live
Watching   == OpenStream \/ ReadEvent \/ Reconnect \/ ReadFails \/ Poll

EventStreamNext ==
    \/ Announcing \/ Handling \/ Watching
    \/ OpenFails \/ PollFails \/ ResponseEnds \/ ConnectionBreaks \/ CoordinatorCrash

EventStreamSpec == EventStreamInit /\ [][EventStreamNext]_streamVars

\* The processes take their steps. The migration need not end.
EventStreamFairSpec == /\ EventStreamSpec
                       /\ WF_streamVars(Broadcast)
                       /\ WF_streamVars(Handling)
                       /\ WF_streamVars(Watching)

-----------------------------------------------------------------------------
(* Properties.                                                             *)

\* watch() never goes back: it yields an event once, in the order of the table, across
\* reconnections; the first poll may repeat what the stream had.
SeenInOrder ==
    \A i, j \in 1..Len(seen) : i < j =>
        \/ seen[i].seq < seen[j].seq
        \/ seen[i].seq = seen[j].seq /\ seen[i].from = "stream" /\ seen[j].from = "poll"

\* A stream has no gaps, wherever it was cut: watch() has yielded every event up to the last
\* one it has, but for those whose runner was killed before it broadcast them.
NoEventSkipped ==
    \A s \in 1..client.lastId :
        s \in silent \/ \E i \in 1..Len(seen) : seen[i].seq = s

\* watch() ends as the migration did, having yielded its last event.
EndsAsStored ==
    client.at \in {"returned", "failed"} =>
        /\ Phase = IF client.at = "failed" THEN "failed" ELSE "done"
        /\ seen[Len(seen)].seq = Len(log)

\* watch() ends once the migration has, unless the migration's last event is never broadcast.
WatchEnds ==
    Terminal(Phase) ~> client.at \in {"returned", "failed", "threw"} \/ Len(log) \in silent
=============================================================================
