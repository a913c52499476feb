--------------------------- MODULE EventStreamProofs ---------------------------
(***************************************************************************)
(* A watch yields a migration's events in order, without gaps, and ends as *)
(* the migration did: for any number of events, reconnections, killed      *)
(* runners and faults, from EventStreamBounds alone.                       *)
(***************************************************************************)
EXTENDS EventStream, SequenceTheorems, TLAPS

(* The inductive invariant.                                                *)

\* An event is held in a sequence of events.
In(s, events) == \E i \in 1..Len(events) : events[i] = s

\* Only a migration's last event is terminal, and only that one and the first may not be
\* announced yet.
LogOK ==
    /\ \A s \in 1..Len(log) : Terminal(log[s]) => s = Len(log)
    /\ unsent \subseteq {1, Len(log)}

\* Before it polls, watch() may reconnect and has what streams gave it.
ClientOK ==
    client.at \in {"connect", "read"} => client.reconnects <= MaxReconnects /\ client.polled = 0

\* What is on the wire comes after what watch() has read, in order and without gaps.
WireOK ==
    \A i \in 1..Len(wire) :
        /\ client.lastId < wire[i]
        /\ \A j \in 1..Len(wire) : i < j => wire[i] < wire[j]
        /\ \A s \in (client.lastId + 1)..(wire[i] - 1) :
              s \in silent \/ \E j \in 1..(i - 1) : wire[j] = s

\* A handler's position is that of what it has sent.
StreamOK ==
    stream.at # "gone" =>
        /\ client.at = "read"
        /\ stream.subscribed = (stream.at \in {"backlog", "live"})
        /\ stream.at # "live" => wire = <<>> /\ stream.seq = client.lastId
        /\ stream.at = "live" => stream.seq # 0
        /\ client.lastId <= stream.seq
        /\ \A i \in 1..Len(wire) : wire[i] <= stream.seq
        /\ \A s \in (client.lastId + 1)..stream.seq : s \in silent \/ In(s, wire)

\* Its mailbox is in order but for the first event, which is announced on its own, and what it
\* has not sent and will not find in the backlog is in there, or will be.
MailboxOK ==
    /\ stream.at \in {"lookup", "subscribe"} => mailbox = <<>>
    /\ stream.at \in {"backlog", "live"} =>
          \A i \in 1..Len(mailbox) :
              /\ \A j \in 1..Len(mailbox) : i < j => mailbox[i] < mailbox[j] \/ mailbox[j] = 1
              /\ \A s \in unsent : s = 1 \/ mailbox[i] < s
    /\ stream.at = "live" =>
          \A s \in (stream.seq + 1)..Len(log) : s \in silent \cup unsent \/ In(s, mailbox)

\* What was yielded is what was read and polled.
SeenOK ==
    /\ \A i \in 1..Len(seen) :
          /\ seen[i].from = "stream" => seen[i].seq <= client.lastId
          /\ seen[i].from = "poll" => client.polled # 0 /\ seen[i].seq <= client.polled
    /\ client.polled # 0 => Len(seen) # 0 /\ seen[Len(seen)].seq = client.polled

EventStreamInv ==
    /\ EventStreamTypeOK
    /\ LogOK /\ ClientOK /\ WireOK /\ StreamOK /\ MailboxOK /\ SeenOK
    /\ SeenInOrder /\ NoEventSkipped /\ EndsAsStored

-----------------------------------------------------------------------------
(* Types.                                                                  *)


\* The steps of the sequence Steps are taken in their order.
LEMMA StepOrder ==
    /\ After("lookup") = "subscribe"
    /\ After("subscribe") = "backlog"
    /\ After("backlog") = "live"
<1>1. Steps[1] = "lookup" /\ Steps[2] = "subscribe" /\ Steps[3] = "backlog" /\ Steps[4] = "live"
  BY DEF Steps
<1>2. \A i \in 1..3 : i = 1 \/ i = 2 \/ i = 3
  OBVIOUS
<1>3. (CHOOSE i \in 1..3 : Steps[i] = "lookup") = 1
  BY <1>1, <1>2
<1>4. (CHOOSE i \in 1..3 : Steps[i] = "subscribe") = 2
  BY <1>1, <1>2
<1>5. (CHOOSE i \in 1..3 : Steps[i] = "backlog") = 3
  BY <1>1, <1>2
<1>6. QED
  BY <1>1, <1>3, <1>4, <1>5 DEF After

\* The events of the backlog are those after seq, in order.
LEMMA EventsAfterSeq ==
    ASSUME log \in Seq(Kinds), NEW seq \in 0..Len(log)
    PROVE  /\ EventsAfter(seq) \in Seq(1..Len(log))
           /\ Len(EventsAfter(seq)) = Len(log) - seq
           /\ \A i \in 1..(Len(log) - seq) : EventsAfter(seq)[i] = seq + i
<1>1. Len(log) - seq \in Nat /\ Len(log) \in Nat
  OBVIOUS
<1>2. EventsAfter(seq) \in [1..(Len(log) - seq) -> 1..Len(log)]
  BY <1>1 DEF EventsAfter
<1>3. EventsAfter(seq) \in Seq(1..Len(log))
  BY <1>1, <1>2, SeqDef
<1>4. DOMAIN EventsAfter(seq) = 1..(Len(log) - seq)
  BY DEF EventsAfter
<1>5. Len(EventsAfter(seq)) = Len(log) - seq
  BY <1>1, <1>3, <1>4, LenProperties
<1>6. QED
  BY <1>3, <1>5 DEF EventsAfter

LEMMA StreamInit == EventStreamInit => EventStreamInv
<1> SUFFICES ASSUME EventStreamInit PROVE EventStreamInv
  OBVIOUS
<1> USE EventStreamBounds DEF EventStreamInit
<1>1. log = <<"progress">> /\ Len(log) = 1 /\ log[1] = "progress" /\ log \in Seq(Kinds)
  BY DEF Kinds
<1>2. EventStreamTypeOK
  BY <1>1 DEF EventStreamTypeOK, NoStream, Kinds, Events
<1>3. LogOK
  BY <1>1 DEF LogOK, Terminal
<1>4. ClientOK /\ WireOK /\ StreamOK /\ MailboxOK /\ SeenOK
  BY DEF ClientOK, WireOK, StreamOK, MailboxOK, SeenOK, NoStream
<1>5. SeenInOrder /\ NoEventSkipped /\ EndsAsStored
  BY DEF SeenInOrder, NoEventSkipped, EndsAsStored
<1>6. QED
  BY <1>2, <1>3, <1>4, <1>5 DEF EventStreamInv

(* What a step keeps whose actor leaves a part alone.                      *)

\* What was yielded stays as it is while the watch reads and polls nothing.
LEMMA SeenKept ==
    ASSUME EventStreamInv, seen' = seen, silent \subseteq silent',
           client'.lastId = client.lastId, client'.polled = client.polled
    PROVE  SeenOK' /\ SeenInOrder' /\ NoEventSkipped'
BY DEF EventStreamInv, SeenOK, SeenInOrder, NoEventSkipped

LEMMA EndKept ==
    ASSUME EventStreamInv, seen' = seen, log' = log,
           client'.at = client.at \/ client'.at \notin {"returned", "failed"}
    PROVE  EndsAsStored'
BY DEF EventStreamInv, EndsAsStored, Phase

LEMMA WireKept ==
    ASSUME EventStreamInv, wire' = wire, silent \subseteq silent', client'.lastId = client.lastId
    PROVE  WireOK'
BY DEF EventStreamInv, WireOK

\* What the connection loses are the last of the events on it.
LEMMA Delivers ==
    ASSUME EventStreamInv, Delivered
    PROVE  /\ wire' \in Seq(1..Len(log))
           /\ Len(wire') <= Len(wire)
           /\ \A i \in 1..Len(wire') : wire'[i] = wire[i]
<1>1. wire \in Seq(1..Len(log))
  BY DEF EventStreamInv, EventStreamTypeOK
<1>2. PICK n \in 0..Len(wire) : wire' = SubSeq(wire, 1, n)
  BY DEF Delivered
<1>3. \A i \in 1..n : wire[i] \in 1..Len(log)
  BY <1>1, <1>2, ElementOfSeq
<1>4. n \in Int /\ 1 \in Int
  BY <1>1, <1>2
<1>5. /\ SubSeq(wire, 1, n) \in Seq(1..Len(log))
      /\ Len(SubSeq(wire, 1, n)) = n
      /\ \A i \in 1..n : SubSeq(wire, 1, n)[i] = wire[i]
  BY <1>1, <1>2, <1>3, <1>4, SubSeqProperties
<1>6. QED
  BY <1>1, <1>2, <1>5

LEMMA WireCut ==
    ASSUME EventStreamInv, Delivered, silent' = silent, client'.lastId = client.lastId
    PROVE  WireOK'
<1>1. wire' \in Seq(1..Len(log)) /\ wire \in Seq(1..Len(log)) /\ Len(wire') <= Len(wire)
  BY Delivers DEF EventStreamInv, EventStreamTypeOK
<1>2. \A i \in 1..Len(wire') : wire'[i] = wire[i] /\ i \in 1..Len(wire)
  BY <1>1, Delivers
<1>3. ASSUME NEW i \in 1..Len(wire')
      PROVE  /\ client'.lastId < wire'[i]
             /\ \A j \in 1..Len(wire') : i < j => wire'[i] < wire'[j]
             /\ \A s \in (client'.lastId + 1)..(wire'[i] - 1) :
                   s \in silent' \/ \E j \in 1..(i - 1) : wire'[j] = s
  <2>1. i \in 1..Len(wire) /\ wire'[i] = wire[i]
    BY <1>2
  <2>2. /\ client.lastId < wire[i]
        /\ \A j \in 1..Len(wire) : i < j => wire[i] < wire[j]
        /\ \A s \in (client.lastId + 1)..(wire[i] - 1) :
              s \in silent \/ \E j \in 1..(i - 1) : wire[j] = s
    BY <2>1 DEF EventStreamInv, WireOK
  <2>3. \A j \in 1..(i - 1) : wire'[j] = wire[j]
    <3>1. \A j \in 1..(i - 1) : j \in 1..Len(wire')
      BY <1>1
    <3>2. QED
      BY <1>2, <3>1
  <2>4. \A j \in 1..Len(wire') : i < j => wire'[i] < wire'[j]
    BY <1>2, <2>1, <2>2
  <2>5. QED
    BY <2>1, <2>2, <2>3, <2>4
<1>4. QED
  BY <1>3 DEF WireOK

\* Without a stream there is nothing to say of a handler.
LEMMA NoHandler ==
    ASSUME stream' = NoStream PROVE StreamOK' /\ MailboxOK'
BY DEF StreamOK, MailboxOK, NoStream

LEMMA NoStreamTyped ==
    NoStream \in [at : {"lookup", "subscribe", "backlog", "live", "gone"}, phase : Kinds,
                  seq : 0..0, subscribed : BOOLEAN]
BY DEF NoStream, Kinds

-----------------------------------------------------------------------------
(* The coordinator.                                                        *)

LEMMA Stores == ASSUME EventStreamInv, StoreEvent PROVE EventStreamInv'
<1> USE EventStreamBounds
<1>1. PICK kind \in Kinds : log' = Append(log, kind)
  BY DEF StoreEvent
<1>2. /\ log \in Seq(Kinds) /\ Len(log) \in Events
      /\ log' \in Seq(Kinds) /\ Len(log') = Len(log) + 1
      /\ \A s \in 1..Len(log) : log'[s] = log[s]
      /\ 1..Len(log) \subseteq 1..Len(log')
  BY <1>1, AppendProperties DEF EventStreamInv, EventStreamTypeOK, Events
<1>3. EventStreamTypeOK'
  <2> USE DEF EventStreamInv, EventStreamTypeOK, StoreEvent, handler
  <2>1. Len(log') \in Events
    BY <1>2 DEF Events
  <2>2. mailbox \in Seq(1..Len(log')) /\ wire \in Seq(1..Len(log'))
    BY <1>2, SeqMonotonic
  <2>3. seen \in Seq([seq : 1..Len(log'), from : {"stream", "poll"}])
    <3>1. [seq : 1..Len(log), from : {"stream", "poll"}]
            \subseteq [seq : 1..Len(log'), from : {"stream", "poll"}]
      BY <1>2
    <3>2. QED
      BY <3>1, SeqMonotonic
  <2>4. unsent' \subseteq 1..Len(log') /\ silent' \subseteq 1..Len(log')
    <3>1. unsent \subseteq 1..Len(log) /\ silent \subseteq 1..Len(log)
      OBVIOUS
    <3>2. Len(log') \in 1..Len(log') /\ unsent' = unsent \cup {Len(log')} /\ silent' = silent
      BY <1>2 DEF Events
    <3>3. QED
      BY <1>2, <3>1, <3>2
  <2>5. stream' \in [at : {"lookup", "subscribe", "backlog", "live", "gone"}, phase : Kinds,
                     seq : 0..Len(log'), subscribed : BOOLEAN]
    BY <1>2
  <2>6. client' \in [at : {"connect", "read", "poll", "returned", "failed", "threw"},
                     lastId : 0..Len(log'), reconnects : 0..(MaxReconnects + 1),
                     polled : 0..Len(log')]
    BY <1>2
  <2>7. QED
    BY <1>2, <2>1, <2>2, <2>3, <2>4, <2>5, <2>6
<1>4. LogOK'
  <2>1. \A s \in 1..Len(log) : ~Terminal(log[s])
    <3>1. ~Terminal(log[Len(log)])
      BY DEF StoreEvent, Phase
    <3>2. QED
      BY <3>1 DEF EventStreamInv, LogOK
  <2>2. \A s \in 1..Len(log') : s \in 1..Len(log) \/ s = Len(log')
    BY <1>2
  <2>3. QED
    BY <1>2, <2>1, <2>2 DEF StoreEvent, LogOK, Terminal
<1>5. ClientOK' /\ StreamOK'
  BY <1>2 DEF EventStreamInv, ClientOK, StreamOK, StoreEvent, handler, In
<1>6. MailboxOK'
  <2> USE DEF EventStreamInv, MailboxOK, EventStreamTypeOK
  <2>1. UNCHANGED <<stream, mailbox, silent>> /\ unsent' = unsent \cup {Len(log')}
    BY DEF StoreEvent, handler
  <2>2. \A i \in 1..Len(mailbox) : mailbox[i] < Len(log')
    BY <1>2, ElementOfSeq
  <2>3. stream.at = "live" =>
           \A s \in (stream.seq + 1)..Len(log') : s \in silent \cup unsent' \/ In(s, mailbox)
    <3>1. \A s \in (stream.seq + 1)..Len(log') :
             s \in (stream.seq + 1)..Len(log) \/ s = Len(log')
      BY <1>2
    <3>2. QED
      BY <2>1, <3>1
  <2>4. QED
    BY <2>1, <2>2, <2>3, SMTT(30) DEF In
<1>7. WireOK' /\ SeenOK' /\ SeenInOrder' /\ NoEventSkipped'
  BY WireKept, SeenKept DEF StoreEvent
<1>8. EndsAsStored'
  <2>1. Phase = "progress"
    BY DEF StoreEvent, Terminal
  <2>2. client.at \notin {"returned", "failed"}
    BY <2>1 DEF EventStreamInv, EndsAsStored
  <2>3. QED
    BY <2>2 DEF StoreEvent, EndsAsStored
<1>9. QED
  BY <1>3, <1>4, <1>5, <1>6, <1>7, <1>8 DEF EventStreamInv

LEMMA Broadcasts == ASSUME EventStreamInv, Broadcast PROVE EventStreamInv'
<1>1. PICK b \in unsent :
        /\ unsent' = unsent \ {b}
        /\ mailbox' = IF stream.subscribed THEN Append(mailbox, b) ELSE mailbox
        /\ UNCHANGED <<log, silent, stream, conn, wire, client, seen, kills, faults>>
  BY DEF Broadcast
<1>2. /\ mailbox \in Seq(1..Len(log)) /\ b \in 1..Len(log) /\ unsent \subseteq {1, Len(log)}
      /\ log \in Seq(Kinds) /\ Len(log) \in Nat
  BY DEF EventStreamInv, EventStreamTypeOK, LogOK
<1>3. CASE ~stream.subscribed
  <2>1. stream.at \notin {"backlog", "live"} /\ mailbox' = mailbox
    BY <1>1, <1>3 DEF EventStreamInv, StreamOK
  <2>2. MailboxOK' /\ StreamOK' /\ LogOK' /\ ClientOK'
    BY <1>1, <2>1 DEF EventStreamInv, MailboxOK, StreamOK, LogOK, ClientOK
  <2>3. EventStreamTypeOK'
    BY <1>1, <2>1 DEF EventStreamInv, EventStreamTypeOK
  <2>4. QED
    BY <1>1, <2>2, <2>3, WireKept, SeenKept, EndKept DEF EventStreamInv
<1>4. CASE stream.subscribed
  <2>1. /\ mailbox' \in Seq(1..Len(log)) /\ Len(mailbox') = Len(mailbox) + 1
        /\ \A i \in 1..Len(mailbox) : mailbox'[i] = mailbox[i]
        /\ mailbox'[Len(mailbox) + 1] = b
    BY <1>1, <1>2, <1>4, AppendProperties
  <2>2. \A i \in 1..Len(mailbox') : i \in 1..Len(mailbox) \/ i = Len(mailbox) + 1
    BY <1>2, <2>1
  <2>3. stream.at \in {"backlog", "live"} \/ stream.at = "gone"
    BY <1>4 DEF EventStreamInv, EventStreamTypeOK, StreamOK
  <2>4. MailboxOK'
    <3> USE DEF EventStreamInv, MailboxOK
    <3>1. ASSUME stream.at \in {"backlog", "live"}, NEW i \in 1..Len(mailbox')
          PROVE  /\ \A j \in 1..Len(mailbox') : i < j => mailbox'[i] < mailbox'[j] \/ mailbox'[j] = 1
                 /\ \A s \in unsent' : s = 1 \/ mailbox'[i] < s
      <4>1. \A k \in 1..Len(mailbox) : mailbox[k] \in 1..Len(log)
        BY <1>2, ElementOfSeq
      <4>2. \A s \in unsent' : s = 1 \/ b < s
        BY <1>1, <1>2
      <4>3. CASE i \in 1..Len(mailbox)
        BY <1>1, <1>2, <2>1, <2>2, <3>1, <4>1, <4>3
      <4>4. CASE i = Len(mailbox) + 1
        BY <1>2, <2>1, <4>2, <4>4
      <4>5. QED
        BY <2>2, <4>3, <4>4
    <3>2. ASSUME stream.at = "live", NEW s \in (stream.seq + 1)..Len(log)
          PROVE  s \in silent \cup unsent' \/ In(s, mailbox')
      <4>1. CASE s = b
        BY <1>2, <2>1, <4>1 DEF In
      <4>2. CASE s # b
        <5>1. s \in silent \cup unsent' \/ In(s, mailbox)
          BY <1>1, <3>2, <4>2
        <5>2. QED
          BY <1>2, <2>1, <5>1 DEF In
      <4>3. QED
        BY <4>1, <4>2
    <3>3. QED
      BY <1>1, <2>3, <3>1, <3>2
  <2>5. EventStreamTypeOK'
    BY <1>1, <2>1 DEF EventStreamInv, EventStreamTypeOK
  <2>6. LogOK' /\ ClientOK' /\ StreamOK'
    BY <1>1 DEF EventStreamInv, LogOK, ClientOK, StreamOK
  <2>7. QED
    BY <1>1, <2>4, <2>5, <2>6, WireKept, SeenKept, EndKept DEF EventStreamInv
<1>5. QED
  BY <1>3, <1>4

LEMMA Kills == ASSUME EventStreamInv, RunnerKilled PROVE EventStreamInv'
<1>1. PICK s \in unsent \ {1} :
        /\ kills < MaxKills /\ kills' = kills + 1
        /\ unsent' = unsent \ {s} /\ silent' = silent \cup {s}
        /\ UNCHANGED <<log, handler, conn, wire, client, seen, faults>>
  BY DEF RunnerKilled
<1>2. EventStreamTypeOK'
  BY <1>1, EventStreamBounds DEF EventStreamInv, EventStreamTypeOK, handler
<1>3. LogOK' /\ ClientOK' /\ StreamOK' /\ MailboxOK'
  BY <1>1 DEF EventStreamInv, LogOK, ClientOK, StreamOK, MailboxOK, handler
<1>4. QED
  BY <1>1, <1>2, <1>3, WireKept, SeenKept, EndKept DEF EventStreamInv

-----------------------------------------------------------------------------
(* The handler of a stream.                                                *)

LEMMA LooksUp == ASSUME EventStreamInv, LookUp PROVE EventStreamInv'
<1>1. /\ stream.at = "lookup"
      /\ stream' = [stream EXCEPT !.at = "subscribe", !.phase = Phase]
      /\ UNCHANGED <<coordinator, mailbox, conn, wire, client, seen, kills, faults>>
  BY StepOrder DEF LookUp
<1>2. Phase \in Kinds
  BY DEF EventStreamInv, EventStreamTypeOK, Events, Phase
<1>3. EventStreamTypeOK'
  BY <1>1, <1>2 DEF EventStreamInv, EventStreamTypeOK, coordinator
<1>4. stream'.at = "subscribe" /\ stream'.seq = stream.seq /\ stream'.subscribed = stream.subscribed
  BY <1>1 DEF EventStreamInv, EventStreamTypeOK
<1>5. StreamOK' /\ MailboxOK'
  BY <1>1, <1>4 DEF EventStreamInv, StreamOK, MailboxOK, coordinator, In
<1>6. LogOK' /\ ClientOK'
  BY <1>1 DEF EventStreamInv, LogOK, ClientOK, coordinator
<1>7. QED
  BY <1>1, <1>3, <1>5, <1>6, WireKept, SeenKept, EndKept DEF EventStreamInv, coordinator

LEMMA Subscribes == ASSUME EventStreamInv, Subscribe PROVE EventStreamInv'
<1>1. /\ stream.at = "subscribe"
      /\ stream' = [stream EXCEPT !.at = "backlog", !.subscribed = TRUE]
      /\ conn' = "open"
      /\ UNCHANGED <<coordinator, mailbox, wire, client, seen, kills, faults>>
  BY StepOrder DEF Subscribe
<1>2. EventStreamTypeOK'
  BY <1>1 DEF EventStreamInv, EventStreamTypeOK, coordinator
<1>3. stream'.at = "backlog" /\ stream'.seq = stream.seq /\ stream'.subscribed = TRUE
  BY <1>1 DEF EventStreamInv, EventStreamTypeOK
<1>4. StreamOK' /\ MailboxOK'
  <2>1. StreamOK'
    BY <1>1, <1>3 DEF EventStreamInv, StreamOK, coordinator, In
  <2>2. mailbox' = <<>> /\ 1..Len(mailbox') = {}
    BY <1>1 DEF EventStreamInv, MailboxOK
  <2>3. MailboxOK'
    BY <1>3, <2>2 DEF MailboxOK
  <2>4. QED
    BY <2>1, <2>3
<1>5. LogOK' /\ ClientOK'
  BY <1>1 DEF EventStreamInv, LogOK, ClientOK, coordinator
<1>6. QED
  BY <1>1, <1>2, <1>4, <1>5, WireKept, SeenKept, EndKept DEF EventStreamInv, coordinator

LEMMA SendsBacklog == ASSUME EventStreamInv, Backlog PROVE EventStreamInv'
<1> DEFINE events == EventsAfter(stream.seq)
           phase  == IF events = <<>> THEN stream.phase ELSE log[events[Len(events)]]
           seq    == IF events = <<>> THEN stream.seq ELSE events[Len(events)]
<1>1. /\ stream.at = "backlog"
      /\ wire' = wire \o events
      /\ GoesOn("live", phase, seq)
      /\ UNCHANGED <<coordinator, mailbox, client, seen, kills, faults>>
  BY StepOrder DEF Backlog
<1>2. /\ log \in Seq(Kinds) /\ Len(log) \in Nat /\ Len(log) # 0 /\ stream.seq \in 0..Len(log)
      /\ client.lastId \in 0..Len(log) /\ stream.phase \in Kinds
  BY DEF EventStreamInv, EventStreamTypeOK, Events
<1>3. /\ events \in Seq(1..Len(log)) /\ Len(events) = Len(log) - stream.seq
      /\ \A i \in 1..(Len(log) - stream.seq) : events[i] = stream.seq + i
  BY <1>2, EventsAfterSeq
<1>4. wire = <<>> /\ stream.seq = client.lastId /\ client.at = "read" /\ stream.subscribed = TRUE
  BY <1>1 DEF EventStreamInv, StreamOK
<1>5. /\ wire' \in Seq(1..Len(log)) /\ Len(wire') = Len(log) - client.lastId
      /\ \A i \in 1..Len(wire') : wire'[i] = client.lastId + i
  <2>1. wire \in Seq(1..Len(log))
    BY DEF EventStreamInv, EventStreamTypeOK
  <2>2. wire' = events
    BY <1>1, <1>3, <1>4
  <2>3. QED
    BY <1>2, <1>3, <1>4, <2>2
<1>6. seq = Len(log)
  <2>1. CASE events = <<>>
    BY <1>2, <1>3, <2>1
  <2>2. CASE events # <<>>
    <3>1. Len(log) - stream.seq \in Nat /\ Len(log) - stream.seq # 0
      BY <1>2, <1>3, <2>2
    <3>2. events[Len(events)] = Len(log)
      BY <1>2, <1>3, <3>1
    <3>3. QED
      BY <2>2, <3>2
  <2>3. QED
    BY <2>1, <2>2
<1>7. phase \in Kinds
  <2>1. CASE events = <<>>
    BY <1>2, <2>1
  <2>2. CASE events # <<>>
    BY <1>2, <1>6, <2>2
  <2>3. QED
    BY <2>1, <2>2
<1> HIDE DEF events, phase, seq
<1>8. \/ stream' = NoStream /\ conn' = "ended"
      \/ stream' = [stream EXCEPT !.at = "live", !.phase = phase, !.seq = Len(log)] /\ conn' = conn
  BY <1>1, <1>6 DEF GoesOn
<1>9. EventStreamTypeOK'
  <2>1. stream' \in [at : {"lookup", "subscribe", "backlog", "live", "gone"}, phase : Kinds,
                     seq : 0..Len(log), subscribed : BOOLEAN]
    <3>1. CASE stream' = NoStream
      BY <1>2, <3>1 DEF NoStream, Kinds
    <3>2. CASE stream' = [stream EXCEPT !.at = "live", !.phase = phase, !.seq = Len(log)]
      <4>1. Len(log) \in 0..Len(log)
        BY <1>2
      <4>2. stream \in [at : {"lookup", "subscribe", "backlog", "live", "gone"}, phase : Kinds,
                        seq : 0..Len(log), subscribed : BOOLEAN]
        BY DEF EventStreamInv, EventStreamTypeOK
      <4>3. QED
        BY <1>7, <3>2, <4>1, <4>2
    <3>3. QED
      BY <1>8, <3>1, <3>2
  <2>2. QED
    BY <1>1, <1>5, <1>8, <2>1 DEF EventStreamInv, EventStreamTypeOK, coordinator
<1>10. WireOK'
  <2>1. ASSUME NEW i \in 1..Len(wire')
        PROVE  /\ client.lastId < wire'[i]
               /\ \A j \in 1..Len(wire') : i < j => wire'[i] < wire'[j]
               /\ \A s \in (client.lastId + 1)..(wire'[i] - 1) : \E j \in 1..(i - 1) : wire'[j] = s
    <3>1. wire'[i] = client.lastId + i /\ i \in Nat /\ i # 0 /\ Len(wire') \in Nat
      BY <1>2, <1>5
    <3>2. ASSUME NEW s \in (client.lastId + 1)..(wire'[i] - 1)
          PROVE  \E j \in 1..(i - 1) : wire'[j] = s
      <4>1. PICK k \in Int : k = s - client.lastId
        BY <1>2
      <4>2. k \in 1..(i - 1) /\ k \in 1..Len(wire') /\ client.lastId + k = s
        BY <1>2, <3>1, <4>1, SMTT(30)
      <4>3. wire'[k] = s
        BY <1>5, <4>2
      <4>4. QED
        BY <4>2, <4>3
    <3>3. QED
      BY <1>2, <1>5, <3>1, <3>2, SMTT(30)
  <2>2. QED
    BY <1>1, <2>1 DEF WireOK
<1>11. StreamOK' /\ MailboxOK'
  <2>1. CASE stream' = NoStream
    BY <2>1, NoHandler
  <2>2. CASE stream' = [stream EXCEPT !.at = "live", !.phase = phase, !.seq = Len(log)]
    <3>1. stream'.at = "live" /\ stream'.seq = Len(log) /\ stream'.subscribed = TRUE
      BY <1>4, <2>2 DEF EventStreamInv, EventStreamTypeOK
    <3>2. \A i \in 1..Len(wire') : wire'[i] <= Len(log)
      BY <1>2, <1>5
    <3>3. ASSUME NEW s \in (client.lastId + 1)..Len(log) PROVE In(s, wire')
      <4>1. s - client.lastId \in 1..Len(wire')
        BY <1>2, <1>5
      <4>2. wire'[s - client.lastId] = s
        BY <1>2, <1>5, <4>1
      <4>3. \E i \in 1..Len(wire') : wire'[i] = s
        BY <4>1, <4>2
      <4>4. QED
        BY <4>3 DEF In
    <3>4. StreamOK'
      <4>1. client' = client /\ client.lastId <= Len(log)
        BY <1>1, <1>2
      <4>2. \A s \in (client.lastId + 1)..Len(log) : In(s, wire')
        BY <3>3
      <4>3. \A s : In(s, wire')  = In(s, wire)'
        BY DEF In
      <4>4. QED
        BY <1>2, <1>4, <3>1, <3>2, <4>1, <4>2, <4>3 DEF StreamOK
    <3>5. MailboxOK'
      BY <1>1, <1>2, <3>1 DEF EventStreamInv, MailboxOK, coordinator
    <3>6. QED
      BY <3>4, <3>5
  <2>3. QED
    BY <1>8, <2>1, <2>2
<1>12. LogOK' /\ ClientOK'
  BY <1>1 DEF EventStreamInv, LogOK, ClientOK, coordinator
<1>13. QED
  BY <1>1, <1>9, <1>10, <1>11, <1>12, SeenKept, EndKept DEF EventStreamInv, coordinator

\* An event the handler takes from its mailbox, and what it leaves there.
LEMMA TakesOne ==
    ASSUME EventStreamInv, stream.at = "live", mailbox # <<>>, mailbox' = Tail(mailbox)
    PROVE  /\ mailbox \in Seq(1..Len(log)) /\ Len(mailbox) \in Nat /\ Len(mailbox) # 0
           /\ mailbox' \in Seq(1..Len(log)) /\ Len(mailbox') = Len(mailbox) - 1
           /\ Head(mailbox) = mailbox[1] /\ Head(mailbox) \in 1..Len(log)
           /\ \A i \in 1..Len(mailbox') : mailbox'[i] = mailbox[i + 1] /\ i + 1 \in 1..Len(mailbox)
           /\ \A s : In(s, mailbox) => s = Head(mailbox) \/ In(s, mailbox')
           /\ \A i \in 1..Len(mailbox) : Head(mailbox) <= mailbox[i] \/ mailbox[i] = 1
<1>1. mailbox \in Seq(1..Len(log))
  BY DEF EventStreamInv, EventStreamTypeOK
<1>2. /\ Tail(mailbox) \in Seq(1..Len(log)) /\ Len(Tail(mailbox)) = Len(mailbox) - 1
      /\ Head(mailbox) = mailbox[1] /\ Head(mailbox) \in 1..Len(log)
      /\ \A i \in 1..Len(Tail(mailbox)) : Tail(mailbox)[i] = mailbox[i + 1]
      /\ Len(mailbox) \in Nat /\ Len(mailbox) # 0
  BY <1>1, HeadTailProperties
<1>3. \A i \in 1..Len(mailbox') : mailbox'[i] = mailbox[i + 1] /\ i + 1 \in 1..Len(mailbox)
  BY <1>2
<1>4. ASSUME NEW s, In(s, mailbox) PROVE s = Head(mailbox) \/ In(s, mailbox')
  <2>1. PICK i \in 1..Len(mailbox) : mailbox[i] = s
    BY <1>4 DEF In
  <2>2. CASE i = 1
    BY <1>2, <2>1, <2>2
  <2>3. CASE i # 1
    <3>1. i - 1 \in 1..Len(mailbox') /\ (i - 1) + 1 = i
      BY <1>2, <2>3
    <3>2. mailbox'[i - 1] = s
      BY <1>2, <2>1, <3>1
    <3>3. QED
      BY <3>1, <3>2 DEF In
  <2>4. QED
    BY <2>2, <2>3
<1>5. ASSUME NEW i \in 1..Len(mailbox) PROVE Head(mailbox) <= mailbox[i] \/ mailbox[i] = 1
  <2>1. 1 \in 1..Len(mailbox) /\ mailbox[i] \in 1..Len(log)
    BY <1>1, <1>2, ElementOfSeq
  <2>2. \A j \in 1..Len(mailbox) : 1 < j => mailbox[1] < mailbox[j] \/ mailbox[j] = 1
    BY <2>1 DEF EventStreamInv, MailboxOK
  <2>3. QED
    BY <1>2, <2>1, <2>2
<1>6. QED
  BY <1>1, <1>2, <1>3, <1>4, <1>5

\* The mailbox stays in order, whichever way the handler goes on.
LEMMA TakenInOrder ==
    ASSUME EventStreamInv, stream.at = "live", mailbox # <<>>, mailbox' = Tail(mailbox),
           NEW i \in 1..Len(mailbox')
    PROVE  /\ \A j \in 1..Len(mailbox') : i < j => mailbox'[i] < mailbox'[j] \/ mailbox'[j] = 1
           /\ \A s \in unsent : s = 1 \/ mailbox'[i] < s
<1>1. \A k \in 1..Len(mailbox') : mailbox'[k] = mailbox[k + 1] /\ k + 1 \in 1..Len(mailbox)
  BY TakesOne
<1>2. mailbox'[i] = mailbox[i + 1] /\ i + 1 \in 1..Len(mailbox)
  BY <1>1
<1>3. /\ \A j \in 1..Len(mailbox) : i + 1 < j => mailbox[i + 1] < mailbox[j] \/ mailbox[j] = 1
      /\ \A s \in unsent : s = 1 \/ mailbox[i + 1] < s
  BY <1>2 DEF EventStreamInv, MailboxOK
<1>4. ASSUME NEW j \in 1..Len(mailbox'), i < j PROVE mailbox'[i] < mailbox'[j] \/ mailbox'[j] = 1
  <2>1. mailbox'[j] = mailbox[j + 1] /\ j + 1 \in 1..Len(mailbox)
    BY <1>1
  <2>2. i + 1 < j + 1
    BY <1>4
  <2>3. QED
    BY <1>2, <1>3, <2>1, <2>2
<1>5. QED
  BY <1>2, <1>3, <1>4

\* An event that the backlog had is dropped.
LEMMA DropsRepeated ==
    ASSUME EventStreamInv, stream.at = "live", mailbox # <<>>, mailbox' = Tail(mailbox),
           Head(mailbox) <= stream.seq,
           UNCHANGED <<coordinator, stream, conn, wire, client, seen, kills, faults>>
    PROVE  EventStreamInv'
<1>1. EventStreamTypeOK'
  BY TakesOne DEF EventStreamInv, EventStreamTypeOK, coordinator
<1>2. \A s \in (stream.seq + 1)..Len(log) : s \in silent \cup unsent \/ In(s, mailbox')
  <2>1. ASSUME NEW s \in (stream.seq + 1)..Len(log)
        PROVE  s \in silent \cup unsent \/ In(s, mailbox')
    <3>1. s # Head(mailbox)
      <4>1. stream.seq \in Nat /\ Head(mailbox) \in Nat
        BY TakesOne, SMTT(30) DEF EventStreamInv, EventStreamTypeOK
      <4>2. QED
        BY <4>1
    <3>2. s \in silent \cup unsent \/ In(s, mailbox)
      BY DEF EventStreamInv, MailboxOK
    <3>3. QED
      BY <3>1, <3>2, TakesOne
  <2>2. QED
    BY <2>1
<1>3. MailboxOK'
  BY <1>2, TakenInOrder DEF MailboxOK, coordinator, In
<1>4. LogOK' /\ ClientOK' /\ StreamOK'
  BY DEF EventStreamInv, LogOK, ClientOK, StreamOK, coordinator, In
<1>5. QED
  BY <1>1, <1>3, <1>4, WireKept, SeenKept, EndKept DEF EventStreamInv, coordinator

\* An event that is new is sent. Those between the last one sent and this were never broadcast.
LEMMA SendsNew ==
    ASSUME EventStreamInv, stream.at = "live", mailbox # <<>>, mailbox' = Tail(mailbox),
           Head(mailbox) > stream.seq,
           wire' = Append(wire, Head(mailbox)),
           GoesOn("live", log[Head(mailbox)], Head(mailbox)),
           UNCHANGED <<coordinator, client, seen, kills, faults>>
    PROVE  EventStreamInv'
<1> DEFINE new == Head(mailbox)
<1>1. /\ log \in Seq(Kinds) /\ Len(log) \in Nat /\ stream.seq \in Nat /\ client.lastId \in Nat
      /\ wire \in Seq(1..Len(log)) /\ Len(wire) \in Nat
      /\ new \in 1..Len(log) /\ new \in Nat
  BY TakesOne, SMTT(30) DEF EventStreamInv, EventStreamTypeOK, Events
<1>2. /\ client.lastId <= stream.seq /\ stream.seq # 0 /\ stream.subscribed = TRUE
      /\ \A i \in 1..Len(wire) : wire[i] <= stream.seq
      /\ \A s \in (client.lastId + 1)..stream.seq : s \in silent \/ In(s, wire)
      /\ client.at = "read"
  BY DEF EventStreamInv, StreamOK
<1>3. \A s \in (stream.seq + 1)..Len(log) : s \in silent \cup unsent \/ In(s, mailbox)
  BY DEF EventStreamInv, MailboxOK
<1>4. ASSUME NEW s \in (stream.seq + 1)..(new - 1) PROVE s \in silent
  <2>1. s \in (stream.seq + 1)..Len(log) /\ s # 1 /\ s # Len(log) /\ s < new
    BY <1>1, <1>2
  <2>2. s \notin unsent
    BY <2>1 DEF EventStreamInv, LogOK
  <2>3. ~In(s, mailbox)
    <3>1. \A i \in 1..Len(mailbox) : new <= mailbox[i] \/ mailbox[i] = 1
      BY TakesOne
    <3>2. ASSUME NEW i \in 1..Len(mailbox), mailbox[i] = s PROVE FALSE
      <4>1. new <= s
        BY <2>1, <3>1, <3>2
      <4>2. new \in Nat /\ s \in Int /\ s < new
        BY <1>1, <2>1
      <4>3. QED
        BY <4>1, <4>2
    <3>3. QED
      BY <3>2 DEF In
  <2>4. QED
    BY <1>3, <2>1, <2>2, <2>3
<1>5. /\ wire' \in Seq(1..Len(log)) /\ Len(wire') = Len(wire) + 1
      /\ \A i \in 1..Len(wire) : wire'[i] = wire[i]
      /\ wire'[Len(wire) + 1] = new
  BY <1>1, AppendProperties
<1>6. \A i \in 1..Len(wire') : i \in 1..Len(wire) \/ i = Len(wire) + 1
  BY <1>1, <1>5
<1>7. \A s : In(s, wire) => \E i \in 1..Len(wire) : wire'[i] = s
  BY <1>5 DEF In
<1> HIDE DEF new
<1>8. ASSUME NEW i \in 1..Len(wire')
      PROVE  /\ client.lastId < wire'[i] /\ wire'[i] <= new
             /\ \A j \in 1..Len(wire') : i < j => wire'[i] < wire'[j]
             /\ \A s \in (client.lastId + 1)..(wire'[i] - 1) :
                   s \in silent \/ \E j \in 1..(i - 1) : wire'[j] = s
  <2>1. CASE i \in 1..Len(wire)
    <3>1. /\ client.lastId < wire[i] /\ wire[i] <= stream.seq
          /\ \A j \in 1..Len(wire) : i < j => wire[i] < wire[j]
          /\ \A s \in (client.lastId + 1)..(wire[i] - 1) :
                s \in silent \/ \E j \in 1..(i - 1) : wire[j] = s
      BY <1>2, <2>1 DEF EventStreamInv, WireOK
    <3>2. wire[i] \in 1..Len(log) /\ stream.seq < new
      BY <1>1, <2>1, ElementOfSeq DEF new
    <3>3. wire'[i] = wire[i] /\ \A j \in 1..(i - 1) : wire'[j] = wire[j]
      BY <1>1, <1>5, <2>1
    <3>4. ASSUME NEW j \in 1..Len(wire'), i < j PROVE wire'[i] < wire'[j]
      <4>1. CASE j \in 1..Len(wire)
        BY <1>5, <3>1, <3>3, <3>4, <4>1
      <4>2. CASE j = Len(wire) + 1
        <5>1. wire'[j] = new
          BY <1>5, <4>2
        <5>2. QED
          BY <1>1, <3>1, <3>2, <3>3, <5>1
      <4>3. QED
        BY <1>6, <4>1, <4>2
    <3>5. \A s \in (client.lastId + 1)..(wire'[i] - 1) :
             s \in silent \/ \E j \in 1..(i - 1) : wire'[j] = s
      BY <3>1, <3>3
    <3>6. client.lastId < wire'[i] /\ wire'[i] <= new
      BY <1>1, <3>1, <3>2, <3>3
    <3>7. QED
      BY <3>4, <3>5, <3>6
  <2>2. CASE i = Len(wire) + 1
    <3>1. wire'[i] = new /\ stream.seq < new
      BY <1>5, <2>2 DEF new
    <3>2. \A j \in 1..Len(wire') : ~(i < j)
      BY <1>1, <1>5, <2>2
    <3>3. ASSUME NEW s \in (client.lastId + 1)..(new - 1)
          PROVE  s \in silent \/ \E j \in 1..(i - 1) : wire'[j] = s
      <4>1. CASE s <= stream.seq
        <5>1. s \in silent \/ In(s, wire)
          BY <1>1, <1>2, <4>1
        <5>2. i - 1 = Len(wire)
          BY <1>1, <2>2
        <5>3. QED
          BY <1>7, <5>1, <5>2
      <4>2. CASE ~(s <= stream.seq)
        <5>1. s \in (stream.seq + 1)..(new - 1)
          BY <1>1, <4>2
        <5>2. QED
          BY <1>4, <5>1
      <4>3. QED
        BY <4>1, <4>2
    <3>4. client.lastId < new /\ new <= new
      BY <1>1, <1>2, <3>1
    <3>5. QED
      BY <3>1, <3>2, <3>3, <3>4
  <2>3. QED
    BY <1>6, <2>1, <2>2
<1>9. WireOK'
  BY <1>8 DEF WireOK, coordinator
<1>10. \/ stream' = NoStream /\ conn' = "ended"
       \/ /\ stream' = [stream EXCEPT !.at = "live", !.phase = log[new], !.seq = new]
          /\ conn' = conn
  BY DEF GoesOn, new
<1>11. EventStreamTypeOK'
  <2>1. stream' \in [at : {"lookup", "subscribe", "backlog", "live", "gone"}, phase : Kinds,
                     seq : 0..Len(log), subscribed : BOOLEAN]
    <3>1. CASE stream' = NoStream
      BY <1>1, <3>1 DEF NoStream, Kinds
    <3>2. CASE stream' = [stream EXCEPT !.at = "live", !.phase = log[new], !.seq = new]
      <4>1. new \in 0..Len(log) /\ log[new] \in Kinds
        BY <1>1
      <4>2. stream \in [at : {"lookup", "subscribe", "backlog", "live", "gone"}, phase : Kinds,
                        seq : 0..Len(log), subscribed : BOOLEAN]
        BY DEF EventStreamInv, EventStreamTypeOK
      <4>3. QED
        BY <3>2, <4>1, <4>2
    <3>3. QED
      BY <1>10, <3>1, <3>2
  <2>2. mailbox' \in Seq(1..Len(log))
    BY TakesOne
  <2>3. QED
    BY <1>5, <1>10, <2>1, <2>2 DEF EventStreamInv, EventStreamTypeOK, coordinator
<1>12. StreamOK' /\ MailboxOK'
  <2>1. CASE stream' = NoStream
    BY <2>1, NoHandler
  <2>2. CASE stream' = [stream EXCEPT !.at = "live", !.phase = log[new], !.seq = new]
    <3>1. stream'.at = "live" /\ stream'.seq = new /\ stream'.subscribed = TRUE
      BY <1>2, <2>2 DEF EventStreamInv, EventStreamTypeOK
    <3>2. ASSUME NEW s \in (client.lastId + 1)..new
          PROVE  s \in silent \/ \E i \in 1..Len(wire') : wire'[i] = s
      <4>1. CASE s = new
        <5>1. Len(wire) + 1 \in 1..Len(wire')
          BY <1>1, <1>5
        <5>2. QED
          BY <1>5, <4>1, <5>1
      <4>2. CASE s # new
        <5>1. Len(wire) + 1 \in 1..Len(wire') /\ (Len(wire) + 1) - 1 = Len(wire)
          BY <1>1, <1>5
        <5>2. s \in (client.lastId + 1)..(wire'[Len(wire) + 1] - 1)
          BY <1>1, <1>5, <4>2
        <5>3. s \in silent \/ \E j \in 1..Len(wire) : wire'[j] = s
          BY <1>8, <5>1, <5>2
        <5>4. \A j \in 1..Len(wire) : j \in 1..Len(wire')
          BY <1>1, <1>5
        <5>5. QED
          BY <5>3, <5>4
      <4>3. QED
        BY <4>1, <4>2
    <3>3. StreamOK'
      <4>1. client' = client /\ silent' = silent /\ new # 0 /\ client.lastId <= new
        BY <1>1, <1>2 DEF coordinator, new
      <4>2. \A i \in 1..Len(wire') : wire'[i] <= new
        BY <1>8
      <4>3. QED
        BY <1>2, <3>1, <3>2, <4>1, <4>2 DEF StreamOK, In
    <3>4. ASSUME NEW s \in (new + 1)..Len(log) PROVE s \in silent \cup unsent \/ In(s, mailbox')
      <4>1. s \in (stream.seq + 1)..Len(log) /\ s # new
        BY <1>1 DEF new
      <4>2. s \in silent \cup unsent \/ In(s, mailbox)
        BY <1>3, <4>1
      <4>3. QED
        BY <4>1, <4>2, TakesOne DEF new
    <3>5. MailboxOK'
      BY <3>1, <3>4, TakenInOrder DEF MailboxOK, coordinator, In
    <3>6. QED
      BY <3>3, <3>5
  <2>3. QED
    BY <1>10, <2>1, <2>2
<1>13. LogOK' /\ ClientOK'
  BY DEF EventStreamInv, LogOK, ClientOK, coordinator
<1>14. QED
  BY <1>9, <1>11, <1>12, <1>13, SeenKept, EndKept DEF EventStreamInv, coordinator

LEMMA SendsLive == ASSUME EventStreamInv, Live PROVE EventStreamInv'
<1>1. CASE Head(mailbox) <= stream.seq /\ UNCHANGED <<stream, conn, wire>>
  BY <1>1, DropsRepeated DEF Live
<1>2. CASE /\ Head(mailbox) > stream.seq
           /\ wire' = Append(wire, Head(mailbox))
           /\ GoesOn("live", log[Head(mailbox)], Head(mailbox))
  BY <1>2, SendsNew DEF Live
<1>3. QED
  BY <1>1, <1>2 DEF Live

-----------------------------------------------------------------------------
(* watch().                                                                *)

\* Without a connection the wire is empty, and there is no handler.
LEMMA NoConnection ==
    ASSUME EventStreamInv, Disconnected, log' = log
    PROVE  /\ WireOK' /\ StreamOK' /\ MailboxOK'
           /\ stream' \in [at : {"lookup", "subscribe", "backlog", "live", "gone"}, phase : Kinds,
                           seq : 0..Len(log), subscribed : BOOLEAN]
           /\ mailbox' \in Seq(1..Len(log)) /\ wire' \in Seq(1..Len(log)) /\ conn' = "closed"
<1>1. Len(log) \in Nat
  BY DEF EventStreamInv, EventStreamTypeOK
<1>2. StreamOK' /\ MailboxOK'
  BY NoHandler DEF Disconnected
<1>3. WireOK'
  BY DEF Disconnected, WireOK
<1>4. QED
  BY <1>1, <1>2, <1>3 DEF Disconnected, NoStream, Kinds

LEMMA Opens == ASSUME EventStreamInv, OpenStream PROVE EventStreamInv'
<1>1. /\ client.at = "connect"
      /\ client' = [client EXCEPT !.at = "read"]
      /\ conn' = "opening" /\ wire' = <<>> /\ mailbox' = <<>>
      /\ stream' = [NoStream EXCEPT !.at = "lookup", !.seq = client.lastId]
      /\ UNCHANGED <<coordinator, seen, kills, faults>>
  BY DEF OpenStream
<1>2. client \in [at : {"connect", "read", "poll", "returned", "failed", "threw"},
                  lastId : 0..Len(log), reconnects : 0..(MaxReconnects + 1),
                  polled : 0..Len(log)]
  BY DEF EventStreamInv, EventStreamTypeOK
<1>3. /\ client'.at = "read" /\ client'.lastId = client.lastId
      /\ client'.reconnects = client.reconnects /\ client'.polled = client.polled
  BY <1>1, <1>2
<1>4. stream'.at = "lookup" /\ stream'.seq = client.lastId /\ stream'.subscribed = FALSE
  BY <1>1 DEF NoStream
<1>5. EventStreamTypeOK'
  <2>1. stream' \in [at : {"lookup", "subscribe", "backlog", "live", "gone"}, phase : Kinds,
                     seq : 0..Len(log), subscribed : BOOLEAN]
    BY <1>1, <1>2 DEF NoStream, Kinds
  <2>2. client' \in [at : {"connect", "read", "poll", "returned", "failed", "threw"},
                     lastId : 0..Len(log), reconnects : 0..(MaxReconnects + 1),
                     polled : 0..Len(log)]
    BY <1>1, <1>2
  <2>3. wire' \in Seq(1..Len(log)) /\ mailbox' \in Seq(1..Len(log))
    BY <1>1
  <2>4. QED
    BY <1>1, <2>1, <2>2, <2>3 DEF EventStreamInv, EventStreamTypeOK, coordinator
<1>6. LogOK' /\ ClientOK'
  BY <1>1, <1>3 DEF EventStreamInv, LogOK, ClientOK, coordinator
<1>7. WireOK' /\ MailboxOK'
  BY <1>1, <1>4 DEF WireOK, MailboxOK
<1>8. StreamOK'
  <2>1. client.lastId \in Nat /\ (client.lastId + 1)..client.lastId = {}
    BY <1>2
  <2>2. client.lastId <= client.lastId /\ 1..Len(wire') = {}
    BY <1>1, <2>1
  <2>3. QED
    <3>1. \A s \in (client'.lastId + 1)..stream'.seq : FALSE
      BY <1>3, <1>4, <2>1
    <3>2. \A i \in 1..Len(wire') : FALSE
      BY <2>2
    <3>3. /\ client'.at = "read" /\ wire' = <<>> /\ stream'.seq = client'.lastId
          /\ stream'.at = "lookup" /\ stream'.subscribed = FALSE
          /\ client'.lastId <= stream'.seq
      BY <1>1, <1>3, <1>4, <2>2
    <3>4. (stream'.at \in {"backlog", "live"}) = FALSE
      BY <3>3
    <3>5. QED
      BY <3>1, <3>2, <3>3, <3>4 DEF StreamOK
<1>9. QED
  BY <1>1, <1>3, <1>5, <1>6, <1>7, <1>8, SeenKept, EndKept DEF EventStreamInv, coordinator

\* The watch ends, reconnects or turns to polling, without its having read anything.
LEMMA Reconnects == ASSUME EventStreamInv, Reconnect PROVE EventStreamInv'
<1> USE EventStreamBounds
<1>1. /\ client.at = "read" /\ Disconnected
      /\ client' = [client EXCEPT !.reconnects = @ + 1,
                                  !.at = IF client.reconnects + 1 <= MaxReconnects
                                         THEN "connect" ELSE "poll"]
      /\ UNCHANGED <<coordinator, seen, kills, faults>>
  BY DEF Reconnect
<1>2. client \in [at : {"connect", "read", "poll", "returned", "failed", "threw"},
                  lastId : 0..Len(log), reconnects : 0..(MaxReconnects + 1),
                  polled : 0..Len(log)]
  BY DEF EventStreamInv, EventStreamTypeOK
<1>3. client.reconnects <= MaxReconnects /\ client.polled = 0
  BY <1>1 DEF EventStreamInv, ClientOK
<1>4. /\ client'.at \in {"connect", "poll"}
      /\ client'.at = "connect" => client'.reconnects <= MaxReconnects
      /\ client'.lastId = client.lastId /\ client'.polled = client.polled
  BY <1>1, <1>2, <1>3
<1>5. client' \in [at : {"connect", "read", "poll", "returned", "failed", "threw"},
                   lastId : 0..Len(log), reconnects : 0..(MaxReconnects + 1),
                   polled : 0..Len(log)]
  <2>1. client.reconnects + 1 \in 0..(MaxReconnects + 1)
    BY <1>2, <1>3
  <2>2. CASE client' = [client EXCEPT !.reconnects = @ + 1, !.at = "connect"]
    BY <1>2, <2>1, <2>2
  <2>3. CASE client' = [client EXCEPT !.reconnects = @ + 1, !.at = "poll"]
    BY <1>2, <2>1, <2>3
  <2>4. QED
    BY <1>1, <2>2, <2>3
<1>6. EventStreamTypeOK'
  BY <1>1, <1>5, NoConnection DEF EventStreamInv, EventStreamTypeOK, coordinator
<1>7. LogOK' /\ ClientOK'
  BY <1>1, <1>3, <1>4 DEF EventStreamInv, LogOK, ClientOK, coordinator
<1>8. QED
  BY <1>1, <1>4, <1>6, <1>7, NoConnection, SeenKept, EndKept DEF EventStreamInv, coordinator

LEMMA GivesUp ==
    ASSUME EventStreamInv, Disconnected, client.at = "read",
           client' = [client EXCEPT !.at = "threw"] \/ client' = [client EXCEPT !.at = "poll"],
           faults' \in 0..MaxFaults, UNCHANGED <<coordinator, seen, kills>>
    PROVE  EventStreamInv'
<1>1. client \in [at : {"connect", "read", "poll", "returned", "failed", "threw"},
                  lastId : 0..Len(log), reconnects : 0..(MaxReconnects + 1),
                  polled : 0..Len(log)]
  BY DEF EventStreamInv, EventStreamTypeOK
<1>2. /\ client'.at \in {"threw", "poll"}
      /\ client'.lastId = client.lastId /\ client'.polled = client.polled
      /\ client' \in [at : {"connect", "read", "poll", "returned", "failed", "threw"},
                      lastId : 0..Len(log), reconnects : 0..(MaxReconnects + 1),
                      polled : 0..Len(log)]
  BY <1>1
<1>3. EventStreamTypeOK'
  BY <1>2, NoConnection DEF EventStreamInv, EventStreamTypeOK, coordinator
<1>4. LogOK' /\ ClientOK'
  BY <1>2 DEF EventStreamInv, LogOK, ClientOK, coordinator
<1>5. QED
  BY <1>2, <1>3, <1>4, NoConnection, SeenKept, EndKept DEF EventStreamInv, coordinator

LEMMA FailsToRead ==
    ASSUME EventStreamInv, ReadFails \/ OpenFails
    PROVE  EventStreamInv'
<1>1. faults \in 0..MaxFaults
  BY DEF EventStreamInv, EventStreamTypeOK
<1>2. CASE ReadFails
  BY <1>1, <1>2, GivesUp DEF ReadFails
<1>3. CASE OpenFails
  <2>1. faults' \in 0..MaxFaults
    BY <1>1, <1>3, EventStreamBounds DEF OpenFails
  <2>2. QED
    BY <1>3, <2>1, GivesUp DEF OpenFails
<1>4. QED
  BY <1>2, <1>3

\* What is yielded is appended; it comes after everything that was, or repeats with a poll what
\* the stream had.
LEMMA Yielded ==
    ASSUME EventStreamInv, NEW s \in 1..Len(log), NEW from \in {"stream", "poll"}, Yields(s, from),
           \A i \in 1..Len(seen) :
               seen[i].seq < s \/ (seen[i].seq = s /\ seen[i].from = "stream" /\ from = "poll")
    PROVE  /\ seen' \in Seq([seq : 1..Len(log), from : {"stream", "poll"}])
           /\ Len(seen) \in Nat /\ Len(seen') = Len(seen) + 1
           /\ \A i \in 1..Len(seen) : seen'[i] = seen[i]
           /\ seen'[Len(seen')].seq = s /\ seen'[Len(seen')].from = from
           /\ SeenInOrder'
<1>1. seen \in Seq([seq : 1..Len(log), from : {"stream", "poll"}])
  BY DEF EventStreamInv, EventStreamTypeOK
<1> DEFINE one == [seq |-> s, from |-> from]
<1>2. one \in [seq : 1..Len(log), from : {"stream", "poll"}] /\ one.seq = s /\ one.from = from
  OBVIOUS
<1>3. seen' = Append(seen, one)
  BY DEF Yields
<1> HIDE DEF one
<1>4. /\ seen' \in Seq([seq : 1..Len(log), from : {"stream", "poll"}])
      /\ Len(seen) \in Nat /\ Len(seen') = Len(seen) + 1
      /\ \A i \in 1..Len(seen) : seen'[i] = seen[i]
      /\ seen'[Len(seen')] = one
  BY <1>1, <1>2, <1>3, AppendProperties
<1>5. \A i \in 1..Len(seen') : i \in 1..Len(seen) \/ i = Len(seen')
  BY <1>4
<1>6. ASSUME NEW i \in 1..Len(seen'), NEW j \in 1..Len(seen'), i < j
      PROVE  \/ seen'[i].seq < seen'[j].seq
             \/ seen'[i].seq = seen'[j].seq /\ seen'[i].from = "stream" /\ seen'[j].from = "poll"
  <2>1. i \in 1..Len(seen)
    BY <1>4, <1>6
  <2>2. CASE j \in 1..Len(seen)
    BY <1>4, <1>6, <2>1, <2>2, SMTT(30) DEF EventStreamInv, SeenInOrder
  <2>3. CASE j = Len(seen')
    BY <1>2, <1>4, <2>1, <2>3
  <2>4. QED
    BY <1>5, <2>2, <2>3
<1>7. SeenInOrder'
  BY <1>6 DEF SeenInOrder
<1>8. QED
  BY <1>2, <1>4, <1>7

\* Nothing that was yielded is forgotten.
LEMMA StillSeen ==
    ASSUME EventStreamInv, silent' = silent, Len(seen) \in Nat, Len(seen') = Len(seen) + 1,
           \A i \in 1..Len(seen) : seen'[i] = seen[i]
    PROVE  \A s \in 1..client.lastId : s \in silent' \/ \E i \in 1..Len(seen') : seen'[i].seq = s
<1>1. \A i \in 1..Len(seen) : i \in 1..Len(seen')
  OBVIOUS
<1>2. \A s \in 1..client.lastId : s \in silent \/ \E i \in 1..Len(seen) : seen[i].seq = s
  BY DEF EventStreamInv, NoEventSkipped
<1>3. QED
  BY <1>1, <1>2

\* The next event of the wire, and what is left there.
LEMMA Arrives ==
    ASSUME EventStreamInv, wire # <<>>
    PROVE  /\ Head(wire) \in 1..Len(log) /\ client.lastId < Head(wire)
           /\ \A s \in (client.lastId + 1)..(Head(wire) - 1) : s \in silent
           /\ Tail(wire) \in Seq(1..Len(log))
           /\ \A i \in 1..Len(Tail(wire)) :
                 Tail(wire)[i] = wire[i + 1] /\ i + 1 \in 1..Len(wire) /\ Head(wire) < wire[i + 1]
           /\ \A s : (\E j \in 1..Len(wire) : wire[j] = s) =>
                        s = Head(wire) \/ \E j \in 1..Len(Tail(wire)) : Tail(wire)[j] = s
<1>1. wire \in Seq(1..Len(log))
  BY DEF EventStreamInv, EventStreamTypeOK
<1>2. /\ Tail(wire) \in Seq(1..Len(log)) /\ Len(Tail(wire)) = Len(wire) - 1
      /\ Head(wire) = wire[1] /\ Head(wire) \in 1..Len(log)
      /\ \A i \in 1..Len(Tail(wire)) : Tail(wire)[i] = wire[i + 1]
      /\ Len(wire) \in Nat /\ Len(wire) # 0
  BY <1>1, HeadTailProperties
<1>3. 1 \in 1..Len(wire)
  BY <1>2
<1>4. /\ client.lastId < wire[1]
      /\ \A j \in 1..Len(wire) : 1 < j => wire[1] < wire[j]
      /\ \A s \in (client.lastId + 1)..(wire[1] - 1) :
            s \in silent \/ \E j \in 1..(1 - 1) : wire[j] = s
  BY <1>3 DEF EventStreamInv, WireOK
<1>5. ASSUME NEW i \in 1..Len(Tail(wire))
      PROVE  Tail(wire)[i] = wire[i + 1] /\ i + 1 \in 1..Len(wire) /\ Head(wire) < wire[i + 1]
  <2>1. i + 1 \in 1..Len(wire) /\ 1 < i + 1
    BY <1>2
  <2>2. QED
    BY <1>2, <1>4, <2>1
<1>6. ASSUME NEW s, NEW j \in 1..Len(wire), wire[j] = s, s # Head(wire)
      PROVE  \E k \in 1..Len(Tail(wire)) : Tail(wire)[k] = s
  <2>1. j # 1
    BY <1>2, <1>6
  <2>2. PICK k \in Nat : k = j - 1
    BY <1>2, <2>1
  <2>3. k \in 1..Len(Tail(wire)) /\ k + 1 = j
    BY <1>2, <2>1, <2>2
  <2>4. QED
    BY <1>2, <1>6, <2>3
<1>7. \A s \in (client.lastId + 1)..(Head(wire) - 1) : s \in silent
  BY <1>2, <1>4
<1>8. QED
  BY <1>2, <1>4, <1>5, <1>6, <1>7

\* watch() yields the next event of the stream. A terminal one is the migration's last.
LEMMA Reads == ASSUME EventStreamInv, ReadEvent PROVE EventStreamInv'
<1> DEFINE new == Head(wire)
<1>1. /\ client.at = "read" /\ wire # <<>> /\ Yields(new, "stream")
      /\ UNCHANGED <<coordinator, kills, faults>>
      /\ \/ /\ Terminal(log[new]) /\ Disconnected
            /\ client' = [client EXCEPT !.at = Ended(log[new]), !.lastId = new]
         \/ /\ ~Terminal(log[new])
            /\ client' = [client EXCEPT !.lastId = new]
            /\ wire' = Tail(wire) /\ UNCHANGED <<handler, conn>>
  BY DEF ReadEvent
<1>2. /\ new \in 1..Len(log) /\ client.lastId < new
      /\ \A s \in (client.lastId + 1)..(new - 1) : s \in silent
      /\ Tail(wire) \in Seq(1..Len(log))
      /\ \A i \in 1..Len(Tail(wire)) :
            Tail(wire)[i] = wire[i + 1] /\ i + 1 \in 1..Len(wire) /\ new < wire[i + 1]
      /\ \A s : (\E j \in 1..Len(wire) : wire[j] = s) =>
                   s = new \/ \E j \in 1..Len(Tail(wire)) : Tail(wire)[j] = s
  BY <1>1, Arrives
<1> HIDE DEF new
<1>3. /\ client \in [at : {"connect", "read", "poll", "returned", "failed", "threw"},
                     lastId : 0..Len(log), reconnects : 0..(MaxReconnects + 1),
                     polled : 0..Len(log)]
      /\ seen \in Seq([seq : 1..Len(log), from : {"stream", "poll"}])
      /\ log \in Seq(Kinds) /\ Len(log) \in Nat
  BY DEF EventStreamInv, EventStreamTypeOK, Events
<1>4. client.lastId \in Nat /\ new \in Nat /\ client.lastId < new
  <2>1. client.lastId \in 0..Len(log)
    BY <1>3
  <2>2. QED
    BY <1>2, <1>3, <2>1
<1>5. client.polled = 0 /\ client.reconnects <= MaxReconnects
  BY <1>1 DEF EventStreamInv, ClientOK
<1>6. ASSUME NEW i \in 1..Len(seen)
      PROVE  seen[i].seq < new /\ seen[i].from = "stream" /\ seen[i].seq \in Nat
  <2>1. seen[i].from \in {"stream", "poll"} /\ seen[i].seq \in 1..Len(log)
    <3>1. seen[i] \in [seq : 1..Len(log), from : {"stream", "poll"}]
      BY <1>3, ElementOfSeq
    <3>2. QED
      BY <3>1
  <2>2. seen[i].from # "poll" /\ (seen[i].from = "stream" => seen[i].seq <= client.lastId)
    BY <1>5 DEF EventStreamInv, SeenOK
  <2>3. QED
    BY <1>2, <1>3, <2>1, <2>2
<1>7. /\ seen' \in Seq([seq : 1..Len(log), from : {"stream", "poll"}])
      /\ Len(seen) \in Nat /\ Len(seen') = Len(seen) + 1
      /\ \A i \in 1..Len(seen) : seen'[i] = seen[i]
      /\ seen'[Len(seen')].seq = new /\ seen'[Len(seen')].from = "stream"
      /\ SeenInOrder'
  BY <1>1, <1>2, <1>6, Yielded
<1>8. client'.lastId = new /\ client'.polled = 0 /\ client'.reconnects <= MaxReconnects
  BY <1>1, <1>3, <1>5
<1>9. SeenOK'
  <2>1. ASSUME NEW i \in 1..Len(seen')
        PROVE  seen'[i].from = "stream" /\ seen'[i].seq <= new
    <3>1. CASE i \in 1..Len(seen)
      <4>1. seen'[i] = seen[i]
        BY <1>7, <3>1
      <4>2. seen[i].seq < new /\ seen[i].from = "stream" /\ seen[i].seq \in Nat
        BY <1>6, <3>1
      <4>3. QED
        BY <1>2, <1>3, <4>1, <4>2, SMTT(30)
    <3>2. CASE i = Len(seen')
      BY <1>2, <1>3, <1>7, <3>2
    <3>3. QED
      BY <1>7, <3>1, <3>2
  <2>2. QED
    BY <1>8, <2>1 DEF SeenOK
<1>10. NoEventSkipped'
  <2>1. ASSUME NEW s \in 1..new
        PROVE  s \in silent' \/ \E i \in 1..Len(seen') : seen'[i].seq = s
    <3>1. CASE s \in 1..client.lastId
      BY <1>1, <1>7, <3>1, StillSeen DEF coordinator
    <3>2. CASE s \in (client.lastId + 1)..(new - 1)
      BY <1>1, <1>2, <3>2 DEF coordinator
    <3>3. CASE s = new
      BY <1>7, <3>3
    <3>4. s \in 1..client.lastId \/ s \in (client.lastId + 1)..(new - 1) \/ s = new
      BY <1>4
    <3>5. QED
      BY <3>1, <3>2, <3>3, <3>4
  <2>2. QED
    BY <1>8, <2>1 DEF NoEventSkipped
<1>11. LogOK' /\ ClientOK'
  BY <1>1, <1>8 DEF EventStreamInv, LogOK, ClientOK, coordinator
<1>12. CASE /\ Terminal(log[new]) /\ Disconnected
            /\ client' = [client EXCEPT !.at = Ended(log[new]), !.lastId = new]
  <2>1. new = Len(log)
    BY <1>2, <1>12 DEF EventStreamInv, LogOK
  <2>2. log[new] \in {"done", "failed"}
    BY <1>2, <1>3, <1>12 DEF Terminal, Kinds
  <2>3. /\ client'.at = Ended(log[new])
        /\ client' \in [at : {"connect", "read", "poll", "returned", "failed", "threw"},
                        lastId : 0..Len(log), reconnects : 0..(MaxReconnects + 1),
                        polled : 0..Len(log)]
    <3>1. new \in 0..Len(log) /\ Ended(log[new]) \in {"returned", "failed"}
      BY <1>2, <1>3 DEF Ended
    <3>2. QED
      BY <1>3, <1>12, <3>1
  <2>4. EndsAsStored'
    BY <1>1, <1>7, <2>1, <2>2, <2>3 DEF EndsAsStored, Ended, Phase, coordinator
  <2>5. EventStreamTypeOK'
    BY <1>1, <1>7, <1>12, <2>3, NoConnection DEF EventStreamInv, EventStreamTypeOK, coordinator
  <2>6. QED
    BY <1>1, <1>7, <1>9, <1>10, <1>11, <1>12, <2>4, <2>5, NoConnection
       DEF EventStreamInv, coordinator
<1>13. CASE /\ ~Terminal(log[new])
            /\ client' = [client EXCEPT !.lastId = new]
            /\ wire' = Tail(wire) /\ UNCHANGED <<handler, conn>>
  <2>1. /\ client'.at = "read"
        /\ client' \in [at : {"connect", "read", "poll", "returned", "failed", "threw"},
                        lastId : 0..Len(log), reconnects : 0..(MaxReconnects + 1),
                        polled : 0..Len(log)]
    <3>1. new \in 0..Len(log)
      BY <1>2, <1>3
    <3>2. QED
      BY <1>1, <1>3, <1>13, <3>1
  <2>2. EventStreamTypeOK'
    BY <1>1, <1>2, <1>7, <1>13, <2>1 DEF EventStreamInv, EventStreamTypeOK, coordinator, handler
  <2>3. EndsAsStored'
    BY <2>1 DEF EndsAsStored
  <2>4. WireOK'
    <3>1. ASSUME NEW i \in 1..Len(wire')
          PROVE  /\ new < wire'[i]
                 /\ \A j \in 1..Len(wire') : i < j => wire'[i] < wire'[j]
                 /\ \A s \in (new + 1)..(wire'[i] - 1) :
                       s \in silent \/ \E j \in 1..(i - 1) : wire'[j] = s
      <4>1. wire'[i] = wire[i + 1] /\ i + 1 \in 1..Len(wire) /\ new < wire[i + 1]
        BY <1>2, <1>13
      <4>2. /\ \A j \in 1..Len(wire) : i + 1 < j => wire[i + 1] < wire[j]
            /\ \A s \in (client.lastId + 1)..(wire[i + 1] - 1) :
                  s \in silent \/ \E j \in 1..((i + 1) - 1) : wire[j] = s
        BY <4>1 DEF EventStreamInv, WireOK
      <4>3. ASSUME NEW j \in 1..Len(wire'), i < j PROVE wire'[i] < wire'[j]
        <5>1. wire'[j] = wire[j + 1] /\ j + 1 \in 1..Len(wire) /\ i + 1 < j + 1
          BY <1>2, <1>13, <4>3
        <5>2. QED
          BY <4>1, <4>2, <5>1
      <4>4. ASSUME NEW s \in (new + 1)..(wire'[i] - 1), s \notin silent
            PROVE  \E j \in 1..(i - 1) : wire'[j] = s
        <5>1. wire[i + 1] \in Nat
          <6>1. wire \in Seq(1..Len(log))
            BY DEF EventStreamInv, EventStreamTypeOK
          <6>2. wire[i + 1] \in 1..Len(log)
            BY <4>1, <6>1
          <6>3. QED
            BY <1>3, <6>2
        <5>2. s \in (client.lastId + 1)..(wire[i + 1] - 1) /\ s # new
          <6>1. s \in (new + 1)..(wire[i + 1] - 1)
            BY <4>1
          <6>2. QED
            BY <1>4, <5>1, <6>1
        <5>3. PICK j \in 1..((i + 1) - 1) : wire[j] = s
          BY <4>2, <4>4, <5>2
        <5>4. j # 1
          <6>1. wire[1] = new
            BY <1>1, HeadTailProperties DEF new, EventStreamInv, EventStreamTypeOK
          <6>2. QED
            BY <5>2, <5>3, <6>1
        <5>5. PICK k \in Nat : k = j - 1
          BY <5>3, <5>4
        <5>6. k \in 1..(i - 1) /\ k \in 1..Len(wire') /\ k + 1 = j
          <6>1. Len(wire') \in Nat
            BY <1>2, <1>13
          <6>2. QED
            BY <5>3, <5>4, <5>5, <6>1
        <5>7. wire'[k] = s
          BY <1>2, <1>13, <5>3, <5>6
        <5>8. QED
          BY <5>6, <5>7
      <4>5. QED
        BY <4>1, <4>3, <4>4
    <3>2. QED
      BY <1>1, <1>8, <3>1 DEF WireOK, coordinator
  <2>5. StreamOK'
    <3>1. CASE stream.at = "gone"
      BY <1>13, <3>1 DEF StreamOK, handler
    <3>2. CASE stream.at # "gone"
      <4>1. /\ stream.at = "live" /\ stream.seq # 0 /\ stream.seq \in Nat
            /\ stream.subscribed = (stream.at \in {"backlog", "live"})
            /\ \A i \in 1..Len(wire) : wire[i] <= stream.seq
            /\ \A s \in (client.lastId + 1)..stream.seq : s \in silent \/ In(s, wire)
        BY <1>1, <3>2 DEF EventStreamInv, StreamOK, EventStreamTypeOK
      <4>2. new <= stream.seq
        <5>1. wire[1] = new /\ 1 \in 1..Len(wire)
          BY <1>1, HeadTailProperties DEF new, EventStreamInv, EventStreamTypeOK
        <5>2. QED
          BY <4>1, <5>1
      <4>3. \A i \in 1..Len(wire') : wire'[i] <= stream.seq
        BY <1>2, <1>13, <4>1
      <4>4. ASSUME NEW s \in (new + 1)..stream.seq PROVE s \in silent \/ In(s, Tail(wire))
        <5>1. s \in (client.lastId + 1)..stream.seq /\ s # new
          BY <1>2, <1>3, <4>1
        <5>2. QED
          BY <1>2, <4>1, <5>1 DEF In
      <4>5. QED
        BY <1>1, <1>8, <1>13, <2>1, <4>1, <4>2, <4>3, <4>4 DEF StreamOK, handler, coordinator, In
    <3>3. QED
      BY <3>1, <3>2
  <2>6. MailboxOK'
    BY <1>1, <1>13 DEF EventStreamInv, MailboxOK, coordinator, handler, In
  <2>7. QED
    BY <1>7, <1>9, <1>10, <1>11, <2>2, <2>3, <2>4, <2>5, <2>6 DEF EventStreamInv
<1>14. QED
  BY <1>1, <1>12, <1>13

\* watch() yields the row it polls, if that is not the one it polled before.
LEMMA Polls == ASSUME EventStreamInv, Poll PROVE EventStreamInv'
<1>1. /\ client.at = "poll"
      /\ client' = [client EXCEPT !.polled = Len(log),
                                  !.at = IF Terminal(Phase) THEN Ended(Phase) ELSE "poll"]
      /\ client.polled # Len(log) => Yields(Len(log), "poll")
      /\ client.polled = Len(log) => seen' = seen
      /\ UNCHANGED <<coordinator, handler, conn, wire, kills, faults>>
  BY DEF Poll
<1>2. /\ client \in [at : {"connect", "read", "poll", "returned", "failed", "threw"},
                     lastId : 0..Len(log), reconnects : 0..(MaxReconnects + 1),
                     polled : 0..Len(log)]
      /\ seen \in Seq([seq : 1..Len(log), from : {"stream", "poll"}])
      /\ log \in Seq(Kinds) /\ Len(log) \in Nat /\ Len(log) # 0
      /\ Len(log) \in 1..Len(log) /\ Len(log) \in 0..Len(log) /\ Phase \in Kinds
  BY DEF EventStreamInv, EventStreamTypeOK, Events, Phase
<1>3. /\ client'.polled = Len(log) /\ client'.lastId = client.lastId
      /\ client'.at = (IF Terminal(Phase) THEN Ended(Phase) ELSE "poll")
      /\ client'.at \notin {"connect", "read"}
      /\ client' \in [at : {"connect", "read", "poll", "returned", "failed", "threw"},
                      lastId : 0..Len(log), reconnects : 0..(MaxReconnects + 1),
                      polled : 0..Len(log)]
  BY <1>1, <1>2 DEF Ended
<1>4. stream.at = "gone"
  BY <1>1 DEF EventStreamInv, StreamOK
<1>5. LogOK' /\ ClientOK' /\ WireOK' /\ StreamOK' /\ MailboxOK'
  BY <1>1, <1>3, <1>4, WireKept
     DEF EventStreamInv, LogOK, ClientOK, StreamOK, MailboxOK, coordinator, handler
<1>6. ASSUME NEW i \in 1..Len(seen)
      PROVE  /\ seen[i].seq \in 1..Len(log)
             /\ seen[i].from \in {"stream", "poll"}
             /\ seen[i].from = "stream" => seen[i].seq <= client.lastId
             /\ seen[i].from = "poll" => client.polled # 0 /\ seen[i].seq <= client.polled
  <2>1. seen[i] \in [seq : 1..Len(log), from : {"stream", "poll"}]
    BY <1>2, ElementOfSeq
  <2>2. QED
    BY <2>1 DEF EventStreamInv, SeenOK
<1>7. CASE client.polled = Len(log)
  <2>1. client'.polled = client.polled /\ seen' = seen /\ Len(seen) # 0
        /\ seen[Len(seen)].seq = Len(log)
    BY <1>1, <1>2, <1>3, <1>7 DEF EventStreamInv, SeenOK
  <2>2. SeenOK' /\ SeenInOrder' /\ NoEventSkipped'
    BY <1>1, <1>3, <2>1, SeenKept DEF coordinator
  <2>3. EndsAsStored'
    BY <1>1, <1>2, <1>3, <2>1 DEF EndsAsStored, Ended, Terminal, Kinds, Phase, coordinator
  <2>4. EventStreamTypeOK'
    BY <1>1, <1>3, <2>1 DEF EventStreamInv, EventStreamTypeOK, coordinator, handler
  <2>5. QED
    BY <1>5, <2>2, <2>3, <2>4 DEF EventStreamInv
<1>8. CASE client.polled # Len(log)
  <2>1. ASSUME NEW i \in 1..Len(seen)
        PROVE  seen[i].seq < Len(log) \/ (seen[i].seq = Len(log) /\ seen[i].from = "stream")
    BY <1>2, <1>6, <1>8
  <2>2. /\ seen' \in Seq([seq : 1..Len(log), from : {"stream", "poll"}])
        /\ Len(seen) \in Nat /\ Len(seen') = Len(seen) + 1
        /\ \A i \in 1..Len(seen) : seen'[i] = seen[i]
        /\ seen'[Len(seen')].seq = Len(log) /\ seen'[Len(seen')].from = "poll"
        /\ SeenInOrder'
    BY <1>1, <1>2, <1>8, <2>1, Yielded
  <2>3. SeenOK'
    <3>1. ASSUME NEW i \in 1..Len(seen')
          PROVE  /\ seen'[i].from = "stream" => seen'[i].seq <= client.lastId
                 /\ seen'[i].from = "poll" => seen'[i].seq <= Len(log)
      <4>1. CASE i \in 1..Len(seen)
        <5>1. seen'[i] = seen[i]
          BY <2>2, <4>1
        <5>2. /\ seen[i].seq \in 1..Len(log)
              /\ seen[i].from = "stream" => seen[i].seq <= client.lastId
          BY <1>6, <4>1
        <5>3. QED
          BY <1>2, <5>1, <5>2
      <4>2. CASE i = Len(seen')
        BY <1>2, <2>2, <4>2
      <4>3. QED
        BY <2>2, <4>1, <4>2
    <3>2. QED
      BY <1>2, <1>3, <2>2, <3>1 DEF SeenOK
  <2>4. NoEventSkipped'
    BY <1>1, <1>3, <2>2, StillSeen DEF NoEventSkipped, coordinator
  <2>5. EndsAsStored'
    BY <1>1, <1>2, <1>3, <2>2 DEF EndsAsStored, Ended, Terminal, Kinds, Phase, coordinator
  <2>6. EventStreamTypeOK'
    BY <1>1, <1>3, <2>2 DEF EventStreamInv, EventStreamTypeOK, coordinator, handler
  <2>7. QED
    BY <1>5, <2>2, <2>3, <2>4, <2>5, <2>6 DEF EventStreamInv
<1>9. QED
  BY <1>7, <1>8

LEMMA PollsFail == ASSUME EventStreamInv, PollFails PROVE EventStreamInv'
<1>1. /\ client.at = "poll" /\ client' = [client EXCEPT !.at = "threw"]
      /\ faults < MaxFaults /\ faults' = faults + 1
      /\ UNCHANGED <<coordinator, handler, conn, wire, seen, kills>>
  BY DEF PollFails
<1>2. client'.at = "threw" /\ client'.lastId = client.lastId /\ client'.polled = client.polled
  BY <1>1 DEF EventStreamInv, EventStreamTypeOK
<1>3. EventStreamTypeOK'
  <2>1. faults' \in 0..MaxFaults
    BY <1>1, EventStreamBounds DEF EventStreamInv, EventStreamTypeOK
  <2>2. QED
    BY <1>1, <2>1 DEF EventStreamInv, EventStreamTypeOK, coordinator, handler
<1>4. LogOK' /\ ClientOK' /\ StreamOK' /\ MailboxOK'
  BY <1>1, <1>2 DEF EventStreamInv, LogOK, ClientOK, StreamOK, MailboxOK, coordinator, handler
<1>5. QED
  BY <1>1, <1>2, <1>3, <1>4, WireKept, SeenKept, EndKept DEF EventStreamInv, coordinator

-----------------------------------------------------------------------------
(* Connections and crashes.                                                *)

LEMMA Cuts ==
    ASSUME EventStreamInv, NEW how \in {"ended", "broken"}, Cut(how)
    PROVE  EventStreamInv'
<1>1. /\ Delivered /\ conn' = how /\ stream' = NoStream /\ mailbox' = <<>>
      /\ faults < MaxFaults /\ faults' = faults + 1
      /\ UNCHANGED <<coordinator, client, seen, kills>>
  BY DEF Cut
<1>2. stream' \in [at : {"lookup", "subscribe", "backlog", "live", "gone"}, phase : Kinds,
                   seq : 0..Len(log), subscribed : BOOLEAN]
  <2>1. Len(log) \in Nat
    BY DEF EventStreamInv, EventStreamTypeOK
  <2>2. QED
    BY <1>1, <2>1 DEF NoStream, Kinds
<1>3. EventStreamTypeOK'
  <2>1. wire' \in Seq(1..Len(log)) /\ mailbox' \in Seq(1..Len(log))
    BY <1>1, Delivers
  <2>2. faults' \in 0..MaxFaults
    BY <1>1, EventStreamBounds DEF EventStreamInv, EventStreamTypeOK
  <2>3. QED
    BY <1>1, <1>2, <2>1, <2>2 DEF EventStreamInv, EventStreamTypeOK, coordinator
<1>4. LogOK' /\ ClientOK'
  BY <1>1 DEF EventStreamInv, LogOK, ClientOK, coordinator
<1>5. QED
  BY <1>1, <1>3, <1>4, WireCut, NoHandler, SeenKept, EndKept DEF EventStreamInv, coordinator

LEMMA Crashes == ASSUME EventStreamInv, CoordinatorCrash PROVE EventStreamInv'
<1>1. /\ unsent' = {} /\ stream' = NoStream /\ mailbox' = <<>>
      /\ faults < MaxFaults /\ faults' = faults + 1
      /\ UNCHANGED <<log, silent, seen, kills>>
      /\ \/ conn' = "closed" /\ client' = [client EXCEPT !.at = "poll"] /\ wire' = wire
         \/ conn' = "broken" /\ Delivered /\ client' = client
         \/ conn' = conn /\ wire' = wire /\ client' = client
  BY DEF CoordinatorCrash
<1>2. stream' \in [at : {"lookup", "subscribe", "backlog", "live", "gone"}, phase : Kinds,
                   seq : 0..Len(log), subscribed : BOOLEAN]
  <2>1. Len(log) \in Nat
    BY DEF EventStreamInv, EventStreamTypeOK
  <2>2. QED
    BY <1>1, <2>1 DEF NoStream, Kinds
<1>3. wire' \in Seq(1..Len(log)) /\ mailbox' \in Seq(1..Len(log))
  BY <1>1, Delivers DEF EventStreamInv, EventStreamTypeOK
<1>4. /\ client'.lastId = client.lastId /\ client'.polled = client.polled
      /\ client' = client \/ client'.at = "poll"
      /\ client' \in [at : {"connect", "read", "poll", "returned", "failed", "threw"},
                      lastId : 0..Len(log), reconnects : 0..(MaxReconnects + 1),
                      polled : 0..Len(log)]
  <2>1. client \in [at : {"connect", "read", "poll", "returned", "failed", "threw"},
                    lastId : 0..Len(log), reconnects : 0..(MaxReconnects + 1),
                    polled : 0..Len(log)]
    BY DEF EventStreamInv, EventStreamTypeOK
  <2>2. QED
    BY <1>1, <2>1
<1>5. WireOK'
  BY <1>1, <1>4, WireKept, WireCut
<1>6. faults' \in 0..MaxFaults
  BY <1>1, EventStreamBounds DEF EventStreamInv, EventStreamTypeOK
<1>7. EventStreamTypeOK'
  BY <1>1, <1>2, <1>3, <1>4, <1>6 DEF EventStreamInv, EventStreamTypeOK
<1>8. LogOK' /\ ClientOK'
  BY <1>1, <1>4 DEF EventStreamInv, LogOK, ClientOK
<1>9. EndsAsStored'
  BY <1>1, <1>4, EndKept
<1>10. QED
  BY <1>1, <1>4, <1>5, <1>7, <1>8, <1>9, NoHandler, SeenKept DEF EventStreamInv

-----------------------------------------------------------------------------
(* The theorems.                                                           *)

\* Every reachable state satisfies the invariant.
THEOREM EventStreamInvariant == EventStreamSpec => []EventStreamInv
<1>1. EventStreamInit => EventStreamInv
  BY StreamInit
<1>2. EventStreamInv /\ [EventStreamNext]_streamVars => EventStreamInv'
  <2> SUFFICES ASSUME EventStreamInv, [EventStreamNext]_streamVars PROVE EventStreamInv'
    OBVIOUS
  <2>1. CASE Announcing
    BY <2>1, Stores, Broadcasts, Kills DEF Announcing
  <2>2. CASE Handling
    BY <2>2, LooksUp, Subscribes, SendsBacklog, SendsLive DEF Handling
  <2>3. CASE Watching
    BY <2>3, Opens, Reads, Reconnects, FailsToRead, Polls DEF Watching
  <2>4. CASE OpenFails \/ PollFails
    BY <2>4, FailsToRead, PollsFail
  <2>5. CASE ResponseEnds \/ ConnectionBreaks
    BY <2>5, Cuts DEF ResponseEnds, ConnectionBreaks
  <2>6. CASE CoordinatorCrash
    BY <2>6, Crashes
  <2>7. CASE UNCHANGED streamVars
    <3>1. UNCHANGED <<log, unsent, silent, stream, mailbox, conn, wire, client, seen, kills, faults>>
      BY <2>7 DEF streamVars, coordinator, handler
    <3>2. EventStreamTypeOK' /\ LogOK' /\ ClientOK'
      BY <3>1 DEF EventStreamInv, EventStreamTypeOK, LogOK, ClientOK
    <3>3. StreamOK' /\ MailboxOK'
      BY <3>1 DEF EventStreamInv, StreamOK, MailboxOK, In
    <3>4. QED
      BY <3>1, <3>2, <3>3, WireKept, SeenKept, EndKept DEF EventStreamInv
  <2>8. QED
    BY <2>1, <2>2, <2>3, <2>4, <2>5, <2>6, <2>7 DEF EventStreamNext
<1>3. QED
  BY <1>1, <1>2, PTL DEF EventStreamSpec

\* The variables keep their types: the handler and the watch stay within the stored events.
THEOREM EventStreamTypes == EventStreamSpec => []EventStreamTypeOK
<1>1. EventStreamInv => EventStreamTypeOK
  BY DEF EventStreamInv
<1>2. QED
  BY <1>1, EventStreamInvariant, PTL

\* watch() never goes back, across reconnections and the change to polling (migrations.ts).
THEOREM WatchNeverGoesBack == EventStreamSpec => []SeenInOrder
<1>1. EventStreamInv => SeenInOrder
  BY DEF EventStreamInv
<1>2. QED
  BY <1>1, EventStreamInvariant, PTL

\* watch() has every event up to the last it read, wherever a stream was cut, but for those
\* that were never broadcast (sse_controller.ex subscribes before it reads the backlog).
THEOREM WatchHasNoGaps == EventStreamSpec => []NoEventSkipped
<1>1. EventStreamInv => NoEventSkipped
  BY DEF EventStreamInv
<1>2. QED
  BY <1>1, EventStreamInvariant, PTL

\* When watch() returns or raises the migration's failure, that is how the migration ended.
THEOREM WatchEndsAsStored == EventStreamSpec => []EndsAsStored
<1>1. EventStreamInv => EndsAsStored
  BY DEF EventStreamInv
<1>2. QED
  BY <1>1, EventStreamInvariant, PTL

=============================================================================
