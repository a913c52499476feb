----------------------------- MODULE ChannelProofs -----------------------------
(***************************************************************************)
(* The SDK's channel takes every reply for what it answers, whatever       *)
(* becomes of the sockets: for any numbers of commands, topics, sockets,   *)
(* calls and faults, from ChannelConstants alone.                          *)
(***************************************************************************)
EXTENDS Channel, SequenceTheorems, TLAPS

(* The inductive invariant.                                                *)

\* The socket that is connecting is the current one, and the one that connect() waits for.
ConnectingOK == \A s \in Sockets : ready[s] = "connecting" => socket = s /\ connecting = s

\* A ref is used once: a request or a reply under way that has the ref of a pending one is for
\* the same push, on the same socket. (What a channel broadcasts has no ref.)
RefsOK ==
    /\ \A p \in pending : p.ref # 0 /\ p.ref < nextRef
    /\ \A s \in Sockets : \A m \in up[s] :
          /\ m.ref # 0 /\ m.ref < nextRef
          /\ \A p \in pending : p.ref = m.ref => p.of = m.of /\ p.on = s
    /\ \A s \in Sockets : \A f \in Elements(down[s]) :
          /\ f.ref < nextRef
          /\ \A p \in pending : p.ref = f.ref => p.of = f.of /\ p.on = s

\* What frame f says, on socket s, is so: the command has run, the topic has its channel.
Truthful(f, s) ==
    /\ f.kind = "done" => f.of \in ran
    /\ f.kind = "ok" /\ f.of \in Commands => f.of \in ran
    /\ f.kind = "ok" /\ f.of \in Topics => f.of \in channels[s] \/ unanswered # {}

FramesOK == \A s \in Sockets : \A f \in Elements(down[s]) : Truthful(f, s)

HeardOK == \A c \in Commands : heard[c] = "done" => c \in ran

ChannelInv ==
    /\ ChannelTypeOK /\ ConnectingOK /\ RefsOK /\ FramesOK /\ HeardOK
    /\ PendingHasSocket /\ JoinedIsServed /\ CompletedHasRun

-----------------------------------------------------------------------------
(* Sequences of frames and calls.                                          *)

LEMMA ElementsTyped ==
    ASSUME NEW S, NEW q \in Seq(S)
    PROVE  Elements(q) \subseteq S /\ \A i \in 1..Len(q) : q[i] \in Elements(q)
BY DEF Elements

LEMMA ElementsTail ==
    ASSUME NEW S, NEW q \in Seq(S), q # <<>>
    PROVE  /\ Head(q) \in Elements(q) /\ Tail(q) \in Seq(S)
           /\ Elements(Tail(q)) \subseteq Elements(q)
<1>1. /\ Tail(q) \in Seq(S) /\ Len(Tail(q)) = Len(q) - 1 /\ Head(q) = q[1]
      /\ \A i \in 1..Len(Tail(q)) : Tail(q)[i] = q[i + 1]
      /\ Len(q) \in Nat /\ Len(q) # 0
  BY HeadTailProperties
<1>2. Head(q) \in Elements(q)
  <2>1. 1 \in DOMAIN q
    BY <1>1
  <2>2. QED
    BY <1>1, <2>1 DEF Elements
<1>3. ASSUME NEW i \in DOMAIN Tail(q) PROVE Tail(q)[i] \in Elements(q)
  <2>1. i \in 1..Len(Tail(q)) /\ i + 1 \in DOMAIN q
    BY <1>1
  <2>2. Tail(q)[i] = q[i + 1]
    BY <1>1, <2>1
  <2>3. QED
    BY <2>1, <2>2 DEF Elements
<1>4. QED
  BY <1>1, <1>2, <1>3 DEF Elements

LEMMA ElementsConcat ==
    ASSUME NEW S, NEW q \in Seq(S), NEW r \in Seq(S)
    PROVE  q \o r \in Seq(S) /\ Elements(q \o r) \subseteq Elements(q) \cup Elements(r)
<1>1. /\ q \o r \in Seq(S) /\ Len(q \o r) = Len(q) + Len(r)
      /\ \A i \in 1..(Len(q) + Len(r)) : (q \o r)[i] = IF i <= Len(q) THEN q[i] ELSE r[i - Len(q)]
      /\ Len(q) \in Nat /\ Len(r) \in Nat
  BY ConcatProperties
<1>2. ASSUME NEW i \in DOMAIN (q \o r) PROVE (q \o r)[i] \in Elements(q) \cup Elements(r)
  <2>1. i \in 1..(Len(q) + Len(r))
    BY <1>1
  <2>2. CASE i <= Len(q)
    <3>1. (q \o r)[i] = q[i] /\ i \in DOMAIN q
      BY <1>1, <2>1, <2>2
    <3>2. QED
      BY <3>1 DEF Elements
  <2>3. CASE ~(i <= Len(q))
    <3>1. (q \o r)[i] = r[i - Len(q)] /\ i - Len(q) \in DOMAIN r
      BY <1>1, <2>1, <2>3
    <3>2. QED
      BY <3>1 DEF Elements
  <2>4. QED
    BY <2>2, <2>3
<1>3. QED
  BY <1>1, <1>2 DEF Elements

LEMMA ElementsFew ==
    /\ Elements(<<>>) = {}
    /\ \A x : Elements(<<x>>) = {x}
<1>1. Elements(<<>>) = {}
  BY DEF Elements
<1>2. ASSUME NEW x PROVE Elements(<<x>>) = {x}
  <2>1. DOMAIN <<x>> = {1} /\ <<x>>[1] = x
    OBVIOUS
  <2>2. QED
    BY <2>1 DEF Elements
<1>3. QED
  BY <1>1, <1>2

LEMMA ElementsAppend ==
    ASSUME NEW S, NEW q \in Seq(S), NEW x \in S
    PROVE  Append(q, x) \in Seq(S) /\ Elements(Append(q, x)) = Elements(q) \cup {x}
<1>1. /\ Append(q, x) \in Seq(S) /\ Len(Append(q, x)) = Len(q) + 1 /\ Len(q) \in Nat
      /\ \A i \in 1..Len(q) : Append(q, x)[i] = q[i]
      /\ Append(q, x)[Len(q) + 1] = x
      /\ DOMAIN Append(q, x) = 1..(Len(q) + 1) /\ DOMAIN q = 1..Len(q)
  BY AppendProperties
<1>2. \A i \in DOMAIN Append(q, x) : i \in DOMAIN q \/ i = Len(q) + 1
  BY <1>1
<1>3. \A i \in DOMAIN Append(q, x) : Append(q, x)[i] \in Elements(q) \cup {x}
  BY <1>1, <1>2 DEF Elements
<1>4. \A y \in Elements(q) \cup {x} : \E i \in DOMAIN Append(q, x) : Append(q, x)[i] = y
  <2>1. \A i \in DOMAIN q : i \in DOMAIN Append(q, x) /\ Append(q, x)[i] = q[i]
    BY <1>1
  <2>2. Len(q) + 1 \in DOMAIN Append(q, x)
    BY <1>1
  <2>3. QED
    BY <1>1, <2>1, <2>2 DEF Elements
<1>5. QED
  BY <1>1, <1>3, <1>4 DEF Elements

-----------------------------------------------------------------------------
(* What the steps of the SDK are made of.                                  *)

Asked == Commands \cup Topics
Replies == [ref : Nat, of : Asked, on : Sockets]

\* A push uses the next refs, on the current socket.
LEMMA Pushed ==
    ASSUME ChannelTypeOK, NEW ofs \in Seq(Asked), NEW sent, NEW replies \in SUBSET pending,
           Push(ofs, sent, replies),
           socket \in Sockets \/ \A i \in DOMAIN ofs : ofs[i] \notin sent
    PROVE  /\ pending' \subseteq Replies
           /\ nextRef' \in Nat \ {0} /\ nextRef <= nextRef'
           /\ up' \in [Sockets -> SUBSET Requests]
           /\ \A p \in pending' : p \in pending \/
                 \E i \in DOMAIN ofs : /\ p = [ref |-> nextRef + i - 1, of |-> ofs[i], on |-> socket]
                                       /\ socket \in Sockets
           /\ \A s \in Sockets : \A m \in up'[s] : m \in up[s] \/
                 \E i \in DOMAIN ofs : s = socket /\ m = [ref |-> nextRef + i - 1, of |-> ofs[i]]
           /\ \A i \in DOMAIN ofs :
                 /\ i \in 1..Len(ofs) /\ ofs[i] \in Asked /\ nextRef + i - 1 \in Nat
                 /\ nextRef <= nextRef + i - 1 /\ nextRef + i - 1 < nextRef'
<1> DEFINE out == {i \in DOMAIN ofs : ofs[i] \in sent}
           new == {[ref |-> nextRef + i - 1, of |-> ofs[i], on |-> socket] : i \in out}
           requests == {[ref |-> nextRef + i - 1, of |-> ofs[i]] : i \in out}
<1>1. /\ nextRef' = nextRef + Len(ofs) /\ pending' = replies \cup new
      /\ up' = IF out = {} THEN up ELSE [up EXCEPT ![socket] = @ \cup requests]
  BY DEF Push
<1>2. /\ nextRef \in Nat \ {0} /\ pending \subseteq Replies /\ up \in [Sockets -> SUBSET Requests]
      /\ Len(ofs) \in Nat
  BY DEF ChannelTypeOK, Replies, Asked
<1>3. \A i \in DOMAIN ofs :
         /\ i \in 1..Len(ofs) /\ ofs[i] \in Asked /\ nextRef + i - 1 \in Nat
         /\ nextRef <= nextRef + i - 1 /\ nextRef + i - 1 < nextRef'
  BY <1>1, <1>2
<1>4. \A i \in out : i \in DOMAIN ofs /\ socket \in Sockets
  OBVIOUS
<1>5. new \subseteq Replies
  BY <1>3, <1>4 DEF Replies
<1>6. requests \subseteq Requests
  BY <1>3, <1>4 DEF Requests, Asked
<1>7. up' \in [Sockets -> SUBSET Requests]
  <2> HIDE DEF out, requests
  <2>1. QED
    BY <1>1, <1>2, <1>6
<1>8. \A s \in Sockets : \A m \in up'[s] : m \in up[s] \/ (s = socket /\ m \in requests)
  <2> HIDE DEF out, requests
  <2>1. QED
    BY <1>1, <1>2
<1>9. \A p \in pending' : p \in pending \/ (p \in new /\ socket \in Sockets)
  BY <1>1, <1>4
<1>10. \A p \in new : \E i \in DOMAIN ofs : p = [ref |-> nextRef + i - 1, of |-> ofs[i], on |-> socket]
  BY <1>4
<1>11. \A m \in requests : \E i \in DOMAIN ofs : m = [ref |-> nextRef + i - 1, of |-> ofs[i]]
  BY <1>4
<1>12. nextRef' \in Nat \ {0} /\ nextRef <= nextRef'
  BY <1>1, <1>2
<1>13. pending' \subseteq Replies
  BY <1>1, <1>2, <1>5
<1> HIDE DEF out, new, requests
<1>14. QED
  BY <1>3, <1>7, <1>8, <1>9, <1>10, <1>11, <1>12, <1>13

\* No frame is added by the client's steps.
Fewer == /\ down' \in [Sockets -> Seq(Frames)]
         /\ \A s \in Sockets : Elements(down'[s]) \subseteq Elements(down[s])

\* A push keeps refs apart: those it uses were never used.
LEMMA PushedRefs ==
    ASSUME ChannelInv, NEW ofs \in Seq(Asked), NEW sent, NEW replies \in SUBSET pending,
           Push(ofs, sent, replies),
           socket \in Sockets \/ \A i \in DOMAIN ofs : ofs[i] \notin sent,
           Fewer
    PROVE  RefsOK'
<1>1. ChannelTypeOK /\ RefsOK
  BY DEF ChannelInv
<1>2. /\ pending' \subseteq Replies
      /\ nextRef' \in Nat \ {0} /\ nextRef <= nextRef'
      /\ up' \in [Sockets -> SUBSET Requests]
      /\ \A p \in pending' : p \in pending \/
            \E i \in DOMAIN ofs : /\ p = [ref |-> nextRef + i - 1, of |-> ofs[i], on |-> socket]
                                  /\ socket \in Sockets
      /\ \A s \in Sockets : \A m \in up'[s] : m \in up[s] \/
            \E i \in DOMAIN ofs : s = socket /\ m = [ref |-> nextRef + i - 1, of |-> ofs[i]]
      /\ \A i \in DOMAIN ofs :
            /\ i \in 1..Len(ofs) /\ ofs[i] \in Asked /\ nextRef + i - 1 \in Nat
            /\ nextRef <= nextRef + i - 1 /\ nextRef + i - 1 < nextRef'
  BY <1>1, Pushed
<1>3. nextRef \in Nat \ {0}
  BY <1>1 DEF ChannelTypeOK
<1>4. ASSUME NEW p \in pending'
      PROVE  /\ p.ref \in Nat /\ p.ref # 0 /\ p.ref < nextRef'
             /\ \/ p \in pending
                \/ /\ nextRef <= p.ref /\ p.on = socket
                   /\ \E i \in DOMAIN ofs : p.ref = nextRef + i - 1 /\ p.of = ofs[i]
  <2>1. p.ref \in Nat
    BY <1>2 DEF Replies
  <2>2. CASE p \in pending
    BY <1>1, <1>2, <1>3, <2>1, <2>2 DEF RefsOK
  <2>3. CASE \E i \in DOMAIN ofs : p = [ref |-> nextRef + i - 1, of |-> ofs[i], on |-> socket]
    <3>1. PICK i \in DOMAIN ofs : p = [ref |-> nextRef + i - 1, of |-> ofs[i], on |-> socket]
      BY <2>3
    <3>2. p.ref = nextRef + i - 1 /\ p.of = ofs[i] /\ p.on = socket
      BY <3>1
    <3>3. nextRef <= p.ref /\ p.ref < nextRef' /\ p.ref # 0
      BY <1>2, <1>3, <3>2
    <3>4. QED
      BY <2>1, <3>2, <3>3
  <2>4. QED
    BY <1>2, <2>2, <2>3
<1>5. ASSUME NEW s \in Sockets, NEW m \in up'[s]
      PROVE  /\ m.ref # 0 /\ m.ref < nextRef'
             /\ \A p \in pending' : p.ref = m.ref => p.of = m.of /\ p.on = s
  <2>1. CASE m \in up[s]
    <3>1. m.ref # 0 /\ m.ref < nextRef /\ m.ref \in Nat
      BY <1>1, <2>1 DEF RefsOK, ChannelTypeOK, Requests
    <3>2. \A p \in pending : p.ref = m.ref => p.of = m.of /\ p.on = s
      BY <1>1, <2>1 DEF RefsOK
    <3>3. \A p \in pending' : p.ref = m.ref => p \in pending
      BY <1>3, <1>4, <3>1
    <3>4. QED
      BY <1>2, <1>3, <3>1, <3>2, <3>3
  <2>2. CASE \E i \in DOMAIN ofs : s = socket /\ m = [ref |-> nextRef + i - 1, of |-> ofs[i]]
    <3>1. PICK i \in DOMAIN ofs : s = socket /\ m = [ref |-> nextRef + i - 1, of |-> ofs[i]]
      BY <2>2
    <3>2. m.ref = nextRef + i - 1 /\ m.of = ofs[i]
      BY <3>1
    <3>3. m.ref # 0 /\ m.ref < nextRef' /\ nextRef <= m.ref /\ m.ref \in Nat /\ i \in Nat
      BY <1>2, <1>3, <3>2
    <3>4. ASSUME NEW p \in pending', p.ref = m.ref PROVE p.of = m.of /\ p.on = s
      <4>1. p \notin pending
        BY <1>1, <1>3, <3>3, <3>4 DEF RefsOK
      <4>2. PICK j \in DOMAIN ofs : p.ref = nextRef + j - 1 /\ p.of = ofs[j] /\ p.on = socket
        BY <1>4, <4>1
      <4>3. j \in Nat
        BY <1>2
      <4>4. i = j
        BY <1>3, <3>2, <3>3, <3>4, <4>2, <4>3
      <4>5. QED
        BY <3>1, <3>2, <4>2, <4>4
    <3>5. QED
      BY <3>3, <3>4
  <2>3. QED
    BY <1>2, <2>1, <2>2
<1>6. ASSUME NEW s \in Sockets, NEW f \in Elements(down'[s])
      PROVE  f.ref < nextRef' /\ \A p \in pending' : p.ref = f.ref => p.of = f.of /\ p.on = s
  <2>1. f \in Elements(down[s]) /\ down[s] \in Seq(Frames)
    BY <1>1 DEF Fewer, ChannelTypeOK
  <2>2. f \in Frames
    BY <2>1, ElementsTyped
  <2>3. f.ref \in Nat /\ f.ref < nextRef
    BY <1>1, <2>1, <2>2 DEF RefsOK, Frames
  <2>4. \A p \in pending : p.ref = f.ref => p.of = f.of /\ p.on = s
    BY <1>1, <2>1 DEF RefsOK
  <2>5. \A p \in pending' : p.ref = f.ref => p \in pending
    BY <1>3, <1>4, <2>3
  <2>6. QED
    BY <1>2, <1>3, <2>3, <2>4, <2>5
<1>7. QED
  BY <1>4, <1>5, <1>6 DEF RefsOK

LEMMA PushedHasSocket ==
    ASSUME ChannelInv, NEW ofs \in Seq(Asked), NEW sent, NEW replies \in SUBSET pending,
           Push(ofs, sent, replies),
           socket \in Sockets \/ \A i \in DOMAIN ofs : ofs[i] \notin sent,
           socket' = socket, replaced' = replaced
    PROVE  PendingHasSocket'
<1>1. ChannelTypeOK
  BY DEF ChannelInv
<1>2. \A p \in pending' : p \in pending \/
         \E i \in DOMAIN ofs : p = [ref |-> nextRef + i - 1, of |-> ofs[i], on |-> socket]
  BY <1>1, Pushed
<1>3. \A p \in pending' : p \in pending \/ p.on = socket
  BY <1>2
<1>4. QED
  BY <1>3 DEF ChannelInv, PendingHasSocket

\* With fewer pending replies, requests and frames refs are still apart.
LEMMA FewerRefs ==
    ASSUME ChannelInv, Fewer, pending' \subseteq pending, nextRef' = nextRef,
           \A s \in Sockets : up'[s] \subseteq up[s]
    PROVE  RefsOK'
BY DEF ChannelInv, RefsOK, Fewer

LEMMA FewerFrames ==
    ASSUME ChannelInv, Fewer, ran \subseteq ran', unanswered \subseteq unanswered',
           \A s \in Sockets : \/ Elements(down'[s]) = {}
                              \/ channels[s] \subseteq channels'[s] \/ unanswered' # {}
    PROVE  FramesOK'
BY DEF ChannelInv, FramesOK, Fewer, Truthful

\* Calls that end, and calls that go on.
LEMMA Settles ==
    ASSUME ChannelInv, NEW cs, NEW how \in {"resolved", "rejected"}, Settle(cs, how),
           ran' = ran, how = "resolved" => cs \cap Awaiting \subseteq ran
    PROVE  /\ call' \in [Commands ->
                          {"idle", "joining", "pushed", "awaiting", "resolved", "rejected"}]
           /\ heard' \in [Commands -> {"off", "pending", "done", "failed"}]
           /\ HeardOK' /\ CompletedHasRun'
<1>1. /\ call \in [Commands -> {"idle", "joining", "pushed", "awaiting", "resolved", "rejected"}]
      /\ heard \in [Commands -> {"off", "pending", "done", "failed"}]
      /\ Awaiting \subseteq Commands
  BY ChannelConstants DEF ChannelInv, ChannelTypeOK
<1>2. \A c \in Commands : /\ call'[c] = (IF c \in cs THEN how ELSE call[c])
                          /\ heard'[c] = (IF c \in cs THEN "off" ELSE heard[c])
  BY DEF Settle
<1>3. HeardOK'
  BY <1>2 DEF ChannelInv, HeardOK
<1>4. CompletedHasRun'
  BY <1>1, <1>2 DEF ChannelInv, CompletedHasRun
<1>5. /\ call' \in [Commands ->
                     {"idle", "joining", "pushed", "awaiting", "resolved", "rejected"}]
      /\ heard' \in [Commands -> {"off", "pending", "done", "failed"}]
  BY <1>1 DEF Settle
<1>6. QED
  BY <1>3, <1>4, <1>5

LEMMA PushesCommands ==
    ASSUME ChannelInv, NEW cs \in Seq(Commands), NEW replies \in SUBSET pending, NEW withdrawn,
           PushCommands(cs, replies, withdrawn), Fewer,
           ran' = ran, socket' = socket, replaced' = replaced
    PROVE  /\ pending' \subseteq Replies /\ nextRef' \in Nat \ {0}
           /\ up' \in [Sockets -> SUBSET Requests]
           /\ call' \in [Commands ->
                          {"idle", "joining", "pushed", "awaiting", "resolved", "rejected"}]
           /\ heard' \in [Commands -> {"off", "pending", "done", "failed"}]
           /\ RefsOK' /\ PendingHasSocket' /\ HeardOK' /\ CompletedHasRun'
<1> DEFINE sent == IF Open THEN Elements(cs) \ withdrawn ELSE {}
<1>1. /\ Push(cs, sent, replies)
      /\ call' = [c \in Commands |-> CASE c \in sent -> "pushed"
                                       [] c \in Elements(cs) \ sent -> "rejected"
                                       [] OTHER -> call[c]]
      /\ heard' = [c \in Commands |-> IF c \in sent /\ c \in Awaiting
                                      THEN "pending" ELSE heard[c]]
  BY DEF PushCommands
<1>2. socket \in Sockets \/ \A i \in DOMAIN cs : cs[i] \notin sent
  BY DEF Open, ChannelInv, ChannelTypeOK
<1>3. cs \in Seq(Asked)
  BY SeqMonotonic DEF Asked
<1> HIDE DEF sent
<1>4. /\ call \in [Commands -> {"idle", "joining", "pushed", "awaiting", "resolved", "rejected"}]
      /\ heard \in [Commands -> {"off", "pending", "done", "failed"}]
      /\ Awaiting \subseteq Commands /\ ChannelTypeOK
  BY ChannelConstants DEF ChannelInv, ChannelTypeOK
<1>5. \A c \in Commands : /\ call'[c] \in {"pushed", "rejected", call[c]}
                          /\ heard'[c] \in {"pending", heard[c]}
  BY <1>1
<1>6. /\ call' \in [Commands ->
                     {"idle", "joining", "pushed", "awaiting", "resolved", "rejected"}]
      /\ heard' \in [Commands -> {"off", "pending", "done", "failed"}]
  BY <1>1, <1>4
<1>7. HeardOK' /\ CompletedHasRun'
  BY <1>4, <1>5 DEF ChannelInv, HeardOK, CompletedHasRun
<1>8. /\ pending' \subseteq Replies /\ nextRef' \in Nat \ {0}
      /\ up' \in [Sockets -> SUBSET Requests]
  BY <1>1, <1>2, <1>3, <1>4, Pushed
<1>9. RefsOK' /\ PendingHasSocket'
  BY <1>1, <1>2, <1>3, PushedRefs, PushedHasSocket
<1>10. QED
  BY <1>6, <1>7, <1>8, <1>9

\* A socket that is lost takes its pushes, its joined topics and the calls with it.
LEMMA Disconnects ==
    ASSUME ChannelInv, NEW s \in Sockets, NEW refused \in BOOLEAN, Disconnect(s, refused),
           ran' = ran, replaced' = replaced, unanswered' = unanswered,
           \A r \in Sockets : r # s => channels'[r] = channels[r],
           refused => connecting = s,
           \A r \in Sockets : ready'[r] = "connecting" => r # s /\ ready[r] = "connecting"
    PROVE  /\ socket' \in Sockets \cup {0} /\ connecting' \in Sockets \cup {0}
           /\ connectors' \in Seq(Topics) /\ joiners' \in [Topics -> Seq(Commands)]
           /\ joined' \in [Topics -> Nat] /\ pending' \subseteq pending
           /\ call' \in [Commands ->
                          {"idle", "joining", "pushed", "awaiting", "resolved", "rejected"}]
           /\ heard' \in [Commands -> {"off", "pending", "done", "failed"}]
           /\ ConnectingOK' /\ HeardOK' /\ CompletedHasRun'
           /\ PendingHasSocket' /\ JoinedIsServed'
<1>1. ChannelTypeOK
  BY DEF ChannelInv
<1> DEFINE lost == {p.of : p \in Rejected(s)}
           topics == (lost \cap Topics) \cup IF refused THEN Elements(connectors) ELSE {}
           ending == (lost \cap Commands) \cup UNION {Elements(joiners[t]) : t \in topics}
<1>2. /\ socket' = IF socket = s THEN 0 ELSE socket
      /\ joined' = JoinedAfter(s)
      /\ pending' = pending \ Rejected(s)
      /\ connecting' = IF refused THEN 0 ELSE connecting
      /\ connectors' = IF refused THEN <<>> ELSE connectors
      /\ joiners' = [t \in Topics |-> IF t \in topics THEN <<>> ELSE joiners[t]]
      /\ Settle(ending, "rejected")
  BY DEF Disconnect
<1> HIDE DEF topics, ending
<1>3. /\ call' \in [Commands ->
                     {"idle", "joining", "pushed", "awaiting", "resolved", "rejected"}]
      /\ heard' \in [Commands -> {"off", "pending", "done", "failed"}]
      /\ HeardOK' /\ CompletedHasRun'
  BY <1>2, Settles
<1>4. /\ socket' \in Sockets \cup {0} /\ connecting' \in Sockets \cup {0}
      /\ connectors' \in Seq(Topics) /\ pending' \subseteq pending
  BY <1>1, <1>2 DEF ChannelTypeOK
<1>5. joiners' \in [Topics -> Seq(Commands)]
  BY <1>1, <1>2 DEF ChannelTypeOK
<1>6. joined' \in [Topics -> Nat]
  BY <1>1, <1>2 DEF ChannelTypeOK, JoinedAfter
<1>7. PendingHasSocket'
  BY <1>2 DEF ChannelInv, PendingHasSocket, Rejected
<1>8. JoinedIsServed'
  <2>1. CASE socket = s
    BY <1>2, <2>1 DEF JoinedIsServed, JoinedAfter
  <2>2. CASE socket # s
    <3>1. socket' = socket /\ joined' = joined
      BY <1>2, <2>2 DEF JoinedAfter
    <3>2. socket # 0 => channels'[socket] = channels[socket]
      BY <1>1, <2>2 DEF ChannelTypeOK
    <3>3. QED
      BY <3>1, <3>2 DEF ChannelInv, JoinedIsServed
  <2>3. QED
    BY <2>1, <2>2
<1>9. ConnectingOK'
  <2>1. ASSUME NEW r \in Sockets, ready'[r] = "connecting" PROVE socket' = r /\ connecting' = r
    <3>1. r # s /\ socket = r /\ connecting = r
      BY <2>1 DEF ChannelInv, ConnectingOK
    <3>2. QED
      BY <1>2, <3>1
  <2>2. QED
    BY <2>1 DEF ConnectingOK
<1>10. QED
  BY <1>3, <1>4, <1>5, <1>6, <1>7, <1>8, <1>9

-----------------------------------------------------------------------------
(* The calls and the events of a socket.                                   *)

LEMMA InitChannelInv == ASSUME ChannelInit PROVE ChannelInv
<1>1. ChannelTypeOK
  BY ChannelConstants DEF ChannelInit, ChannelTypeOK, ReadyStates
<1>2. ConnectingOK /\ HeardOK /\ PendingHasSocket /\ JoinedIsServed /\ CompletedHasRun
  BY ChannelConstants
  DEF ChannelInit, ConnectingOK, HeardOK, PendingHasSocket, JoinedIsServed, CompletedHasRun
<1>3. \A s \in Sockets : up[s] = {} /\ Elements(down[s]) = {}
  BY ElementsFew DEF ChannelInit
<1>4. RefsOK /\ FramesOK
  BY <1>3 DEF ChannelInit, RefsOK, FramesOK
<1>5. QED
  BY <1>1, <1>2, <1>4 DEF ChannelInv

\* A step of the client that receives nothing leaves what the frames say as it is.
LEMMA Silent ==
    ASSUME ChannelInv, down' = down, UNCHANGED server
    PROVE  Fewer /\ FramesOK'
<1>1. Fewer
  BY DEF ChannelInv, ChannelTypeOK, Fewer
<1>2. QED
  BY <1>1 DEF ChannelInv, FramesOK, Truthful, server

LEMMA RunCommandStep ==
    ASSUME ChannelInv, NEW c \in Commands, RunCommand(c)
    PROVE  ChannelInv'
<1> DEFINE t == TopicOf[c]
<1>1. /\ ChannelTypeOK /\ t \in Topics
      /\ UNCHANGED <<down, server, joined, faults>>
      /\ calls < MaxCalls /\ calls' = calls + 1 /\ aborted' = aborted \ {c}
  BY ChannelConstants DEF ChannelInv, RunCommand
<1>2. /\ UNCHANGED <<ended, channels, row, ran, unanswered>>
      /\ calls' \in 0..MaxCalls /\ aborted' \subseteq Commands
  BY <1>1, ChannelConstants DEF server, ChannelTypeOK
<1>3. Fewer /\ FramesOK'
  BY <1>1, Silent
<1>4. CASE /\ PushCommands(<<c>>, pending, aborted \ {c})
           /\ UNCHANGED <<ready, conn, joiners, replaced>>
  <2>1. UNCHANGED <<socket, connecting, connectors, ready, joiners, replaced>>
    BY <1>4 DEF conn
  <2>2. <<c>> \in Seq(Commands)
    OBVIOUS
  <2>3. /\ pending' \subseteq Replies /\ nextRef' \in Nat \ {0}
        /\ up' \in [Sockets -> SUBSET Requests]
        /\ call' \in [Commands ->
                       {"idle", "joining", "pushed", "awaiting", "resolved", "rejected"}]
        /\ heard' \in [Commands -> {"off", "pending", "done", "failed"}]
        /\ RefsOK' /\ PendingHasSocket' /\ HeardOK' /\ CompletedHasRun'
    BY <1>2, <1>3, <1>4, <2>1, <2>2, PushesCommands
  <2>4. ChannelTypeOK'
    BY <1>1, <1>2, <2>1, <2>3 DEF ChannelTypeOK, Replies, Asked
  <2>5. ConnectingOK' /\ JoinedIsServed'
    BY <1>1, <1>2, <2>1 DEF ChannelInv, ConnectingOK, JoinedIsServed
  <2>6. QED
    BY <1>3, <2>3, <2>4, <2>5 DEF ChannelInv
<1>5. CASE /\ joiners' = [joiners EXCEPT ![t] = Append(@, c)]
           /\ call' = [call EXCEPT ![c] = "joining"]
           /\ \/ /\ Joining(t)
                 /\ UNCHANGED <<ready, up, conn, pushes, replaced>>
              \/ ~Joining(t) /\ Connect(t)
           /\ UNCHANGED heard
  <2>1. /\ joiners' \in [Topics -> Seq(Commands)]
        /\ call' \in [Commands ->
                       {"idle", "joining", "pushed", "awaiting", "resolved", "rejected"}]
        /\ heard' \in [Commands -> {"off", "pending", "done", "failed"}]
    BY <1>1, <1>5 DEF ChannelTypeOK
  <2>2. HeardOK' /\ CompletedHasRun'
    <3>1. \A d \in Commands : call'[d] = "resolved" => call[d] = "resolved"
      BY <1>1, <1>5 DEF ChannelTypeOK
    <3>2. QED
      BY <1>2, <1>5, <3>1, ChannelConstants DEF ChannelInv, HeardOK, CompletedHasRun
  <2>3. CASE UNCHANGED <<ready, up, conn, pushes, replaced>>
    <3>1. UNCHANGED <<ready, up, socket, connecting, connectors, pending, nextRef, replaced>>
      BY <2>3 DEF conn, pushes
    <3>2. RefsOK'
      BY <1>3, <3>1, FewerRefs
    <3>3. ConnectingOK' /\ JoinedIsServed' /\ PendingHasSocket'
      BY <1>1, <1>2, <3>1
      DEF ChannelInv, ConnectingOK, JoinedIsServed, PendingHasSocket
    <3>4. ChannelTypeOK'
      BY <1>1, <1>2, <2>1, <3>1 DEF ChannelTypeOK
    <3>5. QED
      BY <1>3, <2>2, <3>2, <3>3, <3>4 DEF ChannelInv
  <2>4. CASE /\ Open
             /\ Push(<<t>>, {t}, pending)
             /\ UNCHANGED <<ready, conn, replaced>>
    <3>1. UNCHANGED <<ready, socket, connecting, connectors, replaced>>
      BY <2>4 DEF conn
    <3>2. <<t>> \in Seq(Asked) /\ socket \in Sockets
      BY <1>1, <2>4 DEF Asked, Open, ChannelTypeOK
    <3>3. /\ pending' \subseteq Replies /\ nextRef' \in Nat \ {0}
          /\ up' \in [Sockets -> SUBSET Requests]
      BY <1>1, <2>4, <3>2, Pushed
    <3>4. RefsOK' /\ PendingHasSocket'
      BY <1>3, <2>4, <3>1, <3>2, PushedRefs, PushedHasSocket
    <3>5. ConnectingOK' /\ JoinedIsServed'
      BY <1>1, <1>2, <3>1 DEF ChannelInv, ConnectingOK, JoinedIsServed
    <3>6. ChannelTypeOK'
      BY <1>1, <1>2, <2>1, <3>1, <3>3 DEF ChannelTypeOK, Replies, Asked
    <3>7. QED
      BY <1>3, <2>2, <3>4, <3>5, <3>6 DEF ChannelInv
  <2>5. CASE /\ connectors' = Append(connectors, t)
             /\ UNCHANGED <<ready, up, pushes, socket, connecting, replaced>>
    <3>1. UNCHANGED <<ready, up, socket, connecting, pending, nextRef, replaced>>
      BY <2>5 DEF pushes
    <3>2. RefsOK'
      BY <1>3, <3>1, FewerRefs
    <3>3. ConnectingOK' /\ JoinedIsServed' /\ PendingHasSocket'
      BY <1>1, <1>2, <3>1
      DEF ChannelInv, ConnectingOK, JoinedIsServed, PendingHasSocket
    <3>4. connectors' \in Seq(Topics)
      BY <1>1, <2>5 DEF ChannelTypeOK
    <3>5. ChannelTypeOK'
      BY <1>1, <1>2, <2>1, <3>1, <3>4 DEF ChannelTypeOK
    <3>6. QED
      BY <1>3, <2>2, <3>2, <3>3, <3>5 DEF ChannelInv
  <2>6. CASE /\ connecting = 0
             /\ \E s \in Sockets :
                  /\ ready[s] = "unused" /\ \A r \in 1..(s - 1) : ready[r] # "unused"
                  /\ ready' = [ready EXCEPT ![s] = "connecting"]
                  /\ socket' = s /\ connecting' = s /\ connectors' = <<t>>
             /\ replaced' = IF socket = 0 THEN replaced ELSE replaced \cup {socket}
             /\ UNCHANGED <<up, pushes>>
    <3>1. PICK s \in Sockets : /\ ready' = [ready EXCEPT ![s] = "connecting"]
                               /\ socket' = s /\ connecting' = s /\ connectors' = <<t>>
      BY <2>6
    <3>2. UNCHANGED <<up, pending, nextRef>>
      BY <2>6 DEF pushes
    <3>3. RefsOK'
      BY <1>3, <3>2, FewerRefs
    <3>4. 0 \notin Sockets
      BY DEF Sockets
    <3>5. ConnectingOK'
      <4>1. \A r \in Sockets : ready'[r] = "connecting" => r = s
        BY <1>1, <2>6, <3>1, <3>4 DEF ChannelInv, ConnectingOK, ChannelTypeOK
      <4>2. QED
        BY <3>1, <4>1 DEF ConnectingOK
    <3>6. replaced \subseteq replaced' /\ (socket # 0 => socket \in replaced')
      BY <2>6
    <3>7. PendingHasSocket'
      <4>1. \A p \in pending : p.on \in Sockets
        BY <1>1 DEF ChannelTypeOK
      <4>2. QED
        BY <3>2, <3>4, <3>6, <4>1 DEF ChannelInv, PendingHasSocket
    <3>8. JoinedIsServed'
      BY <1>1, <1>2, <3>6 DEF ChannelInv, JoinedIsServed
    <3>9. ready' \in [Sockets -> ReadyStates]
      BY <1>1, <3>1 DEF ChannelTypeOK, ReadyStates
    <3>10. replaced' \subseteq Sockets /\ connectors' \in Seq(Topics)
      BY <1>1, <2>6, <3>1 DEF ChannelTypeOK
    <3>11. ChannelTypeOK'
      BY <1>1, <1>2, <2>1, <3>1, <3>2, <3>9, <3>10 DEF ChannelTypeOK
    <3>12. QED
      BY <1>3, <2>2, <3>3, <3>5, <3>7, <3>8, <3>11 DEF ChannelInv
  <2>7. QED
    BY <1>5, <2>3, <2>4, <2>5, <2>6 DEF Connect
<1>6. QED
  BY <1>4, <1>5 DEF RunCommand

LEMMA AbortStep ==
    ASSUME ChannelInv, NEW c \in Commands, Abort(c)
    PROVE  ChannelInv'
<1>1. /\ ChannelTypeOK /\ faults' \in 0..MaxFaults
      /\ aborted' = aborted \cup {c} /\ pending' = {p \in pending : p.of # c}
      /\ UNCHANGED <<ready, up, down, server, conn, joins, nextRef, replaced, calls>>
      /\ \E cs : Settle(cs, "rejected")
  BY ChannelConstants DEF ChannelInv, Abort, Fault, ChannelTypeOK
<1>2. /\ UNCHANGED <<ended, channels, row, ran, unanswered>>
      /\ UNCHANGED <<socket, connecting, connectors, joiners, joined>>
  BY <1>1 DEF server, conn, joins
<1>3. Fewer /\ FramesOK'
  BY <1>1, Silent
<1>4. /\ call' \in [Commands ->
                     {"idle", "joining", "pushed", "awaiting", "resolved", "rejected"}]
      /\ heard' \in [Commands -> {"off", "pending", "done", "failed"}]
      /\ HeardOK' /\ CompletedHasRun'
  BY <1>1, <1>2, Settles
<1>5. RefsOK'
  BY <1>1, <1>3, FewerRefs
<1>6. ConnectingOK' /\ JoinedIsServed' /\ PendingHasSocket'
  BY <1>1, <1>2 DEF ChannelInv, ConnectingOK, JoinedIsServed, PendingHasSocket
<1>7. ChannelTypeOK'
  BY <1>1, <1>2, <1>4 DEF ChannelTypeOK
<1>8. QED
  BY <1>3, <1>4, <1>5, <1>6, <1>7 DEF ChannelInv

LEMMA CloseStep ==
    ASSUME ChannelInv, Close
    PROVE  ChannelInv'
<1>1. /\ ChannelTypeOK /\ faults' \in 0..MaxFaults /\ socket \in Sockets
      /\ ready' = [ready EXCEPT ![socket] = "closing"] /\ Disconnect(socket, FALSE)
      /\ UNCHANGED <<up, down, server, nextRef, replaced, calls, aborted>>
  <2>1. ChannelTypeOK /\ socket # 0 /\ faults < MaxFaults /\ faults' = faults + 1
    BY DEF ChannelInv, Close, Fault
  <2>2. faults' \in 0..MaxFaults /\ socket \in Sockets
    BY <2>1, ChannelConstants DEF ChannelTypeOK
  <2>3. QED
    BY <2>1, <2>2 DEF Close
<1>2. UNCHANGED <<ended, channels, row, ran, unanswered>>
  BY <1>1 DEF server
<1>3. Fewer /\ FramesOK'
  BY <1>1, Silent
<1>4. /\ ready' \in [Sockets -> ReadyStates]
      /\ \A r \in Sockets : ready'[r] = "connecting" => r # socket /\ ready[r] = "connecting"
  BY <1>1 DEF ChannelTypeOK, ReadyStates
<1>5. /\ socket' \in Sockets \cup {0} /\ connecting' \in Sockets \cup {0}
      /\ connectors' \in Seq(Topics) /\ joiners' \in [Topics -> Seq(Commands)]
      /\ joined' \in [Topics -> Nat] /\ pending' \subseteq pending
      /\ call' \in [Commands ->
                     {"idle", "joining", "pushed", "awaiting", "resolved", "rejected"}]
      /\ heard' \in [Commands -> {"off", "pending", "done", "failed"}]
      /\ ConnectingOK' /\ HeardOK' /\ CompletedHasRun' /\ PendingHasSocket' /\ JoinedIsServed'
  BY <1>1, <1>2, <1>4, Disconnects
<1>6. RefsOK'
  BY <1>1, <1>3, <1>5, FewerRefs
<1>7. ChannelTypeOK'
  BY <1>1, <1>2, <1>4, <1>5 DEF ChannelTypeOK
<1>8. QED
  BY <1>3, <1>5, <1>6, <1>7 DEF ChannelInv

LEMMA OpensStep ==
    ASSUME ChannelInv, NEW s \in Sockets, Opens(s)
    PROVE  ChannelInv'
<1>1. /\ ChannelTypeOK /\ ready[s] = "connecting"
      /\ ready' = [ready EXCEPT ![s] = "open"] /\ connecting' = 0 /\ connectors' = <<>>
      /\ Push(connectors, Elements(connectors), pending)
      /\ UNCHANGED <<down, server, socket, joins, replaced, caller, faults>>
  BY DEF ChannelInv, Opens
<1>2. /\ UNCHANGED <<ended, channels, row, ran, unanswered, joiners, joined>>
      /\ UNCHANGED <<call, calls, heard, aborted>>
  BY <1>1 DEF server, joins, caller
<1>3. Fewer /\ FramesOK'
  BY <1>1, Silent
<1>4. socket = s /\ connecting = s
  BY <1>1 DEF ChannelInv, ConnectingOK
<1>5. connectors \in Seq(Asked)
  BY <1>1, SeqMonotonic DEF Asked, ChannelTypeOK
<1>6. /\ pending' \subseteq Replies /\ nextRef' \in Nat \ {0}
      /\ up' \in [Sockets -> SUBSET Requests]
  BY <1>1, <1>4, <1>5, Pushed
<1>7. RefsOK' /\ PendingHasSocket'
  BY <1>1, <1>3, <1>4, <1>5, PushedRefs, PushedHasSocket
<1>8. ConnectingOK'
  <2>1. \A r \in Sockets : ready'[r] = "connecting" => r # s /\ ready[r] = "connecting"
    BY <1>1 DEF ChannelTypeOK
  <2>2. QED
    BY <1>4, <2>1 DEF ChannelInv, ConnectingOK
<1>9. JoinedIsServed' /\ HeardOK' /\ CompletedHasRun'
  BY <1>1, <1>2 DEF ChannelInv, JoinedIsServed, HeardOK, CompletedHasRun
<1>10. ready' \in [Sockets -> ReadyStates] /\ connectors' \in Seq(Topics)
  BY <1>1 DEF ChannelTypeOK, ReadyStates
<1>11. ChannelTypeOK'
  BY <1>1, <1>2, <1>6, <1>10 DEF ChannelTypeOK, Replies, Asked
<1>12. QED
  BY <1>3, <1>7, <1>8, <1>9, <1>11 DEF ChannelInv

\* The socket is emptied with its last frames.
LEMMA Emptied ==
    ASSUME ChannelTypeOK, NEW s \in Sockets, down' = [down EXCEPT ![s] = <<>>]
    PROVE  /\ Fewer /\ Elements(down'[s]) = {}
<1>1. /\ down' \in [Sockets -> Seq(Frames)] /\ down'[s] = <<>>
      /\ \A r \in Sockets : r # s => down'[r] = down[r]
  BY DEF ChannelTypeOK
<1>2. Elements(down'[s]) = {}
  BY <1>1, ElementsFew
<1>3. QED
  BY <1>1, <1>2 DEF Fewer

LEMMA ErrsStep ==
    ASSUME ChannelInv, NEW s \in Sockets, Errs(s)
    PROVE  ChannelInv'
<1>1. /\ ChannelTypeOK /\ faults' \in 0..MaxFaults
      /\ ready' = [ready EXCEPT ![s] = "closing"] /\ down' = [down EXCEPT ![s] = <<>>]
      /\ Disconnect(s, connecting = s)
      /\ UNCHANGED <<up, server, nextRef, replaced, calls, aborted>>
  BY ChannelConstants DEF ChannelInv, Errs, Fault, ChannelTypeOK
<1>2. UNCHANGED <<ended, channels, row, ran, unanswered>>
  BY <1>1 DEF server
<1>3. Fewer
  BY <1>1, Emptied
<1>4. FramesOK'
  BY <1>2, <1>3, FewerFrames
<1>5. /\ ready' \in [Sockets -> ReadyStates]
      /\ \A r \in Sockets : ready'[r] = "connecting" => r # s /\ ready[r] = "connecting"
  BY <1>1 DEF ChannelTypeOK, ReadyStates
<1>6. PICK refused \in BOOLEAN : refused = (connecting = s)
  OBVIOUS
<1>7. /\ socket' \in Sockets \cup {0} /\ connecting' \in Sockets \cup {0}
      /\ connectors' \in Seq(Topics) /\ joiners' \in [Topics -> Seq(Commands)]
      /\ joined' \in [Topics -> Nat] /\ pending' \subseteq pending
      /\ call' \in [Commands ->
                     {"idle", "joining", "pushed", "awaiting", "resolved", "rejected"}]
      /\ heard' \in [Commands -> {"off", "pending", "done", "failed"}]
      /\ ConnectingOK' /\ HeardOK' /\ CompletedHasRun' /\ PendingHasSocket' /\ JoinedIsServed'
  <2>1. Disconnect(s, refused) /\ (refused => connecting = s)
    BY <1>1, <1>6
  <2>2. QED
    BY <1>1, <1>2, <1>5, <2>1, Disconnects
<1>8. RefsOK'
  BY <1>1, <1>3, <1>7, FewerRefs
<1>9. ChannelTypeOK'
  BY <1>1, <1>2, <1>3, <1>5, <1>7 DEF ChannelTypeOK, Fewer
<1>10. QED
  BY <1>4, <1>7, <1>8, <1>9 DEF ChannelInv

LEMMA ClosesStep ==
    ASSUME ChannelInv, NEW s \in Sockets, Closes(s)
    PROVE  ChannelInv'
<1>1. /\ ChannelTypeOK
      /\ ready' = [ready EXCEPT ![s] = "closed"] /\ down' = [down EXCEPT ![s] = <<>>]
      /\ up' = [up EXCEPT ![s] = {}] /\ channels' = [channels EXCEPT ![s] = {}]
      /\ Disconnect(s, connecting = s)
      /\ UNCHANGED <<ended, row, ran, unanswered, nextRef, replaced, calls, aborted, faults>>
  BY DEF ChannelInv, Closes
<1>2. Fewer /\ Elements(down'[s]) = {}
  BY <1>1, Emptied
<1>3. /\ channels' \in [Sockets -> SUBSET Topics] /\ up' \in [Sockets -> SUBSET Requests]
      /\ \A r \in Sockets : r # s => channels'[r] = channels[r]
      /\ \A r \in Sockets : up'[r] \subseteq up[r]
  BY <1>1 DEF ChannelTypeOK
<1>4. FramesOK'
  <2>1. \A r \in Sockets : Elements(down'[r]) = {} \/ channels[r] \subseteq channels'[r]
    BY <1>2, <1>3
  <2>2. QED
    BY <1>1, <1>2, <2>1, FewerFrames
<1>5. /\ ready' \in [Sockets -> ReadyStates]
      /\ \A r \in Sockets : ready'[r] = "connecting" => r # s /\ ready[r] = "connecting"
  BY <1>1 DEF ChannelTypeOK, ReadyStates
<1>6. PICK refused \in BOOLEAN : refused = (connecting = s)
  OBVIOUS
<1>7. /\ socket' \in Sockets \cup {0} /\ connecting' \in Sockets \cup {0}
      /\ connectors' \in Seq(Topics) /\ joiners' \in [Topics -> Seq(Commands)]
      /\ joined' \in [Topics -> Nat] /\ pending' \subseteq pending
      /\ call' \in [Commands ->
                     {"idle", "joining", "pushed", "awaiting", "resolved", "rejected"}]
      /\ heard' \in [Commands -> {"off", "pending", "done", "failed"}]
      /\ ConnectingOK' /\ HeardOK' /\ CompletedHasRun' /\ PendingHasSocket' /\ JoinedIsServed'
  <2>1. Disconnect(s, refused) /\ (refused => connecting = s)
    BY <1>1, <1>6
  <2>2. QED
    BY <1>1, <1>3, <1>5, <2>1, Disconnects
<1>8. RefsOK'
  BY <1>1, <1>2, <1>3, <1>7, FewerRefs
<1>9. ChannelTypeOK'
  BY <1>1, <1>2, <1>3, <1>5, <1>7 DEF ChannelTypeOK, Fewer
<1>10. QED
  BY <1>4, <1>7, <1>8, <1>9 DEF ChannelInv

\* The frame at the head of what a socket receives is true, and it is for its push.
LEMMA ReceivesStep ==
    ASSUME ChannelInv, NEW s \in Sockets, Receives(s)
    PROVE  ChannelInv'
<1> DEFINE m == Head(down[s])
<1>1. /\ ChannelTypeOK /\ down[s] # <<>> /\ down[s] \in Seq(Frames)
      /\ down' = [down EXCEPT ![s] = Tail(@)]
      /\ UNCHANGED <<server, replaced, calls, aborted, faults>>
  BY DEF ChannelInv, Receives, ChannelTypeOK
<1>2. UNCHANGED <<ended, channels, row, ran, unanswered>>
  BY <1>1 DEF server
<1>3. /\ m \in Elements(down[s]) /\ Tail(down[s]) \in Seq(Frames)
      /\ Elements(Tail(down[s])) \subseteq Elements(down[s])
  BY <1>1, ElementsTail
<1>4. Fewer
  <2>1. /\ down' \in [Sockets -> Seq(Frames)] /\ down'[s] = Tail(down[s])
        /\ \A r \in Sockets : r # s => down'[r] = down[r]
    BY <1>1, <1>3 DEF ChannelTypeOK
  <2>2. QED
    BY <1>3, <2>1 DEF Fewer
<1>5. FramesOK'
  BY <1>2, <1>4, FewerFrames
<1>6. m \in Frames /\ Truthful(m, s) /\ \A p \in pending : p.ref = m.ref => p.of = m.of /\ p.on = s
  BY <1>1, <1>3, ElementsTyped DEF ChannelInv, FramesOK, RefsOK
<1> HIDE DEF m
<1>7. CASE m.kind = "close" /\ Closing(s)
  <2>1. /\ ready' = [ready EXCEPT ![s] = "closing"]
        /\ UNCHANGED <<up, socket, connecting, connectors, joiners, joined>>
        /\ UNCHANGED <<pending, nextRef, call, heard>>
    BY <1>7 DEF Closing, conn, joins, pushes
  <2>2. RefsOK'
    BY <1>4, <2>1, FewerRefs
  <2>3. /\ ready' \in [Sockets -> ReadyStates]
        /\ \A r \in Sockets : ready'[r] = "connecting" => ready[r] = "connecting"
    BY <1>1, <2>1 DEF ChannelTypeOK, ReadyStates
  <2>4. ConnectingOK' /\ HeardOK' /\ PendingHasSocket' /\ JoinedIsServed' /\ CompletedHasRun'
    BY <1>1, <1>2, <2>1, <2>3
    DEF ChannelInv, ConnectingOK, HeardOK, PendingHasSocket, JoinedIsServed, CompletedHasRun
  <2>5. ChannelTypeOK'
    BY <1>1, <1>2, <1>4, <2>1, <2>3 DEF ChannelTypeOK, Fewer
  <2>6. QED
    BY <1>5, <2>2, <2>4, <2>5 DEF ChannelInv
<1>8. CASE m.kind \in {"done", "failed"} /\ ResultHeard(m.of, m.kind)
  <2>1. /\ UNCHANGED <<ready, up, socket, connecting, connectors, joiners, joined>>
        /\ UNCHANGED <<pending, nextRef>>
    BY <1>8 DEF ResultHeard, conn, joins, pushes
  <2>2. RefsOK'
    BY <1>4, <2>1, FewerRefs
  <2>3. ConnectingOK' /\ PendingHasSocket' /\ JoinedIsServed'
    BY <1>1, <1>2, <2>1 DEF ChannelInv, ConnectingOK, PendingHasSocket, JoinedIsServed
  <2>4. m.kind = "done" => m.of \in ran
    BY <1>6 DEF Truthful
  <2>5. /\ call' \in [Commands ->
                       {"idle", "joining", "pushed", "awaiting", "resolved", "rejected"}]
        /\ heard' \in [Commands -> {"off", "pending", "done", "failed"}]
        /\ HeardOK' /\ CompletedHasRun'
    <3>1. CASE Settle({m.of}, "resolved") /\ m.kind = "done"
      BY <1>2, <2>4, <3>1, Settles
    <3>2. CASE Settle({m.of}, "rejected")
      BY <1>2, <3>2, Settles
    <3>3. CASE /\ heard' = [heard EXCEPT ![m.of] = IF @ = "pending" THEN m.kind ELSE @]
               /\ UNCHANGED call
      <4>1. /\ heard' \in [Commands -> {"off", "pending", "done", "failed"}]
            /\ \A c \in Commands : heard'[c] = heard[c] \/ (c = m.of /\ heard'[c] = m.kind)
        BY <1>1, <1>8, <3>3 DEF ChannelTypeOK
      <4>2. HeardOK' /\ CompletedHasRun'
        BY <1>2, <2>4, <3>3, <4>1 DEF ChannelInv, HeardOK, CompletedHasRun
      <4>3. QED
        BY <1>1, <3>3, <4>1, <4>2 DEF ChannelTypeOK
    <3>4. QED
      BY <1>8, <3>1, <3>2, <3>3 DEF ResultHeard
  <2>6. ChannelTypeOK'
    BY <1>1, <1>2, <1>4, <2>1, <2>5 DEF ChannelTypeOK, Fewer
  <2>7. QED
    BY <1>5, <2>2, <2>3, <2>5, <2>6 DEF ChannelInv
<1>9. CASE \E p \in pending : /\ p.ref = m.ref
                              /\ p.of \in Topics /\ JoinAnswered(p.of, p, m.kind = "ok")
  <2>1. PICK p \in pending : /\ p.ref = m.ref
                             /\ p.of \in Topics /\ JoinAnswered(p.of, p, m.kind = "ok")
    BY <1>9
  <2>2. /\ p.of = m.of /\ p.on = s /\ p.ref \in Nat
        /\ UNCHANGED <<ready, socket, connecting, connectors>>
        /\ joiners' = [joiners EXCEPT ![p.of] = <<>>]
    BY <1>1, <1>6, <2>1 DEF JoinAnswered, conn, ChannelTypeOK
  <2>3. joiners' \in [Topics -> Seq(Commands)] /\ joiners[p.of] \in Seq(Commands)
    BY <1>1, <2>1, <2>2 DEF ChannelTypeOK
  <2>4. ConnectingOK'
    BY <2>2 DEF ChannelInv, ConnectingOK
  <2>5. CASE m.kind = "ok"
    <3>1. /\ joined' = [joined EXCEPT ![p.of] = p.ref]
          /\ PushCommands(joiners[p.of], pending \ {p}, aborted)
      BY <2>1, <2>5 DEF JoinAnswered
    <3>2. /\ pending' \subseteq Replies /\ nextRef' \in Nat \ {0}
          /\ up' \in [Sockets -> SUBSET Requests]
          /\ call' \in [Commands ->
                         {"idle", "joining", "pushed", "awaiting", "resolved", "rejected"}]
          /\ heard' \in [Commands -> {"off", "pending", "done", "failed"}]
          /\ RefsOK' /\ PendingHasSocket' /\ HeardOK' /\ CompletedHasRun'
      <4>1. pending \ {p} \in SUBSET pending
        OBVIOUS
      <4>2. replaced' = replaced /\ socket' = socket /\ ran' = ran
        BY <1>1, <1>2, <2>2
      <4>3. QED
        BY <1>4, <2>3, <3>1, <4>1, <4>2, PushesCommands
    <3>3. joined' \in [Topics -> Nat]
      BY <1>1, <2>1, <2>2, <3>1 DEF ChannelTypeOK
    <3>4. JoinedIsServed'
      <4>1. p.of \in channels[s] \/ unanswered # {}
        BY <1>6, <2>1, <2>2, <2>5 DEF Truthful
      <4>2. s = socket \/ replaced # {}
        BY <2>1, <2>2 DEF ChannelInv, PendingHasSocket
      <4>3. \A t \in Topics : t # p.of => joined'[t] = joined[t]
        BY <1>1, <3>1 DEF ChannelTypeOK
      <4>4. s # 0
        BY DEF Sockets
      <4>5. QED
        BY <1>1, <1>2, <2>2, <4>1, <4>2, <4>3, <4>4 DEF ChannelInv, JoinedIsServed
    <3>5. ChannelTypeOK'
      BY <1>1, <1>2, <1>4, <2>2, <2>3, <3>2, <3>3 DEF ChannelTypeOK, Fewer, Replies, Asked
    <3>6. QED
      BY <1>5, <2>4, <3>2, <3>4, <3>5 DEF ChannelInv
  <2>6. CASE m.kind # "ok"
    <3>1. /\ Settle(Elements(joiners[p.of]), "rejected") /\ pending' = pending \ {p}
          /\ UNCHANGED <<joined, up, nextRef>>
      BY <2>1, <2>6 DEF JoinAnswered
    <3>2. RefsOK'
      BY <1>4, <3>1, FewerRefs
    <3>3. PendingHasSocket' /\ JoinedIsServed'
      BY <1>1, <1>2, <2>2, <3>1 DEF ChannelInv, PendingHasSocket, JoinedIsServed
    <3>4. /\ call' \in [Commands ->
                         {"idle", "joining", "pushed", "awaiting", "resolved", "rejected"}]
          /\ heard' \in [Commands -> {"off", "pending", "done", "failed"}]
          /\ HeardOK' /\ CompletedHasRun'
      BY <1>2, <3>1, Settles
    <3>5. ChannelTypeOK'
      BY <1>1, <1>2, <1>4, <2>2, <2>3, <3>1, <3>4 DEF ChannelTypeOK, Fewer
    <3>6. QED
      BY <1>5, <2>4, <3>2, <3>3, <3>4, <3>5 DEF ChannelInv
  <2>7. QED
    BY <2>5, <2>6
<1>10. CASE /\ m.kind \in {"ok", "queued", "error"}
            /\ \E p \in pending : /\ p.ref = m.ref
                                  /\ p.of \in Commands /\ CommandAnswered(p.of, p, m.kind)
  <2>1. PICK p \in pending : /\ p.ref = m.ref
                             /\ p.of \in Commands /\ CommandAnswered(p.of, p, m.kind)
    BY <1>10
  <2>2. /\ p.of = m.of /\ pending' = pending \ {p}
        /\ UNCHANGED <<ready, up, nextRef, socket, connecting, connectors, joiners, joined>>
    BY <1>6, <2>1 DEF CommandAnswered, conn, joins
  <2>3. RefsOK'
    BY <1>4, <2>2, FewerRefs
  <2>4. ConnectingOK' /\ PendingHasSocket' /\ JoinedIsServed'
    BY <1>1, <1>2, <2>2 DEF ChannelInv, ConnectingOK, PendingHasSocket, JoinedIsServed
  <2>5. /\ call' \in [Commands ->
                       {"idle", "joining", "pushed", "awaiting", "resolved", "rejected"}]
        /\ heard' \in [Commands -> {"off", "pending", "done", "failed"}]
        /\ HeardOK' /\ CompletedHasRun'
    <3>1. CASE Outcome(p.of, m.kind) = "awaiting"
      <4>1. call' = [call EXCEPT ![p.of] = "awaiting"] /\ heard' = heard
        BY <2>1, <3>1 DEF CommandAnswered
      <4>2. /\ call' \in [Commands ->
                           {"idle", "joining", "pushed", "awaiting", "resolved", "rejected"}]
            /\ \A c \in Commands : call'[c] = "resolved" => call[c] = "resolved"
        BY <1>1, <4>1 DEF ChannelTypeOK
      <4>3. HeardOK' /\ CompletedHasRun'
        BY <1>2, <4>1, <4>2, ChannelConstants DEF ChannelInv, HeardOK, CompletedHasRun
      <4>4. QED
        BY <1>1, <4>1, <4>2, <4>3 DEF ChannelTypeOK
    <3>2. CASE Outcome(p.of, m.kind) # "awaiting"
      <4>1. Settle({p.of}, Outcome(p.of, m.kind))
        BY <2>1, <3>2 DEF CommandAnswered
      <4>2. Outcome(p.of, m.kind) \in {"resolved", "rejected"}
        BY <3>2 DEF Outcome
      <4>3. Outcome(p.of, m.kind) = "resolved" => {p.of} \cap Awaiting \subseteq ran
        <5>1. m.kind = "ok" => p.of \in ran
          BY <1>6, <2>1, <2>2 DEF Truthful
        <5>2. heard[p.of] = "done" => p.of \in ran
          BY <2>1 DEF ChannelInv, HeardOK
        <5>3. QED
          BY <5>1, <5>2 DEF Outcome
      <4>4. PICK how \in {"resolved", "rejected"} : how = Outcome(p.of, m.kind)
        BY <4>2
      <4>5. Settle({p.of}, how) /\ (how = "resolved" => {p.of} \cap Awaiting \subseteq ran)
        BY <4>1, <4>3, <4>4
      <4>6. QED
        BY <1>2, <4>5, Settles
    <3>3. QED
      BY <3>1, <3>2
  <2>6. ChannelTypeOK'
    BY <1>1, <1>2, <1>4, <2>2, <2>5 DEF ChannelTypeOK, Fewer
  <2>7. QED
    BY <1>5, <2>3, <2>4, <2>5, <2>6 DEF ChannelInv
<1>11. CASE UNCHANGED <<ready, up, conn, joins, pushes, call, heard>>
  <2>1. /\ UNCHANGED <<ready, up, socket, connecting, connectors, joiners, joined>>
        /\ UNCHANGED <<pending, nextRef, call, heard>>
    BY <1>11 DEF conn, joins, pushes
  <2>2. RefsOK'
    BY <1>4, <2>1, FewerRefs
  <2>3. ConnectingOK' /\ HeardOK' /\ PendingHasSocket' /\ JoinedIsServed' /\ CompletedHasRun'
    BY <1>1, <1>2, <2>1
    DEF ChannelInv, ConnectingOK, HeardOK, PendingHasSocket, JoinedIsServed, CompletedHasRun
  <2>4. ChannelTypeOK'
    BY <1>1, <1>2, <1>4, <2>1 DEF ChannelTypeOK, Fewer
  <2>5. QED
    BY <1>5, <2>2, <2>3, <2>4 DEF ChannelInv
<1>12. QED
  BY <1>7, <1>8, <1>9, <1>10, <1>11 DEF Receives, m

-----------------------------------------------------------------------------
(* The steps of the server.                                                *)

LEMMA Sent ==
    ASSUME ChannelTypeOK, NEW r \in Sockets, NEW fs \in Seq(Frames)
    PROVE  /\ Reaches(r, fs) \in Seq(Frames)
           /\ Elements(Reaches(r, fs)) \subseteq Elements(down[r]) \cup Elements(fs)
<1>1. down[r] \in Seq(Frames)
  BY DEF ChannelTypeOK
<1>2. QED
  BY <1>1, ElementsConcat DEF Reaches

LEMMA Announces ==
    ASSUME NEW c \in Commands, NEW kind \in {"done", "failed"}, NEW r
    PROVE  /\ Announced(c, kind, r) \in Seq(Frames)
           /\ \A f \in Elements(Announced(c, kind, r)) :
                 f.ref = 0 /\ f.kind = kind /\ f.of = c
<1> DEFINE f == [kind |-> kind, ref |-> 0, of |-> c]
<1>1. f \in Frames /\ f.ref = 0 /\ f.kind = kind /\ f.of = c
  BY DEF Frames
<1>2. Announced(c, kind, r) \in {<<f>>, <<>>}
  BY DEF Announced
<1> HIDE DEF f
<1>3. CASE Announced(c, kind, r) = <<f>>
  <2>1. <<f>> \in Seq(Frames) /\ Elements(<<f>>) = {f}
    BY <1>1, ElementsFew
  <2>2. QED
    BY <1>1, <1>3, <2>1
<1>4. CASE Announced(c, kind, r) = <<>>
  <2>1. <<>> \in Seq(Frames) /\ Elements(<<>>) = {}
    BY ElementsFew
  <2>2. QED
    BY <1>4, <2>1
<1>5. QED
  BY <1>2, <1>3, <1>4

LEMMA Answers ==
    ASSUME NEW m \in Requests, NEW kind \in {"ok", "queued", "error"}
    PROVE  /\ Reply(m, kind) \in Seq(Frames)
           /\ \A f \in Elements(Reply(m, kind)) :
                 f.ref = m.ref /\ f.kind = kind /\ f.of = m.of
<1> DEFINE f == [kind |-> kind, ref |-> m.ref, of |-> m.of]
<1>1. f \in Frames /\ f.ref = m.ref /\ f.kind = kind /\ f.of = m.of
  BY DEF Frames, Requests
<1>2. Reply(m, kind) = <<f>>
  BY DEF Reply
<1> HIDE DEF f
<1>3. QED
  BY <1>1, <1>2, ElementsFew

\* A new frame has no ref, or that of the request it answers.
Answering(f, r) == f.ref = 0 \/ \E m \in up[r] : f.ref = m.ref /\ f.of = m.of

LEMMA ServerStep ==
    ASSUME ChannelInv, UNCHANGED client,
           ended' \subseteq Sockets, channels' \in [Sockets -> SUBSET Topics],
           row' \in [Commands -> {"none", "queued", "finished"}],
           ran' \subseteq Commands, ran \subseteq ran',
           unanswered' \subseteq Nat, unanswered \subseteq unanswered',
           faults' \in 0..MaxFaults,
           \A r \in Sockets : channels[r] \subseteq channels'[r] \/ unanswered' # {},
           \A r \in Sockets : up'[r] \subseteq up[r], up' \in [Sockets -> SUBSET Requests],
           down' \in [Sockets -> Seq(Frames)],
           \A r \in Sockets : \A f \in Elements(down'[r]) :
               f \in Elements(down[r]) \/ (Answering(f, r) /\ Truthful(f, r)')
    PROVE  ChannelInv'
<1>1. /\ ChannelTypeOK
      /\ UNCHANGED <<ready, socket, connecting, connectors, joiners, joined>>
      /\ UNCHANGED <<pending, nextRef, replaced, call, calls, heard, aborted>>
  BY DEF ChannelInv, client, conn, joins, pushes, caller
<1>2. ChannelTypeOK'
  BY <1>1 DEF ChannelTypeOK
<1>3. ConnectingOK' /\ HeardOK' /\ PendingHasSocket' /\ CompletedHasRun'
  BY <1>1 DEF ChannelInv, ConnectingOK, HeardOK, PendingHasSocket, CompletedHasRun
<1>4. JoinedIsServed'
  <2>1. socket # 0 => channels[socket] \subseteq channels'[socket] \/ unanswered' # {}
    BY <1>1 DEF ChannelTypeOK
  <2>2. QED
    BY <1>1, <2>1 DEF ChannelInv, JoinedIsServed
<1>5. FramesOK'
  <2>1. ASSUME NEW r \in Sockets, NEW f \in Elements(down[r]) PROVE Truthful(f, r)'
    <3>1. Truthful(f, r)
      BY DEF ChannelInv, FramesOK
    <3>2. QED
      BY <3>1 DEF Truthful
  <2>2. QED
    BY <2>1 DEF FramesOK
<1>6. RefsOK'
  <2>1. RefsOK /\ nextRef \in Nat \ {0}
    BY <1>1 DEF ChannelInv, ChannelTypeOK
  <2>2. ASSUME NEW r \in Sockets, NEW f \in Elements(down'[r])
        PROVE  f.ref < nextRef /\ \A p \in pending : p.ref = f.ref => p.of = f.of /\ p.on = r
    <3>1. CASE f \in Elements(down[r])
      BY <2>1, <3>1 DEF RefsOK
    <3>2. CASE f.ref = 0
      BY <2>1, <3>2 DEF RefsOK
    <3>3. CASE \E m \in up[r] : f.ref = m.ref /\ f.of = m.of
      BY <2>1, <3>3 DEF RefsOK
    <3>4. QED
      BY <3>1, <3>2, <3>3 DEF Answering
  <2>3. QED
    BY <1>1, <2>1, <2>2 DEF RefsOK
<1>7. QED
  BY <1>2, <1>3, <1>4, <1>5, <1>6 DEF ChannelInv

\* The next frame is taken off the socket.
LEMMA Taken ==
    ASSUME ChannelInv, NEW s \in Sockets, NEW m \in up[s], Next1(s, m)
    PROVE  /\ m \in Requests
           /\ up' \in [Sockets -> SUBSET Requests]
           /\ \A r \in Sockets : up'[r] \subseteq up[r]
BY DEF ChannelInv, ChannelTypeOK, Next1

\* Frames for one socket.
LEMMA SentOn ==
    ASSUME ChannelTypeOK, NEW s \in Sockets, NEW fs \in Seq(Frames),
           down' = [down EXCEPT ![s] = Reaches(s, fs)]
    PROVE  /\ down' \in [Sockets -> Seq(Frames)]
           /\ \A r \in Sockets : \A f \in Elements(down'[r]) :
                 f \in Elements(down[r]) \/ (r = s /\ f \in Elements(fs))
<1>1. /\ Reaches(s, fs) \in Seq(Frames)
      /\ Elements(Reaches(s, fs)) \subseteq Elements(down[s]) \cup Elements(fs)
  BY Sent
<1>2. /\ down' \in [Sockets -> Seq(Frames)] /\ down'[s] = Reaches(s, fs)
      /\ \A r \in Sockets : r # s => down'[r] = down[r]
  BY <1>1 DEF ChannelTypeOK
<1>3. QED
  BY <1>1, <1>2

LEMMA ServeJoinStep ==
    ASSUME ChannelInv, NEW s \in Sockets, ServeJoin(s)
    PROVE  ChannelInv'
<1>1. PICK m \in up[s] :
        /\ m.of \in Topics /\ Next1(s, m)
        /\ \E kind \in {"ok", "error"} :
              /\ down' = [down EXCEPT ![s] = Reaches(s, Reply(m, kind))]
              /\ channels' = IF kind = "ok" THEN [channels EXCEPT ![s] = @ \cup {m.of}]
                                            ELSE channels
        /\ UNCHANGED <<client, ended, row, ran, unanswered, faults>>
  BY DEF ServeJoin
<1>2. PICK kind \in {"ok", "error"} :
        /\ down' = [down EXCEPT ![s] = Reaches(s, Reply(m, kind))]
        /\ channels' = IF kind = "ok" THEN [channels EXCEPT ![s] = @ \cup {m.of}] ELSE channels
  BY <1>1
<1>3. ChannelTypeOK /\ m \in Requests
  BY <1>1, Taken DEF ChannelInv
<1>4. /\ Reply(m, kind) \in Seq(Frames)
      /\ \A f \in Elements(Reply(m, kind)) : f.ref = m.ref /\ f.kind = kind /\ f.of = m.of
  BY <1>3, Answers
<1>5. /\ channels' \in [Sockets -> SUBSET Topics] /\ (kind = "ok" => m.of \in channels'[s])
      /\ \A r \in Sockets : channels[r] \subseteq channels'[r]
  BY <1>1, <1>2, <1>3 DEF ChannelTypeOK
<1>6. /\ down' \in [Sockets -> Seq(Frames)]
      /\ \A r \in Sockets : \A f \in Elements(down'[r]) :
            f \in Elements(down[r]) \/ (r = s /\ f \in Elements(Reply(m, kind)))
  BY <1>2, <1>3, <1>4, SentOn
<1>7. ASSUME NEW f \in Elements(Reply(m, kind)) PROVE Answering(f, s) /\ Truthful(f, s)'
  <2>1. f.ref = m.ref /\ f.kind = kind /\ f.of = m.of /\ m.of \notin Commands
    BY <1>1, <1>4, ChannelConstants
  <2>2. QED
    BY <1>5, <2>1 DEF Answering, Truthful
<1>8. /\ up' \in [Sockets -> SUBSET Requests] /\ \A r \in Sockets : up'[r] \subseteq up[r]
      /\ ended' \subseteq Sockets /\ row' \in [Commands -> {"none", "queued", "finished"}]
      /\ ran' \subseteq Commands /\ unanswered' \subseteq Nat /\ faults' \in 0..MaxFaults
      /\ ran \subseteq ran' /\ unanswered \subseteq unanswered' /\ UNCHANGED client
  BY <1>1, <1>3, Taken DEF ChannelTypeOK
<1>9. \A r \in Sockets : \A f \in Elements(down'[r]) :
         f \in Elements(down[r]) \/ (Answering(f, r) /\ Truthful(f, r)')
  BY <1>6, <1>7
<1>10. QED
  BY <1>5, <1>6, <1>8, <1>9, ServerStep

\* An answer that says nothing: queued, or an error.
LEMMA AnswersOnly ==
    ASSUME ChannelInv, NEW s \in Sockets, NEW m \in up[s], Next1(s, m), m.of \in Commands,
           NEW kind \in {"queued", "error"},
           down' = [down EXCEPT ![s] = Reaches(s, Reply(m, kind))],
           UNCHANGED <<client, ended, channels, ran, unanswered, faults>>,
           row' \in [Commands -> {"none", "queued", "finished"}]
    PROVE  ChannelInv'
<1>1. ChannelTypeOK /\ m \in Requests
  BY Taken DEF ChannelInv
<1>2. /\ Reply(m, kind) \in Seq(Frames)
      /\ \A f \in Elements(Reply(m, kind)) : f.ref = m.ref /\ f.kind = kind /\ f.of = m.of
  BY <1>1, Answers
<1>3. /\ down' \in [Sockets -> Seq(Frames)]
      /\ \A r \in Sockets : \A f \in Elements(down'[r]) :
            f \in Elements(down[r]) \/ (r = s /\ f \in Elements(Reply(m, kind)))
  BY <1>1, <1>2, SentOn
<1>4. ASSUME NEW f \in Elements(Reply(m, kind)) PROVE Answering(f, s) /\ Truthful(f, s)'
  BY <1>2 DEF Answering, Truthful
<1>5. /\ up' \in [Sockets -> SUBSET Requests] /\ \A r \in Sockets : up'[r] \subseteq up[r]
      /\ ended' \subseteq Sockets /\ channels' \in [Sockets -> SUBSET Topics]
      /\ ran' \subseteq Commands /\ unanswered' \subseteq Nat /\ faults' \in 0..MaxFaults
      /\ ran \subseteq ran' /\ unanswered \subseteq unanswered' /\ UNCHANGED client
      /\ \A r \in Sockets : channels[r] \subseteq channels'[r]
  BY <1>1, Taken DEF ChannelTypeOK
<1>6. \A r \in Sockets : \A f \in Elements(down'[r]) :
         f \in Elements(down[r]) \/ (Answering(f, r) /\ Truthful(f, r)')
  BY <1>3, <1>4
<1>7. QED
  BY <1>3, <1>5, <1>6, ServerStep

LEMMA ServeUnmatchedStep ==
    ASSUME ChannelInv, NEW s \in Sockets, ServeUnmatched(s)
    PROVE  ChannelInv'
<1>1. PICK m \in up[s] :
        /\ m.of \in Commands /\ Next1(s, m)
        /\ down' = [down EXCEPT ![s] = Reaches(s, Reply(m, "error"))]
        /\ UNCHANGED <<client, server, faults>>
  BY DEF ServeUnmatched
<1>2. UNCHANGED <<ended, channels, row, ran, unanswered>>
  BY <1>1 DEF server
<1>3. row' \in [Commands -> {"none", "queued", "finished"}]
  BY <1>2 DEF ChannelInv, ChannelTypeOK
<1>4. QED
  BY <1>1, <1>2, <1>3, AnswersOnly

LEMMA ServeCommandStep ==
    ASSUME ChannelInv, NEW s \in Sockets, ServeCommand(s)
    PROVE  ChannelInv'
<1>1. PICK m \in up[s] :
        /\ m.of \in Commands /\ Next1(s, m)
        /\ \/ /\ ran' = ran \cup {m.of}
              /\ down' = [r \in Sockets |->
                    Reaches(r, Announced(m.of, "done", r)
                               \o IF r = s THEN Reply(m, "ok") ELSE <<>>)]
              /\ UNCHANGED row
           \/ /\ row' = [row EXCEPT ![m.of] = IF @ = "none" THEN "queued" ELSE @]
              /\ down' = [down EXCEPT ![s] = Reaches(s, Reply(m, "queued"))]
              /\ UNCHANGED ran
           \/ /\ down' = [down EXCEPT ![s] = Reaches(s, Reply(m, "error"))]
              /\ UNCHANGED <<row, ran>>
        /\ UNCHANGED <<client, ended, channels, unanswered, faults>>
  BY DEF ServeCommand
<1>2. ChannelTypeOK /\ m \in Requests
  BY <1>1, Taken DEF ChannelInv
<1>3. CASE /\ ran' = ran \cup {m.of}
           /\ down' = [r \in Sockets |->
                 Reaches(r, Announced(m.of, "done", r) \o IF r = s THEN Reply(m, "ok") ELSE <<>>)]
           /\ UNCHANGED row
  <2>1. ASSUME NEW r \in Sockets
        PROVE  /\ down'[r] \in Seq(Frames)
               /\ \A f \in Elements(down'[r]) :
                     f \in Elements(down[r]) \/ (Answering(f, r) /\ Truthful(f, r)')
    <3> DEFINE tail == IF r = s THEN Reply(m, "ok") ELSE <<>>
               head == Announced(m.of, "done", r)
    <3>1. /\ head \in Seq(Frames)
          /\ \A f \in Elements(head) : f.ref = 0 /\ f.kind = "done" /\ f.of = m.of
      BY <1>1, Announces
    <3>2. /\ tail \in Seq(Frames)
          /\ \A f \in Elements(tail) : r = s /\ f.ref = m.ref /\ f.kind = "ok" /\ f.of = m.of
      BY <1>2, Answers, ElementsFew
    <3>3. down'[r] = Reaches(r, head \o tail)
      BY <1>3
    <3> HIDE DEF head, tail
    <3>4. head \o tail \in Seq(Frames) /\ Elements(head \o tail) \subseteq Elements(head) \cup Elements(tail)
      BY <3>1, <3>2, ElementsConcat
    <3>5. /\ down'[r] \in Seq(Frames)
          /\ Elements(down'[r]) \subseteq Elements(down[r]) \cup Elements(head) \cup Elements(tail)
      BY <1>2, <3>3, <3>4, Sent
    <3>6. m.of \in ran' /\ m.of \notin Topics
      BY <1>1, <1>3, ChannelConstants
    <3>7. \A f \in Elements(head) : Answering(f, r) /\ Truthful(f, r)'
      BY <3>1, <3>6 DEF Answering, Truthful
    <3>8. \A f \in Elements(tail) : Answering(f, r) /\ Truthful(f, r)'
      BY <3>2, <3>6 DEF Answering, Truthful
    <3>9. QED
      BY <3>5, <3>7, <3>8
  <2>2. down' \in [Sockets -> Seq(Frames)]
    BY <1>3, <2>1
  <2>3. /\ up' \in [Sockets -> SUBSET Requests] /\ \A r \in Sockets : up'[r] \subseteq up[r]
        /\ ended' \subseteq Sockets /\ channels' \in [Sockets -> SUBSET Topics]
        /\ row' \in [Commands -> {"none", "queued", "finished"}]
        /\ ran' \subseteq Commands /\ unanswered' \subseteq Nat /\ faults' \in 0..MaxFaults
        /\ ran \subseteq ran' /\ unanswered \subseteq unanswered' /\ UNCHANGED client
        /\ \A r \in Sockets : channels[r] \subseteq channels'[r]
    BY <1>1, <1>2, <1>3, Taken DEF ChannelTypeOK
  <2>4. QED
    BY <2>1, <2>2, <2>3, ServerStep
<1>4. CASE /\ row' = [row EXCEPT ![m.of] = IF @ = "none" THEN "queued" ELSE @]
           /\ down' = [down EXCEPT ![s] = Reaches(s, Reply(m, "queued"))]
           /\ UNCHANGED ran
  <2>1. row' \in [Commands -> {"none", "queued", "finished"}]
    BY <1>1, <1>2, <1>4 DEF ChannelTypeOK
  <2>2. QED
    BY <1>1, <1>4, <2>1, AnswersOnly
<1>5. CASE /\ down' = [down EXCEPT ![s] = Reaches(s, Reply(m, "error"))]
           /\ UNCHANGED <<row, ran>>
  <2>1. row' \in [Commands -> {"none", "queued", "finished"}]
    BY <1>2, <1>5 DEF ChannelTypeOK
  <2>2. QED
    BY <1>1, <1>5, <2>1, AnswersOnly
<1>6. QED
  BY <1>1, <1>3, <1>4, <1>5

LEMMA ChannelCrashStep ==
    ASSUME ChannelInv, NEW s \in Sockets, ChannelCrash(s)
    PROVE  ChannelInv'
<1>1. PICK m \in up[s] :
        /\ faults < MaxFaults /\ faults' = faults + 1
        /\ m.of \in Commands /\ Next1(s, m)
        /\ channels' = [channels EXCEPT ![s] = @ \ {TopicOf[m.of]}]
        /\ unanswered' = unanswered \cup {m.ref}
        /\ UNCHANGED <<client, down, ended, row, ran>>
  BY DEF ChannelCrash, Fault
<1>2. ChannelTypeOK /\ m \in Requests
  BY <1>1, Taken DEF ChannelInv
<1>3. m.ref \in Nat
  BY <1>2 DEF Requests
<1>4. /\ up' \in [Sockets -> SUBSET Requests] /\ \A r \in Sockets : up'[r] \subseteq up[r]
      /\ ended' \subseteq Sockets /\ channels' \in [Sockets -> SUBSET Topics]
      /\ row' \in [Commands -> {"none", "queued", "finished"}]
      /\ ran' \subseteq Commands /\ unanswered' \subseteq Nat
      /\ ran \subseteq ran' /\ unanswered \subseteq unanswered' /\ unanswered' # {}
      /\ down' \in [Sockets -> Seq(Frames)] /\ UNCHANGED client
  BY <1>1, <1>2, <1>3, Taken DEF ChannelTypeOK
<1>5. faults' \in 0..MaxFaults
  BY <1>1, <1>2, ChannelConstants DEF ChannelTypeOK
<1>6. down' = down
  BY <1>1
<1>7. QED
  BY <1>4, <1>5, <1>6, ServerStep

LEMMA ReplayFinishesStep ==
    ASSUME ChannelInv, NEW c \in Commands, ReplayFinishes(c)
    PROVE  ChannelInv'
<1>1. PICK kind \in {"done", "failed"} :
        /\ ran' = IF kind = "done" THEN ran \cup {c} ELSE ran
        /\ down' = [s \in Sockets |-> Reaches(s, Announced(c, kind, s))]
  BY DEF ReplayFinishes
<1>2. /\ ChannelTypeOK
      /\ row' = [row EXCEPT ![c] = "finished"]
      /\ UNCHANGED <<client, up, ended, channels, unanswered, faults>>
  BY DEF ReplayFinishes, ChannelInv
<1>3. ASSUME NEW r \in Sockets
      PROVE  /\ down'[r] \in Seq(Frames)
             /\ \A f \in Elements(down'[r]) :
                   f \in Elements(down[r]) \/ (Answering(f, r) /\ Truthful(f, r)')
  <2>1. /\ Announced(c, kind, r) \in Seq(Frames)
        /\ \A f \in Elements(Announced(c, kind, r)) : f.ref = 0 /\ f.kind = kind /\ f.of = c
    BY Announces
  <2>2. /\ down'[r] \in Seq(Frames)
        /\ Elements(down'[r]) \subseteq Elements(down[r]) \cup Elements(Announced(c, kind, r))
    BY <1>1, <1>2, <2>1, Sent
  <2>3. \A f \in Elements(Announced(c, kind, r)) : Answering(f, r) /\ Truthful(f, r)'
    BY <1>1, <2>1 DEF Answering, Truthful
  <2>4. QED
    BY <2>2, <2>3
<1>4. down' \in [Sockets -> Seq(Frames)]
  BY <1>1, <1>3
<1>5. /\ up' \in [Sockets -> SUBSET Requests] /\ \A r \in Sockets : up'[r] \subseteq up[r]
      /\ ended' \subseteq Sockets /\ channels' \in [Sockets -> SUBSET Topics]
      /\ row' \in [Commands -> {"none", "queued", "finished"}]
      /\ ran' \subseteq Commands /\ unanswered' \subseteq Nat /\ faults' \in 0..MaxFaults
      /\ ran \subseteq ran' /\ unanswered \subseteq unanswered' /\ UNCHANGED client
      /\ \A r \in Sockets : channels[r] \subseteq channels'[r]
  BY <1>1, <1>2 DEF ChannelTypeOK
<1>6. QED
  BY <1>3, <1>4, <1>5, ServerStep

LEMMA ServerClosesStep ==
    ASSUME ChannelInv, NEW s \in Sockets, ServerCloses(s)
    PROVE  ChannelInv'
<1> DEFINE bye == [kind |-> "close", ref |-> 0, of |-> 0]
<1>1. /\ ChannelTypeOK /\ faults < MaxFaults /\ faults' = faults + 1
      /\ ended' = ended \cup {s}
      /\ down' = [down EXCEPT ![s] = Append(@, bye)]
      /\ UNCHANGED <<client, up, channels, row, ran, unanswered>>
  BY DEF ChannelInv, ServerCloses, Fault
<1>2. bye \in Frames /\ bye.kind = "close" /\ bye.ref = 0
  BY DEF Frames
<1> HIDE DEF bye
<1>3. down[s] \in Seq(Frames)
  BY <1>1 DEF ChannelTypeOK
<1>4. Append(down[s], bye) \in Seq(Frames) /\ Elements(Append(down[s], bye)) = Elements(down[s]) \cup {bye}
  BY <1>2, <1>3, ElementsAppend
<1>5. /\ down' \in [Sockets -> Seq(Frames)] /\ down'[s] = Append(down[s], bye)
      /\ \A r \in Sockets : r # s => down'[r] = down[r]
  BY <1>1, <1>4 DEF ChannelTypeOK
<1>6. \A r \in Sockets : Answering(bye, r) /\ Truthful(bye, r)'
  BY <1>2 DEF Answering, Truthful
<1>7. \A r \in Sockets : \A f \in Elements(down'[r]) :
         f \in Elements(down[r]) \/ (Answering(f, r) /\ Truthful(f, r)')
  BY <1>4, <1>5, <1>6
<1>8. /\ up' \in [Sockets -> SUBSET Requests] /\ \A r \in Sockets : up'[r] \subseteq up[r]
      /\ ended' \subseteq Sockets /\ channels' \in [Sockets -> SUBSET Topics]
      /\ row' \in [Commands -> {"none", "queued", "finished"}]
      /\ ran' \subseteq Commands /\ unanswered' \subseteq Nat
      /\ ran \subseteq ran' /\ unanswered \subseteq unanswered' /\ UNCHANGED client
      /\ \A r \in Sockets : channels[r] \subseteq channels'[r]
  BY <1>1 DEF ChannelTypeOK
<1>9. faults' \in 0..MaxFaults
  BY <1>1, ChannelConstants DEF ChannelTypeOK
<1>10. QED
  BY <1>5, <1>7, <1>8, <1>9, ServerStep

LEMMA ChannelInvStutters == ASSUME ChannelInv, UNCHANGED channelVars PROVE ChannelInv'
<1>1. /\ UNCHANGED <<ready, up, down, ended, channels, row, ran, unanswered, faults>>
      /\ UNCHANGED <<socket, connecting, connectors, joiners, joined>>
      /\ UNCHANGED <<pending, nextRef, replaced, call, calls, heard, aborted>>
  BY DEF channelVars, server, conn, joins, pushes, caller
<1>2. ChannelTypeOK' /\ ConnectingOK' /\ HeardOK'
  BY <1>1 DEF ChannelInv, ChannelTypeOK, ConnectingOK, HeardOK
<1>3. FramesOK'
  BY <1>1 DEF ChannelInv, FramesOK, Truthful
<1>4. RefsOK'
  BY <1>1 DEF ChannelInv, RefsOK
<1>5. PendingHasSocket' /\ JoinedIsServed' /\ CompletedHasRun'
  BY <1>1 DEF ChannelInv, PendingHasSocket, JoinedIsServed, CompletedHasRun
<1>6. QED
  BY <1>2, <1>3, <1>4, <1>5 DEF ChannelInv

-----------------------------------------------------------------------------
(* The theorems.                                                           *)

\* Refs are used once, frames tell the truth, and what the client keeps of a socket it has
\* lost goes with it: holds in every state the SDK and the coordinator's channels reach.
THEOREM ChannelInvariant == ChannelSpec => []ChannelInv
<1>1. ChannelInit => ChannelInv
  BY InitChannelInv
<1>2. ChannelInv /\ [ChannelNext]_channelVars => ChannelInv'
  <2> SUFFICES ASSUME ChannelInv, [ChannelNext]_channelVars PROVE ChannelInv'
    OBVIOUS
  <2>1. CASE Calls
    BY <2>1, RunCommandStep, AbortStep, CloseStep DEF Calls
  <2>2. ASSUME NEW s \in Sockets,
               Opens(s) \/ Errs(s) \/ Closes(s) \/ Receives(s)
        PROVE  ChannelInv'
    BY <2>2, OpensStep, ErrsStep, ClosesStep, ReceivesStep
  <2>3. ASSUME NEW s \in Sockets,
               \/ ServeJoin(s) \/ ServeUnmatched(s) \/ ServeCommand(s)
               \/ ChannelCrash(s) \/ ServerCloses(s)
        PROVE  ChannelInv'
    BY <2>3, ServeJoinStep, ServeUnmatchedStep, ServeCommandStep, ChannelCrashStep,
       ServerClosesStep
  <2>4. CASE \E c \in Commands : ReplayFinishes(c)
    BY <2>4, ReplayFinishesStep
  <2>5. CASE UNCHANGED channelVars
    BY <2>5, ChannelInvStutters
  <2>6. QED
    BY <2>1, <2>2, <2>3, <2>4, <2>5 DEF ChannelNext
<1>3. QED
  BY <1>1, <1>2, PTL DEF ChannelSpec

\* The state of the SDK's socket and of the channels keeps its types.
THEOREM ChannelTypes == ChannelSpec => []ChannelTypeOK
<1>1. ChannelInv => ChannelTypeOK
  BY DEF ChannelInv
<1>2. QED
  BY <1>1, ChannelInvariant, PTL

\* A reply settles the push it answers, made on its own socket, or none: takeMatching never
\* finds the push of another socket under the ref of a late reply.
THEOREM RepliesFindTheirPush == ChannelSpec => []RepliesMatch
<1>1. ChannelInv => RepliesMatch
  <2>1. SUFFICES ASSUME ChannelInv, NEW s \in Sockets, NEW p \in pending,
                        NEW i \in DOMAIN down[s], down[s][i].ref = p.ref
                 PROVE  down[s][i].of = p.of /\ p.on = s
    BY DEF RepliesMatch
  <2>2. down[s][i] \in Elements(down[s])
    BY DEF Elements
  <2>3. QED
    BY <2>1, <2>2 DEF ChannelInv, RefsOK
<1>2. QED
  BY <1>1, ChannelInvariant, PTL

\* What is pending was sent on the current socket, or on one that connect() replaced while
\* it was closing.
THEOREM PendingIsOnASocket == ChannelSpec => []PendingHasSocket
<1>1. ChannelInv => PendingHasSocket
  BY DEF ChannelInv
<1>2. QED
  BY <1>1, ChannelInvariant, PTL

\* joinedTopics is never stale, but for a crashed channel and a replaced socket.
THEOREM JoinedTopicIsServed == ChannelSpec => []JoinedIsServed
<1>1. ChannelInv => JoinedIsServed
  BY DEF ChannelInv
<1>2. QED
  BY <1>1, ChannelInvariant, PTL

\* runCommand with awaitCompletion resolves only when the sandbox has run the command.
THEOREM ResolvedHasRun == ChannelSpec => []CompletedHasRun
<1>1. ChannelInv => CompletedHasRun
  BY DEF ChannelInv
<1>2. QED
  BY <1>1, ChannelInvariant, PTL
================================================================================
