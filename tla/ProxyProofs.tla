------------------------------ MODULE ProxyProofs ------------------------------
(***************************************************************************)
(* A route of the proxy leaves no session behind and drops no byte of its  *)
(* clients: for any set of sessions and any bounds, from ProxyBounds.      *)
(***************************************************************************)
EXTENDS Proxy, SequenceTheorems, TLAPS

(* The inductive invariant.                                                *)

LastOf(seq) == IF seq = <<>> THEN 0 ELSE seq[Len(seq)]

\* The endpoints that mailbox q announces come in order, after the session's epoch e and up
\* to the route's, n.
Announces(q, e, n) ==
    /\ \A i \in 1..Len(q) : q[i].type = "route_endpoint" => e < q[i].arg /\ q[i].arg <= n
    /\ \A i, j \in 1..Len(q) :
          i < j /\ q[i].type = "route_endpoint" /\ q[j].type = "route_endpoint"
             => q[i].arg < q[j].arg

\* Mailbox q has at most one message of data, chunk n.
OneRead(q, n) ==
    /\ \A i \in 1..Len(q) : q[i].type = "data" => q[i].arg = n
    /\ \A i, j \in 1..Len(q) : q[i].type = "data" /\ q[j].type = "data" => i = j

\* The manager knows the sessions that live, and nothing reaches one that is not
\* there yet; only sessions that live have connections.
KnownOK(s) ==
    /\ Alive(s) => s \in route.sessions
    /\ session[s].status = "absent" =>
          /\ s \notin route.sessions /\ session[s] = Absent /\ mailbox[s] = <<>>
    /\ session[s].status \in {"registering", "gone"} => session[s].buffer = <<>>
    /\ ~Alive(s) => conns[s] = {}

\* A session that lives hears of the route's epoch, after the others and in their order.
EpochOK(s) ==
    /\ Alive(s) => session[s].epoch <= route.epoch
    /\ Announces(mailbox[s], session[s].epoch, route.epoch)
    /\ Alive(s) => \/ session[s].epoch = route.epoch
                   \/ Queued(s, "route_endpoint", route.epoch)

ReportOK(s) ==
    s \in route.pending /\ Alive(s) =>
        \/ InMailbox(s, "route_endpoint")
        \/ WillConnect(s)
        \/ <<s, route.epoch>> \in reports

Holds(s) == session[s].buffer # <<>> \/ InMailbox(s, "data")

\* Of what the session read all but the last chunk is delivered; that one is in the mailbox,
\* in the buffer, where nothing else is, or delivered too.
DeliveredOK(s) ==
    session[s].status # "gone" =>
        /\ OneRead(mailbox[s], sent[s])
        /\ session[s].buffer # <<>> =>
              /\ session[s].buffer = <<sent[s]>> /\ session[s].armed = FALSE
              /\ ~InMailbox(s, "data")
        /\ Holds(s) => sent[s] # 0
        /\ \A n \in 1..sent[s] : n < sent[s] => n \in Range(got[s])
        /\ \/ LastOf(got[s]) = sent[s]
           \/ LastOf(got[s]) + 1 = sent[s] /\ Holds(s)

InOrder(seq) ==
    \A k \in 1..Len(seq) :
        LET previous == IF k = 1 THEN 0 ELSE seq[k - 1]
        IN  seq[k] \in {previous, previous + 1}

SessionOK(s) == KnownOK(s) /\ EpochOK(s) /\ ReportOK(s) /\ DeliveredOK(s) /\ InOrder(got[s])

ProxyInv == ProxyTypeOK /\ PendingCounted /\ \A s \in Sessions : SessionOK(s)

MessageTypes == {"begin_cutover", "route_endpoint", "connect", "data", "guest", "closed", "broken"}
Messages == [type : MessageTypes, arg : Nat]
SessionRecords ==
    [status : {"absent", "registering", "up", "gone"},
     mode : {"connecting", "connected", "waiting_endpoint"}, epoch : Epochs,
     cutover : BOOLEAN, awaiting : BOOLEAN, socket : Ids \cup {NoSocket},
     armed : BOOLEAN, timer : BOOLEAN, strays : Nat, buffer : Seq(Chunks)]

-----------------------------------------------------------------------------
(* Mailboxes.                                                              *)

LEMMA SeqRange ==
    ASSUME NEW S, NEW q \in Seq(S)
    PROVE  /\ Range(q) \subseteq S
           /\ \A i \in 1..Len(q) : q[i] \in Range(q)
<1>1. DOMAIN q = 1..Len(q) /\ \A i \in 1..Len(q) : q[i] \in S
  OBVIOUS
<1>2. QED
  BY <1>1, Zenon DEF Range

LEMMA SeqIndex ==
    ASSUME NEW S, NEW q \in Seq(S), NEW x \in Range(q)
    PROVE  \E i \in 1..Len(q) : q[i] = x
<1>1. DOMAIN q = 1..Len(q)
  OBVIOUS
<1>2. QED
  BY <1>1 DEF Range

LEMMA SeqAppend ==
    ASSUME NEW S, NEW q \in Seq(S), NEW x \in S
    PROVE  /\ Append(q, x) \in Seq(S) /\ Range(Append(q, x)) = Range(q) \cup {x}
           /\ Len(Append(q, x)) = Len(q) + 1 /\ Len(q) \in Nat
           /\ \A i \in 1..Len(q) : Append(q, x)[i] = q[i]
           /\ Append(q, x)[Len(q) + 1] = x
<1>1. /\ Append(q, x) \in Seq(S) /\ Len(Append(q, x)) = Len(q) + 1 /\ Len(q) \in Nat
      /\ \A i \in 1..Len(q) : Append(q, x)[i] = q[i]
      /\ Append(q, x)[Len(q) + 1] = x
      /\ DOMAIN Append(q, x) = 1..(Len(q) + 1) /\ DOMAIN q = 1..Len(q)
  BY AppendProperties
<1>2. \A i \in DOMAIN Append(q, x) : i \in DOMAIN q \/ i = Len(q) + 1
  BY <1>1
<1>3. \A i \in DOMAIN Append(q, x) : Append(q, x)[i] \in Range(q) \cup {x}
  BY <1>1, <1>2 DEF Range
<1>4. \A y \in Range(q) \cup {x} : \E i \in DOMAIN Append(q, x) : Append(q, x)[i] = y
  <2>1. \A i \in DOMAIN q : i \in DOMAIN Append(q, x) /\ Append(q, x)[i] = q[i]
    BY <1>1
  <2>2. Len(q) + 1 \in DOMAIN Append(q, x)
    BY <1>1
  <2>3. QED
    BY <1>1, <2>1, <2>2 DEF Range
<1>5. Range(Append(q, x)) = Range(q) \cup {x}
  BY <1>3, <1>4 DEF Range
<1>6. QED
  BY <1>1, <1>5

LEMMA SeqTail ==
    ASSUME NEW S, NEW q \in Seq(S), q # <<>>
    PROVE  /\ Tail(q) \in Seq(S) /\ Head(q) \in S /\ Head(q) = q[1]
           /\ Len(q) \in Nat \ {0} /\ Len(Tail(q)) = Len(q) - 1
           /\ \A i \in 1..Len(Tail(q)) : i + 1 \in 1..Len(q) /\ Tail(q)[i] = q[i + 1]
           /\ Range(q) = {Head(q)} \cup Range(Tail(q))
<1>1. /\ Tail(q) \in Seq(S) /\ Len(Tail(q)) = Len(q) - 1 /\ Head(q) = q[1] /\ Head(q) \in S
      /\ \A i \in 1..Len(Tail(q)) : Tail(q)[i] = q[i + 1]
      /\ Len(q) \in Nat /\ Len(q) # 0
  BY HeadTailProperties
<1>2. DOMAIN q = 1..Len(q) /\ DOMAIN Tail(q) = 1..Len(Tail(q))
  BY <1>1
<1>3. \A i \in 1..Len(Tail(q)) : i + 1 \in 1..Len(q)
  BY <1>1
<1>4. \A i \in 1..Len(q) : i = 1 \/ (i - 1 \in 1..Len(Tail(q)) /\ Tail(q)[i - 1] = q[i])
  <2>1. ASSUME NEW i \in 1..Len(q), i # 1
        PROVE  i - 1 \in 1..Len(Tail(q)) /\ Tail(q)[i - 1] = q[i]
    <3>1. i - 1 \in 1..Len(Tail(q)) /\ (i - 1) + 1 = i
      BY <1>1, <2>1
    <3>2. QED
      BY <1>1, <3>1
  <2>2. QED
    BY <2>1
<1>5. 1 \in DOMAIN q
  BY <1>1, <1>2
<1>6. ASSUME NEW x \in Range(q) PROVE x \in {Head(q)} \cup Range(Tail(q))
  <2>1. PICK i \in 1..Len(q) : q[i] = x
    BY <1>2 DEF Range
  <2>2. CASE i = 1
    BY <1>1, <2>1, <2>2
  <2>3. CASE i # 1
    <3>1. i - 1 \in DOMAIN Tail(q) /\ Tail(q)[i - 1] = x
      BY <1>2, <1>4, <2>1, <2>3
    <3>2. QED
      BY <3>1 DEF Range
  <2>4. QED
    BY <2>2, <2>3
<1>7. {Head(q)} \cup Range(Tail(q)) \subseteq Range(q)
  BY <1>1, <1>2, <1>3, <1>5 DEF Range
<1>8. QED
  BY <1>1, <1>3, <1>6, <1>7

LEMMA AppendRange ==
    ASSUME NEW q \in Seq(Messages), NEW m \in Messages
    PROVE  Append(q, m) \in Seq(Messages) /\ Range(Append(q, m)) = Range(q) \cup {m}
BY SeqAppend

\* Taking a message off a mailbox.
LEMMA MailTail ==
    ASSUME NEW q \in Seq(Messages), q # <<>>, NEW e \in Nat, NEW n \in Nat, NEW k \in Nat,
           Announces(q, e, n), OneRead(q, k)
    PROVE  /\ Announces(Tail(q), e, n) /\ OneRead(Tail(q), k)
           /\ Head(q).type = "route_endpoint" =>
                 /\ e < Head(q).arg /\ Head(q).arg <= n /\ Announces(Tail(q), Head(q).arg, n)
           /\ Head(q).type = "data" =>
                 Head(q).arg = k /\ \A m \in Range(Tail(q)) : m.type # "data"
<1>1. /\ Tail(q) \in Seq(Messages) /\ Head(q) = q[1] /\ Head(q) \in Messages
      /\ Len(q) \in Nat \ {0} /\ Len(Tail(q)) = Len(q) - 1
      /\ \A i \in 1..Len(Tail(q)) : i + 1 \in 1..Len(q) /\ Tail(q)[i] = q[i + 1]
  BY SeqTail
<1>2. 1 \in 1..Len(q)
  BY <1>1
<1>3. Announces(Tail(q), e, n)
  <2>1. \A i \in 1..Len(Tail(q)) : Tail(q)[i].type = "route_endpoint" =>
           e < Tail(q)[i].arg /\ Tail(q)[i].arg <= n
    BY <1>1 DEF Announces
  <2>2. ASSUME NEW i \in 1..Len(Tail(q)), NEW j \in 1..Len(Tail(q)), i < j,
               Tail(q)[i].type = "route_endpoint", Tail(q)[j].type = "route_endpoint"
        PROVE  Tail(q)[i].arg < Tail(q)[j].arg
    <3>1. i + 1 < j + 1 /\ i + 1 \in 1..Len(q) /\ j + 1 \in 1..Len(q)
      BY <1>1, <2>2
    <3>2. QED
      BY <1>1, <2>2, <3>1 DEF Announces
  <2>3. QED
    BY <2>1, <2>2 DEF Announces
<1>4. OneRead(Tail(q), k)
  <2>1. \A i \in 1..Len(Tail(q)) : Tail(q)[i].type = "data" => Tail(q)[i].arg = k
    BY <1>1 DEF OneRead
  <2>2. ASSUME NEW i \in 1..Len(Tail(q)), NEW j \in 1..Len(Tail(q)),
               Tail(q)[i].type = "data", Tail(q)[j].type = "data"
        PROVE  i = j
    <3>1. i + 1 = j + 1
      BY <1>1, <2>2 DEF OneRead
    <3>2. QED
      BY <3>1
  <2>3. QED
    BY <2>1, <2>2 DEF OneRead
<1>5. ASSUME Head(q).type = "route_endpoint"
      PROVE  e < Head(q).arg /\ Head(q).arg <= n /\ Announces(Tail(q), Head(q).arg, n)
  <2>1. e < Head(q).arg /\ Head(q).arg <= n
    BY <1>1, <1>2, <1>5 DEF Announces
  <2>2. ASSUME NEW i \in 1..Len(Tail(q)), Tail(q)[i].type = "route_endpoint"
        PROVE  Head(q).arg < Tail(q)[i].arg /\ Tail(q)[i].arg <= n
    <3>1. 1 < i + 1 /\ i + 1 \in 1..Len(q) /\ Tail(q)[i] = q[i + 1]
      BY <1>1
    <3>2. QED
      BY <1>1, <1>2, <1>5, <2>2, <3>1 DEF Announces
  <2>3. QED
    BY <1>3, <2>1, <2>2 DEF Announces
<1>6. ASSUME Head(q).type = "data"
      PROVE  Head(q).arg = k /\ \A m \in Range(Tail(q)) : m.type # "data"
  <2>1. Head(q).arg = k
    BY <1>1, <1>2, <1>6 DEF OneRead
  <2>2. ASSUME NEW m \in Range(Tail(q)), m.type = "data" PROVE FALSE
    <3>0. Tail(q) \in Seq(Messages)
      BY <1>1
    <3>1. PICK i \in 1..Len(Tail(q)) : Tail(q)[i] = m
      BY <2>2, <3>0, SeqIndex
    <3>2. q[i + 1].type = "data" /\ i + 1 \in 1..Len(q) /\ i + 1 # 1
      BY <1>1, <2>2, <3>1
    <3>3. QED
      BY <1>1, <1>2, <1>6, <3>2 DEF OneRead
  <2>3. QED
    BY <2>1, <2>2
<1>7. QED
  BY <1>3, <1>4, <1>5, <1>6

\* A message that is neither an endpoint nor data.
LEMMA MailOther ==
    ASSUME NEW q \in Seq(Messages), NEW m \in Messages, NEW e \in Nat, NEW n \in Nat, NEW k \in Nat
    PROVE  /\ Announces(q, e, n) /\ m.type # "route_endpoint" => Announces(Append(q, m), e, n)
           /\ OneRead(q, k) /\ m.type # "data" => OneRead(Append(q, m), k)
<1>1. /\ Len(Append(q, m)) = Len(q) + 1 /\ Len(q) \in Nat
      /\ \A i \in 1..Len(q) : Append(q, m)[i] = q[i]
      /\ Append(q, m)[Len(q) + 1] = m
  BY SeqAppend
<1>2. \A i \in 1..Len(Append(q, m)) : i \in 1..Len(q) \/ i = Len(q) + 1
  BY <1>1
<1>3. ASSUME Announces(q, e, n), m.type # "route_endpoint" PROVE Announces(Append(q, m), e, n)
  <2>1. \A i \in 1..Len(Append(q, m)) : Append(q, m)[i].type = "route_endpoint" =>
           i \in 1..Len(q) /\ Append(q, m)[i] = q[i]
    BY <1>1, <1>2, <1>3
  <2>2. QED
    BY <1>3, <2>1 DEF Announces
<1>4. ASSUME OneRead(q, k), m.type # "data" PROVE OneRead(Append(q, m), k)
  <2>1. \A i \in 1..Len(Append(q, m)) : Append(q, m)[i].type = "data" =>
           i \in 1..Len(q) /\ Append(q, m)[i] = q[i]
    BY <1>1, <1>2, <1>4
  <2>2. QED
    BY <1>4, <2>1 DEF OneRead
<1>5. QED
  BY <1>3, <1>4

\* A new endpoint comes after the others.
LEMMA MailEndpoint ==
    ASSUME NEW q \in Seq(Messages), NEW m \in Messages, NEW e \in Nat, NEW n \in Nat,
           Announces(q, e, n), e <= n, m.type = "route_endpoint", m.arg = n + 1
    PROVE  Announces(Append(q, m), e, n + 1)
<1>1. /\ Len(Append(q, m)) = Len(q) + 1 /\ Len(q) \in Nat
      /\ \A i \in 1..Len(q) : Append(q, m)[i] = q[i]
      /\ Append(q, m)[Len(q) + 1] = m
      /\ \A i \in 1..Len(q) : q[i] \in Messages
  BY SeqAppend, SeqRange
<1>2. \A i \in 1..Len(Append(q, m)) : i \in 1..Len(q) \/ i = Len(q) + 1
  BY <1>1
<1>3. \A i \in 1..Len(q) : q[i].arg \in Nat
  BY <1>1 DEF Messages
<1>4. \A i \in 1..Len(Append(q, m)) : Append(q, m)[i].type = "route_endpoint" =>
         e < Append(q, m)[i].arg /\ Append(q, m)[i].arg <= n + 1
  BY <1>1, <1>2, <1>3 DEF Announces
<1>5. ASSUME NEW i \in 1..Len(Append(q, m)), NEW j \in 1..Len(Append(q, m)), i < j,
             Append(q, m)[i].type = "route_endpoint", Append(q, m)[j].type = "route_endpoint"
      PROVE  Append(q, m)[i].arg < Append(q, m)[j].arg
  <2>1. i \in 1..Len(q) /\ Append(q, m)[i] = q[i]
    BY <1>1, <1>5
  <2>2. q[i].arg <= n /\ q[i].arg \in Nat
    BY <1>3, <1>5, <2>1 DEF Announces
  <2>3. CASE j \in 1..Len(q)
    BY <1>1, <1>5, <2>1, <2>3 DEF Announces
  <2>4. CASE j = Len(q) + 1
    BY <1>1, <2>1, <2>2, <2>4
  <2>5. QED
    BY <1>2, <2>3, <2>4
<1>6. QED
  BY <1>4, <1>5 DEF Announces

\* The next chunk, when no other is there.
LEMMA MailChunk ==
    ASSUME NEW q \in Seq(Messages), NEW m \in Messages, m.type = "data",
           \A x \in Range(q) : x.type # "data"
    PROVE  OneRead(Append(q, m), m.arg)
<1>1. /\ Len(Append(q, m)) = Len(q) + 1 /\ Len(q) \in Nat
      /\ \A i \in 1..Len(q) : Append(q, m)[i] = q[i]
      /\ Append(q, m)[Len(q) + 1] = m
      /\ \A i \in 1..Len(q) : q[i] \in Range(q)
  <2>0. q \in Seq(Messages)
    OBVIOUS
  <2>1. Range(q) \subseteq Messages /\ \A i \in 1..Len(q) : q[i] \in Range(q)
    BY <2>0, SeqRange, Zenon
  <2>2. QED
    BY <2>1, SeqAppend
<1>2. \A i \in 1..Len(Append(q, m)) : i \in 1..Len(q) \/ i = Len(q) + 1
  BY <1>1
<1>3. \A i \in 1..Len(Append(q, m)) : Append(q, m)[i].type = "data" => i = Len(q) + 1
  BY <1>1, <1>2
<1>4. QED
  BY <1>1, <1>3 DEF OneRead

-----------------------------------------------------------------------------
(* One session's step.                                                     *)

\* The other sessions are as they were.
Apart(s) ==
    \A r \in Sessions : r # s =>
        /\ session'[r] = session[r] /\ mailbox'[r] = mailbox[r]
        /\ sent'[r] = sent[r] /\ got'[r] = got[r]

\* The connections of the others too.
OwnConns(s) ==
    /\ conns' \in [Sessions -> SUBSET [id : Ids, endpoint : Epochs]]
    /\ \A r \in Sessions : r # s => conns'[r] = conns[r]

LEMMA Stays ==
    ASSUME NEW r \in Sessions, SessionOK(r),
           session'[r] = session[r], mailbox'[r] = mailbox[r], conns'[r] = conns[r],
           sent'[r] = sent[r], got'[r] = got[r], route'.epoch = route.epoch,
           r \in route'.sessions <=> r \in route.sessions,
           r \in route'.pending =>
              /\ r \in route.pending
              /\ <<r, route.epoch>> \in reports => <<r, route.epoch>> \in reports'
    PROVE  SessionOK(r)'
<1>1. KnownOK(r) /\ EpochOK(r) /\ ReportOK(r) /\ DeliveredOK(r) /\ InOrder(got[r])
  BY DEF SessionOK
<1>2. KnownOK(r)' /\ EpochOK(r)'
  BY <1>1 DEF KnownOK, EpochOK, Alive, Queued
<1>3. ReportOK(r)'
  BY <1>1 DEF ReportOK, Alive, InMailbox, WillConnect
<1>4. DeliveredOK(r)' /\ InOrder(got'[r])
  BY <1>1 DEF DeliveredOK, InMailbox, Holds
<1>5. QED
  BY <1>2, <1>3, <1>4 DEF SessionOK

LEMMA SessionMoves ==
    ASSUME ProxyInv, NEW s \in Sessions, Apart(s), UNCHANGED route, reports \subseteq reports',
           session' \in [Sessions -> SessionRecords],
           mailbox' \in [Sessions -> Seq(Messages)],
           OwnConns(s),
           reports' \subseteq Sessions \X Epochs, down' \subseteq Epochs,
           sent' \in [Sessions -> 0..MaxChunks], got' \in [Sessions -> Seq(Chunks)],
           faults' \in 0..MaxFaults,
           KnownOK(s)', EpochOK(s)', ReportOK(s)', DeliveredOK(s)', InOrder(got'[s])
    PROVE  ProxyInv'
<1>1. ProxyTypeOK'
  BY DEF ProxyInv, ProxyTypeOK, SessionRecords, Messages, MessageTypes, OwnConns
<1>2. PendingCounted'
  BY DEF ProxyInv, PendingCounted
<1>3. SessionOK(s)'
  BY DEF SessionOK
<1>4. ASSUME NEW r \in Sessions, r # s PROVE SessionOK(r)'
  <2>1. /\ session'[r] = session[r] /\ mailbox'[r] = mailbox[r]
        /\ sent'[r] = sent[r] /\ got'[r] = got[r] /\ SessionOK(r) /\ conns'[r] = conns[r]
    BY <1>4 DEF Apart, OwnConns, ProxyInv
  <2>2. QED
    BY <2>1, Stays
<1>5. QED
  BY <1>1, <1>2, <1>3, <1>4 DEF ProxyInv

\* The types, piece by piece.
LEMMA Types ==
    ASSUME ProxyInv
    PROVE  /\ route.epoch \in Epochs /\ route.sessions \subseteq Sessions
           /\ route.pending \subseteq Sessions
           /\ route \in [phase : {"active", "cutover", "reconnecting"}, epoch : Epochs,
                         sessions : SUBSET Sessions, pending : SUBSET Sessions]
           /\ session \in [Sessions -> SessionRecords]
           /\ mailbox \in [Sessions -> Seq(Messages)]
           /\ conns \in [Sessions -> SUBSET [id : Ids, endpoint : Epochs]]
           /\ reports \subseteq Sessions \X Epochs /\ down \subseteq Epochs
           /\ sent \in [Sessions -> 0..MaxChunks] /\ got \in [Sessions -> Seq(Chunks)]
           /\ faults \in 0..MaxFaults
BY DEF ProxyInv, ProxyTypeOK, SessionRecords, Messages, MessageTypes

LEMMA Numbers == /\ MaxChunks \in Nat /\ MaxFaults \in Nat /\ MaxEpoch \in Nat \ {0}
                 /\ Epochs \subseteq Nat /\ 1 \in Epochs /\ Ids \subseteq Nat /\ 0 \notin Ids
                 /\ \A n : n \in Chunks <=> n \in 1..MaxChunks
BY ProxyBounds DEF Epochs, Ids, Chunks

\* A message handled, and perhaps a message for itself.
LEMMA Handling ==
    ASSUME ProxyInv, NEW s \in Sessions, NEW type, Handles(s, type),
           NEW more \in {<<>>, <<Message("connect", 0)>>}, Handled(s, more)
    PROVE  /\ mailbox' \in [Sessions -> Seq(Messages)]
           /\ \A r \in Sessions : r # s => mailbox'[r] = mailbox[r]
           /\ session[s].status = "up"
           /\ Head(mailbox[s]) \in Messages /\ Head(mailbox[s]).type = type
           /\ OneRead(mailbox'[s], sent[s])
           /\ Announces(mailbox'[s], session[s].epoch, route.epoch)
           /\ type = "route_endpoint" =>
                 /\ session[s].epoch < Head(mailbox[s]).arg
                 /\ Head(mailbox[s]).arg <= route.epoch
                 /\ Announces(mailbox'[s], Head(mailbox[s]).arg, route.epoch)
           /\ type = "data" =>
                 /\ Head(mailbox[s]).arg = sent[s] /\ InMailbox(s, "data")
                 /\ ~InMailbox(s, "data")'
           /\ type # "data" => (InMailbox(s, "data") <=> InMailbox(s, "data")')
           /\ type # "route_endpoint" /\ InMailbox(s, "route_endpoint") =>
                 InMailbox(s, "route_endpoint")'
           /\ (type # "route_endpoint" \/ Head(mailbox[s]).arg # route.epoch) /\
                 Queued(s, "route_endpoint", route.epoch) =>
                    \E m \in Range(mailbox'[s]) : m = Message("route_endpoint", route.epoch)
           /\ type # "connect" /\ InMailbox(s, "connect") => InMailbox(s, "connect")'
           /\ more # <<>> => InMailbox(s, "connect")'
<1> DEFINE q == mailbox[s]
           h == Head(q)
           connect == Message("connect", 0)
<1>1. /\ q \in Seq(Messages) /\ q # <<>> /\ h.type = type /\ session[s].status = "up"
      /\ sent[s] \in Nat /\ session[s].epoch \in Nat /\ route.epoch \in Nat
      /\ mailbox \in [Sessions -> Seq(Messages)]
  <2>1. /\ mailbox \in [Sessions -> Seq(Messages)] /\ session[s] \in SessionRecords
        /\ sent[s] \in 0..MaxChunks /\ route.epoch \in Epochs
    BY Types
  <2>0. session[s].epoch \in Epochs
    BY <2>1 DEF SessionRecords
  <2>2. sent[s] \in Nat /\ session[s].epoch \in Nat /\ route.epoch \in Nat
    <3>1. sent[s] \in Nat
      BY <2>1, ProxyBounds
    <3>2. QED
      BY <2>0, <2>1, <3>1, Numbers
  <2>3. q # <<>> /\ h.type = type /\ session[s].status = "up"
    BY DEF Handles
  <2>4. QED
    BY <2>1, <2>2, <2>3
<1>2. connect \in Messages /\ connect.type = "connect"
  BY DEF Messages, MessageTypes, Message
<1>3. OneRead(q, sent[s]) /\ Announces(q, session[s].epoch, route.epoch)
  BY <1>1 DEF ProxyInv, SessionOK, DeliveredOK, EpochOK
<1>4. mailbox' = [mailbox EXCEPT ![s] = Tail(q) \o more]
  BY DEF Handled
<1>5. /\ Tail(q) \in Seq(Messages) /\ h \in Messages
      /\ Range(q) = {h} \cup Range(Tail(q))
  BY <1>1, SeqTail
<1>6. /\ Announces(Tail(q), session[s].epoch, route.epoch) /\ OneRead(Tail(q), sent[s])
      /\ type = "route_endpoint" =>
            /\ session[s].epoch < h.arg /\ h.arg <= route.epoch
            /\ Announces(Tail(q), h.arg, route.epoch)
      /\ type = "data" => h.arg = sent[s] /\ \A m \in Range(Tail(q)) : m.type # "data"
  BY <1>1, <1>3, MailTail
<1>7. h.arg \in Nat
  BY <1>5 DEF Messages
<1> HIDE DEF h, connect
<1>8. /\ Tail(q) \o more \in Seq(Messages)
      /\ Range(Tail(q) \o more) = Range(Tail(q)) \cup (IF more = <<>> THEN {} ELSE {connect})
      /\ Announces(Tail(q) \o more, session[s].epoch, route.epoch)
      /\ OneRead(Tail(q) \o more, sent[s])
      /\ type = "route_endpoint" => Announces(Tail(q) \o more, h.arg, route.epoch)
  <2>1. CASE more = <<>>
    <3>1. Tail(q) \o more = Tail(q)
      BY <1>5, <2>1
    <3>2. QED
      BY <1>5, <1>6, <2>1, <3>1
  <2>2. CASE more = <<connect>> /\ more # <<>>
    <3>1. Tail(q) \o more = Append(Tail(q), connect)
      <4>1. Tail(q) \in Seq(Messages)
        BY <1>5
      <4>2. Append(Tail(q), connect) = Tail(q) \o <<connect>>
        BY <1>2, <4>1, AppendIsConcat
      <4>3. QED
        BY <2>2, <4>2
    <3>2. Append(Tail(q), connect) \in Seq(Messages) /\ Range(Append(Tail(q), connect)) = Range(Tail(q)) \cup {connect}
      <4>1. Tail(q) \in Seq(Messages) /\ connect \in Messages
        BY <1>2, <1>5
      <4>2. QED
        BY <4>1, AppendRange
    <3>3. /\ Announces(Append(Tail(q), connect), session[s].epoch, route.epoch)
          /\ OneRead(Append(Tail(q), connect), sent[s])
      BY <1>1, <1>2, <1>5, <1>6, MailOther
    <3>4. type = "route_endpoint" => Announces(Append(Tail(q), connect), h.arg, route.epoch)
      BY <1>1, <1>2, <1>5, <1>6, <1>7, MailOther
    <3>5. QED
      BY <2>2, <3>1, <3>2, <3>3, <3>4
  <2>3. more = <<>> \/ (more = <<connect>> /\ more # <<>>)
    BY DEF connect
  <2>4. QED
    BY <2>1, <2>2, <2>3
<1>9. /\ mailbox' \in [Sessions -> Seq(Messages)] /\ mailbox'[s] = Tail(q) \o more
      /\ \A r \in Sessions : r # s => mailbox'[r] = mailbox[r]
  BY <1>1, <1>4, <1>8
<1>10. /\ \A m : m \in Range(mailbox'[s]) => m \in Range(q) \/ m.type = "connect"
       /\ \A m : m \in Range(q) => m = h \/ m \in Range(mailbox'[s])
       /\ more # <<>> => \E m \in Range(mailbox'[s]) : m.type = "connect"
       /\ h \in Range(q)
  BY <1>2, <1>5, <1>8, <1>9
<1>11. Message("route_endpoint", route.epoch).arg = route.epoch
  BY DEF Message
<1>12. type = "data" => \A m \in Range(mailbox'[s]) : m.type # "data"
  BY <1>2, <1>6, <1>8, <1>9
<1>13. type # "data" => (InMailbox(s, "data") <=> InMailbox(s, "data")')
  BY <1>1, <1>10 DEF InMailbox, h
<1>14. /\ type # "connect" /\ InMailbox(s, "connect") => InMailbox(s, "connect")'
       /\ type # "route_endpoint" /\ InMailbox(s, "route_endpoint") =>
             InMailbox(s, "route_endpoint")'
       /\ more # <<>> => InMailbox(s, "connect")'
       /\ type = "data" => InMailbox(s, "data") /\ ~InMailbox(s, "data")'
  BY <1>1, <1>10, <1>12 DEF InMailbox, h
<1>15. (type # "route_endpoint" \/ Head(mailbox[s]).arg # route.epoch)
         /\ Queued(s, "route_endpoint", route.epoch) =>
             \E m \in Range(mailbox'[s]) : m = Message("route_endpoint", route.epoch)
  BY <1>1, <1>10 DEF Queued, Message, h
<1>16. QED
  BY <1>1, <1>5, <1>6, <1>8, <1>9, <1>12, <1>13, <1>14, <1>15 DEF h, InMailbox

LEMMA AbsentTyped == Absent \in SessionRecords /\ Absent.status = "absent" /\ Absent.buffer = <<>>
BY Numbers DEF Absent, SessionRecords, NoSocket

\* Nothing changes in what the session has read and not delivered.
LEMMA DataStays ==
    ASSUME ProxyInv, NEW s \in Sessions, session[s].status # "gone",
           session'[s].buffer = session[s].buffer,
           session'[s].armed = session[s].armed \/ session[s].buffer = <<>>,
           sent'[s] = sent[s], got'[s] = got[s],
           OneRead(mailbox'[s], sent[s]), InMailbox(s, "data") <=> InMailbox(s, "data")'
    PROVE  DeliveredOK(s)' /\ InOrder(got'[s])
<1>1. DeliveredOK(s) /\ InOrder(got[s])
  BY DEF ProxyInv, SessionOK
<1>2. Holds(s) <=> Holds(s)'
  BY DEF Holds
<1>3. session'[s].buffer # <<>> =>
        /\ session'[s].buffer = <<sent'[s]>> /\ session'[s].armed = FALSE /\ ~InMailbox(s, "data")'
  BY <1>1 DEF DeliveredOK
<1>4. QED
  BY <1>1, <1>2, <1>3 DEF DeliveredOK

\* Another chunk is written to the guest.
LEMMA GotAppend ==
    ASSUME NEW g \in Seq(Chunks), NEW n \in Chunks, InOrder(g),
           LastOf(g) = n \/ LastOf(g) + 1 = n
    PROVE  /\ Append(g, n) \in Seq(Chunks) /\ InOrder(Append(g, n))
           /\ LastOf(Append(g, n)) = n /\ Range(g) \subseteq Range(Append(g, n))
<1>1. /\ Append(g, n) \in Seq(Chunks) /\ Range(Append(g, n)) = Range(g) \cup {n}
      /\ Len(Append(g, n)) = Len(g) + 1 /\ Len(g) \in Nat
      /\ \A i \in 1..Len(g) : Append(g, n)[i] = g[i]
      /\ Append(g, n)[Len(g) + 1] = n
  BY SeqAppend
<1>2. LastOf(Append(g, n)) = n
  <2>1. Append(g, n) # <<>>
    BY <1>1
  <2>2. QED
    BY <1>1, <2>1 DEF LastOf
<1>3. ASSUME NEW k \in 1..Len(Append(g, n))
      PROVE  LET previous == IF k = 1 THEN 0 ELSE Append(g, n)[k - 1]
             IN  Append(g, n)[k] \in {previous, previous + 1}
  <2>1. CASE k \in 1..Len(g)
    <3>1. Append(g, n)[k] = g[k] /\ (k # 1 => Append(g, n)[k - 1] = g[k - 1])
      BY <1>1, <2>1
    <3>2. QED
      BY <2>1, <3>1 DEF InOrder
  <2>2. CASE k = Len(g) + 1
    <3>1. CASE g = <<>>
      <4>1. k = 1 /\ LastOf(g) = 0
        BY <2>2, <3>1 DEF LastOf
      <4>2. QED
        BY <1>1, <2>2, <4>1
    <3>2. CASE g # <<>>
      <4>1. Len(g) # 0
        BY <1>1, <3>2, EmptySeq
      <4>2. k # 1 /\ k - 1 = Len(g) /\ k - 1 \in 1..Len(g)
        BY <1>1, <2>2, <4>1
      <4>3. Append(g, n)[k - 1] = LastOf(g)
        BY <1>1, <3>2, <4>2 DEF LastOf
      <4>4. QED
        BY <1>1, <2>2, <4>2, <4>3
    <3>3. QED
      BY <3>1, <3>2
  <2>3. QED
    BY <1>1, <2>1, <2>2
<1>4. QED
  BY <1>1, <1>2, <1>3 DEF InOrder

\* The chunk that a session holds, sent[s], is written to the guest.
LEMMA Writes ==
    ASSUME ProxyInv, NEW s \in Sessions, session[s].status = "up", Holds(s),
           got' = [got EXCEPT ![s] = Append(@, sent[s])]
    PROVE  /\ sent[s] \in Chunks /\ got' \in [Sessions -> Seq(Chunks)]
           /\ \A r \in Sessions : r # s => got'[r] = got[r]
           /\ InOrder(got'[s]) /\ LastOf(got'[s]) = sent[s]
           /\ \A n \in 1..sent[s] : n < sent[s] => n \in Range(got'[s])
<1>1. /\ got \in [Sessions -> Seq(Chunks)] /\ got[s] \in Seq(Chunks)
      /\ sent[s] \in 0..MaxChunks
  BY Types
<1>2. DeliveredOK(s) /\ InOrder(got[s])
  BY DEF ProxyInv, SessionOK
<1>3. sent[s] \in Chunks
  BY <1>1, <1>2, Numbers DEF DeliveredOK, Chunks
<1>4. LastOf(got[s]) = sent[s] \/ LastOf(got[s]) + 1 = sent[s]
  BY <1>2 DEF DeliveredOK
<1>5. /\ Append(got[s], sent[s]) \in Seq(Chunks) /\ InOrder(Append(got[s], sent[s]))
      /\ LastOf(Append(got[s], sent[s])) = sent[s]
      /\ Range(got[s]) \subseteq Range(Append(got[s], sent[s]))
  BY <1>1, <1>2, <1>3, <1>4, GotAppend
<1>6. /\ got'[s] = Append(got[s], sent[s]) /\ got' \in [Sessions -> Seq(Chunks)]
      /\ \A r \in Sessions : r # s => got'[r] = got[r]
  BY <1>1, <1>5
<1>7. \A n \in 1..sent[s] : n < sent[s] => n \in Range(got[s])
  BY <1>2 DEF DeliveredOK
<1>8. QED
  BY <1>3, <1>5, <1>6, <1>7

\* A session that has data to handle has an empty buffer, which does not overflow.
LEMMA HandlesData ==
    ASSUME ProxyInv, NEW s \in Sessions, Handles(s, "data")
    PROVE  /\ InMailbox(s, "data") /\ Holds(s)
           /\ session[s].buffer = <<>> /\ ~Overflows(s)
           /\ Head(mailbox[s]).arg = sent[s]
<1>1. mailbox[s] \in Seq(Messages) /\ mailbox[s] # <<>> /\ Head(mailbox[s]).type = "data"
      /\ session[s].status = "up"
  BY Types DEF Handles
<1>2. Head(mailbox[s]) \in Range(mailbox[s])
  BY <1>1, SeqTail
<1>3. InMailbox(s, "data") /\ Holds(s)
  BY <1>1, <1>2 DEF InMailbox, Holds
<1>4. session[s].buffer = <<>> /\ OneRead(mailbox[s], sent[s])
  BY <1>1, <1>3 DEF ProxyInv, SessionOK, DeliveredOK
<1>5. ~Overflows(s)
  <2>1. Len(session[s].buffer) = 0
    BY <1>4
  <2>2. QED
    BY <2>1, ProxyBounds DEF Overflows
<1>6. Head(mailbox[s]).arg = sent[s]
  <2>1. Len(mailbox[s]) \in Nat \ {0} /\ Head(mailbox[s]) = mailbox[s][1]
    BY <1>1, SeqTail
  <2>2. 1 \in 1..Len(mailbox[s])
    BY <2>1
  <2>3. QED
    BY <1>1, <1>4, <2>1, <2>2 DEF OneRead
<1>7. QED
  BY <1>3, <1>4, <1>5, <1>6

\* A session that stops.
LEMMA StopStep ==
    ASSUME ProxyInv, NEW s \in Sessions, session[s].status = "up", Stop(s),
           UNCHANGED <<route, reports, down, sent, got>>, faults' \in 0..MaxFaults
    PROVE  ProxyInv'
<1> DEFINE st == [Absent EXCEPT !.status = "gone"]
<1>1. st \in SessionRecords /\ st.status = "gone" /\ st.buffer = <<>>
  BY AbsentTyped DEF SessionRecords
<1> HIDE DEF st
<1>2. /\ session \in [Sessions -> SessionRecords]
      /\ mailbox \in [Sessions -> Seq(Messages)]
      /\ conns \in [Sessions -> SUBSET [id : Ids, endpoint : Epochs]]
  BY Types
<1>3. /\ session' = [session EXCEPT ![s] = st] /\ mailbox' = [mailbox EXCEPT ![s] = <<>>]
      /\ conns' = [conns EXCEPT ![s] = {}]
  BY DEF Stop, st
<1>4. /\ session' \in [Sessions -> SessionRecords] /\ session'[s].status = "gone"
      /\ session'[s].buffer = <<>>
      /\ mailbox' \in [Sessions -> Seq(Messages)] /\ mailbox'[s] = <<>>
      /\ OwnConns(s) /\ conns'[s] = {} /\ Apart(s)
  BY <1>1, <1>2, <1>3 DEF Apart, OwnConns
<1>5. KnownOK(s)' /\ ReportOK(s)' /\ DeliveredOK(s)'
  BY <1>4 DEF KnownOK, ReportOK, DeliveredOK, Alive
<1>6. EpochOK(s)'
  <2>1. Len(mailbox'[s]) = 0
    BY <1>4
  <2>2. Announces(mailbox'[s], session'[s].epoch, route'.epoch)
    BY <2>1 DEF Announces
  <2>3. QED
    BY <1>4, <2>2 DEF EpochOK, Alive
<1>7. InOrder(got'[s])
  BY DEF ProxyInv, SessionOK
<1>8. QED
  BY <1>4, <1>5, <1>6, <1>7, Types, SessionMoves

\* A handler that neither connects nor touches the client's data.
LEMMA QuietHandler ==
    ASSUME ProxyInv, NEW s \in Sessions,
           NEW type \in {"begin_cutover", "guest", "closed", "broken"},
           Handles(s, type), Handled(s, <<>>),
           NEW st \in SessionRecords, session' = [session EXCEPT ![s] = st],
           st.status = "up", st.epoch = session[s].epoch, st.buffer = session[s].buffer,
           st.armed = session[s].armed, st.timer = session[s].timer,
           st.strays = session[s].strays,
           OwnConns(s),
           UNCHANGED <<route, reports, down, sent, got>>, faults' \in 0..MaxFaults
    PROVE  ProxyInv'
<1>1. /\ session' \in [Sessions -> SessionRecords] /\ session'[s] = st
      /\ \A r \in Sessions : r # s => session'[r] = session[r]
  BY Types
<1>2. /\ mailbox' \in [Sessions -> Seq(Messages)]
      /\ \A r \in Sessions : r # s => mailbox'[r] = mailbox[r]
      /\ session[s].status = "up" /\ OneRead(mailbox'[s], sent[s])
      /\ Announces(mailbox'[s], session[s].epoch, route.epoch)
      /\ InMailbox(s, "data") <=> InMailbox(s, "data")'
      /\ InMailbox(s, "route_endpoint") => InMailbox(s, "route_endpoint")'
      /\ Queued(s, "route_endpoint", route.epoch) =>
            \E m \in Range(mailbox'[s]) : m = Message("route_endpoint", route.epoch)
      /\ InMailbox(s, "connect") => InMailbox(s, "connect")'
  BY Handling
<1>3. KnownOK(s) /\ EpochOK(s) /\ ReportOK(s)
  BY DEF ProxyInv, SessionOK
<1>4. Apart(s)
  BY <1>1, <1>2 DEF Apart
<1>5. KnownOK(s)'
  BY <1>1, <1>2, <1>3 DEF KnownOK, Alive
<1>6. EpochOK(s)'
  BY <1>1, <1>2, <1>3 DEF EpochOK, Alive, Queued
<1>7. ReportOK(s)'
  BY <1>1, <1>2, <1>3 DEF ReportOK, Alive, WillConnect
<1>8. DeliveredOK(s)' /\ InOrder(got'[s])
  BY <1>1, <1>2, DataStays
<1>9. QED
  BY <1>1, <1>2, <1>4, <1>5, <1>6, <1>7, <1>8, Types, SessionMoves

LEMMA Disconnected ==
    ASSUME ProxyInv, NEW s \in Sessions
    PROVE  /\ conns' = [conns EXCEPT ![s] = WithoutSocket(s)] => OwnConns(s)
           /\ conns' = conns => OwnConns(s)
BY Types DEF WithoutSocket, OwnConns

LEMMA HandleBeginCutoverStep ==
    ASSUME ProxyInv, NEW s \in Sessions, HandleBeginCutover(s)
    PROVE  ProxyInv'
<1> DEFINE st == IF Head(mailbox[s]).arg = session[s].epoch
                 THEN [session[s] EXCEPT !.cutover = TRUE, !.awaiting = FALSE,
                                         !.socket = NoSocket, !.mode = "waiting_endpoint"]
                 ELSE [session[s] EXCEPT !.socket = NoSocket,
                         !.mode = IF session[s].cutover THEN "waiting_endpoint"
                                                        ELSE session[s].mode]
<1>0. session' = [session EXCEPT ![s] = st]
  BY Zenon DEF HandleBeginCutover
<1> HIDE DEF st
<1>1. /\ Handles(s, "begin_cutover") /\ Handled(s, <<>>)
      /\ conns' = [conns EXCEPT ![s] = WithoutSocket(s)]
      /\ UNCHANGED <<route, reports, down, sent, got, faults>>
  BY DEF HandleBeginCutover
<1>2. session[s] \in SessionRecords /\ session[s].status = "up"
  BY <1>1, Types DEF Handles
<1>3. /\ st \in SessionRecords /\ st.status = "up" /\ st.epoch = session[s].epoch
      /\ st.buffer = session[s].buffer /\ st.armed = session[s].armed
      /\ st.timer = session[s].timer /\ st.strays = session[s].strays
  BY <1>2 DEF SessionRecords, st
<1>4. OwnConns(s) /\ faults' \in 0..MaxFaults
  BY <1>1, Disconnected, Types
<1>5. QED
  BY <1>0, <1>1, <1>3, <1>4, QuietHandler

\* The session is cut off from its guest, or stops.
LEMMA InternalEofStep ==
    ASSUME ProxyInv, NEW s \in Sessions, NEW type \in {"guest", "closed", "broken"},
           Handles(s, type), InternalEof(s),
           UNCHANGED <<route, reports, down, sent, got>>, faults' \in 0..MaxFaults
    PROVE  ProxyInv'
<1>1. CASE Stop(s)
  BY <1>1, StopStep DEF Handles
<1>2. CASE /\ session' = [session EXCEPT ![s].socket = NoSocket, ![s].mode = "waiting_endpoint"]
           /\ conns' = [conns EXCEPT ![s] = WithoutSocket(s)]
           /\ Handled(s, <<>>)
  <2> DEFINE st == [session[s] EXCEPT !.socket = NoSocket, !.mode = "waiting_endpoint"]
  <2>1. /\ session \in [Sessions -> SessionRecords] /\ session[s] \in SessionRecords
        /\ session[s].status = "up"
    BY Types DEF Handles
  <2>2. session' = [session EXCEPT ![s] = st]
    BY <1>2, <2>1
  <2>3. /\ st \in SessionRecords /\ st.status = "up" /\ st.epoch = session[s].epoch
        /\ st.buffer = session[s].buffer /\ st.armed = session[s].armed
        /\ st.timer = session[s].timer /\ st.strays = session[s].strays
    BY <2>1 DEF SessionRecords
  <2> HIDE DEF st
  <2>4. OwnConns(s)
    BY <1>2, Disconnected
  <2>5. QED
    BY <1>2, <2>2, <2>3, <2>4, QuietHandler
<1>3. QED
  BY <1>1, <1>2 DEF InternalEof

LEMMA HandleGuestDataStep ==
    ASSUME ProxyInv, NEW s \in Sessions, HandleGuestData(s)
    PROVE  ProxyInv'
<1>1. /\ Handles(s, "guest") /\ UNCHANGED <<route, reports, down, sent, got>>
      /\ session \in [Sessions -> SessionRecords] /\ session[s] \in SessionRecords
      /\ session[s].status = "up" /\ faults \in 0..MaxFaults
      /\ conns \in [Sessions -> SUBSET [id : Ids, endpoint : Epochs]]
  BY Types DEF HandleGuestData, Handles
<1>2. CASE Handled(s, <<>>) /\ UNCHANGED <<session, conns, faults>>
  <2>1. session' = [session EXCEPT ![s] = session[s]]
    BY <1>1, <1>2
  <2>2. QED
    BY <1>1, <1>2, <2>1, QuietHandler, Disconnected
<1>3. CASE /\ session' = [session EXCEPT ![s] =
                IF session[s].awaiting THEN [@ EXCEPT !.cutover = FALSE, !.awaiting = FALSE]
                                       ELSE @]
           /\ Handled(s, <<>>)
           /\ UNCHANGED <<conns, faults>>
  <2> DEFINE st == IF session[s].awaiting
                   THEN [session[s] EXCEPT !.cutover = FALSE, !.awaiting = FALSE]
                   ELSE session[s]
  <2>1. session' = [session EXCEPT ![s] = st]
    BY <1>3
  <2>2. /\ st \in SessionRecords /\ st.status = "up" /\ st.epoch = session[s].epoch
        /\ st.buffer = session[s].buffer /\ st.armed = session[s].armed
        /\ st.timer = session[s].timer /\ st.strays = session[s].strays
    BY <1>1 DEF SessionRecords
  <2> HIDE DEF st
  <2>3. QED
    BY <1>1, <1>3, <2>1, <2>2, QuietHandler, Disconnected
<1>4. CASE faults < MaxFaults /\ faults' = faults + 1 /\ InternalEof(s)
  <2>1. faults' \in 0..MaxFaults
    BY <1>1, <1>4, Numbers
  <2>2. QED
    BY <1>1, <1>4, <2>1, InternalEofStep
<1>5. QED
  BY <1>2, <1>3, <1>4 DEF HandleGuestData

LEMMA HandleEofStep ==
    ASSUME ProxyInv, NEW s \in Sessions, HandleEof(s)
    PROVE  ProxyInv'
<1>1. PICK type \in {"closed", "broken"} : Handles(s, type)
  BY DEF HandleEof
<1>2. /\ UNCHANGED <<route, reports, down, sent, got, faults>>
      /\ session \in [Sessions -> SessionRecords] /\ session[s] \in SessionRecords
      /\ session[s].status = "up" /\ faults \in 0..MaxFaults
      /\ conns \in [Sessions -> SUBSET [id : Ids, endpoint : Epochs]]
  BY <1>1, Types DEF HandleEof, Handles
<1>3. CASE InternalEof(s)
  BY <1>1, <1>2, <1>3, InternalEofStep
<1>4. CASE Handled(s, <<>>) /\ UNCHANGED <<session, conns>>
  <2>1. session' = [session EXCEPT ![s] = session[s]]
    BY <1>2, <1>4
  <2>2. QED
    BY <1>1, <1>2, <1>4, <2>1, QuietHandler, Disconnected
<1>5. QED
  BY <1>3, <1>4 DEF HandleEof

LEMMA HandleRouteEndpointStep ==
    ASSUME ProxyInv, NEW s \in Sessions, HandleRouteEndpoint(s)
    PROVE  ProxyInv'
<1> DEFINE e == Head(mailbox[s]).arg
           more == <<Message("connect", 0)>>
           st == [session[s] EXCEPT !.epoch = e, !.mode = "connecting", !.cutover = TRUE,
                                    !.awaiting = TRUE, !.socket = NoSocket, !.timer = FALSE]
<1>1. /\ Handles(s, "route_endpoint") /\ UNCHANGED <<route, reports, down, sent, got, faults>>
      /\ Handled(s, IF e > session[s].epoch THEN more ELSE <<>>)
  BY DEF HandleRouteEndpoint
<1>2. PICK sends \in {<<>>, more} : sends = IF e > session[s].epoch THEN more ELSE <<>>
  OBVIOUS
<1>3. Handled(s, sends)
  BY <1>1, <1>2
<1> HIDE DEF more
<1>4. /\ mailbox' \in [Sessions -> Seq(Messages)]
      /\ \A r \in Sessions : r # s => mailbox'[r] = mailbox[r]
      /\ session[s].status = "up" /\ OneRead(mailbox'[s], sent[s])
      /\ e \in Nat /\ session[s].epoch < e /\ e <= route.epoch
      /\ Announces(mailbox'[s], e, route.epoch)
      /\ InMailbox(s, "data") <=> InMailbox(s, "data")'
      /\ e # route.epoch /\ Queued(s, "route_endpoint", route.epoch) =>
            \E m \in Range(mailbox'[s]) : m = Message("route_endpoint", route.epoch)
      /\ sends # <<>> => InMailbox(s, "connect")'
  BY <1>1, <1>3, Handling DEF more, Messages
<1>5. /\ session \in [Sessions -> SessionRecords] /\ session[s] \in SessionRecords
      /\ session[s].epoch \in Epochs /\ route.epoch \in Epochs
  BY Types DEF SessionRecords
<1>6. e \in Epochs /\ e > session[s].epoch /\ session[s].epoch # route.epoch
  <2>1. session[s].epoch \in Nat \ {0} /\ route.epoch \in Nat /\ route.epoch <= MaxEpoch
    BY <1>5, ProxyBounds DEF Epochs
  <2>2. e \in Nat /\ session[s].epoch < e /\ e <= route.epoch
    BY <1>4
  <2> HIDE DEF e
  <2>3. QED
    BY <2>1, <2>2, ProxyBounds DEF Epochs
<1>7. sends # <<>>
  BY <1>2, <1>6 DEF more
<1>8. /\ session' = [session EXCEPT ![s] = st]
      /\ conns' = [conns EXCEPT ![s] = WithoutSocket(s)]
  BY <1>6 DEF HandleRouteEndpoint
<1>9. /\ st \in SessionRecords /\ st.status = "up" /\ st.epoch = e
      /\ st.buffer = session[s].buffer /\ st.armed = session[s].armed
  BY <1>4, <1>5, <1>6 DEF SessionRecords
<1> HIDE DEF st, e
<1>10. /\ session' \in [Sessions -> SessionRecords] /\ session'[s] = st
       /\ \A r \in Sessions : r # s => session'[r] = session[r]
  BY <1>5, <1>8, <1>9
<1>11. KnownOK(s) /\ EpochOK(s) /\ ReportOK(s)
  BY DEF ProxyInv, SessionOK
<1>12. Apart(s)
  BY <1>1, <1>4, <1>10 DEF Apart
<1>13. KnownOK(s)'
  BY <1>1, <1>4, <1>9, <1>10, <1>11 DEF KnownOK, Alive
<1>14. EpochOK(s)'
  <2>1. session[s].epoch # route.epoch
    BY <1>6
  <2>2. Queued(s, "route_endpoint", route.epoch)
    BY <1>4, <1>11, <2>1 DEF EpochOK, Alive
  <2>3. e = route.epoch \/ Message("route_endpoint", route.epoch) \in Range(mailbox'[s])
    BY <1>4, <2>2
  <2>4. QED
    BY <1>1, <1>4, <1>9, <1>10, <2>3 DEF EpochOK, Queued
<1>15. ReportOK(s)'
  BY <1>4, <1>7 DEF ReportOK, WillConnect
<1>16. DeliveredOK(s)' /\ InOrder(got'[s])
  BY <1>1, <1>4, <1>9, <1>10, DataStays
<1>17. OwnConns(s)
  BY <1>8, Disconnected
<1>18. QED
  BY <1>1, <1>4, <1>10, <1>12, <1>13, <1>14, <1>15, <1>16, <1>17, Types, SessionMoves

\* A connect message handled, the session's epoch kept.
LEMMA ConnectHandler ==
    ASSUME ProxyInv, NEW s \in Sessions, Handles(s, "connect"), Handled(s, <<>>),
           NEW st \in SessionRecords, session' = [session EXCEPT ![s] = st],
           st.status = "up", st.epoch = session[s].epoch,
           st.timer = TRUE \/ <<s, session[s].epoch>> \in reports',
           reports \subseteq reports', reports' \subseteq Sessions \X Epochs,
           OwnConns(s),
           got' \in [Sessions -> Seq(Chunks)], \A r \in Sessions : r # s => got'[r] = got[r],
           UNCHANGED <<route, down, sent>>, faults' \in 0..MaxFaults,
           DeliveredOK(s)', InOrder(got'[s])
    PROVE  ProxyInv'
<1>1. /\ session' \in [Sessions -> SessionRecords] /\ session'[s] = st
      /\ \A r \in Sessions : r # s => session'[r] = session[r]
  BY Types
<1>2. /\ mailbox' \in [Sessions -> Seq(Messages)]
      /\ \A r \in Sessions : r # s => mailbox'[r] = mailbox[r]
      /\ session[s].status = "up"
      /\ Announces(mailbox'[s], session[s].epoch, route.epoch)
      /\ Queued(s, "route_endpoint", route.epoch) =>
            \E m \in Range(mailbox'[s]) : m = Message("route_endpoint", route.epoch)
  BY Handling
<1>3. KnownOK(s) /\ EpochOK(s) /\ ReportOK(s)
  BY DEF ProxyInv, SessionOK
<1>4. Apart(s)
  BY <1>1, <1>2 DEF Apart
<1>5. KnownOK(s)'
  BY <1>1, <1>2, <1>3 DEF KnownOK, Alive
<1>6. EpochOK(s)'
  BY <1>1, <1>2, <1>3 DEF EpochOK, Alive, Queued
<1>7. ReportOK(s)'
  <2>1. CASE st.timer = TRUE
    BY <1>1, <2>1 DEF ReportOK, WillConnect
  <2>2. CASE <<s, session[s].epoch>> \in reports' /\ session[s].epoch = route.epoch
    BY <2>2 DEF ReportOK
  <2>3. CASE session[s].epoch # route.epoch
    <3>1. Message("route_endpoint", route.epoch) \in Range(mailbox'[s])
      BY <1>2, <1>3, <2>3 DEF EpochOK, Alive
    <3>2. InMailbox(s, "route_endpoint")'
      BY <3>1 DEF InMailbox, Message
    <3>3. QED
      BY <3>2 DEF ReportOK
  <2>4. QED
    BY <2>1, <2>2, <2>3
<1>8. down' \subseteq Epochs /\ sent' \in [Sessions -> 0..MaxChunks]
  BY Types
<1>9. QED
  BY <1>1, <1>2, <1>4, <1>5, <1>6, <1>7, <1>8, SessionMoves

\* What a handler of connect makes of the session.
LEMMA Retried ==
    ASSUME NEW st \in SessionRecords
    PROVE  /\ Untimed(st) \in SessionRecords /\ RetryLater(st) \in SessionRecords
           /\ \A x \in {Untimed(st), RetryLater(st)} :
                 /\ x.status = st.status /\ x.epoch = st.epoch /\ x.buffer = st.buffer
                 /\ x.armed = st.armed
           /\ RetryLater(st).timer = TRUE
<1>1. /\ Untimed(st) \in SessionRecords /\ Untimed(st).status = st.status
      /\ Untimed(st).epoch = st.epoch /\ Untimed(st).buffer = st.buffer
      /\ Untimed(st).armed = st.armed
  <2>1. PICK k \in Nat : k = st.strays + (IF st.timer THEN 1 ELSE 0)
    BY DEF SessionRecords
  <2>2. Untimed(st) = [st EXCEPT !.timer = FALSE, !.strays = k]
    BY <2>1 DEF Untimed
  <2>3. QED
    BY <2>2 DEF SessionRecords
<1>2. RetryLater(st) = [Untimed(st) EXCEPT !.timer = TRUE, !.socket = NoSocket]
  BY DEF RetryLater
<1>3. /\ RetryLater(st) \in SessionRecords /\ RetryLater(st).status = st.status
      /\ RetryLater(st).epoch = st.epoch /\ RetryLater(st).buffer = st.buffer
      /\ RetryLater(st).armed = st.armed /\ RetryLater(st).timer = TRUE
  BY <1>1, <1>2 DEF SessionRecords
<1>4. QED
  BY <1>1, <1>3

\* What a session that handles connect has read is where it was.
LEMMA Connecting ==
    ASSUME ProxyInv, NEW s \in Sessions, Handles(s, "connect"), Handled(s, <<>>)
    PROVE  /\ session[s].status = "up" /\ session[s] \in SessionRecords
           /\ OneRead(mailbox'[s], sent[s])
           /\ InMailbox(s, "data") <=> InMailbox(s, "data")'
           /\ DeliveredOK(s) /\ InOrder(got[s])
<1>1. /\ session[s].status = "up" /\ OneRead(mailbox'[s], sent[s])
      /\ InMailbox(s, "data") <=> InMailbox(s, "data")'
  BY Handling
<1>2. session[s] \in SessionRecords
  BY Types
<1>3. QED
  BY <1>1, <1>2 DEF ProxyInv, SessionOK

LEMMA ConnectFailsStep ==
    ASSUME ProxyInv, NEW s \in Sessions, ConnectFails(s)
    PROVE  ProxyInv'
<1>1. /\ Handles(s, "connect") /\ Handled(s, <<>>)
      /\ session' = [session EXCEPT ![s] = RetryLater(session[s])]
      /\ UNCHANGED <<route, conns, reports, down, sent, got, faults>>
  BY DEF ConnectFails
<1>2. /\ session[s].status = "up" /\ session[s] \in SessionRecords
      /\ OneRead(mailbox'[s], sent[s]) /\ (InMailbox(s, "data") <=> InMailbox(s, "data")')
  BY <1>1, Connecting
<1> DEFINE st == RetryLater(session[s])
<1>3. /\ st \in SessionRecords /\ st.status = "up" /\ st.epoch = session[s].epoch
      /\ st.timer = TRUE /\ st.buffer = session[s].buffer /\ st.armed = session[s].armed
  BY <1>2, Retried
<1>4. session'[s] = st
  BY <1>1, <1>3, Types
<1> HIDE DEF st
<1>5. DeliveredOK(s)' /\ InOrder(got'[s])
  BY <1>1, <1>2, <1>3, <1>4, DataStays
<1>6. session' = [session EXCEPT ![s] = st]
  BY <1>1 DEF st
<1>7. QED
  BY <1>1, <1>3, <1>5, <1>6, Types, Disconnected, ConnectHandler

LEMMA ConnectSucceedsStep ==
    ASSUME ProxyInv, NEW s \in Sessions, ConnectSucceeds(s)
    PROVE  ProxyInv'
<1>1. /\ Handles(s, "connect") /\ Handled(s, <<>>)
      /\ got' = [got EXCEPT ![s] = got[s] \o session[s].buffer]
      /\ reports' = reports \cup {<<s, session[s].epoch>>}
      /\ UNCHANGED <<route, down, sent, faults>>
  BY DEF ConnectSucceeds
<1>2. PICK i \in Ids :
        /\ session' = [session EXCEPT ![s] =
             [Untimed(session[s]) EXCEPT !.mode = "connected", !.socket = i, !.buffer = <<>>,
                                         !.armed = TRUE]]
        /\ conns' = [conns EXCEPT ![s] = @ \cup {[id |-> i, endpoint |-> session[s].epoch]}]
  BY DEF ConnectSucceeds, FreeIds
<1>3. /\ session[s].status = "up" /\ session[s] \in SessionRecords
      /\ OneRead(mailbox'[s], sent[s]) /\ (InMailbox(s, "data") <=> InMailbox(s, "data")')
      /\ DeliveredOK(s) /\ InOrder(got[s])
  BY <1>1, Connecting
<1> DEFINE st == [Untimed(session[s]) EXCEPT !.mode = "connected", !.socket = i,
                                             !.buffer = <<>>, !.armed = TRUE]
<1>4. /\ Untimed(session[s]) \in SessionRecords /\ Untimed(session[s]).status = "up"
      /\ Untimed(session[s]).epoch = session[s].epoch
  BY <1>3, Retried
<1>5. /\ st \in SessionRecords /\ st.status = "up" /\ st.epoch = session[s].epoch
      /\ st.buffer = <<>>
  <2>1. PICK u \in SessionRecords : u = Untimed(session[s])
    BY <1>4
  <2>2. st = [u EXCEPT !.mode = "connected", !.socket = i, !.buffer = <<>>, !.armed = TRUE]
    BY <2>1
  <2>3. u.status = "up" /\ u.epoch = session[s].epoch
    BY <1>4, <2>1
  <2> HIDE DEF st
  <2>4. st.status = "up" /\ st.epoch = session[s].epoch /\ st.buffer = <<>>
    BY <2>2, <2>3 DEF SessionRecords
  <2>5. st \in SessionRecords
    <3>1. i \in Ids \cup {NoSocket} /\ <<>> \in Seq(Chunks)
      OBVIOUS
    <3>2. PICK none \in Seq(Chunks) : none = <<>>
      BY <3>1
    <3>3. st = [u EXCEPT !.mode = "connected", !.socket = i, !.buffer = none, !.armed = TRUE]
      BY <2>2, <3>2
    <3>4. QED
      BY <3>1, <3>3 DEF SessionRecords
  <2>6. QED
    BY <2>4, <2>5
<1>6. session' = [session EXCEPT ![s] = st]
  BY <1>2
<1> HIDE DEF st
<1>7. session'[s] = st
  BY <1>5, <1>6, Types
<1>8. session[s].epoch \in Epochs
  BY <1>3 DEF SessionRecords
<1>9. /\ reports' \subseteq Sessions \X Epochs /\ reports \subseteq reports'
      /\ <<s, session[s].epoch>> \in reports'
  BY <1>1, <1>8, Types
<1>10. OwnConns(s)
  <2>1. [id |-> i, endpoint |-> session[s].epoch] \in [id : Ids, endpoint : Epochs]
    BY <1>8
  <2>2. conns \in [Sessions -> SUBSET [id : Ids, endpoint : Epochs]]
    BY Types
  <2>3. PICK c \in [id : Ids, endpoint : Epochs] : c = [id |-> i, endpoint |-> session[s].epoch]
    BY <2>1
  <2>4. conns' = [conns EXCEPT ![s] = @ \cup {c}]
    BY <1>2, <2>3
  <2>5. QED
    BY <2>2, <2>4 DEF OwnConns
<1>11. got \in [Sessions -> Seq(Chunks)] /\ got[s] \in Seq(Chunks)
  BY Types
<1>12. /\ got' \in [Sessions -> Seq(Chunks)]
       /\ \A r \in Sessions : r # s => got'[r] = got[r]
       /\ DeliveredOK(s)' /\ InOrder(got'[s])
  <2>1. CASE session[s].buffer = <<>>
    <3>1. got' = got
      BY <1>1, <1>11, <2>1
    <3>2. DeliveredOK(s)' /\ InOrder(got'[s])
      BY <1>1, <1>3, <1>5, <1>7, <2>1, <3>1, DataStays
    <3>3. QED
      BY <1>11, <3>1, <3>2
  <2>2. CASE session[s].buffer # <<>>
    <3>1. session[s].buffer = <<sent[s]>> /\ Holds(s) /\ ~InMailbox(s, "data")
      BY <1>3, <2>2 DEF DeliveredOK, Holds
    <3>2. sent[s] \in Chunks
      <4>1. sent[s] # 0 /\ sent[s] \in 0..MaxChunks
        BY <1>3, <3>1, Types DEF DeliveredOK
      <4>2. QED
        BY <4>1, Numbers
    <3>3. Append(got[s], sent[s]) = got[s] \o <<sent[s]>>
      BY <1>11, <3>2, AppendIsConcat
    <3>4. got' = [got EXCEPT ![s] = Append(@, sent[s])]
      BY <1>1, <3>1, <3>3
    <3>5. /\ got' \in [Sessions -> Seq(Chunks)]
          /\ \A r \in Sessions : r # s => got'[r] = got[r]
          /\ InOrder(got'[s]) /\ LastOf(got'[s]) = sent[s]
          /\ \A n \in 1..sent[s] : n < sent[s] => n \in Range(got'[s])
      BY <1>3, <3>1, <3>4, Writes
    <3>6. ~Holds(s)'
      BY <1>3, <1>5, <1>7, <3>1 DEF Holds
    <3>7. DeliveredOK(s)'
      BY <1>1, <1>3, <1>5, <1>7, <3>5, <3>6 DEF DeliveredOK
    <3>8. QED
      BY <3>5, <3>7
  <2>3. QED
    BY <2>1, <2>2
<1>13. QED
  BY <1>1, <1>5, <1>6, <1>9, <1>10, <1>12, Types, ConnectHandler

LEMMA FirstOfOne ==
    ASSUME NEW x
    PROVE  SubSeq(<<x>>, 1, 0) = <<>> /\ SubSeq(<<x>>, 1, 1) = <<x>>
<1>1. SubSeq(<<x>>, 1, 0) = <<>>
  BY SubSeqEmpty
<1>2. <<x>> \in Seq({x}) /\ Len(<<x>>) = 1 /\ <<x>>[1] = x
  OBVIOUS
<1>3. \A i \in 1..1 : <<x>>[i] \in {x}
  BY <1>2
<1>4. /\ SubSeq(<<x>>, 1, 1) \in Seq({x}) /\ Len(SubSeq(<<x>>, 1, 1)) = 1
      /\ SubSeq(<<x>>, 1, 1)[1] = x
  BY <1>2, <1>3, SubSeqProperties
<1>5. SubSeq(<<x>>, 1, 1) = <<x>>
  <2> DEFINE one == <<x>>
             first == SubSeq(<<x>>, 1, 1)
  <2>1. /\ one \in Seq({x}) /\ first \in Seq({x}) /\ Len(one) = 1 /\ Len(first) = 1
        /\ one[1] = first[1]
    BY <1>2, <1>4
  <2> HIDE DEF one, first
  <2>2. one = first
    BY <2>1, SeqEqual
  <2>3. QED
    BY <2>2 DEF one, first
<1>6. QED
  BY <1>1, <1>5

LEMMA FlushFailsStep ==
    ASSUME ProxyInv, NEW s \in Sessions, FlushFails(s)
    PROVE  ProxyInv'
<1>1. /\ Handles(s, "connect") /\ Handled(s, <<>>)
      /\ session[s].buffer # <<>> /\ faults < MaxFaults /\ faults' = faults + 1
      /\ session' = [session EXCEPT ![s] = [RetryLater(session[s]) EXCEPT !.mode = "connecting"]]
      /\ UNCHANGED <<route, conns, reports, down, sent>>
  BY DEF FlushFails
<1>2. PICK n \in 0..Len(session[s].buffer) :
        got' = [got EXCEPT ![s] = got[s] \o SubSeq(session[s].buffer, 1, n)]
  BY DEF FlushFails
<1>3. /\ session[s].status = "up" /\ session[s] \in SessionRecords
      /\ OneRead(mailbox'[s], sent[s]) /\ (InMailbox(s, "data") <=> InMailbox(s, "data")')
      /\ DeliveredOK(s) /\ InOrder(got[s])
  BY <1>1, Connecting
<1> DEFINE st == [RetryLater(session[s]) EXCEPT !.mode = "connecting"]
<1>4. /\ RetryLater(session[s]) \in SessionRecords /\ RetryLater(session[s]).status = "up"
      /\ RetryLater(session[s]).epoch = session[s].epoch
      /\ RetryLater(session[s]).timer = TRUE
      /\ RetryLater(session[s]).buffer = session[s].buffer
      /\ RetryLater(session[s]).armed = session[s].armed
  BY <1>3, Retried
<1>5. /\ st \in SessionRecords /\ st.status = "up" /\ st.epoch = session[s].epoch
      /\ st.timer = TRUE /\ st.buffer = session[s].buffer /\ st.armed = session[s].armed
  BY <1>4 DEF SessionRecords
<1>6. session' = [session EXCEPT ![s] = st]
  BY <1>1
<1> HIDE DEF st
<1>7. session'[s] = st
  BY <1>5, <1>6, Types
<1>8. session[s].buffer = <<sent[s]>> /\ Holds(s)
  BY <1>1, <1>3 DEF DeliveredOK, Holds
<1>9. sent[s] \in Chunks
  <2>1. sent[s] # 0 /\ sent[s] \in 0..MaxChunks
    BY <1>3, <1>8, Types DEF DeliveredOK
  <2>2. QED
    BY <2>1, Numbers
<1>10. got \in [Sessions -> Seq(Chunks)] /\ got[s] \in Seq(Chunks)
  BY Types
<1>11. got' = got \/ got' = [got EXCEPT ![s] = Append(@, sent[s])]
  <2>1. Len(session[s].buffer) = 1
    BY <1>8
  <2>2. CASE n = 0
    <3>1. SubSeq(<<sent[s]>>, 1, 0) = <<>>
      BY FirstOfOne
    <3>2. SubSeq(session[s].buffer, 1, n) = <<>>
      BY <1>8, <2>2, <3>1
    <3>3. got[s] \o <<>> = got[s]
      BY <1>10
    <3>4. QED
      BY <1>2, <1>10, <3>2, <3>3
  <2>3. CASE n = 1
    <3>1. SubSeq(session[s].buffer, 1, n) = <<sent[s]>>
      BY <1>8, <2>3, FirstOfOne
    <3>2. Append(got[s], sent[s]) = got[s] \o <<sent[s]>>
      BY <1>9, <1>10, AppendIsConcat
    <3>3. QED
      BY <1>2, <3>1, <3>2
  <2>4. QED
    BY <2>1, <2>2, <2>3
<1>12. /\ got' \in [Sessions -> Seq(Chunks)]
       /\ \A r \in Sessions : r # s => got'[r] = got[r]
       /\ DeliveredOK(s)' /\ InOrder(got'[s])
  <2>1. CASE got' = got
    <3>1. DeliveredOK(s)' /\ InOrder(got'[s])
      BY <1>1, <1>3, <1>5, <1>7, <2>1, DataStays
    <3>2. QED
      BY <1>10, <2>1, <3>1
  <2>2. CASE got' = [got EXCEPT ![s] = Append(@, sent[s])]
    <3>1. /\ got' \in [Sessions -> Seq(Chunks)]
          /\ \A r \in Sessions : r # s => got'[r] = got[r]
          /\ InOrder(got'[s]) /\ LastOf(got'[s]) = sent[s]
          /\ \A k \in 1..sent[s] : k < sent[s] => k \in Range(got'[s])
      BY <1>3, <1>8, <2>2, Writes
    <3>2. Holds(s) <=> Holds(s)'
      BY <1>3, <1>5, <1>7 DEF Holds
    <3>3. session'[s].buffer # <<>> =>
            /\ session'[s].buffer = <<sent'[s]>> /\ session'[s].armed = FALSE
            /\ ~InMailbox(s, "data")'
      BY <1>1, <1>3, <1>5, <1>7 DEF DeliveredOK
    <3>4. DeliveredOK(s)'
      BY <1>1, <1>3, <3>1, <3>2, <3>3 DEF DeliveredOK
    <3>5. QED
      BY <3>1, <3>4
  <2>3. QED
    BY <1>11, <2>1, <2>2
<1>13. faults' \in 0..MaxFaults
  <2>1. faults \in 0..MaxFaults
    BY Types
  <2>2. QED
    BY <1>1, <2>1, Numbers
<1>14. QED
  BY <1>1, <1>5, <1>6, <1>12, <1>13, Types, Disconnected, ConnectHandler

\* The session has handled its data: it is written, or kept in the buffer, which was empty.
LEMMA DataHandler ==
    ASSUME ProxyInv, NEW s \in Sessions, Handles(s, "data"),
           NEW more \in {<<>>, <<Message("connect", 0)>>}, Handled(s, more),
           NEW st \in SessionRecords, session' = [session EXCEPT ![s] = st],
           st.status = "up", st.epoch = session[s].epoch,
           st.strays = session[s].strays, st.timer = session[s].timer,
           \/ st.buffer = <<>> /\ got' = [got EXCEPT ![s] = Append(@, sent[s])]
           \/ /\ st.buffer = <<sent[s]>> /\ st.armed = FALSE
              /\ got' = got \/ got' = [got EXCEPT ![s] = Append(@, sent[s])],
           OwnConns(s),
           UNCHANGED <<route, reports, down, sent>>, faults' \in 0..MaxFaults
    PROVE  ProxyInv'
<1>1. /\ session' \in [Sessions -> SessionRecords] /\ session'[s] = st
      /\ \A r \in Sessions : r # s => session'[r] = session[r]
  BY Types
<1>2. /\ mailbox' \in [Sessions -> Seq(Messages)]
      /\ \A r \in Sessions : r # s => mailbox'[r] = mailbox[r]
      /\ session[s].status = "up" /\ OneRead(mailbox'[s], sent[s])
      /\ Announces(mailbox'[s], session[s].epoch, route.epoch)
      /\ ~InMailbox(s, "data")'
      /\ InMailbox(s, "route_endpoint") => InMailbox(s, "route_endpoint")'
      /\ Queued(s, "route_endpoint", route.epoch) =>
            \E m \in Range(mailbox'[s]) : m = Message("route_endpoint", route.epoch)
      /\ InMailbox(s, "connect") => InMailbox(s, "connect")'
  BY Handling
<1>3. KnownOK(s) /\ EpochOK(s) /\ ReportOK(s) /\ DeliveredOK(s) /\ InOrder(got[s])
  BY DEF ProxyInv, SessionOK
<1>4. Holds(s)
  BY HandlesData
<1>5. /\ got' \in [Sessions -> Seq(Chunks)]
      /\ \A r \in Sessions : r # s => got'[r] = got[r]
      /\ InOrder(got'[s])
      /\ \A n \in 1..sent[s] : n < sent[s] => n \in Range(got'[s])
      /\ \/ LastOf(got'[s]) = sent[s]
         \/ LastOf(got'[s]) + 1 = sent[s] /\ got' = got
  <2>1. CASE got' = [got EXCEPT ![s] = Append(@, sent[s])]
    BY <1>2, <1>4, <2>1, Writes
  <2>2. CASE got' = got
    BY <1>2, <1>3, <2>2, Types DEF DeliveredOK
  <2>3. QED
    BY <2>1, <2>2
<1>6. DeliveredOK(s)'
  <2>1. sent[s] # 0
    BY <1>2, <1>3, <1>4 DEF DeliveredOK
  <2>2. CASE st.buffer = <<>> /\ got' = [got EXCEPT ![s] = Append(@, sent[s])]
    <3>1. LastOf(got'[s]) = sent[s]
      BY <1>2, <1>4, <2>2, Writes
    <3>2. ~Holds(s)'
      BY <1>1, <1>2, <2>2 DEF Holds
    <3>3. session'[s].buffer = <<>> /\ sent' = sent
      BY <1>1, <2>2
    <3>4. QED
      BY <1>2, <1>5, <3>1, <3>2, <3>3 DEF DeliveredOK
  <2>3. CASE st.buffer = <<sent[s]>> /\ st.armed = FALSE
    <3>1. session'[s].buffer = <<sent[s]>> /\ session'[s].armed = FALSE /\ sent' = sent
      BY <1>1, <2>3
    <3>2. <<sent[s]>> # <<>>
      OBVIOUS
    <3>3. Holds(s)'
      BY <3>1, <3>2 DEF Holds
    <3>4. QED
      BY <1>2, <1>5, <2>1, <3>1, <3>3 DEF DeliveredOK
  <2>4. QED
    BY <2>2, <2>3
<1>7. Apart(s)
  BY <1>1, <1>2, <1>5 DEF Apart
<1>8. KnownOK(s)'
  BY <1>1, <1>2, <1>3 DEF KnownOK, Alive
<1>9. EpochOK(s)'
  BY <1>1, <1>2, <1>3 DEF EpochOK, Alive, Queued
<1>10. ReportOK(s)'
  BY <1>1, <1>2, <1>3 DEF ReportOK, Alive, WillConnect
<1>11. QED
  BY <1>1, <1>2, <1>5, <1>6, <1>7, <1>8, <1>9, <1>10, Types, SessionMoves

LEMMA BufferDataStep ==
    ASSUME ProxyInv, NEW s \in Sessions, BufferData(s)
    PROVE  ProxyInv'
<1>1. Handles(s, "data") /\ UNCHANGED <<route, reports, down, sent, got, faults>>
  BY DEF BufferData
<1>2. /\ session[s].buffer = <<>> /\ ~Overflows(s) /\ Head(mailbox[s]).arg = sent[s] /\ Holds(s)
      /\ session[s].status = "up" /\ session[s] \in SessionRecords
      /\ session \in [Sessions -> SessionRecords]
      /\ DeliveredOK(s) /\ sent[s] \in 0..MaxChunks
  BY <1>1, HandlesData, Types DEF Handles, ProxyInv, SessionOK
<1>3. /\ session' = [session EXCEPT ![s].armed = FALSE,
                                    ![s].buffer = Append(@, Head(mailbox[s]).arg)]
      /\ Handled(s, <<>>) /\ UNCHANGED conns
  BY <1>2 DEF BufferData
<1>4. sent[s] \in Chunks
  BY <1>2, Numbers DEF DeliveredOK
<1>5. Append(session[s].buffer, sent[s]) = <<sent[s]>> /\ <<sent[s]>> \in Seq(Chunks)
  BY <1>2, <1>4
<1>6. PICK buffer \in Seq(Chunks) : buffer = <<sent[s]>>
  BY <1>5
<1> DEFINE st == [session[s] EXCEPT !.armed = FALSE, !.buffer = buffer]
<1>7. session' = [session EXCEPT ![s] = st]
  BY <1>2, <1>3, <1>5, <1>6 DEF SessionRecords
<1>8. /\ st \in SessionRecords /\ st.status = "up" /\ st.epoch = session[s].epoch
      /\ st.timer = session[s].timer /\ st.strays = session[s].strays
      /\ st.buffer = <<sent[s]>> /\ st.armed = FALSE
  BY <1>2, <1>6 DEF SessionRecords
<1> HIDE DEF st
<1>9. QED
  BY <1>1, <1>3, <1>7, <1>8, Types, Disconnected, DataHandler

LEMMA SendDataStep ==
    ASSUME ProxyInv, NEW s \in Sessions, SendData(s)
    PROVE  ProxyInv'
<1>1. Handles(s, "data") /\ UNCHANGED <<route, reports, down, sent, faults>>
  BY DEF SendData
<1>2. /\ session[s].buffer = <<>> /\ Head(mailbox[s]).arg = sent[s]
      /\ session[s].status = "up" /\ session[s] \in SessionRecords
      /\ session \in [Sessions -> SessionRecords]
  BY <1>1, HandlesData, Types DEF Handles
<1>3. CASE Stop(s) /\ UNCHANGED got
  BY <1>1, <1>2, <1>3, Types, StopStep
<1>4. CASE /\ got' = [got EXCEPT ![s] = Append(@, Head(mailbox[s]).arg)]
           /\ Handled(s, <<>>)
           /\ UNCHANGED <<session, conns>>
  <2>1. session' = [session EXCEPT ![s] = session[s]]
    BY <1>2, <1>4
  <2>2. got' = [got EXCEPT ![s] = Append(@, sent[s])]
    BY <1>2, <1>4
  <2>3. QED
    BY <1>1, <1>2, <1>4, <2>1, <2>2, Types, Disconnected, DataHandler
<1>5. QED
  BY <1>3, <1>4 DEF SendData

LEMMA SendFailsStep ==
    ASSUME ProxyInv, NEW s \in Sessions, SendFails(s)
    PROVE  ProxyInv'
<1>1. /\ Handles(s, "data") /\ UNCHANGED <<route, reports, down, sent>>
      /\ faults < MaxFaults /\ faults' = faults + 1
  BY DEF SendFails
<1>2. /\ session[s].buffer = <<>> /\ ~Overflows(s) /\ Head(mailbox[s]).arg = sent[s] /\ Holds(s)
      /\ session[s].status = "up" /\ session[s] \in SessionRecords
      /\ session \in [Sessions -> SessionRecords]
      /\ DeliveredOK(s) /\ sent[s] \in 0..MaxChunks
  BY <1>1, HandlesData, Types DEF Handles, ProxyInv, SessionOK
<1>3. got' = got \/ got' = [got EXCEPT ![s] = Append(@, sent[s])]
  BY <1>2 DEF SendFails
<1>4. /\ session' = [session EXCEPT ![s] =
           [@ EXCEPT !.mode = "connecting", !.cutover = TRUE, !.socket = NoSocket,
                     !.armed = FALSE,
                     !.buffer = Append(session[s].buffer, Head(mailbox[s]).arg)]]
      /\ conns' = [conns EXCEPT ![s] = WithoutSocket(s)]
      /\ Handled(s, <<Message("connect", 0)>>)
  BY <1>2 DEF SendFails
<1>5. sent[s] \in Chunks
  BY <1>2, Numbers DEF DeliveredOK
<1>6. Append(session[s].buffer, sent[s]) = <<sent[s]>> /\ <<sent[s]>> \in Seq(Chunks)
  BY <1>2, <1>5
<1>7. PICK buffer \in Seq(Chunks) : buffer = <<sent[s]>>
  BY <1>6
<1> DEFINE st == [session[s] EXCEPT !.mode = "connecting", !.cutover = TRUE,
                                    !.socket = NoSocket, !.armed = FALSE, !.buffer = buffer]
<1>8. session' = [session EXCEPT ![s] = st]
  BY <1>2, <1>4, <1>6, <1>7
<1>9. /\ st \in SessionRecords /\ st.status = "up" /\ st.epoch = session[s].epoch
      /\ st.timer = session[s].timer /\ st.strays = session[s].strays
      /\ st.buffer = <<sent[s]>> /\ st.armed = FALSE
  BY <1>2, <1>7 DEF SessionRecords
<1> HIDE DEF st
<1>10. OwnConns(s)
  BY <1>4, Disconnected
<1>11. faults' \in 0..MaxFaults
  <2>1. faults \in 0..MaxFaults
    BY Types
  <2>2. QED
    BY <1>1, <2>1, Numbers
<1>12. PICK more \in {<<>>, <<Message("connect", 0)>>} : more = <<Message("connect", 0)>>
  OBVIOUS
<1>13. Handled(s, more)
  BY <1>4, <1>12
<1>14. QED
  BY <1>1, <1>3, <1>8, <1>9, <1>10, <1>11, <1>13, DataHandler

-----------------------------------------------------------------------------
(* Messages that arrive.                                                   *)

\* A message that is neither data nor an endpoint reaches a session, whose epoch and data
\* stay; if it takes a timer away it is the connect message of that timer.
LEMMA Arrives ==
    ASSUME ProxyInv, NEW s \in Sessions, Alive(s),
           NEW m \in Messages, m.type \notin {"data", "route_endpoint"},
           mailbox' = [mailbox EXCEPT ![s] = Append(@, m)],
           NEW st \in SessionRecords, session' = [session EXCEPT ![s] = st],
           st.status \in {session[s].status, "up"}, st.epoch = session[s].epoch,
           st.buffer = session[s].buffer,
           st.armed = session[s].armed \/ session[s].buffer = <<>>,
           st = session[s] \/ m.type = "connect",
           UNCHANGED <<route, conns, reports, down, sent, got, faults>>
    PROVE  ProxyInv'
<1>1. /\ session' \in [Sessions -> SessionRecords] /\ session'[s] = st
      /\ \A r \in Sessions : r # s => session'[r] = session[r]
  BY Types
<1>2. /\ mailbox \in [Sessions -> Seq(Messages)] /\ mailbox[s] \in Seq(Messages)
      /\ session[s].epoch \in Nat /\ route.epoch \in Nat /\ sent[s] \in Nat
      /\ session[s].status # "gone" /\ session[s].status # "absent"
  <2>1. /\ mailbox \in [Sessions -> Seq(Messages)] /\ session[s] \in SessionRecords
        /\ sent[s] \in 0..MaxChunks /\ route.epoch \in Epochs
    BY Types
  <2>2. session[s].epoch \in Epochs
    BY <2>1 DEF SessionRecords
  <2>3. sent[s] \in Nat
    BY <2>1, Numbers
  <2>4. QED
    BY <2>1, <2>2, <2>3, Numbers DEF Alive
<1>3. KnownOK(s) /\ EpochOK(s) /\ ReportOK(s) /\ DeliveredOK(s)
  BY DEF ProxyInv, SessionOK
<1>4. /\ Append(mailbox[s], m) \in Seq(Messages)
      /\ Range(Append(mailbox[s], m)) = Range(mailbox[s]) \cup {m}
  BY <1>2, AppendRange
<1>5. /\ mailbox' \in [Sessions -> Seq(Messages)] /\ mailbox'[s] = Append(mailbox[s], m)
      /\ \A r \in Sessions : r # s => mailbox'[r] = mailbox[r]
  BY <1>2, <1>4
<1>6. /\ Announces(mailbox'[s], session[s].epoch, route.epoch)
      /\ OneRead(mailbox'[s], sent[s])
  BY <1>2, <1>3, <1>5, MailOther DEF EpochOK, DeliveredOK
<1>7. InMailbox(s, "data") <=> InMailbox(s, "data")'
  BY <1>4, <1>5 DEF InMailbox
<1>8. DeliveredOK(s)' /\ InOrder(got'[s])
  BY <1>1, <1>2, <1>6, <1>7, DataStays
<1>9. Apart(s)
  BY <1>1, <1>5 DEF Apart
<1>10. KnownOK(s)'
  BY <1>1, <1>2, <1>3 DEF KnownOK, Alive
<1>11. EpochOK(s)'
  BY <1>1, <1>3, <1>4, <1>5, <1>6 DEF EpochOK, Alive, Queued
<1>12. ReportOK(s)'
  BY <1>1, <1>3, <1>4, <1>5 DEF ReportOK, Alive, WillConnect, InMailbox
<1>13. QED
  BY <1>1, <1>5, <1>8, <1>9, <1>10, <1>11, <1>12, Types, Disconnected, SessionMoves

LEMMA InitializeSessionStep ==
    ASSUME ProxyInv, NEW s \in Sessions, InitializeSession(s)
    PROVE  ProxyInv'
<1> DEFINE st == [session[s] EXCEPT !.status = "up", !.armed = TRUE]
           m == Message("connect", 0)
<1>1. /\ session[s] \in SessionRecords /\ session[s].status = "registering" /\ Alive(s)
      /\ session \in [Sessions -> SessionRecords]
      /\ session' = [session EXCEPT ![s].status = "up", ![s].armed = TRUE]
      /\ mailbox' = [mailbox EXCEPT ![s] = Append(@, m)]
      /\ UNCHANGED <<route, conns, reports, down, sent, got, faults>>
  BY Types DEF InitializeSession, Alive
<1>2. session' = [session EXCEPT ![s] = st]
  BY <1>1
<1>3. /\ st \in SessionRecords /\ st.status = "up" /\ st.epoch = session[s].epoch
      /\ st.buffer = session[s].buffer
  BY <1>1 DEF SessionRecords
<1>4. session[s].buffer = <<>>
  BY <1>1 DEF ProxyInv, SessionOK, KnownOK
<1>5. m \in Messages /\ m.type = "connect"
  BY DEF Messages, MessageTypes, Message
<1> HIDE DEF st, m
<1>6. /\ st.status \in {session[s].status, "up"} /\ m.type \notin {"data", "route_endpoint"}
      /\ st.armed = session[s].armed \/ session[s].buffer = <<>>
      /\ st = session[s] \/ m.type = "connect"
  BY <1>3, <1>4, <1>5
<1>7. QED
  BY <1>1, <1>2, <1>3, <1>5, <1>6, Arrives, ZenonT(60)

LEMMA RetryTimerFiresStep ==
    ASSUME ProxyInv, NEW s \in Sessions, RetryTimerFires(s)
    PROVE  ProxyInv'
<1> DEFINE m == Message("connect", 0)
<1>1. /\ session[s] \in SessionRecords /\ session[s].status = "up" /\ Alive(s)
      /\ session \in [Sessions -> SessionRecords]
      /\ mailbox' = [mailbox EXCEPT ![s] = Append(@, m)]
      /\ UNCHANGED <<route, conns, reports, down, sent, got, faults>>
  BY Types DEF RetryTimerFires, Alive
<1>2. m \in Messages /\ m.type = "connect"
  BY DEF Messages, MessageTypes, Message
<1> HIDE DEF m
<1>3. CASE session' = [session EXCEPT ![s].timer = FALSE]
  <2> DEFINE st == [session[s] EXCEPT !.timer = FALSE]
  <2>1. session' = [session EXCEPT ![s] = st]
    BY <1>1, <1>3
  <2>2. /\ st \in SessionRecords /\ st.status = "up" /\ st.epoch = session[s].epoch
        /\ st.buffer = session[s].buffer /\ st.armed = session[s].armed
    BY <1>1 DEF SessionRecords
  <2> HIDE DEF st
  <2>3. QED
    BY <1>1, <1>2, <2>1, <2>2, Arrives
<1>4. CASE session[s].strays > 0 /\ session' = [session EXCEPT ![s].strays = @ - 1]
  <2>1. PICK k \in Nat : k = session[s].strays - 1
    BY <1>1, <1>4 DEF SessionRecords
  <2> DEFINE st == [session[s] EXCEPT !.strays = k]
  <2>2. session' = [session EXCEPT ![s] = st]
    BY <1>1, <1>4, <2>1
  <2>3. /\ st \in SessionRecords /\ st.status = "up" /\ st.epoch = session[s].epoch
        /\ st.buffer = session[s].buffer /\ st.armed = session[s].armed
    BY <1>1 DEF SessionRecords
  <2> HIDE DEF st
  <2>4. QED
    BY <1>1, <1>2, <2>2, <2>3, Arrives
<1>5. QED
  BY <1>3, <1>4 DEF RetryTimerFires

\* What the guest does reaches the session.
LEMMA GuestStep ==
    ASSUME ProxyInv, NEW s \in Sessions,
           GuestSends(s) \/ GuestCloses(s) \/ ConnectionBreaks(s)
    PROVE  ProxyInv'
<1>1. PICK c \in conns[s], type \in {"guest", "closed", "broken"} : Deliver(s, type, c.id)
  BY DEF GuestSends, GuestCloses, ConnectionBreaks
<1>2. UNCHANGED <<route, session, conns, reports, down, got, faults, sent>>
  BY DEF GuestSends, GuestCloses, ConnectionBreaks
<1>3. /\ session \in [Sessions -> SessionRecords] /\ session[s] \in SessionRecords
      /\ conns[s] \subseteq [id : Ids, endpoint : Epochs]
  BY Types
<1>4. c.id \in Nat
  <2>1. c.id \in Ids
    BY <1>3
  <2>2. QED
    BY <2>1, Numbers
<1>5. PICK m \in Messages : m = Message(type, c.id)
  BY <1>4 DEF Messages, MessageTypes, Message
<1>6. m.type \notin {"data", "route_endpoint"} /\ mailbox' = [mailbox EXCEPT ![s] = Append(@, m)]
  BY <1>1, <1>5 DEF Deliver, Message
<1>7. PICK st \in SessionRecords : st = session[s]
  BY <1>3
<1>8. /\ session' = [session EXCEPT ![s] = st] /\ st.status \in {session[s].status, "up"}
      /\ st.epoch = session[s].epoch /\ st.buffer = session[s].buffer
      /\ st.armed = session[s].armed
  BY <1>2, <1>3, <1>7
<1>9. Alive(s)
  BY <1>1 DEF ProxyInv, SessionOK, KnownOK
<1>10. QED
  BY <1>2, <1>6, <1>7, <1>8, <1>9, Arrives

LEMMA LastInRange ==
    ASSUME NEW g \in Seq(Chunks), LastOf(g) # 0
    PROVE  LastOf(g) \in Range(g)
<1>1. g # <<>> /\ LastOf(g) = g[Len(g)]
  BY DEF LastOf
<1>2. Len(g) \in 1..Len(g)
  BY <1>1, EmptySeq
<1>3. \A i \in 1..Len(g) : g[i] \in Range(g)
  BY SeqRange
<1>4. QED
  BY <1>1, <1>2, <1>3

\* The client's next chunk: what the session read before is delivered.
LEMMA ClientSendsStep ==
    ASSUME ProxyInv, NEW s \in Sessions, ClientSends(s)
    PROVE  ProxyInv'
<1>1. /\ session[s].status = "up" /\ session[s].armed /\ sent[s] < MaxChunks
      /\ ~Queued(s, "data", sent[s])
      /\ sent' = [sent EXCEPT ![s] = @ + 1]
      /\ mailbox' = [mailbox EXCEPT ![s] = Append(@, Message("data", sent[s] + 1))]
      /\ UNCHANGED <<route, session, conns, reports, down, got, faults>>
  BY DEF ClientSends, Deliver
<1>2. /\ session[s] \in SessionRecords /\ mailbox \in [Sessions -> Seq(Messages)]
      /\ mailbox[s] \in Seq(Messages) /\ got[s] \in Seq(Chunks)
      /\ sent \in [Sessions -> 0..MaxChunks] /\ sent[s] \in 0..MaxChunks
      /\ route.epoch \in Epochs
  BY Types
<1>3. /\ sent[s] \in Nat /\ sent[s] + 1 \in 0..MaxChunks /\ session[s].epoch \in Nat
      /\ route.epoch \in Nat
  <2>1. sent[s] \in Nat /\ sent[s] + 1 \in 0..MaxChunks
    BY <1>1, <1>2, Numbers
  <2>2. session[s].epoch \in Epochs
    BY <1>2 DEF SessionRecords
  <2>3. QED
    BY <1>2, <2>1, <2>2, Numbers
<1>4. KnownOK(s) /\ EpochOK(s) /\ ReportOK(s) /\ DeliveredOK(s) /\ InOrder(got[s])
  BY DEF ProxyInv, SessionOK
<1>5. session[s].buffer = <<>>
  BY <1>1, <1>4 DEF DeliveredOK
<1>6. \A x \in Range(mailbox[s]) : x.type # "data"
  <2>1. ASSUME NEW x \in Range(mailbox[s]), x.type = "data" PROVE FALSE
    <3>1. PICK i \in 1..Len(mailbox[s]) : mailbox[s][i] = x
      BY <1>2, SeqIndex
    <3>2. x.arg = sent[s]
      BY <1>1, <1>4, <2>1, <3>1 DEF DeliveredOK, OneRead
    <3>3. x \in Messages
      BY <1>2, <2>1, SeqRange
    <3>4. x = Message("data", sent[s])
      BY <2>1, <3>2, <3>3 DEF Messages, Message
    <3>5. QED
      BY <1>1, <3>4 DEF Queued
  <2>2. QED
    BY <2>1
<1>7. LastOf(got[s]) = sent[s] /\ \A n \in 1..sent[s] : n < sent[s] => n \in Range(got[s])
  <2>1. ~InMailbox(s, "data")
    BY <1>6 DEF InMailbox
  <2>2. ~Holds(s)
    BY <1>5, <2>1 DEF Holds
  <2>3. QED
    BY <1>1, <1>4, <2>2 DEF DeliveredOK
<1>8. PICK m \in Messages : m = Message("data", sent[s] + 1)
  <2>1. PICK next \in Nat : next = sent[s] + 1
    BY <1>3
  <2>2. QED
    BY <2>1 DEF Messages, MessageTypes, Message
<1>9. m.type = "data" /\ m.arg = sent[s] + 1
  BY <1>8 DEF Message
<1>10. /\ Append(mailbox[s], m) \in Seq(Messages)
       /\ Range(Append(mailbox[s], m)) = Range(mailbox[s]) \cup {m}
  BY <1>2, AppendRange
<1>11. /\ mailbox' \in [Sessions -> Seq(Messages)] /\ mailbox'[s] = Append(mailbox[s], m)
       /\ \A r \in Sessions : r # s => mailbox'[r] = mailbox[r]
  BY <1>1, <1>2, <1>8, <1>10
<1>12. /\ sent' \in [Sessions -> 0..MaxChunks] /\ sent'[s] = sent[s] + 1
       /\ \A r \in Sessions : r # s => sent'[r] = sent[r]
  BY <1>1, <1>2, <1>3
<1>13. OneRead(mailbox'[s], sent'[s])
  <2>1. OneRead(Append(mailbox[s], m), m.arg)
    BY <1>2, <1>6, <1>9, MailChunk
  <2>2. QED
    BY <1>9, <1>11, <1>12, <2>1
<1>14. Announces(mailbox'[s], session[s].epoch, route.epoch)
  BY <1>2, <1>3, <1>4, <1>9, <1>11, MailOther DEF EpochOK
<1>15. Apart(s) /\ OwnConns(s)
  BY <1>1, <1>11, <1>12, Disconnected DEF Apart
<1>16. DeliveredOK(s)'
  <2>1. InMailbox(s, "data")'
    BY <1>9, <1>10, <1>11 DEF InMailbox
  <2>2. Holds(s)'
    BY <2>1 DEF Holds
  <2>3. \A n \in 1..sent'[s] : n < sent'[s] => n \in Range(got[s])
    <3>1. ASSUME NEW n \in 1..sent'[s], n < sent'[s] PROVE n \in Range(got[s])
      <4>1. n \in 1..sent[s]
        BY <1>3, <1>12, <3>1
      <4>2. CASE n < sent[s]
        BY <1>7, <4>1, <4>2
      <4>3. CASE n = sent[s]
        <5>1. LastOf(got[s]) # 0 /\ LastOf(got[s]) = n
          BY <1>7, <4>1, <4>3
        <5>2. QED
          BY <1>2, <5>1, LastInRange
      <4>4. QED
        BY <1>3, <4>1, <4>2, <4>3
    <3>2. QED
      BY <3>1
  <2>4. sent'[s] # 0 /\ LastOf(got[s]) + 1 = sent'[s]
    BY <1>3, <1>7, <1>12
  <2>5. session' = session /\ got' = got
    BY <1>1
  <2>6. QED
    BY <1>5, <1>13, <2>2, <2>3, <2>4, <2>5 DEF DeliveredOK
<1>17. KnownOK(s)' /\ InOrder(got'[s])
  BY <1>1, <1>4 DEF KnownOK, Alive
<1>18. EpochOK(s)'
  BY <1>1, <1>4, <1>10, <1>11, <1>14 DEF EpochOK, Alive, Queued
<1>19. ReportOK(s)'
  BY <1>1, <1>4, <1>10, <1>11 DEF ReportOK, Alive, WillConnect, InMailbox
<1>20. QED
  BY <1>1, <1>11, <1>12, <1>15, <1>16, <1>17, <1>18, <1>19, Types, SessionMoves

LEMMA ClientClosesStep ==
    ASSUME ProxyInv, NEW s \in Sessions, ClientCloses(s)
    PROVE  ProxyInv'
<1>1. /\ session[s].status = "up" /\ Stop(s)
      /\ UNCHANGED <<route, reports, down, sent, got, faults>>
  BY DEF ClientCloses
<1>2. QED
  BY <1>1, Types, StopStep

-----------------------------------------------------------------------------
(* The manager.                                                            *)

LEMMA RouteMoves ==
    ASSUME ProxyInv,
           route' \in [phase : {"active", "cutover", "reconnecting"}, epoch : Epochs,
                       sessions : SUBSET Sessions, pending : SUBSET Sessions],
           session' \in [Sessions -> SessionRecords],
           mailbox' \in [Sessions -> Seq(Messages)],
           reports' \subseteq reports, down' \subseteq Epochs,
           UNCHANGED <<conns, sent, got, faults>>,
           PendingCounted', \A r \in Sessions : SessionOK(r)'
    PROVE  ProxyInv'
<1>1. reports \subseteq Sessions \X Epochs
  BY Types
<1>2. reports' \subseteq Sessions \X Epochs
  BY <1>1
<1>3. ProxyTypeOK'
  BY <1>2 DEF ProxyInv, ProxyTypeOK, SessionRecords, Messages, MessageTypes
<1>4. QED
  BY <1>3 DEF ProxyInv

LEMMA RegisterSessionStep ==
    ASSUME ProxyInv, NEW s \in Sessions, RegisterSession(s)
    PROVE  ProxyInv'
<1>1. /\ session[s].status = "absent"
      /\ route' = [route EXCEPT !.sessions = route.sessions \cup {s},
                      !.pending = IF route.phase = "reconnecting" THEN route.pending \cup {s}
                                                                 ELSE route.pending]
      /\ session' = [session EXCEPT ![s] = [session[s] EXCEPT !.status = "registering",
                                                              !.epoch = route.epoch]]
      /\ UNCHANGED <<mailbox, conns, reports, down, sent, got, faults>>
  BY DEF RegisterSession
<1>2. /\ route \in [phase : {"active", "cutover", "reconnecting"}, epoch : Epochs,
                    sessions : SUBSET Sessions, pending : SUBSET Sessions]
      /\ session \in [Sessions -> SessionRecords] /\ session[s] \in SessionRecords
      /\ mailbox \in [Sessions -> Seq(Messages)] /\ down \subseteq Epochs
      /\ route.epoch \in Epochs
  BY Types
<1> DEFINE st == [session[s] EXCEPT !.status = "registering", !.epoch = route.epoch]
<1>3. /\ st \in SessionRecords /\ st.status = "registering" /\ st.epoch = route.epoch
      /\ st.buffer = session[s].buffer /\ st.armed = session[s].armed
  BY <1>2 DEF SessionRecords
<1>4. session' = [session EXCEPT ![s] = st]
  BY <1>1
<1> HIDE DEF st
<1>5. /\ session' \in [Sessions -> SessionRecords] /\ session'[s] = st
      /\ \A r \in Sessions : r # s => session'[r] = session[r]
  BY <1>2, <1>3, <1>4
<1>6. PICK waiting \in SUBSET Sessions :
         waiting = IF route.phase = "reconnecting" THEN route.pending \cup {s} ELSE route.pending
  BY <1>2
<1>7. route' = [route EXCEPT !.sessions = route.sessions \cup {s}, !.pending = waiting]
  BY <1>1, <1>6
<1>8. /\ route' \in [phase : {"active", "cutover", "reconnecting"}, epoch : Epochs,
                     sessions : SUBSET Sessions, pending : SUBSET Sessions]
      /\ route'.phase = route.phase /\ route'.epoch = route.epoch
      /\ route'.sessions = route.sessions \cup {s} /\ route'.pending = waiting
  BY <1>2, <1>7
<1>9. PendingCounted'
  <2>1. PendingCounted
    BY DEF ProxyInv
  <2>2. CASE route.phase = "reconnecting"
    BY <1>6, <1>8, <2>1, <2>2 DEF PendingCounted
  <2>3. CASE route.phase # "reconnecting"
    BY <1>6, <1>8, <2>1, <2>3 DEF PendingCounted
  <2>4. QED
    BY <2>2, <2>3
<1>10. ASSUME NEW r \in Sessions, r # s PROVE SessionOK(r)'
  <2>1. /\ session'[r] = session[r] /\ SessionOK(r)
        /\ r \in route'.sessions <=> r \in route.sessions
        /\ r \in route'.pending => r \in route.pending
    BY <1>5, <1>6, <1>8, <1>10 DEF ProxyInv
  <2>2. QED
    BY <1>1, <1>8, <2>1, Stays
<1>11. SessionOK(s)'
  <2>1. KnownOK(s) /\ DeliveredOK(s) /\ InOrder(got[s])
    BY DEF ProxyInv, SessionOK
  <2>2. /\ session[s] = Absent /\ mailbox[s] = <<>>
    BY <1>1, <2>1 DEF KnownOK
  <2>3. st.buffer = <<>>
    BY <1>3, <2>2, AbsentTyped
  <2>4. KnownOK(s)'
    BY <1>3, <1>5, <1>8, <2>3 DEF KnownOK, Alive
  <2>5. EpochOK(s)'
    <3>1. Len(mailbox'[s]) = 0
      BY <1>1, <2>2
    <3>2. Announces(mailbox'[s], session'[s].epoch, route'.epoch)
      BY <3>1 DEF Announces
    <3>3. route.epoch \in Nat /\ route.epoch <= route.epoch
      <4>1. route.epoch \in Nat
        BY <1>2, Numbers
      <4>2. QED
        BY <4>1
    <3>4. QED
      BY <1>3, <1>5, <1>8, <3>2, <3>3 DEF EpochOK
  <2>6. ReportOK(s)'
    BY <1>3, <1>5 DEF ReportOK, WillConnect
  <2>7. DeliveredOK(s)' /\ InOrder(got'[s])
    <3>1. session[s].status # "gone" /\ (InMailbox(s, "data") <=> InMailbox(s, "data")')
      BY <1>1 DEF InMailbox
    <3>2. OneRead(mailbox'[s], sent[s])
      BY <1>1, <2>1, <3>1 DEF DeliveredOK
    <3>3. /\ session'[s].buffer = session[s].buffer /\ session'[s].armed = session[s].armed
          /\ sent'[s] = sent[s] /\ got'[s] = got[s]
      BY <1>1, <1>3, <1>5
    <3>4. QED
      BY <3>1, <3>2, <3>3, DataStays
  <2>8. QED
    BY <2>4, <2>5, <2>6, <2>7 DEF SessionOK
<1>12. QED
  BY <1>1, <1>2, <1>5, <1>8, <1>9, <1>10, <1>11, RouteMoves

\* What a broadcast leaves in the mailboxes.
LEMMA Broadcasts ==
    ASSUME ProxyInv, NEW m \in Messages, Broadcast(m)
    PROVE  /\ mailbox' \in [Sessions -> Seq(Messages)]
           /\ \A r \in Sessions :
                 /\ mailbox[r] \in Seq(Messages)
                 /\ r \in route.sessions /\ session[r].status # "gone" =>
                       /\ mailbox'[r] = Append(mailbox[r], m)
                       /\ Range(mailbox'[r]) = Range(mailbox[r]) \cup {m}
                 /\ ~(r \in route.sessions /\ session[r].status # "gone") =>
                       mailbox'[r] = mailbox[r]
<1>1. mailbox \in [Sessions -> Seq(Messages)] /\ \A r \in Sessions : mailbox[r] \in Seq(Messages)
  BY Types
<1>2. \A r \in Sessions : /\ Append(mailbox[r], m) \in Seq(Messages)
                          /\ Range(Append(mailbox[r], m)) = Range(mailbox[r]) \cup {m}
  BY <1>1, AppendRange
<1>3. QED
  BY <1>1, <1>2 DEF Broadcast

LEMMA BeginCutoverStep ==
    ASSUME ProxyInv, BeginCutover
    PROVE  ProxyInv'
<1>1. /\ route.phase = "active" /\ route' = [route EXCEPT !.phase = "cutover"]
      /\ Broadcast(Message("begin_cutover", route.epoch))
      /\ UNCHANGED <<session, conns, reports, down, sent, got, faults>>
  BY DEF BeginCutover
<1>2. /\ route \in [phase : {"active", "cutover", "reconnecting"}, epoch : Epochs,
                    sessions : SUBSET Sessions, pending : SUBSET Sessions]
      /\ session \in [Sessions -> SessionRecords] /\ down \subseteq Epochs
      /\ route.epoch \in Nat /\ sent \in [Sessions -> 0..MaxChunks]
  BY Types, Numbers
<1>3. PICK m \in Messages : m = Message("begin_cutover", route.epoch)
  BY <1>2 DEF Messages, MessageTypes, Message
<1>4. m.type = "begin_cutover" /\ Broadcast(m)
  BY <1>1, <1>3 DEF Message
<1>5. /\ route' \in [phase : {"active", "cutover", "reconnecting"}, epoch : Epochs,
                     sessions : SUBSET Sessions, pending : SUBSET Sessions]
      /\ route'.phase = "cutover" /\ route'.epoch = route.epoch
      /\ route'.sessions = route.sessions /\ route'.pending = route.pending
  BY <1>1, <1>2
<1>6. PendingCounted'
  BY <1>1, <1>5 DEF ProxyInv, PendingCounted
<1>7. ASSUME NEW r \in Sessions PROVE SessionOK(r)'
  <2>1. SessionOK(r) /\ KnownOK(r) /\ EpochOK(r) /\ ReportOK(r) /\ DeliveredOK(r) /\ InOrder(got[r])
    BY DEF ProxyInv, SessionOK
  <2>2. CASE r \in route.sessions /\ session[r].status # "gone"
    <3>1. /\ mailbox[r] \in Seq(Messages) /\ mailbox'[r] = Append(mailbox[r], m)
          /\ Range(mailbox'[r]) = Range(mailbox[r]) \cup {m}
      BY <1>4, <2>2, Broadcasts
    <3>2. session[r].epoch \in Nat /\ sent[r] \in Nat
      <4>1. session[r].epoch \in Epochs /\ sent[r] \in 0..MaxChunks
        BY <1>2 DEF SessionRecords
      <4>2. QED
        BY <4>1, Numbers
    <3>3. /\ Announces(mailbox'[r], session[r].epoch, route.epoch)
          /\ OneRead(mailbox'[r], sent[r])
      BY <1>2, <1>4, <2>1, <2>2, <3>1, <3>2, MailOther DEF EpochOK, DeliveredOK
    <3>4. InMailbox(r, "data") <=> InMailbox(r, "data")'
      BY <1>4, <3>1 DEF InMailbox
    <3>5. KnownOK(r)'
      BY <1>1, <1>5, <2>1, <2>2 DEF KnownOK, Alive
    <3>6. EpochOK(r)'
      BY <1>1, <1>5, <2>1, <3>1, <3>3 DEF EpochOK, Alive, Queued
    <3>7. ReportOK(r)'
      BY <1>1, <1>5, <2>1, <3>1 DEF ReportOK, Alive, WillConnect, InMailbox
    <3>8. DeliveredOK(r)' /\ InOrder(got'[r])
      <4>1. /\ session'[r].buffer = session[r].buffer /\ session'[r].armed = session[r].armed
            /\ sent'[r] = sent[r] /\ got'[r] = got[r]
        BY <1>1
      <4>2. QED
        BY <2>2, <3>3, <3>4, <4>1, DataStays
    <3>9. QED
      BY <3>5, <3>6, <3>7, <3>8 DEF SessionOK
  <2>3. CASE ~(r \in route.sessions /\ session[r].status # "gone")
    <3>1. mailbox'[r] = mailbox[r]
      BY <1>4, <2>3, Broadcasts
    <3>2. QED
      BY <1>1, <1>5, <2>1, <3>1, Stays
  <2>4. QED
    BY <2>2, <2>3
<1>8. mailbox' \in [Sessions -> Seq(Messages)]
  BY <1>4, Broadcasts
<1>9. QED
  BY <1>1, <1>2, <1>5, <1>6, <1>7, <1>8, RouteMoves

\* The route moves on: every session that lives is told of the new endpoint.
LEMMA UpdateEndpointStep ==
    ASSUME ProxyInv, UpdateEndpoint
    PROVE  ProxyInv'
<1>1. /\ route.phase = "cutover" /\ route.epoch < MaxEpoch
      /\ route' = [route EXCEPT !.epoch = route.epoch + 1, !.pending = route.sessions,
                                !.phase = PhaseForPending(route.sessions)]
      /\ Broadcast(Message("route_endpoint", route.epoch + 1))
      /\ UNCHANGED <<session, conns, reports, down, sent, got, faults>>
  BY DEF UpdateEndpoint
<1>2. /\ route \in [phase : {"active", "cutover", "reconnecting"}, epoch : Epochs,
                    sessions : SUBSET Sessions, pending : SUBSET Sessions]
      /\ session \in [Sessions -> SessionRecords] /\ down \subseteq Epochs
      /\ route.epoch \in Epochs /\ sent \in [Sessions -> 0..MaxChunks]
  BY Types
<1>3. route.epoch \in Nat /\ route.epoch + 1 \in Epochs
  BY <1>1, <1>2, ProxyBounds DEF Epochs
<1>4. PICK m \in Messages : m = Message("route_endpoint", route.epoch + 1)
  <2>1. PICK next \in Nat : next = route.epoch + 1
    BY <1>3
  <2>2. QED
    BY <2>1 DEF Messages, MessageTypes, Message
<1>5. m.type = "route_endpoint" /\ m.arg = route.epoch + 1 /\ Broadcast(m)
  BY <1>1, <1>4 DEF Message
<1>6. PICK phase \in {"active", "cutover", "reconnecting"} :
         phase = PhaseForPending(route.sessions)
  BY DEF PhaseForPending
<1>7. /\ route' \in [phase : {"active", "cutover", "reconnecting"}, epoch : Epochs,
                     sessions : SUBSET Sessions, pending : SUBSET Sessions]
      /\ route'.phase = phase /\ route'.epoch = route.epoch + 1
      /\ route'.sessions = route.sessions /\ route'.pending = route.sessions
  BY <1>1, <1>2, <1>3, <1>6
<1>8. PendingCounted'
  BY <1>6, <1>7 DEF PendingCounted, PhaseForPending
<1>9. ASSUME NEW r \in Sessions PROVE SessionOK(r)'
  <2>1. KnownOK(r) /\ EpochOK(r) /\ DeliveredOK(r) /\ InOrder(got[r])
    BY DEF ProxyInv, SessionOK
  <2>2. session[r].epoch \in Nat
    <3>1. session[r].epoch \in Epochs
      BY <1>2 DEF SessionRecords
    <3>2. QED
      BY <3>1, Numbers
  <2>3. CASE r \in route.sessions /\ session[r].status # "gone"
    <3>1. /\ mailbox[r] \in Seq(Messages) /\ mailbox'[r] = Append(mailbox[r], m)
          /\ Range(mailbox'[r]) = Range(mailbox[r]) \cup {m}
      BY <1>5, <2>3, Broadcasts
    <3>2. Alive(r)
      <4>1. session[r].status # "absent" /\ session[r].status \in {"absent", "registering", "up", "gone"}
        BY <1>2, <2>1, <2>3 DEF KnownOK, SessionRecords
      <4>2. QED
        BY <2>3, <4>1 DEF Alive
    <3>3. sent[r] \in Nat
      <4>1. sent[r] \in 0..MaxChunks
        BY <1>2
      <4>2. QED
        BY <4>1, Numbers
    <3>4. Announces(mailbox'[r], session[r].epoch, route'.epoch)
      <4>1. /\ Announces(mailbox[r], session[r].epoch, route.epoch)
            /\ session[r].epoch <= route.epoch
        BY <2>1, <3>2 DEF EpochOK
      <4>2. QED
        BY <1>3, <1>5, <1>7, <2>2, <3>1, <4>1, MailEndpoint
    <3>5. OneRead(mailbox'[r], sent[r])
      BY <1>3, <1>5, <2>1, <2>2, <2>3, <3>1, <3>3, MailOther DEF DeliveredOK
    <3>6. InMailbox(r, "data") <=> InMailbox(r, "data")'
      BY <1>5, <3>1 DEF InMailbox
    <3>7. KnownOK(r)'
      BY <1>1, <1>7, <2>1, <2>3 DEF KnownOK, Alive
    <3>8. EpochOK(r)'
      <4>1. Message("route_endpoint", route'.epoch) \in Range(mailbox'[r])
        BY <1>4, <1>7, <3>1
      <4>2. session[r].epoch <= route.epoch
        BY <2>1, <3>2 DEF EpochOK
      <4>3. session[r].epoch <= route'.epoch
        BY <1>3, <1>7, <2>2, <4>2
      <4>4. session' = session
        BY <1>1
      <4>5. QED
        BY <3>4, <4>1, <4>3, <4>4 DEF EpochOK, Alive, Queued
    <3>9. ReportOK(r)'
      <4>1. InMailbox(r, "route_endpoint")'
        BY <1>5, <3>1 DEF InMailbox
      <4>2. QED
        BY <4>1 DEF ReportOK
    <3>10. DeliveredOK(r)' /\ InOrder(got'[r])
      <4>1. /\ session'[r].buffer = session[r].buffer /\ session'[r].armed = session[r].armed
            /\ sent'[r] = sent[r] /\ got'[r] = got[r]
        BY <1>1
      <4>2. QED
        BY <2>3, <3>5, <3>6, <4>1, DataStays
    <3>11. QED
      BY <3>7, <3>8, <3>9, <3>10 DEF SessionOK
  <2>4. CASE ~(r \in route.sessions /\ session[r].status # "gone")
    <3>1. mailbox'[r] = mailbox[r] /\ session' = session /\ sent' = sent /\ got' = got
      BY <1>1, <1>5, <2>4, Broadcasts
    <3>2. ~Alive(r)
      BY <2>1, <2>4 DEF KnownOK, Alive
    <3>3. ~Alive(r)'
      BY <3>1, <3>2 DEF Alive
    <3>4. KnownOK(r)'
      BY <1>1, <1>7, <2>1, <3>1, <3>2 DEF KnownOK, Alive
    <3>5. Announces(mailbox[r], session[r].epoch, route.epoch + 1)
      <4>1. \A i \in 1..Len(mailbox[r]) : mailbox[r][i].arg \in Nat
        <5>1. mailbox[r] \in Seq(Messages)
          BY <1>5, Broadcasts
        <5>2. \A i \in 1..Len(mailbox[r]) : mailbox[r][i] \in Messages
          BY <5>1
        <5>3. QED
          BY <5>2 DEF Messages
      <4>2. QED
        BY <1>3, <2>1, <4>1 DEF EpochOK, Announces
    <3>6. EpochOK(r)' /\ ReportOK(r)'
      BY <1>7, <3>1, <3>3, <3>5 DEF EpochOK, ReportOK
    <3>7. DeliveredOK(r)' /\ InOrder(got'[r])
      BY <2>1, <3>1 DEF DeliveredOK, InMailbox, Holds
    <3>8. QED
      BY <3>4, <3>6, <3>7 DEF SessionOK
  <2>5. QED
    BY <2>3, <2>4
<1>10. mailbox' \in [Sessions -> Seq(Messages)]
  BY <1>5, Broadcasts
<1>11. QED
  BY <1>1, <1>2, <1>7, <1>8, <1>9, <1>10, RouteMoves

LEMMA SessionConnectedStep ==
    ASSUME ProxyInv, NEW s \in Sessions, NEW e \in Epochs, SessionConnected(s, e)
    PROVE  ProxyInv'
<1>1. /\ reports' = reports \ {<<s, e>>}
      /\ UNCHANGED <<session, mailbox, conns, down, sent, got, faults>>
  BY DEF SessionConnected
<1>2. /\ route \in [phase : {"active", "cutover", "reconnecting"}, epoch : Epochs,
                    sessions : SUBSET Sessions, pending : SUBSET Sessions]
      /\ session \in [Sessions -> SessionRecords] /\ mailbox \in [Sessions -> Seq(Messages)]
      /\ down \subseteq Epochs /\ PendingCounted
  BY Types DEF ProxyInv
<1>3. CASE route.phase = "reconnecting" /\ e = route.epoch
  <2>1. PICK left \in SUBSET Sessions : left = route.pending \ {s}
    BY <1>2
  <2>2. PICK phase \in {"active", "cutover", "reconnecting"} : phase = PhaseForPending(left)
    BY DEF PhaseForPending
  <2>3. route' = [route EXCEPT !.pending = left, !.phase = phase]
    BY <1>3, <2>1, <2>2 DEF SessionConnected
  <2>4. /\ route' \in [phase : {"active", "cutover", "reconnecting"}, epoch : Epochs,
                       sessions : SUBSET Sessions, pending : SUBSET Sessions]
        /\ route'.phase = phase /\ route'.epoch = route.epoch
        /\ route'.sessions = route.sessions /\ route'.pending = left
    BY <1>2, <2>3
  <2>5. PendingCounted'
    BY <1>2, <2>1, <2>2, <2>4 DEF PendingCounted, PhaseForPending
  <2>6. ASSUME NEW r \in Sessions PROVE SessionOK(r)'
    <3>1. SessionOK(r)
      BY DEF ProxyInv
    <3>2. r \in route'.pending =>
            /\ r \in route.pending
            /\ <<r, route.epoch>> \in reports => <<r, route.epoch>> \in reports'
      BY <1>1, <2>1, <2>4
    <3>3. QED
      BY <1>1, <2>4, <3>1, <3>2, Stays
  <2>7. reports' \subseteq reports
    BY <1>1
  <2>8. QED
    BY <1>1, <1>2, <2>4, <2>5, <2>6, <2>7, RouteMoves
<1>4. CASE ~(route.phase = "reconnecting" /\ e = route.epoch)
  <2>1. route' = route
    BY <1>4 DEF SessionConnected
  <2>2. PendingCounted'
    BY <1>2, <2>1 DEF PendingCounted
  <2>3. ASSUME NEW r \in Sessions PROVE SessionOK(r)'
    <3>1. SessionOK(r)
      BY DEF ProxyInv
    <3>2. r \in route.pending => route.phase = "reconnecting"
      BY <1>2 DEF PendingCounted
    <3>3. r \in route'.pending =>
            /\ r \in route.pending
            /\ <<r, route.epoch>> \in reports => <<r, route.epoch>> \in reports'
      BY <1>1, <1>4, <2>1, <3>2
    <3>4. QED
      BY <1>1, <2>1, <3>1, <3>3, Stays
  <2>4. reports' \subseteq reports
    BY <1>1
  <2>5. QED
    BY <1>1, <1>2, <2>1, <2>2, <2>3, <2>4, RouteMoves
<1>5. QED
  BY <1>3, <1>4

LEMMA UnregisterSessionStep ==
    ASSUME ProxyInv, NEW s \in Sessions, UnregisterSession(s)
    PROVE  ProxyInv'
<1>1. /\ session[s].status = "gone"
      /\ UNCHANGED <<session, mailbox, conns, reports, down, sent, got, faults>>
  BY DEF UnregisterSession
<1>2. /\ route \in [phase : {"active", "cutover", "reconnecting"}, epoch : Epochs,
                    sessions : SUBSET Sessions, pending : SUBSET Sessions]
      /\ session \in [Sessions -> SessionRecords] /\ mailbox \in [Sessions -> Seq(Messages)]
      /\ down \subseteq Epochs /\ PendingCounted
  BY Types DEF ProxyInv
<1>3. PICK left \in SUBSET Sessions : left = route.pending \ {s}
  BY <1>2
<1>4. PICK phase \in {"active", "cutover", "reconnecting"} :
         phase = IF route.phase = "reconnecting" THEN PhaseForPending(left) ELSE route.phase
  BY <1>2 DEF PhaseForPending
<1>5. route' = [route EXCEPT !.sessions = route.sessions \ {s}, !.pending = left, !.phase = phase]
  BY <1>3, <1>4 DEF UnregisterSession
<1>6. /\ route' \in [phase : {"active", "cutover", "reconnecting"}, epoch : Epochs,
                     sessions : SUBSET Sessions, pending : SUBSET Sessions]
      /\ route'.phase = phase /\ route'.epoch = route.epoch
      /\ route'.sessions = route.sessions \ {s} /\ route'.pending = left
  BY <1>2, <1>5
<1>7. PendingCounted'
  BY <1>2, <1>3, <1>4, <1>6 DEF PendingCounted, PhaseForPending
<1>8. ASSUME NEW r \in Sessions PROVE SessionOK(r)'
  <2>1. SessionOK(r) /\ KnownOK(r) /\ EpochOK(r) /\ DeliveredOK(r) /\ InOrder(got[r])
    BY DEF ProxyInv, SessionOK
  <2>2. CASE r # s
    <3>1. /\ r \in route'.sessions <=> r \in route.sessions
          /\ r \in route'.pending =>
                /\ r \in route.pending
                /\ <<r, route.epoch>> \in reports => <<r, route.epoch>> \in reports'
      BY <1>1, <1>3, <1>6, <2>2
    <3>2. QED
      BY <1>1, <1>6, <2>1, <3>1, Stays
  <2>3. CASE r = s
    <3>1. KnownOK(r)' /\ EpochOK(r)' /\ ReportOK(r)' /\ DeliveredOK(r)' /\ InOrder(got'[r])
      BY <1>1, <1>6, <2>1, <2>3 DEF KnownOK, EpochOK, ReportOK, DeliveredOK, Alive
    <3>2. QED
      BY <3>1 DEF SessionOK
  <2>4. QED
    BY <2>2, <2>3
<1>9. QED
  BY <1>1, <1>2, <1>6, <1>7, <1>8, RouteMoves

LEMMA FenceEndpointStep ==
    ASSUME ProxyInv, NEW e \in Epochs, FenceEndpoint(e)
    PROVE  ProxyInv'
<1>1. /\ down' = down \cup {e}
      /\ UNCHANGED <<route, session, mailbox, conns, reports, sent, got, faults>>
  BY DEF FenceEndpoint
<1>2. PendingCounted'
  BY <1>1 DEF ProxyInv, PendingCounted
<1>3. ASSUME NEW r \in Sessions PROVE SessionOK(r)'
  BY <1>1, Stays DEF ProxyInv
<1>4. QED
  BY <1>1, <1>2, <1>3, Types, RouteMoves

LEMMA StutterStep ==
    ASSUME ProxyInv, UNCHANGED proxyVars
    PROVE  ProxyInv'
<1>1. UNCHANGED <<route, session, mailbox, conns, reports, down, sent, got, faults>>
  BY DEF proxyVars
<1>2. PendingCounted'
  BY <1>1 DEF ProxyInv, PendingCounted
<1>3. ASSUME NEW r \in Sessions PROVE SessionOK(r)'
  BY <1>1, Stays DEF ProxyInv
<1>4. QED
  BY <1>1, <1>2, <1>3, Types, RouteMoves

-----------------------------------------------------------------------------

LEMMA ProxyInvInit ==
    ASSUME ProxyInit
    PROVE  ProxyInv
<1>1. /\ route = [phase |-> "active", epoch |-> 1, sessions |-> {}, pending |-> {}]
      /\ session = [s \in Sessions |-> Absent] /\ mailbox = [s \in Sessions |-> <<>>]
      /\ conns = [s \in Sessions |-> {}] /\ reports = {} /\ down = {}
      /\ sent = [s \in Sessions |-> 0] /\ got = [s \in Sessions |-> <<>>] /\ faults = 0
  BY DEF ProxyInit
<1>2. route \in [phase : {"active", "cutover", "reconnecting"}, epoch : Epochs,
                 sessions : SUBSET Sessions, pending : SUBSET Sessions]
  BY <1>1, Numbers
<1>3. session \in [Sessions -> SessionRecords]
  BY <1>1, AbsentTyped
<1>4. /\ mailbox \in [Sessions -> Seq(Messages)] /\ got \in [Sessions -> Seq(Chunks)]
  <2>1. <<>> \in Seq(Messages) /\ <<>> \in Seq(Chunks)
    OBVIOUS
  <2>2. QED
    BY <1>1, <2>1
<1>5. /\ conns \in [Sessions -> SUBSET [id : Ids, endpoint : Epochs]]
      /\ reports \subseteq Sessions \X Epochs /\ down \subseteq Epochs
  BY <1>1
<1>6. sent \in [Sessions -> 0..MaxChunks] /\ faults \in 0..MaxFaults
  BY <1>1, Numbers
<1>7. ProxyTypeOK
  BY <1>2, <1>3, <1>4, <1>5, <1>6 DEF ProxyTypeOK, SessionRecords, Messages, MessageTypes
<1>8. PendingCounted
  BY <1>1 DEF PendingCounted
<1>9. ASSUME NEW s \in Sessions PROVE SessionOK(s)
  <2>1. /\ session[s] = Absent /\ session[s].status = "absent" /\ session[s].buffer = <<>>
        /\ mailbox[s] = <<>> /\ conns[s] = {} /\ sent[s] = 0 /\ got[s] = <<>>
        /\ Len(mailbox[s]) = 0 /\ Len(got[s]) = 0
    BY <1>1, AbsentTyped
  <2>2. ~Alive(s)
    BY <2>1 DEF Alive
  <2>3. KnownOK(s)
    BY <1>1, <2>1, <2>2 DEF KnownOK
  <2>4. EpochOK(s) /\ ReportOK(s)
    BY <2>1, <2>2 DEF EpochOK, ReportOK, Announces
  <2>5. ~Holds(s)
    <3>1. Range(mailbox[s]) = {}
      BY <2>1 DEF Range
    <3>2. QED
      BY <2>1, <3>1 DEF Holds, InMailbox
  <2>6. LastOf(got[s]) = sent[s] /\ OneRead(mailbox[s], sent[s])
    BY <2>1 DEF LastOf, OneRead
  <2>7. DeliveredOK(s)
    BY <2>1, <2>5, <2>6 DEF DeliveredOK
  <2>8. InOrder(got[s])
    BY <2>1 DEF InOrder
  <2>9. QED
    BY <2>3, <2>4, <2>7, <2>8 DEF SessionOK
<1>10. QED
  BY <1>7, <1>8, <1>9 DEF ProxyInv

LEMMA ProxyInvNext ==
    ASSUME ProxyInv, [ProxyNext]_proxyVars
    PROVE  ProxyInv'
<1>1. CASE BeginCutover
  BY <1>1, BeginCutoverStep
<1>2. CASE UpdateEndpoint
  BY <1>2, UpdateEndpointStep
<1>3. ASSUME NEW s \in Sessions,
             \/ RegisterSession(s) \/ RetryTimerFires(s) \/ UnregisterSession(s)
             \/ ClientSends(s) \/ ClientCloses(s)
             \/ GuestSends(s) \/ GuestCloses(s) \/ ConnectionBreaks(s)
      PROVE  ProxyInv'
  BY <1>3, RegisterSessionStep, RetryTimerFiresStep, UnregisterSessionStep,
     ClientSendsStep, ClientClosesStep, GuestStep
<1>4. ASSUME NEW s \in Sessions, SessionStep(s) PROVE ProxyInv'
  BY <1>4, InitializeSessionStep, HandleBeginCutoverStep, HandleRouteEndpointStep,
     ConnectFailsStep, ConnectSucceedsStep, FlushFailsStep, BufferDataStep, SendDataStep,
     SendFailsStep, HandleGuestDataStep, HandleEofStep DEF SessionStep
<1>5. ASSUME NEW s \in Sessions, NEW e \in Epochs, SessionConnected(s, e) PROVE ProxyInv'
  BY <1>5, SessionConnectedStep
<1>6. ASSUME NEW e \in Epochs, FenceEndpoint(e) PROVE ProxyInv'
  BY <1>6, FenceEndpointStep
<1>7. CASE UNCHANGED proxyVars
  BY <1>7, StutterStep
<1>8. QED
  BY <1>1, <1>2, <1>3, <1>4, <1>5, <1>6, <1>7 DEF ProxyNext

\* Every state of a route satisfies the inductive invariant.
THEOREM ProxyInvariant == ProxySpec => []ProxyInv
<1>1. ProxyInit => ProxyInv
  BY ProxyInvInit
<1>2. ProxyInv /\ [ProxyNext]_proxyVars => ProxyInv'
  BY ProxyInvNext
<1>3. QED
  BY <1>1, <1>2, PTL DEF ProxySpec

\* The state of the manager and its sessions always has its types (RouteState, State).
THEOREM ProxyTypes == ProxySpec => []ProxyTypeOK
<1>1. ProxyInv => ProxyTypeOK
  BY DEF ProxyInv
<1>2. QED
  BY <1>1, ProxyInvariant, PTL

\* A route is reconnecting exactly while a session it knows has not reported the current epoch
\* (RouteState.update_endpoint, session_connected, unregister_session).
THEOREM PendingIsCounted == ProxySpec => []PendingCounted
<1>1. ProxyInv => PendingCounted
  BY DEF ProxyInv
<1>2. QED
  BY <1>1, ProxyInvariant, PTL

\* Every living session has the route's epoch or will hear of it, however the manager's messages
\* and the session's start interleave (RouteManager.handle_call, Session.handle_continue).
THEOREM EverySessionFollows == ProxySpec => []NoSessionLeftBehind
<1>1. ProxyInv => NoSessionLeftBehind
  BY DEF ProxyInv, SessionOK, KnownOK, EpochOK, NoSessionLeftBehind
<1>2. QED
  BY <1>1, ProxyInvariant, PTL

\* A living session that the route waits for has a message, a timer or a report under way, so
\* no failure of its connection ends its attempts (Session.schedule_retry).
THEOREM PendingSessionIsOnItsWay == ProxySpec => []PendingWillReport
<1>1. ASSUME ProxyInv PROVE PendingWillReport
  <2>1. route.pending \subseteq Sessions
    BY <1>1, Types
  <2>2. QED
    BY <1>1, <2>1 DEF ProxyInv, SessionOK, ReportOK, PendingWillReport
<1>2. QED
  BY <1>1, ProxyInvariant, PTL

\* The client's data meets an empty buffer, so a buffer of one chunk is never exceeded
\* (Flow.handle_client_data, Transport.arm_client).
THEOREM BufferHoldsOneRead == ProxySpec => []BufferNeverOverflows
<1>1. ASSUME ProxyInv PROVE BufferNeverOverflows
  <2>1. ASSUME NEW s \in Sessions, InMailbox(s, "data") PROVE session[s].buffer = <<>>
    <3>1. CASE session[s].status # "gone"
      BY <1>1, <2>1, <3>1 DEF ProxyInv, SessionOK, DeliveredOK
    <3>2. CASE session[s].status = "gone"
      BY <1>1, <2>1, <3>2 DEF ProxyInv, SessionOK, KnownOK
    <3>3. QED
      BY <3>1, <3>2
  <2>2. QED
    BY <2>1 DEF BufferNeverOverflows
<1>2. QED
  BY <1>1, ProxyInvariant, PTL

\* What a client wrote reaches guests in its order, without a gap, through any number of
\* cutovers and failed sends (Flow.flush_buffer, Flow.handle_client_data).
THEOREM BytesArriveInOrder == ProxySpec => []ClientBytesInOrder
<1>1. ProxyInv => ClientBytesInOrder
  BY DEF ProxyInv, SessionOK, InOrder, ClientBytesInOrder
<1>2. QED
  BY <1>1, ProxyInvariant, PTL

\* A session that runs has delivered or still holds every chunk it read from its client.
THEOREM NothingIsDropped == ProxySpec => []NothingDropped
<1>1. ASSUME ProxyInv PROVE NothingDropped
  <2>1. ASSUME NEW s \in Sessions, session[s].status = "up", NEW n \in 1..sent[s]
        PROVE  n \in Range(got[s]) \cup Range(session[s].buffer) \/ Queued(s, "data", n)
    <3>1. /\ mailbox[s] \in Seq(Messages) /\ got[s] \in Seq(Chunks) /\ sent[s] \in 0..MaxChunks
      BY <1>1, Types
    <3>2. DeliveredOK(s)
      BY <1>1 DEF ProxyInv, SessionOK
    <3>3. sent[s] \in Nat
      BY <3>1, Numbers
    <3>4. CASE n < sent[s]
      BY <2>1, <3>2, <3>4 DEF DeliveredOK
    <3>5. CASE n = sent[s] /\ LastOf(got[s]) = sent[s]
      <4>1. LastOf(got[s]) # 0
        BY <3>3, <3>5
      <4>2. QED
        BY <3>1, <3>5, <4>1, LastInRange
    <3>6. CASE n = sent[s] /\ session[s].buffer # <<>>
      <4>1. session[s].buffer = <<n>>
        BY <2>1, <3>2, <3>6 DEF DeliveredOK
      <4>2. <<n>> \in Seq({n}) /\ <<n>>[1] = n /\ 1 \in 1..Len(<<n>>)
        OBVIOUS
      <4>3. \A i \in 1..Len(<<n>>) : <<n>>[i] \in Range(<<n>>)
        BY <4>2, SeqRange
      <4>4. n \in Range(<<n>>)
        BY <4>2, <4>3
      <4>5. QED
        BY <4>1, <4>4
    <3>7. CASE n = sent[s] /\ InMailbox(s, "data")
      <4>1. PICK x \in Range(mailbox[s]) : x.type = "data"
        BY <3>7 DEF InMailbox
      <4>2. PICK i \in 1..Len(mailbox[s]) : mailbox[s][i] = x
        BY <3>1, SeqIndex
      <4>3. x.arg = n /\ x \in Messages
        BY <2>1, <3>1, <3>2, <3>7, <4>1, <4>2, SeqRange DEF DeliveredOK, OneRead
      <4>4. x = Message("data", n)
        BY <4>1, <4>3 DEF Messages, Message
      <4>5. QED
        BY <4>4 DEF Queued
    <3>8. n = sent[s] => LastOf(got[s]) = sent[s] \/ session[s].buffer # <<>> \/ InMailbox(s, "data")
      BY <2>1, <3>2 DEF DeliveredOK, Holds
    <3>9. QED
      BY <3>3, <3>4, <3>5, <3>6, <3>7, <3>8
  <2>2. QED
    BY <2>1 DEF NothingDropped
<1>2. QED
  BY <1>1, ProxyInvariant, PTL
================================================================================
