------------------------------- MODULE Channel -------------------------------
(***************************************************************************)
(* The SDK's command channel: PhoenixCommandTransport.runCommand over one  *)
(* PhoenixSocket (connect, join a topic, push, wait for the reply and, for *)
(* a queued command, for its result), with the coordinator's channels at   *)
(* the other end.                                                          *)
(*                                                                         *)
(* What a promise's continuations do is part of the event that settles it: *)
(* microtasks run before the next event.  Frames to the server are a set,  *)
(* taken by increasing ref, which is the order they were sent in.          *)
(***************************************************************************)
EXTENDS Naturals, Sequences, FiniteSets

CONSTANTS
    Commands, Topics,
    TopicOf,         \* the topic (user and sandbox) of a command
    Awaiting,        \* the commands called with awaitCompletion
    MaxSockets,      \* bound: sockets constructed
    MaxCalls,        \* bound: calls, of one command (the same idempotency key) or several
    MaxFaults        \* bound: aborts, closes, broken connections, channels that crash

ASSUME ChannelConstants == /\ TopicOf \in [Commands -> Topics]
                           /\ Awaiting \subseteq Commands
                           /\ Commands \cap Topics = {}
                           /\ MaxSockets \in Nat /\ MaxCalls \in Nat /\ MaxFaults \in Nat

VARIABLES
    ready,       \* readyState of each socket
    up, down,    \* the frames on it, to the server and to the client
    ended,       \* the sockets the server has closed
    channels,    \* channels[s]: the topics with a channel process on socket s
    row,         \* the queued_commands row of a command
    ran,         \* the commands the sandbox has run (history)
    unanswered,  \* the refs whose channel crashed over them (history)
    socket,      \* this.socket, 0 for undefined
    connecting,  \* the socket of this.connecting, 0 for undefined
    connectors,  \* the topics whose join waits for this.connecting, in order
    joiners,     \* joiners[t]: the calls that wait for joiningTopics[t], in order
    joined,      \* joinedTopics: the join's ref, 0 for none
    pending,     \* PendingReplies
    nextRef,
    replaced,    \* sockets that were closing when connect() replaced them (history)
    call, calls, \* where a command's call is, and how many there were in all
    heard,       \* what its listener has got
    aborted,     \* the calls whose signal is aborted
    faults

server == <<ended, channels, row, ran, unanswered>>
conn   == <<socket, connecting, connectors>>
joins  == <<joiners, joined>>
pushes == <<pending, nextRef>>
caller == <<call, calls, heard, aborted>>
channelVars == <<ready, up, down, server, conn, joins, pushes, replaced, caller, faults>>

Sockets == 1..MaxSockets
Elements(seq) == {seq[i] : i \in DOMAIN seq}

ReadyStates == {"unused", "connecting", "open", "closing", "closed"}
Frames == [kind : {"ok", "queued", "error", "done", "failed", "close"},
           ref : Nat, of : Commands \cup Topics \cup {0}]
Requests == [ref : Nat, of : Commands \cup Topics]

ChannelTypeOK ==
    /\ ready \in [Sockets -> ReadyStates]
    /\ up \in [Sockets -> SUBSET Requests]
    /\ down \in [Sockets -> Seq(Frames)]
    /\ ended \subseteq Sockets
    /\ channels \in [Sockets -> SUBSET Topics]
    /\ row \in [Commands -> {"none", "queued", "finished"}]
    /\ ran \subseteq Commands
    /\ unanswered \subseteq Nat
    /\ socket \in Sockets \cup {0} /\ connecting \in Sockets \cup {0}
    /\ connectors \in Seq(Topics)
    /\ joiners \in [Topics -> Seq(Commands)]
    /\ joined \in [Topics -> Nat]
    /\ pending \subseteq [ref : Nat, of : Commands \cup Topics, on : Sockets]
    /\ nextRef \in Nat \ {0}
    /\ replaced \subseteq Sockets
    /\ call \in [Commands -> {"idle", "joining", "pushed", "awaiting", "resolved", "rejected"}]
    /\ calls \in 0..MaxCalls
    /\ heard \in [Commands -> {"off", "pending", "done", "failed"}]
    /\ aborted \subseteq Commands
    /\ faults \in 0..MaxFaults

ChannelInit ==
    /\ ready = [s \in Sockets |-> "unused"]
    /\ up = [s \in Sockets |-> {}] /\ down = [s \in Sockets |-> <<>>]
    /\ ended = {} /\ channels = [s \in Sockets |-> {}]
    /\ row = [c \in Commands |-> "none"] /\ ran = {} /\ unanswered = {}
    /\ socket = 0 /\ connecting = 0 /\ connectors = <<>>
    /\ joiners = [t \in Topics |-> <<>>] /\ joined = [t \in Topics |-> 0]
    /\ pending = {} /\ nextRef = 1 /\ replaced = {}
    /\ call = [c \in Commands |-> "idle"] /\ calls = 0
    /\ heard = [c \in Commands |-> "off"] /\ aborted = {}
    /\ faults = 0

Fault == faults < MaxFaults /\ faults' = faults + 1

Open == socket # 0 /\ ready[socket] = "open"

-----------------------------------------------------------------------------
(* What the steps of the SDK are made of.                                  *)

\* push: a pending reply for each of the requests ofs that goes out, refs in their order.
Push(ofs, sent, replies) ==
    LET out == {i \in DOMAIN ofs : ofs[i] \in sent}
    IN  /\ nextRef' = nextRef + Len(ofs)
        /\ pending' = replies \cup
             {[ref |-> nextRef + i - 1, of |-> ofs[i], on |-> socket] : i \in out}
        /\ up' = IF out = {} THEN up ELSE [up EXCEPT ![socket] = @ \cup
             {[ref |-> nextRef + i - 1, of |-> ofs[i]] : i \in out}]

\* runCommand, once its topic is joined: the calls cs go on, in order. A push that finds
\* its signal aborted, or no open socket, is rejected.
PushCommands(cs, replies, withdrawn) ==
    LET sent == IF Open THEN Elements(cs) \ withdrawn ELSE {}
    IN  /\ Push(cs, sent, replies)
        /\ call' = [c \in Commands |-> CASE c \in sent -> "pushed"
                                         [] c \in Elements(cs) \ sent -> "rejected"
                                         [] OTHER -> call[c]]
        /\ heard' = [c \in Commands |-> IF c \in sent /\ c \in Awaiting
                                        THEN "pending" ELSE heard[c]]

\* The calls cs end.
Settle(cs, how) == /\ call'  = [c \in Commands |-> IF c \in cs THEN how ELSE call[c]]
                   /\ heard' = [c \in Commands |-> IF c \in cs THEN "off" ELSE heard[c]]

JoinPending(t) == \E p \in pending : p.of = t
Joining(t)     == t \in Elements(connectors) \/ JoinPending(t)

\* Mutant: the pending replies are kept.
MutantRejected(s) == {}

\* pending.rejectAll, if s is the current socket.
Rejected(s) == IF socket = s THEN pending ELSE {}

\* Mutant: the topics stay joined.
MutantJoinedAfter(s) == joined

JoinedAfter(s) == IF socket = s THEN [t \in Topics |-> 0] ELSE joined

\* The socket s is lost: if it is the current one, whatever is pending is rejected; if it
\* never opened, so are the joins that wait for the connection.
Disconnect(s, refused) ==
    LET lost   == {p.of : p \in Rejected(s)}
        topics == (lost \cap Topics) \cup IF refused THEN Elements(connectors) ELSE {}
    IN  /\ socket' = IF socket = s THEN 0 ELSE socket
        /\ joined' = JoinedAfter(s)
        /\ pending' = pending \ Rejected(s)
        /\ connecting' = IF refused THEN 0 ELSE connecting
        /\ connectors' = IF refused THEN <<>> ELSE connectors
        /\ joiners' = [t \in Topics |-> IF t \in topics THEN <<>> ELSE joiners[t]]
        /\ Settle((lost \cap Commands) \cup UNION {Elements(joiners[t]) : t \in topics}, "rejected")

-----------------------------------------------------------------------------
(* Calls.                                                                  *)

\* connect(), for the join of topic t.
Connect(t) ==
    \/ /\ Open
       /\ Push(<<t>>, {t}, pending)
       /\ UNCHANGED <<ready, conn, replaced>>
    \/ /\ ~Open /\ connecting # 0
       /\ connectors' = Append(connectors, t)
       /\ UNCHANGED <<ready, up, pushes, socket, connecting, replaced>>
    \/ /\ ~Open /\ connecting = 0
       /\ \E s \in Sockets :
            /\ ready[s] = "unused" /\ \A r \in 1..(s - 1) : ready[r] # "unused"
            /\ ready' = [ready EXCEPT ![s] = "connecting"]
            /\ socket' = s /\ connecting' = s /\ connectors' = <<t>>
       /\ replaced' = IF socket = 0 THEN replaced ELSE replaced \cup {socket}
       /\ UNCHANGED <<up, pushes>>

\* A call of the application; a rejected one may be made again.
RunCommand(c) ==
    LET t == TopicOf[c] IN
    /\ call[c] \in {"idle", "rejected"} /\ calls < MaxCalls
    /\ calls' = calls + 1
    /\ \/ /\ joined[t] # 0
          /\ PushCommands(<<c>>, pending, aborted \ {c})
          /\ UNCHANGED <<ready, conn, joiners, replaced>>
       \/ /\ joined[t] = 0
          /\ joiners' = [joiners EXCEPT ![t] = Append(@, c)]
          /\ call' = [call EXCEPT ![c] = "joining"]
          /\ \/ /\ Joining(t)
                /\ UNCHANGED <<ready, up, conn, pushes, replaced>>
             \/ ~Joining(t) /\ Connect(t)
          /\ UNCHANGED heard
    /\ aborted' = aborted \ {c}
    /\ UNCHANGED <<down, server, joined, faults>>

\* The signal of a call is aborted (a call has its own). A join does not look at it.
Abort(c) ==
    /\ Fault
    /\ call[c] \in {"joining", "pushed", "awaiting"} /\ c \notin aborted
    /\ aborted' = aborted \cup {c}
    /\ pending' = {p \in pending : p.of # c}
    /\ Settle(IF call[c] = "joining" THEN {} ELSE {c}, "rejected")
    /\ UNCHANGED <<ready, up, down, server, conn, joins, nextRef, replaced, calls>>

\* close().
Close ==
    /\ Fault
    /\ socket # 0
    /\ ready' = [ready EXCEPT ![socket] = "closing"]
    /\ Disconnect(socket, FALSE)
    /\ UNCHANGED <<up, down, server, nextRef, replaced, calls, aborted>>

-----------------------------------------------------------------------------
(* Events of a socket.                                                     *)

\* Mutant: a new socket counts its refs from 1.
MutantOpens(s) ==
    /\ ready[s] = "connecting"
    /\ ready' = [ready EXCEPT ![s] = "open"]
    /\ connecting' = 0 /\ connectors' = <<>>
    /\ nextRef' = 1 + Len(connectors)
    /\ LET out == {[ref |-> i, of |-> connectors[i]] : i \in DOMAIN connectors}
       IN  /\ up' = [up EXCEPT ![s] = out]
           /\ pending' = pending \cup {[ref |-> m.ref, of |-> m.of, on |-> s] : m \in out}
    /\ UNCHANGED <<down, server, socket, joins, replaced, caller, faults>>

\* "open": the joins that waited go out.
Opens(s) ==
    /\ ready[s] = "connecting"
    /\ ready' = [ready EXCEPT ![s] = "open"]
    /\ connecting' = 0 /\ connectors' = <<>>
    /\ Push(connectors, Elements(connectors), pending)
    /\ UNCHANGED <<down, server, socket, joins, replaced, caller, faults>>

\* "error": the connection is refused or breaks. The handler closes the socket.
Errs(s) ==
    /\ Fault
    /\ ready[s] \in {"connecting", "open"}
    /\ ready' = [ready EXCEPT ![s] = "closing"]
    /\ down' = [down EXCEPT ![s] = <<>>]
    /\ Disconnect(s, connecting = s)
    /\ UNCHANGED <<up, server, nextRef, replaced, calls, aborted>>

\* Mutant: the connection that never opened is not rejected.
MutantCloses(s) ==
    /\ ready[s] = "closing"
    /\ ready' = [ready EXCEPT ![s] = "closed"]
    /\ up' = [up EXCEPT ![s] = {}] /\ down' = [down EXCEPT ![s] = <<>>]
    /\ channels' = [channels EXCEPT ![s] = {}]
    /\ Disconnect(s, FALSE)
    /\ UNCHANGED <<ended, row, ran, unanswered, nextRef, replaced, calls, aborted, faults>>

\* "close". The socket's channels end with it.
Closes(s) ==
    /\ ready[s] = "closing"
    /\ ready' = [ready EXCEPT ![s] = "closed"]
    /\ up' = [up EXCEPT ![s] = {}] /\ down' = [down EXCEPT ![s] = <<>>]
    /\ channels' = [channels EXCEPT ![s] = {}]
    /\ Disconnect(s, connecting = s)
    /\ UNCHANGED <<ended, row, ran, unanswered, nextRef, replaced, calls, aborted, faults>>

\* The server's close frame: readyState changes before the event.
Closing(s) ==
    /\ ready' = [ready EXCEPT ![s] = "closing"]
    /\ UNCHANGED <<up, conn, joins, pushes, call, heard>>

\* The reply to the join of topic t: the calls that wait for it go on.
JoinAnswered(t, p, ok) ==
    /\ joiners' = [joiners EXCEPT ![t] = <<>>]
    /\ IF ok THEN /\ joined' = [joined EXCEPT ![t] = p.ref]
                  /\ PushCommands(joiners[t], pending \ {p}, aborted)
             ELSE /\ Settle(Elements(joiners[t]), "rejected")
                  /\ pending' = pending \ {p}
                  /\ UNCHANGED <<joined, up, nextRef>>
    /\ UNCHANGED <<ready, conn>>

\* Mutant: a queued command is taken for a completed one.
MutantOutcome(c, kind) == IF kind = "error" THEN "rejected" ELSE "resolved"

\* What the reply to a command makes of its call.
Outcome(c, kind) ==
    CASE kind = "error" -> "rejected"
      [] kind = "ok" \/ c \notin Awaiting \/ heard[c] = "done" -> "resolved"
      [] heard[c] = "failed" -> "rejected"
      [] OTHER -> "awaiting"

CommandAnswered(c, p, kind) ==
    /\ pending' = pending \ {p}
    /\ IF Outcome(c, kind) = "awaiting"
       THEN call' = [call EXCEPT ![c] = "awaiting"] /\ UNCHANGED heard
       ELSE Settle({c}, Outcome(c, kind))
    /\ UNCHANGED <<ready, up, conn, joins, nextRef>>

\* command_result: the first one a listener hears counts. (A failure that is heard before the
\* push's reply rejects a promise that nobody handles yet, which by Node's default ends the
\* process; as in a browser, or under a handler for such rejections, the client goes on here.)
ResultHeard(c, kind) ==
    /\ IF call[c] = "awaiting"
       THEN Settle({c}, IF kind = "done" THEN "resolved" ELSE "rejected")
       ELSE /\ heard' = [heard EXCEPT ![c] = IF @ = "pending" THEN kind ELSE @]
            /\ UNCHANGED call
    /\ UNCHANGED <<ready, up, conn, joins, pushes>>

\* "message", and dispatchFrame. A reply nobody waits for is dropped.
Receives(s) ==
    /\ ready[s] \in {"open", "closing"} /\ down[s] # <<>>
    /\ down' = [down EXCEPT ![s] = Tail(@)]
    /\ LET m == Head(down[s]) IN
       \/ m.kind = "close" /\ Closing(s)
       \/ m.kind \in {"done", "failed"} /\ ResultHeard(m.of, m.kind)
       \/ /\ m.kind \in {"ok", "queued", "error"}
          /\ \/ \E p \in pending :
                   /\ p.ref = m.ref
                   /\ \/ p.of \in Topics /\ JoinAnswered(p.of, p, m.kind = "ok")
                      \/ p.of \in Commands /\ CommandAnswered(p.of, p, m.kind)
             \/ /\ \A p \in pending : p.ref # m.ref
                /\ UNCHANGED <<ready, up, conn, joins, pushes, call, heard>>
    /\ UNCHANGED <<server, replaced, calls, aborted, faults>>

-----------------------------------------------------------------------------
(* The coordinator's end of a socket.                                      *)

client == <<ready, conn, joins, pushes, replaced, caller>>

\* Frames out of the server: nothing reaches a socket that is closed.
Reaches(s, frames) == IF ready[s] \in {"open", "closing"} THEN down[s] \o frames ELSE down[s]

\* command_result on the topic of c, to the sockets that have a channel for it.
Announced(c, kind, s) ==
    IF s \notin ended /\ TopicOf[c] \in channels[s]
    THEN <<[kind |-> kind, ref |-> 0, of |-> c]>> ELSE <<>>

\* The next frame on socket s.
Next1(s, m) == /\ s \notin ended /\ m \in up[s] /\ \A n \in up[s] : m.ref <= n.ref
               /\ up' = [up EXCEPT ![s] = @ \ {m}]

Reply(m, kind) == <<[kind |-> kind, ref |-> m.ref, of |-> m.of]>>

\* SandboxChannel.join.
ServeJoin(s) ==
    \E m \in up[s] :
        /\ m.of \in Topics /\ Next1(s, m)
        /\ \E kind \in {"ok", "error"} :
              /\ down' = [down EXCEPT ![s] = Reaches(s, Reply(m, kind))]
              /\ channels' = IF kind = "ok" THEN [channels EXCEPT ![s] = @ \cup {m.of}]
                                            ELSE channels
        /\ UNCHANGED <<client, ended, row, ran, unanswered, faults>>

\* A command on a topic without a channel: Phoenix answers an error.
ServeUnmatched(s) ==
    \E m \in up[s] :
        /\ m.of \in Commands /\ TopicOf[m.of] \notin channels[s] /\ Next1(s, m)
        /\ down' = [down EXCEPT ![s] = Reaches(s, Reply(m, "error"))]
        /\ UNCHANGED <<client, server, faults>>

\* handle_in("command"): a command with a row is queued, or was; another one runs at once,
\* which is announced before it is answered, or is queued; or the submission fails.
ServeCommand(s) ==
    \E m \in up[s] :
        /\ m.of \in Commands /\ TopicOf[m.of] \in channels[s] /\ Next1(s, m)
        /\ LET c == m.of IN
           \/ /\ row[c] = "none"
              /\ ran' = ran \cup {c}
              /\ down' = [r \in Sockets |->
                    Reaches(r, Announced(c, "done", r) \o IF r = s THEN Reply(m, "ok") ELSE <<>>)]
              /\ UNCHANGED row
           \/ /\ row' = [row EXCEPT ![c] = IF @ = "none" THEN "queued" ELSE @]
              /\ down' = [down EXCEPT ![s] = Reaches(s, Reply(m, "queued"))]
              /\ UNCHANGED ran
           \/ /\ down' = [down EXCEPT ![s] = Reaches(s, Reply(m, "error"))]
              /\ UNCHANGED <<row, ran>>
        /\ UNCHANGED <<client, ended, channels, unanswered, faults>>

\* submit raises: the channel's process dies with the command, unanswered. Its clients get
\* phx_error, which the SDK has no use for.
ChannelCrash(s) ==
    \E m \in up[s] :
        /\ Fault
        /\ m.of \in Commands /\ TopicOf[m.of] \in channels[s] /\ Next1(s, m)
        /\ channels' = [channels EXCEPT ![s] = @ \ {TopicOf[m.of]}]
        /\ unanswered' = unanswered \cup {m.ref}
        /\ UNCHANGED <<client, down, ended, row, ran>>

\* A replay finishes a queued command, done or failed.
ReplayFinishes(c) ==
    /\ row[c] = "queued"
    /\ row' = [row EXCEPT ![c] = "finished"]
    /\ \E kind \in {"done", "failed"} :
         /\ ran' = IF kind = "done" THEN ran \cup {c} ELSE ran
         /\ down' = [s \in Sockets |-> Reaches(s, Announced(c, kind, s))]
    /\ UNCHANGED <<client, up, ended, channels, unanswered, faults>>

ServerCloses(s) ==
    /\ Fault
    /\ ready[s] = "open" /\ s \notin ended
    /\ ended' = ended \cup {s}
    /\ down' = [down EXCEPT ![s] = Append(@, [kind |-> "close", ref |-> 0, of |-> 0])]
    /\ UNCHANGED <<client, up, channels, row, ran, unanswered>>

-----------------------------------------------------------------------------
Calls  == (\E c \in Commands : RunCommand(c) \/ Abort(c)) \/ Close
Events(s) == Opens(s) \/ Closes(s) \/ Receives(s)
Serves(s) == ServeJoin(s) \/ ServeUnmatched(s) \/ ServeCommand(s)

ChannelNext ==
    \/ Calls
    \/ \E s \in Sockets : \/ Opens(s) \/ Errs(s) \/ Closes(s) \/ Receives(s)
                         \/ ServeJoin(s) \/ ServeUnmatched(s) \/ ServeCommand(s)
                         \/ ChannelCrash(s) \/ ServerCloses(s)
    \/ \E c \in Commands : ReplayFinishes(c)

ChannelSpec == ChannelInit /\ [][ChannelNext]_channelVars

\* Sockets open or fail, frames arrive, and the server answers what reaches it. Nobody has
\* to call, close or abort; a queued command may wait for ever.
ChannelFairSpec == /\ ChannelSpec
                   /\ \A s \in Sockets : WF_channelVars(Events(s)) /\ WF_channelVars(Serves(s))

-----------------------------------------------------------------------------
(* Properties.                                                             *)

\* A reply under way settles the push it answers, made on the same socket, or none: refs do
\* not start again with a new socket, whose pushes a late reply of the old one would settle.
RepliesMatch ==
    \A s \in Sockets, p \in pending : \A i \in DOMAIN down[s] :
        down[s][i].ref = p.ref => down[s][i].of = p.of /\ p.on = s

\* Whatever is pending was sent on the current socket: a socket that is lost takes its
\* pushes with it. Except that connect() replaces a closing socket without disconnecting
\* it: what was pending there is rejected only with the new socket.
PendingHasSocket ==
    \A p \in pending : p.on = socket \/ p.on \in replaced

\* A joined topic has its channel on the current socket, as far as the client can know: the
\* exceptions are a channel that crashed and a closing socket that was replaced.
JoinedIsServed ==
    \A t \in Topics : joined[t] # 0 =>
        \/ socket # 0 /\ t \in channels[socket]
        \/ replaced # {} \/ unanswered # {}

\* With awaitCompletion a call resolves only when its command has run, be it the reply or
\* the result that comes first.
CompletedHasRun == \A c \in Awaiting : call[c] = "resolved" => c \in ran

\* What a call waits for will never come: its push, or that of its topic's join, went out on
\* a socket that was replaced, or its channel crashed.
Forgotten(c) ==
    \E p \in pending : /\ p.of \in {c, TopicOf[c]}
                       /\ p.on \in replaced \/ p.ref \in unanswered

Unsettled(c) == call[c] \in {"joining", "pushed"}

\* Every call is answered, whatever happens to the socket, unless it is forgotten.
CallsSettle ==
    \A c \in Commands : Unsettled(c) ~> ~Unsettled(c) \/ Forgotten(c)
=============================================================================
