-------------------------------- MODULE Proxy --------------------------------
(***************************************************************************)
(* One route of the proxy: the RouteManager process and one Session        *)
(* process per external client.  Processes talk by messages; a session     *)
(* handles one message of its mailbox at a time.                           *)
(*                                                                         *)
(* An endpoint is the guest's port on the worker that owns the sandbox     *)
(* under an epoch, and is named by that epoch.  The coordinator moves the  *)
(* route: BeginCutover, later UpdateEndpoint, and after that it fences the *)
(* old endpoint.  Between the two the migration may also be rolled back,   *)
(* in which case nothing more is heard from the coordinator.               *)
(***************************************************************************)
EXTENDS Naturals, Sequences, FiniteSets, Functions

CONSTANTS
    Sessions,
    BufferLimit,      \* chunks a session buffers (buffer_bytes)
    MaxEpoch,         \* bound: epochs of the route, from 1
    MaxChunks,        \* bound: chunks each client sends
    MaxFaults         \* bound: failed sends

ASSUME ProxyBounds == /\ BufferLimit \in Nat \ {0} /\ MaxEpoch \in Nat \ {0}
                      /\ MaxChunks \in Nat /\ MaxFaults \in Nat

VARIABLES
    route,      \* RouteState: phase, epoch, sessions, and pending, those still to reconnect
    session,    \* session[s]: the state of session s
    mailbox,    \* mailbox[s]: the messages it has not handled
    conns,      \* conns[s]: its open connections to guests, by id and endpoint
    reports,    \* {:session_connected, pid, epoch} on their way to the manager
    down,       \* the endpoints that are fenced
    sent,       \* sent[s]: chunks read from the client of s
    got,        \* got[s]: the chunks written to guests for s, in order (history)
    faults

proxyVars == <<route, session, mailbox, conns, reports, down, sent, got, faults>>

Epochs == 1..MaxEpoch
Chunks == 1..MaxChunks
NoSocket == 0

\* The :connect_internal messages and timers of a session number one at its start, one more
\* for each repoint and each failed send, and a connection costs one: there are enough ids.
Ids == 1..(MaxEpoch + MaxFaults)

Absent == [status |-> "absent", mode |-> "connecting", epoch |-> 1, cutover |-> FALSE,
           awaiting |-> FALSE, socket |-> NoSocket, armed |-> FALSE, timer |-> FALSE,
           strays |-> 0, buffer |-> <<>>]

Message(type, arg) == [type |-> type, arg |-> arg]

Queued(s, type, arg) == Message(type, arg) \in Range(mailbox[s])

ProxyTypeOK ==
    /\ route \in [phase : {"active", "cutover", "reconnecting"}, epoch : Epochs,
                  sessions : SUBSET Sessions, pending : SUBSET Sessions]
    /\ session \in [Sessions ->
         [status : {"absent", "registering", "up", "gone"},
          mode : {"connecting", "connected", "waiting_endpoint"}, epoch : Epochs,
          cutover : BOOLEAN, awaiting : BOOLEAN, socket : Ids \cup {NoSocket},
          armed : BOOLEAN, timer : BOOLEAN, strays : Nat, buffer : Seq(Chunks)]]
    /\ mailbox \in [Sessions -> Seq([type : {"begin_cutover", "route_endpoint", "connect",
                                             "data", "guest", "closed", "broken"}, arg : Nat])]
    /\ conns \in [Sessions -> SUBSET [id : Ids, endpoint : Epochs]]
    /\ reports \subseteq Sessions \X Epochs
    /\ down \subseteq Epochs
    /\ sent \in [Sessions -> 0..MaxChunks]
    /\ got \in [Sessions -> Seq(Chunks)]
    /\ faults \in 0..MaxFaults

ProxyInit ==
    /\ route = [phase |-> "active", epoch |-> 1, sessions |-> {}, pending |-> {}]
    /\ session = [s \in Sessions |-> Absent]
    /\ mailbox = [s \in Sessions |-> <<>>]
    /\ conns = [s \in Sessions |-> {}]
    /\ reports = {} /\ down = {}
    /\ sent = [s \in Sessions |-> 0]
    /\ got = [s \in Sessions |-> <<>>]
    /\ faults = 0

-----------------------------------------------------------------------------
(* RouteManager.                                                           *)

PhaseForPending(pending) == IF pending = {} THEN "active" ELSE "reconnecting"

\* Mutant: only the sessions that were pending already are told.
MutantBroadcast(message) ==
    mailbox' = [s \in Sessions |-> IF s \in route.pending /\ session[s].status # "gone"
                                   THEN Append(mailbox[s], message) ELSE mailbox[s]]

\* The manager sends a message to every session it knows; a dead one does not matter.
Broadcast(message) ==
    mailbox' = [s \in Sessions |-> IF s \in route.sessions /\ session[s].status # "gone"
                                   THEN Append(mailbox[s], message) ELSE mailbox[s]]

BeginCutover ==
    /\ route.phase = "active"
    /\ route' = [route EXCEPT !.phase = "cutover"]
    /\ Broadcast(Message("begin_cutover", route.epoch))
    /\ UNCHANGED <<session, conns, reports, down, sent, got, faults>>

\* The coordinator repoints a route whose cutover it began, to the next epoch.
UpdateEndpoint ==
    /\ route.phase = "cutover" /\ route.epoch < MaxEpoch
    /\ route' = [route EXCEPT !.epoch = @ + 1, !.pending = route.sessions,
                              !.phase = PhaseForPending(route.sessions)]
    /\ Broadcast(Message("route_endpoint", route.epoch + 1))
    /\ UNCHANGED <<session, conns, reports, down, sent, got, faults>>

\* Mutant: the last session that reports does not end the wait.
MutantSessionConnected(s, e) ==
    /\ <<s, e>> \in reports
    /\ reports' = reports \ {<<s, e>>}
    /\ route' = IF route.phase = "reconnecting" /\ e = route.epoch
                THEN [route EXCEPT !.pending = @ \ {s}] ELSE route
    /\ UNCHANGED <<session, mailbox, conns, down, sent, got, faults>>

SessionConnected(s, e) ==
    /\ <<s, e>> \in reports
    /\ reports' = reports \ {<<s, e>>}
    /\ LET pending == route.pending \ {s} IN
       route' = IF route.phase = "reconnecting" /\ e = route.epoch
                THEN [route EXCEPT !.pending = pending, !.phase = PhaseForPending(pending)]
                ELSE route
    /\ UNCHANGED <<session, mailbox, conns, down, sent, got, faults>>

\* :DOWN of a session the manager monitors.
UnregisterSession(s) ==
    /\ session[s].status = "gone" /\ s \in route.sessions
    /\ \A e \in Epochs : <<s, e>> \notin reports      \* they were sent before
    /\ LET pending == route.pending \ {s} IN
       route' = [route EXCEPT !.sessions = @ \ {s}, !.pending = pending,
                              !.phase = IF @ = "reconnecting" THEN PhaseForPending(pending)
                                                              ELSE @]
    /\ UNCHANGED <<session, mailbox, conns, reports, down, sent, got, faults>>

-----------------------------------------------------------------------------
(* A session: its start, and the parts its handlers are made of.           *)

\* A client connects, and its session registers with the manager.
RegisterSession(s) ==
    /\ session[s].status = "absent"
    /\ route' = [route EXCEPT !.sessions = @ \cup {s},
                              !.pending = IF route.phase = "reconnecting" THEN @ \cup {s}
                                                                          ELSE @]
    /\ session' = [session EXCEPT ![s] = [@ EXCEPT !.status = "registering",
                                                   !.epoch = route.epoch]]
    /\ UNCHANGED <<mailbox, conns, reports, down, sent, got, faults>>

\* It goes on with the manager's answer; by now other messages may have come.
InitializeSession(s) ==
    /\ session[s].status = "registering"
    /\ session' = [session EXCEPT ![s].status = "up", ![s].armed = TRUE]
    /\ mailbox' = [mailbox EXCEPT ![s] = Append(@, Message("connect", 0))]
    /\ UNCHANGED <<route, conns, reports, down, sent, got, faults>>

\* The session stops: terminate closes its sockets, its timers and its mailbox are gone.
Stop(s) ==
    /\ session' = [session EXCEPT ![s] = [Absent EXCEPT !.status = "gone"]]
    /\ mailbox' = [mailbox EXCEPT ![s] = <<>>]
    /\ conns' = [conns EXCEPT ![s] = {}]

\* The session's connections without the one it uses.
WithoutSocket(s) == {c \in conns[s] : c.id # session[s].socket}

Handles(s, type) == session[s].status = "up" /\ mailbox[s] # <<>> /\ Head(mailbox[s]).type = type

\* The session has handled its message and sends itself others.
Handled(s, more) == mailbox' = [mailbox EXCEPT ![s] = Tail(@) \o more]

FreeIds(s) == {i \in Ids : /\ \A c \in conns[s] : c.id # i
                           /\ \A type \in {"guest", "closed", "broken"} : ~Queued(s, type, i)}

-----------------------------------------------------------------------------
(* Messages of the manager.                                                *)

\* handle_info({:begin_cutover, epoch}): the connection is closed, the client kept.  The
\* session's epoch is the message's: the manager's messages come in order.
HandleBeginCutover(s) ==
    /\ Handles(s, "begin_cutover")
    /\ session' = [session EXCEPT ![s] =
         IF Head(mailbox[s]).arg = session[s].epoch
         THEN [@ EXCEPT !.cutover = TRUE, !.awaiting = FALSE, !.socket = NoSocket,
                        !.mode = "waiting_endpoint"]
         ELSE [@ EXCEPT !.socket = NoSocket,
                        !.mode = IF session[s].cutover THEN "waiting_endpoint"
                                                      ELSE session[s].mode]]
    /\ conns' = [conns EXCEPT ![s] = WithoutSocket(s)]
    /\ Handled(s, <<>>)
    /\ UNCHANGED <<route, reports, down, sent, got, faults>>

\* Mutant: the retry timer is cancelled and nothing connects in its place.
MutantHandleRouteEndpointIdle(s) ==
    /\ Handles(s, "route_endpoint")
    /\ session' = [session EXCEPT ![s] =
         [@ EXCEPT !.epoch = Head(mailbox[s]).arg, !.mode = "connecting", !.cutover = TRUE,
                   !.awaiting = TRUE, !.socket = NoSocket, !.timer = FALSE]]
    /\ conns' = [conns EXCEPT ![s] = WithoutSocket(s)]
    /\ Handled(s, <<>>)
    /\ UNCHANGED <<route, reports, down, sent, got, faults>>

\* handle_info({:route_endpoint, endpoint, epoch}): a stale one is dropped.
HandleRouteEndpoint(s) ==
    /\ Handles(s, "route_endpoint")
    /\ LET e == Head(mailbox[s]).arg
           newer == e > session[s].epoch
       IN /\ session' = [session EXCEPT ![s] =
               IF newer THEN [@ EXCEPT !.epoch = e, !.mode = "connecting", !.cutover = TRUE,
                                       !.awaiting = TRUE, !.socket = NoSocket, !.timer = FALSE]
               ELSE @]
          /\ conns' = [conns EXCEPT ![s] = IF newer THEN WithoutSocket(s) ELSE @]
          /\ Handled(s, IF newer THEN <<Message("connect", 0)>> ELSE <<>>)
    /\ UNCHANGED <<route, reports, down, sent, got, faults>>

-----------------------------------------------------------------------------
(* Connecting.                                                             *)

\* The handler forgets its timer, which goes on when the message came from elsewhere.
Untimed(st) == [st EXCEPT !.timer = FALSE, !.strays = @ + (IF st.timer THEN 1 ELSE 0)]

\* schedule_retry: the socket in use is forgotten, not closed.
RetryLater(st) == [Untimed(st) EXCEPT !.timer = TRUE, !.socket = NoSocket]

Reachable(s) == session[s].epoch \notin down

ConnectFails(s) ==
    /\ Handles(s, "connect")
    /\ session' = [session EXCEPT ![s] = RetryLater(@)]
    /\ Handled(s, <<>>)
    /\ UNCHANGED <<route, conns, reports, down, sent, got, faults>>

\* The endpoint answers, the buffer is written to it and the session uses this connection.
ConnectSucceeds(s) ==
    /\ Handles(s, "connect") /\ Reachable(s)
    /\ \E i \in FreeIds(s) :
          /\ \A j \in FreeIds(s) : i <= j
          /\ session' = [session EXCEPT ![s] =
               [Untimed(@) EXCEPT !.mode = "connected", !.socket = i, !.buffer = <<>>,
                                  !.armed = TRUE]]
          /\ conns' = [conns EXCEPT ![s] = @ \cup {[id |-> i, endpoint |-> session[s].epoch]}]
    /\ got' = [got EXCEPT ![s] = @ \o session[s].buffer]
    /\ reports' = reports \cup {<<s, session[s].epoch>>}
    /\ Handled(s, <<>>)
    /\ UNCHANGED <<route, down, sent, faults>>

\* Mutant: the buffer that could not be written is forgotten.
MutantFlushFails(s) ==
    /\ Handles(s, "connect") /\ Reachable(s)
    /\ session[s].buffer # <<>> /\ faults < MaxFaults
    /\ faults' = faults + 1
    /\ session' = [session EXCEPT ![s] = [RetryLater(@) EXCEPT !.mode = "connecting",
                                                              !.buffer = <<>>]]
    /\ Handled(s, <<>>)
    /\ UNCHANGED <<route, conns, reports, down, sent, got>>

\* Writing the buffer fails, after some of it or none was written: all of it is kept.
FlushFails(s) ==
    /\ Handles(s, "connect") /\ Reachable(s)
    /\ session[s].buffer # <<>> /\ faults < MaxFaults
    /\ faults' = faults + 1
    /\ session' = [session EXCEPT ![s] = [RetryLater(@) EXCEPT !.mode = "connecting"]]
    /\ \E n \in 0..Len(session[s].buffer) :
          got' = [got EXCEPT ![s] = @ \o SubSeq(session[s].buffer, 1, n)]
    /\ Handled(s, <<>>)
    /\ UNCHANGED <<route, conns, reports, down, sent>>

RetryTimerFires(s) ==
    /\ session[s].status = "up"
    /\ \/ /\ session[s].timer
          /\ session' = [session EXCEPT ![s].timer = FALSE]
       \/ /\ session[s].strays > 0
          /\ session' = [session EXCEPT ![s].strays = @ - 1]
    /\ mailbox' = [mailbox EXCEPT ![s] = Append(@, Message("connect", 0))]
    /\ UNCHANGED <<route, conns, reports, down, sent, got, faults>>

-----------------------------------------------------------------------------
(* Data of the client.                                                     *)

Overflows(s) == Len(session[s].buffer) >= BufferLimit

\* Mutant: the client is read on while there is no connection.
MutantBufferData(s) ==
    /\ Handles(s, "data") /\ session[s].mode # "connected"
    /\ session' = [session EXCEPT ![s].buffer = Append(@, Head(mailbox[s]).arg)]
    /\ Handled(s, <<>>)
    /\ UNCHANGED <<route, conns, reports, down, sent, got, faults>>

\* No connection: the data is buffered and the client not read again until there is one.
BufferData(s) ==
    /\ Handles(s, "data") /\ session[s].mode # "connected"
    /\ IF Overflows(s)
       THEN Stop(s)
       ELSE /\ session' = [session EXCEPT ![s].armed = FALSE,
                                          ![s].buffer = Append(@, Head(mailbox[s]).arg)]
            /\ Handled(s, <<>>)
            /\ UNCHANGED conns
    /\ UNCHANGED <<route, reports, down, sent, got, faults>>

SendData(s) ==
    /\ Handles(s, "data") /\ session[s].mode = "connected"
    /\ IF session[s].socket = NoSocket
       THEN Stop(s) /\ UNCHANGED got
       ELSE /\ got' = [got EXCEPT ![s] = Append(@, Head(mailbox[s]).arg)]
            /\ Handled(s, <<>>)
            /\ UNCHANGED <<session, conns>>
    /\ UNCHANGED <<route, reports, down, sent, faults>>

\* Mutant: the data of a failed send is not kept.
MutantSendFails(s) ==
    /\ Handles(s, "data") /\ session[s].mode = "connected" /\ session[s].socket # NoSocket
    /\ faults < MaxFaults
    /\ faults' = faults + 1
    /\ session' = [session EXCEPT ![s].mode = "connecting", ![s].socket = NoSocket,
                                  ![s].cutover = TRUE]
    /\ conns' = [conns EXCEPT ![s] = WithoutSocket(s)]
    /\ Handled(s, <<Message("connect", 0)>>)
    /\ UNCHANGED <<route, reports, down, sent, got>>

\* The guest may have got the data of a send that fails; it is buffered to be sent again.
SendFails(s) ==
    /\ Handles(s, "data") /\ session[s].mode = "connected" /\ session[s].socket # NoSocket
    /\ faults < MaxFaults
    /\ faults' = faults + 1
    /\ \/ got' = [got EXCEPT ![s] = Append(@, Head(mailbox[s]).arg)]
       \/ UNCHANGED got
    /\ IF Overflows(s)
       THEN Stop(s)
       ELSE /\ session' = [session EXCEPT ![s] =
                 [@ EXCEPT !.mode = "connecting", !.cutover = TRUE, !.socket = NoSocket,
                           !.armed = FALSE,
                           !.buffer = Append(session[s].buffer, Head(mailbox[s]).arg)]]
            /\ conns' = [conns EXCEPT ![s] = WithoutSocket(s)]
            /\ Handled(s, <<Message("connect", 0)>>)
    /\ UNCHANGED <<route, reports, down, sent>>

-----------------------------------------------------------------------------
(* Data and end of the guest's connection.                                 *)

\* handle_internal_eof, for the session without its socket.
InternalEof(s) ==
    \/ /\ session[s].cutover
       /\ session' = [session EXCEPT ![s].socket = NoSocket, ![s].mode = "waiting_endpoint"]
       /\ conns' = [conns EXCEPT ![s] = WithoutSocket(s)]
       /\ Handled(s, <<>>)
    \/ ~session[s].cutover /\ Stop(s)

\* Data of the guest goes to the client; the first that is new after a repoint ends the
\* cutover.  Acknowledging it to the guest may fail.
HandleGuestData(s) ==
    /\ Handles(s, "guest")
    /\ \/ /\ Head(mailbox[s]).arg # session[s].socket
          /\ Handled(s, <<>>)
          /\ UNCHANGED <<session, conns, faults>>
       \/ /\ Head(mailbox[s]).arg = session[s].socket
          /\ \/ session' = [session EXCEPT ![s] =
                  IF session[s].awaiting THEN [@ EXCEPT !.cutover = FALSE, !.awaiting = FALSE]
                                         ELSE @]
             \/ UNCHANGED session
          /\ Handled(s, <<>>)
          /\ UNCHANGED <<conns, faults>>
       \/ /\ Head(mailbox[s]).arg = session[s].socket /\ faults < MaxFaults
          /\ faults' = faults + 1
          /\ InternalEof(s)
    /\ UNCHANGED <<route, reports, down, sent, got>>

HandleEof(s) ==
    /\ Handles(s, "closed") \/ Handles(s, "broken")
    /\ \/ /\ Head(mailbox[s]).arg = session[s].socket
          /\ InternalEof(s)
       \/ /\ Head(mailbox[s]).arg # session[s].socket
          /\ Handled(s, <<>>)
          /\ UNCHANGED <<session, conns>>
    /\ UNCHANGED <<route, reports, down, sent, got, faults>>

-----------------------------------------------------------------------------
(* Clients and guests.                                                     *)

Deliver(s, type, arg) == mailbox' = [mailbox EXCEPT ![s] = Append(@, Message(type, arg))]

\* The client's socket is active once: one message, and the next when it is armed again.
ClientSends(s) ==
    /\ session[s].status = "up" /\ session[s].armed /\ sent[s] < MaxChunks
    /\ ~Queued(s, "data", sent[s])
    /\ sent' = [sent EXCEPT ![s] = @ + 1]
    /\ Deliver(s, "data", sent[s] + 1)
    /\ UNCHANGED <<route, session, conns, reports, down, got, faults>>

ClientCloses(s) ==
    /\ session[s].status = "up"
    /\ Stop(s)
    /\ UNCHANGED <<route, reports, down, sent, got, faults>>

Open(s, c) == c \in conns[s] /\ ~Queued(s, "closed", c.id) /\ ~Queued(s, "broken", c.id)

GuestSends(s) ==
    /\ \E c \in conns[s] : /\ Open(s, c) /\ c.endpoint \notin down /\ ~Queued(s, "guest", c.id)
                           /\ Deliver(s, "guest", c.id)
    /\ UNCHANGED <<route, session, conns, reports, down, sent, got, faults>>

GuestCloses(s) ==
    /\ \E c \in conns[s] : Open(s, c) /\ c.endpoint \notin down /\ Deliver(s, "closed", c.id)
    /\ UNCHANGED <<route, session, conns, reports, down, sent, got, faults>>

\* The coordinator has the source fenced after it moved the route: its connections break.
FenceEndpoint(e) ==
    /\ e < route.epoch /\ e \notin down
    /\ down' = down \cup {e}
    /\ UNCHANGED <<route, session, mailbox, conns, reports, sent, got, faults>>

ConnectionBreaks(s) ==
    /\ \E c \in conns[s] : Open(s, c) /\ c.endpoint \in down /\ Deliver(s, "broken", c.id)
    /\ UNCHANGED <<route, session, conns, reports, down, sent, got, faults>>

-----------------------------------------------------------------------------

SessionStep(s) ==
    \/ InitializeSession(s)
    \/ HandleBeginCutover(s) \/ HandleRouteEndpoint(s)
    \/ ConnectFails(s) \/ ConnectSucceeds(s) \/ FlushFails(s)
    \/ BufferData(s) \/ SendData(s) \/ SendFails(s)
    \/ HandleGuestData(s) \/ HandleEof(s)

ProxyNext ==
    \/ BeginCutover \/ UpdateEndpoint
    \/ \E s \in Sessions :
          \/ RegisterSession(s) \/ SessionStep(s) \/ RetryTimerFires(s)
          \/ \E e \in Epochs : SessionConnected(s, e)
          \/ UnregisterSession(s)
          \/ ClientSends(s) \/ ClientCloses(s)
          \/ GuestSends(s) \/ GuestCloses(s) \/ ConnectionBreaks(s)
    \/ \E e \in Epochs : FenceEndpoint(e)

ProxySpec == ProxyInit /\ [][ProxyNext]_proxyVars
-----------------------------------------------------------------------------
(* What the proxy promises.                                                *)

InMailbox(s, type) == \E m \in Range(mailbox[s]) : m.type = type

Alive(s) == session[s].status \in {"registering", "up"}

\* The session will try to connect again.
WillConnect(s) == \/ session[s].status = "registering"
                  \/ session[s].timer \/ session[s].strays > 0
                  \/ InMailbox(s, "connect")

\* The route counts the sessions it waits for: it is reconnecting exactly while a session it
\* knows has not reported the current epoch (RouteState, route_state.ex:38-117).
PendingCounted ==
    /\ route.pending \subseteq route.sessions
    /\ (route.phase = "reconnecting") = (route.pending # {})

\* No client is left on an old worker: a session either has the route's epoch or is about to
\* hear of it, also one that registers while the route moves.
NoSessionLeftBehind ==
    \A s \in Sessions : Alive(s) =>
        /\ s \in route.sessions
        /\ \/ session[s].epoch = route.epoch
           \/ Queued(s, "route_endpoint", route.epoch)

\* A session the route waits for is on its way: it will hear of the endpoint, will connect to
\* it, or has said that it did.  So no route stays reconnecting for a session that gave up.
PendingWillReport ==
    \A s \in route.pending : Alive(s) =>
        \/ InMailbox(s, "route_endpoint")
        \/ WillConnect(s)
        \/ <<s, route.epoch>> \in reports

\* A held client cannot overflow its buffer: its socket is read once and armed again only
\* after the buffer was written, so data never comes to a session that holds some
\* (Flow.handle_client_data, Transport.arm_client).
BufferNeverOverflows ==
    \A s \in Sessions : InMailbox(s, "data") => session[s].buffer = <<>>

\* What a client wrote reaches guests in its order, whatever moves or fails in between, and
\* nothing is skipped: a chunk may come twice, but all earlier ones came before.
ClientBytesInOrder ==
    \A s \in Sessions : \A k \in 1..Len(got[s]) :
        LET previous == IF k = 1 THEN 0 ELSE got[s][k - 1]
        IN  got[s][k] \in {previous, previous + 1}

\* What a session read and has not delivered it still holds.
NothingDropped ==
    \A s \in Sessions : session[s].status = "up" =>
        \A n \in 1..sent[s] : n \in Range(got[s]) \cup Range(session[s].buffer)
                                \/ Queued(s, "data", n)

(* Liveness: every process handles its messages, timers fire, DOWN messages arrive, and a  *)
(* worker that accepts connections again and again is reached at last.                     *)
ProxyFairness ==
    /\ \A s \in Sessions : /\ WF_proxyVars(SessionStep(s)) /\ WF_proxyVars(RetryTimerFires(s))
                           /\ WF_proxyVars(UnregisterSession(s))
                           /\ SF_proxyVars(ConnectSucceeds(s))
    /\ \A s \in Sessions, e \in Epochs : WF_proxyVars(SessionConnected(s, e))

ProxyFairSpec == ProxySpec /\ ProxyFairness

\* A route that waits for its sessions becomes active, so that it can be cut over again.
RouteSettles == route.phase = "reconnecting" ~> route.phase = "active"
=============================================================================
