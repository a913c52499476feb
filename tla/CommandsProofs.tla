--------------------------- MODULE CommandsProofs ---------------------------
(***************************************************************************)
(* Theorems about Commands, for every set of command ids, channels and     *)
(* tasks, and any number of migrations, lost answers and crashes.          *)
(***************************************************************************)
EXTENDS Commands, WellFoundedInduction, TLAPS

(* Types.                                                                  *)

\* The owner changes at most once in a migration: the copies do not run out.
CopyBound ==
    /\ sandbox.copy <= moves + 1
    /\ sandbox.stage \in {"open", "barrier", "resumed"} => sandbox.copy <= moves

\* The offsets of this sandbox's records.
Ours == {i \in 1..Len(log) : log[i] \in Ids}

\* The records a replay has left are in the broker's log, and none is another sandbox's.
HasRecords(t) == task[t].at \in {"run", "call", "mark"}

TodoInLog == \A t \in Tasks : HasRecords(t) => task[t].todo # {} /\ task[t].todo \subseteq Ours

Typed == CommandsTypeOK /\ CopyBound /\ TodoInLog

\* A set of numbers has a least element, and Min finds it.
LEMMA MinOfSet ==
    ASSUME NEW S, S \subseteq Nat, S # {}
    PROVE  Min(S) \in S /\ \A y \in S : Min(S) <= y
<1> DEFINE Below == {p \in Nat \X Nat : p[1] < p[2]}
<1>1. OpToRel(<, Nat) = Below BY Zenon DEF OpToRel
<1>2. IsWellFoundedOn(Below, Nat) BY <1>1, NatLessThanWellFounded, Zenon
<1>3. \E x \in S : \A y \in S : ~ (<<y, x>> \in Below)
  <2> HIDE DEF Below
  <2> QED BY <1>2, WFMin
<1>4. PICK x \in S : \A y \in S : ~ (<<y, x>> \in Below) BY <1>3
<1>5. ASSUME NEW y \in S PROVE x <= y
  <2>1. <<y, x>> \notin Below /\ y \in Nat /\ x \in Nat BY <1>4
  <2>2. ~ (y < x) BY <2>1
  <2> QED BY <2>1, <2>2
<1> QED BY <1>5 DEF Min

\* The record a task is at is one of those it has left.
LEMMA CurrentRecord ==
    ASSUME Typed, NEW t \in Tasks, HasRecords(t)
    PROVE  /\ NextOffset(t) \in task[t].todo
           /\ \A i \in task[t].todo : NextOffset(t) <= i
           /\ NextOffset(t) \in 1..Len(log)
           /\ Current(t) \in Ids
<1>1. task[t].todo # {} /\ task[t].todo \subseteq Ours BY DEF Typed, TodoInLog
<1>2. log \in Seq(Ids \cup {Other}) /\ Ours \subseteq 1..Len(log)
  BY DEF Typed, CommandsTypeOK, Ours
<1>3. task[t].todo \subseteq Nat
  <2>1. Len(log) \in Nat BY <1>2
  <2>2. 1..Len(log) \subseteq Nat BY <2>1
  <2> QED BY <1>1, <1>2, <2>2
<1>4. NextOffset(t) \in task[t].todo /\ \A i \in task[t].todo : NextOffset(t) <= i
  BY <1>1, <1>3, MinOfSet DEF NextOffset
<1> QED BY <1>1, <1>2, <1>4 DEF Current, Ours

\* A step of the migration keeps the types of what it changes.
LEMMA MigrationTyped ==
    ASSUME Typed, MigrationStep PROVE Typed'
<1> DEFINE Rows  == /\ sandbox.stage \in Stages /\ sandbox.copy \in Copies
                    /\ sandbox = [stage |-> sandbox.stage, copy |-> sandbox.copy]
           Life  == /\ live \in Copies \cup {NoCopy} /\ moves \in 0..MaxMigrations
                    /\ finishing \in BOOLEAN
<1>1. Rows /\ Life /\ CopyBound BY DEF Typed, CommandsTypeOK
<1>2. Rows' /\ Life' /\ CopyBound'
  <2> USE <1>1, CommandBounds DEF CopyBound, Copies, NoCopy, Stages, Migrating, Stage
  <2>1. CASE StartMigration BY <2>1 DEF StartMigration
  <2>2. CASE FailEarly BY <2>2 DEF FailEarly
  <2>3. CASE RaiseBarrier BY <2>3 DEF RaiseBarrier
  <2>4. CASE PauseSource BY <2>4 DEF PauseSource
  <2>5. CASE RollBack BY <2>5 DEF RollBack
  <2>6. CASE ResumeDestination BY <2>6 DEF ResumeDestination
  <2>7. CASE ChangeOwner BY <2>7 DEF ChangeOwner
  <2>8. CASE GiveUp BY <2>8 DEF GiveUp
  <2>9. CASE Finish BY <2>9 DEF Finish
  <2> QED BY <2>1, <2>2, <2>3, <2>4, <2>5, <2>6, <2>7, <2>8, <2>9 DEF MigrationStep
<1>3. UNCHANGED <<row, log, channel, task, faults, history>> BY DEF MigrationStep
<1> QED BY <1>2, <1>3 DEF Typed, CommandsTypeOK, TodoInLog, Ours, HasRecords, history

\* A replay starts a task with the rows its caller has read.
LEMMA ReplayTyped ==
    ASSUME Typed, NEW pending \in SUBSET Ids, Replay(pending), log' = log
    PROVE  task' \in [Tasks -> TaskStates] /\ TodoInLog'
<1>1. [at |-> "fetch", pending |-> pending] \in TaskStates BY DEF TaskStates
<1>2. Ours' = Ours BY DEF Ours
<1>3. task' \in [Tasks -> TaskStates] BY <1>1 DEF Replay, Typed, CommandsTypeOK
<1>4. ASSUME NEW u \in Tasks, HasRecords(u)'
      PROVE  task'[u].todo # {} /\ task'[u].todo \subseteq Ours
  <2>1. task'[u] = task[u] BY <1>4 DEF Replay, HasRecords, Typed, CommandsTypeOK
  <2> QED BY <1>4, <2>1 DEF HasRecords, Typed, TodoInLog
<1> QED BY <1>2, <1>3, <1>4 DEF TodoInLog

LEMMA MaybeReplayTyped ==
    ASSUME Typed, NEW pending \in SUBSET Ids, NEW settled,
           MaybeReplay(settled, pending), log' = log
    PROVE  task' \in [Tasks -> TaskStates] /\ TodoInLog'
<1>1. CASE settled BY <1>1, ReplayTyped DEF MaybeReplay
<1>2. CASE ~settled BY <1>2 DEF MaybeReplay, Typed, CommandsTypeOK, TodoInLog, Ours,
                                     HasRecords
<1> QED BY <1>1, <1>2

\* A task that goes on has records left, or is free.
LEMMA GoOnTyped ==
    ASSUME Typed, NEW t \in Tasks, NEW todo \in SUBSET Ours, GoOn(t, todo), log' = log
    PROVE  task' \in [Tasks -> TaskStates] /\ TodoInLog'
<1>1. log \in Seq(Ids \cup {Other}) /\ Ours \subseteq 1..Len(log) /\ Ours' = Ours
  BY DEF Typed, CommandsTypeOK, Ours
<1>2. [at |-> "run", todo |-> todo] \in TaskStates /\ Free \in TaskStates
  BY <1>1 DEF TaskStates
<1>3. task' \in [Tasks -> TaskStates] BY <1>2 DEF GoOn, Typed, CommandsTypeOK
<1>4. ASSUME NEW u \in Tasks, HasRecords(u)'
      PROVE  task'[u].todo # {} /\ task'[u].todo \subseteq Ours
  BY <1>4 DEF GoOn, Typed, CommandsTypeOK, TodoInLog, HasRecords, Free
<1> QED BY <1>1, <1>3, <1>4 DEF TodoInLog

\* A task at one of its records stays at it.
LEMMA StayTyped ==
    ASSUME Typed, NEW t \in Tasks, HasRecords(t), log' = log,
           NEW state \in TaskStates, state.at \in {"call", "mark"}, state.todo = task[t].todo,
           task' = [task EXCEPT ![t] = state]
    PROVE  task' \in [Tasks -> TaskStates] /\ TodoInLog'
BY DEF Typed, CommandsTypeOK, TodoInLog, Ours, HasRecords

\* A step of a task keeps the types of what it changes.
LEMMA TaskTyped ==
    ASSUME Typed, NEW t \in Tasks, TaskStep(t) PROVE Typed'
<1> USE DEF life, history
<1>1. /\ task' \in [Tasks -> TaskStates] /\ TodoInLog'
      /\ row' \in [Ids -> [status : {"none", "publishing", "pending", "done", "failed"},
                           offset : Nat]]
      /\ ran' \in SUBSET Ids /\ tried' \in SUBSET Ids
      /\ UNCHANGED <<life, log, channel, faults, earlier>>
  <2> USE DEF Typed, CommandsTypeOK
  <2>1. CASE FetchSucceeds(t)
    <3>1. task[t].pending \subseteq Ids BY <2>1 DEF FetchSucceeds, TaskStates, Free
    <3>2. FirstRecords(task[t].pending) \in SUBSET Ours
      BY <3>1 DEF FirstRecords, Fetched, Ours
    <3> QED BY <2>1, <3>2, GoOnTyped DEF FetchSucceeds
  <2>2. CASE FetchFails(t)
    <3>1. Free \in TaskStates BY DEF TaskStates
    <3> QED BY <2>2, <3>1 DEF FetchFails, TodoInLog, Ours, HasRecords, Free
  <2>3. CASE TryCommand(t)
    <3>1. HasRecords(t) /\ task[t].todo \in SUBSET Nat
      BY <2>3 DEF TryCommand, HasRecords, TaskStates, Free
    <3>2. /\ [at |-> "mark", todo |-> task[t].todo, result |-> "failed"] \in TaskStates
          /\ [at |-> "call", todo |-> task[t].todo, copy |-> sandbox.copy] \in TaskStates
      BY <3>1 DEF TaskStates
    <3>3. task' \in [Tasks -> TaskStates] /\ TodoInLog'
      BY <2>3, <3>1, <3>2, StayTyped DEF TryCommand
    <3> QED BY <2>3, <3>1, <3>3, CurrentRecord DEF TryCommand
  <2>4. CASE CommandAnswered(t)
    <3>1. HasRecords(t) /\ task[t].todo \in SUBSET Nat
      BY <2>4 DEF CommandAnswered, HasRecords, TaskStates, Free
    <3>2. \A result \in {"done", "failed"} :
             [at |-> "mark", todo |-> task[t].todo, result |-> result] \in TaskStates
      BY <3>1 DEF TaskStates
    <3>3. task' \in [Tasks -> TaskStates] /\ TodoInLog'
      BY <2>4, <3>1, <3>2, StayTyped DEF CommandAnswered
    <3> QED BY <2>4, <3>1, <3>3, CurrentRecord DEF CommandAnswered, MayRun
  <2>5. CASE MarkCommand(t)
    <3>1. HasRecords(t) /\ task[t].result \in {"done", "failed"}
      BY <2>5 DEF MarkCommand, HasRecords, TaskStates, Free
    <3>2. task[t].todo \ {NextOffset(t)} \in SUBSET Ours
      BY <3>1 DEF TodoInLog
    <3>3. task' \in [Tasks -> TaskStates] /\ TodoInLog'
      BY <2>5, <3>2, GoOnTyped DEF MarkCommand
    <3> QED BY <2>5, <3>1, <3>3 DEF MarkCommand
  <2> QED BY <2>1, <2>2, <2>3, <2>4, <2>5 DEF TaskStep
<1> QED BY <1>1 DEF Typed, CommandsTypeOK, CopyBound

\* What a channel knows at each of its steps.
LEMMA ChannelFields ==
    ASSUME Typed, NEW h \in Channels
    PROVE  /\ channel[h].at = "route" => channel[h].id \in Ids /\ channel[h].settled \in BOOLEAN
           /\ channel[h].at \in {"insert", "publish"} =>
                 channel[h] \in [at : {"insert", "publish"}, id : Ids, settled : BOOLEAN,
                                 again : BOOLEAN]
           /\ channel[h].at = "update" =>
                 channel[h] \in [at : {"update"}, id : Ids, settled : BOOLEAN,
                                 again : BOOLEAN, offset : Nat]
           /\ channel[h].at \in {"run", "call"} => channel[h].id \in Ids
BY DEF Typed, CommandsTypeOK, ChannelStates, Idle

\* A channel that turns to a state it may have.
LEMMA TurnsTyped ==
    ASSUME Typed, NEW h \in Channels, NEW to \in ChannelStates, Turns(h, to)
    PROVE  channel' \in [Channels -> ChannelStates]
BY DEF Typed, CommandsTypeOK, Turns

LEMMA AnswersTyped ==
    ASSUME Typed, NEW h \in Channels, Answers(h)
    PROVE  channel' \in [Channels -> ChannelStates]
<1>1. Idle \in ChannelStates BY DEF ChannelStates
<1> QED BY <1>1, TurnsTyped DEF Answers

\* A publication adds one record to the log.
LEMMA LogGrows ==
    ASSUME Typed, NEW c \in Ids \cup {Other}, log' = Append(log, c)
    PROVE  /\ log' \in Seq(Ids \cup {Other})
           /\ Len(log) \in Nat
           /\ Len(log') = Len(log) + 1
           /\ \A i \in 1..Len(log) : log'[i] = log[i]
           /\ log'[Len(log) + 1] = c
           /\ Ours \subseteq Ours'
<1>1. /\ log' \in Seq(Ids \cup {Other})
      /\ Len(log) \in Nat
      /\ Len(log') = Len(log) + 1
      /\ \A i \in 1..Len(log) : log'[i] = log[i]
      /\ log'[Len(log) + 1] = c
  BY DEF Typed, CommandsTypeOK
<1> QED BY <1>1 DEF Ours

\* The steps of a channel that publishes.
LEMMA PublishTyped ==
    ASSUME Typed, NEW h \in Channels,
           PublishAnswered(h) \/ PublishRefused(h) \/ PublishUnanswered(h)
    PROVE  Typed'
<1>1. /\ channel[h].at = "publish"
      /\ channel[h] \in [at : {"insert", "publish"}, id : Ids, settled : BOOLEAN,
                         again : BOOLEAN]
  BY ChannelFields DEF PublishAnswered, PublishRefused, PublishUnanswered
<1>2. CASE PublishAnswered(h)
  <2>1. /\ log' \in Seq(Ids \cup {Other}) /\ Len(log') \in Nat /\ Ours \subseteq Ours'
    BY <1>1, <1>2, LogGrows DEF PublishAnswered
  <2>2. [at |-> "update", id |-> channel[h].id, settled |-> channel[h].settled,
         again |-> channel[h].again, offset |-> Len(log')] \in ChannelStates
    BY <1>1, <2>1 DEF ChannelStates
  <2>3. channel' \in [Channels -> ChannelStates] BY <1>2, <2>2, TurnsTyped DEF PublishAnswered
  <2>4. TodoInLog' BY <1>2, <2>1 DEF PublishAnswered, Typed, TodoInLog, HasRecords
  <2> QED BY <1>2, <2>1, <2>3, <2>4
          DEF PublishAnswered, Typed, CommandsTypeOK, CopyBound, life, history
<1>3. CASE PublishRefused(h)
  BY <1>3, AnswersTyped
     DEF PublishRefused, Typed, CommandsTypeOK, CopyBound, TodoInLog, Ours, HasRecords, life,
         history
<1>4. CASE PublishUnanswered(h)
  <2>1. /\ log' \in Seq(Ids \cup {Other}) /\ Len(log') \in Nat /\ Ours \subseteq Ours'
    BY <1>1, <1>4, LogGrows DEF PublishUnanswered
  <2>2. channel' \in [Channels -> ChannelStates] BY <1>4, AnswersTyped DEF PublishUnanswered
  <2>3. faults' \in 0..MaxFaults
    BY <1>4, CommandBounds DEF PublishUnanswered, Typed, CommandsTypeOK
  <2>4. TodoInLog' BY <1>4, <2>1 DEF PublishUnanswered, Typed, TodoInLog, HasRecords
  <2> QED BY <1>4, <2>1, <2>2, <2>3, <2>4
          DEF PublishUnanswered, Typed, CommandsTypeOK, CopyBound, life, history
<1> QED BY <1>2, <1>3, <1>4

LEMMA RouteTyped ==
    ASSUME Typed, NEW h \in Channels, Route(h) PROVE Typed'
<1>1. channel[h].id \in Ids /\ channel[h].settled \in BOOLEAN
  BY ChannelFields DEF Route
<1>2. /\ [at |-> "run", id |-> channel[h].id] \in ChannelStates
      /\ \A again \in BOOLEAN : [at |-> "insert", id |-> channel[h].id,
                                 settled |-> channel[h].settled, again |-> again]
                                \in ChannelStates
  BY <1>1 DEF ChannelStates
<1>3. channel' \in [Channels -> ChannelStates]
  BY <1>2, TurnsTyped, AnswersTyped DEF Route
<1>4. task' \in [Tasks -> TaskStates] /\ TodoInLog'
  <2>1. log' = log BY DEF Route
  <2>2. CASE UNCHANGED task BY <2>1, <2>2 DEF Typed, CommandsTypeOK, TodoInLog, Ours, HasRecords
  <2>3. CASE MaybeReplay(channel[h].settled, Replayable)
    BY <2>1, <2>3, MaybeReplayTyped DEF Replayable
  <2> QED BY <2>2, <2>3 DEF Route
<1> QED BY <1>3, <1>4 DEF Route, Typed, CommandsTypeOK, CopyBound, life, history

LEMMA PublishedTyped ==
    ASSUME Typed, NEW h \in Channels, NEW pending \in SUBSET Ids, Published(h, pending),
           log' = log
    PROVE  /\ channel' \in [Channels -> ChannelStates]
           /\ task' \in [Tasks -> TaskStates] /\ TodoInLog'
BY AnswersTyped, MaybeReplayTyped DEF Published

LEMMA InsertTyped ==
    ASSUME Typed, NEW h \in Channels, Insert(h) PROVE Typed'
<1>1. channel[h] \in [at : {"insert", "publish"}, id : Ids, settled : BOOLEAN, again : BOOLEAN]
  BY ChannelFields DEF Insert
<1>2. [channel[h] EXCEPT !.at = "publish"] \in ChannelStates BY <1>1 DEF ChannelStates
<1>3. log' = log BY DEF Insert
<1>4. /\ channel' \in [Channels -> ChannelStates]
      /\ task' \in [Tasks -> TaskStates] /\ TodoInLog'
  <2>1. CASE UNCHANGED task /\ Turns(h, [channel[h] EXCEPT !.at = "publish"])
    BY <1>2, <1>3, <2>1, TurnsTyped DEF Typed, CommandsTypeOK, TodoInLog, Ours,
                                              HasRecords
  <2>2. CASE Published(h, Replayable) BY <1>3, <2>2, PublishedTyped DEF Replayable
  <2> QED BY <2>1, <2>2 DEF Insert
<1>5. /\ row' \in [Ids -> [status : {"none", "publishing", "pending", "done", "failed"},
                           offset : Nat]]
      /\ earlier' \in [Ids -> SUBSET Ids]
  <2> DEFINE c == channel[h].id
  <2>1. c \in Ids /\ Queued \in SUBSET Ids BY <1>1 DEF Queued
  <2>2. CASE UNCHANGED row BY <2>1, <2>2 DEF Insert, Typed, CommandsTypeOK
  <2>3. CASE row' = [row EXCEPT ![c].status = "publishing"] /\ earlier' = [earlier EXCEPT ![c] = Queued]
    BY <2>1, <2>3 DEF Typed, CommandsTypeOK
  <2> QED BY <2>2, <2>3 DEF Insert
<1> QED BY <1>4, <1>5 DEF Insert, Typed, CommandsTypeOK, CopyBound, life

LEMMA UpdateTyped ==
    ASSUME Typed, NEW h \in Channels, UpdatePublished(h) PROVE Typed'
<1>1. channel[h].id \in Ids /\ channel[h].offset \in Nat
  BY ChannelFields DEF UpdatePublished
<1>2. row' \in [Ids -> [status : {"none", "publishing", "pending", "done", "failed"},
                        offset : Nat]]
  BY <1>1 DEF UpdatePublished, Typed, CommandsTypeOK
<1>3. /\ channel' \in [Channels -> ChannelStates]
      /\ task' \in [Tasks -> TaskStates] /\ TodoInLog'
  <2>1. Replayable \cup {channel[h].id} \in SUBSET Ids BY <1>1 DEF Replayable
  <2> QED BY <2>1, PublishedTyped DEF UpdatePublished
<1> QED BY <1>2, <1>3 DEF UpdatePublished, Typed, CommandsTypeOK, CopyBound, life, history

LEMMA DirectTyped ==
    ASSUME Typed, NEW h \in Channels, RunDirectly(h) \/ DirectAnswered(h) PROVE Typed'
<1>1. channel[h].id \in Ids BY ChannelFields DEF RunDirectly, DirectAnswered
<1>2. channel' \in [Channels -> ChannelStates]
  <2>1. [at |-> "call", id |-> channel[h].id, copy |-> sandbox.copy] \in ChannelStates
    BY <1>1 DEF ChannelStates, Typed, CommandsTypeOK
  <2> QED BY <2>1, TurnsTyped, AnswersTyped DEF RunDirectly, DirectAnswered
<1>3. ran' \in SUBSET Ids
  BY <1>1 DEF RunDirectly, DirectAnswered, MayRun, Typed, CommandsTypeOK, history
<1> QED BY <1>2, <1>3 DEF RunDirectly, DirectAnswered, Typed, CommandsTypeOK, CopyBound,
                          TodoInLog, Ours, HasRecords, life, history

LEMMA SubmitTyped ==
    ASSUME Typed, NEW h \in Channels, NEW c \in Ids, Submit(h, c) PROVE Typed'
<1>1. [at |-> "route", id |-> c, settled |-> sandbox.stage = "settled"] \in ChannelStates
  BY DEF ChannelStates
<1>2. channel' \in [Channels -> ChannelStates] BY <1>1, TurnsTyped DEF Submit
<1> QED BY <1>2 DEF Submit, Typed, CommandsTypeOK, CopyBound, TodoInLog, Ours,
                    HasRecords, life, history

\* The type invariant: every variable stays in its type, the copies of the guest do not run
\* out, and every record a replay has left is in the log.
LEMMA TypeStep ==
    ASSUME Typed, [CommandsNext]_commandVars PROVE Typed'
<1>1. CASE MigrationStep BY <1>1, MigrationTyped
<1>2. CASE ReplayAfterDone
  <2>1. task' \in [Tasks -> TaskStates] /\ TodoInLog'
    BY <1>2, ReplayTyped DEF ReplayAfterDone, Replayable
  <2> QED BY <1>2, <2>1 DEF ReplayAfterDone, Typed, CommandsTypeOK, CopyBound, history
<1>3. ASSUME NEW t \in Tasks, TaskStep(t) PROVE Typed' BY <1>3, TaskTyped
<1>4. ASSUME NEW h \in Channels, (\E c \in Ids : Submit(h, c)) \/ ChannelStep(h) PROVE Typed'
  BY <1>4, SubmitTyped, RouteTyped, InsertTyped, PublishTyped, UpdateTyped, DirectTyped
     DEF ChannelStep
<1>5. CASE CoordinatorCrash
  <2>1. Idle \in ChannelStates /\ Free \in TaskStates BY DEF ChannelStates, TaskStates
  <2>2. TodoInLog' BY <1>5 DEF CoordinatorCrash, TodoInLog, HasRecords, Free
  <2>3. faults' \in 0..MaxFaults
    BY <1>5, CommandBounds DEF CoordinatorCrash, Typed, CommandsTypeOK
  <2> QED BY <1>5, <2>1, <2>2, <2>3
          DEF CoordinatorCrash, Typed, CommandsTypeOK, CopyBound, history
<1>7. CASE OtherPublishes
  <2>1. /\ log' \in Seq(Ids \cup {Other}) /\ Ours \subseteq Ours'
    BY <1>7, LogGrows DEF OtherPublishes
  <2>2. TodoInLog' BY <1>7, <2>1 DEF OtherPublishes, Typed, TodoInLog, HasRecords
  <2> QED BY <1>7, <2>1, <2>2
          DEF OtherPublishes, Typed, CommandsTypeOK, CopyBound, life, history
<1>6. CASE UNCHANGED commandVars
  BY <1>6 DEF commandVars, Typed, CommandsTypeOK, CopyBound, TodoInLog, Ours, HasRecords, life,
              history
<1> QED BY <1>1, <1>2, <1>3, <1>4, <1>5, <1>6, <1>7 DEF CommandsNext

LEMMA AlwaysTyped == CommandsSpec => []Typed
<1>1. ASSUME CommandsInit PROVE Typed
  <2>1. Idle \in ChannelStates /\ Free \in TaskStates BY DEF ChannelStates, TaskStates
  <2>2. /\ sandbox \in [stage : Stages, copy : Copies] /\ live \in Copies \cup {NoCopy}
        /\ moves \in 0..MaxMigrations /\ faults \in 0..MaxFaults
        /\ CopyBound
    BY <1>1, CommandBounds DEF CommandsInit, Copies, Stages, CopyBound
  <2>3. row \in [Ids -> [status : {"none", "publishing", "pending", "done", "failed"},
                         offset : Nat]]
    BY <1>1 DEF CommandsInit, NoRow, NoOffset
  <2>4. TodoInLog BY <1>1 DEF CommandsInit, TodoInLog, HasRecords, Free
  <2>5. /\ channel \in [Channels -> ChannelStates] /\ task \in [Tasks -> TaskStates]
    BY <1>1, <2>1 DEF CommandsInit
  <2>6. log \in Seq(Ids \cup {Other}) BY <1>1 DEF CommandsInit
  <2>7. /\ finishing \in BOOLEAN /\ ran \in SUBSET Ids /\ tried \in SUBSET Ids
        /\ earlier \in [Ids -> SUBSET Ids]
    BY <1>1 DEF CommandsInit
  <2> QED BY <2>2, <2>3, <2>4, <2>5, <2>6, <2>7 DEF Typed, CommandsTypeOK
<1> QED BY <1>1, TypeStep, PTL DEF CommandsSpec

\* Every state of Commands is well typed: a row has one of its statuses, a task and a channel
\* one of their states, and a call names a copy of the guest that exists.
THEOREM CommandsTypeCorrect == CommandsSpec => []CommandsTypeOK
<1>1. Typed => CommandsTypeOK BY DEF Typed
<1> QED BY <1>1, AlwaysTyped, PTL

-----------------------------------------------------------------------------
(* What a step does to the log and to the records of a task.               *)

\* The log only grows, and a task that has records had them before the step, or has just
\* fetched them; a record it is done with has been tried.
LEMMA LogKept ==
    ASSUME Typed, [CommandsNext]_commandVars
    PROVE  /\ Len(log) \in Nat /\ Len(log') \in Nat /\ Len(log) <= Len(log')
           /\ \A i \in 1..Len(log) : log'[i] = log[i]
<1>1. log \in Seq(Ids \cup {Other}) BY DEF Typed, CommandsTypeOK
<1>2. CASE log' = log BY <1>1, <1>2
<1>3. ASSUME NEW h \in Channels, PublishAnswered(h) \/ PublishUnanswered(h)
      PROVE  /\ Len(log) \in Nat /\ Len(log') \in Nat /\ Len(log) <= Len(log')
             /\ \A i \in 1..Len(log) : log'[i] = log[i]
  <2>1. channel[h].id \in Ids BY <1>3, ChannelFields DEF PublishAnswered, PublishUnanswered
  <2> QED BY <1>3, <2>1, LogGrows DEF PublishAnswered, PublishUnanswered
<1>4. CASE OtherPublishes BY <1>4, LogGrows DEF OtherPublishes
<1> QED BY <1>2, <1>3, <1>4 DEF CommandsNext, commandVars, MigrationStep, ReplayAfterDone, TaskStep,
      FetchSucceeds, FetchFails, TryCommand, CommandAnswered, MarkCommand, ChannelStep, Submit,
      Route, Insert, PublishRefused, UpdatePublished, RunDirectly, DirectAnswered,
      CoordinatorCrash

\* What becomes of the records of u in a step: it loses only the one it has marked.
KeepsRecords(u) ==
    HasRecords(u)' =>
        \/ /\ HasRecords(u) /\ task'[u].todo \subseteq task[u].todo
           /\ \A i \in task[u].todo \ task'[u].todo : task[u].at = "mark" /\ i = NextOffset(u)
        \/ task[u].at = "fetch" /\ task'[u].todo = FirstRecords(task[u].pending)

LEMMA ReplayKeeps ==
    ASSUME Typed, NEW pending, Replay(pending) \/ UNCHANGED task, NEW u \in Tasks
    PROVE  KeepsRecords(u)
<1>1. CASE UNCHANGED task BY <1>1 DEF KeepsRecords, HasRecords
<1>2. ASSUME NEW t \in Tasks, task[t] = Free,
             task' = [task EXCEPT ![t] = [at |-> "fetch", pending |-> pending]]
      PROVE  KeepsRecords(u)
  BY <1>2 DEF KeepsRecords, HasRecords, Typed, CommandsTypeOK
<1> QED BY <1>1, <1>2 DEF Replay

LEMMA RecordsKept ==
    ASSUME Typed, [CommandsNext]_commandVars, NEW u \in Tasks PROVE KeepsRecords(u)
<1>1. CASE ReplayAfterDone BY <1>1, ReplayKeeps DEF ReplayAfterDone
<1>2. ASSUME NEW t \in Tasks, TaskStep(t) PROVE KeepsRecords(u)
  <2> USE DEF Typed, CommandsTypeOK, KeepsRecords, HasRecords
  <2>1. CASE FetchSucceeds(t) BY <2>1 DEF FetchSucceeds, GoOn, Free
  <2>2. CASE FetchFails(t) BY <2>2 DEF FetchFails, Free
  <2>3. CASE TryCommand(t) BY <2>3 DEF TryCommand
  <2>4. CASE CommandAnswered(t) BY <2>4 DEF CommandAnswered
  <2>5. CASE MarkCommand(t) BY <2>5 DEF MarkCommand, GoOn, Free
  <2> QED BY <1>2, <2>1, <2>2, <2>3, <2>4, <2>5 DEF TaskStep
<1>3. ASSUME NEW h \in Channels, (\E c \in Ids : Submit(h, c)) \/ ChannelStep(h)
      PROVE  KeepsRecords(u)
  <2>1. UNCHANGED task \/ \E pending : Replay(pending)
    BY <1>3 DEF Submit, ChannelStep, Route, Insert, PublishAnswered, PublishRefused,
         PublishUnanswered, UpdatePublished, RunDirectly, DirectAnswered, Published, MaybeReplay
  <2> QED BY <2>1, ReplayKeeps
<1>4. CASE CoordinatorCrash BY <1>4 DEF CoordinatorCrash, KeepsRecords, HasRecords, Free
<1>5. CASE UNCHANGED task BY <1>5 DEF KeepsRecords, HasRecords
<1> QED BY <1>1, <1>2, <1>3, <1>4, <1>5 DEF CommandsNext, MigrationStep, OtherPublishes,
                                            commandVars

LEMMA ReplayRunsOnceStep ==
    ASSUME Typed, ReplayRunsOnce, [CommandsNext]_commandVars PROVE ReplayRunsOnce'
<1> SUFFICES ASSUME NEW t \in Tasks, HasRecords(t)',
                    NEW i \in task'[t].todo, NEW j \in task'[t].todo, log'[i] = log'[j]
             PROVE  i = j
  BY DEF ReplayRunsOnce, HasRecords
<1>1. CASE HasRecords(t) /\ task'[t].todo \subseteq task[t].todo
  <2>1. i \in 1..Len(log) /\ j \in 1..Len(log) BY <1>1 DEF Typed, TodoInLog, Ours
  <2>2. log[i] = log[j] BY <2>1, LogKept
  <2> QED BY <1>1, <2>2 DEF ReplayRunsOnce, HasRecords
<1>2. CASE task'[t].todo = FirstRecords(task[t].pending)
  <2>1. /\ i \in 1..Len(log) /\ \A k \in 1..(i - 1) : log[k] # log[i]
        /\ j \in 1..Len(log) /\ \A k \in 1..(j - 1) : log[k] # log[j]
    BY <1>2 DEF FirstRecords, Fetched
  <2>2. log[i] = log[j] BY <2>1, LogKept
  <2>3. Len(log) \in Nat BY LogKept
  <2> QED BY <2>1, <2>2, <2>3
<1> QED BY <1>1, <1>2, RecordsKept DEF KeepsRecords

\* One replay runs a command once, however often it was published and whatever other
\* channels publish while it runs.
THEOREM EveryReplayRunsOnce == CommandsSpec => []ReplayRunsOnce
<1>1. CommandsInit => ReplayRunsOnce BY DEF CommandsInit, ReplayRunsOnce, Free
<1> QED BY <1>1, ReplayRunsOnceStep, AlwaysTyped, PTL DEF CommandsSpec

-----------------------------------------------------------------------------
(* The table and the broker.                                               *)

\* What a channel is about to publish, or has published, is in the table, and a record it
\* has the offset of is its own.
Publishing ==
    \A h \in Channels :
        /\ channel[h].at \in {"publish", "update"} => row[channel[h].id].status # "none"
        /\ channel[h].at = "update" => /\ channel[h].offset \in 1..Len(log)
                                       /\ log[channel[h].offset] = channel[h].id

Agreement == QueueAgreesWithTable /\ Publishing

\* A channel that turns to something else than a publication.
LEMMA TurnsAgrees ==
    ASSUME Typed, Agreement, NEW h \in Channels, NEW to, Turns(h, to),
           to.at \notin {"publish", "update"}, UNCHANGED <<row, log>>
    PROVE  Agreement'
BY DEF Agreement, QueueAgreesWithTable, Publishing, Turns, Typed, CommandsTypeOK

LEMMA AnswersAgrees ==
    ASSUME Typed, Agreement, NEW h \in Channels, Answers(h), UNCHANGED <<row, log>>
    PROVE  Agreement'
BY TurnsAgrees DEF Answers, Idle

LEMMA InsertAgrees ==
    ASSUME Typed, Agreement, NEW h \in Channels, Insert(h) PROVE Agreement'
<1> DEFINE c == channel[h].id
<1>1. /\ channel[h] \in [at : {"insert", "publish"}, id : Ids, settled : BOOLEAN,
                         again : BOOLEAN]
      /\ c \in Ids /\ log' = log
  BY ChannelFields DEF Insert
<1>2. CASE c \in Queued /\ Published(h, Replayable) /\ UNCHANGED row
  BY <1>1, <1>2, AnswersAgrees DEF Published
<1>3. CASE /\ row[c].status \in {"none", "publishing"}
           /\ row' \in {row, [row EXCEPT ![c].status = "publishing"]}
           /\ row[c].status = "none" => row' = [row EXCEPT ![c].status = "publishing"]
           /\ Turns(h, [channel[h] EXCEPT !.at = "publish"])
  <2>1. /\ channel' = [channel EXCEPT ![h] = [channel[h] EXCEPT !.at = "publish"]]
        /\ channel'[h].at = "publish" /\ channel'[h].id = c
        /\ \A g \in Channels \ {h} : channel'[g] = channel[g]
    BY <1>1, <1>3 DEF Turns, Typed, CommandsTypeOK
  <2>2. /\ row'[c].status = "publishing"
        /\ \A d \in Ids : row[d].status # "none" => row'[d].status # "none"
        /\ \A d \in Ids : row'[d].status = "pending" =>
               row[d].status = "pending" /\ row'[d].offset = row[d].offset
    <3>1. CASE row' = row
      <4>1. row[c].status = "publishing"
        <5>1. row[c].status = "none" => row'[c].status = "publishing"
          BY <1>1, <1>3 DEF Typed, CommandsTypeOK
        <5> QED BY <1>3, <3>1, <5>1
      <4> QED BY <3>1, <4>1
    <3>2. CASE row' = [row EXCEPT ![c].status = "publishing"]
      BY <1>1, <3>2 DEF Typed, CommandsTypeOK
    <3> QED BY <1>3, <3>1, <3>2
  <2>3. QueueAgreesWithTable'
    <3>1. ASSUME NEW d \in Ids, row'[d].status = "pending"
          PROVE  row'[d].offset \in 1..Len(log) /\ log[row'[d].offset] = d
      BY <2>2, <3>1 DEF Agreement, QueueAgreesWithTable
    <3>2. ASSUME NEW i \in 1..Len(log), log[i] \in Ids PROVE row'[log[i]].status # "none"
      BY <2>2, <3>2 DEF Agreement, QueueAgreesWithTable
    <3> QED BY <1>1, <3>1, <3>2 DEF QueueAgreesWithTable
  <2>4. Publishing'
    <3>1. ASSUME NEW g \in Channels, channel'[g].at \in {"publish", "update"}
          PROVE  row'[channel'[g].id].status # "none"
      <4>1. CASE g = h BY <2>1, <2>2, <4>1
      <4>2. CASE g # h
        <5>1. channel[g].id \in Ids BY <2>1, <3>1, <4>2, ChannelFields
        <5> QED BY <2>1, <2>2, <3>1, <4>2, <5>1 DEF Agreement, Publishing
      <4> QED BY <4>1, <4>2
    <3>2. ASSUME NEW g \in Channels, channel'[g].at = "update"
          PROVE  /\ channel'[g].offset \in 1..Len(log')
                 /\ log'[channel'[g].offset] = channel'[g].id
      BY <1>1, <2>1, <3>2 DEF Agreement, Publishing
    <3> QED BY <3>1, <3>2 DEF Publishing
  <2> QED BY <2>3, <2>4 DEF Agreement
<1> QED BY <1>2, <1>3 DEF Insert

\* Rows other than the published one do not change, and the log keeps its records.
LEMMA AppendAgrees ==
    ASSUME Typed, Agreement, NEW h \in Channels, channel[h].at = "publish",
           log' = Append(log, channel[h].id), UNCHANGED row,
           \A g \in Channels \ {h} : channel'[g] = channel[g],
           \/ channel'[h] = Idle
           \/ channel'[h].at = "update" /\ channel'[h].id = channel[h].id
                                        /\ channel'[h].offset = Len(log')
    PROVE  Agreement'
<1>1. channel[h].id \in Ids /\ row[channel[h].id].status # "none"
  BY ChannelFields DEF Agreement, Publishing
<1>2. /\ Len(log) \in Nat /\ Len(log') = Len(log) + 1
      /\ \A i \in 1..Len(log) : log'[i] = log[i]
      /\ log'[Len(log')] = channel[h].id
  BY <1>1, LogGrows
<1>3. QueueAgreesWithTable' BY <1>1, <1>2 DEF Agreement, QueueAgreesWithTable
<1>4. Publishing'
  <2>1. ASSUME NEW g \in Channels
        PROVE  /\ channel'[g].at \in {"publish", "update"} => row'[channel'[g].id].status # "none"
               /\ channel'[g].at = "update" => /\ channel'[g].offset \in 1..Len(log')
                                               /\ log'[channel'[g].offset] = channel'[g].id
    <3>1. CASE g = h BY <1>1, <1>2, <3>1 DEF Idle
    <3>2. CASE g # h BY <1>2, <3>2 DEF Agreement, Publishing
    <3> QED BY <3>1, <3>2
  <2> QED BY <2>1 DEF Publishing
<1> QED BY <1>3, <1>4 DEF Agreement

LEMMA PublishAgrees ==
    ASSUME Typed, Agreement, NEW h \in Channels,
           PublishAnswered(h) \/ PublishRefused(h) \/ PublishUnanswered(h)
    PROVE  Agreement'
<1> USE DEF Typed, CommandsTypeOK, Turns, Answers
<1>1. CASE PublishAnswered(h) BY <1>1, AppendAgrees DEF PublishAnswered
<1>2. CASE PublishRefused(h) BY <1>2, AnswersAgrees DEF PublishRefused
<1>3. CASE PublishUnanswered(h) BY <1>3, AppendAgrees DEF PublishUnanswered
<1> QED BY <1>1, <1>2, <1>3

\* A row gets another status, which is never "none", and keeps its record if it is pending.
LEMMA RowAgrees ==
    ASSUME Typed, Agreement, NEW c \in Ids, row[c].status # "none",
           NEW status \in {"pending", "done", "failed"}, NEW offset \in Nat,
           row' = [row EXCEPT ![c] = [status |-> status, offset |-> offset]],
           status = "pending" => offset \in 1..Len(log) /\ log[offset] = c,
           UNCHANGED log,
           \A g \in Channels : channel'[g] \in {channel[g], Idle}
    PROVE  Agreement'
<1>1. /\ \A d \in Ids : row[d].status # "none" => row'[d].status # "none"
      /\ \A d \in Ids \ {c} : row'[d] = row[d]
      /\ row'[c].status = status /\ row'[c].offset = offset
  BY DEF Typed, CommandsTypeOK
<1>2. QueueAgreesWithTable'
  BY <1>1 DEF Agreement, QueueAgreesWithTable, Typed, CommandsTypeOK
<1>3. Publishing'
  <2>1. ASSUME NEW g \in Channels
        PROVE  /\ channel'[g].at \in {"publish", "update"} => row'[channel'[g].id].status # "none"
               /\ channel'[g].at = "update" => /\ channel'[g].offset \in 1..Len(log')
                                               /\ log'[channel'[g].offset] = channel'[g].id
    <3>1. CASE channel'[g] = Idle BY <3>1 DEF Idle
    <3>2. CASE channel'[g] = channel[g] /\ channel[g].at \in {"publish", "update"}
      <4>1. channel[g].id \in Ids BY <3>2, ChannelFields
      <4> QED BY <1>1, <3>2, <4>1 DEF Agreement, Publishing
    <3> QED BY <3>1, <3>2
  <2> QED BY <2>1 DEF Publishing
<1> QED BY <1>2, <1>3 DEF Agreement

LEMMA UpdateAgrees ==
    ASSUME Typed, Agreement, NEW h \in Channels, UpdatePublished(h) PROVE Agreement'
<1>1. channel[h].id \in Ids /\ channel[h].offset \in Nat
  BY ChannelFields DEF UpdatePublished
<1>2. /\ row[channel[h].id].status # "none"
      /\ channel[h].offset \in 1..Len(log) /\ log[channel[h].offset] = channel[h].id
  BY DEF Agreement, Publishing, UpdatePublished
<1>3. \A g \in Channels : channel'[g] \in {channel[g], Idle}
  BY DEF UpdatePublished, Published, Answers, Turns, Typed, CommandsTypeOK
<1> QED BY <1>1, <1>2, <1>3, RowAgrees DEF UpdatePublished

LEMMA MarkAgrees ==
    ASSUME Typed, Agreement, NEW t \in Tasks, MarkCommand(t) PROVE Agreement'
<1> DEFINE c == Current(t)
<1>1. HasRecords(t) /\ task[t].result \in {"done", "failed"}
  BY DEF MarkCommand, HasRecords, Typed, CommandsTypeOK, TaskStates, Free
<1>2. c \in Ids /\ row[c].status # "none" /\ row[c].offset \in Nat
  BY <1>1, CurrentRecord DEF Current, Agreement, QueueAgreesWithTable, Typed, CommandsTypeOK
<1>3. row' = [row EXCEPT ![c] = [status |-> task[t].result, offset |-> row[c].offset]]
  <2>1. [row[c] EXCEPT !.status = task[t].result]
           = [status |-> task[t].result, offset |-> row[c].offset]
    BY <1>2 DEF Typed, CommandsTypeOK
  <2> QED BY <2>1 DEF MarkCommand
<1> HIDE DEF c
<1> QED BY <1>1, <1>2, <1>3, RowAgrees DEF MarkCommand

LEMMA AgreementStep ==
    ASSUME Typed, Agreement, [CommandsNext]_commandVars PROVE Agreement'
<1>1. CASE UNCHANGED <<row, log, channel>>
  BY <1>1 DEF Agreement, QueueAgreesWithTable, Publishing
<1>2. ASSUME NEW t \in Tasks, MarkCommand(t) PROVE Agreement' BY <1>2, MarkAgrees
<1>3. ASSUME NEW h \in Channels, NEW c \in Ids, Submit(h, c) PROVE Agreement'
  BY <1>3, TurnsAgrees DEF Submit
<1>4. ASSUME NEW h \in Channels, Route(h) PROVE Agreement'
  BY <1>4, TurnsAgrees, AnswersAgrees DEF Route
<1>5. ASSUME NEW h \in Channels, RunDirectly(h) \/ DirectAnswered(h) PROVE Agreement'
  BY <1>5, TurnsAgrees, AnswersAgrees DEF RunDirectly, DirectAnswered
<1>6. CASE CoordinatorCrash
  BY <1>6 DEF CoordinatorCrash, Agreement, QueueAgreesWithTable, Publishing, Idle
<1>7. CASE OtherPublishes
  <2>1. /\ Len(log) \in Nat /\ Len(log') = Len(log) + 1 /\ log'[Len(log) + 1] = Other
        /\ \A i \in 1..Len(log) : log'[i] = log[i]
    BY <1>7, LogGrows DEF OtherPublishes
  <2>2. UNCHANGED <<row, channel>> BY <1>7 DEF OtherPublishes
  <2> QED BY <2>1, <2>2, OtherAssumption DEF Agreement, QueueAgreesWithTable, Publishing
<1> QED BY <1>1, <1>2, <1>3, <1>4, <1>5, <1>6, <1>7, InsertAgrees, PublishAgrees, UpdateAgrees
        DEF CommandsNext, commandVars, MigrationStep, ReplayAfterDone, TaskStep,
            FetchSucceeds, FetchFails, TryCommand, CommandAnswered, ChannelStep

LEMMA AlwaysAgrees == CommandsSpec => []Agreement
<1>1. CommandsInit => Agreement
  BY DEF CommandsInit, Agreement, QueueAgreesWithTable, Publishing, NoRow, Idle
<1> QED BY <1>1, AgreementStep, AlwaysTyped, PTL DEF CommandsSpec

\* The table and the broker agree, whoever publishes and whatever is lost on the way: a
\* queued command has its record at the offset its row names, and the broker holds no record
\* of a command the table does not know.
THEOREM QueueAlwaysAgrees == CommandsSpec => []QueueAgreesWithTable
<1>1. Agreement => QueueAgreesWithTable BY DEF Agreement
<1> QED BY <1>1, AlwaysAgrees, PTL

-----------------------------------------------------------------------------
(* What a step does to the tasks, the rows and the histories.              *)

\* A task is at its guest call, or marks its command, because it was there before or has just
\* got there.
LEMMA CallKept ==
    ASSUME Typed, [CommandsNext]_commandVars, NEW u \in Tasks, task'[u].at \in {"call", "mark"}
    PROVE  task'[u] = task[u] \/ TryCommand(u) \/ CommandAnswered(u)
<1> USE DEF Typed, CommandsTypeOK
<1>1. ASSUME NEW pending, Replay(pending) PROVE task'[u] = task[u] BY <1>1 DEF Replay
<1>2. CASE ReplayAfterDone BY <1>1, <1>2 DEF ReplayAfterDone
<1>3. ASSUME NEW t \in Tasks, TaskStep(t)
      PROVE  task'[u] = task[u] \/ TryCommand(u) \/ CommandAnswered(u)
  <2>1. CASE FetchSucceeds(t) BY <2>1 DEF FetchSucceeds, GoOn, Free
  <2>2. CASE FetchFails(t) BY <2>2 DEF FetchFails, Free
  <2>3. CASE TryCommand(t)
    <3>1. t = u \/ task'[u] = task[u] BY <2>3 DEF TryCommand
    <3> QED BY <2>3, <3>1
  <2>4. CASE CommandAnswered(t)
    <3>1. t = u \/ task'[u] = task[u] BY <2>4 DEF CommandAnswered
    <3> QED BY <2>4, <3>1
  <2>5. CASE MarkCommand(t) BY <2>5 DEF MarkCommand, GoOn, Free
  <2> QED BY <1>3, <2>1, <2>2, <2>3, <2>4, <2>5 DEF TaskStep
<1>4. ASSUME NEW h \in Channels, (\E c \in Ids : Submit(h, c)) \/ ChannelStep(h)
      PROVE  task'[u] = task[u]
  <2>1. UNCHANGED task \/ \E pending : Replay(pending)
    BY <1>4 DEF Submit, ChannelStep, Route, Insert, PublishAnswered, PublishRefused,
         PublishUnanswered, UpdatePublished, RunDirectly, DirectAnswered, Published, MaybeReplay
  <2> QED BY <1>1, <2>1
<1>5. CASE CoordinatorCrash BY <1>5 DEF CoordinatorCrash, Free
<1>6. CASE UNCHANGED task BY <1>6
<1> QED BY <1>2, <1>3, <1>4, <1>5, <1>6 DEF CommandsNext, MigrationStep, OtherPublishes,
                                            commandVars

\* A task that stays at its record stays at the same command.
LEMMA CurrentKept ==
    ASSUME Typed, [CommandsNext]_commandVars, NEW u \in Tasks, HasRecords(u),
           task'[u].todo = task[u].todo
    PROVE  Current(u)' = Current(u)
<1>1. NextOffset(u)' = NextOffset(u) BY DEF NextOffset
<1>2. NextOffset(u) \in 1..Len(log) BY CurrentRecord
<1> QED BY <1>1, <1>2, LogKept DEF Current

\* A row gets its outcome from the task that marks it, and is never forgotten.
LEMMA RowsKept ==
    ASSUME Typed, Agreement, [CommandsNext]_commandVars, NEW c \in Ids
    PROVE  /\ row[c].status # "none" => row'[c].status # "none"
           /\ row'[c].status \in {"done", "failed"} =>
                 \/ row'[c].status = row[c].status
                 \/ \E t \in Tasks : /\ MarkCommand(t) /\ c = Current(t)
                                     /\ row'[c].status = task[t].result
<1> DEFINE Kept == /\ row[c].status # "none" => row'[c].status # "none"
                   /\ row'[c].status \in {"done", "failed"} => row'[c].status = row[c].status
<1>1. ASSUME NEW t \in Tasks, MarkCommand(t)
      PROVE  \/ Kept
             \/ row'[c].status = task[t].result /\ c = Current(t)
                                                /\ row'[c].status \in {"done", "failed"}
  <2>1. task[t].result \in {"done", "failed"}
    <3>1. task[t] \in TaskStates BY DEF Typed, CommandsTypeOK
    <3>2. task[t].at = "mark" BY <1>1 DEF MarkCommand
    <3> QED BY <3>1, <3>2 DEF TaskStates, Free
  <2>2. row' = [row EXCEPT ![Current(t)].status = task[t].result] BY <1>1 DEF MarkCommand
  <2>3. row \in [Ids -> [status : {"none", "publishing", "pending", "done", "failed"},
                         offset : Nat]]
    BY DEF Typed, CommandsTypeOK
  <2>4. CASE c = Current(t)
    <3>1. row'[c].status = task[t].result BY <2>2, <2>3, <2>4
    <3> QED BY <2>1, <2>4, <3>1
  <2>5. CASE c # Current(t)
    <3>1. row'[c] = row[c] BY <2>2, <2>3, <2>5
    <3> QED BY <3>1
  <2> QED BY <2>4, <2>5
<1>2. ASSUME NEW h \in Channels, Insert(h) PROVE Kept
  <2>1. row \in [Ids -> [status : {"none", "publishing", "pending", "done", "failed"},
                         offset : Nat]]
    BY DEF Typed, CommandsTypeOK
  <2>2. CASE UNCHANGED row BY <2>2
  <2>3. CASE row' = [row EXCEPT ![channel[h].id].status = "publishing"]
    <3>1. CASE c = channel[h].id
      <4>1. row'[c].status = "publishing" BY <2>1, <2>3, <3>1
      <4> QED BY <4>1
    <3>2. CASE c # channel[h].id
      <4>1. row'[c] = row[c] BY <2>1, <2>3, <3>2
      <4> QED BY <4>1
    <3> QED BY <3>1, <3>2
  <2> QED BY <1>2, <2>2, <2>3 DEF Insert
<1>3. ASSUME NEW h \in Channels, UpdatePublished(h) PROVE Kept
  BY <1>3 DEF UpdatePublished, Typed, CommandsTypeOK
<1>4. CASE UNCHANGED row BY <1>4
<1>5. \/ UNCHANGED row
      \/ \E t \in Tasks : MarkCommand(t)
      \/ \E h \in Channels : Insert(h) \/ UpdatePublished(h)
  BY DEF CommandsNext, commandVars, MigrationStep, ReplayAfterDone, TaskStep,
            FetchSucceeds, FetchFails, TryCommand, CommandAnswered, ChannelStep, Submit, Route,
            PublishAnswered, PublishRefused, PublishUnanswered, RunDirectly, DirectAnswered,
            OtherPublishes, CoordinatorCrash
<1> QED BY <1>1, <1>2, <1>3, <1>4, <1>5

\* The histories grow, and a command is tried by the task that is at it.
LEMMA HistoryGrows ==
    ASSUME Typed, [CommandsNext]_commandVars
    PROVE  /\ ran \subseteq ran'
           /\ tried \subseteq tried'
           /\ \A c \in tried' : c \in tried \/ \E t \in Tasks : TryCommand(t) /\ c = Current(t)
<1>1. ASSUME NEW t \in Tasks, TryCommand(t)
      PROVE  ran' = ran /\ tried' = tried \cup {Current(t)}
  BY <1>1 DEF TryCommand
<1>2. \/ \E t \in Tasks : TryCommand(t)
      \/ ran \subseteq ran' /\ tried' = tried
  BY DEF CommandsNext, commandVars, history, MigrationStep, ReplayAfterDone, TaskStep, MayRun,
            FetchSucceeds, FetchFails, CommandAnswered, MarkCommand, ChannelStep, Submit, Route,
            Insert, PublishAnswered, PublishRefused, PublishUnanswered, UpdatePublished,
            RunDirectly, DirectAnswered, OtherPublishes, CoordinatorCrash
<1> QED BY <1>1, <1>2

-----------------------------------------------------------------------------
(* Outcomes.                                                               *)

\* A task that marks its command as done has run it.
DoneMarksRun ==
    \A t \in Tasks : task[t].at = "mark" /\ task[t].result = "done" => Current(t) \in ran

LEMMA DoneStep ==
    ASSUME Typed, Agreement, DoneHasRun, DoneMarksRun, [CommandsNext]_commandVars
    PROVE  DoneHasRun' /\ DoneMarksRun'
<1>1. ASSUME NEW c \in Ids, row'[c].status = "done" PROVE c \in ran'
  <2>1. CASE row[c].status = "done" BY <2>1, HistoryGrows DEF DoneHasRun
  <2>2. ASSUME NEW t \in Tasks, MarkCommand(t), c = Current(t), task[t].result = "done"
        PROVE  c \in ran'
    BY <2>2, HistoryGrows DEF DoneMarksRun, MarkCommand
  <2> QED BY <1>1, <2>1, <2>2, RowsKept
<1>2. ASSUME NEW t \in Tasks, task'[t].at = "mark", task'[t].result = "done"
      PROVE  Current(t)' \in ran'
  <2>1. CASE task'[t] = task[t]
    <3>1. HasRecords(t) /\ Current(t) \in ran BY <1>2, <2>1 DEF DoneMarksRun, HasRecords
    <3> QED BY <2>1, <3>1, CurrentKept, HistoryGrows
  <2>2. CASE TryCommand(t)
    BY <1>2, <2>2 DEF TryCommand, Typed, CommandsTypeOK
  <2>3. CASE CommandAnswered(t)
    <3>1. Current(t) \in ran' /\ task'[t].todo = task[t].todo /\ HasRecords(t)
      BY <1>2, <2>3 DEF CommandAnswered, HasRecords, Typed, CommandsTypeOK
    <3> QED BY <3>1, CurrentKept
  <2> QED BY <1>2, <2>1, <2>2, <2>3, CallKept
<1> QED BY <1>1, <1>2 DEF DoneHasRun, DoneMarksRun

\* A command reported as done has run, whatever failed on the way.
THEOREM DoneHasAlwaysRun == CommandsSpec => []DoneHasRun
<1>1. CommandsInit => DoneHasRun /\ DoneMarksRun
  BY DEF CommandsInit, DoneHasRun, DoneMarksRun, NoRow, Free
<1> QED BY <1>1, DoneStep, AlwaysTyped, AlwaysAgrees, PTL DEF CommandsSpec

-----------------------------------------------------------------------------
(* Order.                                                                  *)

\* A row has an outcome only after a replay has tried its command.
OutcomeTried == \A c \in Ids : row[c].status \in {"done", "failed"} => c \in tried

CurrentTried == \A t \in Tasks : task[t].at \in {"call", "mark"} => Current(t) \in tried

\* What was tried was published, and what was queued earlier was published earlier.
TriedPublished == \A c \in tried : \E j \in 1..Len(log) : log[j] = c

EarlierPublished ==
    \A c \in Ids : \A d \in earlier[c] : \E j \in 1..Len(log) :
        log[j] = d /\ \A i \in 1..Len(log) : log[i] = c => j < i

\* The earlier commands of those a task is to try are to be tried as well, and before them.
FetchInOrder ==
    \A t \in Tasks : task[t].at = "fetch" =>
        \A c \in task[t].pending : /\ row[c].status # "none"
                                   /\ earlier[c] \subseteq task[t].pending \cup tried

RecordsInOrder ==
    \A t \in Tasks : HasRecords(t) =>
        \A i \in task[t].todo : \A d \in earlier[log[i]] :
            d \in tried \/ \E j \in task[t].todo : j < i /\ log[j] = d

PublishedFirst == TriedPublished /\ EarlierPublished
InOrder == FetchInOrder /\ RecordsInOrder /\ QueueOrder
Ordered == OutcomeTried /\ CurrentTried /\ PublishedFirst /\ InOrder

LEMMA TriedStep ==
    ASSUME Typed, Agreement, OutcomeTried, CurrentTried, [CommandsNext]_commandVars
    PROVE  OutcomeTried' /\ CurrentTried'
<1>1. ASSUME NEW c \in Ids, row'[c].status \in {"done", "failed"} PROVE c \in tried'
  <2>1. CASE row'[c].status = row[c].status BY <1>1, <2>1, HistoryGrows DEF OutcomeTried
  <2>2. ASSUME NEW t \in Tasks, MarkCommand(t), c = Current(t) PROVE c \in tried'
    BY <2>2, HistoryGrows DEF CurrentTried, MarkCommand
  <2> QED BY <1>1, <2>1, <2>2, RowsKept
<1>2. ASSUME NEW t \in Tasks, task'[t].at \in {"call", "mark"} PROVE Current(t)' \in tried'
  <2>1. CASE task'[t] = task[t]
    <3>1. HasRecords(t) /\ Current(t) \in tried BY <1>2, <2>1 DEF CurrentTried, HasRecords
    <3> QED BY <2>1, <3>1, CurrentKept, HistoryGrows
  <2>2. CASE TryCommand(t)
    <3>1. Current(t) \in tried' /\ task'[t].todo = task[t].todo /\ HasRecords(t)
      BY <1>2, <2>2 DEF TryCommand, HasRecords, Typed, CommandsTypeOK
    <3> QED BY <3>1, CurrentKept
  <2>3. CASE CommandAnswered(t)
    <3>1. Current(t) \in tried /\ task'[t].todo = task[t].todo /\ HasRecords(t)
      BY <1>2, <2>3 DEF CommandAnswered, HasRecords, CurrentTried, Typed, CommandsTypeOK
    <3> QED BY <3>1, CurrentKept, HistoryGrows
  <2> QED BY <1>2, <2>1, <2>2, <2>3, CallKept
<1> QED BY <1>1, <1>2 DEF OutcomeTried, CurrentTried

\* A command gets its earlier ones with its row, and they do not change.
LEMMA EarlierKept ==
    ASSUME Typed, [CommandsNext]_commandVars, NEW c \in Ids
    PROVE  \/ earlier'[c] = earlier[c]
           \/ row[c].status = "none" /\ earlier'[c] = Queued /\ log' = log
<1>1. ASSUME NEW h \in Channels, Insert(h)
      PROVE  \/ earlier'[c] = earlier[c]
             \/ row[c].status = "none" /\ earlier'[c] = Queued /\ log' = log
  BY <1>1 DEF Insert, Typed, CommandsTypeOK
<1>2. CASE UNCHANGED earlier BY <1>2
<1>3. UNCHANGED earlier \/ \E h \in Channels : Insert(h)
  BY DEF CommandsNext, commandVars, history, MigrationStep, ReplayAfterDone, TaskStep,
         FetchSucceeds, FetchFails, TryCommand, CommandAnswered, MarkCommand, ChannelStep,
         Submit, Route, PublishAnswered, PublishRefused, PublishUnanswered, UpdatePublished,
         RunDirectly, DirectAnswered, OtherPublishes, CoordinatorCrash
<1> QED BY <1>1, <1>2, <1>3

LEMMA PublishedStep ==
    ASSUME Typed, Agreement, OutcomeTried, PublishedFirst, [CommandsNext]_commandVars
    PROVE  PublishedFirst'
<1>1. TriedPublished'
  <2>1. ASSUME NEW c \in tried' PROVE \E j \in 1..Len(log) : log[j] = c
    <3>1. CASE c \in tried BY <3>1 DEF PublishedFirst, TriedPublished
    <3>2. ASSUME NEW t \in Tasks, TryCommand(t), c = Current(t)
          PROVE  \E j \in 1..Len(log) : log[j] = c
      <4>1. NextOffset(t) \in 1..Len(log)
        BY <3>2, CurrentRecord DEF TryCommand, HasRecords
      <4> QED BY <3>2, <4>1 DEF Current
    <3> QED BY <2>1, <3>1, <3>2, HistoryGrows
  <2> QED BY <2>1, LogKept DEF TriedPublished
<1>2. ASSUME NEW c \in Ids, NEW d \in earlier'[c]
      PROVE  \E j \in 1..Len(log) :
                log[j] = d /\ \A i \in 1..Len(log) : log[i] = c => j < i
  <2>1. CASE earlier'[c] = earlier[c] BY <1>2, <2>1 DEF PublishedFirst, EarlierPublished
  <2>2. CASE row[c].status = "none" /\ earlier'[c] = Queued
    <3>1. \A i \in 1..Len(log) : log[i] # c
      BY <2>2 DEF Agreement, QueueAgreesWithTable
    <3>2. d \in Ids /\ row[d].status \in {"pending", "done", "failed"} BY <2>2 DEF Queued
    <3>3. \E j \in 1..Len(log) : log[j] = d
      <4>1. CASE row[d].status = "pending"
        BY <3>2, <4>1 DEF Agreement, QueueAgreesWithTable
      <4>2. CASE row[d].status \in {"done", "failed"}
        BY <3>2, <4>2 DEF OutcomeTried, PublishedFirst, TriedPublished
      <4> QED BY <3>2, <4>1, <4>2
    <3> QED BY <3>1, <3>3
  <2> QED BY <2>1, <2>2, EarlierKept
<1>3. ASSUME NEW c \in Ids, NEW d \in earlier'[c]
      PROVE  \E j \in 1..Len(log') :
                log'[j] = d /\ \A i \in 1..Len(log') : log'[i] = c => j < i
  <2>1. PICK j \in 1..Len(log) :
           log[j] = d /\ \A i \in 1..Len(log) : log[i] = c => j < i
    BY <1>2
  <2>2. /\ Len(log) \in Nat /\ Len(log') \in Nat /\ Len(log) <= Len(log')
        /\ \A i \in 1..Len(log) : log'[i] = log[i]
    BY LogKept
  <2>3. ASSUME NEW i \in 1..Len(log'), log'[i] = c PROVE j < i
    <3>1. CASE i \in 1..Len(log) BY <2>1, <2>2, <2>3, <3>1
    <3>2. CASE i \notin 1..Len(log) BY <2>1, <2>2, <3>2
    <3> QED BY <3>1, <3>2
  <2> QED BY <2>1, <2>2, <2>3
<1> QED BY <1>1, <1>3 DEF PublishedFirst, EarlierPublished

\* The command of a record, of a queued row and of a tried command is in the table.
LEMMA KnownCommands ==
    ASSUME Typed, Agreement, Ordered
    PROVE  /\ \A i \in Ours : i \in 1..Len(log) /\ log[i] \in Ids /\ row[log[i]].status # "none"
           /\ \A c \in tried : c \in Ids /\ row[c].status # "none"
           /\ \A c \in Ids : earlier[c] \subseteq Ids
           /\ \A c \in Ids : \A d \in earlier[c] : d \in Replayable \cup tried
<1>1. ASSUME NEW i \in Ours
      PROVE  i \in 1..Len(log) /\ log[i] \in Ids /\ row[log[i]].status # "none"
  BY DEF Agreement, QueueAgreesWithTable, Ours
<1>2. ASSUME NEW c \in tried PROVE c \in Ids /\ row[c].status # "none"
  <2>1. c \in Ids BY DEF Typed, CommandsTypeOK
  <2>2. PICK j \in 1..Len(log) : log[j] = c BY DEF Ordered, PublishedFirst, TriedPublished
  <2> QED BY <1>1, <2>1, <2>2 DEF Ours
<1>3. ASSUME NEW c \in Ids PROVE earlier[c] \subseteq Ids BY DEF Typed, CommandsTypeOK
<1>4. ASSUME NEW c \in Ids, NEW d \in earlier[c] PROVE d \in Replayable \cup tried
  <2>1. d \in Ids /\ row[d].status # "none"
    <3>1. PICK j \in 1..Len(log) : log[j] = d BY DEF Ordered, PublishedFirst, EarlierPublished
    <3> QED BY <1>1, <1>3, <3>1 DEF Ours
  <2>2. row[d].status \in {"none", "publishing", "pending", "done", "failed"}
    BY <2>1 DEF Typed, CommandsTypeOK
  <2> QED BY <2>1, <2>2 DEF Ordered, OutcomeTried, Replayable
<1> QED BY <1>1, <1>2, <1>3, <1>4

\* A replay is started for every row that waits for one.
TakesAll(pending) == /\ Replayable \subseteq pending
                     /\ \A c \in pending : c \in Ids /\ row[c].status # "none"

LEMMA FetchKept ==
    ASSUME Typed, Agreement, [CommandsNext]_commandVars, NEW u \in Tasks, task'[u].at = "fetch"
    PROVE  task'[u] = task[u] \/ TakesAll(task'[u].pending)
<1>1. ASSUME NEW pending, Replay(pending), TakesAll(pending)
      PROVE  task'[u] = task[u] \/ TakesAll(task'[u].pending)
  BY <1>1 DEF Replay, Typed, CommandsTypeOK
<1>2. TakesAll(Replayable) BY DEF TakesAll, Replayable
<1>3. CASE ReplayAfterDone BY <1>1, <1>2, <1>3 DEF ReplayAfterDone
<1>4. ASSUME NEW t \in Tasks, TaskStep(t) PROVE task'[u] = task[u]
  <2> USE DEF Typed, CommandsTypeOK
  <2>1. CASE FetchSucceeds(t) BY <2>1 DEF FetchSucceeds, GoOn, Free
  <2>2. CASE FetchFails(t) BY <2>2 DEF FetchFails, Free
  <2>3. CASE TryCommand(t) BY <2>3 DEF TryCommand
  <2>4. CASE CommandAnswered(t) BY <2>4 DEF CommandAnswered
  <2>5. CASE MarkCommand(t) BY <2>5 DEF MarkCommand, GoOn, Free
  <2> QED BY <1>4, <2>1, <2>2, <2>3, <2>4, <2>5 DEF TaskStep
<1>5. ASSUME NEW h \in Channels, UpdatePublished(h)
      PROVE  task'[u] = task[u] \/ TakesAll(task'[u].pending)
  <2>1. channel[h].id \in Ids /\ row[channel[h].id].status # "none"
    BY <1>5, ChannelFields DEF UpdatePublished, Agreement, Publishing
  <2>2. TakesAll(Replayable \cup {channel[h].id}) BY <2>1 DEF TakesAll, Replayable
  <2> QED BY <1>1, <1>5, <2>2 DEF UpdatePublished, Published, MaybeReplay
<1>6. ASSUME NEW h \in Channels, Route(h) \/ Insert(h)
      PROVE  task'[u] = task[u] \/ TakesAll(task'[u].pending)
  BY <1>1, <1>2, <1>6 DEF Route, Insert, Published, MaybeReplay
<1>7. CASE CoordinatorCrash BY <1>7 DEF CoordinatorCrash, Free
<1>8. \/ UNCHANGED task \/ ReplayAfterDone \/ \E t \in Tasks : TaskStep(t)
      \/ \E h \in Channels : UpdatePublished(h) \/ Route(h) \/ Insert(h)
      \/ CoordinatorCrash
  BY DEF CommandsNext, commandVars, MigrationStep, ChannelStep, Submit, PublishAnswered,
         PublishRefused, PublishUnanswered, RunDirectly, DirectAnswered, OtherPublishes
<1> QED BY <1>3, <1>4, <1>5, <1>6, <1>7, <1>8

LEMMA FetchStep ==
    ASSUME Typed, Agreement, Ordered, [CommandsNext]_commandVars PROVE FetchInOrder'
<1> SUFFICES ASSUME NEW t \in Tasks, task'[t].at = "fetch", NEW c \in task'[t].pending
             PROVE  /\ row'[c].status # "none"
                    /\ earlier'[c] \subseteq task'[t].pending \cup tried'
  BY DEF FetchInOrder
<1>1. /\ c \in Ids /\ row[c].status # "none"
      /\ earlier[c] \subseteq task'[t].pending \cup tried
  <2>1. CASE task'[t] = task[t]
    <3>1. task[t] \in TaskStates BY DEF Typed, CommandsTypeOK
    <3>2. task[t].pending \subseteq Ids BY <2>1, <3>1 DEF TaskStates, Free
    <3> QED BY <2>1, <3>2 DEF Ordered, InOrder, FetchInOrder
  <2>2. CASE TakesAll(task'[t].pending) BY <2>2, KnownCommands DEF TakesAll
  <2> QED BY <2>1, <2>2, FetchKept
<1>2. earlier'[c] = earlier[c] BY <1>1, EarlierKept
<1> QED BY <1>1, <1>2, RowsKept, HistoryGrows

\* The records of a fetch hold one of every command before its time, if it was queued.
LEMMA FirstInOrder ==
    ASSUME Typed, Agreement, Ordered, NEW t \in Tasks, task[t].at = "fetch",
           NEW i \in FirstRecords(task[t].pending), NEW d \in earlier[log[i]]
    PROVE  d \in tried \/ \E j \in FirstRecords(task[t].pending) : j < i /\ log[j] = d
<1>1. /\ i \in 1..Len(log) /\ i <= Window /\ log[i] \in task[t].pending /\ log[i] \in Ids
  BY DEF FirstRecords, Fetched, Typed, CommandsTypeOK, TaskStates, Free
<1>2. d \in task[t].pending \cup tried BY <1>1 DEF Ordered, InOrder, FetchInOrder
<1>3. PICK k \in 1..Len(log) : log[k] = d /\ k < i
  BY <1>1 DEF Ordered, PublishedFirst, EarlierPublished
<1> DEFINE S == {m \in 1..Len(log) : log[m] = d}
           j == Min(S)
<1>4. Len(log) \in Nat BY LogKept DEF Typed, CommandsTypeOK
<1>5. j \in S /\ \A m \in S : j <= m
  <2>1. S \subseteq Nat /\ S # {} BY <1>3, <1>4
  <2> HIDE DEF S
  <2> QED BY <2>1, MinOfSet
<1>6. j \in 1..Len(log) /\ log[j] = d /\ j <= k BY <1>3, <1>5
<1>7. \A m \in 1..(j - 1) : log[m] # d
  <2> SUFFICES ASSUME NEW m \in 1..(j - 1), log[m] = d PROVE FALSE OBVIOUS
  <2>1. m \in S BY <1>4, <1>6
  <2> QED BY <1>4, <1>5, <1>6, <2>1
<1> HIDE DEF j
<1>8. j < i /\ j <= Window BY <1>1, <1>3, <1>4, <1>6, CommandBounds
<1> QED BY <1>2, <1>6, <1>7, <1>8 DEF FirstRecords, Fetched

LEMMA RecordsStep ==
    ASSUME Typed, Agreement, Ordered, [CommandsNext]_commandVars PROVE RecordsInOrder'
<1> SUFFICES ASSUME NEW t \in Tasks, HasRecords(t)',
                    NEW i \in task'[t].todo, NEW d \in earlier'[log'[i]]
             PROVE  d \in tried' \/ \E j \in task'[t].todo : j < i /\ log'[j] = d
  BY DEF RecordsInOrder, HasRecords
<1>1. CASE /\ HasRecords(t) /\ task'[t].todo \subseteq task[t].todo
           /\ \A k \in task[t].todo \ task'[t].todo : task[t].at = "mark" /\ k = NextOffset(t)
  <2>1. task[t].todo \subseteq Ours /\ Ours \subseteq 1..Len(log)
    BY <1>1 DEF Typed, TodoInLog, Ours
  <2>2. i \in Ours /\ log'[i] = log[i] BY <1>1, <2>1, LogKept
  <2>3. d \in earlier[log[i]] BY <2>2, KnownCommands, EarlierKept
  <2>4. d \in tried \/ \E j \in task[t].todo : j < i /\ log[j] = d
    BY <1>1, <2>3 DEF Ordered, InOrder, RecordsInOrder
  <2>5. ASSUME NEW j \in task[t].todo, j < i, log[j] = d, j \notin task'[t].todo
        PROVE  d \in tried
    <3>1. task[t].at = "mark" /\ j = NextOffset(t) BY <1>1, <2>5
    <3> QED BY <2>5, <3>1 DEF Ordered, CurrentTried, Current
  <2> QED BY <2>1, <2>4, <2>5, LogKept, HistoryGrows
<1>2. CASE task[t].at = "fetch" /\ task'[t].todo = FirstRecords(task[t].pending)
  <2>1. FirstRecords(task[t].pending) \subseteq Ours /\ Ours \subseteq 1..Len(log)
    BY <1>2 DEF FirstRecords, Fetched, Ours, Typed, CommandsTypeOK, TaskStates, Free
  <2>2. i \in Ours /\ log'[i] = log[i] BY <1>2, <2>1, LogKept
  <2>3. d \in earlier[log[i]] BY <2>2, KnownCommands, EarlierKept
  <2>4. d \in tried \/ \E j \in FirstRecords(task[t].pending) : j < i /\ log[j] = d
    BY <1>2, <2>3, FirstInOrder
  <2> QED BY <1>2, <2>1, <2>4, LogKept, HistoryGrows
<1> QED BY <1>1, <1>2, RecordsKept DEF KeepsRecords

LEMMA OrderStep ==
    ASSUME Typed, Agreement, Ordered, [CommandsNext]_commandVars PROVE QueueOrder'
<1> SUFFICES ASSUME NEW c \in tried', NEW d \in earlier'[c] PROVE d \in tried'
  BY DEF QueueOrder
<1>1. CASE c \in tried
  <2>1. d \in earlier[c] BY <1>1, KnownCommands, EarlierKept
  <2> QED BY <1>1, <2>1, HistoryGrows DEF Ordered, InOrder, QueueOrder
<1>2. ASSUME NEW t \in Tasks, TryCommand(t), c = Current(t) PROVE d \in tried'
  <2>1. HasRecords(t) BY <1>2 DEF TryCommand, HasRecords
  <2>2. d \in earlier[Current(t)] BY <1>2 DEF TryCommand
  <2>3. ~ \E j \in task[t].todo : j < NextOffset(t)
    <3>1. task[t].todo \subseteq 1..Len(log) /\ Len(log) \in Nat
      BY <2>1 DEF Typed, CommandsTypeOK, TodoInLog, Ours
    <3> QED BY <2>1, <3>1, CurrentRecord
  <2>4. d \in tried
    BY <2>1, <2>2, <2>3, CurrentRecord DEF Ordered, InOrder, RecordsInOrder, Current
  <2> QED BY <2>4, HistoryGrows
<1> QED BY <1>1, <1>2, HistoryGrows

\* Replays try queued commands in the order in which clients could see them queued, whatever
\* was published twice or late, and however many tasks replay at once.
THEOREM CommandsStayInOrder == CommandsSpec => []QueueOrder
<1>1. CommandsInit => Ordered
  BY DEF CommandsInit, Ordered, OutcomeTried, CurrentTried, PublishedFirst, TriedPublished,
         EarlierPublished, InOrder, FetchInOrder, RecordsInOrder, HasRecords, QueueOrder,
         NoRow, Free
<1>2. Typed /\ Agreement /\ Ordered /\ [CommandsNext]_commandVars => Ordered'
  BY TriedStep, PublishedStep, FetchStep, RecordsStep, OrderStep DEF Ordered, InOrder
<1>3. Ordered => QueueOrder BY DEF Ordered, InOrder
<1> QED BY <1>1, <1>2, <1>3, AlwaysTyped, AlwaysAgrees, PTL DEF CommandsSpec
=============================================================================
