------------------------------ MODULE CommandBus ------------------------------
(***************************************************************************)
(* The stateful command dispatcher of GeneGIS                              *)
(* (crates/genegis-core/src/command.rs): one client process that owns a    *)
(* CommandBus and a Project, dispatches command envelopes, undoes and      *)
(* redoes them, persists the command log, crashes, loads the log and       *)
(* replays it.                                                             *)
(*                                                                         *)
(* A CommandBus is a record, as it is in the code: replay builds a second  *)
(* one (and a third) and drives it through the same dispatch.  The         *)
(* operators on bus records come first, the actions of the process after.  *)
(***************************************************************************)
EXTENDS ProjectState, SequencesExt

CONSTANTS
    InitialProject,  \* the project a new session starts from
    Requests,        \* what clients ask: [command, digest, sources, inputs]
    CatalogRequests  \* requests of catalog adapters, recorded with push

ASSUME InitialProjectAssumption == InitialProject \in Projects
ASSUME RequestsAssumption ==
    \A r \in Requests \cup CatalogRequests : r.command \in Commands
VARIABLES
    mode,     \* "down", "loaded" (a bus without a project) or "running"
    job,      \* the call in progress: "none", "replay" or "write"
    bus,      \* the CommandBus in memory
    project,  \* the caller's Project
    replay,   \* the local variables of replay_inner
    pending,  \* the log fs::write is writing
    disk      \* the log file: [status, log]

vars == <<mode, job, bus, project, replay, pending, disk>>

-----------------------------------------------------------------------------
(* Values of type CommandBus.                                               *)

DefaultBus ==
    [history    |-> << >>,  cursor  |-> 0,
     before     |-> << >>,  after   |-> << >>,
     initial    |-> Null,   current |-> Null,
     audit      |-> << >>,
     workflows  |-> [w \in WorkflowIds |-> Null],
     executions |-> [i \in EnvelopeIds |-> Null],
     expected   |-> Null]

\* CommandBus::new, with the graphs replay_inner copies into it.
BusWith(p, graphs) ==
    [history    |-> << >>,  cursor  |-> 0,
     before     |-> << >>,  after   |-> << >>,
     initial    |-> p,      current |-> p,
     audit      |-> << >>,
     workflows  |-> graphs,
     executions |-> [i \in EnvelopeIds |-> Null],
     expected   |-> Null]

NewBus(p) == BusWith(p, DefaultBus.workflows)

\* Vec::truncate.
Truncate(s, n) == IF n < Len(s) THEN SubSeq(s, 1, n) ELSE s

Registered(b, g) == [b EXCEPT !.workflows[g.id] = g]

\* Faulty variant: push keeps the snapshots of the undone branch.
PushedKeepsSnapshots(b, env) ==
    [b EXCEPT !.history = Append(Truncate(@, b.cursor), env),
              !.cursor  = Len(Truncate(b.history, b.cursor)) + 1,
              !.audit   = Append(@, env)]

Pushed(b, env) ==
    [history    |-> Append(Truncate(b.history, b.cursor), env),
     cursor     |-> Len(Truncate(b.history, b.cursor)) + 1,
     before     |-> Truncate(b.before, b.cursor),
     after      |-> Truncate(b.after, b.cursor),
     initial    |-> b.initial,
     current    |-> b.current,
     audit      |-> Append(b.audit, env),
     workflows  |-> b.workflows,
     executions |-> b.executions,
     expected   |-> b.expected]

\* What can_undo and can_redo report.
CanUndo(b) == b.cursor > 0
CanRedo(b) == b.cursor < Len(b.history)

\* What undo and redo need: the snapshot as well.
UndoAvailable(b) == CanUndo(b) /\ b.cursor <= Len(b.before)
RedoAvailable(b) == CanRedo(b) /\ b.cursor < Len(b.after)

\* The cursor moves and the snapshot p becomes current; `audit` is the audit log
\* that remains: dispatch appends the envelope, a direct call does not.
Restored(b, cursor, p, audit) ==
    [history    |-> b.history,    cursor  |-> cursor,
     before     |-> b.before,     after   |-> b.after,
     initial    |-> b.initial,    current |-> p,
     audit      |-> audit,
     workflows  |-> b.workflows,
     executions |-> b.executions,
     expected   |-> b.expected]

Undone(b, audit) == Restored(b, b.cursor - 1, b.before[b.cursor], audit)
Redone(b, audit) == Restored(b, b.cursor + 1, b.after[b.cursor + 1], audit)

\* validate_mutation_workflow: an edit or a style names the node of a
\* registered graph that authorizes it.
BoundCommands == {"InitializeEditableLayer", "EditFeatures", "SetEvidenceMapStyle"}

ExpectedOperation(cmd) ==
    IF cmd.op = "EditFeatures" THEN WorkflowOperation(cmd.edit) ELSE cmd.op

MutationAuthorized(b, env) ==
    LET cmd == env.command
        g   == b.workflows[cmd.workflow]
    IN  cmd.op \in BoundCommands =>
            /\ g # Null
            /\ g.valid
            /\ env.digest = g.digest
            /\ cmd.node \in DOMAIN g.nodes
            /\ g.nodes[cmd.node] = ExpectedOperation(cmd)

\* validate_workflow_command.
WorkflowAuthorized(b, env) ==
    LET g == b.workflows[env.command.workflow]
    IN  env.command.op = "RunWorkflow" =>
            /\ g # Null
            /\ g.valid
            /\ env.digest = g.digest
            /\ ValidateInputSnapshots(g.contracts, env.sources, env.inputs)

\* `result` is the digest the executor returned; Null when none was called.
ExecutorCalled(env, result) ==
    IF env.command.op = "RunWorkflow" THEN result \in Results ELSE result = Null

\* dispatch succeeds.
Accepted(b, p, env, result) ==
    CASE env.command.op = "Undo" -> UndoAvailable(b) /\ result = Null
      [] env.command.op = "Redo" -> RedoAvailable(b) /\ result = Null
      [] OTHER ->
            /\ MutationAuthorized(b, env)
            /\ WorkflowAuthorized(b, env)
            /\ ExecutorCalled(env, result)
            /\ MutationAccepted(p.content, env)

\* Faulty variants of the commit: the executor's result is not recorded; the
\* snapshots of an undone branch are kept; the audit log loses that branch too.
CommittedUnrecorded(b, p, q, env, result) ==
    [b EXCEPT !.initial = IF @ = Null THEN p ELSE @,
              !.history = Append(Truncate(@, b.cursor), env),
              !.before  = Append(Truncate(@, b.cursor), p),
              !.after   = Append(Truncate(@, b.cursor), q),
              !.cursor  = Len(Truncate(b.history, b.cursor)) + 1,
              !.current = q,
              !.audit   = Append(@, env)]

CommittedKeepsSnapshots(b, p, q, env, result) ==
    [CommittedUnrecorded(b, p, q, env, result) EXCEPT
              !.before = Append(b.before, p), !.after = Append(b.after, q)]

CommittedForgetsBranch(b, p, q, env, result) ==
    [CommittedUnrecorded(b, p, q, env, result) EXCEPT
              !.audit = Append(Truncate(b.audit, b.cursor), env)]

\* The commit of dispatch: p is the project before, q the project after.
Committed(b, p, q, env, result) ==
    [history    |-> Append(Truncate(b.history, b.cursor), env),
     cursor     |-> Len(Truncate(b.history, b.cursor)) + 1,
     before     |-> Append(Truncate(b.before, b.cursor), p),
     after      |-> Append(Truncate(b.after, b.cursor), q),
     initial    |-> IF b.initial = Null THEN p ELSE b.initial,
     current    |-> q,
     audit      |-> Append(b.audit, env),
     workflows  |-> b.workflows,
     executions |-> IF result = Null THEN b.executions
                    ELSE [b.executions EXCEPT ![env.id] =
                             [digest |-> env.digest, result |-> result]],
     expected   |-> b.expected]

ProjectAfter(b, p, env, result, now) ==
    CASE env.command.op = "Undo" -> b.before[b.cursor]
      [] env.command.op = "Redo" -> b.after[b.cursor + 1]
      [] OTHER                   -> Mutated(p, env, result, now)

\* Faulty variant: an undo is not written to the audit log.
BusAfterSilentUndo(b, p, env, result, now) ==
    CASE env.command.op = "Undo" -> Undone(b, b.audit)
      [] env.command.op = "Redo" -> Redone(b, Append(b.audit, env))
      [] OTHER -> Committed(b, p, Mutated(p, env, result, now), env, result)

BusAfter(b, p, env, result, now) ==
    CASE env.command.op = "Undo" -> Undone(b, Append(b.audit, env))
      [] env.command.op = "Redo" -> Redone(b, Append(b.audit, env))
      [] OTHER -> Committed(b, p, Mutated(p, env, result, now), env, result)

\* Faulty variant: the state itself is stored where its digest belongs.
LogOfState(b, current) ==
    [initial    |-> b.initial,
     commands   |-> b.history,
     audit      |-> b.audit,
     cursor     |-> b.cursor,
     workflows  |-> b.workflows,
     executions |-> b.executions,
     digest     |-> current]

\* persist: the log of b, with the digest of the state `current`.
LogOf(b, current) ==
    [initial    |-> b.initial,
     commands   |-> b.history,
     audit      |-> b.audit,
     cursor     |-> b.cursor,
     workflows  |-> b.workflows,
     executions |-> b.executions,
     digest     |-> StateDigest(current)]

\* load: snapshots and the current state are not persisted.
LoadedBus(log) ==
    [history    |-> log.commands,  cursor  |-> log.cursor,
     before     |-> << >>,         after   |-> << >>,
     initial    |-> log.initial,   current |-> Null,
     audit      |-> log.audit,
     workflows  |-> log.workflows,
     executions |-> log.executions,
     expected   |-> log.digest]

-----------------------------------------------------------------------------
(* The process.                                                             *)

Idle == mode # "down" /\ job = "none"

Running == mode = "running" /\ job = "none"

Init ==
    /\ mode = "running"
    /\ job = "none"
    /\ bus \in {NewBus(InitialProject), DefaultBus}
    /\ project = InitialProject
    /\ replay = Null
    /\ pending = Null
    /\ disk = [status |-> "absent", log |-> Null]

\* Uuid::new_v4: an identity no envelope of this log has.
FreshId == Len(bus.audit) + 1

Envelope(request) ==
    [id      |-> FreshId,
     command |-> request.command,
     digest  |-> request.digest,
     sources |-> request.sources,
     inputs  |-> request.inputs]

RegisterWorkflow(g) ==
    /\ Running
    /\ g.valid
    /\ bus' = Registered(bus, g)
    /\ UNCHANGED <<mode, job, project, replay, pending, disk>>

\* Any error of dispatch returns before the bus or the project changes, so
\* only success is a step.
Dispatch(request) ==
    /\ Running
    /\ FreshId \in EnvelopeIds
    /\ \E result \in Results \cup {Null}, now \in Clock :
          /\ Accepted(bus, project, Envelope(request), result)
          /\ bus' = BusAfter(bus, project, Envelope(request), result, now)
          /\ project' = ProjectAfter(bus, project, Envelope(request), result, now)
    /\ UNCHANGED <<mode, job, replay, pending, disk>>

Push(request) ==
    /\ Running
    /\ FreshId \in EnvelopeIds
    /\ bus' = Pushed(bus, Envelope(request))
    /\ UNCHANGED <<mode, job, project, replay, pending, disk>>

\* CommandBus::undo and ::redo called directly, not through an envelope.
DirectUndo ==
    /\ Running
    /\ UndoAvailable(bus)
    /\ bus' = Undone(bus, bus.audit)
    /\ project' = bus.before[bus.cursor]
    /\ UNCHANGED <<mode, job, replay, pending, disk>>

DirectRedo ==
    /\ Running
    /\ RedoAvailable(bus)
    /\ bus' = Redone(bus, bus.audit)
    /\ project' = bus.after[bus.cursor + 1]
    /\ UNCHANGED <<mode, job, replay, pending, disk>>

-----------------------------------------------------------------------------
(* Replay.  replay_inner drives a fresh bus (`work`, with the project      *)
(* `state`) through the events; if that ends at another cursor than the    *)
(* persisted one, it drives a second fresh bus through the active history  *)
(* and takes the state from there.  `saving` marks the replay that persist *)
(* makes on a clone when the current state is unknown.                     *)

Events(b) == IF b.audit = << >> THEN b.history ELSE b.audit

FreshWork(b) == BusWith(b.initial, b.workflows)

Todo == IF replay.stage = "events" THEN Events(bus)
                                   ELSE SubSeq(bus.history, 1, bus.cursor)

BeginReplay(live, saving) ==
    /\ Idle
    /\ bus.initial # Null
    /\ saving => mode = "loaded" /\ ~live
    /\ job' = "replay"
    /\ replay' = [stage |-> "events", live |-> live, saving |-> saving, pos |-> 0,
                  work |-> FreshWork(bus), state |-> bus.initial, replayed |-> Null]
    /\ UNCHANGED <<mode, bus, project, pending, disk>>

\* The results the executor can return for env: the live executor any, the
\* recorded executor the one captured when the command ran.
ReplayResults(env) ==
    LET record == bus.executions[env.id] IN
    IF env.command.op # "RunWorkflow" THEN {Null}
    ELSE IF replay.live THEN Results
    ELSE IF record # Null /\ record.digest = env.digest THEN {record.result}
    ELSE {}

ReplayAccepts(env) ==
    {result \in ReplayResults(env) : Accepted(replay.work, replay.state, env, result)}

ReplayEvent ==
    /\ job = "replay"
    /\ replay.pos < Len(Todo)
    /\ LET env == Todo[replay.pos + 1] IN
       \E result \in ReplayAccepts(env), now \in Clock :
          replay' =
            [stage    |-> replay.stage,
             live     |-> replay.live,
             saving   |-> replay.saving,
             pos      |-> replay.pos + 1,
             work     |-> BusAfter(replay.work, replay.state, env, result, now),
             state    |-> ProjectAfter(replay.work, replay.state, env, result, now),
             replayed |-> replay.replayed]
    /\ UNCHANGED <<mode, job, bus, project, pending, disk>>

\* An event is rejected, or the live executor fails: the bus stays as it was.
ReplayRejected ==
    /\ job = "replay"
    /\ replay.pos < Len(Todo)
    /\ LET env == Todo[replay.pos + 1] IN
       \/ ReplayAccepts(env) = {}
       \/ replay.live /\ env.command.op = "RunWorkflow"
    /\ job' = "none"
    /\ replay' = Null
    /\ UNCHANGED <<mode, bus, project, pending, disk>>

ReplayActiveHistory ==
    /\ job = "replay"
    /\ replay.stage = "events"
    /\ replay.pos = Len(Todo)
    /\ replay.work.cursor # bus.cursor
    /\ replay' = [stage |-> "active", live |-> replay.live, saving |-> replay.saving,
                  pos |-> 0, work |-> FreshWork(replay.work), state |-> bus.initial,
                  replayed |-> replay.work]
    /\ UNCHANGED <<mode, job, bus, project, pending, disk>>

ReplayAtEnd ==
    /\ job = "replay"
    /\ replay.pos = Len(Todo)
    /\ replay.stage = "events" => replay.work.cursor = bus.cursor

ReplayMismatch ==
    /\ ReplayAtEnd
    /\ bus.expected \notin {Null, StateDigest(replay.state)}
    /\ job' = "none"
    /\ replay' = Null
    /\ UNCHANGED <<mode, bus, project, pending, disk>>

\* The bus takes the snapshots of the event stage; the caller takes the state.
Rebuilt(b, r, state) ==
    [history    |-> r.history,    cursor  |-> r.cursor,
     before     |-> r.before,     after   |-> r.after,
     initial    |-> r.initial,    current |-> state,
     audit      |-> b.audit,
     workflows  |-> b.workflows,
     executions |-> r.executions,
     expected   |-> b.expected]

EventStage == IF replay.stage = "events" THEN replay.work ELSE replay.replayed

ReplayFinished ==
    /\ ReplayAtEnd
    /\ bus.expected \in {Null, StateDigest(replay.state)}
    /\ replay' = Null
    /\ IF replay.saving
       THEN /\ job' = "write"
            /\ pending' = LogOf(bus, replay.state)
            /\ disk' = [status |-> "torn", log |-> Null]
            /\ UNCHANGED <<mode, bus, project>>
       ELSE /\ mode' = "running"
            /\ job' = "none"
            /\ bus' = Rebuilt(bus, EventStage, replay.state)
            /\ project' = replay.state
            /\ UNCHANGED <<pending, disk>>

-----------------------------------------------------------------------------
(* Persistence.  fs::write truncates the file, then fills it.               *)

PersistBegin ==
    /\ Running
    /\ bus.initial # Null
    /\ job' = "write"
    /\ pending' = LogOf(bus, bus.current)
    /\ disk' = [status |-> "torn", log |-> Null]
    /\ UNCHANGED <<mode, bus, project, replay>>

PersistEnd ==
    /\ job = "write"
    /\ job' = "none"
    /\ disk' = [status |-> "log", log |-> pending]
    /\ pending' = Null
    /\ UNCHANGED <<mode, bus, project, replay>>

Crash ==
    /\ mode # "down"
    /\ mode' = "down"
    /\ job' = "none"
    /\ bus' = DefaultBus
    /\ project' = InitialProject
    /\ replay' = Null
    /\ pending' = Null
    /\ UNCHANGED disk

\* A torn file is not JSON and an absent one cannot be read: load fails.
Load ==
    /\ mode = "down"
    /\ disk.status = "log"
    /\ mode' = "loaded"
    /\ bus' = LoadedBus(disk.log)
    /\ UNCHANGED <<job, project, replay, pending, disk>>

StartOver ==
    /\ mode = "down"
    /\ disk.status # "log"
    /\ mode' = "running"
    /\ bus' = NewBus(InitialProject)
    /\ UNCHANGED <<job, project, replay, pending, disk>>

-----------------------------------------------------------------------------
ReplayNext ==
    \/ \E live \in BOOLEAN, saving \in BOOLEAN : BeginReplay(live, saving)
    \/ ReplayEvent
    \/ ReplayRejected
    \/ ReplayActiveHistory
    \/ ReplayMismatch
    \/ ReplayFinished

StorageNext == PersistBegin \/ PersistEnd \/ Crash \/ Load \/ StartOver

Next ==
    \/ \E g \in Graphs : RegisterWorkflow(g)
    \/ \E request \in Requests : Dispatch(request)
    \/ ReplayNext
    \/ StorageNext

\* Every public entry point: also the envelopes of catalog adapters, and undo and
\* redo called outside the dispatcher.
AnyNext ==
    \/ Next
    \/ \E request \in CatalogRequests : Push(request)
    \/ DirectUndo
    \/ DirectRedo

Spec == Init /\ [][Next]_vars
AnySpec == Init /\ [][AnyNext]_vars

-----------------------------------------------------------------------------
(* Types.                                                                   *)

Envelopes ==
    {[id |-> i, command |-> r.command, digest |-> r.digest,
      sources |-> r.sources, inputs |-> r.inputs] :
        i \in EnvelopeIds, r \in Requests \cup CatalogRequests}

ExecutionRecords ==
    [digest : {r.digest : r \in Requests \cup CatalogRequests}, result : Results]

Buses ==
    [history    : Seq(Envelopes),            cursor  : Nat,
     before     : Seq(Projects),             after   : Seq(Projects),
     initial    : {Null, InitialProject},    current : Projects \cup {Null},
     audit      : Seq(Envelopes),
     workflows  : [WorkflowIds -> Graphs \cup {Null}],
     executions : [EnvelopeIds -> ExecutionRecords \cup {Null}],
     expected   : Contents \cup {Null}]

Logs ==
    [initial    : {InitialProject},
     commands   : Seq(Envelopes),
     audit      : Seq(Envelopes),
     cursor     : Nat,
     workflows  : [WorkflowIds -> Graphs \cup {Null}],
     executions : [EnvelopeIds -> ExecutionRecords \cup {Null}],
     digest     : Contents]

Replays ==
    [stage : {"events", "active"}, live : BOOLEAN, saving : BOOLEAN, pos : Nat,
     work : Buses, state : Projects, replayed : Buses \cup {Null}]

\* Null stands for the absent values of Option fields.
ASSUME NullAssumption ==
    /\ Null \notin Projects /\ Null \notin Contents /\ Null \notin Results
    /\ Null \notin ExecutionRecords /\ Null \notin Buses
    /\ Null \notin Logs /\ Null \notin Replays

TypeOK ==
    /\ mode \in {"down", "loaded", "running"}
    /\ job \in {"none", "replay", "write"}
    /\ bus \in Buses
    /\ project \in Projects
    /\ replay \in Replays \cup {Null}
    /\ pending \in Logs \cup {Null}
    /\ disk \in [status : {"absent", "torn", "log"}, log : Logs \cup {Null}]

-----------------------------------------------------------------------------
(* Snapshots, undo and redo.                                                *)

Aligned(b) == Len(b.before) = Len(b.history) /\ Len(b.after) = Len(b.history)

StateAt(b, n) == IF n = 0 THEN b.initial ELSE b.after[n]

\* The snapshots of b form an unbroken chain from the initial project.
Chained(b) ==
    /\ Aligned(b)
    /\ b.cursor <= Len(b.history)
    /\ \A i \in 1..Len(b.history) : b.before[i] = StateAt(b, i - 1)

\* "Actual state is changed through snapshots captured around each successful
\* command": whatever was dispatched, undone, redone, persisted, lost in a crash
\* and replayed, each snapshot before a command is the snapshot after the one
\* before it, and the caller's project is the one at the cursor, so undo and redo
\* walk through real states (dispatch, undo, redo, replay_inner).
SnapshotChain ==
    mode = "running" /\ bus.initial # Null =>
        /\ Chained(bus)
        /\ project = StateAt(bus, bus.cursor)
        /\ bus.current = project

\* The provenance a reader finds in the project is that of the initial project
\* followed by one entry per command of the active history up to the cursor, in
\* order (record_command_provenance and the snapshots taken around it).
ProvenanceFollowsHistory ==
    mode = "running" =>
        LET known == Len(InitialProject.content.provenance)
            now   == project.content.provenance
        IN  /\ Len(now) = known + bus.cursor
            /\ \A i \in 1..bus.cursor : now[known + i].id = bus.history[i].id

\* Envelopes recorded without snapshots (push, or a loaded log before replay)
\* never let undo or redo restore a state that belongs to another command:
\* whenever a snapshot would be restored, the snapshots are aligned with the
\* history (undo and redo fail with MissingStateSnapshot otherwise).
RestoreFailsClosed ==
    UndoAvailable(bus) \/ RedoAvailable(bus) => Aligned(bus)

\* "Return the complete audit event stream": within the life of a process no
\* call drops or rewrites an audit event, not even a replay that fails half-way.
AuditAppendOnly ==
    [][mode = "running" /\ mode' = "running" => IsPrefix(bus.audit, bus'.audit)]_vars

-----------------------------------------------------------------------------
(* Replay.                                                                  *)

Stamped(s) == [i \in DOMAIN s |-> StateDigest(s[i])]

\* "A persisted log can reconstruct those snapshots from the initial Project":
\* a replay with the recorded executor never meets an event it rejects
\* (replay_inner, RecordedWorkflowExecutor).
ReplayNeverStuck ==
    job = "replay" /\ ~replay.live /\ replay.pos < Len(Todo)
        => ReplayAccepts(Todo[replay.pos + 1]) # {}

\* Replay is faithful: when every event has been replayed with the recorded
\* executor, the rebuilt bus has the history, the cursor and the execution
\* records of the bus it was built from, and the project it returns has the
\* digest of the state that was current (or that was persisted); a bus that
\* still had its snapshots gets the same ones back, runtime fields aside.
ReplayFaithful ==
    job = "replay" /\ ~replay.live /\ replay.pos = Len(Todo) =>
        /\ replay.work.history = bus.history
        /\ replay.work.cursor = bus.cursor
        /\ replay.work.executions = bus.executions
        /\ StateDigest(replay.state) =
              IF mode = "running" THEN StateDigest(bus.current) ELSE bus.expected
        /\ mode = "running" =>
              /\ Stamped(replay.work.before) = Stamped(bus.before)
              /\ Stamped(replay.work.after) = Stamped(bus.after)

(* The history accounts for the project: its snapshots form one chain that *)
(* ends at the project of the caller, whose provenance lists the commands  *)
(* up to the cursor (dispatch, undo, redo, replay_inner).                  *)
HistoryIsTheProject ==
    /\ SnapshotChain
    /\ ProvenanceFollowsHistory

(* A replay of what was recorded meets no event it rejects and ends in the *)
(* bus and the project it was recorded from (replay_inner,                 *)
(* RecordedWorkflowExecutor).                                              *)
ReplayRebuilds ==
    /\ ReplayNeverStuck
    /\ ReplayFaithful
=============================================================================
