--------------------------- MODULE CommandBusProofs ---------------------------
(***************************************************************************)
(* Theorems about CommandBus, for every set of requests, graphs and        *)
(* results, every initial project and every length of session.             *)
(*                                                                         *)
(* First, about AnySpec, the specification with every public entry point:  *)
(* types, restoring that fails closed, and an audit that only grows.  Then,*)
(* about Spec, whose clients dispatch every command (an envelope recorded  *)
(* with push has no snapshots): the history explains the project of the    *)
(* caller, and a replay of the recorded events rebuilds both.              *)
(***************************************************************************)
EXTENDS CommandBus, EditableLayerProofs

-----------------------------------------------------------------------------
(* apply_project_mutation keeps a project well formed.                      *)

\* The identity of an envelope names a layer AddLayer may create.
LEMMA EnvelopeLayer ==
    ASSUME NEW i \in EnvelopeIds
    PROVE  i \in LayerIds
  BY MaxEventsAssumption DEF EnvelopeIds, LayerIds

LEMMA ContentAfterType ==
    ASSUME NEW c \in Contents, NEW env, env.id \in EnvelopeIds,
           env.command \in Commands, MutationAccepted(c, env)
    PROVE  ContentAfter(c, env) \in Contents
  <1> DEFINE cmd == env.command
  <1>0. c.layers \in [LayerIds -> Layers \cup {Null}]
    BY DEF Contents
  <1>1. CASE cmd.op = "AddLayer"
    <2>1. NewLayer \in Layers
      BY DEF NewLayer, Layers
    <2>2. LayerAdded(c, env) \in Contents
      BY <2>1, EnvelopeLayer DEF LayerAdded, Contents
    <2> QED
      BY <1>1, <2>2 DEF ContentAfter
  <1>2. CASE cmd.op = "RemoveLayer"
    <2>1. LayerRemoved(c, cmd) \in Contents
      BY DEF LayerRemoved, Contents
    <2> QED
      BY <1>2, <2>1 DEF ContentAfter
  <1>3. CASE cmd.op = "SetLayerVisibility"
    <2>1. cmd.target \in LayerIds /\ cmd.visible \in BOOLEAN
      BY <1>3 DEF Commands, CatalogOps
    <2>2. c.layers[cmd.target] \in Layers
      BY <1>0, <1>3, <2>1 DEF MutationAccepted, LayerExists
    <2>3. [c.layers[cmd.target] EXCEPT !.visible = cmd.visible] \in Layers
      BY <2>1, <2>2 DEF Layers
    <2>4. VisibilitySet(c, cmd) \in Contents
      BY <2>1, <2>3 DEF VisibilitySet, Contents
    <2> QED
      BY <1>3, <2>4 DEF ContentAfter
  <1>4. CASE cmd.op = "SetViewCamera"
    <2>1. cmd.target \in ViewIds /\ cmd.camera \in Cameras
      BY <1>4 DEF Commands, CatalogOps
    <2>2. CameraSet(c, cmd) \in Contents
      BY <2>1 DEF CameraSet, Contents
    <2> QED
      BY <1>4, <2>2 DEF ContentAfter
  <1>5. CASE cmd.op = "InitializeEditableLayer"
    <2>1. cmd.target \in LayerIds /\ cmd.kind \in Families /\ cmd.schema \in SUBSET Attributes
      BY <1>5 DEF Commands, CatalogOps
    <2>2. NewEditLayer(cmd.kind, cmd.schema) \in EditLayers
      BY <2>1 DEF NewEditLayer, EditLayers
    <2>3. EditableInitialized(c, cmd) \in Contents
      BY <2>1, <2>2 DEF EditableInitialized, Contents
    <2> QED
      BY <1>5, <2>3 DEF ContentAfter
  <1>6. CASE cmd.op = "EditFeatures"
    <2>1. cmd.target \in LayerIds /\ cmd.edit \in Edits
      BY <1>6 DEF Commands, CatalogOps
    <2>2. /\ c.editable[cmd.target] \in EditLayers
          /\ EditAccepted(c.editable[cmd.target], cmd.expected, cmd.edit)
      BY <1>6, <2>1 DEF MutationAccepted, EditFeaturesAccepted, Contents
    <2>3. Edited(c.editable[cmd.target], cmd.edit) \in EditLayers
      BY <2>1, <2>2, EditedType
    <2>4. FeaturesEdited(c, cmd) \in Contents
      BY <2>1, <2>3 DEF FeaturesEdited, Contents
    <2> QED
      BY <1>6, <2>4 DEF ContentAfter
  <1>7. CASE cmd.op = "SetEvidenceMapStyle"
    <2>1. cmd.target \in LayerIds /\ cmd.style \in StyleIds
      BY <1>7 DEF Commands, CatalogOps
    <2>2. c.layers[cmd.target] \in Layers
      BY <1>0, <1>7, <2>1 DEF MutationAccepted, StyleAccepted, LayerExists
    <2>3. [c.layers[cmd.target] EXCEPT !.style = cmd.style] \in Layers
      BY <2>1, <2>2 DEF Layers
    <2> DEFINE styled == [c EXCEPT !.layers[cmd.target].style = cmd.style]
    <2>4. styled \in Contents
      BY <2>1, <2>3 DEF Contents
    <2> HIDE DEF styled
    <2>5. [styled EXCEPT !.styles[cmd.style] = cmd.target] \in Contents
      BY <2>1, <2>4 DEF Contents
    <2>6. StyleSet(c, cmd) \in Contents
      BY <2>5 DEF StyleSet, styled
    <2> QED
      BY <1>7, <2>6 DEF ContentAfter
  <1>8. CASE cmd.op = "RunWorkflow"
    BY <1>8 DEF ContentAfter
  <1> QED
    BY <1>1, <1>2, <1>3, <1>4, <1>5, <1>6, <1>7, <1>8 DEF MutationAccepted

\* An accepted command maps a project to a project.
LEMMA MutatedType ==
    ASSUME NEW p \in Projects, NEW env, env.id \in EnvelopeIds,
           env.command \in Commands, MutationAccepted(p.content, env),
           NEW result \in Results \cup {Null}, NEW now \in Clock
    PROVE  Mutated(p, env, result, now) \in Projects
  <1>1. p.content \in Contents /\ p.updated_at \in Clock \cup EnvelopeIds
    BY DEF Projects
  <1>2. ContentAfter(p.content, env) \in Contents
    BY <1>1, ContentAfterType
  <1>3. env.command.op \in MutationOps
    BY DEF MutationAccepted, MutationOps
  <1>4. ProvenanceEntry(env, result) \in ProvenanceEntries
    BY <1>3 DEF ProvenanceEntry, ProvenanceEntries
  <1>5. MutatedContent(p.content, env, result) \in Contents
    <2> DEFINE c == ContentAfter(p.content, env)
    <2>1. c \in Contents
      BY <1>2
    <2> HIDE DEF c
    <2> DEFINE entries == Append(c.provenance, ProvenanceEntry(env, result))
    <2>2. entries \in Seq(ProvenanceEntries)
      BY <2>1, <1>4 DEF Contents
    <2> HIDE DEF entries
    <2>3. [c EXCEPT !.provenance = entries] \in Contents
      BY <2>1, <2>2 DEF Contents
    <2> QED
      BY <2>3 DEF MutatedContent, c, entries
  <1>6. StampAfter(p, env, now) \in Clock \cup EnvelopeIds
    BY <1>1 DEF StampAfter
  <1> QED
    BY <1>5, <1>6 DEF Mutated, Projects

-----------------------------------------------------------------------------
(* Values of type CommandBus.                                               *)

LEMMA TruncateType ==
    ASSUME NEW S, NEW s \in Seq(S), NEW n \in Nat
    PROVE  /\ Truncate(s, n) \in Seq(S)
           /\ Len(Truncate(s, n)) = IF n < Len(s) THEN n ELSE Len(s)
  <1>1. CASE n < Len(s)
    <2>1. SubSeq(s, 1, n) \in Seq(S) /\ Len(SubSeq(s, 1, n)) = n
      BY <1>1
    <2> QED
      BY <1>1, <2>1 DEF Truncate
  <1>2. CASE ~ (n < Len(s))
    BY <1>2 DEF Truncate
  <1> QED
    BY <1>1, <1>2

LEMMA AppendLen ==
    ASSUME NEW S, NEW s \in Seq(S), NEW x \in S
    PROVE  Append(s, x) \in Seq(S) /\ Len(Append(s, x)) = Len(s) + 1
  OBVIOUS

LEMMA EnvelopeFields ==
    ASSUME NEW env \in Envelopes
    PROVE  /\ env.id \in EnvelopeIds
           /\ env.command \in Commands
           /\ env.digest \in {r.digest : r \in Requests \cup CatalogRequests}
  BY RequestsAssumption DEF Envelopes

LEMMA BusWithType ==
    ASSUME NEW graphs \in [WorkflowIds -> Graphs \cup {Null}]
    PROVE  BusWith(InitialProject, graphs) \in Buses
  BY InitialProjectAssumption DEF BusWith, Buses

LEMMA DefaultBusType == DefaultBus \in Buses
  BY DEF DefaultBus, Buses

LEMMA PushedType ==
    ASSUME NEW b \in Buses, NEW env \in Envelopes
    PROVE  Pushed(b, env) \in Buses
  <1>1. /\ b.cursor \in Nat /\ b.history \in Seq(Envelopes) /\ b.audit \in Seq(Envelopes)
        /\ b.before \in Seq(Projects) /\ b.after \in Seq(Projects)
    BY DEF Buses
  <1>2. /\ Truncate(b.history, b.cursor) \in Seq(Envelopes)
        /\ Truncate(b.before, b.cursor) \in Seq(Projects)
        /\ Truncate(b.after, b.cursor) \in Seq(Projects)
    BY <1>1, TruncateType
  <1>3. /\ Append(Truncate(b.history, b.cursor), env) \in Seq(Envelopes)
        /\ Append(b.audit, env) \in Seq(Envelopes)
        /\ Len(Truncate(b.history, b.cursor)) + 1 \in Nat
    BY <1>1, <1>2
  <1> QED
    BY <1>2, <1>3 DEF Pushed, Buses

LEMMA RestoredType ==
    ASSUME NEW b \in Buses, NEW n \in Nat, NEW p \in Projects, NEW audit \in Seq(Envelopes)
    PROVE  Restored(b, n, p, audit) \in Buses
  BY DEF Restored, Buses

LEMMA UndoneType ==
    ASSUME NEW b \in Buses, UndoAvailable(b), NEW audit \in Seq(Envelopes)
    PROVE  Undone(b, audit) \in Buses /\ b.before[b.cursor] \in Projects
  <1>1. b.cursor - 1 \in Nat /\ b.before[b.cursor] \in Projects
    BY DEF UndoAvailable, CanUndo, Buses
  <1> QED
    BY <1>1, RestoredType DEF Undone

LEMMA RedoneType ==
    ASSUME NEW b \in Buses, RedoAvailable(b), NEW audit \in Seq(Envelopes)
    PROVE  Redone(b, audit) \in Buses /\ b.after[b.cursor + 1] \in Projects
  <1>1. b.cursor + 1 \in Nat /\ b.after[b.cursor + 1] \in Projects
    BY DEF RedoAvailable, CanRedo, Buses
  <1> QED
    BY <1>1, RestoredType DEF Redone

LEMMA CommittedType ==
    ASSUME NEW b \in Buses, NEW p \in Projects, NEW q \in Projects,
           NEW env \in Envelopes, NEW result \in Results \cup {Null},
           b.initial = Null => p = InitialProject
    PROVE  Committed(b, p, q, env, result) \in Buses
  <1>1. /\ b.cursor \in Nat /\ b.history \in Seq(Envelopes) /\ b.audit \in Seq(Envelopes)
        /\ b.before \in Seq(Projects) /\ b.after \in Seq(Projects)
        /\ b.executions \in [EnvelopeIds -> ExecutionRecords \cup {Null}]
        /\ b.initial \in {Null, InitialProject}
    BY DEF Buses
  <1>2. /\ Truncate(b.history, b.cursor) \in Seq(Envelopes)
        /\ Truncate(b.before, b.cursor) \in Seq(Projects)
        /\ Truncate(b.after, b.cursor) \in Seq(Projects)
    BY <1>1, TruncateType
  <1>3. /\ Append(Truncate(b.history, b.cursor), env) \in Seq(Envelopes)
        /\ Append(Truncate(b.before, b.cursor), p) \in Seq(Projects)
        /\ Append(Truncate(b.after, b.cursor), q) \in Seq(Projects)
        /\ Append(b.audit, env) \in Seq(Envelopes)
        /\ Len(Truncate(b.history, b.cursor)) + 1 \in Nat
    BY <1>1, <1>2
  <1> DEFINE executions == IF result = Null THEN b.executions
                           ELSE [b.executions EXCEPT ![env.id] =
                                   [digest |-> env.digest, result |-> result]]
             initial == IF b.initial = Null THEN p ELSE b.initial
  <1>4. executions \in [EnvelopeIds -> ExecutionRecords \cup {Null}]
    <2>1. CASE result = Null
      BY <2>1, <1>1
    <2>2. CASE result # Null
      <3>1. [digest |-> env.digest, result |-> result] \in ExecutionRecords
        BY <2>2, EnvelopeFields DEF ExecutionRecords
      <3> QED
        BY <2>2, <3>1, <1>1
    <2> QED
      BY <2>1, <2>2
  <1>5. initial \in {Null, InitialProject}
    BY <1>1
  <1>6. Committed(b, p, q, env, result) =
          [history    |-> Append(Truncate(b.history, b.cursor), env),
           cursor     |-> Len(Truncate(b.history, b.cursor)) + 1,
           before     |-> Append(Truncate(b.before, b.cursor), p),
           after      |-> Append(Truncate(b.after, b.cursor), q),
           initial    |-> initial,
           current    |-> q,
           audit      |-> Append(b.audit, env),
           workflows  |-> b.workflows,
           executions |-> executions,
           expected   |-> b.expected]
    BY DEF Committed
  <1> HIDE DEF executions, initial
  <1> QED
    BY <1>3, <1>4, <1>5, <1>6 DEF Buses

\* dispatch maps a well-formed bus and project to a well-formed bus and project.
LEMMA BusAfterType ==
    ASSUME NEW b \in Buses, NEW p \in Projects, NEW env \in Envelopes,
           NEW result \in Results \cup {Null}, NEW now \in Clock,
           Accepted(b, p, env, result), b.initial = Null => p = InitialProject
    PROVE  /\ BusAfter(b, p, env, result, now) \in Buses
           /\ ProjectAfter(b, p, env, result, now) \in Projects
  <1>0. Append(b.audit, env) \in Seq(Envelopes)
    BY DEF Buses
  <1>1. CASE env.command.op = "Undo"
    <2>1. UndoAvailable(b)
      BY <1>1 DEF Accepted
    <2>2. Undone(b, Append(b.audit, env)) \in Buses /\ b.before[b.cursor] \in Projects
      BY <2>1, <1>0, UndoneType
    <2> QED
      BY <1>1, <2>2 DEF BusAfter, ProjectAfter
  <1>2. CASE env.command.op = "Redo"
    <2>1. RedoAvailable(b)
      BY <1>2 DEF Accepted
    <2>2. Redone(b, Append(b.audit, env)) \in Buses /\ b.after[b.cursor + 1] \in Projects
      BY <2>1, <1>0, RedoneType
    <2> QED
      BY <1>2, <2>2 DEF BusAfter, ProjectAfter
  <1>3. CASE env.command.op \notin {"Undo", "Redo"}
    <2>1. MutationAccepted(p.content, env)
      BY <1>3 DEF Accepted
    <2>2. Mutated(p, env, result, now) \in Projects
      BY <2>1, EnvelopeFields, MutatedType
    <2>3. Committed(b, p, Mutated(p, env, result, now), env, result) \in Buses
      BY <2>2, CommittedType
    <2> QED
      BY <1>3, <2>2, <2>3 DEF BusAfter, ProjectAfter
  <1> QED
    BY <1>1, <1>2, <1>3

-----------------------------------------------------------------------------
(* Snapshots against history.                                               *)

\* Either every command of the history has its snapshots, or some have none and
\* then the cursor is past the last snapshot and at the end of the history, or
\* there is no snapshot at all.  RestoreFailsClosed alone is not inductive: a
\* commit after an envelope without snapshots must not realign the arrays.
FailClosed(b) ==
    /\ b.cursor <= Len(b.history)
    /\ Len(b.after) = Len(b.before)
    /\ \/ Len(b.before) = Len(b.history)
       \/ /\ Len(b.before) < Len(b.history)
          /\ b.cursor = Len(b.history) \/ Len(b.before) = 0

\* A bus that was never given a project has no snapshot to restore.
BusInv(b) ==
    /\ FailClosed(b)
    /\ b.initial = Null => b.before = << >> /\ b.after = << >>

LEMMA InitialProjectNotNull == InitialProject # Null
  BY InitialProjectAssumption, NullAssumption

LEMMA FailClosedAligned ==
    ASSUME NEW b \in Buses, FailClosed(b), UndoAvailable(b) \/ RedoAvailable(b)
    PROVE  Aligned(b)
  <1>1. /\ b.cursor \in Nat /\ Len(b.history) \in Nat
        /\ Len(b.before) \in Nat /\ Len(b.after) \in Nat
    BY DEF Buses
  <1> QED
    BY <1>1 DEF FailClosed, Aligned, UndoAvailable, RedoAvailable, CanUndo, CanRedo

LEMMA NoSnapshotNoRestore ==
    ASSUME NEW b \in Buses, BusInv(b), UndoAvailable(b) \/ RedoAvailable(b)
    PROVE  b.initial # Null
  <1> SUFFICES ASSUME b.initial = Null PROVE FALSE
    OBVIOUS
  <1>1. Len(b.before) = 0 /\ Len(b.after) = 0 /\ b.cursor \in Nat
    BY DEF BusInv, Buses
  <1> QED
    BY <1>1 DEF UndoAvailable, RedoAvailable, CanUndo, CanRedo

LEMMA PushedInv ==
    ASSUME NEW b \in Buses, NEW env \in Envelopes, BusInv(b)
    PROVE  BusInv(Pushed(b, env))
  <1> DEFINE c == Pushed(b, env)
  <1>1. /\ b.cursor \in Nat /\ b.history \in Seq(Envelopes)
        /\ b.before \in Seq(Projects) /\ b.after \in Seq(Projects)
    BY DEF Buses
  <1>2. /\ Truncate(b.history, b.cursor) \in Seq(Envelopes)
        /\ Len(Truncate(b.history, b.cursor)) = b.cursor
        /\ Len(Truncate(b.before, b.cursor)) =
              IF b.cursor < Len(b.before) THEN b.cursor ELSE Len(b.before)
        /\ Len(Truncate(b.after, b.cursor)) =
              IF b.cursor < Len(b.after) THEN b.cursor ELSE Len(b.after)
    BY <1>1, TruncateType DEF BusInv, FailClosed
  <1>3. /\ c.cursor = b.cursor + 1
        /\ Len(c.history) = b.cursor + 1
        /\ Len(c.before) = Len(Truncate(b.before, b.cursor))
        /\ Len(c.after) = Len(Truncate(b.after, b.cursor))
    BY <1>1, <1>2 DEF Pushed
  <1>4. FailClosed(c)
    BY <1>1, <1>2, <1>3 DEF BusInv, FailClosed
  <1>5. c.initial = Null => c.before = << >> /\ c.after = << >>
    <2> SUFFICES ASSUME c.initial = Null PROVE c.before = << >> /\ c.after = << >>
      OBVIOUS
    <2>1. b.before = << >> /\ b.after = << >> /\ ~ (b.cursor < 0)
      BY <1>1 DEF BusInv, Pushed
    <2> QED
      BY <2>1 DEF Pushed, Truncate
  <1> QED
    BY <1>4, <1>5 DEF BusInv

LEMMA CommittedInv ==
    ASSUME NEW b \in Buses, NEW p \in Projects, NEW q \in Projects,
           NEW env \in Envelopes, NEW result, BusInv(b)
    PROVE  LET c == Committed(b, p, q, env, result)
           IN  BusInv(c) /\ c.initial # Null /\ c.current = q
  <1> DEFINE c == Committed(b, p, q, env, result)
  <1>1. /\ b.cursor \in Nat /\ b.history \in Seq(Envelopes)
        /\ b.before \in Seq(Projects) /\ b.after \in Seq(Projects)
    BY DEF Buses
  <1>2. /\ Truncate(b.history, b.cursor) \in Seq(Envelopes)
        /\ Truncate(b.before, b.cursor) \in Seq(Projects)
        /\ Truncate(b.after, b.cursor) \in Seq(Projects)
        /\ Len(Truncate(b.history, b.cursor)) = b.cursor
        /\ Len(Truncate(b.before, b.cursor)) =
              IF b.cursor < Len(b.before) THEN b.cursor ELSE Len(b.before)
        /\ Len(Truncate(b.after, b.cursor)) =
              IF b.cursor < Len(b.after) THEN b.cursor ELSE Len(b.after)
    BY <1>1, TruncateType DEF BusInv, FailClosed
  <1>3. /\ c.cursor = b.cursor + 1
        /\ Len(c.history) = b.cursor + 1
        /\ Len(c.before) = Len(Truncate(b.before, b.cursor)) + 1
        /\ Len(c.after) = Len(Truncate(b.after, b.cursor)) + 1
    <2>1. /\ c.cursor = Len(Truncate(b.history, b.cursor)) + 1
          /\ c.history = Append(Truncate(b.history, b.cursor), env)
          /\ c.before = Append(Truncate(b.before, b.cursor), p)
          /\ c.after = Append(Truncate(b.after, b.cursor), q)
      BY DEF Committed
    <2>2. Len(c.history) = Len(Truncate(b.history, b.cursor)) + 1
      <3> DEFINE h == Truncate(b.history, b.cursor)
      <3>1. h \in Seq(Envelopes)
        BY <1>2
      <3> HIDE DEF h
      <3>2. Len(Append(h, env)) = Len(h) + 1
        BY <3>1, AppendLen
      <3> QED
        BY <2>1, <3>2 DEF h
    <2>3. Len(c.before) = Len(Truncate(b.before, b.cursor)) + 1
      BY <1>2, <2>1, AppendLen
    <2>4. Len(c.after) = Len(Truncate(b.after, b.cursor)) + 1
      BY <1>2, <2>1, AppendLen
    <2> HIDE DEF c
    <2> QED
      BY <1>1, <1>2, <2>1, <2>2, <2>3, <2>4
  <1>4. FailClosed(c)
    BY <1>1, <1>2, <1>3 DEF BusInv, FailClosed
  <1>5. c.initial # Null /\ c.current = q
    BY NullAssumption DEF Committed
  <1> QED
    BY <1>4, <1>5 DEF BusInv

LEMMA RestoredInv ==
    ASSUME NEW b \in Buses, BusInv(b), UndoAvailable(b) \/ RedoAvailable(b),
           NEW n \in Nat, n <= Len(b.history), NEW p, NEW audit
    PROVE  LET c == Restored(b, n, p, audit)
           IN  BusInv(c) /\ c.initial # Null /\ c.current = p
  <1> DEFINE c == Restored(b, n, p, audit)
  <1>1. Aligned(b) /\ b.initial # Null
    BY FailClosedAligned, NoSnapshotNoRestore DEF BusInv
  <1>2. /\ c.cursor = n /\ c.history = b.history /\ c.before = b.before
        /\ c.after = b.after /\ c.initial = b.initial /\ c.current = p
    BY DEF Restored
  <1>3. FailClosed(c)
    BY <1>1, <1>2 DEF Aligned, FailClosed
  <1> QED
    BY <1>1, <1>2, <1>3 DEF BusInv

LEMMA UndoneInv ==
    ASSUME NEW b \in Buses, BusInv(b), UndoAvailable(b), NEW audit
    PROVE  LET c == Undone(b, audit)
           IN  BusInv(c) /\ c.initial # Null /\ c.current = b.before[b.cursor]
  <1>1. b.cursor - 1 \in Nat /\ b.cursor - 1 <= Len(b.history)
    BY DEF UndoAvailable, CanUndo, Buses, BusInv, FailClosed
  <1> QED
    BY <1>1, RestoredInv DEF Undone

LEMMA RedoneInv ==
    ASSUME NEW b \in Buses, BusInv(b), RedoAvailable(b), NEW audit
    PROVE  LET c == Redone(b, audit)
           IN  BusInv(c) /\ c.initial # Null /\ c.current = b.after[b.cursor + 1]
  <1>1. b.cursor + 1 \in Nat /\ b.cursor + 1 <= Len(b.history)
    BY DEF RedoAvailable, CanRedo, Buses, BusInv, FailClosed
  <1> QED
    BY <1>1, RestoredInv DEF Redone

\* dispatch preserves the invariant, records the envelope in the audit log and
\* leaves the bus with the caller's project.
LEMMA BusAfterInv ==
    ASSUME NEW b \in Buses, NEW p \in Projects, NEW env \in Envelopes,
           NEW result \in Results \cup {Null}, NEW now \in Clock,
           Accepted(b, p, env, result), BusInv(b)
    PROVE  LET c == BusAfter(b, p, env, result, now)
           IN  /\ BusInv(c)
               /\ c.initial # Null
               /\ c.current = ProjectAfter(b, p, env, result, now)
               /\ c.audit = Append(b.audit, env)
  <1>1. CASE env.command.op = "Undo"
    <2>1. UndoAvailable(b)
      BY <1>1 DEF Accepted
    <2>2. BusAfter(b, p, env, result, now) = Undone(b, Append(b.audit, env))
      BY <1>1 DEF BusAfter
    <2>3. ProjectAfter(b, p, env, result, now) = b.before[b.cursor]
      BY <1>1 DEF ProjectAfter
    <2>4. Undone(b, Append(b.audit, env)).audit = Append(b.audit, env)
      BY DEF Undone, Restored
    <2> QED
      BY <2>1, <2>2, <2>3, <2>4, UndoneInv
  <1>2. CASE env.command.op = "Redo"
    <2>1. RedoAvailable(b)
      BY <1>2 DEF Accepted
    <2>2. BusAfter(b, p, env, result, now) = Redone(b, Append(b.audit, env))
      BY <1>2 DEF BusAfter
    <2>3. ProjectAfter(b, p, env, result, now) = b.after[b.cursor + 1]
      BY <1>2 DEF ProjectAfter
    <2>4. Redone(b, Append(b.audit, env)).audit = Append(b.audit, env)
      BY DEF Redone, Restored
    <2> QED
      BY <2>1, <2>2, <2>3, <2>4, RedoneInv
  <1>3. CASE env.command.op \notin {"Undo", "Redo"}
    <2> DEFINE q == Mutated(p, env, result, now)
    <2>1. MutationAccepted(p.content, env)
      BY <1>3 DEF Accepted
    <2>2. q \in Projects
      BY <2>1, EnvelopeFields, MutatedType
    <2>3. BusAfter(b, p, env, result, now) = Committed(b, p, q, env, result)
      BY <1>3 DEF BusAfter
    <2>4. ProjectAfter(b, p, env, result, now) = q
      BY <1>3 DEF ProjectAfter
    <2>5. Committed(b, p, q, env, result).audit = Append(b.audit, env)
      BY DEF Committed
    <2> HIDE DEF q
    <2> QED
      BY <2>2, <2>3, <2>4, <2>5, CommittedInv
  <1> QED
    BY <1>1, <1>2, <1>3

-----------------------------------------------------------------------------
(* The inductive invariant of the process.                                  *)

MemoryInv ==
    /\ BusInv(bus)
    /\ mode = "running" =>
          IF bus.initial = Null THEN project = InitialProject ELSE bus.current # Null

ReplayInv ==
    /\ job = "replay" => replay # Null /\ bus.initial # Null
    /\ replay # Null =>
          /\ BusInv(replay.work) /\ replay.work.initial # Null
          /\ replay.stage = "active" =>
                /\ replay.replayed # Null /\ BusInv(replay.replayed)
                /\ replay.replayed.initial # Null

LogInv(log) == log # Null => log.cursor <= Len(log.commands)

StorageInv ==
    /\ job = "write" => pending # Null
    /\ LogInv(pending)
    /\ disk.status = "log" => disk.log # Null
    /\ LogInv(disk.log)

Inv == TypeOK /\ MemoryInv /\ ReplayInv /\ StorageInv

LEMMA LogOfType ==
    ASSUME NEW b \in Buses, b.initial # Null, BusInv(b), NEW p \in Projects
    PROVE  LogOf(b, p) \in Logs /\ LogInv(LogOf(b, p)) /\ LogOf(b, p) # Null
  <1>1. p.content \in Contents
    BY DEF Projects
  <1>2. b.initial \in {InitialProject}
    BY DEF Buses
  <1>3. LogOf(b, p) \in Logs
    BY <1>1, <1>2 DEF LogOf, Logs, Buses, StateDigest
  <1>4. LogOf(b, p).cursor = b.cursor /\ LogOf(b, p).commands = b.history
    BY DEF LogOf
  <1>5. LogInv(LogOf(b, p))
    BY <1>4 DEF LogInv, BusInv, FailClosed
  <1> QED
    BY <1>3, <1>5, NullAssumption

LEMMA RebuiltType ==
    ASSUME NEW b \in Buses, NEW r \in Buses, NEW p \in Projects
    PROVE  Rebuilt(b, r, p) \in Buses
  BY DEF Rebuilt, Buses

LEMMA RebuiltInv ==
    ASSUME NEW b \in Buses, NEW r \in Buses, BusInv(r), NEW p \in Projects
    PROVE  /\ BusInv(Rebuilt(b, r, p)) /\ Rebuilt(b, r, p).current = p
           /\ Rebuilt(b, r, p).audit = b.audit
  <1> DEFINE c == Rebuilt(b, r, p)
  <1>1. /\ c.cursor = r.cursor /\ c.history = r.history /\ c.before = r.before
        /\ c.after = r.after /\ c.initial = r.initial /\ c.current = p
        /\ c.audit = b.audit
    BY DEF Rebuilt
  <1> QED
    BY <1>1 DEF BusInv, FailClosed

LEMMA BusWithInv ==
    ASSUME NEW graphs
    PROVE  BusInv(BusWith(InitialProject, graphs))
  <1> DEFINE c == BusWith(InitialProject, graphs)
  <1>1. c.cursor = 0 /\ c.history = << >> /\ c.before = << >> /\ c.after = << >>
    BY DEF BusWith
  <1> QED
    BY <1>1 DEF BusInv, FailClosed

LEMMA DefaultBusInv == BusInv(DefaultBus)
  <1>1. /\ DefaultBus.cursor = 0 /\ DefaultBus.history = << >>
        /\ DefaultBus.before = << >> /\ DefaultBus.after = << >>
    BY DEF DefaultBus
  <1> QED
    BY <1>1 DEF BusInv, FailClosed

\* CommandBus::new and the Default bus are well formed.
LEMMA FreshBuses ==
    /\ NewBus(InitialProject) \in Buses
    /\ BusInv(NewBus(InitialProject))
    /\ NewBus(InitialProject).initial = InitialProject
    /\ NewBus(InitialProject).current = InitialProject
    /\ DefaultBus.initial = Null
  <1>1. DefaultBus.workflows \in [WorkflowIds -> Graphs \cup {Null}]
    BY DEF DefaultBus
  <1>2. DefaultBus.initial = Null
    BY DEF DefaultBus
  <1>3. /\ NewBus(InitialProject).initial = InitialProject
        /\ NewBus(InitialProject).current = InitialProject
    BY DEF NewBus, BusWith
  <1> QED
    BY <1>1, <1>2, <1>3, BusWithType, BusWithInv DEF NewBus

LEMMA InitInv == Init => Inv
  <1> SUFFICES ASSUME Init PROVE Inv
    OBVIOUS
  <1>1. bus \in Buses /\ BusInv(bus)
    BY FreshBuses, DefaultBusType, DefaultBusInv DEF Init
  <1>2. disk.status = "absent" /\ disk.log = Null
    BY DEF Init
  <1>3. TypeOK
    BY <1>1, InitialProjectAssumption DEF Init, TypeOK
  <1>4. MemoryInv
    BY <1>1, FreshBuses, InitialProjectNotNull DEF Init, MemoryInv
  <1>5. ReplayInv
    BY DEF Init, ReplayInv
  <1>6. StorageInv
    BY <1>2 DEF Init, StorageInv, LogInv
  <1> QED
    BY <1>3, <1>4, <1>5, <1>6 DEF Inv

\* Loading a log gives a bus with the log's cursor and history and no snapshot.
LEMMA LoadedBusType ==
    ASSUME NEW log \in Logs, LogInv(log)
    PROVE  LoadedBus(log) \in Buses /\ BusInv(LoadedBus(log))
  <1> DEFINE c == LoadedBus(log)
  <1>1. c \in Buses
    BY DEF LoadedBus, Logs, Buses
  <1>2. /\ c.cursor = log.cursor /\ c.history = log.commands
        /\ c.before = << >> /\ c.after = << >>
    BY DEF LoadedBus
  <1>3. log # Null /\ Len(log.commands) \in Nat /\ log.cursor \in Nat
    BY NullAssumption DEF Logs
  <1>4. BusInv(c)
    BY <1>2, <1>3 DEF LogInv, BusInv, FailClosed
  <1> QED
    BY <1>1, <1>4

-----------------------------------------------------------------------------
(* Every action preserves the invariant.                                    *)

LEMMA EnvelopeType ==
    ASSUME NEW request \in Requests \cup CatalogRequests, FreshId \in EnvelopeIds
    PROVE  Envelope(request) \in Envelopes
  BY DEF Envelope, Envelopes

LEMMA RegisterWorkflowInv ==
    ASSUME Inv, NEW g \in Graphs, RegisterWorkflow(g)
    PROVE  Inv' /\ bus'.audit = bus.audit
  <1> DEFINE w == [bus.workflows EXCEPT ![g.id] = g]
  <1>0. bus \in Buses /\ bus.workflows \in [WorkflowIds -> Graphs \cup {Null}]
    BY DEF Inv, TypeOK, Buses
  <1>1. w \in [WorkflowIds -> Graphs \cup {Null}]
    BY <1>0
  <1>2. bus' = [bus EXCEPT !.workflows = w]
    BY DEF RegisterWorkflow, Registered
  <1> HIDE DEF w
  <1>3. bus' \in Buses
    BY <1>0, <1>1, <1>2 DEF Buses
  <1>4. /\ bus'.cursor = bus.cursor /\ bus'.history = bus.history
        /\ bus'.before = bus.before /\ bus'.after = bus.after
        /\ bus'.initial = bus.initial /\ bus'.current = bus.current
        /\ bus'.audit = bus.audit
    BY <1>0, <1>2 DEF Buses
  <1>5. BusInv(bus')
    BY <1>4 DEF Inv, MemoryInv, BusInv, FailClosed
  <1>6. UNCHANGED <<mode, job, project, replay, pending, disk>>
    BY DEF RegisterWorkflow
  <1>7. TypeOK'
    BY <1>3, <1>6 DEF Inv, TypeOK
  <1>8. MemoryInv'
    BY <1>4, <1>5, <1>6 DEF Inv, MemoryInv
  <1>9. ReplayInv' /\ StorageInv'
    BY <1>4, <1>6 DEF Inv, ReplayInv, StorageInv, LogInv
  <1> QED
    BY <1>4, <1>7, <1>8, <1>9 DEF Inv

\* The caller of a running process changes the bus and the project and nothing
\* else: what must be shown of such a step.
LEMMA MemoryStepInv ==
    ASSUME Inv, Running, UNCHANGED <<mode, job, replay, pending, disk>>,
           bus' \in Buses, project' \in Projects, BusInv(bus'),
           IF bus'.initial = Null THEN project' = InitialProject ELSE bus'.current # Null
    PROVE  Inv'
  <1>1. TypeOK'
    BY DEF Inv, TypeOK
  <1>2. MemoryInv'
    BY DEF MemoryInv
  <1>3. ReplayInv'
    BY DEF Inv, ReplayInv, Running
  <1>4. StorageInv'
    BY DEF Inv, StorageInv, LogInv
  <1> QED
    BY <1>1, <1>2, <1>3, <1>4 DEF Inv

LEMMA DispatchInv ==
    ASSUME Inv, NEW request \in Requests, Dispatch(request)
    PROVE  Inv' /\ bus'.audit = Append(bus.audit, Envelope(request))
  <1> DEFINE env == Envelope(request)
  <1>0. env \in Envelopes
    BY EnvelopeType DEF Dispatch
  <1>1. PICK result \in Results \cup {Null}, now \in Clock :
          /\ Accepted(bus, project, env, result)
          /\ bus' = BusAfter(bus, project, env, result, now)
          /\ project' = ProjectAfter(bus, project, env, result, now)
    BY DEF Dispatch
  <1> HIDE DEF env
  <1>2. /\ Running /\ bus \in Buses /\ project \in Projects /\ BusInv(bus)
        /\ bus.initial = Null => project = InitialProject
    BY DEF Dispatch, Running, Inv, TypeOK, MemoryInv
  <1>3. bus' \in Buses /\ project' \in Projects
    BY <1>0, <1>1, <1>2, BusAfterType
  <1>4. /\ BusInv(bus') /\ bus'.initial # Null /\ bus'.current = project'
        /\ bus'.audit = Append(bus.audit, env)
    BY <1>0, <1>1, <1>2, BusAfterInv
  <1>5. bus'.current # Null
    BY <1>3, <1>4, NullAssumption
  <1>6. UNCHANGED <<mode, job, replay, pending, disk>>
    BY DEF Dispatch
  <1>7. Inv'
    BY <1>2, <1>3, <1>4, <1>5, <1>6, MemoryStepInv
  <1> QED
    BY <1>4, <1>7 DEF env

LEMMA PushInv ==
    ASSUME Inv, NEW request \in CatalogRequests, Push(request)
    PROVE  Inv' /\ bus'.audit = Append(bus.audit, Envelope(request))
  <1> DEFINE env == Envelope(request)
  <1>0. env \in Envelopes
    BY EnvelopeType DEF Push
  <1>1. bus' = Pushed(bus, env)
    BY DEF Push
  <1> HIDE DEF env
  <1>2. Running /\ bus \in Buses /\ project \in Projects /\ BusInv(bus)
    BY DEF Push, Inv, TypeOK, MemoryInv
  <1>3. bus' \in Buses /\ BusInv(bus')
    BY <1>0, <1>1, <1>2, PushedType, PushedInv
  <1>4. /\ bus'.initial = bus.initial /\ bus'.current = bus.current
        /\ bus'.audit = Append(bus.audit, env)
    BY <1>1 DEF Pushed
  <1>5. UNCHANGED <<mode, job, project, replay, pending, disk>>
    BY DEF Push
  <1>6. IF bus'.initial = Null THEN project' = InitialProject ELSE bus'.current # Null
    BY <1>2, <1>4, <1>5 DEF Inv, MemoryInv, Running
  <1>7. Inv'
    BY <1>2, <1>3, <1>5, <1>6, MemoryStepInv
  <1> QED
    BY <1>4, <1>7 DEF env

LEMMA DirectInv ==
    ASSUME Inv, DirectUndo \/ DirectRedo
    PROVE  Inv' /\ bus'.audit = bus.audit
  <1>0. Running /\ bus \in Buses /\ BusInv(bus) /\ bus.audit \in Seq(Envelopes)
    BY DEF DirectUndo, DirectRedo, Inv, TypeOK, MemoryInv, Buses
  <1>1. UNCHANGED <<mode, job, replay, pending, disk>>
    BY DEF DirectUndo, DirectRedo
  <1>2. /\ bus' \in Buses /\ project' \in Projects /\ BusInv(bus')
        /\ bus'.initial # Null /\ bus'.current = project'
        /\ bus'.audit = bus.audit
    <2>1. CASE DirectUndo
      <3>1. /\ UndoAvailable(bus) /\ bus' = Undone(bus, bus.audit)
            /\ project' = bus.before[bus.cursor]
        BY <2>1 DEF DirectUndo
      <3>2. Undone(bus, bus.audit).audit = bus.audit
        BY DEF Undone, Restored
      <3> QED
        BY <1>0, <3>1, <3>2, UndoneType, UndoneInv
    <2>2. CASE DirectRedo
      <3>1. /\ RedoAvailable(bus) /\ bus' = Redone(bus, bus.audit)
            /\ project' = bus.after[bus.cursor + 1]
        BY <2>2 DEF DirectRedo
      <3>2. Redone(bus, bus.audit).audit = bus.audit
        BY DEF Redone, Restored
      <3> QED
        BY <1>0, <3>1, <3>2, RedoneType, RedoneInv
    <2> QED
      BY <2>1, <2>2
  <1>3. bus'.current # Null
    BY <1>2, NullAssumption
  <1> QED
    BY <1>0, <1>1, <1>2, <1>3, MemoryStepInv

LEMMA BeginReplayInv ==
    ASSUME Inv, NEW live \in BOOLEAN, NEW saving \in BOOLEAN, BeginReplay(live, saving)
    PROVE  Inv' /\ bus' = bus
  <1>0. /\ bus \in Buses /\ bus.initial = InitialProject
        /\ bus.workflows \in [WorkflowIds -> Graphs \cup {Null}]
    BY DEF BeginReplay, Inv, TypeOK, Buses
  <1> DEFINE work == FreshWork(bus)
  <1>1. work \in Buses /\ BusInv(work)
    BY <1>0, BusWithType, BusWithInv DEF FreshWork
  <1>2. work.initial = InitialProject
    BY <1>0 DEF FreshWork, BusWith
  <1>3. replay' = [stage |-> "events", live |-> live, saving |-> saving, pos |-> 0,
                   work |-> work, state |-> InitialProject, replayed |-> Null]
    BY <1>0 DEF BeginReplay
  <1> HIDE DEF work
  <1>4. replay' \in Replays
    BY <1>1, <1>3, InitialProjectAssumption DEF Replays
  <1>5. replay'.work = work /\ replay'.stage = "events"
    BY <1>3
  <1>6. job' = "replay" /\ UNCHANGED <<mode, bus, project, pending, disk>>
    BY DEF BeginReplay
  <1>7. TypeOK'
    BY <1>4, <1>6 DEF Inv, TypeOK
  <1>8. ReplayInv'
    BY <1>0, <1>1, <1>2, <1>4, <1>5, <1>6, InitialProjectNotNull, NullAssumption
       DEF ReplayInv
  <1>9. MemoryInv' /\ StorageInv'
    BY <1>6 DEF Inv, MemoryInv, StorageInv, LogInv
  <1> QED
    BY <1>6, <1>7, <1>8, <1>9 DEF Inv

\* What a replay in progress is made of.
LEMMA ReplayParts ==
    ASSUME Inv, job = "replay"
    PROVE  /\ bus \in Buses /\ bus.initial = InitialProject /\ BusInv(bus)
           /\ replay \in Replays
           /\ replay.work \in Buses /\ replay.state \in Projects /\ replay.pos \in Nat
           /\ replay.stage \in {"events", "active"}
           /\ replay.live \in BOOLEAN /\ replay.saving \in BOOLEAN
           /\ replay.replayed \in Buses \cup {Null}
           /\ replay.work.initial = InitialProject /\ BusInv(replay.work)
           /\ replay.stage = "active" =>
                 /\ replay.replayed \in Buses /\ BusInv(replay.replayed)
                 /\ replay.replayed.initial # Null
  <1>1. /\ bus \in Buses /\ bus.initial # Null /\ BusInv(bus)
        /\ replay \in Replays /\ BusInv(replay.work) /\ replay.work.initial # Null
        /\ replay.stage = "active" =>
              /\ replay.replayed # Null /\ BusInv(replay.replayed)
              /\ replay.replayed.initial # Null
    BY DEF Inv, TypeOK, MemoryInv, ReplayInv
  <1>2. /\ replay.work \in Buses /\ replay.state \in Projects /\ replay.pos \in Nat
        /\ replay.stage \in {"events", "active"}
        /\ replay.live \in BOOLEAN /\ replay.saving \in BOOLEAN
        /\ replay.replayed \in Buses \cup {Null}
    BY <1>1 DEF Replays
  <1>3. bus.initial = InitialProject /\ replay.work.initial = InitialProject
    BY <1>1, <1>2 DEF Buses
  <1> QED
    BY <1>1, <1>2, <1>3

LEMMA TodoType ==
    ASSUME Inv, job = "replay"
    PROVE  Todo \in Seq(Envelopes)
  <1>1. /\ bus.audit \in Seq(Envelopes) /\ bus.history \in Seq(Envelopes)
        /\ bus.cursor \in Nat /\ bus.cursor <= Len(bus.history)
    BY ReplayParts DEF Buses, BusInv, FailClosed
  <1>2. SubSeq(bus.history, 1, bus.cursor) \in Seq(Envelopes)
    BY <1>1
  <1> QED
    BY <1>1, <1>2 DEF Todo, Events

LEMMA ReplayEventInv ==
    ASSUME Inv, ReplayEvent
    PROVE  Inv' /\ bus' = bus
  <1> DEFINE env == Todo[replay.pos + 1]
  <1>0. job = "replay" /\ replay.pos < Len(Todo)
    BY DEF ReplayEvent
  <1>1. env \in Envelopes
    <2>1. Todo \in Seq(Envelopes) /\ replay.pos \in Nat
      BY <1>0, TodoType, ReplayParts
    <2>2. replay.pos + 1 \in 1..Len(Todo)
      BY <1>0, <2>1
    <2> QED
      BY <2>1, <2>2
  <1>2. PICK result \in ReplayAccepts(env), now \in Clock :
          replay' =
            [stage    |-> replay.stage,
             live     |-> replay.live,
             saving   |-> replay.saving,
             pos      |-> replay.pos + 1,
             work     |-> BusAfter(replay.work, replay.state, env, result, now),
             state    |-> ProjectAfter(replay.work, replay.state, env, result, now),
             replayed |-> replay.replayed]
    BY DEF ReplayEvent
  <1> HIDE DEF env
  <1>3. Accepted(replay.work, replay.state, env, result)
    BY <1>2 DEF ReplayAccepts
  <1>4. result \in Results \cup {Null}
    <2>1. result \in ReplayResults(env)
      BY <1>2 DEF ReplayAccepts
    <2>2. bus.executions[env.id] \in ExecutionRecords \cup {Null}
      BY <1>0, <1>1, ReplayParts, EnvelopeFields DEF Buses
    <2>3. ASSUME NEW record \in ExecutionRecords PROVE record.result \in Results
      BY DEF ExecutionRecords
    <2> QED
      BY <2>1, <2>2, <2>3 DEF ReplayResults
  <1> DEFINE work == BusAfter(replay.work, replay.state, env, result, now)
             state == ProjectAfter(replay.work, replay.state, env, result, now)
  <1>5. replay.work.initial # Null
    BY <1>0, ReplayParts, InitialProjectNotNull
  <1>6. work \in Buses /\ state \in Projects
    BY <1>0, <1>1, <1>2, <1>3, <1>4, <1>5, ReplayParts, BusAfterType
  <1>7. BusInv(work) /\ work.initial # Null
    BY <1>0, <1>1, <1>2, <1>3, <1>4, ReplayParts, BusAfterInv
  <1> HIDE DEF work, state
  <1>8. replay' = [stage |-> replay.stage, live |-> replay.live,
                   saving |-> replay.saving, pos |-> replay.pos + 1,
                   work |-> work, state |-> state, replayed |-> replay.replayed]
    BY <1>2 DEF work, state
  <1>9. replay' \in Replays
    BY <1>0, <1>6, <1>8, ReplayParts DEF Replays
  <1>10. /\ replay'.work = work /\ replay'.stage = replay.stage
         /\ replay'.replayed = replay.replayed
    BY <1>8
  <1>11. UNCHANGED <<mode, job, bus, project, pending, disk>>
    BY DEF ReplayEvent
  <1>12. TypeOK'
    BY <1>9, <1>11 DEF Inv, TypeOK
  <1>13. ReplayInv'
    BY <1>0, <1>7, <1>9, <1>10, <1>11, NullAssumption, ReplayParts DEF Inv, ReplayInv
  <1>14. MemoryInv' /\ StorageInv'
    BY <1>11 DEF Inv, MemoryInv, StorageInv, LogInv
  <1> QED
    BY <1>11, <1>12, <1>13, <1>14 DEF Inv

\* A replay that ends without a result leaves the bus as it was.
LEMMA ReplayAbandonedInv ==
    ASSUME Inv, ReplayRejected \/ ReplayMismatch
    PROVE  Inv' /\ bus' = bus
  <1>1. job' = "none" /\ replay' = Null /\ UNCHANGED <<mode, bus, project, pending, disk>>
    BY DEF ReplayRejected, ReplayMismatch
  <1>2. TypeOK'
    BY <1>1 DEF Inv, TypeOK
  <1>3. MemoryInv' /\ ReplayInv' /\ StorageInv'
    BY <1>1 DEF Inv, MemoryInv, ReplayInv, StorageInv, LogInv
  <1> QED
    BY <1>1, <1>2, <1>3 DEF Inv

LEMMA ReplayActiveHistoryInv ==
    ASSUME Inv, ReplayActiveHistory
    PROVE  Inv' /\ bus' = bus
  <1>0. job = "replay"
    BY DEF ReplayActiveHistory
  <1> DEFINE work == FreshWork(replay.work)
  <1>1. replay.work.workflows \in [WorkflowIds -> Graphs \cup {Null}]
    BY <1>0, ReplayParts DEF Buses
  <1>2. work \in Buses /\ BusInv(work)
    BY <1>0, <1>1, ReplayParts, BusWithType, BusWithInv DEF FreshWork
  <1>3. work.initial = InitialProject
    BY <1>0, ReplayParts DEF FreshWork, BusWith
  <1>4. replay' = [stage |-> "active", live |-> replay.live, saving |-> replay.saving,
                   pos |-> 0, work |-> work, state |-> bus.initial,
                   replayed |-> replay.work]
    BY DEF ReplayActiveHistory
  <1> HIDE DEF work
  <1>5. replay' \in Replays
    BY <1>0, <1>2, <1>4, ReplayParts, InitialProjectAssumption DEF Replays
  <1>6. replay'.work = work /\ replay'.replayed = replay.work
    BY <1>4
  <1>7. UNCHANGED <<mode, job, bus, project, pending, disk>>
    BY DEF ReplayActiveHistory
  <1>8. TypeOK'
    BY <1>5, <1>7 DEF Inv, TypeOK
  <1>9. ReplayInv'
    BY <1>0, <1>2, <1>3, <1>5, <1>6, <1>7, ReplayParts, InitialProjectNotNull,
       NullAssumption DEF ReplayInv
  <1>10. MemoryInv' /\ StorageInv'
    BY <1>7 DEF Inv, MemoryInv, StorageInv, LogInv
  <1> QED
    BY <1>7, <1>8, <1>9, <1>10 DEF Inv

\* A replay made by persist leads to the write, any other to a running process.
LEMMA ReplayFinishedInv ==
    ASSUME Inv, ReplayFinished
    PROVE  Inv' /\ bus'.audit = bus.audit
  <1>0. job = "replay" /\ replay' = Null
    BY DEF ReplayFinished, ReplayAtEnd
  <1>1. CASE replay.saving
    <2> DEFINE log == LogOf(bus, replay.state)
    <2>1. log \in Logs /\ LogInv(log) /\ log # Null
      BY <1>0, ReplayParts, InitialProjectNotNull, LogOfType
    <2>2. /\ job' = "write" /\ pending' = log
          /\ disk' = [status |-> "torn", log |-> Null]
          /\ UNCHANGED <<mode, bus, project>>
      BY <1>1 DEF ReplayFinished
    <2> HIDE DEF log
    <2>3. TypeOK'
      BY <1>0, <2>1, <2>2 DEF Inv, TypeOK
    <2>4. MemoryInv' /\ ReplayInv'
      BY <1>0, <2>2 DEF Inv, MemoryInv, ReplayInv
    <2>5. StorageInv'
      BY <2>1, <2>2 DEF StorageInv, LogInv
    <2> QED
      BY <2>2, <2>3, <2>4, <2>5 DEF Inv
  <1>2. CASE ~replay.saving
    <2>1. EventStage \in Buses /\ BusInv(EventStage)
      BY <1>0, ReplayParts DEF EventStage
    <2>2. /\ mode' = "running" /\ job' = "none"
          /\ bus' = Rebuilt(bus, EventStage, replay.state)
          /\ project' = replay.state
          /\ UNCHANGED <<pending, disk>>
      BY <1>2 DEF ReplayFinished
    <2>3. /\ bus' \in Buses /\ BusInv(bus') /\ bus'.current = replay.state
          /\ bus'.audit = bus.audit /\ replay.state \in Projects
      BY <1>0, <2>1, <2>2, ReplayParts, RebuiltType, RebuiltInv
    <2>4. bus'.initial # Null
      <3>1. EventStage.initial # Null
        BY <1>0, ReplayParts, InitialProjectNotNull DEF EventStage
      <3> QED
        BY <2>2, <3>1 DEF Rebuilt
    <2>5. TypeOK'
      BY <1>0, <2>2, <2>3 DEF Inv, TypeOK
    <2>6. MemoryInv'
      BY <2>2, <2>3, <2>4, NullAssumption DEF MemoryInv
    <2>7. ReplayInv' /\ StorageInv'
      BY <1>0, <2>2 DEF Inv, ReplayInv, StorageInv, LogInv
    <2> QED
      BY <2>3, <2>5, <2>6, <2>7 DEF Inv
  <1> QED
    BY <1>1, <1>2

LEMMA PersistInv ==
    ASSUME Inv, PersistBegin \/ PersistEnd
    PROVE  Inv' /\ bus' = bus
  <1>1. CASE PersistBegin
    <2> DEFINE log == LogOf(bus, bus.current)
    <2>1. /\ bus \in Buses /\ BusInv(bus) /\ bus.initial # Null /\ bus.current # Null
      BY <1>1 DEF PersistBegin, Running, Inv, TypeOK, MemoryInv
    <2>2. bus.current \in Projects
      BY <2>1 DEF Buses
    <2>3. log \in Logs /\ LogInv(log) /\ log # Null
      BY <2>1, <2>2, LogOfType
    <2>4. /\ job' = "write" /\ pending' = log
          /\ disk' = [status |-> "torn", log |-> Null]
          /\ UNCHANGED <<mode, bus, project, replay>>
      BY <1>1 DEF PersistBegin
    <2> HIDE DEF log
    <2>5. TypeOK'
      BY <2>3, <2>4 DEF Inv, TypeOK
    <2>6. MemoryInv' /\ ReplayInv'
      BY <2>4 DEF Inv, MemoryInv, ReplayInv
    <2>7. StorageInv'
      BY <2>3, <2>4 DEF StorageInv, LogInv
    <2> QED
      BY <2>4, <2>5, <2>6, <2>7 DEF Inv
  <1>2. CASE PersistEnd
    <2>1. /\ job = "write" /\ job' = "none" /\ pending' = Null
          /\ disk' = [status |-> "log", log |-> pending]
          /\ UNCHANGED <<mode, bus, project, replay>>
      BY <1>2 DEF PersistEnd
    <2>2. TypeOK'
      BY <2>1 DEF Inv, TypeOK
    <2>3. MemoryInv' /\ ReplayInv'
      BY <2>1 DEF Inv, MemoryInv, ReplayInv
    <2>4. StorageInv'
      BY <2>1 DEF Inv, StorageInv, LogInv
    <2> QED
      BY <2>1, <2>2, <2>3, <2>4 DEF Inv
  <1> QED
    BY <1>1, <1>2

LEMMA CrashInv ==
    ASSUME Inv, Crash
    PROVE  Inv' /\ mode' = "down"
  <1>1. /\ mode' = "down" /\ job' = "none" /\ bus' = DefaultBus
        /\ project' = InitialProject /\ replay' = Null /\ pending' = Null
        /\ UNCHANGED disk
    BY DEF Crash
  <1>2. TypeOK'
    BY <1>1, DefaultBusType, InitialProjectAssumption DEF Inv, TypeOK
  <1>3. MemoryInv' /\ ReplayInv' /\ StorageInv'
    BY <1>1, DefaultBusInv DEF Inv, MemoryInv, ReplayInv, StorageInv, LogInv
  <1> QED
    BY <1>1, <1>2, <1>3 DEF Inv

LEMMA RestartInv ==
    ASSUME Inv, Load \/ StartOver
    PROVE  Inv' /\ mode = "down"
  <1>1. CASE Load
    <2>1. /\ mode = "down" /\ mode' = "loaded" /\ disk.status = "log"
          /\ bus' = LoadedBus(disk.log)
          /\ UNCHANGED <<job, project, replay, pending, disk>>
      BY <1>1 DEF Load
    <2>2. disk.log \in Logs /\ LogInv(disk.log)
      BY <2>1 DEF Inv, TypeOK, StorageInv
    <2>3. bus' \in Buses /\ BusInv(bus')
      BY <2>1, <2>2, LoadedBusType
    <2>4. TypeOK'
      BY <2>1, <2>3 DEF Inv, TypeOK
    <2>5. bus'.initial # Null
      BY <2>1, <2>2, InitialProjectNotNull DEF LoadedBus, Logs
    <2>6. MemoryInv' /\ ReplayInv' /\ StorageInv'
      BY <2>1, <2>3, <2>5 DEF Inv, MemoryInv, ReplayInv, StorageInv, LogInv
    <2> QED
      BY <2>1, <2>4, <2>6 DEF Inv
  <1>2. CASE StartOver
    <2>1. /\ mode = "down" /\ mode' = "running" /\ bus' = NewBus(InitialProject)
          /\ UNCHANGED <<job, project, replay, pending, disk>>
      BY <1>2 DEF StartOver
    <2>2. /\ bus' \in Buses /\ BusInv(bus') /\ bus'.initial # Null /\ bus'.current # Null
      BY <2>1, FreshBuses, InitialProjectNotNull
    <2>3. TypeOK'
      BY <2>1, <2>2 DEF Inv, TypeOK
    <2>4. MemoryInv' /\ ReplayInv' /\ StorageInv'
      BY <2>1, <2>2 DEF Inv, MemoryInv, ReplayInv, StorageInv, LogInv
    <2> QED
      BY <2>1, <2>3, <2>4 DEF Inv
  <1> QED
    BY <1>1, <1>2

-----------------------------------------------------------------------------
(* The theorems.                                                            *)

\* The invariant is inductive for every public entry point in any order.
THEOREM CommandBusInvariant == AnySpec => []Inv
  <1>1. Inv /\ [AnyNext]_vars => Inv'
    <2> SUFFICES ASSUME Inv, [AnyNext]_vars PROVE Inv'
      OBVIOUS
    <2>1. CASE \E g \in Graphs : RegisterWorkflow(g)
      BY <2>1, RegisterWorkflowInv
    <2>2. CASE \E request \in Requests : Dispatch(request)
      BY <2>2, DispatchInv
    <2>3. CASE ReplayNext
      BY <2>3, BeginReplayInv, ReplayEventInv, ReplayAbandonedInv,
         ReplayActiveHistoryInv, ReplayFinishedInv DEF ReplayNext
    <2>4. CASE StorageNext
      BY <2>4, PersistInv, CrashInv, RestartInv DEF StorageNext
    <2>5. CASE \E request \in CatalogRequests : Push(request)
      BY <2>5, PushInv
    <2>6. CASE DirectUndo \/ DirectRedo
      BY <2>6, DirectInv
    <2>7. CASE UNCHANGED vars
      BY <2>7 DEF vars, Inv, TypeOK, MemoryInv, ReplayInv, StorageInv, LogInv
    <2> QED
      BY <2>1, <2>2, <2>3, <2>4, <2>5, <2>6, <2>7 DEF AnyNext, Next
  <1> QED
    BY <1>1, InitInv, PTL DEF AnySpec

\* Type correctness (TypeOK) of a session that dispatches, pushes, undoes and
\* redoes directly, persists, crashes, loads and replays in any order.
THEOREM CommandBusTypes == AnySpec => []TypeOK
  <1>1. Inv => TypeOK
    BY DEF Inv
  <1> QED
    BY <1>1, CommandBusInvariant, PTL

\* Undo and redo restore a snapshot only while the snapshots are aligned with the
\* history, whatever was pushed, loaded or replayed before (RestoreFailsClosed).
THEOREM RestoreFailsClosedTheorem == AnySpec => []RestoreFailsClosed
  <1>1. Inv => RestoreFailsClosed
    BY FailClosedAligned DEF Inv, TypeOK, MemoryInv, BusInv, RestoreFailsClosed
  <1> QED
    BY <1>1, CommandBusInvariant, PTL

LEMMA AppendExtends ==
    ASSUME NEW S, NEW s \in Seq(S), NEW x \in S
    PROVE  IsPrefix(s, s) /\ IsPrefix(s, Append(s, x))
  <1> DEFINE t == Append(s, x)
  <1>1. t \in Seq(S) /\ Len(t) = Len(s) + 1 /\ \A i \in 1..Len(s) : t[i] = s[i]
    OBVIOUS
  <1> HIDE DEF t
  <1>2. SubSeq(s, 1, Len(s)) = s
    OBVIOUS
  <1>3. SubSeq(t, 1, Len(s)) = s
    BY <1>1
  <1>4. Len(s) <= Len(s) /\ Len(s) <= Len(t)
    BY <1>1
  <1> QED
    BY <1>2, <1>3, <1>4 DEF IsPrefix, t

\* No call of a running process drops or rewrites an audit event, be it a dispatch
\* on an undone branch, a push, a direct undo or a replay (AuditAppendOnly).
THEOREM AuditAppendOnlyTheorem == AnySpec => AuditAppendOnly
  <1>1. ASSUME Inv, [AnyNext]_vars
        PROVE  [mode = "running" /\ mode' = "running" => IsPrefix(bus.audit, bus'.audit)]_vars
    <2> SUFFICES ASSUME mode = "running", mode' = "running"
                 PROVE  IsPrefix(bus.audit, bus'.audit)
      OBVIOUS
    <2>0. bus.audit \in Seq(Envelopes)
      BY <1>1 DEF Inv, TypeOK, Buses
    <2>a. ASSUME bus'.audit = bus.audit PROVE IsPrefix(bus.audit, bus'.audit)
      <3>1. IsPrefix(bus.audit, bus.audit)
        BY <2>0 DEF IsPrefix
      <3> QED
        BY <2>a, <3>1
    <2>b. ASSUME NEW env \in Envelopes, bus'.audit = Append(bus.audit, env)
          PROVE  IsPrefix(bus.audit, bus'.audit)
      BY <2>0, <2>b, AppendExtends
    <2>1. CASE \E g \in Graphs : RegisterWorkflow(g)
      BY <1>1, <2>1, <2>a, RegisterWorkflowInv
    <2>2. CASE \E request \in Requests : Dispatch(request)
      <3>1. PICK request \in Requests : Dispatch(request)
        BY <2>2
      <3>2. Envelope(request) \in Envelopes
        BY <3>1, EnvelopeType DEF Dispatch
      <3>3. bus'.audit = Append(bus.audit, Envelope(request))
        BY <1>1, <3>1, DispatchInv
      <3> QED
        BY <2>b, <3>2, <3>3
    <2>3. CASE ReplayNext
      <3>1. bus'.audit = bus.audit
        BY <1>1, <2>3, BeginReplayInv, ReplayEventInv, ReplayAbandonedInv,
           ReplayActiveHistoryInv, ReplayFinishedInv DEF ReplayNext
      <3> QED
        BY <2>a, <3>1
    <2>4. CASE StorageNext
      <3>1. ~Crash /\ ~Load /\ ~StartOver
        BY <1>1, CrashInv, RestartInv
      <3>2. bus' = bus
        BY <1>1, <2>4, <3>1, PersistInv DEF StorageNext
      <3> QED
        BY <2>a, <3>2
    <2>5. CASE \E request \in CatalogRequests : Push(request)
      <3>1. PICK request \in CatalogRequests : Push(request)
        BY <2>5
      <3>2. Envelope(request) \in Envelopes
        BY <3>1, EnvelopeType DEF Push
      <3>3. bus'.audit = Append(bus.audit, Envelope(request))
        BY <1>1, <3>1, PushInv
      <3> QED
        BY <2>b, <3>2, <3>3
    <2>6. CASE DirectUndo \/ DirectRedo
      BY <1>1, <2>6, <2>a, DirectInv
    <2>7. CASE UNCHANGED vars
      BY <2>7, <2>a DEF vars
    <2> QED
      BY <1>1, <2>1, <2>2, <2>3, <2>4, <2>5, <2>6, <2>7 DEF AnyNext, Next
  <1> QED
    BY <1>1, CommandBusInvariant, PTL DEF AnySpec, AuditAppendOnly

-----------------------------------------------------------------------------
(* What the log accounts for, over Spec: sequences first.                   *)

\* What a commit does to the history and to the snapshots.
LEMMA ReplacedTail ==
    ASSUME NEW S, NEW s \in Seq(S), NEW n \in 0 .. Len(s), NEW e \in S
    PROVE  LET t == Append(Truncate(s, n), e)
           IN  /\ t \in Seq(S) /\ Len(t) = n + 1 /\ t[n + 1] = e
               /\ Len(Truncate(s, n)) = n
               /\ \A i \in 1 .. n : t[i] = s[i]
  <1> DEFINE u == Truncate(s, n)
  <1>1. /\ u \in Seq(S) /\ Len(u) = n
    BY TruncateType
  <1>2. \A i \in 1 .. n : u[i] = s[i]
    <2>1. CASE n < Len(s)
      BY <2>1 DEF Truncate
    <2>2. CASE n = Len(s)
      BY <2>2 DEF Truncate
    <2> QED
      BY <2>1, <2>2
  <1> HIDE DEF u
  <1>3. /\ Append(u, e) \in Seq(S) /\ Len(Append(u, e)) = n + 1 /\ Append(u, e)[n + 1] = e
        /\ \A i \in 1 .. n : Append(u, e)[i] = s[i]
    BY <1>1, <1>2
  <1> QED
    BY <1>1, <1>3 DEF u

-----------------------------------------------------------------------------
(* The chain of snapshots.                                                  *)

\* The state of the project after command n of the history.
At(b, n) == IF n = 0 THEN InitialProject ELSE b.after[n]

Known == Len(InitialProject.content.provenance)

\* The provenance of the state after command n names the commands up to n.
Named(b, n) ==
    LET entries == At(b, n).content.provenance
    IN  /\ Len(entries) = Known + n
        /\ \A i \in 1 .. n : entries[Known + i].id = b.history[i].id

\* The caller's project p is the one at the cursor of a chain of snapshots.
ChainInv(b, p) ==
    /\ Aligned(b)
    /\ b.cursor <= Len(b.history)
    /\ \A i \in 1 .. Len(b.history) : b.before[i] = At(b, i - 1)
    /\ p = At(b, b.cursor)
    /\ IF b.initial = Null THEN b.history = << >> ELSE b.current = p
    /\ \A i \in 0 .. Len(b.history) : Named(b, i)

\* No command writes the provenance of the content it changes.
LEMMA ProvenanceKept ==
    ASSUME NEW c \in Contents, NEW env
    PROVE  ContentAfter(c, env).provenance = c.provenance
  <1> DEFINE cmd == env.command
  <1>1. /\ LayerAdded(c, env).provenance = c.provenance
        /\ LayerRemoved(c, cmd).provenance = c.provenance
        /\ VisibilitySet(c, cmd).provenance = c.provenance
    BY DEF Contents, LayerAdded, LayerRemoved, VisibilitySet
  <1>2. /\ CameraSet(c, cmd).provenance = c.provenance
        /\ EditableInitialized(c, cmd).provenance = c.provenance
        /\ FeaturesEdited(c, cmd).provenance = c.provenance
    BY DEF Contents, CameraSet, EditableInitialized, FeaturesEdited
  <1>3. StyleSet(c, cmd).provenance = c.provenance
    BY DEF Contents, StyleSet
  <1> HIDE DEF cmd
  <1>4. \/ ContentAfter(c, env) \in {LayerAdded(c, env), LayerRemoved(c, cmd), VisibilitySet(c, cmd)}
        \/ ContentAfter(c, env) \in {CameraSet(c, cmd), EditableInitialized(c, cmd),
                                     FeaturesEdited(c, cmd), StyleSet(c, cmd)}
        \/ ContentAfter(c, env) = c
    BY DEF ContentAfter, cmd
  <1> QED
    BY <1>1, <1>2, <1>3, <1>4

LEMMA ProvenanceGrows ==
    ASSUME NEW p \in Projects, NEW env \in Envelopes, MutationAccepted(p.content, env),
           NEW result \in Results \cup {Null}, NEW now \in Clock
    PROVE  LET old == p.content.provenance
               new == Mutated(p, env, result, now).content.provenance
           IN  /\ Len(old) \in Nat /\ Len(new) = Len(old) + 1
               /\ \A i \in 1 .. Len(old) : new[i] = old[i]
               /\ new[Len(old) + 1].id = env.id
  <1> DEFINE c == ContentAfter(p.content, env)
             entry == ProvenanceEntry(env, result)
             old == p.content.provenance
  <1>1. p.content \in Contents /\ c \in Contents
    BY ContentAfterType, EnvelopeFields DEF Projects
  <1>2. c.provenance = old /\ old \in Seq(ProvenanceEntries)
    BY <1>1, ProvenanceKept DEF Contents
  <1>3. entry \in ProvenanceEntries /\ entry.id = env.id
    <2>1. env.command.op \in MutationOps
      BY DEF MutationAccepted, MutationOps
    <2> QED
      BY <2>1, EnvelopeFields DEF ProvenanceEntry, ProvenanceEntries
  <1>4. Mutated(p, env, result, now).content = [c EXCEPT !.provenance = Append(@, entry)]
    BY DEF Mutated, MutatedContent
  <1> HIDE DEF c, entry
  <1>5. Mutated(p, env, result, now).content.provenance = Append(old, entry)
    BY <1>1, <1>2, <1>4 DEF Contents
  <1> HIDE DEF old
  <1>6. /\ Len(Append(old, entry)) = Len(old) + 1
        /\ \A i \in 1 .. Len(old) : Append(old, entry)[i] = old[i]
        /\ Append(old, entry)[Len(old) + 1] = entry
    BY <1>2, <1>3
  <1> QED
    BY <1>2, <1>3, <1>5, <1>6 DEF old

LEMMA ChainCommitted ==
    ASSUME NEW b \in Buses, NEW p \in Projects, NEW env \in Envelopes,
           NEW result \in Results \cup {Null}, NEW now \in Clock,
           MutationAccepted(p.content, env), ChainInv(b, p)
    PROVE  LET q == Mutated(p, env, result, now)
           IN  ChainInv(Committed(b, p, q, env, result), q)
  <1> DEFINE q == Mutated(p, env, result, now)
             c == Committed(b, p, q, env, result)
             n == b.cursor
  <1>0. q \in Projects
    BY EnvelopeFields, MutatedType
  <1>1. /\ n \in Nat /\ b.history \in Seq(Envelopes) /\ b.initial \in {Null, InitialProject}
        /\ b.before \in Seq(Projects) /\ b.after \in Seq(Projects)
    BY DEF Buses
  <1>2. /\ n \in 0 .. Len(b.history) /\ n \in 0 .. Len(b.before) /\ n \in 0 .. Len(b.after)
        /\ Len(b.before) = Len(b.history) /\ Len(b.after) = Len(b.history)
        /\ Len(b.history) \in Nat
    BY <1>1 DEF ChainInv, Aligned
  <1>3. /\ c.history = Append(Truncate(b.history, n), env)
        /\ c.before = Append(Truncate(b.before, n), p)
        /\ c.after = Append(Truncate(b.after, n), q)
        /\ c.cursor = Len(Truncate(b.history, n)) + 1
        /\ c.current = q
        /\ c.initial = IF b.initial = Null THEN p ELSE b.initial
    BY DEF Committed
  <1>p. LET old == p.content.provenance
            new == q.content.provenance
        IN  /\ Len(old) \in Nat /\ Len(new) = Len(old) + 1
            /\ \A i \in 1 .. Len(old) : new[i] = old[i]
            /\ new[Len(old) + 1].id = env.id
    BY ProvenanceGrows
  <1> HIDE DEF q, c, n
  <1>4. /\ Len(c.history) = n + 1 /\ c.history[n + 1] = env /\ c.cursor = n + 1
        /\ \A i \in 1 .. n : c.history[i] = b.history[i]
    <2>1. b.history \in Seq(Envelopes) /\ n \in 0 .. Len(b.history)
      BY <1>1, <1>2
    <2>2. /\ c.history = Append(Truncate(b.history, n), env)
          /\ c.cursor = Len(Truncate(b.history, n)) + 1
      BY <1>3
    <2> DEFINE t == Append(Truncate(b.history, n), env)
    <2>3. /\ Len(t) = n + 1 /\ t[n + 1] = env /\ Len(Truncate(b.history, n)) = n
          /\ \A i \in 1 .. n : t[i] = b.history[i]
      BY <2>1, ReplacedTail
    <2> HIDE DEF t
    <2>4. c.history = t
      BY <2>2 DEF t
    <2> QED
      BY <2>2, <2>3, <2>4
  <1>5. /\ Len(c.before) = n + 1 /\ c.before[n + 1] = p
        /\ \A i \in 1 .. n : c.before[i] = b.before[i]
    <2>1. b.before \in Seq(Projects) /\ n \in 0 .. Len(b.before)
      BY <1>1, <1>2
    <2>2. c.before = Append(Truncate(b.before, n), p)
      BY <1>3
    <2> QED
      BY <2>1, <2>2, ReplacedTail
  <1>6. /\ Len(c.after) = n + 1 /\ c.after[n + 1] = q
        /\ \A i \in 1 .. n : c.after[i] = b.after[i]
    <2>1. b.after \in Seq(Projects) /\ n \in 0 .. Len(b.after)
      BY <1>1, <1>2
    <2>2. c.after = Append(Truncate(b.after, n), q)
      BY <1>3
    <2> QED
      BY <1>0, <2>1, <2>2, ReplacedTail
  <1>7. \A i \in 0 .. n : At(c, i) = At(b, i)
    BY <1>6 DEF At
  <1>8. At(c, n + 1) = q /\ p = At(b, n)
    BY <1>1, <1>6 DEF At, ChainInv, n
  <1>9. \A i \in 1 .. Len(c.history) : c.before[i] = At(c, i - 1)
    <2> SUFFICES ASSUME NEW i \in 1 .. (n + 1) PROVE c.before[i] = At(c, i - 1)
      BY <1>4
    <2>1. CASE i \in 1 .. n
      <3>1. b.before[i] = At(b, i - 1)
        BY <1>2, <2>1 DEF ChainInv
      <3>2. i - 1 \in 0 .. n
        BY <1>1, <2>1
      <3> QED
        BY <1>5, <1>7, <2>1, <3>1, <3>2
    <2>2. CASE i = n + 1
      <3>1. i - 1 = n /\ n \in 0 .. n
        BY <1>1, <2>2
      <3> QED
        BY <1>5, <1>7, <1>8, <2>2, <3>1
    <2> QED
      BY <1>1, <2>1, <2>2
  <1>10. Known \in Nat
    BY InitialProjectAssumption DEF Known, Projects, Contents
  <1>11. Named(b, n)
    BY <1>2 DEF ChainInv
  <1>12. ASSUME NEW i \in 0 .. n PROVE Named(c, i)
    <2>1. Named(b, i)
      BY <1>2 DEF ChainInv
    <2>2. \A j \in 1 .. i : c.history[j] = b.history[j]
      BY <1>1, <1>4
    <2> QED
      BY <1>7, <2>1, <2>2 DEF Named
  <1>13. Named(c, n + 1)
    <2> DEFINE old == p.content.provenance
               new == q.content.provenance
    <2>1. /\ Len(old) = Known + n /\ \A i \in 1 .. n : old[Known + i].id = b.history[i].id
      BY <1>8, <1>11 DEF Named
    <2>2. /\ Len(new) = Len(old) + 1 /\ \A i \in 1 .. Len(old) : new[i] = old[i]
          /\ new[Len(old) + 1].id = env.id
      BY <1>p
    <2> HIDE DEF old, new
    <2>3. ASSUME NEW i \in 1 .. (n + 1) PROVE new[Known + i].id = c.history[i].id
      <3>1. CASE i \in 1 .. n
        <4>1. Known + i \in 1 .. Len(old)
          BY <1>1, <1>10, <2>1, <3>1
        <4> QED
          BY <1>4, <2>1, <2>2, <3>1, <4>1
      <3>2. CASE i = n + 1
        <4>1. Known + i = Len(old) + 1
          BY <1>1, <1>10, <2>1, <3>2
        <4> QED
          BY <1>4, <2>2, <3>2, <4>1
      <3> QED
        BY <1>1, <3>1, <3>2
    <2>4. Len(new) = Known + (n + 1)
      BY <1>1, <1>10, <2>1, <2>2
    <2> QED
      BY <1>8, <2>3, <2>4 DEF Named, new
  <1>14. \A i \in 0 .. Len(c.history) : Named(c, i)
    <2>1. \A i \in 0 .. (n + 1) : i \in 0 .. n \/ i = n + 1
      BY <1>1
    <2> QED
      BY <1>4, <1>12, <1>13, <2>1
  <1>15. c.initial # Null
    BY <1>1, <1>3, NullAssumption, InitialProjectNotNull
  <1>16. c.cursor <= Len(c.history) /\ Aligned(c)
    BY <1>1, <1>4, <1>5, <1>6 DEF Aligned
  <1>17. q = At(c, c.cursor)
    BY <1>4, <1>8
  <1>18. ChainInv(c, q)
    BY <1>3, <1>9, <1>14, <1>15, <1>16, <1>17 DEF ChainInv
  <1> QED
    BY <1>18 DEF c, q

LEMMA ChainRestored ==
    ASSUME NEW b \in Buses, NEW p, ChainInv(b, p), b.initial # Null,
           NEW n \in 0 .. Len(b.history), NEW audit
    PROVE  ChainInv(Restored(b, n, At(b, n), audit), At(b, n))
  <1> DEFINE q == At(b, n)
             c == Restored(b, n, q, audit)
  <1>1. /\ c.history = b.history /\ c.before = b.before /\ c.after = b.after
        /\ c.cursor = n /\ c.initial = b.initial /\ c.current = q
    BY DEF Restored
  <1> HIDE DEF c
  <1>2. \A i : At(c, i) = At(b, i)
    BY <1>1 DEF At
  <1>3. \A i : Named(c, i) <=> Named(b, i)
    BY <1>1, <1>2 DEF Named
  <1>4. n <= Len(c.history) /\ Aligned(c)
    BY <1>1 DEF Aligned, ChainInv
  <1>5. ChainInv(c, q)
    BY <1>1, <1>2, <1>3, <1>4 DEF ChainInv
  <1> QED
    BY <1>5 DEF c

\* dispatch keeps the chain.
LEMMA ChainAfter ==
    ASSUME NEW b \in Buses, NEW p \in Projects, NEW env \in Envelopes,
           NEW result \in Results \cup {Null}, NEW now \in Clock,
           Accepted(b, p, env, result), BusInv(b), ChainInv(b, p)
    PROVE  ChainInv(BusAfter(b, p, env, result, now), ProjectAfter(b, p, env, result, now))
  <1>0. /\ b.cursor \in Nat /\ Len(b.history) \in Nat /\ b.cursor <= Len(b.history)
        /\ Len(b.before) = Len(b.history) /\ Len(b.after) = Len(b.history)
    BY DEF Buses, ChainInv, Aligned
  <1>1. CASE env.command.op = "Undo"
    <2>1. UndoAvailable(b)
      BY <1>1 DEF Accepted
    <2>2. b.cursor - 1 \in 0 .. Len(b.history) /\ b.cursor \in 1 .. Len(b.history)
      BY <1>0, <2>1 DEF UndoAvailable, CanUndo
    <2>3. b.before[b.cursor] = At(b, b.cursor - 1)
      BY <2>2 DEF ChainInv
    <2>4. b.initial # Null
      BY <2>1, NoSnapshotNoRestore
    <2>5. /\ BusAfter(b, p, env, result, now)
                = Restored(b, b.cursor - 1, At(b, b.cursor - 1), Append(b.audit, env))
          /\ ProjectAfter(b, p, env, result, now) = At(b, b.cursor - 1)
      BY <1>1, <2>3 DEF BusAfter, ProjectAfter, Undone
    <2> QED
      BY <2>2, <2>4, <2>5, ChainRestored
  <1>2. CASE env.command.op = "Redo"
    <2>1. RedoAvailable(b)
      BY <1>2 DEF Accepted
    <2>2. b.cursor + 1 \in 0 .. Len(b.history) /\ b.cursor + 1 # 0
      BY <1>0, <2>1 DEF RedoAvailable, CanRedo
    <2>3. b.after[b.cursor + 1] = At(b, b.cursor + 1)
      BY <2>2 DEF At
    <2>4. b.initial # Null
      BY <2>1, NoSnapshotNoRestore
    <2>5. /\ BusAfter(b, p, env, result, now)
                = Restored(b, b.cursor + 1, At(b, b.cursor + 1), Append(b.audit, env))
          /\ ProjectAfter(b, p, env, result, now) = At(b, b.cursor + 1)
      BY <1>2, <2>3 DEF BusAfter, ProjectAfter, Redone
    <2> QED
      BY <2>2, <2>4, <2>5, ChainRestored
  <1>3. CASE env.command.op \notin {"Undo", "Redo"}
    <2>1. MutationAccepted(p.content, env)
      BY <1>3 DEF Accepted
    <2> DEFINE q == Mutated(p, env, result, now)
    <2>2. BusAfter(b, p, env, result, now) = Committed(b, p, q, env, result)
      BY <1>3 DEF BusAfter
    <2>3. ProjectAfter(b, p, env, result, now) = q
      BY <1>3 DEF ProjectAfter
    <2>4. ChainInv(Committed(b, p, q, env, result), q)
      BY <2>1, ChainCommitted
    <2> HIDE DEF q
    <2> QED
      BY <2>2, <2>3, <2>4
  <1> QED
    BY <1>1, <1>2, <1>3

\* A bus without a history is at the initial project.
LEMMA ChainFresh ==
    ASSUME NEW b, b.history = << >>, b.before = << >>, b.after = << >>, b.cursor = 0,
           b.initial = Null \/ b.current = InitialProject
    PROVE  ChainInv(b, InitialProject)
  <1>1. Len(b.history) = 0 /\ Len(b.before) = 0 /\ Len(b.after) = 0
    OBVIOUS
  <1>2. At(b, 0) = InitialProject
    BY DEF At
  <1>3. Named(b, 0)
    <2>1. Known \in Nat
      BY InitialProjectAssumption DEF Known, Projects, Contents
    <2> QED
      BY <1>2, <2>1 DEF Named, Known
  <1> QED
    BY <1>1, <1>2, <1>3 DEF ChainInv, Aligned

-----------------------------------------------------------------------------
(* Points.  What a replay can rebuild of a bus and its project: everything  *)
(* that does not depend on the wall clock.  Every event leads from one      *)
(* point to one other, given the result of the executor.                    *)

Points ==
    [history    : Seq(Envelopes),  cursor : Nat,
     before     : Seq(Contents),   after  : Seq(Contents),
     executions : [EnvelopeIds -> ExecutionRecords \cup {Null}],
     content    : Contents]

Origin ==
    [history    |-> << >>,  cursor |-> 0,
     before     |-> << >>,  after  |-> << >>,
     executions |-> [i \in EnvelopeIds |-> Null],
     content    |-> InitialProject.content]

Possible(x, env) ==
    /\ env.command.op = "Undo" => x.cursor > 0 /\ x.cursor <= Len(x.before)
    /\ env.command.op = "Redo" => x.cursor < Len(x.history) /\ x.cursor < Len(x.after)
    /\ env.command.op \notin {"Undo", "Redo"} => MutationAccepted(x.content, env)

Moved(x, n, content) ==
    [history |-> x.history, cursor |-> n, before |-> x.before, after |-> x.after,
     executions |-> x.executions, content |-> content]

Extended(x, env, result, content) ==
    [history    |-> Append(Truncate(x.history, x.cursor), env),
     cursor     |-> Len(Truncate(x.history, x.cursor)) + 1,
     before     |-> Append(Truncate(x.before, x.cursor), x.content),
     after      |-> Append(Truncate(x.after, x.cursor), content),
     executions |-> IF result = Null THEN x.executions
                    ELSE [x.executions EXCEPT ![env.id] =
                             [digest |-> env.digest, result |-> result]],
     content    |-> content]

PointAfter(x, env, result) ==
    CASE env.command.op = "Undo" -> Moved(x, x.cursor - 1, x.before[x.cursor])
      [] env.command.op = "Redo" -> Moved(x, x.cursor + 1, x.after[x.cursor + 1])
      [] OTHER -> Extended(x, env, result, MutatedContent(x.content, env, result))

SameContents(s, t) ==
    Len(s) = Len(t) /\ \A i \in 1 .. Len(s) : s[i].content = t[i]

\* Bus b is at point x, the contents of its projects aside.
Shape(b, x) ==
    /\ b.history = x.history /\ b.cursor = x.cursor
    /\ Len(b.before) = Len(x.before) /\ Len(b.after) = Len(x.after)

\* Bus b with project p is at point x.
Matches(b, p, x) ==
    /\ b.history = x.history /\ b.cursor = x.cursor /\ b.executions = x.executions
    /\ SameContents(b.before, x.before) /\ SameContents(b.after, x.after)
    /\ p.content = x.content

LEMMA MatchesShape ==
    ASSUME NEW b, NEW p, NEW x, Matches(b, p, x)
    PROVE  Shape(b, x)
  BY DEF Matches, Shape, SameContents

\* Replacing the tail of two sequences with the same contents.
LEMMA SameTails ==
    ASSUME NEW s \in Seq(Projects), NEW t \in Seq(Contents), SameContents(s, t),
           NEW n \in 0 .. Len(s), NEW p \in Projects, NEW c \in Contents, p.content = c
    PROVE  /\ SameContents(Append(Truncate(s, n), p), Append(Truncate(t, n), c))
           /\ Append(Truncate(t, n), c) \in Seq(Contents)
  <1> DEFINE u == Append(Truncate(s, n), p)
             v == Append(Truncate(t, n), c)
  <1>1. n \in 0 .. Len(t)
    BY DEF SameContents
  <1>2. Len(u) = n + 1 /\ u[n + 1] = p /\ \A i \in 1 .. n : u[i] = s[i]
    BY ReplacedTail
  <1>3. v \in Seq(Contents) /\ Len(v) = n + 1 /\ v[n + 1] = c /\ \A i \in 1 .. n : v[i] = t[i]
    BY <1>1, ReplacedTail
  <1> HIDE DEF u, v
  <1>4. ASSUME NEW i \in 1 .. (n + 1) PROVE u[i].content = v[i]
    <2>1. CASE i = n + 1
      BY <2>1, <1>2, <1>3
    <2>2. CASE i \in 1 .. n
      BY <2>2, <1>2, <1>3 DEF SameContents
    <2> QED
      BY <2>1, <2>2
  <1>5. SameContents(u, v)
    BY <1>2, <1>3, <1>4 DEF SameContents
  <1> QED
    BY <1>3, <1>5 DEF u, v

LEMMA CommitMatches ==
    ASSUME NEW b \in Buses, NEW p \in Projects, NEW env \in Envelopes,
           NEW result \in Results \cup {Null}, NEW now \in Clock,
           MutationAccepted(p.content, env), ChainInv(b, p),
           NEW x \in Points, Matches(b, p, x)
    PROVE  LET q == Mutated(p, env, result, now)
               y == Extended(x, env, result, MutatedContent(x.content, env, result))
           IN  y \in Points /\ Matches(Committed(b, p, q, env, result), q, y)
  <1> DEFINE q == Mutated(p, env, result, now)
             content == MutatedContent(x.content, env, result)
             y == Extended(x, env, result, content)
             c == Committed(b, p, q, env, result)
             n == b.cursor
  <1>0. q \in Projects
    BY EnvelopeFields, MutatedType
  <1>1. q.content = content
    BY DEF Matches, Mutated
  <1>2. content \in Contents
    BY <1>0, <1>1 DEF Projects
  <1> HIDE DEF q, content
  <1>3. /\ n \in Nat /\ b.history \in Seq(Envelopes)
        /\ b.before \in Seq(Projects) /\ b.after \in Seq(Projects)
        /\ b.executions \in [EnvelopeIds -> ExecutionRecords \cup {Null}]
        /\ n \in 0 .. Len(b.before) /\ n \in 0 .. Len(b.after) /\ n \in 0 .. Len(b.history)
    BY DEF Buses, ChainInv, Aligned
  <1>4. /\ x.before \in Seq(Contents) /\ x.after \in Seq(Contents)
        /\ x.content \in Contents /\ p.content = x.content
        /\ x.history = b.history /\ x.cursor = n /\ x.executions = b.executions
        /\ SameContents(b.before, x.before) /\ SameContents(b.after, x.after)
    BY DEF Points, Matches
  <1> HIDE DEF n
  <1> DEFINE executions == IF result = Null THEN b.executions
                           ELSE [b.executions EXCEPT ![env.id] =
                                   [digest |-> env.digest, result |-> result]]
             history == Append(Truncate(b.history, n), env)
             before == Append(Truncate(x.before, n), x.content)
             after == Append(Truncate(x.after, n), content)
  <1>5. y = [history |-> history, cursor |-> Len(Truncate(b.history, n)) + 1,
             before |-> before, after |-> after, executions |-> executions, content |-> content]
    BY <1>4 DEF Extended
  <1>6. /\ c.history = history /\ c.cursor = Len(Truncate(b.history, n)) + 1
        /\ c.executions = executions
        /\ c.before = Append(Truncate(b.before, n), p)
        /\ c.after = Append(Truncate(b.after, n), q)
    BY DEF Committed, n
  <1>7. SameContents(c.before, before) /\ before \in Seq(Contents)
    BY <1>3, <1>4, <1>6, SameTails
  <1>8. SameContents(c.after, after) /\ after \in Seq(Contents)
    BY <1>0, <1>1, <1>2, <1>3, <1>4, <1>6, SameTails
  <1>9. history \in Seq(Envelopes) /\ Len(Truncate(b.history, n)) = n
    BY <1>3, ReplacedTail
  <1>10. executions \in [EnvelopeIds -> ExecutionRecords \cup {Null}]
    <2>1. CASE result = Null
      BY <2>1, <1>3
    <2>2. CASE result # Null
      <3>1. [digest |-> env.digest, result |-> result] \in ExecutionRecords
        BY <2>2, EnvelopeFields DEF ExecutionRecords
      <3> QED
        BY <2>2, <3>1, <1>3
    <2> QED
      BY <2>1, <2>2
  <1> HIDE DEF c, y, executions, history, before, after
  <1>11. y \in Points
    BY <1>2, <1>3, <1>5, <1>7, <1>8, <1>9, <1>10 DEF Points
  <1>12. /\ y.history = history /\ y.cursor = Len(Truncate(b.history, n)) + 1
         /\ y.before = before /\ y.after = after /\ y.executions = executions
         /\ y.content = content
    BY <1>5
  <1>13. Matches(c, q, y)
    BY <1>1, <1>6, <1>7, <1>8, <1>12 DEF Matches
  <1> QED
    BY <1>11, <1>13 DEF c, y, q, content

\* dispatch goes from point to point.
LEMMA MatchesAfter ==
    ASSUME NEW b \in Buses, NEW p \in Projects, NEW env \in Envelopes,
           NEW result \in Results \cup {Null}, NEW now \in Clock,
           Accepted(b, p, env, result), ChainInv(b, p), NEW x \in Points, Matches(b, p, x)
    PROVE  /\ Possible(x, env)
           /\ PointAfter(x, env, result) \in Points
           /\ Matches(BusAfter(b, p, env, result, now), ProjectAfter(b, p, env, result, now),
                      PointAfter(x, env, result))
  <1>0. /\ b.cursor \in Nat /\ Len(b.history) \in Nat
        /\ b.history = x.history /\ b.cursor = x.cursor /\ b.executions = x.executions
        /\ Len(b.before) = Len(x.before) /\ Len(b.after) = Len(x.after)
        /\ p.content = x.content /\ x.before \in Seq(Contents) /\ x.after \in Seq(Contents)
        /\ b.before \in Seq(Projects) /\ b.after \in Seq(Projects)
        /\ SameContents(b.before, x.before) /\ SameContents(b.after, x.after)
    BY DEF Buses, Matches, SameContents, Points
  <1>m. ASSUME NEW n \in Nat, NEW q, NEW c \in Contents, q.content = c, NEW audit
        PROVE  Moved(x, n, c) \in Points /\ Matches(Restored(b, n, q, audit), q, Moved(x, n, c))
    <2>1. Moved(x, n, c) \in Points
      BY <1>m DEF Moved, Points
    <2> DEFINE r == Restored(b, n, q, audit)
               y == Moved(x, n, c)
    <2>2. /\ r.history = b.history /\ r.cursor = n /\ r.before = b.before /\ r.after = b.after
          /\ r.executions = b.executions
      BY DEF Restored
    <2>3. /\ y.history = x.history /\ y.cursor = n /\ y.before = x.before /\ y.after = x.after
          /\ y.executions = x.executions /\ y.content = c
      BY DEF Moved
    <2> HIDE DEF r, y
    <2>4. Matches(r, q, y)
      BY <1>0, <1>m, <2>2, <2>3 DEF Matches
    <2> QED
      BY <2>1, <2>4 DEF r, y
  <1>1. CASE env.command.op = "Undo"
    <2>1. b.cursor > 0 /\ b.cursor <= Len(b.before)
      BY <1>1 DEF Accepted, UndoAvailable, CanUndo
    <2>2. b.cursor - 1 \in Nat /\ b.cursor \in 1 .. Len(b.before)
      BY <1>0, <2>1
    <2>3. b.before[b.cursor].content = x.before[x.cursor] /\ x.before[x.cursor] \in Contents
      BY <1>0, <2>2 DEF SameContents
    <2>4. PointAfter(x, env, result) = Moved(x, x.cursor - 1, x.before[x.cursor])
      BY <1>1 DEF PointAfter
    <2>5. /\ BusAfter(b, p, env, result, now)
                = Restored(b, b.cursor - 1, b.before[b.cursor], Append(b.audit, env))
          /\ ProjectAfter(b, p, env, result, now) = b.before[b.cursor]
      BY <1>1 DEF BusAfter, ProjectAfter, Undone
    <2>6. Possible(x, env)
      BY <1>0, <1>1, <2>1 DEF Possible
    <2> QED
      BY <1>0, <1>m, <2>2, <2>3, <2>4, <2>5, <2>6
  <1>2. CASE env.command.op = "Redo"
    <2>1. b.cursor < Len(b.history) /\ b.cursor < Len(b.after)
      BY <1>2 DEF Accepted, RedoAvailable, CanRedo
    <2>2. b.cursor + 1 \in Nat /\ b.cursor + 1 \in 1 .. Len(b.after)
      BY <1>0, <2>1
    <2>3. /\ b.after[b.cursor + 1].content = x.after[x.cursor + 1]
          /\ x.after[x.cursor + 1] \in Contents
      BY <1>0, <2>2 DEF SameContents
    <2>4. PointAfter(x, env, result) = Moved(x, x.cursor + 1, x.after[x.cursor + 1])
      BY <1>2 DEF PointAfter
    <2>5. /\ BusAfter(b, p, env, result, now)
                = Restored(b, b.cursor + 1, b.after[b.cursor + 1], Append(b.audit, env))
          /\ ProjectAfter(b, p, env, result, now) = b.after[b.cursor + 1]
      BY <1>2 DEF BusAfter, ProjectAfter, Redone
    <2>6. Possible(x, env)
      BY <1>0, <1>2, <2>1 DEF Possible
    <2> QED
      BY <1>0, <1>m, <2>2, <2>3, <2>4, <2>5, <2>6
  <1>3. CASE env.command.op \notin {"Undo", "Redo"}
    <2>1. MutationAccepted(p.content, env)
      BY <1>3 DEF Accepted
    <2>2. Possible(x, env)
      BY <1>0, <1>3, <2>1 DEF Possible
    <2> DEFINE q == Mutated(p, env, result, now)
               y == Extended(x, env, result, MutatedContent(x.content, env, result))
    <2>3. y \in Points /\ Matches(Committed(b, p, q, env, result), q, y)
      BY <2>1, CommitMatches
    <2>4. /\ BusAfter(b, p, env, result, now) = Committed(b, p, q, env, result)
          /\ ProjectAfter(b, p, env, result, now) = q
      BY <1>3 DEF BusAfter, ProjectAfter
    <2>5. PointAfter(x, env, result) = y
      BY <1>3 DEF PointAfter
    <2> HIDE DEF q, y
    <2> QED
      BY <2>2, <2>3, <2>4, <2>5
  <1> QED
    BY <1>1, <1>2, <1>3

\* Where an event leads does not depend on the results of the executor, the
\* contents of the projects aside.
LEMMA ShapeAfter ==
    ASSUME NEW b \in Buses, NEW p \in Projects, NEW env \in Envelopes,
           NEW result \in Results \cup {Null}, NEW now \in Clock, Accepted(b, p, env, result),
           ChainInv(b, p), NEW x \in Points, Shape(b, x), NEW recorded
    PROVE  Shape(BusAfter(b, p, env, result, now), PointAfter(x, env, recorded))
  <1>0. /\ b.cursor \in Nat /\ b.history = x.history /\ b.cursor = x.cursor
        /\ Len(b.before) = Len(x.before) /\ Len(b.after) = Len(x.after)
    BY DEF Buses, Shape
  <1>m. ASSUME NEW n, NEW q, NEW c, NEW audit
        PROVE  Shape(Restored(b, n, q, audit), Moved(x, n, c))
    <2> DEFINE r == Restored(b, n, q, audit)
               y == Moved(x, n, c)
    <2>1. /\ r.history = b.history /\ r.cursor = n /\ r.before = b.before /\ r.after = b.after
      BY DEF Restored
    <2>2. /\ y.history = x.history /\ y.cursor = n /\ y.before = x.before /\ y.after = x.after
      BY DEF Moved
    <2> HIDE DEF r, y
    <2>3. Shape(r, y)
      BY <1>0, <2>1, <2>2 DEF Shape
    <2> QED
      BY <2>3 DEF r, y
  <1>1. CASE env.command.op = "Undo"
    <2>1. PointAfter(x, env, recorded) = Moved(x, x.cursor - 1, x.before[x.cursor])
      BY <1>1 DEF PointAfter
    <2>2. BusAfter(b, p, env, result, now)
              = Restored(b, b.cursor - 1, b.before[b.cursor], Append(b.audit, env))
      BY <1>1 DEF BusAfter, Undone
    <2> QED
      BY <1>0, <1>m, <2>1, <2>2
  <1>2. CASE env.command.op = "Redo"
    <2>1. PointAfter(x, env, recorded) = Moved(x, x.cursor + 1, x.after[x.cursor + 1])
      BY <1>2 DEF PointAfter
    <2>2. BusAfter(b, p, env, result, now)
              = Restored(b, b.cursor + 1, b.after[b.cursor + 1], Append(b.audit, env))
      BY <1>2 DEF BusAfter, Redone
    <2> QED
      BY <1>0, <1>m, <2>1, <2>2
  <1>3. CASE env.command.op \notin {"Undo", "Redo"}
    <2> DEFINE q == Mutated(p, env, result, now)
               content == MutatedContent(x.content, env, recorded)
               y == Extended(x, env, recorded, content)
               c == Committed(b, p, q, env, result)
               n == b.cursor
    <2>1. q \in Projects
      <3>1. MutationAccepted(p.content, env)
        BY <1>3 DEF Accepted
      <3> QED
        BY <3>1, EnvelopeFields, MutatedType
    <2>2. BusAfter(b, p, env, result, now) = c
      BY <1>3 DEF BusAfter
    <2>3. PointAfter(x, env, recorded) = y
      BY <1>3 DEF PointAfter
    <2> HIDE DEF q, content
    <2>4. /\ c.history = Append(Truncate(b.history, n), env)
          /\ c.cursor = Len(Truncate(b.history, n)) + 1
          /\ c.before = Append(Truncate(b.before, n), p)
          /\ c.after = Append(Truncate(b.after, n), q)
      BY DEF Committed
    <2>5. /\ y.history = Append(Truncate(b.history, n), env)
          /\ y.cursor = Len(Truncate(b.history, n)) + 1
          /\ y.before = Append(Truncate(x.before, n), x.content)
          /\ y.after = Append(Truncate(x.after, n), content)
      BY <1>0 DEF Extended
    <2> HIDE DEF y, c
    <2>6. /\ b.before \in Seq(Projects) /\ b.after \in Seq(Projects)
          /\ n \in 0 .. Len(b.before) /\ n \in 0 .. Len(b.after)
          /\ x.before \in Seq(Contents) /\ x.after \in Seq(Contents)
          /\ n \in 0 .. Len(x.before) /\ n \in 0 .. Len(x.after)
      BY <1>0 DEF Buses, Points, ChainInv, Aligned
    <2> HIDE DEF n
    <2>7. ASSUME NEW S, NEW s \in Seq(S), n \in 0 .. Len(s), NEW e
          PROVE  Len(Append(Truncate(s, n), e)) = n + 1
      <3>1. Truncate(s, n) \in Seq(S \cup {e}) /\ Len(Truncate(s, n)) = n
        BY <2>6, <2>7, TruncateType
      <3> QED
        BY <3>1
    <2>8. Len(c.before) = n + 1 /\ Len(c.after) = n + 1
      BY <2>4, <2>6, <2>7
    <2>9. Len(y.before) = n + 1 /\ Len(y.after) = n + 1
      BY <2>5, <2>6, <2>7
    <2>10. Shape(c, y)
      BY <2>4, <2>5, <2>8, <2>9 DEF Shape
    <2> QED
      BY <2>2, <2>3, <2>10
  <1> QED
    BY <1>1, <1>2, <1>3

-----------------------------------------------------------------------------
(* Traces: the points that a sequence of events goes through.               *)

ResultOf(executions, env) ==
    IF env.command.op = "RunWorkflow" THEN executions[env.id].result ELSE Null

\* The result of a workflow run is recorded, for the digest it ran with.
Ran(executions, env) ==
    env.command.op = "RunWorkflow" =>
        /\ executions[env.id] # Null
        /\ executions[env.id].digest = env.digest
        /\ executions[env.id].result \in Results

Trace(points, audit, executions) ==
    /\ points[0] = Origin
    /\ \A i \in 0 .. Len(audit) : points[i] \in Points
    /\ \A i \in 1 .. Len(audit) :
           /\ Possible(points[i - 1], audit[i])
           /\ Ran(executions, audit[i])
           /\ points[i] = PointAfter(points[i - 1], audit[i], ResultOf(executions, audit[i]))

Numbered(audit) == \A i \in 1 .. Len(audit) : audit[i].id = i

LEMMA TraceExtends ==
    ASSUME NEW audit \in Seq(Envelopes), Numbered(audit), NEW env \in Envelopes,
           env.id = Len(audit) + 1, NEW points, NEW old, NEW new, Trace(points, audit, old),
           \A i \in EnvelopeIds : i # env.id => new[i] = old[i],
           Possible(points[Len(audit)], env), Ran(new, env),
           PointAfter(points[Len(audit)], env, ResultOf(new, env)) \in Points
    PROVE  /\ Numbered(Append(audit, env))
           /\ \E more :
                 /\ Trace(more, Append(audit, env), new)
                 /\ more[Len(Append(audit, env))]
                        = PointAfter(points[Len(audit)], env, ResultOf(new, env))
  <1> DEFINE n == Len(audit)
             events == Append(audit, env)
             last == PointAfter(points[n], env, ResultOf(new, env))
             more == [i \in 0 .. (n + 1) |-> IF i = n + 1 THEN last ELSE points[i]]
  <1>1. /\ n \in Nat /\ Len(events) = n + 1 /\ events[n + 1] = env
        /\ \A i \in 1 .. n : events[i] = audit[i]
    OBVIOUS
  <1>2. last \in Points
    OBVIOUS
  <1> HIDE DEF n, events, last
  <1>3. more[n + 1] = last /\ \A i \in 0 .. n : more[i] = points[i]
    BY <1>1
  <1> HIDE DEF more
  <1>4. Numbered(events)
    <2> SUFFICES ASSUME NEW i \in 1 .. (n + 1) PROVE events[i].id = i
      BY <1>1 DEF Numbered
    <2>1. i \in 1 .. n \/ i = n + 1
      BY <1>1
    <2> QED
      BY <1>1, <2>1 DEF Numbered, n
  <1>5. ASSUME NEW i \in 1 .. n
        PROVE  /\ Ran(new, audit[i])
               /\ ResultOf(new, audit[i]) = ResultOf(old, audit[i])
               /\ Possible(points[i - 1], audit[i])
               /\ points[i] = PointAfter(points[i - 1], audit[i], ResultOf(old, audit[i]))
    <2>1. audit[i].id = i /\ audit[i] \in Envelopes
      BY DEF Numbered, n
    <2>2. audit[i].id \in EnvelopeIds /\ audit[i].id # env.id
      BY <1>1, <2>1, EnvelopeFields DEF n
    <2>3. new[audit[i].id] = old[audit[i].id]
      BY <2>2
    <2>4. /\ Possible(points[i - 1], audit[i]) /\ Ran(old, audit[i])
          /\ points[i] = PointAfter(points[i - 1], audit[i], ResultOf(old, audit[i]))
      BY DEF Trace, n
    <2> QED
      BY <2>3, <2>4 DEF Ran, ResultOf
  <1>6. ASSUME NEW i \in 1 .. (n + 1)
        PROVE  /\ Possible(more[i - 1], events[i]) /\ Ran(new, events[i])
               /\ more[i] = PointAfter(more[i - 1], events[i], ResultOf(new, events[i]))
    <2>1. CASE i \in 1 .. n
      <3>1. i - 1 \in 0 .. n /\ i \in 0 .. n
        BY <1>1, <2>1
      <3>2. more[i - 1] = points[i - 1] /\ more[i] = points[i] /\ events[i] = audit[i]
        BY <1>1, <1>3, <2>1, <3>1
      <3> QED
        BY <1>5, <2>1, <3>2
    <2>2. CASE i = n + 1
      <3>1. i - 1 = n /\ n \in 0 .. n
        BY <1>1, <2>2
      <3>2. more[i - 1] = points[n] /\ events[i] = env /\ more[i] = last
        BY <1>1, <1>3, <2>2, <3>1
      <3> QED
        BY <3>2 DEF last, n
    <2> QED
      BY <1>1, <2>1, <2>2
  <1>7. \A i \in 0 .. (n + 1) : more[i] \in Points
    <2>1. \A i \in 0 .. n : points[i] \in Points
      BY DEF Trace, n
    <2>2. \A i \in 0 .. (n + 1) : i \in 0 .. n \/ i = n + 1
      BY <1>1
    <2> QED
      BY <1>2, <1>3, <2>1, <2>2
  <1>8. more[0] = Origin
    BY <1>1, <1>3 DEF Trace
  <1>9. Trace(more, events, new)
    BY <1>1, <1>6, <1>7, <1>8 DEF Trace
  <1>10. more[Len(events)] = last
    BY <1>1, <1>3
  <1> QED
    BY <1>4, <1>9, <1>10 DEF events, last, n

LEMMA EmptyTrace ==
    ASSUME NEW executions
    PROVE  Trace([i \in 0 .. 0 |-> Origin], << >>, executions)
  <1>1. Origin \in Points
    <2>1. InitialProject.content \in Contents
      BY InitialProjectAssumption DEF Projects
    <2> QED
      BY <2>1 DEF Origin, Points
  <1> DEFINE points == [i \in 0 .. 0 |-> Origin]
  <1>2. points[0] = Origin
    OBVIOUS
  <1> HIDE DEF points
  <1>3. Len(<< >>) = 0
    OBVIOUS
  <1>4. \A i \in 0 .. Len(<< >>) : points[i] \in Points
    BY <1>1, <1>2, <1>3
  <1>5. 1 .. Len(<< >>) = {}
    BY <1>3
  <1>6. Trace(points, << >>, executions)
    BY <1>2, <1>4, <1>5 DEF Trace
  <1> QED
    BY <1>6 DEF points

\* The events of bus b lead to b and its project.
Explained(b, p) ==
    \E points : Trace(points, b.audit, b.executions) /\ Matches(b, p, points[Len(b.audit)])

\* The result a dispatch used is the one that is recorded.
LEMMA ResultRecorded ==
    ASSUME NEW b \in Buses, NEW p \in Projects, NEW env \in Envelopes,
           NEW result \in Results \cup {Null}, NEW now, Accepted(b, p, env, result)
    PROVE  LET new == BusAfter(b, p, env, result, now).executions
           IN  /\ \A i \in EnvelopeIds : i # env.id => new[i] = b.executions[i]
               /\ Ran(new, env)
               /\ ResultOf(new, env) = result
  <1>0. b.executions \in [EnvelopeIds -> ExecutionRecords \cup {Null}] /\ env.id \in EnvelopeIds
    BY EnvelopeFields DEF Buses
  <1>1. CASE env.command.op \in {"Undo", "Redo"}
    <2>1. BusAfter(b, p, env, result, now).executions = b.executions
      BY <1>1 DEF BusAfter, Undone, Redone, Restored
    <2>2. result = Null
      BY <1>1 DEF Accepted
    <2>3. env.command.op # "RunWorkflow"
      BY <1>1
    <2> QED
      BY <2>1, <2>2, <2>3 DEF Ran, ResultOf
  <1>2. CASE env.command.op \notin {"Undo", "Redo"}
    <2> DEFINE record == [digest |-> env.digest, result |-> result]
               new == IF result = Null THEN b.executions
                      ELSE [b.executions EXCEPT ![env.id] = record]
    <2>1. BusAfter(b, p, env, result, now).executions = new
      BY <1>2 DEF BusAfter, Committed
    <2>2. ExecutorCalled(env, result)
      BY <1>2 DEF Accepted
    <2>3. record.digest = env.digest /\ record.result = result
      OBVIOUS
    <2>4. \A i \in EnvelopeIds : i # env.id => new[i] = b.executions[i]
      BY <1>0
    <2>5. CASE env.command.op = "RunWorkflow"
      <3>1. result \in Results /\ result # Null
        BY <2>2, <2>5, NullAssumption DEF ExecutorCalled
      <3>2. record \in ExecutionRecords
        BY <3>1, EnvelopeFields DEF ExecutionRecords
      <3>3. record # Null
        BY <3>2, NullAssumption
      <3> HIDE DEF record
      <3>4. new[env.id] = record
        BY <1>0, <3>1
      <3> HIDE DEF new
      <3> QED
        BY <2>1, <2>3, <2>4, <2>5, <3>1, <3>3, <3>4 DEF Ran, ResultOf
    <2>6. CASE env.command.op # "RunWorkflow"
      <3>1. result = Null
        BY <2>2, <2>6 DEF ExecutorCalled
      <3> HIDE DEF new
      <3> QED
        BY <2>1, <2>4, <2>6, <3>1 DEF Ran, ResultOf
    <2> QED
      BY <2>5, <2>6
  <1> QED
    BY <1>1, <1>2

\* dispatch keeps the bus explained by its events.
LEMMA ExplainedAfter ==
    ASSUME NEW b \in Buses, NEW p \in Projects, NEW env \in Envelopes,
           NEW result \in Results \cup {Null}, NEW now \in Clock, Accepted(b, p, env, result),
           BusInv(b), ChainInv(b, p), Numbered(b.audit), env.id = Len(b.audit) + 1,
           Explained(b, p)
    PROVE  LET c == BusAfter(b, p, env, result, now)
           IN  Numbered(c.audit) /\ Explained(c, ProjectAfter(b, p, env, result, now))
  <1> DEFINE c == BusAfter(b, p, env, result, now)
             q == ProjectAfter(b, p, env, result, now)
             n == Len(b.audit)
  <1>0. b.audit \in Seq(Envelopes) /\ n \in Nat
    BY DEF Buses
  <1>1. PICK points : Trace(points, b.audit, b.executions) /\ Matches(b, p, points[n])
    BY DEF Explained
  <1>2. points[n] \in Points
    BY <1>0, <1>1 DEF Trace
  <1>3. /\ Possible(points[n], env) /\ PointAfter(points[n], env, result) \in Points
        /\ Matches(c, q, PointAfter(points[n], env, result))
    BY <1>1, <1>2, MatchesAfter
  <1>4. c.audit = Append(b.audit, env)
    BY BusAfterInv
  <1>5. /\ \A i \in EnvelopeIds : i # env.id => c.executions[i] = b.executions[i]
        /\ Ran(c.executions, env) /\ ResultOf(c.executions, env) = result
    BY ResultRecorded
  <1> HIDE DEF c, q
  <1>6. /\ Numbered(Append(b.audit, env))
        /\ \E more : /\ Trace(more, Append(b.audit, env), c.executions)
                     /\ more[Len(Append(b.audit, env))] = PointAfter(points[n], env, result)
    BY <1>0, <1>1, <1>3, <1>5, TraceExtends
  <1>7. Explained(c, q)
    BY <1>3, <1>4, <1>6 DEF Explained
  <1> QED
    BY <1>4, <1>6, <1>7 DEF c, q

-----------------------------------------------------------------------------
(* The process.                                                             *)

\* x is where the bus of the process stands; a loaded bus knows the digest of
\* its state only.
Ended(x) ==
    /\ x.history = bus.history /\ x.cursor = bus.cursor /\ x.executions = bus.executions
    /\ mode = "running" => Matches(bus, project, x)
    /\ mode = "loaded" => bus.expected = x.content

SessionInv ==
    /\ mode = "down" => project = InitialProject
    /\ mode # "down" =>
          /\ Numbered(bus.audit)
          /\ \E points : Trace(points, bus.audit, bus.executions) /\ Ended(points[Len(bus.audit)])
    /\ mode = "running" => ChainInv(bus, project)

\* The replay in progress goes through the recorded points: through their shape
\* when a live executor may return other results.
Following(points) ==
    /\ Trace(points, bus.audit, bus.executions) /\ Ended(points[Len(bus.audit)])
    /\ Shape(replay.work, points[replay.pos])
    /\ ~replay.live => Matches(replay.work, replay.state, points[replay.pos])

ReplayingInv ==
    job = "replay" =>
        /\ mode # "down" /\ replay.stage = "events"
        /\ replay.pos <= Len(bus.audit)
        /\ replay.work.audit = SubSeq(bus.audit, 1, replay.pos)
        /\ replay.work.workflows = bus.workflows
        /\ replay.saving => mode = "loaded" /\ ~replay.live
        /\ ChainInv(replay.work, replay.state) /\ Explained(replay.work, replay.state)
        /\ \E points : Following(points)

\* The events of a log lead to its history, its records and its digest.
Replayable(log) ==
    /\ Numbered(log.audit)
    /\ \E points :
          /\ Trace(points, log.audit, log.executions)
          /\ points[Len(log.audit)].history = log.commands
          /\ points[Len(log.audit)].cursor = log.cursor
          /\ points[Len(log.audit)].executions = log.executions
          /\ points[Len(log.audit)].content = log.digest

LogsInv ==
    /\ job = "write" => Replayable(pending)
    /\ disk.status = "log" => Replayable(disk.log)

HistoryInv == SessionInv /\ ReplayingInv /\ LogsInv

\* A fresh bus is at the origin.
LEMMA FreshMatches ==
    ASSUME NEW b, b.history = << >>, b.before = << >>, b.after = << >>, b.cursor = 0,
           b.executions = [i \in EnvelopeIds |-> Null]
    PROVE  Matches(b, InitialProject, Origin)
  <1>1. /\ Origin.history = << >> /\ Origin.cursor = 0 /\ Origin.before = << >>
        /\ Origin.after = << >> /\ Origin.executions = [i \in EnvelopeIds |-> Null]
        /\ Origin.content = InitialProject.content
    BY DEF Origin
  <1>2. SameContents(<< >>, << >>)
    BY DEF SameContents
  <1> QED
    BY <1>1, <1>2 DEF Matches

LEMMA FreshExplained ==
    ASSUME NEW b, b.history = << >>, b.before = << >>, b.after = << >>, b.cursor = 0,
           b.executions = [i \in EnvelopeIds |-> Null], b.audit = << >>,
           b.initial = Null \/ b.current = InitialProject
    PROVE  /\ Explained(b, InitialProject) /\ ChainInv(b, InitialProject) /\ Numbered(b.audit)
  <1> DEFINE points == [i \in 0 .. 0 |-> Origin]
  <1>1. Trace(points, << >>, b.executions)
    BY EmptyTrace
  <1>2. points[0] = Origin /\ Len(<< >>) = 0
    OBVIOUS
  <1> HIDE DEF points
  <1>3. Matches(b, InitialProject, points[Len(b.audit)])
    BY <1>2, FreshMatches
  <1>4. Explained(b, InitialProject)
    BY <1>1, <1>3 DEF Explained
  <1>5. Numbered(b.audit)
    BY <1>2 DEF Numbered
  <1> QED
    BY <1>4, <1>5, ChainFresh

\* A running process is explained by its own events.
LEMMA RunningSession ==
    ASSUME SessionInv, mode = "running"
    PROVE  Numbered(bus.audit) /\ Explained(bus, project) /\ ChainInv(bus, project)
  BY DEF SessionInv, Ended, Explained

LEMMA SessionRunning ==
    ASSUME mode' = "running", Numbered(bus'.audit), Explained(bus', project'),
           ChainInv(bus', project')
    PROVE  SessionInv'
  <1>1. PICK points : /\ Trace(points, bus'.audit, bus'.executions)
                      /\ Matches(bus', project', points[Len(bus'.audit)])
    BY DEF Explained
  <1> DEFINE x == points[Len(bus'.audit)]
  <1>2. x.history = bus'.history /\ x.cursor = bus'.cursor /\ x.executions = bus'.executions
    BY <1>1 DEF Matches
  <1>3. Ended(points[Len(bus.audit)])'
    BY <1>1, <1>2 DEF Ended
  <1> QED
    BY <1>1, <1>3 DEF SessionInv

LEMMA SessionUnchanged ==
    ASSUME SessionInv, UNCHANGED <<mode, bus, project>>
    PROVE  SessionInv'
  <1>1. ASSUME NEW x, Ended(x) PROVE Ended(x)'
    BY <1>1 DEF Ended
  <1> QED
    BY <1>1 DEF SessionInv

\* Two buses with the same history, snapshots and events.
LEMMA SameHistory ==
    ASSUME NEW b, NEW c, NEW p,
           c.history = b.history, c.cursor = b.cursor, c.before = b.before, c.after = b.after,
           c.audit = b.audit, c.executions = b.executions, c.initial = b.initial,
           c.current = b.current
    PROVE  /\ ChainInv(b, p) => ChainInv(c, p)
           /\ Explained(b, p) => Explained(c, p)
  <1>1. \A i : At(c, i) = At(b, i)
    BY DEF At
  <1>2. \A i : Named(b, i) => Named(c, i)
    BY <1>1 DEF Named
  <1>3. Aligned(b) => Aligned(c)
    BY DEF Aligned
  <1>4. ChainInv(b, p) => ChainInv(c, p)
    BY <1>1, <1>2, <1>3 DEF ChainInv
  <1>5. \A x : Matches(b, p, x) => Matches(c, p, x)
    BY DEF Matches
  <1> QED
    BY <1>4, <1>5 DEF Explained

LEMMA RegisterWorkflowHistory ==
    ASSUME Inv, HistoryInv, NEW g \in Graphs, RegisterWorkflow(g)
    PROVE  HistoryInv'
  <1>0. bus \in Buses
    BY DEF Inv, TypeOK
  <1>1. /\ Running /\ UNCHANGED <<mode, job, project, replay, pending, disk>>
        /\ bus' = [bus EXCEPT !.workflows = [bus.workflows EXCEPT ![g.id] = g]]
    BY DEF RegisterWorkflow, Registered
  <1>2. /\ bus'.history = bus.history /\ bus'.cursor = bus.cursor /\ bus'.before = bus.before
        /\ bus'.after = bus.after /\ bus'.audit = bus.audit
        /\ bus'.executions = bus.executions /\ bus'.initial = bus.initial
        /\ bus'.current = bus.current
    BY <1>0, <1>1 DEF Buses
  <1>3. mode = "running" /\ mode' = "running" /\ job' = "none"
    BY <1>1 DEF Running
  <1>4. Numbered(bus.audit) /\ Explained(bus, project) /\ ChainInv(bus, project)
    BY <1>3, RunningSession DEF HistoryInv
  <1>5. Numbered(bus'.audit) /\ Explained(bus', project') /\ ChainInv(bus', project')
    BY <1>1, <1>2, <1>4, SameHistory
  <1>6. SessionInv'
    BY <1>3, <1>5, SessionRunning
  <1> QED
    BY <1>1, <1>3, <1>6 DEF HistoryInv, ReplayingInv, LogsInv

LEMMA DispatchHistory ==
    ASSUME Inv, HistoryInv, NEW request \in Requests, Dispatch(request)
    PROVE  HistoryInv'
  <1> DEFINE env == Envelope(request)
  <1>0. env \in Envelopes
    BY EnvelopeType DEF Dispatch
  <1>1. env.id = Len(bus.audit) + 1
    BY DEF Envelope, FreshId
  <1>2. PICK result \in Results \cup {Null}, now \in Clock :
          /\ Accepted(bus, project, env, result)
          /\ bus' = BusAfter(bus, project, env, result, now)
          /\ project' = ProjectAfter(bus, project, env, result, now)
    BY DEF Dispatch
  <1> HIDE DEF env
  <1>3. /\ Running /\ UNCHANGED <<mode, job, replay, pending, disk>>
        /\ bus \in Buses /\ project \in Projects /\ BusInv(bus)
    BY DEF Dispatch, Inv, TypeOK, MemoryInv
  <1>4. mode = "running" /\ mode' = "running" /\ job' = "none"
    BY <1>3 DEF Running
  <1>5. Numbered(bus.audit) /\ Explained(bus, project) /\ ChainInv(bus, project)
    BY <1>4, RunningSession DEF HistoryInv
  <1>6. ChainInv(bus', project')
    BY <1>0, <1>2, <1>3, <1>5, ChainAfter
  <1>7. Numbered(bus'.audit) /\ Explained(bus', project')
    BY <1>0, <1>1, <1>2, <1>3, <1>5, ExplainedAfter
  <1>8. SessionInv'
    BY <1>4, <1>6, <1>7, SessionRunning
  <1> QED
    BY <1>3, <1>4, <1>8 DEF HistoryInv, ReplayingInv, LogsInv

LEMMA BeginReplayHistory ==
    ASSUME Inv, HistoryInv, NEW live \in BOOLEAN, NEW saving \in BOOLEAN, BeginReplay(live, saving)
    PROVE  HistoryInv'
  <1>0. /\ bus \in Buses /\ bus.initial = InitialProject /\ bus.audit \in Seq(Envelopes)
    BY DEF BeginReplay, Inv, TypeOK, Buses
  <1>1. /\ mode # "down" /\ job' = "replay" /\ UNCHANGED <<mode, bus, project, pending, disk>>
        /\ saving => mode = "loaded" /\ ~live
    BY DEF BeginReplay, Idle
  <1> DEFINE work == BusWith(InitialProject, bus.workflows)
  <1>2. replay' = [stage |-> "events", live |-> live, saving |-> saving, pos |-> 0,
                   work |-> work, state |-> InitialProject, replayed |-> Null]
    BY <1>0 DEF BeginReplay, FreshWork
  <1>3. /\ work.history = << >> /\ work.before = << >> /\ work.after = << >> /\ work.cursor = 0
        /\ work.executions = [i \in EnvelopeIds |-> Null] /\ work.audit = << >>
        /\ work.current = InitialProject /\ work.workflows = bus.workflows
    BY DEF BusWith
  <1> HIDE DEF work
  <1>4. /\ replay'.stage = "events" /\ replay'.live = live /\ replay'.saving = saving
        /\ replay'.pos = 0 /\ replay'.work = work /\ replay'.state = InitialProject
    BY <1>2
  <1>5. /\ Explained(work, InitialProject) /\ ChainInv(work, InitialProject)
    BY <1>3, FreshExplained
  <1>6. Matches(work, InitialProject, Origin) /\ Shape(work, Origin)
    BY <1>3, FreshMatches, MatchesShape
  <1>7. PICK points : Trace(points, bus.audit, bus.executions) /\ Ended(points[Len(bus.audit)])
    BY <1>1 DEF HistoryInv, SessionInv
  <1>8. points[0] = Origin
    BY <1>7 DEF Trace
  <1>9. Ended(points[Len(bus.audit)])'
    BY <1>1, <1>7 DEF Ended
  <1>10. Following(points)'
    BY <1>1, <1>4, <1>6, <1>7, <1>8, <1>9 DEF Following
  <1>11. SubSeq(bus.audit, 1, 0) = << >> /\ 0 <= Len(bus.audit)
    BY <1>0
  <1>12. ReplayingInv'
    BY <1>1, <1>3, <1>4, <1>5, <1>10, <1>11 DEF ReplayingInv
  <1>13. SessionInv'
    BY <1>1, SessionUnchanged DEF HistoryInv
  <1> QED
    BY <1>1, <1>12, <1>13 DEF HistoryInv, LogsInv

\* The events of a replay are the audit log of the bus.
LEMMA TodoIsAudit ==
    ASSUME Inv, HistoryInv, job = "replay"
    PROVE  Todo = bus.audit
  <1>0. bus.audit \in Seq(Envelopes) /\ bus.history \in Seq(Envelopes)
    BY ReplayParts DEF Buses
  <1>1. replay.stage = "events"
    BY DEF HistoryInv, ReplayingInv
  <1>2. CASE bus.audit = << >>
    <2>1. PICK points : Following(points)
      BY DEF HistoryInv, ReplayingInv
    <2>2. points[0] = Origin /\ Len(bus.audit) = 0
      BY <1>2, <2>1 DEF Following, Trace
    <2>3. bus.history = Origin.history
      BY <2>1, <2>2 DEF Following, Ended
    <2>4. Origin.history = << >>
      BY DEF Origin
    <2> QED
      BY <1>1, <1>2, <2>3, <2>4 DEF Todo, Events
  <1>3. CASE bus.audit # << >>
    BY <1>1, <1>3 DEF Todo, Events
  <1> QED
    BY <1>2, <1>3

LEMMA WorkflowsKept ==
    ASSUME NEW b, NEW p, NEW env, NEW result, NEW now
    PROVE  BusAfter(b, p, env, result, now).workflows = b.workflows
  <1>1. CASE env.command.op = "Undo"
    BY <1>1 DEF BusAfter, Undone, Restored
  <1>2. CASE env.command.op = "Redo"
    BY <1>2 DEF BusAfter, Redone, Restored
  <1>3. CASE env.command.op \notin {"Undo", "Redo"}
    <2>1. BusAfter(b, p, env, result, now) = Committed(b, p, Mutated(p, env, result, now), env, result)
      BY <1>3 DEF BusAfter
    <2> QED
      BY <2>1 DEF Committed
  <1> QED
    BY <1>1, <1>2, <1>3

LEMMA ReplayEventHistory ==
    ASSUME Inv, HistoryInv, ReplayEvent
    PROVE  HistoryInv'
  <1> DEFINE pos == replay.pos
             env == bus.audit[pos + 1]
  <1>0. job = "replay" /\ UNCHANGED <<mode, job, bus, project, pending, disk>>
    BY DEF ReplayEvent
  <1>1. Todo = bus.audit
    BY <1>0, TodoIsAudit
  <1>2. /\ bus \in Buses /\ replay.work \in Buses /\ replay.state \in Projects
        /\ BusInv(replay.work) /\ pos \in Nat /\ bus.audit \in Seq(Envelopes)
        /\ bus.executions \in [EnvelopeIds -> ExecutionRecords \cup {Null}]
        /\ Len(bus.audit) \in Nat
    BY <1>0, ReplayParts DEF Buses
  <1>3. pos < Len(bus.audit)
    BY <1>1 DEF ReplayEvent
  <1>4. env \in Envelopes /\ pos + 1 \in 1 .. Len(bus.audit)
    BY <1>2, <1>3
  <1>5. PICK result \in ReplayAccepts(env), now \in Clock :
          replay' =
            [stage    |-> replay.stage,
             live     |-> replay.live,
             saving   |-> replay.saving,
             pos      |-> pos + 1,
             work     |-> BusAfter(replay.work, replay.state, env, result, now),
             state    |-> ProjectAfter(replay.work, replay.state, env, result, now),
             replayed |-> replay.replayed]
    BY <1>1 DEF ReplayEvent
  <1>6. /\ mode # "down" /\ replay.stage = "events"
        /\ replay.work.audit = SubSeq(bus.audit, 1, pos)
        /\ replay.work.workflows = bus.workflows
        /\ replay.saving => mode = "loaded" /\ ~replay.live
        /\ ChainInv(replay.work, replay.state) /\ Explained(replay.work, replay.state)
    BY <1>0 DEF HistoryInv, ReplayingInv
  <1>7. PICK points : Following(points)
    BY <1>0 DEF HistoryInv, ReplayingInv
  <1>8. Numbered(bus.audit)
    BY <1>6 DEF HistoryInv, SessionInv
  <1> DEFINE work == BusAfter(replay.work, replay.state, env, result, now)
             state == ProjectAfter(replay.work, replay.state, env, result, now)
             recorded == ResultOf(bus.executions, env)
  <1>9. env.id = pos + 1
    BY <1>4, <1>8 DEF Numbered
  <1> HIDE DEF pos, env
  <1>10. /\ Accepted(replay.work, replay.state, env, result)
         /\ result \in ReplayResults(env)
    BY <1>5 DEF ReplayAccepts
  <1>11. Ran(bus.executions, env) /\ points[pos + 1] = PointAfter(points[pos], env, recorded)
    <2>1. (pos + 1) - 1 = pos
      BY <1>2
    <2> QED
      BY <1>4, <1>7, <2>1 DEF Following, Trace, env
  <1>12. result \in Results \cup {Null} /\ (~replay.live => result = recorded)
    <2>1. CASE env.command.op # "RunWorkflow"
      BY <1>10, <2>1 DEF ReplayResults, ResultOf
    <2>2. CASE env.command.op = "RunWorkflow"
      <3>1. /\ bus.executions[env.id] # Null /\ bus.executions[env.id].digest = env.digest
            /\ bus.executions[env.id].result \in Results
        BY <1>11, <2>2 DEF Ran
      <3>2. ReplayResults(env) = IF replay.live THEN Results ELSE {bus.executions[env.id].result}
        BY <2>2, <3>1 DEF ReplayResults
      <3> QED
        BY <1>10, <2>2, <3>1, <3>2 DEF ResultOf
    <2> QED
      BY <2>1, <2>2
  <1>13. points[pos] \in Points
    <2>1. pos \in 0 .. Len(bus.audit)
      BY <1>2, <1>3
    <2> QED
      BY <1>7, <2>1 DEF Following, Trace
  <1>14. ChainInv(work, state)
    BY <1>2, <1>4, <1>6, <1>10, <1>12, ChainAfter
  <1>15. Len(replay.work.audit) = pos /\ Numbered(replay.work.audit)
    <2> DEFINE t == SubSeq(bus.audit, 1, pos)
    <2>1. Len(t) = pos
      BY <1>2, <1>3
    <2>2. \A i \in 1 .. pos : t[i] = bus.audit[i] /\ i \in 1 .. Len(bus.audit)
      BY <1>2, <1>3
    <2> HIDE DEF t
    <2>3. Numbered(t)
      BY <1>8, <2>1, <2>2 DEF Numbered
    <2>4. replay.work.audit = t
      BY <1>6 DEF t
    <2> QED
      BY <2>1, <2>3, <2>4
  <1>16. Explained(work, state)
    BY <1>2, <1>4, <1>6, <1>9, <1>10, <1>12, <1>15, ExplainedAfter
  <1>17. work.audit = SubSeq(bus.audit, 1, pos + 1)
    <2>0. work.audit = Append(replay.work.audit, env)
      BY <1>2, <1>4, <1>10, <1>12, BusAfterInv
    <2> HIDE DEF work
    <2>1. work.audit = Append(SubSeq(bus.audit, 1, pos), env)
      BY <1>6, <2>0
    <2>2. Append(SubSeq(bus.audit, 1, pos), bus.audit[pos + 1]) = SubSeq(bus.audit, 1, pos + 1)
      BY <1>2, <1>3
    <2> QED
      BY <2>1, <2>2 DEF env
  <1>18. work.workflows = bus.workflows
    BY <1>6, WorkflowsKept
  <1>19. Shape(work, points[pos + 1])
    <2>1. Shape(replay.work, points[pos])
      BY <1>7 DEF Following, pos
    <2>2. Shape(work, PointAfter(points[pos], env, recorded))
      BY <1>2, <1>4, <1>6, <1>10, <1>12, <1>13, <2>1, ShapeAfter
    <2> QED
      BY <1>11, <2>2
  <1>20. ~replay.live => Matches(work, state, points[pos + 1])
    <2> SUFFICES ASSUME ~replay.live PROVE Matches(work, state, points[pos + 1])
      OBVIOUS
    <2>1. Matches(replay.work, replay.state, points[pos]) /\ result = recorded
      BY <1>7, <1>12 DEF Following, pos
    <2>2. Matches(work, state, PointAfter(points[pos], env, result))
      BY <1>2, <1>4, <1>6, <1>10, <1>12, <1>13, <2>1, MatchesAfter
    <2> QED
      BY <1>11, <2>1, <2>2
  <1> HIDE DEF work, state
  <1>21. replay' = [stage |-> replay.stage, live |-> replay.live, saving |-> replay.saving,
                    pos |-> pos + 1, work |-> work, state |-> state,
                    replayed |-> replay.replayed]
    BY <1>5 DEF work, state
  <1>22. /\ replay'.stage = replay.stage /\ replay'.live = replay.live
         /\ replay'.saving = replay.saving /\ replay'.pos = pos + 1
         /\ replay'.work = work /\ replay'.state = state
    BY <1>21
  <1>23. Ended(points[Len(bus.audit)])'
    BY <1>0, <1>7 DEF Following, Ended
  <1>24. Following(points)'
    BY <1>0, <1>7, <1>19, <1>20, <1>22, <1>23 DEF Following
  <1>25. pos + 1 <= Len(bus.audit)
    BY <1>2, <1>3
  <1>26. ReplayingInv'
    BY <1>0, <1>6, <1>14, <1>16, <1>17, <1>18, <1>22, <1>24, <1>25 DEF ReplayingInv
  <1>27. SessionInv'
    BY <1>0, SessionUnchanged DEF HistoryInv
  <1> QED
    BY <1>0, <1>26, <1>27 DEF HistoryInv, LogsInv

LEMMA ReplayAbandonedHistory ==
    ASSUME HistoryInv, ReplayRejected \/ ReplayMismatch
    PROVE  HistoryInv'
  <1>1. job' = "none" /\ UNCHANGED <<mode, bus, project, pending, disk>>
    BY DEF ReplayRejected, ReplayMismatch
  <1>2. SessionInv'
    BY <1>1, SessionUnchanged DEF HistoryInv
  <1> QED
    BY <1>1, <1>2 DEF HistoryInv, ReplayingInv, LogsInv

\* What a replay that went through all events has reached.
LEMMA ReplayReached ==
    ASSUME Inv, HistoryInv, job = "replay", replay.pos = Len(Todo)
    PROVE  /\ replay.work.audit = bus.audit
           /\ \E x : /\ Ended(x) /\ Shape(replay.work, x)
                     /\ ~replay.live => Matches(replay.work, replay.state, x)
           /\ replay.work.cursor = bus.cursor
  <1>0. bus.audit \in Seq(Envelopes) /\ Todo = bus.audit
    BY ReplayParts, TodoIsAudit DEF Buses
  <1>1. replay.work.audit = SubSeq(bus.audit, 1, Len(bus.audit))
    BY <1>0 DEF HistoryInv, ReplayingInv
  <1>2. replay.work.audit = bus.audit
    BY <1>0, <1>1
  <1>3. PICK points : Following(points)
    BY DEF HistoryInv, ReplayingInv
  <1> DEFINE x == points[Len(bus.audit)]
  <1>4. /\ Ended(x) /\ Shape(replay.work, x)
        /\ ~replay.live => Matches(replay.work, replay.state, x)
    BY <1>0, <1>3 DEF Following
  <1>5. replay.work.cursor = bus.cursor
    BY <1>4 DEF Shape, Ended
  <1> QED
    BY <1>2, <1>4, <1>5

\* The second pass of replay_inner, over the active history, is never taken:
\* the events always lead to the cursor of the bus.
LEMMA NoActiveStage ==
    ASSUME Inv, HistoryInv
    PROVE  ~ReplayActiveHistory
  BY ReplayReached DEF ReplayActiveHistory

\* The log that persist writes of a bus at point x.
LEMMA LogReplayable ==
    ASSUME Numbered(bus.audit), NEW points, Trace(points, bus.audit, bus.executions),
           Ended(points[Len(bus.audit)]), NEW p, p.content = points[Len(bus.audit)].content
    PROVE  Replayable(LogOf(bus, p))
  <1> DEFINE log == LogOf(bus, p)
             x == points[Len(bus.audit)]
  <1>1. /\ log.commands = bus.history /\ log.cursor = bus.cursor /\ log.audit = bus.audit
        /\ log.executions = bus.executions /\ log.digest = p.content
    BY DEF LogOf, StateDigest
  <1>2. x.history = bus.history /\ x.cursor = bus.cursor /\ x.executions = bus.executions
    BY DEF Ended
  <1> HIDE DEF log
  <1>3. Replayable(log)
    BY <1>1, <1>2 DEF Replayable
  <1> QED
    BY <1>3 DEF log

LEMMA ReplayFinishedHistory ==
    ASSUME Inv, HistoryInv, ReplayFinished
    PROVE  HistoryInv'
  <1>0. job = "replay" /\ replay.pos = Len(Todo)
    BY DEF ReplayFinished, ReplayAtEnd
  <1>1. /\ replay.stage = "events" /\ mode # "down"
        /\ replay.saving => mode = "loaded" /\ ~replay.live
        /\ ChainInv(replay.work, replay.state) /\ Explained(replay.work, replay.state)
    BY <1>0 DEF HistoryInv, ReplayingInv
  <1>2. Numbered(bus.audit)
    BY <1>1 DEF HistoryInv, SessionInv
  <1>3. CASE replay.saving
    <2>1. /\ job' = "write" /\ pending' = LogOf(bus, replay.state)
          /\ disk' = [status |-> "torn", log |-> Null]
          /\ UNCHANGED <<mode, bus, project>>
      BY <1>3 DEF ReplayFinished
    <2>2. PICK points : Following(points)
      BY <1>0 DEF HistoryInv, ReplayingInv
    <2>3. Todo = bus.audit
      BY <1>0, TodoIsAudit
    <2>4. replay.state.content = points[Len(bus.audit)].content
      BY <1>0, <1>1, <1>3, <2>2, <2>3 DEF Following, Matches
    <2>5. Replayable(pending')
      BY <1>2, <2>1, <2>2, <2>4, LogReplayable DEF Following
    <2>6. SessionInv'
      BY <2>1, SessionUnchanged DEF HistoryInv
    <2>7. disk'.status # "log"
      BY <2>1
    <2> QED
      BY <2>1, <2>5, <2>6, <2>7 DEF HistoryInv, ReplayingInv, LogsInv
  <1>4. CASE ~replay.saving
    <2>1. /\ mode' = "running" /\ job' = "none" /\ project' = replay.state
          /\ bus' = Rebuilt(bus, replay.work, replay.state)
          /\ UNCHANGED <<pending, disk>>
      BY <1>1, <1>4 DEF ReplayFinished, EventStage
    <2> DEFINE work == replay.work
    <2>2. work.audit = bus.audit
      BY <1>0, ReplayReached
    <2>3. work.initial # Null
      BY <1>0, ReplayParts, InitialProjectNotNull
    <2>4. work.current = replay.state
      BY <1>1, <2>3 DEF ChainInv
    <2>5. /\ bus'.history = work.history /\ bus'.cursor = work.cursor
          /\ bus'.before = work.before /\ bus'.after = work.after
          /\ bus'.audit = bus.audit /\ bus'.executions = work.executions
          /\ bus'.initial = work.initial /\ bus'.current = replay.state
      BY <2>1 DEF Rebuilt
    <2>6. ChainInv(bus', project') /\ Explained(bus', project')
      BY <1>1, <2>1, <2>2, <2>4, <2>5, SameHistory
    <2>7. SessionInv'
      BY <1>2, <2>1, <2>5, <2>6, SessionRunning
    <2> QED
      BY <2>1, <2>7 DEF HistoryInv, ReplayingInv, LogsInv
  <1> QED
    BY <1>3, <1>4

LEMMA PersistHistory ==
    ASSUME Inv, HistoryInv, PersistBegin \/ PersistEnd
    PROVE  HistoryInv'
  <1>1. CASE PersistBegin
    <2>1. /\ Running /\ bus.initial # Null /\ job' = "write" /\ pending' = LogOf(bus, bus.current)
          /\ disk' = [status |-> "torn", log |-> Null]
          /\ UNCHANGED <<mode, bus, project, replay>>
      BY <1>1 DEF PersistBegin
    <2>2. mode = "running"
      BY <2>1 DEF Running
    <2>3. PICK points : Trace(points, bus.audit, bus.executions) /\ Ended(points[Len(bus.audit)])
      BY <2>2 DEF HistoryInv, SessionInv
    <2>4. Numbered(bus.audit) /\ bus.current = project
      BY <2>1, <2>2 DEF HistoryInv, SessionInv, ChainInv
    <2>5. bus.current.content = points[Len(bus.audit)].content
      BY <2>2, <2>3, <2>4 DEF Ended, Matches
    <2>6. Replayable(pending')
      BY <2>1, <2>3, <2>4, <2>5, LogReplayable
    <2>7. SessionInv'
      BY <2>1, SessionUnchanged DEF HistoryInv
    <2>8. disk'.status # "log"
      BY <2>1
    <2> QED
      BY <2>1, <2>6, <2>7, <2>8 DEF HistoryInv, ReplayingInv, LogsInv
  <1>2. CASE PersistEnd
    <2>1. /\ job = "write" /\ job' = "none" /\ disk' = [status |-> "log", log |-> pending]
          /\ UNCHANGED <<mode, bus, project, replay>>
      BY <1>2 DEF PersistEnd
    <2>2. Replayable(pending)
      BY <2>1 DEF HistoryInv, LogsInv
    <2>3. SessionInv'
      BY <2>1, SessionUnchanged DEF HistoryInv
    <2> QED
      BY <2>1, <2>2, <2>3 DEF HistoryInv, ReplayingInv, LogsInv
  <1> QED
    BY <1>1, <1>2

LEMMA RestartHistory ==
    ASSUME Inv, HistoryInv, Crash \/ Load \/ StartOver
    PROVE  HistoryInv'
  <1>1. CASE Crash
    <2>1. mode' = "down" /\ job' = "none" /\ project' = InitialProject /\ UNCHANGED disk
      BY <1>1 DEF Crash
    <2> QED
      BY <2>1 DEF HistoryInv, SessionInv, ReplayingInv, LogsInv
  <1>2. CASE Load
    <2>1. /\ mode = "down" /\ mode' = "loaded" /\ disk.status = "log"
          /\ bus' = LoadedBus(disk.log) /\ UNCHANGED <<job, project, replay, pending, disk>>
      BY <1>2 DEF Load
    <2> DEFINE log == disk.log
    <2>2. PICK points : /\ Trace(points, log.audit, log.executions)
                        /\ points[Len(log.audit)].history = log.commands
                        /\ points[Len(log.audit)].cursor = log.cursor
                        /\ points[Len(log.audit)].executions = log.executions
                        /\ points[Len(log.audit)].content = log.digest
      BY <2>1 DEF HistoryInv, LogsInv, Replayable
    <2>3. Numbered(log.audit)
      BY <2>1 DEF HistoryInv, LogsInv, Replayable
    <2>4. /\ bus'.history = log.commands /\ bus'.cursor = log.cursor /\ bus'.audit = log.audit
          /\ bus'.executions = log.executions /\ bus'.expected = log.digest
      BY <2>1 DEF LoadedBus
    <2>5. Ended(points[Len(bus.audit)])'
      BY <2>1, <2>2, <2>4 DEF Ended
    <2>6. SessionInv'
      BY <2>1, <2>2, <2>3, <2>4, <2>5 DEF SessionInv
    <2>7. job # "replay"
      BY <2>1 DEF HistoryInv, ReplayingInv
    <2> QED
      BY <2>1, <2>6, <2>7 DEF HistoryInv, ReplayingInv, LogsInv
  <1>3. CASE StartOver
    <2>1. /\ mode = "down" /\ mode' = "running" /\ bus' = BusWith(InitialProject, DefaultBus.workflows)
          /\ UNCHANGED <<job, project, replay, pending, disk>>
      BY <1>3 DEF StartOver, NewBus
    <2>2. /\ bus'.history = << >> /\ bus'.before = << >> /\ bus'.after = << >> /\ bus'.cursor = 0
          /\ bus'.executions = [i \in EnvelopeIds |-> Null] /\ bus'.audit = << >>
          /\ bus'.current = InitialProject
      BY <2>1 DEF BusWith
    <2>3. project' = InitialProject
      BY <2>1 DEF HistoryInv, SessionInv
    <2>4. /\ Explained(bus', project') /\ ChainInv(bus', project') /\ Numbered(bus'.audit)
      BY <2>2, <2>3, FreshExplained
    <2>5. SessionInv'
      BY <2>1, <2>4, SessionRunning
    <2>6. job # "replay"
      BY <2>1 DEF HistoryInv, ReplayingInv
    <2> QED
      BY <2>1, <2>5, <2>6 DEF HistoryInv, ReplayingInv, LogsInv
  <1> QED
    BY <1>1, <1>2, <1>3

LEMMA InitHistory == Init => HistoryInv
  <1> SUFFICES ASSUME Init PROVE HistoryInv
    OBVIOUS
  <1>1. /\ mode = "running" /\ job = "none" /\ project = InitialProject
        /\ disk = [status |-> "absent", log |-> Null]
        /\ bus = BusWith(InitialProject, DefaultBus.workflows) \/ bus = DefaultBus
    BY DEF Init, NewBus
  <1>2. /\ bus.history = << >> /\ bus.before = << >> /\ bus.after = << >> /\ bus.cursor = 0
        /\ bus.executions = [i \in EnvelopeIds |-> Null] /\ bus.audit = << >>
        /\ bus.initial = Null \/ bus.current = InitialProject
    <2>1. CASE bus = BusWith(InitialProject, DefaultBus.workflows)
      BY <2>1 DEF BusWith
    <2>2. CASE bus = DefaultBus
      BY <2>2 DEF DefaultBus
    <2> QED
      BY <1>1, <2>1, <2>2
  <1>3. Explained(bus, project) /\ ChainInv(bus, project) /\ Numbered(bus.audit)
    BY <1>1, <1>2, FreshExplained
  <1>4. PICK points : /\ Trace(points, bus.audit, bus.executions)
                      /\ Matches(bus, project, points[Len(bus.audit)])
    BY <1>3 DEF Explained
  <1>5. Ended(points[Len(bus.audit)])
    BY <1>1, <1>4 DEF Ended, Matches
  <1>6. SessionInv
    BY <1>1, <1>3, <1>4, <1>5 DEF SessionInv
  <1>7. disk.status # "log"
    BY <1>1
  <1> QED
    BY <1>1, <1>6, <1>7 DEF HistoryInv, ReplayingInv, LogsInv

LEMMA NextHistory == Inv /\ HistoryInv /\ [Next]_vars => HistoryInv'
  <1> SUFFICES ASSUME Inv, HistoryInv, [Next]_vars PROVE HistoryInv'
    OBVIOUS
  <1>1. CASE \E g \in Graphs : RegisterWorkflow(g)
    BY <1>1, RegisterWorkflowHistory
  <1>2. CASE \E request \in Requests : Dispatch(request)
    BY <1>2, DispatchHistory
  <1>3. CASE ReplayNext
    BY <1>3, BeginReplayHistory, ReplayEventHistory, ReplayAbandonedHistory, NoActiveStage,
       ReplayFinishedHistory DEF ReplayNext
  <1>4. CASE StorageNext
    BY <1>4, PersistHistory, RestartHistory DEF StorageNext
  <1>5. CASE UNCHANGED vars
    <2>1. SessionInv'
      BY <1>5, SessionUnchanged DEF HistoryInv, vars
    <2>2. ASSUME NEW points, Following(points) PROVE Following(points)'
      BY <1>5, <2>2 DEF Following, Ended, vars
    <2>3. ReplayingInv'
      BY <1>5, <2>2 DEF HistoryInv, ReplayingInv, vars
    <2>4. LogsInv'
      BY <1>5 DEF HistoryInv, LogsInv, vars
    <2> QED
      BY <2>1, <2>3, <2>4 DEF HistoryInv
  <1> QED
    BY <1>1, <1>2, <1>3, <1>4, <1>5 DEF Next

LEMMA HistoryInvariant == Spec => [](Inv /\ HistoryInv)
  <1>1. Spec => AnySpec
    <2>1. [Next]_vars => [AnyNext]_vars
      BY DEF AnyNext
    <2> QED
      BY <2>1, PTL DEF Spec, AnySpec
  <1> QED
    BY <1>1, InitHistory, NextHistory, CommandBusInvariant, PTL DEF Spec

-----------------------------------------------------------------------------
(* The theorems.                                                            *)

\* Whatever was dispatched, undone, redone, persisted, lost and replayed, the
\* snapshots of the history form one chain from the initial project to the
\* project of the caller, and the provenance of that project lists the commands
\* up to the cursor (HistoryIsTheProject; dispatch, undo, redo, replay_inner).
THEOREM HistoryIsTheProjectTheorem == Spec => []HistoryIsTheProject
  <1>1. ASSUME Inv, HistoryInv PROVE HistoryIsTheProject
    <2>0. /\ bus \in Buses /\ bus.initial \in {Null, InitialProject} /\ bus.cursor \in Nat
      BY <1>1 DEF Inv, TypeOK, Buses
    <2>1. mode = "running" => ChainInv(bus, project)
      BY <1>1 DEF HistoryInv, SessionInv
    <2>2. SnapshotChain
      <3> SUFFICES ASSUME mode = "running", bus.initial # Null
                   PROVE  /\ Chained(bus) /\ project = StateAt(bus, bus.cursor)
                          /\ bus.current = project
        BY DEF SnapshotChain
      <3>1. \A n : StateAt(bus, n) = At(bus, n)
        BY <2>0 DEF StateAt, At
      <3> QED
        BY <2>1, <3>1 DEF ChainInv, Chained
    <2>3. ProvenanceFollowsHistory
      <3> SUFFICES ASSUME mode = "running"
                   PROVE  LET known == Len(InitialProject.content.provenance)
                              now == project.content.provenance
                          IN  /\ Len(now) = known + bus.cursor
                              /\ \A i \in 1..bus.cursor : now[known + i].id = bus.history[i].id
        BY DEF ProvenanceFollowsHistory
      <3>1. project = At(bus, bus.cursor) /\ Named(bus, bus.cursor)
        BY <2>0, <2>1 DEF ChainInv
      <3> QED
        BY <3>1 DEF Named, Known
    <2> QED
      BY <2>2, <2>3 DEF HistoryIsTheProject
  <1> QED
    BY <1>1, HistoryInvariant, PTL

-----------------------------------------------------------------------------
(* What a finished replay has rebuilt.                                      *)

LEMMA SameStamps ==
    ASSUME NEW s \in Seq(Projects), NEW t \in Seq(Projects), NEW c,
           SameContents(s, c), SameContents(t, c)
    PROVE  Stamped(s) = Stamped(t)
  <1>1. /\ DOMAIN s = 1 .. Len(s) /\ DOMAIN t = 1 .. Len(t)
    OBVIOUS
  <1>2. DOMAIN s = DOMAIN t
    BY <1>1 DEF SameContents
  <1>3. ASSUME NEW i \in DOMAIN s PROVE StateDigest(s[i]) = StateDigest(t[i])
    BY <1>1, <1>2 DEF SameContents, StateDigest
  <1> QED
    BY <1>2, <1>3 DEF Stamped

\* A replay with the recorded executor that goes through all events rebuilds the
\* history, the cursor, the records, the digest and the snapshots of the bus it
\* was made from (ReplayFaithful; replay_inner, RecordedWorkflowExecutor).
THEOREM ReplayFaithfulTheorem == Spec => []ReplayFaithful
  <1>1. ASSUME Inv, HistoryInv PROVE ReplayFaithful
    <2> SUFFICES ASSUME job = "replay", ~replay.live, replay.pos = Len(Todo)
                 PROVE  /\ replay.work.history = bus.history
                        /\ replay.work.cursor = bus.cursor
                        /\ replay.work.executions = bus.executions
                        /\ StateDigest(replay.state) =
                              IF mode = "running" THEN StateDigest(bus.current) ELSE bus.expected
                        /\ mode = "running" =>
                              /\ Stamped(replay.work.before) = Stamped(bus.before)
                              /\ Stamped(replay.work.after) = Stamped(bus.after)
      BY DEF ReplayFaithful
    <2>0. /\ bus \in Buses /\ bus.initial = InitialProject /\ replay.work \in Buses
          /\ bus.initial # Null
      BY <1>1, ReplayParts, InitialProjectNotNull
    <2>1. PICK x : Ended(x) /\ Matches(replay.work, replay.state, x)
      BY <1>1, ReplayReached
    <2>2. /\ replay.work.history = bus.history
          /\ replay.work.cursor = bus.cursor
          /\ replay.work.executions = bus.executions
      BY <2>1 DEF Ended, Matches
    <2>3. mode \in {"loaded", "running"}
      BY <1>1 DEF HistoryInv, ReplayingInv, Inv, TypeOK
    <2>4. CASE mode = "running"
      <3>1. Matches(bus, project, x) /\ bus.current = project
        BY <1>1, <2>0, <2>1, <2>4 DEF Ended, HistoryInv, SessionInv, ChainInv
      <3>2. StateDigest(replay.state) = StateDigest(bus.current)
        BY <2>1, <3>1 DEF Matches, StateDigest
      <3>3. /\ replay.work.before \in Seq(Projects) /\ replay.work.after \in Seq(Projects)
            /\ bus.before \in Seq(Projects) /\ bus.after \in Seq(Projects)
        BY <2>0 DEF Buses
      <3>4. /\ SameContents(replay.work.before, x.before) /\ SameContents(bus.before, x.before)
            /\ SameContents(replay.work.after, x.after) /\ SameContents(bus.after, x.after)
        BY <2>1, <3>1 DEF Matches
      <3>5. Stamped(replay.work.before) = Stamped(bus.before)
        BY <3>3, <3>4, SameStamps
      <3>6. Stamped(replay.work.after) = Stamped(bus.after)
        BY <3>3, <3>4, SameStamps
      <3> QED
        BY <2>2, <2>4, <3>2, <3>5, <3>6
    <2>5. CASE mode = "loaded"
      <3>1. StateDigest(replay.state) = bus.expected
        BY <2>1, <2>5 DEF Matches, Ended, StateDigest
      <3> QED
        BY <2>2, <2>5, <3>1
    <2> QED
      BY <2>3, <2>4, <2>5
  <1> QED
    BY <1>1, HistoryInvariant, PTL

-----------------------------------------------------------------------------
(* No event of a replay is rejected.  register_workflow overwrites a graph  *)
(* with another one of the same identity, and the events the first one      *)
(* authorized are then rejected: graphs must not share an identity.         *)

DistinctIdentities == \A g, h \in Graphs : g.id = h.id => g = h

Authorized(b, env) ==
    env.command.op \notin {"Undo", "Redo"} =>
        MutationAuthorized(b, env) /\ WorkflowAuthorized(b, env)

\* The graphs of b, a bus or a log, are those its events were authorized by.
Sanctioned(b) ==
    /\ \A w \in WorkflowIds : b.workflows[w] # Null => b.workflows[w].id = w
    /\ \A i \in 1 .. Len(b.audit) : Authorized(b, b.audit[i])

SanctionedInv ==
    /\ Sanctioned(bus)
    /\ job = "write" => Sanctioned(pending)
    /\ disk.status = "log" => Sanctioned(disk.log)

LEMMA SameSanction ==
    ASSUME NEW b, NEW c, c.workflows = b.workflows, c.audit = b.audit, Sanctioned(b)
    PROVE  Sanctioned(c)
  <1>1. ASSUME NEW env, Authorized(b, env) PROVE Authorized(c, env)
    BY <1>1 DEF Authorized, MutationAuthorized, WorkflowAuthorized
  <1> QED
    BY <1>1 DEF Sanctioned

LEMMA FreshSanction ==
    ASSUME NEW b, b.workflows = DefaultBus.workflows, b.audit = << >>
    PROVE  Sanctioned(b)
  <1>1. \A w \in WorkflowIds : b.workflows[w] = Null
    BY DEF DefaultBus
  <1> QED
    BY <1>1 DEF Sanctioned

LEMMA CommandWorkflow ==
    ASSUME NEW cmd \in Commands, cmd.op \in BoundCommands \cup {"RunWorkflow"}
    PROVE  cmd.workflow \in WorkflowIds
  BY DEF Commands, CatalogOps, BoundCommands

\* Registering one more graph keeps every authorization.
LEMMA RegisteredSanction ==
    ASSUME DistinctIdentities, NEW b \in Buses, NEW g \in Graphs, Sanctioned(b),
           NEW c \in Buses, c.workflows = [b.workflows EXCEPT ![g.id] = g], c.audit = b.audit
    PROVE  Sanctioned(c)
  <1>0. /\ b.workflows \in [WorkflowIds -> Graphs \cup {Null}] /\ b.audit \in Seq(Envelopes)
        /\ g.id \in WorkflowIds
    BY DEF Buses, WorkflowIds
  <1>1. ASSUME NEW w \in WorkflowIds, b.workflows[w] # Null
        PROVE  c.workflows[w] = b.workflows[w]
    <2>1. b.workflows[w] \in Graphs /\ b.workflows[w].id = w
      BY <1>0, <1>1 DEF Sanctioned
    <2>2. CASE w = g.id
      <3>1. b.workflows[w] = g
        BY <2>1, <2>2 DEF DistinctIdentities
      <3> QED
        BY <1>0, <2>2, <3>1
    <2>3. CASE w # g.id
      BY <1>0, <2>3
    <2> QED
      BY <2>2, <2>3
  <1>2. ASSUME NEW w \in WorkflowIds, c.workflows[w] # Null
        PROVE  c.workflows[w].id = w
    <2>1. CASE w = g.id
      BY <1>0, <2>1
    <2>2. CASE w # g.id
      BY <1>0, <1>2, <2>2 DEF Sanctioned
    <2> QED
      BY <2>1, <2>2
  <1>3. ASSUME NEW env \in Envelopes, Authorized(b, env)
        PROVE  Authorized(c, env)
    <2>0. env.command \in Commands
      BY EnvelopeFields
    <2>1. CASE env.command.op \in BoundCommands \cup {"RunWorkflow"}
      <3>1. env.command.workflow \in WorkflowIds
        BY <2>0, <2>1, CommandWorkflow
      <3>2. env.command.op \notin {"Undo", "Redo"}
        BY <2>1 DEF BoundCommands
      <3>3. b.workflows[env.command.workflow] # Null
        BY <1>3, <2>1, <3>2 DEF Authorized, MutationAuthorized, WorkflowAuthorized
      <3>4. c.workflows[env.command.workflow] = b.workflows[env.command.workflow]
        BY <1>1, <3>1, <3>3
      <3> QED
        BY <1>3, <3>2, <3>4 DEF Authorized, MutationAuthorized, WorkflowAuthorized
    <2>2. CASE env.command.op \notin BoundCommands \cup {"RunWorkflow"}
      BY <2>2 DEF Authorized, MutationAuthorized, WorkflowAuthorized
    <2> QED
      BY <2>1, <2>2
  <1>4. \A i \in 1 .. Len(b.audit) : b.audit[i] \in Envelopes
    BY <1>0
  <1> QED
    BY <1>2, <1>3, <1>4 DEF Sanctioned

LEMMA DispatchedSanction ==
    ASSUME NEW b \in Buses, NEW p \in Projects, NEW env \in Envelopes,
           NEW result \in Results \cup {Null}, NEW now \in Clock,
           Accepted(b, p, env, result), BusInv(b), Sanctioned(b)
    PROVE  Sanctioned(BusAfter(b, p, env, result, now))
  <1> DEFINE c == BusAfter(b, p, env, result, now)
  <1>1. c.workflows = b.workflows
    BY WorkflowsKept
  <1>2. c.audit = Append(b.audit, env)
    BY BusAfterInv
  <1>3. Authorized(b, env)
    BY DEF Authorized, Accepted
  <1> HIDE DEF c
  <1>4. ASSUME NEW e, Authorized(b, e) PROVE Authorized(c, e)
    BY <1>1, <1>4 DEF Authorized, MutationAuthorized, WorkflowAuthorized
  <1>5. b.audit \in Seq(Envelopes)
    BY DEF Buses
  <1>6. ASSUME NEW i \in 1 .. Len(c.audit) PROVE Authorized(b, c.audit[i])
    <2>1. c.audit[i] = env \/ (i \in 1 .. Len(b.audit) /\ c.audit[i] = b.audit[i])
      BY <1>2, <1>5
    <2> QED
      BY <1>3, <2>1 DEF Sanctioned
  <1>7. Sanctioned(c)
    BY <1>1, <1>4, <1>6 DEF Sanctioned
  <1> QED
    BY <1>7 DEF c

LEMMA InitSanctioned == Init => SanctionedInv
  <1> SUFFICES ASSUME Init PROVE SanctionedInv
    OBVIOUS
  <1>1. /\ job = "none" /\ disk = [status |-> "absent", log |-> Null]
        /\ bus = BusWith(InitialProject, DefaultBus.workflows) \/ bus = DefaultBus
    BY DEF Init, NewBus
  <1>2. bus.workflows = DefaultBus.workflows /\ bus.audit = << >>
    <2>1. CASE bus = DefaultBus
      BY <2>1 DEF DefaultBus
    <2>2. CASE bus = BusWith(InitialProject, DefaultBus.workflows)
      BY <2>2 DEF BusWith
    <2> QED
      BY <1>1, <2>1, <2>2
  <1>3. Sanctioned(bus)
    BY <1>2, FreshSanction
  <1>4. disk.status # "log"
    BY <1>1
  <1> QED
    BY <1>1, <1>3, <1>4 DEF SanctionedInv

LEMMA NextSanctioned ==
    ASSUME DistinctIdentities, Inv, Inv', SanctionedInv, [Next]_vars
    PROVE  SanctionedInv'
  <1>0. bus \in Buses /\ bus' \in Buses /\ project \in Projects /\ BusInv(bus)
    BY DEF Inv, TypeOK, MemoryInv
  <1>k. ASSUME UNCHANGED <<bus, disk>>, job' # "write" PROVE SanctionedInv'
    BY <1>k DEF SanctionedInv
  <1>w. ASSUME NEW p, pending' = LogOf(bus, p), UNCHANGED bus,
               disk' = [status |-> "torn", log |-> Null]
        PROVE  SanctionedInv'
    <2>1. pending'.workflows = bus.workflows /\ pending'.audit = bus.audit
      BY <1>w DEF LogOf
    <2>2. Sanctioned(pending')
      BY <2>1, SameSanction DEF SanctionedInv
    <2>3. disk'.status # "log"
      BY <1>w
    <2> QED
      BY <1>w, <2>2, <2>3 DEF SanctionedInv
  <1>1. ASSUME NEW g \in Graphs, RegisterWorkflow(g) PROVE SanctionedInv'
    <2>1. /\ job = "none" /\ UNCHANGED <<job, pending, disk>>
          /\ bus' = [bus EXCEPT !.workflows = [bus.workflows EXCEPT ![g.id] = g]]
      BY <1>1 DEF RegisterWorkflow, Registered, Running
    <2>2. bus'.workflows = [bus.workflows EXCEPT ![g.id] = g] /\ bus'.audit = bus.audit
      BY <1>0, <2>1 DEF Buses
    <2>3. Sanctioned(bus')
      BY <1>0, <2>2, RegisteredSanction DEF SanctionedInv
    <2> QED
      BY <2>1, <2>3 DEF SanctionedInv
  <1>2. ASSUME NEW request \in Requests, Dispatch(request) PROVE SanctionedInv'
    <2> DEFINE env == Envelope(request)
    <2>1. env \in Envelopes
      BY <1>2, EnvelopeType DEF Dispatch
    <2>2. PICK result \in Results \cup {Null}, now \in Clock :
              /\ Accepted(bus, project, env, result)
              /\ bus' = BusAfter(bus, project, env, result, now)
      BY <1>2 DEF Dispatch
    <2>3. job = "none" /\ UNCHANGED <<job, disk>>
      BY <1>2 DEF Dispatch, Running
    <2> HIDE DEF env
    <2>4. Sanctioned(bus')
      BY <1>0, <2>1, <2>2, DispatchedSanction DEF SanctionedInv
    <2> QED
      BY <2>3, <2>4 DEF SanctionedInv
  <1>3. ASSUME NEW live \in BOOLEAN, NEW saving \in BOOLEAN, BeginReplay(live, saving)
        PROVE  SanctionedInv'
    BY <1>3, <1>k DEF BeginReplay
  <1>4. CASE ReplayEvent \/ ReplayRejected \/ ReplayActiveHistory \/ ReplayMismatch
    <2>1. UNCHANGED <<bus, disk>> /\ job = "replay" /\ job' \in {"none", "replay"}
      BY <1>4 DEF ReplayEvent, ReplayRejected, ReplayActiveHistory, ReplayMismatch, ReplayAtEnd
    <2> QED
      BY <2>1, <1>k
  <1>5. CASE ReplayFinished
    <2>1. CASE replay.saving
      BY <1>5, <1>w, <2>1 DEF ReplayFinished
    <2>2. CASE ~replay.saving
      <3>1. job' = "none" /\ UNCHANGED disk /\ bus' = Rebuilt(bus, EventStage, replay.state)
        BY <1>5, <2>2 DEF ReplayFinished
      <3>2. bus'.workflows = bus.workflows /\ bus'.audit = bus.audit
        BY <3>1 DEF Rebuilt
      <3>3. Sanctioned(bus')
        BY <3>2, SameSanction DEF SanctionedInv
      <3> QED
        BY <3>1, <3>3 DEF SanctionedInv
    <2> QED
      BY <2>1, <2>2
  <1>6. CASE PersistBegin
    BY <1>6, <1>w DEF PersistBegin
  <1>7. CASE PersistEnd
    <2>1. job = "write" /\ job' = "none" /\ bus' = bus /\ disk' = [status |-> "log", log |-> pending]
      BY <1>7 DEF PersistEnd
    <2> QED
      BY <2>1 DEF SanctionedInv
  <1>8. CASE Crash
    <2>1. job' = "none" /\ bus' = DefaultBus /\ UNCHANGED disk
      BY <1>8 DEF Crash
    <2>2. DefaultBus.audit = << >>
      BY DEF DefaultBus
    <2>3. Sanctioned(bus')
      BY <2>1, <2>2, FreshSanction
    <2> QED
      BY <2>1, <2>3 DEF SanctionedInv
  <1>9. CASE Load
    <2>1. disk.status = "log" /\ bus' = LoadedBus(disk.log) /\ UNCHANGED <<job, pending, disk>>
      BY <1>9 DEF Load
    <2>2. bus'.workflows = disk.log.workflows /\ bus'.audit = disk.log.audit
      BY <2>1 DEF LoadedBus
    <2>3. Sanctioned(bus')
      BY <2>1, <2>2, SameSanction DEF SanctionedInv
    <2> QED
      BY <2>1, <2>3 DEF SanctionedInv
  <1>10. CASE StartOver
    <2>1. /\ UNCHANGED <<job, pending, disk>> /\ bus' = BusWith(InitialProject, DefaultBus.workflows)
      BY <1>10 DEF StartOver, NewBus
    <2>2. bus'.workflows = DefaultBus.workflows /\ bus'.audit = << >>
      BY <2>1 DEF BusWith
    <2>3. Sanctioned(bus')
      BY <2>2, FreshSanction
    <2> QED
      BY <2>1, <2>3 DEF SanctionedInv
  <1>11. CASE UNCHANGED vars
    BY <1>11 DEF vars, SanctionedInv
  <1> QED
    BY <1>1, <1>2, <1>3, <1>4, <1>5, <1>6, <1>7, <1>8, <1>9, <1>10, <1>11
       DEF Next, ReplayNext, StorageNext

\* The recorded executor answers every event of a replay, and dispatch accepts it.
LEMMA EventAccepted ==
    ASSUME Inv, HistoryInv, SanctionedInv
    PROVE  ReplayNeverStuck
  <1> SUFFICES ASSUME job = "replay", ~replay.live, replay.pos < Len(Todo)
               PROVE  ReplayAccepts(Todo[replay.pos + 1]) # {}
    BY DEF ReplayNeverStuck
  <1> DEFINE pos == replay.pos
             env == bus.audit[pos + 1]
             work == replay.work
             result == ResultOf(bus.executions, env)
  <1>1. Todo = bus.audit
    BY TodoIsAudit
  <1>2. /\ bus \in Buses /\ work \in Buses /\ replay.state \in Projects /\ pos \in Nat
        /\ bus.audit \in Seq(Envelopes) /\ pos < Len(bus.audit)
    BY <1>1, ReplayParts DEF Buses
  <1>3. env \in Envelopes /\ pos + 1 \in 1 .. Len(bus.audit) /\ (pos + 1) - 1 = pos
    BY <1>2
  <1>4. PICK points : Following(points)
    BY DEF HistoryInv, ReplayingInv
  <1> DEFINE x == points[pos]
  <1>5. Possible(x, env) /\ Ran(bus.executions, env)
    BY <1>3, <1>4 DEF Following, Trace
  <1>6. Matches(work, replay.state, x) /\ work.workflows = bus.workflows
    BY <1>4 DEF Following, HistoryInv, ReplayingInv
  <1>7. Authorized(bus, env)
    BY <1>3 DEF SanctionedInv, Sanctioned
  <1> HIDE DEF env, pos, work, x
  <1>8. Authorized(work, env)
    BY <1>6, <1>7 DEF Authorized, MutationAuthorized, WorkflowAuthorized
  <1>9. result \in ReplayResults(env) /\ ExecutorCalled(env, result)
    <2>1. CASE env.command.op = "RunWorkflow"
      BY <1>5, <2>1 DEF Ran, ResultOf, ReplayResults, ExecutorCalled
    <2>2. CASE env.command.op # "RunWorkflow"
      BY <2>2 DEF ResultOf, ReplayResults, ExecutorCalled
    <2> QED
      BY <2>1, <2>2
  <1>10. Accepted(work, replay.state, env, result)
    <2>0. /\ work.history = x.history /\ work.cursor = x.cursor
          /\ Len(work.before) = Len(x.before) /\ Len(work.after) = Len(x.after)
          /\ replay.state.content = x.content
      BY <1>6 DEF Matches, SameContents
    <2>1. CASE env.command.op = "Undo"
      BY <1>5, <2>0, <2>1 DEF Accepted, Possible, UndoAvailable, CanUndo, ResultOf
    <2>2. CASE env.command.op = "Redo"
      BY <1>5, <2>0, <2>2 DEF Accepted, Possible, RedoAvailable, CanRedo, ResultOf
    <2>3. CASE env.command.op \notin {"Undo", "Redo"}
      BY <1>5, <1>8, <1>9, <2>0, <2>3 DEF Accepted, Possible, Authorized
    <2> QED
      BY <2>1, <2>2, <2>3
  <1>11. result \in ReplayAccepts(env)
    BY <1>9, <1>10 DEF ReplayAccepts, work
  <1> QED
    BY <1>1, <1>11 DEF env, pos

\* When no two graphs share an identity, a replay of what was recorded meets no
\* event it rejects and rebuilds the bus and the project it was recorded from
\* (ReplayRebuilds; replay_inner, RecordedWorkflowExecutor, register_workflow).
THEOREM ReplayRebuildsTheorem ==
    ASSUME DistinctIdentities
    PROVE  Spec => []ReplayRebuilds
  <1>1. Inv /\ Inv' /\ SanctionedInv /\ [Next]_vars => SanctionedInv'
    BY NextSanctioned
  <1>2. Spec => []SanctionedInv
    BY <1>1, InitSanctioned, HistoryInvariant, PTL DEF Spec
  <1>3. Inv /\ HistoryInv /\ SanctionedInv => ReplayNeverStuck
    BY EventAccepted
  <1>4. ReplayNeverStuck /\ ReplayFaithful => ReplayRebuilds
    BY DEF ReplayRebuilds
  <1> QED
    BY <1>2, <1>3, <1>4, HistoryInvariant, ReplayFaithfulTheorem, PTL
=============================================================================
