--------------------------- MODULE CollabSyncProofs ---------------------------
(***************************************************************************)
(* The three invariants of CollabSync, for any number of workbenches,      *)
(* comments, branches, agent runs, uploads under way and crashes, and for  *)
(* any order of the Automerge actors.                                      *)
(***************************************************************************)
EXTENDS CollabSync, TLAPS

-----------------------------------------------------------------------------
(* The two files of the server                                             *)

\* The JSON file, where it parses, is the session in memory; the snapshot,
\* where it parses, is what was last acknowledged.  Neither says anything of
\* the other, and a write that fails leaves both facts as they are.
FilesInv ==
    /\ json = Torn \/ json = session.doc
    /\ snapshot = Torn \/ snapshot.doc = served

LEMMA DocumentsOfCrdts ==
    /\ \A doc, actor : from_document(doc, actor).doc = doc
    /\ \A comment, actor : demo_nagoya(comment, actor).doc = DemoDocument(comment)
  BY DEF from_document, demo_nagoya, Crdt

LEMMA FilesStart ==
    ASSUME NEW comment, NEW actor, FilesInv, Start(comment, actor)
    PROVE  FilesInv'
<1>1. json' = Torn /\ snapshot' = snapshot /\ served' = session'.doc
  BY DEF Start
<1>2. snapshot # Torn => session' = snapshot
  BY DEF Start, load_session
<1> QED BY <1>1, <1>2 DEF FilesInv

LEMMA FilesNext == FilesInv /\ [Next]_vars => FilesInv'
<1> SUFFICES ASSUME FilesInv, [Next]_vars PROVE FilesInv'
  OBVIOUS
<1>0. ASSUME UNCHANGED <<session, json, snapshot, served>> PROVE FilesInv'
  BY <1>0 DEF FilesInv
<1>1. CASE ServerNext
  <2>1. ASSUME NEW m, NEW a, PutMerge(m, a) PROVE FilesInv'
    BY <2>1 DEF PutMerge, FilesInv
  <2>2. CASE JsonWritten
    BY <2>2 DEF JsonWritten, FilesInv
  <2>3. CASE SnapshotTruncated
    BY <2>3 DEF SnapshotTruncated, FilesInv
  <2>4. ASSUME NEW delivered, SnapshotWritten(delivered) PROVE FilesInv'
    BY <2>4 DEF SnapshotWritten, FilesInv
  <2>5. CASE WriteFails
    BY <2>5, <1>0 DEF WriteFails
  <2>6. CASE Crash
    BY <2>6, <1>0 DEF Crash
  <2>7. ASSUME NEW c, NEW a, Start(c, a) PROVE FilesInv'
    BY <2>7, FilesStart
  <2> QED BY <1>1, <2>1, <2>2, <2>3, <2>4, <2>5, <2>6, <2>7 DEF ServerNext
<1>2. CASE UNCHANGED server
  BY <1>0, <1>2 DEF server
<1>3. CASE DeskNext
  BY <1>2, <1>3 DEF DeskNext, AddComment, AgentSavesComment, PushFails, SyncPull, SyncSave,
     SyncInstall, SyncFails, Restart, AgentLoads, AgentReloads, AgentSavesRun
<1>4. CASE CliNext
  BY <1>2, <1>4 DEF CliNext, CliBranch, CliComment, CliPush, CliPull
<1> QED BY <1>1, <1>2, <1>3, <1>4 DEF Next, vars

\* In every order of merges, writes, failed writes, crashes and starts, what a
\* start loads from the files is the last acknowledged document or the one
\* whose write was interrupted (persist_locked, load_session).
THEOREM RestartRecoversTheorem == Spec => []RestartRecovers
<1>1. Init => FilesInv
  BY DEF Init, FilesInv
<1>2. FilesInv => RestartRecovers
  BY DocumentsOfCrdts DEF FilesInv, RestartRecovers, load_session
<1> QED BY <1>1, <1>2, FilesNext, PTL DEF Spec

-----------------------------------------------------------------------------
(* Uploads                                                                 *)

\* A write in progress has an upload and a place in persist_locked.
Writing(p) == p = [upload |-> p.upload, at |-> p.at]

UploadInv == UploadLands /\ (put # None => Writing(put))

\* Whichever side wins, merge_upload keeps the comments of the upload.
LEMMA MergeKeepsUpload ==
    ASSUME NEW crdt, NEW doc, NEW actor
    PROVE  doc.comments \subseteq merge_upload(crdt, doc, actor).doc.comments
  BY DEF merge_upload, Crdt, Document

LEMMA UploadNext == UploadInv /\ [Next]_vars => UploadInv'
<1> SUFFICES ASSUME UploadInv, [Next]_vars PROVE UploadInv'
  OBVIOUS
<1>0. ASSUME UNCHANGED <<session, put>> PROVE UploadInv'
  BY <1>0 DEF UploadInv, UploadLands, Writing
<1>a. ASSUME put' = None PROVE UploadInv'
  BY <1>a DEF UploadInv, UploadLands
<1>b. ASSUME NEW at, put # None, put' = [put EXCEPT !.at = at], UNCHANGED session
      PROVE  UploadInv'
  <2>1. put' = [upload |-> put.upload, at |-> at]
    BY <1>b DEF UploadInv, Writing
  <2> QED BY <1>b, <2>1 DEF UploadInv, UploadLands, Writing
<1>1. CASE ServerNext
  <2>1. ASSUME NEW m, NEW a, PutMerge(m, a) PROVE UploadInv'
    <3>1. put' = [upload |-> m, at |-> "json"] /\ session' = merge_upload(session, m.doc, a)
      BY <2>1 DEF PutMerge
    <3>2. m.doc.comments \subseteq session'.doc.comments
      BY <3>1, MergeKeepsUpload
    <3> QED BY <3>1, <3>2 DEF UploadInv, UploadLands, Writing
  <2>2. CASE JsonWritten
    BY <2>2, <1>b DEF JsonWritten
  <2>3. CASE SnapshotTruncated
    BY <2>3, <1>b DEF SnapshotTruncated
  <2>4. ASSUME NEW delivered, SnapshotWritten(delivered) PROVE UploadInv'
    BY <2>4, <1>a DEF SnapshotWritten
  <2>5. CASE WriteFails
    BY <2>5, <1>a DEF WriteFails
  <2>6. CASE Crash
    BY <2>6, <1>a DEF Crash
  <2>7. ASSUME NEW c, NEW a, Start(c, a) PROVE UploadInv'
    <3>1. put' = [upload |-> None, at |-> "json"]
      BY <2>7 DEF Start
    <3> QED BY <3>1 DEF UploadInv, UploadLands, Writing
  <2> QED BY <1>1, <2>1, <2>2, <2>3, <2>4, <2>5, <2>6, <2>7 DEF ServerNext
<1>2. CASE UNCHANGED server
  BY <1>0, <1>2 DEF server
<1>3. CASE DeskNext
  BY <1>2, <1>3 DEF DeskNext, AddComment, AgentSavesComment, PushFails, SyncPull, SyncSave,
     SyncInstall, SyncFails, Restart, AgentLoads, AgentReloads, AgentSavesRun
<1>4. CASE CliNext
  BY <1>2, <1>4 DEF CliNext, CliBranch, CliComment, CliPush, CliPull
<1> QED BY <1>1, <1>2, <1>3, <1>4 DEF Next, vars

\* While an upload is being written, and until it is acknowledged, the session
\* holds every comment of it, whichever actor wins (merge_upload, put_collab).
THEOREM UploadLandsTheorem == Spec => []UploadLands
<1>1. Init => UploadInv
  BY DEF Init, UploadInv, UploadLands
<1>2. UploadInv => UploadLands
  BY DEF UploadInv
<1> QED BY <1>1, <1>2, UploadNext, PTL DEF Spec

-----------------------------------------------------------------------------
(* Branches                                                                *)

Forest(doc) ==
    /\ \A b \in doc.branches : b.parent = None \/ b.parent \in BranchNames(doc)
    /\ \A b, c \in doc.branches : b.name = c.name => b = c
    /\ \A S \in SUBSET doc.branches : S # {} =>
           \E b \in S : b.parent = None \/ \A c \in S : c.name # b.parent

\* Every operation on a document keeps its branches a forest.
LEMMA ForestsGrow ==
    /\ \A comment : Forest(DemoDocument(comment))
    /\ \A doc, comment : Forest(doc) => Forest(add_comment(doc, comment))
    /\ \A doc, run : Forest(doc) => Forest(with_agent_run(doc, run))
<1>1. ASSUME NEW comment PROVE Forest(DemoDocument(comment))
  <2>1. DemoDocument(comment).branches = {MainBranch}
    BY DEF DemoDocument, Document
  <2>2. MainBranch.parent = None
    BY DEF MainBranch
  <2> QED BY <2>1, <2>2 DEF Forest
<1>2. ASSUME NEW doc, NEW comment, Forest(doc) PROVE Forest(add_comment(doc, comment))
  <2>1. add_comment(doc, comment).branches = doc.branches
    BY DEF add_comment, Document
  <2> QED BY <1>2, <2>1 DEF Forest, BranchNames
<1>3. ASSUME NEW doc, NEW run, Forest(doc) PROVE Forest(with_agent_run(doc, run))
  <2>1. with_agent_run(doc, run).branches = doc.branches
    BY DEF with_agent_run, Document
  <2> QED BY <1>3, <2>1 DEF Forest, BranchNames
<1> QED BY <1>1, <1>2, <1>3

LEMMA ForestBranches ==
    ASSUME NEW doc, Forest(doc), NEW name, NEW parent, CanBranch(doc, name, parent)
    PROVE  Forest(create_branch(doc, name, parent))
<1> DEFINE new == [name |-> name, parent |-> parent]
           grown == create_branch(doc, name, parent)
<1>1. grown.branches = doc.branches \cup {new}
  BY DEF create_branch, Document
<1>2. new.name = name /\ new.parent = parent
  OBVIOUS
<1>3. name \notin BranchNames(doc) /\ parent \in BranchNames(doc)
  BY DEF CanBranch
<1> HIDE DEF new, grown
<1>4. BranchNames(doc) \subseteq BranchNames(grown)
  BY <1>1 DEF BranchNames
<1>5. ASSUME NEW b \in grown.branches PROVE b.parent = None \/ b.parent \in BranchNames(grown)
  BY <1>1, <1>2, <1>3, <1>4 DEF Forest
<1>6. \A b \in doc.branches : b.name # name
  BY <1>3 DEF BranchNames
<1>7. ASSUME NEW b \in grown.branches, NEW c \in grown.branches, b.name = c.name PROVE b = c
  BY <1>1, <1>2, <1>6, <1>7 DEF Forest
<1>8. ASSUME NEW S \in SUBSET grown.branches, S # {}
      PROVE  \E b \in S : b.parent = None \/ \A c \in S : c.name # b.parent
  <2>1. CASE S \subseteq doc.branches
    BY <1>8, <2>1 DEF Forest
  <2>2. CASE S = {new}
    BY <2>2, <1>2, <1>3
  <2>3. CASE new \in S /\ S # {new}
    <3>1. PICK b \in S \ {new} : b.parent = None \/ \A c \in S \ {new} : c.name # b.parent
      BY <1>1, <2>3 DEF Forest
    <3>2. b \in doc.branches
      BY <1>1, <3>1
    <3>3. b.parent = None \/ b.parent # name
      BY <1>3, <3>2 DEF Forest
    <3> QED BY <1>2, <3>1, <3>3
  <2> QED BY <1>1, <1>8, <2>1, <2>2, <2>3
<1> QED BY <1>5, <1>7, <1>8 DEF Forest, grown

\* The branches of a merged session are those of one side.
LEMMA ForestMerges ==
    ASSUME NEW crdt, Forest(crdt.doc), NEW doc, Forest(doc), NEW actor
    PROVE  Forest(merge_upload(crdt, doc, actor).doc)
<1> DEFINE merged == merge_upload(crdt, doc, actor).doc
<1>1. merged.branches = doc.branches \/ merged.branches = crdt.doc.branches
  BY DEF merge_upload, Crdt, Document
<1> HIDE DEF merged
<1>2. Forest(merged)
  BY <1>1 DEF Forest, BranchNames
<1> QED BY <1>2 DEF merged

\* Where a document can be: also in the server's files, in a pull that is
\* being installed and in the hands of an agent run.
Kept(f) == f = [w \in Workbenches |-> f[w]] /\ \A w \in Workbenches : Forest(f[w])

Pulled(p) == p = None \/ (p = [doc |-> p.doc, saved |-> p.saved] /\ Forest(p.doc))
Loaded(j) == j = None \/ (j = [doc |-> j.doc, next |-> j.next] /\ Forest(j.doc))

ServerForests ==
    /\ Forest(session.doc)
    /\ json = Torn \/ Forest(json)
    /\ snapshot = Torn \/ Forest(snapshot.doc)
    /\ \A m \in uploads : Forest(m.doc)

DeskForests ==
    /\ Kept(memory) /\ Kept(file)
    /\ pull = [w \in Workbenches |-> pull[w]] /\ \A w \in Workbenches : Pulled(pull[w])
    /\ job = [w \in Workbenches |-> job[w]] /\ \A w \in Workbenches : Loaded(job[w])

ForestInv == ServerForests /\ DeskForests

LEMMA FieldUpdates ==
    ASSUME NEW r, NEW v
    PROVE  /\ r = [doc |-> r.doc, saved |-> r.saved]
                  => [r EXCEPT !.saved = v] = [doc |-> r.doc, saved |-> v]
           /\ r = [doc |-> r.doc, next |-> r.next]
                  => [r EXCEPT !.next = v] = [doc |-> r.doc, next |-> v]
<1>1. ASSUME NEW d, NEW b, r = [doc |-> d, saved |-> b]
      PROVE  [r EXCEPT !.saved = v] = [doc |-> d, saved |-> v]
  BY <1>1
<1>2. ASSUME NEW d, NEW n, r = [doc |-> d, next |-> n]
      PROVE  [r EXCEPT !.next = v] = [doc |-> d, next |-> v]
  BY <1>2
<1> QED BY <1>1, <1>2

LEMMA KeptUpdate ==
    ASSUME NEW f, Kept(f), NEW w \in Workbenches, NEW doc, Forest(doc)
    PROVE  Kept([f EXCEPT ![w] = doc])
  BY DEF Kept

LEMMA ForestServer ==
    ForestInv /\ ServerNext => ForestInv'
<1> SUFFICES ASSUME ForestInv, ServerNext PROVE ForestInv'
  OBVIOUS
<1>0. ASSUME UNCHANGED <<memory, file, pull, job>> PROVE DeskForests'
  BY <1>0 DEF ForestInv, DeskForests, Kept
<1>1. ASSUME NEW m \in uploads, NEW a, PutMerge(m, a) PROVE ForestInv'
  <2>1. /\ session' = merge_upload(session, m.doc, a) /\ json' = Torn /\ snapshot' = snapshot
        /\ uploads' = uploads \ {m} /\ UNCHANGED <<memory, file, pull, job>>
    BY <1>1 DEF PutMerge, desk
  <2>2. Forest(session'.doc)
    BY <2>1, ForestMerges DEF ForestInv, ServerForests
  <2> QED BY <1>0, <2>1, <2>2 DEF ForestInv, ServerForests
<1>2. CASE JsonWritten
  BY <1>0, <1>2 DEF JsonWritten, desk, ForestInv, ServerForests
<1>3. CASE SnapshotTruncated
  BY <1>0, <1>3 DEF SnapshotTruncated, desk, ForestInv, ServerForests
<1>4. ASSUME NEW delivered, SnapshotWritten(delivered) PROVE ForestInv'
  BY <1>0, <1>4 DEF SnapshotWritten, ForestInv, ServerForests
<1>5. CASE WriteFails
  BY <1>0, <1>5 DEF WriteFails, ForestInv, ServerForests
<1>6. CASE Crash
  BY <1>0, <1>6 DEF Crash, ForestInv, ServerForests
<1>7. ASSUME NEW c, NEW a, Start(c, a) PROVE ForestInv'
  <2>1. /\ session' = load_session(c, a) /\ json' = Torn
        /\ UNCHANGED <<snapshot, uploads, memory, file, pull, job>>
    BY <1>7 DEF Start, desk
  <2>2. Forest(load_session(c, a).doc)
    BY DocumentsOfCrdts, ForestsGrow DEF load_session, ForestInv, ServerForests
  <2> QED BY <1>0, <2>1, <2>2 DEF ForestInv, ServerForests
<1> QED BY <1>1, <1>2, <1>3, <1>4, <1>5, <1>6, <1>7 DEF ServerNext

LEMMA ForestDesk == ForestInv /\ DeskNext => ForestInv'
<1> SUFFICES ASSUME ForestInv, DeskNext PROVE ForestInv'
  OBVIOUS
<1>0. ASSUME UNCHANGED server, uploads' \subseteq uploads PROVE ServerForests'
  BY <1>0 DEF server, ForestInv, ServerForests
<1>a. \A w \in Workbenches : Forest(memory[w]) /\ Forest(file[w])
  BY DEF ForestInv, DeskForests, Kept
<1>1. ASSUME NEW w \in Workbenches, NEW c, AddComment(w, c) PROVE ForestInv'
  <2> DEFINE doc == add_comment(memory[w], c)
  <2>1. /\ uploads' = uploads \cup {[from |-> w, doc |-> doc]}
        /\ memory' = [memory EXCEPT ![w] = doc] /\ file' = [file EXCEPT ![w] = doc]
        /\ UNCHANGED <<session, json, snapshot, pull, job>>
    BY <1>1 DEF AddComment, Send, server
  <2>2. Forest(doc)
    BY <1>a, ForestsGrow
  <2> HIDE DEF doc
  <2>3. ServerForests'
    BY <2>1, <2>2 DEF ForestInv, ServerForests
  <2>4. Kept(memory') /\ Kept(file')
    BY <2>1, <2>2, KeptUpdate DEF ForestInv, DeskForests
  <2> QED BY <2>1, <2>3, <2>4 DEF ForestInv, DeskForests, Kept
<1>2. ASSUME NEW w \in Workbenches, NEW c, AgentSavesComment(w, c) PROVE ForestInv'
  <2>1. /\ job[w] # None /\ file' = [file EXCEPT ![w] = add_comment(job[w].doc, c)]
        /\ job' = [job EXCEPT ![w].next = "reload"]
        /\ UNCHANGED <<server, memory, pull, uploads>>
    BY <1>2 DEF AgentSavesComment
  <2>2. job[w] = [doc |-> job[w].doc, next |-> job[w].next] /\ Forest(job[w].doc)
    BY <2>1 DEF ForestInv, DeskForests, Loaded
  <2>3. job' = [job EXCEPT ![w] = [doc |-> job[w].doc, next |-> "reload"]]
    <3>1. [job[w] EXCEPT !.next = "reload"] = [doc |-> job[w].doc, next |-> "reload"]
      BY <2>2, FieldUpdates
    <3> QED BY <2>1, <3>1, Zenon
  <2>4. Kept(file')
    BY <2>1, <2>2, ForestsGrow, KeptUpdate DEF ForestInv, DeskForests
  <2>5. Loaded([doc |-> job[w].doc, next |-> "reload"])
    BY <2>2 DEF Loaded
  <2>6. job' = [v \in Workbenches |-> job'[v]] /\ \A v \in Workbenches : Loaded(job'[v])
    BY <2>3, <2>5 DEF ForestInv, DeskForests
  <2> QED BY <1>0, <2>1, <2>4, <2>6 DEF ForestInv, DeskForests, Kept
<1>3. ASSUME NEW m \in uploads, PushFails(m) PROVE ForestInv'
  <2>1. UNCHANGED <<server, memory, file, pull, job>> /\ uploads' \subseteq uploads
    BY <1>3 DEF PushFails
  <2> QED BY <1>0, <2>1 DEF ForestInv, DeskForests, Kept
<1>4. ASSUME NEW w \in Workbenches, SyncPull(w) PROVE ForestInv'
  <2>1. /\ pull' = [pull EXCEPT ![w] = [doc |-> session.doc, saved |-> FALSE]]
        /\ UNCHANGED <<server, memory, file, job, uploads>>
    BY <1>4 DEF SyncPull
  <2>2. Pulled([doc |-> session.doc, saved |-> FALSE])
    BY DEF ForestInv, ServerForests, Pulled
  <2>3. pull' = [v \in Workbenches |-> pull'[v]] /\ \A v \in Workbenches : Pulled(pull'[v])
    BY <2>1, <2>2 DEF ForestInv, DeskForests
  <2> QED BY <1>0, <2>1, <2>3 DEF ForestInv, DeskForests, Kept
<1>5. ASSUME NEW w \in Workbenches, SyncSave(w) PROVE ForestInv'
  <2>1. /\ pull[w] # None /\ file' = [file EXCEPT ![w] = pull[w].doc]
        /\ pull' = [pull EXCEPT ![w].saved = TRUE]
        /\ UNCHANGED <<server, memory, job, uploads>>
    BY <1>5 DEF SyncSave
  <2>2. pull[w] = [doc |-> pull[w].doc, saved |-> pull[w].saved] /\ Forest(pull[w].doc)
    BY <2>1 DEF ForestInv, DeskForests, Pulled
  <2>3. pull' = [pull EXCEPT ![w] = [doc |-> pull[w].doc, saved |-> TRUE]]
    <3>1. [pull[w] EXCEPT !.saved = TRUE] = [doc |-> pull[w].doc, saved |-> TRUE]
      BY <2>2, FieldUpdates
    <3> QED BY <2>1, <3>1, Zenon
  <2>4. Pulled([doc |-> pull[w].doc, saved |-> TRUE])
    BY <2>2 DEF Pulled
  <2>5. pull' = [v \in Workbenches |-> pull'[v]] /\ \A v \in Workbenches : Pulled(pull'[v])
    BY <2>3, <2>4 DEF ForestInv, DeskForests
  <2>6. Kept(file')
    BY <2>1, <2>2, KeptUpdate DEF ForestInv, DeskForests
  <2> QED BY <1>0, <2>1, <2>5, <2>6 DEF ForestInv, DeskForests, Kept
<1>6. ASSUME NEW w \in Workbenches, SyncInstall(w) PROVE ForestInv'
  <2>1. /\ pull[w] # None /\ memory' = [memory EXCEPT ![w] = pull[w].doc]
        /\ pull' = [pull EXCEPT ![w] = None]
        /\ UNCHANGED <<server, file, job, uploads>>
    BY <1>6 DEF SyncInstall
  <2>2. Forest(pull[w].doc)
    BY <2>1 DEF ForestInv, DeskForests, Pulled
  <2>3. pull' = [v \in Workbenches |-> pull'[v]] /\ \A v \in Workbenches : Pulled(pull'[v])
    BY <2>1 DEF ForestInv, DeskForests, Pulled
  <2>4. Kept(memory')
    BY <2>1, <2>2, KeptUpdate DEF ForestInv, DeskForests
  <2> QED BY <1>0, <2>1, <2>3, <2>4 DEF ForestInv, DeskForests, Kept
<1>7. ASSUME NEW w \in Workbenches, SyncFails(w) PROVE ForestInv'
  BY <1>0, <1>7 DEF SyncFails, ForestInv, DeskForests, Kept
<1>8. ASSUME NEW w \in Workbenches, Restart(w) PROVE ForestInv'
  <2> DEFINE doc == IF Pullable THEN session.doc ELSE file[w]
  <2>1. /\ memory' = [memory EXCEPT ![w] = doc] /\ file' = [file EXCEPT ![w] = doc]
        /\ pull' = [pull EXCEPT ![w] = None] /\ job' = [job EXCEPT ![w] = None]
        /\ UNCHANGED <<server, uploads>>
    BY <1>8 DEF Restart
  <2>2. Forest(doc)
    BY <1>a DEF ForestInv, ServerForests
  <2> HIDE DEF doc
  <2>3. Kept(memory') /\ Kept(file')
    BY <2>1, <2>2, KeptUpdate DEF ForestInv, DeskForests
  <2>4. pull' = [v \in Workbenches |-> pull'[v]] /\ \A v \in Workbenches : Pulled(pull'[v])
    BY <2>1 DEF ForestInv, DeskForests, Pulled
  <2>5. job' = [v \in Workbenches |-> job'[v]] /\ \A v \in Workbenches : Loaded(job'[v])
    BY <2>1 DEF ForestInv, DeskForests, Loaded
  <2> QED BY <1>0, <2>1, <2>3, <2>4, <2>5 DEF ForestInv, DeskForests
<1>9. ASSUME NEW w \in Workbenches, NEW next,
             \/ AgentLoads(w, next)
             \/ AgentReloads(w) /\ next = "provenance"
      PROVE  ForestInv'
  <2>1. /\ job' = [job EXCEPT ![w] = [doc |-> file[w], next |-> next]]
        /\ UNCHANGED <<server, memory, file, pull, uploads>>
    BY <1>9 DEF AgentLoads, AgentReloads
  <2>2. Loaded([doc |-> file[w], next |-> next])
    BY <1>a DEF Loaded
  <2>3. job' = [v \in Workbenches |-> job'[v]] /\ \A v \in Workbenches : Loaded(job'[v])
    BY <2>1, <2>2 DEF ForestInv, DeskForests
  <2> QED BY <1>0, <2>1, <2>3 DEF ForestInv, DeskForests, Kept
<1>10. ASSUME NEW w \in Workbenches, NEW r, AgentSavesRun(w, r) PROVE ForestInv'
  <2>1. /\ job[w] # None /\ file' = [file EXCEPT ![w] = with_agent_run(job[w].doc, r)]
        /\ job' = [job EXCEPT ![w] = None]
        /\ UNCHANGED <<server, memory, pull, uploads>>
    BY <1>10 DEF AgentSavesRun
  <2>2. Forest(with_agent_run(job[w].doc, r))
    BY <2>1, ForestsGrow DEF ForestInv, DeskForests, Loaded
  <2>3. Kept(file')
    BY <2>1, <2>2, KeptUpdate DEF ForestInv, DeskForests
  <2>4. job' = [v \in Workbenches |-> job'[v]] /\ \A v \in Workbenches : Loaded(job'[v])
    BY <2>1 DEF ForestInv, DeskForests, Loaded
  <2> QED BY <1>0, <2>1, <2>3, <2>4 DEF ForestInv, DeskForests, Kept
<1> QED BY <1>1, <1>2, <1>3, <1>4, <1>5, <1>6, <1>7, <1>8, <1>9, <1>10 DEF DeskNext

LEMMA ForestCli == ForestInv /\ CliNext => ForestInv'
<1> SUFFICES ASSUME ForestInv, NEW w \in Workbenches,
                    \/ \E b \in Branches, p \in Branches \cup {"main"} : CliBranch(w, b, p)
                    \/ \E c \in NewComments : CliComment(w, c)
                    \/ CliPush(w)
                    \/ CliPull(w)
             PROVE  ForestInv'
  BY DEF CliNext
<1>a. Forest(file[w]) /\ Forest(session.doc)
  BY DEF ForestInv, ServerForests, DeskForests, Kept
<1>1. ASSUME NEW doc, Forest(doc), file' = [file EXCEPT ![w] = doc],
             UNCHANGED <<server, memory, pull, job, uploads>>
      PROVE  ForestInv'
  <2>1. Kept(file')
    BY <1>1, KeptUpdate DEF ForestInv, DeskForests
  <2> QED BY <1>1, <2>1 DEF server, ForestInv, ServerForests, DeskForests, Kept
<1>2. ASSUME NEW b, NEW p, CliBranch(w, b, p) PROVE ForestInv'
  BY <1>1, <1>2, <1>a, ForestBranches DEF CliBranch
<1>3. ASSUME NEW c, CliComment(w, c) PROVE ForestInv'
  BY <1>1, <1>3, <1>a, ForestsGrow DEF CliComment
<1>4. CASE CliPush(w)
  BY <1>4, <1>a DEF CliPush, Send, server, desk, ForestInv, ServerForests, DeskForests, Kept
<1>5. CASE CliPull(w)
  BY <1>1, <1>5, <1>a DEF CliPull
<1> QED BY <1>2, <1>3, <1>4, <1>5

LEMMA ForestInit == Init => ForestInv
<1> SUFFICES ASSUME Init PROVE ForestInv
  OBVIOUS
<1> DEFINE demo == demo_nagoya(FirstComment, FirstActor)
<1>1. Forest(demo.doc)
  BY DocumentsOfCrdts, ForestsGrow
<1>2. /\ session = demo /\ json = demo.doc /\ snapshot = demo /\ uploads = {}
      /\ memory = [w \in Workbenches |-> demo.doc] /\ file = [w \in Workbenches |-> demo.doc]
      /\ pull = [w \in Workbenches |-> None] /\ job = [w \in Workbenches |-> None]
  BY DEF Init
<1> HIDE DEF demo
<1> QED BY <1>1, <1>2 DEF ForestInv, ServerForests, DeskForests, Kept, Pulled, Loaded

\* Merges, pulls, restarts, agent runs and branches created from the command
\* line leave no document, anywhere, with a branch whose parent is gone,
\* with two branches of one name, or with branches that descend from each other
\* (create_branch, merge_upload).
THEOREM BranchParentsTheorem == Spec => []BranchParentsExist
<1>1. ForestInv /\ [Next]_vars => ForestInv'
  <2>1. ForestInv /\ UNCHANGED vars => ForestInv'
    BY DEF vars, server, desk, ForestInv, ServerForests, DeskForests, Kept
  <2> QED BY <2>1, ForestServer, ForestDesk, ForestCli DEF Next
<1>2. ForestInv => BranchParentsExist
  <2>1. ForestInv => \A doc \in Documents : Forest(doc)
    BY DEF ForestInv, ServerForests, DeskForests, Kept, Documents
  <2> QED BY <2>1 DEF BranchParentsExist, Forest
<1> QED BY <1>1, <1>2, ForestInit, PTL DEF Spec
=============================================================================
