------------------------------ MODULE CollabSync ------------------------------
(***************************************************************************)
(* Review documents between workbenches, the command line and the server:  *)
(*   - the server keeps one session in memory and on disk, twice: a JSON   *)
(*     projection and an Automerge snapshot, written one after the other   *)
(*     (crates/genegis-server/src/store.rs, api.rs);                       *)
(*   - a workbench keeps the session in memory and in a local file, pushes *)
(*     after each comment and pulls on request (apps/workbench/src/main.rs)*)
(*   - agent runs and the command line work on the local file alone        *)
(*     (apps/workbench/src/main.rs, crates/genegis-cli/src/main.rs).       *)
(*                                                                         *)
(* Requests overtake each other and fail; the server crashes between and   *)
(* during its writes.                                                      *)
(***************************************************************************)
EXTENDS Naturals, FiniteSets

CONSTANTS
    Workbenches,
    Comments,      \* comment identifiers, a new one for every comment
    Branches,      \* names of branches created from the command line
    AgentRuns,     \* identifiers of agent runs
    Actors,        \* Automerge actors, ordered as numbers
    MaxUploads,    \* bound on uploads in flight
    MaxCrashes,    \* bound on crashes of the server
    Torn,          \* a file that is cut short and does not parse
    None           \* absent

-----------------------------------------------------------------------------
(***************************************************************************)
(* The shared review document and its Automerge form                       *)
(* (crates/genegis-collab/src/document.rs, session.rs, crdt.rs).           *)
(*                                                                         *)
(* A document holds comments, branches and the provenance of the project.  *)
(* A CRDT keeps, with the document it shows, the identifiers of the root   *)
(* entries it won with: Automerge shows for each key of the root map the   *)
(* value whose operation has the largest (counter, actor).  Every session  *)
(* that is cloned, imported or exported is written out anew by             *)
(* apply_document, under a new random actor and with the same counters:    *)
(* project_json at 3, the comments map at 4, the branches map after the    *)
(* comments.                                                               *)
(***************************************************************************)

MainBranch == [name |-> "main", parent |-> None]

Document(comments, branches, provenance) ==
    [comments |-> comments, branches |-> branches, provenance |-> provenance]

\* demo_nagoya: an empty project with one review comment.
DemoDocument(comment) == Document({comment}, {MainBranch}, {})

BranchNames(doc) == {b.name : b \in doc.branches}

add_comment(doc, comment) == Document(doc.comments \cup {comment}, doc.branches, doc.provenance)

\* record_agent_run_provenance
with_agent_run(doc, run) == Document(doc.comments, doc.branches, doc.provenance \cup {run})

\* create_branch: the name is new and the parent, by default main, exists.
CanBranch(doc, name, parent) == name \notin BranchNames(doc) /\ parent \in BranchNames(doc)

create_branch(doc, name, parent) ==
    Document(doc.comments, doc.branches \cup {[name |-> name, parent |-> parent]}, doc.provenance)

-----------------------------------------------------------------------------
(* The CRDT                                                                *)

Crdt(doc, project, comments, branches) ==
    [doc |-> doc, project |-> project, comments |-> comments, branches |-> branches]

\* from_document with a new actor: the branches map is created after as many
\* operations as there are comments.
from_document(doc, actor) ==
    Crdt(doc, actor, actor, <<Cardinality(doc.comments), actor>>)

\* demo_nagoya adds its comment when both maps exist already.
demo_nagoya(comment, actor) == Crdt(DemoDocument(comment), actor, actor, <<0, actor>>)

ActorsOf(crdt) == {crdt.project, crdt.comments, crdt.branches[2]}

\* Automerge's order on operation identifiers, as Lamport timestamps.
Beats(a, b) == a[1] > b[1] \/ (a[1] = b[1] /\ a[2] > b[2])

\* Faulty variant: the comments of the upload's JSON are not merged in.
merge_upload_snapshot_only(crdt, doc, actor) ==
    LET own == <<Cardinality(doc.comments), actor>>
    IN  Crdt(Document(IF actor > crdt.comments THEN doc.comments ELSE crdt.doc.comments,
                      IF Beats(own, crdt.branches) THEN doc.branches ELSE crdt.doc.branches,
                      IF actor > crdt.project THEN doc.provenance ELSE crdt.doc.provenance),
             IF actor > crdt.project THEN actor ELSE crdt.project,
             IF actor > crdt.comments THEN actor ELSE crdt.comments,
             IF Beats(own, crdt.branches) THEN own ELSE crdt.branches)

\* Faulty variant: branches are merged one by one, but only those that are
\* children of an uploaded branch.
merge_upload_children_only(crdt, doc, actor) ==
    LET own == <<Cardinality(doc.comments), actor>>
    IN  Crdt(Document((IF actor > crdt.comments THEN {} ELSE crdt.doc.comments) \cup doc.comments,
                      IF Beats(own, crdt.branches)
                      THEN {b \in doc.branches : b.parent # "main"} \cup {MainBranch}
                      ELSE crdt.doc.branches,
                      IF actor > crdt.project THEN doc.provenance ELSE crdt.doc.provenance),
             IF actor > crdt.project THEN actor ELSE crdt.project,
             IF actor > crdt.comments THEN actor ELSE crdt.comments,
             IF Beats(own, crdt.branches) THEN own ELSE crdt.branches)

(***************************************************************************)
(* merge_upload: the upload's snapshot, a document written out by `actor`, *)
(* is merged, then the comments of its JSON are put into the comments map  *)
(* that shows.  Root entries are never combined: each comes from one side. *)
(***************************************************************************)
merge_upload(crdt, doc, actor) ==
    LET own == <<Cardinality(doc.comments), actor>>
    IN  Crdt(Document((IF actor > crdt.comments THEN {} ELSE crdt.doc.comments) \cup doc.comments,
                      IF Beats(own, crdt.branches) THEN doc.branches ELSE crdt.doc.branches,
                      IF actor > crdt.project THEN doc.provenance ELSE crdt.doc.provenance),
             IF actor > crdt.project THEN actor ELSE crdt.project,
             IF actor > crdt.comments THEN actor ELSE crdt.comments,
             IF Beats(own, crdt.branches) THEN own ELSE crdt.branches)

-----------------------------------------------------------------------------
(* The server, the workbenches and what lies between them.                  *)

VARIABLES
    up,        \* the server process runs
    session,   \* the server's session; while down, the one it had
    json,      \* the server's JSON file
    snapshot,  \* the server's snapshot file
    put,       \* the write in progress under the server's lock, or None
    served,    \* ghost: the document of the last acknowledged write or start
    crashes,
    uploads,   \* PUT requests under way
    memory,    \* memory[w]: the session of workbench w
    file,      \* file[w]: the local collab file of workbench w
    synced,    \* synced[w]: what SyncStatus reports
    pull,      \* pull[w]: the pulled document that is being installed, or None
    job,       \* job[w]: the agent run that is being finalized, or None
    used       \* comments and agent runs created so far

server == <<up, session, json, snapshot, put, served, crashes>>
desk   == <<memory, file, synced, pull, job>>
vars   == <<server, desk, uploads, used>>

FirstComment == CHOOSE c \in Comments : TRUE
FirstActor   == CHOOSE a \in Actors : \A b \in Actors : a <= b

\* The server has started on its demo session and every workbench has pulled it.
Init ==
    LET demo == demo_nagoya(FirstComment, FirstActor)
    IN  /\ up = TRUE /\ session = demo /\ json = demo.doc /\ snapshot = demo
        /\ put = None /\ served = demo.doc /\ crashes = 0 /\ uploads = {}
        /\ memory = [w \in Workbenches |-> demo.doc]
        /\ file = [w \in Workbenches |-> demo.doc]
        /\ synced = [w \in Workbenches |-> TRUE]
        /\ pull = [w \in Workbenches |-> None]
        /\ job = [w \in Workbenches |-> None]
        /\ used = {FirstComment}

NewComments == Comments \ used
\* The comment of a demo, where a demo is needed.
SeedComments == IF snapshot = Torn /\ json = Torn THEN NewComments ELSE {FirstComment}
NewActors   == Actors \ ActorsOf(session)

-----------------------------------------------------------------------------
(* The server                                                              *)

\* What the sender of request m learns; the command line keeps no status.
Told(m, ok) ==
    synced' = [w \in Workbenches |-> IF m # None /\ m.from = w THEN ok ELSE synced[w]]

\* put_collab takes the lock, merges, and begins to overwrite the JSON file.
PutMerge(m, actor) ==
    /\ up /\ put = None
    /\ uploads' = uploads \ {m}
    /\ session' = merge_upload(session, m.doc, actor)
    /\ json' = Torn
    /\ put' = [upload |-> m, at |-> "json"]
    /\ UNCHANGED <<up, snapshot, served, crashes, desk, used>>

\* persist_locked, between its two writes and into the second.
JsonWritten ==
    /\ put # None /\ put.at = "json"
    /\ json' = session.doc
    /\ put' = [put EXCEPT !.at = "between"]
    /\ UNCHANGED <<up, session, snapshot, served, crashes, desk, uploads, used>>

\* Faulty variant: the request is answered before the snapshot is written.
SnapshotTruncatedAnswers ==
    /\ put # None /\ put.at = "between"
    /\ put' = None
    /\ served' = session.doc
    /\ Told(put.upload, TRUE)
    /\ UNCHANGED <<up, session, json, snapshot, crashes, memory, file, pull, job, uploads, used>>

SnapshotTruncated ==
    /\ put # None /\ put.at = "between"
    /\ snapshot' = Torn
    /\ put' = [put EXCEPT !.at = "snapshot"]
    /\ UNCHANGED <<up, session, json, served, crashes, desk, uploads, used>>

\* The second write ends and the answer is sent; it may not arrive.
SnapshotWritten(delivered) ==
    /\ put # None /\ put.at = "snapshot"
    /\ snapshot' = session
    /\ put' = None
    /\ served' = session.doc
    /\ Told(put.upload, delivered)
    /\ UNCHANGED <<up, session, json, crashes, memory, file, pull, job, uploads, used>>

\* A write fails: the merged session stays in memory, the file stays torn.
WriteFails ==
    /\ put # None /\ put.at \in {"json", "snapshot"}
    /\ put' = None
    /\ Told(put.upload, FALSE)
    /\ UNCHANGED <<up, session, json, snapshot, served, crashes, memory, file, pull, job, uploads, used>>

Crash ==
    /\ up /\ crashes < MaxCrashes
    /\ up' = FALSE /\ crashes' = crashes + 1
    /\ put' = None
    /\ IF put = None THEN UNCHANGED synced ELSE Told(put.upload, FALSE)
    /\ UNCHANGED <<session, json, snapshot, served, memory, file, pull, job, uploads, used>>

\* load_session: the snapshot if it parses, else the JSON, else a demo.
load_session(comment, actor) ==
    IF snapshot # Torn THEN snapshot
    ELSE IF json # Torn THEN from_document(json, actor)
    ELSE demo_nagoya(comment, actor)

\* CollabStore::load writes both files again before it serves.
Start(comment, actor) ==
    /\ ~ up
    /\ up' = TRUE
    /\ session' = load_session(comment, actor)
    /\ used' = IF snapshot = Torn /\ json = Torn THEN used \cup {comment} ELSE used
    /\ served' = session'.doc
    /\ json' = Torn
    /\ put' = [upload |-> None, at |-> "json"]
    /\ UNCHANGED <<snapshot, crashes, desk, uploads>>

\* The document a GET is answered with; it waits for the lock.
Pullable == up /\ put = None

-----------------------------------------------------------------------------
(* A workbench                                                             *)

Send(m) == Cardinality(uploads) < MaxUploads /\ uploads' = uploads \cup {m}

\* add_comment: memory and file under the lock, then a push.
AddComment(w, comment) ==
    LET doc == add_comment(memory[w], comment)
    IN  /\ Send([from |-> w, doc |-> doc])
        /\ memory' = [memory EXCEPT ![w] = doc]
        /\ file' = [file EXCEPT ![w] = doc]
        /\ used' = used \cup {comment}
        /\ UNCHANGED <<server, synced, pull, job>>

\* The request does not reach the server.
PushFails(m) ==
    /\ m \in uploads
    /\ uploads' = uploads \ {m}
    /\ Told(m, FALSE)
    /\ UNCHANGED <<server, memory, file, pull, job, used>>

\* sync_collab: the answer is saved to the file first, then put in memory.
SyncPull(w) ==
    /\ Pullable /\ pull[w] = None
    /\ pull' = [pull EXCEPT ![w] = [doc |-> session.doc, saved |-> FALSE]]
    /\ UNCHANGED <<server, memory, file, synced, job, uploads, used>>

SyncSave(w) ==
    /\ pull[w] # None /\ ~ pull[w].saved
    /\ file' = [file EXCEPT ![w] = pull[w].doc]
    /\ pull' = [pull EXCEPT ![w].saved = TRUE]
    /\ UNCHANGED <<server, memory, synced, job, uploads, used>>

SyncInstall(w) ==
    /\ pull[w] # None /\ pull[w].saved
    /\ memory' = [memory EXCEPT ![w] = pull[w].doc]
    /\ synced' = [synced EXCEPT ![w] = TRUE]
    /\ pull' = [pull EXCEPT ![w] = None]
    /\ UNCHANGED <<server, file, job, uploads, used>>

SyncFails(w) ==
    /\ ~ up /\ pull[w] = None
    /\ synced' = [synced EXCEPT ![w] = FALSE]
    /\ UNCHANGED <<server, memory, file, pull, job, uploads, used>>

\* load_initial_collab: the server's session if it answers, else the file.
Restart(w) ==
    /\ pull' = [pull EXCEPT ![w] = None]
    /\ job' = [job EXCEPT ![w] = None]
    /\ memory' = [memory EXCEPT ![w] = IF Pullable THEN session.doc ELSE file[w]]
    /\ file' = [file EXCEPT ![w] = IF Pullable THEN session.doc ELSE file[w]]
    /\ synced' = [synced EXCEPT ![w] = Pullable]
    /\ UNCHANGED <<server, uploads, used>>

\* finalize_agent_run reads the file, works, and writes the file: first, when
\* verification failed, to add a comment, then to record the run.
AgentLoads(w, next) ==
    /\ job[w] = None
    /\ AgentRuns \ used # {}
    /\ job' = [job EXCEPT ![w] = [doc |-> file[w], next |-> next]]
    /\ UNCHANGED <<server, memory, file, synced, pull, uploads, used>>

AgentSavesComment(w, comment) ==
    /\ job[w] # None /\ job[w].next = "comment"
    /\ file' = [file EXCEPT ![w] = add_comment(job[w].doc, comment)]
    /\ job' = [job EXCEPT ![w].next = "reload"]
    /\ used' = used \cup {comment}
    /\ UNCHANGED <<server, memory, synced, pull, uploads>>

AgentReloads(w) ==
    /\ job[w] # None /\ job[w].next = "reload"
    /\ job' = [job EXCEPT ![w] = [doc |-> file[w], next |-> "provenance"]]
    /\ UNCHANGED <<server, memory, file, synced, pull, uploads, used>>

AgentSavesRun(w, run) ==
    /\ job[w] # None /\ job[w].next = "provenance"
    /\ file' = [file EXCEPT ![w] = with_agent_run(job[w].doc, run)]
    /\ job' = [job EXCEPT ![w] = None]
    /\ used' = used \cup {run}
    /\ UNCHANGED <<server, memory, synced, pull, uploads>>

-----------------------------------------------------------------------------
(* The command line, run next to workbench w                               *)

CliBranch(w, name, parent) ==
    /\ CanBranch(file[w], name, parent)
    /\ file' = [file EXCEPT ![w] = create_branch(file[w], name, parent)]
    /\ UNCHANGED <<server, memory, synced, pull, job, uploads, used>>

CliComment(w, comment) ==
    /\ file' = [file EXCEPT ![w] = add_comment(file[w], comment)]
    /\ used' = used \cup {comment}
    /\ UNCHANGED <<server, memory, synced, pull, job, uploads>>

CliPush(w) ==
    /\ Send([from |-> None, doc |-> file[w]])
    /\ UNCHANGED <<server, desk, used>>

CliPull(w) ==
    /\ Pullable
    /\ file' = [file EXCEPT ![w] = session.doc]
    /\ UNCHANGED <<server, memory, synced, pull, job, uploads, used>>

-----------------------------------------------------------------------------

ServerNext ==
    \/ \E m \in uploads, a \in NewActors : PutMerge(m, a)
    \/ JsonWritten
    \/ SnapshotTruncated
    \/ \E delivered \in BOOLEAN : SnapshotWritten(delivered)
    \/ WriteFails
    \/ Crash
    \/ \E c \in SeedComments, a \in NewActors : Start(c, a)

DeskNext ==
    \/ \E w \in Workbenches, c \in NewComments : AddComment(w, c) \/ AgentSavesComment(w, c)
    \/ \E m \in uploads : PushFails(m)
    \/ \E w \in Workbenches : SyncPull(w) \/ SyncSave(w) \/ SyncInstall(w) \/ SyncFails(w)
    \/ \E w \in Workbenches : Restart(w)
    \/ \E w \in Workbenches, next \in {"comment", "provenance"} : AgentLoads(w, next)
    \/ \E w \in Workbenches : AgentReloads(w)
    \/ \E w \in Workbenches, r \in AgentRuns \ used : AgentSavesRun(w, r)

CliNext ==
    \E w \in Workbenches :
        \/ \E b \in Branches, p \in Branches \cup {"main"} : CliBranch(w, b, p)
        \/ \E c \in NewComments : CliComment(w, c)
        \/ CliPush(w)
        \/ CliPull(w)

Next == ServerNext \/ DeskNext \/ CliNext

Spec == Init /\ [][Next]_vars

-----------------------------------------------------------------------------
(* Properties                                                              *)

(***************************************************************************)
(* A restart finds the last acknowledged document or the one whose write   *)
(* the crash interrupted, as long as one of the two files parses: writing  *)
(* the JSON first and loading the snapshot first never brings back an      *)
(* older state.                                                            *)
(***************************************************************************)
RestartRecovers ==
    ~ up /\ (json # Torn \/ snapshot # Torn) =>
        load_session(FirstComment, FirstActor).doc \in {served, session.doc}

(***************************************************************************)
(* An accepted upload is in the session: whichever side Automerge prefers, *)
(* while the write lasts and when it is acknowledged no comment of the     *)
(* upload is missing on the server.                                        *)
(***************************************************************************)
UploadLands ==
    put # None /\ put.upload # None => put.upload.doc.comments \subseteq session.doc.comments

Documents ==
    {session.doc} \cup {memory[w] : w \in Workbenches} \cup {file[w] : w \in Workbenches}
        \cup {m.doc : m \in uploads}

(***************************************************************************)
(* Branches form a forest wherever the document is: merges, pulls and      *)
(* overwritten files never leave a branch whose parent is gone, two        *)
(* branches of one name, or branches that descend from each other.         *)
(***************************************************************************)
BranchParentsExist ==
    \A doc \in Documents :
        /\ \A b \in doc.branches : b.parent = None \/ b.parent \in BranchNames(doc)
        /\ \A b, c \in doc.branches : b.name = c.name => b = c
        /\ \A S \in SUBSET doc.branches : S # {} =>
               \E b \in S : b.parent = None \/ \A c \in S : c.name # b.parent

-----------------------------------------------------------------------------
(* A claim of the documentation that the code does not keep                *)

(***************************************************************************)
(* "concurrent comments from multiple clients are preserved": a merge      *)
(* keeps every comment the server holds.                                   *)
(***************************************************************************)
MergePreservesComments ==
    [][up /\ up' => session.doc.comments \subseteq session'.doc.comments]_vars

=============================================================================
