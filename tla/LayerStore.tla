---------------------------- MODULE LayerStore ----------------------------
(***************************************************************************)
(* The toolkit's layer store (crates/genegis-toolkit/src/store.rs) as the  *)
(* workbench (apps/workbench/src/gis.rs) and the MCP server                *)
(* (bin/genegis-mcp.rs) use it: each process loads the same directory when *)
(* it starts, keeps its own map in memory, and writes one file per layer   *)
(* through a temporary file of a fixed name, {id}.json.tmp.                *)
(*                                                                         *)
(* A layer's id is the digest of its content, so a content and its id are  *)
(* one element of Layers here; name, receipt and style are outside the     *)
(* digest and form the stored record.                                      *)
(***************************************************************************)
EXTENDS Naturals, Sequences, FiniteSets

CONSTANTS
    Procs,          \* processes that open the directory
    Workbench,      \* the one of them that serves the HTTP endpoints
    Layers,         \* contents, by id
    Names,          \* names a user may give
    Deriving,       \* [source, output] of the analyses that may run
    Requests,       \* bound on the requests the processes serve
    Crashes         \* bound on crashes

VARIABLES
    disk,       \* id -> file {id}.json, or NoFile
    temp,       \* id -> file {id}.json.tmp, or NoFile
    mem,        \* process -> id -> stored record, or Absent
    up,         \* processes running
    calls,      \* process -> store calls its request still has to make
    phase,      \* process -> how far the persist of its first call is
    job,        \* process -> analysis running on a snapshot, or NoJob
    foreign,    \* process -> the files may differ from its memory for a reason
                \* outside it: another process wrote, or a deletion failed
    kept,       \* replacements of a layer: [old, new], watched by a property
    requests, crashes

storeVars == <<disk, temp, mem, up, calls, phase, job, foreign, kept, requests, crashes>>

NoFile == [missing |-> TRUE]
Absent == [missing |-> TRUE]
NoJob == [kind |-> "none"]
Keys == {"classification", "color"}
Records == [name: Names, receipt: {"import", "analysis", "intermediate"}, style: SUBSET Keys]

(***************************************************************************)
(* A file is an inode: `open` are the processes still writing it (opening  *)
(* it truncates it for all of them), `whole` whether what it holds parses. *)
(***************************************************************************)
File(record, whole, open) == [record |-> record, whole |-> whole, open |-> open]
Empty == [missing |-> TRUE]

\* load: a file that does not parse, or whose content has another digest, is
\* reported and left out.
load(file) == IF file # NoFile /\ file.whole THEN file.record ELSE Absent

put(id, record) == [op |-> "put", id |-> id, record |-> record]
drop(id) == [op |-> "drop", id |-> id]

Init ==
    /\ disk = [id \in Layers |-> NoFile]
    /\ temp = [id \in Layers |-> NoFile]
    /\ mem = [p \in Procs |-> [id \in Layers |-> Absent]]
    /\ up = Procs
    /\ calls = [p \in Procs |-> <<>>]
    /\ phase = [p \in Procs |-> "open"]
    /\ job = [p \in Procs |-> NoJob]
    /\ foreign = [p \in Procs |-> FALSE]
    /\ kept = {}
    /\ requests = 0
    /\ crashes = 0

Idle(p) == p \in up /\ calls[p] = <<>>

Others(p) == [q \in Procs |-> foreign[q] \/ q # p]

----------------------------------------------------------------------------
(***************************************************************************)
(* Requests. The mutex of GisState (the single thread of the MCP server)   *)
(* makes the calls of one request one critical section.                    *)
(***************************************************************************)
Serve(p, todo) ==
    /\ Idle(p)
    /\ requests < Requests
    /\ requests' = requests + 1
    /\ calls' = [calls EXCEPT ![p] = todo]
    /\ UNCHANGED <<disk, temp, mem, up, phase, foreign, crashes>>

\* LayerStore::insert keeps the style this process holds for the same content.
insert(p, id, name, receipt) ==
    put(id, [name |-> name, receipt |-> receipt,
             style |-> IF mem[p][id] = Absent THEN {} ELSE mem[p][id].style])

\* import_layer, load_samples, place and their MCP tools: the layer is made
\* outside the lock and inserted under it, with a receipt of its import.
Import(p) ==
    \E id \in Layers, name \in Names :
        Serve(p, <<insert(p, id, name, "import")>>) /\ UNCHANGED <<job, kept>>

rename(p) ==
    \E id \in Layers, name \in Names :
        /\ p = Workbench
        /\ mem[p][id] # Absent
        /\ Serve(p, <<put(id, [mem[p][id] EXCEPT !.name = name])>>)
        /\ UNCHANGED <<job, kept>>

\* style_layer replaces the whole style.
set_style(p) ==
    \E id \in Layers, style \in SUBSET Keys :
        /\ p = Workbench
        /\ mem[p][id] # Absent
        /\ Serve(p, <<put(id, [mem[p][id] EXCEPT !.style = style])>>)
        /\ UNCHANGED <<job, kept>>

\* classify_layer adds its key to the style it reads under the same lock.
classify_layer(p) ==
    \E id \in Layers :
        /\ p = Workbench
        /\ mem[p][id] # Absent
        /\ Serve(p, <<put(id, [mem[p][id] EXCEPT !.style = @ \cup {"classification"}])>>)
        /\ UNCHANGED <<job, kept>>

\* A deletion the user asks for ends the watch of a replacement it touches.
remove(p) ==
    \E id \in Layers :
        /\ mem[p][id] # Absent
        /\ Serve(p, <<drop(id)>>)
        /\ kept' = {k \in kept : id \notin {k.old, k.new}}
        /\ UNCHANGED job

\* run_and_store and ask: the layers are copied under the lock, which is
\* released while the plan runs.
RunStarts(p) ==
    \E d \in Deriving, keep \in BOOLEAN :
        /\ job[p] = NoJob
        /\ mem[p][d.source] # Absent
        /\ job' = [job EXCEPT ![p] = [kind |-> "run", source |-> d.source, output |-> d.output,
                                      middle |-> d.middle, keep |-> keep]]
        /\ Serve(p, <<>>)
        /\ UNCHANGED kept

\* assign_layer_crs: the same, for a plan that replaces its input.
AssignStarts(p) ==
    \E d \in Deriving :
        /\ p = Workbench
        /\ job[p] = NoJob
        /\ mem[p][d.source] # Absent
        /\ job' = [job EXCEPT ![p] = [kind |-> "assign", source |-> d.source, output |-> d.output,
                                      middle |-> d.middle, keep |-> FALSE]]
        /\ Serve(p, <<>>)
        /\ UNCHANGED kept

\* Faulty variant: the replaced layer is removed before its successor is stored.
store_run_dropsFirst(p, j) ==
    <<drop(j.source), insert(p, j.output, CHOOSE n \in Names : TRUE, "analysis")>>

\* store_run: the output under the plan's goal as name (the replaced layer's
\* name when there is one), then what else the run kept, then the removal.
store_run(p, j) ==
    LET replaced == j.kind = "assign" /\ mem[p][j.source] # Absent
        name == IF replaced THEN mem[p][j.source].name ELSE CHOOSE n \in Names : TRUE
    IN <<insert(p, j.output, name, "analysis")>>
       \o (IF j.keep THEN <<insert(p, j.middle, CHOOSE n \in Names : TRUE, "intermediate")>> ELSE <<>>)
       \o (IF j.kind = "assign" /\ j.source # j.output THEN <<drop(j.source)>> ELSE <<>>)

\* A deletion asked for by a user is under way.
BeingRemoved(id) == \E q \in Procs : calls[q] = <<drop(id)>>

RunEnds(p) ==
    /\ Idle(p)
    /\ job[p] # NoJob
    /\ calls' = [calls EXCEPT ![p] = store_run(p, job[p])]
    /\ job' = [job EXCEPT ![p] = NoJob]
    /\ kept' = IF job[p].kind # "assign" THEN kept
               ELSE {k \in kept : job[p].source \notin {k.old, k.new}} \cup
                    IF load(disk[job[p].source]) = Absent \/ BeingRemoved(job[p].source) \/ BeingRemoved(job[p].output)
                    THEN {} ELSE {[old |-> job[p].source, new |-> job[p].output]}
    /\ UNCHANGED <<disk, temp, mem, up, phase, foreign, requests, crashes>>

\* A plan that fails validation or a check stores nothing.
RunFails(p) ==
    /\ p \in up
    /\ job[p] # NoJob
    /\ job' = [job EXCEPT ![p] = NoJob]
    /\ UNCHANGED <<disk, temp, mem, up, calls, phase, foreign, kept, requests, crashes>>

----------------------------------------------------------------------------
(***************************************************************************)
(* LayerStore::persist: open (and truncate) the temporary file, write it,  *)
(* rename it; memory changes only after the rename.                        *)
(***************************************************************************)
Putting(p, at) == p \in up /\ calls[p] # <<>> /\ Head(calls[p]).op = "put" /\ phase[p] = at

PersistOpen(p) ==
    /\ Putting(p, "open")
    /\ LET id == Head(calls[p]).id IN
       temp' = [temp EXCEPT ![id] = IF @ = NoFile THEN File(Empty, FALSE, {p})
                                    ELSE File(Empty, FALSE, @.open \cup {p})]
    /\ phase' = [phase EXCEPT ![p] = "write"]
    /\ foreign' = Others(p)
    /\ UNCHANGED <<disk, mem, up, calls, job, kept, requests, crashes>>

\* What p writes into the file it opened. Bytes another process wrote at the
\* same offsets are overwritten, and remain behind when they were longer.
Written(file, p, record) ==
    IF file = NoFile \/ p \notin file.open THEN {file}
    ELSE {File(record, whole, file.open \ {p}) : whole \in IF file.record = Empty THEN {TRUE} ELSE BOOLEAN}

PersistWrite(p) ==
    /\ Putting(p, "write")
    /\ LET call == Head(calls[p]) IN
       /\ \E f \in Written(temp[call.id], p, call.record) : temp' = [temp EXCEPT ![call.id] = f]
       /\ \E f \in Written(disk[call.id], p, call.record) : disk' = [disk EXCEPT ![call.id] = f]
    /\ phase' = [phase EXCEPT ![p] = "rename"]
    /\ UNCHANGED <<mem, up, calls, job, foreign, kept, requests, crashes>>

\* The rename replaces the file and the call's memory change follows.
PersistRename(p) ==
    /\ Putting(p, "rename")
    /\ LET call == Head(calls[p]) IN
       /\ temp[call.id] # NoFile
       /\ disk' = [disk EXCEPT ![call.id] = temp[call.id]]
       /\ temp' = [temp EXCEPT ![call.id] = NoFile]
       /\ mem' = [mem EXCEPT ![p][call.id] = call.record]
    /\ calls' = [calls EXCEPT ![p] = Tail(@)]
    /\ phase' = [phase EXCEPT ![p] = "open"]
    /\ foreign' = Others(p)
    /\ UNCHANGED <<up, job, kept, requests, crashes>>

\* Another process renamed the temporary file first: the request fails and
\* its remaining calls are not made.
PersistLosesTemp(p) ==
    /\ Putting(p, "rename")
    /\ temp[Head(calls[p]).id] = NoFile
    /\ calls' = [calls EXCEPT ![p] = <<>>]
    /\ phase' = [phase EXCEPT ![p] = "open"]
    /\ UNCHANGED <<disk, temp, mem, up, job, foreign, kept, requests, crashes>>

Dropping(p) == p \in up /\ calls[p] # <<>> /\ Head(calls[p]).op = "drop"

\* Faulty variant: the file of a removed layer stays.
Remove_memoryOnly(p) ==
    /\ Dropping(p)
    /\ mem' = [mem EXCEPT ![p][Head(calls[p]).id] = Absent]
    /\ calls' = [calls EXCEPT ![p] = Tail(@)]
    /\ UNCHANGED <<disk, foreign, temp, up, phase, job, kept, requests, crashes>>

\* LayerStore::remove: memory first, then the file if it exists. A deletion
\* that fails leaves the file for the next start to load again. A layer that
\* is gone meanwhile fails the request.
Remove(p) ==
    /\ Dropping(p)
    /\ LET id == Head(calls[p]).id IN
       \/ /\ mem[p][id] # Absent
          /\ mem' = [mem EXCEPT ![p][id] = Absent]
          /\ calls' = [calls EXCEPT ![p] = Tail(@)]
          /\ disk' = [disk EXCEPT ![id] = NoFile]
          /\ foreign' = Others(p)
       \/ /\ mem[p][id] # Absent /\ disk[id] # NoFile
          /\ mem' = [mem EXCEPT ![p][id] = Absent]
          /\ calls' = [calls EXCEPT ![p] = <<>>]
          /\ foreign' = [foreign EXCEPT ![p] = TRUE]
          /\ UNCHANGED disk
       \/ /\ mem[p][id] = Absent
          /\ calls' = [calls EXCEPT ![p] = <<>>]
          /\ UNCHANGED <<disk, mem, foreign>>
    /\ UNCHANGED <<temp, up, phase, job, kept, requests, crashes>>

----------------------------------------------------------------------------
(***************************************************************************)
(* A process dies anywhere, and starts again from the directory.           *)
(***************************************************************************)
Closed(files, p) == [id \in Layers |-> IF files[id] = NoFile THEN NoFile
                                       ELSE [files[id] EXCEPT !.open = @ \ {p}]]

Crash(p) ==
    /\ p \in up
    /\ crashes < Crashes
    /\ crashes' = crashes + 1
    /\ up' = up \ {p}
    /\ mem' = [mem EXCEPT ![p] = [id \in Layers |-> Absent]]
    /\ calls' = [calls EXCEPT ![p] = <<>>]
    /\ phase' = [phase EXCEPT ![p] = "open"]
    /\ job' = [job EXCEPT ![p] = NoJob]
    /\ disk' = Closed(disk, p)
    /\ temp' = Closed(temp, p)
    /\ UNCHANGED <<foreign, kept, requests>>

open(p) ==
    /\ p \notin up
    /\ up' = up \cup {p}
    /\ mem' = [mem EXCEPT ![p] = [id \in Layers |-> load(disk[id])]]
    /\ foreign' = [foreign EXCEPT ![p] = \E q \in up : calls[q] # <<>>]
    /\ UNCHANGED <<disk, temp, calls, phase, job, kept, requests, crashes>>

Next == \E p \in Procs :
    \/ Import(p) \/ rename(p) \/ set_style(p) \/ classify_layer(p) \/ remove(p)
    \/ RunStarts(p) \/ AssignStarts(p) \/ RunEnds(p) \/ RunFails(p)
    \/ PersistOpen(p) \/ PersistWrite(p) \/ PersistRename(p) \/ PersistLosesTemp(p) \/ Remove(p)
    \/ Crash(p) \/ open(p)

Spec == Init /\ [][Next]_storeVars

----------------------------------------------------------------------------
Alone(p) == p \in up /\ calls[p] = <<>> /\ ~foreign[p]

(***************************************************************************)
(* A process that no other one has written behind, and that has no call in *)
(* hand, would load exactly what it holds: names, receipts and styles      *)
(* included. Every path of store.rs that writes the file before memory, or *)
(* memory before the file, ends in agreement, also after a crash in the    *)
(* middle of a write.                                                      *)
(***************************************************************************)
RestartIsInvisible ==
    \A p \in Procs : Alone(p) => \A id \in Layers : load(disk[id]) = mem[p][id]

(***************************************************************************)
(* Assigning a CRS replaces a layer by one with another content. Whatever  *)
(* fails or crashes between the insertion and the removal in store_run, at *)
(* least one of the two has a file, until a user deletes one of them.      *)
(***************************************************************************)
ReplacementNeverLosesBoth ==
    \A k \in kept : disk[k.old] # NoFile \/ disk[k.new] # NoFile
============================================================================
