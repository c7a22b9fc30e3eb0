---------------------------- MODULE EndpointStore ----------------------------
(***************************************************************************)
(* The STAC endpoint registry and the catalog overlay as files shared by   *)
(* the workbench and the command line (crates/genegis-catalog/src/         *)
(* registry.rs and external_stac.rs, their routes in apps/workbench and    *)
(* their commands in crates/genegis-cli).                                  *)
(*                                                                         *)
(* The workbench reads the registry once, when it starts, changes its copy *)
(* under a mutex and writes the whole file after every change; a command   *)
(* reads, changes and writes.  A write truncates the file and then fills   *)
(* it, so that it is seen, or left by a crash, as Torn.                    *)
(***************************************************************************)
EXTENDS Naturals, Sequences, FiniteSets, SequencesExt

CONSTANTS
    Endpoints,      \* endpoint identifiers
    Urls,           \* their addresses
    Items,          \* STAC items that are imported
    MaxChanges,     \* bound on the changes, searches and imports made
    MaxCrashes      \* bound on the times a process dies

VARIABLES
    file,           \* the registry file
    memory,         \* the workbench's registry
    writing,        \* whether the workbench, holding the mutex, is in save()
    searching,      \* endpoints the workbench is searching, or {}
    command,        \* the running command: [phase, op, registry]
    overlay,        \* the overlay file
    importing,      \* for each importer, the overlay it read and its item
    acked, imported,            \* what was reported as done (history)
    overlapped, interleaved,    \* whether a write replaced what its writer had not read (history)
    changes, crashes

registryVars == <<file, memory, writing, searching, command, acked, overlapped>>
overlayVars == <<overlay, importing, imported, interleaved>>
endpointVars == <<file, memory, writing, searching, command, acked, overlapped,
                  overlay, importing, imported, interleaved, changes, crashes>>

Torn == [torn |-> TRUE]
NewRegistry == [endpoints |-> <<>>, history |-> <<>>]

Entry(origin, op, ids, url) == [origin |-> origin, op |-> op, ids |-> ids, url |-> url]

(* Vec::retain: the elements of s that are in kept, in their order.        *)
retain(s, kept) ==
    LET upTo[n \in 0..Len(s)] ==
            IF n = 0 THEN <<>>
            ELSE IF s[n] \in kept THEN Append(upTo[n - 1], s[n]) ELSE upTo[n - 1]
    IN  upTo[Len(s)]

OtherEndpoints(endpoints, id) == retain(endpoints, {e \in Range(endpoints) : e.id # id})

(* Faulty variant: a registration keeps the old entry of its identifier.   *)
apply_keepsOld(registry, entry) ==
    [endpoints |->
        IF entry.op = "register"
        THEN registry.endpoints \o <<[id |-> entry.ids[1], url |-> entry.url]>>
        ELSE OtherEndpoints(registry.endpoints, entry.ids[1]),
     history |-> Append(registry.history, entry)]

(* register replaces, remove takes away; a removal of an unknown endpoint  *)
(* is refused before this (applicable).                                    *)
apply(registry, entry) ==
    LET others == OtherEndpoints(registry.endpoints, entry.ids[1])
    IN [endpoints |-> IF entry.op = "register"
                      THEN Append(others, [id |-> entry.ids[1], url |-> entry.url]) ELSE others,
        history |-> Append(registry.history, entry)]

applicable(registry, entry) ==
    entry.op = "register" \/ \E i \in DOMAIN registry.endpoints : registry.endpoints[i].id = entry.ids[1]

record_search(registry, entry) == [registry EXCEPT !.history = Append(@, entry)]

RegisteredIds(registry) == {registry.endpoints[i].id : i \in DOMAIN registry.endpoints}

(* Faulty variant: identifiers that are not registered are skipped, and    *)
(* still named in the recorded command.                                    *)
federated_catalog_lenient(registry, ids) == IF ids = {} THEN RegisteredIds(registry) ELSE ids

(* No identifiers means all endpoints; an unknown one is an error, which   *)
(* leaves nothing to search.                                               *)
federated_catalog(registry, ids) ==
    CASE ids = {} -> RegisteredIds(registry)
      [] ids # {} /\ ids \subseteq RegisteredIds(registry) -> ids
      [] OTHER -> {}

load(f) == IF f = Torn THEN NewRegistry ELSE f

Idle == [phase |-> "idle"]

Init ==
    /\ file = NewRegistry /\ memory = NewRegistry
    /\ writing = FALSE /\ searching = {} /\ command = Idle
    /\ overlay = [records |-> <<>>] /\ importing = [p \in {"a", "b"} |-> Idle]
    /\ acked = <<>> /\ imported = <<>>
    /\ overlapped = FALSE /\ interleaved = FALSE
    /\ changes = 0 /\ crashes = 0

Counted == changes < MaxChanges /\ changes' = changes + 1 /\ UNCHANGED crashes

RegisterOrRemove(origin) ==
    {Entry(origin, "register", <<id>>, url) : id \in Endpoints, url \in Urls} \cup
    {Entry(origin, "remove", <<id>>, "-") : id \in Endpoints}

(* Entering save(): the file is truncated.  Another process's save, or a   *)
(* save still under way, is about to be replaced.                          *)
BeginSave(base) ==
    /\ file' = Torn
    /\ overlapped' = (overlapped \/ file # base)

(* Leaving it: when the other process filled the file meanwhile, the two   *)
(* contents may be mixed.                                                  *)
EndSave(content) ==
    /\ \/ file' = content
       \/ file # Torn /\ file' = Torn
    /\ overlapped' = (overlapped \/ file # Torn)

-----------------------------------------------------------------------------
(* The workbench's routes                                                  *)

(* stac_endpoint_add and stac_endpoint_remove.                             *)
WorkbenchChange(entry) ==
    /\ ~writing /\ applicable(memory, entry)
    /\ Counted
    /\ memory' = apply(memory, entry)
    /\ BeginSave(memory)
    /\ writing' = TRUE
    /\ UNCHANGED <<searching, command, acked, overlayVars>>

(* federated_stac_search: a snapshot under the mutex, the search without   *)
(* it, the record under it again.                                          *)
WorkbenchSearch(ids) ==
    /\ ~writing /\ searching = {}
    /\ Counted
    /\ searching' = federated_catalog(memory, ids)
    /\ UNCHANGED <<file, memory, writing, command, acked, overlapped, overlayVars>>

WorkbenchSearched ==
    /\ ~writing /\ searching # {}
    /\ memory' = record_search(memory, Entry("ui", "search", SetToSeq(searching), "-"))
    /\ BeginSave(memory)
    /\ writing' = TRUE /\ searching' = {}
    /\ UNCHANGED <<command, acked, overlayVars, changes, crashes>>

WorkbenchSaved ==
    /\ writing
    /\ EndSave(memory)
    /\ writing' = FALSE
    /\ acked' = Append(acked, Last(memory.history))
    /\ UNCHANGED <<memory, searching, command, overlayVars, changes, crashes>>

(* A file that cannot be read is replaced by an empty registry in memory.  *)
WorkbenchRestart ==
    /\ crashes < MaxCrashes /\ crashes' = crashes + 1
    /\ memory' = load(file)
    /\ writing' = FALSE /\ searching' = {}
    /\ overlapped' = (overlapped \/ writing \/ file = Torn)
    /\ UNCHANGED <<file, command, acked, overlayVars, changes>>

-----------------------------------------------------------------------------
(* genegis catalog endpoint add | remove, genegis catalog stac search.     *)
(* A command that cannot read the file exits.  A search may name endpoints *)
(* on its own command line.                                                *)

CommandLoads(op) ==
    /\ command = Idle /\ file # Torn
    /\ Counted
    /\ command' = [phase |-> "loaded", op |-> op, registry |-> file, base |-> file]
    /\ UNCHANGED <<file, memory, writing, searching, acked, overlapped, overlayVars>>

CommandApplies ==
    /\ command.phase = "loaded" /\ command.op \in {"register", "remove"}
    /\ \E entry \in {e \in RegisterOrRemove("cli") : e.op = command.op} :
          /\ applicable(command.registry, entry)
          /\ command' = [command EXCEPT !.phase = "saving", !.registry = apply(@, entry)]
    /\ BeginSave(command.base)
    /\ UNCHANGED <<memory, writing, searching, acked, overlayVars, changes, crashes>>

(* Faulty variant: the search is recorded in a registry begun anew.        *)
CommandSearched_anew ==
    /\ command.phase = "loaded" /\ command.op = "search"
    /\ \E ids \in {RegisteredIds(command.registry), {CHOOSE id \in Endpoints : TRUE}} \ {{}} :
          command' = [command EXCEPT !.phase = "saving",
                         !.registry = record_search(NewRegistry, Entry("cli", "search", SetToSeq(ids), "-"))]
    /\ BeginSave(command.base)
    /\ UNCHANGED <<memory, writing, searching, acked, overlayVars, changes, crashes>>

CommandSearched ==
    /\ command.phase = "loaded" /\ command.op = "search"
    /\ \E ids \in {RegisteredIds(command.registry), {CHOOSE id \in Endpoints : TRUE}} \ {{}} :
          command' = [command EXCEPT !.phase = "saving",
                         !.registry = record_search(@, Entry("cli", "search", SetToSeq(ids), "-"))]
    /\ BeginSave(command.base)
    /\ UNCHANGED <<memory, writing, searching, acked, overlayVars, changes, crashes>>

CommandSaved ==
    /\ command.phase = "saving"
    /\ EndSave(command.registry)
    /\ acked' = Append(acked, Last(command.registry.history))
    /\ command' = Idle
    /\ UNCHANGED <<memory, writing, searching, overlayVars, changes, crashes>>

(* It fails (an unknown endpoint, none configured) or is killed.           *)
CommandEnds ==
    /\ command.phase = "loaded" \/ (command.phase = "saving" /\ crashes < MaxCrashes)
    /\ crashes' = IF command.phase = "saving" THEN crashes + 1 ELSE crashes
    /\ overlapped' = (overlapped \/ command.phase = "saving")
    /\ command' = Idle
    /\ UNCHANGED <<file, memory, writing, searching, acked, overlayVars, changes>>

-----------------------------------------------------------------------------
(* import_stac_item_url, run by requests of the workbench (which hold no   *)
(* lock) and by the command line.  A Torn overlay is read as empty.        *)

ImportReads(p, item) ==
    /\ importing[p] = Idle
    /\ Counted
    /\ importing' = [importing EXCEPT ![p] =
          [phase |-> "read", item |-> item, version |-> changes,
           base |-> overlay, records |-> IF overlay = Torn THEN <<>> ELSE overlay.records]]
    /\ UNCHANGED <<registryVars, overlay, imported, interleaved>>

(* Faulty variant: an item imported again is appended.                     *)
WithRecord_appended(records, record) == Append(records, record)

WithRecord(records, record) ==
    Append(retain(records, {r \in Range(records) : r.item # record.item}), record)

Record(job) == [item |-> job.item, version |-> job.version]

ImportTruncates(p) ==
    /\ importing[p].phase = "read"
    /\ importing' = [importing EXCEPT ![p] =
          [importing[p] EXCEPT !.phase = "saving",
                               !.records = WithRecord(importing[p].records, Record(importing[p]))]]
    /\ interleaved' = (interleaved \/ overlay # importing[p].base \/ overlay = Torn)
    /\ overlay' = Torn
    /\ UNCHANGED <<registryVars, imported, changes, crashes>>

ImportSaved(p) ==
    /\ importing[p].phase = "saving"
    /\ \/ overlay' = [records |-> importing[p].records]
       \/ overlay # Torn /\ overlay' = Torn
    /\ interleaved' = (interleaved \/ overlay # Torn)
    /\ imported' = Append(imported, Record(importing[p]))
    /\ importing' = [importing EXCEPT ![p] = Idle]
    /\ UNCHANGED <<registryVars, changes, crashes>>

ImportDies(p) ==
    /\ importing[p].phase = "saving"
    /\ crashes < MaxCrashes /\ crashes' = crashes + 1
    /\ importing' = [importing EXCEPT ![p] = Idle]
    /\ interleaved' = TRUE
    /\ UNCHANGED <<registryVars, overlay, imported, changes>>

Next ==
    \/ \E entry \in RegisterOrRemove("ui") : WorkbenchChange(entry)
    \/ \E ids \in SUBSET Endpoints : WorkbenchSearch(ids)
    \/ WorkbenchSearched \/ WorkbenchSaved \/ WorkbenchRestart
    \/ \E op \in {"register", "remove", "search"} : CommandLoads(op)
    \/ CommandApplies \/ CommandSearched \/ CommandSaved \/ CommandEnds
    \/ \E p \in DOMAIN importing, item \in Items : ImportReads(p, item)
    \/ \E p \in DOMAIN importing : ImportTruncates(p) \/ ImportSaved(p) \/ ImportDies(p)

Spec == Init /\ [][Next]_endpointVars

-----------------------------------------------------------------------------
Copies == {memory, load(file)} \cup (IF command = Idle THEN {} ELSE {command.registry})

(* What a history says is registered: the last registration of each        *)
(* endpoint that no later removal takes away.                              *)
Explained(history) ==
    {[id |-> history[i].ids[1], url |-> history[i].url] :
        i \in {k \in DOMAIN history :
                 /\ history[k].op = "register"
                 /\ \A j \in (k + 1)..Len(history) :
                       history[j].op = "search" \/ history[j].ids[1] # history[k].ids[1]}}

(* Every copy of the registry, in memory or in the file, lists exactly the *)
(* endpoints its own command history accounts for, each once, whatever was *)
(* saved over it: the audit trail never contradicts what is searched.      *)
HistoryExplainsEndpoints ==
    \A copy \in Copies :
        /\ {copy.endpoints[i] : i \in DOMAIN copy.endpoints} = Explained(copy.history)
        /\ Len(copy.endpoints) = Cardinality(RegisteredIds(copy))

(* A search recorded by the workbench names only endpoints registered      *)
(* earlier in the same history, though the endpoint may have been removed  *)
(* while the search ran.                                                   *)
SearchesNameRegistered ==
    \A copy \in Copies : \A i \in DOMAIN copy.history :
        copy.history[i].origin = "ui" /\ copy.history[i].op = "search" =>
            \A id \in {copy.history[i].ids[n] : n \in DOMAIN copy.history[i].ids} : \E k \in 1..(i - 1) :
                copy.history[k].op = "register" /\ copy.history[k].ids[1] = id

(* Unless some save replaced a version its writer had not read, or was cut *)
(* off by a crash, the file holds every change that was reported as made,  *)
(* in the order they were reported, and nothing else.                      *)
ReportedChangesAreKept ==
    ~overlapped /\ ~writing /\ command.phase # "saving" => load(file).history = acked

(* The same for imported items: no two imports overlapped and none died,   *)
(* so the overlay holds the last import of every item, once.               *)
ImportsAccumulate ==
    ~interleaved /\ (\A p \in DOMAIN importing : importing[p].phase # "saving") =>
        overlay = [records |-> retain(imported, {r \in Range(imported) :
                       \A i \in DOMAIN imported : imported[i].item = r.item => imported[i].version <= r.version})]
=============================================================================
