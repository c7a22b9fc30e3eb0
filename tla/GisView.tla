------------------------------ MODULE GisView ------------------------------
(***************************************************************************)
(* The data-analysis view (apps/desktop/ui/gis.js) over the /api/gis       *)
(* endpoints. Every handler awaits the server, other handlers run in       *)
(* between, and answers come back in any order: a request is sent, the     *)
(* server serves it, and its continuation runs when the answer arrives.    *)
(* The view identifies a layer by its content digest.                      *)
(***************************************************************************)
EXTENDS Naturals, Sequences, FiniteSets, TLC

CONSTANTS
    Ids,        \* layers that imports and analyses can produce
    Successor,  \* layer -> the layer that assigning a CRS to it produces
    Answer,     \* the layer an analysis produces
    Unplaced,   \* files whose CRS the server cannot tell
    Pages,      \* pages of a layer's table
    Sends       \* bound on requests

VARIABLES
    stored,     \* server: layer -> "absent", "plain" or "classified"
    flight,     \* requests on their way, by number
    sent,       \* requests sent so far
    list,       \* state.layers: what the last applied listing said
    geo,        \* state.geo: layers with cached geometry
    visible,    \* state.visible: layers with a checkbox value
    active,     \* state.activeTable, or NoLayer
    table,      \* state.table.offset and total, in pages
    rows,       \* layer and page of the rows on screen
    pending,    \* state.pendingImport, or NoLayer
    prompt,     \* the CRS prompt is on screen
    applied,    \* newest request applied, per kind of answer
    spoilt      \* kinds of which an older answer was applied after a newer one,
                \* whose request failed half-way, or that were not asked for
                \* because the listing no longer had the layer

viewVars == <<stored, flight, sent, list, geo, visible, active, table, rows, pending, prompt, applied, spoilt>>

NoLayer == "none"
NoRows == [id |-> NoLayer, page |-> 0]
Present(map) == {id \in Ids : map[id] # "absent"}

Init ==
    /\ stored = [id \in Ids |-> "absent"]
    /\ flight = <<>>
    /\ sent = 0
    /\ list = [id \in Ids |-> "absent"]
    /\ geo = {} /\ visible = {}
    /\ active = NoLayer
    /\ table = [page |-> 0, total |-> 0]
    /\ rows = NoRows
    /\ pending = NoLayer /\ prompt = FALSE
    /\ applied = [list |-> 0, rows |-> 0]
    /\ spoilt = {}

\* `flight` maps the number of a request to [kind, arg, then, step, answer].
Request(kind, arg, then) == [kind |-> kind, arg |-> arg, then |-> then, step |-> "sent", answer |-> NoLayer]

\* Requests are numbered as they are sent; `flight` holds those under way.
With(requests, under) ==
    [n \in under \cup (sent + 1)..(sent + Len(requests)) |->
        IF n <= sent THEN flight[n] ELSE requests[n - sent]]

Send(requests) ==
    /\ sent + Len(requests) <= Sends
    /\ sent' = sent + Len(requests)
    /\ flight' = With(requests, DOMAIN flight)

\* The answer of request n is consumed; its continuation sends more.
Continue(n, requests) ==
    /\ sent' = sent + Len(requests)
    /\ flight' = With(requests, DOMAIN flight \ {n})

List(then) == Request("list", NoLayer, then)
TablePage(id, page) == Request("table", [id |-> id, page |-> page], NoLayer)

\* loadTable asks only for a layer of the listing.
loadTable(id, page) == IF id \in Present(list) THEN <<TablePage(id, page)>> ELSE <<>>

----------------------------------------------------------------------------
(***************************************************************************)
(* What the user does.                                                     *)
(***************************************************************************)
UNCHANGED_view == UNCHANGED <<list, geo, visible, active, table, rows, pending, prompt, applied, spoilt>>

Import == \E id \in Ids \ {Answer} :
    Send(<<Request("import", id, NoLayer)>>) /\ UNCHANGED stored /\ UNCHANGED_view

\* gis-crs-retry sends the pending file again with the chosen CRS.
RetryImport ==
    /\ pending # NoLayer
    /\ Send(<<Request("import_crs", pending, NoLayer)>>)
    /\ UNCHANGED stored /\ UNCHANGED_view

CancelImport ==
    /\ prompt
    /\ pending' = NoLayer /\ prompt' = FALSE
    /\ UNCHANGED <<stored, flight, sent, list, geo, visible, active, table, rows, applied, spoilt>>

removeLayer == \E id \in Present(list) :
    Send(<<Request("delete", id, NoLayer)>>) /\ UNCHANGED stored /\ UNCHANGED_view

classifyPanel == \E id \in Present(list), kind \in {"classify", "clear"} :
    Send(<<Request(kind, id, NoLayer)>>) /\ UNCHANGED stored /\ UNCHANGED_view

crsPanel == \E id \in Present(list) :
    /\ Successor[id] # id
    /\ Send(<<Request("crs", id, NoLayer)>>) /\ UNCHANGED stored /\ UNCHANGED_view

\* Ctrl+Enter runs even while the buttons are disabled.
setupAsk == Send(<<Request("ask", NoLayer, NoLayer)>>) /\ UNCHANGED stored /\ UNCHANGED_view

openTable == \E id \in Present(list) :
    /\ active' = id
    /\ table' = [page |-> 0, total |-> 0]
    /\ Send(loadTable(id, 0))
    /\ UNCHANGED <<stored, list, geo, visible, rows, pending, prompt, applied, spoilt>>

\* A table whose layer the listing does not have is moved in, but not loaded.
NotLoaded(id, listing) == IF id \in {NoLayer} \cup Present(listing) THEN {} ELSE {"rows"}

\* gis-next and gis-prev; the total is that of whatever answer came last.
TurnPage ==
    /\ \E page \in 0..Pages :
        /\ \/ page = table.page + 1 /\ page < table.total
           \/ page = IF table.page = 0 THEN 0 ELSE table.page - 1
        /\ table' = [table EXCEPT !.page = page]
        /\ Send(loadTable(active, page))
    /\ spoilt' = spoilt \cup NotLoaded(active, list)
    /\ UNCHANGED <<stored, list, geo, visible, active, rows, pending, prompt, applied>>

\* drawMap fetches the geometry of a layer that is shown and not cached.
drawMap == \E id \in Present(list) \cap visible :
    /\ id \notin geo
    /\ \A n \in DOMAIN flight : ~(flight[n].kind = "geometry" /\ flight[n].arg = id)
    /\ Send(<<Request("geometry", id, NoLayer)>>) /\ UNCHANGED stored /\ UNCHANGED_view

----------------------------------------------------------------------------
(***************************************************************************)
(* What the server does with a request.                                    *)
(***************************************************************************)
Serves(n, kinds) == n \in DOMAIN flight /\ flight[n].kind \in kinds /\ flight[n].step = "sent"
Answered(n, answer) == flight' = [flight EXCEPT ![n].step = "answered", ![n].answer = answer]

ServeRead(n) ==
    /\ Serves(n, {"list", "table", "geometry"})
    /\ LET r == flight[n]
           id == IF r.kind = "table" THEN r.arg.id ELSE r.arg
       IN Answered(n, CASE r.kind = "list" -> stored
                        [] r.kind # "list" /\ id \in Present(stored) -> "ok"
                        [] OTHER -> "error")
    /\ UNCHANGED <<stored, sent>> /\ UNCHANGED_view

ServeImport(n) ==
    /\ Serves(n, {"import", "import_crs"})
    /\ LET id == flight[n].arg IN
       IF flight[n].kind = "import" /\ id \in Unplaced
       THEN Answered(n, "needs_crs") /\ UNCHANGED stored
       ELSE Answered(n, "ok") /\ stored' = [stored EXCEPT ![id] = IF @ = "absent" THEN "plain" ELSE @]
    /\ UNCHANGED sent /\ UNCHANGED_view

ServeChange(n) ==
    /\ Serves(n, {"delete", "classify", "clear"})
    /\ LET id == flight[n].arg IN
       IF id \notin Present(stored)
       THEN Answered(n, "error") /\ UNCHANGED stored
       ELSE /\ Answered(n, "ok")
            /\ stored' = [stored EXCEPT ![id] = [delete |-> "absent", classify |-> "classified",
                                                 clear |-> "plain"][flight[n].kind]]
    /\ UNCHANGED sent /\ UNCHANGED_view

\* run_and_store and ask take their layers now and store the result later.
ServeRunStarts(n) ==
    /\ Serves(n, {"ask", "crs"})
    /\ IF (flight[n].kind = "crs" /\ flight[n].arg \notin Present(stored)) \/ Present(stored) = {}
       THEN Answered(n, "error")
       ELSE flight' = [flight EXCEPT ![n].step = "running"]
    /\ UNCHANGED <<stored, sent>> /\ UNCHANGED_view

\* A replaced layer that is gone by now fails the request after its successor
\* was stored; the view is told of an error and does not refresh.
ServeRunEnds(n) ==
    /\ n \in DOMAIN flight /\ flight[n].step = "running"
    /\ LET id == flight[n].arg
           new == IF flight[n].kind = "ask" THEN Answer ELSE Successor[id]
           with == [stored EXCEPT ![new] = IF @ = "absent" THEN "plain" ELSE @]
           half == flight[n].kind = "crs" /\ id \notin Present(stored)
       IN /\ Answered(n, IF half THEN "error" ELSE "ok")
          /\ stored' = IF flight[n].kind = "crs" THEN [with EXCEPT ![id] = "absent"] ELSE with
          /\ spoilt' = IF half THEN spoilt \cup {"list"} ELSE spoilt
    /\ UNCHANGED <<sent, list, geo, visible, active, table, rows, pending, prompt, applied>>

----------------------------------------------------------------------------
(***************************************************************************)
(* The continuations.                                                      *)
(***************************************************************************)
Arrives(n, kinds) == n \in DOMAIN flight /\ flight[n].kind \in kinds /\ flight[n].step = "answered"

Overtaken(kind, n) == IF n < applied[kind] THEN spoilt \cup {kind} ELSE spoilt
Newest(kind, n) == [applied EXCEPT ![kind] = IF n > @ THEN n ELSE @]

\* Faulty variant: the output of a question is opened without its rows.
refreshLayers_noRows(n) ==
    /\ Arrives(n, {"list"})
    /\ LET now == flight[n].answer
           out == flight[n].then
       IN /\ list' = now
          /\ geo' = geo \cap Present(now)
          /\ visible' = visible \cup Present(now)
          /\ active' = IF out = NoLayer THEN active ELSE out
          /\ Continue(n, <<>>)
    /\ spoilt' = Overtaken("list", n)
    /\ applied' = Newest("list", n)
    /\ UNCHANGED <<stored, rows, table, pending, prompt>>

\* refreshLayers, and what its caller does after it: ask opens its output.
refreshLayers(n) ==
    /\ Arrives(n, {"list"})
    /\ LET now == flight[n].answer
           out == flight[n].then
       IN /\ list' = now
          /\ geo' = geo \cap Present(now)
          /\ visible' = visible \cup Present(now) \cup ({out} \ {NoLayer})
          /\ active' = IF out = NoLayer THEN active ELSE out
          /\ table' = IF out = NoLayer THEN table ELSE [page |-> 0, total |-> 0]
          /\ Continue(n, IF out \in Present(now) THEN <<TablePage(out, 0)>> ELSE <<>>)
    /\ spoilt' = Overtaken("list", n) \cup NotLoaded(flight[n].then, flight[n].answer)
    /\ applied' = Newest("list", n)
    /\ UNCHANGED <<stored, rows, pending, prompt>>

\* The page that arrives is shown whatever is open by then.
TableArrives(n) ==
    /\ Arrives(n, {"table"})
    /\ IF flight[n].answer = "ok"
       THEN /\ rows' = flight[n].arg
            /\ table' = [table EXCEPT !.total = Pages]
            /\ spoilt' = Overtaken("rows", n)
       ELSE UNCHANGED <<rows, table>> /\ spoilt' = spoilt \cup {"rows"}
    /\ applied' = Newest("rows", n)
    /\ Continue(n, <<>>)
    /\ UNCHANGED <<stored, list, geo, visible, active, pending, prompt>>

loadGeometry(n) ==
    /\ Arrives(n, {"geometry"})
    /\ geo' = IF flight[n].answer = "ok" THEN geo \cup {flight[n].arg} ELSE geo
    /\ Continue(n, <<>>)
    /\ UNCHANGED <<stored, list, visible, active, table, rows, pending, prompt, applied, spoilt>>

\* Faulty variant: a successful import leaves the prompt of its first try open.
importFile_keepsPrompt(n) ==
    /\ Arrives(n, {"import", "import_crs"})
    /\ IF flight[n].answer = "needs_crs"
       THEN pending' = flight[n].arg /\ prompt' = TRUE /\ Continue(n, <<>>)
       ELSE pending' = NoLayer /\ UNCHANGED prompt /\ Continue(n, <<List(NoLayer)>>)
    /\ UNCHANGED <<stored, list, geo, visible, active, table, rows, applied, spoilt>>

importFile(n) ==
    /\ Arrives(n, {"import", "import_crs"})
    /\ IF flight[n].answer = "needs_crs"
       THEN pending' = flight[n].arg /\ prompt' = TRUE /\ Continue(n, <<>>)
       ELSE pending' = NoLayer /\ prompt' = FALSE /\ Continue(n, <<List(NoLayer)>>)
    /\ UNCHANGED <<stored, list, geo, visible, active, table, rows, applied, spoilt>>

\* removeLayer closes the table of its layer; a failed change refreshes nothing.
ChangeArrives(n) ==
    /\ Arrives(n, {"delete", "classify", "clear", "crs"})
    /\ LET id == flight[n].arg
           deleted == flight[n].answer = "ok" /\ flight[n].kind = "delete"
       IN /\ visible' = IF deleted THEN visible \ {id} ELSE visible
          /\ active' = IF deleted /\ active = id THEN NoLayer ELSE active
          /\ rows' = IF deleted /\ active = id THEN NoRows ELSE rows
          /\ geo' = IF flight[n].answer = "ok" /\ flight[n].kind = "crs" THEN geo \ {id} ELSE geo
          /\ Continue(n, IF flight[n].answer = "ok" THEN <<List(NoLayer)>> ELSE <<>>)
    /\ UNCHANGED <<stored, list, table, pending, prompt, applied, spoilt>>

\* Faulty variant: the listing is not read again after an analysis.
AskArrives_stale(n) ==
    /\ Arrives(n, {"ask"})
    /\ Continue(n, <<>>)
    /\ UNCHANGED <<stored, list, geo, visible, active, table, rows, pending, prompt, applied, spoilt>>

AskArrives(n) ==
    /\ Arrives(n, {"ask"})
    /\ Continue(n, IF flight[n].answer = "ok" THEN <<List(Answer)>> ELSE <<>>)
    /\ UNCHANGED <<stored, list, geo, visible, active, table, rows, pending, prompt, applied, spoilt>>

Next ==
    \/ Import \/ RetryImport \/ CancelImport \/ removeLayer \/ classifyPanel \/ crsPanel
    \/ setupAsk \/ openTable \/ TurnPage \/ drawMap
    \/ \E n \in DOMAIN flight :
        \/ ServeRead(n) \/ ServeImport(n) \/ ServeChange(n) \/ ServeRunStarts(n) \/ ServeRunEnds(n)
        \/ refreshLayers(n) \/ TableArrives(n) \/ loadGeometry(n) \/ importFile(n)
        \/ ChangeArrives(n) \/ AskArrives(n)

Spec == Init /\ [][Next]_viewVars

----------------------------------------------------------------------------
Quiet == DOMAIN flight = {}

(***************************************************************************)
(* When nothing is on its way, the listing on screen is the server's,      *)
(* unless an older listing was applied after a newer one or a replacement  *)
(* failed half-way: every handler that changes the store refreshes, also   *)
(* when several run at once.                                               *)
(***************************************************************************)
QuietListIsCurrent == Quiet /\ "list" \notin spoilt => list = stored

(***************************************************************************)
(* When nothing is on its way, no page overtook another and none was turned*)
(* to while its layer was gone, the rows on screen are a page of the open  *)
(* table, at the offset the pager stands at, and never those of a layer    *)
(* that was removed.                                                       *)
(***************************************************************************)
QuietTableIsActive ==
    Quiet /\ "rows" \notin spoilt /\ active # NoLayer =>
        rows = [id |-> active, page |-> table.page]

\* The CRS prompt is open exactly while an import waits for its CRS, whatever
\* imports, retries and cancellations interleave.
PromptMatchesPending == prompt <=> pending # NoLayer
============================================================================
