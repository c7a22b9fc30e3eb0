---------------------------- MODULE MCEditSession ----------------------------
EXTENDS EditSession

CONSTANT MaxArea   \* bound on the area of a drawn polygon, in area units

\* Attribute maps: one the schema accepts, one it rejects.
MCAttributes == {"ok", "bad"}

MCInitialLayer == NewEditLayer("Polygon", {"ok"})

Drawn ==
    [shape : {"Polygon", "Point"}, area : 0..MaxArea, closed : {TRUE}, dups : {FALSE}]
        \cup [shape : {"Polygon"}, area : {MaxArea}, closed : BOOLEAN, dups : {TRUE}]

DrawnDrafts(ids) == [id : ids, geometry : Drawn, attributes : {"ok"}]
    \cup [id : ids, geometry : {g \in Drawn : g.area = MaxArea}, attributes : {"bad"}]

UnitDrafts == [id : FeatureIds, attributes : {"ok"},
               geometry : [shape : {"Polygon"}, area : {1}, closed : {TRUE}, dups : {FALSE}]]

\* A client edits what it sees: it names features of its view with the
\* revisions it saw there.
MCEditsOn(v) ==
    LET Rev(f) == v.features[f].revision
        Seen   == Present(v)
    IN  [op : {"Create"}, feature : DrawnDrafts(FeatureIds)]
        \cup UNION {[op : {"Update"}, feature : DrawnDrafts({f}), expected : {Rev(f)}] :
                       f \in Seen}
        \cup {[op |-> op, id |-> f, expected |-> Rev(f)] :
                 op \in {"Delete", "Repair"}, f \in Seen}
        \cup {[op |-> "Split", id |-> f, expected |-> Rev(f), parts |-> p] :
                 f \in Seen, p \in {<<d1, d2>> : d1, d2 \in UnitDrafts}}
        \cup {[op |-> "Merge", ids |-> <<f, g>>, expected |-> <<Rev(f), Rev(g)>>,
               merged |-> d] :
                 f \in Seen, g \in Seen, d \in UnitDrafts}
=============================================================================
