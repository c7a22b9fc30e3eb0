---------------------------- MODULE WalkRouting ----------------------------
(***************************************************************************)
(* Routing over street networks: building the graph, travel times on foot  *)
(* and with transit, isochrones, and the accessibility and evacuation      *)
(* analyses that rest on them (crates/genegis-network, accessibility.rs    *)
(* and evacuation.rs of crates/genegis-analysis).                          *)
(*                                                                         *)
(* Coordinates are pairs of integers, and a unit of length takes a unit of *)
(* time on foot.  Two coordinates in one cell are one node.  A line is     *)
(* [coords, walk_min], walk_min being Undeclared or the minutes the        *)
(* network declares for it; streets are given between points a whole       *)
(* number of units apart.                                                  *)
(***************************************************************************)
EXTENDS Integers, Sequences, FiniteSets, FiniteSetsExt, SequencesExt

Undeclared == -1
Unreached == 1000000    \* None among the travel times

-----------------------------------------------------------------------------
(* The graph: [nodes, adjacency], a node being its index.                  *)

Cell == 3
quantize(p) == <<(p[1] + 1) \div Cell, (p[2] + 1) \div Cell>>

Square(p, q) == (p[1] - q[1]) * (p[1] - q[1]) + (p[2] - q[2]) * (p[2] - q[2])
segment_length_m(p, q) == CHOOSE d \in 0..50 : d * d = Square(p, q)

Known(nodes, p) == {i \in DOMAIN nodes : quantize(nodes[i]) = quantize(p)}

(* Faulty variant: lengths between the coordinates as they are written.    *)
StreetLength_asWritten(nodes, p, q) == segment_length_m(p, q)

(* Lengths are measured between the nodes the coordinates stand for.       *)
StreetLength(nodes, p, q) ==
    segment_length_m(nodes[Min(Known(nodes, p))], nodes[Min(Known(nodes, q))])

\* The edge between two consecutive coordinates of a line.
Edge(nodes, line, p, q) ==
    [from |-> Min(Known(nodes, p)), to |-> Min(Known(nodes, q)),
     cost |-> IF line.walk_min = Undeclared THEN StreetLength(nodes, p, q)
              ELSE line.walk_min \div (Len(line.coords) - 1)]

Connected(nodes, edges, line, k) ==
    [nodes |-> nodes,
     edges |-> IF k = 1 THEN edges ELSE Append(edges, Edge(nodes, line, line.coords[k - 1], line.coords[k]))]

(* One coordinate of a line: its node, new or met before, and the edge     *)
(* from the one before it.                                                 *)
Visit(built, line, k) ==
    Connected(IF Known(built.nodes, line.coords[k]) = {} THEN Append(built.nodes, line.coords[k]) ELSE built.nodes,
              built.edges, line, k)

\* Every edge is a slot at both of its ends.
Adjacent(built) ==
    LET Slots(n) == FoldLeft(LAMBDA slots, e :
                        slots \o (IF e.from = n THEN <<[to |-> e.to, cost |-> e.cost]>> ELSE <<>>)
                              \o (IF e.to = n THEN <<[to |-> e.from, cost |-> e.cost]>> ELSE <<>>),
                        <<>>, built.edges)
    IN [nodes |-> built.nodes, adjacency |-> [n \in DOMAIN built.nodes |-> Slots(n)]]

from_geojson_str(lines) ==
    LET Line(built, line) ==
            FoldLeft(LAMBDA b, k : Visit(b, line, k), built, [k \in DOMAIN line.coords |-> k])
    IN Adjacent(FoldLeft(Line, [nodes |-> <<>>, edges |-> <<>>], lines))

(* The nearest node, the first of several.                                 *)
snap_node(g, p) ==
    CHOOSE i \in DOMAIN g.nodes : \A j \in DOMAIN g.nodes :
        \/ Square(g.nodes[i], p) < Square(g.nodes[j], p)
        \/ Square(g.nodes[i], p) = Square(g.nodes[j], p) /\ i <= j

(* Every slot of both directions; the analyses scale a copy.               *)
scale_edge_costs(g, factor) ==
    LET Scaled(n, slot) == [slot EXCEPT !.cost = @ * factor[n, slot.to]]
    IN [g EXCEPT !.adjacency =
           [n \in DOMAIN g.nodes |-> [k \in DOMAIN g.adjacency[n] |-> Scaled(n, g.adjacency[n][k])]]]

-----------------------------------------------------------------------------
(* Travel times.  The queue gives the cheapest entry, the highest node     *)
(* among equals.                                                           *)

Top(heap) ==
    CHOOSE e \in heap : \A f \in heap : e.cost < f.cost \/ (e.cost = f.cost /\ e.node >= f.node)

Relaxed(s, entry) ==
    IF entry.cost < s.times[entry.node]
    THEN [times |-> [s.times EXCEPT ![entry.node] = entry.cost], heap |-> s.heap \cup {entry}]
    ELSE s

(* Faulty variant: streets are walked only away from the older node.       *)
OnFoot_ahead(g, top) ==
    LET ahead == SelectSeq(g.adjacency[top.node], LAMBDA slot : slot.to > top.node)
    IN [k \in DOMAIN ahead |-> [cost |-> top.cost + ahead[k].cost, node |-> ahead[k].to, line |-> "foot"]]

OnFoot(g, top) ==
    [k \in DOMAIN g.adjacency[top.node] |->
        [cost |-> top.cost + g.adjacency[top.node][k].cost, node |-> g.adjacency[top.node][k].to, line |-> "foot"]]

(* Rides are [from, to, line, ride, wait].  A wait is paid when boarding,  *)
(* a transfer penalty when boarding from another line.                     *)
TransferPenalty == 3

Aboard(rides, top) ==
    LET here == SelectSeq(rides, LAMBDA r : top.node \in {r.from, r.to})
        Boarding(r) == IF top.line = r.line THEN 0
                       ELSE r.wait + (IF top.line = "foot" THEN 0 ELSE TransferPenalty)
    IN [k \in DOMAIN here |->
           [cost |-> top.cost + Boarding(here[k]) + here[k].ride,
            node |-> IF here[k].from = top.node THEN here[k].to ELSE here[k].from,
            line |-> here[k].line]]

(* Faulty variant: a passenger does not walk on from a stop.               *)
Onward_ridersStay(g, rides, top) ==
    (IF top.line = "foot" THEN OnFoot(g, top) ELSE <<>>) \o Aboard(rides, top)

Onward(g, rides, top) == OnFoot(g, top) \o Aboard(rides, top)

\* An entry that a cheaper one has overtaken is dropped.
Popped(g, rides, s, top) ==
    FoldLeft(Relaxed, [s EXCEPT !.heap = @ \ {top}],
             IF top.cost > s.times[top.node] THEN <<>> ELSE Onward(g, rides, top))

(* One time for a node, whatever line it was reached by.                   *)
RECURSIVE Settle(_, _, _)
Settle(g, rides, s) ==
    IF s.heap = {} THEN s.times ELSE Settle(g, rides, Popped(g, rides, s, Top(s.heap)))

transit_times_from(g, rides, origin) ==
    Settle(g, rides, [times |-> [n \in DOMAIN g.nodes |-> IF n = origin THEN 0 ELSE Unreached],
                      heap |-> {[cost |-> 0, node |-> origin, line |-> "foot"]}])

travel_times_from(g, origin) == transit_times_from(g, <<>>, origin)

cumulative_opportunities(times, pois, threshold) ==
    Cardinality({i \in DOMAIN pois : times[pois[i]] <= threshold})

-----------------------------------------------------------------------------
(* A corridor [coords, line, wait, ride]: a ride between the nodes of each *)
(* two stops, none where both are the same node.  A declared ride time is  *)
(* charged for every one of them; otherwise riding is four times as fast   *)
(* as walking, between the stops as they are written.                      *)
load_transit_corridors(g, corridors) ==
    LET Ride(c, k) == [from |-> snap_node(g, c.coords[k]), to |-> snap_node(g, c.coords[k + 1]),
                       line |-> c.line, wait |-> c.wait,
                       ride |-> IF c.ride = Undeclared THEN segment_length_m(c.coords[k], c.coords[k + 1]) \div 4 ELSE c.ride]
        All(c) == [k \in 1..(Len(c.coords) - 1) |-> Ride(c, k)]
    IN SelectSeq(FlattenSeq([i \in DOMAIN corridors |-> All(corridors[i])]), LAMBDA r : r.from # r.to)

-----------------------------------------------------------------------------
(* Isochrones                                                              *)

cross(o, a, b) == (a[1] - o[1]) * (b[2] - o[2]) - (a[2] - o[2]) * (b[1] - o[1])

RECURSIVE Kept(_, _)
Kept(chain, p) ==
    IF Len(chain) >= 2 /\ cross(chain[Len(chain) - 1], chain[Len(chain)], p) <= 0
    THEN Kept(Front(chain), p) ELSE chain

Chain(points) == FoldLeft(LAMBDA chain, p : Append(Kept(chain, p), p), <<>>, points)

Sorted(points) == SetToSortSeq(points, LAMBDA p, q : p[1] < q[1] \/ (p[1] = q[1] /\ p[2] < q[2]))

(* Faulty variant: both chains run from left to right.                     *)
Hull_unreversed(sorted) ==
    IF Len(sorted) < 3 THEN sorted ELSE Front(Chain(sorted)) \o Front(Chain(sorted))

Hull(sorted) ==
    IF Len(sorted) < 3 THEN sorted ELSE Front(Chain(sorted)) \o Front(Chain(Reverse(sorted)))

convex_hull(points) == Hull(Sorted(points))

Reach(g, times, threshold) == {g.nodes[n] : n \in {m \in DOMAIN g.nodes : times[m] <= threshold}}

isochrone(g, origin, threshold) == convex_hull(Reach(g, travel_times_from(g, origin), threshold))

(* Inside or on a hull that turns left at every vertex.                    *)
Inside(p, hull) ==
    IF Len(hull) < 3 THEN p \in {hull[k] : k \in DOMAIN hull}
    ELSE \A k \in DOMAIN hull : cross(hull[k], hull[(k % Len(hull)) + 1], p) >= 0

-----------------------------------------------------------------------------
(* Analyses                                                                *)

(* Reachable points of interest and the nearest one.                       *)
AccessibilityFeature(times, pois, threshold) ==
    [reachable |-> cumulative_opportunities(times, pois, threshold),
     nearest |-> Min({times[pois[i]] : i \in DOMAIN pois})]

(* The assertion on the first points of interest of a ward: a route is no  *)
(* shorter than the straight line.                                         *)
straight_line_floor(g, times, origin, pois) ==
    \A i \in DOMAIN pois : (i <= 4 /\ times[pois[i]] # Unreached) =>
        times[pois[i]] * times[pois[i]] >= Square(g.nodes[origin], g.nodes[pois[i]])

(* [asserted, features, and the check that is not bound to pass].          *)
AccessibilityReport(g, times, wards, pois, threshold) ==
    [asserted |-> \A i \in DOMAIN wards : straight_line_floor(g, times[i], wards[i], pois),
     features |-> [i \in DOMAIN wards |-> AccessibilityFeature(times[i], pois, threshold)],
     threshold_monotonicity |->
         cumulative_opportunities(times[1], pois, threshold \div 2) <= cumulative_opportunities(times[1], pois, threshold)]

run_nagoya_accessibility_with_threshold(g, wards, pois, threshold) ==
    AccessibilityReport(g, [i \in DOMAIN wards |-> travel_times_from(g, wards[i])], wards, pois, threshold)

TransitReport(g, rides, wards, pois, threshold) ==
    [ok |-> rides # <<>>,
     features |-> [i \in DOMAIN wards |-> AccessibilityFeature(transit_times_from(g, rides, wards[i]), pois, threshold)]]

run_nagoya_accessibility_with_transit(g, corridors, wards, pois, threshold) ==
    TransitReport(g, load_transit_corridors(g, corridors), wards, pois, threshold)

(* The first of the nearest shelters; 0 when none can be reached.          *)
nearest_on(times, shelters) ==
    LET reached == {i \in DOMAIN shelters : times[shelters[i]] # Unreached}
    IN IF reached = {} THEN 0
       ELSE Min({i \in reached : \A j \in reached : times[shelters[i]] <= times[shelters[j]]})

(* Faulty variant: the depth alone is the factor.                          *)
penalty_for_depth_bare(depth, penalty) == depth * penalty

penalty_for_depth(depth, penalty) == 1 + depth * penalty

(* Depths are those of the edges' midpoints, by the pair of their nodes.   *)
Flooded(g, depth, penalty) ==
    scale_edge_costs(g, [a, b \in DOMAIN g.nodes |->
        penalty_for_depth(IF {a, b} \in DOMAIN depth THEN depth[{a, b}] ELSE 0, penalty)])

Nearest(times, shelters, i) ==
    [shelter |-> i, minutes |-> IF i = 0 THEN Unreached ELSE times[shelters[i]]]

(* What is said of a ward: its nearest shelters and the way to them, by    *)
(* the times from it over dry and flooded streets.                         *)
EvacuationFeature(dry, wet, shelters) ==
    [clean |-> Nearest(dry, shelters, nearest_on(dry, shelters)),
     wet |-> Nearest(wet, shelters, nearest_on(wet, shelters))]

(* An error when a ward reaches no shelter; else its features and checks.  *)
EvacuationReport(features, times) ==
    [ok |-> \A i \in DOMAIN features : features[i].clean.shelter # 0 /\ features[i].wet.shelter # 0,
     features |-> features,
     penalty_monotonicity |-> \A i \in DOMAIN features : features[i].wet.minutes >= features[i].clean.minutes,
     route_sanity_triangle |-> \A a, b, c \in DOMAIN times :
         (times[a][b] # Unreached /\ times[b][c] # Unreached) => times[a][c] <= times[a][b] + times[b][c]]

\* The times from every node that is a ward or a shelter.
Probed(g, wards, shelters) ==
    [a \in {wards[i] : i \in DOMAIN wards} \cup {shelters[i] : i \in DOMAIN shelters} |-> travel_times_from(g, a)]

\* dry and wet: what is probed of the network and of the flooded one.
run_nagoya_evacuation_access_with_penalty(dry, wet, wards, shelters) ==
    EvacuationReport([i \in DOMAIN wards |-> EvacuationFeature(dry[wards[i]], wet[wards[i]], shelters)], wet)
=============================================================================
