---------------------------- MODULE WorkflowGraph ----------------------------
(***************************************************************************)
(* Validation of a GeoWorkflow before it may run: GeoWorkflow::validate and*)
(* topological_order (crates/genegis-workflow/src/graph.rs).               *)
(*                                                                         *)
(* Node identifiers are naturals so that the lexicographic order the code's*)
(* BTreeSets iterate in is the order of the numbers; 0 stands for a blank  *)
(* stable_id.  A data reference names a node and a port, or no node and the*)
(* name of an input contract.                                              *)
(***************************************************************************)
EXTENDS Naturals, Sequences, FiniteSets, FiniteSetsExt, Functions

NoNode == 0

DataRef(node, port) == [node |-> node, port |-> port]

(***************************************************************************)
(* A step has the stable_id it was written with (0 when blank), the        *)
(* identifier that operation and parameters derive (`derived`), and its    *)
(* depends_on, inputs and outputs.                                         *)
(***************************************************************************)
node_id(step) == IF step.stable_id = 0 THEN step.derived ELSE step.stable_id

NodeIds(w) == {node_id(w.steps[i]) : i \in DOMAIN w.steps}

\* The position `nodes` of the code maps a node identifier to.
IndexOf(w, n) == CHOOSE i \in DOMAIN w.steps : node_id(w.steps[i]) = n

is_legacy_linear(w) ==
    \A i \in DOMAIN w.steps :
        LET s == w.steps[i]
        IN  s.stable_id = 0 /\ s.depends_on = {} /\ s.inputs = {} /\ s.outputs = {}

\* Workflows written before the graph schema run in the order of their steps.
DependenciesOf(w, i) ==
    IF is_legacy_linear(w) /\ i > 1
    THEN {node_id(w.steps[i - 1])}
    ELSE w.steps[i].depends_on

InputsOf(w, i) ==
    IF is_legacy_linear(w) /\ i > 1
    THEN {DataRef(node_id(w.steps[i - 1]), "result")}
    ELSE w.steps[i].inputs

Exports(w, n) == w.steps[IndexOf(w, n)].outputs

-----------------------------------------------------------------------------
(* The checks, in the order the code makes them                            *)

DistinctNodeIds(w) ==
    \A i, j \in DOMAIN w.steps : node_id(w.steps[i]) = node_id(w.steps[j]) => i = j

\* validate_input_contracts: names are distinct and each contract is coherent.
validate_input_contracts(w) ==
    /\ \A i, j \in DOMAIN w.input_contracts :
          w.input_contracts[i].name = w.input_contracts[j].name => i = j
    /\ \A i \in DOMAIN w.input_contracts : w.input_contracts[i].coherent

ContractNames(w) == {w.input_contracts[i].name : i \in DOMAIN w.input_contracts}

\* Every edge and every data reference of step i resolves.
ReferencesResolve(w, i) ==
    LET deps == DependenciesOf(w, i)
    IN  /\ deps \subseteq NodeIds(w) \ {node_id(w.steps[i])}
        /\ \A r \in InputsOf(w, i) :
              IF r.node = NoNode
              THEN r.port \in ContractNames(w)
              ELSE /\ r.node \in deps
                   /\ is_legacy_linear(w) \/ r \in Exports(w, r.node)

\* Faulty variants: a node is ready as soon as one dependency is placed; ties
\* are broken by the position of the step rather than by its identifier.
PlacedFirstAnyDependency(w) ==
    LET N == Cardinality(NodeIds(w))
        deps == [n \in NodeIds(w) |-> DependenciesOf(w, IndexOf(w, n))]
        order[k \in 0..N] ==
            IF k = 0 THEN << >>
            ELSE LET prefix == order[k - 1]
                     placed == Range(prefix)
                     ready  == {n \in NodeIds(w) \ placed :
                                   deps[n] = {} \/ deps[n] \cap placed # {}}
                 IN  IF ready = {} THEN prefix ELSE Append(prefix, Min(ready))
    IN  order[N]

PlacedFirstListed(w) ==
    LET N == Cardinality(NodeIds(w))
        order[k \in 0..N] ==
            IF k = 0 THEN << >>
            ELSE LET prefix == order[k - 1]
                     placed == Range(prefix)
                     ready  == {i \in DOMAIN w.steps : /\ node_id(w.steps[i]) \notin placed
                                                       /\ DependenciesOf(w, i) \subseteq placed}
                 IN  IF ready = {} THEN prefix
                     ELSE Append(prefix, node_id(w.steps[Min(ready)]))
    IN  order[N]

\* Faulty variant: the loop ends one node early.
PlacedFirstOneShort(w) ==
    LET N == Cardinality(NodeIds(w))
        deps == [n \in NodeIds(w) |-> DependenciesOf(w, IndexOf(w, n))]
        order[k \in 0..N] ==
            IF k = 0 THEN << >>
            ELSE LET prefix == order[k - 1]
                     placed == Range(prefix)
                     ready  == {n \in NodeIds(w) \ placed : deps[n] \subseteq placed}
                 IN  IF ready = {} THEN prefix ELSE Append(prefix, Min(ready))
    IN  order[N - 1]

\* Kahn's algorithm: the least node whose dependencies are all placed is next.
PlacedFirst(w) ==
    LET N == Cardinality(NodeIds(w))
        deps == [n \in NodeIds(w) |-> DependenciesOf(w, IndexOf(w, n))]
        order[k \in 0..N] ==
            IF k = 0 THEN << >>
            ELSE LET prefix == order[k - 1]
                     placed == Range(prefix)
                     ready  == {n \in NodeIds(w) \ placed : deps[n] \subseteq placed}
                 IN  IF ready = {} THEN prefix ELSE Append(prefix, Min(ready))
    IN  order[N]

\* What the worklists of the code collect: all nodes a set leads to along edges.
Spread(start, edges) ==
    LET N == Cardinality(edges)
        reached[k \in 0..N] ==
            IF k = 0 THEN start
            ELSE LET seen == reached[k - 1]
                 IN  seen \cup {e[2] : e \in {f \in edges : f[1] \in seen}}
    IN  reached[N]

\* <<d, n>> is an edge when n depends on d.
Edges(w) ==
    UNION {DependenciesOf(w, i) \X {node_id(w.steps[i])} : i \in DOMAIN w.steps}

\* Faulty variant: the first listed step is taken for the only root.
RootNodesFirstStep(w) == {node_id(w.steps[1])}

RootNodes(w) == {n \in NodeIds(w) : DependenciesOf(w, IndexOf(w, n)) = {}}

\* Faulty variant: only children are followed.
UndirectedEdgesForward(w) == Edges(w)

UndirectedEdges(w) == Edges(w) \cup {<<e[2], e[1]>> : e \in Edges(w)}

\* The component of the least node is the only one.
Connected(w) == Spread({Min(NodeIds(w))}, UndirectedEdges(w)) = NodeIds(w)

OutputsDeclared(w) ==
    is_legacy_linear(w) \/ \A i \in DOMAIN w.steps :
        /\ w.steps[i].outputs # {}
        /\ \A r \in w.steps[i].outputs : r.node = node_id(w.steps[i])

validate_output_refs(w) ==
    \A r \in w.output_refs :
        /\ r.node \in NodeIds(w)
        /\ is_legacy_linear(w) \/ r \in Exports(w, r.node)

\* A contract of an exported port; `coherent` is GeoContract::validate.
validate_output_contracts(w) ==
    \A i \in DOMAIN w.steps :
        LET cs == w.steps[i].output_contracts
        IN  /\ \A c, d \in DOMAIN cs : cs[c].port = cs[d].port => c = d
            /\ \A c \in DOMAIN cs :
                  /\ cs[c].coherent
                  /\ \/ is_legacy_linear(w)
                     \/ DataRef(node_id(w.steps[i]), cs[c].port) \in w.steps[i].outputs

(***************************************************************************)
(* The verdict of topological_order: the order, or the first check that    *)
(* fails.  The errors about one step's references are not told apart.      *)
(***************************************************************************)
Rejected(error) == [error |-> error, order |-> << >>]
Ordered(order)  == [error |-> "none", order |-> order]

topological_order(w) ==
    IF w.steps = << >> THEN Rejected("EmptyGraph")
    ELSE IF ~ DistinctNodeIds(w) THEN Rejected("DuplicateNodeId")
    ELSE IF ~ validate_input_contracts(w) THEN Rejected("InvalidInputContract")
    ELSE IF \E i \in DOMAIN w.steps : ~ ReferencesResolve(w, i)
         THEN Rejected("UnresolvedReference")
    ELSE IF Len(PlacedFirst(w)) # Len(w.steps) THEN Rejected("Cycle")
    ELSE IF Spread(RootNodes(w), Edges(w)) # NodeIds(w) THEN Rejected("UnreachableNodes")
    ELSE IF ~ Connected(w) THEN Rejected("DisconnectedNodes")
    ELSE IF ~ OutputsDeclared(w) THEN Rejected("MissingOutputReferences")
    ELSE IF ~ validate_output_refs(w) THEN Rejected("UnresolvedOutputReference")
    ELSE IF ~ validate_output_contracts(w) THEN Rejected("InvalidOutputContract")
    ELSE Ordered(PlacedFirst(w))

Valid(w) == topological_order(w).error = "none"
=============================================================================
