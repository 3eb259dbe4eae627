-------------------------- MODULE CodeGraphQueries --------------------------
(***************************************************************************)
(* How the stored code graph is asked: the neighbourhood of a node, in a   *)
(* number of hops in both directions with the edges met on the way, and    *)
(* the calls that follow from an entry point, breadth first up to a depth. *)
(***************************************************************************)
EXTENDS Naturals, Sequences, FiniteSets

CONSTANTS
    Nodes,
    MaxDepth   \* the bound of hops, of both queries

VARIABLES
    edges,     \* the graph: <<source, target>>
    query,     \* what is asked
    visited,   \* nodes seen so far
    found,     \* edges met (neighbours), steps of the flow (calls)
    frontier,  \* nodes to expand (neighbours)
    queue      \* nodes to expand, with their depth (calls)

qvars == <<edges, query, visited, found, frontier, queue>>

NoQuery == [kind |-> "none"]
Depths == 1 .. MaxDepth

\* Types; a neighbourhood names no edge whose ends it does not name.
TypeOK ==
    /\ edges \subseteq Nodes \X Nodes
    /\ visited \subseteq Nodes /\ frontier \subseteq visited
    /\ query.kind = "neighbours" => \A e \in found : e \in edges /\ {e[1], e[2]} \subseteq visited
    /\ \A i \in 1 .. Len(queue) : queue[i] \in visited \X (0 .. MaxDepth + 1)

Callees(n) == {m \in Nodes : <<n, m>> \in edges}

-----------------------------------------------------------------------------
AskNeighbours ==
    /\ query = NoQuery
    /\ \E g \in SUBSET (Nodes \X Nodes), n \in Nodes, d \in Depths :
         /\ edges' = g
         /\ query' = [kind |-> "neighbours", node |-> n, depth |-> d, hops |-> 0]
         /\ visited' = {n} /\ frontier' = {n}
    /\ found' = {} /\ queue' = <<>>

\* Wrong variant: only what a node points at is near it.
Touching_Out(nodes) == {e \in edges : e[1] \in nodes}

\* The edges out of nodes, and the edges into them.
Touching(nodes) == {e \in edges : e[1] \in nodes \/ e[2] \in nodes}

GetNeighbours ==
    /\ query.kind = "neighbours" /\ query.hops < query.depth
    /\ LET met == Touching(frontier)
           ends == UNION {{e[1], e[2]} : e \in met} IN
         /\ found' = found \union met
         /\ visited' = visited \union ends
         /\ frontier' = ends \ visited
    /\ query' = [query EXCEPT !.hops = @ + 1]
    /\ UNCHANGED <<edges, queue>>

AskFlow ==
    /\ query = NoQuery
    /\ \E g \in SUBSET (Nodes \X Nodes), n \in Nodes :
         /\ edges' = g
         /\ query' = [kind |-> "calls", node |-> n]
         /\ visited' = {n} /\ queue' = <<<<n, 0>>>>
    /\ found' = {} /\ frontier' = {}

\* Wrong variant: a node at the last depth is not looked at.
TooDeep_Early(depth) == depth >= MaxDepth

TooDeep(depth) == depth > MaxDepth

\* The next of the queue; its callees follow in an order of the database's.
TraceFlow ==
    /\ query.kind = "calls" /\ queue # <<>>
    /\ LET n == Head(queue)[1]
           depth == Head(queue)[2]
           new == IF TooDeep(depth) THEN {} ELSE Callees(n) \ visited IN
         /\ found' = IF TooDeep(depth) \/ n = query.node THEN found ELSE found \union {n}
         /\ visited' = visited \union new
         /\ \E order \in {s \in [1 .. Cardinality(new) -> new] :
                             \A i, j \in 1 .. Cardinality(new) : i # j => s[i] # s[j]} :
              queue' = Tail(queue) \o [i \in 1 .. Cardinality(new) |-> <<order[i], depth + 1>>]
    /\ UNCHANGED <<edges, query, frontier>>

Done ==
    /\ \/ query.kind = "neighbours" /\ query.hops = query.depth
       \/ query.kind = "calls" /\ queue = <<>>
    /\ query' = NoQuery
    /\ edges' = {} /\ visited' = {} /\ found' = {} /\ frontier' = {} /\ queue' = <<>>

-----------------------------------------------------------------------------
Init ==
    /\ query = NoQuery
    /\ edges = {} /\ visited = {} /\ found = {} /\ frontier = {} /\ queue = <<>>

Next == AskNeighbours \/ GetNeighbours \/ AskFlow \/ TraceFlow \/ Done

Spec == Init /\ [][Next]_qvars

-----------------------------------------------------------------------------
\* The nodes a walk of at most k edges leads to from n: k steps, along a pair or
\* on the spot.
Within(n, k, pairs) ==
    {m \in Nodes : \E walk \in [0 .. k -> Nodes] :
        /\ walk[0] = n /\ walk[k] = m
        /\ \A i \in 1 .. k : walk[i] = walk[i - 1] \/ <<walk[i - 1], walk[i]>> \in pairs}

Adjacent == edges \union {<<e[2], e[1]>> : e \in edges}

\* After each hop the neighbourhood is every node within so many edges, and
\* every edge that begins or ends closer than that.
NeighbourhoodIsBall ==
    query.kind = "neighbours" =>
      /\ visited = Within(query.node, query.hops, Adjacent)
      /\ found = IF query.hops = 0 THEN {}
                 ELSE Touching(Within(query.node, query.hops - 1, Adjacent))

\* When the queue is empty the flow has every node the entry point calls
\* within the depth, itself left out, in whatever order edges are stored.
FlowIsComplete ==
    query.kind = "calls" /\ queue = <<>> =>
      found = Within(query.node, MaxDepth, edges) \ {query.node}
=============================================================================
