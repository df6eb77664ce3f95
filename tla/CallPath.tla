-------------------------------- MODULE CallPath --------------------------------
(***************************************************************************)
(* find_call_path (indexer/db/_callgraph.py): the search from the source   *)
(* function and from the target at the same time.  Each round expands all  *)
(* functions of the forward front and then all of the reverse front; a     *)
(* function that the other front knows closes a path.                      *)
(*                                                                         *)
(* The two loops of the code differ in the edges they follow and in the    *)
(* end at which a chain grows, so they are one set of actions here, for    *)
(* the sides "f" and "r".  The rows of a query have no order: the edges of *)
(* one function are followed in any.                                       *)
(***************************************************************************)
EXTENDS CallGraph, Sequences

CONSTANTS Graphs,       \* the graphs to search
          Queries,      \* the calls: [sources, to, max_depth, max_nodes], where sources
                        \* are the USRs of from_name and to is the one of to_name
          MaxPaths      \* _MAX_CALL_PATHS

ASSUME CallPathAssumption ==
  /\ MaxPaths \in Nat \ {0}
  /\ \A q \in Queries : /\ q.sources \subseteq Function /\ q.sources # {} /\ q.to \in Function
                        /\ {q.max_depth, q.max_nodes} \subseteq Nat

VARIABLES graph,        \* what the tables hold
          query,
          at,           \* "direct", "round", "f" or "r" (a front is expanded), "done"
          chain,        \* chain[side][v]: f_chain and r_chain, << >> where v is unknown
          dist,         \* dist[side][v]: f_dist and r_dist
          queue,        \* queue[side]: f_queue and r_queue
          left,         \* how many of the queue belong to this round
          node,         \* the function that is expanded
          todo,         \* its edges still to follow
          depth, expanded,
          found

vars == <<graph, query, at, chain, dist, queue, left, node, todo, depth, expanded, found>>

Side == {"f", "r"}
Other(side) == IF side = "f" THEN "r" ELSE "f"
Known(side) == {v \in Node : chain[side][v] # << >>}

(***************************************************************************)
(* The edges of a front.                                                   *)
(***************************************************************************)
\* What is put into _edge_cache before the search.
Bridges(g, u) ==
  {v \in Function : <<u, v>> \in g.alias} \cup {v \in {Ctors} : u = g.main /\ g.ctors # {}}

\* _get_edges and _fwd_transits.  The rows of a function that is in the cache
\* are never read.
OutEdges(g, u) ==
  (IF u = Ctors THEN g.ctors
   ELSE IF Bridges(g, u) # {} THEN Bridges(g, u)
   ELSE {v \in Function : <<u, v>> \in g.calls})
  \cup {v \in Function : <<u, v>> \in g.transits}

\* Mutant: the reverse front is expanded along outgoing edges.
InEdgesOutgoing(g, u) == {v \in Function : <<u, v>> \in g.calls \cup g.transits}

\* _get_in_edges and _rev_transits: nothing is bridged in this direction.
InEdges(g, u) == {v \in Function : <<v, u>> \in g.calls \cup g.transits}

Edges(side, u) == IF side = "f" THEN OutEdges(graph, u) ELSE InEdges(graph, u)

\* _get_edges alone, for the check of a direct edge.
DirectEdges(g, u) == IF Bridges(g, u) # {} THEN Bridges(g, u)
                     ELSE {v \in Function : <<u, v>> \in g.calls}

(***************************************************************************)
(* The search.                                                             *)
(***************************************************************************)
Seeds(side, q) == IF side = "f" THEN q.sources ELSE {q.to}

Init ==
  /\ graph \in {g \in Graphs : IsGraph(g)}
  /\ query \in Queries
  /\ at = "direct"
  /\ chain = [side \in Side |-> [v \in Node |-> IF v \in Seeds(side, query) THEN <<v>> ELSE << >>]]
  /\ dist = [side \in Side |-> [v \in Node |-> 0]]
  /\ \E seeds \in [1 .. 1 -> query.sources] \cup [1 .. 2 -> query.sources] :
       /\ {seeds[i] : i \in DOMAIN seeds} = query.sources
       /\ \A i, j \in DOMAIN seeds : i # j => seeds[i] # seeds[j]
       /\ queue = [side \in Side |-> IF side = "f" THEN seeds ELSE <<query.to>>]
  /\ left = 0 /\ node = NoFunction /\ todo = {}
  /\ depth = 0 /\ expanded = 0
  /\ found = << >>

search == <<chain, dist, queue, left, node, todo, depth, expanded>>

\* The direct edge check before the search: its answer is the only one.
DirectEdge ==
  /\ at = "direct"
  /\ \/ \E u \in query.sources :
          /\ query.to \in DirectEdges(graph, u)
          /\ found' = <<[depth |-> 1, chain |-> <<u, query.to>>]>>
          /\ at' = "done"
     \/ /\ \A u \in query.sources : query.to \notin DirectEdges(graph, u)
        /\ at' = "round"
        /\ UNCHANGED found
  /\ UNCHANGED <<graph, query, search>>

\* Mutant: the loop does not look at the depth.
RoundAnyDepth ==
  /\ at = "round"
  /\ IF queue["f"] # << >> /\ queue["r"] # << >> /\ expanded < query.max_nodes
     THEN /\ at' = "f"
          /\ depth' = depth + 1
          /\ left' = Len(queue["f"])
     ELSE at' = "done" /\ UNCHANGED <<depth, left>>
  /\ UNCHANGED <<graph, query, chain, dist, queue, node, todo, expanded, found>>

\* The loop condition, and the start of a round.
Round ==
  /\ at = "round"
  /\ IF queue["f"] # << >> /\ queue["r"] # << >> /\ depth < query.max_depth
        /\ expanded < query.max_nodes
     THEN /\ at' = "f"
          /\ depth' = depth + 1
          /\ left' = Len(queue["f"])
     ELSE at' = "done" /\ UNCHANGED <<depth, left>>
  /\ UNCHANGED <<graph, query, chain, dist, queue, node, todo, expanded, found>>

\* The next function of the front leaves the queue.
Expand(side) ==
  /\ at = side /\ todo = {} /\ left > 0
  /\ left' = left - 1
  /\ node' = Head(queue[side])
  /\ queue' = [queue EXCEPT ![side] = Tail(@)]
  /\ todo' = Edges(side, Head(queue[side])) \ Known(side)
  /\ UNCHANGED <<graph, query, at, chain, dist, depth, expanded, found>>

\* Mutant: the reverse front hands back to the forward one.
EndFrontWithoutRound(side) ==
  /\ at = side /\ todo = {} /\ left = 0
  /\ at' = Other(side)
  /\ left' = Len(queue[Other(side)])
  /\ UNCHANGED <<graph, query, chain, dist, queue, node, todo, depth, expanded, found>>

\* The front is expanded: the other one follows, or the next round.
EndFront(side) ==
  /\ at = side /\ todo = {} /\ left = 0
  /\ at' = IF side = "f" THEN "r" ELSE "round"
  /\ left' = IF side = "f" THEN Len(queue["r"]) ELSE 0
  /\ UNCHANGED <<graph, query, chain, dist, queue, node, todo, depth, expanded, found>>

Extended(side, c, v) == IF side = "f" THEN Append(c, v) ELSE <<v>> \o c

\* The USRs of from_name have one name: two chains that differ in it have one text.
SameText(c, e) ==
  /\ Len(c) = Len(e)
  /\ \A i \in 1 .. Len(c) : c[i] = e[i] \/ {c[i], e[i]} \subseteq query.sources

\* Mutant: the meeting function is named twice.
JoinedTwice(forward, reverse) == forward \o reverse

\* The chain of the forward front, and that of the reverse one without the
\* function where they meet.
Joined(forward, reverse) == forward \o Tail(reverse)

\* _record_path: a new text is one more path; the list may then be full.
RecordPath(path) ==
  IF \E i \in 1 .. Len(found) : SameText(found[i].chain, path.chain)
  THEN UNCHANGED <<found, at>>
  ELSE /\ found' = Append(found, path)
       /\ at' = IF Len(found) + 1 >= MaxPaths THEN "done" ELSE at

\* An edge to a function that this front does not know.
Follow(side, v) ==
  LET new == Extended(side, chain[side][node], v)
      other == chain[Other(side)][v]
  IN
  /\ at = side /\ v \in todo
  /\ todo' = todo \ {v}
  /\ chain' = [chain EXCEPT ![side][v] = new]
  /\ dist' = [dist EXCEPT ![side][v] = depth]
  /\ queue' = [queue EXCEPT ![side] = Append(@, v)]
  /\ expanded' = expanded + 1
  /\ IF v \in Known(Other(side))
     THEN RecordPath([depth |-> depth + dist[Other(side)][v],
                      chain |-> IF side = "f" THEN Joined(new, other) ELSE Joined(other, new)])
     ELSE UNCHANGED <<found, at>>
  /\ UNCHANGED <<graph, query, left, node, depth>>

Next ==
  \/ DirectEdge \/ Round
  \/ \E side \in Side : Expand(side) \/ EndFront(side) \/ \E v \in Node : Follow(side, v)

Spec == Init /\ [][Next]_vars /\ WF_vars(Next)

(***************************************************************************)
(* Properties                                                              *)
(***************************************************************************)
Path == [depth : Nat, chain : Seq(Node)]

\* Every variable has its type.
TypeOK ==
  /\ IsGraph(graph) /\ query \in Queries
  /\ at \in {"direct", "round", "f", "r", "done"}
  /\ chain \in [Side -> [Node -> Seq(Node)]]
  /\ dist \in [Side -> [Node -> Nat]]
  /\ queue \in [Side -> Seq(Node)]
  /\ left \in Nat /\ node \in Node \cup {NoFunction} /\ todo \subseteq Node
  /\ depth \in 0 .. query.max_depth /\ expanded \in Nat
  /\ found \in Seq(Path)

IsWalk(c) == \A i \in 1 .. Len(c) - 1 : <<c[i], c[i + 1]>> \in AllEdges(graph)

\* What find_call_path says of each path it returns: the chain leads from a
\* function of from_name over edges of the graph to to_name, and the depth is
\* its number of edges, wherever the two fronts met.
PathsAreReal ==
  \A i \in 1 .. Len(found) :
    LET path == found[i]
    IN /\ path.chain # << >>
       /\ path.chain[1] \in query.sources /\ path.chain[Len(path.chain)] = query.to
       /\ IsWalk(path.chain)
       /\ path.depth = Len(path.chain) - 1

\* How long a path can be: the direct edge is looked at whatever max_depth is, and
\* max_depth rounds take max_depth edges from either end.
Horizon == IF query.max_depth = 0 THEN 1 ELSE 2 * query.max_depth

\* Without bridged edges, and within the node limit, the first path is as short as
\* find_all_callers_recursive says a source is from the target, and there is a
\* path when it says so: no meeting of the fronts is missed.
PathsAgreeWithCallers ==
  at = "done" /\ expanded < query.max_nodes /\ graph.alias = {} /\ graph.ctors = {} /\ graph.transits = {}
    => LET distances == {row[2] : row \in {r \in Callers(graph, query.to, Horizon) :
                                             r[1] \in query.sources}}
       IN /\ found = << >> <=> distances = {}
          /\ found # << >> => /\ found[1].depth \in distances
                              /\ \A d \in distances : found[1].depth <= d

\* find_callees_recursive is the inverse of find_all_callers_recursive, as its
\* docstring says, as long as no declaration is an alias.
CalleesInvertCallers ==
  at = "direct" /\ graph.alias = {} =>
    \A f, h \in Function, d \in 1 .. query.max_depth :
      <<f, d>> \in Callers(graph, h, query.max_depth) <=> <<h, d>> \in Callees(graph, f, query.max_depth)

\* What the module says of bridging (_callgraph.py:41-54): aliases and global
\* constructors are passed through, so a target that the edges reach within
\* max_depth is found.
Reached(d) ==
  LET level[n \in 0 .. d] ==
        IF n = 0 THEN query.sources
        ELSE level[n - 1] \cup {v \in Node : \E u \in level[n - 1] : <<u, v>> \in AllEdges(graph)}
  IN level[d]

BridgesAreFollowed ==
  at = "done" /\ expanded < query.max_nodes /\ query.to \in Reached(query.max_depth) \ query.sources
    => found # << >>

\* The search ends.
SearchEnds == <>(at = "done")
=============================================================================
