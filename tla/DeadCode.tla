-------------------------------- MODULE DeadCode --------------------------------
(***************************************************************************)
(* find_dead_code (indexer/db/_callgraph.py): which functions of a build   *)
(* nothing calls.  The roots are what the link or the hardware reaches     *)
(* without a call; a worklist finds what they reach; the functions that    *)
(* are left get a verdict; and the unreachable ones that have references   *)
(* are grouped into strongly connected components, by Tarjan's algorithm   *)
(* without recursion.                                                      *)
(*                                                                         *)
(* Beside the fields of CallGraph (without main and transits) a graph has  *)
(*   universe   the definitions that are looked at                         *)
(*   weak       alias rows, <<declaration, target>>                        *)
(*   unowned    targets of followed rows that have no from_usr, other than *)
(*              the global constructors: tables of function pointers       *)
(*   slots      targets of rows of the vector kinds                        *)
(*   slotted    targets of indirect rows with a slot_index                 *)
(*   assigned   functions in fp_assignments                                *)
(*   evidence   entry point, ctor_root rows, attributes, KEEP sections     *)
(*   possible   possible call sites, <<caller, candidate>>                 *)
(*   overrides  pairs <<method of the base, method of the derived class>>  *)
(***************************************************************************)
EXTENDS CallGraph, Sequences, FiniteSets

CONSTANTS Graphs

VARIABLES graph,
          include_possible,
          at,           \* "search", "ladder", "components", "done"
          reachable, stack,
          status,       \* verdicts: a function from reported functions
          index_of, lowlink, on_stack, work, components

vars == <<graph, include_possible, at, reachable, stack, status, index_of, lowlink, on_stack, work,
          components>>

Empty == [f \in {} |-> 0]

(***************************************************************************)
(* Roots and edges.                                                        *)
(***************************************************************************)
\* A declaration with an alias row refers to its target, so it is no heuristic pair.
IsProgram(g) ==
  /\ {g.universe, g.ctors, g.unowned, g.slots, g.slotted, g.assigned, g.evidence} \subseteq SUBSET Function
  /\ {g.calls, g.others, g.weak, g.alias, g.possible, g.overrides} \subseteq SUBSET (Function \X Function)
  /\ \A pair \in g.alias : IsAliasPair([g EXCEPT !.others = @ \cup g.weak], pair)
  /\ g.slotted \subseteq g.unowned

Rows(g) == g.calls \cup g.weak

\* refs_to_any: only the followed kinds and alias rows are looked at.
Referenced(g) == {e[2] : e \in Rows(g)} \cup g.ctors \cup g.unowned

\* Mutant: heuristic aliases are bridged but no roots.
RootsWithoutPairs(g) == g.evidence \cup g.ctors \cup {e[2] : e \in g.weak}

\* _collect_reachability_roots.
Roots(g) == g.evidence \cup g.ctors \cup {e[2] : e \in g.weak} \cup {pair[2] : pair \in g.alias}

ProvenEdges(g) ==
  Rows(g) \cup {e \in Function \X Function :
                  \E pair \in g.alias : pair[2] = e[2] /\ <<e[1], pair[1]>> \in Rows(g)}

\* Who calls the base method, possibly, may call the override.
PossibleEdges(g) ==
  LET edges == ProvenEdges(g) \cup g.possible
  IN edges \cup {e \in Function \X Function :
                   \E o \in g.overrides : o[2] = e[2] /\ <<e[1], o[1]>> \in edges}

Adjacency(g, possible) == IF possible THEN PossibleEdges(g) ELSE ProvenEdges(g)
Edges == Adjacency(graph, include_possible)
Successors(u) == {v \in Function : <<u, v>> \in Edges}

Registered(g) == g.slots \cup g.slotted

(***************************************************************************)
(* The search.                                                             *)
(***************************************************************************)
Init ==
  /\ graph \in {g \in Graphs : IsProgram(g)}
  /\ include_possible \in BOOLEAN
  /\ at = "search"
  /\ stack = {u \in Roots(graph) : u \in graph.universe \/ Successors(u) # {}}
  /\ reachable = stack
  /\ status = Empty /\ index_of = Empty /\ lowlink = Empty
  /\ on_stack = {} /\ work = << >> /\ components = {}

verdicts == <<status, index_of, lowlink, on_stack, work, components>>

\* Mutant: the search forgets to push what it marks.
VisitWithoutPush ==
  \E u \in stack :
    /\ at = "search"
    /\ reachable' = reachable \cup Successors(u)
    /\ stack' = stack \ {u}
    /\ UNCHANGED <<graph, include_possible, at, verdicts>>

\* One function leaves the worklist; its new successors enter it.
Visit ==
  \E u \in stack :
    /\ at = "search"
    /\ reachable' = reachable \cup Successors(u)
    /\ stack' = (stack \ {u}) \cup (Successors(u) \ reachable)
    /\ UNCHANGED <<graph, include_possible, at, verdicts>>

Searched ==
  /\ at = "search" /\ stack = {}
  /\ at' = "ladder"
  /\ UNCHANGED <<graph, include_possible, reachable, stack, verdicts>>

(***************************************************************************)
(* The classification ladder.                                              *)
(***************************************************************************)
Verdict(u) ==
  IF u \notin Referenced(graph) THEN "dead"
  ELSE IF u \in Registered(graph) \cup graph.assigned THEN "possibly_dead"
  ELSE "graph_unreachable"

\* A function that is rooted and has no reference is live.
Reported ==
  {u \in graph.universe \ reachable : u \in Referenced(graph) \/ u \notin Roots(graph)}

Candidates == {u \in DOMAIN status : status[u] = "graph_unreachable"}

Classify ==
  /\ at = "ladder"
  /\ status' = [u \in Reported |-> Verdict(u)]
  /\ at' = "components"
  /\ UNCHANGED <<graph, include_possible, reachable, stack, index_of, lowlink, on_stack, work, components>>

(***************************************************************************)
(* _tarjan_scc over the candidates and the edges between them.  A frame of *)
(* work is a function and the successors its iterator still has.           *)
(***************************************************************************)
Top == work[Len(work)]
Below(s) == SubSeq(s, 1, Len(s) - 1)
WithEntry(f, u, n) == [v \in DOMAIN f \cup {u} |-> IF v = u THEN n ELSE f[v]]
Lower(u, n) == [lowlink EXCEPT ![u] = IF n < @ THEN n ELSE @]
Counter == Cardinality(DOMAIN index_of)
\* The stack holds functions in the order of their numbers: what lies on it from u upwards.
DownTo(u) == {v \in on_stack : index_of[v] >= index_of[u]}

\* Mutant: the iterators give every successor.
NumberUnfiltered(u, frames) ==
  /\ index_of' = WithEntry(index_of, u, Counter)
  /\ lowlink' = WithEntry(lowlink, u, Counter)
  /\ on_stack' = on_stack \cup {u}
  /\ work' = Append(frames, [node |-> u, rest |-> Successors(u)])
  /\ UNCHANGED <<graph, include_possible, at, reachable, stack, status, components>>

Number(u, frames) ==
  /\ index_of' = WithEntry(index_of, u, Counter)
  /\ lowlink' = WithEntry(lowlink, u, Counter)
  /\ on_stack' = on_stack \cup {u}
  /\ work' = Append(frames, [node |-> u, rest |-> Successors(u) \cap Candidates])
  /\ UNCHANGED <<graph, include_possible, at, reachable, stack, status, components>>

StartComponent ==
  /\ at = "components" /\ work = << >>
  /\ \E u \in Candidates \ DOMAIN index_of : Number(u, << >>)

\* The iterator of the top frame gives its next successor.
FollowEdge ==
  /\ at = "components" /\ work # << >>
  /\ \E v \in Top.rest :
       LET frames == [work EXCEPT ![Len(work)].rest = @ \ {v}]
       IN IF v \notin DOMAIN index_of
          THEN Number(v, frames)
          ELSE /\ work' = frames
               /\ lowlink' = IF v \in on_stack THEN Lower(Top.node, index_of[v]) ELSE lowlink
               /\ UNCHANGED <<graph, include_possible, at, reachable, stack, status, index_of, on_stack,
                              components>>

\* Mutant: the parent does not learn the child's link.
ReturnWithoutLink ==
  /\ at = "components" /\ work # << >> /\ Top.rest = {}
  /\ work' = Below(work)
  /\ UNCHANGED lowlink
  /\ IF lowlink[Top.node] = index_of[Top.node]
     THEN /\ components' = components \cup {DownTo(Top.node)}
          /\ on_stack' = on_stack \ DownTo(Top.node)
     ELSE UNCHANGED <<components, on_stack>>
  /\ UNCHANGED <<graph, include_possible, at, reachable, stack, status, index_of>>

\* The frame is done: its link goes to the frame below, and the function closes a
\* component when its link is its own number.
Return ==
  /\ at = "components" /\ work # << >> /\ Top.rest = {}
  /\ work' = Below(work)
  /\ lowlink' = IF Len(work) > 1 THEN Lower(work[Len(work) - 1].node, lowlink[Top.node]) ELSE lowlink
  /\ IF lowlink[Top.node] = index_of[Top.node]
     THEN /\ components' = components \cup {DownTo(Top.node)}
          /\ on_stack' = on_stack \ DownTo(Top.node)
     ELSE UNCHANGED <<components, on_stack>>
  /\ UNCHANGED <<graph, include_possible, at, reachable, stack, status, index_of>>

Report ==
  /\ at = "components" /\ work = << >> /\ Candidates \subseteq DOMAIN index_of
  /\ at' = "done"
  /\ UNCHANGED <<graph, include_possible, reachable, stack, verdicts>>

Next == Visit \/ Searched \/ Classify \/ StartComponent \/ FollowEdge \/ Return \/ Report

Spec == Init /\ [][Next]_vars

(***************************************************************************)
(* Properties                                                              *)
(***************************************************************************)
\* Every variable has its type.
TypeOK ==
  /\ IsProgram(graph) /\ include_possible \in BOOLEAN
  /\ at \in {"search", "ladder", "components", "done"}
  /\ reachable \subseteq Function /\ stack \subseteq reachable
  /\ DOMAIN status \subseteq graph.universe
  /\ \A u \in DOMAIN status : status[u] \in {"dead", "possibly_dead", "graph_unreachable"}
  /\ DOMAIN index_of \subseteq Candidates
  /\ index_of \in [DOMAIN index_of -> Nat] /\ lowlink \in [DOMAIN index_of -> Nat]
  /\ on_stack \subseteq DOMAIN index_of
  /\ work \in Seq([node : DOMAIN index_of, rest : SUBSET Candidates])
  /\ components \subseteq SUBSET Candidates

\* What must be live: the roots, and what a live function has an edge to.
IsClosed(S) == Roots(graph) \subseteq S /\ \A e \in Edges : e[1] \in S => e[2] \in S

\* A function is reported exactly when the roots do not reach it: some set that holds
\* the roots and is closed under the edges leaves it out.  Both halves matter: a
\* function the search forgets is a false accusation, and a live-looking dead one is
\* a gap; and a zero-ref function that only possible edges reach must not be reported.
ReportedIsUnreachable ==
  at \in {"components", "done"} =>
    \A u \in graph.universe :
      u \in DOMAIN status <=> \E S \in SUBSET Function : IsClosed(S) /\ u \notin S

\* What the ladder's comment relies on (_callgraph.py:1329-1337): over the proven
\* edges, what is reached is a root or has a row in refs, although an alias is
\* crossed by an edge that has none.
ReachedHasReason == ~ include_possible => reachable \subseteq Roots(graph) \cup Referenced(graph)

\* v is reached from u by candidates alone: no set of candidates that holds u and is
\* closed under the edges between them leaves v out.
Reaches(u, v) ==
  \A S \in SUBSET Candidates :
    u \in S /\ (\A w \in S : Successors(w) \cap Candidates \subseteq S) => v \in S

Cycle(u) == {v \in Candidates : Reaches(u, v) /\ Reaches(v, u)}

\* The components are the cycles: each is one whole class of the candidates that
\* reach each other, and every candidate is in one.
ComponentsAreCycles == at = "done" => components = {Cycle(u) : u \in Candidates}

\* What the docstring says (_callgraph.py:1148-1160): a function in a slot of an
\* interrupt vector table is possibly_dead, never dead.
VectorSlotIsUncertain == \A u \in DOMAIN status : u \in Registered(graph) => status[u] = "possibly_dead"
=============================================================================
