------------------------------ MODULE DeadCodeProofs ------------------------------
(***************************************************************************)
(* Theorems about DeadCode, for every program and every set of functions:  *)
(* the variables keep their types, what the search reaches has a reason,   *)
(* the functions that are reported are the unreachable ones, and the       *)
(* components are the cycles of the candidates.                            *)
(*                                                                         *)
(* The last takes the longest: TarjanInv says how the stack, the frames    *)
(* and the links hang together while Tarjan's algorithm runs.  A frame     *)
(* reaches what lies above it, what lies above it reaches a frame, and     *)
(* its link bounds every edge that has been followed down the stack; so a  *)
(* frame whose link is its own number has a cycle above it that no edge    *)
(* leaves for the rest of the stack.                                       *)
(***************************************************************************)
EXTENDS DeadCode, FiniteSetTheorems, SequenceTheorems, TLAPS

(***************************************************************************)
(* The program does not change, and its edges join functions.              *)
(***************************************************************************)
LEMMA EdgesJoinFunctions ==
  ASSUME IsProgram(graph), include_possible \in BOOLEAN
  PROVE  /\ Edges \subseteq Function \X Function
         /\ Roots(graph) \subseteq Function
         /\ Referenced(graph) \subseteq Function
         /\ \A u \in Function : Successors(u) \subseteq Function
         /\ graph.universe \subseteq Function
<1>1. Rows(graph) \subseteq Function \X Function
  BY DEF IsProgram, Rows
<1>2. ProvenEdges(graph) \subseteq Function \X Function
  BY <1>1 DEF ProvenEdges
<1>3. PossibleEdges(graph) \subseteq Function \X Function
  BY <1>2 DEF PossibleEdges, IsProgram
<1>4. Edges \subseteq Function \X Function
  BY <1>2, <1>3 DEF Edges, Adjacency
<1>5. \A e \in Rows(graph) \cup graph.alias \cup graph.weak : e[2] \in Function
  BY <1>1 DEF IsProgram
<1>6. Roots(graph) \subseteq Function
  BY <1>5 DEF Roots, IsProgram
<1>7. Referenced(graph) \subseteq Function
  BY <1>5 DEF Referenced, IsProgram
<1>. QED
  BY <1>4, <1>6, <1>7 DEF Successors, IsProgram

(***************************************************************************)
(* Type correctness.                                                       *)
(***************************************************************************)
Before == at \in {"search", "ladder"} => status = Empty

TypeInv == TypeOK /\ IsFiniteSet(DOMAIN index_of) /\ Before

LEMMA TypeInit == Init => TypeInv
<1>. SUFFICES ASSUME Init PROVE TypeInv
  OBVIOUS
<1>1. IsProgram(graph) /\ include_possible \in BOOLEAN /\ at = "search"
  BY DEF Init
<1>2. stack \subseteq Function /\ reachable = stack
  BY <1>1, EdgesJoinFunctions DEF Init
<1>3. /\ DOMAIN status = {} /\ DOMAIN index_of = {}
      /\ index_of \in [DOMAIN index_of -> Nat] /\ lowlink \in [DOMAIN index_of -> Nat]
  BY DEF Init, Empty
<1>4. IsFiniteSet(DOMAIN index_of)
  BY <1>3, FS_EmptySet
<1>5. on_stack = {} /\ work \in Seq([node : DOMAIN index_of, rest : SUBSET Candidates])
  BY DEF Init
<1>6. components \subseteq SUBSET Candidates /\ status = Empty
  BY DEF Init
<1>. QED
  BY <1>1, <1>2, <1>3, <1>4, <1>5, <1>6 DEF TypeInv, TypeOK, Before

\* A new number: the domain grows by the function, the counter is a number.
LEMMA NumberTypes ==
  ASSUME TypeInv, NEW u \in Candidates, NEW frames \in Seq([node : DOMAIN index_of, rest : SUBSET Candidates]),
         Number(u, frames)
  PROVE  TypeInv'
<1>1. Candidates' = Candidates
  BY DEF Number, Candidates
<1>2. Counter \in Nat
  BY FS_CardinalityType DEF TypeInv, Counter
<1>3. DOMAIN index_of' = DOMAIN index_of \cup {u}
  BY DEF Number, WithEntry, TypeInv, TypeOK
<1>4. index_of' \in [DOMAIN index_of' -> Nat]
  BY <1>2, <1>3 DEF Number, WithEntry, TypeInv, TypeOK
<1>5. lowlink' \in [DOMAIN index_of' -> Nat]
  <2>1. DOMAIN lowlink = DOMAIN index_of
    BY DEF TypeInv, TypeOK
  <2>. QED
    BY <2>1, <1>2, <1>3 DEF Number, WithEntry, TypeInv, TypeOK
<1>6. on_stack' \subseteq DOMAIN index_of'
  BY <1>3 DEF Number, TypeInv, TypeOK
<1>7. work' \in Seq([node : DOMAIN index_of', rest : SUBSET Candidates'])
  <2>1. frames \in Seq([node : DOMAIN index_of', rest : SUBSET Candidates'])
    <3>1. [node : DOMAIN index_of, rest : SUBSET Candidates]
            \subseteq [node : DOMAIN index_of', rest : SUBSET Candidates']
      BY <1>1, <1>3
    <3>. QED
      BY <3>1, SeqMonotonic
  <2>2. [node |-> u, rest |-> Successors(u) \cap Candidates] \in [node : DOMAIN index_of', rest : SUBSET Candidates']
    BY <1>1, <1>3
  <2>. QED
    BY <2>1, <2>2 DEF Number
<1>8. IsFiniteSet(DOMAIN index_of')
  BY <1>3, FS_AddElement DEF TypeInv
<1>9. DOMAIN index_of' \subseteq Candidates'
  BY <1>1, <1>3 DEF TypeInv, TypeOK
<1>10. components' \subseteq SUBSET Candidates'
  BY <1>1 DEF Number, TypeInv, TypeOK
<1>11. /\ graph' = graph /\ include_possible' = include_possible /\ at' = at /\ reachable' = reachable
       /\ stack' = stack /\ status' = status
  BY DEF Number
<1>. QED
  BY <1>4, <1>5, <1>6, <1>7, <1>8, <1>9, <1>10, <1>11 DEF TypeInv, TypeOK, Before

LEMMA SearchTypes == ASSUME TypeInv, Visit \/ Searched PROVE TypeInv'
<1>1. /\ graph' = graph /\ include_possible' = include_possible /\ UNCHANGED verdicts
  BY DEF Visit, Searched
<1>2. Candidates' = Candidates
  BY <1>1 DEF Candidates, verdicts
<1>3. reachable' \subseteq Function /\ stack' \subseteq reachable'
  BY EdgesJoinFunctions DEF Visit, Searched, TypeInv, TypeOK
<1>4. at' \in {"search", "ladder"} /\ at = "search"
  BY DEF Visit, Searched
<1>5. /\ status' = status /\ index_of' = index_of /\ lowlink' = lowlink /\ on_stack' = on_stack
      /\ work' = work /\ components' = components
  BY <1>1 DEF verdicts
<1>. QED
  BY <1>1, <1>2, <1>3, <1>4, <1>5 DEF TypeInv, TypeOK, Before

LEMMA ClassifyTypes == ASSUME TypeInv, Classify PROVE TypeInv'
<1>1. /\ graph' = graph /\ include_possible' = include_possible /\ reachable' = reachable /\ stack' = stack
      /\ index_of' = index_of /\ lowlink' = lowlink /\ on_stack' = on_stack /\ work' = work
      /\ components' = components /\ at' = "components"
  BY DEF Classify
<1>2. Candidates = {}
  BY DEF Classify, TypeInv, Before, Candidates, Empty
<1>3. DOMAIN status' \subseteq graph.universe
  BY DEF Classify, Reported
<1>4. \A u \in DOMAIN status' : status'[u] \in {"dead", "possibly_dead", "graph_unreachable"}
  BY DEF Classify, Verdict
<1>5. work \in Seq([node : DOMAIN index_of, rest : SUBSET Candidates'])
  <2>1. [node : DOMAIN index_of, rest : SUBSET Candidates] \subseteq [node : DOMAIN index_of, rest : SUBSET Candidates']
    BY <1>2
  <2>. QED
    BY <2>1, SeqMonotonic DEF TypeInv, TypeOK
<1>6. components \subseteq SUBSET Candidates' /\ DOMAIN index_of \subseteq Candidates'
  BY <1>2 DEF TypeInv, TypeOK
<1>. QED
  BY <1>1, <1>3, <1>4, <1>5, <1>6 DEF TypeInv, TypeOK, Before

LEMMA FollowTypes == ASSUME TypeInv, FollowEdge PROVE TypeInv'
<1>. DEFINE Frame == [node : DOMAIN index_of, rest : SUBSET Candidates]
<1>1. PICK v \in Top.rest :
        LET frames == [work EXCEPT ![Len(work)].rest = @ \ {v}]
        IN IF v \notin DOMAIN index_of
           THEN Number(v, frames)
           ELSE /\ work' = frames
                /\ lowlink' = IF v \in on_stack THEN Lower(Top.node, index_of[v]) ELSE lowlink
                /\ UNCHANGED <<graph, include_possible, at, reachable, stack, status, index_of, on_stack,
                               components>>
  BY DEF FollowEdge
<1>. DEFINE frames == [work EXCEPT ![Len(work)].rest = @ \ {v}]
<1>2. work \in Seq(Frame) /\ work # << >>
  BY DEF TypeInv, TypeOK, FollowEdge
<1>3. Len(work) \in 1 .. Len(work) /\ work \in [1 .. Len(work) -> Frame] /\ Len(work) \in Nat
  <2>1. work \in [1 .. Len(work) -> Frame] /\ Len(work) \in Nat
    BY <1>2, LenProperties
  <2>2. Len(work) # 0
    BY <1>2, EmptySeq
  <2>. QED
    BY <2>1, <2>2
<1>4. Top \in Frame
  BY <1>3 DEF Top
<1>5. frames \in Seq(Frame)
  <2>1. [Top EXCEPT !.rest = @ \ {v}] \in Frame
    BY <1>4
  <2>2. frames = [work EXCEPT ![Len(work)] = [Top EXCEPT !.rest = @ \ {v}]]
    BY <1>3 DEF Top
  <2>. HIDE DEF Frame, frames
  <2>. QED
    BY <2>1, <2>2, <1>2, <1>3, ExceptSeq
<1>6. v \in Candidates
  BY <1>4
<1>7. CASE v \notin DOMAIN index_of
  BY <1>1, <1>5, <1>6, <1>7, NumberTypes
<1>8. CASE v \in DOMAIN index_of
  <2>1. /\ work' = frames
        /\ lowlink' = IF v \in on_stack THEN Lower(Top.node, index_of[v]) ELSE lowlink
        /\ graph' = graph /\ include_possible' = include_possible /\ at' = at /\ reachable' = reachable
        /\ stack' = stack /\ status' = status /\ index_of' = index_of /\ on_stack' = on_stack
        /\ components' = components
    BY <1>1, <1>8
  <2>2. Candidates' = Candidates
    BY <2>1 DEF Candidates
  <2>3. lowlink' \in [DOMAIN index_of -> Nat]
    BY <2>1, <1>4, <1>8 DEF Lower, TypeInv, TypeOK
  <2>4. work' \in Seq([node : DOMAIN index_of', rest : SUBSET Candidates'])
    BY <2>1, <2>2, <1>5
  <2>. QED
    BY <2>1, <2>2, <2>3, <2>4 DEF TypeInv, TypeOK, Before
<1>. QED
  BY <1>7, <1>8

LEMMA ReturnTypes == ASSUME TypeInv, Return PROVE TypeInv'
<1>. DEFINE Frame == [node : DOMAIN index_of, rest : SUBSET Candidates]
<1>1. work \in Seq(Frame) /\ work # << >>
  BY DEF TypeInv, TypeOK, Return
<1>2. Len(work) \in Nat /\ Len(work) >= 1 /\ work \in [1 .. Len(work) -> Frame]
  <2>1. work \in [1 .. Len(work) -> Frame] /\ Len(work) \in Nat
    BY <1>1, LenProperties
  <2>2. Len(work) # 0
    BY <1>1, EmptySeq
  <2>. QED
    BY <2>1, <2>2
<1>3. work' \in Seq(Frame)
  <2>1. work' = SubSeq(work, 1, Len(work) - 1)
    BY DEF Return, Below
  <2>2. Len(work) - 1 \in Nat /\ Len(work) - 1 <= Len(work)
    BY <1>2
  <2>3. \A i \in 1 .. Len(work) - 1 : work[i] \in Frame
    BY <1>2
  <2>. HIDE DEF Frame
  <2>. QED
    BY <2>1, <2>2, <2>3, SubSeqProperties
<1>4. Top \in Frame /\ (Len(work) > 1 => work[Len(work) - 1] \in Frame)
  BY <1>2 DEF Top
<1>5. lowlink' \in [DOMAIN index_of -> Nat]
  BY <1>4 DEF Return, Lower, TypeInv, TypeOK
<1>6. /\ graph' = graph /\ include_possible' = include_possible /\ at' = at /\ reachable' = reachable
      /\ stack' = stack /\ status' = status /\ index_of' = index_of
  BY DEF Return
<1>7. Candidates' = Candidates
  BY <1>6 DEF Candidates
<1>8. on_stack' \subseteq DOMAIN index_of /\ components' \subseteq SUBSET Candidates
  <2>1. DownTo(Top.node) \subseteq DOMAIN index_of /\ DOMAIN index_of \subseteq Candidates
    BY DEF DownTo, TypeInv, TypeOK
  <2>. QED
    BY <2>1 DEF Return, TypeInv, TypeOK
<1>. QED
  BY <1>3, <1>5, <1>6, <1>7, <1>8 DEF TypeInv, TypeOK, Before

LEMMA TypeNext == ASSUME TypeInv, [Next]_vars PROVE TypeInv'
<1>1. CASE Visit \/ Searched
  BY <1>1, SearchTypes
<1>2. CASE Classify
  BY <1>2, ClassifyTypes
<1>3. CASE StartComponent
  <2>1. PICK u \in Candidates \ DOMAIN index_of : Number(u, << >>)
    BY <1>3 DEF StartComponent
  <2>2. << >> \in Seq([node : DOMAIN index_of, rest : SUBSET Candidates])
    OBVIOUS
  <2>. QED
    BY <2>1, <2>2, NumberTypes
<1>4. CASE FollowEdge
  BY <1>4, FollowTypes
<1>5. CASE Return
  BY <1>5, ReturnTypes
<1>6. CASE Report
  <2>1. /\ graph' = graph /\ include_possible' = include_possible /\ reachable' = reachable
        /\ stack' = stack /\ status' = status /\ index_of' = index_of /\ lowlink' = lowlink
        /\ on_stack' = on_stack /\ work' = work /\ components' = components /\ at' = "done"
    BY <1>6 DEF Report, verdicts
  <2>2. Candidates' = Candidates
    BY <2>1 DEF Candidates
  <2>. QED
    BY <2>1, <2>2 DEF TypeInv, TypeOK, Before
<1>7. CASE UNCHANGED vars
  <2>1. /\ graph' = graph /\ include_possible' = include_possible /\ reachable' = reachable
        /\ stack' = stack /\ status' = status /\ index_of' = index_of /\ lowlink' = lowlink
        /\ on_stack' = on_stack /\ work' = work /\ components' = components /\ at' = at
    BY <1>7 DEF vars
  <2>2. Candidates' = Candidates
    BY <2>1 DEF Candidates
  <2>. QED
    BY <2>1, <2>2 DEF TypeInv, TypeOK, Before
<1>. QED
  BY <1>1, <1>2, <1>3, <1>4, <1>5, <1>6, <1>7 DEF Next

(***************************************************************************)
(* Every variable of find_dead_code keeps its type: in particular the      *)
(* Tarjan part numbers candidates only and its frames hold candidates.     *)
(***************************************************************************)
THEOREM TypeCorrect == Spec => []TypeOK
<1>1. Init => TypeInv
  BY TypeInit
<1>2. TypeInv /\ [Next]_vars => TypeInv'
  BY TypeNext
<1>3. TypeInv => TypeOK
  BY DEF TypeInv
<1>. QED
  BY <1>1, <1>2, <1>3, PTL DEF Spec

(***************************************************************************)
(* The search.  What is marked but no longer in the worklist has all its   *)
(* successors marked, and nothing is marked that a closed set may leave    *)
(* out.                                                                    *)
(***************************************************************************)
RootsMarked ==
  \A u \in Roots(graph) : (u \in graph.universe \/ Successors(u) # {}) => u \in reachable
FrontierInStack == \A u \in reachable \ stack : Successors(u) \subseteq reachable
NothingExtra == \A S \in SUBSET Function : IsClosed(S) => reachable \subseteq S
WorklistEmptied == at # "search" => stack = {}
LadderDone == at \in {"components", "done"} => DOMAIN status = Reported

SearchInv ==
  /\ IsProgram(graph) /\ include_possible \in BOOLEAN /\ reachable \subseteq Function /\ stack \subseteq reachable
  /\ RootsMarked /\ FrontierInStack /\ NothingExtra /\ WorklistEmptied /\ LadderDone

LEMMA SearchInit == Init => SearchInv
<1>. SUFFICES ASSUME Init PROVE SearchInv
  OBVIOUS
<1>1. IsProgram(graph) /\ include_possible \in BOOLEAN /\ at = "search"
  BY DEF Init
<1>2. stack = {u \in Roots(graph) : u \in graph.universe \/ Successors(u) # {}} /\ reachable = stack
  BY DEF Init
<1>3. reachable \subseteq Function
  BY <1>1, <1>2, EdgesJoinFunctions
<1>4. RootsMarked /\ FrontierInStack
  BY <1>2 DEF RootsMarked, FrontierInStack
<1>5. NothingExtra
  BY <1>2 DEF NothingExtra, IsClosed
<1>. QED
  BY <1>1, <1>2, <1>3, <1>4, <1>5 DEF SearchInv, WorklistEmptied, LadderDone

LEMMA SearchNext == ASSUME SearchInv, [Next]_vars PROVE SearchInv'
<1>1. CASE Visit
  <2>1. PICK u \in stack :
          /\ at = "search" /\ at' = at /\ graph' = graph /\ include_possible' = include_possible
          /\ reachable' = reachable \cup Successors(u)
          /\ stack' = (stack \ {u}) \cup (Successors(u) \ reachable)
    BY <1>1 DEF Visit
  <2>2. u \in Function /\ u \in reachable
    BY DEF SearchInv
  <2>3. /\ Roots(graph)' = Roots(graph) /\ Edges' = Edges /\ \A v : Successors(v)' = Successors(v)
        /\ \A S : IsClosed(S)' = IsClosed(S)
    BY <2>1 DEF Roots, Edges, Adjacency, ProvenEdges, PossibleEdges, Rows, Successors, IsClosed
  <2>4. reachable' \subseteq Function /\ stack' \subseteq reachable'
    BY <2>1, <2>2, EdgesJoinFunctions DEF SearchInv
  <2>5. RootsMarked'
    BY <2>1, <2>3 DEF SearchInv, RootsMarked
  <2>6. FrontierInStack'
    <3>. SUFFICES ASSUME NEW v \in reachable' \ stack' PROVE Successors(v) \subseteq reachable'
      BY <2>3 DEF FrontierInStack
    <3>1. v = u \/ v \in reachable \ stack
      BY <2>1
    <3>. QED
      BY <3>1, <2>1 DEF SearchInv, FrontierInStack
  <2>7. NothingExtra'
    <3>. SUFFICES ASSUME NEW S \in SUBSET Function, IsClosed(S) PROVE reachable' \subseteq S
      BY <2>3 DEF NothingExtra
    <3>1. reachable \subseteq S
      BY DEF SearchInv, NothingExtra
    <3>2. Successors(u) \subseteq S
      BY <3>1, <2>2 DEF Successors, IsClosed
    <3>. QED
      BY <3>1, <3>2, <2>1
  <2>8. IsProgram(graph)' /\ include_possible' \in BOOLEAN
    BY <2>1 DEF SearchInv
  <2>. QED
    BY <2>1, <2>4, <2>5, <2>6, <2>7, <2>8 DEF SearchInv, WorklistEmptied, LadderDone
<1>2. CASE Searched \/ Classify \/ StartComponent \/ FollowEdge \/ Return \/ Report \/ UNCHANGED vars
  <2>1. graph' = graph /\ include_possible' = include_possible /\ reachable' = reachable /\ stack' = stack
    BY <1>2 DEF Searched, Classify, StartComponent, FollowEdge, Return, Report, Number, vars
  <2>2. /\ at' # "search" => at # "search" \/ stack = {}
        /\ at' \in {"components", "done"} =>
             (at \in {"components", "done"} /\ status' = status) \/ DOMAIN status' = Reported
    <3>1. CASE Searched
      BY <3>1 DEF Searched, verdicts
    <3>2. CASE Classify
      BY <3>2 DEF Classify
    <3>3. CASE StartComponent \/ FollowEdge
      BY <3>3 DEF StartComponent, FollowEdge, Number
    <3>4. CASE Return
      BY <3>4 DEF Return
    <3>5. CASE Report
      BY <3>5 DEF Report, verdicts
    <3>6. CASE UNCHANGED vars
      BY <3>6 DEF vars
    <3>. QED
      BY <1>2, <3>1, <3>2, <3>3, <3>4, <3>5, <3>6
  <2>3. /\ Roots(graph)' = Roots(graph) /\ Edges' = Edges /\ \A v : Successors(v)' = Successors(v)
        /\ \A S : IsClosed(S)' = IsClosed(S)
    BY <2>1 DEF Roots, Edges, Adjacency, ProvenEdges, PossibleEdges, Rows, Successors, IsClosed
  <2>4. Reported' = Reported
    BY <2>1 DEF Reported, Referenced, Roots, Rows
  <2>5. RootsMarked' /\ FrontierInStack' /\ NothingExtra'
    BY <2>1, <2>3 DEF SearchInv, RootsMarked, FrontierInStack, NothingExtra
  <2>6. WorklistEmptied' /\ LadderDone'
    BY <2>1, <2>2, <2>4 DEF SearchInv, WorklistEmptied, LadderDone
  <2>7. IsProgram(graph)' /\ include_possible' \in BOOLEAN
    BY <2>1 DEF SearchInv
  <2>. QED
    BY <2>1, <2>5, <2>6, <2>7 DEF SearchInv
<1>. QED
  BY <1>1, <1>2 DEF Next

LEMMA SearchCorrect == Spec => []SearchInv
<1>1. Init => SearchInv
  BY SearchInit
<1>2. SearchInv /\ [Next]_vars => SearchInv'
  BY SearchNext
<1>. QED
  BY <1>1, <1>2, PTL DEF Spec

(***************************************************************************)
(* find_dead_code reports a function exactly when some set that holds the  *)
(* roots and is closed under the edges leaves it out: no live function is  *)
(* accused, and no dead one is missed, for every program.                  *)
(***************************************************************************)
THEOREM ReportedFunctionsAreUnreachable == Spec => []ReportedIsUnreachable
<1>1. SearchInv => ReportedIsUnreachable
  <2>. SUFFICES ASSUME SearchInv, at \in {"components", "done"}, NEW u \in graph.universe
                PROVE  u \in DOMAIN status <=> \E S \in SUBSET Function : IsClosed(S) /\ u \notin S
    BY DEF ReportedIsUnreachable
  <2>1. DOMAIN status = Reported /\ stack = {}
    BY DEF SearchInv, LadderDone, WorklistEmptied
  <2>. DEFINE Live == reachable \cup Roots(graph)
  <2>2. Live \in SUBSET Function
    BY EdgesJoinFunctions DEF SearchInv
  <2>3. IsClosed(Live)
    <3>. SUFFICES ASSUME NEW e \in Edges, e[1] \in Live PROVE e[2] \in Live
      BY DEF IsClosed
    <3>1. e = <<e[1], e[2]>> /\ e[2] \in Function
      BY EdgesJoinFunctions DEF SearchInv
    <3>2. e[2] \in Successors(e[1])
      BY <3>1 DEF Successors
    <3>3. e[1] \in reachable
      BY <3>2 DEF SearchInv, RootsMarked
    <3>. QED
      BY <3>2, <3>3, <2>1 DEF SearchInv, FrontierInStack
  <2>4. ASSUME u \in DOMAIN status PROVE \E S \in SUBSET Function : IsClosed(S) /\ u \notin S
    <3>1. u \notin reachable
      BY <2>1, <2>4 DEF Reported
    <3>2. u \notin Roots(graph)
      BY <3>1 DEF SearchInv, RootsMarked
    <3>. QED
      BY <3>1, <3>2, <2>2, <2>3
  <2>5. ASSUME NEW S \in SUBSET Function, IsClosed(S), u \notin S PROVE u \in DOMAIN status
    <3>1. u \notin reachable
      BY <2>5 DEF SearchInv, NothingExtra
    <3>2. u \notin Roots(graph)
      BY <2>5 DEF IsClosed
    <3>. QED
      BY <3>1, <3>2, <2>1 DEF Reported
  <2>. QED
    BY <2>4, <2>5
<1>. QED
  BY <1>1, SearchCorrect, PTL

(***************************************************************************)
(* Over the proven edges a function that is reached is a root or has a row *)
(* in refs: the ladder may look at reachability first without losing a     *)
(* zero-ref function.                                                      *)
(***************************************************************************)
THEOREM ReachedFunctionsHaveReason == Spec => []ReachedHasReason
<1>1. SearchInv => ReachedHasReason
  <2>. SUFFICES ASSUME SearchInv, ~ include_possible
                PROVE  reachable \subseteq Roots(graph) \cup Referenced(graph)
    BY DEF ReachedHasReason
  <2>. DEFINE S == Roots(graph) \cup Referenced(graph)
  <2>1. S \in SUBSET Function
    BY EdgesJoinFunctions DEF SearchInv
  <2>2. \A e \in ProvenEdges(graph) : e[2] \in S
    <3>. SUFFICES ASSUME NEW e \in ProvenEdges(graph) PROVE e[2] \in S
      OBVIOUS
    <3>1. CASE e \in Rows(graph)
      BY <3>1 DEF Referenced
    <3>2. CASE \E pair \in graph.alias : pair[2] = e[2]
      BY <3>2 DEF Roots
    <3>. QED
      BY <3>1, <3>2 DEF ProvenEdges
  <2>3. IsClosed(S)
    BY <2>2 DEF IsClosed, Edges, Adjacency
  <2>. QED
    BY <2>1, <2>3 DEF SearchInv, NothingExtra
<1>. QED
  BY <1>1, SearchCorrect, PTL

(***************************************************************************)
(* The components.  Onward are the successors that an iterator gives.      *)
(***************************************************************************)
Onward(u) == Successors(u) \cap Candidates
OffStack == DOMAIN index_of \ on_stack

Fresh == at \in {"search", "ladder"} => index_of = Empty /\ on_stack = {} /\ work = << >> /\ components = {}

\* Numbers are given in order.
NumbersInv ==
  /\ \A u \in DOMAIN index_of : index_of[u] < Counter
  /\ \A u, v \in DOMAIN index_of : index_of[u] = index_of[v] => u = v

FramesInv ==
  /\ \A i \in 1 .. Len(work) : work[i].node \in on_stack /\ work[i].rest \subseteq Onward(work[i].node)
  /\ \A i, j \in 1 .. Len(work) : i < j => index_of[work[i].node] < index_of[work[j].node]

\* A frame reaches what lies on the stack above it, and whatever lies there reaches a
\* frame below it.
FrameReachesInv ==
  \A i \in 1 .. Len(work), u \in on_stack :
    index_of[work[i].node] <= index_of[u] => Reaches(work[i].node, u)
ReachesFrameInv ==
  \A u \in on_stack : \E i \in 1 .. Len(work) :
    index_of[work[i].node] <= index_of[u] /\ Reaches(u, work[i].node)

LinkInv ==
  \A u \in on_stack :
    /\ lowlink[u] <= index_of[u]
    /\ \E v \in on_stack : index_of[v] = lowlink[u] /\ Reaches(u, v)

\* Still to follow from u.
Pending(u, v) == \E i \in 1 .. Len(work) : work[i].node = u /\ v \in work[i].rest

FollowedInv ==
  /\ \A u \in on_stack : \A v \in Onward(u) : v \in DOMAIN index_of \/ Pending(u, v)
  /\ \A u \in OffStack : Onward(u) \subseteq OffStack

\* The link of a frame knows how far down the edges go from what lies on the stack
\* between it and the next frame.
Belongs(u, i) == /\ index_of[work[i].node] <= index_of[u]
                 /\ i < Len(work) => index_of[u] < index_of[work[i + 1].node]
LowestInv ==
  \A i \in 1 .. Len(work), u \in on_stack : Belongs(u, i) =>
    \A v \in Onward(u) \cap on_stack : Pending(u, v) \/ lowlink[work[i].node] <= index_of[v]

\* What has left the stack is in a component, and the components are cycles.
ClosedInv ==
  /\ UNION components = OffStack
  /\ \A c \in components : \E u \in OffStack : c = Cycle(u)

CompletedInv == at = "done" => work = << >> /\ Candidates \subseteq DOMAIN index_of

ComponentInv == /\ NumbersInv /\ FramesInv /\ FrameReachesInv /\ ReachesFrameInv /\ LinkInv
                /\ FollowedInv /\ LowestInv /\ ClosedInv

TarjanInv == TypeInv /\ Fresh /\ CompletedInv /\ ComponentInv

\* Reaching is the reflexive and transitive closure of the edges.
LEMMA ReachesClosure ==
  /\ \A u : Reaches(u, u)
  /\ \A u, v, w : Reaches(u, v) /\ Reaches(v, w) => Reaches(u, w)
  /\ \A u, v : v \in Onward(u) => Reaches(u, v)
  /\ \A u, v : \A S \in SUBSET Candidates :
       Reaches(u, v) /\ u \in S /\ (\A w \in S : Onward(w) \subseteq S) => v \in S
BY DEF Reaches, Onward

\* The candidates and their edges do not change any more.
LEMMA SameEdges ==
  ASSUME UNCHANGED <<graph, include_possible, status>>
  PROVE  /\ Candidates' = Candidates /\ \A u : Onward(u)' = Onward(u)
         /\ \A u, v : Reaches(u, v)' <=> Reaches(u, v)
         /\ \A u : Cycle(u)' = Cycle(u)
<1>1. Candidates' = Candidates
  BY DEF Candidates
<1>2. \A u : Successors(u)' = Successors(u)
  BY DEF Successors, Edges, Adjacency, ProvenEdges, PossibleEdges, Rows
<1>3. \A u, v : Reaches(u, v)' <=> Reaches(u, v)
  BY <1>1, <1>2 DEF Reaches
<1> QED
  BY <1>1, <1>2, <1>3 DEF Onward, Cycle

\* The types, as the steps below use them.
LEMMA FrameTypes ==
  ASSUME TypeInv
  PROVE  /\ Len(work) \in Nat /\ (work = << >> <=> Len(work) = 0)
         /\ \A i \in 1 .. Len(work) :
              work[i].node \in DOMAIN index_of /\ work[i].rest \subseteq Candidates
         /\ \A u \in DOMAIN index_of : index_of[u] \in Nat /\ lowlink[u] \in Nat
         /\ on_stack \subseteq DOMAIN index_of /\ DOMAIN index_of \subseteq Candidates
         /\ Counter \in Nat
<1> DEFINE Frame == [node : DOMAIN index_of, rest : SUBSET Candidates]
<1>1. work \in Seq(Frame)
  BY DEF TypeInv, TypeOK
<1>2. Len(work) \in Nat /\ work \in [1 .. Len(work) -> Frame] /\ (work = << >> <=> Len(work) = 0)
  BY <1>1, LenProperties, EmptySeq
<1>3. Counter \in Nat
  BY FS_CardinalityType DEF TypeInv, Counter
<1> QED
  BY <1>2, <1>3 DEF TypeInv, TypeOK

(***************************************************************************)
(* A new frame.                                                            *)
(***************************************************************************)

\* The frames below the new one are as before, but that the iterator of the last
\* has given u.
Given(u, frames) ==
  /\ Len(frames) = Len(work)
  /\ \A i \in 1 .. Len(work) :
       /\ frames[i].node = work[i].node
       /\ frames[i].rest = IF i = Len(work) THEN work[i].rest \ {u} ELSE work[i].rest
  /\ work # << >> => u \in work[Len(work)].rest

LEMMA NumberedState ==
  ASSUME TypeInv, NumbersInv, NEW u \in Candidates, u \notin DOMAIN index_of,
         NEW frames \in Seq([node : DOMAIN index_of, rest : SUBSET Candidates]),
         Number(u, frames), Given(u, frames)
  PROVE  /\ Len(work') = Len(work) + 1
         /\ \A i \in 1 .. Len(work) :
              /\ work'[i].node = work[i].node
              /\ work'[i].rest = IF i = Len(work) THEN work[i].rest \ {u} ELSE work[i].rest
         /\ work'[Len(work) + 1].node = u /\ work'[Len(work) + 1].rest = Onward(u)
         /\ DOMAIN index_of' = DOMAIN index_of \cup {u}
         /\ index_of'[u] = Counter /\ lowlink'[u] = Counter
         /\ \A x \in DOMAIN index_of :
              x # u /\ index_of'[x] = index_of[x] /\ lowlink'[x] = lowlink[x] /\ index_of[x] < Counter
         /\ Counter' = Counter + 1
         /\ on_stack' = on_stack \cup {u} /\ OffStack' = OffStack
         /\ UNCHANGED <<graph, include_possible, status, at, components>>
<1>1. /\ work' = Append(frames, [node |-> u, rest |-> Onward(u)])
      /\ index_of' = WithEntry(index_of, u, Counter) /\ lowlink' = WithEntry(lowlink, u, Counter)
      /\ on_stack' = on_stack \cup {u}
      /\ UNCHANGED <<graph, include_possible, status, at, components>>
  BY DEF Number, Onward
<1>2. DOMAIN lowlink = DOMAIN index_of /\ on_stack \subseteq DOMAIN index_of
  BY DEF TypeInv, TypeOK
<1>3. /\ DOMAIN index_of' = DOMAIN index_of \cup {u}
      /\ index_of'[u] = Counter /\ lowlink'[u] = Counter
      /\ \A x \in DOMAIN index_of : x # u /\ index_of'[x] = index_of[x] /\ lowlink'[x] = lowlink[x]
  BY <1>1, <1>2 DEF WithEntry
<1>4. Counter' = Counter + 1
  BY <1>3, FS_AddElement DEF Counter, TypeInv
<1>5. \A x \in DOMAIN index_of : index_of[x] < Counter
  BY DEF NumbersInv
<1>6. OffStack' = OffStack
  BY <1>1, <1>2, <1>3 DEF OffStack
<1>7. /\ Len(work') = Len(work) + 1
      /\ \A i \in 1 .. Len(work) : work'[i] = frames[i]
      /\ work'[Len(work) + 1] = [node |-> u, rest |-> Onward(u)]
  <2> DEFINE frame == [node |-> u, rest |-> Onward(u)]
             Frame == [node : DOMAIN index_of, rest : SUBSET Candidates] \cup {frame}
  <2>1. frames \in Seq(Frame)
    <3>1. [node : DOMAIN index_of, rest : SUBSET Candidates] \subseteq Frame
      OBVIOUS
    <3> HIDE DEF Frame
    <3> QED
      BY <3>1, SeqMonotonic
  <2>2. frame \in Frame
    OBVIOUS
  <2> HIDE DEF frame, Frame
  <2>3. /\ Len(Append(frames, frame)) = Len(frames) + 1
        /\ \A i \in 1 .. Len(frames) : Append(frames, frame)[i] = frames[i]
        /\ Append(frames, frame)[Len(frames) + 1] = frame
    BY <2>1, <2>2, AppendProperties
  <2> QED
    BY <1>1, <2>3 DEF frame, Given
<1>8. \A i \in 1 .. Len(work) :
        /\ work'[i].node = work[i].node
        /\ work'[i].rest = IF i = Len(work) THEN work[i].rest \ {u} ELSE work[i].rest
  BY <1>7 DEF Given
<1>9. work'[Len(work) + 1].node = u /\ work'[Len(work) + 1].rest = Onward(u)
  BY <1>7
<1> QED
  BY <1>1, <1>3, <1>4, <1>5, <1>6, <1>7, <1>8, <1>9

LEMMA NumberStep ==
  ASSUME TypeInv, ComponentInv, NEW u \in Candidates, u \notin DOMAIN index_of,
         NEW frames \in Seq([node : DOMAIN index_of, rest : SUBSET Candidates]),
         Number(u, frames), Given(u, frames)
  PROVE  ComponentInv'
<1> DEFINE n == Len(work)
<1>0. /\ n \in Nat /\ (work = << >> <=> n = 0)
      /\ \A i \in 1 .. n : work[i].node \in DOMAIN index_of /\ work[i].rest \subseteq Candidates
      /\ \A x \in DOMAIN index_of : index_of[x] \in Nat /\ lowlink[x] \in Nat
      /\ on_stack \subseteq DOMAIN index_of /\ DOMAIN index_of \subseteq Candidates
      /\ Counter \in Nat
  BY FrameTypes
<1>1. /\ Len(work') = n + 1
      /\ \A i \in 1 .. n :
           /\ work'[i].node = work[i].node
           /\ work'[i].rest = IF i = n THEN work[i].rest \ {u} ELSE work[i].rest
      /\ work'[n + 1].node = u /\ work'[n + 1].rest = Onward(u)
      /\ DOMAIN index_of' = DOMAIN index_of \cup {u}
      /\ index_of'[u] = Counter /\ lowlink'[u] = Counter
      /\ \A x \in DOMAIN index_of :
           x # u /\ index_of'[x] = index_of[x] /\ lowlink'[x] = lowlink[x] /\ index_of[x] < Counter
      /\ Counter' = Counter + 1
      /\ on_stack' = on_stack \cup {u} /\ OffStack' = OffStack
      /\ UNCHANGED <<graph, include_possible, status, at, components>>
  BY NumberedState DEF ComponentInv
<1>2. /\ \A x : Onward(x)' = Onward(x)
      /\ \A x, y : Reaches(x, y)' <=> Reaches(x, y)
      /\ \A x : Cycle(x)' = Cycle(x)
  BY <1>1, SameEdges
<1>3. n # 0 => u \in work[n].rest
  BY <1>0 DEF Given
<1>4. \A i \in 1 .. n + 1 : i \in 1 .. n \/ i = n + 1
  BY <1>0
<1>5. \A i \in 1 .. n : i # n + 1 /\ work[i].node \in on_stack /\ work[i].node # u /\ n \in 1 .. n
  BY <1>0, <1>1 DEF ComponentInv, FramesInv
\* The numbers of the frames.
<1>18. \A i \in 1 .. n : /\ index_of[work[i].node] \in Nat /\ index_of[work[i].node] < Counter
                         /\ index_of'[work'[i].node] = index_of[work[i].node]
                         /\ lowlink'[work'[i].node] = lowlink[work[i].node]
  BY <1>0, <1>1
<1>19. index_of'[work'[n + 1].node] = Counter /\ lowlink'[work'[n + 1].node] = Counter
  BY <1>1
<1>20. \A i, j \in 1 .. n : i < j => index_of[work[i].node] < index_of[work[j].node]
  BY DEF ComponentInv, FramesInv
<1>21. \A i \in 1 .. n : work[i].node \in on_stack /\ work[i].rest \subseteq Onward(work[i].node)
  BY DEF ComponentInv, FramesInv
<1> HIDE DEF n
<1>6. NumbersInv'
  BY <1>0, <1>1 DEF ComponentInv, NumbersInv
<1>7. FramesInv'
  <2>1. \A i \in 1 .. n + 1 : work'[i].node \in on_stack' /\ work'[i].rest \subseteq Onward(work'[i].node)
    <3>1. SUFFICES ASSUME NEW i \in 1 .. n + 1
                   PROVE  work'[i].node \in on_stack' /\ work'[i].rest \subseteq Onward(work'[i].node)
      OBVIOUS
    <3>2. CASE i \in 1 .. n
      BY <1>1, <1>21, <3>2
    <3>3. CASE i = n + 1
      BY <1>1, <3>3
    <3> QED
      BY <1>4, <3>2, <3>3
  <2>2. ASSUME NEW i \in 1 .. n + 1, NEW j \in 1 .. n + 1, i < j
        PROVE  index_of'[work'[i].node] < index_of'[work'[j].node]
    <3>1. i \in 1 .. n
      BY <1>0, <2>2
    <3>2. CASE j \in 1 .. n
      BY <1>18, <1>20, <2>2, <3>1, <3>2
    <3>3. CASE j = n + 1
      BY <1>18, <1>19, <3>1, <3>3
    <3> QED
      BY <1>4, <3>2, <3>3
  <2> QED
    BY <1>1, <1>2, <2>1, <2>2 DEF FramesInv
<1>8. \A i \in 1 .. n : Reaches(work[i].node, u)
  <2>1. SUFFICES ASSUME NEW i \in 1 .. n PROVE Reaches(work[i].node, u)
    OBVIOUS
  <2>2. n \in 1 .. n /\ work[n].node \in on_stack
    BY <1>5
  <2>3. index_of[work[i].node] <= index_of[work[n].node]
    BY <1>0, <2>2 DEF ComponentInv, FramesInv, n
  <2>4. Reaches(work[i].node, work[n].node)
    BY <2>2, <2>3 DEF ComponentInv, FrameReachesInv, n
  <2>5. u \in Onward(work[n].node)
    BY <1>0, <1>3, <2>2 DEF ComponentInv, FramesInv, n
  <2> QED
    BY <2>4, <2>5, ReachesClosure
<1>9. FrameReachesInv'
  <2>1. SUFFICES ASSUME NEW i \in 1 .. n + 1, NEW x \in on_stack \cup {u},
                        index_of'[work'[i].node] <= index_of'[x]
                 PROVE  Reaches(work'[i].node, x)
    BY <1>1, <1>2 DEF FrameReachesInv
  <2>2. CASE i \in 1 .. n /\ x = u
    BY <1>1, <1>8, <2>2
  <2>3. CASE i \in 1 .. n /\ x \in on_stack
    <3>1. index_of[work[i].node] <= index_of[x] /\ work'[i].node = work[i].node
      BY <1>0, <1>1, <1>18, <2>1, <2>3
    <3> QED
      BY <2>3, <3>1 DEF ComponentInv, FrameReachesInv, n
  <2>4. CASE i = n + 1 /\ x \in on_stack
    <3>1. index_of'[x] \in Nat /\ index_of'[x] < Counter /\ index_of'[work'[i].node] = Counter
      BY <1>0, <1>1, <1>19, <2>4
    <3> QED
      BY <1>0, <2>1, <3>1
  <2>5. CASE i = n + 1 /\ x = u
    BY <1>1, <2>5, ReachesClosure
  <2> QED
    BY <1>4, <2>1, <2>2, <2>3, <2>4, <2>5
<1>10. ReachesFrameInv'
  <2>1. SUFFICES ASSUME NEW x \in on_stack \cup {u}
                 PROVE  \E i \in 1 .. n + 1 : index_of'[work'[i].node] <= index_of'[x] /\ Reaches(x, work'[i].node)
    BY <1>1, <1>2 DEF ReachesFrameInv
  <2>2. CASE x = u
    <3>1. n + 1 \in 1 .. n + 1 /\ Counter <= Counter
      BY <1>0
    <3> QED
      BY <1>1, <2>2, <3>1, ReachesClosure
  <2>3. CASE x \in on_stack
    <3>1. PICK i \in 1 .. n : index_of[work[i].node] <= index_of[x] /\ Reaches(x, work[i].node)
      BY <2>3 DEF ComponentInv, ReachesFrameInv, n
    <3>2. i \in 1 .. n + 1
      BY <1>0
    <3>3. index_of'[work'[i].node] <= index_of'[x] /\ Reaches(x, work'[i].node)
      BY <1>0, <1>1, <2>3, <3>1
    <3> QED
      BY <3>2, <3>3
  <2> QED
    BY <2>1, <2>2, <2>3
<1>11. LinkInv'
  <2>1. SUFFICES ASSUME NEW x \in on_stack \cup {u}
                 PROVE  /\ lowlink'[x] <= index_of'[x]
                        /\ \E y \in on_stack \cup {u} : index_of'[y] = lowlink'[x] /\ Reaches(x, y)
    BY <1>1, <1>2 DEF LinkInv
  <2>2. CASE x = u
    BY <1>0, <1>1, <2>2, ReachesClosure
  <2>3. CASE x \in on_stack
    BY <1>0, <1>1, <2>3 DEF ComponentInv, LinkInv
  <2> QED
    BY <2>1, <2>2, <2>3
<1>12. \A x, y : Pending(x, y) /\ y # u => Pending(x, y)'
  <2>1. SUFFICES ASSUME NEW x, NEW y, y # u, NEW i \in 1 .. n, work[i].node = x, y \in work[i].rest
                 PROVE  Pending(x, y)'
    BY DEF Pending, n
  <2>2. i \in 1 .. n + 1 /\ work'[i].node = x /\ y \in work'[i].rest
    <3>1. i \in 1 .. n + 1
      BY <1>0
    <3>2. work'[i].node = work[i].node /\ work'[i].rest = IF i = n THEN work[i].rest \ {u} ELSE work[i].rest
      BY <1>1
    <3> QED
      BY <2>1, <3>1, <3>2
  <2> QED
    BY <1>1, <2>2 DEF Pending
<1>13. \A y \in Onward(u) : Pending(u, y)'
  <2>1. n + 1 \in 1 .. n + 1
    BY <1>0
  <2> QED
    BY <1>1, <2>1 DEF Pending
\* Who has an edge to u, on the stack, still had to follow it; the last frame just did.
<1>14. \A x \in on_stack : u \in Onward(x) => Pending(x, u)' \/ (n # 0 /\ x = work[n].node)
  <2>1. SUFFICES ASSUME NEW x \in on_stack, u \in Onward(x) PROVE Pending(x, u)' \/ (n # 0 /\ x = work[n].node)
    OBVIOUS
  <2>2. PICK i \in 1 .. n : work[i].node = x /\ u \in work[i].rest
    BY <2>1 DEF ComponentInv, FollowedInv, Pending, n
  <2>3. i # n => i \in 1 .. n + 1 /\ work'[i].node = x /\ u \in work'[i].rest
    <3>1. i \in 1 .. n + 1
      BY <1>0
    <3>2. work'[i].node = work[i].node /\ work'[i].rest = IF i = n THEN work[i].rest \ {u} ELSE work[i].rest
      BY <1>1
    <3> QED
      BY <2>2, <3>1, <3>2
  <2>4. n # 0
    BY <1>0
  <2> QED
    BY <1>1, <2>2, <2>3, <2>4 DEF Pending
<1>15. FollowedInv'
  <2>1. \A x \in on_stack \cup {u} : \A y \in Onward(x) : y \in DOMAIN index_of \cup {u} \/ Pending(x, y)'
    BY <1>12, <1>13 DEF ComponentInv, FollowedInv
  <2> QED
    BY <1>1, <1>2, <2>1 DEF ComponentInv, FollowedInv
<1>16. LowestInv'
  <2>1. SUFFICES ASSUME NEW i \in 1 .. n + 1, NEW x \in on_stack \cup {u}, Belongs(x, i)',
                        NEW y \in Onward(x) \cap (on_stack \cup {u}), ~ Pending(x, y)'
                 PROVE  lowlink'[work'[i].node] <= index_of'[y]
    BY <1>1, <1>2 DEF LowestInv
  <2>2. x # u
    BY <1>13, <2>1
  <2>3. i \in 1 .. n
    <3>1. i # n + 1
      <4>1. SUFFICES ASSUME i = n + 1 PROVE FALSE
        OBVIOUS
      <4>2. Counter <= index_of'[x]
        BY <1>19, <2>1, <4>1 DEF Belongs
      <4>3. index_of'[x] \in Nat /\ index_of'[x] < Counter
        BY <1>0, <1>1, <2>2
      <4> QED
        BY <1>0, <4>2, <4>3
    <3> QED
      BY <1>4, <3>1
  <2>4. CASE y = u
    <3>1. lowlink[work[i].node] <= index_of[work[i].node]
      BY <1>5, <2>3 DEF ComponentInv, LinkInv
    <3>2. lowlink[work[i].node] <= Counter
      <4>1. work[i].node \in DOMAIN index_of
        BY <1>0, <2>3
      <4>2. lowlink[work[i].node] \in Nat /\ index_of[work[i].node] \in Nat /\ index_of[work[i].node] < Counter
        BY <1>0, <1>18, <2>3, <4>1
      <4> QED
        BY <1>0, <3>1, <4>2
    <3> QED
      BY <1>1, <1>18, <2>3, <2>4, <3>2
  <2>5. CASE y # u
    <3>1. Belongs(x, i)
      <4>1. index_of[work[i].node] <= index_of[x]
        BY <1>0, <1>1, <2>1, <2>2, <2>3 DEF Belongs
      <4>2. i < n => index_of[x] < index_of[work[i + 1].node]
        <5>1. SUFFICES ASSUME i < n PROVE index_of[x] < index_of[work[i + 1].node]
          OBVIOUS
        <5>2. i < n + 1 /\ i + 1 \in 1 .. n
          BY <1>0, <2>3, <5>1
        <5>3. index_of'[x] < index_of'[work'[i + 1].node]
          BY <1>1, <2>1, <5>2 DEF Belongs
        <5> QED
          BY <1>0, <1>1, <2>2, <5>2, <5>3
      <4> QED
        BY <4>1, <4>2 DEF Belongs, n
    <3>2. ~ Pending(x, y)
      BY <1>12, <2>1, <2>5
    <3>3. lowlink[work[i].node] <= index_of[y]
      BY <2>1, <2>2, <2>3, <2>5, <3>1, <3>2 DEF ComponentInv, LowestInv, n
    <3>4. index_of'[y] = index_of[y]
      BY <1>0, <1>1, <2>1, <2>5
    <3> QED
      BY <1>18, <2>3, <3>3, <3>4
  <2> QED
    BY <2>4, <2>5
<1>17. ClosedInv'
  BY <1>1, <1>2 DEF ComponentInv, ClosedInv
<1> QED
  BY <1>6, <1>7, <1>9, <1>10, <1>11, <1>15, <1>16, <1>17 DEF ComponentInv

(***************************************************************************)
(* A successor that has a number.                                          *)
(***************************************************************************)
LEMMA PassStep ==
  ASSUME TypeInv, ComponentInv, work # << >>, NEW v \in Top.rest, v \in DOMAIN index_of,
         Len(work') = Len(work),
         \A i \in 1 .. Len(work) :
           /\ work'[i].node = work[i].node
           /\ work'[i].rest = IF i = Len(work) THEN work[i].rest \ {v} ELSE work[i].rest,
         lowlink' = IF v \in on_stack THEN Lower(Top.node, index_of[v]) ELSE lowlink,
         UNCHANGED <<graph, include_possible, at, status, index_of, on_stack, components>>
  PROVE  ComponentInv'
<1> DEFINE n == Len(work)
           top == Top.node
<1>0. /\ n \in Nat /\ n \in 1 .. n /\ top = work[n].node /\ Top = work[n]
      /\ \A i \in 1 .. n : work[i].node \in DOMAIN index_of
      /\ \A x \in DOMAIN index_of : index_of[x] \in Nat /\ lowlink[x] \in Nat
      /\ on_stack \subseteq DOMAIN index_of /\ DOMAIN lowlink = DOMAIN index_of
  <2>1. DOMAIN lowlink = DOMAIN index_of
    BY DEF TypeInv, TypeOK
  <2>2. Len(work) \in Nat /\ Len(work) # 0
    BY FrameTypes
  <2> QED
    BY <2>1, <2>2, FrameTypes DEF Top
<1>1. /\ \A x : Onward(x)' = Onward(x)
      /\ \A x, y : Reaches(x, y)' <=> Reaches(x, y)
      /\ \A x : Cycle(x)' = Cycle(x)
  BY SameEdges
<1>2. top \in on_stack /\ top \in DOMAIN index_of /\ v \in Onward(top)
  BY <1>0 DEF ComponentInv, FramesInv
<1>3. /\ Len(work') = n
      /\ \A i \in 1 .. n : work'[i].node = work[i].node
      /\ \A i \in 1 .. n : work'[i].rest \subseteq work[i].rest
  OBVIOUS
<1>4. /\ \A x \in DOMAIN index_of : lowlink'[x] \in Nat /\ lowlink'[x] <= lowlink[x]
      /\ \A x \in DOMAIN index_of : x # top => lowlink'[x] = lowlink[x]
      /\ lowlink'[top] = lowlink[top] \/ (lowlink'[top] = index_of[v] /\ v \in on_stack)
      /\ v \in on_stack => lowlink'[top] <= index_of[v]
  <2>1. CASE v \in on_stack
    <3>1. lowlink' = [lowlink EXCEPT ![top] = IF index_of[v] < @ THEN index_of[v] ELSE @]
      BY <2>1 DEF Lower
    <3>2. /\ \A x \in DOMAIN index_of : x # top => lowlink'[x] = lowlink[x]
          /\ lowlink'[top] = IF index_of[v] < lowlink[top] THEN index_of[v] ELSE lowlink[top]
      BY <1>0, <1>2, <3>1
    <3>3. index_of[v] \in Nat /\ lowlink[top] \in Nat
      BY <1>0, <1>2
    <3>4. /\ lowlink'[top] \in Nat /\ lowlink'[top] <= lowlink[top] /\ lowlink'[top] <= index_of[v]
          /\ lowlink'[top] = lowlink[top] \/ lowlink'[top] = index_of[v]
      BY <3>2, <3>3
    <3> QED
      BY <1>0, <2>1, <3>2, <3>4
  <2>2. CASE v \notin on_stack
    BY <1>0, <1>2, <2>2
  <2> QED
    BY <2>1, <2>2
<1> HIDE DEF n, top
<1>5. NumbersInv'
  BY DEF ComponentInv, NumbersInv, Counter
<1>6. FramesInv'
  BY <1>1, <1>3 DEF ComponentInv, FramesInv, n
<1>7. FrameReachesInv'
  BY <1>1, <1>3 DEF ComponentInv, FrameReachesInv, n
<1>8. ReachesFrameInv'
  BY <1>1, <1>3 DEF ComponentInv, ReachesFrameInv, n
<1>9. LinkInv'
  <2>1. SUFFICES ASSUME NEW x \in on_stack
                 PROVE  /\ lowlink'[x] <= index_of[x]
                        /\ \E y \in on_stack : index_of[y] = lowlink'[x] /\ Reaches(x, y)
    BY <1>1 DEF LinkInv
  <2>2. x \in DOMAIN index_of
    BY <1>0
  <2>3. lowlink'[x] <= index_of[x]
    <3>1. lowlink[x] <= index_of[x]
      BY DEF ComponentInv, LinkInv
    <3> QED
      BY <1>0, <1>4, <2>2, <3>1
  <2>4. CASE lowlink'[x] = lowlink[x]
    BY <2>3, <2>4 DEF ComponentInv, LinkInv
  <2>5. CASE x = top /\ lowlink'[top] = index_of[v] /\ v \in on_stack
    BY <1>2, <2>3, <2>5, ReachesClosure
  <2> QED
    BY <1>4, <2>2, <2>4, <2>5
<1>10. \A x, y : Pending(x, y) => Pending(x, y)' \/ (x = top /\ y = v)
  <2>1. SUFFICES ASSUME NEW x, NEW y, NEW i \in 1 .. n, work[i].node = x, y \in work[i].rest
                 PROVE  Pending(x, y)' \/ (x = top /\ y = v)
    BY DEF Pending, n
  <2>2. work'[i].node = x /\ (i # n \/ y # v => y \in work'[i].rest)
    BY <2>1 DEF n
  <2> QED
    BY <1>0, <1>3, <2>1, <2>2 DEF Pending
<1>11. FollowedInv'
  BY <1>1, <1>10 DEF ComponentInv, FollowedInv, OffStack
<1>12. LowestInv'
  <2>1. SUFFICES ASSUME NEW i \in 1 .. n, NEW x \in on_stack, Belongs(x, i)',
                        NEW y \in Onward(x) \cap on_stack, ~ Pending(x, y)'
                 PROVE  lowlink'[work[i].node] <= index_of[y]
    BY <1>1, <1>3 DEF LowestInv
  <2>2. /\ index_of[work[i].node] <= index_of[x]
        /\ i < n => index_of[x] < index_of[work[i + 1].node]
    <3>1. i < n => i + 1 \in 1 .. n
      BY <1>0
    <3> QED
      BY <1>3, <2>1, <3>1 DEF Belongs
  <2>3. CASE Pending(x, y)
    <3>1. x = top /\ y = v
      BY <1>10, <2>1, <2>3
    <3>2. i = n
      <4>1. SUFFICES ASSUME i < n PROVE FALSE
        BY <1>0
      <4>2. i + 1 \in 1 .. n /\ (i + 1 < n \/ i + 1 = n)
        BY <1>0, <4>1
      <4>3. index_of[work[i + 1].node] <= index_of[top]
        <5>1. CASE i + 1 = n
          <6>1. work[i + 1].node = top /\ index_of[top] \in Nat
            BY <1>0, <1>2, <5>1
          <6> QED
            BY <6>1
        <5>2. CASE i + 1 < n
          <6>1. index_of[work[i + 1].node] < index_of[work[n].node]
            BY <1>0, <4>2, <5>2 DEF ComponentInv, FramesInv, n
          <6> QED
            BY <1>0, <1>2, <4>2, <6>1
        <5> QED
          BY <4>2, <5>1, <5>2
      <4> QED
        BY <1>0, <1>2, <2>2, <3>1, <4>1, <4>2, <4>3
    <3> QED
      BY <1>0, <1>4, <2>1, <3>1, <3>2
  <2>4. CASE ~ Pending(x, y)
    <3>1. lowlink[work[i].node] <= index_of[y]
      BY <2>1, <2>2, <2>4 DEF ComponentInv, LowestInv, Belongs, n
    <3>2. /\ lowlink'[work[i].node] <= lowlink[work[i].node]
          /\ lowlink'[work[i].node] \in Nat /\ lowlink[work[i].node] \in Nat
      BY <1>0, <1>4
    <3>3. index_of[y] \in Nat
      BY <1>0, <2>1
    <3> QED
      BY <3>1, <3>2, <3>3
  <2> QED
    BY <2>3, <2>4
<1>13. ClosedInv'
  BY <1>1 DEF ComponentInv, ClosedInv, OffStack
<1> QED
  BY <1>5, <1>6, <1>7, <1>8, <1>9, <1>11, <1>12, <1>13 DEF ComponentInv

(***************************************************************************)
(* A frame that is done.                                                   *)
(***************************************************************************)

\* It closes a component when no edge from what lies above it leads below it.
LEMMA CloseStep ==
  ASSUME TypeInv, ComponentInv, work # << >>, Top.rest = {},
         Len(work') = Len(work) - 1, \A i \in 1 .. Len(work) - 1 : work'[i] = work[i],
         lowlink[Top.node] = index_of[Top.node],
         \A x \in DOMAIN index_of : lowlink'[x] = lowlink[x],
         components' = components \cup {DownTo(Top.node)},
         on_stack' = on_stack \ DownTo(Top.node),
         UNCHANGED <<graph, include_possible, at, status, index_of>>
  PROVE  ComponentInv'
<1> DEFINE n == Len(work)
           top == Top.node
           D == DownTo(top)
<1>0. /\ n \in Nat /\ n \in 1 .. n /\ top = work[n].node /\ Top = work[n]
      /\ \A i \in 1 .. n : work[i].node \in DOMAIN index_of
      /\ \A x \in DOMAIN index_of : index_of[x] \in Nat /\ lowlink[x] \in Nat
      /\ on_stack \subseteq DOMAIN index_of /\ DOMAIN index_of \subseteq Candidates
  <2>1. Len(work) \in Nat /\ Len(work) # 0
    BY FrameTypes
  <2> QED
    BY <2>1, FrameTypes DEF Top
<1>1. /\ \A x : Onward(x)' = Onward(x)
      /\ \A x, y : Reaches(x, y)' <=> Reaches(x, y)
      /\ \A x : Cycle(x)' = Cycle(x)
  BY SameEdges
<1>2. top \in on_stack /\ top \in DOMAIN index_of
  BY <1>0 DEF ComponentInv, FramesInv
<1>3. /\ Len(work') = n - 1
      /\ \A i \in 1 .. n - 1 : work'[i] = work[i] /\ i \in 1 .. n /\ i < n
      /\ lowlink[top] = index_of[top] /\ Top.rest = {}
      /\ components' = components \cup {D} /\ on_stack' = on_stack \ D
  BY <1>0
<1>4. /\ \A x \in D : x \in on_stack /\ index_of[top] <= index_of[x]
      /\ \A x \in on_stack' : x \in on_stack /\ index_of[x] < index_of[top]
      /\ top \in D /\ D \subseteq on_stack /\ on_stack' \subseteq on_stack
  <2>1. D = {x \in on_stack : index_of[x] >= index_of[top]}
    BY DEF DownTo
  <2> QED
    BY <1>0, <1>2, <1>3, <2>1
<1> HIDE DEF n, top, D
<1>5. \A i \in 1 .. n - 1 : index_of[work[i].node] < index_of[top]
  BY <1>0, <1>3 DEF ComponentInv, FramesInv, n
<1>6. OffStack' = OffStack \cup D
  BY <1>0, <1>3, <1>4 DEF OffStack
\* What lies above the frame is a cycle.
<1>7. \A x \in D : Reaches(top, x) /\ Reaches(x, top)
  <2>1. SUFFICES ASSUME NEW x \in D PROVE Reaches(top, x) /\ Reaches(x, top)
    OBVIOUS
  <2>2. Reaches(top, x)
    BY <1>0, <1>4 DEF ComponentInv, FrameReachesInv, n
  <2>3. PICK i \in 1 .. n : index_of[work[i].node] <= index_of[x] /\ Reaches(x, work[i].node)
    BY <1>4 DEF ComponentInv, ReachesFrameInv, n
  <2>4. i = n \/ i \in 1 .. n - 1
    BY <1>0
  <2>5. index_of[work[i].node] <= index_of[top]
    BY <1>0, <1>2, <1>5, <2>4
  <2>6. Reaches(work[i].node, top)
    BY <1>2, <2>5 DEF ComponentInv, FrameReachesInv, n
  <2> QED
    BY <2>2, <2>3, <2>6, ReachesClosure
\* Its edges lead to what has left the stack, or stay in it.
<1>8. \A x \in D : Onward(x) \subseteq OffStack \cup D
  <2>1. SUFFICES ASSUME NEW x \in D, NEW y \in Onward(x) PROVE y \in OffStack \cup D
    OBVIOUS
  <2>2. ~ Pending(x, y)
    <3>1. SUFFICES ASSUME NEW i \in 1 .. n, work[i].node = x, y \in work[i].rest PROVE FALSE
      BY DEF Pending, n
    <3>2. i = n \/ i \in 1 .. n - 1
      BY <1>0
    <3>3. i # n
      BY <1>0, <1>3, <3>1
    <3> QED
      BY <1>0, <1>2, <1>4, <1>5, <3>1, <3>2, <3>3
  <2>3. y \in DOMAIN index_of
    BY <1>4, <2>2 DEF ComponentInv, FollowedInv
  <2>4. CASE y \in on_stack
    <3>1. Belongs(x, n)
      BY <1>0, <1>4 DEF Belongs, n
    <3>2. lowlink[top] <= index_of[y]
      BY <1>0, <1>4, <2>2, <2>4, <3>1 DEF ComponentInv, LowestInv, n
    <3> QED
      BY <1>0, <1>2, <1>3, <1>4, <2>3, <2>4, <3>2
  <2> QED
    BY <2>3, <2>4 DEF OffStack
<1>9. \A x \in OffStack \cup D : Onward(x) \subseteq OffStack \cup D
  BY <1>8 DEF ComponentInv, FollowedInv
<1>10. D = Cycle(top)
  <2>1. OffStack \in SUBSET Candidates /\ OffStack \cup D \in SUBSET Candidates
    BY <1>0, <1>4 DEF OffStack
  <2>2. D \subseteq Cycle(top)
    BY <1>7, <2>1 DEF Cycle
  <2>3. ASSUME NEW x \in Cycle(top) PROVE x \in D
    <3>1. Reaches(top, x) /\ Reaches(x, top)
      BY <2>3 DEF Cycle
    <3>2. x \in OffStack \cup D
      BY <1>4, <1>9, <2>1, <3>1, ReachesClosure
    <3>3. x \notin OffStack
      <4>1. SUFFICES ASSUME x \in OffStack PROVE FALSE
        OBVIOUS
      <4>2. \A w \in OffStack : Onward(w) \subseteq OffStack
        BY DEF ComponentInv, FollowedInv
      <4>3. top \in OffStack
        BY <2>1, <3>1, <4>1, <4>2, ReachesClosure
      <4> QED
        BY <1>2, <4>3 DEF OffStack
    <3> QED
      BY <3>2, <3>3
  <2> QED
    BY <2>2, <2>3
<1>11. NumbersInv'
  BY DEF ComponentInv, NumbersInv, Counter
<1>12. FramesInv'
  <2>1. \A i \in 1 .. n - 1 : work[i].node \in on_stack'
    <3>1. SUFFICES ASSUME NEW i \in 1 .. n - 1 PROVE work[i].node \in on_stack'
      OBVIOUS
    <3>2. work[i].node \in on_stack /\ index_of[work[i].node] < index_of[top]
      BY <1>3, <1>5 DEF ComponentInv, FramesInv, n
    <3> QED
      BY <1>0, <1>2, <1>3, <1>4, <3>2
  <2> QED
    BY <1>1, <1>3, <2>1 DEF ComponentInv, FramesInv, n
<1>13. FrameReachesInv'
  BY <1>1, <1>3, <1>4 DEF ComponentInv, FrameReachesInv, n
<1>14. ReachesFrameInv'
  <2>1. SUFFICES ASSUME NEW x \in on_stack'
                 PROVE  \E i \in 1 .. n - 1 : index_of[work[i].node] <= index_of[x] /\ Reaches(x, work[i].node)
    BY <1>1, <1>3 DEF ReachesFrameInv
  <2>2. PICK i \in 1 .. n : index_of[work[i].node] <= index_of[x] /\ Reaches(x, work[i].node)
    BY <1>4 DEF ComponentInv, ReachesFrameInv, n
  <2>3. i # n
    BY <1>0, <1>2, <1>4, <2>2
  <2>4. i \in 1 .. n - 1
    BY <1>0, <2>3
  <2> QED
    BY <2>2, <2>4
<1>15. LinkInv'
  <2>1. SUFFICES ASSUME NEW x \in on_stack'
                 PROVE  /\ lowlink[x] <= index_of[x]
                        /\ \E y \in on_stack' : index_of[y] = lowlink[x] /\ Reaches(x, y)
    BY <1>0, <1>1, <1>4 DEF LinkInv
  <2>2. PICK y \in on_stack : lowlink[x] <= index_of[x] /\ index_of[y] = lowlink[x] /\ Reaches(x, y)
    BY <1>4 DEF ComponentInv, LinkInv
  <2>3. y \notin D
    <3>1. x \in DOMAIN index_of /\ y \in DOMAIN index_of /\ index_of[x] < index_of[top]
      BY <1>0, <1>4
    <3>2. index_of[y] < index_of[top]
      BY <1>0, <1>2, <2>2, <3>1
    <3> QED
      BY <1>0, <1>2, <1>4, <3>1, <3>2
  <2> QED
    BY <1>3, <2>2, <2>3
<1>16. \A x \in on_stack' : \A y : Pending(x, y) => Pending(x, y)'
  <2>1. SUFFICES ASSUME NEW x \in on_stack', NEW y, NEW i \in 1 .. n, work[i].node = x, y \in work[i].rest
                 PROVE  Pending(x, y)'
    BY DEF Pending, n
  <2>2. i # n
    BY <1>0, <1>3, <2>1
  <2>3. i \in 1 .. n - 1
    BY <1>0, <2>2
  <2> QED
    BY <1>3, <2>1, <2>3 DEF Pending
<1>17. FollowedInv'
  <2>1. \A x \in on_stack' : \A y \in Onward(x) : y \in DOMAIN index_of \/ Pending(x, y)'
    BY <1>4, <1>16 DEF ComponentInv, FollowedInv
  <2> QED
    BY <1>1, <1>6, <1>9, <2>1 DEF FollowedInv
<1>18. LowestInv'
  <2>1. SUFFICES ASSUME NEW i \in 1 .. n - 1, NEW x \in on_stack', Belongs(x, i)',
                        NEW y \in Onward(x) \cap on_stack', ~ Pending(x, y)'
                 PROVE  lowlink[work[i].node] <= index_of[y]
    <3>1. \A i \in 1 .. n - 1 : lowlink'[work'[i].node] = lowlink[work[i].node]
      BY <1>0, <1>3
    <3> QED
      BY <1>1, <1>3, <3>1 DEF LowestInv
  <2>2. Belongs(x, i)
    <3>1. index_of[work[i].node] <= index_of[x]
      BY <1>3, <2>1 DEF Belongs
    <3>2. ASSUME i < n PROVE index_of[x] < index_of[work[i + 1].node]
      <4>1. CASE i = n - 1
        <5>1. i + 1 = n
          BY <1>0, <4>1
        <5> QED
          BY <1>0, <1>4, <5>1
      <4>2. CASE i # n - 1
        <5>1. i < n - 1 /\ i + 1 \in 1 .. n - 1
          BY <1>0, <2>1, <4>2
        <5> QED
          BY <1>3, <2>1, <5>1 DEF Belongs
      <4> QED
        BY <4>1, <4>2
    <3> QED
      BY <3>1, <3>2 DEF Belongs, n
  <2>3. ~ Pending(x, y)
    BY <1>16, <2>1
  <2> QED
    BY <1>3, <1>4, <2>1, <2>2, <2>3 DEF ComponentInv, LowestInv, n
<1>19. ClosedInv'
  <2>1. UNION components' = OffStack'
    BY <1>3, <1>6 DEF ComponentInv, ClosedInv
  <2>2. \A c \in components' : \E u \in OffStack' : c = Cycle(u)
    BY <1>3, <1>4, <1>6, <1>10 DEF ComponentInv, ClosedInv
  <2> QED
    BY <1>1, <2>1, <2>2 DEF ClosedInv
<1> QED
  BY <1>11, <1>12, <1>13, <1>14, <1>15, <1>17, <1>18, <1>19 DEF ComponentInv

\* It hands its link to the frame below when an edge leads below it.
LEMMA HandDownStep ==
  ASSUME TypeInv, ComponentInv, work # << >>, Top.rest = {},
         Len(work') = Len(work) - 1, \A i \in 1 .. Len(work) - 1 : work'[i] = work[i],
         lowlink[Top.node] # index_of[Top.node],
         lowlink' = IF Len(work) > 1 THEN Lower(work[Len(work) - 1].node, lowlink[Top.node]) ELSE lowlink,
         UNCHANGED <<graph, include_possible, at, status, index_of, on_stack, components>>
  PROVE  ComponentInv'
<1> DEFINE n == Len(work)
           top == Top.node
           below == work[n - 1].node
<1>0. /\ n \in Nat /\ n \in 1 .. n /\ top = work[n].node /\ Top = work[n]
      /\ \A i \in 1 .. n : work[i].node \in DOMAIN index_of
      /\ \A x \in DOMAIN index_of : index_of[x] \in Nat /\ lowlink[x] \in Nat
      /\ on_stack \subseteq DOMAIN index_of /\ DOMAIN lowlink = DOMAIN index_of
  <2>1. DOMAIN lowlink = DOMAIN index_of
    BY DEF TypeInv, TypeOK
  <2>2. Len(work) \in Nat /\ Len(work) # 0
    BY FrameTypes
  <2> QED
    BY <2>1, <2>2, FrameTypes DEF Top
<1>1. /\ \A x : Onward(x)' = Onward(x)
      /\ \A x, y : Reaches(x, y)' <=> Reaches(x, y)
      /\ \A x : Cycle(x)' = Cycle(x)
  BY SameEdges
<1>2. top \in on_stack /\ top \in DOMAIN index_of
  BY <1>0 DEF ComponentInv, FramesInv
<1>3. /\ Len(work') = n - 1
      /\ \A i \in 1 .. n - 1 : work'[i] = work[i] /\ i \in 1 .. n /\ i < n
      /\ Top.rest = {}
  BY <1>0
<1> HIDE DEF n, top, below
<1>4. \A i \in 1 .. n - 1 : index_of[work[i].node] < index_of[top]
  BY <1>0, <1>3 DEF ComponentInv, FramesInv, n
\* There is a frame below, and it lies no higher than what the link stands for.
<1>5. PICK y \in on_stack : index_of[y] = lowlink[top] /\ Reaches(top, y) /\ index_of[y] < index_of[top]
  <2>1. lowlink[top] < index_of[top]
    BY <1>0, <1>2 DEF ComponentInv, LinkInv, top
  <2> QED
    BY <1>2, <2>1 DEF ComponentInv, LinkInv
<1>6. PICK j \in 1 .. n - 1 : index_of[work[j].node] <= index_of[y] /\ Reaches(y, work[j].node)
  <2>1. PICK j \in 1 .. n : index_of[work[j].node] <= index_of[y] /\ Reaches(y, work[j].node)
    BY DEF ComponentInv, ReachesFrameInv, n
  <2>2. j # n
    BY <1>0, <1>2, <1>5, <2>1
  <2>3. j \in 1 .. n - 1
    BY <1>0, <2>2
  <2> QED
    BY <2>1, <2>3
<1>7. n - 1 \in 1 .. n - 1 /\ n > 1 /\ below \in on_stack /\ below \in DOMAIN index_of
      /\ index_of[below] < index_of[top] /\ below = work[n - 1].node
  <2>1. n - 1 \in 1 .. n - 1 /\ n > 1
    BY <1>0, <1>6
  <2> QED
    BY <1>0, <1>3, <1>4, <2>1 DEF ComponentInv, FramesInv, below, n
<1>8. /\ \A x \in DOMAIN index_of : lowlink'[x] \in Nat /\ lowlink'[x] <= lowlink[x]
      /\ \A x \in DOMAIN index_of : x # below => lowlink'[x] = lowlink[x]
      /\ lowlink'[below] = lowlink[below] \/ lowlink'[below] = lowlink[top]
      /\ lowlink'[below] <= lowlink[top]
  <2>1. lowlink' = [lowlink EXCEPT ![below] = IF lowlink[top] < @ THEN lowlink[top] ELSE @]
    BY <1>7 DEF Lower, n, top, below
  <2>2. /\ \A x \in DOMAIN index_of : x # below => lowlink'[x] = lowlink[x]
        /\ lowlink'[below] = IF lowlink[top] < lowlink[below] THEN lowlink[top] ELSE lowlink[below]
    BY <1>0, <1>7, <2>1
  <2>3. lowlink[top] \in Nat /\ lowlink[below] \in Nat
    BY <1>0, <1>2, <1>7
  <2>4. /\ lowlink'[below] \in Nat /\ lowlink'[below] <= lowlink[below] /\ lowlink'[below] <= lowlink[top]
        /\ lowlink'[below] = lowlink[below] \/ lowlink'[below] = lowlink[top]
    BY <2>2, <2>3
  <2>5. ASSUME NEW x \in DOMAIN index_of PROVE lowlink'[x] \in Nat /\ lowlink'[x] <= lowlink[x]
    <3>1. CASE x = below
      BY <2>4, <3>1
    <3>2. CASE x # below
      <4>1. lowlink'[x] = lowlink[x] /\ lowlink[x] \in Nat
        BY <1>0, <2>2, <3>2
      <4> QED
        BY <4>1
    <3> QED
      BY <3>1, <3>2
  <2> QED
    BY <2>2, <2>4, <2>5
<1>9. NumbersInv'
  BY DEF ComponentInv, NumbersInv, Counter
<1>10. FramesInv'
  BY <1>1, <1>3 DEF ComponentInv, FramesInv, n
<1>11. FrameReachesInv'
  BY <1>1, <1>3 DEF ComponentInv, FrameReachesInv, n
<1>12. ReachesFrameInv'
  <2>1. SUFFICES ASSUME NEW x \in on_stack
                 PROVE  \E i \in 1 .. n - 1 : index_of[work[i].node] <= index_of[x] /\ Reaches(x, work[i].node)
    BY <1>1, <1>3 DEF ReachesFrameInv
  <2>2. PICK i \in 1 .. n : index_of[work[i].node] <= index_of[x] /\ Reaches(x, work[i].node)
    BY DEF ComponentInv, ReachesFrameInv, n
  <2>3. CASE i \in 1 .. n - 1
    BY <2>2, <2>3
  <2>4. CASE i = n
    <3>1. index_of[top] <= index_of[x] /\ Reaches(x, top)
      BY <1>0, <2>2, <2>4
    <3>2. Reaches(x, work[j].node)
      BY <1>5, <1>6, <3>1, ReachesClosure
    <3>3. work[j].node \in DOMAIN index_of
      BY <1>0, <1>3
    <3>4. index_of[work[j].node] <= index_of[x]
      <4>1. /\ index_of[work[j].node] \in Nat /\ index_of[y] \in Nat
            /\ index_of[top] \in Nat /\ index_of[x] \in Nat
        BY <1>0, <1>2, <3>3
      <4> QED
        BY <1>5, <1>6, <3>1, <4>1
    <3> QED
      BY <3>2, <3>4
  <2> QED
    BY <1>0, <2>3, <2>4
<1>13. LinkInv'
  <2>1. SUFFICES ASSUME NEW x \in on_stack
                 PROVE  /\ lowlink'[x] <= index_of[x]
                        /\ \E z \in on_stack : index_of[z] = lowlink'[x] /\ Reaches(x, z)
    BY <1>1 DEF LinkInv
  <2>2. x \in DOMAIN index_of
    BY <1>0
  <2>3. lowlink'[x] <= index_of[x]
    <3>1. lowlink[x] <= index_of[x]
      BY DEF ComponentInv, LinkInv
    <3> QED
      BY <1>0, <1>8, <2>2, <3>1
  <2>4. CASE lowlink'[x] = lowlink[x]
    BY <2>3, <2>4 DEF ComponentInv, LinkInv
  <2>5. CASE x = below /\ lowlink'[below] = lowlink[top]
    <3>1. index_of[work[n - 1].node] <= index_of[top]
      <4>1. index_of[below] \in Nat /\ index_of[top] \in Nat
        BY <1>0, <1>2, <1>7
      <4> QED
        BY <1>7, <4>1
    <3>2. Reaches(below, top)
      BY <1>2, <1>3, <1>7, <3>1 DEF ComponentInv, FrameReachesInv, n
    <3>3. Reaches(below, y)
      BY <1>5, <3>2, ReachesClosure
    <3> QED
      BY <1>5, <2>3, <2>5, <3>3
  <2> QED
    BY <1>8, <2>2, <2>4, <2>5
<1>14. \A x, z : Pending(x, z) => Pending(x, z)'
  <2>1. SUFFICES ASSUME NEW x, NEW z, NEW i \in 1 .. n, work[i].node = x, z \in work[i].rest
                 PROVE  Pending(x, z)'
    BY DEF Pending, n
  <2>2. i # n
    BY <1>0, <1>3, <2>1
  <2>3. i \in 1 .. n - 1
    BY <1>0, <2>2
  <2> QED
    BY <1>3, <2>1, <2>3 DEF Pending
<1>15. FollowedInv'
  BY <1>1, <1>14 DEF ComponentInv, FollowedInv, OffStack
<1>16. LowestInv'
  <2>1. SUFFICES ASSUME NEW i \in 1 .. n - 1, NEW x \in on_stack, Belongs(x, i)',
                        NEW z \in Onward(x) \cap on_stack, ~ Pending(x, z)'
                 PROVE  lowlink'[work[i].node] <= index_of[z]
    BY <1>1, <1>3 DEF LowestInv
  <2>2. index_of[work[i].node] <= index_of[x]
    BY <1>3, <2>1 DEF Belongs
  <2>3. ~ Pending(x, z) /\ z \in DOMAIN index_of /\ x \in DOMAIN index_of /\ work[i].node \in DOMAIN index_of
    BY <1>0, <1>3, <1>14, <2>1
  <2>4. CASE Belongs(x, i)
    <3>1. lowlink[work[i].node] <= index_of[z]
      BY <1>3, <2>1, <2>3, <2>4 DEF ComponentInv, LowestInv, n
    <3>2. /\ lowlink'[work[i].node] \in Nat /\ lowlink[work[i].node] \in Nat /\ index_of[z] \in Nat
          /\ lowlink'[work[i].node] <= lowlink[work[i].node]
      BY <1>0, <1>8, <2>3
    <3> QED
      BY <3>1, <3>2
  <2>5. CASE ~ Belongs(x, i)
    <3>1. i < n /\ ~ (index_of[x] < index_of[work[i + 1].node])
      BY <2>2, <2>5 DEF Belongs, n
    <3>2. i = n - 1
      <4>1. SUFFICES ASSUME i # n - 1 PROVE FALSE
        OBVIOUS
      <4>2. i < n - 1 /\ i + 1 \in 1 .. n - 1
        BY <1>0, <2>1, <4>1
      <4>3. index_of[x] < index_of[work[i + 1].node]
        BY <1>3, <2>1, <4>2 DEF Belongs
      <4> QED
        BY <3>1, <4>3
    <3>3. i + 1 = n
      BY <1>0, <3>2
    <3>4. index_of[top] <= index_of[x]
      <4>1. work[i + 1].node = top
        BY <1>0, <3>3
      <4>2. index_of[top] \in Nat /\ index_of[x] \in Nat
        BY <1>0, <1>2, <2>3
      <4> QED
        BY <3>1, <4>1, <4>2
    <3>5. Belongs(x, n)
      BY <1>0, <3>4 DEF Belongs, n
    <3>6. lowlink[top] <= index_of[z]
      BY <1>0, <2>1, <2>3, <3>5 DEF ComponentInv, LowestInv, n
    <3>7. lowlink'[below] <= lowlink[top] /\ lowlink'[below] \in Nat /\ lowlink[top] \in Nat /\ index_of[z] \in Nat
      BY <1>0, <1>2, <1>7, <1>8, <2>3
    <3> QED
      BY <1>7, <3>2, <3>6, <3>7
  <2> QED
    BY <2>4, <2>5
<1>17. ClosedInv'
  BY <1>1 DEF ComponentInv, ClosedInv, OffStack
<1> QED
  BY <1>9, <1>10, <1>11, <1>12, <1>13, <1>15, <1>16, <1>17 DEF ComponentInv

(***************************************************************************)
(* The actions.                                                            *)
(***************************************************************************)

\* Nothing is numbered yet.
LEMMA NothingNumbered ==
  ASSUME index_of = Empty, on_stack = {}, work = << >>, components = {}
  PROVE  ComponentInv
<1>1. DOMAIN index_of = {} /\ OffStack = {}
  BY DEF Empty, OffStack
<1>2. Len(work) = 0 /\ 1 .. Len(work) = {}
  <2>1. Len(work) = 0
    OBVIOUS
  <2> QED
    BY <2>1
<1> QED
  BY <1>1, <1>2 DEF ComponentInv, NumbersInv, FramesInv, FrameReachesInv, ReachesFrameInv, LinkInv,
                    FollowedInv, LowestInv, ClosedInv

LEMMA FreshStep == ASSUME TarjanInv, Visit \/ Searched \/ Classify PROVE ComponentInv' /\ Fresh' /\ CompletedInv'
<1>1. /\ index_of' = index_of /\ on_stack' = on_stack /\ work' = work /\ components' = components
      /\ at \in {"search", "ladder"} /\ at' # "done"
  BY DEF Visit, Searched, Classify, verdicts
<1>2. index_of = Empty /\ on_stack = {} /\ work = << >> /\ components = {}
  BY <1>1 DEF TarjanInv, Fresh
<1>3. ComponentInv'
  <2>1. DOMAIN index_of' = {} /\ OffStack' = {} /\ on_stack' = {} /\ components' = {}
    BY <1>1, <1>2 DEF Empty, OffStack
  <2>2. Len(work') = 0 /\ 1 .. Len(work') = {}
    <3>1. Len(work') = 0
      BY <1>1, <1>2
    <3> QED
      BY <3>1
  <2> QED
    BY <2>1, <2>2 DEF ComponentInv, NumbersInv, FramesInv, FrameReachesInv, ReachesFrameInv, LinkInv,
                      FollowedInv, LowestInv, ClosedInv
<1> QED
  BY <1>1, <1>2, <1>3 DEF Fresh, CompletedInv

LEMMA StartStep == ASSUME TarjanInv, StartComponent PROVE ComponentInv'
<1>1. PICK u \in Candidates \ DOMAIN index_of : Number(u, << >>)
  BY DEF StartComponent
<1>2. work = << >> /\ Len(work) = 0
  BY DEF StartComponent
<1>3. Given(u, << >>)
  BY <1>2 DEF Given
<1>4. << >> \in Seq([node : DOMAIN index_of, rest : SUBSET Candidates])
  OBVIOUS
<1>5. TypeInv /\ ComponentInv
  BY DEF TarjanInv
<1> HIDE DEF TarjanInv
<1> QED
  BY <1>1, <1>3, <1>4, <1>5, NumberStep

LEMMA FollowStep == ASSUME TarjanInv, FollowEdge PROVE ComponentInv'
<1> DEFINE Frame == [node : DOMAIN index_of, rest : SUBSET Candidates]
<1>1. PICK v \in Top.rest :
        LET frames == [work EXCEPT ![Len(work)].rest = @ \ {v}]
        IN IF v \notin DOMAIN index_of
           THEN Number(v, frames)
           ELSE /\ work' = frames
                /\ lowlink' = IF v \in on_stack THEN Lower(Top.node, index_of[v]) ELSE lowlink
                /\ UNCHANGED <<graph, include_possible, at, reachable, stack, status, index_of, on_stack,
                               components>>
  BY DEF FollowEdge
<1> DEFINE frames == [work EXCEPT ![Len(work)].rest = @ \ {v}]
<1>2. work \in Seq(Frame) /\ work # << >> /\ TypeInv /\ ComponentInv
  BY DEF TarjanInv, TypeInv, TypeOK, FollowEdge
<1>3. Len(work) \in 1 .. Len(work) /\ work \in [1 .. Len(work) -> Frame] /\ Len(work) \in Nat
  <2>1. work \in [1 .. Len(work) -> Frame] /\ Len(work) \in Nat
    BY <1>2, LenProperties
  <2>2. Len(work) # 0
    BY <1>2, EmptySeq
  <2> QED
    BY <2>1, <2>2
<1>4. Top \in Frame /\ Top = work[Len(work)]
  BY <1>3 DEF Top
<1>5. [Top EXCEPT !.rest = @ \ {v}] \in Frame
  BY <1>4
<1>6. frames = [work EXCEPT ![Len(work)] = [Top EXCEPT !.rest = @ \ {v}]]
  BY <1>3 DEF Top
<1>7. frames \in Seq(Frame)
  <2> HIDE DEF Frame, frames
  <2> QED
    BY <1>2, <1>3, <1>5, <1>6, ExceptSeq
<1>8. Len(frames) = Len(work)
  <2> HIDE DEF Frame, frames
  <2> QED
    BY <1>2, <1>3, <1>5, <1>6, ExceptSeq
<1>9. \A i \in 1 .. Len(work) :
        /\ frames[i].node = work[i].node
        /\ frames[i].rest = IF i = Len(work) THEN work[i].rest \ {v} ELSE work[i].rest
  <2>1. SUFFICES ASSUME NEW i \in 1 .. Len(work)
                 PROVE  /\ frames[i].node = work[i].node
                        /\ frames[i].rest = IF i = Len(work) THEN work[i].rest \ {v} ELSE work[i].rest
    OBVIOUS
  <2>2. CASE i = Len(work)
    <3>1. frames[i] = [Top EXCEPT !.rest = @ \ {v}]
      BY <1>3, <1>6, <2>2
    <3> QED
      BY <1>4, <2>2, <3>1
  <2>3. CASE i # Len(work)
    BY <1>3, <1>6, <2>3
  <2> QED
    BY <2>2, <2>3
<1>10. CASE v \notin DOMAIN index_of
  <2>1. v \in Candidates
    BY <1>4
  <2>2. Number(v, frames)
    BY <1>1, <1>10
  <2>3. Given(v, frames)
    BY <1>4, <1>8, <1>9 DEF Given
  <2> HIDE DEF frames
  <2> QED
    BY <1>2, <1>7, <1>10, <2>1, <2>2, <2>3, NumberStep
<1>11. CASE v \in DOMAIN index_of
  <2>1. /\ work' = frames
        /\ lowlink' = IF v \in on_stack THEN Lower(Top.node, index_of[v]) ELSE lowlink
        /\ UNCHANGED <<graph, include_possible, at, status, index_of, on_stack, components>>
    BY <1>1, <1>11
  <2> HIDE DEF frames
  <2> QED
    BY <1>2, <1>8, <1>9, <1>11, <2>1, PassStep
<1> QED
  BY <1>10, <1>11

LEMMA ReturnStep == ASSUME TarjanInv, Return PROVE ComponentInv'
<1> DEFINE Frame == [node : DOMAIN index_of, rest : SUBSET Candidates]
           n == Len(work)
           top == Top.node
<1>1. work \in Seq(Frame) /\ work # << >> /\ TypeInv /\ ComponentInv
  BY DEF TarjanInv, TypeInv, TypeOK, Return
<1>2. n \in Nat /\ n \in 1 .. n /\ work \in [1 .. n -> Frame]
  <2>1. work \in [1 .. Len(work) -> Frame] /\ Len(work) \in Nat
    BY <1>1, LenProperties
  <2>2. Len(work) # 0
    BY <1>1, EmptySeq
  <2> QED
    BY <2>1, <2>2
<1>3. Len(work') = n - 1 /\ \A i \in 1 .. n - 1 : work'[i] = work[i]
  <2>1. work' = SubSeq(work, 1, n - 1)
    BY DEF Return, Below
  <2>2. n - 1 \in Nat /\ n - 1 <= n
    BY <1>2
  <2>3. \A i \in 1 .. n - 1 : work[i] \in Frame
    BY <1>2
  <2> HIDE DEF Frame, n
  <2> QED
    BY <2>1, <2>2, <2>3, SubSeqProperties
<1>4. /\ Top.rest = {}
      /\ lowlink' = IF n > 1 THEN Lower(work[n - 1].node, lowlink[top]) ELSE lowlink
      /\ IF lowlink[top] = index_of[top]
         THEN components' = components \cup {DownTo(top)} /\ on_stack' = on_stack \ DownTo(top)
         ELSE UNCHANGED <<components, on_stack>>
      /\ UNCHANGED <<graph, include_possible, at, status, index_of>>
  BY DEF Return
<1>5. /\ top = work[n].node /\ top \in DOMAIN index_of
      /\ \A i \in 1 .. n : work[i].node \in DOMAIN index_of
      /\ \A x \in DOMAIN index_of : index_of[x] \in Nat /\ lowlink[x] \in Nat
      /\ DOMAIN lowlink = DOMAIN index_of
  <2>1. DOMAIN lowlink = DOMAIN index_of
    BY <1>1 DEF TypeInv, TypeOK
  <2> QED
    BY <1>1, <1>2, <2>1, FrameTypes DEF Top
<1>6. CASE lowlink[top] = index_of[top]
  <2>1. \A x \in DOMAIN index_of : lowlink'[x] = lowlink[x]
    <3>1. CASE n > 1
      <4>1. n - 1 \in 1 .. n /\ n - 1 < n
        BY <1>2, <3>1
      <4> DEFINE below == work[n - 1].node
      <4>2. below \in DOMAIN index_of
        BY <1>5, <4>1
      <4>3. index_of[below] < index_of[top]
        BY <1>1, <1>2, <1>5, <4>1 DEF ComponentInv, FramesInv
      <4>4. lowlink[below] <= index_of[below]
        BY <1>1, <4>1 DEF ComponentInv, FramesInv, LinkInv
      <4>5. ~ (lowlink[top] < lowlink[below])
        <5>1. index_of[below] \in Nat /\ index_of[top] \in Nat /\ lowlink[below] \in Nat
          BY <1>5, <4>2
        <5> QED
          BY <1>6, <4>3, <4>4, <5>1
      <4>6. lowlink' = [lowlink EXCEPT ![below] = IF lowlink[top] < @ THEN lowlink[top] ELSE @]
        BY <1>4, <3>1 DEF Lower
      <4> QED
        BY <1>5, <4>2, <4>5, <4>6
    <3>2. CASE ~ n > 1
      BY <1>4, <3>2
    <3> QED
      BY <3>1, <3>2
  <2> QED
    BY <1>1, <1>3, <1>4, <1>6, <2>1, CloseStep
<1>7. CASE lowlink[top] # index_of[top]
  BY <1>1, <1>3, <1>4, <1>7, HandDownStep
<1> QED
  BY <1>6, <1>7

LEMMA TarjanInit == Init => TarjanInv
<1> SUFFICES ASSUME Init PROVE TarjanInv
  OBVIOUS
<1>1. index_of = Empty /\ on_stack = {} /\ work = << >> /\ components = {} /\ at = "search"
  BY DEF Init
<1>2. ComponentInv
  BY <1>1, NothingNumbered
<1> QED
  BY <1>1, <1>2, TypeInit DEF TarjanInv, Fresh, CompletedInv

LEMMA TarjanNext == ASSUME TarjanInv, [Next]_vars PROVE TarjanInv'
<1>1. TypeInv'
  BY TypeNext DEF TarjanInv
<1>2. CASE Visit \/ Searched \/ Classify
  BY <1>1, <1>2, FreshStep DEF TarjanInv
<1>3. CASE StartComponent \/ FollowEdge \/ Return
  <2>1. at = "components" /\ at' = "components"
    <3>1. CASE StartComponent
      BY <3>1 DEF StartComponent, Number
    <3>2. CASE FollowEdge
      BY <3>2 DEF FollowEdge, Number
    <3>3. CASE Return
      BY <3>3 DEF Return
    <3> QED
      BY <1>3, <3>1, <3>2, <3>3
  <2>2. ComponentInv'
    BY <1>3, StartStep, FollowStep, ReturnStep
  <2> QED
    BY <1>1, <2>1, <2>2 DEF TarjanInv, Fresh, CompletedInv
<1>4. CASE Report \/ UNCHANGED vars
  <2>1. /\ UNCHANGED <<graph, include_possible, status, index_of, lowlink, on_stack, work, components>>
        /\ at' = at \/ (at' = "done" /\ work = << >> /\ Candidates \subseteq DOMAIN index_of)
    BY <1>4 DEF Report, verdicts, vars
  <2>2. /\ Candidates' = Candidates /\ \A u : Onward(u)' = Onward(u)
        /\ \A u, v : Reaches(u, v)' <=> Reaches(u, v)
        /\ \A u : Cycle(u)' = Cycle(u)
    BY <2>1, SameEdges
  <2>3. /\ NumbersInv' /\ FramesInv' /\ FrameReachesInv' /\ ReachesFrameInv' /\ LinkInv'
    BY <2>1, <2>2 DEF TarjanInv, ComponentInv, NumbersInv, Counter, FramesInv, FrameReachesInv,
                      ReachesFrameInv, LinkInv
  <2>4. FollowedInv' /\ LowestInv' /\ ClosedInv'
    BY <2>1, <2>2 DEF TarjanInv, ComponentInv, FollowedInv, LowestInv, ClosedInv, Pending, Belongs, OffStack
  <2>5. Fresh' /\ CompletedInv'
    BY <2>1, <2>2 DEF TarjanInv, Fresh, CompletedInv
  <2> QED
    BY <1>1, <2>3, <2>4, <2>5 DEF TarjanInv, ComponentInv
<1> QED
  BY <1>2, <1>3, <1>4 DEF Next

\* When the work is done, nothing lies on the stack: every candidate is in a component.
LEMMA ComponentsComplete == TarjanInv => ComponentsAreCycles
<1> SUFFICES ASSUME TarjanInv, at = "done" PROVE components = {Cycle(u) : u \in Candidates}
  BY DEF ComponentsAreCycles
<1>1. work = << >> /\ DOMAIN index_of = Candidates
  BY DEF TarjanInv, CompletedInv, TypeInv, TypeOK
<1>2. on_stack = {}
  <2>1. Len(work) = 0 /\ 1 .. Len(work) = {}
    <3>1. Len(work) = 0
      BY <1>1
    <3> QED
      BY <3>1
  <2> QED
    BY <2>1 DEF TarjanInv, ComponentInv, ReachesFrameInv
<1>3. UNION components = Candidates /\ \A c \in components : \E u \in Candidates : c = Cycle(u)
  BY <1>1, <1>2 DEF TarjanInv, ComponentInv, ClosedInv, OffStack
<1>4. ASSUME NEW u \in Candidates PROVE Cycle(u) \in components
  <2>1. PICK c \in components, w \in Candidates : u \in c /\ c = Cycle(w)
    BY <1>3
  <2>2. Reaches(w, u) /\ Reaches(u, w)
    BY <2>1 DEF Cycle
  <2>3. \A x : Reaches(u, x) <=> Reaches(w, x)
    BY <2>2, ReachesClosure
  <2>4. \A x : Reaches(x, u) <=> Reaches(x, w)
    BY <2>2, ReachesClosure
  <2>5. Cycle(u) = Cycle(w)
    BY <2>3, <2>4 DEF Cycle
  <2> QED
    BY <2>1, <2>5
<1> QED
  BY <1>3, <1>4

(***************************************************************************)
(* Tarjan's algorithm without recursion is right for every program: what   *)
(* find_dead_code reports as components are exactly the classes of         *)
(* candidates that reach each other by candidates.                         *)
(***************************************************************************)
THEOREM ComponentsHold == Spec => []ComponentsAreCycles
<1>1. Init => TarjanInv
  BY TarjanInit
<1>2. TarjanInv /\ [Next]_vars => TarjanInv'
  BY TarjanNext
<1>3. TarjanInv => ComponentsAreCycles
  BY ComponentsComplete
<1> QED
  BY <1>1, <1>2, <1>3, PTL DEF Spec
=============================================================================
