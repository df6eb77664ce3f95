----------------------------- MODULE CallPathProofs -----------------------------
(***************************************************************************)
(* Proofs about CallPath, for every graph, every query and every limit:    *)
(* the type invariant, that each path the search returns is one of the     *)
(* graph, with the depth it says, that the recursive queries for callers   *)
(* and callees are inverse to each other, and that without aliases and     *)
(* constructors the search finds exactly what walks over calls and         *)
(* transits reach, the nearest first; without transits that is what the    *)
(* query for callers says of the same functions.                           *)
(*                                                                         *)
(* PathsAreReal is not inductive: a path is glued together where the two   *)
(* fronts meet, from chains and distances that were recorded rounds ago.   *)
(* PathInv adds what the search knows of them: every chain is a walk that  *)
(* ends where its front began and has as many edges as the distance beside *)
(* it says, and a queue holds first the functions of the round before and  *)
(* then those of this round.                                               *)
(*                                                                         *)
(* PathsAgreeWithCallers needs what the search has not missed, SearchInv:  *)
(* all edges of what has left a queue have been followed, and the fronts   *)
(* have no function in common as long as nothing is found.  If a source    *)
(* were nearer than the fronts have come, a function on its way would be   *)
(* known to both of them.  How far that is, is counted by the levels of    *)
(* the recursive query; what the proofs know of a recursion they know by   *)
(* CountUp, an induction over a set of numbers.                            *)
(***************************************************************************)
EXTENDS CallPath, SequenceTheorems, WellFoundedInduction, TLAPS

Walk(E, c) == \A i \in 1 .. Len(c) - 1 : <<c[i], c[i + 1]>> \in E

(***************************************************************************)
(* Chains                                                                  *)
(***************************************************************************)

\* A chain that is extended at its end, as the forward front does, is a walk
\* from the same function to the new one.
LEMMA WalkAppend ==
  ASSUME NEW E, NEW c \in Seq(Node), NEW v \in Node, c # << >>,
         Walk(E, c), <<c[Len(c)], v>> \in E
  PROVE  /\ Append(c, v) \in Seq(Node) /\ Append(c, v) # << >>
         /\ Len(Append(c, v)) = Len(c) + 1
         /\ Append(c, v)[1] = c[1] /\ Append(c, v)[Len(c) + 1] = v
         /\ Walk(E, Append(c, v))
<1>1. Len(c) \in Nat \ {0}
  BY EmptySeq
<1>2. /\ Append(c, v) \in Seq(Node) /\ Append(c, v) # << >>
      /\ Len(Append(c, v)) = Len(c) + 1
      /\ \A i \in 1 .. Len(c) : Append(c, v)[i] = c[i]
      /\ Append(c, v)[Len(c) + 1] = v
  BY AppendProperties
<1>3. ASSUME NEW i \in 1 .. Len(Append(c, v)) - 1
      PROVE  <<Append(c, v)[i], Append(c, v)[i + 1]>> \in E
  <2>1. i \in 1 .. Len(c)
    BY <1>1, <1>2
  <2>2. CASE i = Len(c)
    BY <1>1, <1>2, <2>1, <2>2
  <2>3. CASE i # Len(c)
    <3>1. i \in 1 .. Len(c) - 1 /\ i + 1 \in 1 .. Len(c)
      BY <1>1, <2>1, <2>3
    <3>2. <<c[i], c[i + 1]>> \in E
      BY <3>1 DEF Walk
    <3> QED
      BY <1>2, <2>1, <3>1, <3>2
  <2> QED
    BY <2>2, <2>3
<1> QED
  BY <1>1, <1>2, <1>3 DEF Walk

\* What follows one chain after another, at the positions of the second.
LEMMA ConcatIsWalk ==
  ASSUME NEW E, NEW c \in Seq(Node), NEW d \in Seq(Node), c # << >>,
         Walk(E, c), Walk(E, d), d # << >> => <<c[Len(c)], d[1]>> \in E
  PROVE  /\ c \o d \in Seq(Node) /\ c \o d # << >>
         /\ Len(c \o d) = Len(c) + Len(d)
         /\ (c \o d)[1] = c[1]
         /\ (c \o d)[Len(c) + Len(d)] = IF d = << >> THEN c[Len(c)] ELSE d[Len(d)]
         /\ Walk(E, c \o d)
<1>1. Len(c) \in Nat \ {0} /\ Len(d) \in Nat /\ (d # << >> => Len(d) # 0) /\ (d = << >> => Len(d) = 0)
  BY EmptySeq, LenProperties
<1>2. /\ c \o d \in Seq(Node)
      /\ Len(c \o d) = Len(c) + Len(d)
      /\ \A i \in 1 .. Len(c) + Len(d) : (c \o d)[i] = IF i <= Len(c) THEN c[i] ELSE d[i - Len(c)]
  BY ConcatProperties
<1>3. c \o d # << >>
  BY <1>1, <1>2, EmptySeq
<1>4. (c \o d)[1] = c[1]
  BY <1>1, <1>2
<1>5. (c \o d)[Len(c) + Len(d)] = IF d = << >> THEN c[Len(c)] ELSE d[Len(d)]
  <2>1. CASE d = << >>
    BY <1>1, <1>2, <2>1
  <2>2. CASE d # << >>
    <3>1. Len(c) + Len(d) \in 1 .. Len(c) + Len(d) /\ ~ (Len(c) + Len(d) <= Len(c))
          /\ Len(c) + Len(d) - Len(c) = Len(d)
      BY <1>1, <2>2
    <3> QED
      BY <1>2, <2>2, <3>1
  <2> QED
    BY <2>1, <2>2
<1>6. ASSUME NEW i \in 1 .. Len(c \o d) - 1
      PROVE  <<(c \o d)[i], (c \o d)[i + 1]>> \in E
  <2>0. i \in Nat /\ i \in 1 .. Len(c) + Len(d) /\ i + 1 \in 1 .. Len(c) + Len(d)
    BY <1>1, <1>2
  <2>1. CASE i < Len(c)
    <3>1. i \in 1 .. Len(c) - 1 /\ i <= Len(c) /\ i + 1 <= Len(c)
      BY <1>1, <2>0, <2>1
    <3>2. <<c[i], c[i + 1]>> \in E
      BY <3>1 DEF Walk
    <3> QED
      BY <1>2, <2>0, <3>1, <3>2
  <2>2. CASE i = Len(c)
    <3>1. d # << >> /\ ~ (i + 1 <= Len(c)) /\ i + 1 - Len(c) = 1
      BY <1>1, <2>0, <2>2
    <3>2. (c \o d)[i] = c[Len(c)] /\ (c \o d)[i + 1] = d[1]
      BY <1>1, <1>2, <2>0, <2>2, <3>1
    <3> QED
      BY <3>1, <3>2
  <2>3. CASE i > Len(c)
    <3>1. /\ i - Len(c) \in 1 .. Len(d) - 1
          /\ ~ (i <= Len(c)) /\ ~ (i + 1 <= Len(c))
          /\ i + 1 - Len(c) = (i - Len(c)) + 1
      BY <1>1, <2>0, <2>3
    <3>2. <<d[i - Len(c)], d[(i - Len(c)) + 1]>> \in E
      BY <3>1 DEF Walk
    <3>3. (c \o d)[i] = d[i - Len(c)]
      BY <1>2, <2>0, <3>1
    <3>4. (c \o d)[i + 1] = d[i + 1 - Len(c)]
      BY <1>2, <2>0, <3>1
    <3>5. (c \o d)[i + 1] = d[(i - Len(c)) + 1]
      BY <3>1, <3>4
    <3> QED
      BY <3>2, <3>3, <3>5
  <2>4. i < Len(c) \/ i = Len(c) \/ i > Len(c)
    BY <1>1, <2>0
  <2> QED
    BY <2>1, <2>2, <2>3, <2>4
<1> QED
  BY <1>2, <1>3, <1>4, <1>5, <1>6 DEF Walk

\* A chain that is extended at its front, as the reverse front does.
LEMMA WalkCons ==
  ASSUME NEW E, NEW c \in Seq(Node), NEW v \in Node, c # << >>,
         Walk(E, c), <<v, c[1]>> \in E
  PROVE  /\ <<v>> \o c \in Seq(Node) /\ <<v>> \o c # << >>
         /\ Len(<<v>> \o c) = Len(c) + 1
         /\ (<<v>> \o c)[1] = v /\ (<<v>> \o c)[Len(c) + 1] = c[Len(c)]
         /\ Walk(E, <<v>> \o c)
<1> DEFINE b == <<v>>
<1>1. b \in Seq(Node) /\ b # << >> /\ Len(b) = 1 /\ b[1] = v
  OBVIOUS
<1>2. Walk(E, b)
  BY <1>1 DEF Walk
<1>3. Len(c) \in Nat
  BY LenProperties
<1> HIDE DEF b
<1>4. /\ b \o c \in Seq(Node) /\ b \o c # << >>
      /\ Len(b \o c) = Len(b) + Len(c)
      /\ (b \o c)[1] = b[1]
      /\ (b \o c)[Len(b) + Len(c)] = c[Len(c)]
      /\ Walk(E, b \o c)
  BY <1>1, <1>2, ConcatIsWalk
<1>5. Len(b) + Len(c) = Len(c) + 1
  BY <1>1, <1>3
<1>6. /\ b \o c \in Seq(Node) /\ b \o c # << >>
      /\ Len(b \o c) = Len(c) + 1
      /\ (b \o c)[1] = v /\ (b \o c)[Len(c) + 1] = c[Len(c)]
      /\ Walk(E, b \o c)
  BY <1>1, <1>4, <1>5
<1> QED
  BY <1>6 DEF b

\* Two chains that meet in a function make one of all their edges.
LEMMA JoinedIsWalk ==
  ASSUME NEW E, NEW c \in Seq(Node), NEW d \in Seq(Node), c # << >>, d # << >>,
         Walk(E, c), Walk(E, d), c[Len(c)] = d[1]
  PROVE  /\ Joined(c, d) \in Seq(Node) /\ Joined(c, d) # << >>
         /\ Len(Joined(c, d)) = Len(c) + Len(d) - 1
         /\ Joined(c, d)[1] = c[1]
         /\ Joined(c, d)[Len(Joined(c, d))] = d[Len(d)]
         /\ Walk(E, Joined(c, d))
<1> DEFINE t == Tail(d)
<1>1. Len(d) \in Nat \ {0} /\ Len(c) \in Nat \ {0}
  BY EmptySeq
<1>2. t \in Seq(Node) /\ Len(t) = Len(d) - 1 /\ \A i \in 1 .. Len(t) : t[i] = d[i + 1]
  BY HeadTailProperties
<1> HIDE DEF t
<1>3. t # << >> => Len(t) \in Nat \ {0}
  BY <1>2, EmptySeq
<1>4. Walk(E, t)
  <2>1. ASSUME NEW i \in 1 .. Len(t) - 1 PROVE <<t[i], t[i + 1]>> \in E
    <3>1. i \in 1 .. Len(t) /\ i + 1 \in 1 .. Len(t) /\ i + 1 \in 1 .. Len(d) - 1
      BY <1>1, <1>2
    <3>2. <<d[i + 1], d[(i + 1) + 1]>> \in E
      BY <3>1 DEF Walk
    <3> QED
      BY <1>2, <3>1, <3>2
  <2> QED
    BY <2>1 DEF Walk
<1>5. t # << >> => <<c[Len(c)], t[1]>> \in E
  <2>1. SUFFICES ASSUME t # << >> PROVE <<c[Len(c)], t[1]>> \in E
    OBVIOUS
  <2>2. 1 \in 1 .. Len(d) - 1 /\ 1 \in 1 .. Len(t)
    BY <1>1, <1>2, <1>3, <2>1
  <2>3. <<d[1], d[1 + 1]>> \in E
    BY <2>2 DEF Walk
  <2> QED
    BY <1>2, <2>2, <2>3
<1>6. /\ c \o t \in Seq(Node) /\ c \o t # << >>
      /\ Len(c \o t) = Len(c) + Len(t)
      /\ (c \o t)[1] = c[1]
      /\ (c \o t)[Len(c) + Len(t)] = IF t = << >> THEN c[Len(c)] ELSE t[Len(t)]
      /\ Walk(E, c \o t)
  BY <1>2, <1>4, <1>5, ConcatIsWalk
<1>7. Len(c) + Len(t) = Len(c) + Len(d) - 1
  BY <1>1, <1>2
<1>8. (IF t = << >> THEN c[Len(c)] ELSE t[Len(t)]) = d[Len(d)]
  <2>1. CASE t = << >>
    <3>1. Len(d) = 1
      BY <1>1, <1>2, <2>1, EmptySeq
    <3> QED
      BY <2>1, <3>1
  <2>2. CASE t # << >>
    <3>1. Len(t) \in 1 .. Len(t) /\ Len(t) + 1 = Len(d)
      BY <1>1, <1>2, <1>3, <2>2
    <3> QED
      BY <1>2, <2>2, <3>1
  <2> QED
    BY <2>1, <2>2
<1>9. Joined(c, d) = c \o t
  BY DEF Joined, t
<1> QED
  BY <1>6, <1>7, <1>8, <1>9

(***************************************************************************)
(* Edges                                                                   *)
(***************************************************************************)

\* What a front follows is an edge of the graph: the cache that holds the
\* bridges and the two queries invent none.
LEMMA EdgesAreReal ==
  ASSUME IsGraph(graph), NEW u \in Node, NEW v
  PROVE  /\ v \in Edges("f", u) => v \in Node /\ <<u, v>> \in AllEdges(graph)
         /\ v \in Edges("r", u) => v \in Node /\ <<v, u>> \in AllEdges(graph)
         /\ v \in DirectEdges(graph, u) => <<u, v>> \in AllEdges(graph)
<1>1. /\ graph.calls \subseteq AllEdges(graph) /\ graph.alias \subseteq AllEdges(graph)
      /\ graph.transits \subseteq AllEdges(graph)
  BY DEF AllEdges
<1>2. v \in Bridges(graph, u) => v \in Node /\ <<u, v>> \in AllEdges(graph)
  <2>1. CASE v \in Function /\ <<u, v>> \in graph.alias
    BY <1>1, <2>1 DEF Node
  <2>2. CASE v = Ctors /\ u = graph.main /\ graph.ctors # {}
    <3>1. <<u, v>> \in Node \X Node /\ <<u, v>>[1] = graph.main /\ <<u, v>>[2] = Ctors
      BY <2>2 DEF Node
    <3> QED
      BY <2>2, <3>1 DEF AllEdges, Node
  <2> QED
    BY <2>1, <2>2 DEF Bridges
<1>3. v \in Function /\ <<u, v>> \in graph.calls \cup graph.transits => v \in Node /\ <<u, v>> \in AllEdges(graph)
  BY <1>1 DEF Node
<1>4. u = Ctors /\ v \in graph.ctors => v \in Node /\ <<u, v>> \in AllEdges(graph)
  <2>1. SUFFICES ASSUME u = Ctors, v \in graph.ctors PROVE v \in Node /\ <<u, v>> \in AllEdges(graph)
    OBVIOUS
  <2>2. v \in Node
    BY <2>1 DEF IsGraph, Node
  <2>3. <<u, v>> \in Node \X Node /\ <<u, v>>[1] = Ctors /\ <<u, v>>[2] \in graph.ctors
    BY <2>1, <2>2
  <2> QED
    BY <2>2, <2>3 DEF AllEdges
<1>5. v \in Edges("f", u) => v \in Node /\ <<u, v>> \in AllEdges(graph)
  BY <1>2, <1>3, <1>4 DEF Edges, OutEdges
<1>6. v \in Edges("r", u) => v \in Node /\ <<v, u>> \in AllEdges(graph)
  BY <1>1 DEF Edges, InEdges, Node
<1>7. v \in DirectEdges(graph, u) => <<u, v>> \in AllEdges(graph)
  BY <1>2, <1>3 DEF DirectEdges
<1> QED
  BY <1>5, <1>6, <1>7

(***************************************************************************)
(* The inductive invariant                                                 *)
(***************************************************************************)

\* How many functions at the head of a queue are of the round before.
Old(side) == IF at = side THEN left
             ELSE IF at = "f" /\ side = "r" THEN Len(queue["r"]) ELSE 0

IsChain(side, v, c, d) ==
  /\ Len(c) = d + 1
  /\ Walk(AllEdges(graph), c)
  /\ side = "f" => c[1] \in query.sources /\ c[Len(c)] = v
  /\ side = "r" => c[1] = v /\ c[Len(c)] = query.to

ChainInv == \A side \in Side, v \in Node :
  chain[side][v] # << >> => IsChain(side, v, chain[side][v], dist[side][v])

FrontInv == at # "done" =>
  \A side \in Side : \A i \in 1 .. Len(queue[side]) :
    /\ chain[side][queue[side][i]] # << >>
    /\ dist[side][queue[side][i]] = IF i <= Old(side) THEN depth - 1 ELSE depth

LeftInv == at \in Side => left <= Len(queue[at])

TodoInv == at \in Side /\ todo # {} =>
  /\ node \in Node /\ chain[at][node] # << >>
  /\ dist[at][node] = depth - 1
  /\ \A v \in todo : v \in Edges(at, node) /\ chain[at][v] = << >>

DirectInv == /\ at = "direct" => depth = 0 /\ todo = {} /\ found = << >>
             /\ at = "round" => todo = {}

PathIsReal(path) ==
  /\ path.chain # << >>
  /\ path.chain[1] \in query.sources /\ path.chain[Len(path.chain)] = query.to
  /\ Walk(AllEdges(graph), path.chain)
  /\ path.depth = Len(path.chain) - 1

FoundInv == \A i \in 1 .. Len(found) : PathIsReal(found[i])

PathInv == TypeOK /\ ChainInv /\ FrontInv /\ LeftInv /\ TodoInv /\ DirectInv /\ FoundInv

\* What the invariant is for.
LEMMA FoundIsReal == ASSUME FoundInv PROVE PathsAreReal
BY DEF FoundInv, PathIsReal, PathsAreReal, IsWalk, Walk

LEMMA InitInv == Init => PathInv
<1> SUFFICES ASSUME Init PROVE PathInv
  OBVIOUS
<1> USE DEF Init
<1>0. /\ query.sources \subseteq Function /\ query.to \in Function /\ query.max_depth \in Nat
  BY CallPathAssumption
<1>1. \A side \in Side : Seeds(side, query) \subseteq Node
  BY <1>0 DEF Seeds, Node
<1>2. /\ queue \in [Side -> Seq(Node)]
      /\ \A side \in Side : \A i \in 1 .. Len(queue[side]) : queue[side][i] \in Seeds(side, query)
  <2>1. PICK seeds \in [1 .. 1 -> query.sources] \cup [1 .. 2 -> query.sources] :
          queue = [side \in Side |-> IF side = "f" THEN seeds ELSE <<query.to>>]
    OBVIOUS
  <2>2. seeds \in Seq(query.sources)
    <3>1. PICK n \in Nat : seeds \in [1 .. n -> query.sources]
      OBVIOUS
    <3>2. [1 .. n -> query.sources] \in {[1 .. m -> query.sources] : m \in Nat}
      OBVIOUS
    <3> QED
      BY <3>1, <3>2, SeqDef
  <2>3. /\ seeds \in Seq(Node) /\ \A i \in 1 .. Len(seeds) : seeds[i] \in query.sources
    BY <2>2, <1>0, ElementOfSeq, SeqMonotonic DEF Node
  <2>4. /\ <<query.to>> \in Seq(Node) /\ Len(<<query.to>>) = 1 /\ <<query.to>>[1] = query.to
    BY <1>0 DEF Node
  <2>5. queue["f"] = seeds /\ queue["r"] = <<query.to>>
    BY <2>1 DEF Side
  <2>6. queue \in [Side -> Seq(Node)]
    BY <2>1, <2>3, <2>4
  <2>7. \A i \in 1 .. Len(queue["r"]) : queue["r"][i] = query.to
    BY <2>4, <2>5
  <2> QED
    BY <2>3, <2>5, <2>6, <2>7 DEF Seeds, Side
<1>3. chain \in [Side -> [Node -> Seq(Node)]]
  <2>1. \A v \in Node : <<v>> \in Seq(Node) /\ << >> \in Seq(Node)
    OBVIOUS
  <2> QED
    BY <2>1
<1>4. TypeOK
  <2>1. dist \in [Side -> [Node -> Nat]]
    OBVIOUS
  <2>2. found \in Seq(Path)
    BY EmptySeq
  <2> QED
    BY <1>0, <1>2, <1>3, <2>1, <2>2 DEF TypeOK
<1>5. ChainInv
  <2>1. SUFFICES ASSUME NEW side \in Side, NEW v \in Node, chain[side][v] # << >>
                 PROVE  IsChain(side, v, chain[side][v], dist[side][v])
    BY DEF ChainInv
  <2>2. v \in Seeds(side, query) /\ chain[side][v] = <<v>> /\ dist[side][v] = 0
    BY <2>1
  <2>3. Len(<<v>>) = 1 /\ <<v>>[1] = v
    OBVIOUS
  <2>4. Walk(AllEdges(graph), <<v>>)
    BY <2>3 DEF Walk
  <2>5. side = "f" => v \in query.sources
    BY <2>2 DEF Seeds
  <2>6. side = "r" => v = query.to
    BY <2>2 DEF Seeds
  <2> QED
    BY <2>2, <2>3, <2>4, <2>5, <2>6 DEF IsChain
<1>6. FrontInv
  <2>1. SUFFICES ASSUME NEW side \in Side, NEW i \in 1 .. Len(queue[side])
                 PROVE  /\ chain[side][queue[side][i]] # << >>
                        /\ dist[side][queue[side][i]] = IF i <= Old(side) THEN depth - 1 ELSE depth
    BY DEF FrontInv
  <2>2. queue[side][i] \in Seeds(side, query) /\ queue[side][i] \in Node
    BY <1>1, <1>2
  <2>3. <<queue[side][i]>> # << >>
    OBVIOUS
  <2>4. chain[side][queue[side][i]] # << >>
    BY <2>2, <2>3
  <2>5. dist[side][queue[side][i]] = 0 /\ Old(side) = 0
    BY <2>2 DEF Old, Side
  <2>6. ~ (i <= 0)
    BY <1>2, LenProperties
  <2> QED
    BY <2>4, <2>5, <2>6
<1>7. LeftInv /\ TodoInv /\ DirectInv
  BY DEF LeftInv, TodoInv, DirectInv, Side
<1>8. FoundInv
  BY EmptySeq DEF FoundInv
<1> QED
  BY <1>4, <1>5, <1>6, <1>7, <1>8 DEF PathInv

(***************************************************************************)
(* The steps                                                               *)
(***************************************************************************)

\* A step that changes neither the tables nor a chain keeps what is known of the chains.
LEMMA ChainsStay ==
  ASSUME ChainInv, UNCHANGED <<graph, query, chain, dist>>
  PROVE  ChainInv'
BY DEF ChainInv, IsChain

LEMMA FoundStays ==
  ASSUME FoundInv, UNCHANGED <<graph, query, found>>
  PROVE  FoundInv'
BY DEF FoundInv, PathIsReal

\* One more path.
LEMMA FoundGrows ==
  ASSUME TypeOK, FoundInv, UNCHANGED <<graph, query>>,
         NEW path \in Path, PathIsReal(path),
         found' = Append(found, path)
  PROVE  found' \in Seq(Path) /\ FoundInv'
<1>1. found \in Seq(Path)
  BY DEF TypeOK
<1>2. /\ found' \in Seq(Path) /\ Len(found') = Len(found) + 1
      /\ \A i \in 1 .. Len(found) : found'[i] = found[i]
      /\ found'[Len(found) + 1] = path
  BY <1>1, AppendProperties
<1>3. \A p : PathIsReal(p) => PathIsReal(p)'
  BY DEF PathIsReal
<1>4. Len(found) \in Nat
  BY <1>1, LenProperties
<1>5. ASSUME NEW i \in 1 .. Len(found') PROVE PathIsReal(found'[i])
  <2>1. CASE i \in 1 .. Len(found)
    BY <1>2, <2>1 DEF FoundInv
  <2>2. CASE i = Len(found) + 1
    BY <1>2, <2>2
  <2> QED
    BY <1>2, <1>4, <2>1, <2>2
<1>6. FoundInv'
  BY <1>5 DEF FoundInv, PathIsReal
<1> QED
  BY <1>2, <1>6

LEMMA DirectEdgeStep == ASSUME PathInv, DirectEdge PROVE PathInv'
<1> USE DEF PathInv
<1>1. CASE at' = "done" /\ \E u \in query.sources :
             /\ query.to \in DirectEdges(graph, u)
             /\ found' = <<[depth |-> 1, chain |-> <<u, query.to>>]>>
  <2>1. PICK u \in query.sources :
          /\ query.to \in DirectEdges(graph, u)
          /\ found' = <<[depth |-> 1, chain |-> <<u, query.to>>]>>
    BY <1>1
  <2>2. u \in Node /\ query.to \in Node
    BY CallPathAssumption DEF TypeOK, Node
  <2> DEFINE path == [depth |-> 1, chain |-> <<u, query.to>>]
  <2>3. path \in Path
    BY <2>2 DEF Path
  <2>4. <<u, query.to>> \in AllEdges(graph)
    BY <2>1, <2>2, EdgesAreReal DEF TypeOK
  <2>5. PathIsReal(path)
    BY <2>4 DEF PathIsReal, Walk
  <2>6. UNCHANGED <<graph, query, search>> /\ at = "direct"
    BY DEF DirectEdge
  <2>7. found = << >> /\ Append(<< >>, path) = <<path>>
    BY <2>6 DEF DirectInv
  <2>8. found' = Append(found, path)
    BY <2>1, <2>7
  <2> HIDE DEF path
  <2>9. found' \in Seq(Path) /\ FoundInv'
    BY <2>3, <2>5, <2>6, <2>8, FoundGrows
  <2>10. TypeOK'
    BY <1>1, <2>6, <2>9 DEF TypeOK, search
  <2>11. ChainInv'
    BY <2>6, ChainsStay DEF search
  <2>12. FrontInv' /\ LeftInv' /\ TodoInv' /\ DirectInv'
    BY <1>1 DEF FrontInv, LeftInv, TodoInv, DirectInv, Side
  <2> QED
    BY <2>9, <2>10, <2>11, <2>12
<1>2. CASE at' = "round" /\ UNCHANGED found
  <2>1. UNCHANGED <<graph, query, search, found>> /\ at = "direct"
    BY <1>2 DEF DirectEdge
  <2>2. TypeOK'
    BY <1>2, <2>1 DEF TypeOK, search
  <2>3. ChainInv' /\ FoundInv'
    BY <2>1, ChainsStay, FoundStays DEF search
  <2>4. \A side \in Side : Old(side) = 0 /\ Old(side)' = 0
    BY <1>2, <2>1 DEF Old, Side
  <2>5. FrontInv'
    BY <1>2, <2>1, <2>4 DEF FrontInv, search
  <2>6. LeftInv' /\ TodoInv' /\ DirectInv'
    BY <1>2, <2>1 DEF LeftInv, TodoInv, DirectInv, Side, search
  <2> QED
    BY <2>2, <2>3, <2>5, <2>6
<1> QED
  BY <1>1, <1>2 DEF DirectEdge

LEMMA RoundStep == ASSUME PathInv, Round PROVE PathInv'
<1> USE DEF PathInv
<1>0. UNCHANGED <<graph, query, chain, dist, queue, node, todo, expanded, found>> /\ at = "round" /\ todo = {}
  BY DEF Round, DirectInv
<1>1. ChainInv' /\ FoundInv'
  BY <1>0, ChainsStay, FoundStays
<1>2. CASE at' = "done" /\ UNCHANGED <<depth, left>>
  <2>1. TypeOK'
    BY <1>0, <1>2 DEF TypeOK
  <2>2. FrontInv' /\ LeftInv' /\ TodoInv' /\ DirectInv'
    BY <1>2 DEF FrontInv, LeftInv, TodoInv, DirectInv, Side
  <2> QED
    BY <1>1, <2>1, <2>2
<1>3. CASE depth < query.max_depth /\ at' = "f" /\ depth' = depth + 1 /\ left' = Len(queue["f"])
  <2>0. query.max_depth \in Nat /\ \A side \in Side : Len(queue[side]) \in Nat
    BY CallPathAssumption, LenProperties DEF TypeOK
  <2>1. TypeOK'
    BY <1>0, <1>3, <2>0 DEF TypeOK, Side
  <2>2. \A side \in Side : Old(side) = 0 /\ Old(side)' = Len(queue[side])
    BY <1>0, <1>3 DEF Old, Side
  <2>3. depth' - 1 = depth /\ depth \in Nat
    BY <1>3, <2>0 DEF TypeOK
  <2>4. FrontInv'
    BY <1>0, <1>3, <2>0, <2>2, <2>3 DEF FrontInv
  <2>5. LeftInv' /\ TodoInv' /\ DirectInv'
    BY <1>0, <1>3, <2>0 DEF LeftInv, TodoInv, DirectInv, Side
  <2> QED
    BY <1>1, <2>1, <2>4, <2>5
<1> QED
  BY <1>2, <1>3 DEF Round

LEMMA EndFrontStep == ASSUME PathInv, NEW side \in Side, EndFront(side) PROVE PathInv'
<1> USE DEF PathInv
<1>0. /\ UNCHANGED <<graph, query, chain, dist, queue, node, todo, depth, expanded, found>>
      /\ at = side /\ todo = {} /\ left = 0
      /\ at' = IF side = "f" THEN "r" ELSE "round"
      /\ left' = IF side = "f" THEN Len(queue["r"]) ELSE 0
  BY DEF EndFront
<1>1. ChainInv' /\ FoundInv'
  BY <1>0, ChainsStay, FoundStays
<1>2. \A s \in Side : Len(queue[s]) \in Nat
  BY LenProperties DEF TypeOK
<1>3. TypeOK'
  BY <1>0, <1>2 DEF TypeOK, Side
<1>4. \A s \in Side : Old(s)' = Old(s)
  BY <1>0 DEF Old, Side
<1>5. FrontInv'
  BY <1>0, <1>4 DEF FrontInv, Side
<1>6. LeftInv' /\ TodoInv' /\ DirectInv'
  BY <1>0, <1>2 DEF LeftInv, TodoInv, DirectInv, Side
<1> QED
  BY <1>1, <1>3, <1>5, <1>6

LEMMA ExpandStep == ASSUME PathInv, NEW side \in Side, Expand(side) PROVE PathInv'
<1> USE DEF PathInv
<1> DEFINE q == queue[side]
           u == Head(queue[side])
<1>0. /\ UNCHANGED <<graph, query, at, chain, dist, depth, expanded, found>>
      /\ at = side /\ todo = {} /\ left > 0
      /\ left' = left - 1 /\ node' = u
      /\ queue' = [queue EXCEPT ![side] = Tail(@)]
      /\ todo' = Edges(side, u) \ Known(side)
  BY DEF Expand
<1>1. ChainInv' /\ FoundInv'
  BY <1>0, ChainsStay, FoundStays
<1>2. q \in Seq(Node) /\ Len(q) \in Nat /\ left \in Nat /\ left <= Len(q)
  BY <1>0, LenProperties DEF TypeOK, LeftInv
<1>3. q # << >>
  BY <1>0, <1>2, EmptySeq
<1>4. /\ u \in Node /\ Tail(q) \in Seq(Node) /\ Len(Tail(q)) = Len(q) - 1 /\ u = q[1]
      /\ \A i \in 1 .. Len(Tail(q)) : Tail(q)[i] = q[i + 1]
  BY <1>2, <1>3, HeadTailProperties
<1>5. /\ queue'[side] = Tail(q) /\ \A s \in Side : s # side => queue'[s] = queue[s]
      /\ queue' \in [Side -> Seq(Node)]
  BY <1>0, <1>4 DEF TypeOK
<1>6. \A v \in todo' : v \in Node /\ v \in Edges(side, u) /\ chain[side][v] = << >>
  BY <1>0, <1>4, EdgesAreReal DEF TypeOK, Known, Side
<1>7. TypeOK'
  BY <1>0, <1>2, <1>4, <1>5, <1>6 DEF TypeOK
<1>8. Old(side) = left /\ Old(side)' = left - 1
  BY <1>0 DEF Old
<1>9. FrontInv'
  <2>1. SUFFICES ASSUME NEW s \in Side, NEW i \in 1 .. Len(queue'[s])
                 PROVE  /\ chain[s][queue'[s][i]] # << >>
                        /\ dist[s][queue'[s][i]] = IF i <= Old(s)' THEN depth - 1 ELSE depth
    BY <1>0 DEF FrontInv
  <2>2. at # "done"
    BY <1>0 DEF Side
  <2>3. CASE s = side
    <3>1. i \in Nat /\ i \in 1 .. Len(Tail(q)) /\ i + 1 \in 1 .. Len(q) /\ queue'[s][i] = q[i + 1]
      BY <1>2, <1>4, <1>5, <2>3
    <3>2. /\ chain[side][q[i + 1]] # << >>
          /\ dist[side][q[i + 1]] = IF i + 1 <= left THEN depth - 1 ELSE depth
      BY <1>8, <2>2, <3>1 DEF FrontInv
    <3>3. (i + 1 <= left) <=> (i <= left - 1)
      BY <1>2, <3>1
    <3> QED
      BY <1>8, <2>3, <3>1, <3>2, <3>3
  <2>4. CASE s # side
    <3>1. Old(s)' = Old(s)
      BY <1>0, <1>5, <2>4 DEF Old, Side
    <3> QED
      BY <1>5, <2>2, <2>4, <3>1 DEF FrontInv
  <2> QED
    BY <2>3, <2>4
<1>10. LeftInv'
  BY <1>0, <1>2, <1>4, <1>5 DEF LeftInv
<1>11. TodoInv'
  <2>1. 1 \in 1 .. Len(q) /\ 1 <= left
    BY <1>0, <1>2, <1>3, EmptySeq
  <2>2. chain[side][u] # << >> /\ dist[side][u] = depth - 1
    BY <1>0, <1>4, <1>8, <2>1 DEF FrontInv, Side
  <2> QED
    BY <1>0, <1>4, <1>6, <2>2 DEF TodoInv, Edges
<1>12. DirectInv'
  BY <1>0 DEF DirectInv, Side
<1> QED
  BY <1>1, <1>7, <1>9, <1>10, <1>11, <1>12

\* The chains that a step over an edge makes: the new one of its own side, and
\* where the other side knows the function, the path they are joined to.
LEMMA FollowedChain ==
  ASSUME PathInv, NEW side \in Side, NEW v \in Node, at = side, v \in todo
  PROVE  /\ Extended(side, chain[side][node], v) \in Seq(Node)
         /\ Extended(side, chain[side][node], v) # << >>
         /\ IsChain(side, v, Extended(side, chain[side][node], v), depth)
<1> USE DEF PathInv
<1> DEFINE c == chain[side][node]
<1>1. /\ node \in Node /\ c # << >> /\ dist[side][node] = depth - 1 /\ v \in Edges(side, node)
  BY DEF TodoInv
<1>2. c \in Seq(Node) /\ depth \in Nat
  BY <1>1, CallPathAssumption DEF TypeOK
<1>3. IsChain(side, node, c, depth - 1)
  BY <1>1 DEF ChainInv
<1>4. Len(c) = depth
  BY <1>2, <1>3 DEF IsChain
<1>5. CASE side = "f"
  <2>1. <<c[Len(c)], v>> \in AllEdges(graph) /\ Walk(AllEdges(graph), c) /\ c[1] \in query.sources
    BY <1>1, <1>3, <1>5, EdgesAreReal DEF IsChain, TypeOK
  <2>2. Extended(side, c, v) = Append(c, v)
    BY <1>5 DEF Extended
  <2> HIDE DEF c
  <2>3. /\ Append(c, v) \in Seq(Node) /\ Append(c, v) # << >>
        /\ Len(Append(c, v)) = Len(c) + 1
        /\ Append(c, v)[1] = c[1] /\ Append(c, v)[Len(c) + 1] = v
        /\ Walk(AllEdges(graph), Append(c, v))
    BY <1>1, <1>2, <2>1, WalkAppend
  <2>4. IsChain(side, v, Append(c, v), depth)
    BY <1>4, <1>5, <2>1, <2>3 DEF IsChain
  <2> QED
    BY <2>2, <2>3, <2>4 DEF c
<1>6. CASE side = "r"
  <2>1. <<v, c[1]>> \in AllEdges(graph) /\ Walk(AllEdges(graph), c) /\ c[Len(c)] = query.to
    BY <1>1, <1>3, <1>6, EdgesAreReal DEF IsChain, TypeOK
  <2>2. Extended(side, c, v) = <<v>> \o c
    BY <1>6 DEF Extended
  <2> HIDE DEF c
  <2>3. /\ <<v>> \o c \in Seq(Node) /\ <<v>> \o c # << >>
        /\ Len(<<v>> \o c) = Len(c) + 1
        /\ (<<v>> \o c)[1] = v /\ (<<v>> \o c)[Len(c) + 1] = c[Len(c)]
        /\ Walk(AllEdges(graph), <<v>> \o c)
    BY <1>1, <1>2, <2>1, WalkCons
  <2>4. IsChain(side, v, <<v>> \o c, depth)
    BY <1>4, <1>6, <2>1, <2>3 DEF IsChain
  <2> QED
    BY <2>2, <2>3, <2>4 DEF c
<1> QED
  BY <1>5, <1>6 DEF Side

LEMMA JoinedIsReal ==
  ASSUME NEW c \in Seq(Node), NEW d \in Seq(Node), c # << >>, d # << >>,
         NEW v, NEW m \in Nat, NEW n \in Nat,
         IsChain("f", v, c, m), IsChain("r", v, d, n)
  PROVE  /\ [depth |-> m + n, chain |-> Joined(c, d)] \in Path
         /\ PathIsReal([depth |-> m + n, chain |-> Joined(c, d)])
<1>1. /\ Len(c) = m + 1 /\ Walk(AllEdges(graph), c) /\ c[1] \in query.sources /\ c[Len(c)] = v
      /\ Len(d) = n + 1 /\ Walk(AllEdges(graph), d) /\ d[1] = v /\ d[Len(d)] = query.to
  BY DEF IsChain
<1>2. /\ Joined(c, d) \in Seq(Node) /\ Joined(c, d) # << >>
      /\ Len(Joined(c, d)) = Len(c) + Len(d) - 1
      /\ Joined(c, d)[1] = c[1]
      /\ Joined(c, d)[Len(Joined(c, d))] = d[Len(d)]
      /\ Walk(AllEdges(graph), Joined(c, d))
  BY <1>1, JoinedIsWalk
<1>3. m + n \in Nat /\ m + n = Len(Joined(c, d)) - 1
  BY <1>1, <1>2
<1> QED
  BY <1>1, <1>2, <1>3 DEF Path, PathIsReal

\* The path that a step over an edge closes where the other side knows the function.
FollowedPath(side, v) ==
  LET new == Extended(side, chain[side][node], v)
      other == chain[Other(side)][v]
  IN [depth |-> depth + dist[Other(side)][v],
      chain |-> IF side = "f" THEN Joined(new, other) ELSE Joined(other, new)]

\* The path that the two fronts close is real.
LEMMA FollowedPathIsReal ==
  ASSUME PathInv, NEW side \in Side, NEW v \in Node, at = side, v \in todo, v \in Known(Other(side))
  PROVE  FollowedPath(side, v) \in Path /\ PathIsReal(FollowedPath(side, v))
<1> DEFINE new == Extended(side, chain[side][node], v)
           other == chain[Other(side)][v]
           path == FollowedPath(side, v)
<1>1. new \in Seq(Node) /\ new # << >> /\ IsChain(side, v, new, depth)
  BY FollowedChain
<1>2. /\ depth \in Nat /\ Other(side) \in Side /\ side \in {"f", "r"}
      /\ other \in Seq(Node) /\ dist[Other(side)][v] \in Nat
  <2>1. depth \in Nat
    BY CallPathAssumption DEF PathInv, TypeOK
  <2>2. Other(side) \in Side /\ side \in {"f", "r"}
    BY DEF Side, Other
  <2>3. other \in Seq(Node) /\ dist[Other(side)][v] \in Nat
    BY <2>2 DEF PathInv, TypeOK
  <2> QED
    BY <2>1, <2>2, <2>3
<1>3. other # << >> /\ IsChain(Other(side), v, other, dist[Other(side)][v])
  BY <1>2 DEF Known, PathInv, ChainInv
<1>4. path = [depth |-> depth + dist[Other(side)][v],
              chain |-> IF side = "f" THEN Joined(new, other) ELSE Joined(other, new)]
  BY DEF FollowedPath
<1> HIDE DEF new, other, path
<1>5. CASE side = "f"
  <2>1. IsChain("f", v, new, depth) /\ IsChain("r", v, other, dist[Other(side)][v])
    BY <1>1, <1>3, <1>5 DEF Other
  <2>2. path = [depth |-> depth + dist[Other(side)][v], chain |-> Joined(new, other)]
    BY <1>4, <1>5
  <2>3. path \in Path /\ PathIsReal(path)
    BY <1>1, <1>2, <1>3, <2>1, <2>2, JoinedIsReal
  <2> QED
    BY <2>3 DEF path
<1>6. CASE side = "r"
  <2>1. IsChain("r", v, new, depth) /\ IsChain("f", v, other, dist[Other(side)][v])
    BY <1>1, <1>3, <1>6 DEF Other
  <2>2. path = [depth |-> dist[Other(side)][v] + depth, chain |-> Joined(other, new)]
    BY <1>2, <1>4, <1>6
  <2>3. path \in Path /\ PathIsReal(path)
    BY <1>1, <1>2, <1>3, <2>1, <2>2, JoinedIsReal
  <2> QED
    BY <2>3 DEF path
<1> QED
  BY <1>2, <1>5, <1>6

LEMMA FollowStep ==
  ASSUME PathInv, NEW side \in Side, NEW v \in Node, Follow(side, v)
  PROVE  PathInv'
<1> USE DEF PathInv
<1> DEFINE new == Extended(side, chain[side][node], v)
           other == chain[Other(side)][v]
           path == FollowedPath(side, v)
<1>0. /\ at = side /\ v \in todo /\ todo' = todo \ {v}
      /\ chain' = [chain EXCEPT ![side][v] = new]
      /\ dist' = [dist EXCEPT ![side][v] = depth]
      /\ queue' = [queue EXCEPT ![side] = Append(@, v)]
      /\ expanded' = expanded + 1
      /\ UNCHANGED <<graph, query, left, node, depth>>
  BY DEF Follow
<1>1. new \in Seq(Node) /\ new # << >> /\ IsChain(side, v, new, depth)
  BY <1>0, FollowedChain
<1>2. /\ depth \in Nat /\ Other(side) \in Side /\ Other(side) # side /\ side \in {"f", "r"}
      /\ other \in Seq(Node) /\ dist[Other(side)][v] \in Nat
      /\ chain[side][v] = << >> /\ node \in Node /\ chain[side][node] # << >> /\ node # v
      /\ dist[side][node] = depth - 1
  <2>1. depth \in Nat
    BY CallPathAssumption DEF TypeOK
  <2>2. Other(side) \in Side /\ Other(side) # side /\ side \in {"f", "r"}
    BY DEF Side, Other
  <2>3. other \in Seq(Node) /\ dist[Other(side)][v] \in Nat
    BY <2>2 DEF TypeOK
  <2>4. /\ chain[side][v] = << >> /\ node \in Node /\ chain[side][node] # << >>
        /\ dist[side][node] = depth - 1
    BY <1>0 DEF TodoInv
  <2> QED
    BY <2>1, <2>2, <2>3, <2>4
<1>3. v \in Known(Other(side)) => path \in Path /\ PathIsReal(path)
  BY <1>0, FollowedPathIsReal
<1>4. /\ at' \in {at, "done"}
      /\ \/ found' = found
         \/ found' = Append(found, path) /\ v \in Known(Other(side))
  BY DEF Follow, RecordPath, FollowedPath
<1> HIDE DEF new, other, path
<1>5. found' \in Seq(Path) /\ FoundInv'
  <2>1. CASE found' = found
    BY <1>0, <2>1, FoundStays DEF TypeOK
  <2>2. CASE found' = Append(found, path) /\ v \in Known(Other(side))
    BY <1>0, <1>3, <2>2, FoundGrows
  <2> QED
    BY <1>4, <2>1, <2>2
<1>6. /\ chain' \in [Side -> [Node -> Seq(Node)]] /\ dist' \in [Side -> [Node -> Nat]]
      /\ chain'[side][v] = new /\ dist'[side][v] = depth
      /\ \A s \in Side, w \in Node : s # side \/ w # v => chain'[s][w] = chain[s][w] /\ dist'[s][w] = dist[s][w]
  BY <1>0, <1>1, <1>2 DEF TypeOK
<1>7. queue[side] \in Seq(Node) /\ Len(queue[side]) \in Nat
  BY LenProperties DEF TypeOK
<1>8. /\ Append(queue[side], v) \in Seq(Node)
      /\ Len(Append(queue[side], v)) = Len(queue[side]) + 1
      /\ \A i \in 1 .. Len(queue[side]) : Append(queue[side], v)[i] = queue[side][i]
      /\ Append(queue[side], v)[Len(queue[side]) + 1] = v
  BY <1>7, AppendProperties
<1>9. /\ queue' \in [Side -> Seq(Node)] /\ queue'[side] = Append(queue[side], v)
      /\ \A s \in Side : s # side => queue'[s] = queue[s]
  BY <1>0, <1>8 DEF TypeOK
<1>10. TypeOK'
  BY <1>0, <1>4, <1>5, <1>6, <1>9 DEF TypeOK
<1>11. ChainInv'
  <2>1. SUFFICES ASSUME NEW s \in Side, NEW w \in Node, chain'[s][w] # << >>
                 PROVE  IsChain(s, w, chain'[s][w], dist'[s][w])
    BY <1>0 DEF ChainInv, IsChain
  <2> QED
    BY <1>1, <1>6, <2>1 DEF ChainInv
<1>12. at' # "done" => at' = at
  BY <1>4
<1>13. FrontInv'
  <2>1. SUFFICES ASSUME at' = at, NEW s \in Side, NEW i \in 1 .. Len(queue'[s])
                 PROVE  /\ chain'[s][queue'[s][i]] # << >>
                        /\ dist'[s][queue'[s][i]] = IF i <= Old(s)' THEN depth - 1 ELSE depth
    BY <1>0, <1>12 DEF FrontInv
  <2>2. at # "done"
    BY <1>0, <1>2
  <2>3. CASE s # side
    <3>1. Old(s)' = Old(s)
      BY <1>0, <1>9, <2>1, <2>3 DEF Old, Side
    <3>2. queue'[s] = queue[s] /\ i \in 1 .. Len(queue[s])
      BY <1>9, <2>3
    <3>3. queue[s][i] \in Node
      BY <3>2, ElementOfSeq DEF TypeOK
    <3>4. QED
      <4>1. /\ chain[s][queue[s][i]] # << >>
            /\ dist[s][queue[s][i]] = IF i <= Old(s) THEN depth - 1 ELSE depth
        BY <2>2, <3>2 DEF FrontInv
      <4>2. chain'[s][queue[s][i]] = chain[s][queue[s][i]] /\ dist'[s][queue[s][i]] = dist[s][queue[s][i]]
        BY <1>6, <2>3, <3>3
      <4> QED
        BY <3>1, <3>2, <4>1, <4>2
  <2>4. CASE s = side /\ i \in 1 .. Len(queue[side])
    <3>1. queue'[s][i] = queue[side][i] /\ queue[side][i] \in Node
      BY <1>7, <1>8, <1>9, <2>4, ElementOfSeq
    <3>2. chain[side][queue[side][i]] # << >> /\ queue[side][i] # v
      BY <1>2, <2>2, <2>4 DEF FrontInv
    <3>3. Old(s)' = Old(side)
      BY <1>0, <2>1, <2>4 DEF Old
    <3>4. dist[side][queue[side][i]] = IF i <= Old(side) THEN depth - 1 ELSE depth
      BY <2>2, <2>4 DEF FrontInv
    <3>5. /\ chain'[side][queue[side][i]] = chain[side][queue[side][i]]
          /\ dist'[side][queue[side][i]] = dist[side][queue[side][i]]
      BY <1>6, <3>1, <3>2
    <3> QED
      BY <2>4, <3>1, <3>2, <3>3, <3>4, <3>5
  <2>5. CASE s = side /\ i = Len(queue[side]) + 1
    <3>1. queue'[s][i] = v
      BY <1>8, <1>9, <2>5
    <3>2. Old(s)' = left /\ left <= Len(queue[side]) /\ left \in Nat
      BY <1>0, <2>1, <2>5 DEF Old, LeftInv, TypeOK
    <3>3. ~ (i <= Old(s)')
      BY <1>7, <2>5, <3>2
    <3> QED
      BY <1>1, <1>6, <2>5, <3>1, <3>3
  <2> QED
    BY <1>7, <1>8, <1>9, <2>3, <2>4, <2>5
<1>14. LeftInv'
  <2>1. CASE at' = at
    <3>1. left <= Len(queue[side]) /\ left \in Nat
      BY <1>0 DEF LeftInv, TypeOK
    <3>2. left <= Len(queue[side]) + 1
      BY <1>7, <3>1
    <3> QED
      BY <1>0, <1>8, <1>9, <2>1, <3>2 DEF LeftInv
  <2>2. CASE at' = "done"
    BY <2>2 DEF LeftInv, Side
  <2> QED
    BY <1>4, <2>1, <2>2
<1>15. TodoInv'
  <2>1. CASE at' = at
    <3>1. chain'[side][node] = chain[side][node] /\ dist'[side][node] = dist[side][node]
      BY <1>2, <1>6
    <3>2. \A w \in todo' : w \in Node /\ w # v /\ w \in Edges(side, node) /\ chain[side][w] = << >>
      BY <1>0 DEF TodoInv, TypeOK
    <3>3. \A w \in todo' : chain'[side][w] = << >>
      BY <1>6, <3>2
    <3> QED
      BY <1>0, <1>2, <2>1, <3>1, <3>2, <3>3 DEF TodoInv, Edges
  <2>2. CASE at' = "done"
    BY <2>2 DEF TodoInv, Side
  <2> QED
    BY <1>4, <2>1, <2>2
<1>16. DirectInv'
  BY <1>0, <1>2, <1>4 DEF DirectInv
<1> QED
  BY <1>5, <1>10, <1>11, <1>13, <1>14, <1>15, <1>16

LEMMA NextInv == ASSUME PathInv, [Next]_vars PROVE PathInv'
<1>1. CASE DirectEdge
  BY <1>1, DirectEdgeStep
<1>2. CASE Round
  BY <1>2, RoundStep
<1>3. CASE \E side \in Side : Expand(side)
  BY <1>3, ExpandStep
<1>4. CASE \E side \in Side : EndFront(side)
  BY <1>4, EndFrontStep
<1>5. CASE \E side \in Side, v \in Node : Follow(side, v)
  BY <1>5, FollowStep
<1>6. CASE UNCHANGED vars
  <2>1. UNCHANGED <<graph, query, at, chain, dist, queue, left, node, todo, depth, expanded, found>>
    BY <1>6 DEF vars
  <2>2. TypeOK' /\ ChainInv' /\ FoundInv'
    BY <2>1, ChainsStay, FoundStays DEF PathInv, TypeOK
  <2>3. FrontInv' /\ LeftInv' /\ TodoInv' /\ DirectInv'
    BY <2>1 DEF PathInv, FrontInv, Old, LeftInv, TodoInv, Edges, DirectInv
  <2> QED
    BY <2>2, <2>3 DEF PathInv
<1> QED
  BY <1>1, <1>2, <1>3, <1>4, <1>5, <1>6 DEF Next

(***************************************************************************)
(* Levels: what the recursive CTE computes                                 *)
(***************************************************************************)

\* The least-number principle, for sets: what inductions here rest on.
LEMMA LeastNumber ==
  ASSUME NEW T \in SUBSET Nat, T # {}
  PROVE  \E n \in T : \A m \in T : n <= m
<1>1. PICK n \in T : \A m \in T : ~ (<<m, n>> \in OpToRel(<, Nat))
  BY NatLessThanWellFounded, WFMin
<1>2. \A m \in T : <<m, n>> \in Nat \X Nat /\ <<m, n>>[1] = m /\ <<m, n>>[2] = n
  OBVIOUS
<1>3. \A m \in T : ~ (m < n)
  BY <1>1, <1>2 DEF OpToRel
<1> QED
  BY <1>3

\* A set of numbers that holds 0, and n when it holds n - 1, holds all up to a bound.
LEMMA CountUp ==
  ASSUME NEW bound \in Nat, NEW T,
         0 \in T, \A n \in 1 .. bound : n - 1 \in T => n \in T
  PROVE  0 .. bound \subseteq T
<1> DEFINE Missing == (0 .. bound) \ T
<1>1. SUFFICES ASSUME Missing # {} PROVE FALSE
  OBVIOUS
<1>2. Missing \in SUBSET Nat
  OBVIOUS
<1>3. PICK n \in Missing : \A m \in Missing : n <= m
  BY <1>1, <1>2, LeastNumber
<1>4. n \in 1 .. bound /\ n - 1 \in 0 .. bound /\ ~ (n <= n - 1)
  BY <1>3
<1>5. n - 1 \in T
  BY <1>3, <1>4
<1> QED
  BY <1>3, <1>4, <1>5

\* The equation of Levels.
LevelOf(refs, u, g, d) == {f \in Function : IF d = 1 THEN <<f, u>> \in refs
                                            ELSE \E h \in g[d - 1] : <<f, h>> \in refs}
AreLevels(refs, u, max, g) == g = [d \in 1 .. max |-> LevelOf(refs, u, g, d)]

\* The recursion has a solution, so Levels is what its equation says.
LEMMA LevelsEquation ==
  ASSUME NEW refs, NEW u, NEW max \in Nat
  PROVE  AreLevels(refs, u, max, Levels(refs, u, max))
<1> DEFINE Row(g, d) == LevelOf(refs, u, g, d)
           Solves(g, n) == AreLevels(refs, u, n, g)
           Solved == {n \in 0 .. max : \E g : Solves(g, n)}
<1>1. 0 \in Solved
  <2>1. Solves([d \in 1 .. 0 |-> {}], 0)
    BY DEF AreLevels
  <2> HIDE DEF Solves
  <2> QED
    BY <2>1
<1>2. ASSUME NEW n \in 1 .. max, n - 1 \in Solved PROVE n \in Solved
  <2>1. PICK g : Solves(g, n - 1)
    BY <1>2
  <2> DEFINE k == [d \in 1 .. n |-> IF d = n THEN Row(g, n) ELSE g[d]]
  <2>2. ASSUME NEW d \in 1 .. n PROVE k[d] = Row(k, d)
    <3>1. d # 1 => k[d - 1] = g[d - 1]
      OBVIOUS
    <3>2. CASE d = n
      BY <3>1, <3>2 DEF LevelOf
    <3>3. CASE d # n
      <4>1. d \in 1 .. n - 1
        BY <3>3
      <4> QED
        BY <2>1, <3>1, <3>3, <4>1 DEF AreLevels, LevelOf
    <3> QED
      BY <3>2, <3>3
  <2>3. Solves(k, n)
    BY <2>2 DEF AreLevels
  <2> HIDE DEF Solves
  <2> QED
    BY <2>3
<1> HIDE DEF Solves, Solved
<1>3. 0 .. max \subseteq Solved
  BY <1>1, <1>2, CountUp
<1>4. \E g : Solves(g, max)
  BY <1>3 DEF Solved
<1>5. Levels(refs, u, max) = CHOOSE g : Solves(g, max)
  BY DEF Levels, Solves, AreLevels, LevelOf
<1>6. Solves(Levels(refs, u, max), max)
  BY <1>4, <1>5
<1> QED
  BY <1>6 DEF Solves

\* From whom n edges lead to u.
Away(refs, u, max, n) == IF n = 0 THEN {u} ELSE Levels(refs, u, max)[n]

LEMMA AwayStep ==
  ASSUME NEW refs, NEW u \in Function, NEW max \in Nat
  PROVE  /\ \A n \in 0 .. max : Away(refs, u, max, n) \subseteq Function
         /\ \A n \in 1 .. max, f \in Function :
              f \in Away(refs, u, max, n) <=> \E h \in Away(refs, u, max, n - 1) : <<f, h>> \in refs
<1> DEFINE lv == Levels(refs, u, max)
<1>0. AreLevels(refs, u, max, lv)
  BY LevelsEquation
<1> HIDE DEF lv
<1>1. \A d \in 1 .. max : lv[d] = {f \in Function : IF d = 1 THEN <<f, u>> \in refs
                                                    ELSE \E h \in lv[d - 1] : <<f, h>> \in refs}
  BY <1>0 DEF AreLevels, LevelOf
<1>2. \A n \in 1 .. max : Away(refs, u, max, n) = lv[n]
  BY DEF Away, lv
<1>3. \A n \in 0 .. max : Away(refs, u, max, n) \subseteq Function
  <2>1. Away(refs, u, max, 0) = {u}
    BY DEF Away
  <2>2. \A n \in 1 .. max : lv[n] \subseteq Function
    BY <1>1
  <2>3. \A n \in 0 .. max : n = 0 \/ n \in 1 .. max
    OBVIOUS
  <2> QED
    BY <1>2, <2>1, <2>2, <2>3
<1>4. ASSUME NEW n \in 1 .. max, NEW f \in Function
      PROVE  f \in Away(refs, u, max, n) <=> \E h \in Away(refs, u, max, n - 1) : <<f, h>> \in refs
  <2>1. CASE n = 1
    BY <1>1, <1>2, <2>1 DEF Away
  <2>2. CASE n # 1
    <3>1. n - 1 \in 1 .. max
      BY <2>2
    <3>2. lv[n] = {x \in Function : \E h \in lv[n - 1] : <<x, h>> \in refs}
      BY <1>1, <2>2
    <3>3. Away(refs, u, max, n - 1) = lv[n - 1] /\ Away(refs, u, max, n) = lv[n]
      BY <1>2, <3>1
    <3> QED
      BY <3>2, <3>3
  <2> QED
    BY <2>1, <2>2
<1> QED
  BY <1>3, <1>4

(***************************************************************************)
(* Callers and callees                                                     *)
(***************************************************************************)

\* The rows of Callers and Callees, by levels.
LEMMA RowsByLevel ==
  ASSUME NEW refs, NEW u, NEW max \in Nat, NEW f \in Function, NEW d \in 1 .. max
  PROVE  <<f, d>> \in LeastDepths(Levels(refs, u, max), max)
           <=> /\ f \in Away(refs, u, max, d)
               /\ \A n \in 1 .. d - 1 : f \notin Away(refs, u, max, n)
<1>1. <<f, d>> \in Function \X (1 .. max) /\ <<f, d>>[1] = f /\ <<f, d>>[2] = d
  OBVIOUS
<1>2. \A n \in 1 .. d : Away(refs, u, max, n) = Levels(refs, u, max)[n]
  BY DEF Away
<1> QED
  BY <1>1, <1>2 DEF LeastDepths

\* A walk from f of n edges is an edge and a walk of n - 1, from its other end too.
LEMMA AwayFromBothEnds ==
  ASSUME NEW refs \in SUBSET (Function \X Function), NEW max \in Nat
  PROVE  \A n \in 0 .. max : \A f, h \in Function :
           f \in Away(refs, h, max, n) <=> h \in Away(Reversed(refs), f, max, n)
<1> DEFINE To(h, n) == Away(refs, h, max, n)
           From(f, n) == Away(Reversed(refs), f, max, n)
<1>0. \A f, h : <<h, f>> \in Reversed(refs) <=> <<f, h>> \in refs
  <2>1. \A f, h : <<f, h>> \in refs => <<h, f>> \in Reversed(refs)
    <3> SUFFICES ASSUME NEW f, NEW h, <<f, h>> \in refs PROVE <<h, f>> \in Reversed(refs)
      OBVIOUS
    <3>1. <<f, h>>[1] = f /\ <<f, h>>[2] = h
      OBVIOUS
    <3> QED
      BY <3>1 DEF Reversed
  <2>2. \A f, h : <<h, f>> \in Reversed(refs) => <<f, h>> \in refs
    <3> SUFFICES ASSUME NEW f, NEW h, <<h, f>> \in Reversed(refs) PROVE <<f, h>> \in refs
      OBVIOUS
    <3>1. PICK e \in refs : <<h, f>> = <<e[2], e[1]>>
      BY DEF Reversed
    <3>2. e = <<e[1], e[2]>> /\ h = e[2] /\ f = e[1]
      BY <3>1
    <3> QED
      BY <3>2
  <2> QED
    BY <2>1, <2>2
<1>1. /\ \A f \in Function, n \in 0 .. max : To(f, n) \subseteq Function /\ From(f, n) \subseteq Function
      /\ \A f, h \in Function, n \in 1 .. max :
           /\ f \in To(h, n) <=> \E x \in To(h, n - 1) : <<f, x>> \in refs
           /\ h \in From(f, n) <=> \E x \in From(f, n - 1) : <<x, h>> \in refs
  BY <1>0, AwayStep
<1>2. \A f, h : (f \in To(h, 0) <=> f = h) /\ (h \in From(f, 0) <=> f = h)
  BY DEF Away
<1> HIDE DEF To, From
<1> DEFINE Split == {n \in 0 .. max : n = 0 \/ \A f, h \in Function :
                       h \in From(f, n) <=> \E x \in Function : <<f, x>> \in refs /\ h \in From(x, n - 1)}
<1>3. 0 .. max \subseteq Split
  <2>1. 0 \in Split
    OBVIOUS
  <2>2. ASSUME NEW n \in 1 .. max, n - 1 \in Split PROVE n \in Split
    <3>1. SUFFICES ASSUME NEW f \in Function, NEW h \in Function
                   PROVE  h \in From(f, n) <=> \E x \in Function : <<f, x>> \in refs /\ h \in From(x, n - 1)
      OBVIOUS
    <3>2. CASE n = 1
      <4>1. n - 1 = 0 /\ n \in 1 .. max
        BY <3>2
      <4>2. h \in From(f, n) <=> \E x \in From(f, 0) : <<x, h>> \in refs
        BY <1>1, <4>1
      <4>3. \A x : (x \in From(f, 0) <=> x = f) /\ (h \in From(x, n - 1) <=> x = h)
        BY <1>2, <4>1
      <4> QED
        BY <4>2, <4>3
    <3>3. CASE n # 1
      <4>1. n - 1 \in 1 .. max /\ n - 1 \in 0 .. max /\ n - 1 # 0
        BY <3>3
      <4>2. h \in From(f, n) <=> \E y \in Function : y \in From(f, n - 1) /\ <<y, h>> \in refs
        BY <1>1, <4>1
      <4>3. \A y \in Function : y \in From(f, n - 1)
              <=> \E x \in Function : <<f, x>> \in refs /\ y \in From(x, n - 1 - 1)
        BY <2>2, <4>1
      <4>4. \A x \in Function : h \in From(x, n - 1)
              <=> \E y \in Function : y \in From(x, n - 1 - 1) /\ <<y, h>> \in refs
        <5>1. SUFFICES ASSUME NEW x \in Function
                       PROVE  h \in From(x, n - 1) <=> \E y \in Function : y \in From(x, n - 1 - 1) /\ <<y, h>> \in refs
          OBVIOUS
        <5>2. n - 1 - 1 \in 0 .. max
          BY <4>1
        <5>3. From(x, n - 1 - 1) \subseteq Function
          BY <1>1, <5>2
        <5>4. h \in From(x, n - 1) <=> \E y \in From(x, n - 1 - 1) : <<y, h>> \in refs
          BY <1>1, <4>1
        <5> QED
          BY <5>3, <5>4
      <4> QED
        BY <4>2, <4>3, <4>4
    <3> QED
      BY <3>2, <3>3
  <2> HIDE DEF Split
  <2> QED
    BY <2>1, <2>2, CountUp
<1> DEFINE Both == {n \in 0 .. max : \A f, h \in Function : f \in To(h, n) <=> h \in From(f, n)}
<1>4. 0 .. max \subseteq Both
  <2>1. 0 \in Both
    BY <1>2
  <2>2. ASSUME NEW n \in 1 .. max, n - 1 \in Both PROVE n \in Both
    <3>1. SUFFICES ASSUME NEW f \in Function, NEW h \in Function PROVE f \in To(h, n) <=> h \in From(f, n)
      OBVIOUS
    <3>2. n - 1 \in 0 .. max /\ n \in 0 .. max /\ n # 0
      OBVIOUS
    <3>3. f \in To(h, n) <=> \E x \in Function : x \in To(h, n - 1) /\ <<f, x>> \in refs
      BY <1>1, <3>2
    <3>4. \A x \in Function : x \in To(h, n - 1) <=> h \in From(x, n - 1)
      BY <2>2
    <3>5. h \in From(f, n) <=> \E x \in Function : <<f, x>> \in refs /\ h \in From(x, n - 1)
      BY <1>3, <3>2
    <3> QED
      BY <3>3, <3>4, <3>5
  <2> HIDE DEF Both
  <2> QED
    BY <2>1, <2>2, CountUp
<1> QED
  BY <1>4 DEF To, From

\* find_callees_recursive is the inverse of find_all_callers_recursive.
LEMMA CalleesInvert ==
  ASSUME NEW g, IsGraph(g), g.alias = {}, NEW max \in Nat,
         NEW f \in Function, NEW h \in Function, NEW d \in 1 .. max
  PROVE  <<f, d>> \in Callers(g, h, max) <=> <<h, d>> \in Callees(g, f, max)
<1>1. CallerRefs(g) = g.calls /\ CalleeRefs(g) = g.calls
  BY DEF CallerRefs, CalleeRefs
<1>2. g.calls \in SUBSET (Function \X Function)
  BY DEF IsGraph
<1>3. \A n \in 1 .. d : f \in Away(g.calls, h, max, n) <=> h \in Away(Reversed(g.calls), f, max, n)
  BY <1>2, AwayFromBothEnds
<1>4. <<f, d>> \in Callers(g, h, max)
        <=> f \in Away(g.calls, h, max, d) /\ \A n \in 1 .. d - 1 : f \notin Away(g.calls, h, max, n)
  BY <1>1, RowsByLevel DEF Callers
<1>5. <<h, d>> \in Callees(g, f, max)
        <=> /\ h \in Away(Reversed(g.calls), f, max, d)
            /\ \A n \in 1 .. d - 1 : h \notin Away(Reversed(g.calls), f, max, n)
  BY <1>1, RowsByLevel DEF Callees
<1> QED
  BY <1>3, <1>4, <1>5

(***************************************************************************)
(* Fronts that meet                                                        *)
(***************************************************************************)

\* How far the sources are from the target.
Near(refs, sources, to, max) == {n \in 1 .. max : \E s \in sources : s \in Away(refs, to, max, n)}

\* A side that follows the edges of E from what it knows closer than k.
Follows(E, K, ds, k) ==
  \A x \in K \cap Function : ds[x] < k =>
    \A y \in Function : <<x, y>> \in E => y \in K /\ ds[y] <= ds[x] + 1

\* It knows all from which at most k edges lead to the target.
Surrounds(E, to, max, K, ds, k) ==
  \A n \in 0 .. max : n <= k => \A v \in Away(E, to, max, n) : v \in K /\ ds[v] <= n

\* A side that follows all edges of what it knows closer than k knows all that is
\* within k: here the reverse side,
LEMMA ReverseComplete ==
  ASSUME NEW E \in SUBSET (Function \X Function), NEW to \in Function, NEW max \in Nat,
         NEW K, NEW ds \in [Node -> Nat], NEW k \in Nat,
         to \in K, ds[to] = 0,
         Follows(Reversed(E), K, ds, k)
  PROVE  Surrounds(E, to, max, K, ds, k)
<1> DEFINE Complete == {n \in 0 .. max : n <= k => \A v \in Away(E, to, max, n) : v \in K /\ ds[v] <= n}
<1>1. 0 \in Complete
  BY DEF Away
<1>2. ASSUME NEW n \in 1 .. max, n - 1 \in Complete PROVE n \in Complete
  <2>1. SUFFICES ASSUME n <= k, NEW v \in Away(E, to, max, n) PROVE v \in K /\ ds[v] <= n
    OBVIOUS
  <2>0. n - 1 \in 0 .. max /\ n \in 0 .. max /\ n - 1 <= k /\ n \in Nat
    BY <2>1
  <2>2. v \in Function /\ n - 1 \in 0 .. max /\ n \in 0 .. max /\ n - 1 <= k /\ n \in Nat
    BY <2>0, <2>1, AwayStep
  <2>3. PICK h \in Away(E, to, max, n - 1) : <<v, h>> \in E
    BY <2>1, <2>2, AwayStep
  <2>4. h \in K /\ ds[h] <= n - 1 /\ h \in Function
    BY <1>2, <2>2, <2>3, AwayStep
  <2>5. ds[h] \in Nat /\ ds[v] \in Nat
    BY <2>2, <2>4 DEF Node
  <2>6. ds[h] < k
    BY <2>1, <2>2, <2>4, <2>5
  <2>7. <<h, v>> \in Reversed(E)
    BY <2>3 DEF Reversed
  <2>8. v \in K /\ ds[v] <= ds[h] + 1
    BY <2>2, <2>4, <2>6, <2>7 DEF Follows
  <2> QED
    BY <2>2, <2>4, <2>5, <2>8
<1> HIDE DEF Complete
<1>3. 0 .. max \subseteq Complete
  BY <1>1, <1>2, CountUp
<1> QED
  BY <1>3 DEF Complete, Surrounds

\* On a way of D edges to the target, such a side knows a function i edges on.
Approaches(E, to, max, D, K, ds, k) ==
  \A i \in 0 .. D : i <= k => \E v \in K \cap Away(E, to, max, D - i) : ds[v] <= i

\* and here the forward side, along a way from a source to the target.
LEMMA ForwardComplete ==
  ASSUME NEW E \in SUBSET (Function \X Function), NEW to \in Function, NEW max \in Nat,
         NEW K, NEW ds \in [Node -> Nat], NEW k \in Nat,
         NEW D, D \in 1 .. max, NEW s, s \in Away(E, to, max, D), s \in K, ds[s] = 0,
         Follows(E, K, ds, k)
  PROVE  Approaches(E, to, max, D, K, ds, k)
<1> DEFINE Complete == {i \in 0 .. D : i <= k => \E v \in K \cap Away(E, to, max, D - i) : ds[v] <= i}
<1>0. D \in Nat /\ D <= max
  OBVIOUS
<1>1. 0 \in Complete
  <2>1. D - 0 = D
    BY <1>0
  <2> QED
    BY <1>0, <2>1
<1>2. ASSUME NEW i \in 1 .. D, i - 1 \in Complete PROVE i \in Complete
  <2>1. SUFFICES ASSUME i <= k PROVE \E v \in K \cap Away(E, to, max, D - i) : ds[v] <= i
    BY <1>0
  <2>2. i - 1 <= k /\ i \in Nat /\ D - (i - 1) \in 1 .. max /\ D - (i - 1) - 1 = D - i /\ D - (i - 1) \in 0 .. max
        /\ D - i \in 0 .. max
    BY <1>0, <2>1
  <2>3. PICK x \in K \cap Away(E, to, max, D - (i - 1)) : ds[x] <= i - 1
    BY <1>2, <2>2
  <2>4. x \in Function
    BY <2>2, <2>3, AwayStep
  <2>5. PICK h \in Away(E, to, max, D - (i - 1) - 1) : <<x, h>> \in E
    BY <2>2, <2>3, <2>4, AwayStep
  <2>6. h \in Away(E, to, max, D - i) /\ h \in Function
    BY <2>2, <2>5, AwayStep
  <2>7. ds[x] \in Nat /\ ds[h] \in Nat
    BY <2>4, <2>6 DEF Node
  <2>8. ds[x] < k
    BY <2>1, <2>2, <2>3, <2>7
  <2>9. h \in K /\ ds[h] <= ds[x] + 1
    BY <2>3, <2>4, <2>5, <2>6, <2>8 DEF Follows
  <2>10. ds[h] <= i
    BY <2>2, <2>3, <2>7, <2>9
  <2> QED
    BY <2>6, <2>9, <2>10
<1> HIDE DEF Complete
<1>3. 0 .. D \subseteq Complete
  BY <1>0, <1>1, <1>2, CountUp
<1> QED
  BY <1>3 DEF Complete, Approaches

\* A walk of n edges to the target starts n away from it.
LEMMA WalkAway ==
  ASSUME NEW E \in SUBSET (Function \X Function), NEW to \in Function, NEW max \in Nat,
         NEW c \in Seq(Node), c # << >>, Walk(E, c), c[Len(c)] = to, Len(c) - 1 <= max
  PROVE  c[1] \in Away(E, to, max, Len(c) - 1)
<1>0. Len(c) \in Nat \ {0}
  BY EmptySeq
<1> DEFINE bound == Len(c) - 1
           OnWay == {n \in 0 .. bound : c[Len(c) - n] \in Away(E, to, max, n)}
<1>1. bound \in Nat /\ bound <= max
  BY <1>0
<1>2. 0 \in OnWay
  <2>1. Len(c) - 0 = Len(c)
    BY <1>0
  <2> QED
    BY <1>1, <2>1 DEF Away
<1>3. ASSUME NEW n \in 1 .. bound, n - 1 \in OnWay PROVE n \in OnWay
  <2>1. Len(c) - n \in 1 .. Len(c) - 1 /\ (Len(c) - n) + 1 = Len(c) - (n - 1) /\ n \in 1 .. max /\ n \in 0 .. bound
    BY <1>0, <1>1
  <2>2. <<c[Len(c) - n], c[(Len(c) - n) + 1]>> \in E
    BY <2>1 DEF Walk
  <2>3. c[Len(c) - n] \in Function
    BY <2>2
  <2>4. c[Len(c) - (n - 1)] \in Away(E, to, max, n - 1)
    BY <1>3
  <2>5. c[Len(c) - n] \in Away(E, to, max, n)
    BY <2>1, <2>2, <2>3, <2>4, AwayStep
  <2> QED
    BY <2>1, <2>5
<1> HIDE DEF OnWay
<1>4. 0 .. bound \subseteq OnWay
  BY <1>1, <1>2, <1>3, CountUp
<1>5. bound \in OnWay
  BY <1>1, <1>4
<1>6. c[Len(c) - bound] \in Away(E, to, max, bound) /\ Len(c) - bound = 1
  BY <1>0, <1>5 DEF OnWay
<1> QED
  BY <1>6

(***************************************************************************)
(* What the search has looked at                                           *)
(***************************************************************************)

\* The edges of a graph where nothing is bridged.
Links == graph.calls \cup graph.transits

\* No alias and no global constructor takes the place of the rows of a function.  The
\* check of a direct edge reads no transits, so with them the search must have a round,
\* and the target must not be a source (which no front finds again).
Unbridged == graph.alias = {} /\ graph.ctors = {}
Plain == /\ Unbridged
         /\ graph.transits = {} \/ (query.max_depth > 0 /\ query.to \notin query.sources)

InQueue(side, v) == \E i \in 1 .. Len(queue[side]) : queue[side][i] = v

\* Where a front began.
SeedsInv == \A side \in Side : \A v \in Seeds(side, query) : v \in Known(side) /\ dist[side][v] = 0

\* How far a front has come.
DistInv == at # "done" =>
  \A side \in Side : \A v \in Known(side) :
    dist[side][v] <= IF at = "f" /\ side = "r" THEN depth - 1 ELSE depth

DepthInv == at # "done" =>
  /\ at \in Side => 1 <= depth
  /\ depth = 0 => \A side \in Side : queue[side] # << >>

\* What has left a queue is looked at, but for what is still to follow.
ProcessedInv == at # "done" =>
  \A side \in Side : \A x \in Known(side) : \A y \in Edges(side, x) :
    \/ InQueue(side, x)
    \/ y \in Known(side) /\ dist[side][y] <= dist[side][x] + 1
    \/ side = at /\ x = node /\ y \in todo

\* While nothing is found the fronts are apart.
ApartInv == at # "done" /\ found = << >> =>
  \A v \in Known("f") \cap Known("r") : v \in query.sources /\ v = query.to

NotDirectInv == at # "direct" /\ found = << >> =>
  \A u \in query.sources : query.to \notin DirectEdges(graph, u)

Distances == Near(Links, query.sources, query.to, Horizon)

FirstShortest == Plain /\ found # << >> =>
  /\ found[1].depth \in Distances
  /\ \A n \in Distances : found[1].depth <= n

NoneMissed == Plain /\ at = "done" /\ expanded < query.max_nodes /\ found = << >> => Distances = {}

SearchInv == SeedsInv /\ DistInv /\ DepthInv /\ ProcessedInv /\ ApartInv /\ NotDirectInv
             /\ FirstShortest /\ NoneMissed

\* Without bridges a front follows the calls and the transits, and the direct check the calls.
LEMMA PlainEdges ==
  ASSUME Unbridged, IsGraph(graph)
  PROVE  /\ Links \in SUBSET (Function \X Function)
         /\ AllEdges(graph) = Links
         /\ \A x, y \in Function :
              /\ <<x, y>> \in Links => y \in Edges("f", x)
              /\ <<y, x>> \in Links => y \in Edges("r", x)
              /\ <<x, y>> \in Links => y \in DirectEdges(graph, x) \/ (graph.transits # {} /\ x # y)
<1>1. Links \in SUBSET (Function \X Function)
  BY DEF IsGraph, Links
<1>2. {e \in Node \X Node : e[1] = Ctors /\ e[2] \in graph.ctors} = {}
      /\ {e \in Node \X Node : e[1] = graph.main /\ e[2] = Ctors /\ graph.ctors # {}} = {}
  BY DEF Unbridged
<1>3. AllEdges(graph) = Links
  BY <1>2 DEF AllEdges, Unbridged, Links
<1>4. \A x \in Function : Bridges(graph, x) = {} /\ x # Ctors
  BY CallGraphAssumption DEF Bridges, Unbridged
<1>5. \A x, y \in Function : /\ <<x, y>> \in Links => y \in OutEdges(graph, x)
                             /\ <<x, y>> \in graph.calls => y \in DirectEdges(graph, x)
  BY <1>4 DEF OutEdges, DirectEdges, Links
<1>6. \A x, y \in Function : <<y, x>> \in Links => y \in InEdges(graph, x)
  BY DEF InEdges, Links
<1>7. \A x, y \in Function : <<x, y>> \in graph.transits => graph.transits # {} /\ x # y
  <2>1. SUFFICES ASSUME NEW x \in Function, NEW y \in Function, <<x, y>> \in graph.transits PROVE x # y
    OBVIOUS
  <2>2. <<x, y>>[1] # <<x, y>>[2]
    BY <2>1 DEF IsGraph
  <2> QED
    BY <2>2
<1> QED
  BY <1>1, <1>3, <1>5, <1>6, <1>7 DEF Edges, Links

SideEdges(side) == IF side = "f" THEN Links ELSE Reversed(Links)

\* A side follows all edges of what is neither in its queue nor being expanded.
LEMMA FrontFollows ==
  ASSUME PathInv, SearchInv, Plain, at # "done", NEW side \in Side, NEW k \in Nat,
         \A x \in Known(side) : dist[side][x] < k =>
           ~ InQueue(side, x) /\ ~ (side = at /\ x = node /\ todo # {})
  PROVE  Follows(SideEdges(side), Known(side), dist[side], k)
<1> SUFFICES ASSUME NEW x \in Known(side) \cap Function, dist[side][x] < k,
                    NEW y \in Function, <<x, y>> \in SideEdges(side)
             PROVE  y \in Known(side) /\ dist[side][y] <= dist[side][x] + 1
  BY DEF Follows
<1>1. side = "r" => <<y, x>> \in Links
  <2>1. SUFFICES ASSUME side = "r" PROVE <<y, x>> \in Links
    OBVIOUS
  <2>2. PICK e \in Links : <<x, y>> = <<e[2], e[1]>>
    BY <2>1 DEF SideEdges, Reversed
  <2>3. e = <<y, x>>
    BY <2>2, PlainEdges DEF Plain, PathInv, TypeOK
  <2> QED
    BY <2>2, <2>3
<1>2. y \in Edges(side, x)
  BY <1>1, PlainEdges DEF Plain, SideEdges, Side, PathInv, TypeOK
<1> QED
  BY <1>2 DEF SearchInv, ProcessedInv

\* How far each side has followed them.
LEMMA FrontsFollow ==
  ASSUME PathInv, SearchInv, Plain, at \in {"round", "f", "r"}
  PROVE  /\ at # "f" => depth \in Nat /\ Follows(Links, Known("f"), dist["f"], depth)
         /\ at = "round" => Follows(Reversed(Links), Known("r"), dist["r"], depth)
         /\ at # "round" => /\ depth - 1 \in Nat
                            /\ Follows(Reversed(Links), Known("r"), dist["r"], depth - 1)
         /\ at = "f" => Follows(Links, Known("f"), dist["f"], depth - 1)
<1>0. depth \in Nat /\ (at # "round" => depth - 1 \in Nat) /\ "f" \in Side /\ "r" \in Side
  BY CallPathAssumption DEF PathInv, TypeOK, SearchInv, DepthInv, Side
<1>1. ASSUME NEW side \in Side, NEW x \in Known(side), InQueue(side, x)
      PROVE  /\ dist[side][x] \in {depth - 1, depth}
             /\ at = "round" \/ (at = "r" /\ side = "f") => dist[side][x] = depth
  <2>1. PICK i \in 1 .. Len(queue[side]) : queue[side][i] = x
    BY <1>1 DEF InQueue
  <2>2. dist[side][x] = IF i <= Old(side) THEN depth - 1 ELSE depth
    BY <2>1 DEF PathInv, FrontInv
  <2>3. at = "round" \/ (at = "r" /\ side = "f") => ~ (i <= Old(side))
    <3>1. at = "round" \/ (at = "r" /\ side = "f") => Old(side) = 0
      BY <1>1 DEF Old, Side
    <3> QED
      BY <3>1
  <2> QED
    BY <2>2, <2>3
<1>2. at \in Side /\ todo # {} => dist[at][node] = depth - 1
  BY DEF PathInv, TodoInv
<1>3. at = "round" => todo = {}
  BY DEF PathInv, DirectInv
<1>4. \A side \in Side : \A x \in Known(side) : dist[side][x] \in Nat
  BY DEF PathInv, TypeOK, Known
<1>5. ASSUME NEW side \in Side, at = "round" \/ (at = "r" /\ side = "f")
      PROVE  Follows(SideEdges(side), Known(side), dist[side], depth)
  <2>1. \A x \in Known(side) : dist[side][x] < depth =>
          ~ InQueue(side, x) /\ ~ (side = at /\ x = node /\ todo # {})
    BY <1>0, <1>1, <1>3, <1>4, <1>5
  <2> QED
    BY <1>0, <2>1, FrontFollows
<1>6. ASSUME NEW side \in Side, at # "round"
      PROVE  Follows(SideEdges(side), Known(side), dist[side], depth - 1)
  <2>1. \A x \in Known(side) : dist[side][x] < depth - 1 =>
          ~ InQueue(side, x) /\ ~ (side = at /\ x = node /\ todo # {})
    BY <1>0, <1>1, <1>2, <1>4, <1>6
  <2> QED
    BY <1>0, <1>6, <2>1, FrontFollows
<1>7. SideEdges("f") = Links /\ SideEdges("r") = Reversed(Links)
  BY DEF SideEdges
<1>8. at # "f" => Follows(Links, Known("f"), dist["f"], depth)
  BY <1>0, <1>5, <1>7
<1>9. ASSUME at = "round" PROVE Follows(Reversed(Links), Known("r"), dist["r"], depth)
  <2>1. Follows(SideEdges("r"), Known("r"), dist["r"], depth)
    BY <1>0, <1>5, <1>9
  <2> QED
    BY <1>7, <2>1
<1>10. at # "round" => Follows(Reversed(Links), Known("r"), dist["r"], depth - 1)
  BY <1>0, <1>6, <1>7
<1>11. at = "f" => Follows(Links, Known("f"), dist["f"], depth - 1)
  BY <1>0, <1>6, <1>7
<1> QED
  BY <1>0, <1>8, <1>9, <1>10, <1>11

Apart == found = << >> /\ at \in {"round", "f", "r"}

LEMMA DistancesAreNumbers == ASSUME PathInv PROVE Horizon \in Nat /\ Distances \subseteq 1 .. Horizon
<1>1. query.max_depth \in Nat
  BY CallPathAssumption DEF PathInv, TypeOK
<1> QED
  BY <1>1 DEF Horizon, Distances, Near

\* Of an edge from a source to the target, the direct check or the first round knows.
LEMMA NotOne ==
  ASSUME PathInv, SearchInv, Plain, Apart,
         graph.transits = {} \/ \E k \in Nat : 1 <= k /\ Follows(Links, Known("f"), dist["f"], k)
  PROVE  1 \notin Distances
<1>0. query.to \in Function /\ query.sources \subseteq Function /\ IsGraph(graph)
  BY CallPathAssumption DEF PathInv, TypeOK
<1>1. Horizon \in Nat
  BY DistancesAreNumbers
<1>2. SUFFICES ASSUME 1 \in 1 .. Horizon,
                      NEW s \in query.sources, s \in Away(Links, query.to, Horizon, 1)
               PROVE  FALSE
  BY DEF Distances, Near
<1>3. s \in Function /\ query.to \in Function
  BY <1>0
<1>4. \E h \in Away(Links, query.to, Horizon, 1 - 1) : <<s, h>> \in Links
  <2>1. \A n \in 1 .. Horizon, f \in Function :
          f \in Away(Links, query.to, Horizon, n)
            <=> \E h \in Away(Links, query.to, Horizon, n - 1) : <<f, h>> \in Links
    BY <1>1, <1>3, AwayStep
  <2> QED
    BY ONLY <1>2, <1>3, <2>1
<1>5. <<s, query.to>> \in Links
  BY ONLY <1>4 DEF Away
<1>6. query.to \notin DirectEdges(graph, s)
  BY <1>2 DEF Apart, SearchInv, NotDirectInv
<1>7. graph.transits # {}
  BY <1>0, <1>3, <1>5, <1>6, PlainEdges DEF Plain
<1>8. PICK k \in Nat : 1 <= k /\ Follows(Links, Known("f"), dist["f"], k)
  BY <1>7
<1>9. s \in Known("f") /\ dist["f"][s] = 0 /\ query.to \in Known("r")
  BY DEF SearchInv, SeedsInv, Seeds, Side
<1>10. query.to \in Known("f")
  <2>1. s \in Known("f") \cap Function /\ dist["f"][s] < k
    BY <1>3, <1>8, <1>9
  <2> QED
    BY <1>3, <1>5, <1>8, <2>1 DEF Follows
<1>11. query.to \in query.sources
  BY <1>9, <1>10 DEF Apart, SearchInv, ApartInv
<1> QED
  BY <1>7, <1>11 DEF Plain

\* While the fronts are apart no source is as near as they have come.
LEMMA NoneWithin ==
  ASSUME PathInv, SearchInv, Plain, Apart,
         NEW kf \in Nat, NEW kr \in Nat, 1 <= kf, 1 <= kr,
         Follows(Links, Known("f"), dist["f"], kf),
         Follows(Reversed(Links), Known("r"), dist["r"], kr)
  PROVE  \A n \in Distances : kf + kr < n
<1> SUFFICES ASSUME NEW n \in Distances, ~ (kf + kr < n) PROVE FALSE
  OBVIOUS
<1>0. /\ query.to \in Function /\ query.sources \in SUBSET Function /\ query.max_depth \in Nat
      /\ Links \in SUBSET (Function \X Function)
      /\ dist["f"] \in [Node -> Nat] /\ dist["r"] \in [Node -> Nat]
  BY CallPathAssumption, PlainEdges DEF Plain, PathInv, TypeOK, Side
<1>1. Horizon \in Nat
  BY <1>0 DEF Horizon
<1>2. Distances \in SUBSET Nat /\ Distances # {} /\ \A d \in Distances : 2 <= d
  <2>1. 1 \notin Distances
    BY NotOne
  <2> QED
    BY <2>1, DistancesAreNumbers
<1>3. PICK d \in Distances : \A m \in Distances : d <= m
  BY <1>2, LeastNumber
<1>4. 2 <= d /\ d <= kf + kr
  BY <1>2, <1>3
<1>5. query.to \in Known("r") /\ dist["r"][query.to] = 0
  BY DEF SearchInv, SeedsInv, Seeds, Side
<1>6. Surrounds(Links, query.to, Horizon, Known("r"), dist["r"], kr)
  BY <1>0, <1>1, <1>5, ReverseComplete
<1>7. /\ d \in 1 .. Horizon
      /\ \E s \in query.sources : s \in Away(Links, query.to, Horizon, d)
  BY DEF Distances, Near
<1>8. PICK s \in query.sources : s \in Away(Links, query.to, Horizon, d)
  BY <1>7
<1>9. s \in Known("f") /\ dist["f"][s] = 0
  BY DEF SearchInv, SeedsInv, Seeds, Side
<1>10. Approaches(Links, query.to, Horizon, d, Known("f"), dist["f"], kf)
  BY <1>0, <1>1, <1>7, <1>8, <1>9, ForwardComplete
<1>11. d \in Nat /\ 1 <= d - 1 /\ d <= Horizon
  BY <1>2, <1>4, <1>7
\* The fronts know a function in common on the way, before it reaches the target.
<1> DEFINE i == IF kf <= d - 1 THEN kf ELSE d - 1
<1>12. i \in 0 .. d /\ i <= kf /\ d - i <= kr /\ d - i \in 1 .. Horizon /\ d - i \in 0 .. Horizon /\ ~ (d <= d - i)
  BY <1>1, <1>4, <1>11
<1> HIDE DEF i
<1>13. PICK v \in Known("f") \cap Away(Links, query.to, Horizon, d - i) : dist["f"][v] <= i
  BY <1>10, <1>12 DEF Approaches
<1>14. v \in Known("r")
  BY <1>6, <1>12, <1>13 DEF Surrounds
<1>15. v \in query.sources
  BY <1>13, <1>14 DEF Apart, SearchInv, ApartInv
<1>16. d - i \in Distances
  BY <1>12, <1>13, <1>15 DEF Distances, Near
<1> QED
  BY <1>3, <1>12, <1>16

LEMMA InitSearch == ASSUME Init, PathInv PROVE SearchInv
<1> USE DEF Init
<1>0. /\ query.sources \subseteq Function /\ query.sources # {} /\ query.to \in Function
  BY CallPathAssumption
<1>1. \A side \in Side, v \in Node : /\ v \in Known(side) <=> v \in Seeds(side, query)
                                     /\ dist[side][v] = 0
  <2>1. \A v : <<v>> # << >>
    OBVIOUS
  <2> QED
    BY <2>1 DEF Known
<1>2. SeedsInv
  BY <1>0, <1>1 DEF SeedsInv, Seeds, Node
<1>3. DistInv
  BY <1>1 DEF DistInv, Known, Side
<1>4. PICK seeds \in [1 .. 1 -> query.sources] \cup [1 .. 2 -> query.sources] :
        /\ {seeds[i] : i \in DOMAIN seeds} = query.sources
        /\ queue = [side \in Side |-> IF side = "f" THEN seeds ELSE <<query.to>>]
  OBVIOUS
<1>5. queue["f"] = seeds /\ queue["r"] = <<query.to>> /\ queue["f"] \in Seq(Node)
  BY <1>4 DEF Side, PathInv, TypeOK
<1>6. \A side \in Side : \A v \in Known(side) : InQueue(side, v)
  <2>1. SUFFICES ASSUME NEW side \in Side, NEW v \in Seeds(side, query) PROVE InQueue(side, v)
    BY <1>1 DEF Known
  <2>2. CASE side = "f"
    <3>1. PICK i \in DOMAIN seeds : seeds[i] = v
      BY <1>4, <2>2 DEF Seeds
    <3> QED
      BY <1>5, <2>2, <3>1, LenProperties DEF InQueue
  <2>3. CASE side = "r"
    <3>1. Len(<<query.to>>) = 1 /\ <<query.to>>[1] = query.to
      OBVIOUS
    <3>2. v = query.to
      BY <2>3 DEF Seeds
    <3> QED
      BY <1>5, <2>3, <3>1, <3>2 DEF InQueue
  <2> QED
    BY <2>2, <2>3 DEF Side
<1>7. ProcessedInv
  BY <1>6 DEF ProcessedInv
<1>8. DepthInv
  <2>1. queue["r"] # << >>
    <3>1. <<query.to>> # << >>
      OBVIOUS
    <3> QED
      BY <1>5, <3>1
  <2>2. queue["f"] # << >>
    BY <1>0, <1>4, <1>5
  <2> QED
    BY <2>1, <2>2 DEF DepthInv, Side
<1>9. ApartInv
  BY <1>1 DEF ApartInv, Seeds, Side, Known
<1>10. NotDirectInv /\ FirstShortest /\ NoneMissed
  BY DEF NotDirectInv, FirstShortest, NoneMissed
<1> QED
  BY <1>2, <1>3, <1>7, <1>8, <1>9, <1>10 DEF SearchInv

\* A step that leaves the tables, the chains and the answer alone.
LEMMA AnswerStays ==
  ASSUME SearchInv, UNCHANGED <<graph, query, chain, dist, found>>
  PROVE  /\ SeedsInv' /\ FirstShortest'
         /\ (NotDirectInv /\ at # "direct" => NotDirectInv')
         /\ (ApartInv /\ at # "done" => ApartInv')
<1>1. Distances' = Distances /\ Plain' = Plain
  BY DEF Distances, Links, Horizon, Plain, Unbridged
<1>2. FirstShortest'
  BY <1>1 DEF SearchInv, FirstShortest
<1>3. \A side : Known(side)' = Known(side)
  BY DEF Known
<1>4. SeedsInv'
  BY <1>3 DEF SearchInv, SeedsInv
<1> QED
  BY <1>2, <1>3, <1>4 DEF NotDirectInv, ApartInv

LEMMA DirectEdgeSearch == ASSUME PathInv, SearchInv, DirectEdge PROVE SearchInv'
<1>0. UNCHANGED <<graph, query, chain, dist, queue, node, todo, depth, expanded>> /\ at = "direct"
      /\ at' \in {"round", "done"}
  BY DEF DirectEdge, search
<1>1. \A side : Known(side)' = Known(side)
  BY <1>0 DEF Known
<1>2. Distances' = Distances /\ Plain' = Plain
  BY <1>0 DEF Distances, Links, Horizon, Plain, Unbridged
<1>3. SeedsInv'
  BY <1>0, <1>1 DEF SearchInv, SeedsInv
<1>4. DistInv'
  BY <1>0, <1>1 DEF SearchInv, DistInv
<1>5. DepthInv'
  BY <1>0 DEF SearchInv, DepthInv, Side
<1>6. ProcessedInv'
  <2>1. todo = {}
    BY <1>0 DEF PathInv, DirectInv
  <2> QED
    BY <1>0, <1>1, <2>1 DEF SearchInv, ProcessedInv, InQueue, Edges
<1>7. CASE at' = "round" /\ found' = found /\ \A u \in query.sources : query.to \notin DirectEdges(graph, u)
  <2>1. found = << >>
    BY <1>0 DEF PathInv, DirectInv
  <2>2. ApartInv' /\ NotDirectInv' /\ FirstShortest' /\ NoneMissed'
    BY <1>0, <1>1, <1>7, <2>1 DEF SearchInv, ApartInv, NotDirectInv, FirstShortest, NoneMissed
  <2> QED
    BY <1>3, <1>4, <1>5, <1>6, <2>2 DEF SearchInv
<1>8. CASE at' = "done" /\ \E u \in query.sources :
             /\ query.to \in DirectEdges(graph, u)
             /\ found' = <<[depth |-> 1, chain |-> <<u, query.to>>]>>
  <2>1. PICK u \in query.sources :
             /\ query.to \in DirectEdges(graph, u)
             /\ found' = <<[depth |-> 1, chain |-> <<u, query.to>>]>>
    BY <1>8
  <2>2. found' # << >> /\ found'[1].depth = 1
    BY <2>1
  <2>3. /\ query.to \in Function /\ u \in Function /\ Horizon \in Nat /\ 1 \in 1 .. Horizon /\ IsGraph(graph)
    BY CallPathAssumption DEF PathInv, TypeOK, Horizon
  <2>4. ASSUME Plain PROVE 1 \in Distances
    <3>1. <<u, query.to>> \in Links /\ Links \in SUBSET (Function \X Function)
      <4>1. Bridges(graph, u) = {}
        BY <2>3, <2>4, CallGraphAssumption DEF Bridges, Plain, Unbridged
      <4> QED
        BY <2>1, <2>3, <2>4, <4>1, PlainEdges DEF DirectEdges, Links, Plain
    <3>2. 1 - 1 = 0 /\ query.to \in Away(Links, query.to, Horizon, 0)
      BY DEF Away
    <3>3. u \in Away(Links, query.to, Horizon, 1)
      BY <2>3, <3>1, <3>2, AwayStep
    <3> QED
      BY <2>3, <3>3 DEF Distances, Near
  <2>5. \A n \in Distances : 1 <= n
    BY <2>3 DEF Distances, Near
  <2>6. FirstShortest'
    BY <1>2, <2>2, <2>4, <2>5 DEF FirstShortest
  <2>7. ApartInv' /\ NotDirectInv' /\ NoneMissed'
    BY <2>2 DEF ApartInv, NotDirectInv, NoneMissed
  <2> QED
    BY <1>3, <1>4, <1>5, <1>6, <2>6, <2>7 DEF SearchInv
<1> QED
  BY <1>0, <1>7, <1>8 DEF DirectEdge

LEMMA EndFrontSearch == ASSUME PathInv, SearchInv, NEW side \in Side, EndFront(side) PROVE SearchInv'
<1>0. /\ UNCHANGED <<graph, query, chain, dist, queue, node, todo, depth, expanded, found>>
      /\ at = side /\ todo = {} /\ at \in {"f", "r"}
      /\ at' = IF side = "f" THEN "r" ELSE "round"
  BY DEF EndFront, Side
<1>1. \A s : Known(s)' = Known(s)
  BY <1>0 DEF Known
<1>2. SeedsInv' /\ FirstShortest' /\ ApartInv' /\ NotDirectInv'
  BY <1>0, AnswerStays DEF SearchInv
<1>3. depth \in Nat /\ \A s \in Side : \A v \in Known(s) : dist[s][v] \in Nat
  BY CallPathAssumption DEF PathInv, TypeOK, Known
<1>4. DistInv'
  BY <1>0, <1>1, <1>3 DEF SearchInv, DistInv
<1>5. DepthInv'
  BY <1>0 DEF SearchInv, DepthInv, Side
<1>6. ProcessedInv'
  BY <1>0, <1>1 DEF SearchInv, ProcessedInv, InQueue, Edges
<1>7. NoneMissed'
  BY <1>0 DEF NoneMissed
<1> QED
  BY <1>2, <1>4, <1>5, <1>6, <1>7 DEF SearchInv

LEMMA ExpandSearch == ASSUME PathInv, SearchInv, NEW side \in Side, Expand(side) PROVE SearchInv'
<1> DEFINE q == queue[side]
           u == Head(queue[side])
<1>0. /\ UNCHANGED <<graph, query, at, chain, dist, depth, expanded, found>>
      /\ at = side /\ todo = {} /\ left > 0 /\ at \in {"f", "r"}
      /\ node' = u
      /\ queue' = [queue EXCEPT ![side] = Tail(@)]
      /\ todo' = Edges(side, u) \ Known(side)
  BY DEF Expand, Side
<1>1. \A s : Known(s)' = Known(s)
  BY <1>0 DEF Known
<1>2. SeedsInv' /\ FirstShortest' /\ ApartInv' /\ NotDirectInv'
  BY <1>0, AnswerStays DEF SearchInv
<1>3. DistInv'
  BY <1>0, <1>1 DEF SearchInv, DistInv
<1>4. DepthInv'
  BY <1>0 DEF SearchInv, DepthInv, Side
<1>5. NoneMissed'
  BY <1>0 DEF NoneMissed
<1>6. q \in Seq(Node) /\ Len(q) \in Nat /\ q # << >> /\ left \in Nat /\ 1 <= left /\ left <= Len(q)
  <2>1. q \in Seq(Node) /\ Len(q) \in Nat /\ left \in Nat /\ left <= Len(q)
    BY <1>0, LenProperties DEF PathInv, TypeOK, LeftInv
  <2> QED
    BY <1>0, <2>1, EmptySeq
<1>7. /\ u = q[1] /\ Len(Tail(q)) = Len(q) - 1
      /\ \A i \in 1 .. Len(Tail(q)) : Tail(q)[i] = q[i + 1]
  BY <1>6, HeadTailProperties
<1>8. queue'[side] = Tail(q) /\ \A s \in Side : s # side => queue'[s] = queue[s]
  BY <1>0 DEF PathInv, TypeOK
<1>9. \A s \in Side : \A x : InQueue(s, x) => InQueue(s, x)' \/ (s = side /\ x = u)
  <2>1. SUFFICES ASSUME NEW s \in Side, NEW x, NEW i \in 1 .. Len(queue[s]), queue[s][i] = x
                 PROVE  InQueue(s, x)' \/ (s = side /\ x = u)
    BY DEF InQueue
  <2>2. CASE s # side
    BY <1>8, <2>1, <2>2 DEF InQueue
  <2>3. CASE s = side /\ i = 1
    BY <1>7, <2>1, <2>3
  <2>4. CASE s = side /\ i # 1
    <3>1. i - 1 \in 1 .. Len(Tail(q)) /\ (i - 1) + 1 = i
      BY <1>6, <1>7, <2>4
    <3>2. queue'[s][i - 1] = x
      BY <1>7, <1>8, <2>1, <2>4, <3>1
    <3> QED
      BY <1>8, <2>4, <3>1, <3>2 DEF InQueue
  <2> QED
    BY <2>2, <2>3, <2>4
<1>10. dist[side][u] = depth - 1 /\ depth \in Nat
  <2>1. 1 \in 1 .. Len(queue[side]) /\ 1 <= Old(side) /\ at # "done"
    BY <1>0, <1>6 DEF Old
  <2> QED
    BY <1>7, <2>1, CallPathAssumption DEF PathInv, FrontInv, TypeOK
<1>11. ProcessedInv'
  <2>1. SUFFICES ASSUME NEW s \in Side, NEW x \in Known(s), NEW y \in Edges(s, x)
                 PROVE  \/ InQueue(s, x)'
                        \/ y \in Known(s) /\ dist[s][y] <= dist[s][x] + 1
                        \/ s = at' /\ x = node' /\ y \in todo'
    BY <1>0, <1>1 DEF ProcessedInv, Edges
  <2>2. CASE s = side /\ x = u
    <3>1. CASE y \in Known(side)
      <4>1. dist[side][y] <= depth
        BY <1>0, <3>1 DEF SearchInv, DistInv
      <4>2. dist[side][x] + 1 = depth
        BY <1>10, <2>2
      <4> QED
        BY <2>2, <3>1, <4>1, <4>2
    <3>2. CASE y \notin Known(side)
      BY <1>0, <2>1, <2>2, <3>2
    <3> QED
      BY <3>1, <3>2
  <2>3. CASE ~ (s = side /\ x = u)
    BY <1>0, <1>9, <2>3 DEF SearchInv, ProcessedInv
  <2> QED
    BY <2>2, <2>3
<1> QED
  BY <1>2, <1>3, <1>4, <1>5, <1>11 DEF SearchInv

\* When the loop ends without an answer there is none to find.
LEMMA EndsWithNone ==
  ASSUME PathInv, SearchInv, Plain, at = "round", found = << >>,
         queue["f"] = << >> \/ queue["r"] = << >> \/ ~ (depth < query.max_depth)
  PROVE  Distances = {}
<1> SUFFICES ASSUME NEW n \in Distances PROVE FALSE
  OBVIOUS
<1>0. /\ query.max_depth \in Nat /\ depth \in Nat /\ depth <= query.max_depth /\ Apart
      /\ Links \in SUBSET (Function \X Function)
  BY CallPathAssumption, PlainEdges DEF PathInv, TypeOK, Apart, Plain
<1>1. n \in Nat /\ 1 <= n /\ n <= Horizon
  BY DistancesAreNumbers
<1>2. /\ Follows(Links, Known("f"), dist["f"], depth)
      /\ Follows(Reversed(Links), Known("r"), dist["r"], depth)
  BY FrontsFollow
<1>3. depth = 0 => \A side \in Side : queue[side] # << >>
  BY DEF SearchInv, DepthInv
<1>4. todo = {}
  BY DEF PathInv, DirectInv
\* A side whose queue is empty has followed everything it knows.
<1>5. ASSUME NEW side \in Side, queue[side] = << >>
      PROVE  Follows(SideEdges(side), Known(side), dist[side], n)
  <2>1. \A x : ~ InQueue(side, x)
    BY <1>5, EmptySeq DEF InQueue
  <2> QED
    BY <1>1, <1>4, <2>1, FrontFollows
<1>6. CASE queue["f"] = << >>
  <2>1. Follows(Links, Known("f"), dist["f"], n) /\ 1 <= depth
    BY <1>0, <1>3, <1>5, <1>6 DEF SideEdges, Side
  <2>2. n + depth < n
    BY <1>0, <1>1, <1>2, <2>1, NoneWithin
  <2> QED
    BY <1>0, <1>1, <2>2
<1>7. CASE queue["r"] = << >>
  <2>1. Follows(Reversed(Links), Known("r"), dist["r"], n) /\ 1 <= depth
    BY <1>0, <1>3, <1>5, <1>7 DEF SideEdges, Side
  <2>2. depth + n < n
    BY <1>0, <1>1, <1>2, <2>1, NoneWithin
  <2> QED
    BY <1>0, <1>1, <2>2
<1>8. CASE ~ (depth < query.max_depth)
  <2>0. depth = query.max_depth
    BY <1>0, <1>8
  <2>1. query.max_depth # 0 /\ n <= depth + depth
    <3>1. query.max_depth = 0 => graph.transits = {} /\ Horizon = 1
      BY DEF Plain, Horizon
    <3>2. graph.transits = {} => n # 1
      BY <1>0, NotOne
    <3> QED
      BY <1>0, <1>1, <2>0, <3>1, <3>2 DEF Horizon
  <2>2. depth + depth < n
    BY <1>0, <1>1, <1>2, <2>1, NoneWithin
  <2> QED
    BY <1>0, <1>1, <2>1, <2>2
<1> QED
  BY <1>6, <1>7, <1>8

LEMMA RoundSearch == ASSUME PathInv, SearchInv, Round PROVE SearchInv'
<1>0. UNCHANGED <<graph, query, chain, dist, queue, node, todo, expanded, found>> /\ at = "round" /\ todo = {}
  BY DEF Round, PathInv, DirectInv
<1>1. \A s : Known(s)' = Known(s)
  BY <1>0 DEF Known
<1>2. SeedsInv' /\ FirstShortest' /\ ApartInv' /\ NotDirectInv'
  BY <1>0, AnswerStays DEF SearchInv
<1>3. CASE /\ queue["f"] # << >> /\ queue["r"] # << >>
           /\ at' = "f" /\ depth' = depth + 1
  <2>0. depth \in Nat /\ \A s \in Side : \A v \in Known(s) : dist[s][v] \in Nat
    BY CallPathAssumption DEF PathInv, TypeOK, Known
  <2>1. DistInv'
    <3>1. \A s \in Side : \A v \in Known(s) : dist[s][v] <= depth
      BY <1>0 DEF SearchInv, DistInv
    <3>2. depth' - 1 = depth /\ \A s \in Side : \A v \in Known(s) : dist[s][v] <= depth'
      BY <1>3, <2>0, <3>1
    <3> QED
      BY <1>0, <1>1, <1>3, <3>1, <3>2 DEF DistInv
  <2>2. DepthInv'
    BY <1>3, <2>0 DEF DepthInv
  <2>3. ProcessedInv'
    BY <1>0, <1>1, <1>3 DEF SearchInv, ProcessedInv, InQueue, Edges
  <2>4. NoneMissed'
    BY <1>3 DEF NoneMissed
  <2> QED
    BY <1>2, <2>1, <2>2, <2>3, <2>4 DEF SearchInv
<1>4. CASE /\ ~ (queue["f"] # << >> /\ queue["r"] # << >> /\ depth < query.max_depth /\ expanded < query.max_nodes)
           /\ at' = "done"
  <2>1. DistInv' /\ DepthInv' /\ ProcessedInv'
    BY <1>4 DEF DistInv, DepthInv, ProcessedInv
  <2>2. Distances' = Distances /\ Plain' = Plain
    BY <1>0 DEF Distances, Links, Horizon, Plain, Unbridged
  <2>3. NoneMissed'
    BY <1>0, <1>4, <2>2, EndsWithNone DEF NoneMissed
  <2> QED
    BY <1>2, <2>1, <2>3 DEF SearchInv
<1> QED
  BY <1>3, <1>4 DEF Round

\* The first path that the fronts close is as short as any.
LEMMA ClosedShortest ==
  ASSUME PathInv, SearchInv, Plain, found = << >>, NEW side \in Side, at = side,
         NEW v \in Known(Other(side)), NEW path, PathIsReal(path), path \in Path,
         path.depth = depth + dist[Other(side)][v]
  PROVE  path.depth \in Distances /\ \A n \in Distances : path.depth <= n
<1>0. /\ depth \in Nat /\ 1 <= depth /\ query.max_depth \in Nat /\ depth <= query.max_depth /\ Apart
      /\ query.to \in Function /\ query.sources \subseteq Function
      /\ at \in {"round", "f", "r"} /\ at # "done"
  BY CallPathAssumption DEF PathInv, TypeOK, Apart, SearchInv, DepthInv, Side
<1>1. dist[Other(side)][v] \in Nat
  BY DEF PathInv, TypeOK, Known, Other, Side
<1>2. dist[Other(side)][v] <= IF side = "f" THEN depth - 1 ELSE depth
  BY <1>0 DEF SearchInv, DistInv, Other, Side
<1>3. Horizon \in Nat /\ Horizon = depth + depth + 2 * (query.max_depth - depth)
  BY <1>0 DEF Horizon
<1>4. path.depth \in 1 .. Horizon
  BY <1>0, <1>1, <1>2, <1>3
<1>5. path.depth \in Distances
  <2>1. /\ path.chain \in Seq(Node) /\ path.chain # << >> /\ Walk(Links, path.chain)
        /\ path.chain[Len(path.chain)] = query.to /\ Len(path.chain) - 1 = path.depth
        /\ path.chain[1] \in query.sources /\ Links \in SUBSET (Function \X Function)
    BY PlainEdges DEF Plain, PathIsReal, Path, PathInv, TypeOK
  <2>2. path.chain[1] \in Away(Links, query.to, Horizon, path.depth)
    <3> DEFINE c == path.chain
    <3>1. Len(c) - 1 <= Horizon
      BY <1>4, <2>1
    <3>2. /\ c \in Seq(Node) /\ c # << >> /\ Walk(Links, c) /\ c[Len(c)] = query.to
          /\ Len(c) - 1 = path.depth
      BY <2>1
    <3>3. c[1] \in Away(Links, query.to, Horizon, Len(c) - 1)
      <4> HIDE DEF c
      <4> QED
        BY <1>0, <1>3, <2>1, <3>1, <3>2, WalkAway
    <3> QED
      BY <3>2, <3>3
  <2> QED
    BY <1>4, <2>1, <2>2 DEF Distances, Near
<1>6. ASSUME NEW n \in Distances PROVE path.depth <= n
  <2>0. n \in Nat /\ 1 <= n
    BY DistancesAreNumbers
  <2>1. CASE side = "f"
    <3>1. /\ depth - 1 \in Nat
          /\ Follows(Links, Known("f"), dist["f"], depth - 1)
          /\ Follows(Reversed(Links), Known("r"), dist["r"], depth - 1)
      BY <1>0, <2>1, FrontsFollow
    <3>2. CASE 1 <= depth - 1
      <4>1. (depth - 1) + (depth - 1) < n
        BY <1>0, <3>1, <3>2, NoneWithin
      <4> QED
        BY <1>0, <1>1, <1>2, <2>0, <2>1, <4>1
    <3> QED
      BY <1>0, <1>1, <1>2, <2>0, <2>1, <3>2
  <2>2. CASE side = "r"
    <3>1. /\ depth - 1 \in Nat
          /\ Follows(Links, Known("f"), dist["f"], depth)
          /\ Follows(Reversed(Links), Known("r"), dist["r"], depth - 1)
      BY <1>0, <2>2, FrontsFollow
    <3>2. CASE 1 <= depth - 1
      <4>1. depth + (depth - 1) < n
        BY <1>0, <3>1, <3>2, NoneWithin
      <4> QED
        BY <1>0, <1>1, <1>2, <2>0, <2>2, <4>1
    <3>3. n # 1
      BY <1>0, <3>1, NotOne
    <3> QED
      BY <1>0, <1>1, <1>2, <2>0, <2>2, <3>2, <3>3
  <2> QED
    BY <2>1, <2>2 DEF Side
<1> QED
  BY <1>5, <1>6

LEMMA FollowSearch ==
  ASSUME PathInv, SearchInv, NEW side \in Side, NEW v \in Node, Follow(side, v)
  PROVE  SearchInv'
<1> DEFINE new == Extended(side, chain[side][node], v)
           path == FollowedPath(side, v)
<1>0. /\ at = side /\ v \in todo /\ todo' = todo \ {v} /\ at \in {"f", "r"}
      /\ chain' = [chain EXCEPT ![side][v] = new]
      /\ dist' = [dist EXCEPT ![side][v] = depth]
      /\ queue' = [queue EXCEPT ![side] = Append(@, v)]
      /\ UNCHANGED <<graph, query, node, depth>>
  BY DEF Follow, Side
<1>1. new \in Seq(Node) /\ new # << >>
  BY <1>0, FollowedChain
<1>2. v \in Known(Other(side)) => path \in Path /\ PathIsReal(path)
  BY <1>0, FollowedPathIsReal
<1>3. /\ at' \in {at, "done"}
      /\ \/ found' = found /\ at' = at /\ (v \notin Known(Other(side)) \/ found # << >>)
         \/ found' = Append(found, path) /\ v \in Known(Other(side))
  <2>1. CASE v \in Known(Other(side))
    <3>1. RecordPath(path)
      BY <2>1 DEF Follow, FollowedPath
    <3>2. Len(found) = 0 => ~ \E i \in 1 .. Len(found) : SameText(found[i].chain, path.chain)
      OBVIOUS
    <3>3. found = << >> => Len(found) = 0
      OBVIOUS
    <3> QED
      BY <2>1, <3>1, <3>2, <3>3 DEF RecordPath
  <2>2. CASE v \notin Known(Other(side))
    BY <2>2 DEF Follow
  <2> QED
    BY <2>1, <2>2
<1>4. path.depth = depth + dist[Other(side)][v]
  BY DEF FollowedPath
<1> HIDE DEF new, path
<1>5. /\ depth \in Nat /\ chain[side][v] = << >> /\ node \in Node /\ chain[side][node] # << >>
      /\ dist[side][node] = depth - 1 /\ Other(side) \in Side /\ Other(side) # side
  <2>1. depth \in Nat
    BY CallPathAssumption DEF PathInv, TypeOK
  <2>2. Other(side) \in Side /\ Other(side) # side
    BY DEF Side, Other
  <2>3. /\ chain[side][v] = << >> /\ node \in Node /\ chain[side][node] # << >>
        /\ dist[side][node] = depth - 1
    BY <1>0 DEF PathInv, TodoInv
  <2> QED
    BY <2>1, <2>2, <2>3
<1>6. /\ chain'[side][v] = new /\ dist'[side][v] = depth
      /\ \A s \in Side, w \in Node : s # side \/ w # v => chain'[s][w] = chain[s][w] /\ dist'[s][w] = dist[s][w]
      /\ \A s \in Side, w \in Node : dist[s][w] \in Nat
  BY <1>0, <1>1, <1>5 DEF PathInv, TypeOK
<1>7. /\ v \notin Known(side) /\ Known(side)' = Known(side) \cup {v}
      /\ \A s \in Side : s # side => Known(s)' = Known(s)
      /\ \A s \in Side : Known(s) \subseteq Node
  BY <1>1, <1>5, <1>6 DEF Known
<1>8. \A s \in Side : \A w \in Known(s) : dist'[s][w] = dist[s][w] /\ w \in Known(s)'
  BY <1>6, <1>7
<1>9. /\ queue[side] \in Seq(Node) /\ Len(queue[side]) \in Nat /\ queue'[side] = Append(queue[side], v)
      /\ \A s \in Side : s # side => queue'[s] = queue[s]
  BY <1>0, LenProperties DEF PathInv, TypeOK
<1>10. /\ Len(Append(queue[side], v)) = Len(queue[side]) + 1
       /\ \A i \in 1 .. Len(queue[side]) : Append(queue[side], v)[i] = queue[side][i]
       /\ Append(queue[side], v)[Len(queue[side]) + 1] = v
       /\ Append(queue[side], v) # << >>
  BY <1>9, AppendProperties
<1>11. InQueue(side, v)' /\ \A s \in Side : \A x : InQueue(s, x) => InQueue(s, x)'
  <2>1. InQueue(side, v)'
    <3>1. Len(queue[side]) + 1 \in 1 .. Len(queue'[side]) /\ queue'[side][Len(queue[side]) + 1] = v
      BY <1>9, <1>10
    <3> QED
      BY <3>1 DEF InQueue
  <2>2. ASSUME NEW s \in Side, NEW x, InQueue(s, x) PROVE InQueue(s, x)'
    <3>1. PICK i \in 1 .. Len(queue[s]) : queue[s][i] = x
      BY <2>2 DEF InQueue
    <3>2. i \in 1 .. Len(queue'[s]) /\ queue'[s][i] = x
      BY <1>9, <1>10, <3>1
    <3> QED
      BY <3>2 DEF InQueue
  <2> QED
    BY <2>1, <2>2
<1>12. SeedsInv'
  BY <1>0, <1>8 DEF SearchInv, SeedsInv, Seeds
<1>13. DistInv'
  <2>1. SUFFICES ASSUME at' = at, NEW s \in Side, NEW w \in Known(s)'
                 PROVE  dist'[s][w] <= IF at = "f" /\ s = "r" THEN depth - 1 ELSE depth
    BY <1>0, <1>3 DEF DistInv
  <2>2. CASE w \in Known(s)
    BY <1>0, <1>8, <2>2 DEF SearchInv, DistInv
  <2>3. CASE w \notin Known(s)
    <3>1. s = side /\ w = v
      BY <1>7, <2>3
    <3> QED
      BY <1>0, <1>5, <1>6, <3>1
  <2> QED
    BY <2>2, <2>3
<1>14. DepthInv'
  BY <1>0, <1>3, <1>9, <1>10 DEF SearchInv, DepthInv, Side
<1>15. ProcessedInv'
  <2>1. SUFFICES ASSUME at' = at, NEW s \in Side, NEW x \in Known(s)', NEW y \in Edges(s, x)
                 PROVE  \/ InQueue(s, x)'
                        \/ y \in Known(s)' /\ dist'[s][y] <= dist'[s][x] + 1
                        \/ s = at /\ x = node /\ y \in todo \ {v}
    BY <1>0, <1>3 DEF ProcessedInv, Edges
  <2>2. CASE x \notin Known(s)
    BY <1>7, <1>11, <2>2
  <2>3. CASE x \in Known(s)
    <3>1. \/ InQueue(s, x)
          \/ y \in Known(s) /\ dist[s][y] <= dist[s][x] + 1
          \/ s = at /\ x = node /\ y \in todo
      BY <1>0, <2>3 DEF SearchInv, ProcessedInv
    <3>2. CASE s = at /\ x = node /\ y = v
      <4>1. dist'[s][x] + 1 = depth
        BY <1>0, <1>5, <1>8, <2>3, <3>2
      <4> QED
        BY <1>0, <1>5, <1>6, <1>7, <3>2, <4>1
    <3> QED
      BY <1>8, <1>11, <2>3, <3>1, <3>2
  <2> QED
    BY <2>2, <2>3
<1>16. Distances' = Distances /\ Plain' = Plain
  BY <1>0 DEF Distances, Links, Horizon, Plain, Unbridged
<1>17. CASE found' = found /\ at' = at /\ (v \notin Known(Other(side)) \/ found # << >>)
  <2>1. NotDirectInv' /\ FirstShortest' /\ NoneMissed'
    BY <1>0, <1>16, <1>17 DEF SearchInv, NotDirectInv, FirstShortest, NoneMissed
  <2>2. ApartInv'
    <3>1. SUFFICES ASSUME found = << >>, NEW w \in Known("f")' \cap Known("r")'
                   PROVE  w \in query.sources /\ w = query.to
      BY <1>0, <1>17 DEF ApartInv
    <3>2. w # v
      BY <1>5, <1>7, <1>17, <3>1 DEF Other, Side
    <3>3. w \in Known("f") \cap Known("r")
      BY <1>7, <3>1, <3>2 DEF Side
    <3> QED
      BY <1>0, <3>1, <3>3 DEF SearchInv, ApartInv
  <2> QED
    BY <1>12, <1>13, <1>14, <1>15, <2>1, <2>2 DEF SearchInv
<1>18. CASE found' = Append(found, path) /\ v \in Known(Other(side))
  <2>1. /\ found \in Seq(Path) /\ Len(found) \in Nat /\ path \in Path /\ PathIsReal(path)
    BY <1>2, <1>18, LenProperties DEF PathInv, TypeOK
  <2>2. /\ found' # << >> /\ (found = << >> => found'[1] = path)
        /\ (found # << >> => found'[1] = found[1])
    <3>1. /\ \A i \in 1 .. Len(found) : found'[i] = found[i]
          /\ found'[Len(found) + 1] = path /\ found' \in Seq(Path) /\ Len(found') = Len(found) + 1
      BY <1>18, <2>1, AppendProperties
    <3>2. found # << >> => 1 \in 1 .. Len(found)
      BY <2>1, EmptySeq
    <3>3. found = << >> => Len(found) = 0
      OBVIOUS
    <3>4. found' # << >>
      BY <2>1, <3>1, EmptySeq
    <3> QED
      BY <3>1, <3>2, <3>3, <3>4
  <2>3. FirstShortest'
    <3>1. CASE found = << >>
      <4>1. Plain => path.depth \in Distances /\ \A n \in Distances : path.depth <= n
        BY <1>0, <1>4, <1>18, <2>1, <3>1, ClosedShortest
      <4> QED
        BY <1>16, <2>2, <3>1, <4>1 DEF FirstShortest
    <3>2. CASE found # << >>
      BY <1>16, <2>2, <3>2 DEF SearchInv, FirstShortest
    <3> QED
      BY <3>1, <3>2
  <2>4. ApartInv' /\ NotDirectInv' /\ NoneMissed'
    BY <2>2 DEF ApartInv, NotDirectInv, NoneMissed
  <2> QED
    BY <1>12, <1>13, <1>14, <1>15, <2>3, <2>4 DEF SearchInv
<1> QED
  BY <1>3, <1>17, <1>18

LEMMA NextSearch == ASSUME PathInv, SearchInv, [Next]_vars PROVE SearchInv'
<1>1. CASE DirectEdge
  BY <1>1, DirectEdgeSearch
<1>2. CASE Round
  BY <1>2, RoundSearch
<1>3. CASE \E side \in Side : Expand(side)
  BY <1>3, ExpandSearch
<1>4. CASE \E side \in Side : EndFront(side)
  BY <1>4, EndFrontSearch
<1>5. CASE \E side \in Side, v \in Node : Follow(side, v)
  BY <1>5, FollowSearch
<1>6. CASE UNCHANGED vars
  <2>1. UNCHANGED <<graph, query, at, chain, dist, queue, left, node, todo, depth, expanded, found>>
    BY <1>6 DEF vars
  <2>2. Distances' = Distances /\ Plain' = Plain /\ \A s : Known(s)' = Known(s)
    BY <2>1 DEF Distances, Links, Horizon, Plain, Unbridged, Known
  <2>3. SeedsInv' /\ DistInv' /\ DepthInv' /\ ProcessedInv'
    BY <2>1, <2>2 DEF SearchInv, SeedsInv, DistInv, DepthInv, ProcessedInv, InQueue, Edges
  <2>4. ApartInv' /\ NotDirectInv' /\ FirstShortest' /\ NoneMissed'
    BY <2>1, <2>2 DEF SearchInv, ApartInv, NotDirectInv, FirstShortest, NoneMissed
  <2> QED
    BY <2>3, <2>4 DEF SearchInv
<1> QED
  BY <1>1, <1>2, <1>3, <1>4, <1>5, <1>6 DEF Next

\* What find_all_callers_recursive says of the sources, in these terms.
LEMMA CallersSay ==
  ASSUME PathInv, Unbridged, graph.transits = {}
  PROVE  LET distances == {row[2] : row \in {r \in Callers(graph, query.to, Horizon) : r[1] \in query.sources}}
         IN /\ distances \subseteq Distances
            /\ \A n \in Distances : (\A m \in Distances : n <= m) => n \in distances
<1> DEFINE rows == Callers(graph, query.to, Horizon)
           distances == {row[2] : row \in {r \in rows : r[1] \in query.sources}}
<1>0. /\ query.to \in Function /\ query.sources \subseteq Function /\ query.max_depth \in Nat
      /\ IsGraph(graph)
  BY CallPathAssumption DEF PathInv, TypeOK
<1>1. Horizon \in Nat /\ Links = graph.calls
  BY <1>0 DEF Horizon, Links
<1>2. CallerRefs(graph) = graph.calls
  BY DEF CallerRefs, Unbridged
<1>3. rows = LeastDepths(Levels(graph.calls, query.to, Horizon), Horizon)
  BY <1>2 DEF Callers
<1>4. ASSUME NEW s \in Function, NEW d \in 1 .. Horizon
      PROVE  <<s, d>> \in rows <=> /\ s \in Away(graph.calls, query.to, Horizon, d)
                                   /\ \A n \in 1 .. d - 1 : s \notin Away(graph.calls, query.to, Horizon, n)
  <2> DEFINE max == Horizon
  <2>1. max \in Nat /\ d \in 1 .. max
    BY <1>1
  <2>2. <<s, d>> \in LeastDepths(Levels(graph.calls, query.to, max), max)
          <=> /\ s \in Away(graph.calls, query.to, max, d)
              /\ \A n \in 1 .. d - 1 : s \notin Away(graph.calls, query.to, max, n)
    <3> HIDE DEF max
    <3> QED
      BY <2>1, RowsByLevel
  <2> QED
    BY <1>3, <2>2
<1>5. \A row \in rows : row = <<row[1], row[2]>> /\ row[1] \in Function /\ row[2] \in 1 .. Horizon
  BY <1>3 DEF LeastDepths
<1> HIDE DEF rows
<1>6. distances \subseteq Distances
  <2>1. SUFFICES ASSUME NEW row \in rows, row[1] \in query.sources PROVE row[2] \in Distances
    OBVIOUS
  <2>2. row[1] \in Away(graph.calls, query.to, Horizon, row[2]) /\ row[2] \in 1 .. Horizon
    BY <1>4, <1>5
  <2> QED
    BY <1>1, <2>1, <2>2 DEF Distances, Near
<1>7. ASSUME NEW n \in Distances, \A m \in Distances : n <= m PROVE n \in distances
  <2>1. PICK s \in query.sources : s \in Away(graph.calls, query.to, Horizon, n)
    BY <1>1 DEF Distances, Near
  <2>2. n \in 1 .. Horizon
    BY DEF Distances, Near
  <2>3. ASSUME NEW m \in 1 .. n - 1, s \in Away(graph.calls, query.to, Horizon, m) PROVE FALSE
    <3>1. m \in 1 .. Horizon /\ ~ (n <= m)
      BY <1>1, <2>2
    <3>2. m \in Distances
      BY <1>1, <2>3, <3>1 DEF Distances, Near
    <3> QED
      BY <1>7, <3>1, <3>2
  <2>4. <<s, n>> \in rows
    BY <1>0, <1>4, <2>1, <2>2, <2>3
  <2>5. <<s, n>>[1] = s /\ <<s, n>>[2] = n
    OBVIOUS
  <2> QED
    BY <2>1, <2>4, <2>5
<1> QED
  BY <1>6, <1>7 DEF rows

LEMMA SearchAgrees == ASSUME PathInv, SearchInv PROVE PathsAgreeWithCallers
<1> SUFFICES ASSUME at = "done", expanded < query.max_nodes, Unbridged, graph.transits = {} PROVE
       LET distances == {row[2] : row \in {r \in Callers(graph, query.to, Horizon) : r[1] \in query.sources}}
       IN /\ found = << >> <=> distances = {}
          /\ found # << >> => /\ found[1].depth \in distances
                              /\ \A d \in distances : found[1].depth <= d
  BY DEF PathsAgreeWithCallers, Unbridged
<1> DEFINE distances == {row[2] : row \in {r \in Callers(graph, query.to, Horizon) : r[1] \in query.sources}}
<1>1. /\ distances \subseteq Distances
      /\ \A n \in Distances : (\A m \in Distances : n <= m) => n \in distances
  BY CallersSay
<1> HIDE DEF distances
<1>2. found = << >> => Distances = {}
  BY DEF SearchInv, NoneMissed, Plain
<1>3. found # << >> => found[1].depth \in Distances /\ \A n \in Distances : found[1].depth <= n
  BY DEF SearchInv, FirstShortest, Plain
<1>4. /\ found = << >> <=> distances = {}
      /\ found # << >> => /\ found[1].depth \in distances
                          /\ \A d \in distances : found[1].depth <= d
  BY <1>1, <1>2, <1>3
<1> QED
  BY <1>4 DEF distances

(***************************************************************************)
(* What the edges reach                                                    *)
(***************************************************************************)

\* The recursion of Reached has a solution, so Reached is what its equation says.
NextReached(g, n) ==
  IF n = 0 THEN query.sources
  ELSE g[n - 1] \cup {v \in Node : \E u \in g[n - 1] : <<u, v>> \in AllEdges(graph)}
AreReached(g, bound) == g = [n \in 0 .. bound |-> NextReached(g, n)]

LEMMA ReachedEquation ==
  ASSUME NEW bound \in Nat
  PROVE  \E g : AreReached(g, bound) /\ Reached(bound) = g[bound]
<1> DEFINE Solved == {n \in 0 .. bound : \E g : AreReached(g, n)}
<1>1. 0 \in Solved
  <2> DEFINE g == [n \in 0 .. 0 |-> query.sources]
  <2>1. AreReached(g, 0)
    BY DEF AreReached, NextReached
  <2> HIDE DEF g
  <2> QED
    BY <2>1
<1>2. ASSUME NEW n \in 1 .. bound, n - 1 \in Solved PROVE n \in Solved
  <2>1. PICK g : AreReached(g, n - 1)
    BY <1>2
  <2> DEFINE k == [d \in 0 .. n |-> IF d = n THEN NextReached(g, n) ELSE g[d]]
  <2>2. ASSUME NEW d \in 0 .. n PROVE k[d] = NextReached(k, d)
    <3>1. d # 0 => k[d - 1] = g[d - 1]
      OBVIOUS
    <3>2. CASE d = n
      BY <3>1, <3>2 DEF NextReached
    <3>3. CASE d # n
      <4>1. d \in 0 .. n - 1
        BY <3>3
      <4>2. g[d] = NextReached(g, d)
        BY <2>1, <4>1 DEF AreReached
      <4> QED
        BY <3>1, <3>3, <4>2 DEF NextReached
    <3> QED
      BY <3>2, <3>3
  <2>3. AreReached(k, n)
    BY <2>2 DEF AreReached
  <2> HIDE DEF k
  <2> QED
    BY <2>3
<1> HIDE DEF Solved
<1>3. bound \in Solved
  BY <1>1, <1>2, CountUp
<1>4. PICK g : AreReached(g, bound)
  BY <1>3 DEF Solved
<1>5. Reached(bound) = (CHOOSE h : AreReached(h, bound))[bound]
  BY DEF Reached, AreReached, NextReached
<1> QED
  BY <1>4, <1>5

\* What the edges reach, they reach by a walk from a source.
LEMMA ReachedByWalk ==
  ASSUME PathInv, Unbridged, NEW bound \in Nat, NEW max \in Nat, bound <= max,
         NEW v \in Reached(bound)
  PROVE  /\ v \in Function
         /\ \E s \in query.sources, m \in 0 .. bound : s \in Away(Links, v, max, m)
<1> DEFINE By(s, m) == Away(Reversed(Links), s, max, m)
           Walked(n) == {w \in Function : \E s \in query.sources, m \in 0 .. n : w \in By(s, m)}
<1>0. query.sources \subseteq Function /\ Links \in SUBSET (Function \X Function) /\ AllEdges(graph) = Links
  BY CallPathAssumption, PlainEdges DEF PathInv, TypeOK
<1>1. PICK g : AreReached(g, bound) /\ Reached(bound) = g[bound]
  BY ReachedEquation
<1>2. /\ g[0] = query.sources
      /\ \A n \in 1 .. bound :
           g[n] = g[n - 1] \cup {x \in Node : \E u \in g[n - 1] : <<u, x>> \in AllEdges(graph)}
  <2>1. ASSUME NEW n \in 0 .. bound PROVE g[n] = NextReached(g, n)
    BY <1>1 DEF AreReached
  <2>2. 0 \in 0 .. bound /\ \A n \in 1 .. bound : n \in 0 .. bound /\ n # 0
    OBVIOUS
  <2> QED
    BY <2>1, <2>2 DEF NextReached
<1> DEFINE Within == {n \in 0 .. bound : g[n] \subseteq Walked(n)}
<1>3. 0 \in Within
  <2>1. g[0] = query.sources
    BY <1>2
  <2>2. \A s : s \in By(s, 0)
    BY DEF Away
  <2> QED
    BY <1>0, <2>1, <2>2
<1>4. ASSUME NEW n \in 1 .. bound, n - 1 \in Within PROVE n \in Within
  <2>1. SUFFICES ASSUME NEW w \in g[n] PROVE w \in Walked(n)
    OBVIOUS
  <2>2. n - 1 \in 0 .. bound /\ n \in Nat /\ n # 0 /\ 0 .. n - 1 \subseteq 0 .. n
    OBVIOUS
  <2>3. w \in g[n - 1] \/ \E u \in g[n - 1] : <<u, w>> \in Links
    BY <1>0, <1>2, <2>1
  <2>4. CASE w \in g[n - 1]
    BY <1>4, <2>2, <2>4
  <2>5. ASSUME NEW u \in g[n - 1], <<u, w>> \in Links PROVE w \in Walked(n)
    <3>1. PICK s \in query.sources, m \in 0 .. n - 1 : u \in By(s, m)
      BY <1>4
    <3>2. m + 1 \in 1 .. max /\ m + 1 \in 0 .. n /\ (m + 1) - 1 = m
      BY <2>2
    <3>3. w \in Function /\ u \in Function /\ s \in Function
      BY <1>0, <2>5
    <3>4. <<w, u>> \in Reversed(Links)
      BY <2>5 DEF Reversed
    <3>5. u \in By(s, (m + 1) - 1)
      BY <3>1, <3>2
    <3>6. w \in By(s, m + 1)
      BY <3>2, <3>3, <3>4, <3>5, AwayStep
    <3> HIDE DEF By
    <3> QED
      BY <3>2, <3>3, <3>6
  <2> QED
    BY <2>3, <2>4, <2>5
<1> HIDE DEF Within
<1>5. bound \in Within
  BY <1>3, <1>4, CountUp
<1>6. v \in Walked(bound)
  BY <1>1, <1>5 DEF Within
<1>7. PICK s \in query.sources, m \in 0 .. bound : v \in By(s, m) /\ v \in Function
  BY <1>6
<1>8. s \in Away(Links, v, max, m)
  BY <1>0, <1>7, AwayFromBothEnds
<1> QED
  BY <1>7, <1>8

\* What the module says of bridging is true of a graph without bridges.
LEMMA BridgesSay == ASSUME PathInv, SearchInv, Unbridged PROVE BridgesAreFollowed
<1> SUFFICES ASSUME at = "done", expanded < query.max_nodes,
                    query.to \in Reached(query.max_depth), query.to \notin query.sources
             PROVE  found # << >>
  BY DEF BridgesAreFollowed
<1>1. query.max_depth \in Nat /\ Horizon \in Nat /\ query.max_depth <= Horizon
  BY CallPathAssumption DEF PathInv, TypeOK, Horizon
<1>2. PICK s \in query.sources, m \in 0 .. query.max_depth : s \in Away(Links, query.to, Horizon, m)
  BY <1>1, ReachedByWalk
<1>3. m # 0
  BY <1>2 DEF Away
<1>4. m \in 1 .. Horizon /\ query.max_depth > 0
  BY <1>1, <1>2, <1>3
<1>5. m \in Distances
  BY <1>2, <1>4 DEF Distances, Near
<1>6. Plain
  BY <1>4 DEF Plain
<1> QED
  BY <1>5, <1>6 DEF SearchInv, NoneMissed

\* The answer of a plain search, by walks over calls and transits.
SearchIsExact ==
  Plain /\ at = "done" /\ expanded < query.max_nodes =>
    /\ found = << >> <=> Distances = {}
    /\ found # << >> => found[1].depth \in Distances /\ \A n \in Distances : found[1].depth <= n

(***************************************************************************)
(* The theorems                                                            *)
(***************************************************************************)

\* The inductive invariant holds of every search.
THEOREM SearchInvariant == Spec => []PathInv
BY InitInv, NextInv, PTL DEF Spec

\* Every variable of the search keeps its type, for every set of graphs and queries.
THEOREM SearchTypes == Spec => []TypeOK
<1>1. PathInv => TypeOK
  BY DEF PathInv
<1> QED
  BY <1>1, SearchInvariant, PTL

\* Every path of every answer of find_call_path leads from a function of
\* from_name to to_name over edges of the graph, and its depth is their number:
\* for every graph with its aliases, constructors and transits, every two limits
\* and every order in which the edges are read.
THEOREM PathsHold == Spec => []PathsAreReal
<1>1. PathInv => PathsAreReal
  BY FoundIsReal DEF PathInv
<1> QED
  BY <1>1, SearchInvariant, PTL

\* Both invariants hold of every search.
LEMMA SearchHolds == Spec => [](PathInv /\ SearchInv)
<1>1. Init => PathInv /\ SearchInv
  BY InitInv, InitSearch
<1>2. PathInv /\ SearchInv /\ [Next]_vars => (PathInv /\ SearchInv)'
  BY NextInv, NextSearch
<1> QED
  BY <1>1, <1>2, PTL DEF Spec

\* While no edge is bridged and the node limit is not met, the search says the same
\* as the recursive query: it finds a path when a source is among the callers of the
\* target, within the horizon of the depth limit, and its first path is as short as
\* the least of their depths.  No meeting of the fronts is missed and none is late,
\* whatever the graph, the order of the edges and the two limits.
THEOREM ShortestPathsHold == Spec => []PathsAgreeWithCallers
<1>1. PathInv /\ SearchInv => PathsAgreeWithCallers
  BY SearchAgrees
<1> QED
  BY <1>1, SearchHolds, PTL

\* The same with the transits of dispatch tables among the edges, which the recursive
\* query does not follow: a path is found when a walk over calls and transits leads from
\* a source to the target within the horizon, and the first path is a shortest one.
THEOREM TransitsAreFollowed == Spec => []SearchIsExact
<1>1. PathInv /\ SearchInv => SearchIsExact
  BY DEF SearchInv, NoneMissed, FirstShortest, SearchIsExact
<1> QED
  BY <1>1, SearchHolds, PTL

\* How far BridgesAreFollowed holds: a target that the edges reach within max_depth is
\* found, in every graph in which no alias and no global constructor takes the place of
\* the rows of refs (_callgraph.py, the entries of _edge_cache).
THEOREM UnbridgedTargetsAreFound == Spec => [](Unbridged => BridgesAreFollowed)
<1>1. PathInv /\ SearchInv => (Unbridged => BridgesAreFollowed)
  BY BridgesSay
<1> QED
  BY <1>1, SearchHolds, PTL

\* find_callees_recursive lists h for f at a depth exactly when
\* find_all_callers_recursive lists f for h at that depth.
THEOREM CalleesInvertHolds == Spec => []CalleesInvertCallers
<1>1. PathInv => CalleesInvertCallers
  BY CalleesInvert, CallPathAssumption DEF PathInv, TypeOK, CalleesInvertCallers
<1> QED
  BY <1>1, SearchInvariant, PTL
=============================================================================
