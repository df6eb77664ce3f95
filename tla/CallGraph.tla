------------------------------- MODULE CallGraph -------------------------------
(***************************************************************************)
(* indexer/db/_callgraph.py: the call graph of one build as its queries    *)
(* read it from the refs table, with the edges they add.                   *)
(*                                                                         *)
(* A function is its USR.  A graph g is what the table holds:              *)
(*   g.calls     the rows of the four kinds the queries follow (call,      *)
(*               indirect, implicit_construct, dispatch) with a from_usr;  *)
(*   g.others    rows of every other kind (vector, variant_switch_in, ...) *)
(*   g.alias     the pairs <<declaration, definition>> of _get_alias_pairs *)
(*   g.ctors     the constructors of global objects: implicit_construct    *)
(*               rows that have no from_usr                                *)
(*   g.transits  the pairs <<caller, entry>> where the caller's trigger    *)
(*               call and a dispatch row of the entry share their line     *)
(* and g.main is what the name main resolves to.                           *)
(***************************************************************************)
EXTENDS Naturals

CONSTANTS Function,     \* USRs
          Ctors,        \* the synthetic node <global ctors>
          NoFunction    \* a name that resolves to nothing

ASSUME CallGraphAssumption == Ctors \notin Function /\ NoFunction \notin Function \cup {Ctors}

Node == Function \cup {Ctors}

\* A declaration is taken for an alias when something refers to it and it
\* refers to nothing; it is paired with one definition.
IsAliasPair(g, pair) ==
  LET rows == g.calls \cup g.others
  IN /\ \E e \in rows : e[2] = pair[1]
     /\ \A e \in rows : e[1] # pair[1]
     /\ \A other \in g.alias : other[1] = pair[1] => other = pair
     /\ pair[1] # pair[2]

IsGraph(g) ==
  /\ g.calls \subseteq Function \X Function /\ g.others \subseteq Function \X Function
  /\ g.alias \subseteq Function \X Function /\ \A pair \in g.alias : IsAliasPair(g, pair)
  /\ g.ctors \subseteq Function /\ g.main \in Function \cup {NoFunction}
  /\ g.transits \subseteq {e \in Function \X Function : e[1] # e[2]}

\* Every edge a query has reason to follow.
AllEdges(g) ==
  g.calls \cup g.alias \cup g.transits
    \cup {e \in Node \X Node : e[1] = Ctors /\ e[2] \in g.ctors}
    \cup {e \in Node \X Node : e[1] = g.main /\ e[2] = Ctors /\ g.ctors # {}}

(***************************************************************************)
(* The recursive queries.                                                  *)
(***************************************************************************)
\* extended_refs of find_all_callers_recursive: who refers to a declaration
\* also calls its definition.
CallerRefs(g) ==
  g.calls \cup {e \in Function \X Function :
                  \E pair \in g.alias : pair[2] = e[2] /\ <<e[1], pair[1]>> \in g.calls \cup g.others}

\* extended_refs of find_callees_recursive: a declaration calls what its definition calls.
CalleeRefs(g) ==
  g.calls \cup {e \in Function \X Function :
                  \E pair \in g.alias : pair[1] = e[1] /\ <<pair[2], e[2]>> \in g.calls \cup g.others}

\* The levels of the recursive CTE: from whom d edges of refs lead to u.
Levels(refs, u, max) ==
  LET level[d \in 1 .. max] ==
        {f \in Function : IF d = 1 THEN <<f, u>> \in refs ELSE \E h \in level[d - 1] : <<f, h>> \in refs}
  IN level

\* Its rows, one per function with its least depth.
LeastDepths(level, max) ==
  {row \in Function \X (1 .. max) :
     /\ row[1] \in level[row[2]]
     /\ \A d \in 1 .. row[2] - 1 : row[1] \notin level[d]}

Reversed(refs) == {<<e[2], e[1]>> : e \in refs}

Callers(g, u, max) == LeastDepths(Levels(CallerRefs(g), u, max), max)

\* Mutant: the recursion of the callees ends one level early.
CalleesOneLess(g, u, max) ==
  {row \in LeastDepths(Levels(Reversed(CalleeRefs(g)), u, max), max) : row[2] = 1 \/ row[2] < max}

Callees(g, u, max) == LeastDepths(Levels(Reversed(CalleeRefs(g)), u, max), max)
=============================================================================
