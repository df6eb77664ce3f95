------------------------------ MODULE MCCallPath ------------------------------
(***************************************************************************)
(* CallPath on small graphs: four functions, with up to four calls and no  *)
(* bridge, or up to three calls and one kind of bridge.                    *)
(***************************************************************************)
EXTENDS CallPath, FiniteSets, FiniteSetsExt

MCFunction == 1 .. 4

AllCalls == {e \in MCFunction \X MCFunction : e[1] # e[2]}
CallSets(n) == UNION {kSubset(k, AllCalls) : k \in 0 .. n}

Plain(calls) == [calls |-> calls, others |-> {}, alias |-> {}, ctors |-> {}, main |-> 1,
                 transits |-> {}]

MCGraphs ==
  {Plain(calls) : calls \in CallSets(4)}
    \cup {[Plain(calls) EXCEPT !.alias = {pair}] : calls \in CallSets(3), pair \in AllCalls}
    \cup {[Plain(calls) EXCEPT !.ctors = {c}] : calls \in CallSets(3), c \in 2 .. 4}
    \cup {[Plain(calls) EXCEPT !.transits = {pair}] : calls \in CallSets(2), pair \in AllCalls}

Query(sources, to, max_depth, max_nodes) ==
  [sources |-> sources, to |-> to, max_depth |-> max_depth, max_nodes |-> max_nodes]

MCQueries == {Query({1}, 4, 0, 9), Query({1}, 4, 1, 9), Query({1}, 4, 2, 9), Query({1, 2}, 4, 3, 2),
              Query({1}, 1, 2, 9)}
=============================================================================
