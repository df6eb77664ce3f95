------------------------------ MODULE MCDeadCode ------------------------------
(***************************************************************************)
(* DeadCode on small programs: four functions with up to five calls, or    *)
(* two calls and one more fact that roots, refers, registers or bridges.   *)
(* Nothing in DeadCode tells functions apart, so function 1 is the root.   *)
(***************************************************************************)
EXTENDS DeadCode, FiniteSetsExt

MCFunction == 1 .. 4

Pairs == {e \in MCFunction \X MCFunction : e[1] # e[2]}
CallSets(n) == UNION {kSubset(k, Pairs) : k \in 0 .. n}

Plain(calls) ==
  [universe |-> MCFunction, calls |-> calls, others |-> {}, weak |-> {}, alias |-> {}, ctors |-> {},
   unowned |-> {}, slots |-> {}, slotted |-> {}, assigned |-> {}, evidence |-> {1},
   possible |-> {}, overrides |-> {}]

Programs(n) == {Plain(calls) : calls \in CallSets(n)}

MCGraphs ==
  Programs(5)
    \cup {[g EXCEPT !.evidence = {}] : g \in Programs(3)}
    \cup {[g EXCEPT !.universe = MCFunction \ {pair[2]}, !.weak = {pair}] : g \in Programs(2), pair \in Pairs}
    \cup {[g EXCEPT !.alias = {pair}] : g \in Programs(2), pair \in Pairs}
    \cup {[g EXCEPT !.possible = {pair}] : g \in Programs(2), pair \in Pairs}
    \cup {[g EXCEPT !.overrides = {pair}] : g \in Programs(2), pair \in Pairs}
    \cup {[g EXCEPT !.ctors = {pair[1]}, !.slots = {pair[2]}] : g \in Programs(1), pair \in Pairs}
    \cup {[g EXCEPT !.unowned = {pair[1], pair[2]}, !.slotted = {pair[1]}, !.assigned = {pair[2]}] :
            g \in Programs(2), pair \in Pairs}
=============================================================================
