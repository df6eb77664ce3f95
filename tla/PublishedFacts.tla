---------------------------- MODULE PublishedFacts ----------------------------
(***************************************************************************)
(* What the shared SemanticState table promises its users, and nothing     *)
(* else: the facts of one (tusemantic_key, parser_generation) are chosen   *)
(* while there are none, never change while they are there, and are        *)
(* withdrawn only by the collector, which names the keys beforehand.       *)
(***************************************************************************)
CONSTANTS Keys,      \* identities (tusemantic_key, parser_generation)
          Digests,   \* fact_set_digest values
          None       \* "nothing published"

VARIABLES chosen,    \* chosen[k]: the digest published under k, or None
          condemned  \* the keys that the collector's latest analysis names

facts == <<chosen, condemned>>

Init ==
  /\ chosen = [k \in Keys |-> None]
  /\ condemned = {}

Choose(k, d) ==
  /\ chosen[k] = None
  /\ chosen' = [chosen EXCEPT ![k] = d]
  /\ UNCHANGED condemned

Condemn ==
  /\ condemned' \in SUBSET Keys
  /\ UNCHANGED chosen

Withdraw ==
  /\ \E swept \in SUBSET condemned :
        chosen' = [k \in Keys |-> IF k \in swept THEN None ELSE chosen[k]]
  /\ UNCHANGED condemned

Next ==
  \/ \E k \in Keys, d \in Digests : Choose(k, d)
  \/ Condemn
  \/ Withdraw

Spec == Init /\ [][Next]_facts
=============================================================================
