----------------------------- MODULE MCToolServer -----------------------------
(***************************************************************************)
(* ToolServer with two queries and a reset_index, and with one query, one  *)
(* reindex_file and one reset_index.                                       *)
(***************************************************************************)
EXTENDS ToolServer

CONSTANTS q1, q2, r, x

MCQueries == {q1, q2, x}
MCTools == {q1, r, x}
MCKind == [c \in Call |-> CASE c \in {q1, q2} -> "query" [] c = r -> "reindex" [] c = x -> "reset"]
=============================================================================
