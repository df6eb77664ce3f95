----------------------------- MODULE MCRunRecovery -----------------------------
(***************************************************************************)
(* RunRecovery for TLC.                                                    *)
(***************************************************************************)
EXTENDS RunRecovery

\* At most four edits, returns of a text and faults in one history.
FewDisturbances ==
  (newest.src[1] - 1) + (newest.src[2] - 1) + (newest.header - 1)
    + newest.reverts + faults <= 4

\* Files change only between two runs.
QuietRuns == run.at # "off" => UNCHANGED files
=============================================================================
