---------------------------- MODULE LocationLog ----------------------------
(***************************************************************************)
(* What ingest promises, without boards, requests or statements: a log of  *)
(* fixes that only grows, in which the first fix of a moment stays.        *)
(***************************************************************************)
CONSTANT Fixes      \* records with at least a field `time`

VARIABLE log

LogInit == log = {}

Record(f) ==
    /\ \A row \in log : row.time # f.time
    /\ log' = log \cup {f}

LogNext == \E f \in Fixes : Record(f)

LogSpec == LogInit /\ [][LogNext]_log
=============================================================================
