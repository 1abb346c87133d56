--------------------------- MODULE SessionHistory ---------------------------
(* SessionWriter with the history of what was asked of the writer.         *)
EXTENDS SessionWriter

VARIABLES
    rewritten,    \* lines were asked to go: by a compaction, a clear or a repair
    traces        \* trace lines the writer has accepted since it loaded the file

TraceLine == [kind : {"trace"}, id : Nat]

\* The writer answers an append of a trace line with Ok.
TraceAccepted ==
    /\ queue # <<>> /\ Command.op = "append" /\ Command.line \in TraceLine
    /\ preserved' # preserved

HistoryInit == Init /\ rewritten = FALSE /\ traces = 0
HistoryNext ==
    /\ Next
    /\ rewritten' = \/ rewritten
                    \/ \E i \in DOMAIN queue' : queue'[i].op \in {"compact", "clear"}
                    \/ Open /\ disk.exists /\ stale'
    /\ traces' = IF writer = "down" /\ writer' = "up" THEN 0
                 ELSE IF TraceAccepted THEN traces + 1 ELSE traces
HistorySpec == HistoryInit /\ [][HistoryNext]_<<vars, rewritten, traces>>

(* session.rs:960-979 against 1252: the writer counts every line it         *)
(* appends, the loader all but the traces and run outcomes every completed *)
(* run leaves behind (connection.rs:2447), so the revision a session       *)
(* reports does fall when it is loaded again.  It falls by those lines and *)
(* by nothing else: as long as nothing is compacted, cleared, or repaired  *)
(* by the loader, what is counted besides the traces of the writer's life  *)
(* goes up by one or stays, through failed appends, crashes and reloads.   *)
RevisionFallsByTraces ==
    [][rewritten' \/ revision' - traces' \in {revision - traces, revision - traces + 1}]_<<vars, rewritten, traces>>
=============================================================================
