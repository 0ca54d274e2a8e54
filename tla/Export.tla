-------------------------------- MODULE Export --------------------------------
(***************************************************************************)
(* A CSV export: the rows of a selection, newest first, chunk by chunk, each   *)
(* chunk a SELECT of its own with an OFFSET, while the selection changes.      *)
(*                                                                          *)
(* Source: backend/app/services/export_service.py,                            *)
(* repositories/check_repository.py (page_for_monitor),                       *)
(* repositories/incident_repository.py (page_for_team).                       *)
(*                                                                          *)
(* A row is its place in the order: of two, the greater is the newer.  Exports *)
(* write nothing, so there is one.                                            *)
(***************************************************************************)
EXTENDS Naturals, FiniteSets, FiniteSetsExt

CONSTANTS
  ChunkSize,  \* CHUNK_SIZE
  MaxExport,  \* MAX_EXPORT_ROWS
  MaxRow,     \* bound: rows that can be
  MaxMoves    \* bound: changes of the selection

ASSUME ExportAssumption ==
  ChunkSize \in Nat \ {0} /\ MaxExport \in Nat /\ MaxRow \in Nat /\ MaxMoves \in Nat

Rows == 1 .. MaxRow

VARIABLES
  what,      \* "checks" of a monitor or "incidents" of a team with some status
  rows,      \* the selection, committed
  export,    \* where it is: the rows it began with, those it sent, how many lines that was
  moves,     \* budget of the bound
  came,      \* rows that entered the selection since the export began
  left       \* rows that left it

exportVars == <<what, rows, export, moves, came, left>>

ExportTypeOK ==
  /\ what \in {"checks", "incidents"} /\ rows \in SUBSET Rows
  /\ export \in [at : {"idle", "open", "done"}, must : SUBSET Rows, seen : SUBSET Rows,
                 lines : 0 .. MaxExport]
  /\ moves \in 0 .. MaxMoves /\ came \in 0 .. MaxMoves /\ left \in Nat

\* The rows after the first offset ones, at most limit of them.
Newer(r) == {q \in rows : q > r}
Select(offset, limit) ==
  {r \in rows : offset <= Cardinality(Newer(r)) /\ Cardinality(Newer(r)) < offset + limit}

ExportInit ==
  /\ what \in {"checks", "incidents"}
  /\ \E n \in 0 .. MaxRow : rows = 1 .. n
  /\ export = [at |-> "idle", must |-> {}, seen |-> {}, lines |-> 0]
  /\ moves = MaxMoves /\ came = 0 /\ left = 0

-----------------------------------------------------------------------------
\* The handler finds the monitor, or needs none, and answers with the stream.
StartExport ==
  /\ export.at = "idle"
  /\ export' = [export EXCEPT !.at = "open", !.must = Select(0, MaxExport)]
  /\ UNCHANGED <<what, rows, moves, came, left>>

\* The newest of a chunk that the cap leaves room for.
Capped(chunk, room) ==
  {r \in chunk : Cardinality({q \in chunk : q > r}) < room}

\* One turn of a loop, or its end: chunk is what its SELECT returns.
SendRows(chunk) ==
  /\ export.at = "open"
  /\ LET n == export.lines
         sent == IF n < MaxExport THEN Capped(chunk, MaxExport - n) ELSE {}
     IN export' = [export EXCEPT !.seen = @ \cup sent, !.lines = n + Cardinality(sent),
                                 !.at = IF Cardinality(sent) < ChunkSize THEN "done" ELSE "open"]
  /\ UNCHANGED <<what, rows, moves, came, left>>

\* Mutant of ChecksAfter: the last chunk asks for the lines that are left, and counts
\* pages by it.
ChecksAfterShrunk(n) ==
  LET limit == Min({ChunkSize, MaxExport - n}) IN Select((n \div limit) * limit, limit)

\* Checks are asked for by page, incidents by offset.
ChecksAfter(n) == Select((n \div ChunkSize) * ChunkSize, ChunkSize)
IncidentsAfter(n) == Select(n, ChunkSize)

SendChecks == what = "checks" /\ SendRows(ChecksAfter(export.lines))
SendIncidents == what = "incidents" /\ SendRows(IncidentsAfter(export.lines))

\* A check is stored, an incident opened or given the status: a check is the newest.
Come(r) ==
  /\ moves > 0 /\ moves' = moves - 1
  /\ r \notin rows /\ (what = "checks" => Newer(r) = {})
  /\ rows' = rows \cup {r} /\ came' = came + 1
  /\ UNCHANGED <<what, export, left>>

\* Rows go with their monitor, all checks at once; an incident loses the status.
Go(gone) ==
  /\ moves > 0 /\ moves' = moves - 1
  /\ gone # {} /\ (what = "checks" => gone = rows)
  /\ rows' = rows \ gone /\ left' = left + Cardinality(gone)
  /\ UNCHANGED <<what, export, came>>

-----------------------------------------------------------------------------
ExportNext ==
  \/ StartExport \/ SendChecks \/ SendIncidents
  \/ export.at = "open" /\ \E r \in Rows : Come(r)
  \/ export.at = "open" /\ \E gone \in SUBSET rows : Go(gone)

ExportSpec == ExportInit /\ [][ExportNext]_exportVars

-----------------------------------------------------------------------------
\* OFFSET counts from the newest row of each moment, so rows repeat when others come and are
\* passed over when others go: never more than went, or came when the cap cut the export off
\* (export_service.py:36, "keeps offset math exact").
ExportAccountsForAll ==
  export.at = "done" =>
    Cardinality(export.must \ export.seen)
      <= left + (IF export.lines = MaxExport THEN came ELSE 0)
=============================================================================
