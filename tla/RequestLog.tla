----------------------------- MODULE RequestLog -----------------------------
(***************************************************************************)
(* The route log and the index derived from it (request_log.py, and the    *)
(* log's writer and the live tail in router.py).  Handler threads append   *)
(* one line per request, and a correction when the answer could not be     *)
(* delivered; an append may first roll the file over.  Admin reads catch   *)
(* the index up from a persisted offset before they answer, one at a time; *)
(* a page holds a list of rows and a cursor, and follows the tail.         *)
(*                                                                         *)
(* A line is one unit long, so an offset counts lines.  The rolled files   *)
(* keep their lines here because a read may still hold one open; no later  *)
(* read finds them.                                                        *)
(***************************************************************************)
EXTENDS Naturals, Sequences, FiniteSets, FiniteSetsExt

CONSTANTS
    Requests,    \* requests that may be logged
    NoLine,
    Cap,         \* lines after which an append rolls the file (MAX_JSONL_LOG_BYTES)
    Batch,       \* INGEST_BATCH
    MaxRows,     \* MAX_ROWS
    MaxAge,      \* MAX_AGE_SECONDS
    MaxReplay,   \* MAX_TAIL_REPLAY
    Limit,       \* DEFAULT_TAIL_LIMIT
    MaxTime,     \* bound of the clock
    MaxFiles     \* bound of the files there were

ASSUME LogLimits ==
    MaxRows \in Nat /\ MaxAge \in Nat /\ Batch \in Nat \ {0} /\ Limit \in Nat \ {0} /\ Cap \in Nat

VARIABLES
    clock,
    files,       \* the file of each generation; the last one is current
    present,     \* the current file exists
    frag,        \* the current file ends inside a line
    writer,      \* the append in progress: <<stage, line>>
    logged,      \* requests whose row was written to a file
    corrected,   \* requests whose correction was
    rows,        \* the index: records [id, rowid, reason, fixed, at]
    meta,        \* what is committed about the source: [ident, offset]
    reader,      \* the catch-up in progress: [stage, gen, offset, ident, fixed, for]
    blank,       \* generations a catch-up found new and empty (history)
    page         \* what the admin page knows: [cursor, shows, reload], and whether rowids up to
                 \* its cursor may since have been given to other rows (reused, history)

logVars == <<clock, files, present, frag, writer, logged, corrected>>
indexVars == <<rows, meta, reader, blank>>
requestLogVars == <<clock, files, present, frag, writer, logged, corrected, rows, meta, reader, blank, page>>

Route(r, at) == [kind |-> "route", id |-> r, at |-> at]
Correction(r) == [kind |-> "correction", id |-> r, at |-> 0]
Junk == [kind |-> "junk", id |-> NoLine, at |-> 0]

Gen == Len(files)
Current == files[Gen]
Idle == [stage |-> "idle", gen |-> 0, offset |-> 0, ident |-> 0, fixed |-> FALSE, for |-> "none"]

------------------------------------------------------------------------------
(* The writer: one append at a time (_JSONL_APPEND_LOCK).                  *)

\* A file past its size is renamed first; its path is absent until the append creates it.
rotate_if_oversized ==
    IF present /\ Len(Current) >= Cap /\ Gen < MaxFiles
    THEN files' = Append(files, <<>>) /\ present' = FALSE /\ frag' = FALSE
    ELSE UNCHANGED <<files, present, frag>>

Append_(line) ==
    /\ writer = NoLine /\ writer' = <<"open", line>>
    /\ rotate_if_oversized
    /\ UNCHANGED <<clock, logged, corrected, indexVars, page>>

\* The answer of r is logged; a non-streaming success is logged before its body is sent.
AppendRoute(r) == r \notin logged /\ Append_(Route(r, clock))

\* The body could not be sent after all.
AppendCorrection(r) == r \in logged \ corrected /\ Append_(Correction(r))

open_private_append ==
    /\ writer # NoLine /\ writer[1] = "open"
    /\ present' = TRUE /\ writer' = <<"write", writer[2]>>
    /\ UNCHANGED <<clock, files, frag, logged, corrected, indexVars, page>>

\* The row reaches the file whole; behind a fragment it makes one line nobody can parse.
WriteLine ==
    /\ writer # NoLine /\ writer[1] = "write"
    /\ files' = [files EXCEPT ![Gen] = Append(@, IF frag THEN Junk ELSE writer[2])]
    /\ frag' = FALSE /\ writer' = NoLine
    /\ logged' = IF writer[2].kind = "route" THEN logged \cup {writer[2].id} ELSE logged
    /\ corrected' = IF writer[2].kind = "correction" THEN corrected \cup {writer[2].id} ELSE corrected
    /\ UNCHANGED <<clock, present, indexVars, page>>

------------------------------------------------------------------------------
(* The index.                                                              *)

HeadOf(R) == Max({row.rowid : row \in R} \cup {0})
RowOf(R, id) == {row \in R : row.id = id}

\* INSERT OR IGNORE: request ids are unique.
Insert(R, line) ==
    IF RowOf(R, line.id) # {} THEN R
    ELSE R \cup {[id |-> line.id, rowid |-> HeadOf(R) + 1, reason |-> "ok", fixed |-> FALSE, at |-> line.at]}

\* A correction that says something new moves its row to the head, so that every tail sees it.
Correct(R, line) ==
    {IF row.id = line.id /\ row.reason # "client_disconnected"
     THEN [id |-> row.id, rowid |-> HeadOf(R) + 1, reason |-> "client_disconnected", fixed |-> TRUE, at |-> row.at]
     ELSE row : row \in R}

Apply(R, line) ==
    CASE line.kind = "route" -> Insert(R, line)
      [] line.kind = "correction" -> Correct(R, line)
      [] OTHER -> R

\* In the order of the log: a row and its correction may be in one batch.
_insert_rows(R, lines) ==
    LET after[k \in 0..Len(lines)] == IF k = 0 THEN R ELSE Apply(after[k - 1], lines[k])
    IN after[Len(lines)]

Later(a, b) == a.at > b.at \/ (a.at = b.at /\ a.rowid > b.rowid)

\* Past the cap the newest rows stay; then rows past their age go.
_trim(R) ==
    {row \in R : /\ Cardinality({other \in R : Later(other, row)}) < MaxRows
                 /\ row.at + MaxAge >= clock}

\* What the page makes of a read that has caught up; the others leave it alone.
PageAfter(for, R, fixed) ==
    LET head == HeadOf(R)
        reused == page.reused \/ head < page.cursor
        beyond == {row \in R : row.rowid > page.cursor}
        batch == {row \in beyond : Cardinality({other \in beyond : other.rowid < row.rowid}) < Limit}
        resync == \/ fixed \/ page.cursor > head \/ head > page.cursor + MaxReplay
                  \/ \E row \in beyond : row.fixed
    IN  CASE for = "list" -> [cursor |-> head, shows |-> {<<row.id, row.reason>> : row \in R},
                              reload |-> FALSE, reused |-> FALSE]
          [] for = "tail" /\ resync -> [page EXCEPT !.cursor = head, !.reload = TRUE]
          [] for = "tail" /\ ~resync ->
                [page EXCEPT !.cursor = IF Cardinality(batch) >= Limit THEN HeadOf(batch) ELSE head,
                             !.shows = @ \cup {<<row.id, row.reason>> : row \in batch}]
          [] for = "other" -> [page EXCEPT !.reused = reused]

------------------------------------------------------------------------------
(* A catch-up (_catch_up), under _REQUEST_LOG_LOCK; its writes are one     *)
(* transaction per batch.                                                  *)

Reads == {"list", "tail", "other"}   \* "other": the summary, a feedback's attribution

\* A page without a list loads it, a page with one follows the tail.
MayRead(for) == reader = Idle /\ (for = "list" => page.reload) /\ (for = "tail" => ~page.reload)

\* No log: the index answers as it is.
NoLog(for) ==
    /\ MayRead(for) /\ ~present
    /\ page' = PageAfter(for, rows, FALSE)
    /\ UNCHANGED <<logVars, rows, meta, reader, blank>>

\* Mutant: the source is recognised by its size only.
StartOffsetBySize == IF Len(Current) < meta.offset THEN 0 ELSE meta.offset

\* Another source than the last one is read from its start, as is one that has shrunk.
StartOffset == IF meta.ident # Gen \/ Len(Current) < meta.offset THEN 0 ELSE meta.offset

\* Nothing new: retention is enforced, and the identity is stored without its offset.
StatQuiet(for) ==
    /\ MayRead(for) /\ present /\ Len(Current) = StartOffset
    /\ rows' = _trim(rows)
    /\ meta' = [meta EXCEPT !.ident = Gen]
    /\ blank' = IF meta.ident # Gen THEN blank \cup {Gen} ELSE blank
    /\ page' = PageAfter(for, rows', FALSE)
    /\ UNCHANGED <<logVars, reader>>

StatBehind(for) ==
    /\ MayRead(for) /\ present /\ Len(Current) # StartOffset
    /\ reader' = [Idle EXCEPT !.stage = "open", !.offset = StartOffset, !.ident = Gen, !.for = for]
    /\ UNCHANGED <<logVars, rows, meta, blank, page>>

\* By now the path may be another file than the one that was measured.
OpenLog ==
    /\ reader.stage = "open" /\ present
    /\ reader' = [reader EXCEPT !.stage = "read", !.gen = Gen]
    /\ UNCHANGED <<logVars, rows, meta, blank, page>>

\* It is gone: the offset is stored as it was computed.
OpenFails ==
    /\ reader.stage = "open" /\ ~present
    /\ meta' = [ident |-> reader.ident, offset |-> reader.offset]
    /\ reader' = Idle /\ page' = PageAfter(reader.for, rows, FALSE)
    /\ UNCHANGED <<logVars, rows, blank>>

UnreadLines == SubSeq(files[reader.gen], reader.offset + 1, Len(files[reader.gen]))

\* A full batch is inserted and committed with the offset behind it.
IngestBatch ==
    /\ reader.stage = "read" /\ Len(UnreadLines) >= Batch
    /\ LET lines == SubSeq(UnreadLines, 1, Batch) IN
       /\ rows' = _insert_rows(rows, lines)
       /\ meta' = [ident |-> reader.ident, offset |-> reader.offset + Batch]
       /\ reader' = [reader EXCEPT !.offset = @ + Batch,
                                   !.fixed = @ \/ \E row \in rows' \ rows : row.fixed]
    /\ UNCHANGED <<logVars, blank, page>>

\* The rest of the file; then retention, and the answer.
IngestRest ==
    /\ reader.stage = "read" /\ Len(UnreadLines) < Batch
    /\ LET filled == _insert_rows(rows, UnreadLines)
           fixed == reader.fixed \/ \E row \in filled \ rows : row.fixed IN
       /\ rows' = _trim(filled)
       /\ meta' = [ident |-> reader.ident,
                   offset |-> IF reader.offset > Len(files[reader.gen]) THEN reader.offset
                              ELSE Len(files[reader.gen])]
       /\ reader' = Idle /\ page' = PageAfter(reader.for, rows', fixed)
    /\ UNCHANGED <<logVars, blank>>

------------------------------------------------------------------------------
(* The environment.                                                        *)

\* The schema of the index changed: it is emptied with its offset, not with its identity.
Rebuild ==
    /\ reader = Idle /\ rows # {}
    /\ rows' = {} /\ meta' = [meta EXCEPT !.offset = 0]
    /\ page' = [page EXCEPT !.reused = TRUE]
    /\ UNCHANGED <<logVars, reader, blank>>

\* The service dies: an append may leave a fragment, and a transaction is undone.
Crash ==
    /\ writer # NoLine \/ reader # Idle
    /\ frag' \in IF writer # NoLine /\ writer[1] = "write" THEN {frag, TRUE} ELSE {frag}
    /\ writer' = NoLine /\ reader' = Idle
    /\ UNCHANGED <<clock, files, present, logged, corrected, rows, meta, blank, page>>

ClockTicks ==
    /\ clock < MaxTime /\ clock' = clock + 1
    /\ UNCHANGED <<files, present, frag, writer, logged, corrected, indexVars, page>>

RequestLogInit ==
    /\ clock = 0 /\ files = << <<>> >> /\ present = FALSE /\ frag = FALSE /\ writer = NoLine
    /\ logged = {} /\ corrected = {}
    /\ rows = {} /\ meta = [ident |-> 0, offset |-> 0] /\ reader = Idle /\ blank = {}
    /\ page = [cursor |-> 0, shows |-> {}, reload |-> TRUE, reused |-> FALSE]

RequestLogNext ==
    \/ \E r \in Requests : AppendRoute(r) \/ AppendCorrection(r)
    \/ open_private_append \/ WriteLine
    \/ \E for \in Reads : NoLog(for) \/ StatQuiet(for) \/ StatBehind(for)
    \/ OpenLog \/ OpenFails \/ IngestBatch \/ IngestRest
    \/ Rebuild \/ Crash \/ ClockTicks

RequestLogSpec == RequestLogInit /\ [][RequestLogNext]_requestLogVars

------------------------------------------------------------------------------
(* Properties.                                                             *)

Young(line) == line.at + MaxAge >= clock
Least(a, b) == IF a < b THEN a ELSE b
Passed == {Current[k] : k \in 1..Least(meta.offset, Len(Current))}

\* What the index has passed over in the log it follows is in it, unless its age or the cap took it.
PassedIsIndexed ==
    meta.ident = Gen =>
        \A line \in Passed :
            line.kind = "route" /\ Young(line) /\ Cardinality(rows) < MaxRows => RowOf(rows, line.id) # {}

\* The same, unless a catch-up had found that log new and empty.
PassedIsIndexedElsewhere == Gen \notin blank => PassedIsIndexed

\* A request whose answer was not delivered is never counted as delivered once its correction was
\* read, whatever is read again afterwards.
CorrectionStands ==
    meta.ident = Gen /\ Gen \notin blank =>
        \A line \in Passed : line.kind = "correction" =>
            \A row \in RowOf(rows, line.id) : row.reason = "client_disconnected"

\* A page that has followed the tail shows every row behind its cursor as the index has it, or has
\* been told to load the list again.
PageInStep ==
    ~page.reload /\ ~page.reused =>
        \A row \in rows : row.rowid <= page.cursor => <<row.id, row.reason>> \in page.shows

\* The index says of every request it has passed what the log says of it: its row is there, and
\* a request whose answer did not arrive stays undelivered; and a page that follows the tail misses
\* no row and no correction behind its cursor (request_log.py, _catch_up, tail).
IndexIsFaithful == PassedIsIndexedElsewhere /\ CorrectionStands /\ PageInStep
==============================================================================
