----------------------------- MODULE JsonlTailer -----------------------------
(***************************************************************************)
(* The trace file actions.jsonl: the Android collector's EventStore        *)
(* appends rows to it and may clear it, AndroidJsonlTailer in the daemon   *)
(* polls it by byte offset.                                                *)
(*                                                                         *)
(* The file is a sequence of cells [row, kind], one per byte.  The kinds   *)
(* are the bytes the tailer tells apart: a "brace" opens a row and may     *)
(* occur inside it, "x" is any other text, "lead" and "cont" are the two   *)
(* bytes of a character that is not ASCII, a "newline" ends the row.  Rows *)
(* are numbered in the order they were recorded.                           *)
(***************************************************************************)
EXTENDS Naturals, Sequences, FiniteSets

CONSTANTS
    Shapes,      \* the byte kinds a row may consist of
    MaxRows,     \* bound on the rows recorded
    MaxClears,   \* bound on calls of clear()
    MaxTorn,     \* bound on the rows a killed collector leaves unfinished
    MaxRestarts  \* bound on restarts of the daemon

Kinds == {"brace", "x", "lead", "cont", "newline"}

\* A row is a JSON object on a line of its own.
ASSUME TailerAssumption ==
    /\ \A s \in Shapes :
        /\ s \in Seq(Kinds) /\ Len(s) > 1 /\ s[1] = "brace"
        /\ \A i \in 1..Len(s) : s[i] = "newline" <=> i = Len(s)
    /\ MaxRows \in Nat /\ MaxClears \in Nat /\ MaxTorn \in Nat
    /\ MaxRestarts \in Nat

VARIABLES
    file,       \* content of actions.jsonl
    unwritten,  \* rest of the row being appended
    rows,       \* rows recorded so far
    length,     \* the rows' lengths, by number
    clears, torn,
    tailer,     \* "idle" or "reading", between the length check and the read
    offset,     \* bytes consumed
    partial,    \* partial_line
    restarts,
    since,      \* history: the value of clears when the daemon started
    delivered   \* history: rows whose envelopes poll() returned since then

writerVars == <<file, unwritten, rows, length, clears, torn>>
tailerVars == <<tailer, offset, partial, restarts, since, delivered>>
vars == <<writerVars, tailerVars>>

Init ==
    /\ file = <<>>
    /\ unwritten = <<>>
    /\ rows = 0
    /\ length = <<>>
    /\ clears = 0
    /\ torn = 0
    /\ tailer = "idle"
    /\ offset = 0
    /\ partial = <<>>
    /\ restarts = 0
    /\ since = 0
    /\ delivered = <<>>

-----------------------------------------------------------------------------
(***************************************************************************)
(* EventStore.                                                             *)
(***************************************************************************)

\* append(): a row is recorded under the lock; its bytes reach the file in
\* one or more pieces.
Append1 ==
    /\ unwritten = <<>>
    /\ rows < MaxRows
    /\ \E s \in Shapes :
        /\ unwritten' = [i \in DOMAIN s |-> [row |-> rows + 1, kind |-> s[i]]]
        /\ length' = Append(length, Len(s))
    /\ rows' = rows + 1
    /\ UNCHANGED <<file, clears, torn, tailerVars>>

WritePiece ==
    /\ unwritten # <<>>
    /\ \E n \in 1..Len(unwritten) :
        /\ file' = file \o SubSeq(unwritten, 1, n)
        /\ unwritten' = SubSeq(unwritten, n + 1, Len(unwritten))
    /\ UNCHANGED <<rows, length, clears, torn, tailerVars>>

\* The collector is killed inside an append.
Killed ==
    /\ unwritten # <<>>
    /\ torn < MaxTorn
    /\ torn' = torn + 1
    /\ unwritten' = <<>>
    /\ UNCHANGED <<file, rows, length, clears, tailerVars>>

\* clear(): writeText("") truncates the file, under the lock.
Clear ==
    /\ unwritten = <<>>
    /\ file # <<>>
    /\ clears < MaxClears
    /\ clears' = clears + 1
    /\ file' = <<>>
    /\ UNCHANGED <<unwritten, rows, length, torn, tailerVars>>

-----------------------------------------------------------------------------
(***************************************************************************)
(* AndroidJsonlTailer.                                                     *)
(***************************************************************************)

From(n) == SubSeq(file, n + 1, Len(file))

\* read_to_string accepts valid UTF-8 only.
ValidUtf8(s) ==
    /\ \A i \in DOMAIN s : s[i].kind = "lead" => i < Len(s) /\ s[i + 1].kind = "cont"
    /\ \A i \in DOMAIN s : s[i].kind = "cont" => i > 1 /\ s[i - 1].kind = "lead"

\* The first character that is not white space, if there is one, is not a brace.
StartsInside(chunk) ==
    \E i \in DOMAIN chunk :
        /\ chunk[i].kind \notin {"newline", "brace"}
        /\ \A j \in 1..(i - 1) : chunk[j].kind = "newline"

\* Defect variant: the partial line held back is forgotten about.
ShouldRewind_PartialIgnored(chunk) == offset # 0 /\ StartsInside(chunk)

\* should_rewind_after_chunk_read: at a row boundary a row must begin.
ShouldRewind(chunk) == offset # 0 /\ partial = <<>> /\ StartsInside(chunk)

\* The positions of the newlines, the lines they end, and what is left over.
Newlines(s) == {i \in DOMAIN s : s[i].kind = "newline"}
LastNewline(s) ==
    IF Newlines(s) = {} THEN 0
    ELSE CHOOSE i \in Newlines(s) : \A j \in Newlines(s) : j <= i
LineEndingAt(s, i) ==
    LET before == {j \in Newlines(s) : j < i}
        start == IF before = {} THEN 1
                 ELSE 1 + CHOOSE j \in before : \A k \in before : k <= j
    IN  SubSeq(s, start, i)

\* The newlines of the lines that are not empty: empty ones are skipped.
LineEnds(s) == {i \in Newlines(s) : Len(LineEndingAt(s, i)) > 1}

\* parse_line succeeds on exactly the bytes of one row.
IsRow(line) ==
    /\ \A i \in DOMAIN line : line[i].row = line[1].row
    /\ Len(line) = length[line[1].row]

\* The rows of the complete lines, in order.
Nth(ends, n) == CHOOSE i \in ends : Cardinality({j \in ends : j <= i}) = n
RowsOf(s) ==
    [n \in 1..Cardinality(LineEnds(s)) |-> s[Nth(LineEnds(s), n)].row]

\* poll(), first half: open the file and compare its length.
CheckLength ==
    /\ tailer = "idle"
    /\ IF Len(file) < offset
       THEN offset' = 0 /\ partial' = <<>>
       ELSE UNCHANGED <<offset, partial>>
    /\ tailer' = "reading"
    /\ UNCHANGED <<writerVars, restarts, since, delivered>>

\* Defect variant: the tail of a chunk is dropped, not kept for the next one.
TakeLines_TailDropped(held, chunk) ==
    LET s == held \o chunk IN
    [lines |-> SubSeq(s, 1, LastNewline(s)), rest |-> <<>>]

\* take_complete_lines: whole lines, and the partial line that follows them.
TakeLines(held, chunk) ==
    LET s == held \o chunk IN
    [lines |-> SubSeq(s, 1, LastNewline(s)),
     rest |-> SubSeq(s, LastNewline(s) + 1, Len(s))]

\* poll(), second half: read from the offset, or from the start once more;
\* split into lines, parse.  A chunk that is not UTF-8 leaves the offset where
\* it was; a line that does not parse costs the whole chunk, its offset already
\* consumed.  The rewound read is taken with the first one: what is appended
\* between the two is as well appended before both.
AfterRead(first) ==
    LET rewind == ValidUtf8(first) /\ ShouldRewind(first)
        chunk == IF rewind THEN file ELSE first
        taken == TakeLines(IF rewind THEN <<>> ELSE partial, chunk)
        parsed == \A i \in LineEnds(taken.lines) : IsRow(LineEndingAt(taken.lines, i))
    IN  CASE ~ValidUtf8(first) ->
               [offset |-> offset, partial |-> partial, rows |-> <<>>]
          [] rewind /\ ~ValidUtf8(file) ->
               [offset |-> 0, partial |-> <<>>, rows |-> <<>>]
          [] ValidUtf8(first) /\ chunk = <<>> ->
               [offset |-> offset, partial |-> partial, rows |-> <<>>]
          [] OTHER ->
               [offset |-> Len(chunk) + (IF rewind THEN 0 ELSE offset),
                partial |-> taken.rest,
                rows |-> IF parsed THEN RowsOf(taken.lines) ELSE <<>>]

ReadChunk ==
    /\ tailer = "reading"
    /\ tailer' = "idle"
    /\ \E after \in {AfterRead(From(offset))} :
        /\ offset' = after.offset
        /\ partial' = after.partial
        /\ delivered' = delivered \o after.rows
    /\ UNCHANGED <<writerVars, restarts, since>>

\* The daemon ends and starts again: new() knows neither the offset nor the
\* partial line of the tailer before it.
Restart ==
    /\ restarts < MaxRestarts
    /\ restarts' = restarts + 1
    /\ tailer' = "idle"
    /\ offset' = 0
    /\ partial' = <<>>
    /\ since' = clears
    /\ delivered' = <<>>
    /\ UNCHANGED writerVars

Next ==
    Append1 \/ WritePiece \/ Killed \/ Clear \/ CheckLength \/ ReadChunk \/ Restart

Spec == Init /\ [][Next]_vars

\* An append that is not killed ends, and the collection loop polls for ever.
\* The two halves of a poll alternate and are always possible, so that both
\* recur says the same as weak fairness of each.
FairSpec ==
    /\ Spec
    /\ WF_vars(WritePiece)
    /\ []<>(tailer = "reading")
    /\ []<>(tailer = "idle")

-----------------------------------------------------------------------------
(***************************************************************************)
(* Properties.                                                             *)
(***************************************************************************)

\* Between two starts of the daemon no row is delivered twice or out of order,
\* through clears, rewinds and unfinished rows.
InOrderAtMostOnce ==
    \A i, j \in DOMAIN delivered : i < j => delivered[i] < delivered[j]

\* Rows whose last byte lies within the first n bytes of the file.
Complete(n) == {file[i].row : i \in {k \in 1..n : file[k].kind = "newline"}}

\* As long as the file only grows by whole rows, the bytes consumed are
\* accounted for: what lies before the offset is delivered or, for the last
\* row, held as the partial line.  A daemon that starts on a file that is there
\* already, or in the middle of an append, delivers all of its rows anew.
NothingSkipped ==
    (clears = since /\ torn = 0) =>
        /\ offset <= Len(file)
        /\ {delivered[i] : i \in DOMAIN delivered} = Complete(offset)
        /\ partial = SubSeq(file, LastNewline(SubSeq(file, 1, offset)) + 1, offset)

\* A complete row is delivered in the end, although a chunk may be cut inside
\* a row or inside a character and the daemon be restarted, unless the file is
\* cleared or a torn row spoils the chunk.
EveryRowDelivered ==
    \A r \in 1..MaxRows :
        (torn = 0 /\ clears = since /\ r \in Complete(Len(file))) ~>
            \/ \E i \in DOMAIN delivered : delivered[i] = r
            \/ clears > since \/ torn > 0
=============================================================================
