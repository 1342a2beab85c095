------------------------------ MODULE LogShipper ------------------------------
(***************************************************************************)
(* Log shipping on the agent (internal/agent/logs): a FileTailer follows a  *)
(* file that is appended to, rotated and truncated under it, a              *)
(* JournaldReader follows the journal through a journalctl process, both    *)
(* emit into one bounded queue behind a rate limit, and batchLoop sends     *)
(* batches until the context ends.                                          *)
(* A line of the file is written in two pieces, <<n, 1>> and <<n, 2>>; the  *)
(* second one holds the newline.  Levels and texts are left out.            *)
(***************************************************************************)
EXTENDS Naturals, Sequences, FiniteSets, SequencesExt

CONSTANTS
    MaxLines,     \* bound: lines written to the file
    MaxJournal,   \* bound: lines of the journal
    MaxInodes,    \* bound: files that are at the path one after the other
    RawQueueSize, \* rawQueueSize (2000)
    MaxBatchSize, \* maxBatchSize (200)
    MaxPerWindow, \* log_max_lines_per_sec
    LogRegimes    \* sets of configured sources ("file", "journald") and of disturbances: the
                  \* file may be "rotate"d, "truncate"d between two polls or at any moment
                  \* ("torn"), journalctl may "end", the agent may "stop"

VARIABLES
    content,      \* inode |-> the pieces in it
    path,         \* the inode at the tailed path, 0 when there is none
    writing,      \* the next piece to be written
    tail,         \* tailState and where Run stands
    journal,      \* length of the journal
    reader,       \* JournaldReader: its position, or 0 when journalctl does not run
    raw, buf,     \* the queue and batchLoop's buffer
    window,       \* windowCount
    dropped,      \* the counter of lines not queued
    shipped, reported,  \* what send was given: entries, and the sum of Dropped
    emitted,      \* calls of emit so far
    batcher,      \* batchLoop: "run", "drain" or "ended"
    stopped,      \* the context has ended
    owed,         \* entries queued or buffered, lines dropped, when it ended
    logMay        \* the disturbances that may happen

fileVars == <<content, path, writing>>
queueVars == <<raw, window, dropped, emitted>>
batchVars == <<buf, shipped, reported, batcher>>
logVars == <<fileVars, tail, journal, reader, queueVars, batchVars, stopped, owed, logMay>>

ASSUME LogAssumption ==
    /\ MaxLines \in Nat /\ MaxJournal \in Nat /\ MaxInodes \in Nat \ {0}
    /\ RawQueueSize \in Nat \ {0} /\ MaxBatchSize \in Nat \ {0} /\ MaxPerWindow \in Nat

Inode == 1..MaxInodes
Piece == (1..MaxLines) \X {1, 2}

Closed == [pc |-> "wait", ino |-> 0, offset |-> 0, size |-> 0, pending |-> <<>>]

\* Run opens the file at its end; a line may be half written.
Opened(i, from) ==
    [pc |-> "wait", ino |-> i, offset |-> from, size |-> Len(content[i]), pending |-> <<>>]

LogInit(regimes) ==
    /\ content = [i \in Inode |-> <<>>] /\ path = 1 /\ writing = <<1, 1>>
    /\ tail = Closed /\ journal = 0 /\ reader = 0
    /\ raw = <<>> /\ buf = <<>> /\ window = 0 /\ dropped = 0
    /\ shipped = <<>> /\ reported = 0 /\ emitted = 0
    /\ batcher = "run" /\ stopped = FALSE /\ owed = [entries |-> <<>>, lines |-> 0]
    /\ logMay \in regimes

-----------------------------------------------------------------------------
\* The program that writes the log, and what logrotate does between two lines.
Write ==
    /\ "file" \in logMay /\ path # 0 /\ writing[1] <= MaxLines
    /\ content' = [content EXCEPT ![path] = Append(@, writing)]
    /\ writing' = IF writing[2] = 1 THEN <<writing[1], 2>> ELSE <<writing[1] + 1, 1>>
    /\ UNCHANGED <<path, tail, journal, reader, queueVars, batchVars, stopped, owed, logMay>>

BetweenLines == writing[2] = 1

\* An inode after the ones used so far.
NextInode == 1 + Cardinality({i \in Inode : content[i] # <<>>})

\* rename, then create.
RotateAway ==
    /\ "rotate" \in logMay /\ BetweenLines /\ path # 0 /\ path < MaxInodes /\ content[path] # <<>>
    /\ path' = 0
    /\ UNCHANGED <<content, writing, tail, journal, reader, queueVars, batchVars, stopped, owed, logMay>>

Recreate ==
    /\ path = 0 /\ path' = NextInode
    /\ UNCHANGED <<content, writing, tail, journal, reader, queueVars, batchVars, stopped, owed, logMay>>

TruncateFile ==
    /\ "torn" \in logMay \/ ("truncate" \in logMay /\ tail.pc = "wait")
    /\ BetweenLines /\ path # 0 /\ content[path] # <<>>
    /\ content' = [content EXCEPT ![path] = <<>>]
    /\ UNCHANGED <<path, writing, tail, journal, reader, queueVars, batchVars, stopped, owed, logMay>>

-----------------------------------------------------------------------------

\* reopenFromStart: nothing more is read through the old handle.
reopenFromStart(i) == Opened(i, 0)

\* Mutant: a file that has not grown counts as truncated.
MutantShrunk == Len(content[path]) <= tail.size

\* Truncation: same inode, but shorter than at the last poll.
Shrunk == Len(content[path]) < tail.size

\* A poll: the path is opened at its end if nothing is open; a different inode or a
\* smaller size starts over; a path with nothing there is passed by.
Poll ==
    /\ "file" \in logMay /\ tail.pc = "wait" /\ ~stopped
    /\ \/ tail.ino = 0 /\ path # 0 /\ tail' = Opened(path, Len(content[path]))
       \/ /\ tail.ino # 0 /\ path # 0
          /\ path # tail.ino \/ Shrunk
          /\ tail' = reopenFromStart(path)
       \/ /\ tail.ino # 0 /\ path = tail.ino /\ ~Shrunk
          /\ tail' = [tail EXCEPT !.pc = "read", !.size = Len(content[path])]
    /\ UNCHANGED <<fileVars, journal, reader, queueVars, batchVars, stopped, owed, logMay>>

\* drainNewLines keeps what follows the last newline for the next poll.
Drained(new) == tail.pending \o new

\* drainNewLines reads to the end of the open file, which may have changed since
\* the stat.
ReadFile ==
    /\ tail.pc = "read"
    /\ LET file == content[tail.ino]
           new == SubSeq(file, tail.offset + 1, Len(file)) IN
       tail' = [tail EXCEPT !.pc = "emit", !.pending = Drained(new),
                            !.offset = IF @ < Len(file) THEN Len(file) ELSE @]
    /\ UNCHANGED <<fileVars, journal, reader, queueVars, batchVars, stopped, owed, logMay>>

\* Mutant: a line that does not fit is not counted.
MutantQueued(e) ==
    IF Len(raw) < RawQueueSize THEN raw' = Append(raw, e) /\ UNCHANGED dropped
    ELSE UNCHANGED <<raw, dropped>>

\* The send into the channel that does not block.
Queued(e) ==
    IF Len(raw) < RawQueueSize THEN raw' = Append(raw, e) /\ UNCHANGED dropped
    ELSE dropped' = dropped + 1 /\ UNCHANGED raw

\* emitFunc and allow: a second may have passed, then the window starts anew;
\* without a limit every line is allowed.
Emit(e) ==
    /\ emitted' = emitted + 1
    /\ \E count \in {0, window} :
         IF MaxPerWindow > 0 /\ count >= MaxPerWindow
         THEN window' = count /\ dropped' = dropped + 1 /\ UNCHANGED raw
         ELSE /\ window' = IF MaxPerWindow > 0 THEN count + 1 ELSE 0
              /\ Queued(e)

\* The first complete line of pending, of at most the two pieces of a line unless
\* pieces of several lines were joined.
FirstLine(p) ==
    IF \E k \in 1..Len(p) : p[k][2] = 2
    THEN CHOOSE k \in 1..Len(p) : p[k][2] = 2 /\ \A l \in 1..(k - 1) : p[l][2] # 2
    ELSE 0

\* drainNewLines emits its complete lines one after the other.
EmitLine ==
    /\ tail.pc = "emit"
    /\ LET k == FirstLine(tail.pending) IN
       IF k = 0
       THEN tail' = [tail EXCEPT !.pc = "wait"] /\ UNCHANGED queueVars
       ELSE /\ Emit(<<"file", SubSeq(tail.pending, 1, k)>>)
            /\ tail' = [tail EXCEPT !.pending = SubSeq(@, k + 1, Len(@))]
    /\ UNCHANGED <<fileVars, journal, reader, batchVars, stopped, owed, logMay>>

-----------------------------------------------------------------------------
JournalWrite ==
    /\ "journald" \in logMay /\ journal < MaxJournal /\ journal' = journal + 1
    /\ UNCHANGED <<fileVars, tail, reader, queueVars, batchVars, stopped, owed, logMay>>

\* journalctl --since now: runSource starts it, and again after it ended.
JournalStart ==
    /\ "journald" \in logMay /\ reader = 0 /\ ~stopped
    /\ reader' = journal + 1
    /\ UNCHANGED <<fileVars, tail, journal, queueVars, batchVars, stopped, owed, logMay>>

\* A line is decoded and emitted; the context is looked at between two lines, so
\* one line may still be emitted after its end.
JournalLine ==
    /\ reader \in 1..journal
    /\ Emit(<<"journald", reader>>)
    /\ reader' = reader + 1
    /\ UNCHANGED <<fileVars, tail, journal, batchVars, stopped, owed, logMay>>

\* A line that does not parse is skipped.
JournalSkip ==
    /\ "end" \in logMay /\ reader \in 1..journal
    /\ reader' = reader + 1
    /\ UNCHANGED <<fileVars, tail, journal, queueVars, batchVars, stopped, owed, logMay>>

\* journalctl ends, a line exceeds the scanner's buffer, or the context has ended.
JournalEnds ==
    /\ reader # 0 /\ ("end" \in logMay \/ stopped)
    /\ reader' = 0
    /\ UNCHANGED <<fileVars, tail, journal, queueVars, batchVars, stopped, owed, logMay>>

-----------------------------------------------------------------------------
\* flush: the buffer and the counter go out together.
Flush(b) ==
    /\ shipped' = shipped \o b /\ reported' = reported + dropped
    /\ buf' = <<>>

\* An entry is taken from the queue; a full buffer is flushed.
Take ==
    /\ batcher = "run" /\ raw # <<>>
    /\ raw' = Tail(raw)
    /\ LET b == Append(buf, Head(raw)) IN
       IF Len(b) >= MaxBatchSize
       THEN Flush(b) /\ dropped' = 0
       ELSE buf' = b /\ UNCHANGED <<shipped, reported, dropped>>
    /\ UNCHANGED <<fileVars, tail, journal, reader, window, emitted, batcher, stopped, owed, logMay>>

\* The ticker's flush.
FlushTick ==
    /\ batcher = "run" /\ (buf # <<>> \/ dropped > 0)
    /\ Flush(buf) /\ dropped' = 0
    /\ UNCHANGED <<fileVars, tail, journal, reader, raw, window, emitted, batcher, stopped, owed, logMay>>

\* The context ends.
Cancel ==
    /\ "stop" \in logMay /\ ~stopped
    /\ stopped' = TRUE /\ owed' = [entries |-> buf \o raw, lines |-> reported + dropped]
    /\ UNCHANGED <<fileVars, tail, journal, reader, queueVars, batchVars, logMay>>

\* batchLoop sees the end, empties the queue and flushes once more.
StartDrain ==
    /\ batcher = "run" /\ stopped /\ batcher' = "drain"
    /\ UNCHANGED <<fileVars, tail, journal, reader, queueVars, buf, shipped, reported, stopped, owed, logMay>>

Drain ==
    /\ batcher = "drain"
    /\ IF raw # <<>>
       THEN /\ raw' = Tail(raw) /\ buf' = Append(buf, Head(raw))
            /\ UNCHANGED <<shipped, reported, dropped, batcher>>
       ELSE Flush(buf) /\ dropped' = 0 /\ batcher' = "ended" /\ UNCHANGED raw
    /\ UNCHANGED <<fileVars, tail, journal, reader, window, emitted, stopped, owed, logMay>>

TailerStep == Poll \/ ReadFile \/ EmitLine
JournalStep == JournalStart \/ JournalLine \/ JournalSkip \/ JournalEnds
BatchStep == Take \/ FlushTick \/ StartDrain \/ Drain
LogWorld == Write \/ RotateAway \/ Recreate \/ TruncateFile \/ JournalWrite \/ Cancel

LogNext == TailerStep \/ JournalStep \/ BatchStep \/ LogWorld

\* The goroutines of Run; the select of batchLoop is fair to
\* its cases.
LogFairness ==
    /\ WF_logVars(TailerStep) /\ WF_logVars(JournalStep)
    /\ WF_logVars(Take) /\ WF_logVars(FlushTick)
    /\ SF_logVars(StartDrain) /\ WF_logVars(Drain)
    /\ WF_logVars(Recreate) /\ WF_logVars(Write)

LogSpec == LogInit(LogRegimes) /\ [][LogNext]_logVars /\ LogFairness

-----------------------------------------------------------------------------
\* Entries that left emit, in the order in which batchLoop has or will have them.
Entries == shipped \o buf \o raw
From(source) == {k \in DOMAIN Entries : Entries[k][1] = source}

\* No entry joins pieces of two lines, across polls that end in the middle of a
\* line, rotations and restarts of the tailer (pending, file.go:162).  The
\* first one may be half a line, when the tailer started in the middle of it; a
\* truncation the size does not give away is the exception.
NoSplicedLine ==
    logMay \intersect {"truncate", "torn"} = {} =>
        \A k \in From("file") : \E n \in 1..MaxLines :
            \/ Entries[k][2] = << <<n, 1>>, <<n, 2>> >>
            \/ Entries[k][2] = << <<n, 2>> >> /\ \A l \in From("file") : k <= l

\* Lines are shipped in the order they were written and none twice, whatever is
\* rotated, truncated or restarted (reopenFromStart, file.go:141).  A truncation
\* between a poll's stat and its read is the exception: the next poll compares
\* with the larger size and reads the new lines again.
ShippedInOrder ==
    /\ "torn" \notin logMay => \A k, l \in From("file") :
                                 l < k => Last(Entries[l][2])[1] < Last(Entries[k][2])[1]
    /\ \A k, l \in From("journald") : l < k => Entries[l][2] < Entries[k][2]

\* Lines are shipped whole and in order.
ShippedIntact == NoSplicedLine /\ ShippedInOrder

\* Every line emitted is queued, buffered, sent or counted as dropped, until the
\* batches end (manager.go:169 and 213).
EveryLineAccounted == emitted = Len(Entries) + reported + dropped

\* manager.go:207: "nothing buffered is silently lost on shutdown": what had been
\* queued or counted when the context ended is sent before batchLoop returns.
DrainedOnStop ==
    batcher = "ended" => /\ \A k \in DOMAIN owed.entries :
                              \E l \in DOMAIN shipped : shipped[l] = owed.entries[k]
                         /\ reported >= owed.lines

\* No line is lost without being counted, nor at the end.
NothingLostUnseen == EveryLineAccounted /\ DrainedOnStop

\* Without rotations or truncations, every line completed after the tailer opened
\* the file is emitted, and everything emitted is sent or counted, unless stopped.
TailerKeepsUp ==
    "file" \in logMay /\ logMay \intersect {"rotate", "truncate", "torn", "stop"} = {} =>
        <>[](/\ tail.ino = 1 /\ tail.offset = Len(content[1]) /\ tail.pending = <<>>
             /\ raw = <<>> /\ buf = <<>> /\ dropped = 0)
=============================================================================
