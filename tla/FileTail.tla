------------------------------- MODULE FileTail -------------------------------
(***************************************************************************)
(* How src/FileWatcher.hpp follows one log file on Linux: where it starts, *)
(* when it looks, what it reads, and how it notices that the file was      *)
(* truncated.  Another process writes the file at any time.                *)
(*                                                                         *)
(* A file is a sequence of pieces; a line is written in one piece or in    *)
(* more, of which the last has the newline.  Empty lines are left out.     *)
(* The push into the ring buffer always succeeds here: Pipeline has the    *)
(* retries and the stop in the middle of them.  A rotation that renames    *)
(* the file is left out: the stream and the watch stay with the old one.   *)
(***************************************************************************)
EXTENDS Integers, Sequences

CONSTANTS
    MaxPieces,  \* bound: how many pieces are written
    MaxCuts     \* bound: how often the file is truncated

ASSUME TailAssumption == MaxPieces \in Nat /\ MaxCuts \in Nat

VARIABLES
    file,       \* the pieces in the file
    exists,     \* it can be found under its path
    written,    \* how many pieces were ever written
    cuts,       \* how often it was truncated
    stop_flag,  \* stop_flag_
    at,         \* where the watcher thread is
    pos,        \* last_pos; during a read the position up to which the stream has read
    last_size,
    buf,        \* the pieces which the stream has read and getline has not taken
    watched,    \* the inotify watch is set
    pending,    \* an inotify event waits to be read
    pushed,     \* history: the entries that were pushed, each a sequence of pieces
    first,      \* history: how many pieces were written when the watcher opened the file
    looked,     \* history: read_new_lines has returned once
    cut,        \* history: the file was truncated since its size was last looked at
    racy,       \* history: a truncation came in the middle of a read, or the file had
                \* grown again before its size was looked at
    skipped     \* history: the pieces written after a read had met the end and before it
                \* sought the end

fileVars == <<file, exists, written, cuts>>
readVars == <<pos, last_size, buf>>
tailHistories == <<pushed, first, looked, cut, racy, skipped>>
tailVars == <<fileVars, stop_flag, at, readVars, watched, pending, tailHistories>>

Piece == [no : 1..MaxPieces, end : BOOLEAN]

\* main creates the file unless it is there, which may fail.
TailInit ==
    /\ file = <<>> /\ exists \in BOOLEAN /\ written = 0 /\ cuts = 0
    /\ stop_flag = FALSE
    /\ at = "open"
    /\ pos = 0 /\ last_size = 0 /\ buf = <<>>
    /\ watched = FALSE /\ pending = FALSE
    /\ pushed = <<>> /\ first = 0 /\ looked = FALSE
    /\ cut = FALSE /\ racy = FALSE /\ skipped = {}

-----------------------------------------------------------------------------
(* The process that writes the file *)

\* Every change of a watched file leaves an event.
Notify == pending' = (pending \/ watched)

AppendPiece(end) ==
    /\ exists /\ written < MaxPieces
    /\ written' = written + 1
    /\ file' = Append(file, [no |-> written + 1, end |-> end])
    /\ Notify
    /\ skipped' = IF at = "eof" THEN skipped \cup {written + 1} ELSE skipped
    /\ UNCHANGED <<exists, cuts, stop_flag, at, readVars, watched,
                   pushed, first, looked, cut, racy>>

Truncate ==
    /\ exists /\ file # <<>> /\ cuts < MaxCuts
    /\ cuts' = cuts + 1
    /\ file' = <<>>
    /\ Notify
    /\ cut' = TRUE
    /\ racy' = (racy \/ at \in {"getline", "eof"})
    /\ UNCHANGED <<exists, written, stop_flag, at, readVars, watched,
                   pushed, first, looked, skipped>>

\* The file is removed, or made if it was not there when the watcher came to open it.
Remove ==
    /\ exists /\ at # "open" /\ exists' = FALSE
    /\ UNCHANGED <<file, written, cuts, stop_flag, at, readVars, watched, pending, tailHistories>>

Make ==
    /\ ~exists /\ at = "open" /\ exists' = TRUE
    /\ UNCHANGED <<file, written, cuts, stop_flag, at, readVars, watched, pending, tailHistories>>

Signal ==
    /\ ~stop_flag /\ stop_flag' = TRUE
    /\ UNCHANGED <<fileVars, at, readVars, watched, pending, tailHistories>>

-----------------------------------------------------------------------------
(* run *)

\* The file is opened, and its end becomes the position.
Open ==
    /\ at = "open" /\ exists
    /\ at' = "size"
    /\ pos' = Len(file)
    /\ first' = written /\ cut' = FALSE
    /\ UNCHANGED <<fileVars, stop_flag, last_size, buf, watched, pending,
                   pushed, looked, racy, skipped>>

\* wait_for_file looks for the file every 500 ms until it is told to stop.
WaitForFile ==
    /\ at = "open" /\ ~exists /\ stop_flag
    /\ at' = "ended"
    /\ UNCHANGED <<fileVars, stop_flag, readVars, watched, pending, tailHistories>>

\* The file is there, or was just now, but cannot be opened: the watcher gives up.
OpenFails ==
    /\ at = "open" /\ exists
    /\ at' = "ended"
    /\ UNCHANGED <<fileVars, stop_flag, readVars, watched, pending, tailHistories>>

\* file_size throws when the file is gone, and nobody catches: the program ends.
NoFile ==
    /\ at \in {"size", "check"} /\ ~exists
    /\ at' = "terminated"
    /\ UNCHANGED <<fileVars, stop_flag, readVars, watched, pending, tailHistories>>

FirstSize ==
    /\ at = "size" /\ exists
    /\ last_size' = Len(file)
    /\ at' = "watch"
    /\ UNCHANGED <<fileVars, stop_flag, pos, buf, watched, pending, tailHistories>>

\* inotify_add_watch fails when the file is gone, and the watcher gives up.
AddWatch ==
    /\ at = "watch"
    /\ at' = IF exists THEN "wait" ELSE "ended"
    /\ watched' = exists
    /\ UNCHANGED <<fileVars, stop_flag, readVars, pending, tailHistories>>

\* The loop looks at the stop flag at least every 200 ms.
SeeStop ==
    /\ at = "wait" /\ stop_flag
    /\ at' = "ended"
    /\ UNCHANGED <<fileVars, stop_flag, readVars, watched, pending, tailHistories>>

\* select returns: all events are read, and then the file.
Drain ==
    /\ at = "wait" /\ pending
    /\ pending' = FALSE
    /\ at' = "check"
    /\ UNCHANGED <<fileVars, stop_flag, readVars, watched, tailHistories>>

-----------------------------------------------------------------------------
(* read_new_lines *)

\* Mutant: a file of the same size counts as truncated.
CheckSizeOrSame ==
    /\ at = "check" /\ exists
    /\ pos' = IF Len(file) <= last_size THEN 0 ELSE pos
    /\ last_size' = Len(file)
    /\ buf' = <<>>
    /\ at' = "getline"
    /\ cut' = FALSE
    /\ racy' = (racy \/ (cut /\ Len(file) >= last_size))
    /\ UNCHANGED <<fileVars, stop_flag, watched, pending, pushed, first, looked, skipped>>

\* The size is compared with the last one; the stream goes to the position.
CheckSize ==
    /\ at = "check" /\ exists
    /\ pos' = IF Len(file) < last_size THEN 0 ELSE pos
    /\ last_size' = Len(file)
    /\ buf' = <<>>
    /\ at' = "getline"
    /\ cut' = FALSE
    /\ racy' = (racy \/ (cut /\ Len(file) >= last_size))
    /\ UNCHANGED <<fileVars, stop_flag, watched, pending, pushed, first, looked, skipped>>

HasLine == \E n \in DOMAIN buf : buf[n].end

\* Where the first line in the buffer ends.
LineEnd == CHOOSE n \in DOMAIN buf : buf[n].end /\ \A m \in 1..(n - 1) : ~buf[m].end

\* getline finds a newline in the buffer; the line is pushed.
GetLine ==
    /\ at = "getline" /\ HasLine
    /\ pushed' = Append(pushed, SubSeq(buf, 1, LineEnd))
    /\ buf' = SubSeq(buf, LineEnd + 1, Len(buf))
    /\ UNCHANGED <<fileVars, stop_flag, at, pos, last_size, watched, pending,
                   first, looked, cut, racy, skipped>>

\* ... or finds none, and reads what has come in the meantime ...
Underflow ==
    /\ at = "getline" /\ ~HasLine
    /\ Len(file) > pos
    /\ buf' = buf \o SubSeq(file, pos + 1, Len(file))
    /\ pos' = Len(file)
    /\ UNCHANGED <<fileVars, stop_flag, at, last_size, watched, pending, tailHistories>>

\* Mutant: what has no newline yet is dropped.
MeetEndDrops ==
    /\ at = "getline" /\ ~HasLine
    /\ Len(file) <= pos
    /\ buf' = <<>>
    /\ at' = "eof"
    /\ UNCHANGED <<fileVars, stop_flag, pos, last_size, watched, pending, tailHistories>>

\* ... or meets the end: a line without a newline is pushed as it is.
MeetEnd ==
    /\ at = "getline" /\ ~HasLine
    /\ Len(file) <= pos
    /\ pushed' = IF buf = <<>> THEN pushed ELSE Append(pushed, buf)
    /\ buf' = <<>>
    /\ at' = "eof"
    /\ UNCHANGED <<fileVars, stop_flag, pos, last_size, watched, pending,
                   first, looked, cut, racy, skipped>>

\* tellg fails at the end of a file; the end, wherever it is by now, is the position.
SeekEnd ==
    /\ at = "eof"
    /\ pos' = Len(file)
    /\ at' = "wait"
    /\ looked' = TRUE
    /\ UNCHANGED <<fileVars, stop_flag, last_size, buf, watched, pending,
                   pushed, first, cut, racy, skipped>>

\* The watcher has ended.
Done ==
    /\ stop_flag /\ at \in {"ended", "terminated"}
    /\ UNCHANGED tailVars

TailNext ==
    \/ (\E end \in BOOLEAN : AppendPiece(end)) \/ Truncate \/ Remove \/ Make \/ Signal
    \/ Open \/ WaitForFile \/ OpenFails \/ NoFile \/ FirstSize \/ AddWatch \/ SeeStop \/ Drain
    \/ CheckSize \/ GetLine \/ Underflow \/ MeetEnd \/ SeekEnd
    \/ Done

TailSpec == TailInit /\ [][TailNext]_tailVars

-----------------------------------------------------------------------------
(* Properties *)

\* The pieces that were pushed.
PushedPieces == UNION {{e[n].no : n \in DOMAIN e} : e \in {pushed[i] : i \in DOMAIN pushed}}

\* The pieces in the file that the watcher is there for.
NewPieces == {file[n].no : n \in DOMAIN file} \ 1..first

\* As long as no truncation was racy, each entry is a line or a part of one, the entries
\* come in the order of the file, nothing is pushed twice and nothing that was there
\* before the watcher.
PushedInOrder ==
    ~racy =>
        /\ \A i \in DOMAIN pushed : LET e == pushed[i] IN
              /\ e[1].no > first
              /\ \A n \in 1..(Len(e) - 1) : ~e[n].end /\ e[n + 1].no = e[n].no + 1
              /\ i > 1 => LET d == pushed[i - 1] IN d[Len(d)].no < e[1].no

\* Once the watcher has looked at the file and no event waits, what was written since it
\* opened the file and is still there has been pushed, but for what was written while a
\* read was going from the end it met to the end it sought.
NothingElseLost ==
    ~racy /\ at = "wait" /\ looked /\ ~pending => NewPieces \subseteq PushedPieces \cup skipped

=============================================================================
