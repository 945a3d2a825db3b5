------------------------------- MODULE LogTail ------------------------------
(***************************************************************************)
(* log_tail and read_log_tail (crates/mutsuki-service-runtime/src/lib.rs): *)
(* a client follows the log file by handing back the cursor it was given.  *)
(* A file is the sequence of its bytes, of which only the newlines matter, *)
(* and characters of two bytes, of which the file may end with one half.   *)
(* A file that is not there is answered like an empty one.                 *)
(***************************************************************************)
EXTENDS Integers, Sequences, SequencesExt

Newline == 0

Lead == 2       \* the first byte of a character of two

Trail == 3      \* the second

\* BufRead::read_line from offset: up to and with the newline, or the end.
LineEnd(file, offset) ==
  LET ends == {i \in (offset + 1)..Len(file) : file[i] = Newline}
  IN IF ends = {} THEN Len(file) ELSE CHOOSE i \in ends : \A j \in ends : i <= j

\* The lines from an offset on, as they are read: a last line without its
\* newline is an entry too.
LinesFrom(file, start) ==
  LET ends == {LineEnd(file, o) : o \in start..(Len(file) - 1)}
      At(k) == CHOOSE e \in ends : Cardinality({d \in ends : d < e}) = k - 1
  IN [k \in 1..Cardinality(ends) |->
        [offset |-> IF k = 1 THEN start ELSE At(k - 1), end |-> At(k)]]

\* read_line takes whole characters only: a line that begins or ends with half
\* of one is an error.
Utf8(file, entry) ==
  \A i \in (entry.offset + 1)..entry.end :
    /\ file[i] = Lead => i < entry.end /\ file[i + 1] = Trail
    /\ file[i] = Trail => i > entry.offset + 1 /\ file[i - 1] = Lead

\* read_log_tail: a cursor beyond the file, which was rotated, starts over;
\* of more lines than asked for the last ones are kept; the cursor is behind
\* everything that was read.  An error carries no cursor: the client has the
\* one it asked with.
ReadLogTail(file, cursor, lines) ==
  LET start == IF cursor <= Len(file) THEN cursor ELSE 0
      entries == LinesFrom(file, start)
      kept == IF Len(entries) > lines THEN SubSeq(entries, Len(entries) - lines + 1, Len(entries))
              ELSE entries
  IN IF \E e \in ToSet(entries) : ~Utf8(file, e)
     THEN [failed |-> TRUE, cursor |-> cursor, entries |-> <<>>]
     ELSE [failed |-> FALSE, cursor |-> IF entries = <<>> THEN start ELSE Last(entries).end,
           entries |-> kept]

-----------------------------------------------------------------------------
\* A client that polls a growing file sees every byte of it once, in order:
\* the second poll goes on where the first stopped, even in the middle of a
\* line, or where the first began if that failed on half a character, as long
\* as neither poll met more lines than it asked for.
FollowsFile(files, lines) ==
  \A file \in files : \A n \in 0..Len(file) :
    LET first == ReadLogTail(SubSeq(file, 1, n), 0, lines)
        second == ReadLogTail(file, first.cursor, lines)
        all == first.entries \o second.entries
    IN /\ first.cursor = IF first.failed THEN 0 ELSE n
       /\ ~second.failed =>
            /\ second.cursor = Len(file)
            /\ /\ Len(LinesFrom(SubSeq(file, 1, n), 0)) <= lines
               /\ Len(LinesFrom(file, first.cursor)) <= lines
               => /\ \A k \in 1..(Len(all) - 1) : all[k].end = all[k + 1].offset
                  /\ all # <<>> => all[1].offset = 0 /\ Last(all).end = Len(file)
       /\ \A e \in ToSet(all) : \A i \in (e.offset + 1)..(e.end - 1) : file[i] # Newline
=============================================================================
