------------------------------- MODULE Logger -------------------------------
(***************************************************************************)
(* The report: Logger's screen and file, for runs of the program that      *)
(* follow one another on one machine.                                      *)
(*                                                                         *)
(* A call prints on the screen, then writes to the file through stdio,     *)
(* then flushes; the process may die between any two of these.  A flushed  *)
(* entry is with the kernel (`files`) and outlives the process.            *)
(* Texts are left out: an entry is the kind of call that made it.          *)
(***************************************************************************)
EXTENDS Naturals, Sequences

CONSTANTS
    Times,             \* what the local time, to the second, can read
    MaxCalls,          \* bound on the calls of a run
    MaxRuns            \* bound on the runs

ASSUME LoggerAssumption == MaxCalls \in Nat /\ MaxRuns \in Nat

VARIABLES
    run,               \* number of the current or last run
    pc,                \* "ended", "ready", or inside a call: "write", "flush", "return"
    path,              \* path_: the file's name, as long as file_ is not null
    has_file,          \* file_ is not null (when it was last open, after a death)
    progress_open_,
    screen,            \* rows of this run; the last one holds the cursor
    buffer,            \* written to the FILE and not flushed
    files,             \* what the kernel has, for every name
    \* history, read by the properties only
    pending,           \* the entry of the call in progress
    emitted            \* entries of the file from calls that have returned

vars == <<run, pc, path, has_file, progress_open_, screen, buffer,
          files, pending, emitted>>

Init ==
    /\ run = 0 /\ pc = "ended"
    /\ path \in Times /\ has_file = FALSE
    /\ progress_open_ = FALSE /\ screen = << <<>> >> /\ buffer = <<>>
    /\ files = [name \in Times |-> <<>>]
    /\ pending = <<>> /\ emitted = <<>>

-----------------------------------------------------------------------------
(* A new run opens its report: sdc_default_log_path names it after the     *)
(* local time, which may read what it read for an earlier run, and mode    *)
(* "w" empties what has that name.                                         *)
Open(time, opened) ==
    /\ pc = "ended" /\ run < MaxRuns
    /\ run' = run + 1
    /\ pc' = "ready"
    /\ path' = time
    /\ has_file' = opened
    /\ files' = IF opened THEN [files EXCEPT ![time] = <<>>] ELSE files
    /\ progress_open_' = FALSE /\ screen' = << <<>> >> /\ buffer' = <<>>
    /\ pending' = <<>> /\ emitted' = <<>>

(* The terminal: text goes where the cursor is, a return goes back to the  *)
(* start of the row and a newline opens the next.                          *)
Text(rows, x) == [rows EXCEPT ![Len(rows)] = Append(@, x)]
Return(rows) == [rows EXCEPT ![Len(rows)] = <<>>]
Newline(rows) == Append(rows, <<>>)

close_progress_line_Never(rows) == rows
close_progress_line(rows) == IF progress_open_ THEN Newline(rows) ELSE rows

calls == Len(emitted)

Called(entry) ==
    /\ pc = "ready" /\ calls < MaxCalls
    /\ pending' = <<entry>>
    /\ UNCHANGED <<run, path, has_file, buffer, files>>

(* Without a file a call is over when the screen is done.                  *)
ToFile ==
    IF has_file THEN pc' = "write" /\ UNCHANGED emitted
                ELSE pc' = "ready" /\ emitted' = Append(emitted, pending'[1])

line ==
    /\ Called("line")
    /\ screen' = Newline(Text(close_progress_line(screen), "line"))
    /\ progress_open_' = FALSE
    /\ ToFile

blank ==
    /\ Called("blank")
    /\ screen' = Newline(Text(close_progress_line(screen), "blank"))
    /\ progress_open_' = FALSE
    /\ ToFile

progress ==
    /\ Called("progress")
    /\ screen' = Text(Return(screen), "progress")
    /\ progress_open_' = TRUE
    /\ ToFile

(* File only; without a file it does nothing at all.                       *)
file_line ==
    /\ Called("file_line")
    /\ UNCHANGED <<screen, progress_open_>>
    /\ ToFile

(* The second half of a call: the file's copy, then fflush.                *)
Write ==
    /\ pc = "write"
    /\ buffer' = buffer \o pending
    /\ pc' = "flush"
    /\ UNCHANGED <<run, path, has_file, progress_open_, screen, files,
                   pending, emitted>>

Flushed_NotProgress == IF pending = <<"progress">> THEN <<>> ELSE buffer
Flushed == buffer
Flush ==
    /\ pc = "flush"
    /\ files' = [files EXCEPT ![path] = @ \o Flushed]
    /\ buffer' = SubSeq(buffer, Len(Flushed) + 1, Len(buffer))
    /\ pc' = "return"
    /\ UNCHANGED <<run, path, has_file, progress_open_, screen, pending, emitted>>

(* The call is over for the program that made it.                          *)
Returned ==
    /\ pc = "return"
    /\ emitted' = emitted \o pending
    /\ pc' = "ready"
    /\ UNCHANGED <<run, path, has_file, progress_open_, screen, buffer, files,
                   pending>>

(* The destructor at the end of main.                                      *)
close ==
    /\ pc = "ready"
    /\ pc' = "ended"
    /\ screen' = close_progress_line(screen)
    /\ progress_open_' = FALSE
    /\ files' = IF has_file THEN [files EXCEPT ![path] = @ \o buffer] ELSE files
    /\ buffer' = <<>>
    /\ has_file' = FALSE
    /\ UNCHANGED <<run, path, pending, emitted>>

(* The process dies inside or between calls: stdio's buffer goes with it.  *)
Die ==
    /\ pc # "ended"
    /\ pc' = "ended"
    /\ buffer' = <<>>
    /\ UNCHANGED <<run, path, has_file, progress_open_, screen, files,
                   pending, emitted>>

Next ==
    \/ \E time \in Times, opened \in BOOLEAN : Open(time, opened)
    \/ line \/ blank \/ progress \/ file_line
    \/ Write \/ Flush \/ Returned \/ close \/ Die

Spec == Init /\ [][Next]_vars

-----------------------------------------------------------------------------
(* However the process ends, its report holds every call that returned, in *)
(* order, and at most the call it died in besides ("the report has to      *)
(* contain everything up to the last second", logger.cpp:61-64).           *)
DeathKeepsTheReport ==
    has_file =>
        /\ files[path] = emitted \/ files[path] = emitted \o pending
        /\ pc = "ready" => files[path] = emitted

(* The lines among the calls, and the rows that are left of them.          *)
LineCalls(entries) == {i \in DOMAIN entries : entries[i] \in {"line", "blank"}}
LineRows(rows) == {r \in DOMAIN rows : rows[r] # <<>> /\ rows[r][1] # "progress"}

(* Each line has a row of its own, in the order of the calls, and there is *)
(* no other such row.                                                      *)
RowPerLine(entries, rows) ==
    \E at \in [LineCalls(entries) -> LineRows(rows)] :
        /\ \A i, j \in LineCalls(entries) : i < j => at[i] < at[j]
        /\ \A i \in LineCalls(entries) : rows[at[i]] = <<entries[i]>>
        /\ \A r \in LineRows(rows) : \E i \in LineCalls(entries) : at[i] = r

(* The screen shows every line on a row of its own and in the order of the *)
(* report, no matter where progress was open when it came: no line is      *)
(* printed over or behind a progress row, none is wiped by one, and only   *)
(* an open progress line is left under the cursor (logger.hpp:69-71).      *)
ScreenShowsEveryLine ==
    pc = "ready" =>
        /\ \A i \in DOMAIN screen : Len(screen[i]) <= 1
        /\ RowPerLine(emitted, screen)
        /\ screen[Len(screen)] = (IF progress_open_ THEN <<"progress">> ELSE <<>>)

=============================================================================
