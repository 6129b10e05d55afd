---------------------------- MODULE LoggerProofs ----------------------------
(***************************************************************************)
(* The report for any number of runs, calls and file names: a death loses  *)
(* nothing that returned, and the screen shows every line.                 *)
(***************************************************************************)
EXTENDS Logger, TLAPS

(* The lines of a report, and the rows of a screen.                        *)
Entries == {"line", "blank", "progress", "file_line"}
Rows == {<<>>, <<"line">>, <<"blank">>, <<"progress">>}

(* The values of the variables that are neither flags nor the screen.      *)
Kept ==
    /\ pc \in {"ended", "ready", "write", "flush", "return"}
    /\ path \in Times
    /\ files \in [Times -> Seq(Entries)]
    /\ buffer \in Seq(Entries)
    /\ pending \in Seq(Entries)
    /\ emitted \in Seq(Entries)

(* Inside a call there is an entry, and it goes to a file.                 *)
Calling ==
    /\ pc \in {"write", "flush", "return"} => pending \in {<<e>> : e \in Entries}
    /\ pc \in {"write", "flush", "return"} => has_file

(* What the kernel has of the report at each point of a call; a death      *)
(* leaves what was there.                                                  *)
OnDisk ==
    has_file =>
        /\ pc \in {"ready", "write", "flush"} => files[path] = emitted
        /\ pc = "return" => files[path] = emitted \o pending
        /\ pc = "ended" => files[path] = emitted \/ files[path] = emitted \o pending
        /\ pc \in {"ready", "write", "return"} => buffer = <<>>
        /\ pc = "flush" => buffer = pending

(* The inductive invariant of the report.                                  *)
ReportInv == Kept /\ Calling /\ OnDisk

-----------------------------------------------------------------------------
(* Before the first run.                                                   *)
LEMMA ReportInit == Init => ReportInv
<1> SUFFICES ASSUME Init PROVE ReportInv  OBVIOUS
<1>1. [name \in Times |-> <<>>] \in [Times -> Seq(Entries)]  OBVIOUS
<1>2. Kept  BY <1>1 DEF Init, Kept
<1>3. Calling /\ OnDisk  BY DEF Init, Calling, OnDisk
<1> QED  BY <1>2, <1>3 DEF ReportInv

(* A new run has a new file, or none.                                      *)
LEMMA OpenReport ==
    ASSUME ReportInv, NEW time \in Times, NEW opened \in BOOLEAN, Open(time, opened)
    PROVE  ReportInv'
<1>1. pc' = "ready" /\ path' = time /\ has_file' = opened /\ buffer' = <<>>
      /\ pending' = <<>> /\ emitted' = <<>>
  BY DEF Open
<1>2. files' \in [Times -> Seq(Entries)]  BY DEF ReportInv, Kept, Open
<1>3. opened => files'[path'] = <<>>  BY DEF ReportInv, Kept, Open
<1>4. Kept'  BY <1>1, <1>2 DEF Kept
<1>5. Calling' /\ OnDisk'  BY <1>1, <1>3 DEF Calling, OnDisk
<1> QED  BY <1>4, <1>5 DEF ReportInv

(* The four calls differ on the screen only.                               *)
LEMMA CallReport ==
    ASSUME ReportInv, NEW e \in Entries, Called(e), ToFile
    PROVE  ReportInv'
<1>1. pc = "ready" /\ pending' = <<e>> /\ UNCHANGED <<path, has_file, buffer, files>>
  BY DEF Called
<1>2. CASE has_file
  <2>1. pc' = "write" /\ emitted' = emitted  BY <1>2 DEF ToFile
  <2>2. Kept'  BY <1>1, <2>1 DEF ReportInv, Kept
  <2>3. Calling' /\ OnDisk'
    BY <1>1, <1>2, <2>1 DEF ReportInv, Calling, OnDisk
  <2> QED  BY <2>2, <2>3 DEF ReportInv
<1>3. CASE ~has_file
  <2>1. pc' = "ready" /\ emitted' = Append(emitted, e)  BY <1>1, <1>3 DEF ToFile
  <2>2. Kept'  BY <1>1, <2>1 DEF ReportInv, Kept
  <2>3. Calling' /\ OnDisk'  BY <1>1, <1>3, <2>1 DEF Calling, OnDisk
  <2> QED  BY <2>2, <2>3 DEF ReportInv
<1> QED  BY <1>2, <1>3

(* The entry is in the buffer of stdio.                                    *)
LEMMA WriteReport == ASSUME ReportInv, Write PROVE ReportInv'
<1>1. /\ pc = "write" /\ pc' = "flush" /\ buffer' = buffer \o pending
      /\ UNCHANGED <<path, has_file, files, pending, emitted>>
  BY DEF Write
<1>2. has_file /\ buffer = <<>> /\ pending \in Seq(Entries)
  BY <1>1 DEF ReportInv, Kept, Calling, OnDisk
<1>3. buffer' = pending  BY <1>1, <1>2
<1>4. Kept'  BY <1>1, <1>3 DEF ReportInv, Kept
<1>5. Calling' /\ OnDisk'  BY <1>1, <1>2, <1>3 DEF ReportInv, Calling, OnDisk
<1> QED  BY <1>4, <1>5 DEF ReportInv

(* The entry is with the kernel.                                           *)
LEMMA FlushReport == ASSUME ReportInv, Flush PROVE ReportInv'
<1>1. /\ pc = "flush" /\ pc' = "return"
      /\ files' = [files EXCEPT ![path] = files[path] \o buffer]
      /\ buffer' = SubSeq(buffer, Len(buffer) + 1, Len(buffer))
      /\ UNCHANGED <<path, has_file, pending, emitted>>
  BY DEF Flush, Flushed
<1>2. /\ has_file /\ buffer = pending /\ files[path] = emitted
      /\ buffer \in Seq(Entries) /\ files \in [Times -> Seq(Entries)] /\ path \in Times
  BY <1>1 DEF ReportInv, Kept, Calling, OnDisk
<1>3. buffer' = <<>>  BY <1>1, <1>2
<1>4. files[path] \o buffer \in Seq(Entries)  BY <1>2
<1>5. files' \in [Times -> Seq(Entries)] /\ files'[path] = emitted \o pending
  BY <1>1, <1>2, <1>4
<1>6. Kept'  BY <1>1, <1>3, <1>5 DEF ReportInv, Kept
<1>7. Calling' /\ OnDisk'
  BY <1>1, <1>2, <1>3, <1>5 DEF ReportInv, Calling, OnDisk
<1> QED  BY <1>6, <1>7 DEF ReportInv

(* The call has returned.                                                  *)
LEMMA ReturnedReport == ASSUME ReportInv, Returned PROVE ReportInv'
<1>1. /\ pc = "return" /\ pc' = "ready" /\ emitted' = emitted \o pending
      /\ UNCHANGED <<path, has_file, files, pending, buffer>>
  BY DEF Returned
<1>2. Kept'  BY <1>1 DEF ReportInv, Kept
<1>3. Calling' /\ OnDisk'  BY <1>1 DEF ReportInv, Calling, OnDisk
<1> QED  BY <1>2, <1>3 DEF ReportInv

(* The file is closed.                                                     *)
LEMMA CloseReport == ASSUME ReportInv, close PROVE ReportInv'
<1>1. /\ pc' = "ended" /\ has_file' = FALSE /\ buffer' = <<>>
      /\ files' = IF has_file THEN [files EXCEPT ![path] = files[path] \o buffer] ELSE files
      /\ UNCHANGED <<path, pending, emitted>>
  BY DEF close
<1>2. files' \in [Times -> Seq(Entries)]
  <2>1. files[path] \o buffer \in Seq(Entries)  BY DEF ReportInv, Kept
  <2> QED  BY <1>1, <2>1 DEF ReportInv, Kept
<1>3. Kept'  BY <1>1, <1>2 DEF ReportInv, Kept
<1>4. Calling' /\ OnDisk'  BY <1>1 DEF Calling, OnDisk
<1> QED  BY <1>3, <1>4 DEF ReportInv

(* The process dies, with what is in its buffer.                           *)
LEMMA DieReport == ASSUME ReportInv, Die PROVE ReportInv'
<1>1. /\ pc' = "ended" /\ buffer' = <<>>
      /\ UNCHANGED <<path, has_file, files, pending, emitted>>
  BY DEF Die
<1>2. Kept'  BY <1>1 DEF ReportInv, Kept
<1>3. has_file => files[path] = emitted \/ files[path] = emitted \o pending
  BY DEF ReportInv, Kept, OnDisk
<1>4. Calling' /\ OnDisk'  BY <1>1, <1>3 DEF Calling, OnDisk
<1> QED  BY <1>2, <1>4 DEF ReportInv

(* Every step keeps the invariant of the report.                           *)
LEMMA ReportStep == ReportInv /\ [Next]_vars => ReportInv'
<1> SUFFICES ASSUME ReportInv, [Next]_vars PROVE ReportInv'  OBVIOUS
<1>1. CASE line  BY <1>1, CallReport DEF line, Entries
<1>2. CASE blank  BY <1>2, CallReport DEF blank, Entries
<1>3. CASE progress  BY <1>3, CallReport DEF progress, Entries
<1>4. CASE file_line  BY <1>4, CallReport DEF file_line, Entries
<1>5. CASE UNCHANGED vars
  BY <1>5 DEF vars, ReportInv, Kept, Calling, OnDisk
<1> QED
  BY <1>1, <1>2, <1>3, <1>4, <1>5, OpenReport, WriteReport, FlushReport,
     ReturnedReport, CloseReport, DieReport
  DEF Next

(* However the process ends: at any point of any call, of any run, under a *)
(* name that is new or was used before, the file holds every call that     *)
(* returned and at most the one in progress besides.                       *)
THEOREM DeathKeepsTheReportAlways == Spec => []DeathKeepsTheReport
<1>1. ReportInv => DeathKeepsTheReport
  BY DEF ReportInv, Kept, OnDisk, DeathKeepsTheReport
<1> QED  BY ReportInit, ReportStep, <1>1, PTL DEF Spec

-----------------------------------------------------------------------------
(* The calls the screen has heard of: the one in progress too.             *)
Heard == IF pc \in {"write", "flush", "return"} THEN emitted \o pending ELSE emitted

(* Every line has a row, and the last row is open or empty.                *)
OnScreen ==
    pc # "ended" =>
        /\ screen \in Seq(Rows) /\ screen # <<>>
        /\ RowPerLine(Heard, screen)
        /\ screen[Len(screen)] = (IF progress_open_ THEN <<"progress">> ELSE <<>>)

(* The terminal, row by row.                                               *)
LEMMA NewlineKeepsRows ==
    ASSUME NEW entries \in Seq(Entries), NEW rows \in Seq(Rows), RowPerLine(entries, rows)
    PROVE  /\ Newline(rows) \in Seq(Rows)
           /\ Newline(rows)[Len(Newline(rows))] = <<>>
           /\ RowPerLine(entries, Newline(rows))
<1> DEFINE next == Newline(rows)
<1>1. <<>> \in Rows  BY DEF Rows
<1>2. /\ next \in Seq(Rows) /\ Len(next) = Len(rows) + 1
      /\ next[Len(rows) + 1] = <<>>
      /\ \A r \in DOMAIN rows : next[r] = rows[r]
      /\ DOMAIN next = DOMAIN rows \cup {Len(rows) + 1}
  BY <1>1 DEF Newline
<1> HIDE DEF next
<1>3. LineRows(next) = LineRows(rows)  BY <1>2 DEF LineRows
<1>4. \A r \in LineRows(rows) : next[r] = rows[r]  BY <1>2 DEF LineRows
<1>5. RowPerLine(entries, next)  BY <1>3, <1>4 DEF RowPerLine
<1> QED  BY <1>2, <1>5 DEF next

(* A call that prints no line leaves the lines where they are.             *)
LEMMA NoLineKeepsRows ==
    ASSUME NEW entries \in Seq(Entries), NEW rows, RowPerLine(entries, rows),
           NEW e \in {"progress", "file_line"}
    PROVE  RowPerLine(Append(entries, e), rows)
<1> DEFINE more == Append(entries, e)
<1>1. /\ DOMAIN more = DOMAIN entries \cup {Len(entries) + 1}
      /\ more[Len(entries) + 1] = e
      /\ \A i \in DOMAIN entries : more[i] = entries[i]
  OBVIOUS
<1> HIDE DEF more
<1>2. LineCalls(more) = LineCalls(entries)  BY <1>1 DEF LineCalls
<1>3. \A i \in LineCalls(entries) : more[i] = entries[i]  BY <1>1 DEF LineCalls
<1>4. RowPerLine(more, rows)  BY <1>2, <1>3 DEF RowPerLine
<1> QED  BY <1>4 DEF more

(* Another text in the row of the cursor.                                  *)
LEMMA CursorRow ==
    ASSUME NEW rows \in Seq(Rows), rows # <<>>, NEW x \in Rows
    PROVE  LET next == [rows EXCEPT ![Len(rows)] = x]
           IN  /\ next \in Seq(Rows) /\ next # <<>> /\ Len(next) = Len(rows)
               /\ DOMAIN next = DOMAIN rows /\ Len(rows) \in DOMAIN rows
               /\ next[Len(rows)] = x
               /\ \A r \in DOMAIN rows : r # Len(rows) => next[r] = rows[r]
<1> DEFINE k == Len(rows)
           next == [rows EXCEPT ![k] = x]
<1>1. k \in Nat /\ k # 0 /\ rows \in [1..k -> Rows]  OBVIOUS
<1>2. next \in [1..k -> Rows] /\ k \in 1..k  BY <1>1
<1>3. next \in Seq(Rows) /\ Len(next) = k  BY <1>1, <1>2
<1>4. next # <<>>  BY <1>1, <1>3
<1>5. next[k] = x /\ \A r \in 1..k : r # k => next[r] = rows[r]  BY <1>1, <1>2
<1> HIDE DEF next
<1> QED  BY <1>1, <1>2, <1>3, <1>4, <1>5 DEF next

(* A progress text takes the row of the cursor, which holds no line.       *)
LEMMA ProgressKeepsRows ==
    ASSUME NEW entries \in Seq(Entries), NEW rows \in Seq(Rows), rows # <<>>,
           RowPerLine(entries, rows), rows[Len(rows)] \in {<<>>, <<"progress">>}
    PROVE  LET next == Text(Return(rows), "progress")
           IN  /\ next \in Seq(Rows) /\ next # <<>>
               /\ next[Len(next)] = <<"progress">>
               /\ RowPerLine(entries, next)
<1> DEFINE cleared == Return(rows)
           next == Text(cleared, "progress")
<1>1. <<>> \in Rows /\ <<"progress">> \in Rows  BY DEF Rows
<1>2. cleared = [rows EXCEPT ![Len(rows)] = <<>>]  BY DEF Return
<1> HIDE DEF cleared
<1>3. /\ cleared \in Seq(Rows) /\ cleared # <<>> /\ Len(cleared) = Len(rows)
      /\ DOMAIN cleared = DOMAIN rows /\ Len(rows) \in DOMAIN rows
      /\ cleared[Len(rows)] = <<>>
      /\ \A r \in DOMAIN rows : r # Len(rows) => cleared[r] = rows[r]
  BY <1>1, <1>2, CursorRow
<1>4. next = [cleared EXCEPT ![Len(cleared)] = <<"progress">>]
  <2>1. Append(cleared[Len(cleared)], "progress") = <<"progress">>  BY <1>3
  <2> QED  BY <2>1 DEF Text
<1> HIDE DEF next
<1>5. /\ next \in Seq(Rows) /\ next # <<>> /\ Len(next) = Len(cleared)
      /\ DOMAIN next = DOMAIN cleared
      /\ next[Len(cleared)] = <<"progress">>
      /\ \A r \in DOMAIN cleared : r # Len(cleared) => next[r] = cleared[r]
  BY <1>1, <1>3, <1>4, CursorRow
<1>6. /\ next[Len(rows)] = <<"progress">> /\ DOMAIN next = DOMAIN rows
      /\ \A r \in DOMAIN rows : r # Len(rows) => next[r] = rows[r]
  BY <1>3, <1>5
<1>7. LineRows(next) = LineRows(rows) /\ Len(rows) \notin LineRows(rows)
  BY <1>6 DEF LineRows
<1>8. \A r \in LineRows(rows) : next[r] = rows[r]  BY <1>6, <1>7 DEF LineRows
<1>9. RowPerLine(entries, next)  BY <1>7, <1>8 DEF RowPerLine
<1> QED  BY <1>3, <1>5, <1>9 DEF next, cleared

(* A line takes the empty row of the cursor, below all the others.         *)
LEMMA LineTakesARow ==
    ASSUME NEW entries \in Seq(Entries), NEW rows \in Seq(Rows), rows # <<>>,
           RowPerLine(entries, rows), rows[Len(rows)] = <<>>,
           NEW e \in {"line", "blank"}
    PROVE  Text(rows, e) \in Seq(Rows) /\ RowPerLine(Append(entries, e), Text(rows, e))
<1> DEFINE next == Text(rows, e)
           more == Append(entries, e)
           top == Len(entries) + 1
           low == Len(rows)
<1>1. low \in Nat /\ low # 0 /\ DOMAIN rows = 1..low /\ top \in Nat
      /\ DOMAIN entries = 1..Len(entries)
  OBVIOUS
<1>2. <<e>> \in Rows  BY DEF Rows
<1>3. next = [rows EXCEPT ![Len(rows)] = <<e>>]
  <2>1. Append(rows[Len(rows)], e) = <<e>>  OBVIOUS
  <2> QED  BY <2>1 DEF Text
<1> HIDE DEF next
<1>4. next \in Seq(Rows)  BY <1>2, <1>3, CursorRow
<1>5. /\ next[low] = <<e>> /\ DOMAIN next = DOMAIN rows /\ low \in DOMAIN rows
      /\ \A r \in DOMAIN rows : r # low => next[r] = rows[r]
  BY <1>2, <1>3, CursorRow
<1>6. /\ DOMAIN more = DOMAIN entries \cup {top} /\ more[top] = e
      /\ top \notin DOMAIN entries
      /\ \A i \in DOMAIN entries : more[i] = entries[i]
  OBVIOUS
<1>7. <<e>> # <<>> /\ <<e>>[1] # "progress"  OBVIOUS
<1> HIDE DEF more
<1>8. LineRows(next) = LineRows(rows) \cup {low} /\ low \notin LineRows(rows)
  BY <1>5, <1>7 DEF LineRows
<1>9. LineCalls(more) = LineCalls(entries) \cup {top} /\ top \notin LineCalls(entries)
  BY <1>6 DEF LineCalls
<1>10. PICK at \in [LineCalls(entries) -> LineRows(rows)] :
        /\ \A i, j \in LineCalls(entries) : i < j => at[i] < at[j]
        /\ \A i \in LineCalls(entries) : rows[at[i]] = <<entries[i]>>
        /\ \A r \in LineRows(rows) : \E i \in LineCalls(entries) : at[i] = r
  BY DEF RowPerLine
<1> DEFINE to == [i \in LineCalls(more) |-> IF i = top THEN low ELSE at[i]]
<1>11. to \in [LineCalls(more) -> LineRows(next)]  BY <1>8, <1>9
<1>12. to[top] = low /\ \A i \in LineCalls(entries) : to[i] = at[i]  BY <1>9
<1> HIDE DEF to
<1>13. ASSUME NEW i \in LineCalls(more), NEW j \in LineCalls(more), i < j
       PROVE  to[i] < to[j]
  <2>1. i \in LineCalls(entries)  BY <1>1, <1>6, <1>9, <1>13 DEF LineCalls
  <2>2. CASE j = top
    <3>1. at[i] \in LineRows(rows) /\ at[i] \in 1..low /\ at[i] # low
      BY <1>1, <1>8, <2>1 DEF LineRows
    <3> QED  BY <1>1, <1>12, <2>1, <2>2, <3>1
  <2>3. CASE j # top  BY <1>9, <1>10, <1>12, <1>13, <2>1, <2>3
  <2> QED  BY <2>2, <2>3
<1>14. ASSUME NEW i \in LineCalls(more) PROVE next[to[i]] = <<more[i]>>
  <2>1. CASE i = top  BY <1>5, <1>6, <1>12, <2>1
  <2>2. CASE i # top
    <3>1. i \in LineCalls(entries) /\ i \in DOMAIN entries  BY <1>9, <2>2 DEF LineCalls
    <3>2. at[i] \in LineRows(rows) /\ at[i] \in DOMAIN rows /\ at[i] # low
      BY <1>8, <3>1 DEF LineRows
    <3> QED  BY <1>5, <1>6, <1>10, <1>12, <3>1, <3>2
  <2> QED  BY <2>1, <2>2
<1>15. ASSUME NEW r \in LineRows(next) PROVE \E i \in LineCalls(more) : to[i] = r
  <2>1. CASE r = low  BY <1>9, <1>12, <2>1
  <2>2. CASE r # low
    <3>1. PICK i \in LineCalls(entries) : at[i] = r  BY <1>8, <1>10, <2>2
    <3> QED  BY <1>9, <1>12, <3>1
  <2> QED  BY <2>1, <2>2
<1>16. RowPerLine(more, next)  BY <1>11, <1>13, <1>14, <1>15 DEF RowPerLine
<1> QED  BY <1>4, <1>16 DEF next, more

-----------------------------------------------------------------------------
(* Until it returns a call is heard of as if it had.                       *)
LEMMA CallIsHeard ==
    ASSUME ReportInv, NEW e \in Entries, Called(e), ToFile
    PROVE  Heard = emitted /\ Heard' = Append(emitted, e) /\ pc = "ready" /\ pc' # "ended"
<1>1. pc = "ready" /\ pending' = <<e>> /\ emitted \in Seq(Entries)
  BY DEF Called, ReportInv, Kept
<1>2. CASE has_file
  <2>1. pc' = "write" /\ emitted' = emitted  BY <1>2 DEF ToFile
  <2>2. Heard' = emitted \o <<e>>  BY <1>1, <2>1 DEF Heard
  <2> QED  BY <1>1, <2>1, <2>2 DEF Heard
<1>3. CASE ~has_file
  <2>1. pc' = "ready" /\ emitted' = Append(emitted, e)  BY <1>1, <1>3 DEF ToFile
  <2> QED  BY <1>1, <2>1 DEF Heard
<1> QED  BY <1>2, <1>3

(* line and blank: the open progress row is left behind first.             *)
LEMMA LineOnScreen ==
    ASSUME ReportInv, OnScreen, NEW e \in {"line", "blank"}, Called(e), ToFile,
           screen' = Newline(Text(close_progress_line(screen), e)),
           progress_open_' = FALSE
    PROVE  OnScreen'
<1> DEFINE rows == close_progress_line(screen)
<1>1. e \in Entries  BY DEF Entries
<1>2. Heard = emitted /\ Heard' = Append(emitted, e) /\ pc = "ready" /\ pc' # "ended"
      /\ emitted \in Seq(Entries)
  BY <1>1, CallIsHeard DEF ReportInv, Kept
<1>3. screen \in Seq(Rows) /\ screen # <<>> /\ RowPerLine(emitted, screen)
  BY <1>2 DEF OnScreen
<1>4. rows \in Seq(Rows) /\ rows # <<>> /\ RowPerLine(emitted, rows) /\ rows[Len(rows)] = <<>>
  <2>1. CASE progress_open_
    <3>1. rows = Newline(screen)  BY <2>1 DEF close_progress_line
    <3>2. rows # <<>>  BY <3>1, <1>3 DEF Newline
    <3> QED  BY <1>2, <1>3, <3>1, <3>2, NewlineKeepsRows
  <2>2. CASE ~progress_open_
    <3>1. rows = screen  BY <2>2 DEF close_progress_line
    <3>2. screen[Len(screen)] = <<>>  BY <1>2, <2>2 DEF OnScreen
    <3> QED  BY <1>3, <3>1, <3>2
  <2> QED  BY <2>1, <2>2
<1> HIDE DEF rows
<1>5. Text(rows, e) \in Seq(Rows) /\ RowPerLine(Append(emitted, e), Text(rows, e))
  BY <1>2, <1>4, LineTakesARow
<1>6. Append(emitted, e) \in Seq(Entries)  BY <1>1, <1>2
<1>7. screen' = Newline(Text(rows, e))  BY DEF rows
<1>8. /\ screen' \in Seq(Rows) /\ screen'[Len(screen')] = <<>>
      /\ RowPerLine(Append(emitted, e), screen')
  BY <1>5, <1>6, <1>7, NewlineKeepsRows
<1>9. screen' # <<>>  BY <1>5, <1>7 DEF Newline
<1> QED  BY <1>2, <1>8, <1>9 DEF OnScreen

(* A progress line overwrites nothing but a progress line.                 *)
LEMMA ProgressOnScreen == ASSUME ReportInv, OnScreen, progress PROVE OnScreen'
<1>1. "progress" \in Entries /\ Called("progress") /\ ToFile
  BY DEF progress, Entries
<1>2. Heard = emitted /\ Heard' = Append(emitted, "progress") /\ pc = "ready"
      /\ emitted \in Seq(Entries)
  BY <1>1, CallIsHeard DEF ReportInv, Kept
<1>3. /\ screen \in Seq(Rows) /\ screen # <<>> /\ RowPerLine(emitted, screen)
      /\ screen[Len(screen)] \in {<<>>, <<"progress">>}
  BY <1>2 DEF OnScreen
<1>4. RowPerLine(Append(emitted, "progress"), screen) /\ Append(emitted, "progress") \in Seq(Entries)
  BY <1>1, <1>2, <1>3, NoLineKeepsRows
<1>5. /\ screen' \in Seq(Rows) /\ screen' # <<>>
      /\ screen'[Len(screen')] = <<"progress">>
      /\ RowPerLine(Append(emitted, "progress"), screen')
  BY <1>3, <1>4, ProgressKeepsRows DEF progress
<1>6. progress_open_' = TRUE  BY DEF progress
<1> QED  BY <1>2, <1>5, <1>6 DEF OnScreen

(* A line for the file only is not on the screen.                          *)
LEMMA FileLineOnScreen == ASSUME ReportInv, OnScreen, file_line PROVE OnScreen'
<1>1. "file_line" \in Entries /\ Called("file_line") /\ ToFile
  BY DEF file_line, Entries
<1>2. Heard = emitted /\ Heard' = Append(emitted, "file_line") /\ pc = "ready"
      /\ emitted \in Seq(Entries)
  BY <1>1, CallIsHeard DEF ReportInv, Kept
<1>3. RowPerLine(Append(emitted, "file_line"), screen)
  BY <1>2, NoLineKeepsRows DEF OnScreen
<1>4. UNCHANGED <<screen, progress_open_>>  BY DEF file_line
<1> QED  BY <1>2, <1>3, <1>4 DEF OnScreen

(* The file's half of a call leaves the screen alone.                      *)
LEMMA FileHalfOnScreen ==
    ASSUME ReportInv, OnScreen, Write \/ Flush \/ Returned PROVE OnScreen'
<1>1. UNCHANGED <<screen, progress_open_, pending>> /\ pc # "ended"
  BY DEF Write, Flush, Returned
<1>2. Heard' = Heard
  <2>1. CASE Write  BY <2>1 DEF Write, Heard
  <2>2. CASE Flush  BY <2>2 DEF Flush, Heard
  <2>3. CASE Returned  BY <2>3 DEF Returned, Heard
  <2> QED  BY <2>1, <2>2, <2>3
<1> QED  BY <1>1, <1>2 DEF OnScreen

(* Every step keeps the screen.                                            *)
LEMMA OnScreenStep == ReportInv /\ OnScreen /\ [Next]_vars => OnScreen'
<1> SUFFICES ASSUME ReportInv, OnScreen, [Next]_vars PROVE OnScreen'  OBVIOUS
<1>1. CASE line  BY <1>1, LineOnScreen DEF line
<1>2. CASE blank  BY <1>2, LineOnScreen DEF blank
<1>3. ASSUME NEW time \in Times, NEW opened \in BOOLEAN, Open(time, opened)
      PROVE  OnScreen'
  <2>1. /\ pc' = "ready" /\ emitted' = <<>> /\ screen' = << <<>> >>
        /\ progress_open_' = FALSE
    BY <1>3 DEF Open
  <2>2. Heard' = <<>> /\ screen' \in Seq(Rows) /\ screen' # <<>> /\ screen'[Len(screen')] = <<>>
    BY <2>1 DEF Heard, Rows
  <2>3. LineCalls(<<>>) = {} /\ LineRows(<< <<>> >>) = {}
    BY DEF LineCalls, LineRows
  <2>4. [i \in {} |-> 0] \in [{} -> {}]  OBVIOUS
  <2>5. RowPerLine(<<>>, << <<>> >>)  BY <2>3, <2>4 DEF RowPerLine
  <2> QED  BY <2>1, <2>2, <2>5 DEF OnScreen
<1>4. CASE close \/ Die  BY <1>4 DEF close, Die, OnScreen
<1>5. CASE UNCHANGED vars  BY <1>5 DEF vars, OnScreen, Heard
<1> QED
  BY <1>1, <1>2, <1>3, <1>4, <1>5, ProgressOnScreen, FileLineOnScreen, FileHalfOnScreen
  DEF Next

(* After every call, however lines, blanks, progress lines and lines of    *)
(* the file alone follow one another: each line has its own row, in order, *)
(* and under the cursor is an open progress line or nothing.               *)
THEOREM ScreenShowsEveryLineAlways == Spec => []ScreenShowsEveryLine
<1>1. Init => OnScreen  BY DEF Init, OnScreen
<1>2. ReportInv /\ OnScreen => ScreenShowsEveryLine
  <2> SUFFICES ASSUME ReportInv, OnScreen, pc = "ready"
               PROVE  /\ \A i \in DOMAIN screen : Len(screen[i]) <= 1
                      /\ RowPerLine(emitted, screen)
                      /\ screen[Len(screen)] = (IF progress_open_ THEN <<"progress">> ELSE <<>>)
    BY DEF ScreenShowsEveryLine
  <2>1. \A row \in Rows : Len(row) <= 1
    <3>1. /\ Len(<<>>) <= 1 /\ Len(<<"line">>) <= 1 /\ Len(<<"blank">>) <= 1
          /\ Len(<<"progress">>) <= 1
      OBVIOUS
    <3> QED  BY <3>1 DEF Rows
  <2>2. Heard = emitted  BY DEF Heard
  <2>3. \A i \in DOMAIN screen : screen[i] \in Rows  BY DEF OnScreen
  <2> QED  BY <2>1, <2>2, <2>3 DEF OnScreen
<1> QED  BY ReportInit, ReportStep, <1>1, <1>2, OnScreenStep, PTL DEF Spec

=============================================================================
