---------------------------- MODULE RosterParsing ----------------------------
(***************************************************************************)
(* How rosters of students are read: CSV files (student-csv-parser), PDFs  *)
(* whose columns are printed on separate pages, PDFs with a row for every  *)
(* student, and PDFs that are a stream of lines. The page of the import    *)
(* and the script import-students have readers of their own, and each      *)
(* chooses among its readers by what it finds in the file. A roster is     *)
(* written here cell by cell, student by student or block by block, with   *)
(* the damage that an extraction does to it; what was meant is kept beside *)
(* it. Characters, cells and lines are classes: what the readers tell      *)
(* apart, and whose data they are.                                         *)
(***************************************************************************)
EXTENDS Integers, Sequences, FiniteSets, SequencesExt

CONSTANTS
  BareCells,      \* the cells written without quotes, each a sequence of characters
  QuotedCells,    \* the cells written in quotes
  MaxCells,       \* bound: the cells of a CSV text
  MaxStudents     \* bound: the students of a PDF

VARIABLES
  csvText,        \* the characters of a CSV text
  csvMeant,       \* what its writer meant: the rows, or Refused
  csvCells,
  splitPdf,       \* the identity and the enrollment lines of a PDF with headings of columns
  rowPdf,         \* the rows of cells of a PDF without (`pages')
  linePdf,        \* the same cells, each a line (`fullText')
  printed         \* history: per student what has been damaged in the PDFs

csvVars == <<csvText, csvMeant, csvCells>>
pdfVars == <<splitPdf, rowPdf, linePdf, printed>>
rosterParsingVars == <<csvVars, pdfVars>>

\* The characters: `x' is any that means nothing to the reader.
BareCharacters == {"x", "space"}
Characters == BareCharacters \union {"quote", "comma", "cr", "lf"}

ASSUME CellsAssumption ==
  /\ BareCells \subseteq Seq(BareCharacters)
  /\ QuotedCells \subseteq Seq(Characters)

Refused == [refused |-> TRUE, rows |-> << >>]
Rows(rows) == [refused |-> FALSE, rows |-> rows]

-----------------------------------------------------------------------------
\* parseCsvRows(), one character at a time. `closed': a quote that may end its cell has
\* been read; `cr': a CR that may have an LF to come.
CsvStart == [rows |-> << >>, row |-> << >>, field |-> << >>, mode |-> "bare", refused |-> FALSE]

\* .trim(), of the ends of lines too
Trimmed(field) ==
  LET inner == {i \in DOMAIN field : field[i] \notin {"space", "cr", "lf"}}
  IN IF inner = {} THEN << >>
     ELSE SubSeq(field, CHOOSE i \in inner : \A j \in inner : i <= j,
                        CHOOSE i \in inner : \A j \in inner : j <= i)

PushCell(s) == [s EXCEPT !.row = Append(@, Trimmed(s.field)), !.field = << >>, !.mode = "bare"]

PushRow(s, mode) ==
  LET cell == PushCell(s)
  IN [cell EXCEPT !.rows = Append(@, cell.row), !.row = << >>, !.mode = mode]

\* Mutant: an LF after a CR ends another row.
ReadBareTwice(s, c) ==
  CASE c = "quote" -> IF s.field = << >> THEN [s EXCEPT !.mode = "quoted"] ELSE [s EXCEPT !.refused = TRUE]
    [] c = "comma" -> PushCell(s)
    [] c = "cr" -> PushRow(s, "cr")
    [] c = "lf" -> PushRow(s, "bare")
    [] OTHER -> [s EXCEPT !.field = Append(@, c), !.mode = "bare"]

ReadBare(s, c) ==
  CASE c = "quote" -> IF s.field = << >> THEN [s EXCEPT !.mode = "quoted"] ELSE [s EXCEPT !.refused = TRUE]
    [] c = "comma" -> PushCell(s)
    [] c = "cr" -> PushRow(s, "cr")
    [] c = "lf" -> IF s.mode = "cr" THEN [s EXCEPT !.mode = "bare"] ELSE PushRow(s, "bare")
    [] OTHER -> [s EXCEPT !.field = Append(@, c), !.mode = "bare"]

ReadClosed(s, c) ==
  CASE c = "quote" -> [s EXCEPT !.field = Append(@, "quote"), !.mode = "quoted"]
    [] c = "comma" -> PushCell(s)
    [] c = "cr" -> PushRow(s, "cr")
    [] c = "lf" -> PushRow(s, "bare")
    [] OTHER -> [s EXCEPT !.refused = TRUE]

ReadQuoted(s, c) ==
  IF c = "quote" THEN [s EXCEPT !.mode = "closed"] ELSE [s EXCEPT !.field = Append(@, c)]

ReadCharacter(s, c) ==
  CASE s.refused -> s
    [] ~s.refused /\ s.mode = "quoted" -> ReadQuoted(s, c)
    [] ~s.refused /\ s.mode = "closed" -> ReadClosed(s, c)
    [] OTHER -> ReadBare(s, c)

ReadText(text) ==
  LET after[n \in 0..Len(text)] ==
        IF n = 0 THEN CsvStart ELSE ReadCharacter(after[n - 1], text[n])
  IN after[Len(text)]

ParseCsvRows(text) ==
  LET s == ReadText(text)
  IN IF s.refused \/ s.mode = "quoted" THEN Refused
     ELSE IF s.field # << >> \/ s.row # << >> THEN Rows(PushRow(s, "bare").rows)
     ELSE Rows(s.rows)

\* parseStudentCsv(): a blank header, then a record per row, with an error when a value is
\* missing or not understood, or when the row has the wrong width, which is `structural'.
\* `width' stands for ten.
StudentRecords(result, width) ==
  IF result.refused \/ Len(result.rows) < 2 \/ result.rows[1] # [i \in 1..width |-> << >>]
  THEN Refused
  ELSE Rows([k \in 1..(Len(result.rows) - 1) |->
         LET row == result.rows[k + 1]
         IN [row |-> row, structural |-> Len(row) # width,
             error |-> Len(row) # width \/ \E i \in DOMAIN row : row[i] # <<"x">>]])

\* The page of the import refuses a file for a structural error only.
PageStudentRecords(records) ==
  IF \E k \in DOMAIN records.rows : records.rows[k].structural THEN Refused ELSE records

\* Mutant: the script passes over a row with an error.
ScriptStudentRecordsSkipping(records) ==
  [records EXCEPT !.rows = SelectSeq(@, LAMBDA record : ~record.error)]

\* The script refuses it for any error.
ScriptStudentRecords(records) ==
  IF \E k \in DOMAIN records.rows : records.rows[k].error THEN Refused ELSE records

\* The writer: a cell in quotes, or bare when it can be, and what follows it.
Separators == {<<"comma">>, <<"lf">>, <<"cr", "lf">>, <<"cr">>}

\* A quote is written twice.
Doubled(cell) ==
  LET text[n \in 0..Len(cell)] ==
        IF n = 0 THEN << >>
        ELSE text[n - 1] \o (IF cell[n] = "quote" THEN <<"quote", "quote">> ELSE <<cell[n]>>)
  IN text[Len(cell)]

Quoted(cell) == <<"quote">> \o Doubled(cell) \o <<"quote">>

\* A row under way is the last of `csvMeant.rows'; the text ends after any separator.
AppendToMeant(cell, separator) ==
  LET rows == csvMeant.rows
      row == Append(rows[Len(rows)], Trimmed(cell))
      rest == SubSeq(rows, 1, Len(rows) - 1)
  IN IF separator = <<"comma">> THEN Append(rest, row) ELSE rest \o <<row, << >>>>

\* An empty line that ends with LF alone cannot follow one that ends with CR alone.
WriteCell(cell, image, separator) ==
  /\ csvCells < MaxCells /\ ~csvMeant.refused
  /\ (csvText # << >> /\ Last(csvText) = "cr") => Head(image \o separator) # "lf"
  /\ csvCells' = csvCells + 1
  /\ csvText' = csvText \o image \o separator
  /\ csvMeant' = Rows(AppendToMeant(cell, separator))
  /\ UNCHANGED pdfVars

\* A quote in the middle of a bare cell.
WriteBroken ==
  /\ csvCells < MaxCells /\ ~csvMeant.refused
  /\ csvCells' = csvCells + 1
  /\ csvText' = csvText \o <<"x", "quote", "lf">>
  /\ csvMeant' = Refused
  /\ UNCHANGED pdfVars

-----------------------------------------------------------------------------
\* The two columns. A student has a numbered line of identity, perhaps with a second line
\* of the name, and a line of enrollment.
IdentityStep(rows, line) ==
  IF line.starts THEN Append(rows, [number |-> line.of, cells |-> <<line.of>>])
  ELSE IF rows = << >> THEN rows
  ELSE [rows EXCEPT ![Len(rows)].cells = Append(@, line.of)]

\* collectIdentityRows()
CollectIdentityRows(lines) ==
  LET rows[n \in 0..Len(lines)] == IF n = 0 THEN << >> ELSE IdentityStep(rows[n - 1], lines[n])
  IN rows[Len(lines)]

\* Mutant: only the number of lines is compared.
AlignedByCount(identity, enrollment) == identity # << >> /\ Len(identity) = Len(enrollment)

Aligned(identity, enrollment) ==
  /\ identity # << >> /\ Len(identity) = Len(enrollment)
  /\ \A k \in DOMAIN identity : identity[k].number = k

\* parseSplitRosterPages() of the page: students of other courses are passed over, a line
\* that is not understood gives a record with an error.
ParseSplitRosterPages(pdf) ==
  LET identity == CollectIdentityRows(pdf.identity)
      record(k) == [student |-> Head(identity[k].cells), course |-> pdf.enrollment[k].of,
                    error |-> pdf.enrollment[k].course = "garbled"]
      records[n \in 0..Len(pdf.enrollment)] ==
        IF n = 0 THEN << >>
        ELSE IF pdf.enrollment[n].course = "other" THEN records[n - 1]
        ELSE Append(records[n - 1], record(n))
  IN IF ~Aligned(identity, pdf.enrollment) THEN Refused
     ELSE Rows(records[Len(pdf.enrollment)])

\* That of the script, which a line it does not understand stops.
ScriptSplitRosterPages(pdf) ==
  IF \E k \in DOMAIN pdf.enrollment : pdf.enrollment[k].course = "garbled" THEN Refused
  ELSE ParseSplitRosterPages(pdf)

\* The next student is printed; the extraction may lose either line.
PrintStudent(course, secondLine, lostIdentity, lostEnrollment) ==
  LET n == Len(printed.split) + 1
      identity == IF lostIdentity THEN << >> ELSE <<[starts |-> TRUE, of |-> n]>>
      second == IF secondLine THEN <<[starts |-> FALSE, of |-> n]>> ELSE << >>
      enrollment == IF lostEnrollment THEN << >> ELSE <<[course |-> course, of |-> n]>>
  IN /\ n <= MaxStudents
     /\ printed' = [printed EXCEPT !.split = Append(@, lostEnrollment)]
     /\ splitPdf' = [headings |-> TRUE,
                     identity |-> splitPdf.identity \o identity \o second,
                     enrollment |-> splitPdf.enrollment \o enrollment]
     /\ UNCHANGED <<csvVars, rowPdf, linePdf>>

-----------------------------------------------------------------------------
\* The lines of a PDF, or the cells of a row: a whole student number, the first part of a
\* broken one (`id1' if it is only that, `id' if it goes on), the other parts of a broken
\* number, a piece of the name, a course with the year level behind it or `courseAlone', a
\* year level, a footer.
StartsStudent(line) == line.kind \in {"whole", "id", "id1"}

HasCourse(line) == line.kind \in {"course", "courseAlone"}

LineAt(lines, i) == IF i \in DOMAIN lines THEN lines[i] ELSE [kind |-> "none", of |-> 0]

\* The first of the places that stop a search, or the end.
FirstStop(lines, stops) ==
  IF stops = {} THEN Len(lines) + 1 ELSE CHOOSE j \in stops : \A k \in stops : j <= k

-----------------------------------------------------------------------------
\* The rows. Where the number of a row is, and its course: in any cell but the first, at
\* the end of it.
NumbersIn(row) == {i \in DOMAIN row : row[i].kind = "whole"}
CoursesIn(row) == {i \in DOMAIN row : i >= 2 /\ row[i].kind = "courseAlone"}

\* A record needs two cells of the name before the course, and the year level after it.
LegacyRecord(row) ==
  LET number == FirstStop(row, NumbersIn(row))
      course == FirstStop(row, CoursesIn(row))
      used == {number} \union 2..(course + 1)
  IN [student |-> row[number].of,
      of |-> {row[i].of : i \in used \intersect DOMAIN row},
      error |-> course < 4 \/ LineAt(row, course + 1).kind # "level"]

\* parseLegacyRosterPages(): rows without a number or without a course are passed over. The
\* records are here at the places of their rows.
ParseLegacyRosterPages(rows) ==
  [r \in {r \in DOMAIN rows : NumbersIn(rows[r]) # {} /\ CoursesIn(rows[r]) # {}} |->
     LegacyRecord(rows[r])]

LegacyCells == <<"whole", "name", "name", "courseAlone", "level">>

\* The row of student n, of which the extraction loses cell `lost' (0: none).
StudentRow(n, lost) ==
  LET whole == [k \in 1..5 |-> [kind |-> LegacyCells[k], of |-> n]]
  IN IF lost = 0 THEN whole ELSE RemoveAt(whole, lost)

\* The row of the next student is printed.
PrintRow(lost) ==
  LET n == Len(printed.rows) + 1
  IN /\ n <= MaxStudents
     /\ rowPdf' = Append(rowPdf, StudentRow(n, lost))
     /\ linePdf' = linePdf \o StudentRow(n, lost)
     /\ printed' = [printed EXCEPT !.rows = Append(@, lost)]
     /\ UNCHANGED <<csvVars, splitPdf>>

-----------------------------------------------------------------------------
\* The stream of lines. A block is the student number, on one line or broken into two or
\* three, lines of the name, and a line with the course and the year level.

\* Mutant: the search for the course does not stop at the next student.
EndsScanAtFooter(line) == line.kind = "footer"

EndsScan(line) == StartsStudent(line) \/ line.kind = "footer"

\* How many lines the page takes for the student number.
NumberOfParts(lines, i) ==
  IF lines[i].kind # "id1" THEN 1 ELSE IF LineAt(lines, i + 1).kind = "id2" THEN 3 ELSE 2

NumberLines == {<<"whole">>, <<"id1", "id2end">>, <<"id1", "id2", "id3">>}

\* Whether the lines put together are a student number (isStudentId).
ValidNumber(lines, i) ==
  LET parts == [k \in 1..NumberOfParts(lines, i) |-> LineAt(lines, i + k - 1)]
  IN [k \in DOMAIN parts |-> parts[k].kind] \in NumberLines

\* Where the scan of the block that starts at i ends.
ScanEnd(lines, i) ==
  FirstStop(lines, {j \in (i + NumberOfParts(lines, i))..Len(lines) :
                      EndsScan(lines[j]) \/ HasCourse(lines[j])})

\* Whose the lines of a block are, up to the end of the scan, with the course if it is there.
OwnersOf(lines, i, end) ==
  LET last == IF HasCourse(LineAt(lines, end)) THEN end ELSE end - 1
  IN {lines[j].of : j \in (i..last) \intersect DOMAIN lines}

\* The record of the page: parseLines() marks a course or a year level that is not there,
\* and the page itself a number that is none (getRecordError).
BlockRecord(lines, i, end) ==
  [student |-> lines[i].of, of |-> OwnersOf(lines, i, end),
   error |-> LineAt(lines, end).kind # "course" \/ ~ValidNumber(lines, i)]

\* Mutant: the line at which a scan has ended is passed over, as by the script.
ResumeAfter(lines, i) == ScanEnd(lines, i) + 1

\* parseLines(): i = j, without the increment.
ResumeAt(lines, i) == ScanEnd(lines, i)

ParseLines(lines) ==
  LET from[i \in 1..(Len(lines) + 2)] ==
        IF i > Len(lines) THEN << >>
        ELSE IF StartsStudent(lines[i]) THEN <<BlockRecord(lines, i, ScanEnd(lines, i))>> \o from[ResumeAt(lines, i)]
        ELSE from[i + 1]
  IN from[1]

\* Mutant: the scan starts one line too late.
ScriptScanEndLate(lines, i) ==
  FirstStop(lines, {j \in (i + 4)..Len(lines) : lines[j].kind \in {"id1", "footer"} \/ HasCourse(lines[j])})

\* The scan of the script, which starts after three lines.
ScriptScanEnd(lines, i) ==
  FirstStop(lines, {j \in (i + 3)..Len(lines) : lines[j].kind \in {"id1", "footer"} \/ HasCourse(lines[j])})

\* The record of the script: three lines are the number, and nobody asks whether they are
\* one (`number'); a year level that is not there stops the script.
ScriptBlockRecord(lines, i, end) ==
  [student |-> lines[i].of, of |-> OwnersOf(lines, i, end),
   number |-> [k \in 1..3 |-> LineAt(lines, i + k - 1).kind] \in {<<"id1", "id2", "id3">>, <<"id1", "id2end", "none">>},
   level |-> LineAt(lines, end).kind = "course"]

\* parseStudentText() of the script knows numbers of three lines only, drops a block
\* without a course, and goes on after the line at which its scan has ended.
ParseStudentText(lines) ==
  LET record(i) ==
        LET end == ScriptScanEnd(lines, i)
        IN IF HasCourse(LineAt(lines, end)) THEN <<ScriptBlockRecord(lines, i, end)>> ELSE << >>
      from[i \in 1..(Len(lines) + 2)] ==
        IF i > Len(lines) THEN << >>
        ELSE IF lines[i].kind = "id1" THEN record(i) \o from[ScriptScanEnd(lines, i) + 1]
        ELSE from[i + 1]
  IN IF \E k \in DOMAIN from[1] : ~from[1][k].level THEN Refused ELSE Rows(from[1])

\* A number that is broken where no reader expects it.
BrokenNumber == <<"id", "name">>

EachARow(lines) == [k \in DOMAIN lines |-> <<lines[k]>>]

\* The next block is printed, each line a row of its own; the extraction loses line `lost'
\* of it (0: none). At most one block is damaged.
PrintBlock(number, names, course, footer, lost) ==
  LET n == Len(printed.lines) + 1
      kinds == number \o names \o <<course>>
      whole == [k \in DOMAIN kinds |-> [kind |-> kinds[k], of |-> n]]
      left == IF lost = 0 THEN whole ELSE RemoveAt(whole, lost)
      end == IF footer THEN <<[kind |-> "footer", of |-> 0]>> ELSE << >>
      intact == lost = 0 /\ number # BrokenNumber /\ course = "course"
  IN /\ n <= MaxStudents
     /\ lost \in 0..Len(whole)
     /\ ~intact => \A k \in DOMAIN printed.lines : printed.lines[k].intact
     /\ rowPdf' = rowPdf \o EachARow(left) \o EachARow(end)
     /\ linePdf' = linePdf \o left \o end
     /\ printed' = [printed EXCEPT !.lines =
          Append(@, [intact |-> intact, threeParts |-> Len(number) = 3])]
     /\ UNCHANGED <<csvVars, splitPdf>>

-----------------------------------------------------------------------------
\* Mutant: rows are not looked for.
ReadColumnsOrLines(columns, rows, lines) ==
  IF columns.headings THEN ParseSplitRosterPages(columns) ELSE Rows(ParseLines(lines))

\* parseRosterPdf() of the page: headings of columns are for the first reader, and a whole
\* student number anywhere is for the second, which answers for the whole file; the third
\* reads the lines of all others.
ParseRosterPdf(columns, rows, lines) ==
  IF columns.headings THEN ParseSplitRosterPages(columns)
  ELSE IF \E r \in DOMAIN rows : NumbersIn(rows[r]) # {} THEN Rows(ParseLegacyRosterPages(rows))
  ELSE Rows(ParseLines(lines))

\* What the page makes of the PDF.
PageStudents == ParseRosterPdf(splitPdf, rowPdf, linePdf)

\* A row is one line for the script, which is no part of a number if it has several cells.
ScriptLine(row) == IF Len(row) = 1 THEN row[1] ELSE [kind |-> "row", of |-> 0]

\* What the script makes of it: it has no reader of rows.
ScriptStudents ==
  IF splitPdf.headings THEN ScriptSplitRosterPages(splitPdf)
  ELSE ParseStudentText([r \in DOMAIN rowPdf |-> ScriptLine(rowPdf[r])])

-----------------------------------------------------------------------------
NothingPrinted ==
  /\ splitPdf = [headings |-> FALSE, identity |-> << >>, enrollment |-> << >>]
  /\ rowPdf = << >> /\ linePdf = << >>
  /\ printed = [split |-> << >>, rows |-> << >>, lines |-> << >>]

RosterParsingInit ==
  /\ csvText = << >> /\ csvMeant = Rows(<< << >> >>) /\ csvCells = 0
  /\ NothingPrinted

WriteCsv ==
  /\ NothingPrinted
  /\ \/ \E separator \in Separators :
          \/ \E cell \in BareCells : WriteCell(cell, cell, separator)
          \/ \E cell \in QuotedCells : WriteCell(cell, Quoted(cell), separator)
     \/ WriteBroken

\* A PDF is printed in one of three layouts.
PrintSplit ==
  /\ csvCells = 0 /\ printed.rows = << >> /\ printed.lines = << >>
  /\ \E course \in {"known", "other", "garbled"}, second, lostIdentity, lostEnrollment \in BOOLEAN :
       PrintStudent(course, second, lostIdentity, lostEnrollment)

PrintRows ==
  /\ csvCells = 0 /\ ~splitPdf.headings /\ printed.lines = << >>
  /\ \E lost \in 0..5 : PrintRow(lost)

PrintLines ==
  /\ csvCells = 0 /\ ~splitPdf.headings /\ printed.rows = << >>
  /\ \E names \in {<< >>, <<"name">>}, footer \in BOOLEAN :
       \/ \E number \in NumberLines, lost \in 0..5 : PrintBlock(number, names, "course", footer, lost)
       \/ \E number \in NumberLines : PrintBlock(number, names, "courseAlone", footer, 0)
       \/ PrintBlock(BrokenNumber, names, "course", footer, 0)

RosterParsingNext == WriteCsv \/ PrintSplit \/ PrintRows \/ PrintLines

RosterParsingSpec == RosterParsingInit /\ [][RosterParsingNext]_rosterParsingVars

-----------------------------------------------------------------------------
\* A CSV text is read as it was written, whatever is quoted and however lines end, and one
\* with a stray quote is refused. A row under way at the end of the text counts, unless it
\* is empty.
CsvReadAsWritten ==
  LET rows == csvMeant.rows
      whole == IF rows[Len(rows)] = << >> THEN SubSeq(rows, 1, Len(rows) - 1)
               ELSE [rows EXCEPT ![Len(rows)] = Append(@, << >>)]
  IN ParseCsvRows(csvText) = IF csvMeant.refused THEN Refused ELSE Rows(whole)

\* A CSV file, or a PDF in columns, that the script takes is one the page takes too, with
\* the same students and, in the CSV file, none of them marked as wrong: no such file is
\* read in part by one and whole by the other. (Of streams of lines this is not so: see
\* ScriptReadsIntactStudents.)
ScriptTakesTablesAsPage ==
  LET records == StudentRecords(ParseCsvRows(csvText), 1)
      scripted == ScriptStudentRecords(records)
  IN /\ ~scripted.refused => scripted = PageStudentRecords(records)
     /\ splitPdf.headings /\ ~ScriptStudents.refused => ScriptStudents = PageStudents

\* In a roster in two columns a student gets the course of another only if a line of
\* enrollment before one that is there has been lost: everything else that is lost is
\* noticed. (Line numbers are in the identity column only.)
SplitRowsAligned ==
  LET lostBefore(k) == \E i \in 1..k : printed.split[i]
      records == PageStudents.rows
  IN splitPdf.headings =>
       \A k \in DOMAIN records :
         records[k].student # records[k].course => lostBefore(records[k].course)

\* Of rows and of streams of lines, a record of the page without an error is made from the
\* cells of one student.
LinesNotMixed ==
  LET records == PageStudents.rows
  IN ~splitPdf.headings =>
       \A k \in DOMAIN records : ~records[k].error => records[k].of = {records[k].student}

\* Of rows, the page reads without an error exactly the students whose row is whole. Of a
\* stream of lines it reads every student whose block is whole, whatever has happened to
\* another, unless a number is printed whole on some line: then it reads no student at all,
\* since the reader of rows, which answers for the file, finds no course beside a number.
IntactStudentsRead ==
  LET records == PageStudents.rows
      read(n) == \E k \in DOMAIN records : records[k].student = n /\ ~records[k].error
  IN /\ \A n \in DOMAIN printed.rows : read(n) <=> printed.rows[n] = 0
     /\ \A n \in DOMAIN printed.lines : printed.lines[n].intact =>
          (read(n) <=> ~\E i \in DOMAIN linePdf : linePdf[i].kind = "whole")

\* The script, unless a missing year level stops it, reads a whole block of a stream from
\* the student's own lines and with the whole number, if the numbers up to there are on
\* three lines and the block before is whole: without a course in that, its scan ends at
\* the student's number, which is then passed over. (A damaged block it may read too, with
\* what is no student number, as it looks at none.)
ScriptReadsIntactStudents ==
  LET records == ScriptStudents.rows
  IN ~ScriptStudents.refused =>
       \A n \in DOMAIN printed.lines :
         (/\ \A m \in 1..n : printed.lines[m].threeParts
          /\ printed.lines[n].intact
          /\ n > 1 => printed.lines[n - 1].intact)
         => \E k \in DOMAIN records :
              records[k].student = n /\ records[k].of = {n} /\ records[k].number

\* What the readers make of a text, whole or damaged: the CSV parser, the page's choice of
\* a reader for a PDF and the readers of columns, rows and lines, and the script's readers.
RostersReadRightly ==
  /\ CsvReadAsWritten
  /\ SplitRowsAligned
  /\ LinesNotMixed
  /\ IntactStudentsRead
  /\ ScriptTakesTablesAsPage
  /\ ScriptReadsIntactStudents
=============================================================================
