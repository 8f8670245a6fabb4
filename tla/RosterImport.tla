---------------------------- MODULE RosterImport ----------------------------
(***************************************************************************)
(* Adding the students of a roster: the administrators' import page, which *)
(* reads a file, lets the rows be corrected and sends them in batches, and *)
(* the operator's script, which adds the students one by one. The plain    *)
(* passwords exist only in what the two of them show or write down.        *)
(*                                                                         *)
(* An account is known by its student ID; `made' says who made it. What    *)
(* the server does with a batch is Accounts!CommitImport: all of the batch *)
(* in one transaction. The voting window, a lost connection and any other  *)
(* reason to refuse a batch are one failure here.                          *)
(***************************************************************************)
EXTENDS OnePart, Integers, FiniteSets, SequencesExt

CONSTANTS
  Students, NoStudent,   \* student IDs, and an ID that is blank or malformed
  Rosters,               \* what a file may be read as: sequences of rows
  ScriptRosters,         \* and the student IDs the script may read
  IMPORT_USERS_BATCH_SIZE,
  ImportBudget,          \* bound: how many [parse, edit, submit, other] there are
  MaxRows                \* bound: rows in the preview

ASSUME RosterImportAssumption ==
  /\ NoStudent \notin Students
  /\ IMPORT_USERS_BATCH_SIZE \in Nat \ {0}
  /\ Rosters \subseteq Seq([student : Students \union {NoStudent}, hasParseError : BOOLEAN])
  /\ ScriptRosters \subseteq Seq(Students)

VARIABLES
  made,         \* student ID -> who made its account: "none", "page", "script", "other"
  step, records, isParsing, isImporting, importFailed,
  parses,       \* the rosters of the files still being read
  batches,      \* the import under way: payload, start of the batch, and its answer
  toldRows,     \* importedList and skippedList: the rows answered so far, and what became of each
  downloads,    \* the student IDs in some downloaded credentials file
  script,       \* the script: where it is, its snapshot, plan, rows and file
  importPast,   \* history: the answers lost, and the rows valid when submitted
  importBudget

previewVars == <<step, records, isParsing, parses>>
resultVars == <<toldRows, importFailed, downloads>>
rosterImportVars ==
  <<made, previewVars, isImporting, batches, resultVars, script, importPast, importBudget>>

BlankRecord == [student |-> NoStudent, hasParseError |-> FALSE]

NoBatches == [payload |-> <<>>, start |-> 1, phase |-> "idle", answer |-> <<>>]

Pay(what) ==
  /\ importBudget[what] > 0
  /\ importBudget' = [importBudget EXCEPT ![what] = @ - 1]

HasRecordError(rec) == rec.hasParseError \/ rec.student = NoStudent

InvalidCount == Cardinality({i \in DOMAIN records : HasRecordError(records[i])})

StudentsOf(recs) == [i \in DOMAIN recs |-> recs[i].student]

-----------------------------------------------------------------------------
\* The upload: a drop is accepted while another file is being read, a click is not.
ParseFile(roster) ==
  /\ step = 1 /\ Pay("parse")
  /\ isParsing' = TRUE
  /\ parses' = Append(parses, roster)
  /\ UNCHANGED <<made, step, records, isImporting, batches, resultVars, script, importPast>>

\* A file has been read, wherever the page is by then; an empty one, or one that
\* cannot be read, changes nothing.
ParseEnds(i, fails) ==
  /\ i \in DOMAIN parses
  /\ parses' = RemoveAt(parses, i)
  /\ isParsing' = FALSE
  /\ IF fails \/ parses[i] = <<>> THEN UNCHANGED <<step, records>>
     ELSE step' = 2 /\ records' = parses[i]
  /\ UNCHANGED <<made, isImporting, batches, resultVars, script, importPast, importBudget>>

GoToStep(n) ==
  /\ step # 3 /\ ~isImporting /\ n # step
  /\ n = 2 => records # <<>>
  /\ step' = n
  /\ UNCHANGED <<made, records, isParsing, parses, isImporting, batches, resultVars, script,
                 importPast, importBudget>>

ChangeRecords(recs) ==
  /\ step = 2 /\ Pay("edit")
  /\ records' = recs
  /\ UNCHANGED <<made, step, isParsing, parses, isImporting, batches, resultVars, script, importPast>>

\* The table stays editable during an import; an edit clears the row's parse error.
EditRecord(i, s) ==
  i \in DOMAIN records /\ ChangeRecords([records EXCEPT ![i] = [student |-> s, hasParseError |-> FALSE]])

AddStudent == Len(records) < MaxRows /\ ChangeRecords(Append(records, BlankRecord))

DeleteRecord(i) == i \in DOMAIN records /\ ChangeRecords(RemoveAt(records, i))

ResetPreview ==
  /\ step = 2 /\ ~isImporting
  /\ records' = <<>> /\ step' = 1
  /\ UNCHANGED <<made, isParsing, parses, isImporting, batches, resultVars, script, importPast, importBudget>>

-----------------------------------------------------------------------------
\* submitImport(): the lists are cleared and the rows as they are now become the payload.
SubmitImport ==
  /\ step = 2 /\ ~isImporting /\ records # <<>> /\ InvalidCount = 0
  /\ Pay("submit")
  /\ isImporting' = TRUE /\ importFailed' = FALSE
  /\ toldRows' = <<>>
  /\ batches' = [payload |-> StudentsOf(records), start |-> 1, phase |-> "sent", answer |-> <<>>]
  /\ importPast' = [importPast EXCEPT !.submitted = StudentsOf(records)]
  /\ UNCHANGED <<made, previewVars, downloads, script>>

\* users.slice(start, start + IMPORT_USERS_BATCH_SIZE)
NextStart == batches.start + IMPORT_USERS_BATCH_SIZE

BatchOf(rows) == SubSeq(rows, batches.start, IF NextStart - 1 < Len(rows) THEN NextStart - 1 ELSE Len(rows))

\* Mutant: the batch is cut from the valid rows the table has by then.
BatchOfTable == BatchOf(StudentsOf(SelectSeq(records, LAMBDA rec : ~HasRecordError(rec))))

Batch == BatchOf(batches.payload)

\* Mutant: an ID is looked up in the table of users only.
TakesByTable(batch, i) == made[batch[i]] = "none"

\* A row of a batch gets an account unless its ID has one, in the table or earlier in the batch.
Takes(batch, i) == made[batch[i]] = "none" /\ \A j \in 1..(i - 1) : batch[j] # batch[i]

\* The server's side of a batch. Its answer says of every row whether it was imported.
ServeBatch ==
  /\ batches.phase = "sent"
  /\ made' = [s \in Students |-> IF made[s] = "none" /\ s \in ToSet(Batch) THEN "page" ELSE made[s]]
  /\ batches' = [batches EXCEPT !.phase = "served",
                                !.answer = [i \in DOMAIN Batch |-> [student |-> Batch[i],
                                                                    imported |-> Takes(Batch, i)]]]
  /\ UNCHANGED <<previewVars, isImporting, resultVars, script, importPast, importBudget>>

ImportedIn(rows) == {rows[i].student : i \in {j \in DOMAIN rows : rows[j].imported}}

\* The import is over: what it made is downloaded and shown.
\* Mutant: only a complete import downloads its credentials.
EndImportDownloadingWhole(rows, failed) ==
  /\ isImporting' = FALSE /\ batches' = [batches EXCEPT !.phase = "idle", !.answer = <<>>]
  /\ importFailed' = failed
  /\ step' = 3
  /\ downloads' = IF failed THEN downloads ELSE downloads \union ImportedIn(rows)

EndImport(rows, failed) ==
  /\ isImporting' = FALSE /\ batches' = [batches EXCEPT !.phase = "idle", !.answer = <<>>]
  /\ importFailed' = failed
  /\ step' = 3
  /\ downloads' = downloads \union ImportedIn(rows)

BatchAnswered ==
  /\ batches.phase = "served"
  /\ toldRows' = toldRows \o batches.answer
  /\ IF NextStart <= Len(batches.payload)
     THEN /\ batches' = [batches EXCEPT !.start = NextStart, !.phase = "sent", !.answer = <<>>]
          /\ UNCHANGED <<isImporting, importFailed, step, downloads>>
     ELSE EndImport(toldRows', FALSE)
  /\ UNCHANGED <<made, records, isParsing, parses, script, importPast, importBudget>>

\* Mutant: the flag is cleared on the way to the results only.
BatchFailsKeepingFlag ==
  /\ batches.phase \in {"sent", "served"}
  /\ IF toldRows # <<>> THEN EndImport(toldRows, TRUE)
     ELSE /\ batches' = [batches EXCEPT !.phase = "idle", !.answer = <<>>]
          /\ UNCHANGED <<isImporting, importFailed, step, downloads>>
  /\ importPast' = [importPast EXCEPT !.lost = @ \union ImportedIn(batches.answer)]
  /\ UNCHANGED <<made, records, isParsing, parses, toldRows, script, importBudget>>

\* The batch is refused, or its answer is lost after the server made the accounts. The
\* later batches are not sent; with nothing imported or skipped so far the page stays.
BatchFails ==
  /\ batches.phase \in {"sent", "served"}
  /\ IF toldRows # <<>> THEN EndImport(toldRows, TRUE)
     ELSE /\ isImporting' = FALSE /\ batches' = [batches EXCEPT !.phase = "idle", !.answer = <<>>]
          /\ UNCHANGED <<importFailed, step, downloads>>
  /\ importPast' = [importPast EXCEPT !.lost = @ \union ImportedIn(batches.answer)]
  /\ UNCHANGED <<made, records, isParsing, parses, toldRows, script, importBudget>>

\* Somebody registers a student elsewhere.
RegisterElsewhere(s) ==
  /\ made[s] = "none" /\ Pay("other")
  /\ made' = [made EXCEPT ![s] = "other"]
  /\ UNCHANGED <<previewVars, isImporting, batches, resultVars, script, importPast>>

-----------------------------------------------------------------------------
\* The script. It reads the taken IDs, authenticates the administrator, plans, and adds.
ScriptReads(roster, dryRun) ==
  /\ script.phase = "start"
  /\ script' = [script EXCEPT !.phase = "read", !.students = roster, !.dryRun = dryRun,
                              !.taken = {s \in Students : made[s] # "none"}]
  /\ UNCHANGED <<made, previewVars, isImporting, batches, resultVars, importPast, importBudget>>

\* planStudentImports(): the students whose ID was free, each once.
PlanStudentImports(students, taken) ==
  LET plan[n \in 0..Len(students)] ==
        IF n = 0 THEN <<>>
        ELSE IF students[n] \in taken \union ToSet(plan[n - 1]) THEN plan[n - 1]
        ELSE Append(plan[n - 1], students[n])
  IN plan[Len(students)]

ScriptPlans ==
  /\ script.phase = "read"
  /\ script' = [script EXCEPT !.phase = "adding", !.planned = PlanStudentImports(script.students, script.taken)]
  /\ UNCHANGED <<made, previewVars, isImporting, batches, resultVars, importPast, importBudget>>

\* One transaction for one student; a row of the file is written for those it made.
ScriptAdds ==
  /\ script.phase = "adding" /\ script.planned # <<>>
  /\ script.dryRun \/ made[Head(script.planned)] = "none"
  /\ made' = IF script.dryRun THEN made ELSE [made EXCEPT ![Head(script.planned)] = "script"]
  /\ script' = [script EXCEPT !.planned = Tail(@),
                              !.rows = IF script.dryRun THEN @ ELSE Append(@, Head(script.planned))]
  /\ UNCHANGED <<previewVars, isImporting, batches, resultVars, importPast, importBudget>>

\* Mutant: on an error the file is written too, with the student it failed for.
ScriptFailsWriting ==
  /\ script.phase = "adding" /\ script.planned # <<>> /\ ~script.dryRun
  /\ script' = [script EXCEPT !.phase = "failed", !.file = ToSet(Append(script.rows, Head(script.planned)))]
  /\ UNCHANGED <<made, previewVars, isImporting, batches, resultVars, importPast, importBudget>>

\* A transaction fails (the ID or the username was taken since, a voting window opened,
\* the connection is lost): exit(1), and the passwords so far are gone.
ScriptFails ==
  /\ script.phase = "adding" /\ script.planned # <<>> /\ ~script.dryRun
  /\ script' = [script EXCEPT !.phase = "failed"]
  /\ UNCHANGED <<made, previewVars, isImporting, batches, resultVars, importPast, importBudget>>

ScriptWrites ==
  /\ script.phase = "adding" /\ script.planned = <<>>
  /\ script' = [script EXCEPT !.phase = "done", !.file = IF script.dryRun THEN @ ELSE ToSet(script.rows)]
  /\ UNCHANGED <<made, previewVars, isImporting, batches, resultVars, importPast, importBudget>>

-----------------------------------------------------------------------------
RosterImportInit ==
  /\ made = [s \in Students |-> "none"]
  /\ step = 1 /\ records = <<>> /\ isParsing = FALSE /\ parses = <<>>
  /\ isImporting = FALSE /\ importFailed = FALSE
  /\ batches = NoBatches
  /\ toldRows = <<>> /\ downloads = {}
  /\ script = [phase |-> "start", students |-> <<>>, dryRun |-> FALSE, taken |-> {},
               planned |-> <<>>, rows |-> <<>>, file |-> {}]
  /\ importPast = [lost |-> {}, submitted |-> <<>>]
  /\ importBudget = ImportBudget

RosterImportNext ==
  \/ \E roster \in Rosters : ParseFile(roster)
  \/ \E i \in DOMAIN parses, fails \in BOOLEAN : ParseEnds(i, fails)
  \/ \E n \in 1..2 : GoToStep(n)
  \/ \E i \in DOMAIN records, s \in Students \union {NoStudent} : EditRecord(i, s)
  \/ AddStudent
  \/ \E i \in DOMAIN records : DeleteRecord(i)
  \/ ResetPreview
  \/ SubmitImport \/ ServeBatch \/ BatchAnswered \/ BatchFails
  \/ \E s \in Students : RegisterElsewhere(s)
  \/ \E roster \in ScriptRosters, dryRun \in BOOLEAN : ScriptReads(roster, dryRun)
  \/ ScriptPlans \/ ScriptAdds \/ ScriptFails \/ ScriptWrites

\* A request ends, with its answer or by failing, and so does reading a file.
RosterImportFairness ==
  /\ WF_rosterImportVars(At("import") /\ (BatchAnswered \/ BatchFails))
  /\ WF_rosterImportVars(At("import") /\ ServeBatch)
  /\ WF_rosterImportVars(At("import") /\ \E i \in DOMAIN parses, fails \in BOOLEAN : ParseEnds(i, fails))

RosterImportSpec == RosterImportInit /\ [][RosterImportNext]_rosterImportVars

-----------------------------------------------------------------------------
\* The passwords of the accounts the page made are in a downloaded file, or on their way
\* there, unless the answer with them was lost. A failing batch, rows changed during the
\* import and a file read late must not drop those of the batches before.
CredentialsKept ==
  \A s \in Students : made[s] = "page" =>
    \/ s \in downloads \union importPast.lost
    \/ isImporting /\ s \in ImportedIn(toldRows) \union ImportedIn(batches.answer)

\* What was submitted without an error shown is what the server gets: after an import
\* that did not fail every submitted row is imported or skipped, once, in the order of the
\* table; after one that did, the rows of its first batches are.
ImportAccountsForAll ==
  LET all == importPast.submitted
  IN /\ Len(toldRows) <= Len(all) /\ StudentsOf(toldRows) = SubSeq(all, 1, Len(toldRows))
     /\ step = 3 /\ ~isImporting /\ ~importFailed => Len(toldRows) = Len(all)

\* A student shown as imported has an account the page made, and is shown once: a row
\* listed twice, in one batch or in two, does not show two passwords for one account.
ImportedOnce ==
  \A i \in DOMAIN toldRows : toldRows[i].imported =>
    /\ made[toldRows[i].student] = "page"
    /\ \A j \in 1..(i - 1) : toldRows[j].imported => toldRows[j].student # toldRows[i].student

\* credentials.csv lists the accounts the script made, all of them, and no others; a dry
\* run makes none and writes none. When the script fails there is no file.
ScriptCredentials ==
  /\ script.phase = "done" => script.file = {s \in Students : made[s] = "script"}
  /\ script.phase # "done" => script.file = {}
  /\ script.dryRun => \A s \in Students : made[s] # "script"

\* An import and the reading of files come to an end, and the page can be used again.
ImportEnds == []<>(~isImporting /\ ~isParsing)

\* What page and script tell of an import, and the credentials they hand over, agree with
\* the accounts that were made.
ImportCorrect == CredentialsKept /\ ImportAccountsForAll /\ ImportedOnce /\ ScriptCredentials
=============================================================================
