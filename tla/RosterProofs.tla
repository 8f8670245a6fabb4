----------------------------- MODULE RosterProofs -----------------------------
(***************************************************************************)
(* Theorems about rosters. How they are read: for any cells of a CSV file, *)
(* any number of students and any loss of a line, the readers of the page  *)
(* and of the script tell what was written, or that they cannot. And how   *)
(* their students are added: for any rosters, edits, sizes of batches and  *)
(* orders of steps.                                                        *)
(***************************************************************************)
EXTENDS RosterImport, RosterParsing, FiniteSetTheorems, WellFoundedInduction, TLAPS

\* What holds of 0 and of a number with the one before it holds up to L.
LEMMA UpTo ==
  ASSUME NEW L \in Nat, NEW P, 0 \in P, \A k \in 1..L : k - 1 \in P => k \in P
  PROVE  \A k \in 0..L : k \in P
<1> DEFINE bad == {k \in Nat : k \in 0..L /\ k \notin P}
<1>1. ASSUME bad # {} PROVE FALSE
  <2>1. bad \subseteq Nat
    OBVIOUS
  <2> HIDE DEF bad
  <2>2. PICK m \in bad : \A y \in bad : ~(<<y, m>> \in OpToRel(<, Nat))
    BY <1>1, <2>1, NatLessThanWellFounded, WFMin
  <2>3. \A y \in bad : ~(y < m)
    BY <2>1, <2>2 DEF OpToRel
  <2>4. m \in Nat /\ m \in 0..L /\ m \notin P
    BY DEF bad
  <2>5. m # 0 /\ m - 1 \in Nat /\ m - 1 < m /\ m \in 1..L /\ m - 1 \in 0..L
    BY <2>4
  <2>6. m - 1 \in P
    BY <2>3, <2>5 DEF bad
  <2>7. QED
    BY <2>4, <2>5, <2>6
<1>2. QED
  BY <1>1

-----------------------------------------------------------------------------
(* Reading a text of characters. *)

\* The states of the reader after each prefix of a text, up to its first n characters.
Readings(after, text, n) ==
  after = [k \in 0..n |-> IF k = 0 THEN CsvStart ELSE ReadCharacter(after[k - 1], text[k])]

\* Every text is read up to any of its characters.
LEMMA ReadingsExist ==
  ASSUME NEW S, NEW text \in Seq(S)
  PROVE  \E after : Readings(after, text, Len(text))
<1> DEFINE L == Len(text)
           P == {n \in Nat : \E after : Readings(after, text, n)}
<1>1. L \in Nat
  OBVIOUS
<1>2. 0 \in P
  <2> DEFINE after == [k \in 0..0 |-> CsvStart]
  <2>1. \A k \in 0..0 : k = 0
    OBVIOUS
  <2>2. Readings(after, text, 0)
    BY <2>1 DEF Readings
  <2>3. QED
    BY <2>2
<1>3. ASSUME NEW n \in 1..L, n - 1 \in P PROVE n \in P
  <2>1. n \in Nat /\ n # 0 /\ n - 1 \in Nat /\ 0..n = (0..(n - 1)) \union {n} /\ n \notin 0..(n - 1)
        /\ n - 1 \in 0..(n - 1)
    OBVIOUS
  <2>2. PICK before : Readings(before, text, n - 1)
    BY <1>3
  <2> DEFINE after == [k \in 0..n |-> IF k = n THEN ReadCharacter(before[n - 1], text[n]) ELSE before[k]]
  <2>3. \A k \in 0..(n - 1) : before[k] = IF k = 0 THEN CsvStart ELSE ReadCharacter(before[k - 1], text[k])
    BY <2>2 DEF Readings
  <2>4. \A k \in 0..(n - 1) : after[k] = before[k]
    BY <2>1
  <2>5. after[n] = ReadCharacter(before[n - 1], text[n])
    BY <2>1
  <2>6. after = [k \in 0..n |-> after[k]]
    OBVIOUS
  <2> HIDE DEF after
  <2>7. \A k \in 0..n : after[k] = IF k = 0 THEN CsvStart ELSE ReadCharacter(after[k - 1], text[k])
    <3> SUFFICES ASSUME NEW k \in 0..n
                 PROVE  after[k] = IF k = 0 THEN CsvStart ELSE ReadCharacter(after[k - 1], text[k])
      OBVIOUS
    <3>1. CASE k = n
      BY <2>1, <2>4, <2>5, <3>1
    <3>2. CASE k # n
      <4>1. k \in 0..(n - 1) /\ (k # 0 => k - 1 \in 0..(n - 1))
        BY <2>1, <3>2
      <4>2. after[k] = before[k] /\ (k # 0 => after[k - 1] = before[k - 1])
        BY <2>4, <4>1
      <4>3. QED
        BY <2>3, <4>1, <4>2
    <3>3. QED
      BY <3>1, <3>2
  <2>8. Readings(after, text, n)
    BY <2>6, <2>7 DEF Readings
  <2>9. QED
    BY <2>1, <2>8
<1> HIDE DEF P
<1>4. L \in P
  <2> HIDE DEF L
  <2>1. \A n \in 0..L : n \in P
    BY <1>1, <1>2, <1>3, UpTo
  <2>2. QED
    BY <1>1, <2>1
<1>5. QED
  BY <1>4 DEF P

\* A text is read to its end, or it is read up to its last character and that is read.
LEMMA ReadTextSteps ==
  ASSUME NEW S, NEW text \in Seq(S)
  PROVE  /\ text = << >> => ReadText(text) = CsvStart
         /\ \A c \in S : ReadText(Append(text, c)) = ReadCharacter(ReadText(text), c)
<1> DEFINE reading(t) == CHOOSE after : Readings(after, t, Len(t))
<1>1. ASSUME NEW t \in Seq(S)
      PROVE  /\ ReadText(t) = reading(t)[Len(t)]
             /\ \A n \in 0..Len(t) :
                  reading(t)[n] = IF n = 0 THEN CsvStart ELSE ReadCharacter(reading(t)[n - 1], t[n])
  <2>1. Readings(reading(t), t, Len(t))
    BY ReadingsExist
  <2>2. ReadText(t) = reading(t)[Len(t)]
    BY DEF ReadText, Readings
  <2> DEFINE r == reading(t)
  <2> HIDE DEF r, reading
  <2>3. \A n \in 0..Len(t) : r[n] = IF n = 0 THEN CsvStart ELSE ReadCharacter(r[n - 1], t[n])
    <3>1. Readings(r, t, Len(t))
      BY <2>1 DEF r
    <3>2. QED
      BY <3>1 DEF Readings
  <2>4. QED
    BY <2>2, <2>3 DEF r
<1> HIDE DEF reading
<1>2. text = << >> => ReadText(text) = CsvStart
  <2>1. ReadText(text) = reading(text)[Len(text)] /\ 0 \in 0..Len(text)
        /\ reading(text)[0] = IF 0 = 0 THEN CsvStart ELSE ReadCharacter(reading(text)[0 - 1], text[0])
    BY <1>1
  <2>2. text = << >> => Len(text) = 0
    OBVIOUS
  <2>3. QED
    BY <2>1, <2>2
<1>3. ASSUME NEW c \in S PROVE ReadText(Append(text, c)) = ReadCharacter(ReadText(text), c)
  <2> DEFINE more == Append(text, c)
             L == Len(text)
             f == reading(text)
             g == reading(more)
             P == {n \in Nat : g[n] = f[n]}
  <2>1. more \in Seq(S) /\ Len(more) = L + 1 /\ L \in Nat /\ more[L + 1] = c
        /\ \A n \in 1..L : more[n] = text[n]
    OBVIOUS
  <2>2. ReadText(text) = f[L] /\ \A n \in 0..L : f[n] = IF n = 0 THEN CsvStart ELSE ReadCharacter(f[n - 1], text[n])
    BY <1>1
  <2>3. ReadText(more) = g[L + 1]
        /\ \A n \in 0..(L + 1) : g[n] = IF n = 0 THEN CsvStart ELSE ReadCharacter(g[n - 1], more[n])
    BY <1>1, <2>1
  <2> HIDE DEF more, L, f, g
  <2>4. 0 \in P
    BY <2>1, <2>2, <2>3
  <2>5. ASSUME NEW n \in 1..L, n - 1 \in P PROVE n \in P
    <3>1. n \in 0..L /\ n \in 0..(L + 1) /\ n # 0 /\ n \in Nat
      BY <2>1
    <3>2. f[n] = ReadCharacter(f[n - 1], text[n]) /\ g[n] = ReadCharacter(g[n - 1], more[n])
      BY <2>2, <2>3, <3>1
    <3>3. QED
      BY <2>1, <2>5, <3>1, <3>2
  <2> HIDE DEF P
  <2>6. L \in P
    <3>1. \A n \in 0..L : n \in P
      BY <2>1, <2>4, <2>5, UpTo
    <3>2. QED
      BY <2>1, <3>1
  <2>7. g[L + 1] = ReadCharacter(g[L], c)
    <3>1. ASSUME NEW n, n = L + 1 PROVE g[n] = ReadCharacter(g[L], more[n])
      <4>1. n \in 0..(L + 1) /\ n # 0 /\ n - 1 = L
        BY <2>1, <3>1
      <4>2. g[n] = ReadCharacter(g[n - 1], more[n])
        BY <2>3, <4>1
      <4>3. QED
        BY <4>1, <4>2
    <3>2. QED
      BY <2>1, <3>1
  <2>8. QED
    BY <2>2, <2>3, <2>6, <2>7 DEF P, more
<1>4. QED
  BY <1>2, <1>3

\* A state of the reader that has not refused its text.
State(rows, row, field, mode, refused) ==
  [rows |-> rows, row |-> row, field |-> field, mode |-> mode, refused |-> refused]

NotRefused == FALSE
Reading(rows, row, field, mode) == State(rows, row, field, mode, NotRefused)

\* The values a state is changed to.
WithMode(s, m) == [s EXCEPT !.mode = m]
WithCharacter(s, c) == [s EXCEPT !.field = Append(@, c)]
AsRefused(s) == [s EXCEPT !.refused = TRUE]
WithRow(s, row, field, m) == [s EXCEPT !.row = row, !.field = field, !.mode = m]
WithRows(s, rows, row, m) == [s EXCEPT !.rows = rows, !.row = row, !.mode = m]

\* What the changes of a state make of it, field by field.
LEMMA ChangedState ==
  ASSUME NEW rows, NEW row, NEW field, NEW mode, NEW refused
  PROVE  LET s == State(rows, row, field, mode, refused)
         IN /\ \A m : WithMode(s, m) = State(rows, row, field, m, refused)
            /\ \A c : WithCharacter(s, c) = State(rows, row, Append(field, c), mode, refused)
            /\ \A x, y, m : WithRow(s, x, y, m) = State(rows, x, y, m, refused)
            /\ \A x, y, m : WithRows(s, x, y, m) = State(x, y, field, m, refused)
<1> DEFINE s == State(rows, row, field, mode, refused)
<1>1. ASSUME NEW m PROVE WithMode(s, m) = State(rows, row, field, m, refused)
  BY DEF State, WithMode
<1>2. ASSUME NEW c PROVE WithCharacter(s, c) = State(rows, row, Append(field, c), mode, refused)
  <2> DEFINE longer == Append(field, c)
  <2>1. s.field = field
    BY DEF State
  <2>2. WithCharacter(s, c) = [s EXCEPT !.field = longer]
    BY <2>1 DEF WithCharacter
  <2> HIDE DEF longer
  <2>3. [s EXCEPT !.field = longer] = State(rows, row, longer, mode, refused)
    BY DEF State
  <2>4. QED
    BY <2>2, <2>3 DEF longer
<1>3. ASSUME NEW x, NEW y, NEW m PROVE WithRow(s, x, y, m) = State(rows, x, y, m, refused)
  <2> DEFINE first == [s EXCEPT !.row = x]
             second == [first EXCEPT !.field = y]
  <2>1. first = State(rows, x, field, mode, refused)
    BY DEF State
  <2>2. WithRow(s, x, y, m) = WithMode(second, m)
    BY DEF WithRow, WithMode
  <2> HIDE DEF first
  <2>3. second = State(rows, x, y, mode, refused)
    BY <2>1 DEF State
  <2> HIDE DEF second
  <2>4. WithMode(second, m) = State(rows, x, y, m, refused)
    BY <2>3 DEF State, WithMode
  <2>5. QED
    BY <2>2, <2>4
<1>4. ASSUME NEW x, NEW y, NEW m PROVE WithRows(s, x, y, m) = State(x, y, field, m, refused)
  <2> DEFINE first == [s EXCEPT !.rows = x]
             second == [first EXCEPT !.row = y]
  <2>1. first = State(x, row, field, mode, refused)
    BY DEF State
  <2>2. WithRows(s, x, y, m) = WithMode(second, m)
    BY DEF WithRows, WithMode
  <2> HIDE DEF first
  <2>3. second = State(x, y, field, mode, refused)
    BY <2>1 DEF State
  <2> HIDE DEF second
  <2>4. WithMode(second, m) = State(x, y, field, m, refused)
    BY <2>3 DEF State, WithMode
  <2>5. QED
    BY <2>2, <2>4
<1>5. QED
  BY <1>1, <1>2, <1>3, <1>4

\* The same for a state that is not refused.
LEMMA ChangedReading ==
  ASSUME NEW rows, NEW row, NEW field, NEW mode
  PROVE  LET s == Reading(rows, row, field, mode)
         IN /\ s.rows = rows /\ s.row = row /\ s.field = field /\ s.mode = mode /\ ~s.refused
            /\ \A m : WithMode(s, m) = Reading(rows, row, field, m)
            /\ \A c : WithCharacter(s, c) = Reading(rows, row, Append(field, c), mode)
            /\ AsRefused(s).refused
<1> DEFINE s == Reading(rows, row, field, mode)
<1>1. s.rows = rows /\ s.row = row /\ s.field = field /\ s.mode = mode /\ ~s.refused
  BY DEF Reading, State, NotRefused
<1>2. ASSUME NEW m PROVE WithMode(s, m) = Reading(rows, row, field, m)
  BY ChangedState DEF Reading
<1>3. ASSUME NEW c PROVE WithCharacter(s, c) = Reading(rows, row, Append(field, c), mode)
  BY ChangedState DEF Reading
<1>4. AsRefused(s).refused
  BY DEF AsRefused, Reading, State, NotRefused
<1>5. QED
  BY <1>1, <1>2, <1>3, <1>4

\* A state that is not refused has its fields.
LEMMA ReadingFields ==
  ASSUME NEW rows, NEW row, NEW field, NEW mode, NEW s, s = Reading(rows, row, field, mode)
  PROVE  s.rows = rows /\ s.row = row /\ s.field = field /\ s.mode = mode /\ ~s.refused
BY DEF Reading, State, NotRefused

\* A cell is trimmed and pushed, and so is a row.
LEMMA PushedCell ==
  ASSUME NEW rows, NEW row, NEW field, NEW mode
  PROVE  PushCell(Reading(rows, row, field, mode)) = Reading(rows, Append(row, Trimmed(field)), << >>, "bare")
<1> DEFINE s == Reading(rows, row, field, mode)
           longer == Append(row, Trimmed(field))
           none == << >>
<1>1. s.field = field /\ s.row = row
  BY DEF Reading, State, NotRefused
<1>2. PushCell(s) = WithRow(s, longer, none, "bare")
  <2> HIDE DEF s
  <2>1. PushCell(s) = [s EXCEPT !.row = Append(s.row, Trimmed(s.field)), !.field = << >>, !.mode = "bare"]
    BY DEF PushCell
  <2>2. QED
    BY <1>1, <2>1 DEF WithRow
<1> HIDE DEF longer, none
<1>3. WithRow(s, longer, none, "bare") = Reading(rows, longer, none, "bare")
  BY ChangedState DEF Reading
<1>4. QED
  BY <1>2, <1>3 DEF longer, none

\* Where a row ends, it is added to the rows with the cell under way.
LEMMA PushedRow ==
  ASSUME NEW rows, NEW row, NEW field, NEW mode, NEW m
  PROVE  PushRow(Reading(rows, row, field, mode), m)
           = Reading(Append(rows, Append(row, Trimmed(field))), << >>, << >>, m)
<1> DEFINE longer == Append(row, Trimmed(field))
           none == << >>
           cell == Reading(rows, longer, none, "bare")
           more == Append(rows, longer)
           s == Reading(rows, row, field, mode)
<1>1. PushCell(s) = cell
  BY PushedCell
<1>2. cell.rows = rows /\ cell.row = longer
  BY DEF Reading, State, NotRefused
<1>3. PushRow(s, m) = WithRows(cell, more, none, m)
  <2> HIDE DEF s, cell, longer
  <2>1. PushRow(s, m) = [PushCell(s) EXCEPT !.rows = Append(PushCell(s).rows, PushCell(s).row), !.row = << >>, !.mode = m]
    BY DEF PushRow
  <2>2. QED
    BY <1>1, <1>2, <2>1 DEF WithRows
<1> HIDE DEF more, longer, none
<1>4. WithRows(cell, more, none, m) = Reading(more, none, none, m)
  BY ChangedState DEF Reading
<1>5. QED
  BY <1>3, <1>4 DEF more, longer, none

\* What a reader does with a character, by what it is in the middle of.
LEMMA ReadInQuotes ==
  ASSUME NEW rows, NEW row, NEW field, NEW c
  PROVE  ReadCharacter(Reading(rows, row, field, "quoted"), c) =
           IF c = "quote" THEN Reading(rows, row, field, "closed")
           ELSE Reading(rows, row, Append(field, c), "quoted")
<1> DEFINE s == Reading(rows, row, field, "quoted")
           closed == WithMode(s, "closed")
           longer == WithCharacter(s, c)
<1>1. s.mode = "quoted" /\ ~s.refused /\ closed = Reading(rows, row, field, "closed")
      /\ longer = Reading(rows, row, Append(field, c), "quoted")
  BY ChangedReading
<1>2. ReadQuoted(s, c) = IF c = "quote" THEN closed ELSE longer
  BY DEF ReadQuoted, WithMode, WithCharacter
<1> HIDE DEF closed, longer, s
<1>3. ReadCharacter(s, c) = ReadQuoted(s, c)
  BY <1>1 DEF ReadCharacter
<1>4. QED
  BY <1>1, <1>2, <1>3 DEF s

\* After a quote that may end a cell another quote is a character; anything else ends the
\* cell.
LEMMA ReadAfterQuotes ==
  ASSUME NEW rows, NEW row, NEW field
  PROVE  LET s == Reading(rows, row, field, "closed")
             ended(m) == Reading(Append(rows, Append(row, Trimmed(field))), << >>, << >>, m)
         IN /\ ReadCharacter(s, "quote") = Reading(rows, row, Append(field, "quote"), "quoted")
            /\ ReadCharacter(s, "comma") = Reading(rows, Append(row, Trimmed(field)), << >>, "bare")
            /\ ReadCharacter(s, "cr") = ended("cr")
            /\ ReadCharacter(s, "lf") = ended("bare")
<1> DEFINE s == Reading(rows, row, field, "closed")
           ended(m) == Reading(Append(rows, Append(row, Trimmed(field))), << >>, << >>, m)
           longer == WithMode(WithCharacter(s, "quote"), "quoted")
           refused == AsRefused(s)
<1>1. s.mode = "closed" /\ ~s.refused /\ longer = Reading(rows, row, Append(field, "quote"), "quoted")
  BY ChangedReading
<1>2. /\ PushCell(s) = Reading(rows, Append(row, Trimmed(field)), << >>, "bare")
      /\ PushRow(s, "cr") = ended("cr") /\ PushRow(s, "bare") = ended("bare")
  BY PushedCell, PushedRow
<1>3. ASSUME NEW c
      PROVE  ReadClosed(s, c) = CASE c = "quote" -> longer [] c = "comma" -> PushCell(s)
                                  [] c = "cr" -> PushRow(s, "cr") [] c = "lf" -> PushRow(s, "bare")
                                  [] OTHER -> refused
  BY DEF ReadClosed, WithMode, WithCharacter, AsRefused
<1> HIDE DEF s, longer, refused, ended
<1>4. ASSUME NEW c PROVE ReadCharacter(s, c) = ReadClosed(s, c)
  BY <1>1 DEF ReadCharacter
<1>5. /\ ReadClosed(s, "quote") = longer /\ ReadClosed(s, "comma") = PushCell(s)
      /\ ReadClosed(s, "cr") = PushRow(s, "cr") /\ ReadClosed(s, "lf") = PushRow(s, "bare")
  BY <1>3
<1>6. QED
  BY <1>1, <1>2, <1>4, <1>5 DEF s, ended

\* What a character does outside quotes.
LEMMA ReadOutsideQuotes ==
  ASSUME NEW rows, NEW row, NEW field, NEW mode \in {"bare", "cr"}
  PROVE  LET s == Reading(rows, row, field, mode)
             ended(m) == Reading(Append(rows, Append(row, Trimmed(field))), << >>, << >>, m)
         IN /\ field = << >> => ReadCharacter(s, "quote") = Reading(rows, row, field, "quoted")
            /\ field # << >> => ReadCharacter(s, "quote").refused
            /\ ReadCharacter(s, "comma") = Reading(rows, Append(row, Trimmed(field)), << >>, "bare")
            /\ ReadCharacter(s, "cr") = ended("cr")
            /\ mode = "bare" => ReadCharacter(s, "lf") = ended("bare")
            /\ mode = "cr" => ReadCharacter(s, "lf") = Reading(rows, row, field, "bare")
            /\ \A c \in BareCharacters : ReadCharacter(s, c) = Reading(rows, row, Append(field, c), "bare")
<1> DEFINE s == Reading(rows, row, field, mode)
           ended(m) == Reading(Append(rows, Append(row, Trimmed(field))), << >>, << >>, m)
           longer(c) == WithMode(WithCharacter(s, c), "bare")
           quoted == WithMode(s, "quoted")
           bare == WithMode(s, "bare")
           refused == AsRefused(s)
<1>1. /\ s.mode = mode /\ s.field = field /\ ~s.refused
      /\ quoted = Reading(rows, row, field, "quoted") /\ bare = Reading(rows, row, field, "bare")
      /\ refused.refused
  BY ChangedReading
<1>2. ASSUME NEW c PROVE longer(c) = Reading(rows, row, Append(field, c), "bare")
  BY ChangedReading
<1>3. /\ PushCell(s) = Reading(rows, Append(row, Trimmed(field)), << >>, "bare")
      /\ PushRow(s, "cr") = ended("cr") /\ PushRow(s, "bare") = ended("bare")
  BY PushedCell, PushedRow
<1>4. ASSUME NEW c
      PROVE  ReadBare(s, c) = CASE c = "quote" -> IF s.field = << >> THEN quoted ELSE refused
                                [] c = "comma" -> PushCell(s) [] c = "cr" -> PushRow(s, "cr")
                                [] c = "lf" -> IF s.mode = "cr" THEN bare ELSE PushRow(s, "bare")
                                [] OTHER -> longer(c)
  BY DEF ReadBare, WithMode, WithCharacter, AsRefused
<1> HIDE DEF s, longer, quoted, bare, refused, ended
<1>5. ASSUME NEW c PROVE ReadCharacter(s, c) = ReadBare(s, c)
  BY <1>1 DEF ReadCharacter
<1>6. /\ s.field = << >> => ReadBare(s, "quote") = quoted
      /\ s.field # << >> => ReadBare(s, "quote") = refused
      /\ ReadBare(s, "comma") = PushCell(s) /\ ReadBare(s, "cr") = PushRow(s, "cr")
      /\ s.mode = "cr" => ReadBare(s, "lf") = bare
      /\ s.mode = "bare" => ReadBare(s, "lf") = PushRow(s, "bare")
      /\ \A c \in BareCharacters : ReadBare(s, c) = longer(c)
  BY <1>4 DEF BareCharacters
<1>7. QED
  BY <1>1, <1>2, <1>3, <1>5, <1>6 DEF s, ended

\* Any other character is added to the cell.
LEMMA ReadPlain ==
  ASSUME NEW rows, NEW row, NEW field, NEW mode \in {"bare", "cr"}, NEW c \in BareCharacters
  PROVE  ReadCharacter(Reading(rows, row, field, mode), c) = Reading(rows, row, Append(field, c), "bare")
BY ReadOutsideQuotes

\* Texts after one another.
LEMMA TextsAppended ==
  ASSUME NEW S, NEW text \in Seq(S)
  PROVE  /\ text \o << >> = text
         /\ \A c \in S : text \o <<c>> = Append(text, c) /\ text \o <<c>> \in Seq(S)
         /\ \A c, d \in S : text \o <<c, d>> = Append(Append(text, c), d)
         /\ \A more, last \in Seq(S) : (text \o more) \o last = text \o (more \o last)
<1>1. text \o << >> = text
  OBVIOUS
<1>2. ASSUME NEW c \in S PROVE text \o <<c>> = Append(text, c) /\ text \o <<c>> \in Seq(S)
  OBVIOUS
<1>3. ASSUME NEW c \in S, NEW d \in S PROVE text \o <<c, d>> = Append(Append(text, c), d)
  OBVIOUS
<1>4. ASSUME NEW more \in Seq(S), NEW last \in Seq(S) PROVE (text \o more) \o last = text \o (more \o last)
  OBVIOUS
<1>5. QED
  BY <1>1, <1>2, <1>3, <1>4

\* A sequence is all of it but the last element, and that.
LEMMA CellPrefixes ==
  ASSUME NEW S, NEW cell \in Seq(S)
  PROVE  /\ SubSeq(cell, 1, 0) = << >> /\ SubSeq(cell, 1, Len(cell)) = cell
         /\ \A n \in 1..Len(cell) :
              /\ SubSeq(cell, 1, n) = Append(SubSeq(cell, 1, n - 1), cell[n])
              /\ SubSeq(cell, 1, n - 1) \in Seq(S) /\ cell[n] \in S
<1>1. SubSeq(cell, 1, 0) = << >> /\ SubSeq(cell, 1, Len(cell)) = cell
  OBVIOUS
<1>2. ASSUME NEW n \in 1..Len(cell)
      PROVE  /\ SubSeq(cell, 1, n) = Append(SubSeq(cell, 1, n - 1), cell[n])
             /\ SubSeq(cell, 1, n - 1) \in Seq(S) /\ cell[n] \in S
  OBVIOUS
<1>3. QED
  BY <1>1, <1>2

\* A cell without quotes is read as it is.
LEMMA BareCellRead ==
  ASSUME NEW text \in Seq(Characters), NEW cell \in Seq(BareCharacters), NEW rows, NEW row,
         NEW mode \in {"bare", "cr"}, ReadText(text) = Reading(rows, row, << >>, mode)
  PROVE  ReadText(text \o cell) = Reading(rows, row, cell, IF cell = << >> THEN mode ELSE "bare")
<1> DEFINE L == Len(cell)
           p(n) == SubSeq(cell, 1, n)
           P == {n \in 0..L : /\ text \o p(n) \in Seq(Characters)
                              /\ ReadText(text \o p(n)) = Reading(rows, row, p(n), IF n = 0 THEN mode ELSE "bare")}
<1>1. L \in Nat /\ BareCharacters \subseteq Characters
  BY DEF Characters
<1>2. 0 \in P
  <2>1. p(0) = << >> /\ 0 \in 0..L
    BY CellPrefixes
  <2>2. text \o << >> = text
    BY TextsAppended
  <2>3. QED
    BY <2>1, <2>2
<1>3. ASSUME NEW n \in 1..L, n - 1 \in P PROVE n \in P
  <2>1. p(n) = Append(p(n - 1), cell[n]) /\ p(n - 1) \in Seq(BareCharacters) /\ cell[n] \in BareCharacters
        /\ cell[n] \in Characters /\ n # 0 /\ n \in 0..L
    BY <1>1, CellPrefixes
  <2> DEFINE c == cell[n]
             before == p(n - 1)
             was == text \o before
             m == IF n - 1 = 0 THEN mode ELSE "bare"
  <2>2. was \in Seq(Characters) /\ ReadText(was) = Reading(rows, row, before, m) /\ m \in {"bare", "cr"}
    BY <1>3
  <2> HIDE DEF c, before, p
  <2>3. text \o Append(before, c) = Append(was, c)
    BY <1>1, <2>1 DEF c, before
  <2> HIDE DEF was
  <2>4. ReadText(Append(was, c)) = ReadCharacter(ReadText(was), c)
    BY <2>1, <2>2, ReadTextSteps DEF c
  <2> HIDE DEF m
  <2>5. ReadCharacter(ReadText(was), c) = Reading(rows, row, Append(before, c), "bare")
    <3>1. c \in BareCharacters
      BY <2>1 DEF c
    <3>2. ReadCharacter(Reading(rows, row, before, m), c) = Reading(rows, row, Append(before, c), "bare")
      BY <2>2, <3>1, ReadPlain
    <3>3. QED
      BY <2>2, <3>2
  <2>6. Append(was, c) \in Seq(Characters)
    BY <2>1, <2>2 DEF c
  <2>7. QED
    BY <2>1, <2>3, <2>4, <2>5, <2>6 DEF c, before
<1> HIDE DEF P
<1>4. \A n \in 0..L : n \in P
  <2> HIDE DEF L
  <2>1. QED
    BY <1>1, <1>2, <1>3, UpTo
<1>5. L \in P /\ p(L) = cell /\ (L = 0 <=> cell = << >>)
  BY <1>1, <1>4, CellPrefixes
<1>6. QED
  BY <1>5 DEF P

\* What follows a cell ends it, and the row if it is the end of a line.
LEMMA SeparatorRead ==
  ASSUME NEW text \in Seq(Characters), NEW separator \in Separators, NEW rows, NEW row, NEW field,
         NEW mode \in {"bare", "cr", "closed"}, ReadText(text) = Reading(rows, row, field, mode),
         mode = "cr" => separator # <<"lf">>
  PROVE  LET longer == Append(row, Trimmed(field))
         IN ReadText(text \o separator) =
              IF separator = <<"comma">> THEN Reading(rows, longer, << >>, "bare")
              ELSE Reading(Append(rows, longer), << >>, << >>, IF separator = <<"cr">> THEN "cr" ELSE "bare")
<1> DEFINE longer == Append(row, Trimmed(field))
           ended(m) == Reading(Append(rows, longer), << >>, << >>, m)
<1>1. /\ ReadCharacter(ReadText(text), "comma") = Reading(rows, longer, << >>, "bare")
      /\ ReadCharacter(ReadText(text), "cr") = ended("cr")
      /\ mode # "cr" => ReadCharacter(ReadText(text), "lf") = ended("bare")
  <2>1. CASE mode \in {"bare", "cr"}
    BY <2>1, ReadOutsideQuotes
  <2>2. CASE mode = "closed"
    BY <2>2, ReadAfterQuotes
  <2>3. QED
    BY <2>1, <2>2
<1>2. ReadCharacter(ended("cr"), "lf") = ended("bare")
  BY ReadOutsideQuotes
<1> HIDE DEF longer, ended
<1>3. ASSUME NEW t \in Seq(Characters), NEW c \in Characters
      PROVE  /\ t \o <<c>> = Append(t, c) /\ t \o <<c>> \in Seq(Characters)
             /\ ReadText(t \o <<c>>) = ReadCharacter(ReadText(t), c)
  BY TextsAppended, ReadTextSteps
<1>4. {"comma", "cr", "lf"} \subseteq Characters
  BY DEF Characters
<1>5. CASE separator = <<"comma">>
  BY <1>1, <1>3, <1>4, <1>5 DEF longer
<1>6. CASE separator = <<"lf">>
  <2>1. separator # <<"comma">> /\ separator # <<"cr">>
    BY <1>6
  <2>2. QED
    BY <1>1, <1>3, <1>4, <1>6, <2>1 DEF longer, ended
<1>7. CASE separator = <<"cr">>
  <2>1. separator # <<"comma">>
    BY <1>7
  <2>2. QED
    BY <1>1, <1>3, <1>4, <1>7, <2>1 DEF longer, ended
<1>8. CASE separator = <<"cr", "lf">>
  <2>1. separator # <<"comma">> /\ separator # <<"cr">>
    BY <1>8
  <2>2. text \o separator = (text \o <<"cr">>) \o <<"lf">>
    BY <1>3, <1>4, <1>8, TextsAppended
  <2>3. ReadText(text \o <<"cr">>) = ended("cr") /\ text \o <<"cr">> \in Seq(Characters)
    BY <1>1, <1>3, <1>4
  <2>4. ReadText((text \o <<"cr">>) \o <<"lf">>) = ended("bare")
    BY <1>2, <1>3, <1>4, <2>3
  <2>5. QED
    BY <2>1, <2>2, <2>4 DEF longer, ended
<1>9. QED
  BY <1>5, <1>6, <1>7, <1>8 DEF Separators

\* The writing of a cell in quotes after each prefix of it.
Doubling(d, cell, n) ==
  d = [k \in 0..n |-> IF k = 0 THEN << >>
                      ELSE d[k - 1] \o (IF cell[k] = "quote" THEN <<"quote", "quote">> ELSE <<cell[k]>>)]

\* The quotes of every cell can be doubled.
LEMMA DoublingExists ==
  ASSUME NEW S, NEW cell \in Seq(S)
  PROVE  \E d : Doubling(d, cell, Len(cell))
<1> DEFINE L == Len(cell)
           twice(k) == IF cell[k] = "quote" THEN <<"quote", "quote">> ELSE <<cell[k]>>
           P == {n \in Nat : \E d : Doubling(d, cell, n)}
<1>1. L \in Nat
  OBVIOUS
<1>2. 0 \in P
  <2> DEFINE d == [k \in 0..0 |-> << >>]
  <2>1. \A k \in 0..0 : k = 0
    OBVIOUS
  <2>2. Doubling(d, cell, 0)
    BY <2>1 DEF Doubling
  <2>3. QED
    BY <2>2
<1>3. ASSUME NEW n \in 1..L, n - 1 \in P PROVE n \in P
  <2>1. n \in Nat /\ n # 0 /\ n - 1 \in Nat /\ 0..n = (0..(n - 1)) \union {n} /\ n \notin 0..(n - 1)
        /\ n - 1 \in 0..(n - 1)
    OBVIOUS
  <2>2. PICK before : Doubling(before, cell, n - 1)
    BY <1>3
  <2> DEFINE d == [k \in 0..n |-> IF k = n THEN before[n - 1] \o twice(n) ELSE before[k]]
  <2>3. \A k \in 0..(n - 1) : before[k] = IF k = 0 THEN << >> ELSE before[k - 1] \o twice(k)
    BY <2>2 DEF Doubling
  <2>4. \A k \in 0..(n - 1) : d[k] = before[k]
    BY <2>1
  <2>5. d[n] = before[n - 1] \o twice(n)
    BY <2>1
  <2>6. d = [k \in 0..n |-> d[k]]
    OBVIOUS
  <2> HIDE DEF d, twice
  <2>7. \A k \in 0..n : d[k] = IF k = 0 THEN << >> ELSE d[k - 1] \o twice(k)
    <3> SUFFICES ASSUME NEW k \in 0..n PROVE d[k] = IF k = 0 THEN << >> ELSE d[k - 1] \o twice(k)
      OBVIOUS
    <3>1. CASE k = n
      BY <2>1, <2>4, <2>5, <3>1
    <3>2. CASE k # n
      <4>1. k \in 0..(n - 1) /\ (k # 0 => k - 1 \in 0..(n - 1))
        BY <2>1, <3>2
      <4>2. d[k] = before[k] /\ (k # 0 => d[k - 1] = before[k - 1])
        BY <2>4, <4>1
      <4>3. QED
        BY <2>3, <4>1, <4>2
    <3>3. QED
      BY <3>1, <3>2
  <2>8. Doubling(d, cell, n)
    BY <2>6, <2>7 DEF Doubling, twice
  <2>9. QED
    BY <2>1, <2>8
<1> HIDE DEF P
<1>4. \A n \in 0..L : n \in P
  <2> HIDE DEF L
  <2>1. QED
    BY <1>1, <1>2, <1>3, UpTo
<1>5. QED
  BY <1>1, <1>4 DEF P

\* A cell in quotes is read as what was quoted.
LEMMA QuotedCellRead ==
  ASSUME NEW text \in Seq(Characters), NEW cell \in Seq(Characters), NEW rows, NEW row,
         NEW mode \in {"bare", "cr"}, ReadText(text) = Reading(rows, row, << >>, mode)
  PROVE  /\ Quoted(cell) \in Seq(Characters) /\ Quoted(cell) # << >> /\ Head(Quoted(cell)) = "quote"
         /\ ReadText(text \o Quoted(cell)) = Reading(rows, row, cell, "closed")
<1> DEFINE L == Len(cell)
           d == CHOOSE x : Doubling(x, cell, Len(cell))
           twice(k) == IF cell[k] = "quote" THEN <<"quote", "quote">> ELSE <<cell[k]>>
           p(n) == SubSeq(cell, 1, n)
           opened == text \o <<"quote">>
<1>1. L \in Nat /\ "quote" \in Characters
  BY DEF Characters
<1>2. Doubled(cell) = d[L]
  BY DEF Doubled, Doubling
<1>3. \A k \in 0..L : d[k] = IF k = 0 THEN << >> ELSE d[k - 1] \o twice(k)
  <2>1. Doubling(d, cell, L)
    BY DoublingExists
  <2> HIDE DEF d
  <2>2. QED
    BY <2>1 DEF Doubling
<1> HIDE DEF d
<1>4. ASSUME NEW t \in Seq(Characters), NEW c \in Characters
      PROVE  /\ t \o <<c>> = Append(t, c) /\ t \o <<c>> \in Seq(Characters)
             /\ ReadText(t \o <<c>>) = ReadCharacter(ReadText(t), c)
  BY TextsAppended, ReadTextSteps
<1>5. opened \in Seq(Characters) /\ ReadText(opened) = Reading(rows, row, << >>, "quoted")
  <2>1. ReadCharacter(Reading(rows, row, << >>, mode), "quote") = Reading(rows, row, << >>, "quoted")
    BY ReadOutsideQuotes
  <2>2. QED
    BY <1>1, <1>4, <2>1
<1> DEFINE P == {n \in 0..L : d[n] \in Seq(Characters) /\ ReadText(opened \o d[n]) = Reading(rows, row, p(n), "quoted")}
<1> HIDE DEF opened
<1>6. 0 \in P
  <2>0. 0 \in 0..L /\ << >> \in Seq(Characters)
    BY <1>1
  <2>1. p(0) = << >> /\ d[0] = << >>
    <3> HIDE DEF twice
    <3>1. d[0] = << >>
      BY <1>3, <2>0
    <3>2. QED
      BY <3>1, CellPrefixes
  <2>2. opened \o << >> = opened
    BY <1>5, TextsAppended
  <2> HIDE DEF p
  <2>3. QED
    BY <1>5, <2>0, <2>1, <2>2
<1>7. ASSUME NEW n \in 1..L, n - 1 \in P PROVE n \in P
  <2> DEFINE c == cell[n]
             t == opened \o d[n - 1]
  <2>1. p(n) = Append(p(n - 1), c) /\ c \in Characters /\ n # 0 /\ n \in 0..L
    BY <1>1, CellPrefixes
  <2> HIDE DEF p
  <2>2. d[n - 1] \in Seq(Characters) /\ ReadText(t) = Reading(rows, row, p(n - 1), "quoted")
    BY <1>7
  <2>3. t \in Seq(Characters)
    BY <1>5, <2>2
  <2>4. d[n] = d[n - 1] \o twice(n)
    BY <1>3, <2>1
  <2>5. twice(n) \in Seq(Characters) /\ d[n] \in Seq(Characters)
    BY <1>1, <2>1, <2>2, <2>4
  <2>6. opened \o d[n] = t \o twice(n)
    <3> DEFINE first == d[n - 1]
               last == twice(n)
    <3>1. opened \in Seq(Characters) /\ first \in Seq(Characters) /\ last \in Seq(Characters)
      BY <1>5, <2>2, <2>5
    <3>2. d[n] = first \o last
      BY <2>4
    <3> HIDE DEF first, last
    <3>3. (opened \o first) \o last = opened \o (first \o last)
      BY <3>1
    <3>4. QED
      BY <3>2, <3>3 DEF first, last
  <2> HIDE DEF t
  <2>7. CASE c = "quote"
    <3>1. twice(n) = <<"quote", "quote">>
      BY <2>7
    <3>2. t \o <<"quote", "quote">> = (t \o <<"quote">>) \o <<"quote">>
      <4>1. "quote" \in Characters
        BY <2>1, <2>7
      <4>2. /\ t \o <<"quote", "quote">> = Append(Append(t, "quote"), "quote")
            /\ t \o <<"quote">> = Append(t, "quote") /\ t \o <<"quote">> \in Seq(Characters)
        BY <2>3, <4>1, TextsAppended
      <4>3. (t \o <<"quote">>) \o <<"quote">> = Append(t \o <<"quote">>, "quote")
        BY <4>1, <4>2, TextsAppended
      <4>4. QED
        BY <4>2, <4>3
    <3>3. t \o <<"quote">> \in Seq(Characters) /\ ReadText(t \o <<"quote">>) = Reading(rows, row, p(n - 1), "closed")
      BY <1>1, <1>4, <2>2, <2>3, ReadInQuotes
    <3>4. ReadText((t \o <<"quote">>) \o <<"quote">>) = Reading(rows, row, Append(p(n - 1), "quote"), "quoted")
      <4>1. ReadText((t \o <<"quote">>) \o <<"quote">>) = ReadCharacter(ReadText(t \o <<"quote">>), "quote")
        BY <1>1, <1>4, <3>3
      <4>2. QED
        BY <3>3, <4>1, ReadAfterQuotes
    <3>5. QED
      BY <2>1, <2>5, <2>6, <2>7, <3>1, <3>2, <3>4
  <2>8. CASE c # "quote"
    <3>1. twice(n) = <<c>>
      BY <2>8
    <3>2. ReadText(t \o <<c>>) = Reading(rows, row, Append(p(n - 1), c), "quoted")
      BY <1>4, <2>1, <2>2, <2>3, <2>8, ReadInQuotes
    <3>3. QED
      BY <2>1, <2>5, <2>6, <3>1, <3>2
  <2>9. QED
    BY <2>7, <2>8
<1> HIDE DEF P
<1>8. \A n \in 0..L : n \in P
  <2> HIDE DEF L
  <2>1. QED
    BY <1>1, <1>6, <1>7, UpTo
<1>9. L \in P /\ p(L) = cell
  BY <1>1, <1>8, CellPrefixes
<1> DEFINE doubled == Doubled(cell)
<1>10. doubled \in Seq(Characters) /\ ReadText(opened \o doubled) = Reading(rows, row, cell, "quoted")
  BY <1>2, <1>9 DEF P
<1> HIDE DEF doubled
<1>11. Quoted(cell) = <<"quote">> \o doubled \o <<"quote">>
  BY DEF Quoted, doubled
<1>12. /\ Quoted(cell) \in Seq(Characters) /\ Quoted(cell) # << >> /\ Head(Quoted(cell)) = "quote"
       /\ text \o Quoted(cell) = (opened \o doubled) \o <<"quote">>
  BY <1>1, <1>10, <1>11 DEF opened
<1>13. ReadText((opened \o doubled) \o <<"quote">>) = Reading(rows, row, cell, "closed")
  <2>1. opened \o doubled \in Seq(Characters)
    BY <1>5, <1>10
  <2>2. ReadText((opened \o doubled) \o <<"quote">>) = ReadCharacter(ReadText(opened \o doubled), "quote")
    BY <1>1, <1>4, <2>1
  <2>3. QED
    BY <1>10, <2>2, ReadInQuotes
<1>14. QED
  BY <1>12, <1>13

-----------------------------------------------------------------------------
(* A CSV text is read as it was written. *)

Cells == {Trimmed(cell) : cell \in BareCells \union QuotedCells} \union {<< >>}

\* The end of a line may have an LF to come.
EndMode(text) == IF text # << >> /\ Last(text) = "cr" THEN "cr" ELSE "bare"

\* The reader has the whole rows, and is in the row under way, the last of those meant.
ReadsRows(text, rows) ==
  /\ rows \in Seq(Seq(Cells)) /\ rows # << >>
  /\ ReadText(text) = Reading(SubSeq(rows, 1, Len(rows) - 1), rows[Len(rows)], << >>, EndMode(text))

CsvOK(text, meant) ==
  /\ text \in Seq(Characters)
  /\ \/ meant = Refused /\ ReadText(text).refused
     \/ \E rows : meant = Rows(rows) /\ ReadsRows(text, rows)

CsvInv == CsvOK(csvText, csvMeant)

\* What is refused is told from rows.
LEMMA MeantRefused == Refused.refused /\ \A rows : ~Rows(rows).refused /\ Rows(rows).rows = rows
BY DEF Refused, Rows

\* What a row under way and what is before it are after a cell.
LEMMA RowsWithCell ==
  ASSUME NEW S, NEW rows \in Seq(Seq(S)), rows # << >>, NEW cell \in S
  PROVE  LET rest == SubSeq(rows, 1, Len(rows) - 1)
             row == Append(rows[Len(rows)], cell)
             same == Append(rest, row)
             more == rest \o <<row, << >>>>
         IN /\ same \in Seq(Seq(S)) /\ same # << >>
            /\ SubSeq(same, 1, Len(same) - 1) = rest /\ same[Len(same)] = row
            /\ more \in Seq(Seq(S)) /\ more # << >>
            /\ SubSeq(more, 1, Len(more) - 1) = Append(rest, row) /\ more[Len(more)] = << >>
<1> DEFINE rest == SubSeq(rows, 1, Len(rows) - 1)
           row == Append(rows[Len(rows)], cell)
           none == << >>
<1>1. rest \in Seq(Seq(S)) /\ row \in Seq(S) /\ none \in Seq(S)
  OBVIOUS
<1> HIDE DEF rest, row, none
<1> DEFINE same == Append(rest, row)
           more == rest \o <<row, none>>
<1>2. /\ same \in Seq(Seq(S)) /\ same # << >>
      /\ SubSeq(same, 1, Len(same) - 1) = rest /\ same[Len(same)] = row
  BY <1>1
<1>3. /\ more \in Seq(Seq(S)) /\ Len(more) = Len(rest) + 2 /\ more[Len(more)] = none
      /\ more[Len(rest) + 1] = row /\ \A i \in 1..Len(rest) : more[i] = rest[i]
  BY <1>1
<1>4. more # << >>
  BY <1>1, <1>3
<1>5. SubSeq(more, 1, Len(more) - 1) = Append(rest, row)
  <2> HIDE DEF more
  <2>1. Len(SubSeq(more, 1, Len(more) - 1)) = Len(rest) + 1 /\ SubSeq(more, 1, Len(more) - 1) \in Seq(Seq(S))
    BY <1>1, <1>3
  <2>2. \A i \in 1..(Len(rest) + 1) : SubSeq(more, 1, Len(more) - 1)[i] = Append(rest, row)[i]
    BY <1>1, <1>3
  <2> DEFINE a == SubSeq(more, 1, Len(more) - 1)
             b == Append(rest, row)
             L == Len(rest) + 1
  <2>3. a \in Seq(Seq(S)) /\ b \in Seq(Seq(S)) /\ Len(a) = L /\ Len(b) = L /\ \A i \in 1..L : a[i] = b[i]
    BY <1>1, <2>1, <2>2
  <2> HIDE DEF a, b, L
  <2>4. a = b
    BY <2>3
  <2>5. QED
    BY <2>4 DEF a, b
<1>6. QED
  BY <1>2, <1>3, <1>4, <1>5 DEF rest, row, none

\* The separators as characters.
LEMMA SeparatorTexts ==
  ASSUME NEW separator \in Separators
  PROVE  /\ separator \in Seq(Characters) /\ separator # << >>
         /\ (separator[Len(separator)] = "cr") <=> (separator = <<"cr">>)
<1>1. {"comma", "cr", "lf"} \subseteq Characters
  BY DEF Characters
<1>2. CASE separator = <<"comma">>
  BY <1>1, <1>2
<1>3. CASE separator = <<"lf">>
  BY <1>1, <1>3
<1>4. CASE separator = <<"cr", "lf">>
  BY <1>1, <1>4
<1>5. CASE separator = <<"cr">>
  BY <1>1, <1>5
<1>6. QED
  BY <1>2, <1>3, <1>4, <1>5 DEF Separators

\* The end of a text is that of what was written last.
LEMMA EndOfText ==
  ASSUME NEW text \in Seq(Characters), NEW separator \in Separators
  PROVE  EndMode(text \o separator) = IF separator = <<"cr">> THEN "cr" ELSE "bare"
<1>1. separator \in Seq(Characters) /\ separator # << >>
  BY SeparatorTexts
<1>2. text \o separator # << >> /\ Last(text \o separator) = separator[Len(separator)]
  BY <1>1 DEF Last
<1>3. (separator[Len(separator)] = "cr") <=> (separator = <<"cr">>)
  BY SeparatorTexts
<1>4. QED
  BY <1>2, <1>3 DEF EndMode

\* A cell is written, bare or in quotes, where a cell may begin.
LEMMA CellWritten ==
  ASSUME NEW text \in Seq(Characters), NEW rows, ReadsRows(text, rows),
         NEW cell \in BareCells \union QuotedCells, NEW image, NEW separator \in Separators,
         \/ cell \in BareCells /\ image = cell
         \/ cell \in QuotedCells /\ image = Quoted(cell),
         (text # << >> /\ Last(text) = "cr") => Head(image \o separator) # "lf"
  PROVE  LET row == Append(rows[Len(rows)], Trimmed(cell))
             rest == SubSeq(rows, 1, Len(rows) - 1)
             written == text \o image \o separator
         IN /\ written \in Seq(Characters)
            /\ ReadsRows(written, IF separator = <<"comma">> THEN Append(rest, row) ELSE rest \o <<row, << >>>>)
<1> DEFINE rest == SubSeq(rows, 1, Len(rows) - 1)
           under == rows[Len(rows)]
           row == Append(under, Trimmed(cell))
           mode == EndMode(text)
           after == text \o image
           same == Append(rest, row)
           more == rest \o <<row, << >>>>
<1>1. /\ rows \in Seq(Seq(Cells)) /\ rows # << >> /\ ReadText(text) = Reading(rest, under, << >>, mode)
      /\ mode \in {"bare", "cr"} /\ Trimmed(cell) \in Cells
  BY DEF ReadsRows, EndMode, Cells
<1>2. separator \in Seq(Characters) /\ separator # << >>
  BY SeparatorTexts
<1>3. /\ image \in Seq(Characters)
      /\ \E m \in {"bare", "cr", "closed"} :
           ReadText(after) = Reading(rest, under, cell, m) /\ (m = "cr" => separator # <<"lf">>)
  <2>1. CASE cell \in BareCells /\ image = cell
    <3>1. cell \in Seq(BareCharacters) /\ BareCharacters \subseteq Characters
      BY <2>1, CellsAssumption DEF Characters
    <3>2. cell \in Seq(Characters)
      BY <3>1
    <3> HIDE DEF rest, under, mode
    <3>3. ReadText(text \o cell) = Reading(rest, under, cell, IF cell = << >> THEN mode ELSE "bare")
      BY <1>1, <3>1, BareCellRead
    <3>4. (cell = << >> /\ mode = "cr") => separator # <<"lf">>
      <4>1. mode = "cr" => text # << >> /\ Last(text) = "cr"
        BY DEF mode, EndMode
      <4>2. cell = << >> => image \o separator = separator
        BY <1>2, <2>1
      <4>3. Head(<<"lf">>) = "lf"
        OBVIOUS
      <4>4. QED
        BY <4>1, <4>2, <4>3
    <3>5. QED
      BY <1>1, <2>1, <3>2, <3>3, <3>4
  <2>2. CASE cell \in QuotedCells /\ image = Quoted(cell)
    <3>1. cell \in Seq(Characters)
      BY <2>2, CellsAssumption
    <3> HIDE DEF rest, under, mode
    <3>2. image \in Seq(Characters) /\ ReadText(text \o image) = Reading(rest, under, cell, "closed")
      BY <1>1, <2>2, <3>1, QuotedCellRead
    <3>3. QED
      BY <3>2
  <2>3. QED
    BY <2>1, <2>2
<1>4. PICK m \in {"bare", "cr", "closed"} :
        ReadText(after) = Reading(rest, under, cell, m) /\ (m = "cr" => separator # <<"lf">>)
  BY <1>3
<1>5. after \in Seq(Characters) /\ after \o separator \in Seq(Characters)
  BY <1>2, <1>3
<1>6. /\ same \in Seq(Seq(Cells)) /\ same # << >>
      /\ SubSeq(same, 1, Len(same) - 1) = rest /\ same[Len(same)] = row
      /\ more \in Seq(Seq(Cells)) /\ more # << >>
      /\ SubSeq(more, 1, Len(more) - 1) = Append(rest, row) /\ more[Len(more)] = << >>
  BY <1>1, RowsWithCell
<1> DEFINE end == IF separator = <<"cr">> THEN "cr" ELSE "bare"
<1>7. EndMode(after \o separator) = end
  BY <1>5, EndOfText
<1>8. ReadText(after \o separator) =
        IF separator = <<"comma">> THEN Reading(rest, row, << >>, "bare")
        ELSE Reading(Append(rest, row), << >>, << >>, end)
  <2> HIDE DEF rest, under, after
  <2>1. QED
    BY <1>4, <1>5, SeparatorRead
<1>9. separator = <<"comma">> => end = "bare"
  OBVIOUS
<1> HIDE DEF end, same, more, rest, row, after
<1>10. CASE separator = <<"comma">>
  BY <1>5, <1>6, <1>7, <1>8, <1>9, <1>10 DEF ReadsRows, same, more, rest, row, under, after
<1>11. CASE separator # <<"comma">>
  BY <1>5, <1>6, <1>7, <1>8, <1>11 DEF ReadsRows, same, more, rest, row, under, after
<1>12. QED
  BY <1>10, <1>11

\* The empty text reads as no row.
LEMMA CsvInitially == RosterParsingInit => CsvInv
<1> SUFFICES ASSUME RosterParsingInit PROVE CsvInv
  OBVIOUS
<1> DEFINE none == << >>
           rows == <<none>>
<1>1. csvText = none /\ csvMeant = Rows(rows)
  BY DEF RosterParsingInit
<1>2. none \in Seq(Characters) /\ rows \in Seq(Seq(Cells)) /\ rows # << >> /\ rows[Len(rows)] = none
      /\ SubSeq(rows, 1, Len(rows) - 1) = none
  OBVIOUS
<1>3. ReadText(none) = CsvStart
  <2> DEFINE text == none
  <2>1. text \in Seq(Characters) /\ text = << >>
    OBVIOUS
  <2> HIDE DEF text
  <2>2. ReadText(text) = CsvStart
    BY <2>1, ReadTextSteps
  <2>3. QED
    BY <2>2 DEF text
<1>4. CsvStart = Reading(none, none, none, "bare")
  BY DEF CsvStart, Reading, State, NotRefused
<1>5. EndMode(none) = "bare"
  BY DEF EndMode
<1> HIDE DEF rows
<1>6. ReadsRows(none, rows)
  BY <1>2, <1>3, <1>4, <1>5 DEF ReadsRows
<1>7. QED
  BY <1>1, <1>2, <1>6 DEF CsvInv, CsvOK

\* A quote in the middle of a bare cell is refused, and so is all that follows.
LEMMA BrokenWritten ==
  ASSUME NEW text \in Seq(Characters), NEW rows, ReadsRows(text, rows)
  PROVE  LET broken == text \o <<"x", "quote", "lf">>
         IN broken \in Seq(Characters) /\ ReadText(broken).refused
<1> DEFINE rest == SubSeq(rows, 1, Len(rows) - 1)
           under == rows[Len(rows)]
           mode == EndMode(text)
           none == << >>
           x == <<"x">>
           first == Append(text, "x")
           second == Append(first, "quote")
           third == Append(second, "lf")
<1>1. {"x", "quote", "lf"} \subseteq Characters /\ "x" \in BareCharacters
  BY DEF Characters, BareCharacters
<1>2. first \in Seq(Characters) /\ second \in Seq(Characters) /\ third \in Seq(Characters)
      /\ text \o <<"x", "quote", "lf">> = third
  BY <1>1
<1>3. ReadText(text) = Reading(rest, under, none, mode) /\ mode \in {"bare", "cr"}
  BY DEF ReadsRows, EndMode
<1> HIDE DEF rest, under, mode
<1>4. /\ ReadText(first) = ReadCharacter(ReadText(text), "x")
      /\ ReadText(second) = ReadCharacter(ReadText(first), "quote")
      /\ ReadText(third) = ReadCharacter(ReadText(second), "lf")
  <2> HIDE DEF none
  <2>1. ReadText(first) = ReadCharacter(ReadText(text), "x")
    BY <1>1, ReadTextSteps
  <2> HIDE DEF first
  <2>2. ReadText(second) = ReadCharacter(ReadText(first), "quote")
    BY <1>1, <1>2, ReadTextSteps
  <2> HIDE DEF second
  <2>3. ReadText(third) = ReadCharacter(ReadText(second), "lf")
    BY <1>1, <1>2, ReadTextSteps
  <2>4. QED
    BY <2>1, <2>2, <2>3
<1> HIDE DEF first, second, third
<1>5. ReadText(first) = Reading(rest, under, x, "bare") /\ x # << >>
  <2>1. ReadCharacter(Reading(rest, under, none, mode), "x") = Reading(rest, under, Append(none, "x"), "bare")
    BY <1>1, <1>3, ReadPlain
  <2>2. Append(none, "x") = x
    OBVIOUS
  <2>3. QED
    BY <1>3, <1>4, <2>1, <2>2
<1> HIDE DEF x
<1>6. ReadText(second).refused
  BY <1>4, <1>5, ReadOutsideQuotes
<1>7. ReadCharacter(ReadText(second), "lf") = ReadText(second)
  BY <1>6 DEF ReadCharacter
<1>8. QED
  BY <1>2, <1>4, <1>6, <1>7

\* The numbers that are printed, and what a line of the course may be.
Numbers == NumberLines \union {BrokenNumber}
CourseLines == {"course", "courseAlone"}

\* Whatever is printed of a stream of lines is one block.
LEMMA BlockOfLines ==
  ASSUME PrintLines
  PROVE  \E number \in Numbers, names \in {<< >>, <<"name">>}, course \in CourseLines, footer \in BOOLEAN,
            lost \in 0..5 : PrintBlock(number, names, course, footer, lost)
<1>1. PICK names \in {<< >>, <<"name">>}, footer \in BOOLEAN :
        \/ \E number \in NumberLines, lost \in 0..5 : PrintBlock(number, names, "course", footer, lost)
        \/ \E number \in NumberLines : PrintBlock(number, names, "courseAlone", footer, 0)
        \/ PrintBlock(BrokenNumber, names, "course", footer, 0)
  BY DEF PrintLines
<1>2. /\ "course" \in CourseLines /\ "courseAlone" \in CourseLines /\ 0 \in 0..5
      /\ BrokenNumber \in Numbers /\ \A number \in NumberLines : number \in Numbers
  BY DEF CourseLines, Numbers
<1>3. QED
  BY <1>1, <1>2

\* Whatever is written next, the text reads as what is meant.
LEMMA CsvStep == CsvInv /\ [RosterParsingNext]_rosterParsingVars => CsvInv'
<1> SUFFICES ASSUME CsvInv, [RosterParsingNext]_rosterParsingVars PROVE CsvInv'
  OBVIOUS
<1>1. csvText \in Seq(Characters)
      /\ (~csvMeant.refused => \E rows : csvMeant = Rows(rows) /\ ReadsRows(csvText, rows))
  BY MeantRefused DEF CsvInv, CsvOK
<1>2. ASSUME NEW separator \in Separators, NEW cell \in BareCells \union QuotedCells, NEW image,
             \/ cell \in BareCells /\ image = cell
             \/ cell \in QuotedCells /\ image = Quoted(cell),
             WriteCell(cell, image, separator)
      PROVE  CsvInv'
  <2>1. PICK rows : csvMeant = Rows(rows) /\ ReadsRows(csvText, rows)
    BY <1>1, <1>2 DEF WriteCell
  <2>2. csvMeant.rows = rows
    BY <2>1, MeantRefused
  <2> DEFINE row == Append(rows[Len(rows)], Trimmed(cell))
             rest == SubSeq(rows, 1, Len(rows) - 1)
             written == csvText \o image \o separator
             meant == IF separator = <<"comma">> THEN Append(rest, row) ELSE rest \o <<row, << >>>>
  <2>3. csvText' = written
    BY <1>2 DEF WriteCell
  <2>4. csvMeant' = Rows(meant)
    BY <1>2, <2>2 DEF WriteCell, AppendToMeant
  <2>5. (csvText # << >> /\ Last(csvText) = "cr") => Head(image \o separator) # "lf"
    BY <1>2 DEF WriteCell
  <2>6. written \in Seq(Characters) /\ ReadsRows(written, meant)
    BY <1>1, <1>2, <2>1, <2>5, CellWritten
  <2> HIDE DEF written, meant
  <2>7. QED
    BY <2>3, <2>4, <2>6 DEF CsvInv, CsvOK
<1>3. CASE WriteCsv
  <2>1. ASSUME NEW separator \in Separators, NEW cell \in BareCells, WriteCell(cell, cell, separator) PROVE CsvInv'
    BY <1>2, <2>1
  <2>2. ASSUME NEW separator \in Separators, NEW cell \in QuotedCells, WriteCell(cell, Quoted(cell), separator)
        PROVE  CsvInv'
    BY <1>2, <2>2
  <2>3. CASE WriteBroken
    <3>1. ~csvMeant.refused /\ csvMeant' = Refused /\ csvText' = csvText \o <<"x", "quote", "lf">>
      BY <2>3 DEF WriteBroken
    <3>2. PICK rows : csvMeant = Rows(rows) /\ ReadsRows(csvText, rows)
      BY <1>1, <3>1
    <3>3. csvText' \in Seq(Characters) /\ ReadText(csvText').refused
      BY <1>1, <3>1, <3>2, BrokenWritten
    <3>4. QED
      BY <3>1, <3>3 DEF CsvInv, CsvOK
  <2>4. QED
    BY <1>3, <2>1, <2>2, <2>3 DEF WriteCsv
<1>4. CASE UNCHANGED csvVars
  BY <1>4 DEF csvVars, CsvInv
<1>5. PrintSplit \/ PrintRows \/ PrintLines => UNCHANGED csvVars
  <2>1. PrintSplit \/ PrintRows => UNCHANGED csvVars
    BY DEF PrintSplit, PrintStudent, PrintRows, PrintRow, csvVars
  <2>2. PrintLines => UNCHANGED csvVars
    <3> SUFFICES ASSUME PrintLines PROVE UNCHANGED csvVars
      OBVIOUS
    <3>1. PICK number, names, course, footer, lost : PrintBlock(number, names, course, footer, lost)
      BY BlockOfLines
    <3>2. QED
      BY <3>1 DEF PrintBlock, csvVars
  <2>3. QED
    BY <2>1, <2>2
<1>6. QED
  BY <1>3, <1>4, <1>5 DEF RosterParsingNext, rosterParsingVars

\* A sequence with another last element.
LEMMA LastReplaced ==
  ASSUME NEW S, NEW rows \in Seq(S), rows # << >>, NEW last \in S
  PROVE  Append(SubSeq(rows, 1, Len(rows) - 1), last) = [rows EXCEPT ![Len(rows)] = last]
<1> DEFINE a == Append(SubSeq(rows, 1, Len(rows) - 1), last)
           b == [rows EXCEPT ![Len(rows)] = last]
           L == Len(rows)
<1>1. L \in Nat \ {0} /\ DOMAIN rows = 1..L
  OBVIOUS
<1>2. a \in Seq(S) /\ Len(a) = L /\ \A i \in 1..L : a[i] = IF i = L THEN last ELSE rows[i]
  <2> DEFINE rest == SubSeq(rows, 1, L - 1)
  <2>1. rest \in Seq(S) /\ Len(rest) = L - 1 /\ \A i \in 1..(L - 1) : rest[i] = rows[i]
    <3>1. rest \in Seq(S)
      BY <1>1
    <3>2. Len(rest) = L - 1
      BY <1>1
    <3>3. \A i \in 1..(L - 1) : rest[i] = rows[i]
      BY <1>1
    <3>4. QED
      BY <3>1, <3>2, <3>3
  <2>2. a = Append(rest, last)
    OBVIOUS
  <2> HIDE DEF rest, a, L
  <2>3. QED
    BY <1>1, <2>1, <2>2
<1>3. DOMAIN b = 1..L /\ (\A i \in 1..L : b[i] = IF i = L THEN last ELSE rows[i]) /\ b = [i \in DOMAIN b |-> b[i]]
  BY <1>1
<1>4. DOMAIN a = 1..L /\ a = [i \in DOMAIN a |-> a[i]]
  BY <1>2
<1> HIDE DEF a, b, L
<1>5. a = [i \in 1..L |-> IF i = L THEN last ELSE rows[i]]
  BY <1>2, <1>4
<1>6. b = [i \in 1..L |-> IF i = L THEN last ELSE rows[i]]
  BY <1>3
<1>7. QED
  BY <1>5, <1>6 DEF a, b

\* At the end of the text the row under way counts, unless it is empty.
LEMMA CsvRead == CsvInv => CsvReadAsWritten
<1> SUFFICES ASSUME CsvInv PROVE CsvReadAsWritten
  OBVIOUS
<1> DEFINE s == ReadText(csvText)
<1>1. CASE csvMeant = Refused /\ s.refused
  <2>1. ParseCsvRows(csvText) = Refused
    BY <1>1 DEF ParseCsvRows
  <2>2. QED
    BY <1>1, <2>1, MeantRefused DEF CsvReadAsWritten
<1>2. ASSUME NEW rows, csvMeant = Rows(rows), ReadsRows(csvText, rows) PROVE CsvReadAsWritten
  <2> DEFINE rest == SubSeq(rows, 1, Len(rows) - 1)
             under == rows[Len(rows)]
             none == << >>
             mode == EndMode(csvText)
             whole == IF under = << >> THEN rest ELSE [rows EXCEPT ![Len(rows)] = Append(@, << >>)]
  <2>1. rows \in Seq(Seq(Cells)) /\ rows # << >> /\ s = Reading(rest, under, none, mode) /\ mode \in {"bare", "cr"}
    BY <1>2 DEF ReadsRows, EndMode
  <2>2. s.rows = rest /\ s.row = under /\ s.field = none /\ s.mode = mode /\ ~s.refused
    <3> HIDE DEF s, rest, under, none, mode
    <3>1. QED
      BY <2>1, ReadingFields
  <2>3. Trimmed(none) = none
    BY DEF Trimmed
  <2>4. PushRow(s, "bare").rows = Append(rest, Append(under, none))
    <3> HIDE DEF s, rest, under, none, mode
    <3>1. PushRow(s, "bare") = Reading(Append(rest, Append(under, none)), << >>, << >>, "bare")
      BY <2>1, <2>3, PushedRow
    <3> DEFINE pushed == PushRow(s, "bare")
               more == Append(rest, Append(under, none))
    <3>2. pushed = Reading(more, none, none, "bare")
      BY <3>1 DEF none
    <3> HIDE DEF pushed, more
    <3>3. pushed.rows = more
      BY <3>2, ReadingFields
    <3>4. QED
      BY <3>3 DEF pushed, more
  <2>5. under # << >> => Append(rest, Append(under, none)) = [rows EXCEPT ![Len(rows)] = Append(@, << >>)]
    <3> DEFINE last == Append(under, none)
    <3>1. last \in Seq(Cells)
      <4>1. none \in Cells
        BY DEF Cells
      <4>2. under \in Seq(Cells)
        BY <2>1
      <4> HIDE DEF none, under
      <4>3. QED
        BY <4>1, <4>2
    <3> HIDE DEF last
    <3>2. Append(rest, last) = [rows EXCEPT ![Len(rows)] = last]
      BY <2>1, <3>1, LastReplaced
    <3>3. [rows EXCEPT ![Len(rows)] = last] = [rows EXCEPT ![Len(rows)] = Append(@, << >>)]
      BY DEF last
    <3>4. QED
      BY <3>2, <3>3 DEF last
  <2>6. ParseCsvRows(csvText) = IF under # << >> THEN Rows(Append(rest, Append(under, none))) ELSE Rows(rest)
    <3> HIDE DEF rest, under
    <3>1. ParseCsvRows(csvText) =
            IF s.refused \/ s.mode = "quoted" THEN Refused
            ELSE IF s.field # << >> \/ s.row # << >> THEN Rows(PushRow(s, "bare").rows) ELSE Rows(s.rows)
      BY DEF ParseCsvRows
    <3> HIDE DEF s
    <3>2. QED
      BY <2>1, <2>2, <2>4, <3>1
  <2>7. ParseCsvRows(csvText) = Rows(whole)
    BY <2>5, <2>6
  <2>8. csvMeant.rows = rows /\ ~csvMeant.refused
    BY <1>2, MeantRefused
  <2>9. QED
    BY <2>7, <2>8 DEF CsvReadAsWritten
<1>3. QED
  BY <1>1, <1>2 DEF CsvInv, CsvOK

-----------------------------------------------------------------------------
(* A CSV file, or a PDF in columns, that the script takes is one the page takes. *)

\* What is structurally wrong has an error, so what has no error is not.
LEMMA ScriptFilesTaken == ScriptTakesTablesAsPage
<1> DEFINE got == StudentRecords(ParseCsvRows(csvText), 1)
           scripted == ScriptStudentRecords(got)
<1>1. ASSUME ~scripted.refused PROVE scripted = PageStudentRecords(got)
  <2>1. \A k \in DOMAIN got.rows : got.rows[k].structural => got.rows[k].error
    <3>1. CASE got = Refused
      BY <3>1 DEF Refused
    <3>2. CASE got # Refused
      <4> DEFINE rows == ParseCsvRows(csvText).rows
                 wrong(row) == Len(row) # 1
                 bad(row) == wrong(row) \/ \E i \in DOMAIN row : row[i] # <<"x">>
                 shown == [k \in 1..(Len(rows) - 1) |->
                            LET row == rows[k + 1]
                            IN [row |-> row, structural |-> wrong(row), error |-> bad(row)]]
      <4>1. got = Rows(shown)
        BY <3>2 DEF StudentRecords
      <4>2. got.rows = shown
        BY <4>1, MeantRefused
      <4>3. \A k \in DOMAIN shown : shown[k].structural => shown[k].error
        OBVIOUS
      <4>4. QED
        BY <4>2, <4>3
    <3>3. QED
      BY <3>1, <3>2
  <2> HIDE DEF got
  <2>2. ~(\E k \in DOMAIN got.rows : got.rows[k].error)
    BY <1>1, MeantRefused DEF ScriptStudentRecords
  <2>3. QED
    BY <2>1, <2>2 DEF ScriptStudentRecords, PageStudentRecords
<1>2. ASSUME splitPdf.headings, ~ScriptStudents.refused PROVE ScriptStudents = PageStudents
  <2>1. ScriptStudents = ScriptSplitRosterPages(splitPdf) /\ PageStudents = ParseSplitRosterPages(splitPdf)
    BY <1>2 DEF ScriptStudents, PageStudents, ParseRosterPdf
  <2>2. QED
    BY <1>2, <2>1, MeantRefused DEF ScriptSplitRosterPages
<1>3. QED
  BY <1>1, <1>2 DEF ScriptTakesTablesAsPage

-----------------------------------------------------------------------------
(* The two columns. *)

\* What step k of a fold makes of the value before it, from a start: a function for every k.
FoldUpTo(fold, n, start, next) ==
  \A k \in 0..n : fold[k] = IF k = 0 THEN start ELSE next[fold[k - 1], k]

\* A fold over any number of steps exists.
LEMMA FoldExists ==
  ASSUME NEW S, NEW L \in Nat, NEW start \in S, NEW next \in [S \X (1..L) -> S]
  PROVE  \E fold \in [0..L -> S] : FoldUpTo(fold, L, start, next)
<1> DEFINE P == {n \in 0..L : \E fold \in [0..n -> S] : FoldUpTo(fold, n, start, next)}
<1>1. 0 \in P
  <2> DEFINE fold == [k \in 0..0 |-> start]
  <2>1. fold \in [0..0 -> S] /\ \A k \in 0..0 : k = 0 /\ fold[k] = start
    OBVIOUS
  <2> HIDE DEF fold
  <2>2. FoldUpTo(fold, 0, start, next)
    BY <2>1 DEF FoldUpTo
  <2>3. QED
    BY <2>1, <2>2
<1>2. ASSUME NEW n \in 1..L, n - 1 \in P PROVE n \in P
  <2>1. n \in 0..L /\ n # 0 /\ n - 1 \in 0..(n - 1) /\ n \notin 0..(n - 1)
        /\ 0..n = 0..(n - 1) \union {n}
    OBVIOUS
  <2>2. PICK before \in [0..(n - 1) -> S] : FoldUpTo(before, n - 1, start, next)
    BY <1>2
  <2> DEFINE last == next[before[n - 1], n]
             fold == [k \in 0..n |-> IF k = n THEN last ELSE before[k]]
  <2>3. before[n - 1] \in S /\ last \in S
    BY <2>1
  <2> HIDE DEF last
  <2>4. fold \in [0..n -> S] /\ fold[n] = last /\ \A k \in 0..(n - 1) : fold[k] = before[k]
    BY <2>1, <2>3
  <2> HIDE DEF fold
  <2>5. ASSUME NEW k \in 0..n PROVE fold[k] = IF k = 0 THEN start ELSE next[fold[k - 1], k]
    <3>1. CASE k = n
      <4>1. fold[k - 1] = before[n - 1] /\ k # 0
        BY <2>1, <2>4, <3>1
      <4>2. QED
        BY <2>4, <3>1, <4>1 DEF last
    <3>2. CASE k # n
      <4>1. k \in 0..(n - 1) /\ (k # 0 => k - 1 \in 0..(n - 1))
        BY <2>1, <3>2
      <4>2. fold[k] = before[k] /\ (k # 0 => fold[k - 1] = before[k - 1])
        BY <2>4, <4>1
      <4>3. before[k] = IF k = 0 THEN start ELSE next[before[k - 1], k]
        BY <2>2, <4>1 DEF FoldUpTo
      <4>4. QED
        BY <4>2, <4>3
    <3>3. QED
      BY <3>1, <3>2
  <2>6. FoldUpTo(fold, n, start, next)
    BY <2>5 DEF FoldUpTo
  <2>7. QED
    BY <2>1, <2>4, <2>6
<1> HIDE DEF P
<1>3. \A n \in 0..L : n \in P
  BY <1>1, <1>2, UpTo
<1>4. L \in P
  BY <1>3
<1>5. QED
  BY <1>4 DEF P

IdentityLine == [starts : BOOLEAN, of : Nat]

\* A row of identity begins with its number.
HeadedRow == {row \in [number : Nat, cells : Seq(Nat)] : row.cells # << >> /\ Head(row.cells) = row.number}

\* A line of identity keeps the rows headed by their numbers.
LEMMA IdentityStepHeaded ==
  ASSUME NEW rows \in Seq(HeadedRow), NEW line \in IdentityLine
  PROVE  IdentityStep(rows, line) \in Seq(HeadedRow)
<1>1. line.of \in Nat
  BY DEF IdentityLine
<1> DEFINE n == line.of
<1> HIDE DEF n
<1>2. CASE line.starts
  <2> DEFINE cells == <<n>>
             row == [number |-> n, cells |-> cells]
  <2>1. n \in Nat /\ cells \in Seq(Nat) /\ cells # << >> /\ Head(cells) = n
    BY <1>1 DEF n
  <2> HIDE DEF cells
  <2>2. row \in HeadedRow
    BY <2>1 DEF HeadedRow
  <2> HIDE DEF row
  <2>3. IdentityStep(rows, line) = Append(rows, row)
    BY <1>2 DEF IdentityStep, row, cells, n
  <2>4. QED
    BY <2>2, <2>3
<1>3. CASE ~line.starts /\ rows = << >>
  BY <1>3 DEF IdentityStep
<1>4. CASE ~line.starts /\ rows # << >>
  <2> DEFINE last == rows[Len(rows)]
             cells == Append(last.cells, n)
             row == [last EXCEPT !.cells = cells]
  <2>1. last \in HeadedRow /\ Len(rows) \in DOMAIN rows
    BY <1>4
  <2>2. IdentityStep(rows, line) = [rows EXCEPT ![Len(rows)] = row]
    BY <1>4, <2>1 DEF IdentityStep, n
  <2> HIDE DEF last
  <2>3. cells \in Seq(Nat) /\ cells # << >> /\ Head(cells) = Head(last.cells)
    <3>1. last.cells \in Seq(Nat) /\ last.cells # << >> /\ n \in Nat
      BY <1>1, <2>1 DEF HeadedRow, n
    <3> DEFINE before == last.cells
    <3> HIDE DEF before
    <3>2. before \in Seq(Nat) /\ before # << >> /\ n \in Nat => Append(before, n) \in Seq(Nat)
            /\ Append(before, n) # << >> /\ Head(Append(before, n)) = Head(before)
      OBVIOUS
    <3>3. QED
      BY <3>1, <3>2 DEF before
  <2> HIDE DEF cells
  <2>4. row \in HeadedRow
    BY <2>1, <2>3 DEF HeadedRow
  <2> HIDE DEF row
  <2>5. [rows EXCEPT ![Len(rows)] = row] \in Seq(HeadedRow)
    <3> HIDE DEF last
    <3>1. Append(SubSeq(rows, 1, Len(rows) - 1), row) = [rows EXCEPT ![Len(rows)] = row]
      BY <1>4, <2>4, LastReplaced
    <3>2. SubSeq(rows, 1, Len(rows) - 1) \in Seq(HeadedRow)
      BY <1>4
    <3>3. QED
      BY <2>4, <3>1, <3>2
  <2>6. QED
    BY <2>2, <2>5
<1>5. QED
  BY <1>2, <1>3, <1>4

\* So every row that is collected begins with its number.
LEMMA IdentityRowsHeaded ==
  ASSUME NEW lines \in Seq(IdentityLine)
  PROVE  CollectIdentityRows(lines) \in Seq(HeadedRow)
<1> DEFINE L == Len(lines)
           S == Seq(HeadedRow)
           none == << >>
           IsFold(fold) == fold = [n \in 0..L |-> IF n = 0 THEN << >> ELSE IdentityStep(fold[n - 1], lines[n])]
           rows == CHOOSE fold : IsFold(fold)
           next == [p \in S \X (1..L) |-> IdentityStep(p[1], lines[p[2]])]
<1>1. L \in Nat /\ none \in S /\ \A n \in 1..L : lines[n] \in IdentityLine
  OBVIOUS
<1>2. CollectIdentityRows(lines) = rows[L]
  BY DEF CollectIdentityRows
<1>3. \A before \in S, n \in 1..L : IdentityStep(before, lines[n]) \in S
  BY <1>1, IdentityStepHeaded
<1> HIDE DEF S, L, none
<1>4. next \in [S \X (1..L) -> S] /\ \A before \in S, n \in 1..L : next[before, n] = IdentityStep(before, lines[n])
  BY <1>3
<1> HIDE DEF next
<1>5. PICK fold \in [0..L -> S] : FoldUpTo(fold, L, none, next)
  BY <1>1, <1>4, FoldExists
<1>6. IsFold(fold)
  <2>1. ASSUME NEW n \in 0..L PROVE fold[n] = IF n = 0 THEN none ELSE IdentityStep(fold[n - 1], lines[n])
    <3>1. fold[n] = IF n = 0 THEN none ELSE next[fold[n - 1], n]
      BY <1>5 DEF FoldUpTo
    <3>2. n # 0 => n - 1 \in 0..L /\ n \in 1..L
      BY <1>1
    <3>3. n # 0 => fold[n - 1] \in S
      BY <1>5, <3>2
    <3>4. n # 0 => next[fold[n - 1], n] = IdentityStep(fold[n - 1], lines[n])
      BY <1>4, <3>2, <3>3
    <3>5. QED
      BY <3>1, <3>4
  <2>2. fold = [n \in 0..L |-> fold[n]]
    BY <1>5
  <2>3. fold = [n \in 0..L |-> IF n = 0 THEN none ELSE IdentityStep(fold[n - 1], lines[n])]
    BY <2>1, <2>2
  <2>4. QED
    BY <2>3 DEF none
<1>7. \A n \in 0..L : rows[n] = IF n = 0 THEN << >> ELSE IdentityStep(rows[n - 1], lines[n])
  <2>1. IsFold(rows)
    <3> HIDE DEF IsFold
    <3>1. QED
      BY <1>6
  <2> HIDE DEF rows
  <2>2. QED
    BY <2>1
<1> HIDE DEF rows, IsFold
<1> DEFINE P == {n \in Nat : rows[n] \in S}
<1>8. 0 \in P
  <2>1. rows[0] = none
    BY <1>1, <1>7 DEF none
  <2>2. QED
    BY <1>1, <2>1
<1>9. ASSUME NEW n \in 1..L, n - 1 \in P PROVE n \in P
  <2>1. n \in 0..L /\ n # 0 /\ n \in Nat
    BY <1>1
  <2>2. rows[n] = IdentityStep(rows[n - 1], lines[n])
    BY <1>7, <2>1
  <2>3. QED
    BY <1>3, <1>9, <2>1, <2>2
<1> HIDE DEF P
<1>10. \A n \in 0..L : n \in P
  BY <1>1, <1>8, <1>9, UpTo
<1>11. QED
  BY <1>1, <1>2, <1>10 DEF P, S

\* The records made of the lines of enrollment: one of each line that is not of another course.
LEMMA SplitRecords ==
  ASSUME NEW pdf, NEW E, pdf.enrollment \in Seq(E), ~ParseSplitRosterPages(pdf).refused
  PROVE  LET identity == CollectIdentityRows(pdf.identity)
             got == ParseSplitRosterPages(pdf).rows
             record(j) == [student |-> Head(identity[j].cells), course |-> pdf.enrollment[j].of,
                           error |-> pdf.enrollment[j].course = "garbled"]
         IN /\ Aligned(identity, pdf.enrollment)
            /\ \A k \in DOMAIN got : \E j \in DOMAIN pdf.enrollment : got[k] = record(j)
<1> DEFINE enrollment == pdf.enrollment
           identity == CollectIdentityRows(pdf.identity)
           record(j) == [student |-> Head(identity[j].cells), course |-> enrollment[j].of,
                         error |-> enrollment[j].course = "garbled"]
           L == Len(enrollment)
           R == {record(j) : j \in 1..L}
           S == Seq(R)
           none == << >>
           Step(before, n) == IF enrollment[n].course = "other" THEN before ELSE Append(before, record(n))
           IsFold(fold) == fold = [n \in 0..L |-> IF n = 0 THEN << >>
                                                  ELSE IF enrollment[n].course = "other" THEN fold[n - 1]
                                                  ELSE Append(fold[n - 1], record(n))]
           shown == CHOOSE fold : IsFold(fold)
           next == [p \in S \X (1..L) |-> Step(p[1], p[2])]
<1>1. L \in Nat /\ none \in S /\ DOMAIN enrollment = 1..L
  OBVIOUS
<1>2. ParseSplitRosterPages(pdf) = IF ~Aligned(identity, enrollment) THEN Refused ELSE Rows(shown[L])
  BY DEF ParseSplitRosterPages
<1>3. \A n \in 1..L : record(n) \in R
  OBVIOUS
<1> HIDE DEF record, R
<1>4. \A before \in S, n \in 1..L : Step(before, n) \in S
  BY <1>3
<1> HIDE DEF S, L, none
<1> DEFINE IsFold2(fold) == fold = [n \in 0..L |-> IF n = 0 THEN << >> ELSE Step(fold[n - 1], n)]
<1>5. shown = CHOOSE fold : IsFold2(fold)
  OBVIOUS
<1> HIDE DEF shown, Step
<1>6. next \in [S \X (1..L) -> S] /\ \A before \in S, n \in 1..L : next[before, n] = Step(before, n)
  BY <1>4
<1> HIDE DEF next
<1>7. PICK fold \in [0..L -> S] : FoldUpTo(fold, L, none, next)
  BY <1>1, <1>6, FoldExists
<1>8. IsFold2(fold)
  <2>1. ASSUME NEW n \in 0..L PROVE fold[n] = IF n = 0 THEN none ELSE Step(fold[n - 1], n)
    <3>1. fold[n] = IF n = 0 THEN none ELSE next[fold[n - 1], n]
      BY <1>7 DEF FoldUpTo
    <3>2. n # 0 => n - 1 \in 0..L /\ n \in 1..L
      BY <1>1
    <3>3. n # 0 => fold[n - 1] \in S
      BY <1>7, <3>2
    <3>4. n # 0 => next[fold[n - 1], n] = Step(fold[n - 1], n)
      BY <1>6, <3>2, <3>3
    <3>5. QED
      BY <3>1, <3>4
  <2>2. fold = [n \in 0..L |-> fold[n]]
    BY <1>7
  <2>3. fold = [n \in 0..L |-> IF n = 0 THEN none ELSE Step(fold[n - 1], n)]
    BY <2>1, <2>2
  <2>4. QED
    BY <2>3 DEF none
<1>9. \A n \in 0..L : shown[n] = IF n = 0 THEN << >> ELSE Step(shown[n - 1], n)
  <2>1. IsFold2(shown)
    <3> HIDE DEF IsFold2
    <3>1. QED
      BY <1>5, <1>8
  <2>2. QED
    BY <2>1
<1> HIDE DEF IsFold2
<1> DEFINE P == {n \in Nat : shown[n] \in S}
<1>10. 0 \in P
  <2>1. shown[0] = none
    BY <1>1, <1>9 DEF none
  <2>2. QED
    BY <1>1, <2>1
<1>11. ASSUME NEW n \in 1..L, n - 1 \in P PROVE n \in P
  <2>1. n \in 0..L /\ n # 0 /\ n \in Nat
    BY <1>1
  <2>2. shown[n] = Step(shown[n - 1], n)
    BY <1>9, <2>1
  <2>3. QED
    BY <1>4, <1>11, <2>1, <2>2
<1> HIDE DEF P
<1>12. \A n \in 0..L : n \in P
  BY <1>1, <1>10, <1>11, UpTo
<1>13. shown[L] \in S
  BY <1>1, <1>12 DEF P
<1> DEFINE got == shown[L]
<1>14. Aligned(identity, enrollment) /\ ParseSplitRosterPages(pdf).rows = got
  BY <1>2, MeantRefused
<1>15. \A k \in DOMAIN got : got[k] \in R
  <2> HIDE DEF got
  <2>1. got \in Seq(R)
    BY <1>13 DEF got, S
  <2>2. QED
    BY <2>1
<1>16. ASSUME NEW k \in DOMAIN got PROVE \E j \in DOMAIN enrollment : got[k] = record(j)
  <2> HIDE DEF got, enrollment
  <2>1. got[k] \in R
    BY <1>15
  <2>2. \E j \in 1..L : got[k] = record(j)
    BY <2>1 DEF R
  <2>3. QED
    BY <1>1, <2>2
<1>17. QED
  <2> HIDE DEF got, identity, enrollment
  <2>1. \A k \in DOMAIN ParseSplitRosterPages(pdf).rows : \E j \in DOMAIN enrollment :
          ParseSplitRosterPages(pdf).rows[k] = record(j)
    BY <1>14, <1>16
  <2>2. QED
    BY <1>14, <2>1 DEF record, identity, enrollment

\* Every line of enrollment is of a student who has been printed, and of the one with its
\* own place if nothing has been lost up to there.
InPlace(of, k, lost) == (\A i \in 1..of : ~lost[i]) => of = k

EnrollmentInPlace(enrollment, lost) ==
  /\ lost \in Seq(BOOLEAN)
  /\ enrollment \in Seq([course : {"known", "other", "garbled"}, of : Nat])
  /\ \A k \in DOMAIN enrollment :
       /\ enrollment[k].of \in 1..Len(lost)
       /\ InPlace(enrollment[k].of, k, lost)
  /\ (\A i \in 1..Len(lost) : ~lost[i]) => Len(enrollment) = Len(lost)

\* What has been damaged, of the rosters in columns, of the rows and of the blocks.
Block == [intact : BOOLEAN, threeParts : BOOLEAN]

PrintedOK == printed \in [split : Seq(BOOLEAN), rows : Seq(0..5), lines : Seq(Block)]

SplitInv ==
  /\ splitPdf.identity \in Seq(IdentityLine)
  /\ EnrollmentInPlace(splitPdf.enrollment, printed.split)

\* Nothing is printed and nothing lost.
LEMMA SplitInitially == RosterParsingInit => SplitInv
<1> SUFFICES ASSUME RosterParsingInit PROVE SplitInv
  OBVIOUS
<1> DEFINE none == << >>
<1>1. splitPdf = [headings |-> FALSE, identity |-> none, enrollment |-> none]
      /\ printed = [split |-> none, rows |-> none, lines |-> none]
  BY DEF RosterParsingInit, NothingPrinted
<1>2. /\ none \in Seq(IdentityLine) /\ none \in Seq(BOOLEAN) /\ Len(none) = 0 /\ DOMAIN none = {}
      /\ none \in Seq([course : {"known", "other", "garbled"}, of : Nat])
  OBVIOUS
<1> HIDE DEF none
<1>3. splitPdf.identity = none /\ splitPdf.enrollment = none /\ printed.split = none
  BY <1>1
<1>4. QED
  BY <1>2, <1>3 DEF SplitInv, EnrollmentInPlace

\* The next student is printed, with a line of enrollment or without.
LEMMA EnrollmentPrinted ==
  ASSUME NEW enrollment, NEW lost, EnrollmentInPlace(enrollment, lost), NEW isLost \in BOOLEAN,
         NEW course \in {"known", "other", "garbled"}
  PROVE  EnrollmentInPlace(enrollment \o (IF isLost THEN << >> ELSE <<[course |-> course, of |-> Len(lost) + 1]>>),
                           Append(lost, isLost))
<1> DEFINE n == Len(lost) + 1
           L == Len(enrollment)
           line == [course |-> course, of |-> n]
           more == Append(lost, isLost)
           longer == enrollment \o (IF isLost THEN << >> ELSE <<line>>)
           Line == [course : {"known", "other", "garbled"}, of : Nat]
<1>1. lost \in Seq(BOOLEAN) /\ n \in Nat /\ enrollment \in Seq(Line) /\ L \in Nat /\ DOMAIN enrollment = 1..L
  BY DEF EnrollmentInPlace
<1>2. more \in Seq(BOOLEAN) /\ Len(more) = n /\ more[n] = isLost /\ (\A i \in 1..(n - 1) : more[i] = lost[i])
  BY <1>1
<1>3. line \in Line /\ line.of = n
  BY <1>1
<1>4. \A k \in 1..L : enrollment[k].of \in 1..(n - 1) /\ InPlace(enrollment[k].of, k, lost)
  BY <1>1 DEF EnrollmentInPlace
<1>5. (\A i \in 1..(n - 1) : ~lost[i]) => L = n - 1
  BY <1>1 DEF EnrollmentInPlace
<1>6. \A k \in 1..L : enrollment[k].of \in 1..n /\ InPlace(enrollment[k].of, k, more)
  <2> SUFFICES ASSUME NEW k \in 1..L
               PROVE  enrollment[k].of \in 1..n /\ InPlace(enrollment[k].of, k, more)
    OBVIOUS
  <2> DEFINE of == enrollment[k].of
  <2>1. of \in 1..(n - 1) /\ InPlace(of, k, lost)
    BY <1>4
  <2> HIDE DEF of, n, L, more
  <2>2. \A i \in 1..of : more[i] = lost[i]
    BY <1>1, <1>2, <2>1
  <2>3. of \in 1..n /\ InPlace(of, k, more)
    BY <1>1, <2>1, <2>2 DEF InPlace
  <2>4. QED
    BY <2>3 DEF of
<1>7. CASE isLost
  <2>1. longer = enrollment
    BY <1>1, <1>7
  <2>2. ~(\A i \in 1..n : ~more[i])
    BY <1>1, <1>2, <1>7
  <2> HIDE DEF longer, more, L, n
  <2>3. QED
    BY <1>1, <1>2, <1>6, <2>1, <2>2 DEF EnrollmentInPlace, longer, more, n, line
<1>8. CASE ~isLost
  <2> HIDE DEF line, n, more
  <2>1. longer \in Seq(Line) /\ Len(longer) = L + 1 /\ longer[L + 1] = line /\ \A k \in 1..L : longer[k] = enrollment[k]
    BY <1>1, <1>3, <1>8
  <2> HIDE DEF longer, L
  <2>2. (\A i \in 1..n : ~more[i]) => L = n - 1
    <3>1. \A i \in 1..(n - 1) : i \in 1..n /\ more[i] = lost[i]
      BY <1>1, <1>2
    <3>2. QED
      BY <1>5, <3>1
  <2>3. \A k \in 1..(L + 1) : longer[k].of \in 1..n /\ InPlace(longer[k].of, k, more)
    <3> SUFFICES ASSUME NEW k \in 1..(L + 1)
                 PROVE  longer[k].of \in 1..n /\ InPlace(longer[k].of, k, more)
      OBVIOUS
    <3>1. CASE k \in 1..L
      BY <1>6, <2>1, <3>1
    <3>2. CASE k = L + 1
      <4>1. longer[k].of = n /\ n \in 1..n
        <5>1. n \in 1..n
          BY <1>1 DEF n
        <5>2. QED
          BY <1>3, <2>1, <3>2, <5>1
      <4>2. (\A i \in 1..n : ~more[i]) => n = k
        BY <1>1, <2>2, <3>2
      <4>3. QED
        BY <4>1, <4>2 DEF InPlace
    <3>3. QED
      BY <1>1, <3>1, <3>2
  <2>4. Len(longer) = L + 1 /\ DOMAIN longer = 1..(L + 1)
    BY <2>1
  <2>5. (\A i \in 1..n : ~more[i]) => Len(longer) = n
    BY <1>1, <2>2, <2>4
  <2>6. EnrollmentInPlace(longer, more)
    BY <1>2, <2>1, <2>3, <2>4, <2>5 DEF EnrollmentInPlace
  <2>7. QED
    BY <2>6 DEF longer, more, n, line
<1>9. QED
  BY <1>7, <1>8

\* What is printed next keeps enrollments in place, up to the first that is lost.
LEMMA SplitStep == PrintedOK /\ SplitInv /\ [RosterParsingNext]_rosterParsingVars => SplitInv'
<1> SUFFICES ASSUME PrintedOK, SplitInv, [RosterParsingNext]_rosterParsingVars PROVE SplitInv'
  OBVIOUS
<1>1. ASSUME NEW course \in {"known", "other", "garbled"}, NEW second \in BOOLEAN, NEW lostIdentity \in BOOLEAN,
             NEW lostEnrollment \in BOOLEAN, PrintStudent(course, second, lostIdentity, lostEnrollment)
      PROVE  SplitInv'
  <2> DEFINE n == Len(printed.split) + 1
             identity == IF lostIdentity THEN << >> ELSE <<[starts |-> TRUE, of |-> n]>>
             more == IF second THEN <<[starts |-> FALSE, of |-> n]>> ELSE << >>
             enrollment == IF lostEnrollment THEN << >> ELSE <<[course |-> course, of |-> n]>>
             first == splitPdf.identity \o identity
  <2>1. splitPdf' = [headings |-> TRUE, identity |-> first \o more,
                     enrollment |-> splitPdf.enrollment \o enrollment]
    BY <1>1 DEF PrintStudent
  <2>2. printed'.split = Append(printed.split, lostEnrollment)
    BY <1>1 DEF PrintStudent, PrintedOK
  <2>3. n \in Nat
    BY DEF SplitInv, EnrollmentInPlace
  <2>4. identity \in Seq(IdentityLine) /\ more \in Seq(IdentityLine)
    <3> HIDE DEF n
    <3>1. [starts |-> TRUE, of |-> n] \in IdentityLine /\ [starts |-> FALSE, of |-> n] \in IdentityLine
      BY <2>3 DEF IdentityLine
    <3>2. QED
      BY <3>1
  <2> HIDE DEF n, identity, more, enrollment
  <2>5. first \in Seq(IdentityLine)
    BY <2>4 DEF SplitInv
  <2> HIDE DEF first
  <2>6. first \o more \in Seq(IdentityLine)
    BY <2>4, <2>5
  <2>7. EnrollmentInPlace(splitPdf.enrollment \o enrollment, Append(printed.split, lostEnrollment))
    BY EnrollmentPrinted DEF SplitInv, enrollment, n
  <2>8. splitPdf'.identity = first \o more /\ splitPdf'.enrollment = splitPdf.enrollment \o enrollment
    BY <2>1
  <2>9. QED
    BY <2>2, <2>6, <2>7, <2>8 DEF SplitInv
<1>2. CASE PrintSplit
  BY <1>1, <1>2 DEF PrintSplit
<1>3. CASE splitPdf' = splitPdf /\ printed'.split = printed.split
  BY <1>3 DEF SplitInv
<1>4. CASE WriteCsv
  <2>1. UNCHANGED pdfVars
    BY <1>4 DEF WriteCsv, WriteCell, WriteBroken
  <2>2. QED
    BY <1>3, <2>1 DEF pdfVars
<1>5. CASE PrintLines
  <2>1. PICK number, names, course, footer, lost : PrintBlock(number, names, course, footer, lost)
    BY <1>5, BlockOfLines
  <2>2. splitPdf' = splitPdf /\ printed'.split = printed.split
    BY <2>1 DEF PrintBlock, PrintedOK
  <2>3. QED
    BY <1>3, <2>2
<1>6. CASE PrintRows
  <2>1. splitPdf' = splitPdf /\ printed'.split = printed.split
    BY <1>6 DEF PrintRows, PrintRow, PrintedOK
  <2>2. QED
    BY <1>3, <2>1
<1>7. CASE UNCHANGED rosterParsingVars
  BY <1>3, <1>7 DEF rosterParsingVars, pdfVars
<1>8. QED
  BY <1>2, <1>4, <1>5, <1>6, <1>7 DEF RosterParsingNext

\* So the k-th enrollment is of the k-th student unless one before it is lost.
LEMMA SplitRead == SplitInv => SplitRowsAligned
<1> SUFFICES ASSUME SplitInv, splitPdf.headings PROVE SplitRowsAligned
  BY DEF SplitRowsAligned
<1>0. PageStudents = ParseSplitRosterPages(splitPdf)
  BY DEF PageStudents, ParseRosterPdf
<1> DEFINE got == ParseSplitRosterPages(splitPdf)
           identity == CollectIdentityRows(splitPdf.identity)
           enrollment == splitPdf.enrollment
<1>1. CASE got.refused
  <2>1. got = Refused
    BY <1>1, MeantRefused DEF ParseSplitRosterPages
  <2> HIDE DEF got
  <2>2. DOMAIN got.rows = {}
    BY <2>1 DEF Refused
  <2>3. QED
    BY <1>0, <2>2 DEF SplitRowsAligned, got
<1>2. CASE ~got.refused
  <2>1. enrollment \in Seq([course : {"known", "other", "garbled"}, of : Nat]) /\ splitPdf.identity \in Seq(IdentityLine)
    BY DEF SplitInv, EnrollmentInPlace
  <2>2. /\ Aligned(identity, enrollment)
        /\ \A k \in DOMAIN got.rows : \E j \in DOMAIN enrollment :
             got.rows[k] = [student |-> Head(identity[j].cells), course |-> enrollment[j].of,
                                error |-> enrollment[j].course = "garbled"]
    <3> HIDE DEF identity, got
    <3>1. QED
      BY <1>2, <2>1, SplitRecords DEF identity, got
  <2>3. identity \in Seq(HeadedRow)
    BY <2>1, IdentityRowsHeaded
  <2>4. ASSUME NEW k \in DOMAIN got.rows, got.rows[k].student # got.rows[k].course
        PROVE  \E i \in 1..got.rows[k].course : printed.split[i]
    <3> HIDE DEF got, identity, enrollment
    <3>1. PICK j \in DOMAIN enrollment :
            got.rows[k] = [student |-> Head(identity[j].cells), course |-> enrollment[j].of,
                               error |-> enrollment[j].course = "garbled"]
      BY <2>2
    <3>2. got.rows[k].student = Head(identity[j].cells) /\ got.rows[k].course = enrollment[j].of
      BY <3>1
    <3>3. j \in DOMAIN identity /\ identity[j].number = j
      <4>1. Len(identity) = Len(enrollment) /\ \A i \in DOMAIN identity : identity[i].number = i
        BY <2>2 DEF Aligned
      <4>2. QED
        BY <2>1, <2>3, <4>1
    <3>4. Head(identity[j].cells) = j
      <4>1. identity[j] \in HeadedRow
        BY <2>3, <3>3
      <4>2. QED
        BY <3>3, <4>1 DEF HeadedRow
    <3>5. (\A i \in 1..enrollment[j].of : ~printed.split[i]) => enrollment[j].of = j
      BY <2>1 DEF SplitInv, EnrollmentInPlace, InPlace, enrollment
    <3>6. QED
      BY <2>4, <3>2, <3>4, <3>5
  <2> HIDE DEF got
  <2>5. QED
    BY <1>0, <2>4 DEF SplitRowsAligned, got
<1>3. QED
  BY <1>1, <1>2

\* What holds of a number when it holds of all that are above it holds from M down.
LEMMA DownFrom ==
  ASSUME NEW M \in Nat, NEW P, \A i \in 1..M : (\A k \in (i + 1)..M : k \in P) => i \in P
  PROVE  \A i \in 1..M : i \in P
<1> DEFINE Q == {d \in Nat : \A k \in (M - d + 1)..M : k \in 1..M => k \in P}
<1>1. 0 \in Q
  OBVIOUS
<1>2. ASSUME NEW d \in 1..M, d - 1 \in Q PROVE d \in Q
  <2> DEFINE i == M - d + 1
  <2>1. i \in 1..M /\ d \in Nat /\ M - (d - 1) + 1 = i + 1
    OBVIOUS
  <2>2. \A k \in (i + 1)..M : k \in 1..M => k \in P
    BY <1>2, <2>1
  <2>3. \A k \in (i + 1)..M : k \in 1..M
    BY <2>1
  <2> HIDE DEF i
  <2>4. i \in P
    BY <2>1, <2>2, <2>3
  <2>5. \A k \in i..M : k = i \/ k \in (i + 1)..M
    BY <2>1
  <2>6. \A k \in i..M : k \in 1..M => k \in P
    BY <2>2, <2>4, <2>5
  <2>7. QED
    BY <2>1, <2>6 DEF i
<1> HIDE DEF Q
<1>3. \A d \in 0..M : d \in Q
  BY <1>1, <1>2, UpTo
<1>4. M \in Q
  BY <1>3
<1>5. M - M + 1 = 1
  OBVIOUS
<1>6. QED
  BY <1>4, <1>5 DEF Q

-----------------------------------------------------------------------------
(* A text of lines is read from one start to the next. *)

\* What is found from each line on, to the end of a text of L lines: at a start, what is
\* found there, and what is found from where the reading resumes.
Scanned(from, L, starts, found, resume) ==
  \A i \in 1..(L + 2) :
    from[i] = IF i > L THEN << >> ELSE IF i \in starts THEN found[i] \o from[resume[i]] ELSE from[i + 1]

\* What is found from each line on exists, since the reading always goes on.
LEMMA ScanExists ==
  ASSUME NEW L \in Nat, NEW R, NEW starts \in SUBSET (1..L), NEW found \in [starts -> Seq(R)],
         NEW resume \in [starts -> Nat], \A i \in starts : i < resume[i] /\ resume[i] <= L + 2
  PROVE  \E from \in [1..(L + 2) -> Seq(R)] : Scanned(from, L, starts, found, resume)
<1> DEFINE M == L + 2
           S == Seq(R)
           Body(from, i) == IF i > L THEN << >> ELSE IF i \in starts THEN found[i] \o from[resume[i]] ELSE from[i + 1]
           P == {i \in 1..M : \E from \in [i..M -> S] : \A k \in i..M : from[k] = Body(from, k)}
<1>1. M \in Nat /\ M = L + 2
  OBVIOUS
<1> HIDE DEF M
<1>2. ASSUME NEW i \in 1..M, \A k \in (i + 1)..M : k \in P PROVE i \in P
  <2>1. CASE i = M
    <3> DEFINE from == [k \in i..M |-> << >>]
    <3>1. from \in [i..M -> S] /\ \A k \in i..M : k > L /\ from[k] = << >>
      BY <1>1, <2>1
    <3> HIDE DEF from
    <3>2. \A k \in i..M : from[k] = Body(from, k)
      BY <3>1
    <3> HIDE DEF Body, S
    <3>3. QED
      BY <3>1, <3>2
  <2>2. CASE i # M
    <3>1. i + 1 \in 1..M /\ i + 1 \in (i + 1)..M /\ i..M = {i} \union (i + 1)..M /\ i \notin (i + 1)..M
      BY <1>1, <2>2
    <3>2. PICK before \in [(i + 1)..M -> S] : \A k \in (i + 1)..M : before[k] = Body(before, k)
      BY <1>2, <3>1
    <3> DEFINE from == [k \in i..M |-> IF k = i THEN Body(before, i) ELSE before[k]]
    <3>3. i \in starts => resume[i] \in (i + 1)..M
      BY <1>1
    <3>4. Body(before, i) \in S
      BY <1>1, <3>1, <3>2, <3>3
    <3>5. ASSUME NEW k \in (i + 1)..M
          PROVE  (k \in starts => resume[k] \in (i + 1)..M) /\ (k <= L => k + 1 \in (i + 1)..M)
      <4>1. k \in Nat /\ i + 1 <= k /\ k <= M
        BY <1>1
      <4>2. k \in starts => resume[k] \in (i + 1)..M
        BY <1>1, <4>1
      <4>3. k <= L => k + 1 \in (i + 1)..M
        BY <1>1, <4>1
      <4>4. QED
        BY <4>2, <4>3
    <3>6. i <= L => i + 1 \in (i + 1)..M
      BY <1>1
    <3> HIDE DEF S
    <3>7. from \in [i..M -> S] /\ \A k \in (i + 1)..M : from[k] = before[k]
      BY <3>1, <3>4
    <3>8. from[i] = Body(before, i)
      BY <3>1
    <3> HIDE DEF from
    <3>9. from[i] = Body(from, i)
      <4>1. i \in starts => from[resume[i]] = before[resume[i]]
        BY <3>3, <3>7
      <4>2. i <= L => from[i + 1] = before[i + 1]
        BY <3>6, <3>7
      <4>3. ~(i > L) => i <= L
        BY <1>1
      <4>4. QED
        BY <3>8, <4>1, <4>2, <4>3
    <3>10. ASSUME NEW k \in (i + 1)..M PROVE from[k] = Body(from, k)
      <4>0. (k \in starts => resume[k] \in (i + 1)..M) /\ (k <= L => k + 1 \in (i + 1)..M)
        BY <3>5
      <4>1. k \in starts => from[resume[k]] = before[resume[k]]
        BY <3>7, <4>0
      <4>2. k <= L => from[k + 1] = before[k + 1]
        BY <3>7, <4>0
      <4>3. ~(k > L) => k <= L
        BY <1>1
      <4>4. from[k] = Body(before, k)
        BY <3>2, <3>7
      <4>5. QED
        BY <4>1, <4>2, <4>3, <4>4
    <3> HIDE DEF Body
    <3>11. \A k \in i..M : from[k] = Body(from, k)
      BY <3>1, <3>9, <3>10
    <3>12. QED
      BY <3>7, <3>11
  <2>3. QED
    BY <2>1, <2>2
<1> HIDE DEF P
<1>3. \A i \in 1..M : i \in P
  BY <1>1, <1>2, DownFrom
<1>4. 1 \in 1..M
  BY <1>1
<1>5. 1 \in P
  BY <1>3, <1>4
<1>6. PICK from \in [1..M -> S] : \A k \in 1..M : from[k] = Body(from, k)
  BY <1>5 DEF P
<1>7. Scanned(from, L, starts, found, resume)
  BY <1>6 DEF Scanned, M
<1>8. QED
  BY <1>6, <1>7 DEF M, S

\* Everything found is found at a start.
LEMMA ScanFinds ==
  ASSUME NEW L \in Nat, NEW R, NEW starts \in SUBSET (1..L), NEW found \in [starts -> Seq(R)],
         NEW resume \in [starts -> Nat], \A i \in starts : i < resume[i] /\ resume[i] <= L + 2,
         NEW from, Scanned(from, L, starts, found, resume)
  PROVE  \A i \in 1..(L + 2) : from[i] \in Seq(R)
<1> DEFINE M == L + 2
           S == Seq(R)
           P == {i \in 1..M : from[i] \in S}
<1>1. M \in Nat /\ M = L + 2 /\ \A a, b \in S : a \o b \in S
  OBVIOUS
<1>2. << >> \in S
  OBVIOUS
<1> HIDE DEF M, S
<1>3. ASSUME NEW i \in 1..M, \A k \in (i + 1)..M : k \in P PROVE i \in P
  <2>1. from[i] = IF i > L THEN << >> ELSE IF i \in starts THEN found[i] \o from[resume[i]] ELSE from[i + 1]
    BY <1>1 DEF Scanned
  <2>2. CASE i > L
    BY <1>2, <2>1, <2>2
  <2>3. CASE i <= L /\ i \in starts
    <3>1. resume[i] \in (i + 1)..M
      BY <1>1, <2>3
    <3>2. from[resume[i]] \in S /\ found[i] \in S
      BY <1>3, <2>3, <3>1 DEF S
    <3>3. ~(i > L)
      BY <2>3
    <3>4. QED
      BY <1>1, <2>1, <2>3, <3>2, <3>3
  <2>4. CASE i <= L /\ i \notin starts
    <3>1. i + 1 \in (i + 1)..M /\ ~(i > L)
      BY <1>1, <2>4
    <3>2. QED
      BY <1>3, <2>1, <2>4, <3>1
  <2>5. QED
    BY <1>1, <2>2, <2>3, <2>4
<1> HIDE DEF P
<1>4. \A i \in 1..M : i \in P
  BY <1>1, <1>3, DownFrom
<1>5. QED
  BY <1>4 DEF P, M, S

\* r is found from every line up to j.
Reached(from, j, r) == \A i \in 1..j : \E k \in DOMAIN from[i] : from[i][k] = r

\* No scan that starts before j goes on behind it.
Reaching(starts, resume, j) == \A i \in starts : i < j => resume[i] <= j

\* What is found at a start is found from every line before it, if the reading never
\* resumes behind it.
LEMMA ScanReaches ==
  ASSUME NEW L \in Nat, NEW R, NEW starts \in SUBSET (1..L), NEW found \in [starts -> Seq(R)],
         NEW resume \in [starts -> Nat], \A i \in starts : i < resume[i] /\ resume[i] <= L + 2,
         NEW from, Scanned(from, L, starts, found, resume),
         NEW j \in starts, Reaching(starts, resume, j),
         NEW r, found[j] = <<r>>
  PROVE  Reached(from, j, r)
<1> DEFINE Has(i) == \E k \in DOMAIN from[i] : from[i][k] = r
           P == {i \in 1..j : Has(i)}
<1>1. /\ j \in Nat /\ j <= L /\ 1 <= j
      /\ \A i \in 1..(L + 2) : from[i] \in Seq(R)
  <2>1. j \in Nat /\ j <= L /\ 1 <= j
    OBVIOUS
  <2>2. \A i \in 1..(L + 2) : from[i] \in Seq(R)
    BY ScanFinds
  <2>3. QED
    BY <2>1, <2>2
<1>2. ASSUME NEW i \in 1..j, \A k \in (i + 1)..j : k \in P PROVE i \in P
  <2>1. i \in 1..(L + 2) /\ i \in 1..L /\ ~(i > L)
    BY <1>1
  <2>2. from[i] = IF i \in starts THEN found[i] \o from[resume[i]] ELSE from[i + 1]
    BY <2>1 DEF Scanned
  <2>3. CASE i = j
    <3>1. from[i] = <<r>> \o from[resume[i]]
      BY <2>2, <2>3
    <3>2. resume[i] \in 1..(L + 2)
      BY <2>3
    <3> DEFINE rest == from[resume[i]]
    <3>3. rest \in Seq(R) /\ r \in R
      <4>1. <<r>> \in Seq(R)
        BY <2>3
      <4>2. <<r>>[1] \in R
        BY <4>1
      <4>3. QED
        BY <1>1, <3>2, <4>2
    <3> HIDE DEF rest
    <3>4. 1 \in DOMAIN (<<r>> \o rest) /\ (<<r>> \o rest)[1] = r
      BY <3>3
    <3>5. Has(i)
      BY <3>1, <3>4 DEF rest
    <3>6. QED
      BY <3>5
  <2>4. CASE i # j /\ i \in starts
    <3>1. resume[i] \in (i + 1)..j
      BY <1>1, <2>4 DEF Reaching
    <3> DEFINE rest == from[resume[i]]
               here == found[i]
    <3>2. resume[i] \in P /\ resume[i] \in 1..(L + 2)
      BY <1>1, <1>2, <3>1
    <3>3. rest \in Seq(R) /\ here \in Seq(R) /\ from[i] = here \o rest
      BY <1>1, <2>2, <2>4, <3>2
    <3>4. \E k \in DOMAIN rest : rest[k] = r
      BY <3>2
    <3> HIDE DEF rest, here
    <3>5. PICK k \in DOMAIN rest : rest[k] = r
      BY <3>4
    <3>6. Len(here) + k \in DOMAIN (here \o rest) /\ (here \o rest)[Len(here) + k] = r
      BY <3>3, <3>5
    <3>7. Has(i)
      BY <3>3, <3>6
    <3>8. QED
      BY <3>7
  <2>5. CASE i # j /\ i \notin starts
    <3>1. i + 1 \in (i + 1)..j
      BY <1>1, <2>5
    <3>2. i + 1 \in P
      BY <1>2, <3>1
    <3>3. Has(i + 1)
      BY <3>2
    <3>4. QED
      BY <2>2, <2>5, <3>3
  <2>6. QED
    BY <2>3, <2>4, <2>5
<1> HIDE DEF P
<1>3. \A i \in 1..j : i \in P
  BY <1>1, <1>2, DownFrom
<1>4. QED
  BY <1>3 DEF P, Reached

-----------------------------------------------------------------------------
(* The blocks of a stream of lines. *)

\* The kinds of the lines of a block, and of all lines.
BlockKind == {"whole", "id", "id1", "id2", "id2end", "id3", "name", "course", "courseAlone"}
Line == [kind : BlockKind \union {"level", "footer"}, of : Nat]

\* The lines of a whole student number, and one more, begin at a and end up to b.
WholeNumber(lines, a, b) ==
  \/ lines[a].kind = "whole" /\ a + 1 <= b
  \/ lines[a].kind = "id1" /\ lines[a + 1].kind = "id2end" /\ a + 2 <= b
  \/ lines[a].kind = "id1" /\ lines[a + 1].kind = "id2" /\ lines[a + 2].kind = "id3" /\ a + 3 <= b

\* The block of student n is the lines from a to b.
BlockAt(lines, a, b, n, block) ==
  /\ a \in 1..Len(lines) /\ b \in a..Len(lines)
  /\ \A j \in a..b : lines[j].of = n /\ lines[j].kind # "footer"
  /\ \A j \in (a + 1)..b : ~StartsStudent(lines[j])
  /\ \A j \in a..(b - 1) : ~HasCourse(lines[j])
  /\ lines[a].kind = "id1" => a + 1 <= b
  /\ lines[a].kind = "id1" /\ lines[a + 1].kind = "id2" => a + 2 <= b
  /\ lines[a].kind = "id1" /\ block.threeParts => a + 2 <= b
  /\ block.intact => lines[b].kind = "course" /\ WholeNumber(lines, a, b)
  /\ block.intact /\ block.threeParts =>
       lines[a].kind = "id1" /\ lines[a + 1].kind = "id2" /\ lines[a + 2].kind = "id3" /\ a + 3 <= b

\* The kinds of the lines of a block, before any is lost.
BlockKinds(number, names, course) == number \o names \o <<course>>

\* The shapes of a student number.
LEMMA PartsOfNumber ==
  ASSUME NEW number \in Numbers
  PROVE  /\ number \in Seq(BlockKind)
         /\ \/ Len(number) = 1 /\ number[1] = "whole"
            \/ Len(number) = 2 /\ number[1] = "id1" /\ number[2] = "id2end"
            \/ Len(number) = 3 /\ number[1] = "id1" /\ number[2] = "id2" /\ number[3] = "id3"
            \/ Len(number) = 2 /\ number[1] = "id" /\ number[2] = "name" /\ number = BrokenNumber
<1>1. CASE number = <<"whole">>
  <2>1. number \in Seq(BlockKind)
    BY <1>1 DEF BlockKind
  <2>2. Len(number) = 1 /\ number[1] = "whole"
    BY <1>1
  <2>3. QED
    BY <2>1, <2>2
<1>2. CASE number = <<"id1", "id2end">>
  <2>1. number \in Seq(BlockKind)
    BY <1>2 DEF BlockKind
  <2>2. Len(number) = 2 /\ number[1] = "id1" /\ number[2] = "id2end"
    BY <1>2
  <2>3. QED
    BY <2>1, <2>2
<1>3. CASE number = <<"id1", "id2", "id3">>
  <2>1. number \in Seq(BlockKind)
    BY <1>3 DEF BlockKind
  <2>2. Len(number) = 3 /\ number[1] = "id1" /\ number[2] = "id2" /\ number[3] = "id3"
    BY <1>3
  <2>3. QED
    BY <2>1, <2>2
<1>4. CASE number = BrokenNumber
  <2>1. number = <<"id", "name">>
    BY <1>4 DEF BrokenNumber
  <2>2. number \in Seq(BlockKind)
    BY <2>1 DEF BlockKind
  <2>3. Len(number) = 2 /\ number[1] = "id" /\ number[2] = "name"
    BY <2>1
  <2>4. QED
    BY <1>4, <2>2, <2>3
<1>5. QED
  BY <1>1, <1>2, <1>3, <1>4 DEF Numbers, NumberLines

\* What the lines of a block are: the number first, the course last and nowhere else.
KindsRight(kinds, number, course) ==
  LET K == Len(kinds)
  IN /\ kinds \in Seq(BlockKind) /\ K \in 2..5
     /\ kinds[K] = course /\ \A j \in 1..(K - 1) : kinds[j] \notin CourseLines
     /\ \A j \in 2..K : kinds[j] \notin {"whole", "id", "id1"}
     /\ \/ kinds[1] = "whole" /\ Len(number) = 1 /\ \A j \in 1..K : kinds[j] # "id2"
        \/ kinds[1] = "id" /\ Len(number) = 2 /\ number = BrokenNumber /\ \A j \in 1..K : kinds[j] # "id2"
        \/ kinds[1] = "id1" /\ kinds[2] = "id2end" /\ K >= 3 /\ Len(number) = 2 /\ \A j \in 1..K : kinds[j] # "id2"
        \/ kinds[1] = "id1" /\ kinds[2] = "id2" /\ kinds[3] = "id3" /\ K >= 4 /\ Len(number) = 3
           /\ \A j \in 3..K : kinds[j] # "id2"

LEMMA KindsOfBlock ==
  ASSUME NEW number \in Numbers, NEW names \in {<< >>, <<"name">>}, NEW course \in CourseLines
  PROVE  KindsRight(BlockKinds(number, names, course), number, course)
<1> DEFINE c == Len(number)
           e == Len(names)
           last == <<course>>
           before == number \o names
           kinds == BlockKinds(number, names, course)
           K == Len(kinds)
           T == BlockKind
<1>0. course \in T /\ course \in {"course", "courseAlone"} /\ "name" \in T
  BY DEF CourseLines, BlockKind
<1>1. number \in Seq(T) /\ c \in 1..3
  BY PartsOfNumber
<1>2. /\ \/ c = 1 /\ number[1] = "whole"
         \/ c = 2 /\ number[1] = "id" /\ number[2] = "name" /\ number = BrokenNumber
         \/ c = 2 /\ number[1] = "id1" /\ number[2] = "id2end"
         \/ c = 3 /\ number[1] = "id1" /\ number[2] = "id2" /\ number[3] = "id3"
  BY PartsOfNumber
<1> HIDE DEF T
<1>3. names \in Seq(T) /\ e \in 0..1 /\ \A j \in 1..e : names[j] = "name"
  <2>1. CASE names = << >>
    BY <2>1
  <2>2. CASE names = <<"name">>
    BY <1>0, <2>2
  <2>3. QED
    BY <2>1, <2>2
<1>4. last \in Seq(T) /\ Len(last) = 1 /\ last[1] = course
  BY <1>0
<1>5. kinds = before \o last
  BY DEF BlockKinds
<1> HIDE DEF last, kinds
<1>6. before \in Seq(T) /\ Len(before) = c + e
  BY <1>1, <1>3
<1>7. \A j \in 1..c : before[j] = number[j]
  BY <1>1, <1>3
<1>8. \A j \in (c + 1)..(c + e) : before[j] = "name"
  BY <1>1, <1>3
<1> HIDE DEF before, c, e
<1>9. kinds \in Seq(T) /\ K = c + e + 1 /\ kinds[K] = course
  <2>1. kinds \in Seq(T) /\ K = c + e + 1
    <3>1. before \o last \in Seq(T)
      BY <1>4, <1>6
    <3>2. Len(before \o last) = Len(before) + Len(last)
      <4>1. before \in Seq(T) /\ last \in Seq(T)
        BY <1>4, <1>6
      <4>2. QED
        BY <4>1
    <3>3. QED
      BY <1>4, <1>5, <1>6, <3>1, <3>2
  <2>2. kinds[c + e + 1] = last[1]
    BY <1>1, <1>3, <1>4, <1>5, <1>6
  <2>3. QED
    BY <1>4, <2>1, <2>2
<1>10. \A j \in 1..(c + e) : kinds[j] = before[j]
  BY <1>1, <1>3, <1>4, <1>5, <1>6
<1> HIDE DEF K
<1>11. \A j \in 1..c : kinds[j] = number[j]
  BY <1>1, <1>3, <1>7, <1>10
<1>12. \A j \in (c + 1)..(c + e) : kinds[j] = "name"
  BY <1>1, <1>3, <1>8, <1>10
<1>13. ASSUME NEW j \in 1..K PROVE j \in 1..c \/ j \in (c + 1)..(c + e) \/ j = K
  BY <1>1, <1>3, <1>9
<1>14. K \in 2..5
  BY <1>1, <1>3, <1>9
<1>15. ASSUME NEW j \in 1..K PROVE j # 1 => kinds[j] # "whole" /\ kinds[j] # "id" /\ kinds[j] # "id1"
  BY <1>0, <1>2, <1>9, <1>11, <1>12, <1>13
<1>16. ASSUME NEW j \in 1..K PROVE j # K => kinds[j] # "course" /\ kinds[j] # "courseAlone"
  BY <1>2, <1>9, <1>11, <1>12, <1>13
<1>17. ASSUME NEW j \in 1..K PROVE kinds[j] = "id2" => j = 2 /\ c = 3
  BY <1>0, <1>2, <1>9, <1>11, <1>12, <1>13
<1>18. \/ kinds[1] = "whole" /\ c = 1
       \/ kinds[1] = "id" /\ c = 2 /\ number = BrokenNumber
       \/ kinds[1] = "id1" /\ kinds[2] = "id2end" /\ K >= 3 /\ c = 2
       \/ kinds[1] = "id1" /\ kinds[2] = "id2" /\ kinds[3] = "id3" /\ K >= 4 /\ c = 3
  BY <1>1, <1>2, <1>3, <1>9, <1>11
<1>19. \A j \in 1..(K - 1) : kinds[j] \notin CourseLines
  <2>1. ASSUME NEW j \in 1..(K - 1) PROVE j \in 1..K /\ j # K
    BY <1>14
  <2>2. QED
    BY <1>16, <2>1 DEF CourseLines
<1>20. \A j \in 2..K : kinds[j] \notin {"whole", "id", "id1"}
  <2>1. ASSUME NEW j \in 2..K PROVE j \in 1..K /\ j # 1
    BY <1>14
  <2>2. QED
    BY <1>15, <2>1
<1>21. (c # 3 => \A j \in 1..K : kinds[j] # "id2") /\ \A j \in 3..K : kinds[j] # "id2"
  <2>1. ASSUME NEW j \in 3..K PROVE j \in 1..K /\ j # 2
    BY <1>14
  <2>2. QED
    BY <1>17, <2>1
<1> DEFINE Without2(first) == \A j \in first..K : kinds[j] # "id2"
<1>22. (c = 1 => Without2(1)) /\ (c = 2 => Without2(1)) /\ Without2(3)
  BY <1>21
<1> HIDE DEF Without2
<1>23. \/ kinds[1] = "whole" /\ c = 1 /\ Without2(1)
       \/ kinds[1] = "id" /\ c = 2 /\ number = BrokenNumber /\ Without2(1)
       \/ kinds[1] = "id1" /\ kinds[2] = "id2end" /\ K >= 3 /\ c = 2 /\ Without2(1)
       \/ kinds[1] = "id1" /\ kinds[2] = "id2" /\ kinds[3] = "id3" /\ K >= 4 /\ c = 3 /\ Without2(3)
  BY <1>18, <1>22
<1>24. QED
  BY <1>9, <1>14, <1>19, <1>20, <1>23 DEF KindsRight, kinds, K, c, T, Without2

\* A sequence without one of its elements.
LEMMA RemovedAt ==
  ASSUME NEW S, NEW whole \in Seq(S), NEW d \in 1..Len(whole)
  PROVE  /\ RemoveAt(whole, d) \in Seq(S) /\ Len(RemoveAt(whole, d)) = Len(whole) - 1
         /\ \A j \in 1..(Len(whole) - 1) :
              RemoveAt(whole, d)[j] = IF j < d THEN whole[j] ELSE whole[j + 1]
<1> DEFINE a == SubSeq(whole, 1, d - 1)
           b == SubSeq(whole, d + 1, Len(whole))
           K == Len(whole)
<1>1. K \in Nat /\ d \in Nat /\ 1 <= d /\ d <= K
  OBVIOUS
<1>2. a \in Seq(S) /\ Len(a) = d - 1 /\ \A j \in 1..(d - 1) : a[j] = whole[j]
  BY <1>1
<1>3. b \in Seq(S)
  BY <1>1
<1>4. Len(b) = K - d
  BY <1>1
<1>5. \A j \in 1..(K - d) : b[j] = whole[j + d]
  BY <1>1
<1>6. RemoveAt(whole, d) = a \o b
  BY DEF RemoveAt
<1> HIDE DEF a, b, K
<1>7. a \o b \in Seq(S) /\ Len(a \o b) = K - 1
  BY <1>1, <1>2, <1>3, <1>4
<1>8. ASSUME NEW j \in 1..(K - 1) PROVE (a \o b)[j] = IF j < d THEN whole[j] ELSE whole[j + 1]
  <2>1. CASE j < d
    BY <1>1, <1>2, <1>3, <1>4, <2>1
  <2>2. CASE ~(j < d)
    <3>1. j - (d - 1) \in 1..(K - d) /\ j - (d - 1) + d = j + 1
      BY <1>1, <2>2
    <3>2. (a \o b)[j] = b[j - (d - 1)]
      BY <1>1, <1>2, <1>3, <1>4, <2>2
    <3>3. b[j - (d - 1)] = whole[j - (d - 1) + d]
      BY <1>5, <3>1
    <3>4. QED
      BY <2>2, <3>1, <3>2, <3>3
  <2>3. QED
    BY <2>1, <2>2
<1>9. QED
  BY <1>6, <1>7, <1>8 DEF K

\* The lines of the block of student n, before any is lost and after.
WholeBlock(number, names, course, n) ==
  LET kinds == BlockKinds(number, names, course)
  IN [k \in DOMAIN kinds |-> [kind |-> kinds[k], of |-> n]]

WithoutLine(whole, lost) == IF lost = 0 THEN whole ELSE RemoveAt(whole, lost)

\* Whichever line is lost, or none, what is left is a block.
LEMMA BlockLeft ==
  ASSUME NEW number \in Numbers, NEW names \in {<< >>, <<"name">>}, NEW course \in CourseLines, NEW n \in Nat,
         NEW lost \in 0..Len(WholeBlock(number, names, course, n)),
         NEW block, block.intact => lost = 0 /\ number # BrokenNumber /\ course = "course",
         block.threeParts => Len(number) = 3
  PROVE  LET left == WithoutLine(WholeBlock(number, names, course, n), lost)
         IN left \in Seq(Line) /\ BlockAt(left, 1, Len(left), n, block)
<1> DEFINE T == BlockKind
           c == Len(number)
           kinds == BlockKinds(number, names, course)
           whole == WholeBlock(number, names, course, n)
           left == WithoutLine(whole, lost)
           K == Len(kinds)
           M == Len(left)
           at(j) == IF lost = 0 \/ j < lost THEN j ELSE j + 1
<1>0. KindsRight(kinds, number, course)
  BY KindsOfBlock
<1>4. whole = [k \in DOMAIN kinds |-> [kind |-> kinds[k], of |-> n]]
  BY DEF WholeBlock
<1> HIDE DEF T, c, kinds, whole
<1>1. kinds \in Seq(T) /\ K \in 2..5
  BY <1>0 DEF KindsRight, T
<1>2. /\ kinds[K] = course /\ \A j \in 1..(K - 1) : kinds[j] \notin CourseLines
      /\ \A j \in 2..K : kinds[j] \notin {"whole", "id", "id1"}
  BY <1>0 DEF KindsRight
<1>3. \/ kinds[1] = "whole" /\ c = 1 /\ \A j \in 1..K : kinds[j] # "id2"
      \/ kinds[1] = "id" /\ c = 2 /\ number = BrokenNumber /\ \A j \in 1..K : kinds[j] # "id2"
      \/ kinds[1] = "id1" /\ kinds[2] = "id2end" /\ K >= 3 /\ c = 2 /\ \A j \in 1..K : kinds[j] # "id2"
      \/ kinds[1] = "id1" /\ kinds[2] = "id2" /\ kinds[3] = "id3" /\ K >= 4 /\ c = 3
         /\ \A j \in 3..K : kinds[j] # "id2"
  BY <1>0 DEF KindsRight, c
<1>5. DOMAIN kinds = 1..K /\ \A j \in 1..K : kinds[j] \in T
  BY <1>1
<1>6. \A j \in 1..K : whole[j].kind = kinds[j] /\ whole[j].of = n /\ whole[j] \in Line
  <2>1. ASSUME NEW j \in 1..K
        PROVE  whole[j] = [kind |-> kinds[j], of |-> n]
    BY <1>4, <1>5
  <2>2. ASSUME NEW j \in 1..K
        PROVE  kinds[j] \in BlockKind \union {"level", "footer"}
    BY <1>5 DEF T
  <2>3. ASSUME NEW j \in 1..K PROVE whole[j] \in Line
    <3>1. [kind |-> kinds[j], of |-> n] \in Line
      BY <2>2 DEF Line
    <3>2. QED
      BY <2>1, <3>1
  <2>4. ASSUME NEW j \in 1..K PROVE whole[j].kind = kinds[j] /\ whole[j].of = n
    <3>1. whole[j] = [kind |-> kinds[j], of |-> n]
      BY <2>1
    <3>2. QED
      BY <3>1
  <2>5. QED
    BY <2>3, <2>4
<1>7. whole \in Seq(Line) /\ Len(whole) = K
  <2>1. whole = [j \in 1..K |-> whole[j]]
    BY <1>4, <1>5
  <2>2. whole \in [1..K -> Line]
    BY <1>6, <2>1
  <2>3. QED
    BY <1>1, <2>2
<1> HIDE DEF K
<1>8. lost \in 0..K
  BY <1>7 DEF whole
<1>9. left \in Seq(Line) /\ M = (IF lost = 0 THEN K ELSE K - 1) /\ \A j \in 1..M : left[j] = whole[at(j)]
  <2>1. CASE lost = 0
    <3>1. left = whole
      BY <2>1 DEF WithoutLine
    <3>2. QED
      BY <1>7, <2>1, <3>1
  <2>2. CASE lost # 0
    <3>1. left = RemoveAt(whole, lost)
      BY <2>2 DEF WithoutLine
    <3>2. lost \in 1..Len(whole)
      BY <1>1, <1>7, <1>8, <2>2
    <3>3. /\ RemoveAt(whole, lost) \in Seq(Line) /\ Len(RemoveAt(whole, lost)) = Len(whole) - 1
          /\ \A j \in 1..(Len(whole) - 1) :
              RemoveAt(whole, lost)[j] = IF j < lost THEN whole[j] ELSE whole[j + 1]
      BY <1>7, <3>2, RemovedAt
    <3>4. QED
      BY <1>7, <2>2, <3>1, <3>3
  <2>3. QED
    BY <2>1, <2>2
<1> HIDE DEF left, M
<1>10. M \in 1..K /\ (lost = 0 => M = K) /\ K - 1 <= M
  BY <1>1, <1>8, <1>9
<1>11. ASSUME NEW j \in 1..M
       PROVE  /\ at(j) \in 1..K /\ (j # 1 => at(j) # 1) /\ (j # M => at(j) # K)
              /\ (at(j) = 1 \/ at(j) \in 2..K) /\ (at(j) = K \/ at(j) \in 1..(K - 1))
  <2>1. at(j) \in 1..K
    BY <1>1, <1>8, <1>9, <1>10
  <2>2. j # 1 => at(j) # 1
    BY <1>1, <1>8, <1>9, <1>10
  <2>3. j # M => at(j) # K
    BY <1>1, <1>8, <1>9, <1>10
  <2> HIDE DEF at
  <2>4. QED
    BY <1>1, <2>1, <2>2, <2>3
<1>12. lost = 0 => at(1) = 1 /\ at(2) = 2 /\ at(3) = 3 /\ at(K) = K
  OBVIOUS
<1>13. at(1) # 1 => at(1) = 2 /\ K \in 2..5
  BY <1>1, <1>8
<1> HIDE DEF at
<1>14. \A j \in 1..M : left[j].kind = kinds[at(j)] /\ left[j].of = n
  BY <1>6, <1>9, <1>11
<1>15. 1 \in 1..M /\ M \in 1..M
  BY <1>10
<1>16. left[1].kind = "id1" => at(1) = 1 /\ kinds[1] = "id1"
  BY <1>2, <1>11, <1>14, <1>15
<1>17. left[1].kind = "id1" => 2 <= M
  BY <1>1, <1>3, <1>10, <1>16
<1>18. left[1].kind = "id1" /\ c = 3 => 3 <= M
  BY <1>1, <1>3, <1>10, <1>16
<1>19. left[1].kind = "id1" /\ left[2].kind = "id2" => c = 3
  <2>1. SUFFICES ASSUME left[1].kind = "id1", left[2].kind = "id2" PROVE c = 3
    OBVIOUS
  <2>2. 2 \in 1..M
    BY <1>10, <1>17, <2>1
  <2>3. kinds[at(2)] = "id2" /\ at(2) \in 1..K
    BY <1>11, <1>14, <2>1, <2>2
  <2>4. QED
    BY <1>3, <1>16, <2>1, <2>3
<1>20. \A j \in 1..M : left[j].kind # "footer"
  <2>1. \A j \in 1..K : kinds[j] # "footer"
    BY <1>5 DEF T, BlockKind
  <2>2. QED
    BY <1>11, <1>14, <2>1
<1>21. \A j \in 2..M : ~StartsStudent(left[j])
  <2>1. ASSUME NEW j \in 2..M PROVE j \in 1..M /\ at(j) \in 2..K
    <3>1. j \in 1..M /\ j # 1
      OBVIOUS
    <3>2. QED
      BY <1>11, <3>1
  <2>2. QED
    BY <1>2, <1>14, <2>1 DEF StartsStudent
<1>22. \A j \in 1..(M - 1) : ~HasCourse(left[j])
  <2>1. ASSUME NEW j \in 1..(M - 1) PROVE j \in 1..M /\ at(j) \in 1..(K - 1)
    <3>1. j \in 1..M /\ j # M
      BY <1>10
    <3>2. QED
      BY <1>11, <3>1
  <2>2. ASSUME NEW j \in 1..(M - 1) PROVE ~HasCourse(left[j])
    <3>1. left[j].kind = kinds[at(j)] /\ at(j) \in 1..(K - 1)
      BY <1>14, <2>1
    <3>2. kinds[at(j)] \notin CourseLines
      BY <1>2, <3>1
    <3>3. QED
      BY <3>1, <3>2 DEF HasCourse, CourseLines
  <2>3. QED
    BY <2>2
<1>23. ASSUME lost = 0, number # BrokenNumber, course = "course"
       PROVE  /\ left[M].kind = "course" /\ WholeNumber(left, 1, M)
              /\ c = 3 => left[1].kind = "id1" /\ left[2].kind = "id2" /\ left[3].kind = "id3" /\ 4 <= M
  <2>1. M = K
    BY <1>10, <1>23
  <2>2. left[M].kind = "course"
    BY <1>2, <1>12, <1>14, <1>15, <1>23, <2>1
  <2>3. left[1].kind = kinds[1] /\ 2 <= M
    BY <1>1, <1>12, <1>14, <1>15, <1>23, <2>1
  <2>4. left[2].kind = kinds[2]
    <3>1. 2 \in 1..M
      BY <1>10, <2>3
    <3>2. QED
      BY <1>12, <1>14, <1>23, <3>1
  <2>5. 3 <= M => left[3].kind = kinds[3]
    <3>1. 3 <= M => 3 \in 1..M
      BY <1>10
    <3>2. QED
      BY <1>12, <1>14, <1>23, <3>1
  <2>6. c = 3 => left[1].kind = "id1" /\ left[2].kind = "id2" /\ left[3].kind = "id3" /\ 4 <= M
    <3>1. c = 3 => kinds[1] = "id1" /\ kinds[2] = "id2" /\ kinds[3] = "id3" /\ K >= 4
      BY <1>3
    <3>2. QED
      BY <1>1, <2>1, <2>3, <2>4, <2>5, <3>1
  <2>7. \/ left[1].kind = "whole"
        \/ left[1].kind = "id1" /\ left[2].kind = "id2end" /\ 3 <= M
        \/ left[1].kind = "id1" /\ left[2].kind = "id2" /\ left[3].kind = "id3" /\ 4 <= M
    <3>1. \/ kinds[1] = "whole"
          \/ kinds[1] = "id1" /\ kinds[2] = "id2end" /\ K >= 3
          \/ kinds[1] = "id1" /\ kinds[2] = "id2" /\ kinds[3] = "id3" /\ K >= 4
      BY <1>3, <1>23
    <3>2. QED
      BY <1>1, <2>1, <2>3, <2>4, <2>5, <3>1
  <2>8. WholeNumber(left, 1, M)
    BY <2>3, <2>7 DEF WholeNumber
  <2>9. QED
    BY <2>2, <2>6, <2>8
<1>24. BlockAt(left, 1, M, n, block)
  <2>1. 1 \in 1..Len(left) /\ M \in 1..Len(left)
    BY <1>15 DEF M
  <2>2. \A j \in 1..M : left[j].of = n /\ left[j].kind # "footer"
    BY <1>14, <1>20
  <2>3. /\ left[1].kind = "id1" => 2 <= M
        /\ left[1].kind = "id1" /\ left[2].kind = "id2" => 3 <= M
        /\ left[1].kind = "id1" /\ block.threeParts => 3 <= M
    BY <1>17, <1>18, <1>19 DEF c
  <2>4. block.intact => left[M].kind = "course" /\ WholeNumber(left, 1, M)
    BY <1>23
  <2>5. block.intact /\ block.threeParts =>
          left[1].kind = "id1" /\ left[2].kind = "id2" /\ left[3].kind = "id3" /\ 4 <= M
    BY <1>23 DEF c
  <2>6. QED
    BY <1>21, <1>22, <2>1, <2>2, <2>3, <2>4, <2>5 DEF BlockAt
<1>25. QED
  BY <1>9, <1>24 DEF M, left, whole

\* A block is where its lines are.
LEMMA BlockMoved ==
  ASSUME NEW p \in Seq(Line), NEW q \in Seq(Line), NEW a \in Nat, NEW b \in Nat, NEW n, NEW block, NEW d \in Nat,
         BlockAt(p, a, b, n, block), b + d <= Len(q), \A j \in a..b : q[j + d] = p[j]
  PROVE  BlockAt(q, a + d, b + d, n, block)
<1>1. 1 <= a /\ a <= b /\ b <= Len(p) /\ Len(q) \in Nat
  BY DEF BlockAt
<1>2. a + d \in 1..Len(q) /\ b + d \in (a + d)..Len(q)
  BY <1>1
<1>3. ASSUME NEW j \in (a + d)..(b + d)
      PROVE  /\ j - d \in a..b /\ q[j] = p[j - d]
             /\ (j \in (a + d + 1)..(b + d) => j - d \in (a + 1)..b)
             /\ (j \in (a + d)..(b + d - 1) => j - d \in a..(b - 1))
  <2>1. j - d \in a..b /\ (j - d) + d = j
    BY <1>1
  <2>2. j \in (a + d + 1)..(b + d) => j - d \in (a + 1)..b
    BY <1>1
  <2>3. j \in (a + d)..(b + d - 1) => j - d \in a..(b - 1)
    BY <1>1
  <2>4. q[j] = p[j - d]
    BY <2>1
  <2>5. QED
    BY <2>1, <2>2, <2>3, <2>4
<1>4. \A j \in (a + d)..(b + d) : q[j].of = n /\ q[j].kind # "footer"
  BY <1>3 DEF BlockAt
<1>5. \A j \in (a + d + 1)..(b + d) : ~StartsStudent(q[j])
  <2>1. ASSUME NEW j \in (a + d + 1)..(b + d) PROVE j \in (a + d)..(b + d)
    BY <1>1
  <2>2. QED
    BY <1>3, <2>1 DEF BlockAt
<1>6. \A j \in (a + d)..(b + d - 1) : ~HasCourse(q[j])
  <2>1. ASSUME NEW j \in (a + d)..(b + d - 1) PROVE j \in (a + d)..(b + d)
    BY <1>1
  <2>2. QED
    BY <1>3, <2>1 DEF BlockAt
<1>7. q[a + d] = p[a] /\ q[b + d] = p[b]
  <2>1. a \in a..b /\ b \in a..b
    BY <1>1
  <2>2. QED
    BY <2>1
<1>8. a + 1 <= b => q[a + d + 1] = p[a + 1]
  <2>1. SUFFICES ASSUME a + 1 <= b PROVE q[a + d + 1] = p[a + 1]
    OBVIOUS
  <2>2. a + 1 \in a..b /\ (a + 1) + d = a + d + 1
    BY <2>1
  <2>3. QED
    BY <2>2
<1>9. a + 2 <= b => q[a + d + 2] = p[a + 2]
  <2>1. SUFFICES ASSUME a + 2 <= b PROVE q[a + d + 2] = p[a + 2]
    OBVIOUS
  <2>2. a + 2 \in a..b /\ (a + 2) + d = a + d + 2
    BY <2>1
  <2>3. QED
    BY <2>2
<1>10. \A e \in Nat : a + e <= b <=> a + d + e <= b + d
  OBVIOUS
<1>11. q[a + d].kind = "id1" => a + d + 1 <= b + d
  BY <1>7, <1>10 DEF BlockAt
<1>12. q[a + d].kind = "id1" /\ q[a + d + 1].kind = "id2" => a + d + 2 <= b + d
  <2>1. p[a].kind = "id1" => a + 1 <= b
    BY DEF BlockAt
  <2>2. p[a].kind = "id1" /\ p[a + 1].kind = "id2" => a + 2 <= b
    BY DEF BlockAt
  <2>3. QED
    BY <1>7, <1>8, <1>10, <2>1, <2>2
<1>13. q[a + d].kind = "id1" /\ block.threeParts => a + d + 2 <= b + d
  BY <1>7, <1>10 DEF BlockAt
<1>14. WholeNumber(p, a, b) => WholeNumber(q, a + d, b + d)
  <2>1. a + 2 <= b => a + 1 <= b
    OBVIOUS
  <2>2. a + 3 <= b => a + 1 <= b /\ a + 2 <= b
    OBVIOUS
  <2>3. QED
    BY <1>7, <1>8, <1>9, <1>10, <2>1, <2>2 DEF WholeNumber
<1>15. block.intact => q[b + d].kind = "course" /\ WholeNumber(q, a + d, b + d)
  BY <1>7, <1>14 DEF BlockAt
<1>16. block.intact /\ block.threeParts =>
         q[a + d].kind = "id1" /\ q[a + d + 1].kind = "id2" /\ q[a + d + 2].kind = "id3" /\ a + d + 3 <= b + d
  <2>1. a + 3 <= b => a + 1 <= b /\ a + 2 <= b
    OBVIOUS
  <2>2. QED
    BY <1>7, <1>8, <1>9, <1>10, <2>1 DEF BlockAt
<1>17. QED
  BY <1>2, <1>4, <1>5, <1>6, <1>11, <1>12, <1>13, <1>15, <1>16 DEF BlockAt

\* The blocks of a text, one after another with nothing but footers between them.
BlocksAt(lines, first, last, blocks) ==
  /\ \A k \in 1..Len(blocks) : BlockAt(lines, first[k], last[k], k, blocks[k])
  /\ \A k, m \in 1..Len(blocks) : k < m => last[k] < first[m]
  /\ \A j \in 1..Len(lines) :
       lines[j].kind = "footer" \/ \E k \in 1..Len(blocks) : j \in first[k]..last[k]

\* With another block, and perhaps a footer, a text is still made of blocks.
LEMMA BlocksExtended ==
  ASSUME NEW lines \in Seq(Line), NEW left \in Seq(Line), NEW tail \in Seq(Line),
         \A j \in 1..Len(tail) : tail[j].kind = "footer",
         NEW S, NEW blocks \in Seq(S), NEW block \in S, NEW n, n = Len(blocks) + 1,
         NEW first \in [1..Len(blocks) -> Nat], NEW last \in [1..Len(blocks) -> Nat],
         BlocksAt(lines, first, last, blocks), BlockAt(left, 1, Len(left), n, block)
  PROVE  \E f, l \in [1..n -> Nat] : BlocksAt(lines \o left \o tail, f, l, Append(blocks, block))
<1> DEFINE L == Len(lines)
           M == Len(left)
           N == Len(blocks)
           all == lines \o left \o tail
           f == [k \in 1..n |-> IF k = n THEN L + 1 ELSE first[k]]
           l == [k \in 1..n |-> IF k = n THEN L + M ELSE last[k]]
           more == Append(blocks, block)
<1>1. L \in Nat /\ M \in Nat /\ N \in Nat /\ Len(tail) \in Nat /\ n \in Nat /\ n = N + 1 /\ 1 <= M
  BY DEF BlockAt
<1>2. more \in Seq(S) /\ Len(more) = n /\ more[n] = block /\ \A k \in 1..N : more[k] = blocks[k]
  BY <1>1
<1> DEFINE both == lines \o left
<1>3. both \in Seq(Line) /\ Len(both) = L + M
  OBVIOUS
<1>4. (\A j \in 1..L : both[j] = lines[j]) /\ \A j \in 1..M : both[j + L] = left[j]
  <2>1. \A j \in 1..L : both[j] = lines[j]
    OBVIOUS
  <2>2. ASSUME NEW j \in 1..M PROVE both[j + L] = left[j]
    <3>1. j + L \in 1..(L + M) /\ ~(j + L <= L) /\ (j + L) - L = j
      BY <1>1
    <3>2. QED
      BY <1>1, <3>1
  <2>3. QED
    BY <2>1, <2>2
<1> HIDE DEF both
<1>5. all = both \o tail
  BY DEF both
<1> HIDE DEF all, L, M, N
<1>6. all \in Seq(Line) /\ Len(all) = L + M + Len(tail)
  <2>1. both \o tail \in Seq(Line) /\ Len(both \o tail) = Len(both) + Len(tail)
    <3>1. both \in Seq(Line) /\ tail \in Seq(Line)
      BY <1>3
    <3>2. QED
      BY <3>1
  <2>2. QED
    BY <1>3, <1>5, <2>1
<1>7. \A j \in 1..(L + M) : all[j] = both[j]
  <2>1. \A j \in 1..Len(both) : (both \o tail)[j] = both[j]
    BY <1>3
  <2>2. QED
    BY <1>3, <1>5, <2>1
<1>8. \A j \in (L + M + 1)..(L + M + Len(tail)) : all[j].kind = "footer"
  <2>1. ASSUME NEW j \in (L + M + 1)..(L + M + Len(tail)) PROVE all[j].kind = "footer"
    <3>1. j - (L + M) \in 1..Len(tail)
      BY <1>1
    <3>2. all[j] = tail[j - (L + M)]
      BY <1>1, <1>3, <1>5
    <3>3. QED
      BY <3>1, <3>2
  <2>2. QED
    BY <2>1
<1>9. \A j \in 1..L : all[j] = lines[j]
  <2>1. \A j \in 1..L : j \in 1..(L + M)
    BY <1>1
  <2>2. QED
    BY <1>4, <1>7, <2>1
<1>10. \A j \in 1..M : all[j + L] = left[j]
  <2>1. \A j \in 1..M : j + L \in 1..(L + M)
    BY <1>1
  <2>2. QED
    BY <1>4, <1>7, <2>1
<1>11. f \in [1..n -> Nat] /\ l \in [1..n -> Nat] /\ f[n] = L + 1 /\ l[n] = L + M
       /\ \A k \in 1..N : f[k] = first[k] /\ l[k] = last[k]
  <2>1. \A k \in 1..n : k # n => k \in 1..N
    BY <1>1
  <2>2. f \in [1..n -> Nat] /\ l \in [1..n -> Nat]
    BY <1>1, <2>1 DEF N
  <2>3. n \in 1..n /\ \A k \in 1..N : k \in 1..n /\ k # n
    BY <1>1
  <2>4. QED
    BY <2>2, <2>3
<1> HIDE DEF f, l, more
<1>12. ASSUME NEW k \in 1..N
       PROVE  BlockAt(all, f[k], l[k], k, more[k]) /\ l[k] < L + 1
  <2>1. BlockAt(lines, first[k], last[k], k, blocks[k]) /\ first[k] \in Nat /\ last[k] \in Nat
    BY DEF BlocksAt, N
  <2>2. first[k] >= 1 /\ last[k] <= L
    BY <2>1 DEF BlockAt, L
  <2>3. last[k] + 0 <= Len(all) /\ \A j \in first[k]..last[k] : j \in 1..L /\ j + 0 = j
    BY <1>1, <1>6, <2>1, <2>2
  <2>4. \A j \in first[k]..last[k] : all[j + 0] = lines[j]
    BY <1>9, <2>3
  <2>5. BlockAt(all, first[k] + 0, last[k] + 0, k, blocks[k])
    BY <1>6, <2>1, <2>3, <2>4, BlockMoved
  <2>6. first[k] + 0 = first[k] /\ last[k] + 0 = last[k]
    BY <2>1
  <2>7. BlockAt(all, first[k], last[k], k, blocks[k])
    BY <2>5, <2>6
  <2>8. QED
    BY <1>1, <1>2, <1>11, <2>1, <2>2, <2>7
<1>13. BlockAt(all, f[n], l[n], n, more[n])
  <2>1. M + L <= Len(all)
    BY <1>1, <1>6
  <2>2. BlockAt(left, 1, M, n, block)
    BY DEF M
  <2>3. BlockAt(all, 1 + L, M + L, n, block)
    BY <1>1, <1>6, <1>10, <2>1, <2>2, BlockMoved
  <2>4. 1 + L = f[n] /\ M + L = l[n]
    BY <1>1, <1>11
  <2>5. QED
    BY <1>2, <2>3, <2>4
<1>14. \A k \in 1..n : k = n \/ k \in 1..N
  BY <1>1
<1>15. \A k \in 1..n : BlockAt(all, f[k], l[k], k, more[k])
  BY <1>12, <1>13, <1>14
<1>16. ASSUME NEW k \in 1..n, NEW m \in 1..n, k < m PROVE l[k] < f[m]
  <2>1. k \in 1..N
    BY <1>1, <1>16
  <2>2. CASE m = n
    BY <1>11, <1>12, <2>1, <2>2
  <2>3. CASE m \in 1..N
    <3>1. last[k] < first[m]
      BY <1>16, <2>1, <2>3 DEF BlocksAt, N
    <3>2. QED
      BY <1>11, <2>1, <2>3, <3>1
  <2>4. QED
    BY <1>14, <2>2, <2>3
<1>17. ASSUME NEW j \in 1..Len(all)
       PROVE  all[j].kind = "footer" \/ \E k \in 1..n : j \in f[k]..l[k]
  <2>1. CASE j \in 1..L
    <3>1. lines[j].kind = "footer" \/ \E k \in 1..N : j \in first[k]..last[k]
      BY <2>1 DEF BlocksAt, L, N
    <3>2. \A k \in 1..N : k \in 1..n
      BY <1>1
    <3>3. QED
      BY <1>9, <1>11, <2>1, <3>1, <3>2
  <2>2. CASE j \in (L + 1)..(L + M)
    <3>1. n \in 1..n
      BY <1>1
    <3>2. QED
      BY <1>11, <2>2, <3>1
  <2>3. CASE j \in (L + M + 1)..(L + M + Len(tail))
    BY <1>8, <2>3
  <2>4. j \in 1..L \/ j \in (L + 1)..(L + M) \/ j \in (L + M + 1)..(L + M + Len(tail))
    BY <1>1, <1>6
  <2>5. QED
    BY <2>1, <2>2, <2>3, <2>4
<1>18. BlocksAt(all, f, l, more)
  BY <1>2, <1>15, <1>16, <1>17 DEF BlocksAt
<1>19. QED
  BY <1>11, <1>18 DEF all, more

\* At most one block is damaged, and the text is made of the blocks, in their order.
LinesInv ==
  /\ linePdf \in Seq(Line)
  /\ \A k, m \in 1..Len(printed.lines) : k # m => printed.lines[k].intact \/ printed.lines[m].intact
  /\ \E first, last \in [1..Len(printed.lines) -> Nat] : BlocksAt(linePdf, first, last, printed.lines)

\* A stream of lines has each line on a row of its own; in a PDF of rows, each is that of its
\* student, and the lines are of the kinds of cells that rows have.
LegacyLine == [kind : {"whole", "name", "courseAlone", "level"}, of : Nat]

StreamInv == printed.rows = << >> => LinesInv /\ rowPdf = EachARow(linePdf)

RowsInv ==
  printed.lines = << >> =>
    /\ rowPdf \in Seq(Seq(Line)) /\ Len(rowPdf) = Len(printed.rows)
    /\ \A n \in 1..Len(printed.rows) : rowPdf[n] = StudentRow(n, printed.rows[n])
    /\ linePdf \in Seq(LegacyLine)
    /\ \A i \in 1..Len(linePdf) :
         linePdf[i].kind = "whole" => \E r \in 1..Len(rowPdf) : NumbersIn(rowPdf[r]) # {}

\* A PDF is printed in one layout.
OneLayout ==
  /\ splitPdf.headings => printed.rows = << >> /\ printed.lines = << >>
  /\ printed.rows = << >> \/ printed.lines = << >>

PdfInv == PrintedOK /\ OneLayout /\ StreamInv /\ RowsInv

\* The empty text is made of no block and no row.
LEMMA PdfInitially == RosterParsingInit => PdfInv
<1> SUFFICES ASSUME RosterParsingInit PROVE PdfInv
  OBVIOUS
<1> DEFINE none == << >>
<1>1. /\ rowPdf = none /\ linePdf = none /\ printed = [split |-> none, rows |-> none, lines |-> none]
      /\ ~splitPdf.headings
  BY DEF RosterParsingInit, NothingPrinted
<1>2. /\ none \in Seq(BOOLEAN) /\ none \in Seq(0..5) /\ none \in Seq(Block) /\ none \in Seq(Line) /\ Len(none) = 0
      /\ none \in Seq(LegacyLine) /\ none \in Seq(Seq(Line)) /\ EachARow(none) = none
  BY DEF EachARow
<1>3. none = << >>
  OBVIOUS
<1> HIDE DEF none
<1>4. PrintedOK
  BY <1>1, <1>2 DEF PrintedOK
<1>5. printed.rows = none /\ printed.lines = none /\ 1..Len(none) = {}
  BY <1>1, <1>2
<1> DEFINE f == [k \in 1..Len(none) |-> 0]
<1>6. f \in [1..Len(none) -> Nat]
  OBVIOUS
<1> HIDE DEF f
<1>7. BlocksAt(none, f, f, none)
  BY <1>2, <1>5 DEF BlocksAt
<1>8. LinesInv
  BY <1>1, <1>2, <1>5, <1>6, <1>7 DEF LinesInv
<1>9. StreamInv /\ RowsInv /\ OneLayout
  BY <1>1, <1>2, <1>3, <1>5, <1>8 DEF StreamInv, RowsInv, OneLayout
<1>10. QED
  BY <1>4, <1>9 DEF PdfInv

\* What is put behind a text has its lines put behind the rows.
LEMMA RowsBehindRows ==
  ASSUME NEW p \in Seq(Line), NEW q \in Seq(Line)
  PROVE  EachARow(p \o q) = EachARow(p) \o EachARow(q)
<1> DEFINE a == EachARow(p)
           b == EachARow(q)
           R == {<<line>> : line \in Line}
<1>1. ASSUME NEW t \in Seq(Line)
      PROVE  EachARow(t) \in Seq(R) /\ Len(EachARow(t)) = Len(t) /\ \A k \in 1..Len(t) : EachARow(t)[k] = <<t[k]>>
  <2>1. DOMAIN t = 1..Len(t) /\ Len(t) \in Nat /\ \A k \in 1..Len(t) : t[k] \in Line
    OBVIOUS
  <2>2. EachARow(t) = [k \in 1..Len(t) |-> <<t[k]>>]
    BY <2>1 DEF EachARow
  <2>3. \A k \in 1..Len(t) : <<t[k]>> \in R
    BY <2>1
  <2> HIDE DEF R
  <2>4. EachARow(t) \in [1..Len(t) -> R]
    BY <2>2, <2>3
  <2>5. QED
    BY <2>1, <2>2, <2>4
<1>2. p \o q \in Seq(Line) /\ Len(p \o q) = Len(p) + Len(q)
  OBVIOUS
<1>3. a \in Seq(R) /\ b \in Seq(R) /\ Len(a) = Len(p) /\ Len(b) = Len(q)
  BY <1>1
<1>4. (\A k \in 1..Len(p) : a[k] = <<p[k]>>) /\ \A k \in 1..Len(q) : b[k] = <<q[k]>>
  BY <1>1
<1>5. EachARow(p \o q) \in Seq(R) /\ Len(EachARow(p \o q)) = Len(p) + Len(q)
      /\ \A k \in 1..(Len(p) + Len(q)) : EachARow(p \o q)[k] = <<(p \o q)[k]>>
  BY <1>1, <1>2
<1> HIDE DEF a, b, R
<1> DEFINE c == a \o b
           all == EachARow(p \o q)
<1>6. c \in Seq(R) /\ Len(c) = Len(p) + Len(q)
  BY <1>3
<1>7. ASSUME NEW k \in 1..(Len(p) + Len(q)) PROVE c[k] = <<(p \o q)[k]>>
  <2>1. CASE k <= Len(p)
    <3>1. c[k] = a[k] /\ (p \o q)[k] = p[k]
      BY <1>3, <2>1
    <3>2. QED
      BY <1>4, <2>1, <3>1
  <2>2. CASE ~(k <= Len(p))
    <3>1. k - Len(p) \in 1..Len(q)
      BY <2>2
    <3>2. c[k] = b[k - Len(p)]
      BY <1>3, <2>2
    <3>3. (p \o q)[k] = q[k - Len(p)]
      BY <2>2
    <3>4. QED
      BY <1>4, <3>1, <3>2, <3>3
  <2>3. QED
    BY <2>1, <2>2
<1> HIDE DEF c, all
<1>8. all = c
  <2>1. all \in Seq(R) /\ Len(all) = Len(c) /\ \A k \in 1..Len(all) : all[k] = c[k]
    BY <1>5, <1>6, <1>7 DEF all
  <2>2. QED
    BY <1>6, <2>1
<1>9. QED
  BY <1>8 DEF all, c, a, b

\* A block that is printed is the next one, and the only one damaged.
LEMMA BlockPrinted ==
  ASSUME PrintedOK, LinesInv, rowPdf = EachARow(linePdf),
         NEW number \in Numbers, NEW names \in {<< >>, <<"name">>}, NEW course \in CourseLines,
         NEW footer \in BOOLEAN, NEW lost \in 0..5, PrintBlock(number, names, course, footer, lost)
  PROVE  /\ PrintedOK' /\ LinesInv' /\ rowPdf' = EachARow(linePdf')
         /\ printed'.rows = printed.rows /\ printed'.lines # << >>
<1> DEFINE blocks == printed.lines
           n == Len(blocks) + 1
           whole == WholeBlock(number, names, course, n)
           left == WithoutLine(whole, lost)
           tail == IF footer THEN <<[kind |-> "footer", of |-> 0]>> ELSE << >>
           intact == lost = 0 /\ number # BrokenNumber /\ course = "course"
           block == [intact |-> intact, threeParts |-> Len(number) = 3]
<1>1. /\ lost \in 0..Len(whole) /\ (~intact => \A k \in DOMAIN blocks : blocks[k].intact)
      /\ rowPdf' = rowPdf \o EachARow(left) \o EachARow(tail)
      /\ linePdf' = linePdf \o left \o tail
      /\ printed' = [printed EXCEPT !.lines = Append(@, block)]
  BY DEF PrintBlock, WholeBlock, WithoutLine, BlockKinds
<1>2. blocks \in Seq(Block) /\ Len(blocks) \in Nat /\ n \in Nat /\ DOMAIN blocks = 1..Len(blocks)
  BY DEF PrintedOK
<1>3. block \in Block /\ block.threeParts = (Len(number) = 3) /\ block.intact = intact
  BY DEF Block
<1>4. tail \in Seq(Line) /\ \A j \in 1..Len(tail) : tail[j].kind = "footer"
  <2>1. [kind |-> "footer", of |-> 0] \in Line
    BY DEF Line
  <2>2. CASE footer
    BY <2>1, <2>2
  <2>3. CASE ~footer
    BY <2>3
  <2>4. QED
    BY <2>2, <2>3
<1>5. left \in Seq(Line) /\ BlockAt(left, 1, Len(left), n, block)
  <2> HIDE DEF block
  <2>1. (block.intact => intact) /\ (block.threeParts => Len(number) = 3)
    BY <1>3
  <2> HIDE DEF n
  <2>2. QED
    BY <1>1, <1>2, <2>1, BlockLeft
<1> HIDE DEF block, tail, left, whole, intact
<1>6. Append(blocks, block) \in Seq(Block) /\ Len(Append(blocks, block)) = n
      /\ Append(blocks, block)[n] = block /\ \A k \in 1..Len(blocks) : Append(blocks, block)[k] = blocks[k]
  <2> HIDE DEF blocks
  <2>1. QED
    BY <1>2, <1>3
<1>7. PICK first \in [1..Len(blocks) -> Nat], last \in [1..Len(blocks) -> Nat] :
        BlocksAt(linePdf, first, last, blocks)
  BY DEF LinesInv
<1>8. \E f, l \in [1..n -> Nat] : BlocksAt(linePdf \o left \o tail, f, l, Append(blocks, block))
  <2>1. linePdf \in Seq(Line) /\ n = Len(blocks) + 1
    BY DEF LinesInv
  <2> HIDE DEF blocks, n
  <2>2. QED
    BY <1>2, <1>3, <1>4, <1>5, <1>7, <2>1, BlocksExtended
<1>9. linePdf \o left \o tail \in Seq(Line)
  <2>1. linePdf \o left \in Seq(Line)
    BY <1>5 DEF LinesInv
  <2>2. QED
    BY <1>4, <2>1
<1>10. /\ printed' \in [split : Seq(BOOLEAN), rows : Seq(0..5), lines : Seq(Block)]
       /\ printed'.lines = Append(blocks, block) /\ printed'.rows = printed.rows
  BY <1>1, <1>6 DEF PrintedOK
<1>11. ASSUME NEW k \in 1..n, NEW m \in 1..n, k # m
       PROVE  Append(blocks, block)[k].intact \/ Append(blocks, block)[m].intact
  <2>1. \A i \in 1..n : i = n \/ i \in 1..Len(blocks)
    BY <1>2
  <2>2. CASE k \in 1..Len(blocks) /\ m \in 1..Len(blocks)
    BY <1>6, <1>11, <2>2 DEF LinesInv
  <2>3. CASE ~(k \in 1..Len(blocks) /\ m \in 1..Len(blocks))
    <3>1. \A i \in 1..Len(blocks) : block.intact \/ blocks[i].intact
      BY <1>1, <1>2, <1>3
    <3>2. QED
      BY <1>6, <1>11, <2>1, <2>3, <3>1
  <2>4. QED
    BY <2>2, <2>3
<1> DEFINE more == Append(blocks, block)
<1> HIDE DEF more, blocks
<1>12. linePdf' \in Seq(Line) /\ printed'.lines = more /\ Len(more) = n
  BY <1>1, <1>6, <1>9, <1>10 DEF more
<1>13. \A k, m \in 1..Len(more) : k # m => more[k].intact \/ more[m].intact
  BY <1>11, <1>12 DEF more
<1>14. \E f, l \in [1..Len(more) -> Nat] : BlocksAt(linePdf', f, l, more)
  BY <1>1, <1>8, <1>12 DEF more
<1>15. PrintedOK'
  BY <1>10 DEF PrintedOK
<1>16. rowPdf' = EachARow(linePdf')
  <2>1. linePdf \in Seq(Line) /\ linePdf \o left \in Seq(Line)
    BY <1>5 DEF LinesInv
  <2>2. EachARow(linePdf \o left) = EachARow(linePdf) \o EachARow(left)
    BY <1>5, <2>1, RowsBehindRows
  <2>3. EachARow(linePdf \o left \o tail) = EachARow(linePdf \o left) \o EachARow(tail)
    BY <1>4, <2>1, RowsBehindRows
  <2>4. QED
    BY <1>1, <2>2, <2>3
<1>17. printed'.lines # << >>
  BY <1>2, <1>12 DEF n
<1>18. QED
  BY <1>10, <1>12, <1>13, <1>14, <1>15, <1>16, <1>17 DEF LinesInv

\* The row of a student is made of cells, whatever it has lost.
LEMMA RowOfStudent ==
  ASSUME NEW n \in Nat, NEW lost \in 0..5
  PROVE  LET row == StudentRow(n, lost)
         IN /\ row \in Seq(LegacyLine) /\ Len(row) = (IF lost = 0 THEN 5 ELSE 4)
            /\ \A j \in 1..Len(row) :
                 row[j] = [kind |-> LegacyCells[IF lost = 0 \/ j < lost THEN j ELSE j + 1], of |-> n]
<1> DEFINE whole == [k \in 1..5 |-> [kind |-> LegacyCells[k], of |-> n]]
           row == StudentRow(n, lost)
<1>1. \A k \in 1..5 : whole[k] = [kind |-> LegacyCells[k], of |-> n]
  OBVIOUS
<1>2. \A k \in 1..5 : LegacyCells[k] \in {"whole", "name", "courseAlone", "level"}
  BY DEF LegacyCells
<1>3. \A k \in 1..5 : whole[k] \in LegacyLine
  BY <1>2 DEF LegacyLine
<1>4. whole \in [1..5 -> LegacyLine]
  BY <1>3
<1>5. row = IF lost = 0 THEN whole ELSE RemoveAt(whole, lost)
  BY DEF StudentRow
<1> HIDE DEF whole, row
<1>6. whole \in Seq(LegacyLine) /\ Len(whole) = 5
  <2> DEFINE five == 5
  <2>1. five \in Nat /\ five = 5 /\ whole \in [1..five -> LegacyLine]
        /\ whole = [k \in 1..five |-> [kind |-> LegacyCells[k], of |-> n]]
    BY <1>4 DEF whole
  <2> HIDE DEF five
  <2>2. whole \in Seq(LegacyLine) /\ Len(whole) = five
    BY <2>1
  <2>3. QED
    BY <2>1, <2>2
<1>7. CASE lost = 0
  BY <1>1, <1>5, <1>6, <1>7 DEF row
<1>8. CASE lost # 0
  <2>1. lost \in 1..Len(whole)
    BY <1>6, <1>8
  <2>2. /\ RemoveAt(whole, lost) \in Seq(LegacyLine) /\ Len(RemoveAt(whole, lost)) = Len(whole) - 1
        /\ \A j \in 1..(Len(whole) - 1) :
             RemoveAt(whole, lost)[j] = IF j < lost THEN whole[j] ELSE whole[j + 1]
    BY <1>6, <2>1, RemovedAt
  <2>3. row \in Seq(LegacyLine) /\ Len(row) = 4 /\ \A j \in 1..4 : row[j] = IF j < lost THEN whole[j] ELSE whole[j + 1]
    BY <1>5, <1>6, <1>8, <2>2
  <2>4. QED
    BY <1>1, <1>8, <2>3 DEF row
<1>9. QED
  BY <1>7, <1>8

\* A row that is printed is the next one.
LEMMA RowPrinted ==
  ASSUME PrintedOK, RowsInv, printed.lines = << >>, NEW lost \in 0..5, PrintRow(lost)
  PROVE  PrintedOK' /\ RowsInv' /\ printed'.rows # << >> /\ printed'.lines = << >>
<1> DEFINE N == Len(printed.rows)
           n == N + 1
           row == StudentRow(n, lost)
           past == printed.rows
<1>1. /\ rowPdf' = Append(rowPdf, row) /\ linePdf' = linePdf \o row
      /\ printed' = [printed EXCEPT !.rows = Append(@, lost)]
  BY DEF PrintRow
<1>2. past \in Seq(0..5) /\ N \in Nat /\ n \in Nat
  BY DEF PrintedOK
<1>3. row \in Seq(LegacyLine)
  BY <1>2, RowOfStudent
<1>4. row \in Seq(Line)
  <2>1. \A line \in LegacyLine : line \in Line
    BY DEF LegacyLine, Line, BlockKind
  <2> HIDE DEF row
  <2>2. QED
    BY <1>3, <2>1
<1>5. /\ rowPdf \in Seq(Seq(Line)) /\ Len(rowPdf) = N /\ linePdf \in Seq(LegacyLine)
      /\ \A k \in 1..N : rowPdf[k] = StudentRow(k, past[k])
      /\ \A i \in 1..Len(linePdf) :
           linePdf[i].kind = "whole" => \E r \in 1..N : NumbersIn(rowPdf[r]) # {}
  BY DEF RowsInv
<1>6. /\ Append(past, lost) \in Seq(0..5) /\ Len(Append(past, lost)) = n /\ Append(past, lost)[n] = lost
      /\ \A k \in 1..N : Append(past, lost)[k] = past[k]
  <2> HIDE DEF past
  <2>1. Len(past) = N
    BY DEF past
  <2>2. QED
    BY <1>2, <2>1
<1>7. printed'.rows = Append(past, lost) /\ printed'.lines = printed.lines /\ printed'.split = printed.split
      /\ printed' \in [split : Seq(BOOLEAN), rows : Seq(0..5), lines : Seq(Block)]
  BY <1>1, <1>6 DEF PrintedOK
<1> HIDE DEF row, N
<1>8. linePdf' \in Seq(LegacyLine)
  BY <1>1, <1>3, <1>5
<1>9. rowPdf' \in Seq(Seq(Line)) /\ Len(rowPdf') = n /\ rowPdf'[n] = row /\ \A k \in 1..N : rowPdf'[k] = rowPdf[k]
  <2> DEFINE Row == Seq(Line)
  <2>1. row \in Row /\ rowPdf \in Seq(Row)
    BY <1>4, <1>5
  <2> HIDE DEF Row
  <2>2. Append(rowPdf, row) \in Seq(Row) /\ Len(Append(rowPdf, row)) = n
        /\ Append(rowPdf, row)[n] = row /\ \A k \in 1..N : Append(rowPdf, row)[k] = rowPdf[k]
    BY <1>2, <1>5, <2>1
  <2>3. QED
    BY <1>1, <2>2 DEF Row
<1>10. ASSUME NEW k \in 1..n PROVE rowPdf'[k] = StudentRow(k, Append(past, lost)[k])
  <2>1. CASE k = n
    BY <1>6, <1>9, <2>1 DEF row
  <2>2. CASE k \in 1..N
    BY <1>5, <1>6, <1>9, <2>2
  <2>3. k = n \/ k \in 1..N
    BY <1>2
  <2>4. QED
    BY <2>1, <2>2, <2>3
<1> HIDE DEF past
<1>11. ASSUME NEW i \in 1..Len(linePdf'), linePdf'[i].kind = "whole"
       PROVE  \E r \in 1..Len(rowPdf') : NumbersIn(rowPdf'[r]) # {}
  <2>1. CASE i <= Len(linePdf)
    <3>1. i \in 1..Len(linePdf) /\ linePdf[i].kind = "whole"
      BY <1>1, <1>3, <1>5, <1>11, <2>1
    <3>2. PICK r \in 1..N : NumbersIn(rowPdf[r]) # {}
      BY <1>5, <3>1
    <3>3. r \in 1..Len(rowPdf') /\ rowPdf'[r] = rowPdf[r]
      BY <1>2, <1>9
    <3>4. QED
      BY <3>2, <3>3
  <2>2. CASE ~(i <= Len(linePdf))
    <3> DEFINE j == i - Len(linePdf)
    <3>1. linePdf' = linePdf \o row /\ Len(linePdf') = Len(linePdf) + Len(row)
      BY <1>1, <1>3, <1>5
    <3>2. j \in 1..Len(row) /\ linePdf'[i] = row[j]
      BY <1>3, <1>5, <1>11, <2>2, <3>1
    <3>3. j \in NumbersIn(row)
      BY <1>3, <1>11, <3>2 DEF NumbersIn
    <3>4. n \in 1..Len(rowPdf') /\ rowPdf'[n] = row
      BY <1>2, <1>9
    <3>5. QED
      BY <3>3, <3>4
  <2>3. QED
    BY <2>1, <2>2
<1>12. RowsInv'
  BY <1>6, <1>7, <1>8, <1>9, <1>10, <1>11 DEF RowsInv
<1>13. printed'.rows # << >>
  <2>1. Len(printed'.rows) = n /\ n >= 1
    BY <1>2, <1>6, <1>7
  <2>2. Len(<< >>) = 0
    OBVIOUS
  <2>3. QED
    BY <2>1, <2>2, <1>2
<1>14. QED
  BY <1>7, <1>12, <1>13 DEF PrintedOK

\* Whatever happens next, the text is made of the blocks or of the rows printed.
LEMMA PrintedStep == PdfInv /\ [RosterParsingNext]_rosterParsingVars => PdfInv'
<1> SUFFICES ASSUME PdfInv, [RosterParsingNext]_rosterParsingVars PROVE PdfInv'
  OBVIOUS
<1> USE DEF PdfInv
<1>1. CASE UNCHANGED pdfVars
  BY <1>1 DEF PrintedOK, OneLayout, StreamInv, LinesInv, RowsInv, pdfVars
<1>2. CASE PrintLines
  <2>1. PICK number \in Numbers, names \in {<< >>, <<"name">>}, course \in CourseLines, footer \in BOOLEAN,
             lost \in 0..5 : PrintBlock(number, names, course, footer, lost)
    BY <1>2, BlockOfLines
  <2>2. printed.rows = << >> /\ ~splitPdf.headings /\ splitPdf' = splitPdf
    <3>1. printed.rows = << >> /\ ~splitPdf.headings
      BY <1>2 DEF PrintLines
    <3>2. splitPdf' = splitPdf
      BY <2>1 DEF PrintBlock
    <3>3. QED
      BY <3>1, <3>2
  <2>3. /\ PrintedOK' /\ LinesInv' /\ rowPdf' = EachARow(linePdf')
        /\ printed'.rows = printed.rows /\ printed'.lines # << >>
    BY <2>1, <2>2, BlockPrinted DEF StreamInv
  <2>4. QED
    BY <2>2, <2>3 DEF OneLayout, StreamInv, RowsInv
<1>3. CASE PrintRows
  <2>1. PICK lost \in 0..5 : PrintRow(lost)
    BY <1>3 DEF PrintRows
  <2>2. printed.lines = << >> /\ ~splitPdf.headings /\ splitPdf' = splitPdf
    BY <1>3, <2>1 DEF PrintRows, PrintRow
  <2>3. PrintedOK' /\ RowsInv' /\ printed'.rows # << >> /\ printed'.lines = << >>
    BY <2>1, <2>2, RowPrinted
  <2>4. QED
    BY <2>2, <2>3 DEF OneLayout, StreamInv
<1>4. CASE PrintSplit
  <2>1. PICK course \in {"known", "other", "garbled"}, second \in BOOLEAN, lostIdentity \in BOOLEAN,
             lostEnrollment \in BOOLEAN : PrintStudent(course, second, lostIdentity, lostEnrollment)
    BY <1>4 DEF PrintSplit
  <2>2. /\ rowPdf' = rowPdf /\ linePdf' = linePdf
        /\ printed' = [printed EXCEPT !.split = Append(@, lostEnrollment)]
    BY <2>1 DEF PrintStudent
  <2>3. Append(printed.split, lostEnrollment) \in Seq(BOOLEAN)
    BY DEF PrintedOK
  <2>4. PrintedOK' /\ printed'.lines = printed.lines /\ printed'.rows = printed.rows
    BY <2>2, <2>3 DEF PrintedOK
  <2>5. StreamInv' /\ RowsInv'
    BY <2>2, <2>4 DEF StreamInv, LinesInv, RowsInv
  <2>6. OneLayout'
    BY <1>4, <2>4 DEF OneLayout, PrintSplit
  <2>7. QED
    BY <2>4, <2>5, <2>6
<1>5. CASE WriteCsv
  <2>1. UNCHANGED pdfVars
    BY <1>5 DEF WriteCsv, WriteCell, WriteBroken
  <2>2. QED
    BY <1>1, <2>1
<1>6. CASE UNCHANGED rosterParsingVars
  BY <1>1, <1>6 DEF rosterParsingVars
<1>7. QED
  BY <1>2, <1>3, <1>4, <1>5, <1>6 DEF RosterParsingNext

\* A stream of blocks, of which at most one has lost a line.
Stream(lines, first, last, blocks) ==
  /\ lines \in Seq(Line) /\ blocks \in Seq(Block)
  /\ first \in [1..Len(blocks) -> Nat] /\ last \in [1..Len(blocks) -> Nat]
  /\ \A k, m \in 1..Len(blocks) : k # m => blocks[k].intact \/ blocks[m].intact
  /\ BlocksAt(lines, first, last, blocks)

\* A scan ends at the first of the lines that stop it, or at the end.
LEMMA StopFound ==
  ASSUME NEW lines, Len(lines) \in Nat, NEW stops \in SUBSET (1..Len(lines))
  PROVE  /\ FirstStop(lines, stops) \in 1..(Len(lines) + 1)
         /\ FirstStop(lines, stops) \in stops \/ (stops = {} /\ FirstStop(lines, stops) = Len(lines) + 1)
         /\ \A j \in stops : FirstStop(lines, stops) <= j
<1>1. CASE stops = {}
  BY <1>1 DEF FirstStop
<1>2. CASE stops # {}
  <2>1. stops \subseteq Nat
    OBVIOUS
  <2>2. PICK m \in stops : \A y \in stops : ~(<<y, m>> \in OpToRel(<, Nat))
    BY <1>2, <2>1, NatLessThanWellFounded, WFMin
  <2>3. m \in stops /\ \A k \in stops : m <= k
    <3>1. \A y \in stops : ~(y < m)
      BY <2>1, <2>2 DEF OpToRel
    <3>2. QED
      BY <2>1, <3>1
  <2>4. FirstStop(lines, stops) = CHOOSE j \in stops : \A k \in stops : j <= k
    BY <1>2 DEF FirstStop
  <2>5. FirstStop(lines, stops) \in stops /\ \A k \in stops : FirstStop(lines, stops) <= k
    BY <2>3, <2>4
  <2>6. \A k \in stops : k \in 1..(Len(lines) + 1)
    OBVIOUS
  <2>7. QED
    BY <2>5, <2>6
<1>3. QED
  BY <1>1, <1>2

\* A student starts where a block starts.
LEMMA StartsAreFirst ==
  ASSUME NEW lines, NEW first, NEW last, NEW blocks, Stream(lines, first, last, blocks),
         NEW i \in 1..Len(lines), StartsStudent(lines[i])
  PROVE  \E m \in 1..Len(blocks) : i = first[m]
<1>1. lines[i].kind # "footer"
  BY DEF StartsStudent
<1>2. PICK m \in 1..Len(blocks) : i \in first[m]..last[m]
  BY <1>1 DEF Stream, BlocksAt
<1>3. first[m] \in Nat /\ last[m] \in Nat /\ BlockAt(lines, first[m], last[m], m, blocks[m])
  BY DEF Stream, BlocksAt
<1>4. i \notin (first[m] + 1)..last[m]
  BY <1>3 DEF BlockAt
<1>5. i = first[m]
  BY <1>2, <1>3, <1>4
<1>6. QED
  BY <1>5

\* Nothing but footers comes after a block, to the next or to the end.
LEMMA AfterBlock ==
  ASSUME NEW lines, NEW first, NEW last, NEW blocks, Stream(lines, first, last, blocks),
         NEW m \in 1..Len(blocks), NEW j \in 1..Len(lines), last[m] < j,
         m < Len(blocks) => j < first[m + 1]
  PROVE  lines[j].kind = "footer"
<1>1. \A k \in 1..Len(blocks) : first[k] \in Nat /\ last[k] \in Nat /\ first[k] <= last[k]
  <2>1. ASSUME NEW k \in 1..Len(blocks) PROVE first[k] \in Nat /\ last[k] \in Nat /\ first[k] <= last[k]
    <3>1. first[k] \in Nat /\ last[k] \in Nat /\ BlockAt(lines, first[k], last[k], k, blocks[k])
      BY DEF Stream, BlocksAt
    <3>2. QED
      BY <3>1 DEF BlockAt
  <2>2. QED
    BY <2>1
<1>2. Len(blocks) \in Nat
  BY DEF Stream
<1>3. ASSUME NEW k \in 1..Len(blocks), j \in first[k]..last[k] PROVE FALSE
  <2>1. j >= first[k] /\ j <= last[k]
    BY <1>1, <1>3
  <2>2. k < m => last[k] < first[m]
    BY DEF Stream, BlocksAt
  <2>3. ~(k < m)
    BY <1>1, <2>1, <2>2
  <2>4. k # m
    BY <1>1, <2>1
  <2>5. m + 1 \in 1..Len(blocks) /\ m < Len(blocks) /\ (k = m + 1 \/ m + 1 < k)
    BY <1>2, <2>3, <2>4
  <2>6. m + 1 < k => last[m + 1] < first[k]
    BY <2>5 DEF Stream, BlocksAt
  <2>7. QED
    BY <1>1, <2>1, <2>5, <2>6
<1>4. QED
  BY <1>3 DEF Stream, BlocksAt

\* The student number is read in the block; the whole number of a whole block is a number.
LEMMA NumberRead ==
  ASSUME NEW lines \in Seq(Line), NEW a \in Nat, NEW b \in Nat, NEW n, NEW block,
         BlockAt(lines, a, b, n, block), StartsStudent(lines[a])
  PROVE  /\ NumberOfParts(lines, a) \in 1..3 /\ a + NumberOfParts(lines, a) <= b + 1
         /\ block.intact => a + NumberOfParts(lines, a) <= b /\ ValidNumber(lines, a)
<1> DEFINE p == NumberOfParts(lines, a)
<1>1. /\ 1 <= a /\ a <= b /\ b <= Len(lines) /\ Len(lines) \in Nat /\ DOMAIN lines = 1..Len(lines)
  BY DEF BlockAt
<1>2. \A j \in a..b : LineAt(lines, j) = lines[j]
  BY <1>1 DEF LineAt
<1>3. lines[a].kind \in {"whole", "id"} \/ lines[a].kind = "id1"
  BY DEF StartsStudent
<1>4. CASE lines[a].kind \in {"whole", "id"}
  <2>1. p = 1
    BY <1>4 DEF NumberOfParts
  <2>2. ASSUME block.intact PROVE a + 1 <= b /\ lines[a].kind = "whole"
    BY <1>4, <2>2 DEF BlockAt, WholeNumber
  <2>3. ASSUME block.intact PROVE ValidNumber(lines, a)
    <3> DEFINE parts == [k \in 1..p |-> LineAt(lines, a + k - 1)]
               kinds == [k \in DOMAIN parts |-> parts[k].kind]
    <3>1. parts[1] = lines[a] /\ DOMAIN parts = 1..1
      BY <1>1, <1>2, <2>1
    <3>2. kinds = <<"whole">>
      <4> HIDE DEF parts
      <4>1. kinds \in Seq({"whole"}) /\ Len(kinds) = 1 /\ kinds[1] = "whole"
        BY <2>2, <2>3, <3>1
      <4> HIDE DEF kinds
      <4>2. QED
        BY <4>1
    <3>3. QED
      BY <3>2 DEF ValidNumber, NumberLines
  <2>4. QED
    BY <1>1, <2>1, <2>2, <2>3
<1>5. CASE lines[a].kind = "id1"
  <2>1. a + 1 <= b
    BY <1>5 DEF BlockAt
  <2>2. LineAt(lines, a) = lines[a] /\ LineAt(lines, a + 1) = lines[a + 1]
    <3>1. a \in a..b /\ a + 1 \in a..b
      BY <1>1, <2>1
    <3>2. QED
      BY <1>2, <3>1
  <2>4. p = IF lines[a + 1].kind = "id2" THEN 3 ELSE 2
    BY <1>5, <2>2 DEF NumberOfParts
  <2>5. p \in 1..3 /\ a + p <= b + 1
    <3>1. lines[a + 1].kind = "id2" => a + 2 <= b
      BY <1>5 DEF BlockAt
    <3>2. QED
      BY <1>1, <2>1, <2>4, <3>1
  <2>6. ASSUME block.intact PROVE a + p <= b /\ ValidNumber(lines, a)
    <3> DEFINE parts == [k \in 1..p |-> LineAt(lines, a + k - 1)]
               kinds == [k \in DOMAIN parts |-> parts[k].kind]
    <3>1. \/ lines[a + 1].kind = "id2end" /\ a + 2 <= b
          \/ lines[a + 1].kind = "id2" /\ lines[a + 2].kind = "id3" /\ a + 3 <= b
      BY <1>5, <2>6 DEF BlockAt, WholeNumber
    <3>2. CASE lines[a + 1].kind = "id2end" /\ a + 2 <= b
      <4>1. p = 2
        BY <2>4, <3>2
      <4>2. parts[1] = lines[a] /\ parts[2] = lines[a + 1] /\ DOMAIN parts = 1..2
        BY <2>2, <4>1
      <4>3. kinds = <<"id1", "id2end">>
        <5> HIDE DEF parts
        <5>1. DOMAIN kinds = 1..2 /\ kinds[1] = "id1" /\ kinds[2] = "id2end"
              /\ kinds = [k \in 1..2 |-> kinds[k]]
          BY <1>5, <3>2, <4>2
        <5> HIDE DEF kinds
        <5>2. kinds \in Seq({"id1", "id2end"}) /\ Len(kinds) = 2
          BY <5>1
        <5>3. QED
          BY <5>1, <5>2
      <4>4. ValidNumber(lines, a)
        BY <4>3 DEF ValidNumber, NumberLines
      <4>5. QED
        BY <3>2, <4>1, <4>4
    <3>3. CASE lines[a + 1].kind = "id2" /\ lines[a + 2].kind = "id3" /\ a + 3 <= b
      <4>1. p = 3
        BY <2>4, <3>3
      <4>2. LineAt(lines, a + 2) = lines[a + 2]
        <5>1. a + 2 \in a..b
          BY <1>1, <3>3
        <5>2. QED
          BY <1>2, <5>1
      <4>3. parts[1] = lines[a] /\ parts[2] = lines[a + 1] /\ parts[3] = lines[a + 2] /\ DOMAIN parts = 1..3
        BY <2>2, <4>1, <4>2
      <4>4. kinds = <<"id1", "id2", "id3">>
        <5> HIDE DEF parts
        <5>1. DOMAIN kinds = 1..3 /\ kinds[1] = "id1" /\ kinds[2] = "id2" /\ kinds[3] = "id3"
              /\ kinds = [k \in 1..3 |-> kinds[k]]
          BY <1>5, <3>3, <4>3
        <5> HIDE DEF kinds
        <5>2. kinds \in Seq({"id1", "id2", "id3"}) /\ Len(kinds) = 3
          BY <5>1
        <5>3. QED
          BY <5>1, <5>2
      <4>5. ValidNumber(lines, a)
        BY <4>4 DEF ValidNumber, NumberLines
      <4>6. QED
        BY <3>3, <4>1, <4>5
    <3>4. QED
      BY <3>1, <3>2, <3>3
  <2>7. QED
    BY <2>5, <2>6
<1>6. QED
  BY <1>3, <1>4, <1>5

\* Where the page's scan of block m ends: at its course, if it is whole, and never behind
\* the start of the next block; a course it ends at is the block's own.
LEMMA ScanOfBlock ==
  ASSUME NEW lines, NEW first, NEW last, NEW blocks, Stream(lines, first, last, blocks),
         NEW m \in 1..Len(blocks), StartsStudent(lines[first[m]])
  PROVE  LET e == ScanEnd(lines, first[m])
         IN /\ e \in (first[m] + 1)..(Len(lines) + 1)
            /\ m < Len(blocks) => e <= first[m + 1]
            /\ e <= Len(lines) /\ HasCourse(lines[e]) => e <= last[m]
            /\ blocks[m].intact => e = last[m] /\ ValidNumber(lines, first[m]) /\ lines[e].kind = "course"
<1> DEFINE a == first[m]
           b == last[m]
           L == Len(lines)
           p == NumberOfParts(lines, a)
           stops == {j \in (a + p)..L : EndsScan(lines[j]) \/ HasCourse(lines[j])}
           e == ScanEnd(lines, a)
<1>1. lines \in Seq(Line) /\ L \in Nat /\ Len(blocks) \in Nat /\ a \in Nat /\ b \in Nat
      /\ BlockAt(lines, a, b, m, blocks[m])
  BY DEF Stream, BlocksAt
<1>2. 1 <= a /\ a <= b /\ b <= L
  BY <1>1 DEF BlockAt
<1>3. p \in 1..3 /\ a + p <= b + 1 /\ (blocks[m].intact => a + p <= b /\ ValidNumber(lines, a))
  <2> HIDE DEF a, b
  <2>1. StartsStudent(lines[a])
    BY DEF a
  <2>2. QED
    BY <1>1, <2>1, NumberRead
<1>4. stops \in SUBSET (1..L)
  BY <1>1, <1>2, <1>3
<1>5. e = FirstStop(lines, stops)
  BY DEF ScanEnd
<1>6. /\ e \in 1..(L + 1) /\ \A j \in stops : e <= j
      /\ e \in stops \/ (stops = {} /\ e = L + 1)
  <2> HIDE DEF stops, e
  <2>1. QED
    BY <1>1, <1>4, <1>5, StopFound
<1> HIDE DEF e, p
<1>7. e \in (a + 1)..(L + 1)
  <2>1. CASE e \in stops
    BY <1>1, <1>3, <2>1
  <2>2. CASE e = L + 1
    BY <1>1, <1>2, <2>2
  <2>3. QED
    BY <1>6, <2>1, <2>2
<1>8. CASE blocks[m].intact
  <2>1. lines[b].kind = "course" /\ b \in stops
    BY <1>1, <1>2, <1>3, <1>8 DEF BlockAt, HasCourse
  <2>2. ASSUME NEW j \in stops, j < b PROVE FALSE
    <3>1. j \in (a + 1)..b /\ j \in a..(b - 1) /\ j \in a..b
      BY <1>1, <1>3, <2>2
    <3>2. ~StartsStudent(lines[j]) /\ ~HasCourse(lines[j]) /\ lines[j].kind # "footer"
      BY <1>1, <3>1 DEF BlockAt
    <3>3. QED
      BY <3>2 DEF EndsScan
  <2>3. e <= b /\ e \in stops
    BY <1>6, <2>1
  <2>4. e = b
    BY <1>1, <1>6, <2>2, <2>3
  <2>5. m < Len(blocks) => b < first[m + 1] /\ first[m + 1] \in Nat
    <3>1. m < Len(blocks) => m + 1 \in 1..Len(blocks) /\ m < m + 1
      BY <1>1
    <3>2. QED
      BY <3>1 DEF Stream, BlocksAt
  <2>6. QED
    BY <1>1, <1>3, <1>7, <1>8, <2>1, <2>4, <2>5 DEF e
<1>9. CASE ~blocks[m].intact
  <2>1. ASSUME m < Len(blocks) PROVE e <= first[m + 1]
    <3>1. m + 1 \in 1..Len(blocks) /\ m # m + 1 /\ m < m + 1
      BY <1>1, <2>1
    <3> DEFINE c == first[m + 1]
    <3>2. blocks[m + 1].intact /\ b < c /\ c \in Nat /\ last[m + 1] \in Nat
          /\ BlockAt(lines, c, last[m + 1], m + 1, blocks[m + 1])
      BY <1>9, <3>1 DEF Stream, BlocksAt
    <3>3. StartsStudent(lines[c]) /\ c \in 1..L
      BY <3>2 DEF BlockAt, WholeNumber, StartsStudent
    <3>4. c \in stops
      BY <1>1, <1>3, <3>2, <3>3 DEF EndsScan
    <3>5. QED
      BY <1>6, <3>4
  <2>2. ASSUME e <= L, HasCourse(lines[e]) PROVE e <= b
    <3>1. SUFFICES ASSUME b < e PROVE FALSE
      BY <1>1, <1>7
    <3>2. e \in 1..L
      BY <1>1, <1>6, <2>2
    <3>3. m < Len(blocks) => e < first[m + 1]
      <4>1. SUFFICES ASSUME m < Len(blocks) PROVE e < first[m + 1]
        OBVIOUS
      <4>2. m + 1 \in 1..Len(blocks) /\ m # m + 1
        BY <1>1, <4>1
      <4>3. blocks[m + 1].intact /\ first[m + 1] \in Nat
            /\ BlockAt(lines, first[m + 1], last[m + 1], m + 1, blocks[m + 1])
        BY <1>9, <4>2 DEF Stream, BlocksAt
      <4>4. ~HasCourse(lines[first[m + 1]])
        BY <4>3 DEF BlockAt, WholeNumber, HasCourse
      <4>5. QED
        BY <2>1, <2>2, <3>2, <4>1, <4>3, <4>4
    <3>4. lines[e].kind = "footer"
      BY <3>1, <3>2, <3>3, AfterBlock
    <3>5. QED
      BY <2>2, <3>4 DEF HasCourse
  <2>3. QED
    BY <1>7, <1>9, <2>1, <2>2 DEF e
<1>10. QED
  BY <1>8, <1>9

\* Where the script's scan of block m ends, when every number up to there is on three lines.
LEMMA ScriptScanOfBlock ==
  ASSUME NEW lines, NEW first, NEW last, NEW blocks, Stream(lines, first, last, blocks),
         NEW m \in 1..Len(blocks), lines[first[m]].kind = "id1", blocks[m].threeParts
  PROVE  LET e == ScriptScanEnd(lines, first[m])
         IN /\ blocks[m].intact => e = last[m] /\ lines[e].kind = "course"
            /\ m < Len(blocks) /\ blocks[m + 1].threeParts => e <= first[m + 1]
<1> DEFINE a == first[m]
           b == last[m]
           L == Len(lines)
           stops == {j \in (a + 3)..L : lines[j].kind \in {"id1", "footer"} \/ HasCourse(lines[j])}
           e == ScriptScanEnd(lines, a)
<1>1. lines \in Seq(Line) /\ L \in Nat /\ Len(blocks) \in Nat /\ a \in Nat /\ b \in Nat
      /\ BlockAt(lines, a, b, m, blocks[m])
  BY DEF Stream, BlocksAt
<1>2. 1 <= a /\ a + 2 <= b /\ b <= L
  BY <1>1 DEF BlockAt
<1>3. stops \in SUBSET (1..L)
  BY <1>1, <1>2
<1>4. e = FirstStop(lines, stops)
  BY DEF ScriptScanEnd
<1>5. /\ e \in 1..(L + 1) /\ \A j \in stops : e <= j
      /\ e \in stops \/ (stops = {} /\ e = L + 1)
  <2> HIDE DEF stops, e
  <2>1. QED
    BY <1>1, <1>3, <1>4, StopFound
<1> HIDE DEF e
<1>6. ASSUME m < Len(blocks)
      PROVE  m + 1 \in 1..Len(blocks) /\ m # m + 1 /\ b < first[m + 1] /\ first[m + 1] \in Nat
             /\ last[m + 1] \in Nat /\ BlockAt(lines, first[m + 1], last[m + 1], m + 1, blocks[m + 1])
  <2>1. m + 1 \in 1..Len(blocks) /\ m < m + 1
    BY <1>1, <1>6
  <2>2. QED
    BY <1>1, <2>1 DEF Stream, BlocksAt
<1>7. CASE blocks[m].intact
  <2>1. lines[b].kind = "course" /\ b \in stops
    <3>1. lines[b].kind = "course" /\ a + 3 <= b
      BY <1>1, <1>7 DEF BlockAt
    <3>2. QED
      BY <1>1, <1>2, <3>1 DEF HasCourse
  <2>2. ASSUME NEW j \in stops, j < b PROVE FALSE
    <3>1. j \in (a + 1)..b /\ j \in a..(b - 1) /\ j \in a..b
      BY <1>1, <2>2
    <3>2. lines[j].kind # "id1" /\ ~HasCourse(lines[j]) /\ lines[j].kind # "footer"
      BY <1>1, <3>1 DEF BlockAt, StartsStudent
    <3>3. QED
      BY <3>2
  <2>3. e <= b /\ e \in stops
    BY <1>5, <2>1
  <2>4. e = b
    BY <1>1, <1>5, <2>2, <2>3
  <2>5. QED
    BY <1>1, <1>6, <2>1, <2>4 DEF e
<1>8. CASE ~blocks[m].intact
  <2>1. ASSUME m < Len(blocks), blocks[m + 1].threeParts PROVE e <= first[m + 1]
    <3> DEFINE c == first[m + 1]
    <3>1. blocks[m + 1].intact /\ b < c /\ c \in Nat
          /\ BlockAt(lines, c, last[m + 1], m + 1, blocks[m + 1])
      BY <1>6, <1>8, <2>1 DEF Stream
    <3>2. lines[c].kind = "id1" /\ c \in 1..L
      BY <2>1, <3>1 DEF BlockAt
    <3>3. c \in stops
      BY <1>1, <1>2, <3>1, <3>2
    <3>4. QED
      BY <1>5, <3>3
  <2>2. QED
    BY <1>8, <2>1 DEF e
<1>9. QED
  BY <1>7, <1>8

Record == [student : Nat, of : SUBSET Nat, error : BOOLEAN]

\* A record has its fields.
LEMMA RecordOfBlock ==
  ASSUME NEW lines \in Seq(Line), NEW i \in 1..Len(lines), NEW e \in Nat
  PROVE  BlockRecord(lines, i, e) \in Record
<1> DEFINE of == OwnersOf(lines, i, e)
           error == LineAt(lines, e).kind # "course" \/ ~ValidNumber(lines, i)
<1>1. BlockRecord(lines, i, e) = [student |-> lines[i].of, of |-> of, error |-> error]
  BY DEF BlockRecord
<1>2. \A j \in DOMAIN lines : lines[j].of \in Nat
  <2>1. \A j \in DOMAIN lines : lines[j] \in Line
    OBVIOUS
  <2>2. \A line \in Line : line.of \in Nat
    BY DEF Line
  <2>3. QED
    BY <2>1, <2>2
<1>3. lines[i].of \in Nat
  <2>1. i \in DOMAIN lines
    OBVIOUS
  <2>2. QED
    BY <1>2, <2>1
<1>4. of \in SUBSET Nat
  BY <1>2 DEF OwnersOf
<1>5. error \in BOOLEAN
  OBVIOUS
<1> HIDE DEF of, error
<1>6. QED
  BY <1>1, <1>3, <1>4, <1>5 DEF Record

\* A scan that ends at a course of its own block has passed the lines of that alone.
LEMMA LinesOfOneStudent ==
  ASSUME NEW lines \in Seq(Line), NEW a \in Nat, NEW b \in Nat, NEW m \in Nat, NEW block,
         BlockAt(lines, a, b, m, block),
         NEW e \in (a + 1)..b, HasCourse(lines[e])
  PROVE  OwnersOf(lines, a, e) = {m} /\ lines[a].of = m /\ LineAt(lines, e) = lines[e]
<1>1. 1 <= a /\ a <= b /\ b <= Len(lines) /\ Len(lines) \in Nat /\ DOMAIN lines = 1..Len(lines)
  BY DEF BlockAt
<1>2. LineAt(lines, e) = lines[e]
  BY <1>1 DEF LineAt
<1>3. OwnersOf(lines, a, e) = {lines[j].of : j \in (a..e) \intersect DOMAIN lines}
  BY <1>2 DEF OwnersOf
<1>4. \A j \in a..e : j \in DOMAIN lines /\ lines[j].of = m
  <2>1. \A j \in a..e : j \in DOMAIN lines /\ j \in a..b
    BY <1>1
  <2>2. QED
    BY <2>1 DEF BlockAt
<1>5. a \in a..e
  BY <1>1
<1>6. QED
  BY <1>2, <1>3, <1>4, <1>5

-----------------------------------------------------------------------------
(* The page. *)

PageStarts(lines) == {i \in 1..Len(lines) : StartsStudent(lines[i])}
PageFound(lines) == [i \in PageStarts(lines) |-> <<BlockRecord(lines, i, ScanEnd(lines, i))>>]
PageResume(lines) == [i \in PageStarts(lines) |-> ScanEnd(lines, i)]

PageReading(from, lines) ==
  from = [i \in 1..(Len(lines) + 2) |->
           IF i > Len(lines) THEN << >>
           ELSE IF StartsStudent(lines[i]) THEN <<BlockRecord(lines, i, ScanEnd(lines, i))>> \o from[ResumeAt(lines, i)]
           ELSE from[i + 1]]

\* A scan of the page ends in the text or just behind it.
LEMMA PageEnds ==
  ASSUME NEW lines \in Seq(Line), NEW i \in PageStarts(lines)
  PROVE  ScanEnd(lines, i) \in (i + 1)..(Len(lines) + 1) /\ i \in Nat
<1> DEFINE L == Len(lines)
           p == NumberOfParts(lines, i)
           stops == {j \in (i + p)..L : EndsScan(lines[j]) \/ HasCourse(lines[j])}
<1>1. i \in Nat /\ 1 <= i /\ i <= L /\ L \in Nat
  BY DEF PageStarts
<1>2. p \in 1..3
  BY DEF NumberOfParts
<1> HIDE DEF p
<1>3. stops \in SUBSET (1..L) /\ \A j \in stops : j \in (i + 1)..(L + 1)
  BY <1>1, <1>2
<1>4. ScanEnd(lines, i) = FirstStop(lines, stops)
  BY DEF ScanEnd, p
<1> HIDE DEF stops
<1>5. FirstStop(lines, stops) \in stops \/ FirstStop(lines, stops) = L + 1
  BY <1>1, <1>3, StopFound
<1> DEFINE e == FirstStop(lines, stops)
<1> HIDE DEF e, L
<1>6. e \in (i + 1)..(L + 1)
  <2>1. L + 1 \in (i + 1)..(L + 1)
    BY <1>1 DEF L
  <2>2. e \in stops \/ e = L + 1
    BY <1>5 DEF e, L
  <2>3. \A j \in stops : j \in (i + 1)..(L + 1)
    BY <1>3 DEF L
  <2>4. QED
    BY <2>1, <2>2, <2>3
<1>7. QED
  BY <1>1, <1>4, <1>6 DEF e, L

\* The scans of the page end in the text and go on, so parseLines() comes to an end.
LEMMA PageStream ==
  ASSUME NEW lines \in Seq(Line)
  PROVE  /\ Len(lines) \in Nat /\ PageStarts(lines) \in SUBSET (1..Len(lines))
         /\ PageFound(lines) \in [PageStarts(lines) -> Seq(Record)]
         /\ PageResume(lines) \in [PageStarts(lines) -> Nat]
         /\ \A i \in PageStarts(lines) : i < PageResume(lines)[i] /\ PageResume(lines)[i] <= Len(lines) + 2
         /\ \E from : PageReading(from, lines)
         /\ \A from : PageReading(from, lines) =>
              Scanned(from, Len(lines), PageStarts(lines), PageFound(lines), PageResume(lines))
<1> DEFINE L == Len(lines)
           starts == PageStarts(lines)
           found == PageFound(lines)
           resume == PageResume(lines)
<1>1. lines \in Seq(Line) /\ L \in Nat
  OBVIOUS
<1>2. starts \in SUBSET (1..L) /\ \A i \in 1..L : i \in starts <=> StartsStudent(lines[i])
  BY DEF PageStarts
<1>3. ASSUME NEW i \in starts PROVE ScanEnd(lines, i) \in (i + 1)..(L + 1) /\ i \in Nat
  BY PageEnds
<1>4. /\ DOMAIN found = starts /\ \A i \in starts : found[i] = <<BlockRecord(lines, i, ScanEnd(lines, i))>>
      /\ found = [i \in starts |-> found[i]]
  BY DEF PageFound
<1>5. /\ DOMAIN resume = starts /\ \A i \in starts : resume[i] = ScanEnd(lines, i)
      /\ resume = [i \in starts |-> resume[i]]
  BY DEF PageResume
<1> HIDE DEF starts, found, resume, L
<1>6. \A i \in starts : resume[i] \in Nat /\ i < resume[i] /\ resume[i] <= L + 2
  BY <1>1, <1>3, <1>5
<1>7. resume \in [starts -> Nat]
  BY <1>5, <1>6
<1>8. ASSUME NEW i \in starts PROVE found[i] \in Seq(Record)
  <2>1. i \in 1..L /\ ScanEnd(lines, i) \in Nat
    BY <1>2, <1>5, <1>6
  <2>2. BlockRecord(lines, i, ScanEnd(lines, i)) \in Record
    BY <1>1, <2>1, RecordOfBlock DEF L
  <2> DEFINE r == BlockRecord(lines, i, ScanEnd(lines, i))
  <2>3. found[i] = <<r>> /\ r \in Record
    BY <1>4, <2>2
  <2> HIDE DEF r
  <2>4. QED
    BY <2>3
<1>9. found \in [starts -> Seq(Record)]
  BY <1>4, <1>8
<1>10. PICK from \in [1..(L + 2) -> Seq(Record)] : Scanned(from, L, starts, found, resume)
  BY <1>1, <1>2, <1>6, <1>7, <1>9, ScanExists
<1>11. ASSUME NEW f, NEW i \in 1..(L + 2)
       PROVE  (IF i > L THEN << >> ELSE IF i \in starts THEN found[i] \o f[resume[i]] ELSE f[i + 1])
              = (IF i > L THEN << >>
                 ELSE IF StartsStudent(lines[i]) THEN <<BlockRecord(lines, i, ScanEnd(lines, i))>> \o f[ResumeAt(lines, i)]
                 ELSE f[i + 1])
  <2>1. CASE i > L
    BY <2>1
  <2>2. CASE ~(i > L)
    <3>1. i \in starts <=> StartsStudent(lines[i])
      BY <1>1, <1>2, <2>2
    <3>2. i \in starts => found[i] = <<BlockRecord(lines, i, ScanEnd(lines, i))>> /\ resume[i] = ResumeAt(lines, i)
      BY <1>4, <1>5 DEF ResumeAt
    <3>3. QED
      BY <2>2, <3>1, <3>2
  <2>3. QED
    BY <2>1, <2>2
<1>12. PageReading(from, lines)
  <2>1. from = [i \in 1..(L + 2) |-> from[i]]
    OBVIOUS
  <2>2. \A i \in 1..(L + 2) :
          from[i] = IF i > L THEN << >>
                    ELSE IF StartsStudent(lines[i]) THEN <<BlockRecord(lines, i, ScanEnd(lines, i))>> \o from[ResumeAt(lines, i)]
                    ELSE from[i + 1]
    BY <1>10, <1>11 DEF Scanned
  <2>3. QED
    BY <2>1, <2>2 DEF PageReading, L
<1>13. ASSUME NEW f, PageReading(f, lines) PROVE Scanned(f, L, starts, found, resume)
  <2>1. \A i \in 1..(L + 2) :
          f[i] = IF i > L THEN << >>
                 ELSE IF StartsStudent(lines[i]) THEN <<BlockRecord(lines, i, ScanEnd(lines, i))>> \o f[ResumeAt(lines, i)]
                 ELSE f[i + 1]
    BY <1>13 DEF PageReading, L
  <2>2. QED
    BY <1>11, <2>1 DEF Scanned
<1>14. QED
  BY <1>1, <1>2, <1>6, <1>7, <1>9, <1>12, <1>13 DEF L, starts, found, resume

\* What parseLines() reads is what is found from the first line on.
LEMMA PageTextRead ==
  ASSUME NEW lines \in Seq(Line)
  PROVE  \E from : /\ Scanned(from, Len(lines), PageStarts(lines), PageFound(lines), PageResume(lines))
                   /\ ParseLines(lines) = from[1]
<1> DEFINE from == CHOOSE f : PageReading(f, lines)
<1>1. PageReading(from, lines)
  BY PageStream
<1>2. ParseLines(lines) = from[1]
  BY DEF ParseLines, PageReading
<1> HIDE DEF from
<1>3. Scanned(from, Len(lines), PageStarts(lines), PageFound(lines), PageResume(lines))
  BY <1>1, PageStream
<1>4. QED
  BY <1>2, <1>3

\* The records without an error that are made from the lines of one student.
Unmixed == {r \in Record : ~r.error => r.of = {r.student}}

\* No record without an error is made from the lines of two students.
LEMMA PageUnmixed ==
  ASSUME NEW lines, NEW first, NEW last, NEW blocks, Stream(lines, first, last, blocks)
  PROVE  \A k \in DOMAIN ParseLines(lines) : ParseLines(lines)[k] \in Unmixed
<1> DEFINE L == Len(lines)
           starts == PageStarts(lines)
           found == PageFound(lines)
           resume == PageResume(lines)
<1>1. /\ L \in Nat /\ starts \in SUBSET (1..L) /\ resume \in [starts -> Nat]
      /\ found \in [starts -> Seq(Record)]
      /\ \A i \in starts : i < resume[i] /\ resume[i] <= L + 2
  BY PageStream DEF Stream
<1>2. lines \in Seq(Line)
  BY DEF Stream
<1>3. ASSUME NEW i \in starts PROVE BlockRecord(lines, i, ScanEnd(lines, i)) \in Unmixed
  <2> DEFINE e == ScanEnd(lines, i)
             r == BlockRecord(lines, i, e)
  <2>1. i \in 1..L /\ StartsStudent(lines[i])
    BY DEF PageStarts
  <2>2. PICK m \in 1..Len(blocks) : i = first[m]
    BY <2>1, StartsAreFirst
  <2>3. StartsStudent(lines[first[m]])
    BY <2>1, <2>2
  <2>4. e \in (i + 1)..(L + 1) /\ (e <= L /\ HasCourse(lines[e]) => e <= last[m])
    BY <2>2, <2>3, ScanOfBlock
  <2>5. /\ i \in Nat /\ last[m] \in Nat /\ m \in Nat
        /\ BlockAt(lines, i, last[m], m, blocks[m])
    BY <2>2 DEF Stream, BlocksAt
  <2> HIDE DEF e
  <2>6. r \in Record
    BY <1>1, <1>2, <2>1, <2>4, RecordOfBlock
  <2>7. ~r.error => LineAt(lines, e).kind = "course"
    BY DEF BlockRecord
  <2>8. ASSUME LineAt(lines, e).kind = "course" PROVE r.student = m /\ r.of = {m}
    <3>1. e \in 1..L /\ HasCourse(lines[e])
      <4>1. e \in DOMAIN lines
        BY <2>8 DEF LineAt
      <4>2. QED
        BY <1>2, <2>8, <4>1 DEF LineAt, HasCourse
    <3>2. e \in (i + 1)..last[m]
      BY <1>1, <2>1, <2>4, <2>5, <3>1
    <3>3. OwnersOf(lines, i, e) = {m} /\ lines[i].of = m
      BY <1>2, <2>5, <3>1, <3>2, LinesOfOneStudent
    <3>4. QED
      BY <3>3 DEF BlockRecord
  <2> HIDE DEF r
  <2>9. r \in Unmixed
    BY <2>6, <2>7, <2>8 DEF Unmixed
  <2>10. QED
    BY <2>9 DEF r, e
<1>4. ASSUME NEW i \in starts PROVE found[i] \in Seq(Unmixed)
  <2> DEFINE r == BlockRecord(lines, i, ScanEnd(lines, i))
  <2>1. found[i] = <<r>> /\ r \in Unmixed
    BY <1>3 DEF PageFound
  <2> HIDE DEF r
  <2>2. QED
    BY <2>1
<1> HIDE DEF L, starts, found, resume
<1>5. found \in [starts -> Seq(Unmixed)]
  BY <1>1, <1>4
<1>6. PICK from : Scanned(from, L, starts, found, resume) /\ ParseLines(lines) = from[1]
  BY PageTextRead DEF L, starts, found, resume, Stream
<1>7. \A i \in 1..(L + 2) : from[i] \in Seq(Unmixed)
  BY <1>1, <1>5, <1>6, ScanFinds
<1>8. 1 \in 1..(L + 2)
  BY <1>1
<1>9. ParseLines(lines) \in Seq(Unmixed)
  BY <1>6, <1>7, <1>8
<1>10. QED
  BY <1>9

\* The page reads the student of a whole block: no scan before goes on behind its start.
LEMMA PageReadsIntact ==
  ASSUME NEW lines, NEW first, NEW last, NEW blocks, Stream(lines, first, last, blocks),
         NEW n \in 1..Len(blocks), blocks[n].intact
  PROVE  \E k \in DOMAIN ParseLines(lines) : ParseLines(lines)[k].student = n /\ ~ParseLines(lines)[k].error
<1> DEFINE L == Len(lines)
           starts == PageStarts(lines)
           found == PageFound(lines)
           resume == PageResume(lines)
           j == first[n]
           e == ScanEnd(lines, j)
           r == BlockRecord(lines, j, e)
<1>1. /\ L \in Nat /\ starts \in SUBSET (1..L) /\ resume \in [starts -> Nat]
      /\ found \in [starts -> Seq(Record)]
      /\ \A i \in starts : i < resume[i] /\ resume[i] <= L + 2
  BY PageStream DEF Stream
<1>2. lines \in Seq(Line) /\ n \in Nat /\ j \in Nat /\ last[n] \in Nat /\ BlockAt(lines, j, last[n], n, blocks[n])
      /\ Len(blocks) \in Nat
  BY DEF Stream, BlocksAt
<1>3. StartsStudent(lines[j]) /\ j \in 1..L
  BY <1>2 DEF BlockAt, WholeNumber, StartsStudent
<1>4. j \in starts
  BY <1>3 DEF PageStarts
<1>5. e \in (j + 1)..(L + 1) /\ e = last[n] /\ ValidNumber(lines, j) /\ lines[e].kind = "course"
  BY <1>3, ScanOfBlock
<1>6. r.student = n /\ ~r.error
  <2>1. e \in (j + 1)..last[n]
    BY <1>2, <1>5
  <2> HIDE DEF e, j
  <2>2. OwnersOf(lines, j, e) = {n} /\ lines[j].of = n /\ LineAt(lines, e) = lines[e]
    BY <1>2, <1>5, <2>1, LinesOfOneStudent DEF HasCourse
  <2>3. QED
    BY <1>5, <2>2 DEF BlockRecord
<1>7. found[j] = <<r>>
  BY <1>4 DEF PageFound
<1>8. ASSUME NEW i \in starts, i < j PROVE resume[i] <= j
  <2>1. i \in 1..L /\ StartsStudent(lines[i])
    BY DEF PageStarts
  <2>2. PICK m \in 1..Len(blocks) : i = first[m]
    BY <2>1, StartsAreFirst
  <2>3. StartsStudent(lines[first[m]])
    BY <2>1, <2>2
  <2>4. ScanEnd(lines, i) \in (i + 1)..(L + 1) /\ (m < Len(blocks) => ScanEnd(lines, i) <= first[m + 1])
    BY <2>2, <2>3, ScanOfBlock
  <2>5. \A k \in 1..Len(blocks) : first[k] \in Nat /\ last[k] \in Nat /\ first[k] <= last[k]
    <3>1. \A k \in 1..Len(blocks) : first[k] \in Nat /\ last[k] \in Nat /\ BlockAt(lines, first[k], last[k], k, blocks[k])
      BY DEF Stream, BlocksAt
    <3>2. QED
      BY <3>1 DEF BlockAt
  <2>6. n < m => last[n] < first[m]
    BY DEF Stream, BlocksAt
  <2>7. m < n
    BY <1>2, <1>8, <2>2, <2>5, <2>6
  <2>8. m + 1 \in 1..Len(blocks) /\ m < Len(blocks) /\ (m + 1 = n \/ m + 1 < n)
    BY <1>2, <2>7
  <2>9. m + 1 < n => last[m + 1] < first[n]
    BY <2>8 DEF Stream, BlocksAt
  <2>10. first[m + 1] <= first[n]
    BY <2>5, <2>8, <2>9
  <2>11. resume[i] = ScanEnd(lines, i)
    BY DEF PageResume
  <2>12. QED
    BY <1>1, <2>4, <2>5, <2>8, <2>10, <2>11
<1> HIDE DEF L, starts, found, resume, j, r
<1>9. PICK from : Scanned(from, L, starts, found, resume) /\ ParseLines(lines) = from[1]
  BY PageTextRead DEF L, starts, found, resume, Stream
<1>10. Reaching(starts, resume, j)
  BY <1>8 DEF Reaching
<1>11. Reached(from, j, r)
  BY <1>1, <1>4, <1>7, <1>9, <1>10, ScanReaches
<1>12. \E k \in DOMAIN ParseLines(lines) : ParseLines(lines)[k] = r
  <2>1. 1 \in 1..j
    BY <1>1, <1>4
  <2>2. QED
    BY <1>9, <1>11, <2>1 DEF Reached
<1>13. QED
  BY <1>6, <1>12

\* In lines of which none begins a student number, the page finds no student.
LEMMA NothingToRead ==
  ASSUME NEW lines \in Seq(Line), \A i \in 1..Len(lines) : ~StartsStudent(lines[i])
  PROVE  DOMAIN ParseLines(lines) = {}
<1> DEFINE L == Len(lines)
           starts == PageStarts(lines)
           found == PageFound(lines)
           resume == PageResume(lines)
<1>1. starts = {}
  BY DEF PageStarts
<1>2. /\ L \in Nat /\ starts \in SUBSET (1..L) /\ resume \in [starts -> Nat]
      /\ \A i \in starts : i < resume[i] /\ resume[i] <= L + 2
      /\ found \in [starts -> Seq(Record)]
  BY PageStream
<1>3. PICK from : Scanned(from, L, starts, found, resume) /\ ParseLines(lines) = from[1]
  BY PageTextRead
<1> HIDE DEF L, starts, found, resume
<1>4. found \in [starts -> Seq({})]
  BY <1>1, <1>2
<1>5. \A i \in 1..(L + 2) : from[i] \in Seq({})
  BY <1>2, <1>3, <1>4, ScanFinds
<1>6. from[1] \in Seq({})
  BY <1>2, <1>5
<1>7. \A q \in Seq({}) : DOMAIN q = {}
  <2>1. SUFFICES ASSUME NEW q \in Seq({}), DOMAIN q # {} PROVE FALSE
    OBVIOUS
  <2>2. DOMAIN q = 1..Len(q) /\ \A k \in 1..Len(q) : q[k] \in {}
    OBVIOUS
  <2>3. QED
    BY <2>1, <2>2
<1>8. QED
  BY <1>3, <1>6, <1>7

-----------------------------------------------------------------------------
(* The rows. *)

\* What the reader of rows sees in the row of a student.
LEMMA RowRead ==
  ASSUME NEW n \in Nat, NEW lost \in 0..5
  PROVE  LET row == StudentRow(n, lost)
         IN /\ NumbersIn(row) # {} <=> lost # 1
            /\ CoursesIn(row) # {} <=> lost # 4
            /\ lost # 1 /\ lost # 4 =>
                 /\ LegacyRecord(row).student = n /\ LegacyRecord(row).of = {n}
                 /\ LegacyRecord(row).error <=> lost # 0
<1> DEFINE row == StudentRow(n, lost)
           L == IF lost = 0 THEN 5 ELSE 4
           CellAt(j) == IF lost = 0 \/ j < lost THEN j ELSE j + 1
<1>1. /\ row \in Seq(LegacyLine) /\ Len(row) = (IF lost = 0 THEN 5 ELSE 4)
      /\ \A j \in 1..Len(row) :
           row[j] = [kind |-> LegacyCells[IF lost = 0 \/ j < lost THEN j ELSE j + 1], of |-> n]
  BY RowOfStudent, Zenon
<1> HIDE DEF row
<1>2. DOMAIN row = 1..L /\ L \in {4, 5} /\ Len(row) = L
  <2>1. L \in {4, 5} /\ Len(row) = L
    BY <1>1
  <2> HIDE DEF L
  <2>2. row \in Seq(LegacyLine)
    BY <1>1, Zenon
  <2>3. DOMAIN row = 1..Len(row)
    BY <2>2
  <2>4. QED
    BY <2>1, <2>3
<1>3. /\ LegacyCells[1] = "whole" /\ LegacyCells[2] = "name" /\ LegacyCells[3] = "name"
      /\ LegacyCells[4] = "courseAlone" /\ LegacyCells[5] = "level"
  BY DEF LegacyCells
<1>4. ASSUME NEW j \in 1..L PROVE row[j].of = n /\ row[j].kind = LegacyCells[CellAt(j)]
  <2>1. row[j] = [kind |-> LegacyCells[CellAt(j)], of |-> n]
    BY <1>1, <1>2
  <2> HIDE DEF CellAt
  <2>2. QED
    BY <2>1
<1>5. NumbersIn(row) = IF lost = 1 THEN {} ELSE {1}
  <2>1. \A j \in 1..L : row[j].kind = "whole" <=> (j = 1 /\ lost # 1)
    <3>1. \A j \in 1..L : j = 1 \/ j = 2 \/ j = 3 \/ j = 4 \/ (j = 5 /\ lost = 0)
      BY <1>2
    <3>2. QED
      BY <1>3, <1>4, <3>1
  <2>2. 1 \in 1..L
    BY <1>2
  <2>3. QED
    BY <1>2, <2>1, <2>2 DEF NumbersIn
<1>6. CoursesIn(row) = IF lost = 4 THEN {} ELSE IF lost \in 1..3 THEN {3} ELSE {4}
  <2>1. \A j \in 1..L : row[j].kind = "courseAlone" <=> (lost # 4 /\ j = IF lost \in 1..3 THEN 3 ELSE 4)
    <3>1. \A j \in 1..L : j = 1 \/ j = 2 \/ j = 3 \/ j = 4 \/ (j = 5 /\ lost = 0)
      BY <1>2
    <3>2. QED
      BY <1>3, <1>4, <3>1
  <2>2. 3 \in 1..L /\ 4 \in 1..L
    BY <1>2
  <2>3. QED
    BY <1>2, <2>1, <2>2 DEF CoursesIn
<1>7. ASSUME lost # 1, lost # 4
      PROVE  /\ LegacyRecord(row).student = n /\ LegacyRecord(row).of = {n}
             /\ LegacyRecord(row).error <=> lost # 0
  <2> DEFINE number == FirstStop(row, NumbersIn(row))
             course == FirstStop(row, CoursesIn(row))
             used == {number} \union 2..(course + 1)
             of == {row[i].of : i \in used \intersect DOMAIN row}
             error == course < 4 \/ LineAt(row, course + 1).kind # "level"
  <2>1. ASSUME NEW c PROVE FirstStop(row, {c}) = c \/ ~(c <= c)
    BY DEF FirstStop
  <2>2. number = 1
    BY <1>5, <1>7, <2>1
  <2>3. course = IF lost \in 1..3 THEN 3 ELSE 4
    BY <1>6, <1>7, <2>1
  <2>4. LegacyRecord(row) = [student |-> row[number].of, of |-> of, error |-> error]
    BY DEF LegacyRecord
  <2> HIDE DEF number, course
  <2>5. row[number].of = n /\ 1 \in used \intersect DOMAIN row
    BY <1>2, <1>4, <2>2
  <2>6. of = {n}
    BY <1>2, <1>4, <2>5
  <2>7. error <=> lost # 0
    <3>1. CASE lost \in 1..3
      BY <2>3, <3>1
    <3>2. CASE lost = 0
      <4>1. course = 4 /\ 5 \in DOMAIN row /\ row[5].kind = "level"
        BY <1>2, <1>3, <1>4, <2>3, <3>2
      <4>2. LineAt(row, 5).kind = "level"
        BY <4>1 DEF LineAt
      <4>3. QED
        BY <3>2, <4>1, <4>2
    <3>3. CASE lost = 5
      <4>1. course = 4 /\ 5 \notin DOMAIN row
        BY <1>2, <2>3, <3>3
      <4>2. LineAt(row, 5).kind = "none"
        BY <4>1 DEF LineAt
      <4>3. QED
        BY <3>3, <4>1, <4>2
    <3>4. QED
      BY <1>7, <3>1, <3>2, <3>3
  <2> HIDE DEF of, error
  <2>8. QED
    BY <2>4, <2>5, <2>6, <2>7
<1>8. QED
  BY <1>5, <1>6, <1>7 DEF row

\* Rows are read student by student.
LEMMA RowsRead ==
  ASSUME PrintedOK, RowsInv, ~splitPdf.headings, printed.lines = << >>
  PROVE  /\ \A k \in DOMAIN PageStudents.rows : PageStudents.rows[k].of = {PageStudents.rows[k].student}
         /\ \A n \in 1..Len(printed.rows) :
              (\E k \in DOMAIN PageStudents.rows :
                 PageStudents.rows[k].student = n /\ ~PageStudents.rows[k].error) <=> printed.rows[n] = 0
<1> DEFINE lost == printed.rows
           N == Len(lost)
           found == PageStudents.rows
<1>1. N \in Nat /\ \A n \in 1..N : lost[n] \in 0..5 /\ n \in Nat
  BY DEF PrintedOK
<1>2. /\ DOMAIN rowPdf = 1..N /\ \A n \in 1..N : rowPdf[n] = StudentRow(n, lost[n])
      /\ linePdf \in Seq(Line)
  <2>1. Len(rowPdf) = N /\ DOMAIN rowPdf = 1..Len(rowPdf) /\ \A n \in 1..N : rowPdf[n] = StudentRow(n, lost[n])
    BY DEF RowsInv
  <2>2. \A line \in LegacyLine : line \in Line
    BY DEF LegacyLine, Line, BlockKind
  <2>3. linePdf \in Seq(LegacyLine)
    BY DEF RowsInv
  <2>4. QED
    BY <2>1, <2>2, <2>3
<1> HIDE DEF lost, N
<1>3. ASSUME NEW n \in 1..N
      PROVE  /\ NumbersIn(rowPdf[n]) # {} <=> lost[n] # 1
             /\ CoursesIn(rowPdf[n]) # {} <=> lost[n] # 4
             /\ lost[n] # 1 /\ lost[n] # 4 =>
                  /\ LegacyRecord(rowPdf[n]).student = n /\ LegacyRecord(rowPdf[n]).of = {n}
                  /\ LegacyRecord(rowPdf[n]).error <=> lost[n] # 0
  <2>1. n \in Nat /\ lost[n] \in 0..5 /\ rowPdf[n] = StudentRow(n, lost[n])
    BY <1>1, <1>2
  <2> DEFINE lostCell == lost[n]
  <2> HIDE DEF lostCell
  <2>2. lostCell = lost[n] /\ lostCell \in 0..5
    BY <2>1 DEF lostCell
  <2> DEFINE row == StudentRow(n, lostCell)
  <2>3. /\ NumbersIn(row) # {} <=> lostCell # 1
        /\ CoursesIn(row) # {} <=> lostCell # 4
        /\ lostCell # 1 /\ lostCell # 4 =>
             /\ LegacyRecord(row).student = n /\ LegacyRecord(row).of = {n}
             /\ LegacyRecord(row).error <=> lostCell # 0
    BY <2>1, <2>2, RowRead, Zenon
  <2>4. row = rowPdf[n]
    BY <2>1, <2>2
  <2> HIDE DEF row
  <2>5. QED
    BY <2>2, <2>3, <2>4
<1>4. CASE \E r \in DOMAIN rowPdf : NumbersIn(rowPdf[r]) # {}
  <2>1. found = ParseLegacyRosterPages(rowPdf)
    <3>1. PageStudents = Rows(ParseLegacyRosterPages(rowPdf))
      BY <1>4 DEF PageStudents, ParseRosterPdf
    <3>2. QED
      BY <3>1, MeantRefused
  <2> DEFINE read == {n \in DOMAIN rowPdf : NumbersIn(rowPdf[n]) # {} /\ CoursesIn(rowPdf[n]) # {}}
  <2>2. found = [n \in read |-> LegacyRecord(rowPdf[n])]
    BY <2>1 DEF ParseLegacyRosterPages
  <2>3. read = {n \in 1..N : lost[n] # 1 /\ lost[n] # 4}
    <3>1. DOMAIN rowPdf = 1..N
      BY <1>2
    <3>2. \A n \in 1..N : (NumbersIn(rowPdf[n]) # {} /\ CoursesIn(rowPdf[n]) # {}) <=> (lost[n] # 1 /\ lost[n] # 4)
      BY <1>3
    <3>3. QED
      BY <3>1, <3>2
  <2> HIDE DEF found, read
  <2>4. DOMAIN found = read /\ \A n \in read : found[n] = LegacyRecord(rowPdf[n])
    BY <2>2
  <2>5. \A n \in read : /\ n \in 1..N /\ found[n].student = n /\ found[n].of = {n}
                        /\ found[n].error <=> lost[n] # 0
    BY <1>3, <2>3, <2>4
  <2>6. \A n \in 1..N : lost[n] = 0 => n \in read
    BY <2>3
  <2>7. \A k \in DOMAIN found : found[k].of = {found[k].student}
    BY <2>4, <2>5
  <2>8. ASSUME NEW n \in 1..N
        PROVE  (\E k \in DOMAIN found : found[k].student = n /\ ~found[k].error) <=> lost[n] = 0
    <3>1. ASSUME NEW k \in DOMAIN found, found[k].student = n, ~found[k].error PROVE lost[n] = 0
      <4>1. k = n /\ k \in read
        BY <2>4, <2>5, <3>1
      <4>2. QED
        BY <2>5, <3>1, <4>1
    <3>2. ASSUME lost[n] = 0 PROVE n \in DOMAIN found /\ found[n].student = n /\ ~found[n].error
      <4>1. n \in read
        BY <2>6, <3>2
      <4>2. QED
        BY <2>4, <2>5, <3>2, <4>1
    <3>3. QED
      BY <3>1, <3>2
  <2>9. QED
    BY <2>7, <2>8 DEF found, lost, N
<1>5. CASE ~\E r \in DOMAIN rowPdf : NumbersIn(rowPdf[r]) # {}
  <2>1. \A n \in 1..N : lost[n] = 1
    BY <1>2, <1>3, <1>5
  <2>2. found = ParseLines(linePdf)
    <3>1. PageStudents = Rows(ParseLines(linePdf))
      BY <1>5 DEF PageStudents, ParseRosterPdf
    <3>2. QED
      BY <3>1, MeantRefused
  <2>3. ASSUME NEW i \in 1..Len(linePdf) PROVE ~StartsStudent(linePdf[i])
    <3>1. linePdf[i].kind \in {"whole", "name", "courseAlone", "level"}
      <4>1. linePdf[i] \in LegacyLine
        BY DEF RowsInv
      <4>2. QED
        BY <4>1 DEF LegacyLine
    <3>2. 1..Len(rowPdf) = DOMAIN rowPdf
      BY DEF RowsInv
    <3>3. linePdf[i].kind # "whole"
      BY <1>5, <3>2 DEF RowsInv
    <3>4. QED
      BY <3>1, <3>3 DEF StartsStudent
  <2>4. DOMAIN found = {}
    BY <1>2, <2>2, <2>3, NothingToRead
  <2> HIDE DEF found
  <2>5. QED
    BY <2>1, <2>4 DEF found, lost, N
<1>6. QED
  BY <1>4, <1>5

-----------------------------------------------------------------------------
(* The script. *)

ScriptRecordSet == [student : Nat, of : SUBSET Nat, number : BOOLEAN, level : BOOLEAN]

ScriptRecord(lines, i) ==
  IF HasCourse(LineAt(lines, ScriptScanEnd(lines, i)))
  THEN <<ScriptBlockRecord(lines, i, ScriptScanEnd(lines, i))>> ELSE << >>

ScriptStarts(lines) == {i \in 1..Len(lines) : lines[i].kind = "id1"}
ScriptFound(lines) == [i \in ScriptStarts(lines) |-> ScriptRecord(lines, i)]
ScriptResume(lines) == [i \in ScriptStarts(lines) |-> ScriptScanEnd(lines, i) + 1]

ScriptReading(from, lines) ==
  from = [i \in 1..(Len(lines) + 2) |->
           IF i > Len(lines) THEN << >>
           ELSE IF lines[i].kind = "id1" THEN ScriptRecord(lines, i) \o from[ScriptScanEnd(lines, i) + 1]
           ELSE from[i + 1]]

\* A scan of the script ends in the text or just behind it.
LEMMA ScriptEnds ==
  ASSUME NEW lines \in Seq(Line), NEW i \in ScriptStarts(lines)
  PROVE  ScriptScanEnd(lines, i) \in (i + 1)..(Len(lines) + 1) /\ i \in Nat
<1> DEFINE L == Len(lines)
           stops == {j \in (i + 3)..L : lines[j].kind \in {"id1", "footer"} \/ HasCourse(lines[j])}
<1>1. i \in Nat /\ 1 <= i /\ i <= L /\ L \in Nat
  BY DEF ScriptStarts
<1>2. stops \in SUBSET (1..L) /\ \A j \in stops : j \in (i + 1)..(L + 1)
  BY <1>1
<1>3. ScriptScanEnd(lines, i) = FirstStop(lines, stops)
  BY DEF ScriptScanEnd
<1> HIDE DEF stops
<1>4. FirstStop(lines, stops) \in stops \/ FirstStop(lines, stops) = L + 1
  BY <1>1, <1>2, StopFound
<1> DEFINE e == FirstStop(lines, stops)
<1> HIDE DEF e, L
<1>5. e \in (i + 1)..(L + 1)
  <2>1. L + 1 \in (i + 1)..(L + 1)
    BY <1>1 DEF L
  <2>2. e \in stops \/ e = L + 1
    BY <1>4 DEF e, L
  <2>3. \A j \in stops : j \in (i + 1)..(L + 1)
    BY <1>2 DEF L
  <2>4. QED
    BY <2>1, <2>2, <2>3
<1>6. QED
  BY <1>1, <1>3, <1>5 DEF e, L

\* A record of the script has its fields.
LEMMA ScriptRecordOfBlock ==
  ASSUME NEW lines \in Seq(Line), NEW i \in 1..Len(lines), NEW e \in Nat
  PROVE  ScriptBlockRecord(lines, i, e) \in ScriptRecordSet
<1> DEFINE of == OwnersOf(lines, i, e)
           number == [k \in 1..3 |-> LineAt(lines, i + k - 1).kind]
                       \in {<<"id1", "id2", "id3">>, <<"id1", "id2end", "none">>}
           level == LineAt(lines, e).kind = "course"
<1>1. ScriptBlockRecord(lines, i, e) = [student |-> lines[i].of, of |-> of, number |-> number, level |-> level]
  BY DEF ScriptBlockRecord
<1>2. \A j \in DOMAIN lines : lines[j].of \in Nat
  <2>1. \A j \in DOMAIN lines : lines[j] \in Line
    OBVIOUS
  <2>2. \A line \in Line : line.of \in Nat
    BY DEF Line
  <2>3. QED
    BY <2>1, <2>2
<1>3. lines[i].of \in Nat
  <2>1. i \in DOMAIN lines
    OBVIOUS
  <2>2. QED
    BY <1>2, <2>1
<1>4. of \in SUBSET Nat
  BY <1>2 DEF OwnersOf
<1>5. number \in BOOLEAN /\ level \in BOOLEAN
  OBVIOUS
<1> HIDE DEF of, number, level
<1>6. QED
  BY <1>1, <1>3, <1>4, <1>5 DEF ScriptRecordSet

\* So parseStudentText() comes to an end too.
LEMMA ScriptStream ==
  ASSUME NEW lines \in Seq(Line)
  PROVE  /\ Len(lines) \in Nat /\ ScriptStarts(lines) \in SUBSET (1..Len(lines))
         /\ ScriptFound(lines) \in [ScriptStarts(lines) -> Seq(ScriptRecordSet)]
         /\ ScriptResume(lines) \in [ScriptStarts(lines) -> Nat]
         /\ \A i \in ScriptStarts(lines) : i < ScriptResume(lines)[i] /\ ScriptResume(lines)[i] <= Len(lines) + 2
         /\ \E from : ScriptReading(from, lines)
         /\ \A from : ScriptReading(from, lines) =>
              Scanned(from, Len(lines), ScriptStarts(lines), ScriptFound(lines), ScriptResume(lines))
<1> DEFINE L == Len(lines)
           starts == ScriptStarts(lines)
           found == ScriptFound(lines)
           resume == ScriptResume(lines)
<1>1. L \in Nat
  OBVIOUS
<1>2. starts \in SUBSET (1..L) /\ \A i \in 1..L : i \in starts <=> lines[i].kind = "id1"
  BY DEF ScriptStarts
<1>3. ASSUME NEW i \in starts PROVE ScriptScanEnd(lines, i) \in (i + 1)..(L + 1) /\ i \in Nat
  BY ScriptEnds
<1>4. /\ DOMAIN found = starts /\ \A i \in starts : found[i] = ScriptRecord(lines, i)
      /\ found = [i \in starts |-> found[i]]
  BY DEF ScriptFound
<1>5. /\ DOMAIN resume = starts /\ \A i \in starts : resume[i] = ScriptScanEnd(lines, i) + 1
      /\ resume = [i \in starts |-> resume[i]]
  BY DEF ScriptResume
<1> HIDE DEF starts, found, resume, L
<1>6. \A i \in starts : resume[i] \in Nat /\ i < resume[i] /\ resume[i] <= L + 2
  BY <1>1, <1>3, <1>5
<1>7. resume \in [starts -> Nat]
  BY <1>5, <1>6
<1>8. ASSUME NEW i \in starts PROVE found[i] \in Seq(ScriptRecordSet)
  <2> DEFINE r == ScriptBlockRecord(lines, i, ScriptScanEnd(lines, i))
  <2>1. i \in 1..L /\ ScriptScanEnd(lines, i) \in Nat
    BY <1>1, <1>2, <1>3
  <2>2. r \in ScriptRecordSet
    BY <1>1, <2>1, ScriptRecordOfBlock DEF L
  <2>3. found[i] = <<r>> \/ found[i] = << >>
    BY <1>4 DEF ScriptRecord
  <2> HIDE DEF r
  <2>4. << >> \in Seq(ScriptRecordSet) /\ <<r>> \in Seq(ScriptRecordSet)
    BY <2>2
  <2>5. QED
    BY <2>3, <2>4
<1>9. found \in [starts -> Seq(ScriptRecordSet)]
  BY <1>4, <1>8
<1>10. PICK from \in [1..(L + 2) -> Seq(ScriptRecordSet)] : Scanned(from, L, starts, found, resume)
  BY <1>1, <1>2, <1>6, <1>7, <1>9, ScanExists
<1>11. ASSUME NEW f, NEW i \in 1..(L + 2)
       PROVE  (IF i > L THEN << >> ELSE IF i \in starts THEN found[i] \o f[resume[i]] ELSE f[i + 1])
              = (IF i > L THEN << >>
                 ELSE IF lines[i].kind = "id1" THEN ScriptRecord(lines, i) \o f[ScriptScanEnd(lines, i) + 1]
                 ELSE f[i + 1])
  <2>1. CASE i > L
    BY <2>1
  <2>2. CASE ~(i > L)
    <3>1. i \in starts <=> lines[i].kind = "id1"
      BY <1>1, <1>2, <2>2
    <3>2. i \in starts => found[i] = ScriptRecord(lines, i) /\ resume[i] = ScriptScanEnd(lines, i) + 1
      BY <1>4, <1>5
    <3>3. QED
      BY <2>2, <3>1, <3>2
  <2>3. QED
    BY <2>1, <2>2
<1>12. ScriptReading(from, lines)
  <2>1. from = [i \in 1..(L + 2) |-> from[i]]
    OBVIOUS
  <2>2. \A i \in 1..(L + 2) :
          from[i] = IF i > L THEN << >>
                    ELSE IF lines[i].kind = "id1" THEN ScriptRecord(lines, i) \o from[ScriptScanEnd(lines, i) + 1]
                    ELSE from[i + 1]
    BY <1>10, <1>11 DEF Scanned
  <2>3. QED
    BY <2>1, <2>2 DEF ScriptReading, L
<1>13. ASSUME NEW f, ScriptReading(f, lines) PROVE Scanned(f, L, starts, found, resume)
  <2>1. \A i \in 1..(L + 2) :
          f[i] = IF i > L THEN << >>
                 ELSE IF lines[i].kind = "id1" THEN ScriptRecord(lines, i) \o f[ScriptScanEnd(lines, i) + 1]
                 ELSE f[i + 1]
    BY <1>13 DEF ScriptReading, L
  <2>2. QED
    BY <1>11, <2>1 DEF Scanned
<1>14. QED
  BY <1>1, <1>2, <1>6, <1>7, <1>9, <1>12, <1>13 DEF L, starts, found, resume

\* What parseStudentText() reads is what is found from the first line on.
LEMMA ScriptTextRead ==
  ASSUME NEW lines \in Seq(Line)
  PROVE  \E from : /\ Scanned(from, Len(lines), ScriptStarts(lines), ScriptFound(lines), ScriptResume(lines))
                   /\ ParseStudentText(lines) =
                        IF \E k \in DOMAIN from[1] : ~from[1][k].level THEN Refused ELSE Rows(from[1])
<1> DEFINE from == CHOOSE f : ScriptReading(f, lines)
<1>1. ScriptReading(from, lines)
  BY ScriptStream
<1>2. ParseStudentText(lines) = IF \E k \in DOMAIN from[1] : ~from[1][k].level THEN Refused ELSE Rows(from[1])
  BY DEF ParseStudentText, ScriptReading, ScriptRecord
<1> HIDE DEF from
<1>3. Scanned(from, Len(lines), ScriptStarts(lines), ScriptFound(lines), ScriptResume(lines))
  BY <1>1, ScriptStream
<1>4. QED
  BY <1>2, <1>3

\* Student n is among those read, if the script is not stopped.
HasRead(read, n) ==
  ~read.refused => \E k \in DOMAIN read.rows :
    read.rows[k].student = n /\ read.rows[k].of = {n} /\ read.rows[k].number

\* The script reads a whole block of three parts if the one before is whole: then no scan
\* before passes its start over.
LEMMA ScriptReadsIntact ==
  ASSUME NEW lines, NEW first, NEW last, NEW blocks, Stream(lines, first, last, blocks),
         NEW n \in 1..Len(blocks), blocks[n].intact,
         \A m \in 1..n : blocks[m].threeParts, n > 1 => blocks[n - 1].intact
  PROVE  HasRead(ParseStudentText(lines), n)
<1> DEFINE L == Len(lines)
           starts == ScriptStarts(lines)
           found == ScriptFound(lines)
           resume == ScriptResume(lines)
           j == first[n]
           e == ScriptScanEnd(lines, j)
           r == ScriptBlockRecord(lines, j, e)
<1>1. lines \in Seq(Line) /\ n \in Nat /\ j \in Nat /\ last[n] \in Nat /\ BlockAt(lines, j, last[n], n, blocks[n])
      /\ Len(blocks) \in Nat /\ 1 <= n /\ n <= Len(blocks)
  BY DEF Stream, BlocksAt
<1>2. /\ L \in Nat /\ starts \in SUBSET (1..L) /\ resume \in [starts -> Nat]
      /\ found \in [starts -> Seq(ScriptRecordSet)]
      /\ \A i \in starts : i < resume[i] /\ resume[i] <= L + 2
  BY <1>1, ScriptStream
<1>3. blocks[n].threeParts
  BY <1>1
<1>4. lines[j].kind = "id1" /\ j \in 1..L
  BY <1>1, <1>3 DEF BlockAt
<1>5. j \in starts
  BY <1>4 DEF ScriptStarts
<1>6. e = last[n] /\ lines[e].kind = "course"
  BY <1>3, <1>4, ScriptScanOfBlock
<1>7. r.student = n /\ r.of = {n} /\ r.number
  <2>1. e \in (j + 1)..last[n] /\ j \in DOMAIN lines /\ j + 1 \in DOMAIN lines /\ j + 2 \in DOMAIN lines
    BY <1>1, <1>3, <1>4, <1>6 DEF BlockAt
  <2>2. lines[j + 1].kind = "id2" /\ lines[j + 2].kind = "id3"
    BY <1>1, <1>3 DEF BlockAt
  <2>3. /\ LineAt(lines, j).kind = "id1" /\ LineAt(lines, j + 1).kind = "id2"
        /\ LineAt(lines, j + 2).kind = "id3"
    BY <1>4, <2>1, <2>2 DEF LineAt
  <2> HIDE DEF e, j
  <2>4. OwnersOf(lines, j, e) = {n} /\ lines[j].of = n
    BY <1>1, <1>6, <2>1, LinesOfOneStudent DEF HasCourse
  <2>5. [k \in 1..3 |-> LineAt(lines, j + k - 1).kind] = <<"id1", "id2", "id3">>
    <3> DEFINE kinds == [k \in 1..3 |-> LineAt(lines, j + k - 1).kind]
    <3>1. j + 1 - 1 = j /\ j + 2 - 1 = j + 1 /\ j + 3 - 1 = j + 2
      BY <1>1
    <3>2. DOMAIN kinds = 1..3 /\ kinds[1] = "id1" /\ kinds[2] = "id2" /\ kinds[3] = "id3"
          /\ kinds = [k \in 1..3 |-> kinds[k]]
      BY <2>3, <3>1
    <3> HIDE DEF kinds
    <3>3. kinds \in Seq({"id1", "id2", "id3"}) /\ Len(kinds) = 3
      BY <3>2
    <3>4. kinds = <<"id1", "id2", "id3">>
      BY <3>2, <3>3
    <3>5. QED
      BY <3>4 DEF kinds
  <2>6. QED
    BY <2>4, <2>5 DEF ScriptBlockRecord
<1>8. found[j] = <<r>>
  <2>1. e \in DOMAIN lines
    BY <1>1, <1>6 DEF BlockAt
  <2>2. LineAt(lines, e).kind = "course"
    BY <1>6, <2>1 DEF LineAt
  <2>3. QED
    BY <1>5, <2>2 DEF ScriptFound, ScriptRecord, HasCourse
<1>9. ASSUME NEW i \in starts, i < j PROVE resume[i] <= j
  <2>1. i \in 1..L /\ lines[i].kind = "id1" /\ StartsStudent(lines[i])
    BY DEF ScriptStarts, StartsStudent
  <2>2. PICK m \in 1..Len(blocks) : i = first[m]
    BY <2>1, StartsAreFirst
  <2>3. \A k \in 1..Len(blocks) : first[k] \in Nat /\ last[k] \in Nat /\ first[k] <= last[k]
    <3>1. \A k \in 1..Len(blocks) : first[k] \in Nat /\ last[k] \in Nat /\ BlockAt(lines, first[k], last[k], k, blocks[k])
      BY DEF Stream, BlocksAt
    <3>2. QED
      BY <3>1 DEF BlockAt
  <2>4. n < m => last[n] < first[m]
    BY DEF Stream, BlocksAt
  <2>5. m < n /\ m \in Nat /\ 1 <= m
    BY <1>1, <1>9, <2>2, <2>3, <2>4
  <2>6. m + 1 \in 1..Len(blocks) /\ m < Len(blocks) /\ m \in 1..n /\ m + 1 \in 1..n
    BY <1>1, <2>5
  <2>7. blocks[m].threeParts /\ blocks[m + 1].threeParts
    BY <2>6
  <2>8. lines[first[m]].kind = "id1"
    BY <2>1, <2>2
  <2>9. resume[i] = ScriptScanEnd(lines, first[m]) + 1
    BY <2>2 DEF ScriptResume
  <2>10. last[m] < first[n]
    BY <2>5 DEF Stream, BlocksAt
  <2>11. CASE blocks[m].intact
    <3>1. ScriptScanEnd(lines, first[m]) = last[m]
      BY <2>7, <2>8, <2>11, ScriptScanOfBlock
    <3>2. QED
      BY <1>1, <2>3, <2>9, <2>10, <3>1
  <2>12. CASE ~blocks[m].intact
    <3>1. ScriptScanEnd(lines, first[m]) <= first[m + 1]
      BY <2>6, <2>7, <2>8, ScriptScanOfBlock
    <3>2. m # n - 1
      BY <2>5, <2>12
    <3>3. m + 1 < n
      BY <1>1, <2>5, <3>2
    <3>4. last[m + 1] < first[n]
      BY <2>6, <3>3 DEF Stream, BlocksAt
    <3>5. ScriptScanEnd(lines, first[m]) \in Int
      <4>1. first[m] \in starts /\ first[m] \in Nat
        BY <2>2, <2>3
      <4>2. ScriptScanEnd(lines, first[m]) \in (first[m] + 1)..(L + 1)
        BY <1>1, <4>1, ScriptEnds
      <4>3. QED
        BY <1>2, <4>1, <4>2
    <3>6. QED
      BY <1>1, <2>3, <2>6, <2>9, <3>1, <3>4, <3>5
  <2>13. QED
    BY <2>11, <2>12
<1> HIDE DEF L, starts, found, resume, j, r
<1>10. PICK from : /\ Scanned(from, L, starts, found, resume)
                   /\ ParseStudentText(lines) =
                        IF \E k \in DOMAIN from[1] : ~from[1][k].level THEN Refused ELSE Rows(from[1])
  BY <1>1, ScriptTextRead DEF L, starts, found, resume
<1>11. Reaching(starts, resume, j)
  BY <1>9 DEF Reaching
<1>12. Reached(from, j, r)
  BY <1>2, <1>5, <1>8, <1>10, <1>11, ScanReaches
<1>13. \E k \in DOMAIN from[1] : from[1][k] = r
  <2>1. 1 \in 1..j
    BY <1>2, <1>5
  <2>2. QED
    BY <1>12, <2>1 DEF Reached
<1>14. ParseStudentText(lines).refused \/ ParseStudentText(lines).rows = from[1]
  BY <1>10, MeantRefused
<1>15. QED
  BY <1>7, <1>13, <1>14 DEF HasRead

\* What the page reads of a stream of lines: nobody if a number is whole on its line, which
\* is for the reader of rows, and the student of every whole block if none is.
LEMMA StreamRead ==
  ASSUME PrintedOK, LinesInv, rowPdf = EachARow(linePdf), ~splitPdf.headings
  PROVE  /\ \A k \in DOMAIN PageStudents.rows :
              ~PageStudents.rows[k].error => PageStudents.rows[k].of = {PageStudents.rows[k].student}
         /\ \A n \in 1..Len(printed.lines) : printed.lines[n].intact =>
              ((\E k \in DOMAIN PageStudents.rows :
                  PageStudents.rows[k].student = n /\ ~PageStudents.rows[k].error)
               <=> ~\E i \in DOMAIN linePdf : linePdf[i].kind = "whole")
<1> DEFINE blocks == printed.lines
           found == PageStudents.rows
<1>1. blocks \in Seq(Block) /\ linePdf \in Seq(Line)
  BY DEF PrintedOK, LinesInv
<1>2. PICK first \in [1..Len(blocks) -> Nat], last \in [1..Len(blocks) -> Nat] :
        BlocksAt(linePdf, first, last, blocks)
  BY DEF LinesInv
<1>3. Stream(linePdf, first, last, blocks)
  BY <1>1, <1>2 DEF LinesInv, Stream
<1>4. DOMAIN rowPdf = DOMAIN linePdf /\ \A i \in DOMAIN linePdf : rowPdf[i] = <<linePdf[i]>>
  BY DEF EachARow
<1>5. ASSUME NEW i \in DOMAIN linePdf
      PROVE  (NumbersIn(rowPdf[i]) # {} <=> linePdf[i].kind = "whole") /\ CoursesIn(rowPdf[i]) = {}
  <2> DEFINE line == linePdf[i]
  <2>1. rowPdf[i] = <<line>>
    BY <1>4
  <2> HIDE DEF line
  <2>2. DOMAIN <<line>> = {1} /\ <<line>>[1] = line
    OBVIOUS
  <2>3. NumbersIn(<<line>>) # {} <=> line.kind = "whole"
    BY <2>2 DEF NumbersIn
  <2>4. CoursesIn(<<line>>) = {}
    BY <2>2 DEF CoursesIn
  <2>5. QED
    BY <2>1, <2>3, <2>4 DEF line
<1>6. CASE \E i \in DOMAIN linePdf : linePdf[i].kind = "whole"
  <2>1. \E r \in DOMAIN rowPdf : NumbersIn(rowPdf[r]) # {}
    BY <1>4, <1>5, <1>6
  <2>2. PageStudents = Rows(ParseLegacyRosterPages(rowPdf))
    BY <2>1 DEF PageStudents, ParseRosterPdf
  <2>3. found = ParseLegacyRosterPages(rowPdf)
    BY <2>2, MeantRefused
  <2>4. DOMAIN ParseLegacyRosterPages(rowPdf) = {}
    BY <1>4, <1>5 DEF ParseLegacyRosterPages
  <2>5. QED
    BY <1>6, <2>3, <2>4
<1>7. CASE ~\E i \in DOMAIN linePdf : linePdf[i].kind = "whole"
  <2>1. ~\E r \in DOMAIN rowPdf : NumbersIn(rowPdf[r]) # {}
    BY <1>4, <1>5, <1>7
  <2>2. PageStudents = Rows(ParseLines(linePdf))
    BY <2>1 DEF PageStudents, ParseRosterPdf
  <2>3. found = ParseLines(linePdf)
    BY <2>2, MeantRefused
  <2>4. \A k \in DOMAIN ParseLines(linePdf) :
          ~ParseLines(linePdf)[k].error => ParseLines(linePdf)[k].of = {ParseLines(linePdf)[k].student}
    <3>1. \A k \in DOMAIN ParseLines(linePdf) : ParseLines(linePdf)[k] \in Unmixed
      BY <1>3, PageUnmixed
    <3>2. QED
      BY <3>1 DEF Unmixed
  <2>5. \A n \in 1..Len(blocks) : blocks[n].intact =>
          \E k \in DOMAIN ParseLines(linePdf) : ParseLines(linePdf)[k].student = n /\ ~ParseLines(linePdf)[k].error
    BY <1>3, PageReadsIntact
  <2>6. QED
    BY <1>7, <2>3, <2>4, <2>5
<1>8. QED
  BY <1>6, <1>7

\* What the script reads of it: the rows are lines again.
LEMMA ScriptStreamRead ==
  ASSUME PrintedOK, LinesInv, rowPdf = EachARow(linePdf), ~splitPdf.headings
  PROVE  ScriptReadsIntactStudents
<1> DEFINE blocks == printed.lines
           text == [r \in DOMAIN rowPdf |-> ScriptLine(rowPdf[r])]
<1>1. blocks \in Seq(Block) /\ DOMAIN blocks = 1..Len(blocks) /\ linePdf \in Seq(Line)
  BY DEF PrintedOK, LinesInv
<1>2. PICK first \in [1..Len(blocks) -> Nat], last \in [1..Len(blocks) -> Nat] :
        BlocksAt(linePdf, first, last, blocks)
  BY DEF LinesInv
<1>3. Stream(linePdf, first, last, blocks)
  BY <1>1, <1>2 DEF LinesInv, Stream
<1>4. text = linePdf
  <2>1. DOMAIN rowPdf = DOMAIN linePdf /\ \A i \in DOMAIN linePdf : rowPdf[i] = <<linePdf[i]>>
    BY DEF EachARow
  <2>2. ASSUME NEW line PROVE ScriptLine(<<line>>) = line
    BY DEF ScriptLine
  <2>3. \A i \in DOMAIN linePdf : ScriptLine(rowPdf[i]) = linePdf[i]
    BY <2>1, <2>2
  <2>4. linePdf = [i \in DOMAIN linePdf |-> linePdf[i]]
    BY <1>1
  <2>5. QED
    BY <2>1, <2>3, <2>4
<1>5. ScriptStudents = ParseStudentText(linePdf)
  BY <1>4 DEF ScriptStudents
<1>6. SUFFICES ASSUME ~ParseStudentText(linePdf).refused, NEW n \in 1..Len(blocks),
                      \A m \in 1..n : blocks[m].threeParts, blocks[n].intact, n > 1 => blocks[n - 1].intact
               PROVE  \E k \in DOMAIN ParseStudentText(linePdf).rows :
                        /\ ParseStudentText(linePdf).rows[k].student = n
                        /\ ParseStudentText(linePdf).rows[k].of = {n} /\ ParseStudentText(linePdf).rows[k].number
  BY <1>1, <1>5 DEF ScriptReadsIntactStudents
<1>7. HasRead(ParseStudentText(linePdf), n)
  <2> HIDE DEF blocks
  <2>1. QED
    BY <1>3, <1>6, ScriptReadsIntact
<1>8. QED
  BY <1>6, <1>7 DEF HasRead

\* What is read of a PDF without headings, in whichever layout it is.
LEMMA LinesRead ==
  ASSUME PdfInv
  PROVE  LinesNotMixed /\ IntactStudentsRead /\ ScriptReadsIntactStudents
<1> USE DEF PdfInv
<1>1. DOMAIN printed.rows = 1..Len(printed.rows) /\ DOMAIN printed.lines = 1..Len(printed.lines)
  BY DEF PrintedOK
<1>2. DOMAIN << >> = {}
  OBVIOUS
<1>3. CASE splitPdf.headings
  <2>1. printed.rows = << >> /\ printed.lines = << >>
    BY <1>3 DEF OneLayout
  <2>2. DOMAIN printed.rows = {} /\ DOMAIN printed.lines = {}
    BY <1>2, <2>1
  <2>3. QED
    BY <1>3, <2>2 DEF LinesNotMixed, IntactStudentsRead, ScriptReadsIntactStudents
<1>4. CASE ~splitPdf.headings /\ printed.rows # << >>
  <2>1. printed.lines = << >>
    BY <1>4 DEF OneLayout
  <2>2. DOMAIN printed.lines = {}
    BY <1>2, <2>1
  <2>3. RowsInv /\ PrintedOK
    BY <2>1
  <2>4. /\ \A k \in DOMAIN PageStudents.rows : PageStudents.rows[k].of = {PageStudents.rows[k].student}
        /\ \A n \in 1..Len(printed.rows) :
             (\E k \in DOMAIN PageStudents.rows :
                PageStudents.rows[k].student = n /\ ~PageStudents.rows[k].error) <=> printed.rows[n] = 0
    BY <1>4, <2>1, <2>3, RowsRead
  <2>5. LinesNotMixed
    BY <2>4 DEF LinesNotMixed
  <2>6. IntactStudentsRead
    BY <1>1, <2>2, <2>4 DEF IntactStudentsRead
  <2>7. ScriptReadsIntactStudents
    BY <2>2 DEF ScriptReadsIntactStudents
  <2>8. QED
    BY <2>5, <2>6, <2>7
<1>5. CASE ~splitPdf.headings /\ printed.rows = << >>
  <2>1. PrintedOK /\ LinesInv /\ rowPdf = EachARow(linePdf)
    BY <1>5 DEF StreamInv
  <2>2. DOMAIN printed.rows = {}
    BY <1>2, <1>5
  <2>3. /\ \A k \in DOMAIN PageStudents.rows :
             ~PageStudents.rows[k].error => PageStudents.rows[k].of = {PageStudents.rows[k].student}
        /\ \A n \in 1..Len(printed.lines) : printed.lines[n].intact =>
             ((\E k \in DOMAIN PageStudents.rows :
                 PageStudents.rows[k].student = n /\ ~PageStudents.rows[k].error)
              <=> ~\E i \in DOMAIN linePdf : linePdf[i].kind = "whole")
    BY <1>5, <2>1, StreamRead
  <2>4. LinesNotMixed
    BY <2>3 DEF LinesNotMixed
  <2>5. IntactStudentsRead
    BY <1>1, <2>2, <2>3 DEF IntactStudentsRead
  <2>6. ScriptReadsIntactStudents
    BY <1>5, <2>1, ScriptStreamRead
  <2>7. QED
    BY <2>4, <2>5, <2>6
<1>6. QED
  BY <1>3, <1>4, <1>5

\* What the PDFs and the CSV text are, and what has been meant by them.
RosterReadingInv == CsvInv /\ SplitInv /\ PdfInv

\* The readers of rosters are right about every text that can be written here, whole or
\* damaged, whatever the cells of a CSV file and however many students a roster has:
\* parseCsvRows(), and of PDFs the reader that parseRosterPdf() of the page chooses,
\* parseSplitRosterPages(), parseLegacyRosterPages() or parseLines(), with the check of
\* student numbers behind it, and the script's parseSplitRosterPages() and
\* parseStudentText(), which checks no number.
THEOREM RostersRead == RosterParsingSpec => []RostersReadRightly
<1>1. RosterParsingInit => RosterReadingInv
  BY CsvInitially, SplitInitially, PdfInitially DEF RosterReadingInv
<1>2. RosterReadingInv /\ [RosterParsingNext]_rosterParsingVars => RosterReadingInv'
  <2>1. PdfInv => PrintedOK
    BY DEF PdfInv
  <2>2. QED
    BY <2>1, CsvStep, SplitStep, PrintedStep DEF RosterReadingInv
<1>3. RosterReadingInv => RostersReadRightly
  BY CsvRead, SplitRead, LinesRead, ScriptFilesTaken DEF RosterReadingInv, RostersReadRightly
<1>4. QED
  BY <1>1, <1>2, <1>3, PTL DEF RosterParsingSpec

-----------------------------------------------------------------------------
(* The import of a roster: what its variables are. *)

RecordRow == [student : Students \union {NoStudent}, hasParseError : BOOLEAN]
ToldRow == [student : Students, imported : BOOLEAN]
BatchPhases == {"idle", "sent", "served"}
ScriptPhases == {"start", "read", "adding", "failed", "done"}

TableOK ==
  /\ made \in [Students -> {"none", "page", "script", "other"}]
  /\ records \in Seq(RecordRow) /\ parses \in Seq(Seq(RecordRow))
  /\ step \in 1..3 /\ isImporting \in BOOLEAN /\ importFailed \in BOOLEAN
  /\ toldRows \in Seq(ToldRow)

BatchesOK ==
  batches \in [payload : Seq(Students), start : Nat \ {0}, phase : BatchPhases, answer : Seq(ToldRow)]

ScriptOK ==
  script \in [phase : ScriptPhases, students : Seq(Students), dryRun : BOOLEAN, taken : SUBSET Students,
              planned : Seq(Students), rows : Seq(Students), file : SUBSET Students]

PastOK == importPast \in [lost : SUBSET Students, submitted : Seq(Students)]

\* The rows that have been answered, those of the answer under way with them.
RowsAnswered == toldRows \o batches.answer

\* Rows tell of the first rows submitted.
TellInOrder(rows) ==
  /\ Len(rows) <= Len(importPast.submitted)
  /\ \A i \in 1..Len(rows) : rows[i].student = importPast.submitted[i]

\* Rows call imported what the page has made, once.
TellOnce(rows) ==
  \A i \in 1..Len(rows) : rows[i].imported =>
    /\ made[rows[i].student] = "page"
    /\ \A j \in 1..(i - 1) : rows[j].imported => rows[j].student # rows[i].student

BatchEnd(b) ==
  LET next == b.start + IMPORT_USERS_BATCH_SIZE
  IN IF next - 1 < Len(b.payload) THEN next - 1 ELSE Len(b.payload)

\* The import that goes on: what it sends, and how far it is.
GoesAhead ==
  /\ isImporting <=> batches.phase # "idle"
  /\ batches.phase # "served" => batches.answer = <<>>
  /\ isImporting =>
       /\ step # 3 /\ ~importFailed
       /\ batches.payload = importPast.submitted
       /\ batches.start \in 1..Len(batches.payload) /\ Len(toldRows) = batches.start - 1
  /\ batches.phase = "served" => Len(RowsAnswered) = BatchEnd(batches)

\* Whose credentials are not lost.
PageHas(s) ==
  \/ s \in downloads \union importPast.lost
  \/ isImporting /\ s \in ImportedIn(RowsAnswered)

PageInv ==
  /\ GoesAhead
  /\ TellInOrder(RowsAnswered) /\ TellOnce(RowsAnswered)
  /\ \A s \in Students : made[s] = "page" => PageHas(s)
  /\ step = 3 /\ ~isImporting /\ ~importFailed => Len(toldRows) = Len(importPast.submitted)

ScriptMade == {s \in Students : made[s] = "script"}

ScriptInv ==
  /\ ~script.dryRun => ToSet(script.rows) = ScriptMade
  /\ script.phase = "start" => ~script.dryRun /\ script.rows = <<>>
  /\ script.phase = "done" => script.file = ScriptMade
  /\ script.phase # "done" => script.file = {}
  /\ script.dryRun => ScriptMade = {}

RosterImportInv == TableOK /\ BatchesOK /\ ScriptOK /\ PastOK /\ PageInv /\ ScriptInv

-----------------------------------------------------------------------------
(* Sequences of rows. *)

\* A row of two lists of rows, one after the other, is a row of one of them.
LEMMA RowsOfBoth ==
  ASSUME NEW S, NEW rows \in Seq(S), NEW more \in Seq(S)
  PROVE  /\ rows \o more \in Seq(S) /\ Len(rows \o more) = Len(rows) + Len(more)
         /\ \A i \in 1..Len(rows) : (rows \o more)[i] = rows[i]
         /\ \A i \in (Len(rows) + 1)..(Len(rows) + Len(more)) : (rows \o more)[i] = more[i - Len(rows)]
OBVIOUS

\* A sequence has a first row of each student it has.
LEMMA FirstRow ==
  ASSUME NEW S, NEW rows \in Seq(S), NEW s \in ToSet(rows)
  PROVE  \E i \in 1..Len(rows) : rows[i] = s /\ \A j \in 1..(i - 1) : rows[j] # s
<1> DEFINE has == {i \in Nat : i \in 1..Len(rows) /\ rows[i] = s}
<1>1. \E i \in has : TRUE
  BY DEF ToSet
<1>2. has \subseteq Nat
  OBVIOUS
<1> HIDE DEF has
<1>3. PICK m \in has : \A y \in has : ~(<<y, m>> \in OpToRel(<, Nat))
  BY <1>1, <1>2, NatLessThanWellFounded, WFMin
<1>4. \A y \in has : ~(y < m)
  BY <1>2, <1>3 DEF OpToRel
<1>5. m \in Nat /\ m \in 1..Len(rows) /\ rows[m] = s
  BY DEF has
<1>6. ASSUME NEW j \in 1..(m - 1) PROVE rows[j] # s
  <2>1. Len(rows) \in Nat /\ j \in Nat /\ j < m /\ j \in 1..Len(rows)
    BY <1>5
  <2>2. QED
    BY <1>4, <2>1 DEF has
<1>7. QED
  BY <1>5, <1>6

\* What is imported in two lists of rows, one after the other.
LEMMA ImportedInBoth ==
  ASSUME NEW rows \in Seq(ToldRow), NEW more \in Seq(ToldRow)
  PROVE  ImportedIn(rows \o more) = ImportedIn(rows) \union ImportedIn(more)
<1> DEFINE both == rows \o more
<1>1. /\ both \in Seq(ToldRow) /\ Len(both) = Len(rows) + Len(more)
      /\ \A i \in 1..Len(rows) : both[i] = rows[i]
      /\ \A i \in (Len(rows) + 1)..(Len(rows) + Len(more)) : both[i] = more[i - Len(rows)]
  BY RowsOfBoth
<1>2. Len(rows) \in Nat /\ Len(more) \in Nat
  OBVIOUS
<1>3. DOMAIN rows = 1..Len(rows) /\ DOMAIN more = 1..Len(more) /\ DOMAIN both = 1..Len(both)
  BY <1>1
<1> HIDE DEF both
<1>4. ASSUME NEW s \in ImportedIn(both) PROVE s \in ImportedIn(rows) \union ImportedIn(more)
  <2>1. PICK i \in 1..Len(both) : both[i].imported /\ both[i].student = s
    BY <1>3, <1>4 DEF ImportedIn
  <2>2. CASE i <= Len(rows)
    BY <1>1, <1>2, <1>3, <2>1, <2>2 DEF ImportedIn
  <2>3. CASE i > Len(rows)
    <3>1. i \in (Len(rows) + 1)..(Len(rows) + Len(more)) /\ i - Len(rows) \in 1..Len(more)
      BY <1>1, <1>2, <2>3
    <3>2. QED
      BY <1>1, <1>3, <2>1, <3>1 DEF ImportedIn
  <2>4. QED
    BY <1>2, <2>2, <2>3
<1>5. ASSUME NEW s \in ImportedIn(rows) PROVE s \in ImportedIn(both)
  <2>1. PICK i \in 1..Len(rows) : rows[i].imported /\ rows[i].student = s
    BY <1>3, <1>5 DEF ImportedIn
  <2>2. i \in 1..Len(both) /\ both[i] = rows[i]
    BY <1>1, <1>2
  <2>3. QED
    BY <1>3, <2>1, <2>2 DEF ImportedIn
<1>6. ASSUME NEW s \in ImportedIn(more) PROVE s \in ImportedIn(both)
  <2>1. PICK i \in 1..Len(more) : more[i].imported /\ more[i].student = s
    BY <1>3, <1>6 DEF ImportedIn
  <2> DEFINE n == i + Len(rows)
  <2>2. n \in (Len(rows) + 1)..(Len(rows) + Len(more)) /\ n - Len(rows) = i /\ n \in DOMAIN both
    BY <1>1, <1>2, <1>3
  <2> HIDE DEF n
  <2>3. both[n] = more[i]
    BY <1>1, <2>2
  <2>4. QED
    BY <2>1, <2>2, <2>3 DEF ImportedIn
<1>7. ImportedIn(both) = ImportedIn(rows) \union ImportedIn(more)
  <2> HIDE DEF ImportedIn
  <2>1. QED
    BY <1>4, <1>5, <1>6
<1>8. QED
  BY <1>7 DEF both

-----------------------------------------------------------------------------
(* What the steps of an import keep. *)

LEMMA RowsAnsweredOK ==
  ASSUME TableOK, BatchesOK
  PROVE  /\ RowsAnswered \in Seq(ToldRow) /\ Len(RowsAnswered) = Len(toldRows) + Len(batches.answer)
         /\ Len(toldRows) \in Nat /\ Len(batches.answer) \in Nat
         /\ \A i \in 1..Len(toldRows) : RowsAnswered[i] = toldRows[i]
         /\ batches.answer = <<>> => RowsAnswered = toldRows
<1>1. toldRows \in Seq(ToldRow) /\ batches.answer \in Seq(ToldRow)
  BY DEF TableOK, BatchesOK
<1>2. batches.answer = <<>> => RowsAnswered = toldRows
  BY <1>1 DEF RowsAnswered
<1> DEFINE more == batches.answer
<1>3. more \in Seq(ToldRow)
  BY <1>1
<1> HIDE DEF more
<1>4. /\ toldRows \o more \in Seq(ToldRow) /\ Len(toldRows \o more) = Len(toldRows) + Len(more)
      /\ \A i \in 1..Len(toldRows) : (toldRows \o more)[i] = toldRows[i]
  BY <1>1, <1>3, RowsOfBoth
<1>5. Len(toldRows) \in Nat /\ Len(more) \in Nat
  BY <1>1, <1>3
<1>6. QED
  BY <1>2, <1>4, <1>5 DEF RowsAnswered, more

\* Accounts are made, but not by the page; the import stands still.
LEMMA PageKept ==
  ASSUME TableOK, BatchesOK, PageInv,
         UNCHANGED <<step, isImporting, importFailed, batches, toldRows, downloads, importPast>>,
         \A s \in Students : made'[s] = "page" <=> made[s] = "page"
  PROVE  PageInv'
<1>1. RowsAnswered' = RowsAnswered /\ RowsAnswered \in Seq(ToldRow)
  BY RowsAnsweredOK DEF RowsAnswered
<1>2. GoesAhead' /\ TellInOrder(RowsAnswered)'
  BY <1>1 DEF PageInv, GoesAhead, TellInOrder, BatchEnd
<1>3. TellOnce(RowsAnswered)'
  <2> DEFINE rows == RowsAnswered
  <2>1. TellOnce(rows) /\ rows \in Seq(ToldRow)
    BY <1>1 DEF PageInv
  <2> HIDE DEF rows
  <2>2. \A i \in 1..Len(rows) : rows[i].student \in Students
    <3>1. \A i \in 1..Len(rows) : rows[i] \in ToldRow
      BY <2>1
    <3>2. \A row \in ToldRow : row.student \in Students
      BY DEF ToldRow
    <3>3. QED
      BY <3>1, <3>2
  <2>3. \A i \in 1..Len(rows) : rows[i].imported =>
          /\ made'[rows[i].student] = "page"
          /\ \A j \in 1..(i - 1) : rows[j].imported => rows[j].student # rows[i].student
    BY <2>1, <2>2 DEF TellOnce
  <2>4. QED
    BY <1>1, <2>3 DEF TellOnce, rows
<1>4. \A s \in Students : PageHas(s)' <=> PageHas(s)
  BY <1>1 DEF PageHas
<1>5. \A s \in Students : made'[s] = "page" => PageHas(s)'
  BY <1>4 DEF PageInv
<1>6. (step = 3 /\ ~isImporting /\ ~importFailed => Len(toldRows) = Len(importPast.submitted))'
  BY DEF PageInv
<1>7. QED
  BY <1>2, <1>3, <1>5, <1>6 DEF PageInv

\* The rows of the table are changed, or the page turns to the table or to the upload.
LEMMA PreviewKeeps ==
  ASSUME RosterImportInv, UNCHANGED <<made, isImporting, batches, resultVars, script, importPast>>,
         records' \in Seq(RecordRow), parses' \in Seq(Seq(RecordRow)),
         step' \in 1..3, step' = 3 => step = 3
  PROVE  RosterImportInv'
<1>1. TableOK' /\ BatchesOK' /\ ScriptOK' /\ PastOK'
  BY DEF RosterImportInv, TableOK, BatchesOK, ScriptOK, PastOK, resultVars
<1>2. ScriptInv'
  BY DEF RosterImportInv, ScriptInv, ScriptMade
<1>3. RowsAnswered' = RowsAnswered
  BY DEF RowsAnswered, resultVars
<1>4. GoesAhead' /\ TellInOrder(RowsAnswered)' /\ TellOnce(RowsAnswered)'
  BY <1>3 DEF RosterImportInv, PageInv, GoesAhead, TellInOrder, TellOnce, BatchEnd, resultVars
<1>5. \A s \in Students : made'[s] = "page" => PageHas(s)'
  BY <1>3 DEF RosterImportInv, PageInv, PageHas, resultVars
<1>6. (step = 3 /\ ~isImporting /\ ~importFailed => Len(toldRows) = Len(importPast.submitted))'
  BY DEF RosterImportInv, PageInv, resultVars
<1>7. QED
  BY <1>1, <1>2, <1>4, <1>5, <1>6 DEF RosterImportInv, PageInv

LEMMA ParseKeeps ==
  ASSUME RosterImportInv, NEW roster \in Rosters, ParseFile(roster)
  PROVE  RosterImportInv'
<1>1. roster \in Seq(RecordRow)
  BY RosterImportAssumption DEF RecordRow
<1>2. parses' \in Seq(Seq(RecordRow)) /\ records' \in Seq(RecordRow) /\ step' = step /\ step \in 1..3
  BY <1>1 DEF ParseFile, RosterImportInv, TableOK
<1>3. UNCHANGED <<made, isImporting, batches, resultVars, script, importPast>>
  BY DEF ParseFile
<1>4. QED
  BY <1>2, <1>3, PreviewKeeps

LEMMA ParseEndsKeeps ==
  ASSUME RosterImportInv, NEW i \in DOMAIN parses, NEW fails \in BOOLEAN, ParseEnds(i, fails)
  PROVE  RosterImportInv'
<1>1. parses \in Seq(Seq(RecordRow)) /\ records \in Seq(RecordRow) /\ step \in 1..3
  BY DEF RosterImportInv, TableOK
<1>2. parses' \in Seq(Seq(RecordRow))
  BY <1>1 DEF ParseEnds, RemoveAt
<1>3. parses[i] \in Seq(RecordRow)
  BY <1>1
<1>4. records' \in Seq(RecordRow) /\ step' \in 1..3 /\ (step' = 3 => step = 3)
  BY <1>1, <1>3 DEF ParseEnds
<1>5. UNCHANGED <<made, isImporting, batches, resultVars, script, importPast>>
  BY DEF ParseEnds
<1>6. QED
  BY <1>2, <1>4, <1>5, PreviewKeeps

LEMMA TableKeeps ==
  ASSUME RosterImportInv, NEW recs, recs \in Seq(RecordRow), ChangeRecords(recs)
  PROVE  RosterImportInv'
<1>1. records' \in Seq(RecordRow) /\ parses' \in Seq(Seq(RecordRow)) /\ step' \in 1..3 /\ (step' = 3 => step = 3)
  BY DEF ChangeRecords, RosterImportInv, TableOK
<1>2. UNCHANGED <<made, isImporting, batches, resultVars, script, importPast>>
  BY DEF ChangeRecords
<1>3. QED
  BY <1>1, <1>2, PreviewKeeps

LEMMA EditsKeep ==
  ASSUME RosterImportInv,
         \/ \E i \in DOMAIN records, s \in Students \union {NoStudent} : EditRecord(i, s)
         \/ AddStudent
         \/ \E i \in DOMAIN records : DeleteRecord(i)
  PROVE  RosterImportInv'
<1>1. records \in Seq(RecordRow)
  BY DEF RosterImportInv, TableOK
<1>2. ASSUME NEW i \in DOMAIN records, NEW s \in Students \union {NoStudent}, EditRecord(i, s)
      PROVE  RosterImportInv'
  <2> DEFINE row == [student |-> s, hasParseError |-> FALSE]
             recs == [records EXCEPT ![i] = row]
  <2>1. row \in RecordRow
    BY DEF RecordRow
  <2> HIDE DEF row
  <2>2. recs \in Seq(RecordRow)
    BY <1>1, <2>1
  <2>3. ChangeRecords(recs)
    BY <1>2 DEF EditRecord, row
  <2> HIDE DEF recs
  <2>4. QED
    BY <2>2, <2>3, TableKeeps
<1>3. ASSUME AddStudent PROVE RosterImportInv'
  <2> DEFINE recs == Append(records, BlankRecord)
  <2>1. recs \in Seq(RecordRow) /\ ChangeRecords(recs)
    BY <1>1, <1>3 DEF AddStudent, BlankRecord, RecordRow
  <2> HIDE DEF recs
  <2>2. QED
    BY <2>1, TableKeeps
<1>4. ASSUME NEW i \in DOMAIN records, DeleteRecord(i) PROVE RosterImportInv'
  <2> DEFINE recs == RemoveAt(records, i)
  <2>1. recs \in Seq(RecordRow) /\ ChangeRecords(recs)
    BY <1>1, <1>4 DEF DeleteRecord, RemoveAt
  <2> HIDE DEF recs
  <2>2. QED
    BY <2>1, TableKeeps
<1>5. QED
  BY <1>2, <1>3, <1>4

LEMMA PageTurnsKeep ==
  ASSUME RosterImportInv, (\E n \in 1..2 : GoToStep(n)) \/ ResetPreview
  PROVE  RosterImportInv'
<1>1. records \in Seq(RecordRow) /\ parses \in Seq(Seq(RecordRow))
  BY DEF RosterImportInv, TableOK
<1>2. ASSUME NEW n \in 1..2, GoToStep(n) PROVE RosterImportInv'
  <2>1. records' = records /\ parses' = parses /\ step' \in 1..3 /\ step' # 3
    BY <1>2 DEF GoToStep
  <2>2. UNCHANGED <<made, isImporting, batches, resultVars, script, importPast>>
    BY <1>2 DEF GoToStep
  <2>3. QED
    BY <1>1, <2>1, <2>2, PreviewKeeps
<1>3. ASSUME ResetPreview PROVE RosterImportInv'
  <2>1. records' \in Seq(RecordRow) /\ parses' = parses /\ step' \in 1..3 /\ step' # 3
    BY <1>3 DEF ResetPreview
  <2>2. UNCHANGED <<made, isImporting, batches, resultVars, script, importPast>>
    BY <1>3 DEF ResetPreview
  <2>3. QED
    BY <1>1, <2>1, <2>2, PreviewKeeps
<1>4. QED
  BY <1>2, <1>3

\* The table without errors is the list of its students, which is submitted.
LEMMA SubmitKeeps ==
  ASSUME RosterImportInv, SubmitImport
  PROVE  RosterImportInv'
<1> DEFINE all == StudentsOf(records)
<1>1. TableOK /\ BatchesOK /\ ScriptOK /\ PastOK /\ PageInv /\ ScriptInv
  BY DEF RosterImportInv
<1>2. all \in Seq(Students) /\ Len(all) \in Nat \ {0}
  <2>1. records \in Seq(RecordRow) /\ records # <<>>
    BY <1>1 DEF TableOK, SubmitImport
  <2>2. \A i \in DOMAIN records : ~HasRecordError(records[i])
    <3> DEFINE bad == {i \in DOMAIN records : HasRecordError(records[i])}
    <3>1. IsFiniteSet(DOMAIN records)
      BY <2>1, FS_Interval
    <3>2. IsFiniteSet(bad)
      BY <3>1, FS_Subset
    <3>3. Cardinality(bad) = 0
      BY DEF SubmitImport, InvalidCount
    <3> HIDE DEF bad
    <3>4. bad = {}
      BY <3>2, <3>3, FS_EmptySet
    <3>5. QED
      BY <3>4 DEF bad
  <2>3. DOMAIN records = 1..Len(records) /\ Len(records) \in Nat \ {0}
    BY <2>1
  <2>4. \A i \in 1..Len(records) : records[i].student \in Students
    <3>1. \A i \in 1..Len(records) : records[i] \in RecordRow
      BY <2>1
    <3>2. QED
      BY <2>2, <2>3, <3>1 DEF HasRecordError, RecordRow
  <2>5. QED
    BY <2>3, <2>4 DEF StudentsOf
<1> HIDE DEF all
<1>3. /\ step = 2 /\ isImporting' /\ ~importFailed' /\ toldRows' = <<>>
      /\ batches' = [payload |-> all, start |-> 1, phase |-> "sent", answer |-> <<>>]
      /\ importPast' = [importPast EXCEPT !.submitted = all]
      /\ UNCHANGED <<made, step, records, parses, downloads, script>>
      /\ ~isImporting /\ importFailed' \in BOOLEAN /\ isImporting' \in BOOLEAN
  BY DEF SubmitImport, all, previewVars
<1>4. TableOK'
  BY <1>1, <1>3 DEF TableOK
<1>5. BatchesOK'
  BY <1>2, <1>3 DEF BatchesOK, BatchPhases
<1>6. PastOK' /\ importPast'.submitted = all /\ importPast'.lost = importPast.lost
  BY <1>1, <1>2, <1>3 DEF PastOK
<1>7. ScriptOK' /\ ScriptInv'
  BY <1>1, <1>3 DEF ScriptOK, ScriptInv, ScriptMade
<1>8. toldRows' = <<>> /\ RowsAnswered' = <<>>
  BY <1>3 DEF RowsAnswered
<1>9. GoesAhead'
  BY <1>2, <1>3, <1>6 DEF GoesAhead
<1>10. TellInOrder(RowsAnswered)' /\ TellOnce(RowsAnswered)'
  BY <1>2, <1>6, <1>8 DEF TellInOrder, TellOnce
<1>11. \A s \in Students : made'[s] = "page" => PageHas(s)'
  BY <1>1, <1>3, <1>6 DEF PageInv, PageHas
<1>12. PageInv'
  BY <1>3, <1>9, <1>10, <1>11 DEF PageInv
<1>13. QED
  BY <1>4, <1>5, <1>6, <1>7, <1>12 DEF RosterImportInv

\* The batch under way is the submitted rows from its start to its end.
LEMMA BatchIsPart ==
  ASSUME RosterImportInv, batches.phase # "idle"
  PROVE  /\ isImporting /\ batches.payload = importPast.submitted
         /\ batches.start \in Nat \ {0} /\ Len(toldRows) = batches.start - 1
         /\ BatchEnd(batches) \in batches.start..Len(batches.payload)
         /\ Batch \in Seq(Students) /\ Len(Batch) = BatchEnd(batches) - batches.start + 1
         /\ \A i \in 1..Len(Batch) : Batch[i] = batches.payload[batches.start - 1 + i]
<1> DEFINE rows == batches.payload
           start == batches.start
           end == BatchEnd(batches)
<1>1. rows \in Seq(Students) /\ start \in Nat \ {0}
  BY DEF RosterImportInv, BatchesOK
<1>2. isImporting /\ rows = importPast.submitted /\ start \in 1..Len(rows) /\ Len(toldRows) = start - 1
  BY DEF RosterImportInv, PageInv, GoesAhead
<1>3. IMPORT_USERS_BATCH_SIZE \in Nat \ {0} /\ Len(rows) \in Nat
  BY <1>1, RosterImportAssumption
<1>4. Batch = SubSeq(rows, start, end)
  BY DEF Batch, BatchOf, NextStart, BatchEnd
<1>5. end = IF start + IMPORT_USERS_BATCH_SIZE - 1 < Len(rows)
            THEN start + IMPORT_USERS_BATCH_SIZE - 1 ELSE Len(rows)
  BY <1>1, <1>3 DEF BatchEnd
<1> HIDE DEF rows, start, end
<1>6. end \in start..Len(rows)
  BY <1>1, <1>2, <1>3, <1>5
<1>7. /\ SubSeq(rows, start, end) \in Seq(Students) /\ Len(SubSeq(rows, start, end)) = end - start + 1
      /\ \A i \in 1..(end - start + 1) : SubSeq(rows, start, end)[i] = rows[start - 1 + i]
  BY <1>1, <1>2, <1>5, <1>6
<1>8. QED
  BY <1>1, <1>2, <1>4, <1>6, <1>7 DEF rows, start, end

\* The server's answer goes on where the rows answered so far end, and calls imported what
\* it made then.
LEMMA ServeKeeps ==
  ASSUME RosterImportInv, ServeBatch
  PROVE  RosterImportInv'
<1> DEFINE rows == toldRows
           batch == Batch
           more == [i \in DOMAIN batch |-> [student |-> batch[i], imported |-> Takes(batch, i)]]
           all == rows \o more
           past == importPast.submitted
<1>1. TableOK /\ BatchesOK /\ ScriptOK /\ PastOK /\ PageInv /\ ScriptInv
  BY DEF RosterImportInv
<1>2. /\ batches.phase = "sent" /\ batches.answer = <<>>
      /\ batches' = [batches EXCEPT !.phase = "served", !.answer = more]
      /\ made' = [s \in Students |-> IF made[s] = "none" /\ s \in ToSet(batch) THEN "page" ELSE made[s]]
      /\ UNCHANGED <<step, records, parses, isImporting, toldRows, importFailed, downloads, script, importPast>>
  BY <1>1 DEF ServeBatch, previewVars, resultVars, PageInv, GoesAhead
<1>3. /\ isImporting /\ batches.payload = past
      /\ batches.start \in Nat \ {0} /\ Len(rows) = batches.start - 1
      /\ BatchEnd(batches) \in batches.start..Len(past)
      /\ batch \in Seq(Students) /\ Len(batch) = BatchEnd(batches) - batches.start + 1
      /\ \A i \in 1..Len(batch) : batch[i] = past[batches.start - 1 + i]
  BY <1>2, BatchIsPart
<1>4. rows \in Seq(ToldRow) /\ made \in [Students -> {"none", "page", "script", "other"}] /\ past \in Seq(Students)
  BY <1>1 DEF TableOK, PastOK
<1> HIDE DEF batch
<1>5. DOMAIN batch = 1..Len(batch) /\ Len(batch) \in Nat /\ \A i \in 1..Len(batch) : batch[i] \in Students
  BY <1>3
<1>6. /\ more \in Seq(ToldRow) /\ Len(more) = Len(batch)
      /\ \A i \in 1..Len(batch) : more[i].student = batch[i] /\ (more[i].imported <=> Takes(batch, i))
  <2>1. \A i \in 1..Len(batch) : Takes(batch, i) \in BOOLEAN
    BY DEF Takes
  <2>2. \A i \in 1..Len(batch) : [student |-> batch[i], imported |-> Takes(batch, i)] \in ToldRow
    BY <1>5, <2>1 DEF ToldRow
  <2>3. QED
    BY <1>5, <2>2
<1> HIDE DEF more
<1>7. /\ all \in Seq(ToldRow) /\ Len(all) = Len(rows) + Len(batch)
      /\ \A i \in 1..Len(rows) : all[i] = rows[i]
      /\ \A i \in (Len(rows) + 1)..(Len(rows) + Len(batch)) : all[i] = more[i - Len(rows)]
  <2>1. /\ rows \o more \in Seq(ToldRow) /\ Len(rows \o more) = Len(rows) + Len(more)
        /\ \A i \in 1..Len(rows) : (rows \o more)[i] = rows[i]
        /\ \A i \in (Len(rows) + 1)..(Len(rows) + Len(more)) : (rows \o more)[i] = more[i - Len(rows)]
    <3>1. rows \in Seq(ToldRow) /\ more \in Seq(ToldRow)
      BY <1>4, <1>6
    <3> HIDE DEF rows
    <3>2. QED
      BY <3>1, RowsOfBoth
  <2>2. Len(more) = Len(batch)
    BY <1>6
  <2>3. QED
    BY <2>1, <2>2
<1>8. Len(rows) \in Nat /\ Len(past) \in Nat
  BY <1>4
<1> HIDE DEF all
<1>9. /\ RowsAnswered = rows /\ ImportedIn(all) = ImportedIn(rows) \union ImportedIn(more)
      /\ RowsAnswered' = all
  <2>1. ImportedIn(rows \o more) = ImportedIn(rows) \union ImportedIn(more)
    BY <1>4, <1>6, ImportedInBoth
  <2>2. batches'.answer = more
    BY <1>1, <1>2 DEF BatchesOK
  <2>3. QED
    BY <1>1, <1>2, <2>1, <2>2, RowsAnsweredOK DEF RowsAnswered, all
<1>10. TellInOrder(rows) /\ TellOnce(rows)
  BY <1>1, <1>9 DEF PageInv
<1>11. \A i \in 1..Len(rows) : rows[i].student \in Students /\ made[rows[i].student] \in {"none", "page", "script", "other"}
  <2>1. \A i \in 1..Len(rows) : rows[i] \in ToldRow
    BY <1>4
  <2>2. QED
    BY <1>4, <2>1 DEF ToldRow
<1>12. \A s \in Students : /\ made[s] # "none" => made'[s] = made[s]
                           /\ made[s] = "none" /\ s \in ToSet(batch) => made'[s] = "page"
                           /\ made'[s] = made[s] \/ (made[s] = "none" /\ s \in ToSet(batch))
  BY <1>2
<1>13. TableOK'
  <2>1. made' \in [Students -> {"none", "page", "script", "other"}]
    BY <1>2, <1>4
  <2>2. QED
    BY <1>1, <1>2, <2>1 DEF TableOK
<1>14. BatchesOK'
  BY <1>1, <1>2, <1>6 DEF BatchesOK, BatchPhases
<1>15. ScriptOK' /\ PastOK'
  BY <1>1, <1>2 DEF ScriptOK, PastOK
<1>16. ScriptInv'
  <2>1. ScriptMade' = ScriptMade
    BY <1>2, <1>4 DEF ScriptMade
  <2>2. QED
    BY <1>1, <1>2, <2>1 DEF ScriptInv
<1>17. GoesAhead'
  <2>1. batches'.phase = "served" /\ batches'.payload = batches.payload /\ batches'.start = batches.start
    BY <1>1, <1>2 DEF BatchesOK
  <2>2. BatchEnd(batches)' = BatchEnd(batches)
    BY <2>1 DEF BatchEnd
  <2>3. Len(RowsAnswered)' = BatchEnd(batches)
    BY <1>3, <1>5, <1>7, <1>8, <1>9
  <2>4. isImporting' /\ step' # 3 /\ ~importFailed'
    BY <1>1, <1>2, <1>3 DEF PageInv, GoesAhead
  <2>5. /\ batches'.payload = importPast'.submitted /\ batches'.start \in 1..Len(batches'.payload)
        /\ Len(toldRows') = batches'.start - 1
    BY <1>1, <1>2, <1>3, <2>1 DEF PageInv, GoesAhead
  <2>6. QED
    BY <2>1, <2>2, <2>3, <2>4, <2>5 DEF GoesAhead
<1>18. ASSUME NEW i \in (Len(rows) + 1)..Len(all)
       PROVE  /\ i - Len(rows) \in 1..Len(batch) /\ all[i] = more[i - Len(rows)]
              /\ all[i].student = batch[i - Len(rows)] /\ all[i].student = past[i]
              /\ all[i].imported <=> Takes(batch, i - Len(rows))
  <2> DEFINE k == i - Len(rows)
  <2>1. k \in 1..Len(batch) /\ i = Len(rows) + k /\ batches.start - 1 + k = i
    <3>1. Len(rows) \in Nat /\ Len(batch) \in Nat /\ i \in (Len(rows) + 1)..(Len(rows) + Len(batch))
      BY <1>5, <1>7, <1>8
    <3>2. k \in 1..Len(batch) /\ i = Len(rows) + k
      BY <3>1
    <3>3. batches.start - 1 = Len(rows)
      BY <1>3
    <3>4. QED
      BY <3>2, <3>3
  <2>2. all[i] = more[k]
    <3>1. i \in (Len(rows) + 1)..(Len(rows) + Len(batch))
      BY <1>7
    <3>2. QED
      BY <1>7, <3>1
  <2> HIDE DEF k
  <2>3. more[k].student = batch[k] /\ (more[k].imported <=> Takes(batch, k)) /\ batch[k] = past[i]
    BY <1>3, <1>6, <2>1
  <2>4. QED
    BY <2>1, <2>2, <2>3 DEF k
<1>19. TellInOrder(RowsAnswered)'
  <2>1. Len(all) <= Len(past)
    BY <1>3, <1>5, <1>7, <1>8
  <2>2. \A i \in 1..Len(all) : all[i].student = past[i]
    BY <1>7, <1>8, <1>10, <1>18 DEF TellInOrder
  <2>3. QED
    BY <1>2, <1>9, <2>1, <2>2 DEF TellInOrder
<1>20. TellOnce(RowsAnswered)'
  <2> SUFFICES ASSUME NEW i \in 1..Len(all), all[i].imported
               PROVE  /\ made'[all[i].student] = "page"
                      /\ \A j \in 1..(i - 1) : all[j].imported => all[j].student # all[i].student
    BY <1>9 DEF TellOnce
  <2>1. CASE i \in 1..Len(rows)
    <3>1. all[i] = rows[i] /\ \A j \in 1..(i - 1) : all[j] = rows[j]
      BY <1>7, <1>8, <2>1
    <3>2. QED
      BY <1>10, <1>11, <1>12, <2>1, <3>1 DEF TellOnce
  <2>2. CASE i \notin 1..Len(rows)
    <3> DEFINE k == i - Len(rows)
    <3>1. i \in (Len(rows) + 1)..Len(all)
      BY <1>5, <1>7, <1>8, <2>2
    <3>2. k \in 1..Len(batch) /\ all[i].student = batch[k] /\ Takes(batch, k) /\ k \in Nat
      BY <1>5, <1>18, <3>1
    <3>3. batch[k] \in Students /\ batch[k] \in ToSet(batch)
      BY <1>5, <3>2 DEF ToSet
    <3>4. made[batch[k]] = "none" /\ \A j \in 1..(k - 1) : batch[j] # batch[k]
      BY <3>2 DEF Takes
    <3>5. made'[batch[k]] = "page"
      BY <1>12, <3>3, <3>4
    <3>6. ASSUME NEW j \in 1..(i - 1), all[j].imported PROVE all[j].student # batch[k]
      <4>1. CASE j \in 1..Len(rows)
        BY <1>7, <1>10, <3>4, <3>6, <4>1 DEF TellOnce
      <4>2. CASE j \notin 1..Len(rows)
        <5>1. j \in (Len(rows) + 1)..Len(all) /\ j - Len(rows) \in 1..(k - 1)
          BY <1>5, <1>7, <1>8, <3>1, <4>2
        <5>2. all[j].student = batch[j - Len(rows)]
          BY <1>18, <5>1
        <5>3. QED
          BY <3>4, <5>1, <5>2
      <4>3. QED
        BY <4>1, <4>2
    <3> HIDE DEF k
    <3>7. QED
      BY <3>2, <3>5, <3>6
  <2>3. QED
    BY <2>1, <2>2
<1>21. ASSUME NEW s \in Students, made'[s] = "page" PROVE PageHas(s)'
  <2>1. CASE made[s] = "page"
    <3>1. PageHas(s)
      BY <1>1, <2>1 DEF PageInv
    <3>2. QED
      BY <1>2, <1>9, <3>1 DEF PageHas
  <2>2. CASE made[s] # "page"
    <3>1. made[s] = "none" /\ s \in ToSet(batch)
      BY <1>12, <1>21, <2>2
    <3>2. PICK i \in 1..Len(batch) : batch[i] = s /\ \A j \in 1..(i - 1) : batch[j] # s
      BY <1>3, <3>1, FirstRow
    <3>3. Takes(batch, i)
      BY <3>1, <3>2 DEF Takes
    <3>4. i \in DOMAIN more /\ more[i].imported /\ more[i].student = s
      BY <1>6, <3>2, <3>3
    <3>5. s \in ImportedIn(more)
      BY <3>4 DEF ImportedIn
    <3>6. QED
      BY <1>2, <1>3, <1>9, <3>5 DEF PageHas
  <2>3. QED
    BY <2>1, <2>2
<1>22. PageInv'
  BY <1>2, <1>3, <1>17, <1>19, <1>20, <1>21 DEF PageInv
<1>23. QED
  BY <1>13, <1>14, <1>15, <1>16, <1>22 DEF RosterImportInv

\* The import's batch moves on.
LEMMA BatchMoves ==
  ASSUME BatchesOK, NEW phase \in BatchPhases, NEW answer \in Seq(ToldRow), NEW start \in Nat \ {0},
         \/ batches' = [batches EXCEPT !.start = start, !.phase = phase, !.answer = answer]
         \/ start = batches.start /\ batches' = [batches EXCEPT !.phase = phase, !.answer = answer]
  PROVE  /\ BatchesOK' /\ batches'.start = start /\ batches'.phase = phase /\ batches'.answer = answer
         /\ batches'.payload = batches.payload
BY DEF BatchesOK

LEMMA NoAnswerYet == <<>> \in Seq(ToldRow)
OBVIOUS

LEMMA BatchEnds ==
  ASSUME BatchesOK, batches' = [batches EXCEPT !.phase = "idle", !.answer = <<>>]
  PROVE  BatchesOK' /\ batches'.phase = "idle" /\ batches'.answer = <<>>
<1> DEFINE none == <<>>
           start == batches.start
<1>1. none \in Seq(ToldRow) /\ "idle" \in BatchPhases /\ start \in Nat \ {0}
  BY NoAnswerYet DEF BatchPhases, BatchesOK
<1>2. start = batches.start /\ batches' = [batches EXCEPT !.phase = "idle", !.answer = none]
  OBVIOUS
<1> HIDE DEF none, start
<1>3. BatchesOK' /\ batches'.phase = "idle" /\ batches'.answer = none
  BY <1>1, <1>2, BatchMoves
<1>4. QED
  BY <1>3 DEF none

\* The page takes the rows of the answer; it sends the next batch, or shows and downloads.
LEMMA AnsweredKeeps ==
  ASSUME RosterImportInv, BatchAnswered
  PROVE  RosterImportInv'
<1> DEFINE rows == RowsAnswered
           past == importPast.submitted
<1>1. TableOK /\ BatchesOK /\ ScriptOK /\ PastOK /\ PageInv /\ ScriptInv
  BY DEF RosterImportInv
<1>2. /\ batches.phase = "served" /\ toldRows' = rows /\ batches'.answer = <<>>
      /\ UNCHANGED <<made, records, parses, script, importPast>>
  BY <1>1 DEF BatchAnswered, EndImport, RowsAnswered, BatchesOK
<1>3. rows \in Seq(ToldRow) /\ rows \o <<>> = rows /\ RowsAnswered' = rows
  BY <1>1, <1>2, RowsAnsweredOK DEF RowsAnswered
<1>4. /\ isImporting /\ batches.payload = past /\ step # 3 /\ ~importFailed
      /\ Len(rows) = BatchEnd(batches) /\ batches.start \in Nat \ {0}
      /\ BatchEnd(batches) \in batches.start..Len(past)
  BY <1>1, <1>2, BatchIsPart DEF PageInv, GoesAhead
<1>5. Len(past) \in Nat /\ IMPORT_USERS_BATCH_SIZE \in Nat \ {0}
  BY <1>1, RosterImportAssumption DEF PastOK
<1>6. TellInOrder(rows) /\ TellOnce(rows)
  BY <1>1 DEF PageInv
<1>7. TellInOrder(RowsAnswered)' /\ TellOnce(RowsAnswered)'
  BY <1>2, <1>3, <1>6 DEF TellInOrder, TellOnce
<1>8. ImportedIn(rows) \subseteq Students
  <2>1. \A j \in DOMAIN rows : rows[j] \in ToldRow
    BY <1>3
  <2>2. QED
    BY <2>1 DEF ImportedIn, ToldRow
<1>9. ScriptOK' /\ ScriptInv' /\ PastOK'
  BY <1>1, <1>2 DEF ScriptOK, ScriptInv, ScriptMade, PastOK
<1> HIDE DEF rows
<1>13. /\ NextStart \in Nat \ {0} /\ NextStart > batches.start
       /\ BatchEnd(batches) = IF NextStart - 1 < Len(past) THEN NextStart - 1 ELSE Len(past)
  <2>1. NextStart \in Nat \ {0} /\ NextStart > batches.start
    BY <1>4, <1>5 DEF NextStart
  <2>2. QED
    BY <1>4, <1>5, <2>1 DEF NextStart, BatchEnd
<1>10. CASE NextStart <= Len(batches.payload)
  <2>1. /\ batches' = [batches EXCEPT !.start = NextStart, !.phase = "sent", !.answer = <<>>]
        /\ UNCHANGED <<isImporting, importFailed, step, downloads>>
    BY <1>10 DEF BatchAnswered
  <2>2. NextStart \in Nat \ {0} /\ NextStart - 1 = BatchEnd(batches) /\ NextStart \in 1..Len(past)
    BY <1>4, <1>5, <1>10, <1>13
  <2>3. BatchesOK' /\ batches'.start = NextStart /\ batches'.phase = "sent" /\ batches'.payload = batches.payload
    <3> DEFINE none == <<>>
    <3>1. none \in Seq(ToldRow) /\ "sent" \in BatchPhases
      BY NoAnswerYet DEF BatchPhases
    <3>2. batches' = [batches EXCEPT !.start = NextStart, !.phase = "sent", !.answer = none]
      BY <2>1
    <3> HIDE DEF none
    <3>3. QED
      BY <1>1, <2>2, <3>1, <3>2, BatchMoves
  <2>4. TableOK'
    BY <1>1, <1>2, <1>3, <2>1 DEF TableOK
  <2>5. GoesAhead'
    BY <1>2, <1>4, <2>1, <2>2, <2>3 DEF GoesAhead
  <2>6. \A s \in Students : made'[s] = "page" => PageHas(s)'
    BY <1>1, <1>2, <1>3, <1>4, <2>1 DEF PageInv, PageHas, rows
  <2>7. PageInv'
    BY <1>4, <1>7, <2>1, <2>5, <2>6 DEF PageInv
  <2>8. QED
    BY <1>9, <2>3, <2>4, <2>7 DEF RosterImportInv
<1>11. CASE ~(NextStart <= Len(batches.payload))
  <2>1. /\ ~isImporting' /\ ~importFailed' /\ isImporting' \in BOOLEAN /\ importFailed' \in BOOLEAN /\ step' = 3
        /\ batches' = [batches EXCEPT !.phase = "idle", !.answer = <<>>]
        /\ downloads' = downloads \union ImportedIn(rows)
    BY <1>2, <1>11 DEF BatchAnswered, EndImport
  <2>2. Len(rows) = Len(past)
    BY <1>4, <1>5, <1>11, <1>13
  <2>3. BatchesOK' /\ batches'.phase = "idle"
    BY <1>1, <2>1, BatchEnds
  <2>4. TableOK'
    BY <1>1, <1>2, <1>3, <2>1 DEF TableOK
  <2>5. GoesAhead'
    BY <1>2, <2>1, <2>3 DEF GoesAhead
  <2>6. \A s \in Students : made'[s] = "page" => PageHas(s)'
    BY <1>1, <1>2, <2>1 DEF PageInv, PageHas, rows
  <2>7. PageInv'
    BY <1>2, <1>7, <2>1, <2>2, <2>5, <2>6 DEF PageInv
  <2>8. QED
    BY <1>9, <2>3, <2>4, <2>7 DEF RosterImportInv
<1>12. QED
  BY <1>10, <1>11

\* The rows answered before are shown and downloaded; those of a lost answer are lost.
LEMMA FailureKeeps ==
  ASSUME RosterImportInv, BatchFails
  PROVE  RosterImportInv'
<1> DEFINE rows == toldRows
           past == importPast.submitted
<1>1. TableOK /\ BatchesOK /\ ScriptOK /\ PastOK /\ PageInv /\ ScriptInv
  BY DEF RosterImportInv
<1>2. /\ batches.phase # "idle"
      /\ batches' = [batches EXCEPT !.phase = "idle", !.answer = <<>>]
      /\ importPast' = [importPast EXCEPT !.lost = @ \union ImportedIn(batches.answer)]
      /\ UNCHANGED <<made, records, parses, toldRows, script>>
      /\ ~isImporting' /\ isImporting' \in BOOLEAN
  BY DEF BatchFails, EndImport
<1>3. \/ importFailed' = TRUE /\ step' = 3 /\ downloads' = downloads \union ImportedIn(rows)
      \/ rows = <<>> /\ UNCHANGED <<importFailed, step, downloads>>
  <2>1. CASE rows # <<>>
    BY <2>1 DEF BatchFails, EndImport
  <2>2. CASE rows = <<>>
    BY <2>2 DEF BatchFails
  <2>3. QED
    BY <2>1, <2>2
<1>4. BatchesOK' /\ batches'.phase = "idle" /\ batches'.answer = <<>>
  BY <1>1, <1>2, BatchEnds
<1>5. rows \in Seq(ToldRow) /\ batches.answer \in Seq(ToldRow)
  BY <1>1 DEF TableOK, BatchesOK
<1>6. /\ RowsAnswered \in Seq(ToldRow) /\ Len(RowsAnswered) = Len(rows) + Len(batches.answer)
      /\ Len(rows) \in Nat /\ Len(batches.answer) \in Nat
      /\ \A j \in 1..Len(rows) : RowsAnswered[j] = rows[j]
  BY <1>1, RowsAnsweredOK
<1>7. RowsAnswered' = rows
  BY <1>2, <1>4, <1>5 DEF RowsAnswered
<1>8. \A j \in DOMAIN batches.answer : batches.answer[j].student \in Students
  <2>1. \A j \in DOMAIN batches.answer : batches.answer[j] \in ToldRow
    BY <1>5
  <2>2. QED
    BY <2>1 DEF ToldRow
<1>9. PastOK' /\ importPast'.submitted = past /\ importPast'.lost = importPast.lost \union ImportedIn(batches.answer)
  <2>1. ImportedIn(batches.answer) \subseteq Students
    BY <1>8 DEF ImportedIn
  <2>2. QED
    BY <1>1, <1>2, <2>1 DEF PastOK
<1>10. TableOK'
  <2>1. importFailed' \in BOOLEAN
    BY <1>1, <1>3, Zenon DEF TableOK
  <2>2. step' \in 1..3
    BY <1>1, <1>3 DEF TableOK
  <2>3. QED
    BY <1>1, <1>2, <2>1, <2>2 DEF TableOK
<1>11. ScriptOK' /\ ScriptInv'
  BY <1>1, <1>2 DEF ScriptOK, ScriptInv, ScriptMade
<1>12. GoesAhead'
  BY <1>2, <1>4 DEF GoesAhead
<1>13. TellInOrder(RowsAnswered) /\ TellOnce(RowsAnswered) /\ Len(past) \in Nat
  BY <1>1 DEF PageInv, PastOK
<1>14. TellInOrder(rows)
  BY <1>6, <1>13 DEF TellInOrder
<1>15. TellOnce(rows)
  BY <1>6, <1>13 DEF TellOnce
<1>16. TellInOrder(RowsAnswered)' /\ TellOnce(RowsAnswered)'
  BY <1>2, <1>7, <1>9, <1>14, <1>15 DEF TellInOrder, TellOnce
<1>17. ASSUME NEW s \in Students, made'[s] = "page" PROVE PageHas(s)'
  <2>1. s \in downloads \union importPast.lost \/ s \in ImportedIn(RowsAnswered)
    BY <1>1, <1>2, <1>17 DEF PageInv, PageHas
  <2>2. ImportedIn(RowsAnswered) = ImportedIn(rows) \union ImportedIn(batches.answer)
    BY <1>5, ImportedInBoth DEF RowsAnswered
  <2>3. ImportedIn(rows) \subseteq downloads'
    BY <1>3 DEF ImportedIn
  <2>4. downloads \subseteq downloads'
    BY <1>3
  <2>5. QED
    BY <1>9, <2>1, <2>2, <2>3, <2>4 DEF PageHas
<1>18. step' = 3 => importFailed'
  BY <1>1, <1>2, <1>3 DEF PageInv, GoesAhead
<1>19. PageInv'
  BY <1>12, <1>16, <1>17, <1>18 DEF PageInv
<1>20. QED
  BY <1>4, <1>9, <1>10, <1>11, <1>19 DEF RosterImportInv

LEMMA ElsewhereKeeps ==
  ASSUME RosterImportInv, NEW s \in Students, RegisterElsewhere(s)
  PROVE  RosterImportInv'
<1>1. TableOK /\ BatchesOK /\ ScriptOK /\ PastOK /\ PageInv /\ ScriptInv
  BY DEF RosterImportInv
<1>2. /\ made[s] = "none" /\ made' = [made EXCEPT ![s] = "other"]
      /\ UNCHANGED <<step, records, parses, isImporting, importFailed, batches, toldRows, downloads, script, importPast>>
  BY DEF RegisterElsewhere, previewVars, resultVars
<1>3. made \in [Students -> {"none", "page", "script", "other"}]
  BY <1>1 DEF TableOK
<1>4. \A t \in Students : (made'[t] = "page" <=> made[t] = "page") /\ (made'[t] = "script" <=> made[t] = "script")
  BY <1>2, <1>3
<1>5. PageInv'
  BY <1>1, <1>2, <1>4, PageKept
<1>6. ScriptMade' = ScriptMade
  BY <1>4 DEF ScriptMade
<1>7. ScriptInv'
  BY <1>1, <1>2, <1>6 DEF ScriptInv
<1>8. TableOK' /\ BatchesOK' /\ ScriptOK' /\ PastOK'
  BY <1>1, <1>2, <1>3 DEF TableOK, BatchesOK, ScriptOK, PastOK
<1>9. QED
  BY <1>5, <1>7, <1>8 DEF RosterImportInv

-----------------------------------------------------------------------------
(* The script. *)

\* The script plans students of its roster.
LEMMA PlanOfStudents ==
  ASSUME NEW students \in Seq(Students), NEW taken
  PROVE  PlanStudentImports(students, taken) \in Seq(Students)
<1> DEFINE L == Len(students)
           Plan(before, k) == IF students[k] \in taken \union ToSet(before) THEN before
                              ELSE Append(before, students[k])
           IsFold(fold) == fold = [k \in 0..L |-> IF k = 0 THEN <<>> ELSE Plan(fold[k - 1], k)]
           plan == CHOOSE fold : IsFold(fold)
<1>1. L \in Nat
  OBVIOUS
<1>2. PlanStudentImports(students, taken) = plan[L]
  BY DEF PlanStudentImports
<1>3. \E fold \in [0..L -> Seq(Students)] : IsFold(fold)
  <2> DEFINE next == [p \in Seq(Students) \X (1..L) |-> Plan(p[1], p[2])]
             none == <<>>
  <2>1. next \in [Seq(Students) \X (1..L) -> Seq(Students)] /\ none \in Seq(Students)
    OBVIOUS
  <2>2. \A before \in Seq(Students), k \in 1..L : next[before, k] = Plan(before, k)
    OBVIOUS
  <2> HIDE DEF next, none, Plan, L
  <2>3. PICK fold \in [0..L -> Seq(Students)] : FoldUpTo(fold, L, none, next)
    <3> DEFINE S == Seq(Students)
    <3>1. next \in [S \X (1..L) -> S] /\ none \in S
      BY <2>1
    <3> HIDE DEF S
    <3>2. \E fold \in [0..L -> S] : FoldUpTo(fold, L, none, next)
      BY <1>1, <3>1, FoldExists
    <3>3. QED
      BY <3>2 DEF S
  <2>4. \A k \in 0..L : k # 0 => fold[k - 1] \in Seq(Students) /\ k \in 1..L
    BY <1>1
  <2>5. \A k \in 0..L : fold[k] = IF k = 0 THEN none ELSE Plan(fold[k - 1], k)
    BY <2>2, <2>3, <2>4 DEF FoldUpTo
  <2>6. fold = [k \in 0..L |-> IF k = 0 THEN none ELSE Plan(fold[k - 1], k)]
    BY <2>5
  <2>7. QED
    BY <2>6 DEF none
<1> HIDE DEF IsFold
<1>4. IsFold(plan)
  BY <1>3
<1> HIDE DEF plan
<1> DEFINE P == {k \in 0..L : plan[k] \in Seq(Students)}
<1>5. \A k \in 0..L : plan[k] = IF k = 0 THEN <<>> ELSE Plan(plan[k - 1], k)
  BY <1>4 DEF IsFold
<1>6. 0 \in P
  <2>1. 0 \in 0..L
    BY <1>1
  <2> DEFINE none == <<>>
  <2>2. none \in Seq(Students)
    OBVIOUS
  <2> HIDE DEF L, Plan
  <2>3. plan[0] = none
    BY <1>5, <2>1
  <2> HIDE DEF none
  <2>4. QED
    BY <2>1, <2>2, <2>3
<1>7. ASSUME NEW k \in 1..L, k - 1 \in P PROVE k \in P
  <2>1. k \in 0..L /\ k # 0 /\ students[k] \in Students /\ plan[k - 1] \in Seq(Students)
    BY <1>1, <1>7
  <2> DEFINE before == plan[k - 1]
  <2>2. plan[k] = Plan(before, k)
    BY <1>5, <2>1
  <2> HIDE DEF before
  <2>3. before \in Seq(Students)
    BY <2>1 DEF before
  <2>4. Plan(before, k) \in Seq(Students)
    BY <2>1, <2>3
  <2> HIDE DEF Plan, L
  <2>5. QED
    BY <2>1, <2>2, <2>4
<1> HIDE DEF P, L
<1>8. \A k \in 0..L : k \in P
  BY <1>1, <1>6, <1>7, UpTo
<1>9. QED
  BY <1>1, <1>2, <1>8 DEF P

LEMMA AppendedSet ==
  ASSUME NEW S, NEW rows \in Seq(S), NEW s \in S
  PROVE  ToSet(Append(rows, s)) = ToSet(rows) \union {s}
<1> DEFINE more == Append(rows, s)
           n == Len(rows) + 1
<1>1. Len(rows) \in Nat /\ DOMAIN rows = 1..Len(rows) /\ DOMAIN more = 1..n
  OBVIOUS
<1>2. more[n] = s /\ \A i \in 1..Len(rows) : more[i] = rows[i]
  OBVIOUS
<1>3. 1..n = 1..Len(rows) \union {n}
  BY <1>1
<1> HIDE DEF more, n
<1>4. ToSet(more) = ToSet(rows) \union {s}
  BY <1>1, <1>2, <1>3 DEF ToSet
<1>5. QED
  BY <1>4 DEF more

\* A step of the script which makes an account or none, and nothing the page has made.
LEMMA ScriptMoves ==
  ASSUME RosterImportInv,
         UNCHANGED <<step, records, parses, isImporting, importFailed, batches, toldRows, downloads, importPast>>,
         made' \in [Students -> {"none", "page", "script", "other"}],
         \A s \in Students : made'[s] = "page" <=> made[s] = "page",
         ScriptOK', ScriptInv'
  PROVE  RosterImportInv'
<1>1. TableOK /\ BatchesOK /\ PastOK /\ PageInv
  BY DEF RosterImportInv
<1>2. PageInv'
  BY <1>1, PageKept
<1>3. TableOK' /\ BatchesOK' /\ PastOK'
  BY <1>1 DEF TableOK, BatchesOK, PastOK
<1>4. QED
  BY <1>2, <1>3 DEF RosterImportInv

LEMMA ScriptStepsKeep ==
  ASSUME RosterImportInv,
         \/ \E roster \in ScriptRosters, dryRun \in BOOLEAN : ScriptReads(roster, dryRun)
         \/ ScriptPlans \/ ScriptAdds \/ ScriptFails \/ ScriptWrites
  PROVE  RosterImportInv'
<1>1. TableOK /\ BatchesOK /\ ScriptOK /\ PastOK /\ PageInv /\ ScriptInv
  BY DEF RosterImportInv
<1>2. made \in [Students -> {"none", "page", "script", "other"}]
  BY <1>1 DEF TableOK
<1>3. UNCHANGED <<step, records, parses, isImporting, importFailed, batches, toldRows, downloads, importPast>>
  BY DEF ScriptReads, ScriptPlans, ScriptAdds, ScriptFails, ScriptWrites, previewVars, resultVars
<1>4. /\ script.students \in Seq(Students) /\ script.planned \in Seq(Students) /\ script.rows \in Seq(Students)
      /\ script.dryRun \in BOOLEAN /\ script.phase \in ScriptPhases
  BY <1>1 DEF ScriptOK
<1>5. ASSUME NEW roster \in ScriptRosters, NEW dryRun \in BOOLEAN, ScriptReads(roster, dryRun)
      PROVE  RosterImportInv'
  <2> DEFINE taken == {s \in Students : made[s] # "none"}
  <2>1. /\ script.phase = "start" /\ made' = made
        /\ script' = [script EXCEPT !.phase = "read", !.students = roster, !.dryRun = dryRun, !.taken = taken]
    BY <1>5 DEF ScriptReads
  <2>2. roster \in Seq(Students) /\ taken \in SUBSET Students
    BY RosterImportAssumption
  <2> HIDE DEF taken
  <2>3. ScriptOK'
    BY <1>1, <2>1, <2>2 DEF ScriptOK, ScriptPhases
  <2>4. /\ script'.phase = "read" /\ script'.dryRun = dryRun /\ script'.rows = script.rows
        /\ script'.file = script.file
    BY <1>1, <2>1 DEF ScriptOK
  <2>5. ~script.dryRun /\ ToSet(script.rows) = ScriptMade /\ ScriptMade = {} /\ script.file = {}
    <3>1. ~script.dryRun /\ script.rows = <<>> /\ ToSet(script.rows) = ScriptMade /\ script.file = {}
      BY <1>1, <2>1 DEF ScriptInv
    <3>2. ToSet(<<>>) = {}
      BY DEF ToSet
    <3>3. QED
      BY <3>1, <3>2
  <2>6. ScriptMade' = ScriptMade
    BY <2>1 DEF ScriptMade
  <2>7. ScriptInv'
    BY <2>4, <2>5, <2>6 DEF ScriptInv
  <2>8. QED
    BY <1>2, <1>3, <2>1, <2>3, <2>7, ScriptMoves
<1>6. ASSUME ScriptPlans PROVE RosterImportInv'
  <2> DEFINE planned == PlanStudentImports(script.students, script.taken)
  <2>1. planned \in Seq(Students)
    BY <1>4, PlanOfStudents
  <2>2. /\ script.phase = "read" /\ made' = made
        /\ script' = [script EXCEPT !.phase = "adding", !.planned = planned]
    BY <1>6 DEF ScriptPlans
  <2> HIDE DEF planned
  <2>3. ScriptOK'
    BY <1>1, <2>1, <2>2 DEF ScriptOK, ScriptPhases
  <2>4. /\ script'.phase = "adding" /\ script'.dryRun = script.dryRun /\ script'.rows = script.rows
        /\ script'.file = script.file
    BY <1>1, <2>2 DEF ScriptOK
  <2>5. ScriptMade' = ScriptMade
    BY <2>2 DEF ScriptMade
  <2>6. ScriptInv'
    BY <1>1, <2>2, <2>4, <2>5 DEF ScriptInv
  <2>7. QED
    BY <1>2, <1>3, <2>2, <2>3, <2>6, ScriptMoves
<1>7. ASSUME ScriptAdds PROVE RosterImportInv'
  <2> DEFINE s == Head(script.planned)
             rest == Tail(script.planned)
             rows == IF script.dryRun THEN script.rows ELSE Append(script.rows, s)
  <2>1. /\ script.phase = "adding" /\ (script.dryRun \/ made[s] = "none")
        /\ made' = IF script.dryRun THEN made ELSE [made EXCEPT ![s] = "script"]
        /\ script' = [script EXCEPT !.planned = rest, !.rows = rows]
    BY <1>7 DEF ScriptAdds
  <2>2. s \in Students /\ rest \in Seq(Students) /\ rows \in Seq(Students)
    BY <1>4, <1>7 DEF ScriptAdds
  <2>3. ~script.dryRun => ToSet(rows) = ToSet(script.rows) \union {s}
    BY <1>4, <2>2, AppendedSet
  <2>4. script.dryRun => rows = script.rows
    OBVIOUS
  <2> HIDE DEF rest, rows, s
  <2>5. ScriptOK'
    BY <1>1, <2>1, <2>2 DEF ScriptOK
  <2>6. /\ script'.phase = "adding" /\ script'.dryRun = script.dryRun /\ script'.rows = rows
        /\ script'.file = script.file
    BY <1>1, <2>1 DEF ScriptOK
  <2>7. /\ made' \in [Students -> {"none", "page", "script", "other"}]
        /\ \A t \in Students : made'[t] = "page" <=> made[t] = "page"
        /\ ScriptMade' = IF script.dryRun THEN ScriptMade ELSE ScriptMade \union {s}
    <3>1. CASE script.dryRun
      BY <1>2, <2>1, <3>1 DEF ScriptMade
    <3>2. CASE ~script.dryRun
      BY <1>2, <2>1, <2>2, <3>2 DEF ScriptMade
    <3>3. QED
      BY <3>1, <3>2
  <2>8. ScriptInv'
    BY <1>1, <2>1, <2>3, <2>4, <2>6, <2>7 DEF ScriptInv
  <2>9. QED
    BY <1>3, <2>5, <2>7, <2>8, ScriptMoves
<1>8. ASSUME ScriptFails PROVE RosterImportInv'
  <2>1. script.phase = "adding" /\ made' = made /\ script' = [script EXCEPT !.phase = "failed"]
    BY <1>8 DEF ScriptFails
  <2>2. ScriptOK'
    BY <1>1, <2>1 DEF ScriptOK, ScriptPhases
  <2>3. /\ script'.phase = "failed" /\ script'.dryRun = script.dryRun /\ script'.rows = script.rows
        /\ script'.file = script.file
    BY <1>1, <2>1 DEF ScriptOK
  <2>4. ScriptMade' = ScriptMade
    BY <2>1 DEF ScriptMade
  <2>5. ScriptInv'
    BY <1>1, <2>1, <2>3, <2>4 DEF ScriptInv
  <2>6. QED
    BY <1>2, <1>3, <2>1, <2>2, <2>5, ScriptMoves
<1>9. ASSUME ScriptWrites PROVE RosterImportInv'
  <2> DEFINE file == IF script.dryRun THEN script.file ELSE ToSet(script.rows)
  <2>1. script.phase = "adding" /\ made' = made /\ script' = [script EXCEPT !.phase = "done", !.file = file]
    BY <1>9 DEF ScriptWrites
  <2>2. file = ScriptMade /\ file \in SUBSET Students
    BY <1>1, <2>1 DEF ScriptInv, ScriptMade
  <2> HIDE DEF file
  <2>3. ScriptOK'
    BY <1>1, <2>1, <2>2 DEF ScriptOK, ScriptPhases
  <2>4. /\ script'.phase = "done" /\ script'.dryRun = script.dryRun /\ script'.rows = script.rows
        /\ script'.file = file
    BY <1>1, <2>1 DEF ScriptOK
  <2>5. ScriptMade' = ScriptMade
    BY <2>1 DEF ScriptMade
  <2>6. ScriptInv'
    BY <1>1, <2>2, <2>4, <2>5 DEF ScriptInv
  <2>7. QED
    BY <1>2, <1>3, <2>1, <2>3, <2>6, ScriptMoves
<1>10. QED
  BY <1>5, <1>6, <1>7, <1>8, <1>9

-----------------------------------------------------------------------------
LEMMA RosterInitially == RosterImportInit => RosterImportInv
<1> SUFFICES ASSUME RosterImportInit PROVE RosterImportInv
  OBVIOUS
<1>1. /\ made = [s \in Students |-> "none"] /\ step = 1 /\ records = <<>> /\ parses = <<>>
      /\ isImporting = FALSE /\ importFailed = FALSE /\ toldRows = <<>> /\ downloads = {}
      /\ batches = [payload |-> <<>>, start |-> 1, phase |-> "idle", answer |-> <<>>]
      /\ script = [phase |-> "start", students |-> <<>>, dryRun |-> FALSE, taken |-> {},
                   planned |-> <<>>, rows |-> <<>>, file |-> {}]
      /\ importPast = [lost |-> {}, submitted |-> <<>>]
  BY DEF RosterImportInit, NoBatches
<1>2. \A S : <<>> \in Seq(S)
  OBVIOUS
<1>3. TableOK /\ BatchesOK /\ ScriptOK /\ PastOK
  <2> DEFINE none == <<>>
  <2>1. \A S : none \in Seq(S)
    BY <1>2
  <2>2. /\ records = none /\ parses = none /\ toldRows = none
        /\ batches = [payload |-> none, start |-> 1, phase |-> "idle", answer |-> none]
        /\ script = [phase |-> "start", students |-> none, dryRun |-> FALSE, taken |-> {},
                     planned |-> none, rows |-> none, file |-> {}]
        /\ importPast = [lost |-> {}, submitted |-> none]
    BY <1>1
  <2> HIDE DEF none
  <2>3. /\ none \in Seq(RecordRow) /\ none \in Seq(Seq(RecordRow)) /\ none \in Seq(ToldRow)
        /\ none \in Seq(Students)
    <3> DEFINE rosters == Seq(RecordRow)
    <3>1. none \in Seq(rosters)
      <4> HIDE DEF rosters
      <4>1. QED
        BY <2>1
    <3>2. none \in Seq(RecordRow) /\ none \in Seq(ToldRow) /\ none \in Seq(Students)
      BY <2>1
    <3>3. QED
      BY <3>1, <3>2
  <2>4. TableOK
    <3>1. made \in [Students -> {"none", "page", "script", "other"}] /\ step \in 1..3
      BY <1>1
    <3>2. isImporting \in BOOLEAN /\ importFailed \in BOOLEAN
      BY <1>1, Zenon
    <3>3. QED
      BY <2>2, <2>3, <3>1, <3>2 DEF TableOK
  <2>5. BatchesOK
    BY <2>2, <2>3 DEF BatchesOK, BatchPhases
  <2>6. ScriptOK
    BY <2>2, <2>3 DEF ScriptOK, ScriptPhases
  <2>7. PastOK
    BY <2>2, <2>3 DEF PastOK
  <2>8. QED
    BY <2>4, <2>5, <2>6, <2>7
<1>4. RowsAnswered = <<>>
  BY <1>1 DEF RowsAnswered
<1>5. Len(<<>>) = 0 /\ ToSet(<<>>) = {}
  BY DEF ToSet
<1>6. TellInOrder(RowsAnswered) /\ TellOnce(RowsAnswered)
  BY <1>1, <1>4, <1>5 DEF TellInOrder, TellOnce
<1>7. GoesAhead /\ \A s \in Students : made[s] # "page" /\ made[s] # "script"
  BY <1>1 DEF GoesAhead
<1>8. PageInv
  BY <1>1, <1>6, <1>7 DEF PageInv
<1>9. ScriptInv
  BY <1>1, <1>5, <1>7 DEF ScriptInv, ScriptMade
<1>10. QED
  BY <1>3, <1>8, <1>9 DEF RosterImportInv

LEMMA RosterStep == RosterImportInv /\ [RosterImportNext]_rosterImportVars => RosterImportInv'
<1> SUFFICES ASSUME RosterImportInv, [RosterImportNext]_rosterImportVars PROVE RosterImportInv'
  OBVIOUS
<1>1. ASSUME NEW roster \in Rosters, ParseFile(roster) PROVE RosterImportInv'
  BY <1>1, ParseKeeps
<1>2. ASSUME NEW i \in DOMAIN parses, NEW fails \in BOOLEAN, ParseEnds(i, fails) PROVE RosterImportInv'
  BY <1>2, ParseEndsKeeps
<1>3. ASSUME (\E n \in 1..2 : GoToStep(n)) \/ ResetPreview PROVE RosterImportInv'
  BY <1>3, PageTurnsKeep
<1>4. ASSUME \/ \E i \in DOMAIN records, s \in Students \union {NoStudent} : EditRecord(i, s)
             \/ AddStudent
             \/ \E i \in DOMAIN records : DeleteRecord(i)
      PROVE  RosterImportInv'
  BY <1>4, EditsKeep
<1>5. ASSUME SubmitImport PROVE RosterImportInv'
  BY <1>5, SubmitKeeps
<1>6. ASSUME ServeBatch PROVE RosterImportInv'
  BY <1>6, ServeKeeps
<1>7. ASSUME BatchAnswered PROVE RosterImportInv'
  BY <1>7, AnsweredKeeps
<1>8. ASSUME BatchFails PROVE RosterImportInv'
  BY <1>8, FailureKeeps
<1>9. ASSUME NEW s \in Students, RegisterElsewhere(s) PROVE RosterImportInv'
  BY <1>9, ElsewhereKeeps
<1>10. ASSUME \/ \E roster \in ScriptRosters, dryRun \in BOOLEAN : ScriptReads(roster, dryRun)
              \/ ScriptPlans \/ ScriptAdds \/ ScriptFails \/ ScriptWrites
       PROVE  RosterImportInv'
  BY <1>10, ScriptStepsKeep
<1>11. ASSUME UNCHANGED rosterImportVars PROVE RosterImportInv'
  <2>1. UNCHANGED <<made, isImporting, batches, resultVars, script, importPast, step, records, parses>>
    BY <1>11 DEF rosterImportVars, previewVars
  <2>2. records \in Seq(RecordRow) /\ parses \in Seq(Seq(RecordRow)) /\ step \in 1..3
    BY DEF RosterImportInv, TableOK
  <2>3. QED
    BY <2>1, <2>2, PreviewKeeps
<1>12. QED
  BY <1>1, <1>2, <1>3, <1>4, <1>5, <1>6, <1>7, <1>8, <1>9, <1>10, <1>11 DEF RosterImportNext

\* What the invariant says of the rows shown, and of the credentials.
LEMMA RosterShows == RosterImportInv => ImportCorrect
<1> SUFFICES ASSUME RosterImportInv PROVE ImportCorrect
  OBVIOUS
<1> DEFINE rows == toldRows
           all == importPast.submitted
<1>1. TableOK /\ BatchesOK /\ PastOK /\ PageInv /\ ScriptInv
  BY DEF RosterImportInv
<1>2. rows \in Seq(ToldRow) /\ batches.answer \in Seq(ToldRow) /\ all \in Seq(Students)
  BY <1>1 DEF TableOK, BatchesOK, PastOK
<1>3. /\ Len(RowsAnswered) = Len(rows) + Len(batches.answer)
      /\ Len(rows) \in Nat /\ Len(batches.answer) \in Nat /\ Len(all) \in Nat
      /\ \A i \in 1..Len(rows) : RowsAnswered[i] = rows[i]
  BY <1>1, <1>2, RowsAnsweredOK
<1>4. CredentialsKept
  <2>1. ImportedIn(RowsAnswered) = ImportedIn(rows) \union ImportedIn(batches.answer)
    BY <1>2, ImportedInBoth DEF RowsAnswered
  <2>2. QED
    BY <1>1, <2>1 DEF PageInv, PageHas, CredentialsKept
<1>5. TellInOrder(RowsAnswered) /\ TellOnce(RowsAnswered)
  BY <1>1 DEF PageInv
<1> HIDE DEF rows, all
<1>6. TellInOrder(rows) /\ TellOnce(rows)
  BY <1>3, <1>5 DEF TellInOrder, TellOnce, all
<1>7. ImportAccountsForAll
  <2>1. Len(rows) <= Len(all) /\ \A i \in 1..Len(rows) : rows[i].student = all[i]
    BY <1>6 DEF TellInOrder, all
  <2>2. DOMAIN rows = 1..Len(rows)
    BY <1>2
  <2>3. StudentsOf(rows) = [i \in 1..Len(rows) |-> all[i]]
    BY <2>1, <2>2 DEF StudentsOf
  <2>4. SubSeq(all, 1, Len(rows)) = [i \in 1..Len(rows) |-> all[i]]
    BY <1>2, <1>3, <2>1
  <2>5. step = 3 /\ ~isImporting /\ ~importFailed => Len(rows) = Len(all)
    BY <1>1 DEF PageInv, rows, all
  <2>6. QED
    BY <2>1, <2>3, <2>4, <2>5 DEF ImportAccountsForAll, rows, all
<1>8. ImportedOnce
  <2>1. DOMAIN rows = 1..Len(rows)
    BY <1>2
  <2>2. QED
    BY <1>6, <2>1 DEF ImportedOnce, TellOnce, rows
<1>9. ScriptCredentials
  BY <1>1 DEF ScriptInv, ScriptCredentials, ScriptMade
<1>10. QED
  BY <1>4, <1>7, <1>8, <1>9 DEF ImportCorrect

\* What page and script tell of an import, and the credentials they hand over, agree with the
\* accounts that were made, for any rosters, edits and sizes of batches (RosterImport).
THEOREM RosterImported == RosterImportSpec => []ImportCorrect
<1>1. RosterImportSpec => []RosterImportInv
  BY RosterInitially, RosterStep, PTL DEF RosterImportSpec
<1>2. QED
  BY <1>1, RosterShows, PTL
=============================================================================
