-------------------------------- MODULE CsvText --------------------------------
(***************************************************************************)
(* Reading the file of an import (csv-import.ts): a sheet is filled cell by    *)
(* cell, a spreadsheet writes it as text, and the page reads the text back.   *)
(*                                                                          *)
(* A character is what the reader tells apart: "a" stands for any other, the   *)
(* blank ones are the line breaks.  The first row is the header of the model,  *)
(* whose names hold none of the characters that matter.                      *)
(***************************************************************************)
EXTENDS Integers, Sequences, SequencesExt, FiniteSets

CONSTANTS
  Width,     \* columns of the header
  MaxTyped   \* bound: characters, cells and rows typed

QUOTE == "quote"
CR    == "CR"
LF    == "LF"
DELIMITERS == <<";", ",", "TAB">>
Chars == {"a", QUOTE, ";", ",", CR, LF}

TextAssumption == Width \in Nat \ {0, 1} /\ MaxTyped \in Nat

VARIABLES
  sheet,     \* the rows after the header: sequences of cells
  delimiter, \* of the spreadsheet
  ended,     \* whether its last line has a line break
  typed

vars == <<sheet, delimiter, ended, typed>>

TypeOK ==
  /\ sheet \in Seq(Seq(Seq(Chars)))
  /\ delimiter \in {";", ","} /\ ended \in BOOLEAN /\ typed \in 0..MaxTyped

Init ==
  /\ sheet = <<>> /\ delimiter \in {";", ","} /\ ended \in BOOLEAN /\ typed = 0

Header == [i \in 1..Width |-> <<"a">>]

-----------------------------------------------------------------------------
(* Filling the sheet. *)

Typed == typed < MaxTyped /\ typed' = typed + 1 /\ UNCHANGED <<delimiter, ended>>

NewRow == Typed /\ sheet' = Append(sheet, << <<>> >>)

NewCell ==
  /\ Typed /\ sheet # <<>>
  /\ sheet' = [sheet EXCEPT ![Len(sheet)] = Append(@, <<>>)]

Type(char) ==
  /\ Typed /\ sheet # <<>>
  /\ LET row == Len(sheet)
     IN  sheet' = [sheet EXCEPT ![row][Len(sheet[row])] = Append(@, char)]

Next == NewRow \/ NewCell \/ \E char \in Chars : Type(char)

Spec == Init /\ [][Next]_vars

-----------------------------------------------------------------------------
(* Writing. *)

Joined(cells, between) == FoldLeft(LAMBDA text, c : text \o between \o c, Head(cells), Tail(cells))

WrittenCell(cell, d) ==
  IF \E i \in DOMAIN cell : cell[i] \in {d, QUOTE, CR, LF}
    THEN <<QUOTE>> \o FlattenSeq([i \in DOMAIN cell |-> IF cell[i] = QUOTE THEN <<QUOTE, QUOTE>> ELSE <<cell[i]>>])
           \o <<QUOTE>>
    ELSE cell

(* With ";" it is the code's own csvLine. *)
csvLine(cells, d) == Joined([i \in DOMAIN cells |-> WrittenCell(cells[i], d)], <<d>>)

Text(rows, d) == FlattenSeq([i \in DOMAIN rows |-> csvLine(rows[i], d) \o <<CR, LF>>])

File ==
  LET all == Text(<<Header>> \o sheet, delimiter)
  IN  IF ended THEN all ELSE SubSeq(all, 1, Len(all) - 2)

-----------------------------------------------------------------------------
(* Reading. *)

(* The delimiter found most often in the first line, outside quotes, ";" first. *)
detectDelimiter(text) ==
  LET Look(seen, char) ==
        IF seen.over THEN seen
        ELSE IF char = QUOTE THEN [seen EXCEPT !.quoted = ~@]
        ELSE IF seen.quoted THEN seen
        ELSE IF char \in {CR, LF} THEN [seen EXCEPT !.over = TRUE]
        ELSE IF char \in DOMAIN seen.counts THEN [seen EXCEPT !.counts[char] = @ + 1]
        ELSE seen
      counts == FoldLeft(Look, [quoted |-> FALSE, over |-> FALSE,
                                counts |-> [d \in ToSet(DELIMITERS) |-> 0]], text).counts
  IN  FoldLeft(LAMBDA best, d : IF counts[d] > counts[best] THEN d ELSE best, ";", DELIMITERS)

Blank(cell) == \A i \in DOMAIN cell : cell[i] \in {CR, LF}
NotBlank(cells) == \E i \in DOMAIN cells : ~Blank(cells[i])

EndCell(r) == [r EXCEPT !.cells = Append(@, r.cell), !.cell = <<>>]
EndRecord(r) ==
  LET e == EndCell(r)
  IN  [e EXCEPT !.records = Append(@, [line |-> r.recordLine, cells |-> e.cells]), !.cells = <<>>]

(* skip: the character after this one is read with it. *)
ReadQuoted(r, char, next) ==
  IF char = QUOTE /\ next = QUOTE THEN [r EXCEPT !.cell = Append(@, QUOTE), !.skip = TRUE]
  ELSE IF char = QUOTE THEN [r EXCEPT !.quoted = FALSE]
  ELSE [r EXCEPT !.cell = Append(@, char), !.line = IF char = LF THEN @ + 1 ELSE @]

ReadPlain(r, char, next, d) ==
  IF char = QUOTE /\ r.cell = <<>> THEN [r EXCEPT !.quoted = TRUE]
  ELSE IF char = d THEN EndCell(r)
  ELSE IF char \in {CR, LF}
    THEN [EndRecord(r) EXCEPT !.skip = (char = CR /\ next = LF), !.line = @ + 1, !.recordLine = r.line + 1]
  ELSE [r EXCEPT !.cell = Append(@, char)]

parseCsvRecords(text, d) ==
  LET Read(r, i) ==
        LET next == IF i < Len(text) THEN text[i + 1] ELSE "end" IN
          IF r.skip THEN [r EXCEPT !.skip = FALSE]
          ELSE IF r.quoted THEN ReadQuoted(r, text[i], next)
          ELSE ReadPlain(r, text[i], next, d)
      r == FoldLeftDomain(Read, [records |-> <<>>, cells |-> <<>>, cell |-> <<>>, quoted |-> FALSE,
                                 skip |-> FALSE, line |-> 1, recordLine |-> 1], text)
      all == IF r.cell # <<>> \/ r.cells # <<>> THEN EndRecord(r).records ELSE r.records
  IN  SelectSeq(all, LAMBDA record : NotBlank(record.cells))

Trim(cell) ==
  LET kept == {i \in DOMAIN cell : cell[i] \notin {CR, LF}} IN
    IF kept = {} THEN <<>>
    ELSE SubSeq(cell, CHOOSE i \in kept : \A j \in kept : i <= j, CHOOSE i \in kept : \A j \in kept : j <= i)

(* One cell per column, a missing one empty; another number of cells is an error *)
(* of the row, never a shift.                                               *)
NamedCells(cells) == [i \in 1..Width |-> IF i \in DOMAIN cells THEN Trim(cells[i]) ELSE <<>>]

readCsvFile(text) ==
  LET records == parseCsvRecords(text, detectDelimiter(text))
  IN  [i \in 1..(Len(records) - 1) |->
         LET record == records[i + 1] IN
           [line |-> record.line, cells |-> NamedCells(record.cells),
            cellCountMismatch |-> Len(record.cells) # Width]]

-----------------------------------------------------------------------------

(* The rows read are those written, whatever their cells hold, the blank ones  *)
(* left out: no cell is split, joined, shifted or lost between a spreadsheet   *)
(* and the preview, with either delimiter, with or without a last line break. *)
ReadAsWritten ==
  LET rows == SelectSeq(sheet, NotBlank)
      read == readCsvFile(File)
  IN  /\ Len(read) = Len(rows)
      /\ \A i \in DOMAIN rows :
           /\ read[i].cells = NamedCells(rows[i])
           /\ read[i].cellCountMismatch = (Len(rows[i]) # Width)

(* "Each record keeps the line it starts on": one more than the line breaks    *)
(* before it, those inside quoted cells included.  A CR alone in a cell, which  *)
(* no spreadsheet writes, is not counted.                                   *)
LineIsWhereItStarts ==
  LET LFs(text) == Cardinality({i \in DOMAIN text : text[i] = LF})
      kept == SelectSeq([i \in DOMAIN sheet |-> i], LAMBDA i : NotBlank(sheet[i]))
      read == readCsvFile(File)
  IN  \A i \in DOMAIN kept :
        read[i].line = 1 + LFs(Text(<<Header>> \o SubSeq(sheet, 1, kept[i] - 1), delimiter))
================================================================================
