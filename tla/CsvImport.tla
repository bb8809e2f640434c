------------------------------- MODULE CsvImport -------------------------------
(***************************************************************************)
(* The page Import CSV and the server behind it: a file's rows judged in the   *)
(* browser with the localites the page was loaded with, the seller's choices   *)
(* in the dropdowns, Importer, and the rows judged again by the server with    *)
(* the localites open then.  CsvText reads the file; Creation has the codes,   *)
(* the fees and two copies of one import at the same instant.                *)
(*                                                                          *)
(* A row is what its localite cells say: the localites of that name (or alias) *)
(* and those of its delegation, empty when it gives none.                    *)
(***************************************************************************)
EXTENDS Integers, FiniteSets

CONSTANTS
  Localites, Rows, \* Rows: the lines of a file
  Named(_),        \* of a row: the localites its cells name
  InDelegation(_), \* of a row: the localites of the delegation it gives
  Imports,         \* the UUIDs drawn, one per file loaded
  None,
  MaxMoves         \* bound: localites opened or closed, answers lost

VARIABLES
  open,     \* the localites that take parcels
  tree,     \* those the page was loaded with
  file,     \* on the page: its import id and its rows; or None
  reading,  \* files whose bytes are still being read
  choices,  \* per line, the localite chosen in its dropdown
  refused,  \* the lines the server refused, as the page shows them
  request,  \* under way: import id, rows sent, choices, and (history) where the
            \*   page said each would go and whether the server answered; or None
  answer,   \* to it: the lines refused, none of them if it was made; or None
  made,     \* parcel_imports: per id, the localite of each of its lines
  result,   \* the import whose parcels are shown, or None
  moves

vars == <<open, tree, file, reading, choices, refused, request, answer, made, result, moves>>

Places == [Rows -> Localites \union {None}]
NoPlace == [r \in Rows |-> None]
NoParcels == NoPlace

TypeOK ==
  /\ {open, tree} \subseteq SUBSET Localites
  /\ file \in [id: Imports, rows: SUBSET Rows] \union {None}
  /\ reading \subseteq [id: Imports, rows: SUBSET Rows]
  /\ choices \in Places
  /\ refused \subseteq Rows
  /\ request \in [id: Imports, rows: SUBSET Rows, choices: Places, shown: Places] \union {None}
  /\ answer \in [refused: SUBSET Rows] \union {None}
  /\ made \in [Imports -> Places]
  /\ result \in Imports \union {None}
  /\ moves \in 0..MaxMoves

Init ==
  /\ open = Localites /\ tree = Localites
  /\ file = None /\ reading = {} /\ choices = NoPlace /\ refused = {}
  /\ request = None /\ answer = None
  /\ made = [i \in Imports |-> NoParcels] /\ result = None /\ moves = 0

pageVars == <<tree, file, reading, choices, refused, result>>

-----------------------------------------------------------------------------
(* resolveLocalite and the verdict of a row, the same on both sides. *)

Matches(row, active) == Named(row) \intersect active

Options(row, active) ==
  IF Matches(row, active) = {} THEN InDelegation(row) \intersect active ELSE Matches(row, active)

Resolved(row, active) == Cardinality(Matches(row, active)) = 1

(* By its name if that is enough, else by the seller's choice among the options. *)
Localite(row, active, choice) ==
  IF Resolved(row, active) THEN CHOOSE l \in Matches(row, active) : TRUE
  ELSE IF choice \in Options(row, active) THEN choice ELSE None

Verdict(row, active, choice) ==
  IF Localite(row, active, choice) # None THEN "VALIDE"
  ELSE IF Options(row, active) # {} THEN "A_VERIFIER" ELSE "ERREUR"

Shown(row) == Localite(row, tree, choices[row])
Valid == {r \in file.rows : Verdict(r, tree, choices[r]) = "VALIDE"}

-----------------------------------------------------------------------------
(* The page.                                                                 *)

Reload ==
  /\ tree' = open /\ file' = None /\ reading' = {} /\ choices' = NoPlace /\ refused' = {}
  /\ request' = None /\ answer' = None /\ result' = None
  /\ UNCHANGED <<open, made, moves>>

Drawn == {i \in Imports : made[i] # NoParcels}
         \union {f.id : f \in reading \union ({file} \ {None})}
         \union (IF request = None THEN {} ELSE {request.id})

(* The choices are forgotten at once, the file is there when its bytes are read: *)
(* another may be chosen meanwhile, and while an import is under way.        *)
ChooseFile(rows) ==
  /\ \E id \in Imports \ Drawn : reading' = reading \union {[id |-> id, rows |-> rows]}
  /\ choices' = NoPlace /\ refused' = {} /\ result' = None
  /\ UNCHANGED <<open, tree, file, request, answer, made, moves>>

FileRead(f) ==
  /\ f \in reading /\ reading' = reading \ {f}
  /\ file' = f
  /\ UNCHANGED <<open, tree, choices, refused, request, answer, made, result, moves>>

(* Once chosen, the dropdown gives way to the localite. *)
Choose(row, localite) ==
  /\ file # None /\ row \in file.rows /\ result = None
  /\ Verdict(row, tree, choices[row]) = "A_VERIFIER"
  /\ localite \in Options(row, tree)
  /\ choices' = [choices EXCEPT ![row] = localite]
  /\ UNCHANGED <<open, tree, file, reading, refused, request, answer, made, result, moves>>

ClickImporter ==
  /\ file # None /\ result = None /\ request = None /\ Valid # {}
  /\ request' = [id |-> file.id, rows |-> Valid, choices |-> choices,
                 shown |-> [r \in Rows |-> IF r \in Valid THEN Shown(r) ELSE None]]
  /\ UNCHANGED <<open, pageVars, answer, made, moves>>

(* An error that is the server's answer keeps the file, with its id. *)
Answered ==
  /\ answer # None
  /\ IF answer.refused = {}
       THEN result' = request.id /\ file' = None /\ UNCHANGED refused
       ELSE refused' = answer.refused /\ UNCHANGED <<result, file>>
  /\ request' = None /\ answer' = None
  /\ UNCHANGED <<open, tree, reading, choices, made, moves>>

(* No answer, whether the server got to it or not: the button works again. *)
Lost ==
  /\ request # None /\ moves < MaxMoves /\ moves' = moves + 1
  /\ request' = None /\ answer' = None /\ refused' = {}
  /\ UNCHANGED <<open, tree, file, reading, choices, made, result>>

NouvelImport ==
  /\ result # None /\ result' = None
  /\ UNCHANGED <<open, tree, file, reading, choices, refused, request, answer, made, moves>>

-----------------------------------------------------------------------------
(* The server.                                                               *)

Received == request # None /\ answer = None

Replay ==
  /\ Received /\ made[request.id] # NoParcels
  /\ answer' = [refused |-> {}]
  /\ UNCHANGED <<open, pageVars, request, made, moves>>

Bad == {r \in request.rows : Verdict(r, open, request.choices[r]) # "VALIDE"}

(* All its rows or none. *)
RefuseRows ==
  /\ Received /\ made[request.id] = NoParcels
  /\ Bad # {} /\ answer' = [refused |-> Bad]
  /\ UNCHANGED <<open, pageVars, request, made, moves>>

Create ==
  /\ Received /\ made[request.id] = NoParcels /\ Bad = {}
  /\ made' = [made EXCEPT ![request.id] =
                [r \in Rows |-> IF r \in request.rows THEN Localite(r, open, request.choices[r]) ELSE None]]
  /\ answer' = [refused |-> {}]
  /\ UNCHANGED <<open, pageVars, request, moves>>

SwitchLocalite(l) ==
  /\ moves < MaxMoves /\ moves' = moves + 1
  /\ open' = IF l \in open THEN open \ {l} ELSE open \union {l}
  /\ UNCHANGED <<pageVars, request, answer, made>>

Next ==
  \/ Reload
  \/ \E rows \in SUBSET Rows \ {{}} : ChooseFile(rows)
  \/ \E f \in reading : FileRead(f)
  \/ \E r \in Rows, l \in Localites : Choose(r, l)
  \/ ClickImporter \/ Answered \/ Lost \/ NouvelImport
  \/ Replay \/ RefuseRows \/ Create
  \/ \E l \in Localites : SwitchLocalite(l)

Spec == Init /\ [][Next]_vars

-----------------------------------------------------------------------------

(* "The two never disagree about a row" (csv-import.ts:18): while the localites  *)
(* of the page are those of the server, no row it shows Valide is refused, and   *)
(* each parcel goes where the page said.                                    *)
AgreeOnARow ==
  Received /\ answer' # None /\ made[request.id] = NoParcels /\ open = tree =>
    /\ answer'.refused = {}
    /\ \A r \in request.rows : made'[request.id][r] = request.shown[r]

(* Whatever happened since, a parcel goes to an open localite that its row names, *)
(* or, its name not being enough, to one chosen in its dropdown; and an import  *)
(* once made stays as it is (D-37).                                         *)
GoesWhereNamed ==
  \A i \in Imports : made'[i] # made[i] =>
    /\ made[i] = NoParcels
    /\ \A r \in Rows : made'[i][r] # None =>
         /\ made'[i][r] \in open
         /\ made'[i][r] \in Named(r) \/ made'[i][r] = request.choices[r]

(* Shown as imported, the file's parcels are there, a lost answer between or not. *)
ResultIsMade == result # None => made[result] # NoParcels

(* Not so: "unknown, ambiguous or missing is a row error, never a guess"          *)
(* (localites.ts:195).  A choice made in the dropdown of an ambiguous name is    *)
(* dropped when that localite has closed and one other keeps the name.        *)
ChoiceIsKept ==
  [][\A i \in Imports : made'[i] # made[i] =>
       \A r \in Rows : made'[i][r] # None /\ request.choices[r] # None
         => made'[i][r] = request.choices[r]]_vars

(* Not so: after a lost answer the rows chosen since are sent under the same id  *)
(* and the first import is answered: the page closes the file without them.   *)
EveryRowSentIsMade ==
  [][answer # None /\ answer' = None /\ result' # None =>
       \A r \in request.rows : made[request.id][r] # None]_vars
================================================================================
