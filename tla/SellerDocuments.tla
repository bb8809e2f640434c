---------------------------- MODULE SellerDocuments ----------------------------
(***************************************************************************)
(* The documents of a seller (seller-documents.service.ts, sellers.service.ts, *)
(* storage/document-storage.ts): encrypted files on a disk, rows in the         *)
(* database, which cannot be written together; and the nightly backup of the    *)
(* two and its restore (deploy/backup.sh, restore-test.sh).                   *)
(*                                                                          *)
(* The files of a request are written first (stage), its transaction locks the  *)
(* seller and inserts their rows (record), and they are removed when that fails  *)
(* (discard).  The server may stop between any two steps.                     *)
(***************************************************************************)
EXTENDS Integers, FiniteSets

CONSTANTS Documents,  \* storage keys, each written once
          Calls,      \* bound: requests under way at once
          MaxBackups, \* bound
          MaxLost,    \* bound: commits whose answer is lost
          None

\* What the module assumes of its constants.
DocumentsAssumption == {MaxBackups, MaxLost} \subseteq Nat /\ None \notin Documents

CONTACT_DOCUMENTS == {"CIN_RECTO", "CIN_VERSO"}
STATUTS == {"PATENTE", "AUTO_ENTREPRENEUR", "CIN_UNIQUEMENT"}
STATUT_DOCUMENT(s) == CASE s = "PATENTE" -> {"PATENTE"} [] s = "CIN_UNIQUEMENT" -> {}
                        [] OTHER -> {"CARTE_AUTO_ENTREPRENEUR"}
requiredDocumentsFor(s) == CONTACT_DOCUMENTS \cup STATUT_DOCUMENT(s)
TYPES == UNION {requiredDocumentsFor(s) : s \in STATUTS}

Row == [type: TYPES, replaced: BOOLEAN]

VARIABLES
  statut, \* of the seller, None before he is created
  row,    \* seller_documents, by storage key
  files,  \* on the disk under their key
  used,   \* keys drawn, which are not drawn again
  call,   \* what a request has staged, and what it still has to
  backup, \* the rows dumped, the files copied, or None
  backups, lost

vars == <<statut, row, files, used, call, backup, backups, lost>>

TypeOK ==
  /\ statut \in STATUTS \cup {None} /\ \A d \in Documents : row[d] = None \/ row[d] \in Row
  /\ files \subseteq used /\ used \subseteq Documents
  /\ \A k \in Calls : call[k] = None
       \/ /\ call[k].op \in {"CREATE", "STATUT", "CONTACT", "ADD"}
          /\ call[k].step \in {"STAGE", "DISCARD"} /\ call[k].todo \subseteq TYPES
  /\ backups \in 0..MaxBackups /\ lost \in 0..MaxLost

Init ==
  /\ statut = None /\ row = [d \in Documents |-> None] /\ files = {} /\ used = {}
  /\ call = [k \in Calls |-> None] /\ backup = None /\ backups = 0 /\ lost = 0

Free(k) == call[k] = None
In(k, step) == call[k] # None /\ call[k].step = step
Staged(k) == {d \in Documents : call[k].file[d] # None}

-----------------------------------------------------------------------------
(* A request *)

\* What each asks for: the statut wanted, or the type added.
Accepts(op, value, current) ==
  CASE op = "CREATE"  -> current = None
    [] op = "STATUT"  -> current # None /\ current # value
    [] op = "CONTACT" -> current # None
    [] op = "ADD"     -> current # None /\ value \in requiredDocumentsFor(current)

Needed(op, value) ==
  CASE op = "CREATE" -> requiredDocumentsFor(value) [] op = "STATUT" -> STATUT_DOCUMENT(value)
    [] op = "CONTACT" -> CONTACT_DOCUMENTS [] op = "ADD" -> {value}

\* Checked cheaply before any file is written.
Ask(k, op, value) ==
  /\ Free(k) /\ Accepts(op, value, statut)
  /\ call' = [call EXCEPT ![k] =
       [step |-> "STAGE", op |-> op, value |-> value, todo |-> Needed(op, value),
        file |-> [d \in Documents |-> None]]]
  /\ UNCHANGED <<statut, row, files, used, backup, backups, lost>>

(* put: written beside and renamed, so under its key a file is whole or absent.    *)
(* One type after the other; which of the keys is drawn does not matter.         *)
Stage(k) ==
  LET t == CHOOSE type \in call[k].todo : TRUE
      d == CHOOSE key \in Documents \ used : TRUE IN
  /\ In(k, "STAGE") /\ call[k].todo # {} /\ used # Documents
  /\ used' = used \cup {d} /\ files' = files \cup {d}
  /\ call' = [call EXCEPT ![k].todo = @ \ {t}, ![k].file[d] = t]
  /\ UNCHANGED <<statut, row, backup, backups, lost>>

\* An upload refused, the disk full: the files already written are removed.
FailStage(k) ==
  /\ In(k, "STAGE") /\ call[k].todo # {} /\ call' = [call EXCEPT ![k].step = "DISCARD"]
  /\ UNCHANGED <<statut, row, files, used, backup, backups, lost>>

\* Mutant of Recorded: the row that gives way is not marked.
RecordedBeside(k) ==
  [d \in Documents |-> IF d \in Staged(k) THEN [type |-> call[k].file[d], replaced |-> FALSE] ELSE row[d]]

\* record: each new row replaces the current one of its type.
Recorded(k) ==
  [d \in Documents |->
     IF d \in Staged(k) THEN [type |-> call[k].file[d], replaced |-> FALSE]
     ELSE IF row[d] # None /\ \E e \in Staged(k) : call[k].file[e] = row[d].type
     THEN [row[d] EXCEPT !.replaced = TRUE] ELSE row[d]]

\* Mutant of Ready: the transaction does not wait for the files.
ReadyAtOnce(k) == In(k, "STAGE")

Ready(k) == In(k, "STAGE") /\ call[k].todo = {}

\* The seller locked and read again: refused, or written, the files kept.
Commit(k) ==
  LET c == call[k] IN
  /\ Ready(k)
  /\ IF Accepts(c.op, c.value, statut)
     THEN /\ row' = Recorded(k)
          /\ statut' = (IF c.op \in {"CREATE", "STATUT"} THEN c.value ELSE statut)
          /\ call' = [call EXCEPT ![k] = None]
     ELSE call' = [call EXCEPT ![k].step = "DISCARD"] /\ UNCHANGED <<statut, row>>
  /\ UNCHANGED <<files, used, backup, backups, lost>>

\* The transaction throws and is undone; or it is committed and nobody knows.
Throw(k) ==
  /\ Ready(k) /\ call' = [call EXCEPT ![k].step = "DISCARD"]
  /\ UNCHANGED <<statut, row, files, used, backup, backups, lost>>

CommitUnheard(k) ==
  LET c == call[k] IN
  /\ Ready(k) /\ lost < MaxLost /\ lost' = lost + 1 /\ Accepts(c.op, c.value, statut)
  /\ row' = Recorded(k) /\ statut' = (IF c.op \in {"CREATE", "STATUT"} THEN c.value ELSE statut)
  /\ call' = [call EXCEPT ![k].step = "DISCARD"]
  /\ UNCHANGED <<files, used, backup, backups>>

\* Each file removed, or left as an orphan when that fails.
Discard(k, d, removed) ==
  /\ In(k, "DISCARD") /\ d \in Staged(k)
  /\ files' = (IF removed THEN files \ {d} ELSE files)
  /\ call' = [call EXCEPT ![k].file[d] = None]
  /\ UNCHANGED <<statut, row, used, backup, backups, lost>>

Refuse(k) ==
  /\ In(k, "DISCARD") /\ Staged(k) = {} /\ call' = [call EXCEPT ![k] = None]
  /\ UNCHANGED <<statut, row, files, used, backup, backups, lost>>

\* The server stops: what it was doing is forgotten.
Crash ==
  /\ \E k \in Calls : ~Free(k)
  /\ call' = [k \in Calls |-> None]
  /\ UNCHANGED <<statut, row, files, used, backup, backups, lost>>

-----------------------------------------------------------------------------
(* Backup and restore *)

\* The database, in one snapshot.
Dump ==
  /\ backup = None /\ backups < MaxBackups /\ backups' = backups + 1
  /\ backup' = [statut |-> statut, row |-> row, copied |-> None]
  /\ UNCHANGED <<statut, row, files, used, call, lost>>

\* Then the directory: a file is never written again, nor a current one removed.
CopyFiles ==
  /\ backup # None /\ backup.copied = None /\ backup' = [backup EXCEPT !.copied = files]
  /\ UNCHANGED <<statut, row, files, used, call, backups, lost>>

\* The server is lost, and set up again from the backup.
Restore ==
  /\ backup # None /\ backup.copied # None
  /\ statut' = backup.statut /\ row' = backup.row /\ files' = backup.copied
  /\ call' = [k \in Calls |-> None] /\ backup' = None
  /\ UNCHANGED <<used, backups, lost>>

-----------------------------------------------------------------------------
Next ==
  \/ \E k \in Calls :
       \/ \E s \in STATUTS : Ask(k, "CREATE", s) \/ Ask(k, "STATUT", s)
       \/ Ask(k, "CONTACT", None) \/ \E t \in TYPES : Ask(k, "ADD", t)
       \/ Stage(k) \/ FailStage(k) \/ Commit(k) \/ Throw(k) \/ CommitUnheard(k) \/ Refuse(k)
       \/ \E d \in Documents, removed \in BOOLEAN : Discard(k, d, removed)
  \/ Crash \/ Dump \/ CopyFiles \/ Restore

Spec == Init /\ [][Next]_vars

-----------------------------------------------------------------------------
(* Properties *)

(* "Never a row without its file": through refusals, failures and stops at any    *)
(* step, and after a restore of a backup taken while documents were added.  Not   *)
(* so once a commit was not heard of: its files are removed.                     *)
RowHasItsFile == lost = 0 => \A d \in Documents : row[d] # None => d \in files

(* "No account exists without them" (D-33), one current document of a type: the   *)
(* seller has those of his statut, though statuts, contacts and documents change  *)
(* at the same time.                                                         *)
HasItsDocuments ==
  statut # None => \A t \in requiredDocumentsFor(statut) :
    Cardinality({d \in Documents : row[d] # None /\ row[d].type = t /\ ~row[d].replaced}) = 1
=============================================================================
