-------------------------------- MODULE Station --------------------------------
(***************************************************************************)
(* The depot's scan station: one person's page sends scan after scan without  *)
(* waiting for the answers, shows each answer as it comes, and offers Annuler *)
(* le dernier scan on its newest green line.  The server notes when it        *)
(* received a scan before it waits for the parcel's row, and holds that row   *)
(* to the end.  Couriers, other stations and the admin move the same parcels.  *)
(*                                                                          *)
(* A parcel is only its place, the three modes that move it with a courier     *)
(* chosen are its three moves: ParcelLifecycle has the rules.                 *)
(***************************************************************************)
EXTENDS Integers, Sequences, SequencesExt

CONSTANTS
  Parcels,
  Scans,       \* the UUIDs drawn, one per code read
  None,
  Window,      \* scanCancelWindowSeconds
  MaxNow,      \* bound: the clock
  MaxOthers,   \* bound: events of anybody else
  HISTORY_SIZE

StationAssumption ==
  /\ None \notin Scans
  /\ Window \in Nat /\ MaxNow \in Nat /\ MaxOthers \in Nat
  /\ HISTORY_SIZE \in Nat \ {0}

VARIABLES
  now,
  parcel,      \* per parcel: its place, the scan its last event names or "AUTRE",
               \*   and how many events it has
  request,     \* per scan: NONE, SENT, RECEIVED, ANSWERED, CLOSED
  scan,        \* its row: parcel, mode, receivedAt, accepted, by whom cancelled, the
               \*   place before it, the number of its event among all and (history)
               \*   among its parcel's; a refused one keeps nothing anybody reads
  sequence,    \* of parcel_events
  answer,      \* per scan, on its way to the page: what is left of the window
  history,     \* the page's lines, newest first
  asking,      \* Annuler: the line's scan and how far its request is, or None
  others

vars == <<now, parcel, request, scan, sequence, answer, history, asking, others>>

Modes == {"ENTREE_DEPOT", "SORTIE_COURSIER", "RETOUR_DE_TOURNEE"}
Places == {"RAMASSEUR", "DEPOT", "LIVREUR", "CLIENT"}
NoScan == [parcel |-> None, mode |-> None, receivedAt |-> 0, accepted |-> FALSE,
           cancelledBy |-> None, before |-> None, sequence |-> 0, nth |-> 0]

TypeOK ==
  /\ now \in 0..MaxNow
  /\ parcel \in [Parcels -> [place: Places, last: Scans \union {"AUTRE"}, events: Nat]]
  /\ request \in [Scans -> {"NONE", "SENT", "RECEIVED", "ANSWERED", "CLOSED"}]
  /\ scan \in [Scans -> [parcel: Parcels \union {None}, mode: Modes \union {None},
                         receivedAt: 0..MaxNow, accepted: BOOLEAN, cancelledBy: {None, "LUI", "ADMIN"},
                         before: Places \union {None}, sequence: Nat, nth: Nat]]
  /\ sequence \in Nat
  /\ answer \in [Scans -> Int]
  /\ history \in Seq([scan: Scans, accepted: BOOLEAN, cancelled: BOOLEAN, deadline: Int])
  /\ Len(history) <= HISTORY_SIZE
  /\ asking \in {None} \union [scan: Scans, step: {"SENT", "DONE", "REFUSED"}]
  /\ others \in 0..MaxOthers

Init ==
  /\ now = 0
  /\ parcel \in [Parcels -> {[place |-> "RAMASSEUR", last |-> "AUTRE", events |-> 1]}]
  /\ request = [s \in Scans |-> "NONE"]
  /\ scan = [s \in Scans |-> NoScan]
  /\ sequence = 0
  /\ answer = [s \in Scans |-> 0]
  /\ history = <<>>
  /\ asking = None
  /\ others = 0

-----------------------------------------------------------------------------
From(mode) == CASE mode = "ENTREE_DEPOT" -> "RAMASSEUR"
                [] mode = "SORTIE_COURSIER" -> "DEPOT"
                [] mode = "RETOUR_DE_TOURNEE" -> "LIVREUR"
To(mode) == IF mode = "SORTIE_COURSIER" THEN "LIVREUR" ELSE "DEPOT"

Event(p, place, named) ==
  /\ parcel' = [parcel EXCEPT ![p] = [place |-> place, last |-> named, events |-> @.events + 1]]
  /\ sequence' = sequence + 1

Tick ==
  /\ now < MaxNow
  /\ now' = now + 1
  /\ UNCHANGED <<parcel, request, scan, sequence, answer, history, asking, others>>

(* A code read: the gun or the hand as often as it is, the camera after its    *)
(* repeat window.  The next read does not wait for this one's answer.         *)
Send(s, p, mode) ==
  /\ request[s] = "NONE"
  /\ request' = [request EXCEPT ![s] = "SENT"]
  /\ scan' = [scan EXCEPT ![s].parcel = p, ![s].mode = mode]
  /\ UNCHANGED <<now, parcel, sequence, answer, history, asking, others>>

(* The transaction starts: the clock is read, then the parcel's row waited for. *)
Receive(s) ==
  /\ request[s] = "SENT"
  /\ request' = [request EXCEPT ![s] = "RECEIVED"]
  /\ scan' = [scan EXCEPT ![s].receivedAt = now]
  /\ UNCHANGED <<now, parcel, sequence, answer, history, asking, others>>

(* The row locked, read, moved, and all of it committed, refused or not. *)
Record(s) ==
  /\ request[s] = "RECEIVED"
  /\ LET p == scan[s].parcel
         accepted == parcel[p].place = From(scan[s].mode)
     IN  /\ IF accepted THEN Event(p, To(scan[s].mode), s) ELSE UNCHANGED <<parcel, sequence>>
         /\ scan' = [scan EXCEPT ![s] =
                       IF accepted THEN [@ EXCEPT !.accepted = TRUE, !.mode = None,
                                           !.before = parcel[p].place, !.sequence = sequence + 1,
                                           !.nth = parcel[p].events + 1]
                                   ELSE NoScan]
         /\ answer' = [answer EXCEPT ![s] = IF accepted THEN scan[s].receivedAt + Window - now ELSE 0]
  /\ request' = [request EXCEPT ![s] = "ANSWERED"]
  /\ UNCHANGED <<now, history, asking, others>>

(* Answers come in any order.  The page counts what is left on its own clock. *)
Show(s) ==
  /\ request[s] = "ANSWERED"
  /\ request' = [request EXCEPT ![s] = "CLOSED"]
  /\ answer' = [answer EXCEPT ![s] = 0]
  /\ LET line == [scan |-> s, accepted |-> scan[s].accepted, cancelled |-> FALSE,
                  deadline |-> IF scan[s].accepted THEN now + answer[s] ELSE 0]
         lines == <<line>> \o history
     IN  history' = SubSeq(lines, 1, IF Len(lines) > HISTORY_SIZE THEN HISTORY_SIZE ELSE Len(lines))
  /\ UNCHANGED <<now, parcel, scan, sequence, asking, others>>

(* No answer, before or after the server recorded the scan: nothing is shown.  *)
Lose(s) ==
  /\ request[s] \in {"SENT", "ANSWERED"}
  /\ request' = [request EXCEPT ![s] = "CLOSED"]
  /\ answer' = [answer EXCEPT ![s] = 0]
  /\ UNCHANGED <<now, parcel, scan, sequence, history, asking, others>>

-----------------------------------------------------------------------------
(* Annuler le dernier scan.                                                  *)

Green(i) == history[i].accepted /\ ~history[i].cancelled
Newest(i) == Green(i) /\ \A j \in 1..(i - 1) : ~Green(j)

ClickAnnuler ==
  /\ asking = None
  /\ \E i \in DOMAIN history :
       /\ Newest(i)
       /\ history[i].deadline > now
       /\ asking' = [scan |-> history[i].scan, step |-> "SENT"]
  /\ UNCHANGED <<now, parcel, request, scan, sequence, answer, history, others>>

(* His accepted scans, not cancelled, received with this one or later ... *)
Candidates(s) == {t \in Scans : scan[t].accepted /\ scan[t].cancelledBy = None
                                 /\ scan[t].receivedAt >= scan[s].receivedAt}
(* ... and the one among them whose event came last. *)
IsLatestOfActor(s) == \A t \in Candidates(s) : scan[t].sequence <= scan[s].sequence
ParcelUnchangedSince(s) == parcel[scan[s].parcel].last = s

DepotScanCancelRefusal(s) ==
  \/ scan[s].cancelledBy # None
  \/ ~IsLatestOfActor(s)
  \/ now - scan[s].receivedAt > Window
  \/ ~ParcelUnchangedSince(s)

RestoreBeforeScan(s, person) ==
  /\ Event(scan[s].parcel, scan[s].before, s)
  /\ scan' = [scan EXCEPT ![s].cancelledBy = person]

Cancel ==
  /\ asking # None /\ asking.step = "SENT"
  /\ ~DepotScanCancelRefusal(asking.scan)
  /\ RestoreBeforeScan(asking.scan, "LUI")
  /\ asking' = [asking EXCEPT !.step = "DONE"]
  /\ UNCHANGED <<now, request, answer, history, others>>

(* "Asked again, it answers the same": the answer of his first click was lost. *)
CancelAgain ==
  /\ asking # None /\ asking.step = "SENT"
  /\ scan[asking.scan].cancelledBy = "LUI"
  /\ asking' = [asking EXCEPT !.step = "DONE"]
  /\ UNCHANGED <<now, parcel, request, scan, sequence, answer, history, others>>

CancelRefused ==
  /\ asking # None /\ asking.step = "SENT"
  /\ scan[asking.scan].cancelledBy # "LUI" /\ DepotScanCancelRefusal(asking.scan)
  /\ asking' = [asking EXCEPT !.step = "REFUSED"]
  /\ UNCHANGED <<now, parcel, request, scan, sequence, answer, history, others>>

ShowCancelled ==
  /\ asking # None /\ asking.step \in {"DONE", "REFUSED"}
  /\ history' = IF asking.step = "REFUSED" THEN history
                ELSE [i \in DOMAIN history |->
                        IF history[i].scan = asking.scan
                          THEN [history[i] EXCEPT !.cancelled = TRUE] ELSE history[i]]
  /\ asking' = None
  /\ UNCHANGED <<now, parcel, request, scan, sequence, answer, others>>

LoseCancel ==
  /\ asking # None
  /\ asking' = None
  /\ UNCHANGED <<now, parcel, request, scan, sequence, answer, history, others>>

-----------------------------------------------------------------------------
(* Anybody else.                                                             *)

(* After the window, the admin cancels any scan that is its parcel's last event. *)
CancelByAdmin(s) ==
  /\ others < MaxOthers
  /\ scan[s].accepted /\ scan[s].cancelledBy = None
  /\ parcel[scan[s].parcel].last = s
  /\ RestoreBeforeScan(s, "ADMIN")
  /\ others' = others + 1
  /\ UNCHANGED <<now, request, answer, history, asking>>

(* An event that moves the parcel, or, a plan of Tournees, that does not. *)
OtherEvent(p, place) ==
  /\ others < MaxOthers
  /\ place = parcel[p].place \/ <<parcel[p].place, place>> \in
       {<<"RAMASSEUR", "DEPOT">>, <<"DEPOT", "LIVREUR">>, <<"LIVREUR", "DEPOT">>, <<"LIVREUR", "CLIENT">>}
  /\ Event(p, place, "AUTRE")
  /\ others' = others + 1
  /\ UNCHANGED <<now, request, scan, answer, history, asking>>

Next ==
  \/ Tick
  \/ \E s \in Scans, p \in Parcels, mode \in Modes : Send(s, p, mode)
  \/ \E s \in Scans : Receive(s) \/ Record(s) \/ Show(s) \/ Lose(s) \/ CancelByAdmin(s)
  \/ ClickAnnuler \/ Cancel \/ CancelAgain \/ CancelRefused
  \/ ShowCancelled \/ LoseCancel
  \/ \E p \in Parcels, place \in Places : OtherEvent(p, place)

Spec == Init /\ [][Next]_vars

-----------------------------------------------------------------------------

(* "Green, or red with the reason" (D-53): a line says of its scan what the    *)
(* server did, whatever the order of the answers; one shown cancelled is.     *)
LinesAreTrue ==
  \A i \in DOMAIN history :
    LET s == history[i].scan IN
      /\ history[i].accepted = scan[s].accepted
      /\ history[i].cancelled => scan[s].cancelledBy = "LUI"

(* "Only while nothing has happened to the parcel since that scan" (D-54): a   *)
(* cancellation, his or the admin's, follows its scan's event at once and puts *)
(* the parcel back where that scan found it, once.                           *)
UndoesItsScanAlone ==
  \A s \in Scans : scan'[s].cancelledBy # scan[s].cancelledBy =>
    /\ scan[s].accepted /\ scan[s].cancelledBy = None
    /\ parcel[scan[s].parcel].events = scan[s].nth
    /\ parcel'[scan[s].parcel].place = scan[s].before
    /\ \A p \in Parcels \ {scan[s].parcel} : parcel'[p] = parcel[p]

(* "His last accepted scan" (D-54): none that both was received after it and   *)
(* moved its parcel after it stays behind.                                   *)
LastOnBothCounts ==
  \A s \in Scans : scan'[s].cancelledBy = "LUI" /\ scan[s].cancelledBy = None =>
    \A t \in Scans : scan[t].accepted /\ scan[t].cancelledBy = None =>
      scan[t].receivedAt < scan[s].receivedAt \/ scan[t].sequence <= scan[s].sequence

CancelsTheLast == [][UndoesItsScanAlone /\ LastOnBothCounts]_vars

(* Not so: "the latest is the one whose event came last"                       *)
(* (depot-scans.service.ts:428).  A scan received first and recorded last is   *)
(* not among those compared: the one before it is taken for the last.         *)
LatestByEvent ==
  [][\A s \in Scans : scan'[s].cancelledBy = "LUI" /\ scan[s].cancelledBy = None =>
       \A t \in Scans : scan[t].accepted /\ scan[t].cancelledBy = None =>
         scan[t].sequence <= scan[s].sequence]_vars
================================================================================
