------------------------------- MODULE BonRetour -------------------------------
(***************************************************************************)
(* The bons de retour of a seller: money/bons-retour.service.ts (the station  *)
(* prepares them, the ramasseur's scans receive them), bon-handover.service.ts *)
(* (handOut, archiveFromScan), bon-corrections.service.ts                    *)
(* (correctBonRetourLine) and what closing a ramasseur's caisse brings back   *)
(* (caisse.service.ts, bringBack).                                          *)
(*                                                                          *)
(* A scan holds its parcel, but finds the open bon, or the other lines of a   *)
(* bon, without a lock: reading and writing are two steps.  So are the two    *)
(* ends of a closing.  The other transactions hold the bon: one step.        *)
(* Left out: the visit a prepared bon waits for, numbers, notifications.      *)
(***************************************************************************)
EXTENDS Integers, FiniteSets

CONSTANTS Parcels,    \* returns of one seller
          Articles,   \* those that are the old item of a delivered echange
          Bons,       \* bound: rows of bons_retour
          Ramasseurs,
          LastDay,    \* bound: business days
          MaxTrips,   \* bound: hand-outs
          MaxCorrections, \* bound: corrections by the admin
          None

Days == 1..LastDay

(* crossed is history: a transaction wrote the bon on a reading of it that no  *)
(* longer held.                                                             *)
Bon == [status: {"PREPARE", "EN_ROUTE", "REMIS", "ARCHIVE"},
        ramasseur: Ramasseurs \cup {None}, crossed: BOOLEAN]

\* A row of bon_retour_parcels; by and day are those of the scan that received it.
Line == [received: BOOLEAN, by: Ramasseurs \cup {None}, day: Days \cup {0}]

(* What the module assumes of its constants: None is no ramasseur and no bon,     *)
(* and no row of one.                                                        *)
BonRetourAssumption ==
  /\ Articles \subseteq Parcels /\ LastDay \in Nat \ {0}
  /\ MaxTrips \in Nat /\ MaxCorrections \in Nat
  /\ None \notin Ramasseurs \cup Bons \cup Bon \cup Line

VARIABLES
  today,
  place,     \* the status of a return, or of the old item (exchange_item_status)
  bon,
  line,      \* the lines of each bon
  fresh,     \* parcels whose last event is their Preparation retours scan
  session,   \* the status of each ramasseur's caisse of a day
  preparing, \* a Preparation retours scan that has found its bon; it holds the seller
  receiving, \* the Retour recu scan under way for a parcel
  closing,   \* the Cloturer under way: the lines it read
  trips, corrections

vars == <<today, place, bon, line, fresh, session, preparing, receiving, closing,
          trips, corrections>>

Places  == {"RETOUR_AU_DEPOT", "RETOUR_EN_ROUTE", "RETOUR_RECU"}

TypeOK ==
  /\ today \in Days /\ trips \in 0..MaxTrips /\ corrections \in 0..MaxCorrections
  /\ place \in [Parcels -> Places] /\ fresh \subseteq Parcels
  /\ bon \in [Bons -> Bon \cup {None}]
  /\ line \in [Bons -> [Parcels -> Line \cup {None}]]
  /\ session \in [Ramasseurs -> [Days -> {"NON", "OUVERTE", "CLOTUREE"}]]
  /\ preparing \in [parcel: Parcels, bon: Bons \cup {None}] \cup {None}
  /\ receiving \in [Parcels -> [bon: Bons, by: Ramasseurs, day: Days, complete: BOOLEAN]
                               \cup {None}]
  /\ closing \in [Ramasseurs -> [Days -> [Bons -> SUBSET Parcels] \cup {None}]]

Init ==
  /\ today = 1 /\ trips = 0 /\ corrections = 0
  /\ place = [p \in Parcels |-> "RETOUR_AU_DEPOT"] /\ fresh = {}
  /\ bon = [b \in Bons |-> None]
  /\ line = [b \in Bons |-> [p \in Parcels |-> None]]
  /\ session = [r \in Ramasseurs |-> [d \in Days |-> "NON"]]
  /\ preparing = None /\ receiving = [p \in Parcels |-> None]
  /\ closing = [r \in Ramasseurs |-> [d \in Days |-> None]]

Is(b, status)  == bon[b] # None /\ bon[b].status = status
On(b)          == {p \in Parcels : line[b][p] # None}
Pending(b)     == {p \in On(b) : ~line[b][p].received}
Expected       == [received |-> FALSE, by |-> None, day |-> 0]

\* A transaction holds the parcel's row.
Locked(p) == receiving[p] # None \/ (preparing # None /\ preparing.parcel = p)

NextDay ==
  /\ today < LastDay /\ today' = today + 1
  /\ UNCHANGED <<place, bon, line, fresh, session, preparing, receiving, closing, trips, corrections>>

-----------------------------------------------------------------------------
(* Preparation retours *)

\* OPEN_LINE: still to hand over, its bon Prepare or En route.
OpenLine(b, p) == p \in Pending(b) /\ (Is(b, "PREPARE") \/ Is(b, "EN_ROUTE"))

(* A return may be on one open line, an old item on one line ever.             *)
OnBon(p) == \E b \in Bons : IF p \in Articles THEN p \in On(b) ELSE OpenLine(b, p)

(* The parcel is held, then the seller; the newest bon Prepare is read, not    *)
(* held (any of them here).                                                *)
ReadPrepare(p) ==
  /\ preparing = None /\ ~Locked(p)
  /\ place[p] = "RETOUR_AU_DEPOT" /\ ~OnBon(p)
  /\ LET open == {b \in Bons : Is(b, "PREPARE")} IN
     \E b \in (IF open = {} THEN {None} ELSE open) :
       preparing' = [parcel |-> p, bon |-> b]
  /\ UNCHANGED <<today, place, bon, line, fresh, session, receiving, closing, trips, corrections>>

NewBon(b) ==
  /\ preparing.bon = None /\ bon[b] = None
  /\ bon' = [bon EXCEPT ![b] = [status |-> "PREPARE", ramasseur |-> None, crossed |-> FALSE]]

JoinBon(b) ==
  /\ preparing.bon = b
  /\ bon' = [bon EXCEPT ![b].crossed = @ \/ ~Is(b, "PREPARE")]

WritePrepare(b) ==
  /\ preparing # None /\ (NewBon(b) \/ JoinBon(b))
  /\ line' = [line EXCEPT ![b][preparing.parcel] = Expected]
  /\ fresh' = fresh \cup {preparing.parcel}
  /\ preparing' = None
  /\ UNCHANGED <<today, place, session, receiving, closing, trips, corrections>>

(* The scan is cancelled: the parcel's last event is still its own; a hand-out *)
(* of an old item writes no event.                                          *)
Unprepare(b, p) ==
  /\ p \in fresh /\ ~Locked(p) /\ Is(b, "PREPARE") /\ p \in Pending(b)
  /\ line' = [line EXCEPT ![b][p] = None]
  /\ fresh' = fresh \ {p}
  /\ UNCHANGED <<today, place, bon, session, preparing, receiving, closing, trips, corrections>>

-----------------------------------------------------------------------------
(* On the way *)

Move(parcels, where) == [p \in Parcels |-> IF p \in parcels THEN where ELSE place[p]]

(* handOut: the ramasseur's caisse of today is held and open; each return must  *)
(* be at the depot, an old item is not looked at.                            *)
HandOut(b, r) ==
  /\ trips < MaxTrips /\ trips' = trips + 1
  /\ closing[r][today] = None /\ session[r][today] # "CLOTUREE"
  /\ Is(b, "PREPARE") /\ Pending(b) # {}
  /\ \A p \in Pending(b) : ~Locked(p) /\ (p \in Articles \/ place[p] = "RETOUR_AU_DEPOT")
  /\ place' = Move(Pending(b), "RETOUR_EN_ROUTE")
  /\ fresh' = fresh \ (Pending(b) \ Articles)
  /\ bon' = [bon EXCEPT ![b].status = "EN_ROUTE", ![b].ramasseur = r]
  /\ session' = [session EXCEPT ![r][today] = "OUVERTE"]
  /\ UNCHANGED <<today, line, preparing, receiving, closing, corrections>>

\* bonRetourComplete, the scanned line counted as received.
CompleteWith(b, p) == Pending(b) \subseteq {p}

(* A Retour recu scan, perhaps of an earlier day, finds the line on a bon he    *)
(* carries; the lines of the bon are read at the end.                        *)
ReadReceive(b, p, r, day) ==
  /\ day <= today /\ ~Locked(p)
  /\ Is(b, "EN_ROUTE") /\ bon[b].ramasseur = r /\ p \in Pending(b)
  /\ p \in Articles \/ place[p] = "RETOUR_EN_ROUTE"
  /\ receiving' = [receiving EXCEPT ![p] =
       [bon |-> b, by |-> r, day |-> day, complete |-> CompleteWith(b, p)]]
  /\ UNCHANGED <<today, place, bon, line, fresh, session, preparing, closing, trips, corrections>>

WriteReceive(p) ==
  /\ receiving[p] # None
  /\ LET scan == receiving[p]  b == scan.bon IN
     /\ place' = Move({p}, "RETOUR_RECU") /\ fresh' = fresh \ ({p} \ Articles)
     /\ line' = [line EXCEPT ![b][p] = [received |-> TRUE, by |-> scan.by, day |-> scan.day]]
     /\ bon' = [bon EXCEPT ![b].status = IF scan.complete THEN "REMIS" ELSE @,
          ![b].crossed = @ \/ ~Is(b, "EN_ROUTE") \/ scan.complete # CompleteWith(b, p)]
  /\ receiving' = [receiving EXCEPT ![p] = None]
  /\ UNCHANGED <<today, session, preparing, closing, trips, corrections>>

\* Archivage bons: the signed copy is back.
Archive(b) ==
  /\ Is(b, "REMIS") /\ bon' = [bon EXCEPT ![b].status = "ARCHIVE"]
  /\ UNCHANGED <<today, place, line, fresh, session, preparing, receiving, closing, trips, corrections>>

-----------------------------------------------------------------------------
(* The ramasseur's caisse of a day is closed *)

\* All the bons he carries, whatever the day he took them.
ReadClose(r, d) ==
  /\ d <= today /\ session[r][d] = "OUVERTE" /\ closing[r][d] = None
  /\ closing' = [closing EXCEPT ![r][d] =
       [b \in Bons |-> IF Is(b, "EN_ROUTE") /\ bon[b].ramasseur = r THEN Pending(b) ELSE {}]]
  /\ UNCHANGED <<today, place, bon, line, fresh, session, preparing, receiving, trips, corrections>>

\* Mutant of BroughtBack: the old items stay on the way.
BroughtBackColisOnly(r, d) == UNION {closing[r][d][b] : b \in Bons} \ Articles

BroughtBack(r, d) == UNION {closing[r][d][b] : b \in Bons}

Crossed(b, r, d) == bon[b].crossed \/ ~Is(b, "EN_ROUTE") \/ Pending(b) # closing[r][d][b]

(* Each line read not received goes back to the depot, a return only from the  *)
(* way (else the closing throws), an old item always; their bons are Prepare.  *)
WriteClose(r, d) ==
  /\ closing[r][d] # None
  /\ \A p \in BroughtBack(r, d) :
       ~Locked(p) /\ (p \in Articles \/ place[p] = "RETOUR_EN_ROUTE")
  /\ place' = Move(BroughtBack(r, d), "RETOUR_AU_DEPOT")
  /\ fresh' = fresh \ (BroughtBack(r, d) \ Articles)
  /\ bon' = [b \in Bons |->
       IF closing[r][d][b] # {}
       THEN [bon[b] EXCEPT !.status = "PREPARE", !.ramasseur = None, !.crossed = Crossed(b, r, d)]
       ELSE IF On(b) \cap BroughtBack(r, d) # {} THEN [bon[b] EXCEPT !.crossed = TRUE]
       ELSE bon[b]]
  /\ session' = [session EXCEPT ![r][d] = "CLOTUREE"]
  /\ closing' = [closing EXCEPT ![r][d] = None]
  /\ UNCHANGED <<today, line, preparing, receiving, trips, corrections>>

AbortClose(r, d) ==
  /\ closing[r][d] # None /\ closing' = [closing EXCEPT ![r][d] = None]
  /\ UNCHANGED <<today, place, bon, line, fresh, session, preparing, receiving, trips, corrections>>

-----------------------------------------------------------------------------
(* A line scanned Retour recu by mistake *)

\* The caisse of the scan's day is closed.
CaisseClosed(b, p) == session[line[b][p].by][line[b][p].day] = "CLOTUREE"

Carried(b) == Is(b, "EN_ROUTE") \/ Is(b, "REMIS")

\* Mutant of Reopened: the line stays received.
ReopenedStillReceived(b, p) == line

\* The line waits for its receipt again.
Reopened(b, p) == [line EXCEPT ![b][p] = Expected]

\* bonRetourLineCorrection: back with the ramasseur, or at the depot.
WithRamasseur(b, p) == ~CaisseClosed(b, p) /\ Carried(b) /\ bon[b].ramasseur = line[b][p].by

CorrectLine(b, p) ==
  /\ corrections < MaxCorrections /\ corrections' = corrections + 1
  /\ bon[b] # None /\ ~Is(b, "ARCHIVE") /\ p \in On(b) \ Pending(b) /\ ~Locked(p)
  /\ p \in Articles \/ place[p] = "RETOUR_RECU"
  /\ IF WithRamasseur(b, p)
     THEN /\ place' = Move({p}, "RETOUR_EN_ROUTE")
          /\ bon' = [bon EXCEPT ![b].status = "EN_ROUTE"]
     ELSE /\ ~Is(b, "EN_ROUTE")
          /\ place' = Move({p}, "RETOUR_AU_DEPOT")
          /\ bon' = [bon EXCEPT ![b].status = "PREPARE", ![b].ramasseur = None]
  /\ line' = Reopened(b, p)
  /\ fresh' = fresh \ {p}
  /\ UNCHANGED <<today, session, preparing, receiving, closing, trips>>

-----------------------------------------------------------------------------
ScanStep ==
  \/ \E p \in Parcels : ReadPrepare(p) \/ WriteReceive(p)
  \/ \E b \in Bons, p \in Parcels : Unprepare(b, p) \/ CorrectLine(b, p)
  \/ \E b \in Bons, p \in Parcels, r \in Ramasseurs, day \in Days : ReadReceive(b, p, r, day)
  \/ \E b \in Bons : WritePrepare(b) \/ Archive(b)

TripStep ==
  \/ \E b \in Bons, r \in Ramasseurs : HandOut(b, r)
  \/ \E r \in Ramasseurs, d \in Days : ReadClose(r, d) \/ WriteClose(r, d) \/ AbortClose(r, d)

Next == NextDay \/ ScanStep \/ TripStep

Spec == Init /\ [][Next]_vars

-----------------------------------------------------------------------------
(* Properties *)

WhereItsLineSays(b, p) ==
  place[p] = IF line[b][p].received THEN "RETOUR_RECU"
             ELSE IF Is(b, "PREPARE") THEN "RETOUR_AU_DEPOT" ELSE "RETOUR_EN_ROUTE"

(* Hand-outs, receipts, corrections, a bon brought back and out again, an old   *)
(* item of an echange on the same bon: as long as no two transactions crossed   *)
(* on its bons, each item is where its last line says, a bon on the way has     *)
(* something to hand over and a bon Remis has nothing left (D-81, D-88).        *)
ReturnFollowsItsBon ==
  \A p \in Parcels :
    LET mine == {b \in Bons : p \in On(b)} IN
    (\A b \in mine : ~bon[b].crossed /\ receiving[p] = None) =>
      \A b \in mine :
        /\ p \in Pending(b) => WhereItsLineSays(b, p)
        /\ Is(b, "EN_ROUTE") => Pending(b) # {}
        /\ Carried(b) /\ ~Is(b, "EN_ROUTE") => Pending(b) = {}

(* However scans, closings and corrections cross: a return is given back to    *)
(* its seller exactly when one line, and one only, was received for it.        *)
ReceivedOnOneLine ==
  \A p \in Parcels \ Articles :
    Cardinality({b \in Bons : p \in On(b) \ Pending(b)})
      = IF place[p] = "RETOUR_RECU" THEN 1 ELSE 0

(* "The bon is Remis once every line is received".  Not so: two last lines      *)
(* received together each see the other as missing.                           *)
RemisOnceReceived ==
  \A b \in Bons : Is(b, "EN_ROUTE") => Pending(b) # {}

(* "at his Cloturer, each line not received goes back": his Cloturer of the     *)
(* day he carried it.  Not so: closing an earlier day brings back, on paper,    *)
(* what he carries today.                                                  *)
CarriedUntilItsDayCloses ==
  [][\A r \in Ramasseurs, d \in Days :
       session[r][d] = "OUVERTE" /\ session'[r][d] = "CLOTUREE" /\ d < today
         => \A b \in Bons : Is(b, "EN_ROUTE") /\ bon[b].ramasseur = r => bon'[b] = bon[b]]_vars
=============================================================================
