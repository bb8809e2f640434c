-------------------------------- MODULE Caisse --------------------------------
(***************************************************************************)
(* The livreurs' caisses (money/caisse.service.ts, packages/shared caisse.ts):*)
(* one session per livreur and business day, counted and closed on its own.  *)
(* What a session expects is read each time from the Livre scans and the      *)
(* parcels' cash; courier/courier-scans.service.ts cancels such a scan and    *)
(* parcels/parcel-event.service.ts undoes a delivery.                        *)
(*                                                                          *)
(* Compter and Cloturer lock their session only.  What they read of the      *)
(* parcels may have moved when they write: each is a reading step and a       *)
(* writing step.  Every parcel has the same cash to collect, so an amount is  *)
(* a number of parcels; the bons a ramasseur carries are in BonVersement.     *)
(***************************************************************************)
EXTENDS Integers, Sequences, FiniteSets

CONSTANTS Parcels,   \* delivered against cash
          Livreurs,
          LastDay,   \* bound: today; the caisses of today stay open
          MaxScans,  \* bound: Livre scans standing at once
          MaxBusy,   \* bound: counts and closings under way at once
          MaxCounts, \* bound: counts started
          Amounts,   \* bound: the amounts a courier may hand over
          None

\* What the module assumes of its constants.
CaisseAssumption ==
  /\ LastDay \in Nat \ {0} /\ MaxScans \in Nat
  /\ MaxBusy \in Nat /\ MaxCounts \in Nat
  /\ Amounts \subseteq Nat /\ IsFiniteSet(Parcels) /\ None \notin Livreurs

Days == 1..LastDay

CaisseSessionStatus == {"OUVERTE", "COMPTEE", "CLOTUREE"}

(* A row of caisse_sessions with its lines, its debt and its flag.  No row is  *)
(* an open one (caisseDayStatus).  moved is history: the parcels whose cash    *)
(* its closing moved to the depot.                                          *)
Session == [status: CaisseSessionStatus, lines: SUBSET Parcels,
            expected: Nat, counted: Nat, moved: SUBSET Parcels,
            debt: {"NULL", "EN_COURS", "ANNULEE"}, ecart: {"NULL", "A_VERIFIER", "VERIFIE"}]

(* Out for delivery, or delivered with its cash with the courier or at the     *)
(* depot; holder is the livreur who has the cash.                            *)
Parcel == [cash: {"NULL"}, holder: {None}]
            \cup [cash: {"CHEZ_LE_COURSIER", "AU_DEPOT"}, holder: Livreurs]

Scan == [parcel: Parcels, livreur: Livreurs, day: Days]

VARIABLES
  parcel,   \* the cash of each parcel
  livres,   \* accepted Livre scans not cancelled, in the order received
  session,  \* the caisse of a livreur for a day
  work,     \* Compter or Cloturer under way for it: what it read
  counts    \* counts started

vars == <<parcel, livres, session, work, counts>>

TypeOK ==
  /\ parcel \in [Parcels -> Parcel]
  /\ livres \in Seq(Scan) /\ Len(livres) <= MaxScans
  /\ session \in [Livreurs -> [Days -> Session]]
  /\ work \in [Livreurs -> [Days ->
       [op: {"COMPTER", "CLOTURER"}, lines: SUBSET Parcels, counted: Nat] \cup {None}]]
  /\ counts \in 0..MaxCounts

OpenSession == [status |-> "OUVERTE", lines |-> {}, expected |-> 0, counted |-> 0,
                moved |-> {}, debt |-> "NULL", ecart |-> "NULL"]

Init ==
  /\ parcel = [p \in Parcels |-> [cash |-> "NULL", holder |-> None]]
  /\ livres = <<>>
  /\ session = [l \in Livreurs |-> [d \in Days |-> OpenSession]]
  /\ work = [l \in Livreurs |-> [d \in Days |-> None]]
  /\ counts = 0

-----------------------------------------------------------------------------
(* The Livre scans a session expects *)

WithCourier(p) == parcel[p].cash = "CHEZ_LE_COURSIER"
Closed(l, d)   == session[l][d].status = "CLOTUREE"

\* Mutant of caisseLineOrigin: a delivery belongs to its own day only.
caisseLineOriginDayOnly(l, scanDay, sessionDay) == scanDay = sessionDay

\* JOUR: of the session's day; TARDIF: received after its own day was closed.
caisseLineOrigin(l, scanDay, sessionDay) ==
  \/ scanDay = sessionDay
  \/ scanDay < sessionDay /\ Closed(l, scanDay)

\* His scans up to that day of parcels whose cash is with a courier.
HisScans(l, d) == {i \in DOMAIN livres :
  livres[i].livreur = l /\ livres[i].day <= d /\ WithCourier(livres[i].parcel)}

\* The parcel is on the lines of another session.
CountedElsewhere(p, l, d) ==
  \E m \in Livreurs, e \in Days : <<m, e>> # <<l, d>> /\ p \in session[m][e].lines

(* deliveryLines: the last of his scans of each parcel, when its day belongs   *)
(* to this session.                                                         *)
deliveryLines(l, d) ==
  {livres[i].parcel : i \in {i \in HisScans(l, d) :
     /\ \A j \in HisScans(l, d) : livres[j].parcel = livres[i].parcel => j <= i
     /\ ~CountedElsewhere(livres[i].parcel, l, d)
     /\ caisseLineOrigin(l, livres[i].day, d)}}

-----------------------------------------------------------------------------
(* Deliveries, and what takes them back *)

(* The scan carries the phone's day: synced late, it belongs to an earlier     *)
(* day than today, closed or not.                                           *)
Deliver(p, l, d) ==
  /\ parcel[p].cash = "NULL" /\ Len(livres) < MaxScans
  /\ parcel' = [parcel EXCEPT ![p] = [cash |-> "CHEZ_LE_COURSIER", holder |-> l]]
  /\ livres' = Append(livres, [parcel |-> p, livreur |-> l, day |-> d])
  /\ UNCHANGED <<session, work, counts>>

\* The parcel's lines in the sessions still open.
WithoutLinesOf(p) ==
  [l \in Livreurs |-> [d \in Days |->
     IF Closed(l, d) THEN session[l][d] ELSE [session[l][d] EXCEPT !.lines = @ \ {p}]]]

\* Mutant of Back: the cash leaves no holder behind, but the column keeps him.
BackKeepHolder(p) == [parcel EXCEPT ![p].cash = "NULL"]

\* The cash of a delivery taken back.
Back(p) == [parcel EXCEPT ![p] = [cash |-> "NULL", holder |-> None]]

(* cancel of a Livre scan: nothing happened to the parcel since, and the       *)
(* caisse of the scan's day is not closed.                                   *)
CancelLivre(i) ==
  LET scan == livres[i] IN
  /\ WithCourier(scan.parcel) /\ parcel[scan.parcel].holder = scan.livreur
  /\ \A j \in DOMAIN livres : livres[j].parcel = scan.parcel => j <= i
  /\ ~Closed(scan.livreur, scan.day)
  /\ parcel' = Back(scan.parcel)
  /\ livres' = SubSeq(livres, 1, i - 1) \o SubSeq(livres, i + 1, Len(livres))
  /\ session' = WithoutLinesOf(scan.parcel)
  /\ UNCHANGED <<work, counts>>

(* undoDelivery: the parcel goes back out, its lines go; the scan stays, and   *)
(* stays accepted.                                                          *)
UndoDelivery(p) ==
  /\ WithCourier(p)
  /\ parcel' = Back(p) /\ session' = WithoutLinesOf(p)
  /\ UNCHANGED <<livres, work, counts>>

-----------------------------------------------------------------------------
(* Compter and Cloturer *)

Busy == Cardinality({s \in Livreurs \X Days : work[s[1]][s[2]] # None})

\* Compter, and recompter until Cloturer: the session is locked, the scans are read.
ReadCount(l, d, counted) ==
  /\ Busy < MaxBusy /\ work[l][d] = None /\ ~Closed(l, d)
  /\ work' = [work EXCEPT ![l][d] =
       [op |-> "COMPTER", lines |-> deliveryLines(l, d), counted |-> counted]]
  /\ counts < MaxCounts /\ counts' = counts + 1
  /\ UNCHANGED <<parcel, livres, session>>

\* The lines are written anew; a parcel is on one line of all sessions (UNIQUE).
WriteCount(l, d) ==
  /\ work[l][d] # None /\ work[l][d].op = "COMPTER"
  /\ \A p \in work[l][d].lines : ~CountedElsewhere(p, l, d)
  /\ session' = [session EXCEPT ![l][d] =
       [@ EXCEPT !.status = "COMPTEE", !.lines = work[l][d].lines,
                 !.expected = Cardinality(work[l][d].lines), !.counted = work[l][d].counted]]
  /\ work' = [work EXCEPT ![l][d] = None]
  /\ UNCHANGED <<parcel, livres, counts>>

\* Mutant of closeRefusal: only the parcels are compared, not the amount counted against.
closeRefusalParcelsOnly(l, d) ==
  session[l][d].status # "COMPTEE" \/ session[l][d].lines # deliveryLines(l, d)

\* Not counted, or the attendu is no longer what was counted against.
closeRefusal(l, d) ==
  \/ session[l][d].status # "COMPTEE"
  \/ session[l][d].lines # deliveryLines(l, d)
  \/ session[l][d].expected # Cardinality(deliveryLines(l, d))

ReadClose(l, d) ==
  /\ Busy < MaxBusy /\ work[l][d] = None /\ d < LastDay /\ ~closeRefusal(l, d)
  /\ work' = [work EXCEPT ![l][d] =
       [op |-> "CLOTURER", lines |-> session[l][d].lines, counted |-> session[l][d].counted]]
  /\ UNCHANGED <<parcel, livres, session, counts>>

\* recordCashTransition throws on a parcel that is not CHEZ_LE_COURSIER.
CashMoves(lines) == \A p \in lines : WithCourier(p)

(* Each counted parcel's cash goes to the depot; a shortfall is the livreur's   *)
(* debt, a surplus is flagged (caisseCloseOutcome).                          *)
WriteClose(l, d) ==
  /\ work[l][d] # None /\ work[l][d].op = "CLOTURER" /\ CashMoves(work[l][d].lines)
  /\ LET lines == work[l][d].lines  this == session[l][d] IN
     /\ parcel' = [p \in Parcels |-> IF p \in lines THEN [parcel[p] EXCEPT !.cash = "AU_DEPOT"]
                                     ELSE parcel[p]]
     /\ session' = [session EXCEPT ![l][d] =
          [this EXCEPT !.status = "CLOTUREE", !.moved = lines,
                       !.debt  = IF this.counted < this.expected THEN "EN_COURS" ELSE "NULL",
                       !.ecart = IF this.counted > this.expected THEN "A_VERIFIER" ELSE "NULL"]]
  /\ work' = [work EXCEPT ![l][d] = None]
  /\ UNCHANGED <<livres, counts>>

\* A statement throws: nothing was written.
Abort(l, d) ==
  /\ work[l][d] # None /\ work' = [work EXCEPT ![l][d] = None]
  /\ UNCHANGED <<parcel, livres, session, counts>>

\* Verifier un ecart positif, Annuler une dette: once each, by the admin.
CheckEcart(l, d) ==
  /\ session[l][d].ecart = "A_VERIFIER"
  /\ session' = [session EXCEPT ![l][d].ecart = "VERIFIE"]
  /\ UNCHANGED <<parcel, livres, work, counts>>

CancelDebt(l, d) ==
  /\ session[l][d].debt = "EN_COURS"
  /\ session' = [session EXCEPT ![l][d].debt = "ANNULEE"]
  /\ UNCHANGED <<parcel, livres, work, counts>>

-----------------------------------------------------------------------------
ParcelStep ==
  \/ \E p \in Parcels : UndoDelivery(p) \/ (\E l \in Livreurs, d \in Days : Deliver(p, l, d))
  \/ \E i \in DOMAIN livres : CancelLivre(i)

SessionStep(l, d) ==
  \/ \E counted \in Amounts : ReadCount(l, d, counted)
  \/ WriteCount(l, d) \/ ReadClose(l, d) \/ WriteClose(l, d) \/ Abort(l, d)
  \/ CheckEcart(l, d) \/ CancelDebt(l, d)

Next == ParcelStep \/ \E l \in Livreurs, d \in Days : SessionStep(l, d)

Spec == Init /\ [][Next]_vars

-----------------------------------------------------------------------------
(* Properties *)

(* Scans synced, cancelled and undone while a caisse is counted and closed,    *)
(* two caisses closed at once: the cash at the depot is exactly what the       *)
(* closings moved, each parcel by one of them, and each closed caisse was      *)
(* counted against exactly the cash it moved, so that its debt or its surplus  *)
(* is the whole difference (D-79).                                          *)
CashAtDepotWasCounted ==
  /\ \A p \in Parcels :
       Cardinality({s \in Livreurs \X Days : p \in session[s[1]][s[2]].moved})
         = IF parcel[p].cash = "AU_DEPOT" THEN 1 ELSE 0
  /\ \A l \in Livreurs, d \in Days : Closed(l, d) =>
       LET this == session[l][d] IN
       /\ this.expected = Cardinality(this.moved)
       /\ this.debt # "NULL"  <=> this.counted < Cardinality(this.moved)
       /\ this.ecart # "NULL" <=> this.counted > Cardinality(this.moved)

(* A delivery synced after its day was closed, counted and recounted, taken    *)
(* back and made again: the cash a courier holds is always expected by a       *)
(* caisse not yet closed, or on its lines (answer 2: a late scan is counted    *)
(* by the next caisse).                                                     *)
NoCashForgotten ==
  \A p \in Parcels : WithCourier(p) =>
    \E l \in Livreurs, d \in Days :
      ~Closed(l, d) /\ p \in deliveryLines(l, d) \cup session[l][d].lines

(* "his accepted, not cancelled Livre, the cash still with him": a caisse      *)
(* expects of a livreur only cash that he holds.                             *)
ExpectedFromHolder ==
  \A l \in Livreurs, d \in Days : \A p \in deliveryLines(l, d) : parcel[p].holder = l
=============================================================================
