-------------------------------- MODULE Figures --------------------------------
(***************************************************************************)
(* The figures read of the same parcels on several pages: the seller's        *)
(* Tableau de bord (dashboard.service.ts), his Taux de livraison and his À     *)
(* recevoir (seller-money.service.ts), the admin's reports Activité and        *)
(* Argent (reports.service.ts) and the cash not handed over of the Exceptions  *)
(* (exceptions.service.ts).  Some count events, some scans, some rows, by the  *)
(* phone's day or the server's: the steps below are those that make them       *)
(* change apart.  The rows follow ParcelMachine.                             *)
(*                                                                          *)
(* The clock counts days.  One seller; every parcel has one price and the      *)
(* fees another, so amounts are counts.  Left out: creation and pickup, the     *)
(* change of client, cancelled depot scans but the Sortie, the bon's way to     *)
(* the seller between Préparé and Remis.                                    *)
(***************************************************************************)
EXTENDS ParcelMachine, Sequences, FiniteSets

CONSTANTS Parcels,
          LastDay,    \* bound: the clock
          MaxEvents,  \* bound: rows of parcel_events that some figure counts
          MaxBons     \* bound: bons de versement

FiguresAssumption == {LastDay, MaxEvents, MaxBons} \subseteq Nat

Days      == 1..LastDay
EventType == {"SORTIE_COURSIER", "LIVRAISON", "ECHEC_LIVRAISON", "RETOUR"}
NoFee     == "NULL"

(* A row of parcel_events with its scan: day is the phone's for a courier's    *)
(* scan and the server's otherwise, received the server's; RETOUR stands for  *)
(* RETURN_DECIDED_EVENT_TYPES.                                              *)
Event == [type: EventType, parcel: Parcels, by: Livreurs \cup {None}, postponed: BOOLEAN,
          day: Days, received: Days, cancelled: BOOLEAN]

(* A charge, waiting (no bon) or deducted by a bon; the annulled are left out,  *)
(* and two that wait for one parcel and one outcome are one.                  *)
Charge == [parcel: Parcels, type: {"LIVRAISON", "RETOUR"}, bon: 0..MaxBons]

Bon == [status: {"PREPARE", "REMIS", "ANNULE"}, parcels: SUBSET Parcels]

VARIABLES
  today,
  parcel,
  log,      \* the events, oldest first
  charges,
  bon,
  last,     \* the scan that may be cancelled: the row it found, its events, its fee
  undone    \* history: the parcels a delivery of which was undone

vars == <<today, parcel, log, charges, bon, last, undone>>

TypeOK ==
  /\ today \in Days /\ parcel \in [Parcels -> Parcel]
  /\ log \in Seq(Event) /\ Len(log) <= MaxEvents
  /\ charges \subseteq Charge
  /\ bon \in Seq(Bon) /\ Len(bon) <= MaxBons
  /\ last \in [Parcels -> [before: Parcel, first: 1..MaxEvents,
                           fee: {"LIVRAISON", "RETOUR", NoFee}] \cup {None}]
  /\ undone \subseteq Parcels

Init ==
  /\ today = 1
  /\ parcel = [p \in Parcels |-> [NewParcel EXCEPT !.status = "AU_DEPOT", !.location = "AU_DEPOT"]]
  /\ log = <<>> /\ charges = {} /\ bon = <<>>
  /\ last = [p \in Parcels |-> None] /\ undone = {}

Waiting(p, type) == [parcel |-> p, type |-> type, bon |-> 0]
Fee(p, type)     == IF type = NoFee THEN {} ELSE {Waiting(p, type)}

-----------------------------------------------------------------------------
(* What moves a parcel *)

(* One transaction of the event service: the row, its counted events of a day  *)
(* and, with them, a fee.  A scan may be cancelled until the next one.        *)
Moves(p, x, types, by, postponed, day, fee, scanned) ==
  LET Row(type) == [type |-> type, parcel |-> p, by |-> by, postponed |-> postponed,
                    day |-> day, received |-> today, cancelled |-> FALSE]
  IN  /\ Len(log) + Len(types) <= MaxEvents
      /\ parcel' = [parcel EXCEPT ![p] = x]
      /\ log' = log \o [k \in DOMAIN types |-> Row(types[k])]
      /\ charges' = charges \cup Fee(p, fee)
      /\ last' = [last EXCEPT ![p] =
           IF scanned THEN [before |-> parcel[p], first |-> Len(log) + 1, fee |-> fee] ELSE None]
      /\ UNCHANGED <<today, bon, undone>>

SortieCoursier(p, l) ==
  /\ CanSortie(parcel[p])
  /\ Moves(p, Sortie(parcel[p], l), <<"SORTIE_COURSIER">>, None, FALSE, today, NoFee, TRUE)

\* An uncounted event, RETOUR_DE_TOURNEE.
BackAtDepot(p) ==
  /\ CanRetourDeTournee(parcel[p])
  /\ Moves(p, RetourDeTournee(parcel[p]), <<>>, None, FALSE, today, NoFee, FALSE)

\* The days his phone may have scanned on: he has the parcel since it went out.
ScanDays(p) ==
  {d \in Days : d <= today /\ \A i \in DOMAIN log : log[i].parcel = p => log[i].day <= d}

ScanLivre(p, l, d) ==
  /\ CanLivrer(parcel[p], l) /\ d \in ScanDays(p)
  /\ Moves(p, Livrer(parcel[p]), <<"LIVRAISON">>, l, FALSE, d, "LIVRAISON", TRUE)

ScanEchec(p, l, d, postponed) ==
  LET x == parcel[p]
  IN  /\ d \in ScanDays(p)
      /\ \/ /\ ~postponed /\ CanEchec(x, l)
            /\ Moves(p, Echec(x), <<"ECHEC_LIVRAISON">>, l, FALSE, d, NoFee, TRUE)
         \/ /\ postponed /\ CanEchecReporte(x, l)
            /\ Moves(p, EchecReporte(x), <<"ECHEC_LIVRAISON">>, l, TRUE, d, NoFee, TRUE)
         \/ /\ CanEchecFinal(x, l)
            /\ Moves(p, EchecFinal(x), <<"ECHEC_LIVRAISON", "RETOUR">>, l, postponed, d,
                     "RETOUR", TRUE)

\* Mutant of Cancelled: the event that came with another keeps counting.
CancelledFirst(p) ==
  [i \in DOMAIN log |-> [log[i] EXCEPT !.cancelled = @ \/ i = last[p].first]]
\* scans.cancelledAt, which the figures read of every event of the scan.
Cancelled(p) ==
  [i \in DOMAIN log |-> [log[i] EXCEPT !.cancelled = @ \/ (i >= last[p].first /\ log[i].parcel = p)]]

(* The fee goes with the scan, which is not cancelled once a bon has taken it.   *)
(* The two restores of the code put back the row found (UndoIsExact).          *)
CancelScan(p) ==
  /\ last[p] # None /\ Fee(p, last[p].fee) \subseteq charges
  /\ parcel' = [parcel EXCEPT ![p] = RestoreCourier(@, last[p].before)]
  /\ log' = Cancelled(p)
  /\ charges' = charges \ Fee(p, last[p].fee)
  /\ last' = [last EXCEPT ![p] = None]
  /\ UNCHANGED <<today, bon, undone>>

\* DECISION_RETOURNER, by the seller, or RETOUR_AUTO_48H.
ReturnDecided(p) ==
  /\ CanRetourner(parcel[p])
  /\ Moves(p, Retourner(parcel[p]), <<"RETOUR">>, None, FALSE, today, "RETOUR", FALSE)

Relaunched(p) ==
  /\ CanRelancer(parcel[p])
  /\ Moves(p, Relancer(parcel[p]), <<>>, None, FALSE, today, NoFee, FALSE)

\* FORCAGE_STATUT counts nowhere.
Forced(p, status, location, l) ==
  /\ CanForcer(parcel[p], status, location)
  /\ Moves(p, Forcer(parcel[p], status, location, l), <<>>, None, FALSE, today, NoFee, FALSE)

\* undoDelivery, a FORCAGE_STATUT too: the scan and its event stay.
UndoDelivery(p) ==
  /\ CanAnnulerLivraison(parcel[p])
  /\ parcel' = [parcel EXCEPT ![p] = AnnulerLivraison(@)]
  /\ charges' = charges \ {Waiting(p, "LIVRAISON")}
  /\ last' = [last EXCEPT ![p] = None]
  /\ undone' = undone \cup {p}
  /\ UNCHANGED <<today, log, bon>>

-----------------------------------------------------------------------------
(* Cash and bons *)

CloseCaisse(p) ==
  /\ CanCloturerCaisse(parcel[p])
  /\ parcel' = [parcel EXCEPT ![p] = CloturerCaisse(@)]
  /\ last' = [last EXCEPT ![p] = None]
  /\ UNCHANGED <<today, log, charges, bon, undone>>

Deduct(cs, b) == (charges \ cs) \cup {[c EXCEPT !.bon = b] : c \in cs}

(* The waiting charges that the bon's cash covers, whichever parcels they are    *)
(* for: any of them here (the amounts are in Fees).                          *)
Prepare(ps, cs) ==
  /\ Len(bon) < MaxBons /\ ps # {}
  /\ \A p \in ps : CanPayer(parcel[p]) /\ ~\E b \in DOMAIN bon :
                                             bon[b].status = "PREPARE" /\ p \in bon[b].parcels
  /\ bon' = Append(bon, [status |-> "PREPARE", parcels |-> ps])
  /\ charges' = Deduct(cs, Len(bon) + 1)
  /\ UNCHANGED <<today, parcel, log, last, undone>>

Remis(b) ==
  /\ bon[b].status = "PREPARE"
  /\ bon' = [bon EXCEPT ![b].status = "REMIS"]
  /\ parcel' = [p \in Parcels |-> IF p \in bon[b].parcels THEN Payer(parcel[p]) ELSE parcel[p]]
  /\ UNCHANGED <<today, log, charges, last, undone>>

CancelBon(b) ==
  /\ bon[b].status = "PREPARE"
  /\ bon' = [bon EXCEPT ![b].status = "ANNULE"]
  /\ charges' = Deduct({c \in charges : c.bon = b}, 0)
  /\ UNCHANGED <<today, parcel, log, last, undone>>

NextDay == today < LastDay /\ today' = today + 1
           /\ UNCHANGED <<parcel, log, charges, bon, last, undone>>

Next ==
  \/ \E p \in Parcels :
       \/ BackAtDepot(p) \/ CancelScan(p) \/ ReturnDecided(p) \/ Relaunched(p)
       \/ UndoDelivery(p) \/ CloseCaisse(p)
       \/ \E l \in Livreurs :
            \/ SortieCoursier(p, l)
            \/ \E d \in Days : ScanLivre(p, l, d)
                               \/ \E postponed \in BOOLEAN : ScanEchec(p, l, d, postponed)
            \/ \E to \in {<<"AU_DEPOT", "AU_DEPOT">>, <<"EN_LIVRAISON", "AVEC_LE_LIVREUR">>} :
                 Forced(p, to[1], to[2], l)
  \/ \E ps \in SUBSET Parcels, cs \in SUBSET {c \in charges : c.bon = 0} : Prepare(ps, cs)
  \/ \E b \in DOMAIN bon : Remis(b) \/ CancelBon(b)
  \/ NextDay

Spec == Init /\ [][Next]_vars

-----------------------------------------------------------------------------
(* The figures of the days from a to b *)

Kept(type, a, b) ==
  {i \in DOMAIN log : log[i].type = type /\ log[i].day \in a..b /\ ~log[i].cancelled}

Of(events) == {log[i].parcel : i \in events}

\* Tableau de bord: distinct parcels by tile, the postponed apart.
TileLivres(a, b) == Of(Kept("LIVRAISON", a, b))
TileEchecs(a, b) == Of({i \in Kept("ECHEC_LIVRAISON", a, b) : ~log[i].postponed})
TileReportes(a, b) == Of({i \in Kept("ECHEC_LIVRAISON", a, b) : log[i].postponed})

\* deliveryRate: its totals, then its days.
Delivered(a, b) == Of(Kept("LIVRAISON", a, b))
Returned(a, b)  == Of(Kept("RETOUR", a, b))

\* Mutant of Read: the server's day alone is looked at.
ReadExactly(a, b) == {i \in DOMAIN log : log[i].received \in a..b}
\* activite reads the events received up to 48 hours before and after its days.
Read(a, b) == {i \in DOMAIN log : log[i].received \in (a - 2)..(b + 2)}

ActiviteDelivered(a, b) == Of(Read(a, b) \cap Kept("LIVRAISON", a, b))
ActiviteReturned(a, b)  == Of(Read(a, b) \cap Kept("RETOUR", a, b))
ActiviteBy(l, a, b) ==
  LET His(type) == {i \in Read(a, b) \cap Kept(type, a, b) : log[i].by = l}
  IN  [delivered |-> Of(His("LIVRAISON")), failures |-> Cardinality(His("ECHEC_LIVRAISON"))]

\* Argent: the cash of the Livré scans, and what is held now.
Collected(a, b)  == Cardinality(Kept("LIVRAISON", a, b))
With(cash)       == {p \in Parcels : parcel[p].status = "LIVRE" /\ parcel[p].cash = cash}
HeldCouriers     == With("CHEZ_LE_COURSIER")
HeldDepot        == With("AU_DEPOT")

\* cashNotHandedOver: whose scan, of which parcel, on which day before this one.
CashNotHandedOver ==
  {<<log[i].by, log[i].parcel, log[i].day>> :
     i \in {j \in Kept("LIVRAISON", 1, today - 1) : log[j].parcel \in HeldCouriers}}

(* aRecevoirOf: the delivery fee is the one written on each unpaid parcel, the *)
(* others are the charges that wait.                                        *)
FraisLivraison == Cardinality(HeldCouriers) + Cardinality(HeldDepot)
FraisADeduire  == Cardinality({c \in charges : c.bon = 0 /\ c.type # "LIVRAISON"})

-----------------------------------------------------------------------------
(* Over all the days, the parcels counted delivered are those that are, and    *)
(* those counted returned those whose return was decided ("A parcel counts     *)
(* once per outcome; a cancelled scan is still taken back", D-97), whatever    *)
(* was cancelled, forced, relaunched or synced late; a delivery undone stays    *)
(* counted.                                                                 *)
OutcomesAreCounted ==
  /\ Delivered(1, LastDay) = With("CHEZ_LE_COURSIER") \cup With("AU_DEPOT") \cup With("PAYE")
                               \cup undone
  /\ Returned(1, LastDay) = {p \in Parcels : parcel[p].status \in ReturnStatus}

(* The pages agree on any days: Activité has the deliveries and the returns of  *)
(* the seller's own dashboard, and each is one livreur's, when no scan was      *)
(* received more than two days after it was made ("read wide, keep exact",      *)
(* reports.service.ts).                                                     *)
PagesAgree ==
  (\A i \in DOMAIN log : log[i].received <= log[i].day + 2) =>
    \A a \in Days : \A b \in a..LastDay :
      /\ ActiviteDelivered(a, b) = Delivered(a, b) /\ Delivered(a, b) = TileLivres(a, b)
      /\ ActiviteReturned(a, b) = Returned(a, b)
      /\ UNION {ActiviteBy(l, a, b).delivered : l \in Livreurs} = TileLivres(a, b)
      /\ \A p \in TileEchecs(a, b) \cup TileReportes(a, b) :
           \E l \in Livreurs : ActiviteBy(l, a, b).failures > 0

(* The cash collected, all days together, is the cash held and the cash paid,   *)
(* and the cash of a past day is asked of the livreur who has it and of no one  *)
(* else, as long as no delivery was undone.                                 *)
CashIsAccountedFor ==
  /\ undone = {} =>
       Collected(1, LastDay) = Cardinality(HeldCouriers \cup HeldDepot \cup With("PAYE"))
  /\ \A i \in Kept("LIVRAISON", 1, LastDay) :
       LET p == log[i].parcel
       IN  p \in HeldCouriers \ undone =>
             {t \in CashNotHandedOver : t[2] = p} =
               {<<parcel[p].livreur, p, d>> : d \in {log[i].day} \cap 1..(today - 1)}

(* Not so: the fees À recevoir takes off are those still waiting ("COD − every  *)
(* fee waiting", D-96).  A bon takes the delivery fee of a parcel whose cash is *)
(* still with its livreur; once it is Remis, the fee is paid and is taken off   *)
(* again until the parcel is paid.                                          *)
TakesOffWhatWaits ==
  FraisLivraison <= Cardinality({c \in charges : /\ c.type = "LIVRAISON"
                                                 /\ (c.bon = 0 \/ bon[c.bon].status = "PREPARE")})

(* Not so: without its condition, PagesAgree.  A phone without a network for    *)
(* three days has its deliveries on the dashboard of their day, and not in      *)
(* Activité.                                                                *)
LateScansCount == \A d \in Days : ActiviteDelivered(d, d) = Delivered(d, d)

(* Not so: a parcel delivered, undone and delivered again is collected twice in *)
(* Argent ("the cash collected (Livré scans, the phone's day)").             *)
CollectedOnce == \A d \in Days : Collected(d, d) = Cardinality(Delivered(d, d))
=============================================================================
