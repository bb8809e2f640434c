--------------------------- MODULE ParcelLifecycle ---------------------------
(***************************************************************************)
(* The parcel event service (apps/api/src/parcels/parcel-event.service.ts)  *)
(* and its callers: the only code that moves a parcel.  Each action below   *)
(* is one transaction: the row of the parcel is locked, the state machine   *)
(* decides, and the columns, one event and the fees owed are written        *)
(* together.  The one transaction that is split is a courier's              *)
(* cancellation, whose check of the fee and write of the fee are separate   *)
(* statements between which a bon can commit (READ COMMITTED).              *)
(*                                                                          *)
(* The event log is kept as far as it is read: whether the last event of a  *)
(* parcel is a scan that can still be cancelled, and what that scan kept.   *)
(***************************************************************************)
EXTENDS ParcelMachine, FiniteSets

CONSTANTS Parcels,   \* parcels
          Charges    \* bound: ids of the seller_charges rows alive at once

ChargeType   == {"LIVRAISON", "RETOUR", "CHANGEMENT_CLIENT"}
ChargeStatus == {"EN_ATTENTE", "DEDUITE"}

(* A seller_charges row of a parcel.  A row that becomes ANNULEE is read by *)
(* none of these rules again: it leaves the table and frees its id.         *)
Charge == [parcel: Parcels, type: ChargeType, status: ChargeStatus]

(* The last event of the parcel came from this scan, not cancelled: who     *)
(* made it, parcelBefore, and the charge created under its scanId.          *)
ScanKind == {"DEPOT", "PREPARATION", "COURSIER"}
Scan == [kind: ScanKind, before: Parcel, fee: Charges \cup {None}]

ASSUME NullAssumption == None \notin Charge /\ None \notin Scan /\ None \notin Charges

VARIABLES
  parcel,    \* the parcels table
  charges,   \* the seller_charges table
  scan,      \* the cancellable scan that is the parcel's last event, or None
  lock,      \* a courier's cancellation has checked and not yet written
  onBon,     \* the parcel is on a line of an open bon de retour, not received
  orphan     \* history: fees a reversal found already deducted on a bon

vars == <<parcel, charges, scan, lock, onBon, orphan>>

TypeOK ==
  /\ parcel  \in [Parcels -> Parcel]
  /\ charges \in [Charges -> Charge \cup {None}]
  /\ scan    \in [Parcels -> Scan \cup {None}]
  /\ lock    \in [Parcels -> BOOLEAN]
  /\ onBon   \in [Parcels -> BOOLEAN]
  /\ orphan  \subseteq Charges

Init ==
  /\ parcel  = [p \in Parcels |-> NewParcel]
  /\ charges = [c \in Charges |-> None]
  /\ scan    = [p \in Parcels |-> None]
  /\ lock    = [p \in Parcels |-> FALSE]
  /\ onBon   = [p \in Parcels |-> FALSE]
  /\ orphan  = {}

-----------------------------------------------------------------------------
(* What a transaction writes *)

\* UPDATE parcels, with the row locked.
Write(p, x) == ~lock[p] /\ parcel' = [parcel EXCEPT ![p] = x]

\* Mutant of OtherEvent: the check that nothing happened since the scan is lost.
NoEvent(p) == UNCHANGED scan

\* The events of the transaction name no scan that can be cancelled.
OtherEvent(p) == scan' = [scan EXCEPT ![p] = None]

\* Its events name the scan, which kept the parcel as it was.
ScanEvent(p, kind, fee) ==
  scan' = [scan EXCEPT ![p] = [kind |-> kind, before |-> parcel[p], fee |-> fee]]

\* INSERT INTO seller_charges, under a free id.
NewCharge(c, p, type) ==
  /\ charges[c] = None
  /\ charges' = [charges EXCEPT ![c] = [parcel |-> p, type |-> type, status |-> "EN_ATTENTE"]]

Fees(p, type) ==
  {c \in Charges : charges[c] # None /\ charges[c].parcel = p /\ charges[c].type = type}

IsWaiting(c) == charges[c] # None /\ charges[c].status = "EN_ATTENTE"

(* UPDATE seller_charges SET status = ANNULEE WHERE ... AND status =        *)
(* EN_ATTENTE: of the rows C the reversal is about, those already deducted  *)
(* stay, and are remembered in orphan.                                      *)
AnnulCharges(C) ==
  LET waiting == {c \in C : IsWaiting(c)} IN
  /\ charges' = [c \in Charges |-> IF c \in waiting THEN None ELSE charges[c]]
  /\ orphan' = (orphan \cup C) \ waiting

NoCharge  == UNCHANGED <<charges, orphan>>
NoBonLine == UNCHANGED <<lock, onBon>>

-----------------------------------------------------------------------------
(* The seller *)

ActModifier(p) ==
  /\ CanModifier(parcel[p]) /\ Write(p, parcel[p])
  /\ OtherEvent(p) /\ NoCharge /\ NoBonLine

ActAnnulerAvant(p) ==
  /\ CanAnnulerAvant(parcel[p]) /\ Write(p, AnnulerAvant(parcel[p]))
  /\ OtherEvent(p) /\ NoCharge /\ NoBonLine

ActAnnulerApres(p, c) ==
  /\ CanAnnulerApres(parcel[p]) /\ Write(p, AnnulerApres(parcel[p]))
  /\ NewCharge(c, p, "RETOUR")
  /\ OtherEvent(p) /\ UNCHANGED orphan /\ NoBonLine

ActRelancer(p) ==
  /\ CanRelancer(parcel[p]) /\ Write(p, Relancer(parcel[p]))
  /\ OtherEvent(p) /\ NoCharge /\ NoBonLine

ActChangerDate(p) ==
  /\ CanChangerDate(parcel[p]) /\ Write(p, parcel[p])
  /\ OtherEvent(p) /\ NoCharge /\ NoBonLine

ActRetourner(p, c) ==
  /\ CanRetourner(parcel[p]) /\ Write(p, Retourner(parcel[p]))
  /\ NewCharge(c, p, "RETOUR")
  /\ OtherEvent(p) /\ UNCHANGED orphan /\ NoBonLine

ActChangerClient(p, c) ==
  /\ CanChangerClient(parcel[p]) /\ Write(p, ChangerClient(parcel[p]))
  /\ NewCharge(c, p, "CHANGEMENT_CLIENT")
  /\ OtherEvent(p) /\ UNCHANGED orphan /\ NoBonLine

(* The system: one parcel of the 48-hour job's batch.  When the batch was   *)
(* read and which parcels it holds is VerifyDeadline's subject; the machine *)
(* itself returns any parcel A verifier.                                    *)
ActAutoRetour48h(p, c) ==
  /\ CanAutoRetour48h(parcel[p]) /\ Write(p, AutoRetour48h(parcel[p]))
  /\ NewCharge(c, p, "RETOUR")
  /\ OtherEvent(p) /\ UNCHANGED orphan /\ NoBonLine

-----------------------------------------------------------------------------
(* The couriers' scans *)

ActRamassage(p) ==
  /\ CanRamasser(parcel[p]) /\ Write(p, Ramasser(parcel[p]))
  /\ ScanEvent(p, "COURSIER", None) /\ NoCharge /\ NoBonLine

ActLivre(p, l, c) ==
  /\ CanLivrer(parcel[p], l) /\ Write(p, Livrer(parcel[p]))
  /\ NewCharge(c, p, "LIVRAISON")
  /\ ScanEvent(p, "COURSIER", c) /\ UNCHANGED orphan /\ NoBonLine

ActEchec(p, l) ==
  /\ CanEchec(parcel[p], l) /\ Write(p, Echec(parcel[p]))
  /\ ScanEvent(p, "COURSIER", None) /\ NoCharge /\ NoBonLine

ActEchecReporte(p, l) ==
  /\ CanEchecReporte(parcel[p], l) /\ Write(p, EchecReporte(parcel[p]))
  /\ ScanEvent(p, "COURSIER", None) /\ NoCharge /\ NoBonLine

ActEchecFinal(p, l, c) ==
  /\ CanEchecFinal(parcel[p], l) /\ Write(p, EchecFinal(parcel[p]))
  /\ NewCharge(c, p, "RETOUR")
  /\ ScanEvent(p, "COURSIER", c) /\ UNCHANGED orphan /\ NoBonLine

-----------------------------------------------------------------------------
(* The depot's scans *)

ActEntreeDepot(p) ==
  /\ CanEntreeDepot(parcel[p]) /\ Write(p, EntreeDepot(parcel[p]))
  /\ ScanEvent(p, "DEPOT", None) /\ NoCharge /\ NoBonLine

ActSortie(p, l) ==
  /\ CanSortie(parcel[p]) /\ Write(p, Sortie(parcel[p], l))
  /\ ScanEvent(p, "DEPOT", None) /\ NoCharge /\ NoBonLine

\* The livreur chosen on the screen must be the one who has the parcel.
ActRetourDeTournee(p, l) ==
  /\ CanRetourDeTournee(parcel[p]) /\ parcel[p].livreur = l
  /\ Write(p, RetourDeTournee(parcel[p]))
  /\ ScanEvent(p, "DEPOT", None) /\ NoCharge /\ NoBonLine

ActPreparerRetour(p) ==
  /\ CanPreparerRetour(parcel[p]) /\ ~onBon[p] /\ Write(p, parcel[p])
  /\ onBon' = [onBon EXCEPT ![p] = TRUE]
  /\ ScanEvent(p, "PREPARATION", None) /\ NoCharge /\ UNCHANGED lock

\* Affecter in Tournees, a change request applied: an event, no move.
ActPlanifier(p) ==
  /\ parcel[p].location = "AU_DEPOT" /\ parcel[p].status \in {"AU_DEPOT", "RELANCE"}
  /\ Write(p, parcel[p])
  /\ OtherEvent(p) /\ NoCharge /\ NoBonLine

ActModificationAppliquee(p) ==
  /\ parcel[p].status \in CancellableAfterPickup
  /\ Write(p, parcel[p])
  /\ OtherEvent(p) /\ NoCharge /\ NoBonLine

-----------------------------------------------------------------------------
(* Annuler un scan *)

(* A depot scan, by its scanner in the window or by the admin after it: in  *)
(* both cases only while the scan's event is the parcel's last.             *)
CancelDepotScan(p) ==
  /\ scan[p] # None /\ scan[p].kind \in {"DEPOT", "PREPARATION"}
  /\ Write(p, RestoreDepot(parcel[p], scan[p].before))
  /\ onBon' = [onBon EXCEPT ![p] = @ /\ scan[p].kind # "PREPARATION"]
  /\ OtherEvent(p) /\ NoCharge /\ UNCHANGED lock

(* A courier's scan: the statements that check, then the ones that write.   *)
(* The row of the parcel is locked from the first to the last; the charge   *)
(* is not.  The window, the later scans of the same courier and his closed  *)
(* caisse can only refuse: they are the choice not to take this step.       *)
CheckCourierCancel(p) ==
  /\ ~lock[p] /\ scan[p] # None /\ scan[p].kind = "COURSIER"
  /\ scan[p].fee # None => IsWaiting(scan[p].fee)
  /\ lock' = [lock EXCEPT ![p] = TRUE]
  /\ UNCHANGED <<parcel, charges, scan, onBon, orphan>>

WriteCourierCancel(p) ==
  /\ lock[p]
  /\ parcel' = [parcel EXCEPT ![p] = RestoreCourier(parcel[p], scan[p].before)]
  /\ AnnulCharges({scan[p].fee} \ {None})
  /\ lock' = [lock EXCEPT ![p] = FALSE]
  /\ OtherEvent(p) /\ UNCHANGED onBon

\* The transaction fails or the server stops: nothing was written.
AbortCourierCancel(p) ==
  /\ lock[p]
  /\ lock' = [lock EXCEPT ![p] = FALSE]
  /\ UNCHANGED <<parcel, charges, scan, onBon, orphan>>

-----------------------------------------------------------------------------
(* Returns: the bon de retour handed out, received, brought back, corrected *)

ActDepartRetour(p) ==
  /\ onBon[p] /\ CanDepartRetour(parcel[p]) /\ Write(p, DepartRetour(parcel[p]))
  /\ OtherEvent(p) /\ NoCharge /\ NoBonLine

\* Mutant of ActRetourRecu: the line of the bon is not marked received.
ActRetourRecuLineOpen(p) ==
  /\ onBon[p] /\ CanRetourRecu(parcel[p]) /\ Write(p, RetourRecu(parcel[p]))
  /\ OtherEvent(p) /\ NoCharge /\ NoBonLine

ActRetourRecu(p) ==
  /\ onBon[p] /\ CanRetourRecu(parcel[p]) /\ Write(p, RetourRecu(parcel[p]))
  /\ onBon' = [onBon EXCEPT ![p] = FALSE]
  /\ OtherEvent(p) /\ NoCharge /\ UNCHANGED lock

ActRetourNonRemis(p) ==
  /\ onBon[p] /\ CanRetourNonRemis(parcel[p]) /\ Write(p, RetourNonRemis(parcel[p]))
  /\ OtherEvent(p) /\ NoCharge /\ NoBonLine

ActCorrigerRetourRecu(p, target) ==
  /\ CanCorrigerRetourRecu(parcel[p]) /\ Write(p, CorrigerRetourRecu(parcel[p], target))
  /\ onBon' = [onBon EXCEPT ![p] = TRUE]
  /\ OtherEvent(p) /\ NoCharge /\ UNCHANGED lock

-----------------------------------------------------------------------------
(* Money *)

\* recordCashTransition, for a line of a caisse closed, a bon remis, a bon corrected.
ActCloturerCaisse(p) ==
  /\ CanCloturerCaisse(parcel[p]) /\ Write(p, CloturerCaisse(parcel[p]))
  /\ OtherEvent(p) /\ NoCharge /\ NoBonLine

ActPayer(p) ==
  /\ CanPayer(parcel[p]) /\ Write(p, Payer(parcel[p]))
  /\ OtherEvent(p) /\ NoCharge /\ NoBonLine

ActCorrigerPaiement(p) ==
  /\ CanCorrigerPaiement(parcel[p]) /\ Write(p, CorrigerPaiement(parcel[p]))
  /\ OtherEvent(p) /\ NoCharge /\ NoBonLine

(* Preparer le bon de versement takes the seller's waiting charges, of any  *)
(* of his parcels and whatever the parcel's cash; no parcel row is locked   *)
(* for them.  Annuler le bon gives them back.                               *)
DeductCharge(c) ==
  /\ IsWaiting(c)
  /\ charges' = [charges EXCEPT ![c].status = "DEDUITE"]
  /\ UNCHANGED <<parcel, scan, lock, onBon, orphan>>

ReleaseCharge(c) ==
  /\ charges[c] # None /\ charges[c].status = "DEDUITE"
  /\ charges' = [charges EXCEPT ![c].status = "EN_ATTENTE"]
  /\ UNCHANGED <<parcel, scan, lock, onBon, orphan>>

-----------------------------------------------------------------------------
(* Forcer un statut *)

ActForcer(p, status, location, l) ==
  /\ CanForcer(parcel[p], status, location)
  /\ Write(p, Forcer(parcel[p], status, location, l))
  /\ OtherEvent(p) /\ NoCharge /\ NoBonLine

\* Mutants of ActAnnulerLivraison: no charge annulled; charges of any type annulled.
ActAnnulerLivraisonKeepsFee(p) ==
  /\ CanAnnulerLivraison(parcel[p]) /\ Write(p, AnnulerLivraison(parcel[p]))
  /\ OtherEvent(p) /\ NoCharge /\ NoBonLine
ActAnnulerLivraisonAllFees(p) ==
  /\ CanAnnulerLivraison(parcel[p]) /\ Write(p, AnnulerLivraison(parcel[p]))
  /\ AnnulCharges(UNION {Fees(p, type) : type \in ChargeType})
  /\ OtherEvent(p) /\ NoBonLine

(* undoDelivery: back out with the livreur who delivered it; the delivery   *)
(* fee is annulled where it still waits.                                    *)
ActAnnulerLivraison(p) ==
  /\ CanAnnulerLivraison(parcel[p]) /\ Write(p, AnnulerLivraison(parcel[p]))
  /\ AnnulCharges(Fees(p, "LIVRAISON"))
  /\ OtherEvent(p) /\ NoBonLine

-----------------------------------------------------------------------------
SellerStep(p) ==
  \/ ActModifier(p) \/ ActAnnulerAvant(p) \/ ActRelancer(p) \/ ActChangerDate(p)
  \/ \E c \in Charges :
       ActAnnulerApres(p, c) \/ ActRetourner(p, c) \/ ActChangerClient(p, c)

CourierStep(p) ==
  \/ ActRamassage(p)
  \/ \E l \in Livreurs : ActEchec(p, l) \/ ActEchecReporte(p, l)
  \/ \E l \in Livreurs, c \in Charges : ActLivre(p, l, c) \/ ActEchecFinal(p, l, c)
  \/ CheckCourierCancel(p) \/ WriteCourierCancel(p) \/ AbortCourierCancel(p)

DepotStep(p) ==
  \/ ActEntreeDepot(p) \/ ActPreparerRetour(p) \/ CancelDepotScan(p)
  \/ \E l \in Livreurs : ActSortie(p, l) \/ ActRetourDeTournee(p, l)
  \/ ActPlanifier(p) \/ ActModificationAppliquee(p)
  \/ ActDepartRetour(p) \/ ActRetourRecu(p) \/ ActRetourNonRemis(p)

AdminStep(p) ==
  \/ \E l \in Livreurs, s \in ParcelStatus, place \in ParcelLocation : ActForcer(p, s, place, l)
  \/ ActAnnulerLivraison(p)
  \/ \E target \in {"RAMASSEUR", "DEPOT"} : ActCorrigerRetourRecu(p, target)
  \/ ActCloturerCaisse(p) \/ ActPayer(p) \/ ActCorrigerPaiement(p)

SystemStep(p) == \E c \in Charges : ActAutoRetour48h(p, c)

Next ==
  \/ \E p \in Parcels :
       SellerStep(p) \/ CourierStep(p) \/ DepotStep(p) \/ AdminStep(p) \/ SystemStep(p)
  \/ \E c \in Charges : DeductCharge(c) \/ ReleaseCharge(c)

Spec == Init /\ [][Next]_vars

-----------------------------------------------------------------------------
(* Properties *)

Places ==
  {<<"CREE", "CHEZ_LE_VENDEUR">>, <<"ANNULE", "CHEZ_LE_VENDEUR">>,
   <<"RAMASSE", "AVEC_LE_RAMASSEUR">>, <<"AU_DEPOT", "AU_DEPOT">>,
   <<"EN_LIVRAISON", "AVEC_LE_LIVREUR">>, <<"LIVRE", "CHEZ_LE_CLIENT">>,
   <<"A_VERIFIER", "AVEC_LE_LIVREUR">>, <<"A_VERIFIER", "AU_DEPOT">>,
   <<"RELANCE", "AVEC_LE_LIVREUR">>, <<"RELANCE", "AU_DEPOT">>,
   <<"RETOUR_AU_DEPOT", "AVEC_LE_LIVREUR">>, <<"RETOUR_AU_DEPOT", "AU_DEPOT">>,
   <<"RETOUR_AU_DEPOT", "AVEC_LE_RAMASSEUR">>,
   <<"RETOUR_EN_ROUTE", "AVEC_LE_RAMASSEUR">>, <<"RETOUR_RECU", "RENDU_AU_VENDEUR">>}

(* The columns of one parcel agree: its place fits its status and somebody  *)
(* answers for it there; cash and frozen rate exist exactly for a delivered *)
(* parcel, the 48-hour clock exactly for one A verifier, a planned date     *)
(* for one Relance (and a return decided from there keeps it); it is closed *)
(* exactly when it is cancelled, received back or paid.                     *)
Coherent(x) ==
  /\ <<x.status, x.location>> \in Places
  /\ x.location \in {"AVEC_LE_LIVREUR", "CHEZ_LE_CLIENT"} => x.livreur # None
  /\ x.cash # "NULL" <=> x.status = "LIVRE"
  /\ x.rate <=> x.status = "LIVRE"
  /\ x.deadline <=> x.status = "A_VERIFIER"
  /\ x.status = "RELANCE" => x.relance # "NULL"
  /\ x.relance # "NULL" => x.status \in {"RELANCE"} \cup ReturnStatus
  /\ x.closed <=> x.status \in {"ANNULE", "RETOUR_RECU"} \/ x.cash = "PAYE"

(* Whatever scans, cancellations, forced corrections and decisions come in  *)
(* whatever order, no parcel is left in a combination of columns that no    *)
(* screen can explain (parcel-effects.ts writes them one by one, and each   *)
(* reversal restores its own list of them).                                 *)
Custody == \A p \in Parcels : Coherent(parcel[p])

(* A parcel that can still go out has an attempt left, and a delivered one  *)
(* has the attempt an undone delivery takes back: no path, cancellations    *)
(* and forced moves included, sends out a parcel whose attempts are spent   *)
(* (SCAN_ECHEC, Math.max in undoDelivery).                                  *)
AttemptsLeft ==
  \A p \in Parcels :
    /\ parcel[p].status \in CancellableAfterPickup => parcel[p].attempts < MaxAttempts
    /\ parcel[p].status = "LIVRE" => parcel[p].attempts > 0

Owes(x, type) ==
  \/ type = "LIVRAISON" /\ x.status = "LIVRE"
  \/ type = "RETOUR"    /\ x.status \in ReturnStatus

ExactlyOne(S) == \E c \in S : S = {c}

(* A-1: a delivered parcel carries exactly one delivery fee, a returned one *)
(* exactly one return fee, any other parcel neither, however the outcome    *)
(* was reached, reversed and reached again; the fees a reversal found       *)
(* already deducted on a bon are the only exception, and are all in orphan. *)
FeesMatchOutcome ==
  \A p \in Parcels, type \in {"LIVRAISON", "RETOUR"} :
    LET due == Fees(p, type) \ orphan IN
    IF Owes(parcel[p], type) THEN ExactlyOne(due) ELSE due = {}

(* A-6: the fees for changing client are as many as the changes made.       *)
ChangeFeesMatch ==
  \A p \in Parcels : Cardinality(Fees(p, "CHANGEMENT_CLIENT")) = parcel[p].changes

(* A parcel on an open bon de retour is a return and stays one: no scan,    *)
(* cancellation or forced move takes it back to delivery under the bon, and *)
(* a parcel travelling back always is on the bon that will receive it.      *)
BonHoldsReturns ==
  \A p \in Parcels :
    /\ onBon[p] => parcel[p].status \in {"RETOUR_AU_DEPOT", "RETOUR_EN_ROUTE"}
    /\ parcel[p].status = "RETOUR_EN_ROUTE" => onBon[p]

(* Cancelling a scan puts back every column, the ones restoreBeforeScan     *)
(* does not write included: the parcel is exactly what the scan found.      *)
UndoIsExact ==
  [][\A p \in Parcels :
       CancelDepotScan(p) \/ WriteCourierCancel(p) => parcel'[p] = scan[p].before]_vars

(* Once the cash has reached the depot the delivery stands: no late         *)
(* cancellation and no forced move undoes it or takes the cash back to the  *)
(* courier (A-11, D-79, D-85).                                              *)
DeliveryStands ==
  [][\A p \in Parcels :
       parcel[p].cash \in {"AU_DEPOT", "PAYE"} =>
         parcel'[p].status = "LIVRE" /\ parcel'[p].cash \in {"AU_DEPOT", "PAYE"}]_vars

(* What the source says without exception: "the delivery fee cancelled      *)
(* (A-1)" of an undone delivery, "charged only on a delivered parcel".      *)
DeliveryFeeOnlyIfDelivered ==
  \A p \in Parcels : Fees(p, "LIVRAISON") # {} => parcel[p].status = "LIVRE"

(* The same of the return fee: a cancelled last attempt leaves none.        *)
ReturnFeeOnlyIfReturned ==
  \A p \in Parcels : Fees(p, "RETOUR") # {} => parcel[p].status \in ReturnStatus
=============================================================================
