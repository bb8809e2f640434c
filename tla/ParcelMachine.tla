---------------------------- MODULE ParcelMachine ----------------------------
(***************************************************************************)
(* The parcel state machine shared by the API, the web screens and the      *)
(* courier app: packages/shared/src/parcel-state-machine.ts (who may do     *)
(* what to a parcel and what it becomes), parcel-effects.ts (the columns    *)
(* written with it) and forcage.ts (the admin's corrections).  Pure         *)
(* operators, no variable: the modules that move parcels use them.          *)
(*                                                                          *)
(* A parcel is the record of the columns the rules read or write.  An       *)
(* action X of the source is a guard CanX(x, ...), the negation of its      *)
(* refusals, and X(x, ...), the parcel it returns together with the columns *)
(* its effects write (parcelWriteFor).  The fee an action creates is an     *)
(* effect the service performs; it is named next to the action.             *)
(***************************************************************************)
EXTENDS Integers

CONSTANTS Livreurs,          \* courier ids of the livreurs
          None,              \* SQL NULL in currentLivreurId
          MaxAttempts,       \* settings.maxDeliveryAttempts (3)
          MaxClientChanges   \* settings.maxClientChangesPerParcel (1)

ASSUME NoneAssumption   == None \notin Livreurs
ASSUME LimitsAssumption == MaxAttempts \in Nat \ {0} /\ MaxClientChanges \in Nat

ParcelStatus ==
  {"CREE", "RAMASSE", "AU_DEPOT", "EN_LIVRAISON", "LIVRE", "A_VERIFIER", "RELANCE",
   "RETOUR_AU_DEPOT", "RETOUR_EN_ROUTE", "RETOUR_RECU", "ANNULE"}

ParcelLocation ==
  {"CHEZ_LE_VENDEUR", "AVEC_LE_RAMASSEUR", "AU_DEPOT", "AVEC_LE_LIVREUR",
   "CHEZ_LE_CLIENT", "RENDU_AU_VENDEUR"}

\* cashStatus, "NULL" until the parcel is Livre.
ParcelCashStatus == {"NULL", "CHEZ_LE_COURSIER", "AU_DEPOT", "PAYE"}

\* relaunchOrigin; the database keeps it NULL exactly when relaunchDate is.
RelaunchOrigin == {"NULL", "CLIENT", "VENDEUR"}

(* deadline: verifyDeadlineAt is set; rate: courierRateMillimes is frozen;  *)
(* closed: closedAt is set.                                                 *)
Parcel ==
  [status: ParcelStatus, location: ParcelLocation, cash: ParcelCashStatus,
   attempts: 0..MaxAttempts, changes: 0..MaxClientChanges,
   livreur: Livreurs \cup {None}, relance: RelaunchOrigin,
   deadline: BOOLEAN, rate: BOOLEAN, closed: BOOLEAN]

ReturnStatus == {"RETOUR_AU_DEPOT", "RETOUR_EN_ROUTE", "RETOUR_RECU"}

\* The parcel of a CREATION event.
NewParcel ==
  [status |-> "CREE", location |-> "CHEZ_LE_VENDEUR", cash |-> "NULL",
   attempts |-> 0, changes |-> 0, livreur |-> None, relance |-> "NULL",
   deadline |-> FALSE, rate |-> FALSE, closed |-> FALSE]

Put(x, status, location) == [x EXCEPT !.status = status, !.location = location]

\* Mutant of AsReturn: ARRETER_DELAI_VERIFICATION forgotten.
AsReturnClockRunning(x) == [x EXCEPT !.status = "RETOUR_AU_DEPOT"]

(* The status flips to Retour au depot where the parcel stands and the      *)
(* 48-hour clock stops: what Annuler after pickup, Retourner and the        *)
(* automatic return have in common.                                         *)
AsReturn(x) == [x EXCEPT !.status = "RETOUR_AU_DEPOT", !.deadline = FALSE]

-----------------------------------------------------------------------------
(* Before pickup *)

CanModifier(x) == x.status = "CREE"

CancellableAfterPickup == {"RAMASSE", "AU_DEPOT", "EN_LIVRAISON", "A_VERIFIER", "RELANCE"}

CanAnnulerAvant(x) == x.status = "CREE"
AnnulerAvant(x)    == [x EXCEPT !.status = "ANNULE", !.closed = TRUE]

\* Charges the return fee.
CanAnnulerApres(x) == x.status \in CancellableAfterPickup
AnnulerApres(x)    == AsReturn(x)

CanRamasser(x) == x.status = "CREE"
Ramasser(x)    == Put(x, "RAMASSE", "AVEC_LE_RAMASSEUR")

-----------------------------------------------------------------------------
(* Depot and dispatch *)

\* A parcel cancelled while the ramasseur carries it is a return already.
IsReturnWithRamasseur(x) ==
  x.status = "RETOUR_AU_DEPOT" /\ x.location = "AVEC_LE_RAMASSEUR"

CanEntreeDepot(x) == x.status = "RAMASSE" \/ IsReturnWithRamasseur(x)
EntreeDepot(x) ==
  Put(x, IF x.status = "RAMASSE" THEN "AU_DEPOT" ELSE x.status, "AU_DEPOT")

CanSortie(x) == x.status \in {"AU_DEPOT", "RELANCE"} /\ x.location = "AU_DEPOT"
Sortie(x, l) ==
  [Put(x, "EN_LIVRAISON", "AVEC_LE_LIVREUR") EXCEPT !.livreur = l, !.relance = "NULL"]

(* Retour de tournee: a parcel never attempted is back as if it had never   *)
(* left; otherwise the status and the last livreur stay.                    *)
CanRetourDeTournee(x) ==
  /\ x.location = "AVEC_LE_LIVREUR"
  /\ x.status \in {"EN_LIVRAISON", "A_VERIFIER", "RELANCE", "RETOUR_AU_DEPOT"}
RetourDeTournee(x) ==
  IF x.status = "EN_LIVRAISON"
  THEN [Put(x, "AU_DEPOT", "AU_DEPOT") EXCEPT !.livreur = None]
  ELSE [x EXCEPT !.location = "AU_DEPOT"]

-----------------------------------------------------------------------------
(* At the customer *)

IsWith(x, l) == x.status = "EN_LIVRAISON" /\ x.livreur \in {l, None}

\* Charges the delivery fee and freezes the livreur's rate.
CanLivrer(x, l) == IsWith(x, l)
Livrer(x) ==
  [Put(x, "LIVRE", "CHEZ_LE_CLIENT") EXCEPT
     !.cash = "CHEZ_LE_COURSIER", !.attempts = @ + 1, !.rate = TRUE]

\* Mutant of LastAttempt: the attempt being recorded is not counted.
LastAttemptLate(x) == x.attempts >= MaxAttempts
LastAttempt(x) == x.attempts + 1 >= MaxAttempts

\* Echec with any reason but Reporte par le client, attempts left.
CanEchec(x, l) == IsWith(x, l) /\ ~LastAttempt(x)
Echec(x) ==
  [Put(x, "A_VERIFIER", "AVEC_LE_LIVREUR") EXCEPT !.attempts = @ + 1, !.deadline = TRUE]

\* Echec with Reporte par le client and a date in its window, attempts left.
CanEchecReporte(x, l) == IsWith(x, l) /\ ~LastAttempt(x)
EchecReporte(x) ==
  [Put(x, "RELANCE", "AVEC_LE_LIVREUR") EXCEPT !.attempts = @ + 1, !.relance = "CLIENT"]

\* The last attempt failed, whatever the reason: an automatic return, with
\* its fee.
CanEchecFinal(x, l) == IsWith(x, l) /\ LastAttempt(x)
EchecFinal(x) ==
  [Put(x, "RETOUR_AU_DEPOT", "AVEC_LE_LIVREUR") EXCEPT !.attempts = @ + 1]

-----------------------------------------------------------------------------
(* The seller's decisions, and the system's when he takes none *)

CanRelancer(x) == x.status = "A_VERIFIER" /\ x.attempts < MaxAttempts
Relancer(x) ==
  [x EXCEPT !.status = "RELANCE", !.relance = "VENDEUR", !.deadline = FALSE]

\* The day moves, the origin of the date does not.
CanChangerDate(x) == x.status = "RELANCE"

\* Charges the return fee.
CanRetourner(x) == x.status \in {"A_VERIFIER", "RELANCE"}
Retourner(x)    == AsReturn(x)

\* Mutant of CanChangerClient: one change too many.
CanChangerClientAgain(x) ==
  x.status \in {"A_VERIFIER", "RELANCE"} /\ x.location = "AU_DEPOT"
  /\ x.changes <= MaxClientChanges

\* Charges the change-of-client fee.
CanChangerClient(x) ==
  /\ x.status \in {"A_VERIFIER", "RELANCE"}
  /\ x.location = "AU_DEPOT"
  /\ x.changes < MaxClientChanges
ChangerClient(x) ==
  [x EXCEPT !.status = "AU_DEPOT", !.attempts = 0, !.changes = @ + 1,
            !.relance = "NULL", !.deadline = FALSE]

\* Mutant of CanAutoRetour48h: the status is not read again either.
CanAutoRetour48hBlind(x) == x.status \in {"A_VERIFIER"} \cup ReturnStatus

\* Charges the return fee.  The deadline itself is not read again.
CanAutoRetour48h(x) == x.status = "A_VERIFIER"
AutoRetour48h(x)    == AsReturn(x)

-----------------------------------------------------------------------------
(* Returns *)

CanPreparerRetour(x) == x.status = "RETOUR_AU_DEPOT" /\ x.location = "AU_DEPOT"

CanDepartRetour(x) == x.status = "RETOUR_AU_DEPOT"
DepartRetour(x)    == Put(x, "RETOUR_EN_ROUTE", "AVEC_LE_RAMASSEUR")

CanRetourRecu(x) == x.status = "RETOUR_EN_ROUTE"
RetourRecu(x)    == [Put(x, "RETOUR_RECU", "RENDU_AU_VENDEUR") EXCEPT !.closed = TRUE]

CanRetourNonRemis(x) == x.status = "RETOUR_EN_ROUTE"
RetourNonRemis(x)    == Put(x, "RETOUR_AU_DEPOT", "AU_DEPOT")

\* ReturnCorrectionTarget: back with the ramasseur, or at the depot.
CanCorrigerRetourRecu(x) == x.status = "RETOUR_RECU"
CorrigerRetourRecu(x, target) ==
  [(IF target = "RAMASSEUR" THEN DepartRetour(x) ELSE RetourNonRemis(x))
     EXCEPT !.closed = FALSE]

-----------------------------------------------------------------------------
(* Cash: applyCashTransition, and the closing date written with it *)

CanCloturerCaisse(x) == x.status = "LIVRE" /\ x.cash = "CHEZ_LE_COURSIER"
CloturerCaisse(x)    == [x EXCEPT !.cash = "AU_DEPOT"]

CanPayer(x) == x.status = "LIVRE" /\ x.cash = "AU_DEPOT"
Payer(x)    == [x EXCEPT !.cash = "PAYE", !.closed = TRUE]

CanCorrigerPaiement(x) == x.status = "LIVRE" /\ x.cash = "PAYE"
CorrigerPaiement(x)    == [x EXCEPT !.cash = "AU_DEPOT", !.closed = FALSE]

-----------------------------------------------------------------------------
(* Forcer un statut *)

ForceableStates ==
  {<<"RAMASSE", "AVEC_LE_RAMASSEUR">>, <<"AU_DEPOT", "AU_DEPOT">>,
   <<"EN_LIVRAISON", "AVEC_LE_LIVREUR">>}

LocationFixStatuses == {"A_VERIFIER", "RELANCE", "RETOUR_AU_DEPOT"}
LocationFixPlaces   == {"AVEC_LE_LIVREUR", "AU_DEPOT"}

\* forcedStatusRefusal is null, for any parcel but a Livre.
CanForcer(x, status, location) ==
  /\ <<x.status, x.location>> # <<status, location>>
  /\ \/ /\ x.status \in LocationFixStatuses
        /\ status = x.status
        /\ {x.location, location} \subseteq LocationFixPlaces
     \/ {<<x.status, x.location>>, <<status, location>>} \subseteq ForceableStates

\* forceStatus: no effect runs; l is the livreur the admin names.
Forcer(x, status, location, l) ==
  [Put(x, status, location) EXCEPT
     !.livreur = IF location = "AVEC_LE_LIVREUR" THEN l
                 ELSE IF x.status = "EN_LIVRAISON" THEN None ELSE @]

\* A Livre whose cash is still with its courier goes back out with him.
CanAnnulerLivraison(x) == x.status = "LIVRE" /\ x.cash = "CHEZ_LE_COURSIER"
AnnulerLivraison(x) ==
  [Put(x, "EN_LIVRAISON", "AVEC_LE_LIVREUR") EXCEPT
     !.cash = "NULL", !.rate = FALSE, !.attempts = IF @ > 0 THEN @ - 1 ELSE 0]

-----------------------------------------------------------------------------
(* Putting a parcel back as it was before a scan *)

\* Mutant of RestoreDepot: the relance columns are not put back.
RestoreDepotNoDate(x, before) ==
  [x EXCEPT !.status = before.status, !.location = before.location, !.livreur = before.livreur]

\* restoreBeforeScan: the columns a depot scan can change.
RestoreDepot(x, before) ==
  [x EXCEPT !.status = before.status, !.location = before.location,
            !.livreur = before.livreur, !.relance = before.relance]

\* restoreBeforeCourierScan: those, and the ones Ramassage, Livre and Echec write.
RestoreCourier(x, before) ==
  [RestoreDepot(x, before) EXCEPT
     !.cash = before.cash, !.attempts = before.attempts,
     !.deadline = before.deadline, !.rate = before.rate]
=============================================================================
