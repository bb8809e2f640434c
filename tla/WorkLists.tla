------------------------------ MODULE WorkLists ------------------------------
(***************************************************************************)
(* What each person reads of a parcel: the lists it is on (Mes colis and    *)
(* its groups, Ma tournee, Tournees, Retours, the follow-up of A verifier), *)
(* what its pages say (money block, public status) and which                *)
(* buttons they offer.  Pure operators on a parcel of ParcelMachine; nothing *)
(* here moves one.  A page derives all of it from the parcel as it was when *)
(* the page was loaded: Screens is about what happens afterwards.           *)
(***************************************************************************)
EXTENDS ParcelMachine

-----------------------------------------------------------------------------
(* Mes colis *)

ParcelGroup == {"TOUS", "A_VERIFIER", "EN_COURS", "LIVRES", "PAYES", "NON_PAYES", "RETOURS"}

\* The statuses of a group; Annule is only under Tous.
GroupStatuses ==
  [TOUS       |-> ParcelStatus,
   A_VERIFIER |-> {"A_VERIFIER"},
   EN_COURS   |-> {"CREE", "RAMASSE", "AU_DEPOT", "EN_LIVRAISON", "RELANCE"},
   LIVRES     |-> {"LIVRE"},
   PAYES      |-> {"LIVRE"},
   NON_PAYES  |-> {"LIVRE"},
   RETOURS    |-> ReturnStatus]

\* The cash statuses of its filter; a group without one takes any.
GroupCash(group) ==
  CASE group = "PAYES"     -> {"PAYE"}
    [] group = "NON_PAYES" -> {"CHEZ_LE_COURSIER", "AU_DEPOT"}
    [] OTHER               -> ParcelCashStatus

IsInGroup(group, x) == x.status \in GroupStatuses[group] /\ x.cash \in GroupCash(group)

\* The first row of filters; Payes and Non payes are the halves of Livres.
TopGroups == {"TOUS", "A_VERIFIER", "EN_COURS", "LIVRES", "RETOURS"}

-----------------------------------------------------------------------------
(* Detail du colis: what it says *)

\* Mutant of ParcelMoney: a cancelled return still announces the delivery fee.
ParcelMoneyDelivery(x) == IF x.status = "ANNULE" THEN "ANNULE" ELSE "LIVRAISON"

(* The money block: COD less the delivery fee, the return fee of a return,  *)
(* or "Aucun frais".                                                        *)
ParcelMoney(x) ==
  IF x.status \in ReturnStatus THEN "RETOUR"
  ELSE IF x.status = "ANNULE" THEN "ANNULE" ELSE "LIVRAISON"

(* The customer's page.  cancelledAt, set by every Annuler, outlives the    *)
(* status: a parcel cancelled after pickup reads cancelled all its way back.*)
PublicStatus(x, cancelledAt) ==
  IF cancelledAt THEN "COMMANDE_ANNULEE"
  ELSE IF x.status = "RELANCE" /\ x.relance = "CLIENT" THEN "LIVRAISON_REPORTEE_CLIENT"
  ELSE IF x.status \in ReturnStatus THEN "RETOURNE_AU_VENDEUR"
  ELSE [CREE |-> "COMMANDE_ENREGISTREE", RAMASSE |-> "CHEZ_FAFFA_GO",
        AU_DEPOT |-> "CHEZ_FAFFA_GO", EN_LIVRAISON |-> "EN_COURS_DE_LIVRAISON",
        LIVRE |-> "LIVRE", A_VERIFIER |-> "LIVRAISON_REPORTEE",
        RELANCE |-> "LIVRAISON_REPORTEE", ANNULE |-> "COMMANDE_ANNULEE"][x.status]

\* The amount to prepare is shown while the parcel may still come.
AmountShown(status) ==
  status \in {"COMMANDE_ENREGISTREE", "CHEZ_FAFFA_GO", "EN_COURS_DE_LIVRAISON",
              "LIVRAISON_REPORTEE", "LIVRAISON_REPORTEE_CLIENT"}

-----------------------------------------------------------------------------
(* Detail du colis: what it offers the seller *)

CanRelaunch(x) == x.status = "A_VERIFIER" /\ x.attempts < MaxAttempts

\* Mutant of CanChangeClient: offered while the livreur still carries it.
CanChangeClientEarly(x) ==
  x.status \in {"A_VERIFIER", "RELANCE"} /\ x.changes < MaxClientChanges

CanChangeClient(x) ==
  /\ x.status \in {"A_VERIFIER", "RELANCE"}
  /\ x.location = "AU_DEPOT" /\ x.changes < MaxClientChanges

\* sellerDecisionsFor.
SellerDecisions(x) ==
  LET waiting == x.status \in {"A_VERIFIER", "RELANCE"} IN
  [relancer      |-> CanRelaunch(x),
   retourner     |-> waiting,
   changerDate   |-> x.status = "RELANCE",
   changerClient |->
     IF CanChangeClient(x) THEN "OUI"
     ELSE IF waiting /\ x.changes < MaxClientChanges /\ x.location # "AU_DEPOT"
          THEN "AU_RETOUR_DEPOT" ELSE "NON"]

CanCancelStatus(x) == x.status = "CREE" \/ x.status \in CancellableAfterPickup

(* The Annuler button and what its dialog says: before pickup "Le colis     *)
(* sera annule", afterwards a return and its fee.                           *)
AnnulerButton(x) ==
  IF ~CanCancelStatus(x) THEN "NON" ELSE IF x.status = "CREE" THEN "SANS_FRAIS" ELSE "RETOUR"

SellerButtons(x) ==
  [modifier |-> x.status = "CREE", annuler |-> AnnulerButton(x), decisions |-> SellerDecisions(x)]

-----------------------------------------------------------------------------
(* Colis: what it offers the team *)

(* forcedTargets: the candidates of the status, less the refused ones; an   *)
(* undone Livre goes out again and nowhere else.                            *)
ForcedTargets(x) ==
  LET candidates ==
        CASE x.status = "LIVRE" -> {<<"EN_LIVRAISON", "AVEC_LE_LIVREUR">>}
          [] x.status \in LocationFixStatuses -> {x.status} \X LocationFixPlaces
          [] OTHER -> ForceableStates IN
  {t \in candidates : CanForcer(x, t[1], t[2]) \/ CanAnnulerLivraison(x)}

-----------------------------------------------------------------------------
(* The lists people work from *)

\* A ramasser: the seller's parcels not picked up yet.
ARamasser(x) == x.status = "CREE"

\* courierOpenWork counts it for the ramasseur of its pickup or of its bon.
WithRamasseur(x) == x.location = "AVEC_LE_RAMASSEUR"

\* Ma tournee of livreur l: the stops, and what he must bring back tonight.
Carries(x, l)     == x.location = "AVEC_LE_LIVREUR" /\ x.livreur = l
ToDeliver(x, l)   == Carries(x, l) /\ x.status = "EN_LIVRAISON"

\* Mutant of ToBringBack: a parcel returned at its last attempt is left out.
ToBringBackFailed(x, l) == Carries(x, l) /\ x.status \in {"A_VERIFIER", "RELANCE"}
ToBringBack(x, l) == Carries(x, l) /\ x.status # "EN_LIVRAISON"

\* Ma caisse of livreur l: the cash he has not handed over.
CashToHandIn(x, l) == x.livreur = l /\ x.status = "LIVRE" /\ x.cash = "CHEZ_LE_COURSIER"

(* Tournees, and Exceptions after 48 hours: at the depot and due.  A        *)
(* planned Relance is due from its day on; today says that it has come.     *)
DueForTour(x, today) ==
  /\ x.location = "AU_DEPOT"
  /\ x.status = "AU_DEPOT" \/ (x.status = "RELANCE" /\ today)

\* The seller's A verifier and the team's follow-up.
AVerifier(x) == x.status = "A_VERIFIER"

\* Retours, grouped by seller.
Retours(x) == x.status \in {"RETOUR_AU_DEPOT", "RETOUR_EN_ROUTE"}

\* Paiements: what the seller's next bon de versement may take.
Payable(x) == x.status = "LIVRE" /\ x.cash = "AU_DEPOT"
=============================================================================
