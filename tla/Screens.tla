------------------------------- MODULE Screens -------------------------------
(***************************************************************************)
(* The pages that move a parcel, over ParcelLifecycle: the seller's Detail  *)
(* du colis (parcel-screen.tsx, seller-decisions.tsx) and the team's Colis  *)
(* (colis-screen.tsx, forcage.tsx).  A page is loaded, then shows the same  *)
(* buttons until it is loaded again or one of its requests succeeds         *)
(* (router.refresh); meanwhile couriers, the depot and the system go on.    *)
(* A click sends its request whatever has happened since: no request        *)
(* carries the status the page showed, and the API decides on the parcel as *)
(* it is then.  A refused request changes nothing and leaves the page.      *)
(*                                                                          *)
(* One page is open at a time: requests commit one by one on the locked     *)
(* parcel, so a page can only be surprised by what happened since its load, *)
(* which every step of everybody else covers.  A page under impersonation   *)
(* is read-only and offers nothing.                                         *)
(***************************************************************************)
EXTENDS ParcelLifecycle, WorkLists

VARIABLES
  page,      \* the page open in a browser, a SellerPage or a ColisPage, or None
  cancelled  \* the parcels whose cancelledAt is set

screenVars == <<vars, page, cancelled>>

SellerPage(p) == [of |-> p, who |-> "VENDEUR", offers |-> SellerButtons(parcel[p])]

\* An event's adminCancellable: its depot scan is the parcel's last event.
AdminCancellable(p) == scan[p] # None /\ scan[p].kind \in {"DEPOT", "PREPARATION"}

\* lastScan is the id the page would send: still the last scan, or stale.
ColisPage(p) ==
  [of |-> p, who |-> "ADMIN", targets |-> ForcedTargets(parcel[p]),
   lastScan |-> AdminCancellable(p)]

States == ForceableStates \cup (LocationFixStatuses \X LocationFixPlaces)

ScreensInit == Init /\ page = None /\ cancelled = {}

-----------------------------------------------------------------------------
(* Loading a page *)

OpenDetail(p) == page' = SellerPage(p) /\ UNCHANGED <<vars, cancelled>>
OpenColis(p)  == page' = ColisPage(p) /\ UNCHANGED <<vars, cancelled>>

-----------------------------------------------------------------------------
(* The seller's clicks *)

SellerSees(p) == page # None /\ page.who = "VENDEUR" /\ page.of = p

\* Modifier, and the decisions: one request each, the page loaded again.
ClickModifier(p) ==
  SellerSees(p) /\ page.offers.modifier /\ ActModifier(p)
ClickRelancer(p) ==
  SellerSees(p) /\ page.offers.decisions.relancer /\ ActRelancer(p)
ClickChangerDate(p) ==
  SellerSees(p) /\ page.offers.decisions.changerDate /\ ActChangerDate(p)
ClickRetourner(p) ==
  /\ SellerSees(p) /\ page.offers.decisions.retourner
  /\ \E c \in Charges : ActRetourner(p, c)
ClickChangerClient(p) ==
  /\ SellerSees(p) /\ page.offers.decisions.changerClient = "OUI"
  /\ \E c \in Charges : ActChangerClient(p, c)

(* Annuler confirmed: the API cancels, or returns the parcel and charges    *)
(* for it, by the status it finds.                                          *)
ClickAnnuler(p) ==
  /\ SellerSees(p) /\ page.offers.annuler # "NON"
  /\ \/ ActAnnulerAvant(p)
     \/ \E c \in Charges : ActAnnulerApres(p, c)

SellerClick(p) ==
  \/ /\ \/ ClickModifier(p) \/ ClickRelancer(p) \/ ClickChangerDate(p)
        \/ ClickRetourner(p) \/ ClickChangerClient(p)
     /\ UNCHANGED cancelled /\ page' = SellerPage(p)'
  \/ ClickAnnuler(p) /\ cancelled' = cancelled \cup {p} /\ page' = SellerPage(p)'

-----------------------------------------------------------------------------
(* The admin's clicks *)

AdminSees(p) == page # None /\ page.who = "ADMIN" /\ page.of = p

\* Mutant of ForceRequest: an undone delivery goes back to whoever the admin named.
ForceRequestUnnamed(p, t, l) ==
  IF CanAnnulerLivraison(parcel[p]) /\ t = <<"EN_LIVRAISON", "AVEC_LE_LIVREUR">>
  THEN ActAnnulerLivraison(p)
  ELSE ActForcer(p, t[1], t[2], l)

(* ForcageService.force: the same request undoes a delivery when it finds   *)
(* one, and then the livreur named must be the one who delivered.           *)
ForceRequest(p, t, l) ==
  IF CanAnnulerLivraison(parcel[p]) /\ t = <<"EN_LIVRAISON", "AVEC_LE_LIVREUR">>
  THEN l = parcel[p].livreur /\ ActAnnulerLivraison(p)
  ELSE ActForcer(p, t[1], t[2], l)

ClickForcer(p, t, l) == AdminSees(p) /\ t \in page.targets /\ ForceRequest(p, t, l)

\* Annuler ce scan: the scan the page showed must still be the parcel's last.
ClickAnnulerScan(p) == AdminSees(p) /\ page.lastScan /\ CancelDepotScan(p)

AdminClick(p) ==
  /\ \/ ClickAnnulerScan(p)
     \/ \E t \in States, l \in Livreurs : ClickForcer(p, t, l)
  /\ UNCHANGED cancelled /\ page' = ColisPage(p)'

-----------------------------------------------------------------------------
(* Everybody else, while the page stays as it was loaded *)

\* The page's scan id stays its parcel's last until another event is written.
PageStays(p) ==
  page' = IF AdminSees(p) /\ scan'[p] # scan[p] THEN [page EXCEPT !.lastScan = FALSE] ELSE page

OtherAdminStep(p) ==
  \/ \E target \in {"RAMASSEUR", "DEPOT"} : ActCorrigerRetourRecu(p, target)
  \/ ActCloturerCaisse(p) \/ ActPayer(p) \/ ActCorrigerPaiement(p)

Elsewhere(p) ==
  /\ CourierStep(p) \/ DepotStep(p) \/ OtherAdminStep(p) \/ SystemStep(p)
  /\ PageStays(p) /\ UNCHANGED cancelled

ScreensNext ==
  \/ \E p \in Parcels :
       OpenDetail(p) \/ OpenColis(p) \/ SellerClick(p) \/ AdminClick(p) \/ Elsewhere(p)
  \/ /\ \E c \in Charges : DeductCharge(c) \/ ReleaseCharge(c)
     /\ UNCHANGED <<page, cancelled>>

ScreensSpec == ScreensInit /\ [][ScreensNext]_screenVars

-----------------------------------------------------------------------------
(* Properties *)

(* However stale the Colis page is, a delivery is undone only when the      *)
(* admin named the livreur who made it: the request a page of a parcel Au   *)
(* depot sends is the one that undoes a Livre (forcage.service.ts).         *)
UndoneByItsLivreur ==
  [][\A p \in Parcels, t \in States, l \in Livreurs :
       ClickForcer(p, t, l) /\ parcel[p].status = "LIVRE" => parcel[p].livreur = l]_screenVars

(* The buttons keep their word.  A parcel that waits for its seller always  *)
(* offers him something else than the return; Changer de client, offered,   *)
(* is accepted, and "Disponible au retour au depot" becomes true at the     *)
(* next Retour de tournee; Annuler announces the fee exactly when it is     *)
(* charged; Forcer un statut offers exactly what the API accepts (D-56).    *)
OffersAreHonest ==
  \A p \in Parcels :
    LET x == parcel[p]  decisions == SellerDecisions(x) IN
    /\ x.status \in {"A_VERIFIER", "RELANCE"} => decisions.relancer \/ decisions.changerDate
    /\ decisions.changerClient = "OUI" <=> CanChangerClient(x)
    /\ decisions.changerClient = "AU_RETOUR_DEPOT" =>
         CanRetourDeTournee(x) /\ CanChangerClient(RetourDeTournee(x))
    /\ AnnulerButton(x) = "RETOUR" <=> CanAnnulerApres(x)
    /\ \A s \in ParcelStatus, place \in ParcelLocation :
         <<s, place>> \in ForcedTargets(x) <=>
           \/ CanForcer(x, s, place)
           \/ CanAnnulerLivraison(x) /\ <<s, place>> = <<"EN_LIVRAISON", "AVEC_LE_LIVREUR">>

(* Nobody forgets a parcel: one that is not closed is on a list of whoever  *)
(* can move it on; a parcel or cash with a livreur is on his list and       *)
(* nobody else's; and its seller finds it under one group of Mes colis,     *)
(* whatever was forced, cancelled or undone.                                *)
OnSomeonesList ==
  \A p \in Parcels :
    LET x == parcel[p]
        his == {l \in Livreurs : ToDeliver(x, l) \/ ToBringBack(x, l) \/ CashToHandIn(x, l)} IN
    /\ \/ x.closed \/ ARamasser(x) \/ WithRamasseur(x) \/ his # {} \/ DueForTour(x, TRUE)
       \/ AVerifier(x) \/ Retours(x) \/ Payable(x)
    /\ x.location = "AVEC_LE_LIVREUR" \/ x.cash = "CHEZ_LE_COURSIER" => ExactlyOne(his)
    /\ x.status # "ANNULE" => ExactlyOne({g \in TopGroups \ {"TOUS"} : IsInGroup(g, x)})
    /\ x.status = "LIVRE" => ExactlyOne({g \in {"PAYES", "NON_PAYES"} : IsInGroup(g, x)})

(* The money block of the seller's page says what is charged: a return fee  *)
(* exactly when one is owed, and "Aucun frais" only when there is none at   *)
(* all; fees orphaned by a reversal apart (parcelMoneyFor, parcelWriteFor). *)
MoneyShownIsCharged ==
  \A p \in Parcels :
    /\ ParcelMoney(parcel[p]) = "RETOUR" <=> Fees(p, "RETOUR") \ orphan # {}
    /\ ParcelMoney(parcel[p]) = "ANNULE" => \A type \in ChargeType : Fees(p, type) = {}

(* The customer told that his order is cancelled is never delivered to:     *)
(* once cancelledAt is set no scan, correction or cancellation of a scan    *)
(* takes the parcel out again, whatever the decision interrupted, and no    *)
(* amount to prepare is shown to him any more.                              *)
CancelledNeverGoesOut ==
  \A p \in cancelled :
    /\ ~AmountShown(PublicStatus(parcel[p], p \in cancelled))
    /\ parcel[p].status \in ReturnStatus \cup {"ANNULE"}

(* The dialog of a parcel Cree: "Le colis sera annule.  Cette action est    *)
(* definitive.", and no fee (D-28).  Not so: the request does not carry the *)
(* status its page showed, and after a Ramassage scan it returns the parcel *)
(* and charges for it.                                                      *)
CancelAsAnnounced ==
  [][\A p \in Parcels :
       ClickAnnuler(p) /\ page.offers.annuler = "SANS_FRAIS" =>
         Fees(p, "RETOUR")' = Fees(p, "RETOUR")]_screenVars
=============================================================================
