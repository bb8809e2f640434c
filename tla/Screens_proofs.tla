---------------------------- MODULE Screens_proofs ----------------------------
(***************************************************************************)
(* Theorems of ParcelLifecycle, for every set of parcels, livreurs and      *)
(* charge ids and every setting of the limits; then of Screens: the pages   *)
(* implement the lifecycle, so that all that is proved of it holds of them, *)
(* and what they show and offer is true of the parcel as it is.             *)
(***************************************************************************)
EXTENDS Screens, FiniteSetTheorems, TLAPS

(* What is left to spend of a parcel's attempts: AttemptsLeft for one row.  *)
Attempted(x) ==
  /\ x.status \in {"CREE"} \cup CancellableAfterPickup => x.attempts < MaxAttempts
  /\ x.status = "LIVRE" => x.attempts > 0

Sound(x) == x \in Parcel /\ Coherent(x) /\ Attempted(x)

(* What a cancellable scan s may have changed of the parcel, now x, since   *)
(* it kept parcelBefore: what it found was itself sound; the columns its    *)
(* cancellation does not write are as they were; it is on no bon a          *)
(* courier's scan could take it from; and no cash has moved since.          *)
Undoable(x, s, o) ==
  /\ Sound(s.before)
  /\ s.before.changes = x.changes /\ s.before.closed = x.closed
  /\ s.kind # "COURSIER" =>
       /\ s.before.cash = x.cash /\ s.before.attempts = x.attempts
       /\ s.before.deadline = x.deadline /\ s.before.rate = x.rate
  /\ o => s.kind # "COURSIER" /\ s.before.status = "RETOUR_AU_DEPOT"
  /\ x.status # "RETOUR_EN_ROUTE" /\ s.before.status # "RETOUR_EN_ROUTE"
  /\ x.cash \in {"NULL", "CHEZ_LE_COURSIER"} /\ s.before.cash = "NULL"

(* One parcel: its row x, its last scan s, its bon line o, its lock k.      *)
RowOK(x, s, o, k) ==
  /\ Sound(x)
  /\ o => x.status \in {"RETOUR_AU_DEPOT", "RETOUR_EN_ROUTE"}
  /\ x.status = "RETOUR_EN_ROUTE" => o
  /\ s # None => Undoable(x, s, o)
  /\ k => s # None /\ s.kind = "COURSIER"

CustodyInv ==
  /\ TypeOK
  /\ \A p \in Parcels : RowOK(parcel[p], scan[p], onBon[p], lock[p])

-----------------------------------------------------------------------------
(* Lemmas about the state machine *)

(* A parcel turned into a return where it stands keeps its columns in step, *)
(* its clock stopped.                                                       *)
LEMMA AsReturnIsSound ==
  ASSUME NEW x \in Parcel, Sound(x), x.status \in CancellableAfterPickup
  PROVE  /\ Sound(AsReturn(x))
         /\ AsReturn(x).status = "RETOUR_AU_DEPOT"
BY LimitsAssumption
DEF Sound, Coherent, Attempted, AsReturn, Parcel, ParcelStatus, ParcelLocation,
    ParcelCashStatus, RelaunchOrigin, Places, ReturnStatus, CancellableAfterPickup

(* The scans that name no livreur.                                          *)
LEMMA PickupAndEntryAreSound ==
  ASSUME NEW x \in Parcel, Sound(x)
  PROVE  /\ CanRamasser(x) => Sound(Ramasser(x))
         /\ CanEntreeDepot(x) => Sound(EntreeDepot(x))
         /\ CanRetourDeTournee(x) => Sound(RetourDeTournee(x))
<1> USE LimitsAssumption
    DEF Sound, Coherent, Attempted, Parcel, ParcelStatus, ParcelLocation,
        ParcelCashStatus, RelaunchOrigin, Places, ReturnStatus, CancellableAfterPickup, Put
<1>1. CanRamasser(x) => Sound(Ramasser(x))
  BY DEF CanRamasser, Ramasser
<1>2. CanEntreeDepot(x) => Sound(EntreeDepot(x))
  BY DEF CanEntreeDepot, EntreeDepot, IsReturnWithRamasseur
<1>3. CanRetourDeTournee(x) => Sound(RetourDeTournee(x))
  BY DEF CanRetourDeTournee, RetourDeTournee
<1> QED BY ONLY <1>1, <1>2, <1>3

(* The scans made by a livreur or naming one.                               *)
LEMMA ScansAreSound ==
  ASSUME NEW x \in Parcel, Sound(x), NEW l \in Livreurs
  PROVE  /\ CanSortie(x) => Sound(Sortie(x, l))
         /\ CanLivrer(x, l) => Sound(Livrer(x))
         /\ CanEchec(x, l) => Sound(Echec(x))
         /\ CanEchecReporte(x, l) => Sound(EchecReporte(x))
         /\ CanEchecFinal(x, l) => Sound(EchecFinal(x))
<1> USE LimitsAssumption, NoneAssumption
    DEF Sound, Coherent, Attempted, Parcel, ParcelStatus, ParcelLocation,
        ParcelCashStatus, RelaunchOrigin, Places, ReturnStatus, CancellableAfterPickup, Put
<1>0. x.status = "EN_LIVRAISON" => x.attempts + 1 \in 0..MaxAttempts
  OBVIOUS
<1>1. CanSortie(x) => Sound(Sortie(x, l))
  BY DEF CanSortie, Sortie
<1>2. CanLivrer(x, l) => Sound(Livrer(x))
  <2> SUFFICES ASSUME CanLivrer(x, l) PROVE Sound(Livrer(x))
    OBVIOUS
  <2>1. Livrer(x) \in Parcel
    BY <1>0 DEF CanLivrer, Livrer, IsWith
  <2>2. Coherent(Livrer(x)) /\ Attempted(Livrer(x))
    BY <1>0 DEF CanLivrer, Livrer, IsWith
  <2> QED BY ONLY <2>1, <2>2 DEF Sound
<1>3. CanEchec(x, l) => Sound(Echec(x))
  <2> SUFFICES ASSUME CanEchec(x, l) PROVE Sound(Echec(x))
    OBVIOUS
  <2>1. Echec(x) \in Parcel
    BY <1>0 DEF CanEchec, Echec, IsWith
  <2>2. Coherent(Echec(x)) /\ Attempted(Echec(x))
    BY <1>0 DEF CanEchec, Echec, IsWith, LastAttempt
  <2> QED BY ONLY <2>1, <2>2 DEF Sound
<1>4. CanEchecReporte(x, l) => Sound(EchecReporte(x))
  <2> SUFFICES ASSUME CanEchecReporte(x, l) PROVE Sound(EchecReporte(x))
    OBVIOUS
  <2>1. EchecReporte(x) \in Parcel
    BY <1>0 DEF CanEchecReporte, EchecReporte, IsWith
  <2>2. Coherent(EchecReporte(x)) /\ Attempted(EchecReporte(x))
    BY <1>0 DEF CanEchecReporte, EchecReporte, IsWith, LastAttempt
  <2> QED BY ONLY <2>1, <2>2 DEF Sound
<1>5. CanEchecFinal(x, l) => Sound(EchecFinal(x))
  BY <1>0 DEF CanEchecFinal, EchecFinal, IsWith, LastAttempt
<1> QED BY ONLY <1>1, <1>2, <1>3, <1>4, <1>5

(* The decisions of the seller and of the 48-hour job.                      *)
LEMMA DecisionsAreSound ==
  ASSUME NEW x \in Parcel, Sound(x)
  PROVE  /\ CanAnnulerAvant(x) => Sound(AnnulerAvant(x))
         /\ CanAnnulerApres(x) => Sound(AnnulerApres(x))
         /\ CanRelancer(x) => Sound(Relancer(x))
         /\ CanRetourner(x) => Sound(Retourner(x))
         /\ CanChangerClient(x) => Sound(ChangerClient(x))
         /\ CanAutoRetour48h(x) => Sound(AutoRetour48h(x))
<1> USE LimitsAssumption
    DEF Sound, Coherent, Attempted, Parcel, ParcelStatus, ParcelLocation,
        ParcelCashStatus, RelaunchOrigin, Places, ReturnStatus, CancellableAfterPickup
<1>1. CanAnnulerAvant(x) => Sound(AnnulerAvant(x))
  BY DEF CanAnnulerAvant, AnnulerAvant
<1>2. CanAnnulerApres(x) => Sound(AnnulerApres(x))
  BY ONLY AsReturnIsSound, Sound(x), x \in Parcel DEF CanAnnulerApres, AnnulerApres
<1>3. CanRelancer(x) => Sound(Relancer(x))
  BY DEF CanRelancer, Relancer
<1>4. CanRetourner(x) => Sound(Retourner(x))
  BY ONLY AsReturnIsSound, Sound(x), x \in Parcel
  DEF CanRetourner, Retourner, CancellableAfterPickup
<1>5. CanChangerClient(x) => Sound(ChangerClient(x))
  <2> SUFFICES ASSUME CanChangerClient(x) PROVE Sound(ChangerClient(x))
    OBVIOUS
  <2>1. x.changes + 1 \in 0..MaxClientChanges /\ 0 \in 0..MaxAttempts
    BY DEF CanChangerClient
  <2>2. ChangerClient(x) \in Parcel
    BY <2>1 DEF CanChangerClient, ChangerClient
  <2>3. Coherent(ChangerClient(x)) /\ Attempted(ChangerClient(x))
    BY <2>1 DEF CanChangerClient, ChangerClient
  <2> QED BY ONLY <2>2, <2>3 DEF Sound
<1>6. CanAutoRetour48h(x) => Sound(AutoRetour48h(x))
  BY ONLY AsReturnIsSound, Sound(x), x \in Parcel
  DEF CanAutoRetour48h, AutoRetour48h, CancellableAfterPickup
<1> QED BY ONLY <1>1, <1>2, <1>3, <1>4, <1>5, <1>6

(* The return to the seller and its correction; the cash.                   *)
LEMMA ReturnsAndCashAreSound ==
  ASSUME NEW x \in Parcel, Sound(x), NEW target \in {"RAMASSEUR", "DEPOT"}
  PROVE  /\ CanDepartRetour(x) => Sound(DepartRetour(x))
         /\ CanRetourRecu(x) => Sound(RetourRecu(x))
         /\ CanRetourNonRemis(x) => Sound(RetourNonRemis(x))
         /\ CanCorrigerRetourRecu(x) => Sound(CorrigerRetourRecu(x, target))
         /\ CanCloturerCaisse(x) => Sound(CloturerCaisse(x))
         /\ CanPayer(x) => Sound(Payer(x))
         /\ CanCorrigerPaiement(x) => Sound(CorrigerPaiement(x))
<1> USE LimitsAssumption
    DEF Sound, Coherent, Attempted, Parcel, ParcelStatus, ParcelLocation,
        ParcelCashStatus, RelaunchOrigin, Places, ReturnStatus, CancellableAfterPickup, Put
<1>1. CanDepartRetour(x) => Sound(DepartRetour(x))
  BY DEF CanDepartRetour, DepartRetour
<1>2. CanRetourRecu(x) => Sound(RetourRecu(x))
  BY DEF CanRetourRecu, RetourRecu
<1>3. CanRetourNonRemis(x) => Sound(RetourNonRemis(x))
  BY DEF CanRetourNonRemis, RetourNonRemis
<1>4. CanCorrigerRetourRecu(x) => Sound(CorrigerRetourRecu(x, target))
  BY DEF CanCorrigerRetourRecu, CorrigerRetourRecu, DepartRetour, RetourNonRemis
<1>5. CanCloturerCaisse(x) => Sound(CloturerCaisse(x))
  BY DEF CanCloturerCaisse, CloturerCaisse
<1>6. CanPayer(x) => Sound(Payer(x))
  BY DEF CanPayer, Payer
<1>7. CanCorrigerPaiement(x) => Sound(CorrigerPaiement(x))
  BY DEF CanCorrigerPaiement, CorrigerPaiement
<1> QED BY ONLY <1>1, <1>2, <1>3, <1>4, <1>5, <1>6, <1>7

(* The admin's corrections.                                                 *)
LEMMA ForcingIsSound ==
  ASSUME NEW x \in Parcel, Sound(x), NEW l \in Livreurs,
         NEW status \in ParcelStatus, NEW location \in ParcelLocation,
         CanForcer(x, status, location)
  PROVE  Sound(Forcer(x, status, location, l))
<1> USE LimitsAssumption, NoneAssumption
    DEF Sound, Coherent, Attempted, Parcel, ParcelStatus, ParcelLocation,
        ParcelCashStatus, RelaunchOrigin, Places, ReturnStatus, CancellableAfterPickup, Put
<1>1. CASE x.status \in LocationFixStatuses /\ status = x.status
           /\ {x.location, location} \subseteq LocationFixPlaces
  BY <1>1 DEF Forcer, LocationFixStatuses, LocationFixPlaces
<1>2. CASE {<<x.status, x.location>>, <<status, location>>} \subseteq ForceableStates
  <2>1. <<x.status, x.location>> \in ForceableStates /\ <<status, location>> \in ForceableStates
    BY ONLY <1>2
  <2> QED BY <2>1 DEF Forcer, ForceableStates
<1> QED BY ONLY <1>1, <1>2, CanForcer(x, status, location) DEF CanForcer

(* A delivery undone by the admin: back out, with the attempt given back.   *)
LEMMA UndoneDeliveryIsSound ==
  ASSUME NEW x \in Parcel, Sound(x), CanAnnulerLivraison(x)
  PROVE  Sound(AnnulerLivraison(x))
<1> USE LimitsAssumption
    DEF Sound, Coherent, Attempted, Parcel, ParcelStatus, ParcelLocation, ParcelCashStatus,
        RelaunchOrigin, Places, ReturnStatus, CancellableAfterPickup, Put, CanAnnulerLivraison
<1>1. x.attempts > 0 /\ x.attempts - 1 \in 0..MaxAttempts /\ x.attempts - 1 < MaxAttempts
  OBVIOUS
<1>2. AnnulerLivraison(x) \in Parcel
  BY <1>1 DEF AnnulerLivraison
<1>3. Coherent(AnnulerLivraison(x)) /\ Attempted(AnnulerLivraison(x))
  BY <1>1 DEF AnnulerLivraison
<1> QED BY ONLY <1>2, <1>3 DEF Sound

(* Putting the kept columns back gives the parcel the scan found.           *)
LEMMA RestoreIsExact ==
  ASSUME NEW x \in Parcel, NEW s \in Scan, NEW o, Undoable(x, s, o)
  PROVE  /\ s.kind # "COURSIER" => RestoreDepot(x, s.before) = s.before
         /\ s.kind = "COURSIER" => RestoreCourier(x, s.before) = s.before
<1>1. s.before \in Parcel
  BY DEF Scan
<1>2. s.kind # "COURSIER" => RestoreDepot(x, s.before) = s.before
  BY <1>1 DEF Undoable, RestoreDepot, Parcel
<1>3. s.kind = "COURSIER" => RestoreCourier(x, s.before) = s.before
  BY <1>1 DEF Undoable, RestoreDepot, RestoreCourier, Parcel
<1> QED BY ONLY <1>2, <1>3

-----------------------------------------------------------------------------
(* Lemmas about what a transaction writes *)

(* A charge inserted or annulled leaves the table and the history typed.    *)
LEMMA FeesAreTyped ==
  ASSUME TypeOK, NEW p \in Parcels
  PROVE  /\ \A c \in Charges, type \in ChargeType :
              NewCharge(c, p, type) => charges' \in [Charges -> Charge \cup {None}]
         /\ \A C \in SUBSET Charges :
              AnnulCharges(C) => /\ charges' \in [Charges -> Charge \cup {None}]
                                 /\ orphan' \subseteq Charges
         /\ NoCharge => /\ charges' \in [Charges -> Charge \cup {None}]
                        /\ orphan' \subseteq Charges
<1>1. ASSUME NEW c \in Charges, NEW type \in ChargeType, NewCharge(c, p, type)
      PROVE  charges' \in [Charges -> Charge \cup {None}]
  <2>1. [parcel |-> p, type |-> type, status |-> "EN_ATTENTE"] \in Charge
    BY DEF Charge, ChargeStatus
  <2> QED BY <1>1, <2>1 DEF NewCharge, TypeOK
<1>2. ASSUME NEW C \in SUBSET Charges, AnnulCharges(C)
      PROVE  charges' \in [Charges -> Charge \cup {None}] /\ orphan' \subseteq Charges
  BY <1>2 DEF AnnulCharges, TypeOK
<1>3. NoCharge => charges' \in [Charges -> Charge \cup {None}] /\ orphan' \subseteq Charges
  BY DEF NoCharge, TypeOK
<1> QED BY ONLY <1>1, <1>2, <1>3

(* A transaction that writes the row, the last scan, the bon line and the   *)
(* lock of one parcel keeps the invariant if it leaves that parcel right.   *)
LEMMA OneRow ==
  ASSUME CustodyInv, NEW p \in Parcels,
         NEW y, NEW s \in Scan \cup {None}, NEW o \in BOOLEAN, NEW k \in BOOLEAN,
         RowOK(y, s, o, k),
         parcel' = [parcel EXCEPT ![p] = y], scan' = [scan EXCEPT ![p] = s],
         onBon' = [onBon EXCEPT ![p] = o], lock' = [lock EXCEPT ![p] = k],
         charges' \in [Charges -> Charge \cup {None}], orphan' \subseteq Charges
  PROVE  CustodyInv'
<1>1. y \in Parcel
  BY DEF RowOK, Sound
<1>2. TypeOK'
  BY <1>1 DEF CustodyInv, TypeOK
<1>3. ASSUME NEW q \in Parcels
      PROVE  RowOK(parcel'[q], scan'[q], onBon'[q], lock'[q])
  <2>1. CASE q = p
    <3>1. parcel'[q] = y /\ scan'[q] = s /\ onBon'[q] = o /\ lock'[q] = k
      BY <2>1 DEF CustodyInv, TypeOK
    <3> QED BY <3>1
  <2>2. CASE q # p
    <3>1. /\ parcel'[q] = parcel[q] /\ scan'[q] = scan[q]
          /\ onBon'[q] = onBon[q] /\ lock'[q] = lock[q]
      BY <2>2 DEF CustodyInv, TypeOK
    <3> QED BY <3>1 DEF CustodyInv
  <2> QED BY ONLY <2>1, <2>2
<1>4. \A q \in Parcels : RowOK(parcel[q], scan[q], onBon[q], lock[q])'
  BY <1>3
<1> QED BY ONLY <1>2, <1>4 DEF CustodyInv

(* The parcel moves by an event that no scan can cancel.                    *)
LEMMA MovedByEvent ==
  ASSUME CustodyInv, NEW p \in Parcels, NEW y, NEW o \in BOOLEAN,
         Write(p, y), OtherEvent(p), UNCHANGED lock,
         onBon' = [onBon EXCEPT ![p] = o], Sound(y),
         o => y.status \in {"RETOUR_AU_DEPOT", "RETOUR_EN_ROUTE"},
         y.status = "RETOUR_EN_ROUTE" => o,
         charges' \in [Charges -> Charge \cup {None}], orphan' \subseteq Charges
  PROVE  CustodyInv'
<1>1. RowOK(y, None, o, FALSE)
  BY DEF RowOK
<1>2. lock' = [lock EXCEPT ![p] = FALSE]
  BY DEF CustodyInv, TypeOK, Write
<1>3. parcel' = [parcel EXCEPT ![p] = y] /\ scan' = [scan EXCEPT ![p] = None]
  BY DEF Write, OtherEvent
<1> QED BY ONLY <1>1, <1>2, <1>3, OneRow, CustodyInv, p \in Parcels, o \in BOOLEAN,
          onBon' = [onBon EXCEPT ![p] = o],
          charges' \in [Charges -> Charge \cup {None}], orphan' \subseteq Charges

(* The same when the bon de retour is not touched.                          *)
LEMMA MovedOffBon ==
  ASSUME CustodyInv, NEW p \in Parcels, NEW y,
         Write(p, y), OtherEvent(p), NoBonLine, Sound(y),
         onBon[p] => y.status \in {"RETOUR_AU_DEPOT", "RETOUR_EN_ROUTE"},
         y.status = "RETOUR_EN_ROUTE" => onBon[p],
         charges' \in [Charges -> Charge \cup {None}], orphan' \subseteq Charges
  PROVE  CustodyInv'
<1>1. onBon' = [onBon EXCEPT ![p] = onBon[p]] /\ onBon[p] \in BOOLEAN /\ UNCHANGED lock
  BY DEF NoBonLine, CustodyInv, TypeOK
<1> QED BY <1>1, MovedByEvent

(* The parcel moves by a scan, which keeps what it found.                   *)
LEMMA MovedByScan ==
  ASSUME CustodyInv, NEW p \in Parcels, NEW y, NEW o \in BOOLEAN,
         NEW kind \in ScanKind, NEW fee \in Charges \cup {None},
         Write(p, y), ScanEvent(p, kind, fee), UNCHANGED lock,
         onBon' = [onBon EXCEPT ![p] = o], Sound(y),
         o => y.status = "RETOUR_AU_DEPOT",
         Undoable(y, [kind |-> kind, before |-> parcel[p], fee |-> fee], o),
         charges' \in [Charges -> Charge \cup {None}], orphan' \subseteq Charges
  PROVE  CustodyInv'
<1> DEFINE s == [kind |-> kind, before |-> parcel[p], fee |-> fee]
<1>1. s \in Scan
  BY DEF CustodyInv, TypeOK, Scan
<1>2. Undoable(y, s, o)
  OBVIOUS
<1>3. lock' = [lock EXCEPT ![p] = FALSE]
  BY DEF CustodyInv, TypeOK, Write
<1>4. parcel' = [parcel EXCEPT ![p] = y] /\ scan' = [scan EXCEPT ![p] = s]
  BY DEF Write, ScanEvent
<1> HIDE DEF s
<1>5. RowOK(y, s, o, FALSE)
  BY <1>2 DEF RowOK, Undoable
<1> QED BY ONLY <1>1, <1>3, <1>4, <1>5, OneRow, CustodyInv, p \in Parcels, o \in BOOLEAN,
          onBon' = [onBon EXCEPT ![p] = o],
          charges' \in [Charges -> Charge \cup {None}], orphan' \subseteq Charges

-----------------------------------------------------------------------------
(* Every step keeps the invariant, one group of callers at a time *)

(* The decisions of DecisionsService and ParcelsService.                    *)
LEMMA SellerKeepsInv ==
  ASSUME CustodyInv, NEW p \in Parcels, SellerStep(p)
  PROVE  CustodyInv'
<1>0. /\ parcel[p] \in Parcel /\ Sound(parcel[p])
      /\ onBon[p] => parcel[p].status \in {"RETOUR_AU_DEPOT", "RETOUR_EN_ROUTE"}
      /\ parcel[p].status = "RETOUR_EN_ROUTE" => onBon[p]
  BY DEF CustodyInv, RowOK, Sound
<1>1. TypeOK /\ {"RETOUR", "CHANGEMENT_CLIENT"} \subseteq ChargeType
  BY DEF CustodyInv, ChargeType
<1>2. CASE ActModifier(p)
  BY <1>0, <1>1, <1>2, FeesAreTyped, MovedOffBon DEF ActModifier, CanModifier
<1>3. CASE ActAnnulerAvant(p)
  <2>1. Sound(AnnulerAvant(parcel[p])) /\ AnnulerAvant(parcel[p]).status = "ANNULE" /\ ~onBon[p]
    BY <1>0, <1>3, DecisionsAreSound DEF ActAnnulerAvant, CanAnnulerAvant, AnnulerAvant, Parcel
  <2> QED BY <1>1, <1>3, <2>1, FeesAreTyped, MovedOffBon DEF ActAnnulerAvant
<1>4. CASE ActRelancer(p)
  <2>1. Sound(Relancer(parcel[p])) /\ Relancer(parcel[p]).status = "RELANCE" /\ ~onBon[p]
    BY <1>0, <1>4, DecisionsAreSound DEF ActRelancer, CanRelancer, Relancer, Parcel
  <2> QED BY <1>1, <1>4, <2>1, FeesAreTyped, MovedOffBon DEF ActRelancer
<1>5. CASE ActChangerDate(p)
  BY <1>0, <1>1, <1>5, FeesAreTyped, MovedOffBon DEF ActChangerDate, CanChangerDate
<1>6. ASSUME NEW c \in Charges, ActAnnulerApres(p, c)
      PROVE  CustodyInv'
  <2>1. /\ Sound(AnnulerApres(parcel[p])) /\ AnnulerApres(parcel[p]).status = "RETOUR_AU_DEPOT"
        /\ ~onBon[p]
    BY <1>0, <1>6, DecisionsAreSound
    DEF ActAnnulerApres, CanAnnulerApres, CancellableAfterPickup, AnnulerApres, AsReturn, Parcel
  <2>2. charges' \in [Charges -> Charge \cup {None}] /\ orphan' \subseteq Charges
    BY <1>1, <1>6, FeesAreTyped DEF ActAnnulerApres, TypeOK
  <2> QED BY <1>6, <2>1, <2>2, MovedOffBon DEF ActAnnulerApres
<1>7. ASSUME NEW c \in Charges, ActRetourner(p, c)
      PROVE  CustodyInv'
  <2>1. /\ Sound(Retourner(parcel[p])) /\ Retourner(parcel[p]).status = "RETOUR_AU_DEPOT"
        /\ ~onBon[p]
    BY <1>0, <1>7, DecisionsAreSound DEF ActRetourner, CanRetourner, Retourner, AsReturn, Parcel
  <2>2. charges' \in [Charges -> Charge \cup {None}] /\ orphan' \subseteq Charges
    BY <1>1, <1>7, FeesAreTyped DEF ActRetourner, TypeOK
  <2> QED BY <1>7, <2>1, <2>2, MovedOffBon DEF ActRetourner
<1>8. ASSUME NEW c \in Charges, ActChangerClient(p, c)
      PROVE  CustodyInv'
  <2>1. /\ Sound(ChangerClient(parcel[p])) /\ ChangerClient(parcel[p]).status = "AU_DEPOT"
        /\ ~onBon[p]
    BY <1>0, <1>8, DecisionsAreSound
    DEF ActChangerClient, CanChangerClient, ChangerClient, Parcel
  <2>2. charges' \in [Charges -> Charge \cup {None}] /\ orphan' \subseteq Charges
    BY <1>1, <1>8, FeesAreTyped DEF ActChangerClient, TypeOK
  <2> QED BY <1>8, <2>1, <2>2, MovedOffBon DEF ActChangerClient
<1> QED BY <1>2, <1>3, <1>4, <1>5, <1>6, <1>7, <1>8 DEF SellerStep

(* The 48-hour job.                                                         *)
LEMMA SystemKeepsInv ==
  ASSUME CustodyInv, NEW p \in Parcels, SystemStep(p)
  PROVE  CustodyInv'
<1>1. PICK c \in Charges : ActAutoRetour48h(p, c)
  BY DEF SystemStep
<1>2. /\ parcel[p] \in Parcel /\ Sound(parcel[p]) /\ TypeOK /\ "RETOUR" \in ChargeType
      /\ onBon[p] => parcel[p].status \in {"RETOUR_AU_DEPOT", "RETOUR_EN_ROUTE"}
  BY DEF CustodyInv, RowOK, Sound, ChargeType
<1>3. /\ Sound(AutoRetour48h(parcel[p])) /\ AutoRetour48h(parcel[p]).status = "RETOUR_AU_DEPOT"
      /\ ~onBon[p]
  BY <1>1, <1>2, DecisionsAreSound
  DEF ActAutoRetour48h, CanAutoRetour48h, AutoRetour48h, AsReturn, Parcel
<1>4. charges' \in [Charges -> Charge \cup {None}] /\ orphan' \subseteq Charges
  BY <1>1, <1>2, FeesAreTyped DEF ActAutoRetour48h, TypeOK
<1> QED BY <1>1, <1>3, <1>4, MovedOffBon DEF ActAutoRetour48h

(* The columns a courier's scan leaves alone, and what it starts from.      *)
LEMMA CourierScanIsUndoable ==
  ASSUME CustodyInv, NEW p \in Parcels, NEW y, NEW fee,
         Sound(y), y.status # "RETOUR_EN_ROUTE", y.cash \in {"NULL", "CHEZ_LE_COURSIER"},
         y.changes = parcel[p].changes, y.closed = parcel[p].closed,
         parcel[p].status \in {"CREE", "EN_LIVRAISON"}
  PROVE  /\ ~onBon[p]
         /\ Undoable(y, [kind |-> "COURSIER", before |-> parcel[p], fee |-> fee], FALSE)
<1>1. Sound(parcel[p]) /\ ~onBon[p]
  BY DEF CustodyInv, RowOK
<1>2. parcel[p].cash = "NULL"
  BY <1>1 DEF Sound, Coherent
<1> QED BY <1>1, <1>2 DEF Undoable

(* CourierScansService: the scans, and the cancellation in its two halves.  *)
LEMMA CourierKeepsInv ==
  ASSUME CustodyInv, NEW p \in Parcels, CourierStep(p)
  PROVE  CustodyInv'
<1>0. /\ parcel[p] \in Parcel /\ Sound(parcel[p]) /\ TypeOK
      /\ {"RETOUR", "LIVRAISON"} \subseteq ChargeType /\ "COURSIER" \in ScanKind
      /\ RowOK(parcel[p], scan[p], onBon[p], lock[p])
  BY DEF CustodyInv, RowOK, Sound, ChargeType, ScanKind
<1>0a. NoBonLine /\ ~onBon[p] => UNCHANGED lock /\ onBon' = [onBon EXCEPT ![p] = FALSE]
  BY <1>0 DEF NoBonLine, TypeOK
<1>1. CASE ActRamassage(p)
  <2>1. /\ Sound(Ramasser(parcel[p])) /\ Ramasser(parcel[p]).status = "RAMASSE"
        /\ Ramasser(parcel[p]).cash = parcel[p].cash /\ parcel[p].status = "CREE"
        /\ Ramasser(parcel[p]).changes = parcel[p].changes
        /\ Ramasser(parcel[p]).closed = parcel[p].closed
    BY <1>0, <1>1, PickupAndEntryAreSound DEF ActRamassage, CanRamasser, Ramasser, Put, Parcel
  <2>2. Ramasser(parcel[p]).cash = "NULL"
    BY <1>0, <2>1 DEF Sound, Coherent
  <2>3. charges' \in [Charges -> Charge \cup {None}] /\ orphan' \subseteq Charges
    BY <1>0, <1>1, FeesAreTyped DEF ActRamassage
  <2> QED BY <1>0, <1>0a, <1>1, <2>1, <2>2, <2>3, CourierScanIsUndoable, MovedByScan
          DEF ActRamassage
<1>2. ASSUME NEW l \in Livreurs, ActEchec(p, l)
      PROVE  CustodyInv'
  <2>1. /\ Sound(Echec(parcel[p])) /\ Echec(parcel[p]).status = "A_VERIFIER"
        /\ Echec(parcel[p]).cash = parcel[p].cash /\ parcel[p].status = "EN_LIVRAISON"
        /\ Echec(parcel[p]).changes = parcel[p].changes
        /\ Echec(parcel[p]).closed = parcel[p].closed
    BY <1>0, <1>2, ScansAreSound DEF ActEchec, CanEchec, IsWith, Echec, Put, Parcel
  <2>2. Echec(parcel[p]).cash = "NULL"
    BY <1>0, <2>1 DEF Sound, Coherent
  <2>3. charges' \in [Charges -> Charge \cup {None}] /\ orphan' \subseteq Charges
    BY <1>0, <1>2, FeesAreTyped DEF ActEchec
  <2> QED BY <1>0, <1>0a, <1>2, <2>1, <2>2, <2>3, CourierScanIsUndoable, MovedByScan
          DEF ActEchec
<1>3. ASSUME NEW l \in Livreurs, ActEchecReporte(p, l)
      PROVE  CustodyInv'
  <2>1. /\ Sound(EchecReporte(parcel[p])) /\ EchecReporte(parcel[p]).status = "RELANCE"
        /\ EchecReporte(parcel[p]).cash = parcel[p].cash /\ parcel[p].status = "EN_LIVRAISON"
        /\ EchecReporte(parcel[p]).changes = parcel[p].changes
        /\ EchecReporte(parcel[p]).closed = parcel[p].closed
    BY <1>0, <1>3, ScansAreSound
    DEF ActEchecReporte, CanEchecReporte, IsWith, EchecReporte, Put, Parcel
  <2>2. EchecReporte(parcel[p]).cash = "NULL"
    BY <1>0, <2>1 DEF Sound, Coherent
  <2>3. charges' \in [Charges -> Charge \cup {None}] /\ orphan' \subseteq Charges
    BY <1>0, <1>3, FeesAreTyped DEF ActEchecReporte
  <2> QED BY <1>0, <1>0a, <1>3, <2>1, <2>2, <2>3, CourierScanIsUndoable, MovedByScan
          DEF ActEchecReporte
<1>4. ASSUME NEW l \in Livreurs, NEW c \in Charges, ActLivre(p, l, c)
      PROVE  CustodyInv'
  <2>1. /\ Sound(Livrer(parcel[p])) /\ Livrer(parcel[p]).status = "LIVRE"
        /\ Livrer(parcel[p]).cash = "CHEZ_LE_COURSIER" /\ parcel[p].status = "EN_LIVRAISON"
        /\ Livrer(parcel[p]).changes = parcel[p].changes
        /\ Livrer(parcel[p]).closed = parcel[p].closed
    BY <1>0, <1>4, ScansAreSound DEF ActLivre, CanLivrer, IsWith, Livrer, Put, Parcel
  <2>2. charges' \in [Charges -> Charge \cup {None}] /\ orphan' \subseteq Charges
    BY <1>0, <1>4, FeesAreTyped DEF ActLivre, TypeOK
  <2> QED BY <1>0, <1>0a, <1>4, <2>1, <2>2, CourierScanIsUndoable, MovedByScan DEF ActLivre
<1>5. ASSUME NEW l \in Livreurs, NEW c \in Charges, ActEchecFinal(p, l, c)
      PROVE  CustodyInv'
  <2>1. /\ Sound(EchecFinal(parcel[p])) /\ EchecFinal(parcel[p]).status = "RETOUR_AU_DEPOT"
        /\ EchecFinal(parcel[p]).cash = parcel[p].cash /\ parcel[p].status = "EN_LIVRAISON"
        /\ EchecFinal(parcel[p]).changes = parcel[p].changes
        /\ EchecFinal(parcel[p]).closed = parcel[p].closed
    BY <1>0, <1>5, ScansAreSound
    DEF ActEchecFinal, CanEchecFinal, IsWith, EchecFinal, Put, Parcel
  <2>2. EchecFinal(parcel[p]).cash = "NULL"
    BY <1>0, <2>1 DEF Sound, Coherent
  <2>3. charges' \in [Charges -> Charge \cup {None}] /\ orphan' \subseteq Charges
    BY <1>0, <1>5, FeesAreTyped DEF ActEchecFinal, TypeOK
  <2> QED BY <1>0, <1>0a, <1>5, <2>1, <2>2, <2>3, CourierScanIsUndoable, MovedByScan
          DEF ActEchecFinal
<1>6. CASE CheckCourierCancel(p)
  <2>1. RowOK(parcel[p], scan[p], onBon[p], TRUE)
    BY <1>0, <1>6 DEF CheckCourierCancel, RowOK
  <2>2. /\ parcel' = [parcel EXCEPT ![p] = parcel[p]] /\ scan' = [scan EXCEPT ![p] = scan[p]]
        /\ onBon' = [onBon EXCEPT ![p] = onBon[p]] /\ lock' = [lock EXCEPT ![p] = TRUE]
        /\ scan[p] \in Scan \cup {None} /\ onBon[p] \in BOOLEAN
        /\ charges' \in [Charges -> Charge \cup {None}] /\ orphan' \subseteq Charges
    BY <1>0, <1>6 DEF CheckCourierCancel, TypeOK
  <2> QED BY ONLY <2>1, <2>2, OneRow, CustodyInv, p \in Parcels, TRUE \in BOOLEAN
<1>7. CASE WriteCourierCancel(p)
  <2>1. /\ scan[p] \in Scan /\ scan[p].kind = "COURSIER" /\ ~onBon[p]
        /\ Undoable(parcel[p], scan[p], onBon[p])
    BY <1>0, <1>7 DEF WriteCourierCancel, RowOK, Undoable, TypeOK
  <2>2. RestoreCourier(parcel[p], scan[p].before) = scan[p].before
    BY <1>0, <2>1, RestoreIsExact
  <2>3. RowOK(scan[p].before, None, FALSE, FALSE)
    BY <2>1 DEF RowOK, Undoable
  <2>4. {scan[p].fee} \ {None} \in SUBSET Charges
    BY <2>1 DEF Scan
  <2>5. charges' \in [Charges -> Charge \cup {None}] /\ orphan' \subseteq Charges
    BY <1>0, <1>7, <2>4, FeesAreTyped DEF WriteCourierCancel
  <2>6. /\ parcel' = [parcel EXCEPT ![p] = scan[p].before] /\ scan' = [scan EXCEPT ![p] = None]
        /\ onBon' = [onBon EXCEPT ![p] = FALSE] /\ lock' = [lock EXCEPT ![p] = FALSE]
    BY <1>0, <1>7, <2>1, <2>2 DEF WriteCourierCancel, OtherEvent, TypeOK
  <2> QED BY ONLY <2>3, <2>5, <2>6, OneRow, CustodyInv, p \in Parcels, FALSE \in BOOLEAN
<1>8. CASE AbortCourierCancel(p)
  <2>1. RowOK(parcel[p], scan[p], onBon[p], FALSE)
    BY <1>0 DEF RowOK
  <2>2. /\ parcel' = [parcel EXCEPT ![p] = parcel[p]] /\ scan' = [scan EXCEPT ![p] = scan[p]]
        /\ onBon' = [onBon EXCEPT ![p] = onBon[p]] /\ lock' = [lock EXCEPT ![p] = FALSE]
        /\ scan[p] \in Scan \cup {None} /\ onBon[p] \in BOOLEAN
        /\ charges' \in [Charges -> Charge \cup {None}] /\ orphan' \subseteq Charges
    BY <1>0, <1>8 DEF AbortCourierCancel, TypeOK
  <2> QED BY ONLY <2>1, <2>2, OneRow, CustodyInv, p \in Parcels, FALSE \in BOOLEAN
<1> QED BY <1>1, <1>2, <1>3, <1>4, <1>5, <1>6, <1>7, <1>8 DEF CourierStep

(* The same of a depot scan: it is on no bon, or it found a return there.   *)
LEMMA DepotScanIsUndoable ==
  ASSUME CustodyInv, NEW p \in Parcels, NEW y, NEW kind, kind # "COURSIER", NEW fee, NEW o,
         Sound(y), y.status # "RETOUR_EN_ROUTE",
         y.changes = parcel[p].changes, y.closed = parcel[p].closed,
         y.cash = parcel[p].cash, y.attempts = parcel[p].attempts,
         y.deadline = parcel[p].deadline, y.rate = parcel[p].rate,
         parcel[p].status \notin {"LIVRE", "RETOUR_EN_ROUTE"},
         o => parcel[p].status = "RETOUR_AU_DEPOT"
  PROVE  Undoable(y, [kind |-> kind, before |-> parcel[p], fee |-> fee], o)
<1>1. Sound(parcel[p])
  BY DEF CustodyInv, RowOK
<1>2. parcel[p].cash = "NULL"
  BY <1>1 DEF Sound, Coherent
<1> QED BY <1>1, <1>2 DEF Undoable

(* DepotScansService, the tournees, and the bons de retour.                 *)
LEMMA DepotKeepsInv ==
  ASSUME CustodyInv, NEW p \in Parcels, DepotStep(p)
  PROVE  CustodyInv'
<1>0. /\ parcel[p] \in Parcel /\ Sound(parcel[p]) /\ TypeOK /\ onBon[p] \in BOOLEAN
      /\ {"DEPOT", "PREPARATION"} \subseteq ScanKind
      /\ RowOK(parcel[p], scan[p], onBon[p], lock[p])
  BY DEF CustodyInv, RowOK, Sound, ScanKind, TypeOK
<1>0a. /\ onBon[p] => parcel[p].status \in {"RETOUR_AU_DEPOT", "RETOUR_EN_ROUTE"}
       /\ parcel[p].status = "RETOUR_EN_ROUTE" => onBon[p]
  BY <1>0 DEF RowOK
<1>0b. NoBonLine => UNCHANGED lock /\ onBon' = [onBon EXCEPT ![p] = onBon[p]]
  BY <1>0 DEF NoBonLine, TypeOK
<1>0c. NoCharge => charges' \in [Charges -> Charge \cup {None}] /\ orphan' \subseteq Charges
  BY <1>0 DEF NoCharge, TypeOK
<1>1. CASE ActEntreeDepot(p)
  <2> DEFINE y == EntreeDepot(parcel[p])
  <2>1. /\ Sound(y) /\ parcel[p].status \in {"RAMASSE", "RETOUR_AU_DEPOT"}
        /\ y.status \in {"AU_DEPOT", "RETOUR_AU_DEPOT"}
        /\ parcel[p].status = "RETOUR_AU_DEPOT" => y.status = "RETOUR_AU_DEPOT"
        /\ y.changes = parcel[p].changes /\ y.closed = parcel[p].closed
        /\ y.cash = parcel[p].cash /\ y.attempts = parcel[p].attempts
        /\ y.deadline = parcel[p].deadline /\ y.rate = parcel[p].rate
    BY <1>0, <1>1, PickupAndEntryAreSound
    DEF ActEntreeDepot, CanEntreeDepot, IsReturnWithRamasseur, EntreeDepot, Put, Parcel
  <2> HIDE DEF y
  <2>2. Undoable(y, [kind |-> "DEPOT", before |-> parcel[p], fee |-> None], onBon[p])
    BY <1>0a, <2>1, DepotScanIsUndoable
  <2>3. Write(p, y) /\ ScanEvent(p, "DEPOT", None) /\ NoCharge /\ NoBonLine
    BY <1>1 DEF ActEntreeDepot, y
  <2> QED BY <1>0, <1>0a, <1>0b, <1>0c, <2>1, <2>2, <2>3, MovedByScan
<1>2. ASSUME NEW l \in Livreurs, ActSortie(p, l)
      PROVE  CustodyInv'
  <2> DEFINE y == Sortie(parcel[p], l)
  <2>1. /\ Sound(y) /\ parcel[p].status \in {"AU_DEPOT", "RELANCE"}
        /\ y.status = "EN_LIVRAISON"
        /\ y.changes = parcel[p].changes /\ y.closed = parcel[p].closed
        /\ y.cash = parcel[p].cash /\ y.attempts = parcel[p].attempts
        /\ y.deadline = parcel[p].deadline /\ y.rate = parcel[p].rate
    BY <1>0, <1>2, ScansAreSound DEF ActSortie, CanSortie, Sortie, Put, Parcel
  <2> HIDE DEF y
  <2>2. Undoable(y, [kind |-> "DEPOT", before |-> parcel[p], fee |-> None], onBon[p])
    BY <1>0a, <2>1, DepotScanIsUndoable
  <2>3. Write(p, y) /\ ScanEvent(p, "DEPOT", None) /\ NoCharge /\ NoBonLine
    BY <1>2 DEF ActSortie, y
  <2> QED BY <1>0, <1>0a, <1>0b, <1>0c, <2>1, <2>2, <2>3, MovedByScan
<1>3. ASSUME NEW l \in Livreurs, ActRetourDeTournee(p, l)
      PROVE  CustodyInv'
  <2> DEFINE y == RetourDeTournee(parcel[p])
  <2>1. /\ Sound(y)
        /\ parcel[p].status \in {"EN_LIVRAISON", "A_VERIFIER", "RELANCE", "RETOUR_AU_DEPOT"}
        /\ y.status = IF parcel[p].status = "EN_LIVRAISON" THEN "AU_DEPOT" ELSE parcel[p].status
        /\ y.changes = parcel[p].changes /\ y.closed = parcel[p].closed
        /\ y.cash = parcel[p].cash /\ y.attempts = parcel[p].attempts
        /\ y.deadline = parcel[p].deadline /\ y.rate = parcel[p].rate
    BY <1>0, <1>3, PickupAndEntryAreSound
    DEF ActRetourDeTournee, CanRetourDeTournee, RetourDeTournee, Put, Parcel
  <2> HIDE DEF y
  <2>2. Undoable(y, [kind |-> "DEPOT", before |-> parcel[p], fee |-> None], onBon[p])
    BY <1>0a, <2>1, DepotScanIsUndoable
  <2>3. Write(p, y) /\ ScanEvent(p, "DEPOT", None) /\ NoCharge /\ NoBonLine
    BY <1>3 DEF ActRetourDeTournee, y
  <2> QED BY <1>0, <1>0a, <1>0b, <1>0c, <2>1, <2>2, <2>3, MovedByScan
<1>4. CASE ActPreparerRetour(p)
  <2>1. Sound(parcel[p]) /\ parcel[p].status = "RETOUR_AU_DEPOT"
    BY <1>0, <1>4 DEF ActPreparerRetour, CanPreparerRetour
  <2>2. Undoable(parcel[p], [kind |-> "PREPARATION", before |-> parcel[p], fee |-> None], TRUE)
    BY <2>1, DepotScanIsUndoable
  <2>3. /\ Write(p, parcel[p]) /\ ScanEvent(p, "PREPARATION", None) /\ NoCharge
        /\ UNCHANGED lock /\ onBon' = [onBon EXCEPT ![p] = TRUE]
    BY <1>4 DEF ActPreparerRetour
  <2> QED BY <1>0, <1>0c, <2>1, <2>2, <2>3, MovedByScan
<1>5. CASE CancelDepotScan(p)
  <2> DEFINE o == onBon[p] /\ scan[p].kind # "PREPARATION"
  <2>1. /\ scan[p] \in Scan /\ scan[p].kind # "COURSIER"
        /\ Undoable(parcel[p], scan[p], onBon[p])
    BY <1>0, <1>5 DEF CancelDepotScan, RowOK, TypeOK
  <2>2. RestoreDepot(parcel[p], scan[p].before) = scan[p].before
    BY <1>0, <2>1, RestoreIsExact
  <2>3. /\ Sound(scan[p].before) /\ scan[p].before.status # "RETOUR_EN_ROUTE"
        /\ o => scan[p].before.status = "RETOUR_AU_DEPOT"
    BY <2>1 DEF Undoable
  <2>4. /\ Write(p, scan[p].before) /\ OtherEvent(p) /\ UNCHANGED lock /\ NoCharge
        /\ onBon' = [onBon EXCEPT ![p] = o]
    BY <1>0, <1>5, <2>2 DEF CancelDepotScan, TypeOK
  <2>5. o \in BOOLEAN
    OBVIOUS
  <2> HIDE DEF o
  <2> QED BY <1>0c, <2>3, <2>4, <2>5, MovedByEvent
<1>6. CASE ActPlanifier(p)
  BY <1>0, <1>0a, <1>0c, <1>6, MovedOffBon DEF ActPlanifier
<1>7. CASE ActModificationAppliquee(p)
  BY <1>0, <1>0a, <1>0c, <1>7, MovedOffBon DEF ActModificationAppliquee
<1>8. CASE ActDepartRetour(p)
  <2>1. Sound(DepartRetour(parcel[p])) /\ DepartRetour(parcel[p]).status = "RETOUR_EN_ROUTE"
    BY <1>0, <1>8, ReturnsAndCashAreSound DEF ActDepartRetour, CanDepartRetour, DepartRetour, Put, Parcel
  <2> QED BY <1>0c, <1>8, <2>1, MovedOffBon DEF ActDepartRetour
<1>9. CASE ActRetourRecu(p)
  <2>1. Sound(RetourRecu(parcel[p])) /\ RetourRecu(parcel[p]).status = "RETOUR_RECU"
    BY <1>0, <1>9, ReturnsAndCashAreSound DEF ActRetourRecu, CanRetourRecu, RetourRecu, Put, Parcel
  <2> QED BY <1>0c, <1>9, <2>1, MovedByEvent DEF ActRetourRecu
<1>10. CASE ActRetourNonRemis(p)
  <2>1. /\ Sound(RetourNonRemis(parcel[p]))
        /\ RetourNonRemis(parcel[p]).status = "RETOUR_AU_DEPOT"
    BY <1>0, <1>10, ReturnsAndCashAreSound
    DEF ActRetourNonRemis, CanRetourNonRemis, RetourNonRemis, Put, Parcel
  <2> QED BY <1>0c, <1>10, <2>1, MovedOffBon DEF ActRetourNonRemis
<1> QED BY <1>1, <1>2, <1>3, <1>4, <1>5, <1>6, <1>7, <1>8, <1>9, <1>10 DEF DepotStep

(* The forced moves, the corrections of bons, and the cash.                 *)
LEMMA AdminKeepsInv ==
  ASSUME CustodyInv, NEW p \in Parcels, AdminStep(p)
  PROVE  CustodyInv'
<1>0. /\ parcel[p] \in Parcel /\ Sound(parcel[p]) /\ TypeOK /\ onBon[p] \in BOOLEAN
      /\ onBon[p] => parcel[p].status \in {"RETOUR_AU_DEPOT", "RETOUR_EN_ROUTE"}
      /\ parcel[p].status = "RETOUR_EN_ROUTE" => onBon[p]
  BY DEF CustodyInv, RowOK, Sound, TypeOK
<1>0c. NoCharge => charges' \in [Charges -> Charge \cup {None}] /\ orphan' \subseteq Charges
  BY <1>0 DEF NoCharge, TypeOK
<1>1. ASSUME NEW l \in Livreurs, NEW s \in ParcelStatus, NEW place \in ParcelLocation,
             ActForcer(p, s, place, l)
      PROVE  CustodyInv'
  <2>1. /\ Sound(Forcer(parcel[p], s, place, l)) /\ Forcer(parcel[p], s, place, l).status = s
        /\ s # "RETOUR_EN_ROUTE" /\ parcel[p].status # "RETOUR_EN_ROUTE"
        /\ onBon[p] => s = "RETOUR_AU_DEPOT"
    <3>1. CanForcer(parcel[p], s, place)
      BY <1>1 DEF ActForcer
    <3>2. Sound(Forcer(parcel[p], s, place, l))
      BY <1>0, <3>1, ForcingIsSound
    <3>3. Forcer(parcel[p], s, place, l).status = s
      BY <1>0 DEF Forcer, Put, Parcel
    <3>4. CASE parcel[p].status \in LocationFixStatuses /\ s = parcel[p].status
      BY <1>0, <3>2, <3>3, <3>4 DEF LocationFixStatuses
    <3>5. CASE {<<parcel[p].status, parcel[p].location>>, <<s, place>>} \subseteq ForceableStates
      <4>1. <<parcel[p].status, parcel[p].location>> \in ForceableStates
            /\ <<s, place>> \in ForceableStates
        BY ONLY <3>5
      <4> QED BY <1>0, <3>2, <3>3, <4>1 DEF ForceableStates
    <3> QED BY ONLY <3>1, <3>4, <3>5 DEF CanForcer
  <2> DEFINE y == Forcer(parcel[p], s, place, l)
  <2>2. Write(p, y) /\ OtherEvent(p) /\ NoCharge /\ NoBonLine
    BY <1>1 DEF ActForcer
  <2>3. /\ Sound(y) /\ y.status # "RETOUR_EN_ROUTE"
        /\ onBon[p] => y.status \in {"RETOUR_AU_DEPOT", "RETOUR_EN_ROUTE"}
    BY <2>1
  <2> HIDE DEF y
  <2> QED BY <1>0c, <2>2, <2>3, MovedOffBon
<1>2. CASE ActAnnulerLivraison(p)
  <2>1. Sound(AnnulerLivraison(parcel[p]))
    BY <1>0, <1>2, UndoneDeliveryIsSound DEF ActAnnulerLivraison
  <2>2. AnnulerLivraison(parcel[p]).status = "EN_LIVRAISON" /\ ~onBon[p]
    BY <1>0, <1>2 DEF ActAnnulerLivraison, CanAnnulerLivraison, AnnulerLivraison, Put, Parcel
  <2>3. Fees(p, "LIVRAISON") \in SUBSET Charges
    BY DEF Fees
  <2>4. charges' \in [Charges -> Charge \cup {None}] /\ orphan' \subseteq Charges
    BY <1>0, <1>2, <2>3, FeesAreTyped DEF ActAnnulerLivraison
  <2> QED BY <1>2, <2>1, <2>2, <2>4, MovedOffBon DEF ActAnnulerLivraison
<1>3. ASSUME NEW target \in {"RAMASSEUR", "DEPOT"}, ActCorrigerRetourRecu(p, target)
      PROVE  CustodyInv'
  <2>1. /\ Sound(CorrigerRetourRecu(parcel[p], target))
        /\ CorrigerRetourRecu(parcel[p], target).status \in {"RETOUR_AU_DEPOT", "RETOUR_EN_ROUTE"}
    BY <1>0, <1>3, ReturnsAndCashAreSound
    DEF ActCorrigerRetourRecu, CorrigerRetourRecu, DepartRetour, RetourNonRemis, Put, Parcel
  <2> QED BY <1>0c, <1>3, <2>1, MovedByEvent DEF ActCorrigerRetourRecu
<1>4. CASE ActCloturerCaisse(p)
  <2>1. Sound(CloturerCaisse(parcel[p])) /\ CloturerCaisse(parcel[p]).status = "LIVRE" /\ ~onBon[p]
    BY <1>0, <1>4, ReturnsAndCashAreSound
    DEF ActCloturerCaisse, CanCloturerCaisse, CloturerCaisse, Parcel
  <2> QED BY <1>0c, <1>4, <2>1, MovedOffBon DEF ActCloturerCaisse
<1>5. CASE ActPayer(p)
  <2>1. Sound(Payer(parcel[p])) /\ Payer(parcel[p]).status = "LIVRE" /\ ~onBon[p]
    BY <1>0, <1>5, ReturnsAndCashAreSound DEF ActPayer, CanPayer, Payer, Parcel
  <2> QED BY <1>0c, <1>5, <2>1, MovedOffBon DEF ActPayer
<1>6. CASE ActCorrigerPaiement(p)
  <2>1. /\ Sound(CorrigerPaiement(parcel[p])) /\ CorrigerPaiement(parcel[p]).status = "LIVRE"
        /\ ~onBon[p]
    BY <1>0, <1>6, ReturnsAndCashAreSound
    DEF ActCorrigerPaiement, CanCorrigerPaiement, CorrigerPaiement, Parcel
  <2> QED BY <1>0c, <1>6, <2>1, MovedOffBon DEF ActCorrigerPaiement
<1> QED BY <1>1, <1>2, <1>3, <1>4, <1>5, <1>6 DEF AdminStep

(* A bon de versement taking a charge or giving it back moves no parcel.    *)
LEMMA BonKeepsInv ==
  ASSUME CustodyInv, NEW c \in Charges, DeductCharge(c) \/ ReleaseCharge(c)
  PROVE  CustodyInv'
<1>1. charges[c] \in Charge
  BY NullAssumption DEF CustodyInv, TypeOK, DeductCharge, ReleaseCharge, IsWaiting
<1>2. \A status \in ChargeStatus : [charges[c] EXCEPT !.status = status] \in Charge
  BY <1>1 DEF Charge
<1>3. charges' \in [Charges -> Charge \cup {None}]
  BY <1>2 DEF CustodyInv, TypeOK, DeductCharge, ReleaseCharge, ChargeStatus
<1>4. UNCHANGED <<parcel, scan, lock, onBon, orphan>>
  BY DEF DeductCharge, ReleaseCharge
<1> QED BY <1>3, <1>4 DEF CustodyInv, TypeOK

(* A parcel just created satisfies the invariant.                           *)
LEMMA InitInv == Init => CustodyInv
<1> SUFFICES ASSUME Init PROVE CustodyInv
  OBVIOUS
<1>1. 0 \in 0..MaxAttempts /\ 0 \in 0..MaxClientChanges /\ 0 < MaxAttempts
  BY LimitsAssumption
<1>2. Sound(NewParcel)
  BY <1>1 DEF Sound, Coherent, Attempted, NewParcel, Parcel, ParcelStatus, ParcelLocation,
     ParcelCashStatus, RelaunchOrigin, Places, ReturnStatus, CancellableAfterPickup
<1>3. RowOK(NewParcel, None, FALSE, FALSE)
  BY <1>2 DEF RowOK, NewParcel
<1>4. TypeOK
  BY <1>2 DEF Init, TypeOK, Sound
<1> QED BY <1>3, <1>4 DEF Init, CustodyInv

(* So does every parcel after any transaction.                              *)
LEMMA StepKeepsInv == CustodyInv /\ [Next]_vars => CustodyInv'
<1> SUFFICES ASSUME CustodyInv, [Next]_vars PROVE CustodyInv'
  OBVIOUS
<1>1. ASSUME NEW p \in Parcels,
             SellerStep(p) \/ CourierStep(p) \/ DepotStep(p) \/ AdminStep(p) \/ SystemStep(p)
      PROVE  CustodyInv'
  BY <1>1, SellerKeepsInv, CourierKeepsInv, DepotKeepsInv, AdminKeepsInv, SystemKeepsInv
<1>2. ASSUME NEW c \in Charges, DeductCharge(c) \/ ReleaseCharge(c)
      PROVE  CustodyInv'
  BY <1>2, BonKeepsInv
<1>3. CASE UNCHANGED vars
  BY <1>3 DEF vars, CustodyInv, TypeOK
<1> QED BY <1>1, <1>2, <1>3 DEF Next

-----------------------------------------------------------------------------
(* Theorems *)

(* The inductive invariant: the columns of every parcel agree, and whatever *)
(* scan can still be cancelled kept a row that can be put back.             *)
THEOREM AlwaysCustodyInv == Spec => []CustodyInv
BY InitInv, StepKeepsInv, PTL DEF Spec

(* Every column of every table keeps its type.                              *)
THEOREM TypeCorrect == Spec => []TypeOK
<1>1. CustodyInv => TypeOK
  BY DEF CustodyInv
<1> QED BY AlwaysCustodyInv, <1>1, PTL

(* No sequence of scans, cancellations, decisions, forced moves, bons and   *)
(* caisses leaves a parcel whose columns contradict each other.             *)
THEOREM CustodyHolds == Spec => []Custody
<1>1. CustodyInv => Custody
  BY DEF CustodyInv, RowOK, Sound, Custody
<1> QED BY AlwaysCustodyInv, <1>1, PTL

(* A parcel that can go out has an attempt left, a delivered one has one to *)
(* give back.                                                               *)
THEOREM AttemptsHold == Spec => []AttemptsLeft
<1>1. CustodyInv => AttemptsLeft
  BY DEF CustodyInv, RowOK, Sound, Attempted, AttemptsLeft
<1> QED BY AlwaysCustodyInv, <1>1, PTL

(* An open bon de retour holds returns, and holds every parcel travelling   *)
(* back.                                                                    *)
THEOREM BonHolds == Spec => []BonHoldsReturns
<1>1. CustodyInv => BonHoldsReturns
  BY DEF CustodyInv, RowOK, BonHoldsReturns
<1> QED BY AlwaysCustodyInv, <1>1, PTL

(* A cancelled scan leaves the parcel exactly as the scan found it.         *)
THEOREM CancellationIsExact == Spec => UndoIsExact
<1>1. ASSUME CustodyInv, NEW p \in Parcels, CancelDepotScan(p) \/ WriteCourierCancel(p)
      PROVE  parcel'[p] = scan[p].before
  <2>1. /\ scan[p] \in Scan /\ parcel[p] \in Parcel
        /\ Undoable(parcel[p], scan[p], onBon[p])
    BY <1>1 DEF CustodyInv, TypeOK, RowOK, CancelDepotScan, WriteCourierCancel
  <2>2. CASE CancelDepotScan(p)
    BY <1>1, <2>1, <2>2, RestoreIsExact DEF CancelDepotScan, Write, CustodyInv, TypeOK
  <2>3. CASE WriteCourierCancel(p)
    BY <1>1, <2>1, <2>3, RestoreIsExact DEF WriteCourierCancel, CustodyInv, TypeOK, RowOK
  <2> QED BY ONLY <1>1, <2>2, <2>3
<1>2. CustodyInv =>
        \A p \in Parcels :
          CancelDepotScan(p) \/ WriteCourierCancel(p) => parcel'[p] = scan[p].before
  BY ONLY <1>1
<1> QED BY AlwaysCustodyInv, <1>2, PTL DEF UndoIsExact

(* Cash that has reached the depot is never undone: the only moves left to  *)
(* such a parcel are its payment and the correction of it.                  *)
THEOREM DeliveriesStand == Spec => DeliveryStands
<1> DEFINE Banked(x) == x.cash \in {"AU_DEPOT", "PAYE"}
<1>1. ASSUME CustodyInv, [Next]_vars, NEW p \in Parcels, Banked(parcel[p])
      PROVE  parcel'[p].status = "LIVRE" /\ parcel'[p].cash \in {"AU_DEPOT", "PAYE"}
  <2>1. /\ parcel[p] \in Parcel /\ parcel[p].status = "LIVRE" /\ parcel \in [Parcels -> Parcel]
        /\ scan[p] = None /\ ~lock[p]
    BY <1>1 DEF CustodyInv, RowOK, Sound, Coherent, Undoable, TypeOK
  <2> SUFFICES ASSUME parcel'[p] # parcel[p]
               PROVE  parcel'[p].status = "LIVRE" /\ parcel'[p].cash \in {"AU_DEPOT", "PAYE"}
    BY <1>1, <2>1
  <2>2. \A q \in Parcels : \A x : Write(q, x) => q = p /\ parcel'[p] = x
    BY <2>1 DEF Write
  <2>3. ~SellerStep(p)
    BY <2>1 DEF SellerStep, ActModifier, CanModifier, ActAnnulerAvant, CanAnnulerAvant,
       ActRelancer, CanRelancer, ActChangerDate, CanChangerDate, ActAnnulerApres,
       CanAnnulerApres, CancellableAfterPickup, ActRetourner, CanRetourner,
       ActChangerClient, CanChangerClient
  <2>4. ~SystemStep(p)
    BY <2>1 DEF SystemStep, ActAutoRetour48h, CanAutoRetour48h
  <2>5. ~CourierStep(p)
    BY <2>1 DEF CourierStep, ActRamassage, CanRamasser, ActEchec, CanEchec, ActEchecReporte,
       CanEchecReporte, ActLivre, CanLivrer, ActEchecFinal, CanEchecFinal, IsWith,
       CheckCourierCancel, WriteCourierCancel, AbortCourierCancel
  <2>6. ~DepotStep(p)
    BY <2>1 DEF DepotStep, ActEntreeDepot, CanEntreeDepot, IsReturnWithRamasseur,
       ActPreparerRetour, CanPreparerRetour, CancelDepotScan, ActSortie, CanSortie,
       ActRetourDeTournee, CanRetourDeTournee, ActPlanifier, ActModificationAppliquee,
       CancellableAfterPickup, ActDepartRetour, CanDepartRetour, ActRetourRecu,
       CanRetourRecu, ActRetourNonRemis, CanRetourNonRemis
  <2>7. AdminStep(p) => ActPayer(p) \/ ActCorrigerPaiement(p)
    <3>1. \A s, place : ~CanForcer(parcel[p], s, place)
      BY <2>1 DEF CanForcer, LocationFixStatuses, ForceableStates
    <3>2. ~CanAnnulerLivraison(parcel[p]) /\ ~CanCloturerCaisse(parcel[p])
      BY <1>1 DEF CanAnnulerLivraison, CanCloturerCaisse
    <3> QED BY <2>1, <3>1, <3>2 DEF AdminStep, ActForcer, ActAnnulerLivraison,
            ActCorrigerRetourRecu, CanCorrigerRetourRecu, ActCloturerCaisse
  <2>8. CASE AdminStep(p)
    <3>1. CASE ActPayer(p)
      <4>1. parcel'[p] = Payer(parcel[p])
        BY <2>2, <3>1 DEF ActPayer
      <4> QED BY <2>1, <4>1 DEF Payer, Parcel
    <3>2. CASE ActCorrigerPaiement(p)
      <4>1. parcel'[p] = CorrigerPaiement(parcel[p])
        BY <2>2, <3>2 DEF ActCorrigerPaiement
      <4> QED BY <2>1, <4>1 DEF CorrigerPaiement, Parcel
    <3> QED BY ONLY <2>7, <2>8, <3>1, <3>2
  <2>9. ASSUME NEW q \in Parcels, q # p
        PROVE  ~(SellerStep(q) \/ CourierStep(q) \/ DepotStep(q) \/ AdminStep(q) \/ SystemStep(q))
    <3>1. \A x : ~Write(q, x)
      BY <2>2, <2>9
    <3>2. ~WriteCourierCancel(q)
      BY <2>1, <2>9 DEF WriteCourierCancel
    <3>3. ~CheckCourierCancel(q) /\ ~AbortCourierCancel(q)
      BY DEF CheckCourierCancel, AbortCourierCancel
    <3>4. ~SellerStep(q) /\ ~SystemStep(q)
      BY ONLY <3>1 DEF SellerStep, ActModifier, ActAnnulerAvant, ActRelancer, ActChangerDate,
         ActAnnulerApres, ActRetourner, ActChangerClient, SystemStep, ActAutoRetour48h
    <3>5. ~CourierStep(q)
      BY ONLY <3>1, <3>2, <3>3 DEF CourierStep, ActRamassage, ActEchec, ActEchecReporte,
         ActLivre, ActEchecFinal
    <3>6. ~DepotStep(q)
      BY ONLY <3>1 DEF DepotStep, ActEntreeDepot, ActPreparerRetour, CancelDepotScan,
         ActSortie, ActRetourDeTournee, ActPlanifier, ActModificationAppliquee,
         ActDepartRetour, ActRetourRecu, ActRetourNonRemis
    <3>7. ~AdminStep(q)
      BY ONLY <3>1 DEF AdminStep, ActForcer, ActAnnulerLivraison, ActCorrigerRetourRecu,
         ActCloturerCaisse, ActPayer, ActCorrigerPaiement
    <3> QED BY ONLY <3>4, <3>5, <3>6, <3>7
  <2>10. \A c \in Charges : ~DeductCharge(c) /\ ~ReleaseCharge(c)
    BY DEF DeductCharge, ReleaseCharge
  <2>11. parcel' # parcel
    OBVIOUS
  <2> QED BY <1>1, <2>3, <2>4, <2>5, <2>6, <2>8, <2>9, <2>10, <2>11 DEF Next, vars
<1>2. CustodyInv /\ [Next]_vars =>
        \A p \in Parcels :
          parcel[p].cash \in {"AU_DEPOT", "PAYE"} =>
            parcel'[p].status = "LIVRE" /\ parcel'[p].cash \in {"AU_DEPOT", "PAYE"}
  BY ONLY <1>1
<1> QED BY AlwaysCustodyInv, <1>2, PTL DEF Spec, DeliveryStands

-----------------------------------------------------------------------------
(* The fees of a parcel, for every set of parcels and of charge ids: what   *)
(* seller_charges holds for a parcel is what its outcome owes (A-1, A-6).   *)
(*                                                                          *)
(* FeesMatchOutcome alone is not inductive: the cancellation of a courier's *)
(* scan annuls the one charge its event names, so the invariant also says   *)
(* which charge that is, and what the parcel it puts back owed.             *)

OutcomeFee == {"LIVRAISON", "RETOUR"}

Due(p, type) == Fees(p, type) \ orphan

\* Never picked up: nothing can have been charged for it, nor orphaned.
Unpicked(x) == x.status \in {"CREE", "ANNULE"}

Uncharged(p) == \A type \in ChargeType : Fees(p, type) = {}

(* What the last scan s of parcel p, whose row is now x, did to its fees: a *)
(* scan without a fee left what is owed as it was; a courier's scan with    *)
(* one found nothing owed, and its fee is the one the outcome owes.         *)
ScanFee(p, x, s) ==
  /\ s.fee = None => \A type \in OutcomeFee : Owes(s.before, type) <=> Owes(x, type)
  /\ s.fee # None =>
       /\ s.kind = "COURSIER"
       /\ \A type \in OutcomeFee : ~Owes(s.before, type)
       /\ \E type \in OutcomeFee : Owes(x, type) /\ s.fee \in Due(p, type)
  /\ Unpicked(s.before) => Uncharged(p)

FeeRow(p, x, s) ==
  /\ \A type \in OutcomeFee :
       IF Owes(x, type) THEN ExactlyOne(Due(p, type)) ELSE Due(p, type) = {}
  /\ IsFiniteSet(Fees(p, "CHANGEMENT_CLIENT"))
  /\ Cardinality(Fees(p, "CHANGEMENT_CLIENT")) = x.changes
  /\ Unpicked(x) => Uncharged(p)
  /\ s # None => ScanFee(p, x, s)

FeesInv ==
  /\ \A c \in orphan : charges[c] # None
  /\ \A p \in Parcels : FeeRow(p, parcel[p], scan[p])

-----------------------------------------------------------------------------
(* Lemmas about what a transaction does to the charges *)

(* A delivered parcel is not a returned one: no parcel owes both fees.      *)
LEMMA OwesOne ==
  ASSUME NEW x
  PROVE  ~(Owes(x, "LIVRAISON") /\ Owes(x, "RETOUR"))
BY DEF Owes, ReturnStatus

(* A transaction that writes one parcel, and only charges of that parcel,   *)
(* keeps the invariant if it leaves that parcel's fees right.               *)
LEMMA OneParcelsFees ==
  ASSUME CustodyInv, FeesInv, NEW p \in Parcels,
         \A q \in Parcels \ {p} : parcel'[q] = parcel[q] /\ scan'[q] = scan[q],
         \A c \in Charges :
           \/ charges'[c] = charges[c] /\ (c \in orphan <=> c \in orphan')
           \/ /\ charges[c] # None => charges[c].parcel = p
              /\ charges'[c] # None => charges'[c].parcel = p
              /\ c \in orphan' => charges'[c] # None,
         orphan' \subseteq Charges,
         FeeRow(p, parcel[p], scan[p])'
  PROVE  FeesInv'
<1>1. orphan \subseteq Charges /\ \A c \in orphan : charges[c] # None
  BY DEF CustodyInv, TypeOK, FeesInv
<1>2. \A c \in orphan' : charges'[c] # None
  BY <1>1
<1>3. ASSUME NEW q \in Parcels, q # p
      PROVE  FeeRow(q, parcel[q], scan[q])'
  <2>1. \A type : Fees(q, type)' = Fees(q, type)
    BY <1>3 DEF Fees
  <2>2. \A type : Due(q, type)' = Due(q, type)
    <3>1. \A c \in Charges : \A type :
            c \in Fees(q, type) => (c \in orphan <=> c \in orphan')
      BY <1>3 DEF Fees
    <3>2. \A type : Fees(q, type) \subseteq Charges
      BY DEF Fees
    <3> QED BY <2>1, <3>1, <3>2 DEF Due
  <2>3. FeeRow(q, parcel[q], scan[q])
    BY DEF FeesInv
  <2>4. parcel'[q] = parcel[q] /\ scan'[q] = scan[q]
    BY <1>3
  <2> QED BY <2>1, <2>2, <2>3, <2>4 DEF FeeRow, ScanFee, Uncharged
<1>4. \A q \in Parcels : FeeRow(q, parcel[q], scan[q])'
  BY <1>3
<1> QED BY <1>2, <1>4 DEF FeesInv

(* A step that neither inserts nor annuls a charge, and leaves what the     *)
(* parcel owes and its count of changes as they were.                       *)
LEMMA NoFeeMoves ==
  ASSUME CustodyInv, FeesInv, NEW p \in Parcels, NEW y,
         parcel' = [parcel EXCEPT ![p] = y], NoCharge,
         y.changes = parcel[p].changes,
         \A type \in OutcomeFee : Owes(y, type) <=> Owes(parcel[p], type),
         Unpicked(y) => Uncharged(p),
         OtherEvent(p) \/ \E kind \in ScanKind : ScanEvent(p, kind, None)
  PROVE  FeesInv'
<1>1. parcel'[p] = y /\ \A q \in Parcels \ {p} : parcel'[q] = parcel[q] /\ scan'[q] = scan[q]
  BY DEF CustodyInv, TypeOK, OtherEvent, ScanEvent
<1>2. \A type : Fees(p, type)' = Fees(p, type) /\ Due(p, type)' = Due(p, type)
  BY DEF NoCharge, Fees, Due
<1>3. FeeRow(p, parcel[p], scan[p])
  BY DEF FeesInv
<1>4. scan'[p] # None => ScanFee(p, parcel[p], scan[p])'
  <2>1. CASE OtherEvent(p)
    BY <2>1 DEF CustodyInv, TypeOK, OtherEvent
  <2>2. CASE \E kind \in ScanKind : ScanEvent(p, kind, None)
    <3>1. scan'[p].fee = None /\ scan'[p].before = parcel[p]
      BY <2>2 DEF CustodyInv, TypeOK, ScanEvent
    <3> QED BY <1>1, <1>2, <1>3, <3>1 DEF ScanFee, FeeRow, Uncharged
  <2> QED BY <2>1, <2>2
<1>5. FeeRow(p, parcel[p], scan[p])'
  BY <1>1, <1>2, <1>3, <1>4 DEF FeeRow, Uncharged
<1>6. UNCHANGED <<charges, orphan>> /\ orphan \subseteq Charges
  BY DEF NoCharge, CustodyInv, TypeOK
<1> QED BY <1>1, <1>5, <1>6, OneParcelsFees

(* A parcel that owed neither fee comes to owe one, and it is charged.      *)
LEMMA OutcomeIsCharged ==
  ASSUME CustodyInv, FeesInv, NEW p \in Parcels, NEW y,
         NEW c \in Charges, NEW type \in OutcomeFee,
         parcel' = [parcel EXCEPT ![p] = y], NewCharge(c, p, type), UNCHANGED orphan,
         y.changes = parcel[p].changes, Owes(y, type),
         \A t \in OutcomeFee : ~Owes(parcel[p], t), ~Unpicked(parcel[p]),
         OtherEvent(p) \/ ScanEvent(p, "COURSIER", c)
  PROVE  FeesInv'
<1>1. /\ parcel'[p] = y
      /\ \A q \in Parcels \ {p} : parcel'[q] = parcel[q] /\ scan'[q] = scan[q]
  BY DEF CustodyInv, TypeOK, OtherEvent, ScanEvent
<1>2. /\ charges[c] = None /\ c \notin orphan
      /\ charges'[c] = [parcel |-> p, type |-> type, status |-> "EN_ATTENTE"]
      /\ charges'[c] # None
      /\ \A d \in Charges \ {c} : charges'[d] = charges[d]
  <2>1. [parcel |-> p, type |-> type, status |-> "EN_ATTENTE"] \in Charge
    BY DEF Charge, ChargeStatus, ChargeType, OutcomeFee
  <2> QED BY <2>1, NullAssumption DEF CustodyInv, TypeOK, NewCharge, FeesInv
<1>3. /\ Fees(p, type)' = Fees(p, type) \cup {c}
      /\ \A t : t # type => Fees(p, t)' = Fees(p, t)
  BY <1>2 DEF Fees
<1>4. FeeRow(p, parcel[p], scan[p])
  BY DEF FeesInv
<1>5. /\ Due(p, type)' = {c}
      /\ \A t \in OutcomeFee \ {type} : Due(p, t)' = {} /\ ~Owes(y, t)
  <2>1. \A t \in OutcomeFee : Due(p, t) = {}
    BY <1>4 DEF FeeRow
  <2>2. Due(p, type)' = Due(p, type) \cup {c}
    BY <1>2, <1>3 DEF Due
  <2>3. \A t \in OutcomeFee \ {type} : Due(p, t)' = Due(p, t)
    BY <1>3 DEF Due
  <2>4. \A t \in OutcomeFee \ {type} : ~Owes(y, t)
    BY OwesOne DEF OutcomeFee
  <2> QED BY <2>1, <2>2, <2>3, <2>4
<1>6. Fees(p, "CHANGEMENT_CLIENT")' = Fees(p, "CHANGEMENT_CLIENT")
  BY <1>3 DEF OutcomeFee
<1>7. scan'[p] # None => ScanFee(p, parcel[p], scan[p])'
  <2>1. CASE OtherEvent(p)
    BY <2>1 DEF CustodyInv, TypeOK, OtherEvent
  <2>2. CASE ScanEvent(p, "COURSIER", c)
    <3>1. /\ scan'[p].fee = c /\ scan'[p].before = parcel[p] /\ scan'[p].kind = "COURSIER"
          /\ c # None
      BY <2>2, NullAssumption DEF CustodyInv, TypeOK, ScanEvent
    <3> QED BY <1>1, <1>5, <3>1 DEF ScanFee
  <2> QED BY <2>1, <2>2
<1>8. FeeRow(p, parcel[p], scan[p])'
  <2>1. ~Unpicked(y)
    BY DEF Unpicked, Owes, ReturnStatus
  <2> QED BY <1>1, <1>4, <1>5, <1>6, <1>7, <2>1 DEF FeeRow, ExactlyOne
<1>9. \A d \in Charges :
        \/ charges'[d] = charges[d] /\ (d \in orphan <=> d \in orphan')
        \/ /\ charges[d] # None => charges[d].parcel = p
           /\ charges'[d] # None => charges'[d].parcel = p
           /\ d \in orphan' => charges'[d] # None
  BY <1>2
<1>10. orphan' \subseteq Charges
  BY DEF CustodyInv, TypeOK
<1> QED BY <1>1, <1>8, <1>9, <1>10, OneParcelsFees

(* A parcel that owed a fee no longer does: the rows C annulled, all its    *)
(* due ones among them, are gone, or already deducted and remembered.       *)
LEMMA OutcomeIsReversed ==
  ASSUME CustodyInv, FeesInv, NEW p \in Parcels, NEW y, NEW C \in SUBSET Charges,
         parcel' = [parcel EXCEPT ![p] = y], AnnulCharges(C), OtherEvent(p),
         y.changes = parcel[p].changes,
         \A type \in OutcomeFee : ~Owes(y, type) /\ Due(p, type) \subseteq C,
         ~Unpicked(y),
         \A c \in C : \E type \in OutcomeFee : c \in Fees(p, type)
  PROVE  FeesInv'
<1>1. /\ parcel'[p] = y /\ scan'[p] = None
      /\ \A q \in Parcels \ {p} : parcel'[q] = parcel[q] /\ scan'[q] = scan[q]
  BY DEF CustodyInv, TypeOK, OtherEvent
<1> DEFINE waiting == {c \in C : IsWaiting(c)}
<1>2. /\ charges' = [c \in Charges |-> IF c \in waiting THEN None ELSE charges[c]]
      /\ orphan' = (orphan \cup C) \ waiting
  BY DEF AnnulCharges
<1>3. \A c \in C : charges[c] # None /\ charges[c].parcel = p /\ charges[c].type \in OutcomeFee
  BY DEF Fees
<1>4. \A type \in OutcomeFee : Due(p, type)' = {}
  <2> SUFFICES ASSUME NEW type \in OutcomeFee, NEW c \in Charges,
                      c \in Fees(p, type)', c \notin orphan'
               PROVE  FALSE
    BY DEF Due, Fees
  <2>1. c \notin waiting /\ c \in Fees(p, type)
    BY <1>2 DEF Fees
  <2>2. c \notin C /\ c \notin orphan
    BY <1>2, <2>1
  <2> QED BY <2>1, <2>2 DEF Due
<1>5. Fees(p, "CHANGEMENT_CLIENT")' = Fees(p, "CHANGEMENT_CLIENT")
  BY <1>2, <1>3 DEF Fees, OutcomeFee
<1>6. FeeRow(p, parcel[p], scan[p])
  BY DEF FeesInv
<1>7. FeeRow(p, parcel[p], scan[p])'
  BY <1>1, <1>4, <1>5, <1>6 DEF FeeRow
<1>8. orphan' \subseteq Charges
  BY <1>2 DEF CustodyInv, TypeOK
<1>9. \A c \in Charges :
        \/ charges'[c] = charges[c] /\ (c \in orphan <=> c \in orphan')
        \/ /\ charges[c] # None => charges[c].parcel = p
           /\ charges'[c] # None => charges'[c].parcel = p
           /\ c \in orphan' => charges'[c] # None
  <2> SUFFICES ASSUME NEW c \in Charges
               PROVE  \/ charges'[c] = charges[c] /\ (c \in orphan <=> c \in orphan')
                      \/ /\ charges[c] # None => charges[c].parcel = p
                         /\ charges'[c] # None => charges'[c].parcel = p
                         /\ c \in orphan' => charges'[c] # None
    OBVIOUS
  <2>1. CASE c \in C
    BY <1>2, <1>3, <2>1
  <2>2. CASE c \notin C
    BY <1>2, <2>2
  <2> QED BY <2>1, <2>2
<1> QED BY <1>1, <1>7, <1>8, <1>9, OneParcelsFees

(* Changer de client: one more change, one more fee for it.                 *)
LEMMA ChangeIsCharged ==
  ASSUME CustodyInv, FeesInv, NEW p \in Parcels, NEW c \in Charges, ActChangerClient(p, c)
  PROVE  FeesInv'
<1> DEFINE y == ChangerClient(parcel[p])
<1>1. parcel[p] \in Parcel /\ parcel[p].status \in {"A_VERIFIER", "RELANCE"}
  BY DEF CustodyInv, TypeOK, ActChangerClient, CanChangerClient
<1>2. /\ y.changes = parcel[p].changes + 1
      /\ \A type \in OutcomeFee : ~Owes(parcel[p], type) /\ ~Owes(y, type)
      /\ ~Unpicked(y)
  BY <1>1 DEF ChangerClient, Parcel, Owes, ReturnStatus, OutcomeFee, Unpicked
<1>3. /\ parcel'[p] = y /\ scan'[p] = None
      /\ \A q \in Parcels \ {p} : parcel'[q] = parcel[q] /\ scan'[q] = scan[q]
  BY DEF CustodyInv, TypeOK, OtherEvent, ActChangerClient, Write
<1> HIDE DEF y
<1>4. /\ charges[c] = None /\ c \notin orphan /\ UNCHANGED orphan
      /\ charges'[c] = [parcel |-> p, type |-> "CHANGEMENT_CLIENT", status |-> "EN_ATTENTE"]
      /\ charges'[c] # None
      /\ \A d \in Charges \ {c} : charges'[d] = charges[d]
  <2>1. [parcel |-> p, type |-> "CHANGEMENT_CLIENT", status |-> "EN_ATTENTE"] \in Charge
    BY DEF Charge, ChargeStatus, ChargeType
  <2> QED BY <2>1, NullAssumption DEF CustodyInv, TypeOK, NewCharge, FeesInv, ActChangerClient
<1>5. /\ Fees(p, "CHANGEMENT_CLIENT")' = Fees(p, "CHANGEMENT_CLIENT") \cup {c}
      /\ c \notin Fees(p, "CHANGEMENT_CLIENT")
      /\ \A type \in OutcomeFee : Fees(p, type)' = Fees(p, type)
  BY <1>4 DEF Fees, OutcomeFee
<1>6. FeeRow(p, parcel[p], scan[p])
  BY DEF FeesInv
<1>7. /\ IsFiniteSet(Fees(p, "CHANGEMENT_CLIENT")')
      /\ Cardinality(Fees(p, "CHANGEMENT_CLIENT")') = y.changes
  <2>1. IsFiniteSet(Fees(p, "CHANGEMENT_CLIENT"))
        /\ Cardinality(Fees(p, "CHANGEMENT_CLIENT")) = parcel[p].changes
    BY <1>6 DEF FeeRow
  <2> QED BY ONLY <1>2, <1>5, <2>1, FS_AddElement
<1>8. \A type \in OutcomeFee : Due(p, type)' = {}
  BY <1>2, <1>4, <1>5, <1>6 DEF Due, FeeRow
<1>9. FeeRow(p, parcel[p], scan[p])'
  BY <1>2, <1>3, <1>7, <1>8 DEF FeeRow
<1>10. orphan' \subseteq Charges
  BY <1>4 DEF CustodyInv, TypeOK
<1>11. \A d \in Charges :
         \/ charges'[d] = charges[d] /\ (d \in orphan <=> d \in orphan')
         \/ /\ charges[d] # None => charges[d].parcel = p
            /\ charges'[d] # None => charges'[d].parcel = p
            /\ d \in orphan' => charges'[d] # None
  BY <1>4
<1> QED BY ONLY <1>3, <1>9, <1>10, <1>11, OneParcelsFees, CustodyInv, FeesInv, p \in Parcels

(* A step that touches neither the rows, their scans nor the charges.       *)
LEMMA NothingCharged ==
  ASSUME FeesInv, UNCHANGED <<parcel, charges, scan, orphan>>
  PROVE  FeesInv'
<1>1. \A p, type : Fees(p, type)' = Fees(p, type)
  BY DEF Fees
<1>2. \A p, type : Due(p, type)' = Due(p, type)
  BY <1>1 DEF Due
<1> QED BY <1>1, <1>2 DEF FeesInv, FeeRow, ScanFee, Uncharged

-----------------------------------------------------------------------------
(* Every step keeps the invariant *)

(* The decisions of the seller, and of the 48-hour job for him.             *)
LEMMA DecisionsKeepFees ==
  ASSUME CustodyInv, FeesInv, NEW p \in Parcels, SellerStep(p) \/ SystemStep(p)
  PROVE  FeesInv'
<1>0. parcel[p] \in Parcel /\ (Unpicked(parcel[p]) => Uncharged(p))
  BY DEF CustodyInv, TypeOK, FeesInv, FeeRow
<1>1. CASE ActModifier(p) \/ ActChangerDate(p)
  BY <1>0, <1>1, NoFeeMoves DEF ActModifier, ActChangerDate, Write
<1>2. CASE ActAnnulerAvant(p)
  <2>1. /\ AnnulerAvant(parcel[p]).changes = parcel[p].changes
        /\ \A type \in OutcomeFee : ~Owes(AnnulerAvant(parcel[p]), type) /\ ~Owes(parcel[p], type)
        /\ Unpicked(parcel[p])
    BY <1>0, <1>2 DEF Unpicked, ActAnnulerAvant, CanAnnulerAvant, AnnulerAvant, Parcel, Owes,
       ReturnStatus, OutcomeFee
  <2> QED BY <1>0, <1>2, <2>1, NoFeeMoves DEF ActAnnulerAvant, Write
<1>3. CASE ActRelancer(p)
  <2>1. /\ Relancer(parcel[p]).changes = parcel[p].changes
        /\ \A type \in OutcomeFee : ~Owes(Relancer(parcel[p]), type) /\ ~Owes(parcel[p], type)
        /\ ~Unpicked(Relancer(parcel[p]))
    BY <1>0, <1>3 DEF Unpicked, ActRelancer, CanRelancer, Relancer, Parcel, Owes, ReturnStatus,
       OutcomeFee
  <2> QED BY <1>3, <2>1, NoFeeMoves DEF ActRelancer, Write
<1>4. ASSUME NEW c \in Charges,
             ActAnnulerApres(p, c) \/ ActRetourner(p, c) \/ ActAutoRetour48h(p, c)
      PROVE  FeesInv'
  <2>1. /\ parcel' = [parcel EXCEPT ![p] = AsReturn(parcel[p])]
        /\ NewCharge(c, p, "RETOUR") /\ UNCHANGED orphan /\ OtherEvent(p)
        /\ parcel[p].status \in CancellableAfterPickup
    BY <1>4 DEF ActAnnulerApres, AnnulerApres, CanAnnulerApres, ActRetourner, Retourner,
       CanRetourner, ActAutoRetour48h, AutoRetour48h, CanAutoRetour48h, Write,
       CancellableAfterPickup
  <2>2. /\ AsReturn(parcel[p]).changes = parcel[p].changes
        /\ Owes(AsReturn(parcel[p]), "RETOUR") /\ "RETOUR" \in OutcomeFee
        /\ \A type \in OutcomeFee : ~Owes(parcel[p], type)
        /\ ~Unpicked(parcel[p])
    BY <1>0, <2>1 DEF Unpicked, AsReturn, Parcel, Owes, ReturnStatus, OutcomeFee,
       CancellableAfterPickup
  <2> QED BY <2>1, <2>2, OutcomeIsCharged
<1>5. ASSUME NEW c \in Charges, ActChangerClient(p, c) PROVE FeesInv'
  BY <1>5, ChangeIsCharged
<1> QED BY <1>1, <1>2, <1>3, <1>4, <1>5 DEF SellerStep, SystemStep

(* The couriers' scans; the last attempt failed charges the return.         *)
LEMMA CourierScansKeepFees ==
  ASSUME CustodyInv, FeesInv, NEW p \in Parcels,
         \/ ActRamassage(p)
         \/ \E l \in Livreurs : ActEchec(p, l) \/ ActEchecReporte(p, l)
         \/ \E l \in Livreurs, c \in Charges : ActLivre(p, l, c) \/ ActEchecFinal(p, l, c)
  PROVE  FeesInv'
<1>0. parcel[p] \in Parcel /\ "COURSIER" \in ScanKind
  BY DEF CustodyInv, TypeOK, ScanKind
<1>1. CASE ActRamassage(p)
  <2>1. /\ Ramasser(parcel[p]).changes = parcel[p].changes
        /\ \A type \in OutcomeFee : ~Owes(Ramasser(parcel[p]), type) /\ ~Owes(parcel[p], type)
        /\ ~Unpicked(Ramasser(parcel[p]))
    BY <1>0, <1>1 DEF Unpicked, ActRamassage, CanRamasser, Ramasser, Put, Parcel, Owes,
       ReturnStatus, OutcomeFee
  <2> QED BY <1>0, <1>1, <2>1, NoFeeMoves DEF ActRamassage, Write
<1>2. ASSUME NEW l \in Livreurs, ActEchec(p, l) PROVE FeesInv'
  <2>1. /\ Echec(parcel[p]).changes = parcel[p].changes
        /\ \A type \in OutcomeFee : ~Owes(Echec(parcel[p]), type) /\ ~Owes(parcel[p], type)
        /\ ~Unpicked(Echec(parcel[p]))
    BY <1>0, <1>2 DEF Unpicked, ActEchec, CanEchec, IsWith, Echec, Put, Parcel, Owes,
       ReturnStatus, OutcomeFee
  <2> QED BY <1>0, <1>2, <2>1, NoFeeMoves DEF ActEchec, Write
<1>3. ASSUME NEW l \in Livreurs, ActEchecReporte(p, l) PROVE FeesInv'
  <2>1. /\ EchecReporte(parcel[p]).changes = parcel[p].changes
        /\ \A type \in OutcomeFee : ~Owes(EchecReporte(parcel[p]), type) /\ ~Owes(parcel[p], type)
        /\ ~Unpicked(EchecReporte(parcel[p]))
    BY <1>0, <1>3 DEF Unpicked, ActEchecReporte, CanEchecReporte, IsWith, EchecReporte, Put,
       Parcel,
       Owes, ReturnStatus, OutcomeFee
  <2> QED BY <1>0, <1>3, <2>1, NoFeeMoves DEF ActEchecReporte, Write
<1>4. ASSUME NEW l \in Livreurs, NEW c \in Charges, ActLivre(p, l, c) PROVE FeesInv'
  <2>1. /\ Livrer(parcel[p]).changes = parcel[p].changes
        /\ Owes(Livrer(parcel[p]), "LIVRAISON") /\ "LIVRAISON" \in OutcomeFee
        /\ \A type \in OutcomeFee : ~Owes(parcel[p], type)
        /\ ~Unpicked(parcel[p])
    BY <1>0, <1>4 DEF Unpicked, ActLivre, CanLivrer, IsWith, Livrer, Put, Parcel, Owes,
       ReturnStatus, OutcomeFee
  <2> QED BY <1>4, <2>1, OutcomeIsCharged DEF ActLivre, Write
<1>5. ASSUME NEW l \in Livreurs, NEW c \in Charges, ActEchecFinal(p, l, c) PROVE FeesInv'
  <2>1. /\ EchecFinal(parcel[p]).changes = parcel[p].changes
        /\ Owes(EchecFinal(parcel[p]), "RETOUR") /\ "RETOUR" \in OutcomeFee
        /\ \A type \in OutcomeFee : ~Owes(parcel[p], type)
        /\ ~Unpicked(parcel[p])
    BY <1>0, <1>5 DEF Unpicked, ActEchecFinal, CanEchecFinal, IsWith, EchecFinal, Put, Parcel,
       Owes,
       ReturnStatus, OutcomeFee
  <2> QED BY <1>5, <2>1, OutcomeIsCharged DEF ActEchecFinal, Write
<1> QED BY <1>1, <1>2, <1>3, <1>4, <1>5

(* A courier's cancellation, even when a bon took the fee after its check.  *)
LEMMA CourierCancelKeepsFees ==
  ASSUME CustodyInv, FeesInv, NEW p \in Parcels,
         CheckCourierCancel(p) \/ WriteCourierCancel(p) \/ AbortCourierCancel(p)
  PROVE  FeesInv'
<1>1. CASE CheckCourierCancel(p) \/ AbortCourierCancel(p)
  BY <1>1, NothingCharged DEF CheckCourierCancel, AbortCourierCancel
<1>2. CASE WriteCourierCancel(p)
  <2> DEFINE s == scan[p]
             y == RestoreCourier(parcel[p], s.before)
  <2>1. /\ parcel[p] \in Parcel /\ s \in Scan /\ s # None /\ s.before \in Parcel
        /\ s.before.changes = parcel[p].changes
        /\ ScanFee(p, parcel[p], s) /\ FeeRow(p, parcel[p], s)
    BY <1>2 DEF CustodyInv, TypeOK, RowOK, Undoable, WriteCourierCancel, FeesInv, FeeRow, Scan
  <2>2. y.changes = parcel[p].changes /\ y.status = s.before.status
    BY <2>1 DEF RestoreCourier, RestoreDepot, Parcel
  <2>3. \A type : Owes(y, type) <=> Owes(s.before, type)
    BY <2>2 DEF Owes
  <2>4. /\ parcel' = [parcel EXCEPT ![p] = y] /\ OtherEvent(p)
        /\ AnnulCharges({s.fee} \ {None})
    BY <1>2 DEF WriteCourierCancel
  <2>5. CASE s.fee = None
    <3>1. NoCharge
      BY <2>4, <2>5 DEF AnnulCharges, NoCharge, CustodyInv, TypeOK
    <3>2. \A type \in OutcomeFee : Owes(y, type) <=> Owes(parcel[p], type)
      BY <2>1, <2>3, <2>5 DEF ScanFee
    <3>3. Unpicked(y) => Uncharged(p)
      BY <2>1, <2>2 DEF ScanFee, Unpicked
    <3> HIDE DEF y
    <3> QED BY <2>2, <2>4, <3>1, <3>2, <3>3, NoFeeMoves
  <2>6. CASE s.fee # None
    <3>1. {s.fee} \ {None} = {s.fee} /\ s.fee \in Charges
      BY <2>1, <2>6 DEF Scan
    <3>2. PICK type \in OutcomeFee : Owes(parcel[p], type) /\ s.fee \in Due(p, type)
      BY <2>1, <2>6 DEF ScanFee
    <3>3. Due(p, type) = {s.fee}
      BY <2>1, <3>2 DEF FeeRow, ExactlyOne
    <3>4. \A t \in OutcomeFee \ {type} : Due(p, t) = {}
      BY <2>1, <3>2, OwesOne DEF FeeRow, OutcomeFee
    <3>5. \A t \in OutcomeFee : ~Owes(y, t) /\ Due(p, t) \subseteq {s.fee}
      BY <2>1, <2>3, <2>6, <3>3, <3>4 DEF ScanFee
    <3>6. s.fee \in Fees(p, type)
      BY <3>2 DEF Due
    <3>7. AnnulCharges({s.fee})
      BY <2>4, <3>1
    <3>8. ~Unpicked(y)
      BY <2>1, <2>2, <3>6 DEF ScanFee, Unpicked, Uncharged, OutcomeFee, ChargeType
    <3> HIDE DEF y
    <3> QED BY <2>2, <2>4, <3>1, <3>5, <3>6, <3>7, <3>8, OutcomeIsReversed
  <2> QED BY <2>5, <2>6
<1> QED BY <1>1, <1>2

(* The scans of the depot and their cancellation; returns; events that move *)
(* nothing.                                                                 *)
LEMMA DepotKeepsFees ==
  ASSUME CustodyInv, FeesInv, NEW p \in Parcels, DepotStep(p)
  PROVE  FeesInv'
<1>0. /\ parcel[p] \in Parcel /\ {"DEPOT", "PREPARATION"} \subseteq ScanKind
      /\ Unpicked(parcel[p]) => Uncharged(p)
  BY DEF CustodyInv, TypeOK, ScanKind, FeesInv, FeeRow
<1>1. CASE ActEntreeDepot(p)
  <2>1. /\ EntreeDepot(parcel[p]).changes = parcel[p].changes
        /\ \A type \in OutcomeFee : Owes(EntreeDepot(parcel[p]), type) <=> Owes(parcel[p], type)
        /\ ~Unpicked(EntreeDepot(parcel[p]))
    BY <1>0, <1>1 DEF Unpicked, ActEntreeDepot, CanEntreeDepot, IsReturnWithRamasseur,
       EntreeDepot, Put,
       Parcel, Owes, ReturnStatus, OutcomeFee
  <2> QED BY <1>0, <1>1, <2>1, NoFeeMoves DEF ActEntreeDepot, Write
<1>2. CASE ActPreparerRetour(p)
  BY <1>0, <1>2, NoFeeMoves DEF ActPreparerRetour, Write
<1>3. CASE CancelDepotScan(p)
  <2> DEFINE s == scan[p]
             y == RestoreDepot(parcel[p], s.before)
  <2>1. /\ parcel[p] \in Parcel /\ s \in Scan /\ s # None /\ s.before \in Parcel
        /\ s.kind # "COURSIER" /\ ScanFee(p, parcel[p], s)
    BY <1>3 DEF CustodyInv, TypeOK, CancelDepotScan, FeesInv, FeeRow, Scan
  <2>2. y.changes = parcel[p].changes /\ y.status = s.before.status
    BY <2>1 DEF RestoreDepot, Parcel
  <2>3. \A type \in OutcomeFee : Owes(y, type) <=> Owes(parcel[p], type)
    BY <2>1, <2>2 DEF Owes, ScanFee
  <2>4. parcel' = [parcel EXCEPT ![p] = y] /\ OtherEvent(p) /\ NoCharge
    BY <1>3 DEF CancelDepotScan, Write
  <2>5. Unpicked(y) => Uncharged(p)
    BY <2>1, <2>2 DEF ScanFee, Unpicked
  <2> HIDE DEF y
  <2> QED BY <2>2, <2>3, <2>4, <2>5, NoFeeMoves
<1>4. ASSUME NEW l \in Livreurs, ActSortie(p, l) PROVE FeesInv'
  <2>1. /\ Sortie(parcel[p], l).changes = parcel[p].changes
        /\ \A type \in OutcomeFee : ~Owes(Sortie(parcel[p], l), type) /\ ~Owes(parcel[p], type)
        /\ ~Unpicked(Sortie(parcel[p], l))
    BY <1>0, <1>4 DEF Unpicked, ActSortie, CanSortie, Sortie, Put, Parcel, Owes, ReturnStatus,
       OutcomeFee
  <2> QED BY <1>0, <1>4, <2>1, NoFeeMoves DEF ActSortie, Write
<1>5. ASSUME NEW l \in Livreurs, ActRetourDeTournee(p, l) PROVE FeesInv'
  <2>1. /\ RetourDeTournee(parcel[p]).changes = parcel[p].changes
        /\ \A type \in OutcomeFee :
             Owes(RetourDeTournee(parcel[p]), type) <=> Owes(parcel[p], type)
        /\ ~Unpicked(RetourDeTournee(parcel[p]))
    BY <1>0, <1>5 DEF Unpicked, ActRetourDeTournee, CanRetourDeTournee, RetourDeTournee, Put,
       Parcel,
       Owes, ReturnStatus, OutcomeFee
  <2> QED BY <1>0, <1>5, <2>1, NoFeeMoves DEF ActRetourDeTournee, Write
<1>6. CASE ActPlanifier(p) \/ ActModificationAppliquee(p)
  BY <1>0, <1>6, NoFeeMoves DEF ActPlanifier, ActModificationAppliquee, Write
<1>7. CASE ActDepartRetour(p)
  <2>1. /\ DepartRetour(parcel[p]).changes = parcel[p].changes
        /\ \A type \in OutcomeFee : Owes(DepartRetour(parcel[p]), type) <=> Owes(parcel[p], type)
        /\ ~Unpicked(DepartRetour(parcel[p]))
    BY <1>0, <1>7 DEF Unpicked, ActDepartRetour, CanDepartRetour, DepartRetour, Put, Parcel, Owes,
       ReturnStatus, OutcomeFee
  <2> QED BY <1>7, <2>1, NoFeeMoves DEF ActDepartRetour, Write
<1>8. CASE ActRetourRecu(p)
  <2>1. /\ RetourRecu(parcel[p]).changes = parcel[p].changes
        /\ \A type \in OutcomeFee : Owes(RetourRecu(parcel[p]), type) <=> Owes(parcel[p], type)
        /\ ~Unpicked(RetourRecu(parcel[p]))
    BY <1>0, <1>8 DEF Unpicked, ActRetourRecu, CanRetourRecu, RetourRecu, Put, Parcel, Owes,
       ReturnStatus, OutcomeFee
  <2> QED BY <1>8, <2>1, NoFeeMoves DEF ActRetourRecu, Write
<1>9. CASE ActRetourNonRemis(p)
  <2>1. /\ RetourNonRemis(parcel[p]).changes = parcel[p].changes
        /\ \A type \in OutcomeFee : Owes(RetourNonRemis(parcel[p]), type) <=> Owes(parcel[p], type)
        /\ ~Unpicked(RetourNonRemis(parcel[p]))
    BY <1>0, <1>9 DEF Unpicked, ActRetourNonRemis, CanRetourNonRemis, RetourNonRemis, Put,
       Parcel, Owes,
       ReturnStatus, OutcomeFee
  <2> QED BY <1>9, <2>1, NoFeeMoves DEF ActRetourNonRemis, Write
<1> QED BY <1>1, <1>2, <1>3, <1>4, <1>5, <1>6, <1>7, <1>8, <1>9 DEF DepotStep

(* The forced moves, an undone delivery, the corrections and the cash.      *)
LEMMA AdminKeepsFees ==
  ASSUME CustodyInv, FeesInv, NEW p \in Parcels, AdminStep(p)
  PROVE  FeesInv'
<1>0. parcel[p] \in Parcel /\ (Unpicked(parcel[p]) => Uncharged(p))
  BY DEF CustodyInv, TypeOK, FeesInv, FeeRow
<1>1. ASSUME NEW l \in Livreurs, NEW s \in ParcelStatus, NEW place \in ParcelLocation,
             ActForcer(p, s, place, l)
      PROVE  FeesInv'
  <2> DEFINE y == Forcer(parcel[p], s, place, l)
  <2>1. y.changes = parcel[p].changes /\ y.status = s
    BY <1>0 DEF Forcer, Put, Parcel
  <2>2. /\ \A type \in OutcomeFee : Owes(y, type) <=> Owes(parcel[p], type)
        /\ Unpicked(y) => Unpicked(parcel[p])
    <3>1. CASE s = parcel[p].status
      BY <2>1, <3>1 DEF Owes, Unpicked
    <3>2. CASE {<<parcel[p].status, parcel[p].location>>, <<s, place>>} \subseteq ForceableStates
      <4>1. /\ <<parcel[p].status, parcel[p].location>> \in ForceableStates
            /\ <<s, place>> \in ForceableStates
        BY ONLY <3>2
      <4> HIDE DEF y
      <4> QED BY <2>1, <4>1 DEF ForceableStates, Owes, ReturnStatus, Unpicked
    <3> QED BY <1>1, <3>1, <3>2 DEF ActForcer, CanForcer
  <2>3. parcel' = [parcel EXCEPT ![p] = y] /\ OtherEvent(p) /\ NoCharge
    BY <1>1 DEF ActForcer, Write
  <2> HIDE DEF y
  <2> QED BY <1>0, <2>1, <2>2, <2>3, NoFeeMoves
<1>2. CASE ActAnnulerLivraison(p)
  <2> DEFINE y == AnnulerLivraison(parcel[p])
  <2>1. /\ y.changes = parcel[p].changes /\ y.status = "EN_LIVRAISON"
        /\ parcel[p].status = "LIVRE" /\ ~Unpicked(y)
    BY <1>0, <1>2 DEF Unpicked, AnnulerLivraison, ActAnnulerLivraison, CanAnnulerLivraison,
       Put, Parcel
  <2>2. ~Owes(parcel[p], "RETOUR") /\ \A type \in OutcomeFee : ~Owes(y, type)
    BY <2>1 DEF Owes, ReturnStatus
  <2>3. Due(p, "RETOUR") = {} /\ Due(p, "LIVRAISON") \subseteq Fees(p, "LIVRAISON")
    BY <2>2 DEF FeesInv, FeeRow, Due, OutcomeFee
  <2>4. /\ parcel' = [parcel EXCEPT ![p] = y] /\ OtherEvent(p)
        /\ AnnulCharges(Fees(p, "LIVRAISON")) /\ Fees(p, "LIVRAISON") \in SUBSET Charges
        /\ "LIVRAISON" \in OutcomeFee
    BY <1>2 DEF ActAnnulerLivraison, Write, Fees, OutcomeFee
  <2>5. \A type \in OutcomeFee : ~Owes(y, type) /\ Due(p, type) \subseteq Fees(p, "LIVRAISON")
    BY <2>2, <2>3 DEF OutcomeFee
  <2> HIDE DEF y
  <2> QED BY <2>1, <2>4, <2>5, OutcomeIsReversed
<1>3. ASSUME NEW target \in {"RAMASSEUR", "DEPOT"}, ActCorrigerRetourRecu(p, target)
      PROVE  FeesInv'
  <2>1. /\ CorrigerRetourRecu(parcel[p], target).changes = parcel[p].changes
        /\ \A type \in OutcomeFee :
             Owes(CorrigerRetourRecu(parcel[p], target), type) <=> Owes(parcel[p], type)
        /\ ~Unpicked(CorrigerRetourRecu(parcel[p], target))
    BY <1>0, <1>3 DEF Unpicked, ActCorrigerRetourRecu, CanCorrigerRetourRecu, CorrigerRetourRecu,
       DepartRetour, RetourNonRemis, Put, Parcel, Owes, ReturnStatus, OutcomeFee
  <2> QED BY <1>3, <2>1, NoFeeMoves DEF ActCorrigerRetourRecu, Write
<1>4. CASE ActCloturerCaisse(p)
  <2>1. /\ CloturerCaisse(parcel[p]).changes = parcel[p].changes
        /\ \A type \in OutcomeFee : Owes(CloturerCaisse(parcel[p]), type) <=> Owes(parcel[p], type)
        /\ ~Unpicked(CloturerCaisse(parcel[p]))
    BY <1>0, <1>4 DEF ActCloturerCaisse, CanCloturerCaisse, CloturerCaisse, Parcel, Owes, Unpicked
  <2> QED BY <1>4, <2>1, NoFeeMoves DEF ActCloturerCaisse, Write
<1>5. CASE ActPayer(p)
  <2>1. /\ Payer(parcel[p]).changes = parcel[p].changes
        /\ \A type \in OutcomeFee : Owes(Payer(parcel[p]), type) <=> Owes(parcel[p], type)
        /\ ~Unpicked(Payer(parcel[p]))
    BY <1>0, <1>5 DEF ActPayer, CanPayer, Payer, Parcel, Owes, Unpicked
  <2> QED BY <1>5, <2>1, NoFeeMoves DEF ActPayer, Write
<1>6. CASE ActCorrigerPaiement(p)
  <2>1. /\ CorrigerPaiement(parcel[p]).changes = parcel[p].changes
        /\ \A type \in OutcomeFee :
             Owes(CorrigerPaiement(parcel[p]), type) <=> Owes(parcel[p], type)
        /\ ~Unpicked(CorrigerPaiement(parcel[p]))
    BY <1>0, <1>6 DEF ActCorrigerPaiement, CanCorrigerPaiement, CorrigerPaiement, Parcel, Owes,
       Unpicked
  <2> QED BY <1>6, <2>1, NoFeeMoves DEF ActCorrigerPaiement, Write
<1> QED BY <1>1, <1>2, <1>3, <1>4, <1>5, <1>6 DEF AdminStep

(* A bon that deducts a charge, or gives it back, changes no parcel's fees. *)
LEMMA BonKeepsFees ==
  ASSUME CustodyInv, FeesInv, NEW c \in Charges, DeductCharge(c) \/ ReleaseCharge(c)
  PROVE  FeesInv'
<1>1. /\ charges[c] \in Charge /\ charges[c] # None
      /\ \E status \in ChargeStatus : charges' = [charges EXCEPT ![c].status = status]
      /\ UNCHANGED <<parcel, scan, orphan>>
  BY DEF CustodyInv, TypeOK, DeductCharge, ReleaseCharge, IsWaiting, ChargeStatus
<1>2. /\ charges'[c] \in Charge /\ charges'[c] # None
      /\ charges'[c].parcel = charges[c].parcel /\ charges'[c].type = charges[c].type
      /\ \A d \in Charges \ {c} : charges'[d] = charges[d]
  BY <1>1, NullAssumption DEF CustodyInv, TypeOK, Charge
<1>3. \A p, type : Fees(p, type)' = Fees(p, type)
  BY <1>1, <1>2 DEF Fees
<1>4. \A p, type : Due(p, type)' = Due(p, type)
  BY <1>1, <1>3 DEF Due
<1>5. \A d \in orphan' : charges'[d] # None
  BY <1>1, <1>2 DEF FeesInv, CustodyInv, TypeOK
<1> QED BY <1>1, <1>3, <1>4, <1>5 DEF FeesInv, FeeRow, ScanFee, Uncharged

(* A parcel just created owes nothing and is charged nothing.               *)
LEMMA InitFees == Init => FeesInv
<1> SUFFICES ASSUME Init PROVE FeesInv
  OBVIOUS
<1>1. \A p, type : Fees(p, type) = {} /\ Due(p, type) = {}
  BY DEF Init, Fees, Due
<1>2. \A p \in Parcels : /\ parcel[p].status = "CREE" /\ parcel[p].changes = 0
                         /\ scan[p] = None
  BY DEF Init, NewParcel
<1>3. \A p \in Parcels, type \in OutcomeFee : ~Owes(parcel[p], type)
  BY <1>2 DEF Owes, ReturnStatus
<1>4. \A p \in Parcels : FeeRow(p, parcel[p], scan[p])
  BY <1>1, <1>2, <1>3, FS_EmptySet DEF FeeRow, Uncharged
<1> QED BY <1>4 DEF FeesInv, Init

(* Any transaction keeps every parcel's fees right.                         *)
LEMMA StepKeepsFees == CustodyInv /\ FeesInv /\ [Next]_vars => FeesInv'
<1> SUFFICES ASSUME CustodyInv, FeesInv, [Next]_vars PROVE FeesInv'
  OBVIOUS
<1>1. ASSUME NEW p \in Parcels, CourierStep(p) PROVE FeesInv'
  BY <1>1, CourierScansKeepFees, CourierCancelKeepsFees DEF CourierStep
<1>2. ASSUME NEW p \in Parcels,
             SellerStep(p) \/ DepotStep(p) \/ AdminStep(p) \/ SystemStep(p)
      PROVE  FeesInv'
  BY <1>2, DecisionsKeepFees, DepotKeepsFees, AdminKeepsFees
<1>3. ASSUME NEW c \in Charges, DeductCharge(c) \/ ReleaseCharge(c) PROVE FeesInv'
  BY <1>3, BonKeepsFees
<1>4. CASE UNCHANGED vars
  BY <1>4, NothingCharged DEF vars
<1> QED BY <1>1, <1>2, <1>3, <1>4 DEF Next

-----------------------------------------------------------------------------
(* Theorems *)

(* The inductive invariant: besides the fees themselves, which charge the   *)
(* last scan of each parcel made and what the parcel owed before it.        *)
THEOREM AlwaysFeesInv == Spec => []FeesInv
BY AlwaysCustodyInv, InitFees, StepKeepsFees, PTL DEF Spec

(* A delivered parcel carries exactly one delivery fee and a returned one   *)
(* exactly one return fee, those a reversal found on a bon apart, however   *)
(* the outcome was reached, cancelled, undone and reached again, and        *)
(* although a courier's cancellation checks and annuls in two steps.        *)
THEOREM FeesHold == Spec => []FeesMatchOutcome
<1>1. FeesInv => FeesMatchOutcome
  BY DEF FeesInv, FeeRow, FeesMatchOutcome, Due, OutcomeFee
<1> QED BY AlwaysFeesInv, <1>1, PTL

(* A parcel is charged for as many changes of client as it had.             *)
THEOREM ChangeFeesHold == Spec => []ChangeFeesMatch
<1>1. FeesInv => ChangeFeesMatch
  BY DEF FeesInv, FeeRow, ChangeFeesMatch
<1> QED BY AlwaysFeesInv, <1>1, PTL

-----------------------------------------------------------------------------
(* A cancelled parcel is on its way back or was never picked up, and no     *)
(* scan that could be cancelled since would put it back on its way out.     *)
StaysCancelled(x, s) ==
  /\ x.status \in ReturnStatus \cup {"ANNULE"}
  /\ s # None => s.kind # "COURSIER" /\ s.before.status \in ReturnStatus \cup {"ANNULE"}

CancelledInv == \A p \in cancelled : StaysCancelled(parcel[p], scan[p])

-----------------------------------------------------------------------------
(* The pages implement the lifecycle *)

(* A click of Forcer un statut is one of the moves the lifecycle allows the *)
(* admin: the targets a page can show are statuses and places.              *)
LEMMA ForceIsAdminStep ==
  ASSUME NEW p \in Parcels, NEW t \in States, NEW l \in Livreurs, ForceRequest(p, t, l)
  PROVE  AdminStep(p)
<1>1. t[1] \in ParcelStatus /\ t[2] \in ParcelLocation
  BY DEF States, ForceableStates, LocationFixStatuses, LocationFixPlaces, ParcelStatus,
     ParcelLocation
<1> QED BY <1>1 DEF ForceRequest, AdminStep

(* Whatever is done on a page, and whatever others do meanwhile, is a step  *)
(* of the lifecycle; loading a page is none.                                *)
LEMMA ScreensStep == [ScreensNext]_screenVars => [Next]_vars
<1> SUFFICES ASSUME [ScreensNext]_screenVars PROVE [Next]_vars
  OBVIOUS
<1>1. ASSUME NEW p \in Parcels, OpenDetail(p) \/ OpenColis(p) PROVE [Next]_vars
  BY <1>1 DEF OpenDetail, OpenColis
<1>2. ASSUME NEW p \in Parcels, SellerClick(p) PROVE Next
  <2>1. SellerStep(p)
    BY <1>2 DEF SellerClick, ClickModifier, ClickRelancer, ClickChangerDate, ClickRetourner,
       ClickChangerClient, ClickAnnuler, SellerStep
  <2> QED BY <2>1 DEF Next
<1>3. ASSUME NEW p \in Parcels, AdminClick(p) PROVE Next
  <2>1. DepotStep(p) \/ AdminStep(p)
    BY <1>3, ForceIsAdminStep DEF AdminClick, ClickForcer, ClickAnnulerScan, DepotStep
  <2> QED BY <2>1 DEF Next
<1>4. ASSUME NEW p \in Parcels, Elsewhere(p) PROVE Next
  <2>1. OtherAdminStep(p) => AdminStep(p)
    BY DEF OtherAdminStep, AdminStep
  <2> QED BY <1>4, <2>1 DEF Elsewhere, Next
<1>5. ASSUME NEW c \in Charges, DeductCharge(c) \/ ReleaseCharge(c) PROVE Next
  BY <1>5 DEF Next
<1>6. CASE UNCHANGED screenVars
  BY <1>6 DEF screenVars
<1> QED BY <1>1, <1>2, <1>3, <1>4, <1>5, <1>6 DEF ScreensNext

(* The pages implement the lifecycle.                                       *)
THEOREM ScreensImplementLifecycle == ScreensSpec => Spec
<1>1. ScreensInit => Init
  BY DEF ScreensInit
<1> QED BY <1>1, ScreensStep, PTL DEF ScreensSpec, Spec

(* What is proved of the lifecycle holds behind every page.                 *)
LEMMA ScreensKeepInvs == ScreensSpec => [](CustodyInv /\ FeesInv)
BY ScreensImplementLifecycle, AlwaysCustodyInv, AlwaysFeesInv, PTL

-----------------------------------------------------------------------------
(* What the pages offer *)

(* Forcer un statut offers what the API accepts, and nothing else.          *)
LEMMA TargetsAreAccepted ==
  ASSUME NEW x \in Parcel, NEW s \in ParcelStatus, NEW place \in ParcelLocation
  PROVE  <<s, place>> \in ForcedTargets(x) <=>
           \/ CanForcer(x, s, place)
           \/ CanAnnulerLivraison(x) /\ <<s, place>> = <<"EN_LIVRAISON", "AVEC_LE_LIVREUR">>
<1>1. CASE x.status = "LIVRE"
  <2>1. ~CanForcer(x, s, place)
    <3>1. <<x.status, x.location>> \notin ForceableStates
      BY <1>1 DEF ForceableStates
    <3> QED BY <1>1, <3>1 DEF CanForcer, LocationFixStatuses
  <2>2. ForcedTargets(x) = {t \in {<<"EN_LIVRAISON", "AVEC_LE_LIVREUR">>} :
                              CanForcer(x, t[1], t[2]) \/ CanAnnulerLivraison(x)}
    BY <1>1 DEF ForcedTargets, LocationFixStatuses
  <2> QED BY <2>1, <2>2
<1>2. CASE x.status \in LocationFixStatuses
  <2>1. ~CanAnnulerLivraison(x) /\ x.status # "LIVRE"
    BY <1>2 DEF CanAnnulerLivraison, LocationFixStatuses
  <2>2. ForcedTargets(x) = {t \in {x.status} \X LocationFixPlaces : CanForcer(x, t[1], t[2])}
    BY <1>2, <2>1 DEF ForcedTargets
  <2>3. CanForcer(x, s, place) => s = x.status /\ place \in LocationFixPlaces
    <3>1. <<x.status, x.location>> \notin ForceableStates
      BY <1>2 DEF ForceableStates, LocationFixStatuses
    <3> QED BY <3>1 DEF CanForcer
  <2> QED BY <2>1, <2>2, <2>3
<1>3. CASE x.status \notin LocationFixStatuses /\ x.status # "LIVRE"
  <2>1. ~CanAnnulerLivraison(x)
    BY <1>3 DEF CanAnnulerLivraison
  <2>2. ForcedTargets(x) = {t \in ForceableStates : CanForcer(x, t[1], t[2])}
    BY <1>3, <2>1 DEF ForcedTargets
  <2>3. CanForcer(x, s, place) => <<s, place>> \in ForceableStates
    BY <1>3 DEF CanForcer
  <2> QED BY <2>1, <2>2, <2>3
<1> QED BY <1>1, <1>2, <1>3

(* What the seller is offered, on a parcel whose columns agree.             *)
LEMMA SellerIsToldTrue ==
  ASSUME NEW x \in Parcel, Coherent(x), Attempted(x)
  PROVE  /\ x.status \in {"A_VERIFIER", "RELANCE"} =>
              SellerDecisions(x).relancer \/ SellerDecisions(x).changerDate
         /\ SellerDecisions(x).changerClient = "OUI" <=> CanChangerClient(x)
         /\ SellerDecisions(x).changerClient = "AU_RETOUR_DEPOT" =>
              CanRetourDeTournee(x) /\ CanChangerClient(RetourDeTournee(x))
         /\ AnnulerButton(x) = "RETOUR" <=> CanAnnulerApres(x)
<1>1. x.status \in {"A_VERIFIER", "RELANCE"} =>
        SellerDecisions(x).relancer \/ SellerDecisions(x).changerDate
  BY DEF SellerDecisions, CanRelaunch, Attempted, CancellableAfterPickup
<1>2. SellerDecisions(x).changerClient = "OUI" <=> CanChangerClient(x)
  BY DEF SellerDecisions, CanChangeClient, CanChangerClient
<1>3. SellerDecisions(x).changerClient = "AU_RETOUR_DEPOT" =>
        CanRetourDeTournee(x) /\ CanChangerClient(RetourDeTournee(x))
  <2> SUFFICES ASSUME SellerDecisions(x).changerClient = "AU_RETOUR_DEPOT"
               PROVE  CanRetourDeTournee(x) /\ CanChangerClient(RetourDeTournee(x))
    OBVIOUS
  <2>1. /\ x.status \in {"A_VERIFIER", "RELANCE"} /\ x.changes < MaxClientChanges
        /\ x.location # "AU_DEPOT"
    BY DEF SellerDecisions, CanChangeClient
  <2>2. x.location = "AVEC_LE_LIVREUR"
    BY <2>1 DEF Coherent, Places
  <2> QED BY <2>1, <2>2 DEF CanRetourDeTournee, RetourDeTournee, CanChangerClient, Parcel
<1>4. AnnulerButton(x) = "RETOUR" <=> CanAnnulerApres(x)
  BY DEF AnnulerButton, CanCancelStatus, CanAnnulerApres, CancellableAfterPickup
<1> QED BY <1>1, <1>2, <1>3, <1>4

(* The buttons of every page keep their word: the relaunch the seller of a  *)
(* parcel A verifier is offered, the change of client and its promise, the  *)
(* fee Annuler announces, the targets of Forcer un statut.                  *)
THEOREM OffersHold == ScreensSpec => []OffersAreHonest
<1>1. CustodyInv => \A p \in Parcels : /\ parcel[p] \in Parcel
                                       /\ Coherent(parcel[p]) /\ Attempted(parcel[p])
  BY DEF CustodyInv, RowOK, Sound
<1>2. CustodyInv => OffersAreHonest
  BY <1>1, SellerIsToldTrue, TargetsAreAccepted DEF OffersAreHonest
<1> QED BY ScreensKeepInvs, <1>2, PTL

-----------------------------------------------------------------------------
(* The lists people work from *)

(* A parcel that is not closed waits on somebody's list, and on one only of *)
(* those that must not overlap.                                             *)
LEMMA ListedOnce ==
  ASSUME NEW x \in Parcel, Coherent(x)
  PROVE  LET his == {l \in Livreurs : ToDeliver(x, l) \/ ToBringBack(x, l) \/ CashToHandIn(x, l)} IN
         /\ \/ x.closed \/ ARamasser(x) \/ WithRamasseur(x) \/ his # {} \/ DueForTour(x, TRUE)
            \/ AVerifier(x) \/ Retours(x) \/ Payable(x)
         /\ x.location = "AVEC_LE_LIVREUR" \/ x.cash = "CHEZ_LE_COURSIER" => ExactlyOne(his)
         /\ x.status # "ANNULE" => ExactlyOne({g \in TopGroups \ {"TOUS"} : IsInGroup(g, x)})
         /\ x.status = "LIVRE" => ExactlyOne({g \in {"PAYES", "NON_PAYES"} : IsInGroup(g, x)})
<1> DEFINE his == {l \in Livreurs : ToDeliver(x, l) \/ ToBringBack(x, l) \/ CashToHandIn(x, l)}
<1>1. <<x.status, x.location>> \in Places
  BY DEF Coherent
<1>2. x.location = "AVEC_LE_LIVREUR" \/ x.cash = "CHEZ_LE_COURSIER" => his = {x.livreur}
  <2> SUFFICES ASSUME x.location = "AVEC_LE_LIVREUR" \/ x.cash = "CHEZ_LE_COURSIER"
               PROVE  his = {x.livreur}
    OBVIOUS
  <2>1. x.livreur \in Livreurs
    BY <1>1 DEF Coherent, Places, Parcel
  <2>2. x.livreur \in his
    BY <1>1, <2>1 DEF ToDeliver, ToBringBack, CashToHandIn, Carries, Coherent, Places
  <2>3. \A l \in his : l = x.livreur
    BY DEF ToDeliver, ToBringBack, CashToHandIn, Carries
  <2> QED BY <2>2, <2>3
<1>3. \/ x.closed \/ ARamasser(x) \/ WithRamasseur(x) \/ his # {} \/ DueForTour(x, TRUE)
      \/ AVerifier(x) \/ Retours(x) \/ Payable(x)
  <2>1. x.status = "LIVRE" => x.cash \in {"CHEZ_LE_COURSIER", "AU_DEPOT", "PAYE"}
    BY DEF Coherent, Parcel, ParcelCashStatus
  <2>2. x.status \in {"ANNULE", "RETOUR_RECU"} \/ x.cash = "PAYE" => x.closed
    BY DEF Coherent
  <2> HIDE DEF his
  <2> QED BY <1>1, <1>2, <2>1, <2>2
      DEF Places, ARamasser, WithRamasseur, DueForTour, AVerifier, Retours, Payable
<1>4. x.status # "ANNULE" => ExactlyOne({g \in TopGroups \ {"TOUS"} : IsInGroup(g, x)})
  <2>1. \A g \in TopGroups \ {"TOUS"} : IsInGroup(g, x) <=> x.status \in GroupStatuses[g]
    BY DEF IsInGroup, GroupCash, TopGroups, Parcel
  <2>2. PICK g \in TopGroups \ {"TOUS"} : x.status = "ANNULE" \/ x.status \in GroupStatuses[g]
    BY DEF TopGroups, GroupStatuses, Parcel, ParcelStatus, ReturnStatus
  <2>3. \A h \in TopGroups \ {"TOUS"} :
          x.status \in GroupStatuses[g] /\ x.status \in GroupStatuses[h] => h = g
    BY DEF TopGroups, GroupStatuses, ReturnStatus
  <2>4. x.status # "ANNULE" => {h \in TopGroups \ {"TOUS"} : IsInGroup(h, x)} = {g}
    BY <2>1, <2>2, <2>3
  <2> QED BY <2>4 DEF ExactlyOne
<1>5. x.status = "LIVRE" => ExactlyOne({g \in {"PAYES", "NON_PAYES"} : IsInGroup(g, x)})
  <2> SUFFICES ASSUME x.status = "LIVRE"
               PROVE  ExactlyOne({g \in {"PAYES", "NON_PAYES"} : IsInGroup(g, x)})
    OBVIOUS
  <2>1. x.cash \in {"CHEZ_LE_COURSIER", "AU_DEPOT", "PAYE"}
    BY DEF Coherent, Parcel, ParcelCashStatus
  <2>2. IsInGroup("PAYES", x) <=> x.cash = "PAYE"
    BY DEF IsInGroup, GroupStatuses, GroupCash
  <2>3. IsInGroup("NON_PAYES", x) <=> x.cash # "PAYE"
    BY <2>1 DEF IsInGroup, GroupStatuses, GroupCash
  <2>4. \/ {g \in {"PAYES", "NON_PAYES"} : IsInGroup(g, x)} = {"PAYES"}
        \/ {g \in {"PAYES", "NON_PAYES"} : IsInGroup(g, x)} = {"NON_PAYES"}
    BY <2>2, <2>3
  <2> QED BY <2>4 DEF ExactlyOne
<1> HIDE DEF his
<1>6. x.location = "AVEC_LE_LIVREUR" \/ x.cash = "CHEZ_LE_COURSIER" => ExactlyOne(his)
  BY <1>2 DEF ExactlyOne
<1> QED BY <1>3, <1>4, <1>5, <1>6 DEF his

(* No parcel is forgotten, none is on two livreurs' lists.                  *)
THEOREM ListsHold == ScreensSpec => []OnSomeonesList
<1>1. CustodyInv => \A p \in Parcels : parcel[p] \in Parcel /\ Coherent(parcel[p])
  BY DEF CustodyInv, RowOK, Sound
<1>2. CustodyInv => OnSomeonesList
  BY <1>1, ListedOnce DEF OnSomeonesList
<1> QED BY ScreensKeepInvs, <1>2, PTL

-----------------------------------------------------------------------------
(* The money block *)

(* What the seller reads of his fees is what seller_charges holds.          *)
THEOREM MoneyHolds == ScreensSpec => []MoneyShownIsCharged
<1>1. ASSUME CustodyInv, FeesInv, NEW p \in Parcels
      PROVE  /\ ParcelMoney(parcel[p]) = "RETOUR" <=> Fees(p, "RETOUR") \ orphan # {}
             /\ ParcelMoney(parcel[p]) = "ANNULE" => \A type \in ChargeType : Fees(p, type) = {}
  <2>1. FeeRow(p, parcel[p], scan[p])
    BY <1>1 DEF FeesInv
  <2>2. Owes(parcel[p], "RETOUR") <=> Due(p, "RETOUR") # {}
    BY <2>1 DEF FeeRow, ExactlyOne, OutcomeFee
  <2>3. ParcelMoney(parcel[p]) = "RETOUR" <=> Owes(parcel[p], "RETOUR")
    BY DEF ParcelMoney, Owes
  <2>4. ParcelMoney(parcel[p]) = "ANNULE" => Unpicked(parcel[p])
    BY DEF ParcelMoney, Unpicked
  <2> QED BY <2>1, <2>2, <2>3, <2>4 DEF FeeRow, Uncharged, Due
<1>2. CustodyInv /\ FeesInv => MoneyShownIsCharged
  BY <1>1 DEF MoneyShownIsCharged
<1> QED BY ScreensKeepInvs, <1>2, PTL

-----------------------------------------------------------------------------
(* Stale pages *)

(* No click of Forcer un statut takes a delivery from anybody but the       *)
(* livreur the admin named: the lifecycle forces no delivered parcel.       *)
THEOREM UndoneDeliveriesAreNamed == ScreensSpec => UndoneByItsLivreur
<1>1. \A p \in Parcels, t \in States, l \in Livreurs :
        ClickForcer(p, t, l) /\ parcel[p].status = "LIVRE" => parcel[p].livreur = l
  <2> SUFFICES ASSUME NEW p \in Parcels, NEW t \in States, NEW l \in Livreurs,
                      ClickForcer(p, t, l), parcel[p].status = "LIVRE"
               PROVE  parcel[p].livreur = l
    OBVIOUS
  <2>1. <<parcel[p].status, parcel[p].location>> \notin ForceableStates
    BY DEF ForceableStates
  <2>2. ~ActForcer(p, t[1], t[2], l)
    BY <2>1 DEF ActForcer, CanForcer, LocationFixStatuses
  <2> QED BY <2>2 DEF ClickForcer, ForceRequest
<1> QED BY <1>1, PTL DEF UndoneByItsLivreur

(* A transaction on one parcel writes no other parcel, nor its last scan.   *)
LEMMA OtherRowsStay ==
  ASSUME CustodyInv, NEW p \in Parcels, NEW q \in Parcels, q # p,
         SellerStep(p) \/ CourierStep(p) \/ DepotStep(p) \/ AdminStep(p) \/ SystemStep(p)
  PROVE  parcel'[q] = parcel[q] /\ scan'[q] = scan[q]
<1>1. /\ \A y : Write(p, y) => parcel'[q] = parcel[q]
      /\ OtherEvent(p) => scan'[q] = scan[q]
      /\ \A kind, fee : ScanEvent(p, kind, fee) => scan'[q] = scan[q]
  BY DEF CustodyInv, TypeOK, Write, OtherEvent, ScanEvent
<1>2. WriteCourierCancel(p) => parcel'[q] = parcel[q] /\ OtherEvent(p)
  BY DEF CustodyInv, TypeOK, WriteCourierCancel
<1>3. CheckCourierCancel(p) \/ AbortCourierCancel(p) => UNCHANGED <<parcel, scan>>
  BY DEF CheckCourierCancel, AbortCourierCancel
<1>4. CASE SellerStep(p) \/ SystemStep(p)
  BY <1>1, <1>4 DEF SellerStep, ActModifier, ActAnnulerAvant, ActRelancer, ActChangerDate,
     ActAnnulerApres, ActRetourner, ActChangerClient, SystemStep, ActAutoRetour48h
<1>5. CASE CourierStep(p)
  BY <1>1, <1>2, <1>3, <1>5 DEF CourierStep, ActRamassage, ActEchec, ActEchecReporte, ActLivre,
     ActEchecFinal
<1>6. CASE DepotStep(p)
  BY <1>1, <1>6 DEF DepotStep, ActEntreeDepot, ActPreparerRetour, CancelDepotScan, ActSortie,
     ActRetourDeTournee, ActPlanifier, ActModificationAppliquee, ActDepartRetour,
     ActRetourRecu, ActRetourNonRemis
<1>7. CASE AdminStep(p)
  BY <1>1, <1>7 DEF AdminStep, ActForcer, ActAnnulerLivraison, ActCorrigerRetourRecu,
     ActCloturerCaisse, ActPayer, ActCorrigerPaiement
<1> QED BY <1>4, <1>5, <1>6, <1>7

(* No transaction on a cancelled parcel takes it out again.                 *)
LEMMA CancelledStays ==
  ASSUME CustodyInv, NEW p \in Parcels, StaysCancelled(parcel[p], scan[p]),
         SellerStep(p) \/ CourierStep(p) \/ DepotStep(p) \/ AdminStep(p) \/ SystemStep(p)
  PROVE  StaysCancelled(parcel[p], scan[p])'
<1>1. /\ parcel[p] \in Parcel /\ parcel \in [Parcels -> Parcel]
      /\ scan \in [Parcels -> Scan \cup {None}] /\ scan[p] \in Scan \cup {None}
      /\ parcel[p].status \in {"ANNULE", "RETOUR_AU_DEPOT", "RETOUR_EN_ROUTE", "RETOUR_RECU"}
      /\ scan[p] # None => /\ scan[p].kind # "COURSIER" /\ scan[p].before \in Parcel
                           /\ scan[p].before.status \in ReturnStatus \cup {"ANNULE"}
      /\ lock[p] => scan[p] # None /\ scan[p].kind = "COURSIER"
  BY DEF CustodyInv, TypeOK, RowOK, StaysCancelled, ReturnStatus, Scan
<1>2. /\ OtherEvent(p) => scan'[p] = None
      /\ \A kind, fee : ScanEvent(p, kind, fee) =>
           /\ scan'[p].kind = kind /\ scan'[p].before = parcel[p]
      /\ \A y : Write(p, y) => parcel'[p] = y
  BY <1>1 DEF OtherEvent, ScanEvent, Write
<1>3. ~SellerStep(p) /\ ~SystemStep(p)
  BY <1>1 DEF SellerStep, ActModifier, CanModifier, ActAnnulerAvant, CanAnnulerAvant,
     ActRelancer, CanRelancer, ActChangerDate, CanChangerDate, ActAnnulerApres,
     CanAnnulerApres, CancellableAfterPickup, ActRetourner, CanRetourner,
     ActChangerClient, CanChangerClient, SystemStep, ActAutoRetour48h, CanAutoRetour48h
<1>4. CASE CourierStep(p)
  <2>1. AbortCourierCancel(p)
    BY <1>1, <1>4 DEF CourierStep, ActRamassage, CanRamasser, ActEchec, CanEchec,
       ActEchecReporte, CanEchecReporte, ActLivre, CanLivrer, ActEchecFinal, CanEchecFinal,
       IsWith, CheckCourierCancel, WriteCourierCancel
  <2> QED BY <2>1 DEF AbortCourierCancel
<1> DEFINE Kept == parcel'[p].status \in ReturnStatus \cup {"ANNULE"}
<1>5. CASE DepotStep(p)
  <2>1. CASE ActEntreeDepot(p) \/ \E l \in Livreurs : ActRetourDeTournee(p, l)
    <3>1. EntreeDepot(parcel[p]).status = parcel[p].status
      BY <1>1 DEF EntreeDepot, Put, Parcel
    <3>2. RetourDeTournee(parcel[p]).status = parcel[p].status
      BY <1>1 DEF RetourDeTournee, Parcel
    <3>3. Kept /\ ScanEvent(p, "DEPOT", None)
      BY <1>1, <1>2, <2>1, <3>1, <3>2 DEF ActEntreeDepot, ActRetourDeTournee, ReturnStatus
    <3> QED BY <1>1, <1>2, <3>3 DEF StaysCancelled, ReturnStatus
  <2>2. CASE ActPreparerRetour(p)
    BY <1>1, <1>2, <2>2 DEF ActPreparerRetour, StaysCancelled, ReturnStatus
  <2>3. CASE CancelDepotScan(p)
    <3>1. RestoreDepot(parcel[p], scan[p].before).status = scan[p].before.status
      BY <1>1 DEF RestoreDepot, Parcel
    <3> QED BY <1>1, <1>2, <2>3, <3>1 DEF CancelDepotScan, StaysCancelled
  <2>4. ~\E l \in Livreurs : ActSortie(p, l)
    BY <1>1 DEF ActSortie, CanSortie
  <2>5. ~ActPlanifier(p) /\ ~ActModificationAppliquee(p)
    BY <1>1 DEF ActPlanifier, ActModificationAppliquee, CancellableAfterPickup
  <2>6. CASE ActDepartRetour(p) \/ ActRetourRecu(p) \/ ActRetourNonRemis(p)
    <3>1. /\ DepartRetour(parcel[p]).status \in ReturnStatus
          /\ RetourRecu(parcel[p]).status \in ReturnStatus
          /\ RetourNonRemis(parcel[p]).status \in ReturnStatus
      BY <1>1 DEF DepartRetour, RetourRecu, RetourNonRemis, Put, Parcel, ReturnStatus
    <3> QED BY <1>2, <2>6, <3>1
        DEF ActDepartRetour, ActRetourRecu, ActRetourNonRemis, StaysCancelled
  <2> QED BY <1>5, <2>1, <2>2, <2>3, <2>4, <2>5, <2>6 DEF DepotStep
<1>6. CASE AdminStep(p)
  <2>1. ASSUME NEW l \in Livreurs, NEW s \in ParcelStatus, NEW place \in ParcelLocation,
               ActForcer(p, s, place, l)
        PROVE  Kept /\ OtherEvent(p)
    <3>1. <<parcel[p].status, parcel[p].location>> \notin ForceableStates
      BY <1>1 DEF ForceableStates
    <3>2. s = parcel[p].status
      BY <2>1, <3>1 DEF ActForcer, CanForcer
    <3>3. Forcer(parcel[p], s, place, l).status = s
      BY <1>1 DEF Forcer, Put, Parcel
    <3> QED BY <1>1, <1>2, <2>1, <3>2, <3>3 DEF ActForcer, ReturnStatus
  <2>2. ASSUME NEW target \in {"RAMASSEUR", "DEPOT"}, ActCorrigerRetourRecu(p, target)
        PROVE  Kept /\ OtherEvent(p)
    <3>1. CorrigerRetourRecu(parcel[p], target).status \in ReturnStatus
      BY <1>1 DEF CorrigerRetourRecu, DepartRetour, RetourNonRemis, Put, Parcel, ReturnStatus
    <3> QED BY <1>2, <2>2, <3>1 DEF ActCorrigerRetourRecu
  <2>3. ~ActAnnulerLivraison(p) /\ ~ActCloturerCaisse(p) /\ ~ActPayer(p) /\ ~ActCorrigerPaiement(p)
    BY <1>1 DEF ActAnnulerLivraison, CanAnnulerLivraison, ActCloturerCaisse,
       CanCloturerCaisse, ActPayer, CanPayer, ActCorrigerPaiement, CanCorrigerPaiement
  <2>4. Kept /\ OtherEvent(p)
    BY <1>6, <2>1, <2>2, <2>3 DEF AdminStep
  <2> QED BY <1>2, <2>4 DEF StaysCancelled
<1> QED BY <1>3, <1>4, <1>5, <1>6

(* Annuler, whatever status it finds, leaves the parcel annulled or on its  *)
(* way back, with no scan left to cancel.                                   *)
LEMMA AnnulerCancels ==
  ASSUME CustodyInv, NEW p \in Parcels, ClickAnnuler(p)
  PROVE  StaysCancelled(parcel[p], scan[p])'
<1>1. parcel[p] \in Parcel /\ parcel \in [Parcels -> Parcel] /\ scan \in [Parcels -> Scan \cup {None}]
  BY DEF CustodyInv, TypeOK
<1>2. /\ AnnulerAvant(parcel[p]).status = "ANNULE"
      /\ AnnulerApres(parcel[p]).status = "RETOUR_AU_DEPOT"
  BY <1>1 DEF AnnulerAvant, AnnulerApres, AsReturn, Parcel
<1> QED BY <1>1, <1>2 DEF ClickAnnuler, ActAnnulerAvant, ActAnnulerApres, Write, OtherEvent,
        StaysCancelled, ReturnStatus

(* Every step on a page or elsewhere keeps the cancelled parcels so.        *)
LEMMA ScreensKeepCancelled ==
  CustodyInv /\ CancelledInv /\ cancelled \subseteq Parcels /\ [ScreensNext]_screenVars
    => CancelledInv' /\ (cancelled \subseteq Parcels)'
<1> SUFFICES ASSUME CustodyInv, CancelledInv, cancelled \subseteq Parcels,
                    [ScreensNext]_screenVars
             PROVE  CancelledInv' /\ cancelled' \subseteq Parcels
  OBVIOUS
<1>1. ASSUME NEW p \in Parcels,
             SellerStep(p) \/ CourierStep(p) \/ DepotStep(p) \/ AdminStep(p) \/ SystemStep(p),
             NEW q \in cancelled
      PROVE  StaysCancelled(parcel[q], scan[q])'
  <2>1. CASE q = p
    BY <1>1, <2>1, CancelledStays DEF CancelledInv
  <2>2. CASE q # p
    BY <1>1, <2>2, OtherRowsStay DEF CancelledInv, StaysCancelled
  <2> QED BY <2>1, <2>2
<1>2. ASSUME NEW p \in Parcels, OpenDetail(p) \/ OpenColis(p)
      PROVE  CancelledInv' /\ cancelled' \subseteq Parcels
  BY <1>2 DEF OpenDetail, OpenColis, vars, CancelledInv, StaysCancelled
<1>3. ASSUME NEW p \in Parcels, SellerClick(p)
      PROVE  CancelledInv' /\ cancelled' \subseteq Parcels
  <2>1. SellerStep(p)
    BY <1>3 DEF SellerClick, ClickModifier, ClickRelancer, ClickChangerDate, ClickRetourner,
       ClickChangerClient, ClickAnnuler, SellerStep
  <2>2. cancelled' = cancelled \/ (ClickAnnuler(p) /\ cancelled' = cancelled \cup {p})
    BY <1>3 DEF SellerClick
  <2> QED BY <1>1, <2>1, <2>2, AnnulerCancels DEF CancelledInv
<1>4. ASSUME NEW p \in Parcels, AdminClick(p)
      PROVE  CancelledInv' /\ cancelled' \subseteq Parcels
  <2>1. DepotStep(p) \/ AdminStep(p)
    BY <1>4, ForceIsAdminStep DEF AdminClick, ClickForcer, ClickAnnulerScan, DepotStep
  <2> QED BY <1>1, <1>4, <2>1 DEF AdminClick, CancelledInv
<1>5. ASSUME NEW p \in Parcels, Elsewhere(p)
      PROVE  CancelledInv' /\ cancelled' \subseteq Parcels
  <2>1. OtherAdminStep(p) => AdminStep(p)
    BY DEF OtherAdminStep, AdminStep
  <2> QED BY <1>1, <1>5, <2>1 DEF Elsewhere, CancelledInv
<1>6. ASSUME NEW c \in Charges, DeductCharge(c) \/ ReleaseCharge(c),
             UNCHANGED <<page, cancelled>>
      PROVE  CancelledInv' /\ cancelled' \subseteq Parcels
  BY <1>6 DEF DeductCharge, ReleaseCharge, CancelledInv, StaysCancelled
<1>7. CASE UNCHANGED screenVars
  BY <1>7 DEF screenVars, vars, CancelledInv, StaysCancelled
<1> QED BY <1>2, <1>3, <1>4, <1>5, <1>6, <1>7 DEF ScreensNext

(* A customer told that his order is cancelled is never delivered to, nor   *)
(* shown an amount to prepare.                                              *)
THEOREM CancelledStaysIn == ScreensSpec => []CancelledNeverGoesOut
<1>1. ScreensInit => CancelledInv /\ cancelled \subseteq Parcels
  BY DEF ScreensInit, CancelledInv
<1>2. CancelledInv => CancelledNeverGoesOut
  BY DEF CancelledInv, StaysCancelled, CancelledNeverGoesOut, PublicStatus, AmountShown
<1> QED BY ScreensKeepInvs, ScreensKeepCancelled, <1>1, <1>2, PTL DEF ScreensSpec
=============================================================================
