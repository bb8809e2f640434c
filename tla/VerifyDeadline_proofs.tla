------------------------ MODULE VerifyDeadline_proofs ------------------------
(***************************************************************************)
(* Theorems of VerifyDeadline, for every set of parcels and livreurs, every *)
(* size of batch, every delay the setting takes and every bound.            *)
(***************************************************************************)
EXTENDS VerifyDeadline, SequenceTheorems, TLAPS

(* One row: its clock runs exactly while it is A verifier, it can go out    *)
(* again while an attempt is left, and a failure has been counted.          *)
Ready(x) ==
  /\ x \in Parcel
  /\ x.deadline <=> x.status = "A_VERIFIER"
  /\ x.status \in CancellableAfterPickup => x.attempts < MaxAttempts
  /\ x.status = "A_VERIFIER" => x.attempts > 0

(* A row x with its deadline d and the n return fees charged for it.        *)
RowInv(x, d, n) ==
  /\ Ready(x)
  /\ d \in Nat \cup {None} /\ (d # None <=> x.deadline)
  /\ n = IF x.status \in ReturnStatus THEN 1 ELSE 0

JobInv ==
  /\ TypeOK
  /\ \A p \in Parcels : RowInv(parcel[p], verifyDeadlineAt[p], returnFees[p])

-----------------------------------------------------------------------------
(* Lemmas *)

(* The decisions of the seller and of the job.                              *)
LEMMA DecisionsAreReady ==
  ASSUME NEW x \in Parcel, Ready(x)
  PROVE  /\ CanRelancer(x) => Ready(Relancer(x)) /\ ~Relancer(x).deadline
                              /\ Relancer(x).status = "RELANCE"
         /\ CanChangerClient(x) => Ready(ChangerClient(x)) /\ ~ChangerClient(x).deadline
                                   /\ ChangerClient(x).status = "AU_DEPOT"
         /\ x.status \in CancellableAfterPickup =>
              Ready(AsReturn(x)) /\ ~AsReturn(x).deadline
              /\ AsReturn(x).status = "RETOUR_AU_DEPOT"
<1> USE LimitsAssumption
    DEF Ready, Parcel, ParcelStatus, ParcelLocation, ParcelCashStatus, RelaunchOrigin,
        CancellableAfterPickup
<1>1. CanRelancer(x) => Ready(Relancer(x)) /\ ~Relancer(x).deadline
                        /\ Relancer(x).status = "RELANCE"
  BY DEF CanRelancer, Relancer
<1>2. CanChangerClient(x) => Ready(ChangerClient(x)) /\ ~ChangerClient(x).deadline
                             /\ ChangerClient(x).status = "AU_DEPOT"
  <2> SUFFICES ASSUME CanChangerClient(x)
               PROVE  Ready(ChangerClient(x)) /\ ~ChangerClient(x).deadline
                      /\ ChangerClient(x).status = "AU_DEPOT"
    OBVIOUS
  <2>1. x.changes + 1 \in 0..MaxClientChanges /\ 0 \in 0..MaxAttempts /\ 0 < MaxAttempts
    BY DEF CanChangerClient
  <2>2. ChangerClient(x) \in Parcel
    BY <2>1 DEF ChangerClient
  <2> QED BY <2>1, <2>2 DEF ChangerClient
<1>3. x.status \in CancellableAfterPickup =>
        Ready(AsReturn(x)) /\ ~AsReturn(x).deadline /\ AsReturn(x).status = "RETOUR_AU_DEPOT"
  BY DEF AsReturn
<1> QED BY ONLY <1>1, <1>2, <1>3

(* The scans of a livreur, and the cancellation of a failure.               *)
LEMMA AttemptsAreReady ==
  ASSUME NEW x \in Parcel, Ready(x), NEW l \in Livreurs
  PROVE  /\ CanLivrer(x, l) => Ready(Livrer(x)) /\ ~Livrer(x).deadline
                               /\ Livrer(x).status = "LIVRE"
         /\ CanEchec(x, l) => Ready(Echec(x)) /\ Echec(x).deadline
                              /\ Echec(x).status = "A_VERIFIER"
         /\ CanEchecReporte(x, l) => Ready(EchecReporte(x)) /\ ~EchecReporte(x).deadline
                                     /\ EchecReporte(x).status = "RELANCE"
         /\ CanEchecFinal(x, l) => Ready(EchecFinal(x)) /\ ~EchecFinal(x).deadline
                                   /\ EchecFinal(x).status = "RETOUR_AU_DEPOT"
<1> USE LimitsAssumption
    DEF Ready, Parcel, ParcelStatus, ParcelLocation, ParcelCashStatus, RelaunchOrigin,
        CancellableAfterPickup, Put
<1>0. x.status = "EN_LIVRAISON" => x.attempts + 1 \in 0..MaxAttempts /\ x.attempts + 1 > 0
  OBVIOUS
<1>1. CanLivrer(x, l) =>
        Ready(Livrer(x)) /\ ~Livrer(x).deadline /\ Livrer(x).status = "LIVRE"
  <2> SUFFICES ASSUME CanLivrer(x, l)
               PROVE  Ready(Livrer(x)) /\ ~Livrer(x).deadline /\ Livrer(x).status = "LIVRE"
    OBVIOUS
  <2>1. Livrer(x) \in Parcel
    BY <1>0 DEF CanLivrer, Livrer, IsWith
  <2> QED BY <1>0, <2>1 DEF CanLivrer, Livrer, IsWith, LastAttempt
<1>2. CanEchec(x, l) =>
        Ready(Echec(x)) /\ Echec(x).deadline /\ Echec(x).status = "A_VERIFIER"
  <2> SUFFICES ASSUME CanEchec(x, l)
               PROVE  Ready(Echec(x)) /\ Echec(x).deadline /\ Echec(x).status = "A_VERIFIER"
    OBVIOUS
  <2>1. Echec(x) \in Parcel
    BY <1>0 DEF CanEchec, Echec, IsWith
  <2> QED BY <1>0, <2>1 DEF CanEchec, Echec, IsWith, LastAttempt
<1>3. CanEchecReporte(x, l) =>
        Ready(EchecReporte(x)) /\ ~EchecReporte(x).deadline /\ EchecReporte(x).status = "RELANCE"
  <2> SUFFICES ASSUME CanEchecReporte(x, l)
               PROVE  Ready(EchecReporte(x)) /\ ~EchecReporte(x).deadline /\ EchecReporte(x).status = "RELANCE"
    OBVIOUS
  <2>1. EchecReporte(x) \in Parcel
    BY <1>0 DEF CanEchecReporte, EchecReporte, IsWith
  <2> QED BY <1>0, <2>1 DEF CanEchecReporte, EchecReporte, IsWith, LastAttempt
<1>4. CanEchecFinal(x, l) =>
        Ready(EchecFinal(x)) /\ ~EchecFinal(x).deadline /\ EchecFinal(x).status = "RETOUR_AU_DEPOT"
  <2> SUFFICES ASSUME CanEchecFinal(x, l)
               PROVE  Ready(EchecFinal(x)) /\ ~EchecFinal(x).deadline /\ EchecFinal(x).status = "RETOUR_AU_DEPOT"
    OBVIOUS
  <2>1. EchecFinal(x) \in Parcel
    BY <1>0 DEF CanEchecFinal, EchecFinal, IsWith
  <2> QED BY <1>0, <2>1 DEF CanEchecFinal, EchecFinal, IsWith, LastAttempt
<1> QED BY ONLY <1>1, <1>2, <1>3, <1>4

(* A failure taken back: an attempt less, and no clock.                     *)
LEMMA CancelledIsReady ==
  ASSUME NEW x \in Parcel, Ready(x), x.status = "A_VERIFIER"
  PROVE  LET y == RestoreCourier(x, BeforeEchec(x)) IN
         Ready(y) /\ ~y.deadline /\ y.status = "EN_LIVRAISON"
<1> USE LimitsAssumption
    DEF Ready, Parcel, ParcelStatus, ParcelLocation, ParcelCashStatus, RelaunchOrigin,
        CancellableAfterPickup
<1>1. x.attempts - 1 \in 0..MaxAttempts /\ x.attempts - 1 < MaxAttempts
  OBVIOUS
<1>2. BeforeEchec(x) \in Parcel /\ BeforeEchec(x).status = "EN_LIVRAISON"
      /\ BeforeEchec(x).attempts < MaxAttempts /\ ~BeforeEchec(x).deadline
  BY <1>1 DEF BeforeEchec, Put
<1>3. RestoreCourier(x, BeforeEchec(x)) = BeforeEchec(x)
  BY DEF RestoreCourier, RestoreDepot, BeforeEchec, Put
<1> QED BY <1>2, <1>3

(* The depot's scans.                                                       *)
LEMMA DepotIsReady ==
  ASSUME NEW x \in Parcel, Ready(x), NEW l \in Livreurs
  PROVE  /\ CanRetourDeTournee(x) =>
              /\ Ready(RetourDeTournee(x))
              /\ RetourDeTournee(x).deadline = x.deadline
              /\ RetourDeTournee(x).status \in ReturnStatus <=> x.status \in ReturnStatus
         /\ CanSortie(x) =>
              /\ Ready(Sortie(x, l)) /\ Sortie(x, l).deadline = x.deadline
              /\ Sortie(x, l).status \notin ReturnStatus /\ x.status \notin ReturnStatus
<1> USE LimitsAssumption
    DEF Ready, Parcel, ParcelStatus, ParcelLocation, ParcelCashStatus, RelaunchOrigin,
        CancellableAfterPickup, ReturnStatus, Put
<1>1. CanRetourDeTournee(x) =>
        /\ Ready(RetourDeTournee(x))
        /\ RetourDeTournee(x).deadline = x.deadline
        /\ RetourDeTournee(x).status \in ReturnStatus <=> x.status \in ReturnStatus
  BY DEF CanRetourDeTournee, RetourDeTournee
<1>2. CanSortie(x) =>
        /\ Ready(Sortie(x, l)) /\ Sortie(x, l).deadline = x.deadline
        /\ Sortie(x, l).status \notin ReturnStatus /\ x.status \notin ReturnStatus
  BY DEF CanSortie, Sortie
<1> QED BY ONLY <1>1, <1>2

(* What is left of a batch is a batch.                                      *)
LEMMA TailIsBatch ==
  ASSUME NEW s \in Batches, s # <<>>
  PROVE  Tail(s) \in Batches
<1>1. PICK n \in 0..BatchSize : s \in [1..n -> Parcels]
  BY DEF Batches
<1>2. s \in Seq(Parcels) /\ Len(s) = n /\ n # 0
  BY <1>1, ClockAssumption
<1>3. /\ Tail(s) \in Seq(Parcels) /\ Len(Tail(s)) = n - 1 /\ n - 1 \in Nat
      /\ \A i \in 1..(n - 1) : Tail(s)[i] = s[i + 1]
  BY <1>2
<1>3a. Tail(s) \in [1..(n - 1) -> Parcels]
  BY <1>3, LenProperties
<1>4. \A i, j \in 1..(n - 1) : Tail(s)[i] = Tail(s)[j] => i = j
  <2> SUFFICES ASSUME NEW i \in 1..(n - 1), NEW j \in 1..(n - 1), Tail(s)[i] = Tail(s)[j]
               PROVE  i = j
    OBVIOUS
  <2>1. i + 1 \in DOMAIN s /\ j + 1 \in DOMAIN s
    BY <1>1, <1>2
  <2> QED BY <2>1, <1>3 DEF Batches
<1>5. n - 1 \in 0..BatchSize
  BY <1>2, ClockAssumption
<1> QED BY <1>3a, <1>4, <1>5 DEF Batches

(* So is the batch a restart leaves.                                        *)
LEMMA EmptyIsBatch == <<>> \in Batches
<1>1. <<>> \in [1..0 -> Parcels] /\ 0 \in 0..BatchSize
  BY ClockAssumption
<1>2. \A i, j \in DOMAIN <<>> : <<>>[i] = <<>>[j] => i = j
  OBVIOUS
<1> QED BY <1>1, <1>2 DEF Batches

(* A transaction on the row of p, its deadline and its fees with it.        *)
LEMMA OneRow ==
  ASSUME JobInv, NEW p \in Parcels, NEW x, NEW d, NEW n \in Nat, RowInv(x, d, n),
         parcel' = [parcel EXCEPT ![p] = x],
         verifyDeadlineAt' = [verifyDeadlineAt EXCEPT ![p] = d],
         returnFees' = [returnFees EXCEPT ![p] = n],
         running' \in BOOLEAN, due' \in Batches, now' \in 0..MaxNow, faults' \in 0..MaxFaults
  PROVE  JobInv'
<1>1. x \in Parcel /\ d \in Nat \cup {None}
  BY DEF RowInv, Ready
<1>2. /\ parcel' \in [Parcels -> Parcel]
      /\ verifyDeadlineAt' \in [Parcels -> Nat \cup {None}]
      /\ returnFees' \in [Parcels -> Nat]
  BY <1>1 DEF JobInv, TypeOK
<1>3. ASSUME NEW q \in Parcels
      PROVE  RowInv(parcel'[q], verifyDeadlineAt'[q], returnFees'[q])
  <2>1. RowInv(parcel[q], verifyDeadlineAt[q], returnFees[q])
    BY DEF JobInv
  <2>2. CASE q = p
    BY <2>2 DEF JobInv, TypeOK
  <2>3. CASE q # p
    <3>1. /\ parcel'[q] = parcel[q] /\ verifyDeadlineAt'[q] = verifyDeadlineAt[q]
          /\ returnFees'[q] = returnFees[q]
      BY <2>3 DEF JobInv, TypeOK
    <3> QED BY <2>1, <3>1
  <2> QED BY <2>2, <2>3
<1> QED BY <1>2, <1>3 DEF JobInv, TypeOK

(* The job, the clock and the faults leave every row as it is.              *)
LEMMA NoRow ==
  ASSUME JobInv, UNCHANGED <<parcel, verifyDeadlineAt, returnFees>>,
         running' \in BOOLEAN, due' \in Batches, now' \in 0..MaxNow, faults' \in 0..MaxFaults
  PROVE  JobInv'
<1>1. TypeOK'
  BY DEF JobInv, TypeOK
<1>2. ASSUME NEW p \in Parcels
      PROVE  RowInv(parcel'[p], verifyDeadlineAt'[p], returnFees'[p])
  BY DEF JobInv
<1> QED BY <1>1, <1>2 DEF JobInv

(* A decision turns the row into x, its clock stopped, with m return fees   *)
(* more.                                                                    *)
LEMMA Decided ==
  ASSUME JobInv, NEW p \in Parcels, NEW x, NEW m \in {0, 1}, Ready(x), ~x.deadline,
         parcel[p].status \notin ReturnStatus,
         m = IF x.status \in ReturnStatus THEN 1 ELSE 0,
         Write(p, x), returnFees' = [returnFees EXCEPT ![p] = @ + m],
         running' \in BOOLEAN, due' \in Batches, now' \in 0..MaxNow, faults' \in 0..MaxFaults
  PROVE  JobInv'
<1>1. RowInv(parcel[p], verifyDeadlineAt[p], returnFees[p]) /\ returnFees[p] = 0
  BY DEF JobInv, RowInv
<1>2. returnFees' = [returnFees EXCEPT ![p] = m]
  BY <1>1
<1>3. verifyDeadlineAt' = [verifyDeadlineAt EXCEPT ![p] = None]
  BY DEF Write
<1>4. RowInv(x, None, m) /\ m \in Nat
  BY DEF RowInv
<1>5. parcel' = [parcel EXCEPT ![p] = x]
  BY DEF Write
<1> QED BY <1>2, <1>3, <1>4, <1>5, OneRow

-----------------------------------------------------------------------------
(* Every step keeps the invariant *)

(* The parcels are out for delivery, and the job has not run.               *)
LEMMA InitInv == Init => JobInv
<1> SUFFICES ASSUME Init PROVE JobInv
  OBVIOUS
<1>1. PICK l \in Livreurs :
        parcel = [p \in Parcels |-> Sortie(EntreeDepot(Ramasser(NewParcel)), l)]
  BY DEF Init
<1> DEFINE x == Sortie(EntreeDepot(Ramasser(NewParcel)), l)
<1>3. x = [status |-> "EN_LIVRAISON", location |-> "AVEC_LE_LIVREUR", cash |-> "NULL",
           attempts |-> 0, changes |-> 0, livreur |-> l, relance |-> "NULL",
           deadline |-> FALSE, rate |-> FALSE, closed |-> FALSE]
  <2>1. Ramasser(NewParcel) = [NewParcel EXCEPT !.status = "RAMASSE",
                                                !.location = "AVEC_LE_RAMASSEUR"]
    BY DEF Ramasser, Put
  <2>2. EntreeDepot(Ramasser(NewParcel)) = [NewParcel EXCEPT !.status = "AU_DEPOT",
                                                             !.location = "AU_DEPOT"]
    BY <2>1 DEF EntreeDepot, Put, NewParcel
  <2>3. x = [NewParcel EXCEPT !.status = "EN_LIVRAISON", !.location = "AVEC_LE_LIVREUR",
                              !.livreur = l, !.relance = "NULL"]
    BY <2>2 DEF Sortie, Put, NewParcel
  <2> QED BY <2>3 DEF NewParcel
<1>4. RowInv(x, None, 0)
  BY <1>3, LimitsAssumption
  DEF RowInv, Ready, Parcel, ParcelStatus, ParcelLocation, ParcelCashStatus, RelaunchOrigin,
      CancellableAfterPickup, ReturnStatus
<1>5. \A p \in Parcels : RowInv(parcel[p], verifyDeadlineAt[p], returnFees[p])
  BY <1>1, <1>4 DEF Init
<1>6. x \in Parcel
  BY <1>4 DEF RowInv, Ready
<1>7. TypeOK
  <2>1. parcel \in [Parcels -> Parcel]
    BY <1>1, <1>6
  <2>2. verifyDeadlineAt \in [Parcels -> Nat \cup {None}] /\ returnFees \in [Parcels -> Nat]
    BY DEF Init
  <2>3. running \in BOOLEAN /\ now \in 0..MaxNow /\ faults \in 0..MaxFaults
    <3>1. running = FALSE /\ now = 0 /\ faults = 0
      BY DEF Init
    <3>2. 0 \in 0..MaxNow /\ 0 \in 0..MaxFaults
      BY ONLY ClockAssumption
    <3> QED BY ONLY <3>1, <3>2
  <2>4. due \in Batches
    BY EmptyIsBatch DEF Init
  <2> QED BY <2>1, <2>2, <2>3, <2>4 DEF TypeOK
<1> QED BY <1>5, <1>7 DEF JobInv

(* The seller decides.                                                      *)
LEMMA SellerKeepsInv ==
  ASSUME JobInv, NEW p \in Parcels, SellerStep(p)
  PROVE  JobInv'
<1> DEFINE x == parcel[p]
<1>1. Ready(x) /\ x \in Parcel
  BY DEF JobInv, RowInv, Ready
<1>2. running' \in BOOLEAN /\ due' \in Batches /\ now' \in 0..MaxNow /\ faults' \in 0..MaxFaults
  BY DEF SellerStep, JobAsItWas, JobInv, TypeOK
<1>3. returnFees \in [Parcels -> Nat]
  BY DEF JobInv, TypeOK
<1>4. CASE CanRelancer(x) /\ Write(p, Relancer(x)) /\ UNCHANGED returnFees
  <2>1. /\ Ready(Relancer(x)) /\ ~Relancer(x).deadline /\ Relancer(x).status \notin ReturnStatus
        /\ x.status \notin ReturnStatus
    BY <1>1, <1>4, DecisionsAreReady DEF CanRelancer, ReturnStatus
  <2>2. returnFees' = [returnFees EXCEPT ![p] = @ + 0]
    BY <1>3, <1>4
  <2> QED BY <1>2, <1>4, <2>1, <2>2, Decided
<1>5. CASE CanChangerClient(x) /\ Write(p, ChangerClient(x)) /\ UNCHANGED returnFees
  <2>1. /\ Ready(ChangerClient(x)) /\ ~ChangerClient(x).deadline
        /\ ChangerClient(x).status \notin ReturnStatus /\ x.status \notin ReturnStatus
    BY <1>1, <1>5, DecisionsAreReady DEF CanChangerClient, ReturnStatus
  <2>2. returnFees' = [returnFees EXCEPT ![p] = @ + 0]
    BY <1>3, <1>5
  <2> QED BY <1>2, <1>5, <2>1, <2>2, Decided
<1>6. CASE CanRetourner(x) /\ Write(p, Retourner(x)) /\ ReturnFee(p)
  <2>1. /\ Ready(AsReturn(x)) /\ ~AsReturn(x).deadline /\ AsReturn(x).status \in ReturnStatus
        /\ x.status \notin ReturnStatus
    BY <1>1, <1>6, DecisionsAreReady DEF CanRetourner, ReturnStatus, CancellableAfterPickup
  <2> QED BY <1>2, <1>6, <2>1, Decided DEF Retourner, ReturnFee
<1>7. CASE CanAnnulerApres(x) /\ Write(p, AnnulerApres(x)) /\ ReturnFee(p)
  <2>1. /\ Ready(AsReturn(x)) /\ ~AsReturn(x).deadline /\ AsReturn(x).status \in ReturnStatus
        /\ x.status \notin ReturnStatus
    BY <1>1, <1>7, DecisionsAreReady DEF CanAnnulerApres, ReturnStatus, CancellableAfterPickup
  <2> QED BY <1>2, <1>7, <2>1, Decided DEF AnnulerApres, ReturnFee
<1> QED BY <1>4, <1>5, <1>6, <1>7 DEF SellerStep

(* A livreur's scans.                                                       *)
LEMMA LivreurKeepsInv ==
  ASSUME JobInv, NEW p \in Parcels, NEW l \in Livreurs, LivreurStep(p, l)
  PROVE  JobInv'
<1> DEFINE x == parcel[p]
<1>1. Ready(x) /\ x \in Parcel
  BY DEF JobInv, RowInv, Ready
<1>2. running' \in BOOLEAN /\ due' \in Batches /\ now' \in 0..MaxNow /\ faults' \in 0..MaxFaults
  BY DEF LivreurStep, JobAsItWas, JobInv, TypeOK
<1>3. returnFees \in [Parcels -> Nat] /\ now \in Nat
  BY ClockAssumption DEF JobInv, TypeOK
<1>4. CASE CanLivrer(x, l) /\ Write(p, Livrer(x)) /\ UNCHANGED returnFees
  <2>1. /\ Ready(Livrer(x)) /\ ~Livrer(x).deadline /\ Livrer(x).status \notin ReturnStatus
        /\ x.status \notin ReturnStatus
    BY <1>1, <1>4, AttemptsAreReady DEF CanLivrer, IsWith, ReturnStatus
  <2>2. returnFees' = [returnFees EXCEPT ![p] = @ + 0]
    BY <1>3, <1>4
  <2> QED BY <1>2, <1>4, <2>1, <2>2, Decided
<1>5. CASE CanEchec(x, l) /\ WriteWithDeadline(p, Echec(x)) /\ UNCHANGED returnFees
  <2>1. /\ Ready(Echec(x)) /\ Echec(x).deadline /\ Echec(x).status \notin ReturnStatus
        /\ x.status \notin ReturnStatus
    BY <1>1, <1>5, AttemptsAreReady DEF CanEchec, IsWith, ReturnStatus
  <2>2. PICK delay \in Delays :
          verifyDeadlineAt' = [verifyDeadlineAt EXCEPT ![p] = now + delay]
    BY <1>5 DEF WriteWithDeadline
  <2>3. now + delay \in Nat
    BY <1>3, ClockAssumption
  <2>4. returnFees[p] = 0
    BY <2>1 DEF JobInv, RowInv
  <2>5. returnFees' = [returnFees EXCEPT ![p] = 0]
    BY <1>3, <1>5, <2>4
  <2>6. RowInv(Echec(x), now + delay, 0)
    BY <2>1, <2>3, NoDeadlineAssumption DEF RowInv
  <2> QED BY <1>2, <1>5, <2>2, <2>5, <2>6, OneRow DEF WriteWithDeadline
<1>6. CASE CanEchecReporte(x, l) /\ Write(p, EchecReporte(x)) /\ UNCHANGED returnFees
  <2>1. /\ Ready(EchecReporte(x)) /\ ~EchecReporte(x).deadline
        /\ EchecReporte(x).status \notin ReturnStatus /\ x.status \notin ReturnStatus
    BY <1>1, <1>6, AttemptsAreReady DEF CanEchecReporte, IsWith, ReturnStatus
  <2>2. returnFees' = [returnFees EXCEPT ![p] = @ + 0]
    BY <1>3, <1>6
  <2> QED BY <1>2, <1>6, <2>1, <2>2, Decided
<1>7. CASE CanEchecFinal(x, l) /\ Write(p, EchecFinal(x)) /\ ReturnFee(p)
  <2>1. /\ Ready(EchecFinal(x)) /\ ~EchecFinal(x).deadline
        /\ EchecFinal(x).status \in ReturnStatus /\ x.status \notin ReturnStatus
    BY <1>1, <1>7, AttemptsAreReady DEF CanEchecFinal, IsWith, ReturnStatus
  <2> QED BY <1>2, <1>7, <2>1, Decided DEF ReturnFee
<1> QED BY <1>4, <1>5, <1>6, <1>7 DEF LivreurStep

(* A failure taken back by the phone.                                       *)
LEMMA CancelKeepsInv ==
  ASSUME JobInv, NEW p \in Parcels, CancelEchec(p)
  PROVE  JobInv'
<1> DEFINE y == RestoreCourier(parcel[p], BeforeEchec(parcel[p]))
<1>1. /\ Ready(y) /\ ~y.deadline /\ y.status \notin ReturnStatus
      /\ parcel[p].status \notin ReturnStatus
  <2>1. Ready(parcel[p]) /\ parcel[p] \in Parcel /\ parcel[p].status = "A_VERIFIER"
    BY DEF JobInv, RowInv, Ready, CancelEchec
  <2>2. Ready(y) /\ ~y.deadline /\ y.status = "EN_LIVRAISON"
    BY <2>1, CancelledIsReady
  <2> QED BY <2>1, <2>2 DEF ReturnStatus
<1>2. running' \in BOOLEAN /\ due' \in Batches /\ now' \in 0..MaxNow /\ faults' \in 0..MaxFaults
  BY DEF CancelEchec, JobAsItWas, JobInv, TypeOK
<1>3. returnFees' = [returnFees EXCEPT ![p] = @ + 0]
  BY DEF CancelEchec, JobInv, TypeOK
<1> QED BY <1>1, <1>2, <1>3, Decided DEF CancelEchec

(* The depot's scans start and stop no clock.                               *)
LEMMA DepotKeepsInv ==
  ASSUME JobInv, NEW p \in Parcels, NEW l \in Livreurs, DepotStep(p, l)
  PROVE  JobInv'
<1> DEFINE x == parcel[p]
           Kept(y) == /\ Ready(y) /\ y.deadline = x.deadline
                      /\ y.status \in ReturnStatus <=> x.status \in ReturnStatus
<1>1. Ready(x) /\ x \in Parcel /\ RowInv(x, verifyDeadlineAt[p], returnFees[p])
  BY DEF JobInv, RowInv, Ready
<1>2. running' \in BOOLEAN /\ due' \in Batches /\ now' \in 0..MaxNow /\ faults' \in 0..MaxFaults
  BY DEF DepotStep, JobAsItWas, JobInv, TypeOK
<1>3. PICK y : Kept(y) /\ Write(p, y)
  <2>1. CASE CanRetourDeTournee(x) /\ Write(p, RetourDeTournee(x))
    BY <1>1, <2>1, DepotIsReady
  <2>2. CASE CanSortie(x) /\ Write(p, Sortie(x, l))
    BY <1>1, <2>2, DepotIsReady
  <2> QED BY <2>1, <2>2 DEF DepotStep
<1>4. returnFees' = [returnFees EXCEPT ![p] = returnFees[p]] /\ returnFees[p] \in Nat
  BY DEF DepotStep, JobInv, TypeOK
<1>5. verifyDeadlineAt' = [verifyDeadlineAt EXCEPT ![p] = verifyDeadlineAt[p]]
  BY <1>1, <1>3 DEF Write, RowInv
<1>6. RowInv(y, verifyDeadlineAt[p], returnFees[p])
  BY <1>1, <1>3 DEF RowInv
<1> QED BY <1>2, <1>3, <1>4, <1>5, <1>6, OneRow DEF Write

(* The job, its faults and the clock.                                       *)
LEMMA JobKeepsInv ==
  ASSUME JobInv, JobStep \/ FailNext \/ Restart \/ Tick
  PROVE  JobInv'
<1> USE ClockAssumption
<1>1. CASE StartPass
  BY <1>1, NoRow DEF StartPass, JobInv, TypeOK
<1>2. CASE ReturnNext
  <2>1. /\ Head(due) \in Parcels /\ due' \in Batches /\ running' \in BOOLEAN
        /\ now' \in 0..MaxNow /\ faults' \in 0..MaxFaults
    <3>1. due \in Batches /\ due # <<>>
      BY <1>2 DEF ReturnNext, JobInv, TypeOK
    <3>2. due \in Seq(Parcels)
      BY <3>1 DEF Batches
    <3>3. Head(due) \in Parcels
      BY <3>1, <3>2
    <3> QED BY <1>2, <3>1, <3>3, TailIsBatch DEF ReturnNext, JobInv, TypeOK
  <2>2. CASE CanAutoRetour48h(parcel[Head(due)])
    <3> DEFINE p == Head(due)
               x == parcel[p]
    <3>1. Ready(x) /\ x \in Parcel
      BY <2>1 DEF JobInv, RowInv, Ready
    <3>2. /\ Ready(AsReturn(x)) /\ ~AsReturn(x).deadline
          /\ AsReturn(x).status \in ReturnStatus /\ x.status \notin ReturnStatus
      BY <2>2, <3>1, DecisionsAreReady
      DEF CanAutoRetour48h, ReturnStatus, CancellableAfterPickup
    <3> QED BY <1>2, <2>1, <2>2, <3>2, Decided DEF ReturnNext, ReturnFee, AutoRetour48h
  <2>3. CASE ~CanAutoRetour48h(parcel[Head(due)])
    BY <1>2, <2>1, <2>3, NoRow DEF ReturnNext
  <2> QED BY <2>2, <2>3
<1>3. CASE SkipNext
  BY <1>3, NoRow, TailIsBatch DEF SkipNext, JobInv, TypeOK
<1>4. CASE EndPass
  BY <1>4, NoRow DEF EndPass, JobInv, TypeOK
<1>5. CASE FailNext
  BY <1>5, NoRow, TailIsBatch DEF FailNext, JobInv, TypeOK
<1>6. CASE Restart
  <2>1. due' \in Batches /\ running' \in BOOLEAN
    BY <1>6, EmptyIsBatch DEF Restart
  <2>2. faults' \in 0..MaxFaults /\ now' \in 0..MaxNow
    BY <1>6 DEF Restart, JobInv, TypeOK
  <2>3. UNCHANGED <<parcel, verifyDeadlineAt, returnFees>>
    BY <1>6 DEF Restart
  <2> QED BY <2>1, <2>2, <2>3, NoRow
<1>7. CASE Tick
  BY <1>7, NoRow DEF Tick, JobInv, TypeOK
<1> QED BY <1>1, <1>2, <1>3, <1>4, <1>5, <1>6, <1>7 DEF JobStep

(* So every step keeps it.                                                  *)
LEMMA StepKeepsInv == JobInv /\ [Next]_vars => JobInv'
<1> SUFFICES ASSUME JobInv, [Next]_vars PROVE JobInv'
  OBVIOUS
<1>1. CASE UNCHANGED vars
  BY <1>1 DEF vars, JobInv, TypeOK, RowInv, Ready
<1>2. CASE Next
  BY <1>2, SellerKeepsInv, CancelKeepsInv, LivreurKeepsInv, DepotKeepsInv, JobKeepsInv DEF Next
<1> QED BY <1>1, <1>2

-----------------------------------------------------------------------------
(* Theorems *)

(* The inductive invariant: rows, deadlines and fees agree, parcel by       *)
(* parcel, whatever is left of the job's batch.                             *)
THEOREM AlwaysJobInv == Spec => []JobInv
BY InitInv, StepKeepsInv, PTL DEF Spec

(* Every column, the batch and the counters keep their type.                *)
THEOREM JobTypeCorrect == Spec => []TypeOK
<1>1. JobInv => TypeOK
  BY DEF JobInv
<1> QED BY AlwaysJobInv, <1>1, PTL

(* A parcel has a deadline exactly while it is A verifier.                  *)
THEOREM DeadlinesHold == Spec => []DeadlineIffUndecided
<1>1. JobInv => DeadlineIffUndecided
  BY DEF JobInv, RowInv, Ready, DeadlineIffUndecided
<1> QED BY AlwaysJobInv, <1>1, PTL

(* A return is charged once, and only a return is, however many passes and  *)
(* decisions compete for the parcel.                                        *)
THEOREM ReturnsChargedOnce == Spec => []OneFeePerReturn
<1>1. JobInv => OneFeePerReturn
  BY DEF JobInv, RowInv, OneFeePerReturn
<1> QED BY AlwaysJobInv, <1>1, PTL
=============================================================================
