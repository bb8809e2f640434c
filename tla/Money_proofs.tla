------------------------------ MODULE Money_proofs ------------------------------
(***************************************************************************)
(* What the proofs about the caisses and the bons say of the money run:        *)
(* MCMoney lets one component move, and a behaviour in which the caisses move   *)
(* is one of Caisse, one in which the bons de versement move is one of          *)
(* BonVersement, one in which the bons de retour move is one of BonRetour.     *)
(* Those in which the pay moves are proved about here, as MCMoney instantiates  *)
(* it.  For any parcels, returns, old items, couriers, charges, bons, plans,    *)
(* days, amounts and rate it is given.                                      *)
(***************************************************************************)
EXTENDS MCMoney, TLAPS

\* The caisses as MCMoney instantiates them, with their theorems.
CP == INSTANCE Caisse_proofs WITH
  Livreurs <- Couriers, LastDay <- 2, MaxScans <- 2, MaxBusy <- 2, MaxCounts <- 2, Amounts <- {1},
  parcel <- v1, livres <- v2, session <- v3, work <- v4, counts <- v5

\* The bons as MCMoney instantiates them, with their theorems.
VP == INSTANCE BonVersement_proofs WITH
  Ramasseurs <- Couriers, LastDay <- 2, MaxCorrections <- 2, MaxTrips <- 2, Surpluses <- {1},
  today <- v1, bon <- v2, paid <- v3, charge <- v4, session <- v5, preparing <- v6,
  closing <- v7, corrections <- v8, trips <- v9

\* The bons de retour as MCMoney instantiates them, with their theorems.
RP == INSTANCE BonRetour_proofs WITH
  Parcels <- Returns, Ramasseurs <- Couriers, LastDay <- 2, MaxTrips <- 2, MaxCorrections <- 1,
  today <- v1, place <- v2, bon <- v3, line <- v4, fresh <- v5, session <- v6, preparing <- v7,
  receiving <- v8, closing <- v9, trips <- v10, corrections <- v11

-----------------------------------------------------------------------------
(* The two instances of Caisse are one *)

\* Their assumption.
LEMMA CaisseAssumed == CP!CaisseAssumption
BY MoneyAssumption DEF C!CaisseAssumption, CP!CaisseAssumption, C!IsFiniteSet, CP!IsFiniteSet

\* Their initial states.
LEMMA SameCaisseInit == C!Init => CP!Init
BY DEF C!Init, CP!Init, C!OpenSession, CP!OpenSession, C!Days, CP!Days

\* Their steps.
LEMMA SameCaisseNext == C!Next => CP!Next
BY DEF C!Next, CP!Next, C!ParcelStep, CP!ParcelStep, C!SessionStep, CP!SessionStep,
  C!Days, CP!Days, C!WithCourier, CP!WithCourier, C!Closed, CP!Closed,
  C!UndoDelivery, CP!UndoDelivery, C!Deliver, CP!Deliver, C!CancelLivre, CP!CancelLivre,
  C!Back, CP!Back, C!WithoutLinesOf, CP!WithoutLinesOf, C!Busy, CP!Busy,
  C!deliveryLines, CP!deliveryLines, C!HisScans, CP!HisScans,
  C!CountedElsewhere, CP!CountedElsewhere, C!caisseLineOrigin, CP!caisseLineOrigin,
  C!ReadCount, CP!ReadCount, C!WriteCount, CP!WriteCount, C!ReadClose, CP!ReadClose,
  C!closeRefusal, CP!closeRefusal, C!WriteClose, CP!WriteClose, C!CashMoves, CP!CashMoves,
  C!Abort, CP!Abort, C!CheckEcart, CP!CheckEcart, C!CancelDebt, CP!CancelDebt,
  C!Cardinality, CP!Cardinality, C!IsFiniteSet, CP!IsFiniteSet

\* Their counted cash.
LEMMA SameCountedCash == CP!CashAtDepotWasCounted => C!CashAtDepotWasCounted
BY DEF C!CashAtDepotWasCounted, CP!CashAtDepotWasCounted, C!Days, CP!Days, C!Closed, CP!Closed,
  C!Cardinality, CP!Cardinality

\* Their expected cash.
LEMMA SameExpectedCash == CP!NoCashForgotten => C!NoCashForgotten
BY DEF C!NoCashForgotten, CP!NoCashForgotten, C!Days, CP!Days, C!Closed, CP!Closed,
  C!WithCourier, CP!WithCourier, C!deliveryLines, CP!deliveryLines, C!HisScans, CP!HisScans,
  C!CountedElsewhere, CP!CountedElsewhere, C!caisseLineOrigin, CP!caisseLineOrigin

-----------------------------------------------------------------------------
(* The two instances of BonVersement are one *)

\* Their assumption.
LEMMA BonAssumed == VP!BonAssumption
BY MoneyAssumption DEF V!BonAssumption, VP!BonAssumption, V!IsFiniteSet, VP!IsFiniteSet,
  V!Bon, VP!Bon, V!BonStatus, VP!BonStatus

\* Their initial states.
LEMMA SameBonInit == V!Init => VP!Init
BY DEF V!Init, VP!Init, V!NoBons, VP!NoBons, V!Days, VP!Days

\* Their surpluses.
LEMMA SameSurplus ==
  /\ \A s : V!Surplus(s) = VP!Surplus(s)
  /\ \A b, s : V!Covered(b, s) = VP!Covered(b, s)
BY DEF V!Surplus, VP!Surplus, V!Covered, VP!Covered, V!NetOf, VP!NetOf,
  V!Max, VP!Max, V!Min, VP!Min

\* Their steps.
LEMMA SameBonNext == V!Next => VP!Next
<1>1. V!NextDay => VP!NextDay
  BY DEF V!NextDay, VP!NextDay
<1>2. V!ChargeStep => VP!ChargeStep
  BY DEF V!ChargeStep, VP!ChargeStep, V!NewCharge, VP!NewCharge, V!AnnulCharge, VP!AnnulCharge,
    V!HeldByPrepare, VP!HeldByPrepare
<1>3. \A chosen : V!LockPrepare(chosen) => VP!LockPrepare(chosen)
  BY DEF V!LockPrepare, VP!LockPrepare, V!Payable, VP!Payable, V!Active, VP!Active
<1>4. \A included : V!ReadCharges(included) => VP!ReadCharges(included)
  BY DEF V!ReadCharges, VP!ReadCharges
<1>5. V!AbortPrepare => VP!AbortPrepare
  BY DEF V!AbortPrepare, VP!AbortPrepare
<1>6. \A b : V!WritePrepare(b) => VP!WritePrepare(b)
  BY DEF V!WritePrepare, VP!WritePrepare
<1>7. \A b : (V!Cancel(b) => VP!Cancel(b)) /\ (V!Archive(b) => VP!Archive(b))
  BY DEF V!Cancel, VP!Cancel, V!Archive, VP!Archive, V!Is, VP!Is
<1>8. \A b : V!Carried(b) = VP!Carried(b)
  BY DEF V!Carried, VP!Carried, V!Days, VP!Days
<1>9. \A sessions : V!Latest(sessions) = VP!Latest(sessions)
  BY DEF V!Latest, VP!Latest
<1>10. ASSUME NEW b, V!Correct(b)
       PROVE  VP!Correct(b)
  <2>1. \A status, ramasseur : V!Unpay(b, status, ramasseur) => VP!Unpay(b, status, ramasseur)
    BY <1>8, <1>9 DEF V!Unpay, VP!Unpay, V!Cardinality, VP!Cardinality,
      V!IsFiniteSet, VP!IsFiniteSet
  <2>2. V!Latest(V!Carried(b)) = VP!Latest(VP!Carried(b)) /\ V!Is(b, "REMIS") = VP!Is(b, "REMIS")
    BY <1>8, <1>9 DEF V!Is, VP!Is
  <2>3. /\ VP!Is(b, "REMIS") /\ v8 < 2 /\ v2[b].parcels \subseteq v3
        /\ v8' = v8 + 1 /\ UNCHANGED <<v1, v4, v6, v7, v9>>
    BY <1>10, <2>2 DEF V!Correct
  <2>4. PICK s \in VP!Latest(VP!Carried(b)) :
          /\ V!SessionFree(s[1], s[2])
          /\ IF ~V!Closed(s[1], s[2])
             THEN /\ V!Unpay(b, "EN_ROUTE", v2[b].ramasseur)
                  /\ v5' = [v5 EXCEPT ![s[1]][s[2]].remis = @ \ {b}]
             ELSE /\ V!Unpay(b, "PREPARE", None)
                  /\ LET this == v5[s[1]][s[2]] IN v5' = [v5 EXCEPT ![s[1]][s[2]] =
                       [this EXCEPT !.explained = @ + V!Covered(b, s),
                          !.checked = @ \/ (V!Surplus(s) > 0 /\ V!Surplus(s) = V!Covered(b, s))]]
    BY <1>10, <2>2 DEF V!Correct
  <2>5. VP!SessionFree(s[1], s[2]) /\ (VP!Closed(s[1], s[2]) <=> V!Closed(s[1], s[2]))
    BY <2>4 DEF V!SessionFree, VP!SessionFree, V!Closed, VP!Closed
  <2>6. V!Surplus(s) = VP!Surplus(s) /\ V!Covered(b, s) = VP!Covered(b, s)
    BY SameSurplus
  <2>7. CASE ~V!Closed(s[1], s[2])
    <3>1. ~VP!Closed(s[1], s[2]) /\ VP!Unpay(b, "EN_ROUTE", v2[b].ramasseur)
      BY <2>1, <2>4, <2>5, <2>7
    <3>2. v5' = [v5 EXCEPT ![s[1]][s[2]].remis = @ \ {b}]
      BY <2>4, <2>7
    <3> QED BY <2>3, <2>5, <3>1, <3>2 DEF VP!Correct
  <2>8. CASE V!Closed(s[1], s[2])
    <3>1. VP!Closed(s[1], s[2]) /\ VP!Unpay(b, "PREPARE", None)
      BY <2>1, <2>4, <2>5, <2>8
    <3>2. LET this == v5[s[1]][s[2]] IN v5' = [v5 EXCEPT ![s[1]][s[2]] =
            [this EXCEPT !.explained = @ + VP!Covered(b, s),
               !.checked = @ \/ (VP!Surplus(s) > 0 /\ VP!Surplus(s) = VP!Covered(b, s))]]
      BY <2>4, <2>6, <2>8
    <3> QED BY <2>3, <2>5, <3>1, <3>2 DEF VP!Correct
  <2> QED BY <2>7, <2>8
<1>11. \A b, r : V!HandOut(b, r) => VP!HandOut(b, r)
  BY DEF V!HandOut, VP!HandOut, V!Is, VP!Is, V!SessionFree, VP!SessionFree, V!Closed, VP!Closed
<1>12. \A b : V!Remis(b) => VP!Remis(b)
  BY <1>8, <1>9 DEF V!Remis, VP!Remis, V!Is, VP!Is, V!MarkRemis, VP!MarkRemis,
    V!CashLines, VP!CashLines, V!Closed, VP!Closed
<1>13. V!CaisseStep => VP!CaisseStep
  BY DEF V!CaisseStep, VP!CaisseStep, V!ReadClose, VP!ReadClose, V!AbortClose, VP!AbortClose,
    V!WriteClose, VP!WriteClose, V!BringBack, VP!BringBack, V!Is, VP!Is, V!Closed, VP!Closed,
    V!SessionFree, VP!SessionFree, V!Days, VP!Days
<1> QED BY <1>1, <1>2, <1>3, <1>4, <1>5, <1>6, <1>7, <1>10, <1>11, <1>12, <1>13
        DEF V!Next, VP!Next, V!DepotStep, VP!DepotStep

\* Their certificates.
LEMMA SameCertificates == VP!PaidUnderOneCertificate => V!PaidUnderOneCertificate
BY DEF V!PaidUnderOneCertificate, VP!PaidUnderOneCertificate, V!Cardinality, VP!Cardinality,
  V!IsFiniteSet, VP!IsFiniteSet

\* Their charges and surpluses.
LEMMA SameCharges ==
  /\ VP!SurplusExplainedOnce => V!SurplusExplainedOnce
  /\ VP!DeductedByStandingBon => V!DeductedByStandingBon
BY DEF V!SurplusExplainedOnce, VP!SurplusExplainedOnce, V!DeductedByStandingBon,
  VP!DeductedByStandingBon, V!Active, VP!Active, V!Days, VP!Days, V!Max, VP!Max

\* Their caisses.
LEMMA SameCarried ==
  /\ VP!CarriedCashIsExpected => V!CarriedCashIsExpected
  /\ VP!ClosedCaisseIsSettled => V!ClosedCaisseIsSettled
BY DEF V!CarriedCashIsExpected, VP!CarriedCashIsExpected, V!ClosedCaisseIsSettled,
  VP!ClosedCaisseIsSettled, V!Is, VP!Is, V!Days, VP!Days, V!Closed, VP!Closed

-----------------------------------------------------------------------------
(* The two instances of BonRetour are one *)

\* Their assumption.
LEMMA RetourAssumed == RP!BonRetourAssumption
BY MoneyAssumption DEF R!BonRetourAssumption, RP!BonRetourAssumption, R!Bon, RP!Bon,
  R!Line, RP!Line, R!Days, RP!Days

\* Their initial states.
LEMMA SameRetourInit == R!Init => RP!Init
BY DEF R!Init, RP!Init, R!Days, RP!Days

\* What their steps read of the bons.
LEMMA SameLines ==
  /\ \A b, status : R!Is(b, status) = RP!Is(b, status)
  /\ \A b : R!On(b) = RP!On(b) /\ R!Pending(b) = RP!Pending(b)
  /\ \A p : R!Locked(p) = RP!Locked(p)
  /\ \A parcels, where : R!Move(parcels, where) = RP!Move(parcels, where)
BY DEF R!Is, RP!Is, R!On, RP!On, R!Pending, RP!Pending, R!Locked, RP!Locked, R!Move, RP!Move

\* The scans of Preparation retours.
LEMMA SamePreparation ==
  /\ \A p : R!ReadPrepare(p) => RP!ReadPrepare(p)
  /\ \A b : R!WritePrepare(b) => RP!WritePrepare(b)
  /\ \A b, p : R!Unprepare(b, p) => RP!Unprepare(b, p)
<1>1. \A p : R!OnBon(p) = RP!OnBon(p)
  BY SameLines DEF R!OnBon, RP!OnBon, R!OpenLine, RP!OpenLine
<1>2. {b \in Bons : R!Is(b, "PREPARE")} = {b \in Bons : RP!Is(b, "PREPARE")}
  BY SameLines
<1>3. \A p : R!ReadPrepare(p) => RP!ReadPrepare(p)
  BY SameLines, <1>1, <1>2 DEF R!ReadPrepare, RP!ReadPrepare
<1>4. \A b : R!WritePrepare(b) => RP!WritePrepare(b)
  BY SameLines DEF R!WritePrepare, RP!WritePrepare, R!NewBon, RP!NewBon, R!JoinBon, RP!JoinBon,
    R!Expected, RP!Expected
<1>5. \A b, p : R!Unprepare(b, p) => RP!Unprepare(b, p)
  BY SameLines DEF R!Unprepare, RP!Unprepare
<1> QED BY <1>3, <1>4, <1>5

\* The hand-outs, the receipts and the archives.
LEMMA SameTrips ==
  /\ \A b, r : R!HandOut(b, r) => RP!HandOut(b, r)
  /\ \A b, p, r, day : R!ReadReceive(b, p, r, day) => RP!ReadReceive(b, p, r, day)
  /\ \A p : R!WriteReceive(p) => RP!WriteReceive(p)
  /\ \A b : R!Archive(b) => RP!Archive(b)
<1>1. \A b, p : R!CompleteWith(b, p) = RP!CompleteWith(b, p)
  BY SameLines DEF R!CompleteWith, RP!CompleteWith
<1>2. \A b, r : R!HandOut(b, r) => RP!HandOut(b, r)
  BY SameLines DEF R!HandOut, RP!HandOut
<1>3. ASSUME NEW b, NEW p, NEW r, NEW day, R!ReadReceive(b, p, r, day)
      PROVE  RP!ReadReceive(b, p, r, day)
  <2>1. /\ R!CompleteWith(b, p) = RP!CompleteWith(b, p) /\ R!Locked(p) = RP!Locked(p)
        /\ R!Is(b, "EN_ROUTE") = RP!Is(b, "EN_ROUTE") /\ R!Pending(b) = RP!Pending(b)
    BY <1>1, SameLines
  <2> QED BY <1>3, <2>1 DEF R!ReadReceive, RP!ReadReceive
<1>4. \A p : R!WriteReceive(p) => RP!WriteReceive(p)
  BY SameLines, <1>1 DEF R!WriteReceive, RP!WriteReceive
<1>5. \A b : R!Archive(b) => RP!Archive(b)
  BY SameLines DEF R!Archive, RP!Archive
<1> QED BY <1>2, <1>3, <1>4, <1>5

\* The closings.
LEMMA SameClosings ==
  \A r, d : /\ R!ReadClose(r, d) => RP!ReadClose(r, d)
            /\ R!WriteClose(r, d) => RP!WriteClose(r, d)
            /\ R!AbortClose(r, d) => RP!AbortClose(r, d)
<1>1. \A r, d : R!BroughtBack(r, d) = RP!BroughtBack(r, d)
  BY DEF R!BroughtBack, RP!BroughtBack
<1>2. \A b, r, d : R!Crossed(b, r, d) = RP!Crossed(b, r, d)
  BY SameLines DEF R!Crossed, RP!Crossed
<1>3. \A r, d : R!ReadClose(r, d) => RP!ReadClose(r, d)
  BY SameLines DEF R!ReadClose, RP!ReadClose
<1>4. ASSUME NEW r, NEW d, R!WriteClose(r, d)
      PROVE  RP!WriteClose(r, d)
  <2> DEFINE bons == [b \in Bons |->
        IF v9[r][d][b] # {}
        THEN [v3[b] EXCEPT !.status = "PREPARE", !.ramasseur = None, !.crossed = R!Crossed(b, r, d)]
        ELSE IF R!On(b) \cap R!BroughtBack(r, d) # {} THEN [v3[b] EXCEPT !.crossed = TRUE]
        ELSE v3[b]]
             sameBons == [b \in Bons |->
        IF v9[r][d][b] # {}
        THEN [v3[b] EXCEPT !.status = "PREPARE", !.ramasseur = None, !.crossed = RP!Crossed(b, r, d)]
        ELSE IF RP!On(b) \cap RP!BroughtBack(r, d) # {} THEN [v3[b] EXCEPT !.crossed = TRUE]
        ELSE v3[b]]
  <2>1. R!BroughtBack(r, d) = RP!BroughtBack(r, d)
    BY <1>1
  <2>2. bons = sameBons
    BY SameLines, <1>2, <2>1
  <2>3. v3' = bons
    BY <1>4 DEF R!WriteClose
  <2>4. v3' = sameBons
    BY <2>2, <2>3
  <2>5. \A p \in RP!BroughtBack(r, d) :
          ~RP!Locked(p) /\ (p \in Articles \/ v2[p] = "RETOUR_EN_ROUTE")
    BY <1>4, <2>1, SameLines DEF R!WriteClose
  <2>6. v2' = RP!Move(RP!BroughtBack(r, d), "RETOUR_AU_DEPOT")
    BY <1>4, <2>1, SameLines DEF R!WriteClose
  <2> HIDE DEF bons
  <2> QED BY <1>4, <2>1, <2>4, <2>5, <2>6 DEF R!WriteClose, RP!WriteClose
<1>5. \A r, d : R!AbortClose(r, d) => RP!AbortClose(r, d)
  BY DEF R!AbortClose, RP!AbortClose
<1> QED BY <1>3, <1>4, <1>5

\* The corrections.
LEMMA SameCorrections == \A b, p : R!CorrectLine(b, p) => RP!CorrectLine(b, p)
<1>1. \A b, p : R!WithRamasseur(b, p) = RP!WithRamasseur(b, p)
  BY SameLines DEF R!WithRamasseur, RP!WithRamasseur, R!CaisseClosed, RP!CaisseClosed,
    R!Carried, RP!Carried
<1>2. \A b, p : R!Reopened(b, p) = RP!Reopened(b, p)
  BY DEF R!Reopened, RP!Reopened, R!Expected, RP!Expected
<1> QED BY SameLines, <1>1, <1>2 DEF R!CorrectLine, RP!CorrectLine

\* Their steps.
LEMMA SameRetourNext == R!Next => RP!Next
<1>1. R!NextDay => RP!NextDay
  BY DEF R!NextDay, RP!NextDay
<1>2. R!ScanStep => RP!ScanStep
  BY SamePreparation, SameTrips, SameCorrections DEF R!ScanStep, RP!ScanStep, R!Days, RP!Days
<1>3. R!TripStep => RP!TripStep
  BY SameTrips, SameClosings DEF R!TripStep, RP!TripStep, R!Days, RP!Days
<1> QED BY <1>1, <1>2, <1>3 DEF R!Next, RP!Next

\* Their returns.
LEMMA SameReturns ==
  /\ RP!ReceivedOnOneLine => R!ReceivedOnOneLine
  /\ RP!ReturnFollowsItsBon => R!ReturnFollowsItsBon
<1>1. RP!ReceivedOnOneLine => R!ReceivedOnOneLine
  BY DEF R!ReceivedOnOneLine, RP!ReceivedOnOneLine, R!On, RP!On, R!Pending, RP!Pending,
    R!Cardinality, RP!Cardinality, R!IsFiniteSet, RP!IsFiniteSet
<1>2. \A b, p : R!WhereItsLineSays(b, p) = RP!WhereItsLineSays(b, p)
  BY SameLines DEF R!WhereItsLineSays, RP!WhereItsLineSays
<1>3. RP!ReturnFollowsItsBon => R!ReturnFollowsItsBon
  BY SameLines, <1>2 DEF R!ReturnFollowsItsBon, RP!ReturnFollowsItsBon, R!Carried, RP!Carried
<1> QED BY <1>1, <1>3

-----------------------------------------------------------------------------
(* The money run *)

\* The caisses' invariant, while they are what moves.
CaissesInv == moving = "Caisse" => CP!CaisseInv

(* Whatever component moves, it alone moves; and when it is the caisses, they      *)
(* keep their invariant.                                                     *)
THEOREM AlwaysCaissesInv == Spec => []CaissesInv
<1>1. Init => CaissesInv
  BY CaisseAssumed, SameCaisseInit, CP!CaisseStarts DEF Init, CaissesInv
<1>2. CaissesInv /\ [Next]_vars => CaissesInv'
  <2> SUFFICES ASSUME CaissesInv, [Next]_vars, moving' = "Caisse"
               PROVE  CP!CaisseInv'
    BY DEF CaissesInv
  <2>1. moving = "Caisse" /\ (C!Next \/ UNCHANGED <<v1, v2, v3, v4, v5>>)
    BY DEF Next, vars
  <2>2. CP!CaisseInv
    BY <2>1 DEF CaissesInv
  <2>3. [CP!Next]_(CP!vars)
    BY <2>1, SameCaisseNext DEF CP!vars
  <2> QED BY <2>2, <2>3, CaisseAssumed, CP!CaisseGoesOn
<1> QED BY <1>1, <1>2, PTL DEF Spec

(* The money run's caisses: the cash at the depot is what the closings moved,     *)
(* and each closed caisse was counted against the cash it moved.              *)
THEOREM MoneyIsCounted == Spec => []CashAtDepotWasCounted
<1>1. CaissesInv => CashAtDepotWasCounted
  BY CP!CountedByInv, SameCountedCash DEF CaissesInv, CashAtDepotWasCounted
<1> QED BY <1>1, AlwaysCaissesInv, PTL

\* The money run's caisses: the cash a courier holds is expected by one still open.
THEOREM MoneyIsExpected == Spec => []NoCashForgotten
<1>1. CaissesInv => NoCashForgotten
  BY CaisseAssumed, CP!ExpectedByInv, SameExpectedCash DEF CaissesInv, NoCashForgotten
<1> QED BY <1>1, AlwaysCaissesInv, PTL

\* The bons' invariant, while they are what moves.
BonsInv == moving = "BonVersement" => VP!BonInv

(* Whatever component moves, it alone moves; and when it is the bons de             *)
(* versement, they keep their invariant.                                     *)
THEOREM AlwaysBonsInv == Spec => []BonsInv
<1>1. Init => BonsInv
  BY BonAssumed, SameBonInit, VP!BonsStart DEF Init, BonsInv
<1>2. BonsInv /\ [Next]_vars => BonsInv'
  <2> SUFFICES ASSUME BonsInv, [Next]_vars, moving' = "BonVersement"
               PROVE  VP!BonInv'
    BY DEF BonsInv
  <2>1. /\ moving = "BonVersement"
        /\ V!Next \/ UNCHANGED <<v1, v2, v3, v4, v5, v6, v7, v8, v9>>
    BY DEF Next, vars
  <2>2. VP!BonInv
    BY <2>1 DEF BonsInv
  <2>3. [VP!Next]_(VP!vars)
    BY <2>1, SameBonNext DEF VP!vars
  <2> QED BY <2>2, <2>3, BonAssumed, VP!BonsGoOn
<1> QED BY <1>1, <1>2, PTL DEF Spec

\* The money run's bons: one certificate stands for a parcel paid, none for another.
THEOREM MoneyIsCertified == Spec => []PaidUnderOneCertificate
<1>1. BonsInv => PaidUnderOneCertificate
  BY VP!CertificateByInv, SameCertificates DEF BonsInv, PaidUnderOneCertificate
<1> QED BY <1>1, AlwaysBonsInv, PTL

(* The money run's bons: a charge is deducted by a bon that stands, and corrections   *)
(* that share a surplus explain no more than it.                             *)
THEOREM MoneyIsDeducted == Spec => []ChargesFollowTheirBon
<1>1. BonsInv => ChargesFollowTheirBon
  BY VP!ChargesByInv, SameCharges DEF BonsInv, ChargesFollowTheirBon
<1> QED BY <1>1, AlwaysBonsInv, PTL

(* The money run's bons: an open caisse of its ramasseur expects each bon on the     *)
(* way, and a closed one has settled each bon it took out.                   *)
THEOREM MoneyIsCarried == Spec => []BonsFollowTheirCaisse
<1>1. BonsInv => BonsFollowTheirCaisse
  BY VP!CarriedByInv, SameCarried DEF BonsInv, BonsFollowTheirCaisse
<1> QED BY <1>1, AlwaysBonsInv, PTL

\* The bons de retour's invariant, while they are what moves.
RetoursInv == moving = "BonRetour" => RP!RetourInv

(* Whatever component moves, it alone moves; and when it is the bons de             *)
(* retour, they keep their invariant.                                        *)
THEOREM AlwaysRetoursInv == Spec => []RetoursInv
<1>1. Init => RetoursInv
  BY RetourAssumed, SameRetourInit, RP!RetoursStart DEF Init, RetoursInv
<1>2. RetoursInv /\ [Next]_vars => RetoursInv'
  <2> SUFFICES ASSUME RetoursInv, [Next]_vars, moving' = "BonRetour"
               PROVE  RP!RetourInv'
    BY DEF RetoursInv
  <2>1. /\ moving = "BonRetour"
        /\ R!Next \/ UNCHANGED <<v1, v2, v3, v4, v5, v6, v7, v8, v9, v10, v11>>
    BY DEF Next, vars
  <2>2. RP!RetourInv
    BY <2>1 DEF RetoursInv
  <2>3. [RP!Next]_(RP!vars)
    BY <2>1, SameRetourNext DEF RP!vars
  <2> QED BY <2>2, <2>3, RetourAssumed, RP!RetoursGoOn
<1> QED BY <1>1, <1>2, PTL DEF Spec

(* The money run's bons de retour: where no transactions crossed, a return is where   *)
(* its line says; and it is given back on one line only, whatever crossed.    *)
THEOREM MoneyIsReturned == Spec => []ReturnsFollowTheirBon
<1>1. RetoursInv => ReturnsFollowTheirBon
  BY RP!ReceivedByInv, RP!FollowsByInv, SameReturns DEF RetoursInv, ReturnsFollowTheirBon
<1> QED BY <1>1, AlwaysRetoursInv, PTL


-----------------------------------------------------------------------------
(* The pay: v1 is today, v2 schedule, v3 parcel, v4 debt, v5 fiche, v6 request,   *)
(* v7 changes.  First the calendar: a plan's periods end on its multiples.      *)

\* A plan is named by the days of its period.
LEMMA PlanDays ==
  ASSUME P!PayrollAssumption, NEW plan \in Plans
  PROVE  plan \in Nat \ {0}
<1>1. [x \in Plans |-> x] \in [Plans -> Nat \ {0}]
  BY DEF P!PayrollAssumption
<1>2. [x \in Plans |-> x][plan] \in Nat \ {0}
  BY <1>1
<1> QED BY <1>2

\* The period of a day is between two multiples.
LEMMA CalendarDays ==
  ASSUME P!PayrollAssumption, NEW plan \in Plans, NEW d \in Int
  PROVE  \E q \in Int : /\ P!payPeriodFor(plan, d) = [start |-> plan * q + 1, end |-> plan * q + plan]
                        /\ plan * q + 1 <= d /\ d <= plan * q + plan
<1>0. plan \in Nat \ {0}
  BY PlanDays
<1>1. PICK q \in Int, r \in 0..(plan - 1) : r = (d - 1) % plan /\ d - 1 = plan * q + r
  <2>1. (d - 1) % plan \in 0..(plan - 1) /\ (d - 1) \div plan \in Int
        /\ d - 1 = plan * ((d - 1) \div plan) + ((d - 1) % plan)
    BY <1>0
  <2> QED BY <2>1
<1>2. plan * q \in Int
  BY <1>0
<1>3. P!payPeriodFor(plan, d) = [start |-> d - r, end |-> (d - r) + plan - 1]
  BY <1>1 DEF P!payPeriodFor
<1>m. PICK m \in Int : m = plan * q
  BY <1>2
<1>4. d - r = plan * q + 1 /\ (d - r) + plan - 1 = plan * q + plan
  <2>1. d - 1 = m + r
    BY <1>1, <1>m
  <2>2. r \in Int /\ m \in Int /\ plan \in Int
    BY <1>0, <1>1, <1>m
  <2>3. d - r = m + 1 /\ (d - r) + plan - 1 = m + plan
    BY <2>1, <2>2
  <2> QED BY <1>m, <2>3
<1>5. plan * q + 1 <= d /\ d <= plan * q + plan
  BY <1>0, <1>1, <1>2
<1> QED BY <1>3, <1>4, <1>5

\* Multiples are in the order of what they are multiples by.
LEMMA Multiples ==
  ASSUME NEW n \in Nat \ {0}, NEW a \in Int, NEW b \in Int, a <= b
  PROVE  n * a <= n * b
<1>1. PICK k \in Nat : b = a + k
  OBVIOUS
<1>2. n * b = n * a + n * k
  BY <1>1
<1>3. n * k >= 0
  OBVIOUS
<1> QED BY <1>1, <1>2, <1>3

\* A calendar period ends on a multiple, and on each multiple.
LEMMA CalendarMultiple ==
  ASSUME P!PayrollAssumption, NEW plan \in Plans, NEW e \in Int
  PROVE  P!CalendarEnd(plan, e) <=> \E m \in Int : e = plan * m
<1>0. plan \in Nat \ {0}
  BY PlanDays
<1>1. PICK q \in Int : /\ P!payPeriodFor(plan, e) = [start |-> plan * q + 1, end |-> plan * q + plan]
                       /\ plan * q + 1 <= e /\ e <= plan * q + plan
  BY CalendarDays
<1>2. plan * (q + 1) = plan * q + plan /\ plan * q \in Int
  BY <1>0
<1>3. P!CalendarEnd(plan, e) <=> e = plan * (q + 1)
  BY <1>1, <1>2 DEF P!CalendarEnd
<1>4. ASSUME NEW m \in Int, e = plan * m PROVE m = q + 1
  <2>1. CASE m <= q
    <3>1. plan * m <= plan * q
      BY <1>0, <2>1, Multiples
    <3> QED BY <1>0, <1>1, <1>2, <1>4, <3>1
  <2>2. CASE m >= q + 2
    <3>1. plan * (q + 2) <= plan * m
      BY <1>0, <2>2, Multiples
    <3>2. plan * (q + 2) = plan * (q + 1) + plan
      BY <1>0
    <3> QED BY <1>0, <1>1, <1>2, <1>4, <3>1, <3>2
  <2> QED BY <2>1, <2>2
<1> QED BY <1>3, <1>4

\* After the end of a calendar period another begins.
LEMMA CalendarAfter ==
  ASSUME P!PayrollAssumption, NEW plan \in Plans, NEW e \in Int, NEW d \in Int,
         P!CalendarEnd(plan, e), e < d
  PROVE  P!payPeriodFor(plan, d).start > e
<1>0. plan \in Nat \ {0}
  BY PlanDays
<1>1. PICK q \in Int : /\ P!payPeriodFor(plan, d) = [start |-> plan * q + 1, end |-> plan * q + plan]
                       /\ plan * q + 1 <= d /\ d <= plan * q + plan
  BY CalendarDays
<1>2. PICK m \in Int : e = plan * m
  BY CalendarMultiple
<1>3. plan * (q + 1) = plan * q + plan /\ plan * q \in Int
  BY <1>0
<1>4. m <= q
  <2>1. ASSUME q + 1 <= m PROVE FALSE
    <3>1. plan * (q + 1) <= plan * m
      BY <1>0, <2>1, Multiples
    <3> QED BY <1>0, <1>1, <1>2, <1>3, <3>1
  <2> QED BY <2>1
<1>5. plan * m <= plan * q
  BY <1>0, <1>4, Multiples
<1> QED BY <1>1, <1>2, <1>3, <1>5

\* The latest and the earliest of two days.
LEMMA Extremes ==
  ASSUME NEW a \in Int, NEW b \in Int
  PROVE  /\ P!Max({a, b}) \in {a, b} /\ P!Max({a, b}) >= a /\ P!Max({a, b}) >= b
         /\ P!Min({a, b}) \in {a, b} /\ P!Min({a, b}) <= a /\ P!Min({a, b}) <= b
<1>1. \E x \in {a, b} : \A y \in {a, b} : x >= y
  BY a >= b \/ b >= a
<1>2. \E x \in {a, b} : \A y \in {a, b} : x <= y
  BY a >= b \/ b >= a
<1> QED BY <1>1, <1>2 DEF P!Max, P!Min

\* The plan in force is one of the plans.
LEMMA InForce ==
  ASSUME NEW s \in P!PayPlanSchedule, NEW d \in Int
  PROVE  P!payPlanOn(s, d).plan \in Plans /\ P!payPlanOn(s, d).since \in Int
BY DEF P!payPlanOn, P!Pending, P!PayPlanSchedule

(* The period of a day holds it, is of the plan in force, and ends where one of    *)
(* that plan's calendar does: a plan that waits waits for such an end.           *)
LEMMA PeriodOf ==
  ASSUME P!PayrollAssumption, NEW s \in P!PayPlanSchedule, NEW d \in Int
  PROVE  /\ P!payPeriodOn(s, d) \in [start: Int, end: Int]
         /\ P!payPeriodOn(s, d).end >= d
         /\ P!payPeriodOn(s, d).start >= P!payPlanOn(s, d).since
         /\ P!payPeriodOn(s, d).start >= P!payPeriodFor(P!payPlanOn(s, d).plan, d).start
         /\ (P!Pending(s) => P!CalendarEnd(s.plan, s.pendingFrom - 1))
              => P!CalendarEnd(P!payPlanOn(s, d).plan, P!payPeriodOn(s, d).end)
<1> DEFINE f == P!payPlanOn(s, d)
<1>0. f.plan \in Plans /\ f.since \in Int
  BY InForce
<1>1. PICK q \in Int : /\ P!payPeriodFor(f.plan, d) = [start |-> f.plan * q + 1, end |-> f.plan * q + f.plan]
                       /\ f.plan * q + 1 <= d /\ d <= f.plan * q + f.plan
  BY <1>0, CalendarDays
<1>2. f.plan * q \in Int /\ f.plan \in Nat \ {0} /\ f.plan * (q + 1) = f.plan * q + f.plan
  BY <1>0, PlanDays
<1>3. PICK a \in Int, b \in Int : a = f.plan * q + 1 /\ b = f.plan * q + f.plan
  BY <1>2
<1>4. P!payPeriodFor(f.plan, d) = [start |-> a, end |-> b] /\ a <= d /\ d <= b
  BY <1>1, <1>3
<1>5. P!CalendarEnd(f.plan, b)
  BY <1>0, <1>2, <1>3, CalendarMultiple
<1>6. P!payPeriodOn(s, d) = [start |-> P!Max({a, f.since}),
        end |-> IF P!Pending(s) /\ d < s.pendingFrom THEN P!Min({b, s.pendingFrom - 1}) ELSE b]
  BY <1>4 DEF P!payPeriodOn
<1>7. P!Max({a, f.since}) \in Int /\ P!Max({a, f.since}) >= a /\ P!Max({a, f.since}) >= f.since
  BY <1>0, Extremes
<1>8. CASE P!Pending(s) /\ d < s.pendingFrom
  <2>1. s.pendingFrom \in Int /\ f.plan = s.plan
    BY <1>8 DEF P!PayPlanSchedule, P!payPlanOn
  <2>2. P!Min({b, s.pendingFrom - 1}) \in {b, s.pendingFrom - 1}
    <3>1. PICK w \in Int : w = s.pendingFrom - 1
      BY <2>1
    <3> QED BY <3>1, Extremes
  <2>3. PICK e \in Int : e = P!Min({b, s.pendingFrom - 1}) /\ e \in {b, s.pendingFrom - 1}
    BY <2>1, <2>2
  <2>4. P!payPeriodOn(s, d) = [start |-> P!Max({a, f.since}), end |-> e]
    BY <1>6, <1>8, <2>3
  <2>5. e >= d
    BY <1>4, <1>8, <2>1, <2>3
  <2>6. (P!Pending(s) => P!CalendarEnd(s.plan, s.pendingFrom - 1)) => P!CalendarEnd(f.plan, e)
    BY <1>5, <1>8, <2>1, <2>3
  <2> HIDE DEF f
  <2> QED BY <1>4, <1>7, <2>4, <2>5, <2>6 DEF f
<1>9. CASE ~(P!Pending(s) /\ d < s.pendingFrom)
  <2>1. P!payPeriodOn(s, d) = [start |-> P!Max({a, f.since}), end |-> b]
    BY <1>6, <1>9
  <2> HIDE DEF f
  <2> QED BY <1>4, <1>5, <1>7, <2>1 DEF f
<1> QED BY <1>8, <1>9

(* A change of plan keeps what is in force today, also for the days before, and     *)
(* waits for the end of its period.                                           *)
LEMMA ChangeOf ==
  ASSUME P!PayrollAssumption, NEW s \in P!PayPlanSchedule, NEW plan \in Plans, v1 \in Int,
         NEW n, n = P!schedulePlanChange(s, plan)
  PROVE  /\ n \in P!PayPlanSchedule
         /\ \A d \in Int : d <= v1 => P!payPlanOn(n, d) = P!payPlanOn(s, v1)
         /\ P!Pending(n) => P!CalendarEnd(n.plan, n.pendingFrom - 1)
<1>1. PICK c : c = [P!rolled(s) EXCEPT !.pendingPlan = None, !.pendingFrom = 0]
  OBVIOUS
<1>2. /\ P!rolled(s) \in P!PayPlanSchedule
      /\ P!payPlanOn(s, v1) = [plan |-> P!rolled(s).plan, since |-> P!rolled(s).since]
  <2>1. CASE P!Pending(s) /\ s.pendingFrom <= v1
    <3>1. P!rolled(s) = [plan |-> s.pendingPlan, since |-> s.pendingFrom, pendingPlan |-> None, pendingFrom |-> 0]
      BY <2>1 DEF P!rolled
    <3>2. s.pendingPlan \in Plans /\ s.pendingFrom \in Int
      BY <2>1 DEF P!Pending, P!PayPlanSchedule
    <3>3. P!payPlanOn(s, v1) = [plan |-> s.pendingPlan, since |-> s.pendingFrom]
      BY <2>1, <3>2 DEF P!payPlanOn
    <3> QED BY <3>1, <3>2, <3>3 DEF P!PayPlanSchedule
  <2>2. CASE ~(P!Pending(s) /\ s.pendingFrom <= v1)
    <3>1. P!rolled(s) = s
      BY <2>2 DEF P!rolled
    <3>2. P!Pending(s) => ~(v1 >= s.pendingFrom)
      BY <2>2 DEF P!PayPlanSchedule
    <3> QED BY <3>1, <3>2 DEF P!payPlanOn
  <2> QED BY <2>1, <2>2
<1>3. /\ c \in P!PayPlanSchedule /\ c.plan = P!rolled(s).plan /\ c.since = P!rolled(s).since
      /\ c.pendingPlan = None /\ c.plan \in Plans
  <2>1. PICK k \in P!PayPlanSchedule : k = P!rolled(s)
    BY <1>2
  <2>2. c = [k EXCEPT !.pendingPlan = None, !.pendingFrom = 0]
    BY <1>1, <2>1
  <2>3. /\ k = [plan |-> k.plan, since |-> k.since, pendingPlan |-> k.pendingPlan, pendingFrom |-> k.pendingFrom]
        /\ k.plan \in Plans /\ k.since \in Int
    BY <2>1 DEF P!PayPlanSchedule
  <2>4. c = [plan |-> k.plan, since |-> k.since, pendingPlan |-> None, pendingFrom |-> 0]
    BY <2>2, <2>3
  <2>5. c \in P!PayPlanSchedule
    BY <2>3, <2>4 DEF P!PayPlanSchedule
  <2> QED BY <2>1, <2>3, <2>4, <2>5
<1>4. P!payPlanOn(s, v1) = [plan |-> c.plan, since |-> c.since]
  BY <1>2, <1>3
<1>5. CASE plan = c.plan
  <2>1. n = c
    BY <1>1, <1>5 DEF P!schedulePlanChange
  <2> QED BY <1>3, <1>4, <2>1 DEF P!payPlanOn, P!Pending
<1>6. CASE plan # c.plan
  <2>1. PICK e \in Int : e = P!payPeriodOn(c, v1).end
    BY <1>3, PeriodOf
  <2>2. n = [c EXCEPT !.pendingPlan = plan, !.pendingFrom = e + 1]
    BY <1>1, <1>6, <2>1 DEF P!schedulePlanChange
  <2>3. /\ n \in P!PayPlanSchedule /\ n.plan = c.plan /\ n.since = c.since /\ n.pendingFrom = e + 1
    <3>1. PICK w \in Int : w = e + 1
      OBVIOUS
    <3>2. n = [c EXCEPT !.pendingPlan = plan, !.pendingFrom = w]
      BY <2>2, <3>1
    <3>3. n \in P!PayPlanSchedule
      BY <1>3, <3>2 DEF P!PayPlanSchedule
    <3> QED BY <1>3, <3>1, <3>2, <3>3 DEF P!PayPlanSchedule
  <2>4. ~P!Pending(c) /\ P!payPlanOn(c, v1).plan = c.plan
    BY <1>3 DEF P!Pending, P!payPlanOn
  <2>5. e >= v1 /\ P!CalendarEnd(c.plan, e)
    BY <1>3, <2>1, <2>4, PeriodOf
  <2>6. ASSUME NEW d \in Int, d <= v1 PROVE P!payPlanOn(n, d) = [plan |-> c.plan, since |-> c.since]
    <3>1. ~(d >= n.pendingFrom)
      BY <2>3, <2>5, <2>6
    <3> QED BY <2>3, <3>1 DEF P!payPlanOn
  <2>7. n.pendingFrom - 1 = e
    BY <2>3
  <2> QED BY <1>4, <2>3, <2>5, <2>6, <2>7
<1> QED BY <1>5, <1>6


-----------------------------------------------------------------------------
(* The invariant of the pay, one kind of step at a time *)

\* A fiche, its deductions and its net being of any kind.
FicheOf(DD, NN) == [start: Int, end: Int, parcels: SUBSET Parcels, deductions: DD, net: NN,
                    status: {"A_PAYER", "PAYEE"}]

Written == \E DD, NN : v5 \in Seq(FicheOf(DD, NN))

PayKept == P!PayInv /\ Written

\* It holds first.
LEMMA PayFirst ==
  ASSUME P!PayrollAssumption, P!Init
  PROVE  PayKept
<1>1. v1 = 1 /\ v5 = <<>> /\ v6 = [q \in Couriers |-> None] /\ v2 \in P!PayPlanSchedule /\ v2.pendingPlan = None
  BY DEF P!Init, P!PayPlanSchedule
<1>2. P!UnderWay = {} /\ P!Held = {}
  BY <1>1 DEF P!UnderWay, P!Held
<1>3. P!Live = {v2} /\ P!Ended = {} /\ DOMAIN v5 = {}
  BY <1>1, <1>2 DEF P!Live, P!Ended
<1>4. v3 \in [Parcels -> P!Parcel]
  BY DEF P!Init, P!Parcel
<1>5. P!PayTypes
  BY <1>1, <1>2, <1>3, <1>4 DEF P!PayTypes, P!Days, P!PayrollAssumption
<1>6. P!ScheduleInv
  <2>1. ~P!Pending(v2)
    BY <1>1 DEF P!Pending
  <2>2. P!payPlanOn(v2, 0) = [plan |-> v2.plan, since |-> v2.since] /\ P!payPlanOn(v2, 1) = [plan |-> v2.plan, since |-> v2.since]
    BY <2>1 DEF P!payPlanOn
  <2>3. v2.since = 1
    BY DEF P!Init
  <2>4. P!Parts(v2, v1, v1 - 1)
    BY <1>1, <2>2, <2>3 DEF P!Parts
  <2> QED BY <1>3, <2>1, <2>4 DEF P!ScheduleInv
<1>7. P!CallsInv /\ P!HeldInv /\ P!PaidForDelivered /\ P!FichesInOrder
  BY <1>2, <1>3 DEF P!CallsInv, P!HeldInv, P!PaidForDelivered, P!FichesInOrder
<1>8. Written
  <2>1. v5 \in Seq(FicheOf({}, {}))
    BY <1>1
  <2> QED BY <2>1 DEF Written
<1> QED BY <1>5, <1>6, <1>7, <1>8 DEF PayKept, P!PayInv

\* What it says of the schedules, the calls and the fiches, for use below.
LEMMA PayFacts ==
  ASSUME PayKept
  PROVE  /\ v1 \in P!Days /\ v2 \in P!PayPlanSchedule /\ v2 \in P!Live
         /\ \A s \in P!Live : s \in P!PayPlanSchedule
         /\ \A q \in P!UnderWay : q \in Couriers /\ v6[q].schedule \in P!Live
         /\ \A i \in DOMAIN v5 : v5[i].end \in P!Ended /\ v5[i].end \in Int
         /\ \A e \in P!Ended : e \in Int
<1>1. P!PayTypes
  BY DEF PayKept, P!PayInv
<1>2. v2 \in P!Live
  BY DEF P!Live
<1>3. \A q \in P!Held : v6[q].period.end \in Int
  BY <1>1 DEF P!PayTypes
<1> QED BY <1>1, <1>2, <1>3 DEF P!PayTypes, P!Live, P!Ended, P!UnderWay

(* A schedule the day after: what parted its days at an end before still does, and   *)
(* its own plan, ending today, parts them there.                               *)
LEMMA DayAfter ==
  ASSUME NEW s \in P!PayPlanSchedule, NEW d \in Int
  PROVE  /\ \A e \in Int : e <= d /\ P!Parts(s, d, e) => P!Parts(s, d + 1, e)
         /\ P!CalendarEnd(P!payPlanOn(s, d).plan, d) => P!Parts(s, d + 1, d)
<1>1. CASE P!Pending(s) /\ d + 1 = s.pendingFrom
  <2>1. P!payPlanOn(s, d + 1) = [plan |-> s.pendingPlan, since |-> s.pendingFrom]
    BY <1>1 DEF P!payPlanOn
  <2>2. P!payPlanOn(s, d + 1).since = d + 1
    BY <1>1, <2>1
  <2> QED BY <2>2 DEF P!Parts
<1>2. CASE ~(P!Pending(s) /\ d + 1 = s.pendingFrom)
  <2>1. s.pendingFrom \in Int
    BY DEF P!PayPlanSchedule
  <2>2. P!payPlanOn(s, d + 1) = P!payPlanOn(s, d)
    BY <1>2, <2>1 DEF P!payPlanOn
  <2> QED BY <2>2 DEF P!Parts
<1> QED BY <1>1, <1>2

\* Midnight.
LEMMA PayNextDay ==
  ASSUME P!PayrollAssumption, PayKept, P!NextDay
  PROVE  PayKept'
<1>0. /\ v1' = v1 + 1 /\ v1' \in P!Days /\ v1 \in Int
      /\ v2' = v2 /\ v3' = v3 /\ v5' = v5 /\ v6' = v6
  BY DEF P!NextDay, P!Days, P!PayrollAssumption, PayKept, P!PayInv, P!PayTypes
<1>1. P!UnderWay' = P!UnderWay /\ P!Held' = P!Held
  BY <1>0 DEF P!UnderWay, P!Held
<1>2. P!Live' = P!Live /\ P!Ended' = P!Ended
  BY <1>0, <1>1 DEF P!Live, P!Ended
<1>3. P!PayTypes'
  BY <1>0, <1>1, <1>2 DEF PayKept, P!PayInv, P!PayTypes
<1>4. \A q \in P!UnderWay : v6[q].day = v1
  BY DEF P!NextDay, P!UnderWay
<1>5. \A s \in P!Live : P!payPlanOn(s, v1).plan = P!payPlanOn(v2, v1).plan
  BY <1>4 DEF PayKept, P!PayInv, P!CallsInv, P!Live
<1>6. P!ScheduleInv'
  <2>1. ASSUME NEW s \in P!Live PROVE P!Pending(s) => P!CalendarEnd(s.plan, s.pendingFrom - 1)
    BY DEF PayKept, P!PayInv, P!ScheduleInv
  <2>2. ASSUME NEW s \in P!Live, NEW e \in P!Ended
        PROVE  e < v1 + 1 /\ P!Parts(s, v1 + 1, e) /\ P!Parts(s, v1, e)
    <3>1. e < v1 /\ P!Parts(s, v1, e)
      BY DEF PayKept, P!PayInv, P!ScheduleInv
    <3>2. s \in P!PayPlanSchedule /\ e \in Int
      BY PayFacts
    <3> QED BY <1>0, <3>1, <3>2, DayAfter
  <2>3. ASSUME NEW s \in P!Live, NEW t \in P!Live, P!CalendarEnd(P!payPlanOn(s, v1).plan, v1)
        PROVE  P!Parts(t, v1 + 1, v1)
    <3>1. P!CalendarEnd(P!payPlanOn(t, v1).plan, v1)
      BY <1>5, <2>3
    <3>2. t \in P!PayPlanSchedule
      BY PayFacts
    <3> QED BY <1>0, <3>1, <3>2, DayAfter
  <2>4. v1' - 1 = v1
    BY <1>0
  <2> QED BY <1>0, <1>2, <2>1, <2>2, <2>3, <2>4 DEF P!ScheduleInv
<1>7. P!CallsInv'
  BY <1>0, <1>1, <1>4 DEF PayKept, P!PayInv, P!CallsInv
<1>8. P!HeldInv' /\ P!PaidForDelivered' /\ P!FichesInOrder'
  BY <1>0, <1>1 DEF PayKept, P!PayInv, P!HeldInv, P!PaidForDelivered, P!FichesInOrder
<1>9. Written'
  BY <1>0 DEF PayKept, Written
<1> QED BY <1>3, <1>6, <1>7, <1>8, <1>9 DEF PayKept, P!PayInv

(* A parcel delivered, taken back or with its cash handed in: it was on no fiche    *)
(* and on none about to be.                                                  *)
LEMMA PayDelivery ==
  ASSUME P!PayrollAssumption, PayKept, NEW p \in Parcels, NEW x \in P!Parcel,
         v3[p].day = 0 \/ v3[p].withCourier, v3' = [v3 EXCEPT ![p] = x],
         v1' = v1, v2' = v2, v5' = v5, v6' = v6
  PROVE  PayKept'
<1>1. P!UnderWay' = P!UnderWay /\ P!Held' = P!Held
  BY DEF P!UnderWay, P!Held
<1>2. P!Live' = P!Live /\ P!Ended' = P!Ended
  BY <1>1 DEF P!Live, P!Ended
<1>3. P!PayTypes /\ P!HeldInv /\ P!PaidForDelivered
  BY DEF PayKept, P!PayInv
<1>4. v3 \in [Parcels -> P!Parcel] /\ v3' \in [Parcels -> P!Parcel]
      /\ \A o \in Parcels : o # p => v3'[o] = v3[o]
  BY <1>3 DEF P!PayTypes
<1>5. P!PayTypes'
  BY <1>1, <1>2, <1>3, <1>4 DEF P!PayTypes
<1>6. P!ScheduleInv'
  BY <1>2 DEF PayKept, P!PayInv, P!ScheduleInv
<1>7. P!CallsInv'
  BY <1>1 DEF PayKept, P!PayInv, P!CallsInv
<1>8. P!HeldInv'
  <2>1. ASSUME NEW q \in P!Held, NEW o \in v6[q].parcels
        PROVE  v3'[o].day \in 1..v6[q].period.end /\ ~v3'[o].withCourier
    <3>1. o \in Parcels /\ v3[o].day \in 1..v6[q].period.end /\ ~v3[o].withCourier
      BY <1>3 DEF P!PayTypes, P!HeldInv
    <3>2. v6[q].period.end \in Int
      BY <1>3 DEF P!PayTypes
    <3>3. o # p
      BY <3>1, <3>2
    <3> QED BY <1>4, <3>1, <3>3
  <2> QED BY <1>1, <1>3, <2>1 DEF P!HeldInv
<1>9. P!PaidForDelivered'
  <2>1. ASSUME NEW i \in DOMAIN v5, NEW o \in v5[i].parcels
        PROVE  v3'[o].day \in 1..v5[i].end /\ ~v3'[o].withCourier
    <3>1. o \in Parcels /\ v3[o].day \in 1..v5[i].end /\ ~v3[o].withCourier /\ v5[i].end \in Int
      BY <1>3 DEF P!PayTypes, P!PaidForDelivered
    <3>2. o # p
      BY <3>1
    <3> QED BY <1>4, <3>1, <3>2
  <2> QED BY <1>3, <2>1 DEF P!PaidForDelivered
<1>10. P!FichesInOrder' /\ Written'
  BY DEF PayKept, P!PayInv, P!FichesInOrder, Written
<1> QED BY <1>5, <1>6, <1>7, <1>8, <1>9, <1>10 DEF PayKept, P!PayInv

\* The delivery steps.
LEMMA PayDeliveryStep ==
  ASSUME P!PayrollAssumption, PayKept, P!DeliveryStep
  PROVE  PayKept'
<1>1. v3 \in [Parcels -> P!Parcel]
  BY DEF PayKept, P!PayInv, P!PayTypes
<1>2. PICK p \in Parcels : \/ P!TakeBack(p) \/ (\E d \in P!Days : P!Deliver(p, d))
                           \/ \E shortfalls \in P!Shortfalls : P!CloseCaisse(p, shortfalls)
  BY DEF P!DeliveryStep
<1>3. CASE P!TakeBack(p)
  <2>1. [day |-> 0, withCourier |-> FALSE] \in P!Parcel
    BY DEF P!Parcel
  <2> QED BY <1>3, <2>1, PayDelivery DEF P!TakeBack
<1>4. ASSUME NEW d \in P!Days, P!Deliver(p, d) PROVE PayKept'
  <2>1. [day |-> d, withCourier |-> TRUE] \in P!Parcel
    BY DEF P!Parcel
  <2> QED BY <1>4, <2>1, PayDelivery DEF P!Deliver
<1>5. ASSUME NEW shortfalls \in P!Shortfalls, P!CloseCaisse(p, shortfalls) PROVE PayKept'
  <2>1. PICK x \in P!Parcel : x = [v3[p] EXCEPT !.withCourier = FALSE]
    BY <1>1 DEF P!Parcel
  <2>2. v3' = [v3 EXCEPT ![p] = x]
    BY <1>1, <1>5, <2>1 DEF P!CloseCaisse
  <2> QED BY <1>5, <2>2, PayDelivery DEF P!CloseCaisse
<1> QED BY <1>2, <1>3, <1>4, <1>5


\* The courier's row is read.
LEMMA PayRead ==
  ASSUME P!PayrollAssumption, PayKept, NEW q \in Couriers, v6[q] = None, NEW kind,
         v6' = [v6 EXCEPT ![q] = [op |-> kind, schedule |-> v2, held |-> FALSE, day |-> P!began]],
         v1' = v1, v2' = v2, v3' = v3, v5' = v5
  PROVE  PayKept'
<1>1. PICK b : b = P!began
  OBVIOUS
<1>2. /\ P!PayTypes /\ P!CallsInv
      /\ v6 = [r \in Couriers |-> v6[r]]
  BY DEF PayKept, P!PayInv, P!PayTypes
<1>3. /\ v6'[q].schedule = v2 /\ v6'[q].held = FALSE /\ v6'[q].day = b
      /\ \A r \in Couriers : r # q => v6'[r] = v6[r]
      /\ v6' = [r \in Couriers |-> v6'[r]]
  BY <1>1, <1>2
<1>4. P!UnderWay \subseteq P!UnderWay' /\ P!UnderWay' \subseteq P!UnderWay \cup {q} /\ q \notin P!UnderWay
  BY <1>3 DEF P!UnderWay
<1>5. P!Held' = P!Held
  BY <1>3, <1>4 DEF P!UnderWay, P!Held
<1>6. \A r \in P!UnderWay : r # q /\ r \in Couriers /\ v6'[r] = v6[r]
  BY <1>3, <1>4 DEF P!UnderWay
<1>7. \A r \in P!Held : v6'[r] = v6[r]
  BY <1>6 DEF P!Held
<1>8. P!Live' = P!Live
  BY <1>3, <1>4, <1>6 DEF P!Live
<1>9. P!Ended' = P!Ended
  BY <1>5, <1>7 DEF P!Ended
<1>10. P!PayTypes'
  BY <1>2, <1>3, <1>5, <1>7, <1>8 DEF P!PayTypes
<1>11. P!ScheduleInv'
  BY <1>8, <1>9 DEF PayKept, P!PayInv, P!ScheduleInv
<1>12. /\ b \in {v1 - 1, v1}
       /\ \A r \in P!UnderWay : v6[r].day = b
  <2>1. v1 \in Int
    BY <1>2 DEF P!PayTypes, P!Days
  <2>2. \A r \in P!UnderWay : v6[r].day \in {v1 - 1, v1}
    BY <1>2 DEF P!CallsInv
  <2>3. CASE \E r \in Couriers : v6[r] # None /\ v6[r].day < v1
    <3>1. PICK r \in P!UnderWay : v6[r].day < v1
      BY <2>3 DEF P!UnderWay
    <3>2. v6[r].day = v1 - 1
      BY <2>1, <2>2, <3>1
    <3>3. b = v1 - 1
      BY <1>1, <2>3 DEF P!began
    <3> QED BY <1>2, <3>2, <3>3 DEF P!CallsInv
  <2>4. CASE ~\E r \in Couriers : v6[r] # None /\ v6[r].day < v1
    <3>1. b = v1
      BY <1>1, <2>4 DEF P!began
    <3>2. ASSUME NEW r \in P!UnderWay PROVE v6[r].day = v1
      <4>1. ~(v6[r].day < v1)
        BY <2>4 DEF P!UnderWay
      <4> QED BY <2>1, <2>2, <4>1
    <3> QED BY <3>1, <3>2
  <2> QED BY <2>3, <2>4
<1>13. P!CallsInv'
  <2>1. ASSUME NEW r \in P!UnderWay', v6'[r].day = v1
        PROVE  P!payPlanOn(v6'[r].schedule, v1).plan = P!payPlanOn(v2, v1).plan
    BY <1>2, <1>3, <1>4, <1>6, <2>1 DEF P!CallsInv
  <2>2. \A r \in P!UnderWay' : v6'[r].day = b
    BY <1>3, <1>4, <1>6, <1>12
  <2>3. \A r, o \in P!Held : r = o
    BY <1>2 DEF P!CallsInv
  <2> QED BY <1>5, <1>12, <2>1, <2>2, <2>3 DEF P!CallsInv
<1>14. P!HeldInv'
  BY <1>5, <1>7 DEF PayKept, P!PayInv, P!HeldInv
<1>15. P!PaidForDelivered' /\ P!FichesInOrder' /\ Written'
  BY DEF PayKept, P!PayInv, P!PaidForDelivered, P!FichesInOrder, Written
<1> QED BY <1>10, <1>11, <1>13, <1>14, <1>15 DEF PayKept, P!PayInv

\* What is left of the calls when one is over.
LEMMA CallOver ==
  ASSUME PayKept, NEW q \in Couriers, v6' = [v6 EXCEPT ![q] = None]
  PROVE  /\ P!UnderWay' \subseteq P!UnderWay /\ P!Held' \subseteq P!Held
         /\ q \notin P!UnderWay' /\ q \notin P!Held'
         /\ \A r \in P!UnderWay' : r \in Couriers /\ v6'[r] = v6[r]
         /\ \A r \in P!Held' : v6'[r] = v6[r]
         /\ v6' = [r \in Couriers |-> v6'[r]]
<1>1. v6 = [r \in Couriers |-> v6[r]]
  BY DEF PayKept, P!PayInv, P!PayTypes
<1>2. /\ \A r \in Couriers : r # q => v6'[r] = v6[r]
      /\ v6'[q] = None /\ v6' = [r \in Couriers |-> v6'[r]]
  BY <1>1
<1> QED BY <1>2 DEF P!UnderWay, P!Held

\* No fiche is due.
LEMMA PayNotDue ==
  ASSUME P!PayrollAssumption, PayKept, NEW q \in Couriers, v6' = [v6 EXCEPT ![q] = None],
         v1' = v1, v2' = v2, v3' = v3, v5' = v5
  PROVE  PayKept'
<1>1. /\ P!UnderWay' \subseteq P!UnderWay /\ P!Held' \subseteq P!Held
      /\ \A r \in P!UnderWay' : r \in Couriers /\ v6'[r] = v6[r]
      /\ \A r \in P!Held' : v6'[r] = v6[r]
      /\ v6' = [r \in Couriers |-> v6'[r]]
  BY CallOver
<1>2. P!Live' \subseteq P!Live /\ v2 \in P!Live'
  BY <1>1 DEF P!Live
<1>3. P!Ended' \subseteq P!Ended
  BY <1>1 DEF P!Ended
<1>4. P!PayTypes'
  BY <1>1, <1>2 DEF PayKept, P!PayInv, P!PayTypes
<1>5. P!ScheduleInv'
  BY <1>2, <1>3 DEF PayKept, P!PayInv, P!ScheduleInv
<1>6. P!CallsInv'
  BY <1>1 DEF PayKept, P!PayInv, P!CallsInv
<1>7. P!HeldInv'
  BY <1>1 DEF PayKept, P!PayInv, P!HeldInv
<1>8. P!PaidForDelivered' /\ P!FichesInOrder' /\ Written'
  BY DEF PayKept, P!PayInv, P!PaidForDelivered, P!FichesInOrder, Written
<1> QED BY <1>4, <1>5, <1>6, <1>7, <1>8 DEF PayKept, P!PayInv

(* A fiche is due: its period ended yesterday, where one of every schedule acted on   *)
(* does, and begins after what the earlier fiches paid.                          *)
LEMMA PayDue ==
  ASSUME P!PayrollAssumption, PayKept, NEW q \in Couriers, v6[q] # None, ~P!Holding,
         NEW period, period = P!duePayPeriod(v6[q].schedule),
         NEW parcels, parcels = P!unpaid(period.end), P!isPayslipDue(period, parcels), NEW debts,
         v6' = [v6 EXCEPT ![q] = [op |-> "PREPARE", schedule |-> v6[q].schedule, held |-> TRUE,
                  day |-> v6[q].day, period |-> period, parcels |-> parcels, debts |-> debts]],
         v1' = v1, v2' = v2, v3' = v3, v5' = v5
  PROVE  PayKept'
<1>0. PICK s, b : s = v6[q].schedule /\ b = v6[q].day
  OBVIOUS
<1>1. /\ P!PayTypes /\ P!CallsInv /\ P!ScheduleInv /\ v1 \in Int
      /\ v6 = [r \in Couriers |-> v6[r]] /\ v3 \in [Parcels -> P!Parcel]
  BY DEF PayKept, P!PayInv, P!PayTypes, P!Days
<1>2. /\ v6'[q].schedule = s /\ v6'[q].held = TRUE /\ v6'[q].day = b
      /\ v6'[q].period = period /\ v6'[q].parcels = parcels
      /\ \A r \in Couriers : r # q => v6'[r] = v6[r]
      /\ v6' = [r \in Couriers |-> v6'[r]]
  BY <1>0, <1>1
<1>3. P!Held = {} /\ q \in P!UnderWay
  BY DEF P!Holding, P!Held, P!UnderWay
<1>4. P!UnderWay' \subseteq P!UnderWay /\ P!Held' \subseteq {q}
  BY <1>2, <1>3 DEF P!Held, P!UnderWay
<1>5. P!Live' \subseteq P!Live /\ v2 \in P!Live' /\ s \in P!Live
  <2>1. \A r \in P!UnderWay : v6'[r].schedule = v6[r].schedule
    BY <1>0, <1>2 DEF P!UnderWay
  <2> QED BY <1>0, <1>3, <1>4, <2>1 DEF P!Live
<1>6. s \in P!PayPlanSchedule /\ (P!Pending(s) => P!CalendarEnd(s.plan, s.pendingFrom - 1))
  BY <1>1, <1>5, PayFacts DEF P!ScheduleInv
<1>7. PICK d \in Int : d = v1 - 1
  BY <1>1
<1>8. /\ period \in [start: Int, end: Int] /\ period.end >= d
      /\ period.start >= P!payPlanOn(s, d).since
      /\ period.start >= P!payPeriodFor(P!payPlanOn(s, d).plan, d).start
      /\ P!CalendarEnd(P!payPlanOn(s, d).plan, period.end)
  BY <1>0, <1>6, <1>7, PeriodOf DEF P!duePayPeriod
<1>9. period.end = d
  BY <1>1, <1>7, <1>8 DEF P!isPayslipDue
<1>10. P!Ended' \subseteq P!Ended \cup {d}
  BY <1>2, <1>4, <1>9 DEF P!Ended
<1>11. parcels \in SUBSET Parcels
  BY DEF P!unpaid
<1>12. P!PayTypes'
  BY <1>1, <1>2, <1>4, <1>5, <1>8, <1>11 DEF P!PayTypes
<1>13. P!ScheduleInv'
  <2>1. ASSUME NEW t \in P!Live', NEW e \in P!Ended'
        PROVE  e < v1 /\ P!Parts(t, v1, e) /\ (e < d => P!Parts(t, d, e))
    <3>1. CASE e \in P!Ended
      BY <1>1, <1>5, <1>7, <3>1 DEF P!ScheduleInv
    <3>2. CASE e = d
      BY <1>1, <1>5, <1>7, <1>8, <1>9, <3>2 DEF P!ScheduleInv
    <3> QED BY <1>10, <3>1, <3>2
  <2> QED BY <1>1, <1>5, <1>7, <2>1 DEF P!ScheduleInv
<1>14. P!CallsInv'
  <2>1. \A r \in P!UnderWay : v6'[r].schedule = v6[r].schedule /\ v6'[r].day = v6[r].day
    BY <1>0, <1>2 DEF P!UnderWay
  <2> QED BY <1>1, <1>4, <2>1 DEF P!CallsInv
<1>15. P!HeldInv'
  <2>1. ASSUME NEW p \in parcels PROVE v3[p].day \in 1..period.end /\ ~v3[p].withCourier
    BY <2>1 DEF P!unpaid, P!isPayslipDue
  <2>2. ASSUME NEW i \in DOMAIN v5 PROVE v5[i].end < period.start
    <3>1. PICK e \in Int : e = v5[i].end /\ e \in P!Ended
      BY PayFacts
    <3>2. e < d
      BY <1>9, <3>1 DEF P!isPayslipDue
    <3>3. P!Parts(s, d, e)
      BY <1>1, <1>5, <1>7, <3>1, <3>2 DEF P!ScheduleInv
    <3>4. P!payPlanOn(s, d).plan \in Plans /\ P!payPlanOn(s, d).since \in Int
      BY <1>6, InForce
    <3>5. CASE P!payPlanOn(s, d).since > e
      BY <1>8, <3>1, <3>4, <3>5
    <3>6. CASE P!CalendarEnd(P!payPlanOn(s, d).plan, e)
      <4>1. PICK plan \in Plans : plan = P!payPlanOn(s, d).plan
        BY <3>4
      <4>2. P!payPeriodFor(plan, d).start > e
        BY <3>2, <3>6, <4>1, CalendarAfter
      <4>3. P!payPeriodFor(plan, d).start \in Int
        <5>1. PICK m \in Int : P!payPeriodFor(plan, d) = [start |-> plan * m + 1, end |-> plan * m + plan]
          BY CalendarDays
        <5>2. plan * m \in Int
          BY PlanDays
        <5> QED BY <5>1, <5>2
      <4> QED BY <1>8, <3>1, <4>1, <4>2, <4>3
    <3> QED BY <3>3, <3>5, <3>6 DEF P!Parts
  <2> QED BY <1>2, <1>4, <2>1, <2>2 DEF P!HeldInv
<1>16. P!PaidForDelivered' /\ P!FichesInOrder' /\ Written'
  BY DEF PayKept, P!PayInv, P!PaidForDelivered, P!FichesInOrder, Written
<1> QED BY <1>12, <1>13, <1>14, <1>15, <1>16 DEF PayKept, P!PayInv


(* A fiche is written: what it holds is still as it was read, and its period comes   *)
(* after every other's.                                                      *)
LEMMA PayWrite ==
  ASSUME P!PayrollAssumption, PayKept, NEW q \in Couriers, v6[q] # None, v6[q].held,
         \A p \in v6[q].parcels : ~P!OnFiche(p), NEW taken, NEW net,
         v5' = Append(v5, [start |-> v6[q].period.start, end |-> v6[q].period.end,
                 parcels |-> v6[q].parcels, deductions |-> taken, net |-> net, status |-> "A_PAYER"]),
         v6' = [v6 EXCEPT ![q] = None], v1' = v1, v2' = v2, v3' = v3
  PROVE  PayKept'
<1>1. /\ P!UnderWay' \subseteq P!UnderWay /\ P!Held' \subseteq P!Held
      /\ q \notin P!Held'
      /\ \A r \in P!UnderWay' : r \in Couriers /\ v6'[r] = v6[r]
      /\ v6' = [r \in Couriers |-> v6'[r]]
  BY CallOver
<1>2. /\ P!PayTypes /\ P!CallsInv /\ P!HeldInv /\ P!PaidForDelivered /\ P!FichesInOrder
      /\ q \in P!Held
  BY DEF PayKept, P!PayInv, P!Held, P!UnderWay
<1>3. P!Held' = {}
  BY <1>1, <1>2 DEF P!CallsInv
<1>4. PICK a \in Int, b \in Int, ps \in SUBSET Parcels :
        v6[q].period.start = a /\ v6[q].period.end = b /\ v6[q].parcels = ps
  BY <1>2 DEF P!PayTypes
<1>5. PICK DD, NN : v5 \in Seq(FicheOf(DD, NN))
  BY DEF PayKept, Written
<1>6. PICK x : x = [start |-> a, end |-> b, parcels |-> ps, deductions |-> taken, net |-> net, status |-> "A_PAYER"]
  OBVIOUS
<1>7. v5' = Append(v5, x) /\ x.start = a /\ x.end = b /\ x.parcels = ps
  BY <1>4, <1>6
<1>8. /\ DOMAIN v5' = DOMAIN v5 \cup {Len(v5) + 1} /\ Len(v5) + 1 \notin DOMAIN v5
      /\ v5'[Len(v5) + 1] = x /\ \A i \in DOMAIN v5 : v5'[i] = v5[i]
      /\ \A i \in DOMAIN v5 : i \in Int /\ i < Len(v5) + 1 /\ Len(v5) \in Int
  BY <1>5, <1>7
<1>9. v5' \in Seq(FicheOf(DD \cup {taken}, NN \cup {net}))
  <2>1. x \in FicheOf(DD \cup {taken}, NN \cup {net})
    BY <1>6 DEF FicheOf
  <2>2. FicheOf(DD, NN) \subseteq FicheOf(DD \cup {taken}, NN \cup {net})
    BY DEF FicheOf
  <2>3. v5 \in Seq(FicheOf(DD \cup {taken}, NN \cup {net}))
    <3>1. ASSUME NEW S, NEW T, NEW f \in Seq(S), S \subseteq T PROVE f \in Seq(T)
      BY <3>1
    <3> QED BY <1>5, <2>2, <3>1
  <2> QED BY <1>7, <2>1, <2>3
<1>10. Written'
  BY <1>9 DEF Written
<1>11. P!Live' \subseteq P!Live
  BY <1>1 DEF P!Live
<1>12. P!Ended' \subseteq P!Ended
  BY <1>2, <1>3, <1>4, <1>7, <1>8 DEF P!Ended
<1>13. P!PayTypes'
  BY <1>1, <1>2, <1>3, <1>7, <1>8, <1>11 DEF P!PayTypes
<1>14. P!ScheduleInv'
  BY <1>11, <1>12 DEF PayKept, P!PayInv, P!ScheduleInv
<1>15. P!CallsInv' /\ P!HeldInv'
  BY <1>1, <1>2, <1>3 DEF P!CallsInv, P!HeldInv
<1>16. P!PaidForDelivered'
  <2>1. ASSUME NEW p \in ps PROVE v3[p].day \in 1..b /\ ~v3[p].withCourier /\ \A i \in DOMAIN v5 : p \notin v5[i].parcels
    BY <1>2, <1>4, <2>1 DEF P!HeldInv, P!OnFiche
  <2>2. ASSUME NEW i \in DOMAIN v5', NEW p \in v5'[i].parcels
        PROVE  /\ v3[p].day \in 1..v5'[i].end /\ ~v3[p].withCourier
               /\ \A j \in DOMAIN v5' : p \in v5'[j].parcels => j = i
    <3>1. CASE i \in DOMAIN v5
      BY <1>2, <1>7, <1>8, <2>1, <2>2, <3>1 DEF P!PaidForDelivered
    <3>2. CASE i = Len(v5) + 1
      BY <1>7, <1>8, <2>1, <2>2, <3>2
    <3> QED BY <1>8, <3>1, <3>2
  <2> QED BY <2>2 DEF P!PaidForDelivered
<1>17. P!FichesInOrder'
  <2>1. \A i \in DOMAIN v5 : v5[i].end < a
    BY <1>2, <1>4 DEF P!HeldInv
  <2>2. ASSUME NEW i \in DOMAIN v5', NEW j \in DOMAIN v5', i < j PROVE v5'[i].end < v5'[j].start
    <3>1. i \in DOMAIN v5
      BY <1>8, <2>2
    <3>2. CASE j \in DOMAIN v5
      BY <1>2, <1>8, <2>2, <3>1, <3>2 DEF P!FichesInOrder
    <3>3. CASE j = Len(v5) + 1
      BY <1>7, <1>8, <2>1, <3>1, <3>3
    <3> QED BY <1>8, <3>2, <3>3
  <2> QED BY <2>2 DEF P!FichesInOrder
<1> QED BY <1>10, <1>13, <1>14, <1>15, <1>16, <1>17 DEF PayKept, P!PayInv

\* A fiche is paid.
LEMMA PayPaid ==
  ASSUME P!PayrollAssumption, PayKept, NEW i \in DOMAIN v5, P!MarkPaid(i)
  PROVE  PayKept'
<1>0. v1' = v1 /\ v2' = v2 /\ v3' = v3 /\ v6' = v6 /\ v5' = [v5 EXCEPT ![i].status = "PAYEE"]
  BY DEF P!MarkPaid
<1>1. PICK DD, NN : v5 \in Seq(FicheOf(DD, NN))
  BY DEF PayKept, Written
<1>2. PICK x \in FicheOf(DD, NN) : x = v5[i]
  BY <1>1
<1>3. PICK y : y = [x EXCEPT !.status = "PAYEE"]
  OBVIOUS
<1>4. y \in FicheOf(DD, NN) /\ y.start = x.start /\ y.end = x.end /\ y.parcels = x.parcels
  BY <1>3 DEF FicheOf
<1>5. v5' = [v5 EXCEPT ![i] = y]
  BY <1>0, <1>2, <1>3
<1>6. /\ DOMAIN v5' = DOMAIN v5 /\ v5' \in Seq(FicheOf(DD, NN))
      /\ \A j \in DOMAIN v5 : v5'[j].start = v5[j].start /\ v5'[j].end = v5[j].end /\ v5'[j].parcels = v5[j].parcels
  BY <1>1, <1>2, <1>4, <1>5
<1>7. P!UnderWay' = P!UnderWay /\ P!Held' = P!Held
  BY <1>0 DEF P!UnderWay, P!Held
<1>8. P!Live' = P!Live
  BY <1>0, <1>7 DEF P!Live
<1>9. P!Ended' = P!Ended
  BY <1>0, <1>6, <1>7 DEF P!Ended
<1>10. P!PayTypes'
  BY <1>0, <1>6, <1>7, <1>8 DEF PayKept, P!PayInv, P!PayTypes
<1>11. P!ScheduleInv'
  BY <1>0, <1>8, <1>9 DEF PayKept, P!PayInv, P!ScheduleInv
<1>12. P!CallsInv'
  BY <1>0, <1>7 DEF PayKept, P!PayInv, P!CallsInv
<1>13. P!HeldInv'
  BY <1>0, <1>6, <1>7 DEF PayKept, P!PayInv, P!HeldInv
<1>14. P!PaidForDelivered'
  BY <1>0, <1>6 DEF PayKept, P!PayInv, P!PaidForDelivered
<1>15. P!FichesInOrder'
  BY <1>6 DEF PayKept, P!PayInv, P!FichesInOrder
<1>16. Written'
  BY <1>6 DEF Written
<1> QED BY <1>10, <1>11, <1>12, <1>13, <1>14, <1>15, <1>16 DEF PayKept, P!PayInv

(* The plan is changed, by a call that read the row earlier: today is as it read      *)
(* it, and no fiche is about to be written.                                     *)
LEMMA PayChange ==
  ASSUME P!PayrollAssumption, PayKept, NEW q \in Couriers, NEW plan \in Plans, P!WriteSchedule(q, plan)
  PROVE  PayKept'
<1>0. PICK s : s = v6[q].schedule
  OBVIOUS
<1>1. /\ P!PayTypes /\ P!CallsInv /\ P!ScheduleInv /\ v1 \in Int
      /\ v2' = P!schedulePlanChange(s, plan) /\ v6' = [v6 EXCEPT ![q] = None]
      /\ v1' = v1 /\ v3' = v3 /\ v5' = v5
      /\ q \in P!UnderWay /\ P!Held = {}
  BY <1>0 DEF PayKept, P!PayInv, P!WriteSchedule, P!UnderWay, P!Held, P!Holding, P!PayTypes, P!Days
<1>2. /\ P!UnderWay' \subseteq P!UnderWay /\ P!Held' = {}
      /\ \A r \in P!UnderWay' : r \in Couriers /\ v6'[r] = v6[r]
      /\ v6' = [r \in Couriers |-> v6'[r]]
  BY <1>1, CallOver
<1>3. PICK n : n = v2'
  OBVIOUS
<1>4. s \in P!Live /\ s \in P!PayPlanSchedule /\ \A t \in P!Live : t \in P!PayPlanSchedule
  BY <1>0, <1>1, PayFacts DEF P!Live
<1>5. /\ n \in P!PayPlanSchedule
      /\ P!payPlanOn(n, v1) = P!payPlanOn(s, v1) /\ P!payPlanOn(n, v1 - 1) = P!payPlanOn(s, v1)
      /\ P!Pending(n) => P!CalendarEnd(n.plan, n.pendingFrom - 1)
  <2>1. v1 - 1 \in Int /\ v1 - 1 <= v1
    BY <1>1
  <2> QED BY <1>1, <1>3, <1>4, <2>1, ChangeOf
<1>6. P!Live' \subseteq P!Live \cup {n} /\ n \in P!Live'
  BY <1>2, <1>3 DEF P!Live
<1>7. P!Ended' = P!Ended
  BY <1>1, <1>2 DEF P!Ended
<1>8. P!PayTypes'
  BY <1>1, <1>2, <1>4, <1>5, <1>6 DEF P!PayTypes
<1>9. \A e \in Int : P!Parts(n, v1, e) = P!Parts(s, v1, e) /\ P!Parts(n, v1 - 1, e) = P!Parts(s, v1, e)
  BY <1>5 DEF P!Parts
<1>10. P!ScheduleInv'
  <2>1. ASSUME NEW t \in P!Live' PROVE P!Pending(t) => P!CalendarEnd(t.plan, t.pendingFrom - 1)
    BY <1>1, <1>5, <1>6 DEF P!ScheduleInv
  <2>2. ASSUME NEW t \in P!Live', NEW e \in P!Ended
        PROVE  e < v1 /\ P!Parts(t, v1, e) /\ (e < v1 - 1 => P!Parts(t, v1 - 1, e))
    <3>1. CASE t \in P!Live
      BY <1>1, <3>1 DEF P!ScheduleInv
    <3>2. CASE t = n
      <4>1. e \in Int
        BY PayFacts
      <4>2. e < v1 /\ P!Parts(s, v1, e)
        BY <1>1, <1>4 DEF P!ScheduleInv
      <4> QED BY <1>9, <3>2, <4>1, <4>2
    <3> QED BY <1>6, <3>1, <3>2
  <2>3. ASSUME NEW u \in P!Live, NEW t \in P!Live', P!CalendarEnd(P!payPlanOn(u, v1 - 1).plan, v1 - 1)
        PROVE  P!Parts(t, v1, v1 - 1)
    <3>1. CASE t \in P!Live
      BY <1>1, <2>3, <3>1 DEF P!ScheduleInv
    <3>2. CASE t = n
      <4>1. P!Parts(s, v1, v1 - 1) /\ v1 - 1 \in Int
        BY <1>1, <1>4, <2>3 DEF P!ScheduleInv
      <4> QED BY <1>9, <3>2, <4>1
    <3> QED BY <1>6, <3>1, <3>2
  <2>4. ASSUME NEW t \in P!Live', P!CalendarEnd(P!payPlanOn(n, v1 - 1).plan, v1 - 1)
        PROVE  P!Parts(t, v1, v1 - 1)
    <3>1. P!CalendarEnd(P!payPlanOn(s, v1 - 1).plan, v1 - 1)
      <4>1. CASE P!Pending(s) /\ s.pendingFrom = v1
        <5>1. P!CalendarEnd(s.plan, v1 - 1)
          BY <1>1, <1>4, <4>1 DEF P!ScheduleInv
        <5>2. P!payPlanOn(s, v1 - 1).plan = s.plan
          BY <1>1, <4>1 DEF P!payPlanOn
        <5> QED BY <5>1, <5>2
      <4>2. CASE ~(P!Pending(s) /\ s.pendingFrom = v1)
        <5>1. s.pendingFrom \in Int
          BY <1>4 DEF P!PayPlanSchedule
        <5>2. P!payPlanOn(s, v1 - 1) = P!payPlanOn(s, v1)
          BY <1>1, <4>2, <5>1 DEF P!payPlanOn
        <5> QED BY <1>5, <2>4, <5>2
      <4> QED BY <4>1, <4>2
    <3> QED BY <1>4, <2>3, <3>1
  <2> QED BY <1>1, <1>6, <1>7, <2>1, <2>2, <2>3, <2>4 DEF P!ScheduleInv
<1>11. P!CallsInv'
  <2>1. ASSUME NEW r \in P!UnderWay', v6[r].day = v1
        PROVE  P!payPlanOn(v6[r].schedule, v1).plan = P!payPlanOn(n, v1).plan
    <3>1. r \in P!UnderWay /\ v6[q].day = v1
      BY <1>1, <1>2, <2>1 DEF P!CallsInv
    <3>2. /\ P!payPlanOn(v6[r].schedule, v1).plan = P!payPlanOn(v2, v1).plan
          /\ P!payPlanOn(v6[q].schedule, v1).plan = P!payPlanOn(v2, v1).plan
      BY <1>1, <2>1, <3>1 DEF P!CallsInv
    <3> QED BY <1>0, <1>5, <3>2
  <2> QED BY <1>1, <1>2, <1>3, <2>1 DEF P!CallsInv
<1>12. P!HeldInv' /\ P!PaidForDelivered' /\ P!FichesInOrder' /\ Written'
  BY <1>1, <1>2 DEF PayKept, P!PayInv, P!HeldInv, P!PaidForDelivered, P!FichesInOrder, Written
<1> QED BY <1>8, <1>10, <1>11, <1>12 DEF PayKept, P!PayInv

\* Nothing the invariant speaks of changes: a debt is cancelled.
LEMMA PaySame ==
  ASSUME PayKept, v1' = v1, v2' = v2, v3' = v3, v5' = v5, v6' = v6
  PROVE  PayKept'
<1>1. P!UnderWay' = P!UnderWay /\ P!Held' = P!Held
  BY DEF P!UnderWay, P!Held
<1>2. P!Live' = P!Live /\ P!Ended' = P!Ended
  BY <1>1 DEF P!Live, P!Ended
<1>3. P!PayTypes' /\ P!ScheduleInv' /\ P!CallsInv' /\ P!HeldInv'
  BY <1>1, <1>2 DEF PayKept, P!PayInv, P!PayTypes, P!ScheduleInv, P!CallsInv, P!HeldInv
<1>4. P!PaidForDelivered' /\ P!FichesInOrder' /\ Written'
  BY DEF PayKept, P!PayInv, P!PaidForDelivered, P!FichesInOrder, Written
<1> QED BY <1>3, <1>4 DEF PayKept, P!PayInv

\* The steps of the pay.
LEMMA PayNext ==
  ASSUME P!PayrollAssumption, PayKept, P!Next
  PROVE  PayKept'
<1>1. CASE P!NextDay
  BY <1>1, PayNextDay
<1>2. CASE P!DeliveryStep
  BY <1>2, PayDeliveryStep
<1>3. ASSUME NEW q \in Couriers, P!ReadCourier(q) PROVE PayKept'
  BY <1>3, PayRead DEF P!ReadCourier
<1>4. ASSUME NEW q \in Couriers, P!ReadSchedule(q) PROVE PayKept'
  BY <1>4, PayRead DEF P!ReadSchedule
<1>5. ASSUME NEW q \in Couriers, P!ReadFiche(q) PROVE PayKept'
  <2>1. PICK period : period = P!duePayPeriod(v6[q].schedule)
    OBVIOUS
  <2>2. PICK parcels : parcels = P!unpaid(period.end)
    OBVIOUS
  <2>3. /\ v6[q] # None /\ ~P!Holding /\ v1' = v1 /\ v2' = v2 /\ v3' = v3 /\ v5' = v5
        /\ \/ /\ P!isPayslipDue(period, parcels)
              /\ v6' = [v6 EXCEPT ![q] = [op |-> "PREPARE", schedule |-> v6[q].schedule, held |-> TRUE,
                   day |-> v6[q].day, period |-> period, parcels |-> parcels, debts |-> P!openDebts]]
           \/ v6' = [v6 EXCEPT ![q] = None]
    BY <1>5, <2>1, <2>2 DEF P!ReadFiche
  <2> QED BY <2>1, <2>2, <2>3, PayDue, PayNotDue
<1>6. ASSUME NEW q \in Couriers, P!WriteFiche(q) PROVE PayKept'
  BY <1>6, PayWrite DEF P!WriteFiche
<1>7. ASSUME NEW q \in Couriers, NEW plan \in Plans, P!WriteSchedule(q, plan) PROVE PayKept'
  BY <1>7, PayChange
<1>8. ASSUME NEW i \in DOMAIN v5, P!MarkPaid(i) PROVE PayKept'
  BY <1>8, PayPaid
<1>9. ASSUME NEW i, P!CancelDebt(i) PROVE PayKept'
  BY <1>9, PaySame DEF P!CancelDebt
<1> QED BY <1>1, <1>2, <1>3, <1>4, <1>5, <1>6, <1>7, <1>8, <1>9 DEF P!Next, P!PayStep


-----------------------------------------------------------------------------
(* The pay of the money run *)

\* The pay's invariant, while it is what moves.
PayRuns == moving = "Payroll" => PayKept

(* Whatever component moves, it alone moves; and when it is the pay, it keeps its     *)
(* invariant.                                                                *)
THEOREM AlwaysPayRuns == Spec => []PayRuns
<1>1. Init => PayRuns
  BY MoneyAssumption, PayFirst DEF Init, PayRuns
<1>2. PayRuns /\ [Next]_vars => PayRuns'
  <2> SUFFICES ASSUME PayRuns, [Next]_vars, moving' = "Payroll"
               PROVE  PayKept'
    BY DEF PayRuns
  <2>1. /\ moving = "Payroll"
        /\ P!Next \/ UNCHANGED <<v1, v2, v3, v4, v5, v6, v7>>
    BY DEF Next, vars
  <2>2. PayKept
    BY <2>1 DEF PayRuns
  <2> QED BY <2>1, <2>2, MoneyAssumption, PayNext, PaySame
<1> QED BY <1>1, <1>2, PTL DEF Spec

(* The money run's pay: whatever plans are changed and changed again, deliveries     *)
(* undone or synced late while fiches are prepared, the fiches follow each other     *)
(* and what they pay is delivered for good, once.                              *)
THEOREM MoneyIsPaidOnce == Spec => []PaidOnce
<1>1. PayRuns => PaidOnce
  BY DEF PayRuns, PaidOnce, PayKept, P!PayInv
<1> QED BY <1>1, AlwaysPayRuns, PTL
=============================================================================
