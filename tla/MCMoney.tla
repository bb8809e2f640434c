-------------------------------- MODULE MCMoney --------------------------------
(***************************************************************************)
(* The caisses, the bons, the pay and the money rules on small instances, one  *)
(* component to a behaviour: the initial state picks which one moves, and that *)
(* one alone gives the variables v1, v2 ... their meaning.  Each component's    *)
(* module says what it makes of the others' steps.                           *)
(***************************************************************************)
EXTENDS Integers, Sequences, FiniteSets, TLC

CONSTANTS Parcels, Returns, Articles, Couriers, Bons, Charges, Single, None

\* Of the pay, a plan being named by the days of its period.
CONSTANTS Plans, LastDay, Rate, Amounts, MaxDebts, MaxChanges

VARIABLES moving, v1, v2, v3, v4, v5, v6, v7, v8, v9, v10, v11

C == INSTANCE Caisse WITH
  Livreurs <- Couriers, LastDay <- 2, MaxScans <- 2, MaxBusy <- 2, MaxCounts <- 2, Amounts <- {1},
  parcel <- v1, livres <- v2, session <- v3, work <- v4, counts <- v5

V == INSTANCE BonVersement WITH
  Ramasseurs <- Couriers, LastDay <- 2, MaxCorrections <- 2, MaxTrips <- 2, Surpluses <- {1},
  today <- v1, bon <- v2, paid <- v3, charge <- v4, session <- v5, preparing <- v6,
  closing <- v7, corrections <- v8, trips <- v9

R == INSTANCE BonRetour WITH
  Parcels <- Returns, Ramasseurs <- Couriers, LastDay <- 2, MaxTrips <- 2, MaxCorrections <- 1,
  today <- v1, place <- v2, bon <- v3, line <- v4, fresh <- v5, session <- v6, preparing <- v7,
  receiving <- v8, closing <- v9, trips <- v10, corrections <- v11

P == INSTANCE Payroll WITH
  Length <- [plan \in Plans |-> plan], Requests <- Couriers,
  today <- v1, schedule <- v2, parcel <- v3, debt <- v4, fiche <- v5, request <- v6,
  changes <- v7

F == INSTANCE Fees WITH
  Amounts <- {1, 17, 50, 133}, Rates <- {0, 300, 1500}, MaxRows <- 3, MaxPeriod <- 3,
  pay <- v1, owed <- v2, certificates <- v3, month <- v4

(* The figures of one parcel over four days, as many as a scan takes to come more   *)
(* than two days late, and those of two parcels and two bons on one day.        *)
G == INSTANCE Figures WITH
  Parcels <- Single, Livreurs <- Couriers, MaxAttempts <- 1, MaxClientChanges <- 0,
  LastDay <- 4, MaxEvents <- 3, MaxBons <- 0,
  today <- v1, parcel <- v2, log <- v3, charges <- v4, bon <- v5, last <- v6, undone <- v7

B == INSTANCE Figures WITH
  Livreurs <- Single, MaxAttempts <- 1, MaxClientChanges <- 0,
  LastDay <- 1, MaxEvents <- 4, MaxBons <- 2,
  today <- v1, parcel <- v2, log <- v3, charges <- v4, bon <- v5, last <- v6, undone <- v7

ASSUME MoneyAssumption ==
  /\ C!CaisseAssumption /\ V!BonAssumption /\ R!BonRetourAssumption
  /\ P!PayrollAssumption /\ F!FeesAssumption
  /\ G!FiguresAssumption /\ B!FiguresAssumption

vars == <<moving, v1, v2, v3, v4, v5, v6, v7, v8, v9, v10, v11>>

\* The variables a component does not use.
From10 == v10 = None /\ v11 = None
From8  == v8 = None /\ v9 = None /\ From10
From6  == v6 = None /\ v7 = None /\ From8

Init ==
  \/ moving = "Caisse" /\ C!Init /\ From6
  \/ moving = "BonVersement" /\ V!Init /\ From10
  \/ moving = "BonRetour" /\ R!Init
  \/ moving = "Payroll" /\ P!Init /\ From8
  \/ moving = "Fees" /\ F!Init /\ v5 = None /\ From6
  \/ moving = "Days" /\ G!Init /\ From8
  \/ moving = "Paid" /\ B!Init /\ From8

Next ==
  \/ moving = "Caisse" /\ C!Next /\ UNCHANGED <<moving, v6, v7, v8, v9, v10, v11>>
  \/ moving = "BonVersement" /\ V!Next /\ UNCHANGED <<moving, v10, v11>>
  \/ moving = "BonRetour" /\ R!Next /\ UNCHANGED moving
  \/ moving = "Payroll" /\ P!Next /\ UNCHANGED <<moving, v8, v9, v10, v11>>
  \/ moving = "Fees" /\ F!Next /\ UNCHANGED <<moving, v5, v6, v7, v8, v9, v10, v11>>
  \/ moving = "Days" /\ G!Next /\ UNCHANGED <<moving, v8, v9, v10, v11>>
  \/ moving = "Paid" /\ B!Next /\ UNCHANGED <<moving, v8, v9, v10, v11>>

Spec == Init /\ [][Next]_vars

-----------------------------------------------------------------------------
\* Each component's variables keep their types.
TypeOK ==
  CASE moving = "Caisse" -> C!TypeOK
    [] moving = "BonVersement" -> V!TypeOK
    [] moving = "BonRetour" -> R!TypeOK
    [] moving = "Payroll" -> P!TypeOK
    [] moving = "Fees" -> F!TypeOK
    [] moving = "Days" -> G!TypeOK
    [] moving = "Paid" -> B!TypeOK

\* The components' properties, as their modules state them.
CashAtDepotWasCounted   == moving = "Caisse" => C!CashAtDepotWasCounted
NoCashForgotten         == moving = "Caisse" => C!NoCashForgotten
PaidUnderOneCertificate == moving = "BonVersement" => V!PaidUnderOneCertificate

(* A bon carried is expected by an open caisse of its ramasseur, and a closed      *)
(* caisse has every bon it took out handed over or brought back.             *)
BonsFollowTheirCaisse ==
  moving = "BonVersement" => V!CarriedCashIsExpected /\ V!ClosedCaisseIsSettled

(* A return is where its line says it is, and given back on one line only.        *)
ReturnsFollowTheirBon ==
  moving = "BonRetour" => R!ReturnFollowsItsBon /\ R!ReceivedOnOneLine

(* A surplus explained by charges of one bon, a charge deducted by a bon that     *)
(* stands, each once.                                                        *)
ChargesFollowTheirBon ==
  moving = "BonVersement" => V!SurplusExplainedOnce /\ V!DeductedByStandingBon

(* Each parcel paid on one fiche, and no day in two fiches. *)
PaidOnce == moving = "Payroll" => P!PaidForDelivered /\ P!FichesInOrder

(* A bon, a fiche and a retenue state add up to the millime, a debt is deducted    *)
(* once over all the fiches, and the pages that count the same parcels and the    *)
(* same cash agree.                                                         *)
AmountsAddUp ==
  /\ moving = "Payroll" => P!DeductedOnce
  /\ moving = "Fees" => F!BonAddsUp /\ F!FicheAddsUp /\ F!RetenueAddsUp
  /\ moving = "Days" => G!OutcomesAreCounted /\ G!PagesAgree /\ G!CashIsAccountedFor
  /\ moving = "Paid" => B!OutcomesAreCounted /\ B!PagesAgree /\ B!CashIsAccountedFor

Symmetry == Permutations(Parcels) \cup Permutations(Couriers) \cup Permutations(Bons)
=============================================================================
