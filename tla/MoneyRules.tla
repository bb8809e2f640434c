------------------------------ MODULE MoneyRules ------------------------------
(***************************************************************************)
(* The money rules, on integers, of packages/shared: fees.ts, money.ts       *)
(* (rounding), seller-money.ts, caisse.ts (the outcome of a closing).  An     *)
(* index stands for an id, sequences are in the order of creation.           *)
(***************************************************************************)
EXTENDS Integers, Sequences, SequencesExt, FiniteSetsExt

-----------------------------------------------------------------------------
(* Sums and rounding *)

sumMillimes(amounts) == FoldLeft(LAMBDA total, amount : total + amount, 0, amounts)

BPS_DENOMINATOR == 10000

\* Half up at the millime, of a base not negative.
applyRateBps(base, bps) == (2 * base * bps + BPS_DENOMINATOR) \div (2 * BPS_DENOMINATOR)

computeRetenue(base, cinOnly, bps) ==
  IF ~cinOnly \/ base <= 0 THEN 0 ELSE applyRateBps(base, bps)

\* deliveryRateBps: in basis points, half up; -1 when nothing ended.
deliveryRateBps(delivered, returned) ==
  LET total == delivered + returned IN
  IF total <= 0 THEN -1 ELSE (delivered * 20000 + total) \div (2 * total)

-----------------------------------------------------------------------------
(* The bon de versement *)

netAfter(totalCod, fees, cinOnly, bps) ==
  (totalCod - fees) - computeRetenue(totalCod - fees, cinOnly, bps)

\* Mutant of TakeCharge: a charge that does not fit is passed over for a smaller one.
TakeChargeThatFits(totalCod, cinOnly, bps, walk, amount) ==
  IF netAfter(totalCod, walk.fees + amount, cinOnly, bps) > 0
  THEN [walk EXCEPT !.fees = @ + amount, !.included = Append(@, amount)]
  ELSE [walk EXCEPT !.carried = Append(@, amount)]

\* One charge of the walk: it stops at the first that would leave nothing.
TakeCharge(totalCod, cinOnly, bps, walk, amount) ==
  IF ~walk.stopped /\ netAfter(totalCod, walk.fees + amount, cinOnly, bps) > 0
  THEN [walk EXCEPT !.fees = @ + amount, !.included = Append(@, amount)]
  ELSE [walk EXCEPT !.stopped = TRUE, !.carried = Append(@, amount)]

WalkCharges(totalCod, charges, cinOnly, bps) ==
  FoldLeft(LAMBDA walk, amount : TakeCharge(totalCod, cinOnly, bps, walk, amount),
           [fees |-> 0, included |-> <<>>, carried |-> <<>>, stopped |-> FALSE], charges)

buildBonVersement(parcels, charges, cinOnly, bps) ==
  LET totalCod == sumMillimes(parcels)
      walk == WalkCharges(totalCod, charges, cinOnly, bps)
      net  == netAfter(totalCod, walk.fees, cinOnly, bps)
  IN IF parcels # <<>> /\ net > 0
     THEN [generated |-> TRUE, fees |-> walk.fees, included |-> walk.included,
           carried |-> walk.carried, net |-> net,
           retenue |-> computeRetenue(totalCod - walk.fees, cinOnly, bps),
           solde |-> sumMillimes(walk.carried)]
     ELSE [generated |-> FALSE, fees |-> 0, included |-> <<>>, carried |-> charges,
           net |-> totalCod, retenue |-> 0, solde |-> sumMillimes(charges)]

\* aRecevoirOf: what the seller reads he has to receive, no retenue estimated.
aRecevoirOf(parcels, charges) == sumMillimes(parcels) - sumMillimes(charges)

-----------------------------------------------------------------------------
(* The fiche de paie and the caisse *)

\* Mutant of TakeDebt: the carried part forgets what was taken.
TakeDebtWhole(slip, remaining) ==
  LET taken == Min({remaining, Max({0, slip.rest})}) IN
  [rest |-> slip.rest - taken, deductions |-> Append(slip.deductions, taken),
   carried |-> slip.carried + remaining]

\* One debt: what is left of the pay, and no more; the rest carries over.
TakeDebt(slip, remaining) ==
  LET taken == Min({remaining, Max({0, slip.rest})}) IN
  [rest |-> slip.rest - taken, deductions |-> Append(slip.deductions, taken),
   carried |-> slip.carried + remaining - taken]

buildPayslip(rates, remaining) ==
  FoldLeft(TakeDebt, [rest |-> sumMillimes(rates), deductions |-> <<>>, carried |-> 0], remaining)

caisseCloseOutcome(livreur, expected, counted) ==
  LET short == Max({0, expected - counted}) IN
  [debt |-> IF livreur THEN short ELSE 0, hrShortfall |-> IF livreur THEN 0 ELSE short,
   flagged |-> counted > expected]
=============================================================================
