-------------------------------- MODULE Payroll --------------------------------
(***************************************************************************)
(* The pay of one livreur: money/payroll.service.ts (prepare, markPaid,       *)
(* changePlan), packages/shared payroll.ts (the plan in force, the period    *)
(* due), and what they meet: deliveries synced late or undone, the closing of *)
(* his caisse that moves the cash and makes his debts, a debt cancelled.      *)
(*                                                                          *)
(* prepare and changePlan read the livreur's row before they hold it; prepare *)
(* reads his debts and parcels without holding them.  Reading the row,        *)
(* holding it and reading the rest, and writing are a step each.  Midnight may   *)
(* fall between them, but a call lasts seconds: it, and those begun before it is  *)
(* over, are over by the next.                                              *)
(***************************************************************************)
EXTENDS MoneyRules, FiniteSets

CONSTANTS Parcels,
          Plans,      \* payment plans
          Length,     \* the days of each plan's calendar period
          LastDay,    \* bound: business days
          Requests,   \* bound: calls of prepare or changePlan at once
          Amounts,    \* bound: amounts of a debt
          MaxDebts,   \* bound: debts
          MaxChanges, \* bound: plan changes
          Rate,       \* frozen on each parcel at delivery
          None

\* What the module assumes of its constants.
PayrollAssumption ==
  /\ Length \in [Plans -> Nat \ {0}] /\ LastDay \in Nat \ {0} /\ Amounts \subseteq Nat \ {0}
  /\ MaxDebts \in Nat /\ MaxChanges \in Nat /\ Rate \in Nat /\ None \notin Plans

Days == 1..LastDay

PayPlanSchedule == [plan: Plans, since: Int, pendingPlan: Plans \cup {None}, pendingFrom: Int]

\* day: the business day of the Livre that stands, 0 when there is none.
Parcel == [day: Days \cup {0}, withCourier: BOOLEAN]

Debt == [status: {"EN_COURS", "DEDUITE", "ANNULEE"}, amount: Amounts, remaining: Nat]

VARIABLES
  today,
  schedule, \* the plan of the livreur's row
  parcel,
  debt,     \* his debts, oldest first
  fiche,    \* his fiches, in the order prepared
  request,  \* what a call under way has read
  changes

vars == <<today, schedule, parcel, debt, fiche, request, changes>>

Fiche == [start: Int, end: Int, parcels: SUBSET Parcels, deductions: Seq(Nat),
          net: Int, status: {"A_PAYER", "PAYEE"}]

TypeOK ==
  /\ today \in Days /\ schedule \in PayPlanSchedule /\ changes \in 0..MaxChanges
  /\ parcel \in [Parcels -> Parcel]
  /\ debt \in Seq(Debt) /\ Len(debt) <= MaxDebts
  /\ \A f \in ToSet(fiche) : f \in Fiche
  /\ \A q \in Requests : request[q] = None
       \/ (request[q].op \in {"PREPARE", "CHANGE"} /\ request[q].schedule \in PayPlanSchedule)

Init ==
  /\ today = 1 /\ changes = 0 /\ debt = <<>> /\ fiche = <<>>
  /\ \E plan \in Plans :
       schedule = [plan |-> plan, since |-> 1, pendingPlan |-> None, pendingFrom |-> 0]
  /\ parcel = [p \in Parcels |-> [day |-> 0, withCourier |-> FALSE]]
  /\ request = [q \in Requests |-> None]

NextDay ==
  /\ today < LastDay /\ today' = today + 1
  /\ \A q \in Requests : request[q] # None => request[q].day = today
  /\ UNCHANGED <<schedule, parcel, debt, fiche, request, changes>>

-----------------------------------------------------------------------------
(* Plans and periods *)

Pending(s) == s.pendingPlan # None

payPlanOn(s, day) ==
  IF Pending(s) /\ day >= s.pendingFrom THEN [plan |-> s.pendingPlan, since |-> s.pendingFrom]
  ELSE [plan |-> s.plan, since |-> s.since]

\* The calendar period of a day.
payPeriodFor(plan, day) ==
  LET start == day - ((day - 1) % Length[plan]) IN
  [start |-> start, end |-> start + Length[plan] - 1]

\* Mutant of payPeriodOn: the calendar period, whenever its plan began.
payPeriodOnCalendar(s, day) == payPeriodFor(payPlanOn(s, day).plan, day)

\* Never before its plan, never into the plan that waits.
payPeriodOn(s, day) ==
  LET inForce  == payPlanOn(s, day)
      calendar == payPeriodFor(inForce.plan, day)
  IN [start |-> Max({calendar.start, inForce.since}),
      end   |-> IF Pending(s) /\ day < s.pendingFrom
                THEN Min({calendar.end, s.pendingFrom - 1}) ELSE calendar.end]

rolled(s) ==
  IF Pending(s) /\ s.pendingFrom <= today
  THEN [plan |-> s.pendingPlan, since |-> s.pendingFrom, pendingPlan |-> None, pendingFrom |-> 0]
  ELSE s

\* From the day after the current period; the plan in force again cancels it.
schedulePlanChange(s, plan) ==
  LET current == [rolled(s) EXCEPT !.pendingPlan = None, !.pendingFrom = 0] IN
  IF plan = current.plan THEN current
  ELSE [current EXCEPT !.pendingPlan = plan, !.pendingFrom = payPeriodOn(current, today).end + 1]

\* The period that ended with yesterday.
duePayPeriod(s) == payPeriodOn(s, today - 1)

-----------------------------------------------------------------------------
(* Deliveries, the caisse, debts *)

Deliver(p, d) ==
  /\ d <= today /\ parcel[p].day = 0
  /\ parcel' = [parcel EXCEPT ![p] = [day |-> d, withCourier |-> TRUE]]
  /\ UNCHANGED <<today, schedule, debt, fiche, request, changes>>

\* A cancelled Livre, an undone delivery: only while the cash is with him.
TakeBack(p) ==
  /\ parcel[p].withCourier
  /\ parcel' = [parcel EXCEPT ![p] = [day |-> 0, withCourier |-> FALSE]]
  /\ UNCHANGED <<today, schedule, debt, fiche, request, changes>>

\* Cloturer, whose shortfall, if any, is a debt.
CloseCaisse(p, shortfalls) ==
  /\ parcel[p].withCourier /\ Len(debt) + Len(shortfalls) <= MaxDebts
  /\ parcel' = [parcel EXCEPT ![p].withCourier = FALSE]
  /\ debt' = debt \o [i \in DOMAIN shortfalls |->
       [status |-> "EN_COURS", amount |-> shortfalls[i], remaining |-> shortfalls[i]]]
  /\ UNCHANGED <<today, schedule, fiche, request, changes>>

CancelDebt(i) ==
  /\ debt[i].status = "EN_COURS" /\ debt' = [debt EXCEPT ![i].status = "ANNULEE"]
  /\ UNCHANGED <<today, schedule, parcel, fiche, request, changes>>

-----------------------------------------------------------------------------
(* A fiche *)

OnFiche(p) == \E i \in DOMAIN fiche : p \in fiche[i].parcels

\* Delivered up to that day and on no fiche.
unpaid(upTo) == {p \in Parcels : parcel[p].day \in 1..upTo /\ ~OnFiche(p)}

\* The period over, no fiche up to its end, parcels to pay, no cash with him.
isPayslipDue(period, parcels) ==
  /\ today > period.end /\ parcels # {}
  /\ \A i \in DOMAIN fiche : fiche[i].end < period.end
  /\ \A p \in parcels : ~parcel[p].withCourier

openDebts == [i \in DOMAIN debt |-> IF debt[i].status = "EN_COURS" THEN debt[i].remaining ELSE 0]

Holding == \E q \in Requests : request[q] # None /\ request[q].held

\* The day a call begins, the one before while a call of then is under way.
began == IF \E q \in Requests : request[q] # None /\ request[q].day < today THEN today - 1 ELSE today

ReadCourier(q) ==
  /\ request[q] = None
  /\ request' = [request EXCEPT ![q] = [op |-> "PREPARE", schedule |-> schedule, held |-> FALSE, day |-> began]]
  /\ UNCHANGED <<today, schedule, parcel, debt, fiche, changes>>

\* The livreur's row is held; the period is of the row read before.
ReadFiche(q) ==
  /\ request[q] # None /\ request[q].op = "PREPARE" /\ ~request[q].held /\ ~Holding
  /\ LET period  == duePayPeriod(request[q].schedule)
         parcels == unpaid(period.end)
     IN IF isPayslipDue(period, parcels)
        THEN request' = [request EXCEPT ![q] =
               [op |-> "PREPARE", schedule |-> request[q].schedule, held |-> TRUE, day |-> request[q].day,
                period |-> period, parcels |-> parcels, debts |-> openDebts]]
        ELSE request' = [request EXCEPT ![q] = None]
  /\ UNCHANGED <<today, schedule, parcel, debt, fiche, changes>>

\* A debt after its deduction, from the remaining that was read.
Deducted(i, read, taken) ==
  [debt[i] EXCEPT !.remaining = read - taken, !.status = IF read = taken THEN "DEDUITE" ELSE @]

(* A parcel is on one fiche (UNIQUE); only the debts that take something are    *)
(* written.                                                                *)
WriteFiche(q) ==
  /\ request[q] # None /\ request[q].held
  /\ LET read  == request[q]
         gross == Rate * Cardinality(read.parcels)
         taken == buildPayslip(<<gross>>, read.debts).deductions
         total == sumMillimes(taken)
     IN /\ \A p \in read.parcels : ~OnFiche(p)
        /\ fiche' = Append(fiche, [start |-> read.period.start, end |-> read.period.end,
             parcels |-> read.parcels, deductions |-> taken, net |-> gross - total,
             status |-> "A_PAYER"])
        /\ debt' = [i \in DOMAIN debt |-> IF i \in DOMAIN taken /\ taken[i] > 0
             THEN Deducted(i, read.debts[i], taken[i]) ELSE debt[i]]
  /\ request' = [request EXCEPT ![q] = None]
  /\ UNCHANGED <<today, schedule, parcel, changes>>

MarkPaid(i) ==
  /\ fiche[i].status = "A_PAYER" /\ fiche' = [fiche EXCEPT ![i].status = "PAYEE"]
  /\ UNCHANGED <<today, schedule, parcel, debt, request, changes>>

-----------------------------------------------------------------------------
(* Changer le plan de paie *)

ReadSchedule(q) ==
  /\ request[q] = None /\ changes < MaxChanges /\ changes' = changes + 1
  /\ request' = [request EXCEPT ![q] = [op |-> "CHANGE", schedule |-> schedule, held |-> FALSE, day |-> began]]
  /\ UNCHANGED <<today, schedule, parcel, debt, fiche>>

WriteSchedule(q, plan) ==
  /\ request[q] # None /\ request[q].op = "CHANGE" /\ ~Holding
  /\ schedule' = schedulePlanChange(request[q].schedule, plan)
  /\ request' = [request EXCEPT ![q] = None]
  /\ UNCHANGED <<today, parcel, debt, fiche, changes>>

-----------------------------------------------------------------------------
Shortfalls == {<<>>} \cup {<<a>> : a \in Amounts}

DeliveryStep == \E p \in Parcels :
  \/ TakeBack(p) \/ (\E d \in Days : Deliver(p, d))
  \/ \E shortfalls \in Shortfalls : CloseCaisse(p, shortfalls)

PayStep ==
  \/ \E q \in Requests : ReadCourier(q) \/ ReadFiche(q) \/ WriteFiche(q) \/ ReadSchedule(q)
       \/ \E plan \in Plans : WriteSchedule(q, plan)
  \/ \E i \in DOMAIN fiche : MarkPaid(i)
  \/ \E i \in DOMAIN debt : CancelDebt(i)

Next == NextDay \/ DeliveryStep \/ PayStep

Spec == Init /\ [][Next]_vars

-----------------------------------------------------------------------------
(* Properties *)

(* Two fiches prepared at once, deliveries undone, synced late or made again,   *)
(* caisses closed meanwhile: each parcel of a fiche is delivered for good, its  *)
(* cash handed in, within its period or before, and on no other fiche (D-82).  *)
PaidForDelivered ==
  \A i \in DOMAIN fiche : \A p \in fiche[i].parcels :
    /\ parcel[p].day \in 1..fiche[i].end /\ ~parcel[p].withCourier
    /\ \A j \in DOMAIN fiche : p \in fiche[j].parcels => j = i

(* Debts read by a fiche while one is cancelled or made: what was deducted over  *)
(* all the fiches and what remains are the debt, and no fiche is negative.      *)
DeductedOnce ==
  /\ \A i \in DOMAIN fiche : fiche[i].net >= 0
  /\ \A d \in DOMAIN debt :
       LET taken == {<<j, fiche[j].deductions[d]>> :
                       j \in {j \in DOMAIN fiche : d \in DOMAIN fiche[j].deductions}}
       IN debt[d].amount = debt[d].remaining + FoldSet(LAMBDA t, sum : sum + t[2], 0, taken)

(* Plans changed, changed again and cancelled, on the first day of a period or  *)
(* while a fiche is prepared: the fiches follow each other, no day in two.      *)
FichesInOrder ==
  \A i, j \in DOMAIN fiche : i < j => fiche[i].end < fiche[j].start

(* "A fiche is due once its period has ended": the parcels of a period are not  *)
(* passed over when the day after it brings no fiche.  Not so: it is due on     *)
(* that day only, and then with the next period's.                            *)
DueAfterItsPeriod ==
  \A day \in 1..(today - 1) :
    LET period == payPeriodOn(schedule, day) IN
    (period.end < today /\ isPayslipDue(period, unpaid(period.end)))
      => isPayslipDue(duePayPeriod(schedule), unpaid(duePayPeriod(schedule).end))

(* A debt cancelled is deducted no more.  Not so: a fiche has read it.          *)
CancelledStays == \A i \in DOMAIN debt :
  debt[i].status = "ANNULEE" => \A q \in Requests :
    request[q] # None /\ request[q].held /\ i \in DOMAIN request[q].debts
      => request[q].debts[i] = 0


-----------------------------------------------------------------------------
(* The inductive invariant of PaidForDelivered and FichesInOrder *)

UnderWay == {q \in Requests : request[q] # None}
Held     == {q \in UnderWay : request[q].held}

\* The schedules that are, or will be, acted on; the last days paid, or about to be.
Live  == {schedule} \cup {request[q].schedule : q \in UnderWay}
Ended == {fiche[i].end : i \in DOMAIN fiche} \cup {request[q].period.end : q \in Held}

PayTypes ==
  /\ today \in Days /\ parcel \in [Parcels -> Parcel] /\ Live \subseteq PayPlanSchedule
  /\ request = [q \in Requests |-> request[q]]
  /\ \A i \in DOMAIN fiche : fiche[i].end \in Int /\ fiche[i].parcels \in SUBSET Parcels
  /\ \A q \in Held : request[q].period \in [start: Int, end: Int] /\ request[q].parcels \in SUBSET Parcels

\* A calendar period of the plan ends that day.
CalendarEnd(plan, day) == payPeriodFor(plan, day).end = day

\* As the schedule stands that day, no period goes from end into the days after it.
Parts(s, day, end) ==
  payPlanOn(s, day).since > end \/ CalendarEnd(payPlanOn(s, day).plan, end)

(* Whatever schedule is acted on, what was paid ends where a period of it does;   *)
(* and what may be paid today, up to yesterday, does for all of them.           *)
ScheduleInv ==
  /\ \A s \in Live : Pending(s) => CalendarEnd(s.plan, s.pendingFrom - 1)
  /\ \A s \in Live, end \in Ended :
       end < today /\ Parts(s, today, end) /\ (end < today - 1 => Parts(s, today - 1, end))
  /\ \A s, t \in Live :
       CalendarEnd(payPlanOn(s, today - 1).plan, today - 1) => Parts(t, today, today - 1)

(* The calls under way began the same day; while that is today, all were read with *)
(* the same plan in force.  One at most holds the row.                         *)
CallsInv ==
  /\ \A q \in UnderWay :
       /\ request[q].day \in {today - 1, today}
       /\ request[q].day = today =>
            payPlanOn(request[q].schedule, today).plan = payPlanOn(schedule, today).plan
  /\ \A q, r \in UnderWay : request[q].day = request[r].day
  /\ \A q, r \in Held : q = r

\* What a fiche about to be written has read still stands.
HeldInv ==
  \A q \in Held :
    /\ \A p \in request[q].parcels : parcel[p].day \in 1..request[q].period.end /\ ~parcel[p].withCourier
    /\ \A i \in DOMAIN fiche : fiche[i].end < request[q].period.start

PayInv == PayTypes /\ ScheduleInv /\ CallsInv /\ HeldInv /\ PaidForDelivered /\ FichesInOrder
=============================================================================
