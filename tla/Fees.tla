--------------------------------- MODULE Fees ---------------------------------
(***************************************************************************)
(* What the money rules (MoneyRules) make of the rows of one seller or one    *)
(* livreur, and his retenue certificates (money/retenue.service.ts,          *)
(* packages/shared retenue.ts).  The state is such a content, grown one row   *)
(* at a time in the order of creation.                                       *)
(***************************************************************************)
EXTENDS MoneyRules

CONSTANTS Amounts,   \* bound: amounts in millimes
          Rates,     \* retenue rates in basis points
          MaxRows,   \* bound: rows of each kind
          MaxPeriod  \* bound: months

\* What the module assumes of its constants.
FeesAssumption ==
  /\ Amounts \subseteq Nat /\ Rates \subseteq 0..10000
  /\ MaxRows \in Nat /\ MaxPeriod \in Nat \ {0}

VARIABLES
  pay,   \* the COD of the parcels ticked; the frozen rates of those delivered
  owed,  \* the charges EN_ATTENTE, or the debts en cours, oldest first
  certificates, \* the certificates of the seller
  month

vars == <<pay, owed, certificates, month>>

Certificate == [issued: 1..MaxPeriod, cancelled: 0..MaxPeriod, amount: Amounts]

TypeOK ==
  /\ pay \in Seq(Amounts) /\ owed \in Seq(Amounts)
  /\ certificates \in Seq(Certificate) /\ month \in 1..MaxPeriod

-----------------------------------------------------------------------------
(* The retenue of a period: a month, or a year *)

\* Mutant of lineOf: a certificate cancelled in its own period counts.
lineOfIssued(certificate, period, keyOf) ==
  LET issued == keyOf[certificate.issued]
      cancelled == IF certificate.cancelled = 0 THEN 0 ELSE keyOf[certificate.cancelled]
  IN IF issued = period THEN certificate.amount
     ELSE IF cancelled = period /\ issued < period THEN -certificate.amount ELSE 0

(* The signed amount of a certificate in a period: counted in that of its       *)
(* Remis, taken back in that of its correction, never counted when both.       *)
lineOf(certificate, period, keyOf) ==
  LET issued == keyOf[certificate.issued]
      cancelled == IF certificate.cancelled = 0 THEN 0 ELSE keyOf[certificate.cancelled]
  IN IF issued = period /\ cancelled # period THEN certificate.amount
     ELSE IF cancelled = period /\ issued < period THEN -certificate.amount ELSE 0

retenueTotals(rows, period, keyOf) ==
  FoldLeft(LAMBDA total, row : total + lineOf(row, period, keyOf), 0, rows)

monthKeyOf == [m \in 1..MaxPeriod |-> m]
yearKeyOf  == [m \in 1..MaxPeriod |-> (m + 1) \div 2]  \* two months to a year

-----------------------------------------------------------------------------
Init == pay = <<>> /\ owed = <<>> /\ certificates = <<>> /\ month = 1

\* The amounts of a bon or a fiche, and the certificates, are grown apart.
NoAmounts      == pay = <<>> /\ owed = <<>>
NoCertificates == certificates = <<>> /\ month = 1

Livre(amount) ==
  /\ NoCertificates /\ Len(pay) < MaxRows /\ pay' = Append(pay, amount)
  /\ UNCHANGED <<owed, certificates, month>>

Owe(amount) ==
  /\ NoCertificates /\ Len(owed) < MaxRows /\ owed' = Append(owed, amount)
  /\ UNCHANGED <<pay, certificates, month>>

\* issueAtRemis, cancelAtCorrection: at the instant.
IssueCertificate(amount) ==
  /\ NoAmounts /\ Len(certificates) < MaxRows
  /\ certificates' = Append(certificates, [issued |-> month, cancelled |-> 0, amount |-> amount])
  /\ UNCHANGED <<pay, owed, month>>

CancelCertificate(i) ==
  /\ certificates[i].cancelled = 0
  /\ certificates' = [certificates EXCEPT ![i].cancelled = month]
  /\ UNCHANGED <<pay, owed, month>>

NextMonth ==
  /\ NoAmounts /\ month < MaxPeriod /\ month' = month + 1
  /\ UNCHANGED <<pay, owed, certificates>>

Next ==
  \/ \E amount \in Amounts : Livre(amount) \/ Owe(amount) \/ IssueCertificate(amount)
  \/ \E i \in DOMAIN certificates : CancelCertificate(i)
  \/ NextMonth

Spec == Init /\ [][Next]_vars

-----------------------------------------------------------------------------
(* Properties *)

\* Reference: the longest run of oldest charges that leaves something to pay.
LongestRun(totalCod, charges, cinOnly, bps) ==
  Max({0} \cup {n \in DOMAIN charges : \A k \in 1..n :
         netAfter(totalCod, sumMillimes(SubSeq(charges, 1, k)), cinOnly, bps) > 0})

(* "A bon is never negative (A-2)", and nothing is lost to rounding: what the   *)
(* seller gets, the fees taken and the retenue make up the cash, the fees taken *)
(* are the oldest ones and as many as fit, the others are his solde debiteur.   *)
BonAddsUp ==
  \A cinOnly \in BOOLEAN, bps \in Rates :
    LET bon == buildBonVersement(pay, owed, cinOnly, bps)
        run == LongestRun(sumMillimes(pay), owed, cinOnly, bps)
    IN /\ bon.generated => bon.net > 0 /\ bon.included = SubSeq(owed, 1, run)
       /\ bon.net + bon.fees + bon.retenue = sumMillimes(pay)
       /\ bon.fees + bon.solde = sumMillimes(owed)
       /\ bon.generated /\ bon.solde = 0
            => bon.net + bon.retenue = aRecevoirOf(pay, owed)

(* A fiche never goes below zero and takes the debts oldest first: a debt is    *)
(* touched only when those before it are settled, and what is not taken is      *)
(* carried, to the millime (Admin 4.12, D-82).                               *)
FicheAddsUp ==
  LET slip == buildPayslip(pay, owed) IN
  /\ slip.rest >= 0 /\ slip.rest + sumMillimes(slip.deductions) = sumMillimes(pay)
  /\ slip.carried + sumMillimes(slip.deductions) = sumMillimes(owed)
  /\ slip.carried > 0 => slip.rest = 0
  /\ \A i, j \in DOMAIN owed : i < j /\ slip.deductions[j] > 0 => slip.deductions[i] = owed[i]

(* "never rewriting a past one": the reports of the months so far, and those of *)
(* the years, add up to the certificates that stand (D-89).                   *)
RetenueAddsUp ==
  \A keyOf \in {monthKeyOf, yearKeyOf} :
    sumMillimes([k \in 1..keyOf[month] |-> retenueTotals(certificates, k, keyOf)])
      = sumMillimes([i \in DOMAIN certificates |->
          IF certificates[i].cancelled = 0 THEN certificates[i].amount ELSE 0])
=============================================================================
