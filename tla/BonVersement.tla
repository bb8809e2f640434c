----------------------------- MODULE BonVersement -----------------------------
(***************************************************************************)
(* The bons de versement of a seller and the cash the ramasseurs carry:       *)
(* money/bons-versement.service.ts (prepare, cancel), bon-handover.service.ts *)
(* (handOut, remisFromScan, archiveFromScan), bon-corrections.service.ts      *)
(* (correctBonVersement), retenue.service.ts (the certificate of a payment)   *)
(* and the ramasseur's side of caisse.service.ts (close, bringBack).         *)
(*                                                                          *)
(* Preparing locks, reads and takes the charges; closing a caisse reads    *)
(* the bons still on the way and then brings them back: a step each.  The     *)
(* other transactions hold the bon from their first statement: one step.     *)
(*                                                                          *)
(* Each bon pays one unit net.  Left out: the visit a prepared bon waits for  *)
(* (its pickup or its planned ramasseur and day), which handOut does not read; *)
(* a hand-out of several bons is several hand-outs.                          *)
(***************************************************************************)
EXTENDS Integers, FiniteSets, FiniteSetsExt

CONSTANTS Parcels,    \* delivered, their cash at the depot
          Charges,    \* of the seller
          Bons,       \* bound: rows of bons_versement
          Ramasseurs,
          LastDay,    \* bound: business days
          MaxCorrections, \* bound: corrections by the admin
          MaxTrips,   \* bound: hand-outs
          Surpluses,  \* bound: the ecarts a ramasseur's caisse may close with
          None

Days == 1..LastDay
BonStatus == {"PREPARE", "EN_ROUTE", "REMIS", "ARCHIVE", "ANNULE"}

(* certificate: the one of its retenue that is not cancelled.  ambiguous is    *)
(* history: it was corrected when two caisses of one day had taken it out, and *)
(* the correction may have chosen the wrong one.                             *)
Bon == [status: BonStatus, parcels: SUBSET Parcels, charges: SUBSET Charges,
        ramasseur: Ramasseurs \cup {None}, certificate: BOOLEAN, ambiguous: BOOLEAN]

\* bon is the row a deducted charge names.
Charge == [status: {"NON", "EN_ATTENTE", "DEDUITE", "ANNULEE"}, bon: Bons \cup {None}]

(* A ramasseur's caisse of a day and its caisse_session_bons: the bons taken   *)
(* out, those whose cash was handed over, those brought back.  explained is    *)
(* the part of its surplus that corrections have taken.                      *)
Session == [status: {"OUVERTE", "CLOTUREE"}, out: SUBSET Bons, remis: SUBSET Bons,
            rendu: SUBSET Bons, ecart: Int, explained: Nat, checked: BOOLEAN]

(* What the module assumes of its constants: None is no ramasseur and no bon,     *)
(* and no row of one.                                                        *)
BonAssumption ==
  /\ LastDay \in Nat \ {0} /\ MaxCorrections \in Nat /\ MaxTrips \in Nat /\ Surpluses \subseteq Int
  /\ IsFiniteSet(Ramasseurs) /\ IsFiniteSet(Bons) /\ None \notin Ramasseurs \cup Bons \cup Bon

VARIABLES
  today,
  bon,        \* the bons_versement table, with its parcels
  paid,       \* the parcels whose cash is PAYE; the others' is AU_DEPOT
  charge,     \* the seller_charges table
  session,    \* the ramasseurs' caisses
  preparing,  \* a preparation holds the seller: the parcels and charges it read
  closing,    \* the bons a closing caisse has read on the way
  corrections, \* corrections made
  trips       \* hand-outs made

vars == <<today, bon, paid, charge, session, preparing, closing, corrections, trips>>

TypeOK ==
  /\ today \in Days
  /\ bon \in [Bons -> Bon \cup {None}]
  /\ paid \subseteq Parcels
  /\ charge \in [Charges -> Charge]
  /\ session \in [Ramasseurs -> [Days -> Session]]
  /\ preparing \in [parcels: SUBSET Parcels, charges: SUBSET Charges,
                   held: SUBSET Charges, read: BOOLEAN] \cup {None}
  /\ closing \in [Ramasseurs -> [Days -> (SUBSET Bons) \cup {None}]]
  /\ corrections \in 0..MaxCorrections /\ trips \in 0..MaxTrips

NoBons == [status |-> "OUVERTE", out |-> {}, remis |-> {}, rendu |-> {},
           ecart |-> 0, explained |-> 0, checked |-> FALSE]

Init ==
  /\ today = 1
  /\ bon = [b \in Bons |-> None]
  /\ paid = {}
  /\ charge = [c \in Charges |-> [status |-> "NON", bon |-> None]]
  /\ session = [r \in Ramasseurs |-> [d \in Days |-> NoBons]]
  /\ preparing = None
  /\ closing = [r \in Ramasseurs |-> [d \in Days |-> None]]
  /\ corrections = 0 /\ trips = 0

Is(b, status) == bon[b] # None /\ bon[b].status = status
Active(b)     == bon[b] # None /\ bon[b].status # "ANNULE"
Closed(r, d)  == session[r][d].status = "CLOTUREE"
SessionFree(r, d) == closing[r][d] = None

NextDay ==
  /\ today < LastDay /\ today' = today + 1
  /\ UNCHANGED <<bon, paid, charge, session, preparing, closing, corrections, trips>>

-----------------------------------------------------------------------------
(* The seller's charges: the outcomes of his parcels create them, and annul    *)
(* those that still wait and that nobody holds.                              *)

NewCharge(c) ==
  /\ charge[c].status = "NON"
  /\ charge' = [charge EXCEPT ![c].status = "EN_ATTENTE"]
  /\ UNCHANGED <<today, bon, paid, session, preparing, closing, corrections, trips>>

HeldByPrepare(c) == preparing # None /\ c \in preparing.held

AnnulCharge(c) ==
  /\ charge[c].status = "EN_ATTENTE" /\ ~HeldByPrepare(c)
  /\ charge' = [charge EXCEPT ![c].status = "ANNULEE"]
  /\ UNCHANGED <<today, bon, paid, session, preparing, closing, corrections, trips>>

-----------------------------------------------------------------------------
(* Preparer le bon *)

\* payableParcelRefusal: the cash at the depot, and on no active bon.
Payable(p) == p \notin paid /\ ~\E b \in Bons : Active(b) /\ p \in bon[b].parcels

\* The seller is locked, then the parcels, then the charges that wait.
LockPrepare(chosen) ==
  /\ preparing = None /\ chosen # {} /\ \A p \in chosen : Payable(p)
  /\ preparing' = [parcels |-> chosen, charges |-> {}, read |-> FALSE,
                   held |-> {c \in Charges : charge[c].status = "EN_ATTENTE"}]
  /\ UNCHANGED <<today, bon, paid, charge, session, closing, corrections, trips>>

(* The charges are read again by their status, one created since included and  *)
(* not held; the oldest ones are taken that leave something to pay             *)
(* (buildBonVersement, see MoneyRules), any of them here.                    *)
ReadCharges(included) ==
  /\ preparing # None /\ ~preparing.read
  /\ \A c \in included : charge[c].status = "EN_ATTENTE"
  /\ preparing' = [preparing EXCEPT !.charges = included, !.read = TRUE]
  /\ UNCHANGED <<today, bon, paid, charge, session, closing, corrections, trips>>

WritePrepare(b) ==
  /\ preparing # None /\ preparing.read /\ bon[b] = None
  /\ bon' = [bon EXCEPT ![b] =
       [status |-> "PREPARE", parcels |-> preparing.parcels, charges |-> preparing.charges,
        ramasseur |-> None, certificate |-> FALSE, ambiguous |-> FALSE]]
  /\ charge' = [c \in Charges |-> IF c \in preparing.charges
                                  THEN [status |-> "DEDUITE", bon |-> b] ELSE charge[c]]
  /\ preparing' = None
  /\ UNCHANGED <<today, paid, session, closing, corrections, trips>>

AbortPrepare ==
  /\ preparing # None /\ preparing' = None
  /\ UNCHANGED <<today, bon, paid, charge, session, closing, corrections, trips>>

\* Mutant of Cancel: the charges stay deducted.
CancelKeepCharges(b) ==
  /\ Is(b, "PREPARE")
  /\ bon' = [bon EXCEPT ![b].status = "ANNULE", ![b].ramasseur = None]
  /\ UNCHANGED <<today, paid, charge, session, preparing, closing, corrections, trips>>

\* Annuler le bon: its parcels are free again, its charges wait again.
Cancel(b) ==
  /\ Is(b, "PREPARE")
  /\ bon' = [bon EXCEPT ![b].status = "ANNULE", ![b].ramasseur = None]
  /\ charge' = [c \in Charges |-> IF charge[c].bon = b
                                  THEN [status |-> "EN_ATTENTE", bon |-> None] ELSE charge[c]]
  /\ UNCHANGED <<today, paid, session, preparing, closing, corrections, trips>>

-----------------------------------------------------------------------------
(* On the way *)

\* Mutant of HandOut: the ramasseur's caisse may be closed.
HandOutLate(b, r) ==
  /\ trips < MaxTrips /\ trips' = trips + 1
  /\ Is(b, "PREPARE") /\ SessionFree(r, today)
  /\ bon' = [bon EXCEPT ![b].status = "EN_ROUTE", ![b].ramasseur = r]
  /\ LET this == session[r][today] IN session' = [session EXCEPT ![r][today] =
       [this EXCEPT !.out = @ \cup {b}, !.remis = @ \ {b}, !.rendu = @ \ {b}]]
  /\ UNCHANGED <<today, paid, charge, preparing, closing, corrections>>

\* The ramasseur's caisse of today is locked, and open: the cash is his now.
HandOut(b, r) ==
  /\ trips < MaxTrips /\ trips' = trips + 1
  /\ Is(b, "PREPARE") /\ SessionFree(r, today) /\ ~Closed(r, today)
  /\ bon' = [bon EXCEPT ![b].status = "EN_ROUTE", ![b].ramasseur = r]
  /\ LET this == session[r][today] IN session' = [session EXCEPT ![r][today] =
       [this EXCEPT !.out = @ \cup {b}, !.remis = @ \ {b}, !.rendu = @ \ {b}]]
  /\ UNCHANGED <<today, paid, charge, preparing, closing, corrections>>

\* Sessions that took the bon out.
Carried(b) == {s \in Ramasseurs \X Days : b \in session[s[1]][s[2]].out}

\* Of those, the ones of the latest day: the order by does not choose among them.
Latest(sessions) == {s \in sessions : \A t \in sessions : t[2] <= s[2]}

\* Mutant of CashLines: a closed caisse is not passed over.
CashLinesOfAny(b) == Latest(Carried(b))

\* The lines a Remis may mark: of a caisse not closed.
CashLines(b) == Latest({s \in Carried(b) : ~Closed(s[1], s[2])})

MarkRemis(b) ==
  IF CashLines(b) = {} THEN session' = session
  ELSE \E s \in CashLines(b) :
         session' = [session EXCEPT ![s[1]][s[2]].remis = @ \cup {b}]

(* The ramasseur scans the bon at the seller's: every parcel on it is paid,    *)
(* and its certificate issued if none stands.  A parcel already paid throws.   *)
Remis(b) ==
  /\ Is(b, "EN_ROUTE") /\ bon[b].parcels \cap paid = {}
  /\ bon' = [bon EXCEPT ![b].status = "REMIS", ![b].certificate = TRUE]
  /\ paid' = paid \cup bon[b].parcels
  /\ MarkRemis(b)
  /\ UNCHANGED <<today, charge, preparing, closing, corrections, trips>>

\* Archivage bons: the signed copy is back.
Archive(b) ==
  /\ Is(b, "REMIS")
  /\ bon' = [bon EXCEPT ![b].status = "ARCHIVE"]
  /\ UNCHANGED <<today, paid, charge, session, preparing, closing, corrections, trips>>

-----------------------------------------------------------------------------
(* The ramasseur's caisse is closed *)

\* The session is locked, the count is what its bons say: the bons on the way are read.
ReadClose(r, d) ==
  /\ d <= today /\ session[r][d].out # {} /\ ~Closed(r, d) /\ SessionFree(r, d)
  /\ closing' = [closing EXCEPT ![r][d] = {b \in session[r][d].out : Is(b, "EN_ROUTE")}]
  /\ UNCHANGED <<today, bon, paid, charge, session, preparing, corrections, trips>>

BringBack(r, d) == session[r][d].rendu \cup closing[r][d]

(* bringBack and the end of close: what was read on the way is Prepare again,  *)
(* whatever its status now.                                                 *)
WriteClose(r, d, ecart) ==
  /\ closing[r][d] # None
  /\ bon' = [b \in Bons |-> IF b \in closing[r][d]
                            THEN [bon[b] EXCEPT !.status = "PREPARE", !.ramasseur = None]
                            ELSE bon[b]]
  /\ session' = [session EXCEPT ![r][d] =
       [@ EXCEPT !.status = "CLOTUREE", !.rendu = BringBack(r, d), !.ecart = ecart]]
  /\ closing' = [closing EXCEPT ![r][d] = None]
  /\ UNCHANGED <<today, paid, charge, preparing, corrections, trips>>

AbortClose(r, d) ==
  /\ closing[r][d] # None /\ closing' = [closing EXCEPT ![r][d] = None]
  /\ UNCHANGED <<today, bon, paid, charge, session, preparing, corrections, trips>>

-----------------------------------------------------------------------------
(* A bon scanned Remis by mistake *)

NetOf(b) == 1

\* Mutant of Surplus: what earlier corrections took is not excluded.
SurplusWhole(s) == Max({0, session[s[1]][s[2]].ecart})

\* What is left of a closed caisse's surplus.
Surplus(s) ==
  LET this == session[s[1]][s[2]] IN Max({0, Max({0, this.ecart}) - this.explained})

Covered(b, s) == Min({Surplus(s), NetOf(b)})

\* Mutant of Unpay: the certificate stands.
UnpayKeepCertificate(b, status, ramasseur) ==
  /\ paid' = paid \ bon[b].parcels
  /\ bon' = [bon EXCEPT ![b].status = status, ![b].ramasseur = ramasseur,
                        ![b].ambiguous = @ \/ Cardinality(Latest(Carried(b))) > 1]

Unpay(b, status, ramasseur) ==
  /\ paid' = paid \ bon[b].parcels
  /\ bon' = [bon EXCEPT ![b].status = status, ![b].ramasseur = ramasseur,
                        ![b].certificate = FALSE,
                        ![b].ambiguous = @ \/ Cardinality(Latest(Carried(b))) > 1]

(* correctBonVersement.  The caisse of the last hand-out is locked.  Open: he   *)
(* carries the bon again.  Closed: the bon is at the depot, and what its        *)
(* surplus does not cover is his shortfall.  A parcel that is not paid throws. *)
Correct(b) ==
  /\ corrections < MaxCorrections /\ Is(b, "REMIS") /\ bon[b].parcels \subseteq paid
  /\ \E s \in Latest(Carried(b)) :
       LET r == s[1]  d == s[2]  this == session[r][d] IN
       /\ SessionFree(r, d)
       /\ IF ~Closed(r, d)
          THEN /\ Unpay(b, "EN_ROUTE", bon[b].ramasseur)
               /\ session' = [session EXCEPT ![r][d].remis = @ \ {b}]
          ELSE /\ Unpay(b, "PREPARE", None)
               /\ session' = [session EXCEPT ![r][d] =
                    [this EXCEPT !.explained = @ + Covered(b, s),
                       !.checked = @ \/ (Surplus(s) > 0 /\ Surplus(s) = Covered(b, s))]]
  /\ corrections' = corrections + 1
  /\ UNCHANGED <<today, charge, preparing, closing, trips>>

-----------------------------------------------------------------------------
DepotStep ==
  \/ \E chosen \in SUBSET Parcels : LockPrepare(chosen)
  \/ \E included \in SUBSET Charges : ReadCharges(included)
  \/ AbortPrepare
  \/ \E b \in Bons :
       WritePrepare(b) \/ Cancel(b) \/ Archive(b) \/ Correct(b)
         \/ \E r \in Ramasseurs : HandOut(b, r)

CaisseStep ==
  \E r \in Ramasseurs, d \in Days :
    ReadClose(r, d) \/ AbortClose(r, d) \/ (\E ecart \in Surpluses : WriteClose(r, d, ecart))

ChargeStep == \E c \in Charges : NewCharge(c) \/ AnnulCharge(c)

Next == NextDay \/ ChargeStep \/ DepotStep \/ CaisseStep \/ \E b \in Bons : Remis(b)

Spec == Init /\ [][Next]_vars

-----------------------------------------------------------------------------
(* Properties *)

(* Hand-outs, Remis scans, corrections and closings at the same instant, a bon *)
(* brought back and handed out again the same day: a bon on the way is cash    *)
(* that an open caisse of its ramasseur expects (D-79, D-80), unless a          *)
(* correction had two caisses of one day to choose from (CorrectsItsCarrier).  *)
CarriedCashIsExpected ==
  \A b \in Bons : Is(b, "EN_ROUTE") /\ ~bon[b].ambiguous =>
    \E d \in Days : LET this == session[bon[b].ramasseur][d] IN
      this.status = "OUVERTE" /\ b \in this.out \ this.remis

(* A caisse closes with nothing outstanding: each bon it took out was handed    *)
(* over or came back, although a Remis scan and the closing may cross.  The     *)
(* same bons are set aside.                                                 *)
ClosedCaisseIsSettled ==
  \A r \in Ramasseurs, d \in Days : Closed(r, d) =>
    \A b \in session[r][d].out :
      ~bon[b].ambiguous => b \in session[r][d].remis \cup session[r][d].rendu

(* A seller is paid a parcel under one certificate that stands, and a           *)
(* certificate stands for parcels paid: through corrections, second hand-outs,  *)
(* cancellations and a closing that overwrites a Remis (D-88, D-89).           *)
PaidUnderOneCertificate ==
  \A p \in Parcels :
    Cardinality({b \in Bons : bon[b] # None /\ p \in bon[b].parcels /\ bon[b].certificate})
      = IF p \in paid THEN 1 ELSE 0

(* Several bons of one closed caisse corrected in turn: its surplus explains     *)
(* no more than itself (D-88).                                              *)
SurplusExplainedOnce ==
  \A r \in Ramasseurs, d \in Days : session[r][d].explained <= Max({0, session[r][d].ecart})

(* A deducted charge names a bon that stands and that counts it: a bon          *)
(* cancelled, prepared again or brought back loses no fee and keeps none.      *)
DeductedByStandingBon ==
  \A c \in Charges : charge[c].status = "DEDUITE" =>
    Active(charge[c].bon) /\ c \in bon[charge[c].bon].charges

(* A fee is owed only for what happened: a charge annulled is not deducted.     *)
(* Not so: one created and annulled while a bon is prepared is deducted.      *)
AnnulledIsNotDeducted ==
  [][\A c \in Charges : charge[c].status = "ANNULEE" => charge'[c].status = "ANNULEE"]_vars

(* "The session of the day he carried it: the last hand-out's": a correction    *)
(* finds one caisse.  Not so: two of them took the bon out the same day.       *)
CorrectsItsCarrier == \A b \in Bons : bon[b] # None => ~bon[b].ambiguous

(* "the bons he did not hand over come back": a bon Prepare has its parcels     *)
(* unpaid.  Not so: closing reads the bons on the way without a lock, and a     *)
(* Remis committed since is overwritten.                                    *)
BroughtBackWasNotHandedOver ==
  \A b \in Bons : Is(b, "PREPARE") => bon[b].parcels \cap paid = {}
=============================================================================
