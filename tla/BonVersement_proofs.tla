--------------------------- MODULE BonVersement_proofs ---------------------------
(***************************************************************************)
(* Proofs about BonVersement, for any parcels, charges, bons, ramasseurs,      *)
(* days, hand-outs and corrections: one certificate stands for a parcel paid,  *)
(* a charge is deducted by a bon that stands, a surplus explains no more than  *)
(* itself, and the caisses account for every bon they took out.              *)
(***************************************************************************)
EXTENDS BonVersement, FiniteSetTheorems, TLAPS

-----------------------------------------------------------------------------
(* The inductive invariant *)

OpenlyCarries(r, d, b) == b \in session[r][d].out /\ ~Closed(r, d)

\* A bon whose corrections, if any, had one caisse to choose.
Plain(b) == bon[b] # None /\ ~bon[b].ambiguous

(* A caisse took out bons that are rows, by today; a closing one is open and       *)
(* read bons it took out.                                                    *)
RowsInv ==
  /\ \A r \in Ramasseurs, d \in Days : \A b \in session[r][d].out : bon[b] # None /\ d <= today
  /\ \A r \in Ramasseurs, d \in Days : closing[r][d] # None =>
       ~Closed(r, d) /\ closing[r][d] \subseteq session[r][d].out

(* A bon handed over has its certificate, a certificate stands for parcels paid,   *)
(* a parcel paid has one, and only one.                                      *)
PaidInv ==
  /\ \A b \in Bons : Is(b, "REMIS") \/ Is(b, "ARCHIVE") => bon[b].certificate
  /\ \A b \in Bons : bon[b] # None /\ bon[b].certificate => bon[b].parcels \subseteq paid
  /\ \A p \in paid : \E b \in Bons : bon[b] # None /\ p \in bon[b].parcels /\ bon[b].certificate
  /\ \A p \in paid : \A a, b \in Bons :
       /\ bon[a] # None /\ p \in bon[a].parcels /\ bon[a].certificate
       /\ bon[b] # None /\ p \in bon[b].parcels /\ bon[b].certificate
       => a = b

\* A deducted charge names a bon that stands and that counts it.
ChargeInv ==
  \A c \in Charges : charge[c].status = "DEDUITE" =>
    /\ charge[c].bon \in Bons /\ Active(charge[c].bon)
    /\ c \in bon[charge[c].bon].charges

\* A surplus explains no more than itself, and that of an open caisse nothing yet.
SurplusInv ==
  \A r \in Ramasseurs, d \in Days :
    /\ session[r][d].explained <= Max({0, session[r][d].ecart})
    /\ ~Closed(r, d) => session[r][d].explained = 0

(* The open caisse that took out a bon is the last to have done so, that of its     *)
(* ramasseur, and has it among the handed over exactly when it was.          *)
CarriedBy(b, r, d) ==
  /\ bon[b].status \in {"EN_ROUTE", "REMIS", "ARCHIVE"} /\ bon[b].ramasseur = r
  /\ b \in session[r][d].remis <=> bon[b].status # "EN_ROUTE"
  /\ \A m \in Ramasseurs, e \in Days : b \in session[m][e].out => e <= d
  /\ \A m \in Ramasseurs, e \in Days : OpenlyCarries(m, e, b) => m = r /\ e = d

CarryOf(b) ==
  Plain(b) =>
    /\ \A r \in Ramasseurs, d \in Days : OpenlyCarries(r, d, b) => CarriedBy(b, r, d)
    /\ bon[b].status = "EN_ROUTE" =>
         \E r \in Ramasseurs, d \in Days : bon[b].ramasseur = r /\ OpenlyCarries(r, d, b)

(* A caisse that is closing read the bon on the way or has it handed over; a       *)
(* closed one has it handed over or brought back.                            *)
SettledOf(b) ==
  Plain(b) =>
    \A r \in Ramasseurs, d \in Days : b \in session[r][d].out =>
      /\ closing[r][d] # None => b \in closing[r][d] \cup session[r][d].remis
      /\ Closed(r, d) => b \in session[r][d].remis \cup session[r][d].rendu

CarryInv == \A b \in Bons : CarryOf(b) /\ SettledOf(b)

BonInv == TypeOK /\ RowsInv /\ PaidInv /\ ChargeInv /\ SurplusInv /\ CarryInv

-----------------------------------------------------------------------------
(* Lemmas *)

\* A function of two keys changed at one pair of keys.
LEMMA TwoKeys ==
  ASSUME NEW S, NEW T, NEW V, NEW f \in [S -> [T -> V]], NEW a \in S, NEW b \in T, NEW v \in V
  PROVE  /\ [f EXCEPT ![a][b] = v] \in [S -> [T -> V]]
         /\ [f EXCEPT ![a][b] = v][a][b] = v
         /\ \A c \in S, e \in T : c # a \/ e # b => [f EXCEPT ![a][b] = v][c][e] = f[c][e]
  OBVIOUS

\* The larger of two numbers.
LEMMA MaxOfTwo ==
  ASSUME NEW a \in Int, NEW b \in Int
  PROVE  Max({a, b}) = IF a >= b THEN a ELSE b
<1> DEFINE m == IF a >= b THEN a ELSE b
<1>1. m \in {a, b} /\ \A y \in {a, b} : m >= y
  OBVIOUS
<1>2. \A x \in {a, b} : (\A y \in {a, b} : x >= y) => x = m
  OBVIOUS
<1> HIDE DEF m
<1>3. (CHOOSE x \in {a, b} : \A y \in {a, b} : x >= y) = m
  BY <1>1, <1>2
<1> QED BY <1>3 DEF Max, m

\* The smaller of two numbers.
LEMMA MinOfTwo ==
  ASSUME NEW a \in Int, NEW b \in Int
  PROVE  Min({a, b}) = IF a <= b THEN a ELSE b
<1> DEFINE m == IF a <= b THEN a ELSE b
<1>1. m \in {a, b} /\ \A y \in {a, b} : m =< y
  OBVIOUS
<1>2. \A x \in {a, b} : (\A y \in {a, b} : x =< y) => x = m
  OBVIOUS
<1> HIDE DEF m
<1>3. (CHOOSE x \in {a, b} : \A y \in {a, b} : x =< y) = m
  BY <1>1, <1>2
<1> QED BY <1>3 DEF Min, m

\* What a correction takes of a surplus is a number, within what is left of it.
LEMMA CoveredIsLeft ==
  ASSUME TypeOK, NEW r \in Ramasseurs, NEW d \in Days, NEW b \in Bons
  PROVE  LET this == session[r][d]  s == <<r, d>> IN
         /\ Covered(b, s) \in Nat /\ Surplus(s) \in Nat
         /\ this.explained <= Max({0, this.ecart}) =>
              this.explained + Covered(b, s) <= Max({0, this.ecart})
<1> DEFINE this == session[r][d]
           s == <<r, d>>
           whole == Max({0, this.ecart})
           left == whole - this.explained
<1>1. this.ecart \in Int /\ this.explained \in Nat
  BY DEF TypeOK, Session
<1>2. whole = IF 0 >= this.ecart THEN 0 ELSE this.ecart
  BY <1>1, MaxOfTwo
<1>3. whole \in Nat /\ left \in Int
  BY <1>1, <1>2
<1>4. Surplus(s) = Max({0, left})
  BY DEF Surplus
<1> HIDE DEF this, whole, left
<1>5. Surplus(s) = IF 0 >= left THEN 0 ELSE left
  BY <1>3, <1>4, MaxOfTwo
<1>6. Surplus(s) \in Nat
  BY <1>3, <1>5
<1>7. Covered(b, s) = IF Surplus(s) <= 1 THEN Surplus(s) ELSE 1
  <2> HIDE DEF s
  <2>1. Covered(b, s) = Min({Surplus(s), 1})
    BY DEF Covered, NetOf
  <2> QED BY <1>6, <2>1, MinOfTwo
<1>8. /\ Covered(b, s) \in Nat /\ Surplus(s) \in Nat
      /\ this.explained <= whole => this.explained + Covered(b, s) <= whole
  <2> HIDE DEF s
  <2> QED BY <1>1, <1>3, <1>5, <1>6, <1>7 DEF left
<1> QED BY <1>8 DEF this, whole

\* Two members of a finite set are more than one.
LEMMA MoreThanOne ==
  ASSUME NEW S, IsFiniteSet(S), NEW x \in S, NEW y \in S, x # y
  PROVE  Cardinality(S) > 1
<1>1. IsFiniteSet({x}) /\ Cardinality({x}) = 1
  BY FS_Singleton
<1>2. Cardinality({x} \cup {y}) = 2
  BY <1>1, FS_AddElement
<1>3. Cardinality({x} \cup {y}) <= Cardinality(S) /\ Cardinality(S) \in Nat
  BY FS_Subset, FS_CardinalityType
<1> QED BY <1>2, <1>3

\* The caisses that took out a bon are finitely many.
LEMMA CarriersAreFinite ==
  ASSUME BonAssumption, NEW b
  PROVE  IsFiniteSet(Latest(Carried(b)))
<1>1. IsFiniteSet(Ramasseurs) /\ IsFiniteSet(Days)
  BY FS_Interval DEF BonAssumption, Days
<1>2. IsFiniteSet(Ramasseurs \X Days)
  BY <1>1, FS_Product
<1>3. Latest(Carried(b)) \in SUBSET (Ramasseurs \X Days)
  BY DEF Latest, Carried
<1> QED BY <1>2, <1>3, FS_Subset

(* A bon whose row and whose caisses stay as they are, but for a closing that       *)
(* gives up, keeps its part of the invariant.                                *)
LEMMA BonUntouched ==
  ASSUME NEW b \in Bons, CarryOf(b), SettledOf(b), bon'[b] = bon[b],
         \A r \in Ramasseurs, d \in Days :
           /\ b \in session'[r][d].out <=> b \in session[r][d].out
           /\ b \in session[r][d].out =>
                /\ session'[r][d].status = session[r][d].status
                /\ b \in session'[r][d].remis <=> b \in session[r][d].remis
                /\ b \in session'[r][d].rendu <=> b \in session[r][d].rendu
                /\ closing'[r][d] # None => closing'[r][d] = closing[r][d]
  PROVE  CarryOf(b)' /\ SettledOf(b)'
<1>1. \A r \in Ramasseurs, d \in Days : OpenlyCarries(r, d, b)' <=> OpenlyCarries(r, d, b)
  BY DEF OpenlyCarries, Closed
<1>2. Plain(b)' <=> Plain(b)
  BY DEF Plain
<1>3. ASSUME NEW r \in Ramasseurs, NEW d \in Days, OpenlyCarries(r, d, b), CarriedBy(b, r, d)
      PROVE  CarriedBy(b, r, d)'
  BY <1>1, <1>3 DEF CarriedBy, OpenlyCarries
<1>4. CarryOf(b)'
  BY <1>1, <1>2, <1>3 DEF CarryOf
<1>5. SettledOf(b)'
  <2> SUFFICES ASSUME Plain(b), NEW r \in Ramasseurs, NEW d \in Days, b \in session[r][d].out
               PROVE  /\ closing'[r][d] # None => b \in closing'[r][d] \cup session'[r][d].remis
                      /\ Closed(r, d)' => b \in session'[r][d].remis \cup session'[r][d].rendu
    BY <1>2 DEF SettledOf
  <2>1. /\ closing[r][d] # None => b \in closing[r][d] \cup session[r][d].remis
        /\ Closed(r, d) => b \in session[r][d].remis \cup session[r][d].rendu
    BY DEF SettledOf
  <2>2. Closed(r, d)' <=> Closed(r, d)
    BY DEF Closed
  <2> QED BY <2>1, <2>2
<1> QED BY <1>4, <1>5

-----------------------------------------------------------------------------
(* Every step preserves the invariant *)

(* A day, a charge created or annulled, a preparation begun, read or given up:     *)
(* no bon and no caisse moves.                                               *)
LEMMA QuietStepsKeep ==
  ASSUME BonInv, BonAssumption,
         NextDay \/ ChargeStep \/ AbortPrepare
           \/ (\E chosen \in SUBSET Parcels : LockPrepare(chosen))
           \/ (\E included \in SUBSET Charges : ReadCharges(included))
  PROVE  BonInv'
<1>0. TypeOK /\ RowsInv /\ PaidInv /\ ChargeInv /\ SurplusInv /\ CarryInv
  BY DEF BonInv
<1>1. /\ bon' = bon /\ paid' = paid /\ session' = session /\ closing' = closing
      /\ corrections' = corrections /\ trips' = trips
  BY DEF NextDay, ChargeStep, NewCharge, AnnulCharge, AbortPrepare, LockPrepare, ReadCharges
<1>2. today \in Days /\ LastDay \in Nat /\ today' \in Days /\ today <= today'
  <2>1. today \in Days /\ LastDay \in Nat
    BY <1>0 DEF TypeOK, BonAssumption
  <2>2. CASE NextDay
    BY <2>1, <2>2 DEF NextDay, Days
  <2>3. CASE ~NextDay
    <3>1. today' = today
      BY <2>3 DEF ChargeStep, NewCharge, AnnulCharge, AbortPrepare, LockPrepare, ReadCharges
    <3> QED BY <2>1, <3>1 DEF Days
  <2> QED BY <2>1, <2>2, <2>3
<1>3. preparing' \in [parcels: SUBSET Parcels, charges: SUBSET Charges,
                      held: SUBSET Charges, read: BOOLEAN] \cup {None}
  <2>1. ASSUME NEW included \in SUBSET Charges, ReadCharges(included)
        PROVE  preparing' \in [parcels: SUBSET Parcels, charges: SUBSET Charges,
                               held: SUBSET Charges, read: BOOLEAN]
    BY <1>0, <2>1 DEF ReadCharges, TypeOK
  <2>2. ASSUME NEW chosen \in SUBSET Parcels, LockPrepare(chosen)
        PROVE  preparing' \in [parcels: SUBSET Parcels, charges: SUBSET Charges,
                               held: SUBSET Charges, read: BOOLEAN]
    BY <2>2 DEF LockPrepare
  <2>3. CASE NextDay \/ ChargeStep \/ AbortPrepare
    BY <1>0, <2>3 DEF NextDay, ChargeStep, NewCharge, AnnulCharge, AbortPrepare, TypeOK
  <2> QED BY <2>1, <2>2, <2>3
<1>4. /\ charge' \in [Charges -> Charge]
      /\ \A c \in Charges : charge'[c].status = "DEDUITE" => charge'[c] = charge[c]
  <2>1. ASSUME NEW c \in Charges, NEW status \in {"EN_ATTENTE", "ANNULEE"},
               charge' = [charge EXCEPT ![c].status = status]
        PROVE  /\ charge' \in [Charges -> Charge]
               /\ \A a \in Charges : charge'[a].status = "DEDUITE" => charge'[a] = charge[a]
    <3> DEFINE row == [charge[c] EXCEPT !.status = status]
    <3>1. row \in Charge /\ row.status = status
      BY <1>0 DEF TypeOK, Charge
    <3>2. charge' = [charge EXCEPT ![c] = row]
      BY <2>1
    <3> HIDE DEF row
    <3> QED BY <1>0, <3>1, <3>2 DEF TypeOK
  <2>2. CASE ChargeStep
    <3>1. PICK c \in Charges : NewCharge(c) \/ AnnulCharge(c)
      BY <2>2 DEF ChargeStep
    <3>2. charge' = [charge EXCEPT ![c].status = "EN_ATTENTE"]
            \/ charge' = [charge EXCEPT ![c].status = "ANNULEE"]
      BY <3>1 DEF NewCharge, AnnulCharge
    <3> QED BY <2>1, <3>2
  <2>3. CASE ~ChargeStep
    <3>1. charge' = charge
      BY <2>3 DEF NextDay, AbortPrepare, LockPrepare, ReadCharges
    <3> QED BY <1>0, <3>1 DEF TypeOK
  <2> QED BY <2>2, <2>3
<1>5. TypeOK'
  BY <1>0, <1>1, <1>2, <1>3, <1>4 DEF TypeOK
<1>6. RowsInv'
  BY <1>0, <1>1, <1>2 DEF RowsInv, Closed, Days
<1>7. PaidInv' /\ SurplusInv'
  BY <1>0, <1>1 DEF PaidInv, SurplusInv, Is, Closed
<1>8. ChargeInv'
  BY <1>0, <1>1, <1>4 DEF ChargeInv, Active
<1>9. CarryInv'
  BY <1>0, <1>1, BonUntouched DEF CarryInv
<1> QED BY <1>5, <1>6, <1>7, <1>8, <1>9 DEF BonInv

\* A bon prepared: no caisse has taken it out, its charges are its own.
LEMMA WritePrepareKeeps ==
  ASSUME BonInv, BonAssumption, NEW b \in Bons, WritePrepare(b)
  PROVE  BonInv'
<1> DEFINE row == [status |-> "PREPARE", parcels |-> preparing.parcels,
                   charges |-> preparing.charges, ramasseur |-> None, certificate |-> FALSE,
                   ambiguous |-> FALSE]
           deducted == [status |-> "DEDUITE", bon |-> b]
<1>0. TypeOK /\ RowsInv /\ PaidInv /\ ChargeInv /\ SurplusInv /\ CarryInv
  BY DEF BonInv
<1>1. /\ bon[b] = None /\ bon' = [bon EXCEPT ![b] = row]
      /\ charge' = [c \in Charges |-> IF c \in preparing.charges THEN deducted ELSE charge[c]]
      /\ preparing' = None /\ today' = today /\ paid' = paid /\ session' = session
      /\ closing' = closing /\ corrections' = corrections /\ trips' = trips
  BY DEF WritePrepare
<1>2. /\ preparing.parcels \in SUBSET Parcels /\ preparing.charges \in SUBSET Charges
  BY <1>0 DEF WritePrepare, TypeOK
<1>3. /\ row \in Bon /\ row # None /\ row.status = "PREPARE" /\ row.certificate = FALSE
      /\ row.charges = preparing.charges
  <2>1. row \in Bon
    BY <1>2 DEF Bon, BonStatus
  <2>2. row # None
    BY <2>1 DEF BonAssumption
  <2> QED BY <2>1, <2>2
<1>4. deducted \in Charge /\ deducted.status = "DEDUITE" /\ deducted.bon = b
  BY DEF Charge
<1> HIDE DEF row, deducted
<1>5. /\ bon' \in [Bons -> Bon \cup {None}] /\ bon'[b] = row
      /\ \A a \in Bons : a # b => bon'[a] = bon[a]
  BY <1>0, <1>1, <1>3 DEF TypeOK
<1>6. /\ charge' \in [Charges -> Charge]
      /\ \A c \in Charges : c \in preparing.charges => charge'[c] = deducted
      /\ \A c \in Charges : c \notin preparing.charges => charge'[c] = charge[c]
  BY <1>0, <1>1, <1>4 DEF TypeOK
<1>7. TypeOK'
  BY <1>0, <1>1, <1>5, <1>6 DEF TypeOK
<1>8. RowsInv'
  BY <1>0, <1>1, <1>3, <1>5, <1>7 DEF RowsInv, Closed, TypeOK, Session
<1>9. PaidInv'
  BY <1>0, <1>1, <1>3, <1>5 DEF PaidInv, Is
<1>10. SurplusInv'
  BY <1>0, <1>1 DEF SurplusInv, Closed
<1>11. ChargeInv'
  <2> SUFFICES ASSUME NEW c \in Charges, charge'[c].status = "DEDUITE"
               PROVE  /\ charge'[c].bon \in Bons /\ bon'[charge'[c].bon] # None
                      /\ bon'[charge'[c].bon].status # "ANNULE"
                      /\ c \in bon'[charge'[c].bon].charges
    BY DEF ChargeInv, Active
  <2>1. CASE c \in preparing.charges
    BY <1>3, <1>4, <1>5, <1>6, <2>1
  <2>2. CASE c \notin preparing.charges
    <3>1. /\ charge'[c] = charge[c] /\ charge[c].bon \in Bons /\ Active(charge[c].bon)
          /\ c \in bon[charge[c].bon].charges
      BY <1>0, <1>6, <2>2 DEF ChargeInv
    <3>2. charge[c].bon # b
      BY <1>1, <3>1 DEF Active
    <3> QED BY <1>5, <3>1, <3>2 DEF Active
  <2> QED BY <2>1, <2>2
<1>12. CarryInv'
  <2> SUFFICES ASSUME NEW a \in Bons
               PROVE  CarryOf(a)' /\ SettledOf(a)'
    BY DEF CarryInv
  <2>1. CASE a # b
    BY <1>0, <1>1, <1>5, <2>1, BonUntouched DEF CarryInv
  <2>2. CASE a = b
    <3>1. \A r \in Ramasseurs, d \in Days : a \notin session'[r][d].out
      BY <1>0, <1>1, <2>2 DEF RowsInv
    <3>2. bon'[a].status = "PREPARE"
      BY <1>3, <1>5, <2>2
    <3> QED BY <3>1, <3>2 DEF CarryOf, SettledOf, OpenlyCarries
  <2> QED BY <2>1, <2>2
<1> QED BY <1>7, <1>8, <1>9, <1>10, <1>11, <1>12 DEF BonInv

\* A bon not on the way is in no open caisse.
LEMMA AtTheDepot ==
  ASSUME BonInv, NEW b \in Bons, Plain(b), bon[b].status \in {"PREPARE", "ANNULE"},
         NEW r \in Ramasseurs, NEW d \in Days, b \in session[r][d].out
  PROVE  Closed(r, d) /\ closing[r][d] = None
<1>1. RowsInv /\ CarryOf(b)
  BY DEF BonInv, CarryInv
<1>2. Closed(r, d)
  BY <1>1 DEF CarryOf, OpenlyCarries, CarriedBy
<1> QED BY <1>1, <1>2 DEF RowsInv

(* Annuler le bon: it is in no open caisse, and no other bon's charges are given    *)
(* back.                                                                     *)
LEMMA CancelKeeps ==
  ASSUME BonInv, BonAssumption, NEW b \in Bons, Cancel(b)
  PROVE  BonInv'
<1> DEFINE row == [bon[b] EXCEPT !.status = "ANNULE", !.ramasseur = None]
           waits == [status |-> "EN_ATTENTE", bon |-> None]
<1>0. TypeOK /\ RowsInv /\ PaidInv /\ ChargeInv /\ SurplusInv /\ CarryInv
  BY DEF BonInv
<1>1. /\ bon[b] # None /\ bon[b].status = "PREPARE" /\ bon' = [bon EXCEPT ![b] = row]
      /\ charge' = [c \in Charges |-> IF charge[c].bon = b THEN waits ELSE charge[c]]
      /\ preparing' = preparing /\ today' = today /\ paid' = paid /\ session' = session
      /\ closing' = closing /\ corrections' = corrections /\ trips' = trips
  BY DEF Cancel, Is
<1>2. bon[b] \in Bon
  BY <1>0, <1>1 DEF TypeOK
<1>3. /\ row \in Bon /\ row # None /\ row.status = "ANNULE" /\ row.parcels = bon[b].parcels
      /\ row.charges = bon[b].charges /\ row.certificate = bon[b].certificate
      /\ row.ambiguous = bon[b].ambiguous
  <2>1. row \in Bon
    BY <1>2 DEF Bon, BonStatus
  <2>2. row # None
    BY <2>1 DEF BonAssumption
  <2>3. /\ row.status = "ANNULE" /\ row.parcels = bon[b].parcels
        /\ row.charges = bon[b].charges /\ row.certificate = bon[b].certificate
        /\ row.ambiguous = bon[b].ambiguous
    BY <1>2 DEF Bon
  <2> QED BY <2>1, <2>2, <2>3
<1>4. waits \in Charge /\ waits.status = "EN_ATTENTE"
  BY DEF Charge
<1> HIDE DEF row, waits
<1>5. /\ bon' \in [Bons -> Bon \cup {None}] /\ bon'[b] = row
      /\ \A a \in Bons : a # b => bon'[a] = bon[a]
  BY <1>0, <1>1, <1>3 DEF TypeOK
<1>6. /\ charge' \in [Charges -> Charge]
      /\ \A c \in Charges : charge'[c].status = "DEDUITE" =>
           charge'[c] = charge[c] /\ charge[c].bon # b
  BY <1>0, <1>1, <1>4 DEF TypeOK
<1>7. TypeOK'
  BY <1>0, <1>1, <1>5, <1>6 DEF TypeOK
<1>8. RowsInv'
  BY <1>0, <1>1, <1>3, <1>5, <1>7 DEF RowsInv, Closed, TypeOK, Session
<1>9. PaidInv'
  BY <1>0, <1>1, <1>3, <1>5 DEF PaidInv, Is
<1>10. SurplusInv'
  BY <1>0, <1>1 DEF SurplusInv, Closed
<1>11. ChargeInv'
  BY <1>0, <1>5, <1>6 DEF ChargeInv, Active
<1>12. CarryInv'
  <2> SUFFICES ASSUME NEW a \in Bons
               PROVE  CarryOf(a)' /\ SettledOf(a)'
    BY DEF CarryInv
  <2>1. CASE a # b
    BY <1>0, <1>1, <1>5, <2>1, BonUntouched DEF CarryInv
  <2>2. CASE a = b
    <3>1. Plain(a)' <=> Plain(a)
      BY <1>1, <1>3, <1>5, <2>2 DEF Plain
    <3>2. ASSUME Plain(a), NEW r \in Ramasseurs, NEW d \in Days, a \in session[r][d].out
          PROVE  Closed(r, d) /\ closing[r][d] = None
      BY <1>1, <2>2, <3>2, AtTheDepot
    <3>3. bon'[a].status = "ANNULE"
      BY <1>3, <1>5, <2>2
    <3>4. CarryOf(a)'
      BY <1>1, <3>1, <3>2, <3>3 DEF CarryOf, OpenlyCarries, Closed
    <3>5. SettledOf(a)'
      BY <1>0, <1>1, <3>1, <3>2 DEF CarryInv, SettledOf, Closed
    <3> QED BY <3>4, <3>5
  <2> QED BY <2>1, <2>2
<1> QED BY <1>7, <1>8, <1>9, <1>10, <1>11, <1>12 DEF BonInv

\* Archivage bons: a bon handed over stays handed over.
LEMMA ArchiveKeeps ==
  ASSUME BonInv, BonAssumption, NEW b \in Bons, Archive(b)
  PROVE  BonInv'
<1> DEFINE row == [bon[b] EXCEPT !.status = "ARCHIVE"]
<1>0. TypeOK /\ RowsInv /\ PaidInv /\ ChargeInv /\ SurplusInv /\ CarryInv
  BY DEF BonInv
<1>1. /\ bon[b] # None /\ bon[b].status = "REMIS" /\ bon' = [bon EXCEPT ![b] = row]
      /\ charge' = charge /\ preparing' = preparing /\ today' = today /\ paid' = paid
      /\ session' = session /\ closing' = closing /\ corrections' = corrections
      /\ trips' = trips
  BY DEF Archive, Is
<1>2. bon[b] \in Bon
  BY <1>0, <1>1 DEF TypeOK
<1>3. /\ row \in Bon /\ row # None /\ row.status = "ARCHIVE" /\ row.parcels = bon[b].parcels
      /\ row.charges = bon[b].charges /\ row.certificate = bon[b].certificate
      /\ row.ambiguous = bon[b].ambiguous /\ row.ramasseur = bon[b].ramasseur
  <2>1. row \in Bon
    BY <1>2 DEF Bon, BonStatus
  <2>2. row # None
    BY <2>1 DEF BonAssumption
  <2>3. /\ row.status = "ARCHIVE" /\ row.parcels = bon[b].parcels
        /\ row.charges = bon[b].charges /\ row.certificate = bon[b].certificate
        /\ row.ambiguous = bon[b].ambiguous /\ row.ramasseur = bon[b].ramasseur
    BY <1>2 DEF Bon
  <2> QED BY <2>1, <2>2, <2>3
<1> HIDE DEF row
<1>5. /\ bon' \in [Bons -> Bon \cup {None}] /\ bon'[b] = row
      /\ \A a \in Bons : a # b => bon'[a] = bon[a]
  BY <1>0, <1>1, <1>3 DEF TypeOK
<1>7. TypeOK'
  BY <1>0, <1>1, <1>5 DEF TypeOK
<1>8. RowsInv'
  BY <1>0, <1>1, <1>3, <1>5, <1>7 DEF RowsInv, Closed, TypeOK, Session
<1>9. PaidInv'
  BY <1>0, <1>1, <1>3, <1>5 DEF PaidInv, Is
<1>10. SurplusInv'
  BY <1>0, <1>1 DEF SurplusInv, Closed
<1>11. ChargeInv'
  BY <1>0, <1>1, <1>3, <1>5 DEF ChargeInv, Active
<1>12. CarryInv'
  <2> SUFFICES ASSUME NEW a \in Bons
               PROVE  CarryOf(a)' /\ SettledOf(a)'
    BY DEF CarryInv
  <2>1. CASE a # b
    BY <1>0, <1>1, <1>5, <2>1, BonUntouched DEF CarryInv
  <2>2. CASE a = b
    <3>1. Plain(a)' <=> Plain(a)
      BY <1>1, <1>3, <1>5, <2>2 DEF Plain
    <3>2. \A r \in Ramasseurs, d \in Days : OpenlyCarries(r, d, a)' <=> OpenlyCarries(r, d, a)
      BY <1>1 DEF OpenlyCarries, Closed
    <3>3. ASSUME NEW r \in Ramasseurs, NEW d \in Days, CarriedBy(a, r, d)
          PROVE  CarriedBy(a, r, d)'
      BY <1>1, <1>3, <1>5, <2>2, <3>2, <3>3 DEF CarriedBy
    <3>4. CarryOf(a)'
      BY <1>0, <1>3, <1>5, <2>2, <3>1, <3>2, <3>3 DEF CarryInv, CarryOf
    <3>5. SettledOf(a)'
      BY <1>0, <1>1, <3>1 DEF CarryInv, SettledOf, Closed
    <3> QED BY <3>4, <3>5
  <2> QED BY <2>1, <2>2
<1> QED BY <1>7, <1>8, <1>9, <1>10, <1>11, <1>12 DEF BonInv

(* The hand-out's effect on the caisses: today's of the ramasseur takes the bon   *)
(* out anew, no other moves.                                                 *)
LEMMA CaisseTakesOut ==
  ASSUME TypeOK, NEW b \in Bons, NEW r \in Ramasseurs, HandOut(b, r)
  PROVE  LET old == session[r][today]  new == session'[r][today] IN
         /\ session' \in [Ramasseurs -> [Days -> Session]]
         /\ \A m \in Ramasseurs, e \in Days :
              m # r \/ e # today => session'[m][e] = session[m][e]
         /\ new.status = old.status /\ new.out = old.out \cup {b}
         /\ new.remis = old.remis \ {b} /\ new.rendu = old.rendu \ {b}
         /\ new.ecart = old.ecart /\ new.explained = old.explained
<1> DEFINE old == session[r][today]
           new == [old EXCEPT !.out = @ \cup {b}, !.remis = @ \ {b}, !.rendu = @ \ {b}]
<1>1. today \in Days /\ old \in Session
  BY DEF TypeOK
<1>2. session' = [session EXCEPT ![r][today] = new]
  BY DEF HandOut
<1> HIDE DEF old
<1>3. /\ new \in Session /\ new.status = old.status /\ new.out = old.out \cup {b}
      /\ new.remis = old.remis \ {b} /\ new.rendu = old.rendu \ {b}
      /\ new.ecart = old.ecart /\ new.explained = old.explained
  BY <1>1 DEF Session
<1> HIDE DEF new
<1>4. /\ session' \in [Ramasseurs -> [Days -> Session]] /\ session'[r][today] = new
      /\ \A m \in Ramasseurs, e \in Days :
           m # r \/ e # today => session'[m][e] = session[m][e]
  BY <1>1, <1>2, <1>3, TwoKeys DEF TypeOK
<1> QED BY <1>3, <1>4 DEF old

\* A hand-out: the only open caisse that has the bon out is now that of today.
LEMMA HandOutKeeps ==
  ASSUME BonInv, BonAssumption, NEW b \in Bons, NEW r \in Ramasseurs, HandOut(b, r)
  PROVE  BonInv'
<1> DEFINE row == [bon[b] EXCEPT !.status = "EN_ROUTE", !.ramasseur = r]
<1>0. TypeOK /\ RowsInv /\ PaidInv /\ ChargeInv /\ SurplusInv /\ CarryInv
  BY DEF BonInv
<1>1. /\ bon[b] # None /\ bon[b].status = "PREPARE" /\ bon' = [bon EXCEPT ![b] = row]
      /\ charge' = charge /\ preparing' = preparing /\ today' = today /\ paid' = paid
      /\ closing' = closing /\ corrections' = corrections /\ trips' \in 0..MaxTrips
      /\ closing[r][today] = None /\ ~Closed(r, today)
  <2>1. trips' = trips + 1 /\ trips < MaxTrips /\ trips \in 0..MaxTrips /\ MaxTrips \in Nat
    BY <1>0 DEF HandOut, TypeOK, BonAssumption
  <2>2. trips' \in 0..MaxTrips
    BY <2>1
  <2> QED BY <2>2 DEF HandOut, Is, SessionFree
<1>2. bon[b] \in Bon /\ today \in Days
  BY <1>0, <1>1 DEF TypeOK
<1>3. /\ row \in Bon /\ row # None /\ row.status = "EN_ROUTE" /\ row.parcels = bon[b].parcels
      /\ row.charges = bon[b].charges /\ row.certificate = bon[b].certificate
      /\ row.ambiguous = bon[b].ambiguous /\ row.ramasseur = r
  <2>1. row \in Bon
    BY <1>2 DEF Bon, BonStatus
  <2>2. row # None
    BY <2>1 DEF BonAssumption
  <2>3. /\ row.status = "EN_ROUTE" /\ row.parcels = bon[b].parcels
        /\ row.charges = bon[b].charges /\ row.certificate = bon[b].certificate
        /\ row.ambiguous = bon[b].ambiguous /\ row.ramasseur = r
    BY <1>2 DEF Bon
  <2> QED BY <2>1, <2>2, <2>3
<1> HIDE DEF row
<1>5. /\ bon' \in [Bons -> Bon \cup {None}] /\ bon'[b] = row
      /\ \A a \in Bons : a # b => bon'[a] = bon[a]
  BY <1>0, <1>1, <1>3 DEF TypeOK
<1>6. LET old == session[r][today]  new == session'[r][today] IN
      /\ session' \in [Ramasseurs -> [Days -> Session]]
      /\ \A m \in Ramasseurs, e \in Days : m # r \/ e # today => session'[m][e] = session[m][e]
      /\ new.status = old.status /\ new.out = old.out \cup {b}
      /\ new.remis = old.remis \ {b} /\ new.rendu = old.rendu \ {b}
      /\ new.ecart = old.ecart /\ new.explained = old.explained
  BY <1>0, CaisseTakesOut
<1>7. TypeOK'
  BY <1>0, <1>1, <1>5, <1>6 DEF TypeOK
<1>a. \A m \in Ramasseurs, e \in Days : Closed(m, e)' <=> Closed(m, e)
  BY <1>2, <1>6 DEF Closed
<1>b. \A m \in Ramasseurs, e \in Days : \A a : a \in session'[m][e].out <=>
        a \in session[m][e].out \/ (m = r /\ e = today /\ a = b)
  BY <1>2, <1>6
<1>8. RowsInv'
  <2>1. ASSUME NEW m \in Ramasseurs, NEW e \in Days, NEW a \in session'[m][e].out
        PROVE  bon'[a] # None /\ e <= today'
    <3>1. a \in Bons
      BY <1>7 DEF TypeOK, Session
    <3>2. CASE m = r /\ e = today /\ a = b
      BY <1>1, <1>2, <1>3, <1>5, <3>2 DEF Days
    <3>3. CASE a \in session[m][e].out
      BY <1>0, <1>1, <1>3, <1>5, <3>1, <3>3 DEF RowsInv
    <3> QED BY <1>b, <3>2, <3>3
  <2>2. ASSUME NEW m \in Ramasseurs, NEW e \in Days, closing'[m][e] # None
        PROVE  ~Closed(m, e)' /\ closing'[m][e] \subseteq session'[m][e].out
    BY <1>0, <1>1, <1>a, <1>b, <2>2 DEF RowsInv
  <2> QED BY <2>1, <2>2 DEF RowsInv
<1>9. PaidInv'
  BY <1>0, <1>1, <1>3, <1>5 DEF PaidInv, Is
<1>10. SurplusInv'
  <2>1. \A m \in Ramasseurs, e \in Days :
          /\ session'[m][e].ecart = session[m][e].ecart
          /\ session'[m][e].explained = session[m][e].explained
    BY <1>2, <1>6
  <2> QED BY <1>0, <1>a, <2>1 DEF SurplusInv
<1>11. ChargeInv'
  BY <1>0, <1>1, <1>3, <1>5 DEF ChargeInv, Active
<1>12. CarryInv'
  <2> SUFFICES ASSUME NEW a \in Bons
               PROVE  CarryOf(a)' /\ SettledOf(a)'
    BY DEF CarryInv
  <2>1. CASE a # b
    <3>1. ASSUME NEW m \in Ramasseurs, NEW e \in Days
          PROVE  /\ a \in session'[m][e].out <=> a \in session[m][e].out
                 /\ session'[m][e].status = session[m][e].status
                 /\ a \in session'[m][e].remis <=> a \in session[m][e].remis
                 /\ a \in session'[m][e].rendu <=> a \in session[m][e].rendu
      BY <1>2, <1>6, <2>1
    <3> QED BY <1>0, <1>1, <1>5, <2>1, <3>1, BonUntouched DEF CarryInv
  <2>2. CASE a = b /\ Plain(a)
    <3>1. \A m \in Ramasseurs, e \in Days : a \in session[m][e].out =>
            Closed(m, e) /\ closing[m][e] = None /\ e <= today
      BY <1>0, <1>1, <2>2, AtTheDepot DEF RowsInv
    <3>2. \A m \in Ramasseurs, e \in Days :
            OpenlyCarries(m, e, a)' <=> m = r /\ e = today
      BY <1>1, <1>2, <1>a, <1>b, <2>2, <3>1 DEF OpenlyCarries
    <3>3. \A m \in Ramasseurs, e \in Days : a \in session'[m][e].out => e <= today
      BY <1>2, <1>b, <3>1 DEF Days
    <3>4. CarriedBy(a, r, today)'
      <4>1. a \notin session'[r][today].remis
        BY <1>6, <2>2
      <4>2. /\ bon'[a].status = "EN_ROUTE" /\ bon'[a].ramasseur = r
        BY <1>3, <1>5, <2>2
      <4> QED BY <1>1, <3>2, <3>3, <4>1, <4>2 DEF CarriedBy
    <3>5. CarryOf(a)'
      BY <1>1, <1>2, <1>3, <1>5, <2>2, <3>2, <3>4 DEF CarryOf
    <3>6. SettledOf(a)'
      <4> SUFFICES ASSUME NEW m \in Ramasseurs, NEW e \in Days, a \in session'[m][e].out
                   PROVE  /\ closing'[m][e] # None =>
                               a \in closing'[m][e] \cup session'[m][e].remis
                          /\ Closed(m, e)' => a \in session'[m][e].remis \cup session'[m][e].rendu
        BY DEF SettledOf
      <4>1. CASE m = r /\ e = today
        BY <1>1, <1>a, <4>1
      <4>2. CASE m # r \/ e # today
        <5>1. a \in session[m][e].out /\ session'[m][e] = session[m][e]
          BY <1>6, <1>b, <4>2
        <5>2. Closed(m, e) /\ closing[m][e] = None
          BY <3>1, <5>1
        <5> QED BY <1>0, <1>1, <2>2, <5>1, <5>2 DEF CarryInv, SettledOf
      <4> QED BY <4>1, <4>2
    <3> QED BY <3>5, <3>6
  <2>3. CASE a = b /\ ~Plain(a)
    <3>1. ~Plain(a)'
      BY <1>1, <1>3, <1>5, <2>3 DEF Plain
    <3> QED BY <3>1 DEF CarryOf, SettledOf
  <2> QED BY <2>1, <2>2, <2>3
<1> QED BY <1>7, <1>8, <1>9, <1>10, <1>11, <1>12 DEF BonInv

(* The Remis scan's effect on the caisses: none, or one that carries the bon       *)
(* openly has it among the handed over.                                      *)
LEMMA CaisseMarks ==
  ASSUME TypeOK, NEW b \in Bons, MarkRemis(b)
  PROVE  /\ session' \in [Ramasseurs -> [Days -> Session]]
         /\ \A m \in Ramasseurs, e \in Days :
              LET old == session[m][e]  new == session'[m][e] IN
              /\ new.status = old.status /\ new.out = old.out /\ new.rendu = old.rendu
              /\ new.ecart = old.ecart /\ new.explained = old.explained
              /\ \A a : a # b => (a \in new.remis <=> a \in old.remis)
              /\ b \in old.remis => b \in new.remis
         /\ \/ CashLines(b) = {}
            \/ \E r \in Ramasseurs, d \in Days :
                 <<r, d>> \in CashLines(b) /\ b \in session'[r][d].remis
<1>1. CASE CashLines(b) = {}
  BY <1>1 DEF MarkRemis, TypeOK
<1>2. CASE CashLines(b) # {}
  <2>1. PICK s \in CashLines(b) :
          session' = [session EXCEPT ![s[1]][s[2]].remis = @ \cup {b}]
    BY <1>2 DEF MarkRemis
  <2>2. PICK r \in Ramasseurs, d \in Days : s = <<r, d>>
    BY <2>1 DEF CashLines, Latest, Carried
  <2> DEFINE old == session[r][d]
             new == [old EXCEPT !.remis = @ \cup {b}]
  <2>3. session' = [session EXCEPT ![r][d] = new] /\ old \in Session
    BY <2>1, <2>2 DEF TypeOK
  <2> HIDE DEF old
  <2>4. /\ new \in Session /\ new.status = old.status /\ new.out = old.out
        /\ new.remis = old.remis \cup {b} /\ new.rendu = old.rendu
        /\ new.ecart = old.ecart /\ new.explained = old.explained
    BY <2>3 DEF Session
  <2> HIDE DEF new
  <2>5. /\ session' \in [Ramasseurs -> [Days -> Session]] /\ session'[r][d] = new
        /\ \A m \in Ramasseurs, e \in Days :
             m # r \/ e # d => session'[m][e] = session[m][e]
    BY <2>3, <2>4, TwoKeys DEF TypeOK
  <2>6. ASSUME NEW m \in Ramasseurs, NEW e \in Days
        PROVE  LET was == session[m][e]  is == session'[m][e] IN
               /\ is.status = was.status /\ is.out = was.out /\ is.rendu = was.rendu
               /\ is.ecart = was.ecart /\ is.explained = was.explained
               /\ \A a : a # b => (a \in is.remis <=> a \in was.remis)
               /\ b \in was.remis => b \in is.remis
    <3>1. CASE m = r /\ e = d
      BY <2>4, <2>5, <3>1 DEF old
    <3>2. CASE m # r \/ e # d
      BY <2>5, <3>2
    <3> QED BY <3>1, <3>2
  <2>7. <<r, d>> \in CashLines(b) /\ b \in session'[r][d].remis
    BY <2>1, <2>2, <2>4, <2>5
  <2> QED BY <2>5, <2>6, <2>7
<1> QED BY <1>1, <1>2

(* The bon scanned at the seller's: its parcels were not paid, so that no          *)
(* certificate stood for them, and the one open caisse that carries it marks it.   *)
LEMMA RemisKeeps ==
  ASSUME BonInv, BonAssumption, NEW b \in Bons, Remis(b)
  PROVE  BonInv'
<1> DEFINE row == [bon[b] EXCEPT !.status = "REMIS", !.certificate = TRUE]
<1>0. TypeOK /\ RowsInv /\ PaidInv /\ ChargeInv /\ SurplusInv /\ CarryInv
  BY DEF BonInv
<1>1. /\ bon[b] # None /\ bon[b].status = "EN_ROUTE" /\ bon[b].parcels \cap paid = {}
      /\ bon' = [bon EXCEPT ![b] = row] /\ paid' = paid \cup bon[b].parcels /\ MarkRemis(b)
      /\ charge' = charge /\ preparing' = preparing /\ today' = today
      /\ closing' = closing /\ corrections' = corrections /\ trips' = trips
  BY DEF Remis, Is
<1>2. bon[b] \in Bon
  BY <1>0, <1>1 DEF TypeOK
<1>3. /\ row \in Bon /\ row # None /\ row.status = "REMIS" /\ row.parcels = bon[b].parcels
      /\ row.charges = bon[b].charges /\ row.certificate = TRUE
      /\ row.ambiguous = bon[b].ambiguous /\ row.ramasseur = bon[b].ramasseur
  <2>1. row \in Bon
    BY <1>2 DEF Bon, BonStatus
  <2>2. row # None
    BY <2>1 DEF BonAssumption
  <2>3. /\ row.status = "REMIS" /\ row.parcels = bon[b].parcels
        /\ row.charges = bon[b].charges /\ row.certificate = TRUE
        /\ row.ambiguous = bon[b].ambiguous /\ row.ramasseur = bon[b].ramasseur
    BY <1>2 DEF Bon
  <2> QED BY <2>1, <2>2, <2>3
<1>4. bon[b].parcels \subseteq Parcels
  BY <1>2 DEF Bon
<1> HIDE DEF row
<1>5. /\ bon' \in [Bons -> Bon \cup {None}] /\ bon'[b] = row
      /\ \A a \in Bons : a # b => bon'[a] = bon[a]
  BY <1>0, <1>1, <1>3 DEF TypeOK
<1>6. /\ session' \in [Ramasseurs -> [Days -> Session]]
      /\ \A m \in Ramasseurs, e \in Days :
           LET old == session[m][e]  new == session'[m][e] IN
           /\ new.status = old.status /\ new.out = old.out /\ new.rendu = old.rendu
           /\ new.ecart = old.ecart /\ new.explained = old.explained
           /\ \A a : a # b => (a \in new.remis <=> a \in old.remis)
           /\ b \in old.remis => b \in new.remis
      /\ \/ CashLines(b) = {}
         \/ \E r \in Ramasseurs, d \in Days :
              <<r, d>> \in CashLines(b) /\ b \in session'[r][d].remis
  BY <1>0, <1>1, CaisseMarks
<1>7. TypeOK'
  BY <1>0, <1>1, <1>4, <1>5, <1>6 DEF TypeOK
<1>a. \A m \in Ramasseurs, e \in Days : Closed(m, e)' <=> Closed(m, e)
  BY <1>6 DEF Closed
<1>b. \A m \in Ramasseurs, e \in Days : session'[m][e].out = session[m][e].out
  BY <1>6
<1>8. RowsInv'
  <2>1. \A a \in Bons : bon[a] # None => bon'[a] # None
    BY <1>3, <1>5
  <2>2. \A m \in Ramasseurs, e \in Days : session[m][e].out \subseteq Bons
    BY <1>0 DEF TypeOK, Session
  <2> QED BY <1>0, <1>1, <1>a, <1>b, <2>1, <2>2 DEF RowsInv
<1>9. PaidInv'
  <2>1. /\ \A a \in Bons : Is(a, "REMIS") \/ Is(a, "ARCHIVE") => bon[a].certificate
        /\ \A a \in Bons : bon[a] # None /\ bon[a].certificate => bon[a].parcels \subseteq paid
        /\ \A p \in paid : \E a \in Bons :
             bon[a] # None /\ p \in bon[a].parcels /\ bon[a].certificate
        /\ \A p \in paid : \A a, c \in Bons :
             /\ bon[a] # None /\ p \in bon[a].parcels /\ bon[a].certificate
             /\ bon[c] # None /\ p \in bon[c].parcels /\ bon[c].certificate
             => a = c
    BY <1>0 DEF PaidInv
  <2>2. \A a \in Bons : (Is(a, "REMIS") \/ Is(a, "ARCHIVE"))' => bon'[a].certificate
    BY <1>3, <1>5, <2>1 DEF Is
  <2>3. \A a \in Bons : bon'[a] # None /\ bon'[a].certificate => bon'[a].parcels \subseteq paid'
    BY <1>1, <1>3, <1>5, <2>1
  <2>4. ASSUME NEW p \in paid'
        PROVE  \E a \in Bons : bon'[a] # None /\ p \in bon'[a].parcels /\ bon'[a].certificate
    <3>1. CASE p \in bon[b].parcels
      BY <1>3, <1>5, <3>1
    <3>2. CASE p \notin bon[b].parcels
      <4>1. PICK a \in Bons : bon[a] # None /\ p \in bon[a].parcels /\ bon[a].certificate
        BY <1>1, <2>1, <3>2
      <4>2. bon'[a] = bon[a]
        BY <1>5, <3>2, <4>1
      <4> QED BY <4>1, <4>2
    <3> QED BY <3>1, <3>2
  <2>5. ASSUME NEW p \in paid', NEW a \in Bons, NEW c \in Bons,
               bon'[a] # None /\ p \in bon'[a].parcels /\ bon'[a].certificate,
               bon'[c] # None /\ p \in bon'[c].parcels /\ bon'[c].certificate
        PROVE  a = c
    <3>1. CASE p \in bon[b].parcels
      <4>1. p \notin paid
        BY <1>1, <3>1
      <4>2. ASSUME NEW x \in Bons, x # b, bon'[x] # None, p \in bon'[x].parcels,
                   bon'[x].certificate
            PROVE  FALSE
        BY <1>5, <2>1, <4>1, <4>2
      <4> QED BY <2>5, <4>2
    <3>2. CASE p \notin bon[b].parcels
      <4>1. a # b /\ c # b /\ p \in paid
        BY <1>1, <1>3, <1>5, <2>5, <3>2
      <4> QED BY <1>5, <2>1, <2>5, <4>1
    <3> QED BY <3>1, <3>2
  <2> QED BY <2>2, <2>3, <2>4, <2>5 DEF PaidInv
<1>10. SurplusInv'
  <2>1. \A m \in Ramasseurs, e \in Days :
          /\ session'[m][e].ecart = session[m][e].ecart
          /\ session'[m][e].explained = session[m][e].explained
    BY <1>6
  <2> QED BY <1>0, <1>a, <2>1 DEF SurplusInv
<1>11. ChargeInv'
  BY <1>0, <1>1, <1>3, <1>5 DEF ChargeInv, Active
<1>12. CarryInv'
  <2> SUFFICES ASSUME NEW a \in Bons
               PROVE  CarryOf(a)' /\ SettledOf(a)'
    BY DEF CarryInv
  <2>1. CASE a # b
    <3>1. \A m \in Ramasseurs, e \in Days :
            /\ a \in session'[m][e].out <=> a \in session[m][e].out
            /\ session'[m][e].status = session[m][e].status
            /\ a \in session'[m][e].remis <=> a \in session[m][e].remis
            /\ a \in session'[m][e].rendu <=> a \in session[m][e].rendu
      BY <1>6, <2>1
    <3> QED BY <1>0, <1>1, <1>5, <2>1, <3>1, BonUntouched DEF CarryInv
  <2>2. CASE a = b /\ Plain(a)
    <3>1. CarryOf(a) /\ SettledOf(a)
      BY <1>0 DEF CarryInv
    <3>2. PICK r \in Ramasseurs, d \in Days : bon[a].ramasseur = r /\ OpenlyCarries(r, d, a)
      BY <1>1, <2>2, <3>1 DEF CarryOf
    <3>3. CarriedBy(a, r, d)
      BY <2>2, <3>1, <3>2 DEF CarryOf
    <3>4. CashLines(a) = {<<r, d>>}
      <4>1. {s \in Carried(a) : ~Closed(s[1], s[2])} = {<<r, d>>}
        <5>1. <<r, d>> \in {s \in Carried(a) : ~Closed(s[1], s[2])}
          BY <3>2 DEF Carried, OpenlyCarries
        <5>2. ASSUME NEW s \in {s \in Carried(a) : ~Closed(s[1], s[2])}
              PROVE  s = <<r, d>>
          <6>1. s \in Ramasseurs \X Days /\ a \in session[s[1]][s[2]].out /\ ~Closed(s[1], s[2])
            BY <5>2 DEF Carried
          <6>2. s = <<s[1], s[2]>> /\ s[1] \in Ramasseurs /\ s[2] \in Days
            BY <6>1
          <6>3. s[1] = r /\ s[2] = d
            BY <3>3, <6>1, <6>2 DEF CarriedBy, OpenlyCarries
          <6> QED BY <6>2, <6>3
        <5> QED BY <5>1, <5>2
      <4>2. d <= d
        BY DEF Days, BonAssumption
      <4> QED BY <4>1, <4>2 DEF CashLines, Latest
    <3>5. a \in session'[r][d].remis
      <4>1. CashLines(b) # {}
        BY <2>2, <3>4
      <4>2. PICK m \in Ramasseurs, e \in Days :
              <<m, e>> \in CashLines(b) /\ b \in session'[m][e].remis
        BY <1>6, <4>1
      <4>3. m = r /\ e = d
        BY <2>2, <3>4, <4>2
      <4> QED BY <2>2, <4>2, <4>3
    <3>6. \A m \in Ramasseurs, e \in Days : OpenlyCarries(m, e, a)' <=> OpenlyCarries(m, e, a)
      BY <1>a, <1>b DEF OpenlyCarries
    <3>7. bon'[a].status = "REMIS" /\ bon'[a].ramasseur = r
      BY <1>3, <1>5, <2>2, <3>2
    <3>8. CarriedBy(a, r, d)'
      BY <1>b, <3>3, <3>5, <3>6, <3>7 DEF CarriedBy
    <3>9. \A m \in Ramasseurs, e \in Days : OpenlyCarries(m, e, a)' => m = r /\ e = d
      BY <3>3, <3>6 DEF CarriedBy
    <3>10. CarryOf(a)'
      BY <3>7, <3>8, <3>9 DEF CarryOf
    <3>11. \A m \in Ramasseurs, e \in Days :
             /\ a \in session[m][e].remis => a \in session'[m][e].remis
             /\ session'[m][e].rendu = session[m][e].rendu
      BY <1>6, <2>2
    <3>12. SettledOf(a)'
      BY <1>1, <1>a, <1>b, <2>2, <3>1, <3>11 DEF SettledOf
    <3> QED BY <3>10, <3>12
  <2>3. CASE a = b /\ ~Plain(a)
    <3>1. ~Plain(a)'
      BY <1>1, <1>3, <1>5, <2>3 DEF Plain
    <3> QED BY <3>1 DEF CarryOf, SettledOf
  <2> QED BY <2>1, <2>2, <2>3
<1> QED BY <1>7, <1>8, <1>9, <1>10, <1>11, <1>12 DEF BonInv

(* A caisse begins to close: the bons it took out and did not read on the way       *)
(* are handed over.                                                          *)
LEMMA ReadCloseKeeps ==
  ASSUME BonInv, NEW r \in Ramasseurs, NEW d \in Days, ReadClose(r, d)
  PROVE  BonInv'
<1> DEFINE read == {b \in session[r][d].out : Is(b, "EN_ROUTE")}
<1>0. TypeOK /\ RowsInv /\ PaidInv /\ ChargeInv /\ SurplusInv /\ CarryInv
  BY DEF BonInv
<1>1. /\ ~Closed(r, d) /\ closing' = [closing EXCEPT ![r][d] = read]
      /\ bon' = bon /\ paid' = paid /\ charge' = charge /\ session' = session
      /\ preparing' = preparing /\ today' = today /\ corrections' = corrections
      /\ trips' = trips
  BY DEF ReadClose
<1>2. read \in SUBSET Bons /\ read \subseteq session[r][d].out
  BY <1>0 DEF TypeOK, Session
<1>3. \A b \in session[r][d].out : b \notin read => ~Is(b, "EN_ROUTE")
  OBVIOUS
<1> HIDE DEF read
<1>4. /\ closing' \in [Ramasseurs -> [Days -> (SUBSET Bons) \cup {None}]]
      /\ closing'[r][d] = read
      /\ \A m \in Ramasseurs, e \in Days : m # r \/ e # d => closing'[m][e] = closing[m][e]
  BY <1>0, <1>1, <1>2, TwoKeys DEF TypeOK
<1>5. TypeOK'
  BY <1>0, <1>1, <1>4 DEF TypeOK
<1>6. RowsInv'
  <2>1. ASSUME NEW m \in Ramasseurs, NEW e \in Days, closing'[m][e] # None
        PROVE  ~Closed(m, e) /\ closing'[m][e] \subseteq session[m][e].out
    <3>1. CASE m = r /\ e = d
      BY <1>1, <1>2, <1>4, <3>1
    <3>2. CASE m # r \/ e # d
      BY <1>0, <1>4, <2>1, <3>2 DEF RowsInv
    <3> QED BY <3>1, <3>2
  <2> QED BY <1>0, <1>1, <2>1 DEF RowsInv, Closed
<1>7. PaidInv' /\ ChargeInv' /\ SurplusInv'
  BY <1>0, <1>1 DEF PaidInv, ChargeInv, SurplusInv, Is, Active, Closed
<1>8. CarryInv'
  <2> SUFFICES ASSUME NEW b \in Bons
               PROVE  CarryOf(b)' /\ SettledOf(b)'
    BY DEF CarryInv
  <2>1. CarryOf(b) /\ SettledOf(b)
    BY <1>0 DEF CarryInv
  <2>2. CarryOf(b)'
    BY <1>1, <2>1 DEF CarryOf, CarriedBy, OpenlyCarries, Plain, Closed
  <2>3. SettledOf(b)'
    <3> SUFFICES ASSUME Plain(b), NEW m \in Ramasseurs, NEW e \in Days,
                        b \in session[m][e].out
                 PROVE  /\ closing'[m][e] # None => b \in closing'[m][e] \cup session[m][e].remis
                        /\ Closed(m, e) => b \in session[m][e].remis \cup session[m][e].rendu
      BY <1>1 DEF SettledOf, Plain, Closed
    <3>1. CASE m = r /\ e = d
      <4>1. CarriedBy(b, r, d)
        BY <1>1, <2>1, <3>1 DEF CarryOf, OpenlyCarries
      <4>2. b \in read \/ b \in session[r][d].remis
        BY <1>3, <3>1, <4>1 DEF CarriedBy, Is, Plain
      <4> QED BY <1>1, <1>4, <3>1, <4>2
    <3>2. CASE m # r \/ e # d
      BY <1>4, <2>1, <3>2 DEF SettledOf
    <3> QED BY <3>1, <3>2
  <2> QED BY <2>2, <2>3
<1> QED BY <1>5, <1>6, <1>7, <1>8 DEF BonInv

\* A closing given up: the caisse stays open, nothing else moves.
LEMMA AbortCloseKeeps ==
  ASSUME BonInv, NEW r \in Ramasseurs, NEW d \in Days, AbortClose(r, d)
  PROVE  BonInv'
<1>0. TypeOK /\ RowsInv /\ PaidInv /\ ChargeInv /\ SurplusInv /\ CarryInv
  BY DEF BonInv
<1>1. /\ closing' = [closing EXCEPT ![r][d] = None]
      /\ bon' = bon /\ paid' = paid /\ charge' = charge /\ session' = session
      /\ preparing' = preparing /\ today' = today /\ corrections' = corrections
      /\ trips' = trips
  BY DEF AbortClose
<1>2. /\ closing' \in [Ramasseurs -> [Days -> (SUBSET Bons) \cup {None}]]
      /\ closing'[r][d] = None
      /\ \A m \in Ramasseurs, e \in Days : m # r \/ e # d => closing'[m][e] = closing[m][e]
  <2> DEFINE Read == (SUBSET Bons) \cup {None}
  <2>1. closing \in [Ramasseurs -> [Days -> Read]] /\ None \in Read
    BY <1>0 DEF TypeOK
  <2> HIDE DEF Read
  <2>2. /\ closing' \in [Ramasseurs -> [Days -> Read]] /\ closing'[r][d] = None
        /\ \A m \in Ramasseurs, e \in Days : m # r \/ e # d => closing'[m][e] = closing[m][e]
    BY <1>1, <2>1, TwoKeys
  <2> QED BY <2>2 DEF Read
<1>3. TypeOK'
  BY <1>0, <1>1, <1>2 DEF TypeOK
<1>4. \A m \in Ramasseurs, e \in Days : closing'[m][e] # None => closing'[m][e] = closing[m][e]
  BY <1>2
<1>5. RowsInv'
  BY <1>0, <1>1, <1>4 DEF RowsInv, Closed
<1>6. PaidInv' /\ ChargeInv' /\ SurplusInv'
  BY <1>0, <1>1 DEF PaidInv, ChargeInv, SurplusInv, Is, Active, Closed
<1>7. CarryInv'
  BY <1>0, <1>1, <1>4, BonUntouched DEF CarryInv
<1> QED BY <1>3, <1>5, <1>6, <1>7 DEF BonInv

\* The closing's effect: one session is closed, what it read on the way is brought back.
LEMMA CaisseCloses ==
  ASSUME TypeOK, BonAssumption, NEW r \in Ramasseurs, NEW d \in Days,
         NEW ecart \in Surpluses, WriteClose(r, d, ecart)
  PROVE  LET old == session[r][d]  new == session'[r][d] IN
         /\ session' \in [Ramasseurs -> [Days -> Session]]
         /\ \A m \in Ramasseurs, e \in Days : m # r \/ e # d => session'[m][e] = session[m][e]
         /\ new.status = "CLOTUREE" /\ new.out = old.out /\ new.remis = old.remis
         /\ new.rendu = old.rendu \cup closing[r][d] /\ new.explained = old.explained
         /\ new.ecart = ecart
<1> DEFINE old == session[r][d]
           back == old.rendu \cup closing[r][d]
           new == [old EXCEPT !.status = "CLOTUREE", !.rendu = back, !.ecart = ecart]
<1>1. old \in Session /\ closing[r][d] \in SUBSET Bons /\ ecart \in Int
  <2>1. closing[r][d] \in (SUBSET Bons) \cup {None} /\ old \in Session
    BY DEF TypeOK
  <2>2. closing[r][d] # None
    BY DEF WriteClose
  <2>3. ecart \in Int
    BY DEF BonAssumption
  <2> QED BY <2>1, <2>2, <2>3
<1>2. session' = [session EXCEPT ![r][d] = new]
  BY DEF WriteClose, BringBack
<1>3. back \in SUBSET Bons
  BY <1>1 DEF Session
<1> HIDE DEF old, back
<1>4. /\ new \in Session /\ new.status = "CLOTUREE" /\ new.out = old.out
      /\ new.remis = old.remis /\ new.rendu = back /\ new.explained = old.explained
      /\ new.ecart = ecart
  BY <1>1, <1>3 DEF Session
<1> HIDE DEF new
<1>5. /\ session' \in [Ramasseurs -> [Days -> Session]] /\ session'[r][d] = new
      /\ \A m \in Ramasseurs, e \in Days : m # r \/ e # d => session'[m][e] = session[m][e]
  BY <1>2, <1>4, TwoKeys DEF TypeOK
<1> QED BY <1>4, <1>5 DEF old, back

(* A caisse closed: what it read on the way is at the depot again and in no open    *)
(* caisse, what it did not read was handed over.                             *)
LEMMA WriteCloseKeeps ==
  ASSUME BonInv, BonAssumption, NEW r \in Ramasseurs, NEW d \in Days,
         NEW ecart \in Surpluses, WriteClose(r, d, ecart)
  PROVE  BonInv'
<1> DEFINE read == closing[r][d]
<1>0. TypeOK /\ RowsInv /\ PaidInv /\ ChargeInv /\ SurplusInv /\ CarryInv
  BY DEF BonInv
<1>1. /\ read # None /\ closing' = [closing EXCEPT ![r][d] = None]
      /\ bon' = [b \in Bons |-> IF b \in read
                                THEN [bon[b] EXCEPT !.status = "PREPARE", !.ramasseur = None]
                                ELSE bon[b]]
      /\ paid' = paid /\ charge' = charge /\ preparing' = preparing /\ today' = today
      /\ corrections' = corrections /\ trips' = trips
  BY DEF WriteClose
<1>2. ~Closed(r, d) /\ read \subseteq session[r][d].out /\ read \subseteq Bons
  <2>1. read \in (SUBSET Bons) \cup {None}
    BY <1>0 DEF TypeOK
  <2>2. ~Closed(r, d) /\ read \subseteq session[r][d].out
    BY <1>0, <1>1 DEF RowsInv
  <2> QED BY <1>1, <2>1, <2>2
<1>3. LET old == session[r][d]  new == session'[r][d] IN
      /\ session' \in [Ramasseurs -> [Days -> Session]]
      /\ \A m \in Ramasseurs, e \in Days : m # r \/ e # d => session'[m][e] = session[m][e]
      /\ new.status = "CLOTUREE" /\ new.out = old.out /\ new.remis = old.remis
      /\ new.rendu = old.rendu \cup read /\ new.explained = old.explained
      /\ new.ecart = ecart
  BY <1>0, CaisseCloses
<1>4. \A b \in read : bon[b] # None /\ bon[b] \in Bon
  BY <1>0, <1>2 DEF RowsInv, TypeOK
<1> HIDE DEF read
<1>5. ASSUME NEW b \in Bons, b \in read
      PROVE  /\ bon'[b] \in Bon /\ bon'[b] # None /\ bon'[b].status = "PREPARE"
             /\ bon'[b].parcels = bon[b].parcels /\ bon'[b].charges = bon[b].charges
             /\ bon'[b].certificate = bon[b].certificate
             /\ bon'[b].ambiguous = bon[b].ambiguous
  <2> DEFINE row == [bon[b] EXCEPT !.status = "PREPARE", !.ramasseur = None]
  <2>1. row \in Bon
    BY <1>4, <1>5 DEF Bon, BonStatus
  <2>2. /\ row.status = "PREPARE" /\ row.parcels = bon[b].parcels
        /\ row.charges = bon[b].charges /\ row.certificate = bon[b].certificate
        /\ row.ambiguous = bon[b].ambiguous
    BY <1>4, <1>5 DEF Bon
  <2>3. bon'[b] = row
    BY <1>1, <1>5
  <2> HIDE DEF row
  <2>4. row # None
    BY <2>1 DEF BonAssumption
  <2> QED BY <2>1, <2>2, <2>3, <2>4
<1>6. ASSUME NEW b \in Bons, b \notin read
      PROVE  bon'[b] = bon[b]
  BY <1>1, <1>6
<1>7. bon' \in [Bons -> Bon \cup {None}]
  <2>1. \A b \in Bons : bon'[b] \in Bon \cup {None}
    BY <1>0, <1>5, <1>6 DEF TypeOK
  <2> QED BY <1>1, <2>1
<1>8. /\ closing' \in [Ramasseurs -> [Days -> (SUBSET Bons) \cup {None}]]
      /\ closing'[r][d] = None
      /\ \A m \in Ramasseurs, e \in Days : m # r \/ e # d => closing'[m][e] = closing[m][e]
  <2> DEFINE Read == (SUBSET Bons) \cup {None}
  <2>1. closing \in [Ramasseurs -> [Days -> Read]] /\ None \in Read
    BY <1>0 DEF TypeOK
  <2> HIDE DEF Read
  <2>2. /\ closing' \in [Ramasseurs -> [Days -> Read]] /\ closing'[r][d] = None
        /\ \A m \in Ramasseurs, e \in Days : m # r \/ e # d => closing'[m][e] = closing[m][e]
    <3>1. closing' = [closing EXCEPT ![r][d] = None]
      BY <1>1
    <3> QED BY <2>1, <3>1, TwoKeys
  <2> QED BY <2>2 DEF Read
<1>9. TypeOK'
  BY <1>0, <1>1, <1>3, <1>7, <1>8 DEF TypeOK
<1>a. /\ Closed(r, d)'
      /\ \A m \in Ramasseurs, e \in Days : m # r \/ e # d => (Closed(m, e)' <=> Closed(m, e))
      /\ \A m \in Ramasseurs, e \in Days : session'[m][e].out = session[m][e].out
  BY <1>3 DEF Closed
<1>10. RowsInv'
  <2>1. \A b \in Bons : bon[b] # None => bon'[b] # None
    BY <1>5, <1>6
  <2>2. \A m \in Ramasseurs, e \in Days : session[m][e].out \subseteq Bons
    BY <1>0 DEF TypeOK, Session
  <2>3. \A m \in Ramasseurs, e \in Days : \A b \in session'[m][e].out :
          bon'[b] # None /\ e <= today'
    <3> SUFFICES ASSUME NEW m \in Ramasseurs, NEW e \in Days, NEW b \in session'[m][e].out
                 PROVE  bon'[b] # None /\ e <= today'
      OBVIOUS
    <3>1. b \in session[m][e].out /\ b \in Bons
      BY <1>a, <2>2
    <3>2. bon[b] # None /\ e <= today
      BY <1>0, <3>1 DEF RowsInv
    <3> QED BY <1>1, <2>1, <3>1, <3>2
  <2>4. \A m \in Ramasseurs, e \in Days : closing'[m][e] # None =>
          ~Closed(m, e)' /\ closing'[m][e] \subseteq session'[m][e].out
    BY <1>0, <1>8, <1>a DEF RowsInv
  <2> QED BY <2>3, <2>4 DEF RowsInv
<1>11. PaidInv'
  <2>1. \A b \in Bons :
          /\ bon'[b] # None <=> bon[b] # None
          /\ bon[b] # None => /\ bon'[b].parcels = bon[b].parcels
                              /\ bon'[b].certificate = bon[b].certificate
                              /\ bon'[b].status \in {bon[b].status, "PREPARE"}
    BY <1>4, <1>5, <1>6
  <2>2. paid' = paid
    BY <1>1
  <2>3. \A b \in Bons : (Is(b, "REMIS") \/ Is(b, "ARCHIVE"))' => bon'[b].certificate
    BY <1>0, <2>1 DEF PaidInv, Is
  <2>4. \A b \in Bons : bon'[b] # None /\ bon'[b].certificate => bon'[b].parcels \subseteq paid'
    BY <1>0, <2>1, <2>2 DEF PaidInv
  <2>5. \A p \in paid' : \E b \in Bons :
          bon'[b] # None /\ p \in bon'[b].parcels /\ bon'[b].certificate
    BY <1>0, <2>1, <2>2 DEF PaidInv
  <2>6. \A p \in paid' : \A a, b \in Bons :
          /\ bon'[a] # None /\ p \in bon'[a].parcels /\ bon'[a].certificate
          /\ bon'[b] # None /\ p \in bon'[b].parcels /\ bon'[b].certificate
          => a = b
    BY <1>0, <2>1, <2>2 DEF PaidInv
  <2> QED BY <2>3, <2>4, <2>5, <2>6 DEF PaidInv
<1>12. ChargeInv'
  <2>1. \A b \in Bons : Active(b) =>
          bon'[b] # None /\ bon'[b].status # "ANNULE" /\ bon'[b].charges = bon[b].charges
    BY <1>5, <1>6 DEF Active
  <2> QED BY <1>0, <1>1, <2>1 DEF ChargeInv, Active
<1>13. SurplusInv'
  <2> SUFFICES ASSUME NEW m \in Ramasseurs, NEW e \in Days
               PROVE  /\ session'[m][e].explained <= Max({0, session'[m][e].ecart})
                      /\ ~Closed(m, e)' => session'[m][e].explained = 0
    BY DEF SurplusInv
  <2>1. CASE m = r /\ e = d
    <3>1. session'[m][e].explained = 0 /\ session'[m][e].ecart = ecart /\ ecart \in Int
      BY <1>0, <1>2, <1>3, <2>1 DEF SurplusInv, BonAssumption
    <3>2. 0 <= Max({0, ecart})
      BY <3>1, MaxOfTwo
    <3> QED BY <3>1, <3>2
  <2>2. CASE m # r \/ e # d
    <3>1. session'[m][e] = session[m][e] /\ (Closed(m, e)' <=> Closed(m, e))
      BY <1>3, <1>a, <2>2
    <3>2. /\ session[m][e].explained <= Max({0, session[m][e].ecart})
          /\ ~Closed(m, e) => session[m][e].explained = 0
      BY <1>0 DEF SurplusInv
    <3> QED BY <3>1, <3>2
  <2> QED BY <2>1, <2>2
<1>14. CarryInv'
  <2> SUFFICES ASSUME NEW b \in Bons
               PROVE  CarryOf(b)' /\ SettledOf(b)'
    BY DEF CarryInv
  <2>0. CarryOf(b) /\ SettledOf(b)
    BY <1>0 DEF CarryInv
  <2>1. CASE b \notin session[r][d].out
    <3>1. b \notin read
      BY <1>2, <2>1
    <3>2. \A m \in Ramasseurs, e \in Days :
            /\ b \in session'[m][e].out <=> b \in session[m][e].out
            /\ b \in session[m][e].out =>
                 /\ session'[m][e] = session[m][e]
                 /\ closing'[m][e] # None => closing'[m][e] = closing[m][e]
      BY <1>3, <1>8, <1>a, <2>1
    <3> QED BY <1>6, <2>0, <3>1, <3>2, BonUntouched
  <2>2. CASE b \in session[r][d].out /\ Plain(b)
    <3>1. CarriedBy(b, r, d)
      BY <1>2, <2>0, <2>2 DEF CarryOf, OpenlyCarries
    <3>2. \A m \in Ramasseurs, e \in Days : ~OpenlyCarries(m, e, b)'
      <4> SUFFICES ASSUME NEW m \in Ramasseurs, NEW e \in Days, OpenlyCarries(m, e, b)'
                   PROVE  FALSE
        OBVIOUS
      <4>1. m # r \/ e # d
        BY <1>a DEF OpenlyCarries
      <4>2. OpenlyCarries(m, e, b)
        BY <1>a, <4>1 DEF OpenlyCarries
      <4> QED BY <3>1, <4>1, <4>2 DEF CarriedBy
    <3>3. b \in read \/ b \in session[r][d].remis
      BY <1>1, <2>0, <2>2 DEF SettledOf, read
    <3>4. bon'[b].status # "EN_ROUTE"
      <4>1. CASE b \in read
        BY <1>5, <4>1
      <4>2. CASE b \notin read
        BY <1>6, <3>1, <3>3, <4>2 DEF CarriedBy
      <4> QED BY <4>1, <4>2
    <3>5. CarryOf(b)'
      BY <3>2, <3>4 DEF CarryOf
    <3>6. SettledOf(b)'
      <4> SUFFICES ASSUME NEW m \in Ramasseurs, NEW e \in Days, b \in session'[m][e].out
                   PROVE  /\ closing'[m][e] # None =>
                               b \in closing'[m][e] \cup session'[m][e].remis
                          /\ Closed(m, e)' => b \in session'[m][e].remis \cup session'[m][e].rendu
        BY DEF SettledOf
      <4>1. CASE m = r /\ e = d
        BY <1>3, <1>8, <3>3, <4>1
      <4>2. CASE m # r \/ e # d
        <5>1. /\ session'[m][e] = session[m][e] /\ closing'[m][e] = closing[m][e]
              /\ Closed(m, e)' <=> Closed(m, e)
          BY <1>3, <1>8, <1>a, <4>2
        <5> QED BY <2>0, <2>2, <5>1 DEF SettledOf
      <4> QED BY <4>1, <4>2
    <3> QED BY <3>5, <3>6
  <2>3. CASE b \in session[r][d].out /\ ~Plain(b)
    <3>1. ~Plain(b)'
      BY <1>4, <1>5, <1>6, <2>3 DEF Plain
    <3> QED BY <3>1 DEF CarryOf, SettledOf
  <2> QED BY <2>1, <2>2, <2>3
<1> QED BY <1>9, <1>10, <1>11, <1>12, <1>13, <1>14 DEF BonInv

(* A correction's effect on its bon: no certificate stands, and it is ambiguous     *)
(* if it was, or if two caisses could be chosen.                             *)
LEMMA BonUnpaid ==
  ASSUME TypeOK, BonAssumption, NEW b \in Bons, bon[b] # None,
         NEW status \in {"EN_ROUTE", "PREPARE"}, NEW r \in Ramasseurs \cup {None},
         Unpay(b, status, r)
  PROVE  /\ bon' \in [Bons -> Bon \cup {None}] /\ \A a \in Bons : a # b => bon'[a] = bon[a]
         /\ bon'[b] # None /\ bon'[b].status = status /\ bon'[b].ramasseur = r
         /\ bon'[b].certificate = FALSE
         /\ bon'[b].parcels = bon[b].parcels /\ bon'[b].charges = bon[b].charges
         /\ ~bon'[b].ambiguous =>
              ~bon[b].ambiguous /\ ~(Cardinality(Latest(Carried(b))) > 1)
<1> DEFINE several == Cardinality(Latest(Carried(b))) > 1
           row == [bon[b] EXCEPT !.status = status, !.ramasseur = r, !.certificate = FALSE,
                                 !.ambiguous = @ \/ several]
<1>1. bon' = [bon EXCEPT ![b] = row]
  BY DEF Unpay
<1>2. bon[b] \in Bon
  BY DEF TypeOK
<1> HIDE DEF several
<1>3. row \in Bon
  BY <1>2 DEF Bon, BonStatus
<1>4. /\ row.status = status /\ row.ramasseur = r /\ row.certificate = FALSE
      /\ row.parcels = bon[b].parcels /\ row.charges = bon[b].charges
      /\ row.ambiguous = (bon[b].ambiguous \/ several)
  BY <1>2 DEF Bon
<1> HIDE DEF row
<1>5. row # None
  BY <1>3 DEF BonAssumption
<1>6. /\ bon' \in [Bons -> Bon \cup {None}] /\ bon'[b] = row
      /\ \A a \in Bons : a # b => bon'[a] = bon[a]
  BY <1>1, <1>3 DEF TypeOK
<1> QED BY <1>4, <1>5, <1>6 DEF several

\* The caisse a correction locks, open or closed.
CaisseMoves(b, r, d) ==
  \/ ~Closed(r, d) /\ session' = [session EXCEPT ![r][d].remis = @ \ {b}]
  \/ /\ Closed(r, d)
     /\ \E checked \in BOOLEAN : session' = [session EXCEPT ![r][d] =
          [session[r][d] EXCEPT !.explained = @ + Covered(b, <<r, d>>), !.checked = checked]]

(* A correction's effect on the caisse it locks: an open one has the bon on the      *)
(* way again, a closed one has given part of its surplus.                      *)
LEMMA CaisseCorrects ==
  ASSUME TypeOK, NEW b \in Bons, NEW r \in Ramasseurs, NEW d \in Days, CaisseMoves(b, r, d)
  PROVE  LET old == session[r][d]  new == session'[r][d] IN
         /\ session' \in [Ramasseurs -> [Days -> Session]]
         /\ \A m \in Ramasseurs, e \in Days : m # r \/ e # d => session'[m][e] = session[m][e]
         /\ new.status = old.status /\ new.out = old.out /\ new.rendu = old.rendu
         /\ new.ecart = old.ecart
         /\ ~Closed(r, d) => new.remis = old.remis \ {b} /\ new.explained = old.explained
         /\ Closed(r, d) => /\ new.remis = old.remis
                            /\ new.explained = old.explained + Covered(b, <<r, d>>)
<1> DEFINE old == session[r][d]
           covered == Covered(b, <<r, d>>)
<1>1. old \in Session
  BY DEF TypeOK
<1>2. covered \in Nat
  BY CoveredIsLeft
<1> HIDE DEF covered
<1>3. CASE ~Closed(r, d)
  <2> DEFINE new == [old EXCEPT !.remis = @ \ {b}]
  <2>1. session' = [session EXCEPT ![r][d] = new]
    BY <1>3 DEF CaisseMoves
  <2> HIDE DEF old
  <2>2. /\ new \in Session /\ new.status = old.status /\ new.out = old.out
        /\ new.rendu = old.rendu /\ new.ecart = old.ecart /\ new.remis = old.remis \ {b}
        /\ new.explained = old.explained
    BY <1>1 DEF Session
  <2> HIDE DEF new
  <2>3. /\ session' \in [Ramasseurs -> [Days -> Session]] /\ session'[r][d] = new
        /\ \A m \in Ramasseurs, e \in Days : m # r \/ e # d => session'[m][e] = session[m][e]
    BY <2>1, <2>2, TwoKeys DEF TypeOK
  <2> QED BY <1>3, <2>2, <2>3 DEF old
<1>4. CASE Closed(r, d)
  <2>0. PICK checked \in BOOLEAN : session' = [session EXCEPT ![r][d] =
          [session[r][d] EXCEPT !.explained = @ + covered, !.checked = checked]]
    BY <1>4 DEF CaisseMoves, covered
  <2> DEFINE new == [old EXCEPT !.explained = @ + covered, !.checked = checked]
  <2>1. session' = [session EXCEPT ![r][d] = new]
    BY <2>0
  <2> HIDE DEF old
  <2>2. /\ new \in Session /\ new.status = old.status /\ new.out = old.out
        /\ new.rendu = old.rendu /\ new.ecart = old.ecart /\ new.remis = old.remis
        /\ new.explained = old.explained + covered
    <3>1. old.explained \in Nat
      BY <1>1 DEF Session
    <3>2. old.explained + covered \in Nat
      BY <1>2, <3>1
    <3> QED BY <1>1, <3>2 DEF Session
  <2> HIDE DEF new
  <2>3. /\ session' \in [Ramasseurs -> [Days -> Session]] /\ session'[r][d] = new
        /\ \A m \in Ramasseurs, e \in Days : m # r \/ e # d => session'[m][e] = session[m][e]
    BY <2>1, <2>2, TwoKeys DEF TypeOK
  <2> QED BY <1>4, <2>2, <2>3 DEF old, covered
<1> QED BY <1>3, <1>4

(* An open caisse that carries a bon is among the latest to have taken it out, and   *)
(* the only one a correction that has no choice can lock.                      *)
LEMMA CarrierIsLatest ==
  ASSUME BonAssumption, NEW b \in Bons, ~(Cardinality(Latest(Carried(b))) > 1),
         NEW r \in Ramasseurs, NEW d \in Days, <<r, d>> \in Latest(Carried(b)),
         NEW m \in Ramasseurs, NEW e \in Days, OpenlyCarries(m, e, b), CarriedBy(b, m, e)
  PROVE  m = r /\ e = d
<1>1. <<m, e>> \in Carried(b)
  BY DEF Carried, OpenlyCarries
<1>2. \A t \in Carried(b) : t[2] <= e
  BY DEF Carried, CarriedBy
<1>3. <<m, e>> \in Latest(Carried(b))
  BY <1>1, <1>2 DEF Latest
<1>4. IsFiniteSet(Latest(Carried(b)))
  BY CarriersAreFinite
<1> QED BY <1>3, <1>4, MoreThanOne

(* correctBonVersement: no other certificate stood for the bon's parcels; an open   *)
(* caisse carries it again, or none does and it is at the depot.               *)
LEMMA CorrectKeeps ==
  ASSUME BonInv, BonAssumption, NEW b \in Bons, Correct(b)
  PROVE  BonInv'
<1>0. TypeOK /\ RowsInv /\ PaidInv /\ ChargeInv /\ SurplusInv /\ CarryInv
  BY DEF BonInv
<1>1. /\ bon[b] # None /\ bon[b].status = "REMIS" /\ bon[b].parcels \subseteq paid
      /\ charge' = charge /\ preparing' = preparing /\ today' = today
      /\ closing' = closing /\ trips' = trips
  BY DEF Correct, Is
<1>2. corrections' \in 0..MaxCorrections
  <2>1. corrections \in 0..MaxCorrections /\ MaxCorrections \in Nat
    BY <1>0 DEF TypeOK, BonAssumption
  <2>2. corrections < MaxCorrections /\ corrections' = corrections + 1
    BY DEF Correct
  <2> QED BY <2>1, <2>2
<1>3. PICK s \in Latest(Carried(b)) :
        LET r == s[1]  d == s[2]  this == session[r][d] IN
        /\ SessionFree(r, d)
        /\ IF ~Closed(r, d)
           THEN /\ Unpay(b, "EN_ROUTE", bon[b].ramasseur)
                /\ session' = [session EXCEPT ![r][d].remis = @ \ {b}]
           ELSE /\ Unpay(b, "PREPARE", None)
                /\ session' = [session EXCEPT ![r][d] =
                     [this EXCEPT !.explained = @ + Covered(b, s),
                        !.checked = @ \/ (Surplus(s) > 0 /\ Surplus(s) = Covered(b, s))]]
  BY DEF Correct
<1>4. PICK r \in Ramasseurs, d \in Days : s = <<r, d>>
  BY <1>3 DEF Latest, Carried
<1>5. b \in session[r][d].out /\ closing[r][d] = None /\ <<r, d>> \in Latest(Carried(b))
  BY <1>3, <1>4 DEF Latest, Carried, SessionFree
<1>6. bon[b] \in Bon /\ bon[b].ramasseur \in Ramasseurs \cup {None}
  BY <1>0, <1>1 DEF TypeOK, Bon
<1>7. PICK status \in {"EN_ROUTE", "PREPARE"}, c \in Ramasseurs \cup {None} :
        /\ Unpay(b, status, c)
        /\ ~Closed(r, d) => status = "EN_ROUTE" /\ c = bon[b].ramasseur
        /\ Closed(r, d) => status = "PREPARE"
  BY <1>3, <1>4, <1>6
<1>8. /\ bon' \in [Bons -> Bon \cup {None}] /\ \A a \in Bons : a # b => bon'[a] = bon[a]
      /\ bon'[b] # None /\ bon'[b].status = status /\ bon'[b].ramasseur = c
      /\ bon'[b].certificate = FALSE
      /\ bon'[b].parcels = bon[b].parcels /\ bon'[b].charges = bon[b].charges
      /\ ~bon'[b].ambiguous => ~bon[b].ambiguous /\ ~(Cardinality(Latest(Carried(b))) > 1)
  BY <1>0, <1>1, <1>7, BonUnpaid
<1>9. paid' = paid \ bon[b].parcels
  BY <1>7 DEF Unpay
<1>10. LET old == session[r][d]  new == session'[r][d] IN
       /\ session' \in [Ramasseurs -> [Days -> Session]]
       /\ \A m \in Ramasseurs, e \in Days : m # r \/ e # d => session'[m][e] = session[m][e]
       /\ new.status = old.status /\ new.out = old.out /\ new.rendu = old.rendu
       /\ new.ecart = old.ecart
       /\ ~Closed(r, d) => new.remis = old.remis \ {b} /\ new.explained = old.explained
       /\ Closed(r, d) => /\ new.remis = old.remis
                          /\ new.explained = old.explained + Covered(b, <<r, d>>)
  <2> DEFINE checked == session[r][d].checked
                          \/ (Surplus(<<r, d>>) > 0 /\ Surplus(<<r, d>>) = Covered(b, <<r, d>>))
  <2>1. checked \in BOOLEAN
    BY <1>0 DEF TypeOK, Session
  <2>2. CaisseMoves(b, r, d)
    BY <1>3, <1>4, <2>1 DEF CaisseMoves
  <2> QED BY <1>0, <2>2, CaisseCorrects
<1>11. TypeOK'
  BY <1>0, <1>1, <1>2, <1>8, <1>9, <1>10 DEF TypeOK
<1>a. /\ \A m \in Ramasseurs, e \in Days : Closed(m, e)' <=> Closed(m, e)
      /\ \A m \in Ramasseurs, e \in Days : session'[m][e].out = session[m][e].out
      /\ \A m \in Ramasseurs, e \in Days : session'[m][e].rendu = session[m][e].rendu
  BY <1>10 DEF Closed
<1>12. RowsInv'
  <2>1. \A m \in Ramasseurs, e \in Days : session[m][e].out \subseteq Bons
    BY <1>0 DEF TypeOK, Session
  <2>2. ASSUME NEW m \in Ramasseurs, NEW e \in Days, NEW a \in session'[m][e].out
        PROVE  bon'[a] # None /\ e <= today'
    <3>1. a \in session[m][e].out /\ a \in Bons
      BY <1>a, <2>1, <2>2
    <3>2. bon[a] # None /\ e <= today
      BY <1>0, <3>1 DEF RowsInv
    <3> QED BY <1>1, <1>8, <3>1, <3>2
  <2>3. \A m \in Ramasseurs, e \in Days : closing'[m][e] # None =>
          ~Closed(m, e)' /\ closing'[m][e] \subseteq session'[m][e].out
    BY <1>0, <1>1, <1>a DEF RowsInv
  <2> QED BY <2>2, <2>3 DEF RowsInv
<1>13. PaidInv'
  <2>0. bon[b].certificate
    BY <1>0, <1>1 DEF PaidInv, Is
  <2>1. ASSUME NEW a \in Bons, a # b, bon[a] # None, bon[a].certificate
        PROVE  bon[a].parcels \subseteq paid'
    <3>1. bon[a].parcels \subseteq paid
      BY <1>0, <2>1 DEF PaidInv
    <3>2. \A p \in bon[a].parcels : p \notin bon[b].parcels
      BY <1>0, <1>1, <2>0, <2>1, <3>1 DEF PaidInv
    <3> QED BY <1>9, <3>1, <3>2
  <2>2. \A a \in Bons : (Is(a, "REMIS") \/ Is(a, "ARCHIVE"))' => bon'[a].certificate
    BY <1>0, <1>8 DEF PaidInv, Is
  <2>3. \A a \in Bons : bon'[a] # None /\ bon'[a].certificate =>
          a # b /\ bon[a] # None /\ bon[a].certificate /\ bon'[a] = bon[a]
    BY <1>8
  <2>4. \A a \in Bons : bon'[a] # None /\ bon'[a].certificate => bon'[a].parcels \subseteq paid'
    BY <2>1, <2>3
  <2>5. ASSUME NEW p \in paid'
        PROVE  \E a \in Bons : bon'[a] # None /\ p \in bon'[a].parcels /\ bon'[a].certificate
    <3>1. PICK a \in Bons : bon[a] # None /\ p \in bon[a].parcels /\ bon[a].certificate
      BY <1>0, <1>9 DEF PaidInv
    <3>2. a # b
      BY <1>9, <3>1
    <3> QED BY <1>8, <3>1, <3>2
  <2>6. \A p \in paid' : \A a, e \in Bons :
          /\ bon'[a] # None /\ p \in bon'[a].parcels /\ bon'[a].certificate
          /\ bon'[e] # None /\ p \in bon'[e].parcels /\ bon'[e].certificate
          => a = e
    BY <1>0, <1>9, <2>3 DEF PaidInv
  <2> QED BY <2>2, <2>4, <2>5, <2>6 DEF PaidInv
<1>14. ChargeInv'
  <2>1. \A a \in Bons : Active(a) =>
          bon'[a] # None /\ bon'[a].status # "ANNULE" /\ bon'[a].charges = bon[a].charges
    BY <1>8 DEF Active
  <2> QED BY <1>0, <1>1, <2>1 DEF ChargeInv, Active
<1>15. SurplusInv'
  <2> SUFFICES ASSUME NEW m \in Ramasseurs, NEW e \in Days
               PROVE  /\ session'[m][e].explained <= Max({0, session'[m][e].ecart})
                      /\ ~Closed(m, e)' => session'[m][e].explained = 0
    BY DEF SurplusInv
  <2>0. /\ session[m][e].explained <= Max({0, session[m][e].ecart})
        /\ ~Closed(m, e) => session[m][e].explained = 0
    BY <1>0 DEF SurplusInv
  <2>1. CASE m = r /\ e = d /\ Closed(r, d)
    <3>1. /\ session'[m][e].ecart = session[m][e].ecart
          /\ session'[m][e].explained = session[m][e].explained + Covered(b, <<m, e>>)
      BY <1>10, <2>1
    <3>2. session[m][e].explained + Covered(b, <<m, e>>) <= Max({0, session[m][e].ecart})
      BY <1>0, <2>0, CoveredIsLeft
    <3> QED BY <1>a, <2>1, <3>1, <3>2
  <2>2. CASE m # r \/ e # d \/ ~Closed(r, d)
    <3>1. /\ session'[m][e].ecart = session[m][e].ecart
          /\ session'[m][e].explained = session[m][e].explained
      BY <1>10, <2>2
    <3> QED BY <1>a, <2>0, <3>1
  <2> QED BY <2>1, <2>2
<1>16. CarryInv'
  <2> SUFFICES ASSUME NEW a \in Bons
               PROVE  CarryOf(a)' /\ SettledOf(a)'
    BY DEF CarryInv
  <2>0. CarryOf(a) /\ SettledOf(a)
    BY <1>0 DEF CarryInv
  <2>1. CASE a # b
    <3>1. \A m \in Ramasseurs, e \in Days :
            /\ session'[m][e].out = session[m][e].out
            /\ session'[m][e].status = session[m][e].status
            /\ a \in session'[m][e].remis <=> a \in session[m][e].remis
            /\ session'[m][e].rendu = session[m][e].rendu
      BY <1>10, <2>1
    <3> QED BY <1>1, <1>8, <2>0, <2>1, <3>1, BonUntouched
  <2>2. CASE a = b /\ bon'[b].ambiguous
    BY <2>2 DEF CarryOf, SettledOf, Plain
  <2>3. CASE a = b /\ ~bon'[b].ambiguous
    <3>1. Plain(a) /\ ~(Cardinality(Latest(Carried(b))) > 1)
      BY <1>1, <1>8, <2>3 DEF Plain
    <3>2. \A m \in Ramasseurs, e \in Days : OpenlyCarries(m, e, a)' <=> OpenlyCarries(m, e, a)
      BY <1>a DEF OpenlyCarries
    <3>3. \A m \in Ramasseurs, e \in Days : OpenlyCarries(m, e, a) => m = r /\ e = d
      BY <1>5, <2>0, <2>3, <3>1, CarrierIsLatest DEF CarryOf
    <3>4. CASE ~Closed(r, d)
      <4>1. OpenlyCarries(r, d, a) /\ CarriedBy(a, r, d)
        BY <1>5, <2>0, <2>3, <3>1, <3>4 DEF CarryOf, OpenlyCarries
      <4>2. bon'[a].status = "EN_ROUTE" /\ bon'[a].ramasseur = r
        BY <1>7, <1>8, <2>3, <3>4, <4>1 DEF CarriedBy
      <4>3. a \notin session'[r][d].remis
        BY <1>10, <2>3, <3>4
      <4>4. CarriedBy(a, r, d)'
        BY <1>a, <3>2, <4>1, <4>2, <4>3 DEF CarriedBy
      <4>5. CarryOf(a)'
        BY <3>2, <3>3, <4>1, <4>2, <4>4 DEF CarryOf
      <4>6. SettledOf(a)'
        <5> SUFFICES ASSUME NEW m \in Ramasseurs, NEW e \in Days, a \in session'[m][e].out
                     PROVE  /\ closing'[m][e] # None =>
                                 a \in closing'[m][e] \cup session'[m][e].remis
                            /\ Closed(m, e)' =>
                                 a \in session'[m][e].remis \cup session'[m][e].rendu
          BY DEF SettledOf
        <5>1. CASE m = r /\ e = d
          BY <1>1, <1>5, <1>a, <3>4, <5>1
        <5>2. CASE m # r \/ e # d
          <6>1. session'[m][e] = session[m][e] /\ (Closed(m, e)' <=> Closed(m, e))
            BY <1>10, <1>a, <5>2
          <6> QED BY <1>1, <2>0, <3>1, <6>1 DEF SettledOf
        <5> QED BY <5>1, <5>2
      <4> QED BY <4>5, <4>6
    <3>5. CASE Closed(r, d)
      <4>1. \A m \in Ramasseurs, e \in Days : ~OpenlyCarries(m, e, a)'
        BY <3>2, <3>3, <3>5 DEF OpenlyCarries
      <4>2. bon'[a].status = "PREPARE"
        BY <1>7, <1>8, <2>3, <3>5
      <4>3. CarryOf(a)'
        BY <4>1, <4>2 DEF CarryOf
      <4>4. \A m \in Ramasseurs, e \in Days : session'[m][e].remis = session[m][e].remis
        BY <1>10, <3>5
      <4>5. SettledOf(a)'
        BY <1>1, <1>a, <2>0, <3>1, <4>4 DEF SettledOf
      <4> QED BY <4>3, <4>5
    <3> QED BY <3>4, <3>5
  <2> QED BY <2>1, <2>2, <2>3
<1> QED BY <1>11, <1>12, <1>13, <1>14, <1>15, <1>16 DEF BonInv

-----------------------------------------------------------------------------
(* The invariant and what it says *)

\* The bons start with the invariant: none prepared, nothing paid, no caisse closing.
LEMMA BonsStart ==
  ASSUME BonAssumption, Init
  PROVE  BonInv
<1>1. /\ NoBons \in Session /\ NoBons.out = {} /\ NoBons.explained = 0
      /\ NoBons.status = "OUVERTE" /\ NoBons.ecart = 0
  BY DEF NoBons, Session
<1>2. /\ \A r \in Ramasseurs, d \in Days : session[r][d] = NoBons /\ closing[r][d] = None
      /\ \A b \in Bons : bon[b] = None
      /\ \A c \in Charges : charge[c].status = "NON"
      /\ paid = {}
  BY DEF Init
<1>3. TypeOK
  <2>1. today \in Days
    BY DEF Init, Days, BonAssumption
  <2>2. session \in [Ramasseurs -> [Days -> Session]]
    BY <1>1 DEF Init
  <2>3. bon \in [Bons -> Bon \cup {None}] /\ paid \subseteq Parcels
    BY DEF Init
  <2>4. charge \in [Charges -> Charge]
    BY DEF Init, Charge
  <2>5. closing \in [Ramasseurs -> [Days -> (SUBSET Bons) \cup {None}]]
    BY DEF Init
  <2>6. preparing \in [parcels: SUBSET Parcels, charges: SUBSET Charges,
                       held: SUBSET Charges, read: BOOLEAN] \cup {None}
    BY DEF Init
  <2>7. corrections \in 0..MaxCorrections /\ trips \in 0..MaxTrips
    BY DEF Init, BonAssumption
  <2> QED BY <2>1, <2>2, <2>3, <2>4, <2>5, <2>6, <2>7 DEF TypeOK
<1>4. RowsInv /\ PaidInv /\ ChargeInv
  BY <1>1, <1>2 DEF RowsInv, PaidInv, ChargeInv, Is
<1>5. SurplusInv
  <2>1. 0 <= Max({0, 0})
    BY MaxOfTwo
  <2> QED BY <1>1, <1>2, <2>1 DEF SurplusInv
<1>6. CarryInv
  BY <1>2 DEF CarryInv, CarryOf, SettledOf, Plain
<1> QED BY <1>3, <1>4, <1>5, <1>6 DEF BonInv

\* Every step of the bons keeps the invariant.
LEMMA BonsGoOn ==
  ASSUME BonAssumption, BonInv, [Next]_vars
  PROVE  BonInv'
<1>1. CASE NextDay \/ ChargeStep \/ AbortPrepare
             \/ (\E chosen \in SUBSET Parcels : LockPrepare(chosen))
             \/ (\E included \in SUBSET Charges : ReadCharges(included))
  BY <1>1, QuietStepsKeep
<1>2. ASSUME NEW b \in Bons, WritePrepare(b)
      PROVE  BonInv'
  BY <1>2, WritePrepareKeeps
<1>3. ASSUME NEW b \in Bons, Cancel(b)
      PROVE  BonInv'
  BY <1>3, CancelKeeps
<1>4. ASSUME NEW b \in Bons, Archive(b)
      PROVE  BonInv'
  BY <1>4, ArchiveKeeps
<1>5. ASSUME NEW b \in Bons, Correct(b)
      PROVE  BonInv'
  BY <1>5, CorrectKeeps
<1>6. ASSUME NEW b \in Bons, NEW r \in Ramasseurs, HandOut(b, r)
      PROVE  BonInv'
  BY <1>6, HandOutKeeps
<1>7. ASSUME NEW b \in Bons, Remis(b)
      PROVE  BonInv'
  BY <1>7, RemisKeeps
<1>8. ASSUME NEW r \in Ramasseurs, NEW d \in Days, ReadClose(r, d)
      PROVE  BonInv'
  BY <1>8, ReadCloseKeeps
<1>9. ASSUME NEW r \in Ramasseurs, NEW d \in Days, AbortClose(r, d)
      PROVE  BonInv'
  BY <1>9, AbortCloseKeeps
<1>10. ASSUME NEW r \in Ramasseurs, NEW d \in Days, NEW ecart \in Surpluses,
              WriteClose(r, d, ecart)
       PROVE  BonInv'
  BY <1>10, WriteCloseKeeps
<1>11. CASE UNCHANGED vars
  <2>0. TypeOK /\ RowsInv /\ PaidInv /\ ChargeInv /\ SurplusInv /\ CarryInv
    BY DEF BonInv
  <2>1. /\ today' = today /\ bon' = bon /\ paid' = paid /\ charge' = charge
        /\ session' = session /\ preparing' = preparing /\ closing' = closing
        /\ corrections' = corrections /\ trips' = trips
    BY <1>11 DEF vars
  <2>2. TypeOK'
    BY <2>0, <2>1 DEF TypeOK
  <2>3. RowsInv' /\ SurplusInv'
    BY <2>0, <2>1 DEF RowsInv, SurplusInv, Closed
  <2>4. PaidInv' /\ ChargeInv'
    BY <2>0, <2>1 DEF PaidInv, ChargeInv, Is, Active
  <2>5. CarryInv'
    BY <2>0, <2>1, BonUntouched DEF CarryInv
  <2> QED BY <2>2, <2>3, <2>4, <2>5 DEF BonInv
<1> QED BY <1>1, <1>2, <1>3, <1>4, <1>5, <1>6, <1>7, <1>8, <1>9, <1>10, <1>11
        DEF Next, DepotStep, CaisseStep

(* The bons, the charges and the ramasseurs' caisses keep the invariant through      *)
(* second hand-outs, corrections, cancellations and closings that cross them.   *)
THEOREM AlwaysBonInv ==
  ASSUME BonAssumption
  PROVE  Spec => []BonInv
BY BonsStart, BonsGoOn, PTL DEF Spec

\* Type correctness: every bon, charge, caisse and preparation stays what it is.
THEOREM BonsAreTyped ==
  ASSUME BonAssumption
  PROVE  Spec => []TypeOK
<1>1. BonInv => TypeOK
  BY DEF BonInv
<1> QED BY <1>1, AlwaysBonInv, PTL

\* The invariant says that a parcel paid has one certificate, one unpaid none.
LEMMA CertificateByInv ==
  ASSUME BonInv
  PROVE  PaidUnderOneCertificate
<1> SUFFICES ASSUME NEW p \in Parcels
             PROVE  Cardinality({b \in Bons : /\ bon[b] # None /\ p \in bon[b].parcels
                                              /\ bon[b].certificate})
                      = IF p \in paid THEN 1 ELSE 0
  BY DEF PaidUnderOneCertificate
<1> DEFINE under == {b \in Bons : bon[b] # None /\ p \in bon[b].parcels /\ bon[b].certificate}
<1>0. PaidInv
  BY DEF BonInv
<1>1. CASE p \in paid
  <2>1. PICK b \in Bons : bon[b] # None /\ p \in bon[b].parcels /\ bon[b].certificate
    BY <1>0, <1>1 DEF PaidInv
  <2>2. under = {b}
    BY <1>0, <1>1, <2>1 DEF PaidInv
  <2> HIDE DEF under
  <2>3. Cardinality(under) = 1
    BY <2>2, FS_Singleton
  <2> QED BY <1>1, <2>3 DEF under
<1>2. CASE p \notin paid
  <2>1. under = {}
    BY <1>0, <1>2 DEF PaidInv
  <2> HIDE DEF under
  <2>2. Cardinality(under) = 0
    BY <2>1, FS_EmptySet
  <2> QED BY <1>2, <2>2 DEF under
<1> QED BY <1>1, <1>2

(* A seller is paid a parcel under one certificate that stands, and one stands      *)
(* for parcels paid, although a closing may overwrite a Remis (D-88, D-89).       *)
THEOREM OneCertificateStands ==
  ASSUME BonAssumption
  PROVE  Spec => []PaidUnderOneCertificate
BY AlwaysBonInv, CertificateByInv, PTL

\* The invariant says what a charge deducted and a surplus explained may be.
LEMMA ChargesByInv ==
  ASSUME BonInv
  PROVE  SurplusExplainedOnce /\ DeductedByStandingBon
BY DEF BonInv, SurplusInv, ChargeInv, SurplusExplainedOnce, DeductedByStandingBon

(* A charge deducted is counted by a bon that stands: none is lost with a bon         *)
(* cancelled, none is given back twice.                                      *)
THEOREM ChargesAreCounted ==
  ASSUME BonAssumption
  PROVE  Spec => []DeductedByStandingBon
BY AlwaysBonInv, ChargesByInv, PTL

\* Several bons of a closed caisse corrected in turn share its surplus (D-88).
THEOREM SurplusIsShared ==
  ASSUME BonAssumption
  PROVE  Spec => []SurplusExplainedOnce
BY AlwaysBonInv, ChargesByInv, PTL

\* The invariant says that caisses account for the bons they took out.
LEMMA CarriedByInv ==
  ASSUME BonInv
  PROVE  CarriedCashIsExpected /\ ClosedCaisseIsSettled
<1>0. TypeOK /\ RowsInv /\ CarryInv
  BY DEF BonInv
<1>1. ASSUME NEW b \in Bons, Is(b, "EN_ROUTE"), ~bon[b].ambiguous
      PROVE  \E d \in Days : LET this == session[bon[b].ramasseur][d] IN
               this.status = "OUVERTE" /\ b \in this.out \ this.remis
  <2>1. Plain(b) /\ bon[b].status = "EN_ROUTE"
    BY <1>1 DEF Plain, Is
  <2>2. PICK r \in Ramasseurs, d \in Days : bon[b].ramasseur = r /\ OpenlyCarries(r, d, b)
    BY <1>0, <2>1 DEF CarryInv, CarryOf
  <2>3. CarriedBy(b, r, d)
    BY <1>0, <2>1, <2>2 DEF CarryInv, CarryOf
  <2>4. b \in session[r][d].out \ session[r][d].remis
    BY <2>1, <2>2, <2>3 DEF CarriedBy, OpenlyCarries
  <2>5. session[r][d].status = "OUVERTE"
    BY <1>0, <2>2 DEF TypeOK, Session, OpenlyCarries, Closed
  <2> QED BY <2>2, <2>4, <2>5
<1>2. ASSUME NEW r \in Ramasseurs, NEW d \in Days, Closed(r, d), NEW b \in session[r][d].out,
             ~bon[b].ambiguous
      PROVE  b \in session[r][d].remis \cup session[r][d].rendu
  <2>1. b \in Bons
    BY <1>0 DEF TypeOK, Session
  <2>2. Plain(b)
    BY <1>0, <1>2 DEF RowsInv, Plain
  <2> QED BY <1>0, <1>2, <2>1, <2>2 DEF CarryInv, SettledOf
<1> QED BY <1>1, <1>2 DEF CarriedCashIsExpected, ClosedCaisseIsSettled

(* Hand-outs, Remis scans, corrections and closings at the same instant: the cash    *)
(* of a bon on the way is expected by an open caisse of its ramasseur (D-79, D-80). *)
THEOREM CarriedIsExpected ==
  ASSUME BonAssumption
  PROVE  Spec => []CarriedCashIsExpected
BY AlwaysBonInv, CarriedByInv, PTL

(* A Remis scan and the closing may cross: a closed caisse has each bon it took       *)
(* out handed over or brought back.                                          *)
THEOREM ClosedIsSettled ==
  ASSUME BonAssumption
  PROVE  Spec => []ClosedCaisseIsSettled
BY AlwaysBonInv, CarriedByInv, PTL
=============================================================================
