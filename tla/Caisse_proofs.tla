----------------------------- MODULE Caisse_proofs -----------------------------
(***************************************************************************)
(* Proofs about Caisse, for any parcels, livreurs, days, scans, amounts and    *)
(* counts and closings at once: the cash at the depot is what the closings     *)
(* moved, each closed caisse was counted against it, and the cash a courier    *)
(* holds is always expected by a caisse still open.                          *)
(***************************************************************************)
EXTENDS Caisse, SequenceTheorems, FiniteSetTheorems, TLAPS

-----------------------------------------------------------------------------
(* The inductive invariant *)

(* A session's own facts.  A closed one was counted against what it moved, and    *)
(* what stands on its lines was moved; an open one moved nothing.              *)
SessionInv ==
  \A l \in Livreurs, d \in Days : LET this == session[l][d] IN
    /\ Closed(l, d) =>
         /\ d < LastDay /\ this.lines \subseteq this.moved
         /\ this.expected = Cardinality(this.moved)
         /\ this.debt # "NULL"  <=> this.counted < Cardinality(this.moved)
         /\ this.ecart # "NULL" <=> this.counted > Cardinality(this.moved)
    /\ ~Closed(l, d) => this.moved = {}

(* A closing under way read a session that is still open, and counted against      *)
(* what it read; its lines may only have lost some since.                     *)
WorkInv ==
  \A l \in Livreurs, d \in Days : work[l][d] # None =>
    /\ ~Closed(l, d)
    /\ work[l][d].op = "CLOTURER" =>
         /\ d < LastDay /\ session[l][d].lines \subseteq work[l][d].lines
         /\ session[l][d].expected = Cardinality(work[l][d].lines)

(* The cash at the depot was moved by one session, the rest by none.            *)
DepotInv ==
  /\ \A p \in Parcels : parcel[p].cash = "AU_DEPOT" =>
       \E l \in Livreurs, d \in Days : p \in session[l][d].moved
  /\ \A p \in Parcels, l \in Livreurs, d \in Days : p \in session[l][d].moved =>
       /\ parcel[p].cash = "AU_DEPOT"
       /\ \A m \in Livreurs, e \in Days : p \in session[m][e].moved => m = l /\ e = d

(* Livre scan i is the last of parcel p, and is that of its holder.             *)
LastScanOf(i, p) ==
  /\ i \in 1..Len(livres) /\ livres[i].parcel = p /\ livres[i].livreur = parcel[p].holder
  /\ \A j \in 1..Len(livres) : livres[j].parcel = p => j <= i

(* The cash a courier holds has its Livre scan, although others of the parcel      *)
(* may stand from deliveries undone.                                        *)
ScanInv == \A p \in Parcels : WithCourier(p) => \E i \in 1..Len(livres) : LastScanOf(i, p)

CaisseInv == TypeOK /\ SessionInv /\ WorkInv /\ DepotInv /\ ScanInv

-----------------------------------------------------------------------------
(* Lemmas *)

\* A function of two keys changed at one pair of keys.
LEMMA TwoKeys ==
  ASSUME NEW S, NEW T, NEW V, NEW f \in [S -> [T -> V]], NEW a \in S, NEW b \in T, NEW v \in V
  PROVE  /\ [f EXCEPT ![a][b] = v] \in [S -> [T -> V]]
         /\ [f EXCEPT ![a][b] = v][a][b] = v
         /\ \A c \in S, e \in T : c # a \/ e # b => [f EXCEPT ![a][b] = v][c][e] = f[c][e]
  OBVIOUS

\* What a caisse expects are parcels whose cash is with a courier.
LEMMA DeliveryLinesAreHeld ==
  ASSUME TypeOK, NEW l, NEW d
  PROVE  /\ deliveryLines(l, d) \subseteq Parcels
         /\ \A p \in deliveryLines(l, d) : WithCourier(p)
<1>1. livres \in Seq(Scan) /\ \A i \in DOMAIN livres : livres[i] \in Scan
  BY DEF TypeOK
<1>2. \A i \in DOMAIN livres : livres[i].parcel \in Parcels
  BY <1>1 DEF Scan
<1> QED BY <1>2 DEF deliveryLines, HisScans

\* A set of parcels is finite, and its cash a number.
LEMMA LinesAreFinite ==
  ASSUME CaisseAssumption, NEW s \in SUBSET Parcels
  PROVE  IsFiniteSet(s) /\ Cardinality(s) \in Nat
  BY FS_Subset, FS_CardinalityType DEF CaisseAssumption

\* A scan cancelled: those after it move up one place.
LEMMA ScanRemoved ==
  ASSUME TypeOK, NEW i \in 1..Len(livres)
  PROVE  LET left == SubSeq(livres, 1, i - 1) \o SubSeq(livres, i + 1, Len(livres)) IN
         /\ left \in Seq(Scan) /\ Len(left) = Len(livres) - 1
         /\ \A k \in 1..Len(left) : left[k] = IF k < i THEN livres[k] ELSE livres[k + 1]
<1> DEFINE before == SubSeq(livres, 1, i - 1)
           after  == SubSeq(livres, i + 1, Len(livres))
<1>1. livres \in Seq(Scan) /\ Len(livres) \in Nat /\ \A k \in 1..Len(livres) : livres[k] \in Scan
  BY DEF TypeOK
<1>2. /\ before \in Seq(Scan) /\ Len(before) = i - 1
      /\ \A k \in 1..(i - 1) : before[k] = livres[k]
  <2>1. \A k \in 1..(i - 1) : livres[k] \in Scan
    BY <1>1
  <2>2. /\ before \in Seq(Scan)
        /\ Len(before) = IF 1 <= i - 1 THEN (i - 1) - 1 + 1 ELSE 0
        /\ \A k \in 1..((i - 1) - 1 + 1) : before[k] = livres[1 + k - 1]
    BY <1>1, <2>1, SubSeqProperties
  <2> QED BY <1>1, <2>2
<1>3. /\ after \in Seq(Scan) /\ Len(after) = Len(livres) - i
      /\ \A k \in 1..(Len(livres) - i) : after[k] = livres[i + k]
  <2>1. \A k \in (i + 1)..Len(livres) : livres[k] \in Scan
    BY <1>1
  <2>2. /\ after \in Seq(Scan)
        /\ Len(after) = IF i + 1 <= Len(livres) THEN Len(livres) - (i + 1) + 1 ELSE 0
        /\ \A k \in 1..(Len(livres) - (i + 1) + 1) : after[k] = livres[i + 1 + k - 1]
    BY <1>1, <2>1, SubSeqProperties
  <2> QED BY <1>1, <2>2
<1> HIDE DEF before, after
<1>4. /\ before \o after \in Seq(Scan)
      /\ Len(before \o after) = Len(before) + Len(after)
      /\ \A k \in 1..(Len(before) + Len(after)) :
           (before \o after)[k] = IF k <= Len(before) THEN before[k] ELSE after[k - Len(before)]
  BY <1>2, <1>3, ConcatProperties
<1>5. /\ Len(before \o after) = Len(livres) - 1
      /\ \A k \in 1..(Len(livres) - 1) :
           (before \o after)[k] = IF k < i THEN livres[k] ELSE livres[k + 1]
  <2>1. Len(before \o after) = Len(livres) - 1
    BY <1>1, <1>2, <1>3, <1>4
  <2>2. ASSUME NEW k \in 1..(Len(livres) - 1)
        PROVE  (before \o after)[k] = IF k < i THEN livres[k] ELSE livres[k + 1]
    <3>1. CASE k < i
      BY <1>1, <1>2, <1>3, <1>4, <3>1
    <3>2. CASE ~(k < i)
      <4>1. k - (i - 1) \in 1..(Len(livres) - i) /\ i + (k - (i - 1)) = k + 1
        BY <1>1, <3>2
      <4>2. (before \o after)[k] = after[k - (i - 1)]
        BY <1>1, <1>2, <1>3, <1>4, <3>2
      <4> QED BY <1>3, <3>2, <4>1, <4>2
    <3> QED BY <3>1, <3>2
  <2> QED BY <2>1, <2>2
<1> QED BY <1>4, <1>5 DEF before, after

\* A session that lost at most the line of p, and none once closed.
OnlyLines(this, new, closed, p) ==
  /\ new.status = this.status /\ new.moved = this.moved
  /\ new.expected = this.expected /\ new.counted = this.counted
  /\ new.debt = this.debt /\ new.ecart = this.ecart
  /\ new.lines = IF closed THEN this.lines ELSE this.lines \ {p}

\* The lines of p go from the sessions still open; nothing else of any session moves.
LEMMA LinesTakenOff ==
  ASSUME TypeOK, NEW p \in Parcels
  PROVE  /\ WithoutLinesOf(p) \in [Livreurs -> [Days -> Session]]
         /\ \A l \in Livreurs, d \in Days :
              OnlyLines(session[l][d], WithoutLinesOf(p)[l][d], Closed(l, d), p)
<1> SUFFICES ASSUME NEW l \in Livreurs, NEW d \in Days
             PROVE  /\ WithoutLinesOf(p)[l][d] \in Session
                    /\ OnlyLines(session[l][d], WithoutLinesOf(p)[l][d], Closed(l, d), p)
  BY DEF WithoutLinesOf
<1> DEFINE this == session[l][d]
<1>1. this \in Session
  BY DEF TypeOK
<1>2. WithoutLinesOf(p)[l][d] = IF Closed(l, d) THEN this ELSE [this EXCEPT !.lines = @ \ {p}]
  BY DEF WithoutLinesOf
<1> HIDE DEF this
<1>3. [this EXCEPT !.lines = @ \ {p}] \in Session
  BY <1>1 DEF Session
<1>4. CASE Closed(l, d)
  BY <1>1, <1>2, <1>4 DEF this, OnlyLines
<1>5. CASE ~Closed(l, d)
  BY <1>1, <1>2, <1>3, <1>5 DEF this, Session, OnlyLines
<1> QED BY <1>4, <1>5

\* Only that session moves: a count is written.
LEMMA CountWritten ==
  ASSUME TypeOK, CaisseAssumption, NEW l \in Livreurs, NEW d \in Days, WriteCount(l, d)
  PROVE  /\ session' \in [Livreurs -> [Days -> Session]]
         /\ \A m \in Livreurs, e \in Days : m # l \/ e # d => session'[m][e] = session[m][e]
         /\ LET this == session[l][d]  new == session'[l][d] IN
            /\ new.status = "COMPTEE" /\ new.lines = work[l][d].lines /\ new.moved = this.moved
            /\ new.expected = Cardinality(work[l][d].lines)
            /\ new.debt = this.debt /\ new.ecart = this.ecart
<1> DEFINE w == work[l][d]
           new == [session[l][d] EXCEPT !.status = "COMPTEE", !.lines = w.lines,
                     !.expected = Cardinality(w.lines), !.counted = w.counted]
<1>1. session[l][d] \in Session /\ w.lines \in SUBSET Parcels /\ w.counted \in Nat
  BY DEF TypeOK, WriteCount
<1>2. Cardinality(w.lines) \in Nat
  BY <1>1, LinesAreFinite
<1>3. /\ new \in Session /\ new.status = "COMPTEE" /\ new.lines = w.lines
      /\ new.moved = session[l][d].moved /\ new.expected = Cardinality(w.lines)
      /\ new.debt = session[l][d].debt /\ new.ecart = session[l][d].ecart
  BY <1>1, <1>2 DEF Session, CaisseSessionStatus
<1>4. session' = [session EXCEPT ![l][d] = new]
  BY DEF WriteCount
<1> HIDE DEF new
<1>5. /\ session' \in [Livreurs -> [Days -> Session]] /\ session'[l][d] = new
      /\ \A m \in Livreurs, e \in Days : m # l \/ e # d => session'[m][e] = session[m][e]
  BY <1>3, <1>4, TwoKeys DEF TypeOK
<1> QED BY <1>3, <1>5

\* Only that session moves: it is closed, with what was read.
LEMMA CloseWritten ==
  ASSUME TypeOK, NEW l \in Livreurs, NEW d \in Days, WriteClose(l, d)
  PROVE  /\ session' \in [Livreurs -> [Days -> Session]]
         /\ \A m \in Livreurs, e \in Days : m # l \/ e # d => session'[m][e] = session[m][e]
         /\ LET this == session[l][d]  new == session'[l][d] IN
            /\ new.status = "CLOTUREE" /\ new.moved = work[l][d].lines
            /\ new.lines = this.lines /\ new.expected = this.expected
            /\ new.counted = this.counted
            /\ new.debt # "NULL"  <=> this.counted < this.expected
            /\ new.ecart # "NULL" <=> this.counted > this.expected
<1> DEFINE this == session[l][d]
           new == [this EXCEPT !.status = "CLOTUREE", !.moved = work[l][d].lines,
                     !.debt  = IF this.counted < this.expected THEN "EN_COURS" ELSE "NULL",
                     !.ecart = IF this.counted > this.expected THEN "A_VERIFIER" ELSE "NULL"]
<1>1. this \in Session /\ work[l][d].lines \in SUBSET Parcels
  BY DEF TypeOK, WriteClose
<1>4. session' = [session EXCEPT ![l][d] = new]
  BY DEF WriteClose
<1> HIDE DEF this
<1>3. /\ new \in Session /\ new.status = "CLOTUREE" /\ new.moved = work[l][d].lines
      /\ new.lines = this.lines /\ new.expected = this.expected /\ new.counted = this.counted
      /\ new.debt # "NULL"  <=> this.counted < this.expected
      /\ new.ecart # "NULL" <=> this.counted > this.expected
  BY <1>1 DEF Session, CaisseSessionStatus
<1> HIDE DEF new
<1>5. /\ session' \in [Livreurs -> [Days -> Session]] /\ session'[l][d] = new
      /\ \A m \in Livreurs, e \in Days : m # l \/ e # d => session'[m][e] = session[m][e]
  BY <1>3, <1>4, TwoKeys DEF TypeOK
<1> QED BY <1>3, <1>5 DEF this

\* Only that session moves: its ecart is checked, or its debt cancelled.
LEMMA OutcomeSettled ==
  ASSUME TypeOK, NEW l \in Livreurs, NEW d \in Days, CheckEcart(l, d) \/ CancelDebt(l, d)
  PROVE  /\ session' \in [Livreurs -> [Days -> Session]]
         /\ \A m \in Livreurs, e \in Days :
              LET this == session[m][e]  new == session'[m][e] IN
              /\ new.status = this.status /\ new.moved = this.moved /\ new.lines = this.lines
              /\ new.expected = this.expected /\ new.counted = this.counted
              /\ new.debt # "NULL" <=> this.debt # "NULL"
              /\ new.ecart # "NULL" <=> this.ecart # "NULL"
<1> DEFINE this == session[l][d]
           checked == [this EXCEPT !.ecart = "VERIFIE"]
           annulled == [this EXCEPT !.debt = "ANNULEE"]
<1>1. this \in Session
  BY DEF TypeOK
<1>2. CASE CheckEcart(l, d)
  <2>1. session' = [session EXCEPT ![l][d] = checked] /\ this.ecart = "A_VERIFIER"
    BY <1>2 DEF CheckEcart
  <2> HIDE DEF this
  <2>2. /\ checked \in Session /\ checked.status = this.status /\ checked.moved = this.moved
        /\ checked.lines = this.lines /\ checked.expected = this.expected
        /\ checked.counted = this.counted /\ checked.debt = this.debt
        /\ checked.ecart = "VERIFIE"
    BY <1>1 DEF Session
  <2> HIDE DEF checked
  <2>3. /\ session' \in [Livreurs -> [Days -> Session]] /\ session'[l][d] = checked
        /\ \A m \in Livreurs, e \in Days : m # l \/ e # d => session'[m][e] = session[m][e]
    BY <2>1, <2>2, TwoKeys DEF TypeOK
  <2> QED BY <2>1, <2>2, <2>3 DEF this
<1>3. CASE CancelDebt(l, d)
  <2>1. session' = [session EXCEPT ![l][d] = annulled] /\ this.debt = "EN_COURS"
    BY <1>3 DEF CancelDebt
  <2> HIDE DEF this
  <2>2. /\ annulled \in Session /\ annulled.status = this.status /\ annulled.moved = this.moved
        /\ annulled.lines = this.lines /\ annulled.expected = this.expected
        /\ annulled.counted = this.counted /\ annulled.ecart = this.ecart
        /\ annulled.debt = "ANNULEE"
    BY <1>1 DEF Session
  <2> HIDE DEF annulled
  <2>3. /\ session' \in [Livreurs -> [Days -> Session]] /\ session'[l][d] = annulled
        /\ \A m \in Livreurs, e \in Days : m # l \/ e # d => session'[m][e] = session[m][e]
    BY <2>1, <2>2, TwoKeys DEF TypeOK
  <2> QED BY <2>1, <2>2, <2>3 DEF this
<1> QED BY <1>2, <1>3

\* The session works on what it read, and no other works differently.
LEMMA WorkStarts ==
  ASSUME TypeOK, CaisseAssumption, NEW l \in Livreurs, NEW d \in Days,
         (\E counted \in Amounts : ReadCount(l, d, counted)) \/ ReadClose(l, d)
  PROVE  /\ work' \in [Livreurs -> [Days -> [op: {"COMPTER", "CLOTURER"}, lines: SUBSET Parcels,
                                             counted: Nat] \cup {None}]]
         /\ \A m \in Livreurs, e \in Days : m # l \/ e # d => work'[m][e] = work[m][e]
         /\ ReadClose(l, d) => work'[l][d].lines = session[l][d].lines
         /\ ~ReadClose(l, d) => work'[l][d].op = "COMPTER"
<1> DEFINE W == [op: {"COMPTER", "CLOTURER"}, lines: SUBSET Parcels, counted: Nat] \cup {None}
<1>1. work \in [Livreurs -> [Days -> W]] /\ session[l][d] \in Session
  BY DEF TypeOK
<1>2. CASE ReadClose(l, d)
  <2> DEFINE v == [op |-> "CLOTURER", lines |-> session[l][d].lines,
                   counted |-> session[l][d].counted]
  <2>1. work' = [work EXCEPT ![l][d] = v]
    BY <1>2 DEF ReadClose
  <2>2. v \in W /\ v.lines = session[l][d].lines
    BY <1>1 DEF Session
  <2> HIDE DEF v, W
  <2>3. /\ work' \in [Livreurs -> [Days -> W]] /\ work'[l][d] = v
        /\ \A m \in Livreurs, e \in Days : m # l \/ e # d => work'[m][e] = work[m][e]
    BY <1>1, <2>1, <2>2, TwoKeys
  <2> QED BY <1>2, <2>2, <2>3 DEF W
<1>3. ASSUME ~ReadClose(l, d), NEW counted \in Amounts, ReadCount(l, d, counted)
      PROVE  /\ work' \in [Livreurs -> [Days -> W]]
             /\ \A m \in Livreurs, e \in Days : m # l \/ e # d => work'[m][e] = work[m][e]
             /\ work'[l][d].op = "COMPTER"
  <2> DEFINE v == [op |-> "COMPTER", lines |-> deliveryLines(l, d), counted |-> counted]
  <2>1. work' = [work EXCEPT ![l][d] = v]
    BY <1>3 DEF ReadCount
  <2>2. v \in W /\ v.op = "COMPTER"
    BY <1>3, DeliveryLinesAreHeld DEF CaisseAssumption
  <2> HIDE DEF v, W
  <2>3. /\ work' \in [Livreurs -> [Days -> W]] /\ work'[l][d] = v
        /\ \A m \in Livreurs, e \in Days : m # l \/ e # d => work'[m][e] = work[m][e]
    BY <1>1, <2>1, <2>2, TwoKeys
  <2> QED BY <2>2, <2>3
<1> QED BY <1>2, <1>3

\* The session's work is over, and no other's.
LEMMA WorkEnds ==
  ASSUME TypeOK, NEW l \in Livreurs, NEW d \in Days, work' = [work EXCEPT ![l][d] = None]
  PROVE  /\ work' \in [Livreurs -> [Days -> [op: {"COMPTER", "CLOTURER"}, lines: SUBSET Parcels,
                                             counted: Nat] \cup {None}]]
         /\ work'[l][d] = None
         /\ \A m \in Livreurs, e \in Days : m # l \/ e # d => work'[m][e] = work[m][e]
<1> DEFINE W == [op: {"COMPTER", "CLOTURER"}, lines: SUBSET Parcels, counted: Nat] \cup {None}
<1>1. work \in [Livreurs -> [Days -> W]] /\ None \in W
  BY DEF TypeOK
<1> HIDE DEF W
<1>2. /\ work' \in [Livreurs -> [Days -> W]] /\ work'[l][d] = None
      /\ \A m \in Livreurs, e \in Days : m # l \/ e # d => work'[m][e] = work[m][e]
  BY <1>1, TwoKeys
<1> QED BY <1>2 DEF W

-----------------------------------------------------------------------------
(* Every step preserves the invariant *)

\* Nothing of a session but its lines moves, and those of an open one only shrink.
LEMMA LinesShrink ==
  ASSUME CaisseInv, NEW p \in Parcels, WithCourier(p),
         session' = WithoutLinesOf(p), work' = work
  PROVE  /\ session' \in [Livreurs -> [Days -> Session]]
         /\ SessionInv' /\ WorkInv'
         /\ \A l \in Livreurs, d \in Days : session'[l][d].moved = session[l][d].moved
<1>0. TypeOK /\ SessionInv /\ WorkInv
  BY DEF CaisseInv
<1>1. /\ session' \in [Livreurs -> [Days -> Session]]
      /\ \A l \in Livreurs, d \in Days :
           LET this == session[l][d]  new == session'[l][d] IN
           /\ new.status = this.status /\ new.moved = this.moved
           /\ new.expected = this.expected /\ new.counted = this.counted
           /\ new.debt = this.debt /\ new.ecart = this.ecart
           /\ new.lines = IF Closed(l, d) THEN this.lines ELSE this.lines \ {p}
  <2>1. session' \in [Livreurs -> [Days -> Session]]
    BY <1>0, LinesTakenOff
  <2>2. ASSUME NEW l \in Livreurs, NEW d \in Days
        PROVE  LET this == session[l][d]  new == session'[l][d] IN
               /\ new.status = this.status /\ new.moved = this.moved
               /\ new.expected = this.expected /\ new.counted = this.counted
               /\ new.debt = this.debt /\ new.ecart = this.ecart
               /\ new.lines = IF Closed(l, d) THEN this.lines ELSE this.lines \ {p}
    <3>1. OnlyLines(session[l][d], session'[l][d], Closed(l, d), p)
      BY <1>0, LinesTakenOff
    <3> QED BY <3>1 DEF OnlyLines
  <2> QED BY <2>1, <2>2
<1>2. \A l \in Livreurs, d \in Days : Closed(l, d)' <=> Closed(l, d)
  BY <1>1 DEF Closed
<1>3. SessionInv'
  <2> SUFFICES ASSUME NEW l \in Livreurs, NEW d \in Days
               PROVE  LET this == session'[l][d] IN
                 /\ Closed(l, d)' =>
                      /\ d < LastDay /\ this.lines \subseteq this.moved
                      /\ this.expected = Cardinality(this.moved)
                      /\ this.debt # "NULL"  <=> this.counted < Cardinality(this.moved)
                      /\ this.ecart # "NULL" <=> this.counted > Cardinality(this.moved)
                 /\ ~Closed(l, d)' => this.moved = {}
    BY DEF SessionInv
  <2> DEFINE old == session[l][d]
  <2>1. /\ Closed(l, d) =>
             /\ d < LastDay /\ old.lines \subseteq old.moved
             /\ old.expected = Cardinality(old.moved)
             /\ old.debt # "NULL"  <=> old.counted < Cardinality(old.moved)
             /\ old.ecart # "NULL" <=> old.counted > Cardinality(old.moved)
        /\ ~Closed(l, d) => old.moved = {}
    BY <1>0 DEF SessionInv
  <2> QED BY <1>1, <1>2, <2>1
<1>4. WorkInv'
  <2> SUFFICES ASSUME NEW l \in Livreurs, NEW d \in Days, work[l][d] # None
               PROVE  /\ ~Closed(l, d)'
                      /\ work[l][d].op = "CLOTURER" =>
                           /\ d < LastDay /\ session'[l][d].lines \subseteq work[l][d].lines
                           /\ session'[l][d].expected = Cardinality(work[l][d].lines)
    BY DEF WorkInv
  <2>1. /\ ~Closed(l, d)
        /\ work[l][d].op = "CLOTURER" =>
             /\ d < LastDay /\ session[l][d].lines \subseteq work[l][d].lines
             /\ session[l][d].expected = Cardinality(work[l][d].lines)
    BY <1>0 DEF WorkInv
  <2> QED BY <1>1, <1>2, <2>1
<1> QED BY <1>1, <1>3, <1>4

\* The cash of p comes back, that of the others stays where it is.
LEMMA CashComesBack ==
  ASSUME CaisseInv, NEW p \in Parcels, WithCourier(p), parcel' = Back(p),
         \A l \in Livreurs, d \in Days : session'[l][d].moved = session[l][d].moved
  PROVE  /\ parcel' \in [Parcels -> Parcel] /\ DepotInv' /\ ~WithCourier(p)'
         /\ \A q \in Parcels : q # p => parcel'[q] = parcel[q]
<1>1. parcel \in [Parcels -> Parcel] /\ parcel[p].cash = "CHEZ_LE_COURSIER"
  BY DEF CaisseInv, TypeOK, WithCourier
<1> DEFINE free == [cash |-> "NULL", holder |-> None]
<1>2. free \in Parcel /\ free.cash = "NULL"
  BY DEF Parcel
<1>3. parcel' = [parcel EXCEPT ![p] = free]
  BY DEF Back
<1> HIDE DEF free
<1>4. /\ parcel' \in [Parcels -> Parcel] /\ parcel'[p].cash = "NULL"
      /\ \A q \in Parcels : q # p => parcel'[q] = parcel[q]
  BY <1>1, <1>2, <1>3
<1>5. \A l \in Livreurs, d \in Days : p \notin session[l][d].moved
  BY <1>1 DEF CaisseInv, DepotInv
<1>6. DepotInv'
  BY <1>4, <1>5 DEF CaisseInv, DepotInv
<1> QED BY <1>4, <1>6 DEF WithCourier

\* undoDelivery keeps the invariant: the scan stays, of a parcel back out.
LEMMA UndoDeliveryKeeps ==
  ASSUME CaisseInv, NEW p \in Parcels, UndoDelivery(p)
  PROVE  CaisseInv'
<1>1. /\ WithCourier(p) /\ parcel' = Back(p) /\ session' = WithoutLinesOf(p)
      /\ livres' = livres /\ work' = work /\ counts' = counts
  BY DEF UndoDelivery
<1>2. /\ session' \in [Livreurs -> [Days -> Session]] /\ SessionInv' /\ WorkInv'
      /\ \A l \in Livreurs, d \in Days : session'[l][d].moved = session[l][d].moved
  BY <1>1, LinesShrink
<1>3. /\ parcel' \in [Parcels -> Parcel] /\ DepotInv' /\ ~WithCourier(p)'
      /\ \A q \in Parcels : q # p => parcel'[q] = parcel[q]
  BY <1>1, <1>2, CashComesBack
<1>4. ScanInv'
  BY <1>1, <1>3 DEF CaisseInv, ScanInv, LastScanOf, WithCourier
<1>5. TypeOK'
  BY <1>1, <1>2, <1>3 DEF CaisseInv, TypeOK
<1> QED BY <1>2, <1>3, <1>4, <1>5 DEF CaisseInv

\* cancel of a Livre scan keeps the invariant: the later scans move up one place.
LEMMA CancelLivreKeeps ==
  ASSUME CaisseInv, CaisseAssumption, NEW i \in DOMAIN livres, CancelLivre(i)
  PROVE  CaisseInv'
<1> DEFINE left == SubSeq(livres, 1, i - 1) \o SubSeq(livres, i + 1, Len(livres))
<1>a. TypeOK /\ livres \in Seq(Scan)
  BY DEF CaisseInv, TypeOK
<1>b. Len(livres) \in Nat /\ i \in 1..Len(livres) /\ livres[i] \in Scan
  BY <1>a, LenProperties
<1>c. PICK p \in Parcels : p = livres[i].parcel
  BY <1>b DEF Scan
<1>0. /\ TypeOK /\ livres \in Seq(Scan) /\ Len(livres) \in Nat /\ i \in 1..Len(livres)
      /\ p \in Parcels
  BY <1>a, <1>b
<1>1. /\ WithCourier(p) /\ parcel' = Back(p) /\ session' = WithoutLinesOf(p)
      /\ livres' = left /\ work' = work /\ counts' = counts
  BY <1>c DEF CancelLivre
<1>2. /\ left \in Seq(Scan) /\ Len(left) = Len(livres) - 1
      /\ \A k \in 1..Len(left) : left[k] = IF k < i THEN livres[k] ELSE livres[k + 1]
  BY <1>0, ScanRemoved
<1> HIDE DEF left
<1>3. /\ session' \in [Livreurs -> [Days -> Session]] /\ SessionInv' /\ WorkInv'
      /\ \A l \in Livreurs, d \in Days : session'[l][d].moved = session[l][d].moved
  BY <1>0, <1>1, LinesShrink
<1>4. /\ parcel' \in [Parcels -> Parcel] /\ DepotInv' /\ ~WithCourier(p)'
      /\ \A q \in Parcels : q # p => parcel'[q] = parcel[q]
  BY <1>0, <1>1, <1>3, CashComesBack
<1>5. TypeOK'
  <2>1. Len(livres') <= MaxScans
    BY <1>0, <1>1, <1>2 DEF CaisseAssumption, TypeOK
  <2> QED BY <1>0, <1>1, <1>2, <1>3, <1>4, <2>1 DEF TypeOK
<1>6. ScanInv'
  <2> SUFFICES ASSUME NEW q \in Parcels, WithCourier(q)'
               PROVE  \E k \in 1..Len(livres') : LastScanOf(k, q)'
    BY DEF ScanInv
  <2>1. q # p /\ parcel'[q] = parcel[q] /\ WithCourier(q)
    BY <1>4 DEF WithCourier
  <2>2. PICK k \in 1..Len(livres) : LastScanOf(k, q)
    BY <2>1 DEF CaisseInv, ScanInv
  <2>3. k # i
    BY <1>c, <2>1, <2>2 DEF LastScanOf
  <2> DEFINE n == IF k < i THEN k ELSE k - 1
  <2>4. n \in 1..Len(left) /\ left[n] = livres[k]
    BY <1>0, <1>2, <2>2, <2>3
  <2>5. ASSUME NEW j \in 1..Len(left), left[j].parcel = q
        PROVE  j <= n
    <3>1. CASE j < i
      <4>1. livres[j].parcel = q /\ j \in 1..Len(livres)
        BY <1>0, <1>2, <2>5, <3>1
      <4>2. j <= k
        BY <2>2, <4>1 DEF LastScanOf
      <4> QED BY <1>0, <2>3, <3>1, <4>2
    <3>2. CASE ~(j < i)
      <4>1. livres[j + 1].parcel = q /\ j + 1 \in 1..Len(livres)
        BY <1>0, <1>2, <2>5, <3>2
      <4>2. j + 1 <= k
        BY <2>2, <4>1 DEF LastScanOf
      <4> QED BY <1>0, <2>3, <3>2, <4>2
    <3> QED BY <3>1, <3>2
  <2> HIDE DEF n
  <2>6. LastScanOf(n, q)'
    BY <1>1, <2>1, <2>2, <2>4, <2>5 DEF LastScanOf
  <2> QED BY <1>1, <2>4, <2>6
<1> QED BY <1>3, <1>4, <1>5, <1>6 DEF CaisseInv

\* A delivery synced, on any day, keeps the invariant: its scan is the last.
LEMMA DeliverKeeps ==
  ASSUME CaisseInv, CaisseAssumption,
         NEW p \in Parcels, NEW l \in Livreurs, NEW d \in Days, Deliver(p, l, d)
  PROVE  CaisseInv'
<1> DEFINE held == [cash |-> "CHEZ_LE_COURSIER", holder |-> l]
           scan == [parcel |-> p, livreur |-> l, day |-> d]
<1>0. /\ parcel \in [Parcels -> Parcel] /\ livres \in Seq(Scan) /\ Len(livres) \in Nat
  BY DEF CaisseInv, TypeOK, Deliver
<1>1. /\ parcel[p].cash = "NULL" /\ Len(livres) < MaxScans
      /\ parcel' = [parcel EXCEPT ![p] = held] /\ livres' = Append(livres, scan)
      /\ session' = session /\ work' = work /\ counts' = counts
  BY DEF Deliver
<1>2. /\ held \in Parcel /\ held.cash = "CHEZ_LE_COURSIER" /\ held.holder = l
      /\ scan \in Scan /\ scan.parcel = p /\ scan.livreur = l
  BY DEF Parcel, Scan
<1> HIDE DEF held, scan
<1>3. /\ parcel' \in [Parcels -> Parcel] /\ parcel'[p] = held
      /\ \A q \in Parcels : q # p => parcel'[q] = parcel[q]
  BY <1>0, <1>1, <1>2
<1>4. /\ livres' \in Seq(Scan) /\ Len(livres') = Len(livres) + 1
      /\ \A k \in 1..Len(livres) : livres'[k] = livres[k]
      /\ livres'[Len(livres) + 1] = scan
  BY <1>0, <1>1, <1>2, AppendProperties
<1>5. DepotInv'
  <2>1. \A m \in Livreurs, e \in Days : p \notin session[m][e].moved
    BY <1>1 DEF CaisseInv, DepotInv
  <2> QED BY <1>1, <1>2, <1>3, <2>1 DEF CaisseInv, DepotInv
<1>6. SessionInv' /\ WorkInv'
  BY <1>1 DEF CaisseInv, SessionInv, WorkInv, Closed
<1>7. ScanInv'
  <2> SUFFICES ASSUME NEW q \in Parcels, WithCourier(q)'
               PROVE  \E k \in 1..Len(livres') : LastScanOf(k, q)'
    BY DEF ScanInv
  <2>0. PICK n \in Nat : n = Len(livres) + 1
    BY <1>0
  <2>1. /\ n \in 1..Len(livres') /\ livres'[n] = scan
        /\ \A j \in 1..Len(livres') : j <= n
        /\ \A j \in 1..Len(livres') : j # n =>
             j \in 1..Len(livres) /\ livres'[j] = livres[j]
    BY <1>0, <1>4, <2>0
  <2>2. CASE q = p
    <3>1. LastScanOf(n, q)'
      BY <1>2, <1>3, <2>1, <2>2 DEF LastScanOf
    <3> QED BY <2>1, <3>1
  <2>3. CASE q # p
    <3>1. PICK k \in 1..Len(livres) : LastScanOf(k, q)
      BY <1>3, <2>3 DEF CaisseInv, ScanInv, WithCourier
    <3>2. k \in 1..Len(livres') /\ k # n /\ livres'[k] = livres[k]
      BY <1>0, <1>4, <2>0
    <3>3. \A j \in 1..Len(livres') : livres'[j].parcel = q => j <= k
      BY <1>2, <2>1, <2>3, <3>1 DEF LastScanOf
    <3>4. LastScanOf(k, q)'
      BY <1>3, <2>3, <3>1, <3>2, <3>3 DEF LastScanOf
    <3> QED BY <3>2, <3>4
  <2> QED BY <2>2, <2>3
<1>8. TypeOK'
  <2>1. Len(livres') <= MaxScans
    BY <1>0, <1>1, <1>4 DEF CaisseAssumption
  <2> QED BY <1>1, <1>3, <1>4, <2>1 DEF CaisseInv, TypeOK
<1> QED BY <1>5, <1>6, <1>7, <1>8 DEF CaisseInv

\* Compter or Cloturer read their session: the invariant is kept.
LEMMA ReadKeeps ==
  ASSUME CaisseInv, CaisseAssumption, NEW l \in Livreurs, NEW d \in Days,
         (\E counted \in Amounts : ReadCount(l, d, counted)) \/ ReadClose(l, d)
  PROVE  CaisseInv'
<1>0. TypeOK /\ SessionInv /\ WorkInv /\ DepotInv /\ ScanInv
  BY DEF CaisseInv
<1>1. /\ parcel' = parcel /\ livres' = livres /\ session' = session
      /\ counts' \in 0..MaxCounts
  BY <1>0 DEF ReadCount, ReadClose, TypeOK, CaisseAssumption
<1>2. /\ work' \in [Livreurs -> [Days -> [op: {"COMPTER", "CLOTURER"}, lines: SUBSET Parcels,
                                          counted: Nat] \cup {None}]]
      /\ \A m \in Livreurs, e \in Days : m # l \/ e # d => work'[m][e] = work[m][e]
      /\ ReadClose(l, d) => work'[l][d].lines = session[l][d].lines
      /\ ~ReadClose(l, d) => work'[l][d].op = "COMPTER"
  BY <1>0, WorkStarts
<1>3. ~Closed(l, d)
  <2>1. CASE ReadClose(l, d)
    BY <2>1 DEF ReadClose, closeRefusal, Closed
  <2>2. CASE \E counted \in Amounts : ReadCount(l, d, counted)
    BY <2>2 DEF ReadCount
  <2> QED BY <2>1, <2>2
<1>4. ReadClose(l, d) =>
        d < LastDay /\ session[l][d].expected = Cardinality(session[l][d].lines)
  BY DEF ReadClose, closeRefusal
<1>5. WorkInv'
  <2> SUFFICES ASSUME NEW m \in Livreurs, NEW e \in Days, work'[m][e] # None
               PROVE  /\ ~Closed(m, e)'
                      /\ work'[m][e].op = "CLOTURER" =>
                           /\ e < LastDay /\ session'[m][e].lines \subseteq work'[m][e].lines
                           /\ session'[m][e].expected = Cardinality(work'[m][e].lines)
    BY DEF WorkInv
  <2>1. Closed(m, e)' <=> Closed(m, e)
    BY <1>1 DEF Closed
  <2>2. CASE m = l /\ e = d
    BY <1>1, <1>2, <1>3, <1>4, <2>1, <2>2
  <2>3. CASE m # l \/ e # d
    BY <1>0, <1>1, <1>2, <2>1, <2>3 DEF WorkInv
  <2> QED BY <2>2, <2>3
<1>6. TypeOK' /\ SessionInv' /\ DepotInv' /\ ScanInv'
  BY <1>0, <1>1, <1>2 DEF TypeOK, SessionInv, DepotInv, ScanInv, LastScanOf, WithCourier, Closed
<1> QED BY <1>5, <1>6 DEF CaisseInv

\* A count written keeps the invariant.
LEMMA WriteCountKeeps ==
  ASSUME CaisseInv, CaisseAssumption, NEW l \in Livreurs, NEW d \in Days, WriteCount(l, d)
  PROVE  CaisseInv'
<1>0. TypeOK /\ SessionInv /\ WorkInv /\ DepotInv /\ ScanInv
  BY DEF CaisseInv
<1>1. /\ parcel' = parcel /\ livres' = livres /\ counts' = counts /\ work[l][d] # None
      /\ work' = [work EXCEPT ![l][d] = None]
  BY DEF WriteCount
<1>2. /\ session' \in [Livreurs -> [Days -> Session]]
      /\ \A m \in Livreurs, e \in Days : m # l \/ e # d => session'[m][e] = session[m][e]
      /\ session'[l][d].status = "COMPTEE" /\ session'[l][d].moved = session[l][d].moved
  BY <1>0, CountWritten
<1>3. /\ work' \in [Livreurs -> [Days -> [op: {"COMPTER", "CLOTURER"}, lines: SUBSET Parcels,
                                          counted: Nat] \cup {None}]]
      /\ work'[l][d] = None
      /\ \A m \in Livreurs, e \in Days : m # l \/ e # d => work'[m][e] = work[m][e]
  BY <1>0, <1>1, WorkEnds
<1>4. ~Closed(l, d) /\ ~Closed(l, d)' /\ session[l][d].moved = {}
  BY <1>0, <1>1, <1>2 DEF WorkInv, SessionInv, Closed
<1>5. SessionInv' /\ WorkInv'
  <2>1. ASSUME NEW m \in Livreurs, NEW e \in Days, m # l \/ e # d
        PROVE  session'[m][e] = session[m][e] /\ work'[m][e] = work[m][e]
    BY <1>2, <1>3, <2>1
  <2>2. SessionInv'
    BY <1>0, <1>2, <1>4, <2>1 DEF SessionInv, Closed
  <2>3. WorkInv'
    BY <1>0, <1>3, <2>1 DEF WorkInv, Closed
  <2> QED BY <2>2, <2>3
<1>6. \A m \in Livreurs, e \in Days : session'[m][e].moved = session[m][e].moved
  BY <1>2
<1>7. DepotInv'
  BY <1>0, <1>1, <1>6 DEF DepotInv
<1>8. TypeOK' /\ ScanInv'
  BY <1>0, <1>1, <1>2, <1>3 DEF TypeOK, ScanInv, LastScanOf, WithCourier
<1> QED BY <1>5, <1>7, <1>8 DEF CaisseInv

(* A caisse closed keeps the invariant: recordCashTransition moves only cash    *)
(* still with a courier, which no other closing has moved.                   *)
LEMMA WriteCloseKeeps ==
  ASSUME CaisseInv, CaisseAssumption, NEW l \in Livreurs, NEW d \in Days, WriteClose(l, d)
  PROVE  CaisseInv'
<1> DEFINE lines == work[l][d].lines
<1>0. TypeOK /\ SessionInv /\ WorkInv /\ DepotInv /\ ScanInv
  BY DEF CaisseInv
<1>1. /\ livres' = livres /\ counts' = counts /\ work[l][d] # None
      /\ work[l][d].op = "CLOTURER" /\ CashMoves(lines)
      /\ work' = [work EXCEPT ![l][d] = None]
      /\ parcel' = [p \in Parcels |-> IF p \in lines THEN [parcel[p] EXCEPT !.cash = "AU_DEPOT"]
                                      ELSE parcel[p]]
  BY DEF WriteClose
<1>2. /\ session' \in [Livreurs -> [Days -> Session]]
      /\ \A m \in Livreurs, e \in Days : m # l \/ e # d => session'[m][e] = session[m][e]
      /\ LET this == session[l][d]  new == session'[l][d] IN
         /\ new.status = "CLOTUREE" /\ new.moved = lines
         /\ new.lines = this.lines /\ new.expected = this.expected
         /\ new.counted = this.counted
         /\ new.debt # "NULL"  <=> this.counted < this.expected
         /\ new.ecart # "NULL" <=> this.counted > this.expected
  BY <1>0, CloseWritten
<1>3. /\ work' \in [Livreurs -> [Days -> [op: {"COMPTER", "CLOTURER"}, lines: SUBSET Parcels,
                                          counted: Nat] \cup {None}]]
      /\ work'[l][d] = None
      /\ \A m \in Livreurs, e \in Days : m # l \/ e # d => work'[m][e] = work[m][e]
  BY <1>0, <1>1, WorkEnds
<1>4. /\ ~Closed(l, d) /\ d < LastDay /\ session[l][d].lines \subseteq lines
      /\ session[l][d].expected = Cardinality(lines) /\ session[l][d].moved = {}
  BY <1>0, <1>1 DEF WorkInv, SessionInv
<1>5. lines \subseteq Parcels
  BY <1>0, <1>1 DEF TypeOK
<1> HIDE DEF lines
<1>6. /\ parcel' \in [Parcels -> Parcel]
      /\ \A p \in lines : parcel[p].cash = "CHEZ_LE_COURSIER" /\ parcel'[p].cash = "AU_DEPOT"
      /\ \A p \in Parcels \ lines : parcel'[p] = parcel[p]
  <2>1. ASSUME NEW p \in Parcels, p \in lines
        PROVE  /\ parcel[p].cash = "CHEZ_LE_COURSIER" /\ parcel'[p] \in Parcel
               /\ parcel'[p].cash = "AU_DEPOT"
    <3>1. parcel[p] \in Parcel /\ parcel[p].cash = "CHEZ_LE_COURSIER"
      BY <1>0, <1>1, <2>1 DEF TypeOK, CashMoves, WithCourier
    <3>2. parcel'[p] = [parcel[p] EXCEPT !.cash = "AU_DEPOT"]
      BY <1>1, <2>1
    <3> QED BY <3>1, <3>2 DEF Parcel
  <2>2. ASSUME NEW p \in Parcels, p \notin lines
        PROVE  parcel'[p] = parcel[p] /\ parcel'[p] \in Parcel
    BY <1>0, <1>1, <2>2 DEF TypeOK
  <2>3. parcel' \in [Parcels -> Parcel]
    BY <1>1, <2>1, <2>2
  <2> QED BY <1>5, <2>1, <2>2, <2>3
<1>7. SessionInv'
  <2> SUFFICES ASSUME NEW m \in Livreurs, NEW e \in Days
               PROVE  LET this == session'[m][e] IN
                 /\ Closed(m, e)' =>
                      /\ e < LastDay /\ this.lines \subseteq this.moved
                      /\ this.expected = Cardinality(this.moved)
                      /\ this.debt # "NULL"  <=> this.counted < Cardinality(this.moved)
                      /\ this.ecart # "NULL" <=> this.counted > Cardinality(this.moved)
                 /\ ~Closed(m, e)' => this.moved = {}
    BY DEF SessionInv
  <2>1. CASE m = l /\ e = d
    BY <1>2, <1>4, <2>1 DEF Closed
  <2>2. CASE m # l \/ e # d
    BY <1>0, <1>2, <2>2 DEF SessionInv, Closed
  <2> QED BY <2>1, <2>2
<1>8. WorkInv'
  <2> SUFFICES ASSUME NEW m \in Livreurs, NEW e \in Days, work'[m][e] # None
               PROVE  /\ ~Closed(m, e)'
                      /\ work'[m][e].op = "CLOTURER" =>
                           /\ e < LastDay /\ session'[m][e].lines \subseteq work'[m][e].lines
                           /\ session'[m][e].expected = Cardinality(work'[m][e].lines)
    BY DEF WorkInv
  <2>1. m # l \/ e # d
    BY <1>3
  <2> QED BY <1>0, <1>2, <1>3, <2>1 DEF WorkInv, Closed
<1>9. DepotInv'
  <2>0. \A p \in lines, m \in Livreurs, e \in Days : p \notin session[m][e].moved
    BY <1>0, <1>5, <1>6 DEF DepotInv
  <2>1. /\ \A m \in Livreurs, e \in Days :
             m # l \/ e # d => session'[m][e].moved = session[m][e].moved
        /\ session'[l][d].moved = lines
    BY <1>2
  <2>2. ASSUME NEW p \in Parcels, parcel'[p].cash = "AU_DEPOT"
        PROVE  \E m \in Livreurs, e \in Days : p \in session'[m][e].moved
    <3>1. CASE p \in lines
      BY <2>1, <3>1
    <3>2. CASE p \notin lines
      <4>1. parcel[p].cash = "AU_DEPOT"
        BY <1>6, <2>2, <3>2
      <4>2. PICK m \in Livreurs, e \in Days : p \in session[m][e].moved
        BY <1>0, <4>1 DEF DepotInv
      <4>3. m # l \/ e # d
        BY <1>4, <4>2
      <4> QED BY <2>1, <4>2, <4>3
    <3> QED BY <3>1, <3>2
  <2>3. ASSUME NEW p \in Parcels, NEW m \in Livreurs, NEW e \in Days,
               p \in session'[m][e].moved
        PROVE  /\ parcel'[p].cash = "AU_DEPOT"
               /\ \A n \in Livreurs, f \in Days : p \in session'[n][f].moved => n = m /\ f = e
    <3>1. CASE p \in lines
      BY <1>6, <2>0, <2>1, <2>3, <3>1
    <3>2. CASE p \notin lines
      <4>1. \A n \in Livreurs, f \in Days :
              p \in session'[n][f].moved => p \in session[n][f].moved
        BY <2>1, <3>2
      <4> QED BY <1>0, <1>6, <2>3, <3>2, <4>1 DEF DepotInv
    <3> QED BY <3>1, <3>2
  <2> QED BY <2>2, <2>3 DEF DepotInv
<1>10. ScanInv'
  <2> SUFFICES ASSUME NEW p \in Parcels, WithCourier(p)'
               PROVE  \E i \in 1..Len(livres') : LastScanOf(i, p)'
    BY DEF ScanInv
  <2>1. parcel'[p] = parcel[p]
    BY <1>6 DEF WithCourier
  <2> QED BY <1>0, <1>1, <2>1 DEF ScanInv, LastScanOf, WithCourier
<1>11. TypeOK'
  BY <1>0, <1>1, <1>2, <1>3, <1>6 DEF TypeOK
<1> QED BY <1>7, <1>8, <1>9, <1>10, <1>11 DEF CaisseInv

\* A statement thrown, an ecart checked, a debt cancelled: the invariant is kept.
LEMMA OtherStepsKeep ==
  ASSUME CaisseInv, NEW l \in Livreurs, NEW d \in Days,
         Abort(l, d) \/ CheckEcart(l, d) \/ CancelDebt(l, d)
  PROVE  CaisseInv'
<1>0. TypeOK /\ SessionInv /\ WorkInv /\ DepotInv /\ ScanInv
  BY DEF CaisseInv
<1>1. CASE Abort(l, d)
  <2>1. /\ parcel' = parcel /\ livres' = livres /\ session' = session /\ counts' = counts
        /\ work' = [work EXCEPT ![l][d] = None]
    BY <1>1 DEF Abort
  <2>2. /\ work' \in [Livreurs -> [Days -> [op: {"COMPTER", "CLOTURER"}, lines: SUBSET Parcels,
                                            counted: Nat] \cup {None}]]
        /\ work'[l][d] = None
        /\ \A m \in Livreurs, e \in Days : m # l \/ e # d => work'[m][e] = work[m][e]
    BY <1>0, <2>1, WorkEnds
  <2>3. \A m \in Livreurs, e \in Days : work'[m][e] # None => work'[m][e] = work[m][e]
    BY <2>2
  <2>4. WorkInv'
    BY <1>0, <2>1, <2>3 DEF WorkInv, Closed
  <2>5. TypeOK' /\ DepotInv' /\ ScanInv'
    BY <1>0, <2>1, <2>2 DEF TypeOK, DepotInv, ScanInv, LastScanOf, WithCourier
  <2>6. SessionInv'
    BY <1>0, <2>1 DEF SessionInv, Closed
  <2> QED BY <2>4, <2>5, <2>6 DEF CaisseInv
<1>2. CASE CheckEcart(l, d) \/ CancelDebt(l, d)
  <2>1. parcel' = parcel /\ livres' = livres /\ work' = work /\ counts' = counts
    BY <1>2 DEF CheckEcart, CancelDebt
  <2>2. /\ session' \in [Livreurs -> [Days -> Session]]
        /\ \A m \in Livreurs, e \in Days :
             LET this == session[m][e]  new == session'[m][e] IN
             /\ new.status = this.status /\ new.moved = this.moved /\ new.lines = this.lines
             /\ new.expected = this.expected /\ new.counted = this.counted
             /\ new.debt # "NULL" <=> this.debt # "NULL"
             /\ new.ecart # "NULL" <=> this.ecart # "NULL"
    BY <1>0, <1>2, OutcomeSettled
  <2>3. \A m \in Livreurs, e \in Days : Closed(m, e)' <=> Closed(m, e)
    BY <2>2 DEF Closed
  <2>4. SessionInv'
    <3> SUFFICES ASSUME NEW m \in Livreurs, NEW e \in Days
                 PROVE  LET this == session'[m][e] IN
                   /\ Closed(m, e)' =>
                        /\ e < LastDay /\ this.lines \subseteq this.moved
                        /\ this.expected = Cardinality(this.moved)
                        /\ this.debt # "NULL"  <=> this.counted < Cardinality(this.moved)
                        /\ this.ecart # "NULL" <=> this.counted > Cardinality(this.moved)
                   /\ ~Closed(m, e)' => this.moved = {}
      BY DEF SessionInv
    <3> DEFINE old == session[m][e]
    <3>1. /\ Closed(m, e) =>
               /\ e < LastDay /\ old.lines \subseteq old.moved
               /\ old.expected = Cardinality(old.moved)
               /\ old.debt # "NULL"  <=> old.counted < Cardinality(old.moved)
               /\ old.ecart # "NULL" <=> old.counted > Cardinality(old.moved)
          /\ ~Closed(m, e) => old.moved = {}
      BY <1>0 DEF SessionInv
    <3> QED BY <2>2, <2>3, <3>1
  <2>5. WorkInv'
    BY <1>0, <2>1, <2>2, <2>3 DEF WorkInv
  <2>6. DepotInv'
    <3>1. \A m \in Livreurs, e \in Days : session'[m][e].moved = session[m][e].moved
      BY <2>2
    <3> QED BY <1>0, <2>1, <3>1 DEF DepotInv
  <2>7. TypeOK' /\ ScanInv'
    BY <1>0, <2>1, <2>2 DEF TypeOK, ScanInv, LastScanOf, WithCourier
  <2> QED BY <2>4, <2>5, <2>6, <2>7 DEF CaisseInv
<1> QED BY <1>1, <1>2

-----------------------------------------------------------------------------
(* The invariant and what it says *)

\* The caisses start with the invariant: all open, nothing delivered.
LEMMA CaisseStarts ==
  ASSUME CaisseAssumption, Init
  PROVE  CaisseInv
<1>1. OpenSession \in Session /\ OpenSession.status = "OUVERTE" /\ OpenSession.moved = {}
  BY DEF OpenSession, Session, CaisseSessionStatus
<1>2. \A l \in Livreurs, d \in Days : session[l][d] = OpenSession /\ work[l][d] = None
  BY DEF Init
<1>3. \A p \in Parcels : parcel[p] \in Parcel /\ parcel[p].cash = "NULL"
  BY DEF Init, Parcel
<1>4. Len(<<>>) = 0 /\ <<>> \in Seq(Scan)
  BY EmptySeq
<1>5. TypeOK
  <2>1. session \in [Livreurs -> [Days -> Session]]
    BY <1>1 DEF Init
  <2>2. work \in [Livreurs -> [Days -> [op: {"COMPTER", "CLOTURER"}, lines: SUBSET Parcels,
                                        counted: Nat] \cup {None}]]
    BY DEF Init
  <2>3. parcel \in [Parcels -> Parcel]
    BY <1>3 DEF Init
  <2>4. livres \in Seq(Scan) /\ Len(livres) <= MaxScans /\ counts \in 0..MaxCounts
    BY <1>4 DEF Init, CaisseAssumption
  <2> QED BY <2>1, <2>2, <2>3, <2>4 DEF TypeOK
<1>6. SessionInv /\ WorkInv
  BY <1>1, <1>2 DEF SessionInv, WorkInv, Closed
<1>7. DepotInv /\ ScanInv
  BY <1>1, <1>2, <1>3 DEF DepotInv, ScanInv, WithCourier
<1> QED BY <1>5, <1>6, <1>7 DEF CaisseInv

\* Every step of the caisses keeps the invariant.
LEMMA CaisseGoesOn ==
  ASSUME CaisseAssumption, CaisseInv, [Next]_vars
  PROVE  CaisseInv'
<1>1. ASSUME NEW p \in Parcels, UndoDelivery(p)
      PROVE  CaisseInv'
  BY <1>1, UndoDeliveryKeeps
<1>2. ASSUME NEW p \in Parcels, NEW l \in Livreurs, NEW d \in Days, Deliver(p, l, d)
      PROVE  CaisseInv'
  BY <1>2, DeliverKeeps
<1>3. ASSUME NEW i \in DOMAIN livres, CancelLivre(i)
      PROVE  CaisseInv'
  BY <1>3, CancelLivreKeeps
<1>4. ASSUME NEW l \in Livreurs, NEW d \in Days,
             (\E counted \in Amounts : ReadCount(l, d, counted)) \/ ReadClose(l, d)
      PROVE  CaisseInv'
  BY <1>4, ReadKeeps
<1>5. ASSUME NEW l \in Livreurs, NEW d \in Days, WriteCount(l, d)
      PROVE  CaisseInv'
  BY <1>5, WriteCountKeeps
<1>6. ASSUME NEW l \in Livreurs, NEW d \in Days, WriteClose(l, d)
      PROVE  CaisseInv'
  BY <1>6, WriteCloseKeeps
<1>7. ASSUME NEW l \in Livreurs, NEW d \in Days,
             Abort(l, d) \/ CheckEcart(l, d) \/ CancelDebt(l, d)
      PROVE  CaisseInv'
  BY <1>7, OtherStepsKeep
<1>8. CASE UNCHANGED vars
  BY <1>8 DEF vars, CaisseInv, TypeOK, SessionInv, WorkInv, DepotInv, ScanInv, LastScanOf,
              WithCourier, Closed
<1> QED BY <1>1, <1>2, <1>3, <1>4, <1>5, <1>6, <1>7, <1>8 DEF Next, ParcelStep, SessionStep

(* The caisses keep the invariant whatever the livreurs deliver, sync, cancel,    *)
(* and whatever is counted and closed at the same time.                      *)
THEOREM AlwaysCaisseInv ==
  ASSUME CaisseAssumption
  PROVE  Spec => []CaisseInv
BY CaisseStarts, CaisseGoesOn, PTL DEF Spec

\* Type correctness: every caisse, count, closing and scan stays what it is.
THEOREM CaisseIsTyped ==
  ASSUME CaisseAssumption
  PROVE  Spec => []TypeOK
<1>1. CaisseInv => TypeOK
  BY DEF CaisseInv
<1> QED BY <1>1, AlwaysCaisseInv, PTL

(* The invariant says that the cash at the depot was counted: one session moved   *)
(* it, or none.                                                              *)
LEMMA CountedByInv ==
  ASSUME CaisseInv
  PROVE  CashAtDepotWasCounted
<1>1. TypeOK /\ SessionInv /\ DepotInv
  BY DEF CaisseInv
<1>2. ASSUME NEW p \in Parcels
      PROVE  Cardinality({s \in Livreurs \X Days : p \in session[s[1]][s[2]].moved})
               = IF parcel[p].cash = "AU_DEPOT" THEN 1 ELSE 0
  <2> DEFINE movers == {s \in Livreurs \X Days : p \in session[s[1]][s[2]].moved}
  <2>1. CASE parcel[p].cash = "AU_DEPOT"
    <3>1. PICK l \in Livreurs, d \in Days : p \in session[l][d].moved
      BY <1>1, <2>1 DEF DepotInv
    <3>2. \A m \in Livreurs, e \in Days : p \in session[m][e].moved => m = l /\ e = d
      BY <1>1, <3>1 DEF DepotInv
    <3>3. movers = {<<l, d>>}
      <4>1. <<l, d>> \in movers
        BY <3>1
      <4>2. ASSUME NEW s \in movers
            PROVE  s = <<l, d>>
        <5>1. /\ s = <<s[1], s[2]>> /\ s[1] \in Livreurs /\ s[2] \in Days
              /\ p \in session[s[1]][s[2]].moved
          OBVIOUS
        <5>2. s[1] = l /\ s[2] = d
          BY <3>2, <5>1
        <5> QED BY <5>1, <5>2
      <4> HIDE DEF movers
      <4> QED BY <4>1, <4>2
    <3> HIDE DEF movers
    <3>4. Cardinality(movers) = 1
      BY <3>3, FS_Singleton
    <3> QED BY <2>1, <3>4 DEF movers
  <2>2. CASE parcel[p].cash # "AU_DEPOT"
    <3>1. \A l \in Livreurs, d \in Days : p \notin session[l][d].moved
      BY <1>1, <2>2 DEF DepotInv
    <3>2. movers = {}
      BY <3>1
    <3> HIDE DEF movers
    <3>3. Cardinality(movers) = 0
      BY <3>2, FS_EmptySet
    <3> QED BY <2>2, <3>3 DEF movers
  <2> QED BY <2>1, <2>2
<1>3. ASSUME NEW l \in Livreurs, NEW d \in Days, Closed(l, d)
      PROVE  LET this == session[l][d] IN
             /\ this.expected = Cardinality(this.moved)
             /\ this.debt # "NULL"  <=> this.counted < Cardinality(this.moved)
             /\ this.ecart # "NULL" <=> this.counted > Cardinality(this.moved)
  BY <1>1, <1>3 DEF SessionInv
<1> QED BY <1>2, <1>3 DEF CashAtDepotWasCounted

(* Whatever is synced, cancelled and undone while a caisse is counted and        *)
(* closed, and two closed at once: the cash at the depot is what the closings    *)
(* moved, and each closed caisse was counted against the cash it moved.       *)
THEOREM DepotCashIsCounted ==
  ASSUME CaisseAssumption
  PROVE  Spec => []CashAtDepotWasCounted
BY AlwaysCaisseInv, CountedByInv, PTL

(* The invariant says that no cash is forgotten.  It is the caisse of its last     *)
(* scan's day that expects it, or once that one is closed, today's; unless         *)
(* another counted it, which is then still open.                             *)
LEMMA ExpectedByInv ==
  ASSUME CaisseInv, CaisseAssumption
  PROVE  NoCashForgotten
<1>0. TypeOK /\ SessionInv /\ DepotInv /\ ScanInv
  BY DEF CaisseInv
<1> SUFFICES ASSUME NEW p \in Parcels, WithCourier(p)
             PROVE  \E l \in Livreurs, d \in Days :
                      ~Closed(l, d) /\ p \in deliveryLines(l, d) \cup session[l][d].lines
  BY DEF NoCashForgotten
<1>1. PICK i \in 1..Len(livres) : LastScanOf(i, p)
  BY <1>0 DEF ScanInv
<1>2. /\ livres[i] \in Scan /\ DOMAIN livres = 1..Len(livres) /\ livres[i].parcel = p
      /\ \A j \in 1..Len(livres) : livres[j].parcel = p => j <= i
  BY <1>0, <1>1, LenProperties DEF TypeOK, LastScanOf
<1>3. PICK h \in Livreurs : h = livres[i].livreur
  BY <1>2 DEF Scan
<1>4. PICK e \in Days : e = livres[i].day
  BY <1>2 DEF Scan
<1>5. \A l \in Livreurs, d \in Days : Closed(l, d) => d < LastDay /\ p \notin session[l][d].lines
  BY <1>0 DEF SessionInv, DepotInv, WithCourier
<1>6. PICK t \in Days : /\ ~Closed(h, t) /\ e <= t
                        /\ e = t \/ (e < t /\ Closed(h, e))
  <2>1. CASE ~Closed(h, e)
    <3>1. e <= e
      BY DEF Days, CaisseAssumption
    <3> WITNESS e \in Days
    <3> QED BY <2>1, <3>1
  <2>2. CASE Closed(h, e)
    <3>1. LastDay \in Days /\ e < LastDay /\ LastDay \in Nat
      BY <1>5, <2>2 DEF Days, CaisseAssumption
    <3>2. ~Closed(h, LastDay)
      BY <1>5, <3>1
    <3> QED BY <2>2, <3>1, <3>2 DEF Days
  <2> QED BY <2>1, <2>2
<1>7. CASE CountedElsewhere(p, h, t)
  <2>1. PICK m \in Livreurs, f \in Days : p \in session[m][f].lines
    BY <1>7 DEF CountedElsewhere
  <2> QED BY <1>5, <2>1
<1>8. CASE ~CountedElsewhere(p, h, t)
  <2>1. i \in HisScans(h, t)
    BY <1>2, <1>3, <1>4, <1>6 DEF HisScans
  <2>2. \A j \in HisScans(h, t) : livres[j].parcel = livres[i].parcel => j <= i
    BY <1>2 DEF HisScans
  <2>3. caisseLineOrigin(h, livres[i].day, t)
    BY <1>4, <1>6 DEF caisseLineOrigin
  <2>4. p \in deliveryLines(h, t)
    BY <1>2, <1>8, <2>1, <2>2, <2>3 DEF deliveryLines
  <2> QED BY <1>6, <2>4
<1> QED BY <1>7, <1>8

(* A delivery synced after its day was closed, counted, undone and made again:   *)
(* the cash a courier holds is expected by a caisse not closed, or on its lines. *)
THEOREM CashIsNeverForgotten ==
  ASSUME CaisseAssumption
  PROVE  Spec => []NoCashForgotten
BY AlwaysCaisseInv, ExpectedByInv, PTL
=============================================================================
