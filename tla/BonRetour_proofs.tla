---------------------------- MODULE BonRetour_proofs ----------------------------
(***************************************************************************)
(* Proofs about BonRetour, for any returns, old items, bons, ramasseurs, days, *)
(* hand-outs and corrections: as long as no two transactions crossed on its    *)
(* bons a return is where its line says, and it is given back on one line      *)
(* only, whatever crossed.                                                  *)
(***************************************************************************)
EXTENDS BonRetour, FiniteSetTheorems, TLAPS

-----------------------------------------------------------------------------
(* The inductive invariant *)

Received(b, p) == line[b][p] # None /\ line[b][p].received
Clean(p)       == \A a \in Bons : p \in On(a) => ~bon[a].crossed

\* A line is of a bon that is a row, and so is what a scan or a closing found.
RowsInv ==
  /\ \A b \in Bons, p \in Parcels : line[b][p] # None => bon[b] # None
  /\ preparing # None => preparing.bon = None \/ bon[preparing.bon] # None
  /\ \A r \in Ramasseurs, d \in Days : closing[r][d] # None =>
       \A b \in Bons : closing[r][d][b] # {} => bon[b] # None

\* What the scans under way have found still stands.
ScansInv ==
  /\ \A p \in Parcels : receiving[p] # None =>
       /\ p \in Pending(receiving[p].bon)
       /\ p \notin Articles => place[p] = "RETOUR_EN_ROUTE"
  /\ preparing # None =>
       /\ receiving[preparing.parcel] = None /\ place[preparing.parcel] = "RETOUR_AU_DEPOT"
       /\ \A b \in Bons : preparing.parcel \in On(b) =>
            preparing.parcel \in Pending(b) \ Articles /\ bon[b].crossed

\* A return is given back to its seller when a line was received for it, and one only.
ReceivedInv ==
  \A p \in Parcels \ Articles :
    /\ place[p] = "RETOUR_RECU" <=> \E b \in Bons : Received(b, p)
    /\ \A a, b \in Bons : Received(a, p) /\ Received(b, p) => a = b

(* On a bon no transactions crossed on: something to hand over on the way, nothing  *)
(* left after.                                                               *)
EmptyInv ==
  \A b \in Bons : bon[b] # None /\ ~bon[b].crossed =>
    /\ bon[b].status = "EN_ROUTE" => Pending(b) # {}
    /\ bon[b].status \in {"REMIS", "ARCHIVE"} => Pending(b) = {}

\* An old item is on one line, anything on one bon that nothing crossed on.
OneLineInv ==
  \A p \in Parcels, a, b \in Bons :
    /\ p \in On(a) /\ p \in On(b)
    /\ p \in Articles \/ (~bon[a].crossed /\ ~bon[b].crossed)
    => a = b

\* What is on a line still to hand over, and on no bon crossed, is where it says.
PlaceInv ==
  \A p \in Parcels, b \in Bons : p \in Pending(b) /\ Clean(p) => WhereItsLineSays(b, p)

(* A return whose last event is its preparation is at the depot, and the bon it is   *)
(* on has not left.                                                          *)
FreshInv ==
  \A p \in fresh \ Articles :
    /\ place[p] = "RETOUR_AU_DEPOT"
    /\ \A b \in Bons : p \in Pending(b) /\ ~bon[b].crossed => bon[b].status = "PREPARE"

RetourInv ==
  /\ TypeOK /\ RowsInv /\ ScansInv /\ ReceivedInv /\ EmptyInv
  /\ OneLineInv /\ PlaceInv /\ FreshInv

-----------------------------------------------------------------------------
(* Lemmas *)

\* A function of two keys changed at one pair of keys.
LEMMA TwoKeys ==
  ASSUME NEW S, NEW T, NEW V, NEW f \in [S -> [T -> V]], NEW a \in S, NEW b \in T, NEW v \in V
  PROVE  /\ [f EXCEPT ![a][b] = v] \in [S -> [T -> V]]
         /\ [f EXCEPT ![a][b] = v][a][b] = v
         /\ \A c \in S, e \in T : c # a \/ e # b => [f EXCEPT ![a][b] = v][c][e] = f[c][e]
  OBVIOUS

\* Returns moved: they alone.
LEMMA Moved ==
  ASSUME TypeOK, NEW S, NEW where \in Places
  PROVE  /\ Move(S, where) \in [Parcels -> Places]
         /\ \A p \in Parcels : Move(S, where)[p] = IF p \in S THEN where ELSE place[p]
  BY DEF Move, TypeOK

\* A line still to hand over is a row, and not None.
LEMMA ExpectedIsLine ==
  ASSUME BonRetourAssumption
  PROVE  Expected \in Line /\ Expected # None /\ Expected.received = FALSE
<1>1. Expected \in Line
  BY DEF Expected, Line
<1>2. None \notin Line
  BY DEF BonRetourAssumption
<1> QED BY <1>1, <1>2 DEF Expected

(* Where no bon, no line and no return moves, what is said of them alone is kept.   *)
LEMMA RowsStay ==
  ASSUME RetourInv, place' = place, bon' = bon, line' = line, fresh' = fresh
  PROVE  ReceivedInv' /\ EmptyInv' /\ OneLineInv' /\ PlaceInv' /\ FreshInv'
<1>0. ReceivedInv /\ EmptyInv /\ OneLineInv /\ PlaceInv /\ FreshInv
  BY DEF RetourInv
<1>1. ReceivedInv' /\ EmptyInv'
  BY <1>0 DEF ReceivedInv, EmptyInv, Received, Pending, On
<1>2. OneLineInv' /\ FreshInv'
  BY <1>0 DEF OneLineInv, FreshInv, Pending, On
<1>3. PlaceInv'
  BY <1>0 DEF PlaceInv, Clean, WhereItsLineSays, Pending, On, Is
<1> QED BY <1>1, <1>2, <1>3

-----------------------------------------------------------------------------
(* Every step preserves the invariant *)

\* A day, a scan or a closing that reads, a closing given up: no bon moves.
LEMMA ReadingsKeep ==
  ASSUME RetourInv, BonRetourAssumption,
         \/ NextDay
         \/ \E p \in Parcels : ReadPrepare(p)
         \/ \E b \in Bons, p \in Parcels, r \in Ramasseurs, day \in Days : ReadReceive(b, p, r, day)
         \/ \E r \in Ramasseurs, d \in Days : ReadClose(r, d) \/ AbortClose(r, d)
  PROVE  RetourInv'
<1>0. TypeOK /\ RowsInv /\ ScansInv /\ ReceivedInv /\ EmptyInv
  BY DEF RetourInv
<1>1. /\ place' = place /\ bon' = bon /\ line' = line /\ fresh' = fresh /\ session' = session
      /\ trips' = trips /\ corrections' = corrections
  BY DEF NextDay, ReadPrepare, ReadReceive, ReadClose, AbortClose
<1>2. ReceivedInv' /\ EmptyInv' /\ OneLineInv' /\ PlaceInv' /\ FreshInv'
  BY <1>1, RowsStay
<1> SUFFICES TypeOK' /\ RowsInv' /\ ScansInv'
  BY <1>2 DEF RetourInv
<1>3. CASE NextDay
  <2>1. /\ preparing' = preparing /\ receiving' = receiving /\ closing' = closing
        /\ today' \in Days
    BY <1>0, <1>3 DEF NextDay, TypeOK, Days, BonRetourAssumption
  <2> QED BY <1>0, <1>1, <2>1 DEF TypeOK, RowsInv, ScansInv, Pending, On
<1>4. ASSUME NEW p \in Parcels, ReadPrepare(p)
      PROVE  TypeOK' /\ RowsInv' /\ ScansInv'
  <2>1. PICK b \in Bons \cup {None} :
          /\ preparing' = [parcel |-> p, bon |-> b]
          /\ b # None => bon[b] # None
    BY <1>4 DEF ReadPrepare, Is
  <2>2. /\ today' = today /\ receiving' = receiving /\ closing' = closing
        /\ preparing'.parcel = p /\ preparing'.bon = b
        /\ receiving[p] = None /\ place[p] = "RETOUR_AU_DEPOT" /\ ~OnBon(p)
    BY <1>4, <2>1 DEF ReadPrepare, Locked
  <2>3. TypeOK'
    BY <1>0, <1>1, <2>1, <2>2 DEF TypeOK
  <2>4. RowsInv'
    BY <1>0, <1>1, <2>1, <2>2 DEF RowsInv
  <2>5. ASSUME NEW a \in Bons, p \in On(a)
        PROVE  p \in Pending(a) \ Articles /\ bon[a].crossed
    <3>1. p \notin Articles /\ ~OpenLine(a, p)
      BY <2>2, <2>5 DEF OnBon
    <3>2. p \in Pending(a)
      BY <1>0, <2>2, <2>5, <3>1 DEF ReceivedInv, Received, Pending, On
    <3>3. bon[a] # None /\ bon[a].status \in {"REMIS", "ARCHIVE"}
      <4>1. bon[a] # None
        BY <1>0, <2>5 DEF RowsInv, On
      <4>2. bon[a] \in Bon
        BY <1>0, <4>1 DEF TypeOK
      <4> QED BY <3>1, <3>2, <4>1, <4>2 DEF OpenLine, Is, Bon
    <3> QED BY <1>0, <3>1, <3>2, <3>3 DEF EmptyInv
  <2>6. ScansInv'
    BY <1>0, <1>1, <2>2, <2>5 DEF ScansInv, Pending, On
  <2> QED BY <2>3, <2>4, <2>6
<1>5. ASSUME NEW b \in Bons, NEW p \in Parcels, NEW r \in Ramasseurs, NEW day \in Days,
             ReadReceive(b, p, r, day)
      PROVE  TypeOK' /\ RowsInv' /\ ScansInv'
  <2> DEFINE scan == [bon |-> b, by |-> r, day |-> day, complete |-> CompleteWith(b, p)]
  <2>1. /\ today' = today /\ preparing' = preparing /\ closing' = closing
        /\ receiving' = [receiving EXCEPT ![p] = scan]
        /\ p \in Pending(b) /\ (p \in Articles \/ place[p] = "RETOUR_EN_ROUTE") /\ ~Locked(p)
    BY <1>5 DEF ReadReceive
  <2>2. scan \in [bon: Bons, by: Ramasseurs, day: Days, complete: BOOLEAN] /\ scan.bon = b
    BY DEF CompleteWith
  <2> HIDE DEF scan
  <2>3. /\ receiving' \in [Parcels -> [bon: Bons, by: Ramasseurs, day: Days, complete: BOOLEAN]
                                       \cup {None}]
        /\ receiving'[p] = scan /\ \A q \in Parcels : q # p => receiving'[q] = receiving[q]
    BY <1>0, <2>1, <2>2 DEF TypeOK
  <2>4. TypeOK' /\ RowsInv'
    BY <1>0, <1>1, <2>1, <2>3 DEF TypeOK, RowsInv
  <2>5. ScansInv'
    BY <1>0, <1>1, <2>1, <2>2, <2>3 DEF ScansInv, Pending, On, Locked
  <2> QED BY <2>4, <2>5
<1>6. ASSUME NEW r \in Ramasseurs, NEW d \in Days, ReadClose(r, d) \/ AbortClose(r, d)
      PROVE  TypeOK' /\ RowsInv' /\ ScansInv'
  <2> DEFINE read == [b \in Bons |-> IF Is(b, "EN_ROUTE") /\ bon[b].ramasseur = r
                                     THEN Pending(b) ELSE {}]
             C == [Bons -> SUBSET Parcels] \cup {None}
  <2>1. /\ today' = today /\ preparing' = preparing /\ receiving' = receiving
        /\ \/ closing' = [closing EXCEPT ![r][d] = read]
           \/ closing' = [closing EXCEPT ![r][d] = None]
    BY <1>6 DEF ReadClose, AbortClose
  <2>2. read \in C /\ None \in C /\ closing \in [Ramasseurs -> [Days -> C]]
    BY <1>0 DEF TypeOK, Pending, On
  <2>3. \A b \in Bons : read[b] # {} => bon[b] # None
    BY DEF Is
  <2> HIDE DEF read, C
  <2>4. /\ closing' \in [Ramasseurs -> [Days -> C]]
        /\ closing'[r][d] \in {read, None}
        /\ \A m \in Ramasseurs, e \in Days : m # r \/ e # d => closing'[m][e] = closing[m][e]
    <3>1. PICK v \in {read, None} : closing' = [closing EXCEPT ![r][d] = v]
      BY <2>1
    <3>2. v \in C
      BY <2>2, <3>1
    <3>3. /\ closing' \in [Ramasseurs -> [Days -> C]] /\ closing'[r][d] = v
          /\ \A m \in Ramasseurs, e \in Days : m # r \/ e # d => closing'[m][e] = closing[m][e]
      BY <2>2, <3>1, <3>2, TwoKeys
    <3> QED BY <3>1, <3>3
  <2>5. TypeOK'
    BY <1>0, <1>1, <2>1, <2>4 DEF TypeOK, C
  <2>6. RowsInv'
    BY <1>0, <1>1, <2>1, <2>3, <2>4 DEF RowsInv
  <2>7. ScansInv'
    BY <1>0, <1>1, <2>1 DEF ScansInv, Pending, On
  <2> QED BY <2>5, <2>6, <2>7
<1> QED BY <1>3, <1>4, <1>5, <1>6

\* A preparation written: its line is the only one that nothing crossed on.
LEMMA WritePrepareKeeps ==
  ASSUME RetourInv, BonRetourAssumption, NEW b \in Bons, WritePrepare(b)
  PROVE  RetourInv'
<1> DEFINE p == preparing.parcel
<1>0. /\ TypeOK /\ RowsInv /\ ScansInv /\ ReceivedInv /\ EmptyInv
      /\ OneLineInv /\ PlaceInv /\ FreshInv
  BY DEF RetourInv
<1>1. /\ preparing # None /\ p \in Parcels /\ line' = [line EXCEPT ![b][p] = Expected]
      /\ fresh' = fresh \cup {p} /\ preparing' = None /\ (NewBon(b) \/ JoinBon(b))
      /\ today' = today /\ place' = place /\ session' = session /\ receiving' = receiving
      /\ closing' = closing /\ trips' = trips /\ corrections' = corrections
  BY <1>0 DEF WritePrepare, TypeOK
<1>2. /\ receiving[p] = None /\ place[p] = "RETOUR_AU_DEPOT"
      /\ \A a \in Bons : p \in On(a) => p \in Pending(a) \ Articles /\ bon[a].crossed
  BY <1>0, <1>1 DEF ScansInv
<1>3. /\ bon' \in [Bons -> Bon \cup {None}] /\ bon'[b] # None
      /\ \A a \in Bons : a # b => bon'[a] = bon[a]
      /\ ~bon'[b].crossed => bon'[b].status = "PREPARE"
      /\ bon[b] # None => /\ bon'[b].status = bon[b].status
                          /\ bon[b].crossed => bon'[b].crossed
  <2>1. CASE NewBon(b)
    <3> DEFINE row == [status |-> "PREPARE", ramasseur |-> None, crossed |-> FALSE]
    <3>1. row \in Bon /\ row.status = "PREPARE"
      BY DEF Bon
    <3>2. row # None
      BY <3>1 DEF BonRetourAssumption
    <3>3. bon[b] = None /\ bon' = [bon EXCEPT ![b] = row]
      BY <2>1 DEF NewBon
    <3> HIDE DEF row
    <3> QED BY <1>0, <3>1, <3>2, <3>3 DEF TypeOK
  <2>2. CASE JoinBon(b)
    <3> DEFINE row == [bon[b] EXCEPT !.crossed = @ \/ ~Is(b, "PREPARE")]
    <3>1. preparing.bon = b /\ bon' = [bon EXCEPT ![b] = row]
      BY <2>2 DEF JoinBon
    <3>2. bon[b] # None /\ bon[b] \in Bon
      BY <1>0, <1>1, <3>1 DEF RowsInv, TypeOK, BonRetourAssumption
    <3>3. /\ row \in Bon /\ row.status = bon[b].status
          /\ row.crossed = (bon[b].crossed \/ ~Is(b, "PREPARE"))
      BY <3>2 DEF Bon, Is
    <3>4. row # None
      BY <3>3 DEF BonRetourAssumption
    <3>5. ~row.crossed => row.status = "PREPARE"
      BY <3>3 DEF Is
    <3> HIDE DEF row
    <3> QED BY <1>0, <3>1, <3>3, <3>4, <3>5 DEF TypeOK
  <2> QED BY <1>1, <2>1, <2>2
<1> HIDE DEF p
<1>4. /\ line' \in [Bons -> [Parcels -> Line \cup {None}]] /\ line'[b][p] = Expected
      /\ \A a \in Bons, q \in Parcels : a # b \/ q # p => line'[a][q] = line[a][q]
  BY <1>0, <1>1, ExpectedIsLine, TwoKeys DEF TypeOK
<1>5. Expected # None /\ Expected.received = FALSE
  BY ExpectedIsLine
<1>6. TypeOK'
  BY <1>0, <1>1, <1>3, <1>4 DEF TypeOK
<1>7. RowsInv'
  BY <1>0, <1>1, <1>3, <1>4 DEF RowsInv
<1>8. ScansInv'
  <2> SUFFICES ASSUME NEW q \in Parcels, receiving[q] # None
               PROVE  /\ (q \in Pending(receiving[q].bon))'
                      /\ q \notin Articles => place'[q] = "RETOUR_EN_ROUTE"
    BY <1>1 DEF ScansInv
  <2>1. q # p /\ q \in Pending(receiving[q].bon) /\ receiving[q].bon \in Bons
    BY <1>0, <1>2 DEF ScansInv, TypeOK
  <2> QED BY <1>0, <1>1, <1>4, <2>1 DEF ScansInv, Pending, On
<1>9. ReceivedInv'
  <2>1. \A a \in Bons, q \in Parcels : Received(a, q)' <=> Received(a, q)
    BY <1>2, <1>4, <1>5 DEF Received, Pending, On
  <2> QED BY <1>0, <1>1, <2>1 DEF ReceivedInv
<1>10. EmptyInv'
  BY <1>0, <1>3, <1>4 DEF EmptyInv, Pending, On
\* A line that was there, and a bon that nothing crossed on since.
<1>11. ASSUME NEW a \in Bons, NEW q \in Parcels, a # b \/ q # p, q \in On(a)'
       PROVE  /\ q \in On(a) /\ bon[a] # None /\ bon'[a].status = bon[a].status
              /\ bon[a].crossed => bon'[a].crossed
  <2>1. q \in On(a) /\ bon[a] # None
    BY <1>0, <1>4, <1>11 DEF On, RowsInv
  <2> QED BY <1>3, <2>1
<1>12. p \in On(b)'
  BY <1>1, <1>4, <1>5 DEF On
<1>13. ASSUME NEW a \in Bons, a # b, p \in On(a)'
       PROVE  bon'[a].crossed /\ p \notin Articles
  BY <1>1, <1>2, <1>11, <1>13
<1>14. OneLineInv'
  <2> SUFFICES ASSUME NEW q \in Parcels, NEW a \in Bons, NEW c \in Bons, q \in On(a)', q \in On(c)',
                      q \in Articles \/ (~bon'[a].crossed /\ ~bon'[c].crossed)
               PROVE  a = c
    BY DEF OneLineInv
  <2>1. CASE q # p
    BY <1>0, <1>11, <2>1 DEF OneLineInv
  <2>2. CASE q = p
    BY <1>13, <2>2
  <2> QED BY <2>1, <2>2
<1>15. PlaceInv'
  <2> SUFFICES ASSUME NEW q \in Parcels, NEW a \in Bons, q \in Pending(a)', Clean(q)'
               PROVE  WhereItsLineSays(a, q)'
    BY DEF PlaceInv
  <2>0. q \in On(a)' /\ line'[a][q].received = FALSE /\ ~bon'[a].crossed
    BY <1>6 DEF Pending, Clean, TypeOK, Line, On
  <2>1. CASE q = p
    <3>1. a = b
      BY <1>13, <2>0, <2>1
    <3> QED BY <1>1, <1>2, <1>3, <2>0, <2>1, <3>1 DEF WhereItsLineSays, Is
  <2>2. CASE q # p
    <3>1. q \in Pending(a) /\ bon[a] # None /\ bon'[a].status = bon[a].status
      BY <1>4, <1>11, <2>0, <2>2 DEF Pending
    <3>2. Clean(q)
      <4> SUFFICES ASSUME NEW c \in Bons, q \in On(c) PROVE ~bon[c].crossed
        BY DEF Clean
      <4>1. q \in On(c)'
        BY <1>4, <2>2 DEF On
      <4> QED BY <1>11, <2>2, <4>1 DEF Clean
    <3>3. WhereItsLineSays(a, q)
      BY <1>0, <3>1, <3>2 DEF PlaceInv
    <3>4. bon'[a] # None
      BY <1>3, <3>1
    <3> QED BY <1>1, <1>4, <2>2, <3>1, <3>3, <3>4 DEF WhereItsLineSays, Is
  <2> QED BY <2>1, <2>2
<1>16. FreshInv'
  <2> SUFFICES ASSUME NEW q \in Parcels, q \in fresh' \ Articles
               PROVE  /\ place'[q] = "RETOUR_AU_DEPOT"
                      /\ \A a \in Bons : q \in Pending(a)' /\ ~bon'[a].crossed
                                           => bon'[a].status = "PREPARE"
    BY <1>0, <1>1 DEF FreshInv, TypeOK
  <2>1. CASE q = p
    BY <1>1, <1>2, <1>3, <1>13, <2>1 DEF Pending
  <2>2. CASE q # p
    <3>1. q \in fresh \ Articles
      BY <1>1, <2>2
    <3>2. ASSUME NEW a \in Bons, q \in Pending(a)', ~bon'[a].crossed
          PROVE  bon'[a].status = "PREPARE"
      <4>1. q \in On(a)' /\ q \in Pending(a)
        BY <1>4, <2>2, <3>2 DEF Pending, On
      <4> QED BY <1>0, <1>11, <2>2, <3>1, <3>2, <4>1 DEF FreshInv
    <3> QED BY <1>0, <1>1, <3>1, <3>2 DEF FreshInv
  <2> QED BY <2>1, <2>2
<1> QED BY <1>6, <1>7, <1>8, <1>9, <1>10, <1>14, <1>15, <1>16 DEF RetourInv

\* A preparation cancelled: what else the return is on has not left.
LEMMA UnprepareKeeps ==
  ASSUME RetourInv, BonRetourAssumption, NEW b \in Bons, NEW p \in Parcels, Unprepare(b, p)
  PROVE  RetourInv'
<1>0. /\ TypeOK /\ RowsInv /\ ScansInv /\ ReceivedInv /\ EmptyInv
      /\ OneLineInv /\ PlaceInv /\ FreshInv
  BY DEF RetourInv
<1>1. /\ p \in fresh /\ ~Locked(p) /\ bon[b] # None /\ bon[b].status = "PREPARE" /\ p \in Pending(b)
      /\ line' = [line EXCEPT ![b][p] = None] /\ fresh' = fresh \ {p}
      /\ today' = today /\ place' = place /\ bon' = bon /\ session' = session
      /\ preparing' = preparing /\ receiving' = receiving /\ closing' = closing
      /\ trips' = trips /\ corrections' = corrections
  BY DEF Unprepare, Is
<1>2. /\ line' \in [Bons -> [Parcels -> Line \cup {None}]] /\ line'[b][p] = None
      /\ \A a \in Bons, q \in Parcels : a # b \/ q # p => line'[a][q] = line[a][q]
  BY <1>0, <1>1, TwoKeys DEF TypeOK
<1>3. TypeOK'
  BY <1>0, <1>1, <1>2 DEF TypeOK
<1>4. RowsInv'
  BY <1>0, <1>1, <1>2 DEF RowsInv
<1>5. ScansInv'
  <2>1. ASSUME NEW q \in Parcels, receiving[q] # None
        PROVE  /\ (q \in Pending(receiving[q].bon))'
               /\ q \notin Articles => place'[q] = "RETOUR_EN_ROUTE"
    <3>1. q # p /\ q \in Pending(receiving[q].bon) /\ receiving[q].bon \in Bons
      BY <1>0, <1>1, <2>1 DEF ScansInv, TypeOK, Locked
    <3> QED BY <1>0, <1>1, <1>2, <2>1, <3>1 DEF ScansInv, Pending, On
  <2>2. ASSUME preparing # None
        PROVE  LET q == preparing.parcel IN
               /\ receiving[q] = None /\ place[q] = "RETOUR_AU_DEPOT"
               /\ \A a \in Bons : (q \in On(a))' =>
                    (q \in Pending(a))' /\ q \notin Articles /\ bon[a].crossed
    <3>1. preparing.parcel # p /\ preparing.parcel \in Parcels
      BY <1>0, <1>1, <2>2 DEF Locked, TypeOK
    <3> QED BY <1>0, <1>1, <1>2, <2>2, <3>1 DEF ScansInv, Pending, On
  <2> QED BY <1>1, <2>1, <2>2 DEF ScansInv
<1>6. ReceivedInv'
  <2>1. \A a \in Bons, q \in Parcels : Received(a, q)' <=> Received(a, q)
    BY <1>1, <1>2 DEF Received, Pending, On
  <2> QED BY <1>0, <1>1, <2>1 DEF ReceivedInv
<1>7. EmptyInv'
  BY <1>0, <1>1, <1>2 DEF EmptyInv, Pending, On
<1>8. OneLineInv'
  BY <1>0, <1>1, <1>2 DEF OneLineInv, On
<1>9. PlaceInv'
  <2> SUFFICES ASSUME NEW q \in Parcels, NEW a \in Bons, q \in Pending(a)', Clean(q)'
               PROVE  WhereItsLineSays(a, q)'
    BY DEF PlaceInv
  <2>1. /\ q \in Pending(a) /\ (a # b \/ q # p)
        /\ bon[a] # None /\ ~bon[a].crossed /\ line'[a][q] = line[a][q] /\ ~line[a][q].received
    BY <1>0, <1>1, <1>2 DEF Pending, On, RowsInv, Clean
  <2>2. CASE q # p
    <3>1. Clean(q)
      BY <1>1, <1>2, <2>2 DEF Clean, On
    <3>2. WhereItsLineSays(a, q)
      BY <1>0, <2>1, <3>1 DEF PlaceInv
    <3> QED BY <1>1, <2>1, <3>2 DEF WhereItsLineSays, Is
  <2>3. CASE q = p
    <3>1. p \notin Articles
      BY <1>0, <1>1, <2>1, <2>3 DEF OneLineInv, Pending
    <3>2. place[p] = "RETOUR_AU_DEPOT" /\ bon[a].status = "PREPARE"
      BY <1>0, <1>1, <2>1, <2>3, <3>1 DEF FreshInv
    <3> QED BY <1>1, <2>1, <2>3, <3>2 DEF WhereItsLineSays, Is
  <2> QED BY <2>2, <2>3
<1>10. FreshInv'
  BY <1>0, <1>1, <1>2 DEF FreshInv, Pending, On
<1> QED BY <1>3, <1>4, <1>5, <1>6, <1>7, <1>8, <1>9, <1>10 DEF RetourInv

\* A bon handed out: its lines that wait are on the way, and on no other bon.
LEMMA HandOutKeeps ==
  ASSUME RetourInv, BonRetourAssumption, NEW b \in Bons, NEW r \in Ramasseurs, HandOut(b, r)
  PROVE  RetourInv'
<1> DEFINE row == [bon[b] EXCEPT !.status = "EN_ROUTE", !.ramasseur = r]
           out == Pending(b)
<1>0. /\ TypeOK /\ RowsInv /\ ScansInv /\ ReceivedInv /\ EmptyInv
      /\ OneLineInv /\ PlaceInv /\ FreshInv
  BY DEF RetourInv
<1>1. /\ bon[b] # None /\ bon[b].status = "PREPARE" /\ out # {}
      /\ \A p \in out : ~Locked(p) /\ (p \in Articles \/ place[p] = "RETOUR_AU_DEPOT")
      /\ place' = Move(out, "RETOUR_EN_ROUTE") /\ fresh' = fresh \ (out \ Articles)
      /\ session' = [session EXCEPT ![r][today] = "OUVERTE"] /\ trips' = trips + 1
      /\ trips < MaxTrips
      /\ today' = today /\ line' = line /\ preparing' = preparing /\ receiving' = receiving
      /\ closing' = closing /\ corrections' = corrections
  BY DEF HandOut, Is
<1>2. bon' = [bon EXCEPT ![b] = row]
  BY DEF HandOut
<1>3. row \in Bon /\ row # None /\ row.status = "EN_ROUTE" /\ row.crossed = bon[b].crossed
  <2>1. bon[b] \in Bon
    BY <1>0, <1>1 DEF TypeOK
  <2>2. row \in Bon /\ row.status = "EN_ROUTE" /\ row.crossed = bon[b].crossed
    BY <2>1 DEF Bon
  <2> QED BY <2>2 DEF BonRetourAssumption
<1> HIDE DEF row
<1>4. /\ bon' \in [Bons -> Bon \cup {None}] /\ bon'[b] = row
      /\ \A a \in Bons : a # b => bon'[a] = bon[a]
  BY <1>0, <1>2, <1>3 DEF TypeOK
<1>5. /\ place' \in [Parcels -> Places]
      /\ \A p \in Parcels : place'[p] = IF p \in out THEN "RETOUR_EN_ROUTE" ELSE place[p]
  BY <1>0, <1>1, Moved DEF Places
<1>6. \A a \in Bons : Pending(a)' = Pending(a) /\ On(a)' = On(a)
  BY <1>1 DEF Pending, On
<1>7. \A a \in Bons : (bon'[a] # None <=> bon[a] # None) /\ bon'[a].crossed = bon[a].crossed
  BY <1>1, <1>3, <1>4
<1>8. \A p \in Parcels : p \in out <=> p \in Pending(b)
  OBVIOUS
<1> HIDE DEF out
<1>9. TypeOK'
  <2>1. session' \in [Ramasseurs -> [Days -> {"NON", "OUVERTE", "CLOTUREE"}]]
    BY <1>0, <1>1 DEF TypeOK
  <2>2. trips' \in 0..MaxTrips
    BY <1>0, <1>1 DEF TypeOK, BonRetourAssumption
  <2>3. fresh' \subseteq Parcels
    BY <1>0, <1>1 DEF TypeOK
  <2> QED BY <1>0, <1>1, <1>4, <1>5, <2>1, <2>2, <2>3 DEF TypeOK
<1>10. RowsInv'
  BY <1>0, <1>1, <1>7 DEF RowsInv, TypeOK
<1>11. ScansInv'
  <2>1. ASSUME NEW q \in Parcels, receiving[q] # None
        PROVE  q \in Pending(receiving[q].bon)' /\ place'[q] = place[q]
    <3>1. q \notin out /\ receiving[q].bon \in Bons
      BY <1>0, <1>1, <2>1 DEF TypeOK, Locked
    <3> QED BY <1>0, <1>1, <1>5, <1>6, <2>1, <3>1 DEF ScansInv
  <2>2. ASSUME preparing # None
        PROVE  place'[preparing.parcel] = place[preparing.parcel] /\ preparing.parcel \in Parcels
    BY <1>0, <1>1, <1>5, <2>2 DEF TypeOK, Locked
  <2> QED BY <1>0, <1>1, <1>6, <1>7, <2>1, <2>2 DEF ScansInv
<1>12. ReceivedInv'
  <2>1. \A a \in Bons, q \in Parcels : Received(a, q)' <=> Received(a, q)
    BY <1>1 DEF Received
  <2>2. \A q \in Parcels \ Articles : place'[q] = "RETOUR_RECU" <=> place[q] = "RETOUR_RECU"
    BY <1>1, <1>5
  <2> QED BY <1>0, <2>1, <2>2 DEF ReceivedInv
<1>13. EmptyInv'
  BY <1>0, <1>1, <1>3, <1>4, <1>6, <1>7, <1>8 DEF EmptyInv, out
<1>14. OneLineInv'
  BY <1>0, <1>6, <1>7 DEF OneLineInv
<1>15. PlaceInv'
  <2> SUFFICES ASSUME NEW q \in Parcels, NEW a \in Bons, q \in Pending(a), Clean(q)
               PROVE  WhereItsLineSays(a, q)'
    BY <1>6, <1>7 DEF PlaceInv, Clean
  <2>1. /\ bon[a] # None /\ ~bon[a].crossed /\ line'[a][q] = line[a][q] /\ ~line[a][q].received
        /\ q \in On(a)
    BY <1>0, <1>1 DEF Pending, On, RowsInv, Clean
  <2>2. CASE q \in out
    <3>1. a = b
      BY <1>0, <1>8, <2>1, <2>2 DEF OneLineInv, Clean, Pending
    <3> QED BY <1>3, <1>4, <1>5, <2>1, <2>2, <3>1 DEF WhereItsLineSays, Is
  <2>3. CASE q \notin out
    <3>1. a # b
      BY <1>8, <2>3
    <3>2. WhereItsLineSays(a, q)
      BY <1>0 DEF PlaceInv
    <3> QED BY <1>4, <1>5, <2>1, <2>3, <3>1, <3>2 DEF WhereItsLineSays, Is
  <2> QED BY <2>2, <2>3
<1>16. FreshInv'
  <2> SUFFICES ASSUME NEW q \in fresh \ Articles, q \notin out
               PROVE  /\ place'[q] = "RETOUR_AU_DEPOT"
                      /\ \A a \in Bons : q \in Pending(a) /\ ~bon[a].crossed
                                           => bon'[a].status = "PREPARE"
    BY <1>1, <1>6, <1>7 DEF FreshInv
  <2>1. q \in Parcels
    BY <1>0 DEF TypeOK
  <2> QED BY <1>0, <1>4, <1>5, <1>8, <2>1 DEF FreshInv
<1> QED BY <1>9, <1>10, <1>11, <1>12, <1>13, <1>14, <1>15, <1>16 DEF RetourInv

\* A return received: its line is no longer one to hand over.
LEMMA WriteReceiveKeeps ==
  ASSUME RetourInv, BonRetourAssumption, NEW p \in Parcels, WriteReceive(p)
  PROVE  RetourInv'
<1>a. PICK scan \in [bon: Bons, by: Ramasseurs, day: Days, complete: BOOLEAN] :
         scan = receiving[p] /\ scan # None
  BY DEF RetourInv, TypeOK, WriteReceive
<1>b. PICK b \in Bons : b = scan.bon
  BY <1>a
<1> DEFINE got == [received |-> TRUE, by |-> scan.by, day |-> scan.day]
           row == [bon[b] EXCEPT !.status = IF scan.complete THEN "REMIS" ELSE @,
                     !.crossed = @ \/ ~Is(b, "EN_ROUTE") \/ scan.complete # CompleteWith(b, p)]
<1>0. /\ TypeOK /\ RowsInv /\ ScansInv /\ ReceivedInv /\ EmptyInv
      /\ OneLineInv /\ PlaceInv /\ FreshInv
  BY DEF RetourInv
<1>1. /\ place' = Move({p}, "RETOUR_RECU")
      /\ fresh' = fresh \ ({p} \ Articles) /\ receiving' = [receiving EXCEPT ![p] = None]
      /\ today' = today /\ session' = session /\ preparing' = preparing /\ closing' = closing
      /\ trips' = trips /\ corrections' = corrections
  BY DEF WriteReceive
<1>2. line' = [line EXCEPT ![b][p] = got] /\ bon' = [bon EXCEPT ![b] = row]
  BY <1>a, <1>b DEF WriteReceive
<1>3. /\ scan.complete \in BOOLEAN /\ p \in Pending(b) /\ bon[b] # None /\ bon[b] \in Bon
      /\ p \notin Articles => place[p] = "RETOUR_EN_ROUTE"
  BY <1>a, <1>b, <1>0 DEF TypeOK, ScansInv, RowsInv, Pending, On
<1>4. got \in Line /\ got # None /\ got.received = TRUE
  <2>1. got \in Line /\ got.received = TRUE
    BY <1>3 DEF Line
  <2> QED BY <2>1 DEF BonRetourAssumption
<1>5. /\ row \in Bon /\ row # None
      /\ row.status = IF scan.complete THEN "REMIS" ELSE bon[b].status
      /\ bon[b].crossed => row.crossed
      /\ ~row.crossed => /\ ~bon[b].crossed /\ bon[b].status = "EN_ROUTE"
                         /\ scan.complete <=> Pending(b) \subseteq {p}
  <2>1. /\ row \in Bon /\ row.status = IF scan.complete THEN "REMIS" ELSE bon[b].status
        /\ row.crossed = (bon[b].crossed \/ ~Is(b, "EN_ROUTE")
                            \/ scan.complete # CompleteWith(b, p))
    BY <1>3 DEF Bon, Is, CompleteWith
  <2>2. row # None
    BY <2>1 DEF BonRetourAssumption
  <2> HIDE DEF row
  <2>3. ~row.crossed => /\ ~bon[b].crossed /\ bon[b].status = "EN_ROUTE"
                        /\ scan.complete <=> Pending(b) \subseteq {p}
    BY <1>3, <2>1 DEF Is, CompleteWith
  <2> QED BY <2>1, <2>2, <2>3
<1> HIDE DEF got, row
<1>6. /\ line' \in [Bons -> [Parcels -> Line \cup {None}]] /\ line'[b][p] = got
      /\ \A a \in Bons, q \in Parcels : a # b \/ q # p => line'[a][q] = line[a][q]
  BY <1>0, <1>2, <1>3, <1>4, TwoKeys DEF TypeOK
<1>7. /\ bon' \in [Bons -> Bon \cup {None}] /\ bon'[b] = row
      /\ \A a \in Bons : a # b => bon'[a] = bon[a]
  BY <1>0, <1>2, <1>3, <1>5 DEF TypeOK
<1>8. /\ place' \in [Parcels -> Places] /\ place'[p] = "RETOUR_RECU"
      /\ \A q \in Parcels : q # p => place'[q] = place[q]
  BY <1>0, <1>1, Moved DEF Places
<1>9. /\ receiving' \in [Parcels -> [bon: Bons, by: Ramasseurs, day: Days, complete: BOOLEAN]
                                     \cup {None}]
      /\ receiving'[p] = None /\ \A q \in Parcels : q # p => receiving'[q] = receiving[q]
  BY <1>0, <1>1 DEF TypeOK
<1>10. p \notin Pending(b)'
  BY <1>4, <1>6 DEF Pending
\* The lines and the bons of the others.
<1>11. /\ \A a \in Bons, q \in Parcels : q \in On(a)' <=> q \in On(a)
       /\ \A a \in Bons, q \in Parcels : q \in Pending(a)' <=> q \in Pending(a) /\ (a # b \/ q # p)
       /\ \A a \in Bons, q \in Parcels : Received(a, q)' <=> Received(a, q) \/ (a = b /\ q = p)
  BY <1>3, <1>4, <1>6 DEF On, Pending, Received
<1>12. \A a \in Bons : (bon[a] # None => bon'[a] # None) /\ (bon[a].crossed => bon'[a].crossed)
  BY <1>5, <1>7
<1>13. TypeOK'
  <2>1. fresh' \subseteq Parcels
    BY <1>0, <1>1 DEF TypeOK
  <2> QED BY <1>0, <1>1, <1>6, <1>7, <1>8, <1>9, <2>1 DEF TypeOK
<1>14. RowsInv'
  <2>1. \A a \in Bons, q \in Parcels : line'[a][q] # None => bon'[a] # None
    BY <1>0, <1>3, <1>6, <1>12 DEF RowsInv
  <2>2. preparing # None => preparing.bon = None \/ bon'[preparing.bon] # None
    BY <1>0, <1>12 DEF RowsInv, TypeOK
  <2>3. ASSUME NEW r \in Ramasseurs, NEW d \in Days, closing[r][d] # None,
               NEW a \in Bons, closing[r][d][a] # {}
        PROVE  bon'[a] # None
    BY <1>0, <1>12, <2>3 DEF RowsInv
  <2> QED BY <1>1, <2>1, <2>2, <2>3 DEF RowsInv
<1>15. ScansInv'
  <2>1. ASSUME NEW q \in Parcels, receiving'[q] # None
        PROVE  /\ q \in Pending(receiving[q].bon)' /\ place'[q] = place[q] /\ q # p
               /\ receiving'[q] = receiving[q]
    <3>1. q # p /\ receiving'[q] = receiving[q]
      BY <1>9, <2>1
    <3>2. receiving[q].bon \in Bons /\ q \in Pending(receiving[q].bon)
      BY <1>0, <2>1, <3>1 DEF TypeOK, ScansInv
    <3> QED BY <1>8, <1>11, <3>1, <3>2
  <2>2. ASSUME preparing # None
        PROVE  /\ preparing.parcel \in Parcels /\ preparing.parcel # p
               /\ place'[preparing.parcel] = place[preparing.parcel]
               /\ receiving'[preparing.parcel] = receiving[preparing.parcel]
    BY <1>a, <1>0, <1>1, <1>8, <1>9, <2>2 DEF TypeOK, ScansInv
  <2> QED BY <1>0, <1>1, <1>11, <1>12, <2>1, <2>2 DEF ScansInv
<1>16. ReceivedInv'
  <2> SUFFICES ASSUME NEW q \in Parcels \ Articles
               PROVE  /\ place'[q] = "RETOUR_RECU" <=> \E a \in Bons : Received(a, q)'
                      /\ \A a, c \in Bons : Received(a, q)' /\ Received(c, q)' => a = c
    BY DEF ReceivedInv
  <2>1. CASE q = p
    <3>1. \A a \in Bons : ~Received(a, p)
      BY <1>0, <1>3, <2>1 DEF ReceivedInv
    <3> QED BY <1>3, <1>8, <1>11, <2>1, <3>1
  <2>2. CASE q # p
    BY <1>0, <1>8, <1>11, <2>2 DEF ReceivedInv
  <2> QED BY <2>1, <2>2
<1>17. EmptyInv'
  <2> SUFFICES ASSUME NEW a \in Bons, bon'[a] # None, ~bon'[a].crossed
               PROVE  /\ bon'[a].status = "EN_ROUTE" => Pending(a)' # {}
                      /\ bon'[a].status \in {"REMIS", "ARCHIVE"} => Pending(a)' = {}
    BY DEF EmptyInv
  <2>1. CASE a = b
    <3>1. /\ bon'[b].status = IF scan.complete THEN "REMIS" ELSE "EN_ROUTE"
          /\ scan.complete <=> Pending(b) \subseteq {p}
      BY <1>5, <1>7, <2>1
    <3>2. Pending(b)' = Pending(b) \ {p}
      BY <1>3, <1>11 DEF Pending, On
    <3> QED BY <1>3, <2>1, <3>1, <3>2
  <2>2. CASE a # b
    <3>1. Pending(a)' = Pending(a)
      BY <1>11, <2>2 DEF Pending, On
    <3> QED BY <1>0, <1>7, <2>2, <3>1 DEF EmptyInv
  <2> QED BY <2>1, <2>2
<1>18. OneLineInv'
  BY <1>0, <1>11, <1>12 DEF OneLineInv
<1>19. PlaceInv'
  <2> SUFFICES ASSUME NEW q \in Parcels, NEW a \in Bons, q \in Pending(a)', Clean(q)'
               PROVE  WhereItsLineSays(a, q)'
    BY DEF PlaceInv
  <2>1. /\ q \in Pending(a) /\ (a # b \/ q # p) /\ line'[a][q] = line[a][q]
        /\ bon[a] # None /\ ~bon'[a].crossed /\ q \in On(a) /\ ~line[a][q].received
    BY <1>0, <1>6, <1>11 DEF Pending, On, RowsInv, Clean
  <2>2. q # p
    <3>1. ASSUME q = p
          PROVE  FALSE
      <4>1. p \in On(b) /\ ~bon'[b].crossed /\ a # b
        BY <1>3, <1>11, <2>1, <3>1 DEF Clean, Pending
      <4> QED BY <1>0, <1>3, <1>12, <2>1, <3>1, <4>1 DEF OneLineInv
    <3> QED BY <3>1
  <2>3. Clean(q)
    BY <1>11, <1>12 DEF Clean
  <2>4. WhereItsLineSays(a, q)
    BY <1>0, <2>1, <2>3 DEF PlaceInv
  <2>5. bon'[a].status = bon[a].status /\ bon'[a] # None
    <3>1. CASE a = b
      <4>1. ~(Pending(b) \subseteq {p})
        BY <2>1, <2>2, <3>1
      <4> QED BY <1>5, <1>7, <2>1, <3>1, <4>1
    <3> QED BY <1>7, <2>1, <3>1
  <2> QED BY <1>8, <2>1, <2>2, <2>4, <2>5 DEF WhereItsLineSays, Is
<1>20. FreshInv'
  <2> SUFFICES ASSUME NEW q \in fresh' \ Articles
               PROVE  /\ place'[q] = "RETOUR_AU_DEPOT"
                      /\ \A a \in Bons : q \in Pending(a)' /\ ~bon'[a].crossed
                                           => bon'[a].status = "PREPARE"
    BY DEF FreshInv
  <2>1. q \in Parcels /\ q \in fresh \ Articles /\ q # p
    BY <1>0, <1>1 DEF TypeOK
  <2>2. ASSUME NEW a \in Bons, q \in Pending(a)', ~bon'[a].crossed
        PROVE  bon'[a].status = "PREPARE"
    <3>1. q \in Pending(a) /\ ~bon[a].crossed /\ bon[a].status = "PREPARE"
      BY <1>0, <1>11, <1>12, <2>1, <2>2 DEF FreshInv
    <3>2. a # b
      BY <1>5, <1>7, <2>2, <3>1
    <3> QED BY <1>7, <3>1, <3>2
  <2> QED BY <1>0, <1>8, <2>1, <2>2 DEF FreshInv
<1> QED BY <1>13, <1>14, <1>15, <1>16, <1>17, <1>18, <1>19, <1>20 DEF RetourInv

\* The signed copy is back: nothing was left on the bon, or something crossed on it.
LEMMA ArchiveKeeps ==
  ASSUME RetourInv, BonRetourAssumption, NEW b \in Bons, Archive(b)
  PROVE  RetourInv'
<1> DEFINE row == [bon[b] EXCEPT !.status = "ARCHIVE"]
<1>0. /\ TypeOK /\ RowsInv /\ ScansInv /\ ReceivedInv /\ EmptyInv
      /\ OneLineInv /\ PlaceInv /\ FreshInv
  BY DEF RetourInv
<1>1. /\ bon[b] # None /\ bon[b].status = "REMIS" /\ bon' = [bon EXCEPT ![b] = row]
      /\ today' = today /\ place' = place /\ line' = line /\ fresh' = fresh
      /\ session' = session /\ preparing' = preparing /\ receiving' = receiving
      /\ closing' = closing /\ trips' = trips /\ corrections' = corrections
  BY DEF Archive, Is
<1>2. row \in Bon /\ row # None /\ row.status = "ARCHIVE" /\ row.crossed = bon[b].crossed
  <2>1. bon[b] \in Bon
    BY <1>0, <1>1 DEF TypeOK
  <2>2. row \in Bon /\ row.status = "ARCHIVE" /\ row.crossed = bon[b].crossed
    BY <2>1 DEF Bon
  <2> QED BY <2>2 DEF BonRetourAssumption
<1> HIDE DEF row
<1>3. /\ bon' \in [Bons -> Bon \cup {None}] /\ bon'[b] = row
      /\ \A a \in Bons : a # b => bon'[a] = bon[a]
  BY <1>0, <1>1, <1>2 DEF TypeOK
<1>4. \A a \in Bons : (bon'[a] # None <=> bon[a] # None) /\ bon'[a].crossed = bon[a].crossed
  BY <1>1, <1>2, <1>3
<1>5. ~bon[b].crossed => Pending(b) = {}
  BY <1>0, <1>1 DEF EmptyInv
<1>6. \A a \in Bons : Pending(a)' = Pending(a) /\ On(a)' = On(a)
  BY <1>1 DEF Pending, On
<1>7. TypeOK' /\ RowsInv'
  BY <1>0, <1>1, <1>3, <1>4 DEF TypeOK, RowsInv
<1>8. ScansInv'
  BY <1>0, <1>1, <1>4, <1>6 DEF ScansInv, TypeOK
<1>9. ReceivedInv' /\ OneLineInv'
  BY <1>0, <1>1, <1>4, <1>6 DEF ReceivedInv, Received, OneLineInv
<1>10. EmptyInv'
  BY <1>0, <1>2, <1>3, <1>4, <1>5, <1>6 DEF EmptyInv
<1>11. PlaceInv'
  <2> SUFFICES ASSUME NEW q \in Parcels, NEW a \in Bons, q \in Pending(a), Clean(q)
               PROVE  WhereItsLineSays(a, q)'
    BY <1>4, <1>6 DEF PlaceInv, Clean
  <2>1. a # b
    BY <1>5 DEF Clean, Pending
  <2>2. WhereItsLineSays(a, q)
    BY <1>0 DEF PlaceInv
  <2> QED BY <1>1, <1>3, <2>1, <2>2 DEF WhereItsLineSays, Is
<1>12. FreshInv'
  <2>1. \A a \in Bons, q \in Parcels :
          q \in Pending(a) /\ ~bon[a].crossed => bon'[a].status = bon[a].status
    BY <1>3, <1>5
  <2> QED BY <1>0, <1>1, <1>4, <1>6, <2>1 DEF FreshInv, TypeOK
<1> QED BY <1>7, <1>8, <1>9, <1>10, <1>11, <1>12 DEF RetourInv

\* A caisse closed: what it read comes back, with its bons, or marks the bon it is on.
LEMMA WriteCloseKeeps ==
  ASSUME RetourInv, BonRetourAssumption, NEW r \in Ramasseurs, NEW d \in Days, WriteClose(r, d)
  PROVE  RetourInv'
<1>a. PICK read \in [Bons -> SUBSET Parcels] : read = closing[r][d]
  <2>1. closing[r][d] \in [Bons -> SUBSET Parcels] \cup {None}
    BY DEF RetourInv, TypeOK
  <2> QED BY <2>1 DEF WriteClose
<1>b. PICK back \in SUBSET Parcels : back = UNION {read[b] : b \in Bons}
  OBVIOUS
<1> DEFINE Home(b) == [bon[b] EXCEPT !.status = "PREPARE", !.ramasseur = None,
                                     !.crossed = Crossed(b, r, d)]
           Marked(b) == [bon[b] EXCEPT !.crossed = TRUE]
<1>0. /\ TypeOK /\ RowsInv /\ ScansInv /\ ReceivedInv /\ EmptyInv
      /\ OneLineInv /\ PlaceInv /\ FreshInv
  BY DEF RetourInv
<1>1. /\ closing[r][d] # None /\ BroughtBack(r, d) = back
      /\ \A p \in back : ~Locked(p) /\ (p \in Articles \/ place[p] = "RETOUR_EN_ROUTE")
      /\ place' = Move(back, "RETOUR_AU_DEPOT") /\ fresh' = fresh \ (back \ Articles)
      /\ session' = [session EXCEPT ![r][d] = "CLOTUREE"]
      /\ closing' = [closing EXCEPT ![r][d] = None]
      /\ today' = today /\ line' = line /\ preparing' = preparing /\ receiving' = receiving
      /\ trips' = trips /\ corrections' = corrections
  BY <1>a, <1>b DEF WriteClose, BroughtBack
<1>2. bon' = [b \in Bons |-> IF read[b] # {} THEN Home(b)
                             ELSE IF On(b) \cap back # {} THEN Marked(b) ELSE bon[b]]
  BY <1>a, <1>1 DEF WriteClose
<1>3. \A b \in Bons : read[b] # {} \/ On(b) \cap back # {} => bon[b] # None /\ bon[b] \in Bon
  BY <1>a, <1>0, <1>1 DEF RowsInv, TypeOK, On
<1>4. ASSUME NEW b \in Bons, bon[b] \in Bon
      PROVE  /\ Home(b) \in Bon /\ Home(b) # None /\ Home(b).status = "PREPARE"
             /\ ~Home(b).crossed => ~bon[b].crossed /\ Pending(b) = read[b]
             /\ Marked(b) \in Bon /\ Marked(b) # None /\ Marked(b).crossed = TRUE
  <2>1. /\ Home(b) \in Bon /\ Home(b).status = "PREPARE" /\ Home(b).crossed = Crossed(b, r, d)
        /\ Marked(b) \in Bon /\ Marked(b).crossed = TRUE
    BY <1>4 DEF Bon, Crossed, Is
  <2>2. Home(b) # None /\ Marked(b) # None
    BY <2>1 DEF BonRetourAssumption
  <2>3. ~Crossed(b, r, d) => ~bon[b].crossed /\ Pending(b) = read[b]
    BY <1>a DEF Crossed
  <2> HIDE DEF Home, Marked
  <2> QED BY <2>1, <2>2, <2>3
<1> HIDE DEF Home, Marked
\* What becomes of a bon: brought back, marked, or left as it is.
<1>5. ASSUME NEW b \in Bons
      PROVE  /\ bon'[b] \in Bon \cup {None}
             /\ bon[b] # None <=> bon'[b] # None
             /\ bon[b].crossed => bon'[b].crossed \/ bon[b] = None
             /\ read[b] # {} => /\ bon'[b].status = "PREPARE"
                                /\ ~bon'[b].crossed => Pending(b) = read[b]
             /\ read[b] = {} /\ On(b) \cap back # {} => bon'[b].crossed
             /\ read[b] = {} /\ On(b) \cap back = {} => bon'[b] = bon[b]
  <2>1. CASE read[b] # {}
    BY <1>2, <1>3, <1>4, <2>1
  <2>2. CASE read[b] = {} /\ On(b) \cap back # {}
    BY <1>2, <1>3, <1>4, <2>2
  <2>3. CASE read[b] = {} /\ On(b) \cap back = {}
    BY <1>0, <1>2, <2>3 DEF TypeOK
  <2> QED BY <2>1, <2>2, <2>3
<1>6. /\ place' \in [Parcels -> Places]
      /\ \A p \in Parcels : place'[p] = IF p \in back THEN "RETOUR_AU_DEPOT" ELSE place[p]
  BY <1>0, <1>1, Moved DEF Places
<1>7. \A a \in Bons : Pending(a)' = Pending(a) /\ On(a)' = On(a)
  BY <1>1 DEF Pending, On
<1>8. \A a \in Bons, q \in Parcels : q \in On(a) /\ ~bon'[a].crossed => ~bon[a].crossed
  BY <1>0, <1>5 DEF RowsInv, On
<1>9. TypeOK'
  <2> DEFINE C == [Bons -> SUBSET Parcels] \cup {None}
  <2>1. session' \in [Ramasseurs -> [Days -> {"NON", "OUVERTE", "CLOTUREE"}]]
    BY <1>0, <1>1 DEF TypeOK
  <2>2. closing \in [Ramasseurs -> [Days -> C]] /\ None \in C
    BY <1>0 DEF TypeOK
  <2> HIDE DEF C
  <2>3. closing' \in [Ramasseurs -> [Days -> C]]
    BY <1>1, <2>2, TwoKeys
  <2>4. fresh' \subseteq Parcels
    BY <1>0, <1>1 DEF TypeOK
  <2>5. bon' \in [Bons -> Bon \cup {None}]
    BY <1>2, <1>5
  <2> QED BY <1>0, <1>1, <1>6, <2>1, <2>3, <2>4, <2>5 DEF TypeOK, C
<1>10. RowsInv'
  <2>1. \A a \in Bons, q \in Parcels : line'[a][q] # None => bon'[a] # None
    BY <1>0, <1>1, <1>5 DEF RowsInv
  <2>2. preparing # None => preparing.bon = None \/ bon'[preparing.bon] # None
    BY <1>0, <1>5 DEF RowsInv, TypeOK
  <2>3. ASSUME NEW m \in Ramasseurs, NEW e \in Days, closing'[m][e] # None,
               NEW a \in Bons, closing'[m][e][a] # {}
        PROVE  bon'[a] # None
    <3>1. closing'[m][e] = closing[m][e]
      BY <1>0, <1>1, <2>3 DEF TypeOK
    <3> QED BY <1>0, <1>5, <2>3, <3>1 DEF RowsInv
  <2> QED BY <1>1, <2>1, <2>2, <2>3 DEF RowsInv
<1>11. ScansInv'
  <2>1. ASSUME NEW q \in Parcels, receiving[q] # None
        PROVE  q \in Pending(receiving[q].bon)' /\ place'[q] = place[q]
    <3>1. q \notin back /\ receiving[q].bon \in Bons
      BY <1>0, <1>1, <2>1 DEF TypeOK, Locked
    <3> QED BY <1>0, <1>1, <1>6, <1>7, <2>1, <3>1 DEF ScansInv
  <2>2. ASSUME preparing # None
        PROVE  place'[preparing.parcel] = place[preparing.parcel] /\ preparing.parcel \in Parcels
    BY <1>0, <1>1, <1>6, <2>2 DEF TypeOK, Locked
  <2> QED BY <1>0, <1>1, <1>7, <1>8, <2>1, <2>2 DEF ScansInv
<1>12. ReceivedInv'
  <2>1. \A a \in Bons, q \in Parcels : Received(a, q)' <=> Received(a, q)
    BY <1>1 DEF Received
  <2>2. \A q \in Parcels \ Articles : place'[q] = "RETOUR_RECU" <=> place[q] = "RETOUR_RECU"
    BY <1>1, <1>6
  <2> QED BY <1>0, <2>1, <2>2 DEF ReceivedInv
<1>13. EmptyInv'
  <2> SUFFICES ASSUME NEW a \in Bons, bon'[a] # None, ~bon'[a].crossed
               PROVE  /\ bon'[a].status = "EN_ROUTE" => Pending(a) # {}
                      /\ bon'[a].status \in {"REMIS", "ARCHIVE"} => Pending(a) = {}
    BY <1>7 DEF EmptyInv
  <2>1. CASE read[a] # {}
    BY <1>5, <2>1
  <2>2. CASE read[a] = {}
    BY <1>0, <1>5, <2>2 DEF EmptyInv
  <2> QED BY <2>1, <2>2
<1>14. OneLineInv'
  BY <1>0, <1>7, <1>8 DEF OneLineInv
<1>15. PlaceInv'
  <2> SUFFICES ASSUME NEW q \in Parcels, NEW a \in Bons, q \in Pending(a), Clean(q)'
               PROVE  WhereItsLineSays(a, q)'
    BY <1>7 DEF PlaceInv
  <2>1. /\ bon[a] # None /\ bon'[a] # None /\ ~bon'[a].crossed /\ q \in On(a)
        /\ ~line[a][q].received
    BY <1>0, <1>5, <1>7 DEF Pending, On, RowsInv, Clean
  <2>2. Clean(q)
    BY <1>7, <1>8 DEF Clean
  <2>3. CASE read[a] # {}
    <3>1. q \in back /\ bon'[a].status = "PREPARE"
      BY <1>b, <1>5, <2>1, <2>3
    <3> QED BY <1>1, <1>6, <2>1, <3>1 DEF WhereItsLineSays, Is
  <2>4. CASE read[a] = {}
    <3>1. q \notin back /\ bon'[a] = bon[a]
      BY <1>5, <2>1, <2>4
    <3>2. WhereItsLineSays(a, q)
      BY <1>0, <2>2 DEF PlaceInv
    <3> QED BY <1>1, <1>6, <2>1, <3>1, <3>2 DEF WhereItsLineSays, Is
  <2> QED BY <2>3, <2>4
<1>16. FreshInv'
  <2> SUFFICES ASSUME NEW q \in fresh \ Articles, q \notin back
               PROVE  /\ place'[q] = "RETOUR_AU_DEPOT"
                      /\ \A a \in Bons : q \in Pending(a) /\ ~bon'[a].crossed
                                           => bon'[a].status = "PREPARE"
    BY <1>1, <1>7 DEF FreshInv
  <2>1. q \in Parcels /\ place[q] = "RETOUR_AU_DEPOT"
    BY <1>0 DEF TypeOK, FreshInv
  <2>2. ASSUME NEW a \in Bons, q \in Pending(a), ~bon'[a].crossed
        PROVE  bon'[a].status = "PREPARE"
    <3>1. ~bon[a].crossed /\ bon[a].status = "PREPARE"
      <4>1. q \in On(a)
        BY <2>2 DEF Pending
      <4> QED BY <1>0, <1>8, <2>1, <2>2, <4>1 DEF FreshInv
    <3>2. CASE read[a] # {}
      BY <1>5, <3>2
    <3>3. CASE read[a] = {}
      BY <1>5, <2>2, <3>1, <3>3
    <3> QED BY <3>2, <3>3
  <2> QED BY <1>6, <2>1, <2>2
<1> QED BY <1>9, <1>10, <1>11, <1>12, <1>13, <1>14, <1>15, <1>16 DEF RetourInv

\* A receipt corrected: the line waits again, and nothing else on the bon did unless it still does.
LEMMA CorrectLineKeeps ==
  ASSUME RetourInv, BonRetourAssumption, NEW b \in Bons, NEW p \in Parcels, CorrectLine(b, p)
  PROVE  RetourInv'
<1>0. /\ TypeOK /\ RowsInv /\ ScansInv /\ ReceivedInv /\ EmptyInv
      /\ OneLineInv /\ PlaceInv /\ FreshInv
  BY DEF RetourInv
<1>1. /\ bon[b] # None /\ bon[b].status # "ARCHIVE" /\ p \in On(b) \ Pending(b) /\ ~Locked(p)
      /\ p \in Articles \/ place[p] = "RETOUR_RECU"
      /\ line' = [line EXCEPT ![b][p] = Expected] /\ fresh' = fresh \ {p}
      /\ corrections' = corrections + 1 /\ corrections < MaxCorrections
      /\ today' = today /\ session' = session /\ preparing' = preparing
      /\ receiving' = receiving /\ closing' = closing /\ trips' = trips
  BY DEF CorrectLine, Is, Reopened
<1>2. PICK row \in Bon, where \in Places :
        /\ bon' = [bon EXCEPT ![b] = row] /\ place' = Move({p}, where)
        /\ row.crossed = bon[b].crossed
        /\ \/ /\ row.status = "EN_ROUTE" /\ where = "RETOUR_EN_ROUTE"
              /\ bon[b].status \in {"EN_ROUTE", "REMIS"}
           \/ /\ row.status = "PREPARE" /\ where = "RETOUR_AU_DEPOT"
              /\ bon[b].status \in {"PREPARE", "REMIS"}
  <2>0. bon[b] \in Bon
    BY <1>0, <1>1 DEF TypeOK
  <2>1. CASE WithRamasseur(b, p)
    <3> DEFINE row == [bon[b] EXCEPT !.status = "EN_ROUTE"]
    <3>1. bon' = [bon EXCEPT ![b] = row] /\ place' = Move({p}, "RETOUR_EN_ROUTE")
      BY <2>1 DEF CorrectLine
    <3>2. row \in Bon /\ row.status = "EN_ROUTE" /\ row.crossed = bon[b].crossed
      BY <2>0 DEF Bon
    <3>3. bon[b].status \in {"EN_ROUTE", "REMIS"}
      BY <2>1 DEF WithRamasseur, Carried, Is
    <3> HIDE DEF row
    <3> QED BY <3>1, <3>2, <3>3 DEF Places
  <2>2. CASE ~WithRamasseur(b, p)
    <3> DEFINE row == [bon[b] EXCEPT !.status = "PREPARE", !.ramasseur = None]
    <3>1. /\ bon' = [bon EXCEPT ![b] = row] /\ place' = Move({p}, "RETOUR_AU_DEPOT")
          /\ ~Is(b, "EN_ROUTE")
      BY <2>2 DEF CorrectLine
    <3>2. row \in Bon /\ row.status = "PREPARE" /\ row.crossed = bon[b].crossed
      BY <2>0 DEF Bon
    <3>3. bon[b].status \in {"PREPARE", "REMIS"}
      BY <1>1, <2>0, <3>1 DEF Bon, Is
    <3> HIDE DEF row
    <3> QED BY <3>1, <3>2, <3>3 DEF Places
  <2> QED BY <2>1, <2>2
<1>3. row # None
  BY <1>2 DEF BonRetourAssumption
<1>4. /\ bon' \in [Bons -> Bon \cup {None}] /\ bon'[b] = row
      /\ \A a \in Bons : a # b => bon'[a] = bon[a]
  BY <1>0, <1>2 DEF TypeOK
<1>5. /\ place' \in [Parcels -> Places] /\ place'[p] = where
      /\ \A q \in Parcels : q # p => place'[q] = place[q]
  BY <1>0, <1>2, Moved
<1>6. /\ line' \in [Bons -> [Parcels -> Line \cup {None}]] /\ line'[b][p] = Expected
      /\ \A a \in Bons, q \in Parcels : a # b \/ q # p => line'[a][q] = line[a][q]
  BY <1>0, <1>1, ExpectedIsLine, TwoKeys DEF TypeOK
<1>7. Expected # None /\ Expected.received = FALSE
  BY ExpectedIsLine
<1>8. Received(b, p)
  BY <1>1 DEF Received, Pending, On
<1>9. /\ \A a \in Bons, q \in Parcels : q \in On(a)' <=> q \in On(a)
      /\ \A a \in Bons, q \in Parcels : q \in Pending(a)' <=> q \in Pending(a) \/ (a = b /\ q = p)
      /\ \A a \in Bons, q \in Parcels : Received(a, q)' <=> Received(a, q) /\ (a # b \/ q # p)
  BY <1>1, <1>6, <1>7 DEF On, Pending, Received
<1>10. \A a \in Bons : (bon'[a] # None <=> bon[a] # None) /\ bon'[a].crossed = bon[a].crossed
  BY <1>1, <1>2, <1>3, <1>4
\* The others on the bon that still wait: it stays where it is.
<1>11. ASSUME ~bon[b].crossed, NEW q \in Parcels, q # p, q \in Pending(b)
       PROVE  row.status = bon[b].status
  <2>1. bon[b].status # "REMIS"
    BY <1>0, <1>1, <1>11 DEF EmptyInv
  <2> QED BY <1>2, <2>1
<1>12. TypeOK'
  <2>1. corrections' \in 0..MaxCorrections
    BY <1>0, <1>1 DEF TypeOK, BonRetourAssumption
  <2>2. fresh' \subseteq Parcels
    BY <1>0, <1>1 DEF TypeOK
  <2> QED BY <1>0, <1>1, <1>4, <1>5, <1>6, <2>1, <2>2 DEF TypeOK
<1>13. RowsInv'
  <2>1. \A a \in Bons, q \in Parcels : line'[a][q] # None => bon'[a] # None
    BY <1>0, <1>1, <1>6, <1>10 DEF RowsInv
  <2>2. preparing # None => preparing.bon = None \/ bon'[preparing.bon] # None
    BY <1>0, <1>10 DEF RowsInv, TypeOK
  <2>3. ASSUME NEW r \in Ramasseurs, NEW d \in Days, closing[r][d] # None,
               NEW a \in Bons, closing[r][d][a] # {}
        PROVE  bon'[a] # None
    BY <1>0, <1>10, <2>3 DEF RowsInv
  <2> QED BY <1>1, <2>1, <2>2, <2>3 DEF RowsInv
<1>14. ScansInv'
  <2>1. ASSUME NEW q \in Parcels, receiving[q] # None
        PROVE  q \in Pending(receiving[q].bon)' /\ place'[q] = place[q]
    <3>1. /\ q # p /\ receiving[q].bon \in Bons /\ q \in Pending(receiving[q].bon)
      BY <1>0, <1>1, <2>1 DEF TypeOK, Locked, ScansInv
    <3> QED BY <1>1, <1>5, <1>9, <3>1
  <2>2. ASSUME preparing # None
        PROVE  place'[preparing.parcel] = place[preparing.parcel] /\ preparing.parcel \in Parcels
    BY <1>0, <1>1, <1>5, <2>2 DEF TypeOK, Locked
  <2> QED BY <1>0, <1>1, <1>9, <1>10, <2>1, <2>2 DEF ScansInv
<1>15. ReceivedInv'
  <2> SUFFICES ASSUME NEW q \in Parcels \ Articles
               PROVE  /\ place'[q] = "RETOUR_RECU" <=> \E a \in Bons : Received(a, q)'
                      /\ \A a, c \in Bons : Received(a, q)' /\ Received(c, q)' => a = c
    BY DEF ReceivedInv
  <2>1. CASE q = p
    <3>1. \A a \in Bons : Received(a, p) => a = b
      BY <1>0, <1>8, <2>1 DEF ReceivedInv
    <3> QED BY <1>2, <1>5, <1>9, <2>1, <3>1
  <2>2. CASE q # p
    BY <1>0, <1>5, <1>9, <2>2 DEF ReceivedInv
  <2> QED BY <2>1, <2>2
<1>16. EmptyInv'
  <2> SUFFICES ASSUME NEW a \in Bons, bon'[a] # None, ~bon'[a].crossed
               PROVE  /\ bon'[a].status = "EN_ROUTE" => Pending(a)' # {}
                      /\ bon'[a].status \in {"REMIS", "ARCHIVE"} => Pending(a)' = {}
    BY DEF EmptyInv
  <2>1. CASE a = b
    BY <1>2, <1>4, <1>9, <2>1
  <2>2. CASE a # b
    <3>1. Pending(a)' = Pending(a)
      BY <1>9, <2>2 DEF Pending, On
    <3> QED BY <1>0, <1>4, <2>2, <3>1 DEF EmptyInv
  <2> QED BY <2>1, <2>2
<1>17. OneLineInv'
  BY <1>0, <1>9, <1>10 DEF OneLineInv
<1>18. PlaceInv'
  <2> SUFFICES ASSUME NEW q \in Parcels, NEW a \in Bons, q \in Pending(a)', Clean(q)'
               PROVE  WhereItsLineSays(a, q)'
    BY DEF PlaceInv
  <2>1. /\ q \in On(a) /\ bon'[a] # None /\ ~bon[a].crossed /\ line'[a][q].received = FALSE
        /\ Clean(q)
    <3>1. q \in On(a)' /\ line'[a][q].received = FALSE
      BY <1>12 DEF Pending, On, TypeOK, Line
    <3>2. q \in On(a) /\ bon[a] # None
      BY <1>0, <1>9, <3>1 DEF RowsInv, On
    <3>3. Clean(q)
      BY <1>9, <1>10 DEF Clean
    <3> QED BY <1>10, <3>1, <3>2, <3>3 DEF Clean
  <2>2. CASE q = p
    <3>1. p \in On(b) /\ ~bon[b].crossed
      BY <1>1, <2>1, <2>2 DEF Clean
    <3>2. a = b
      BY <1>0, <2>1, <2>2, <3>1 DEF OneLineInv
    <3> QED BY <1>2, <1>4, <1>5, <2>1, <2>2, <3>2 DEF WhereItsLineSays, Is
  <2>3. CASE q # p
    <3>1. q \in Pending(a) /\ line'[a][q] = line[a][q]
      BY <1>6, <1>9, <2>3
    <3>2. WhereItsLineSays(a, q)
      BY <1>0, <2>1, <3>1 DEF PlaceInv
    <3>3. bon'[a].status = bon[a].status /\ bon[a] # None
      BY <1>4, <1>10, <1>11, <2>1, <2>3, <3>1
    <3> QED BY <1>5, <2>1, <2>3, <3>1, <3>2, <3>3 DEF WhereItsLineSays, Is
  <2> QED BY <2>2, <2>3
<1>19. FreshInv'
  <2> SUFFICES ASSUME NEW q \in fresh \ Articles, q # p
               PROVE  /\ place'[q] = "RETOUR_AU_DEPOT"
                      /\ \A a \in Bons : q \in Pending(a)' /\ ~bon'[a].crossed
                                           => bon'[a].status = "PREPARE"
    BY <1>1 DEF FreshInv
  <2>1. q \in Parcels /\ place[q] = "RETOUR_AU_DEPOT"
    BY <1>0 DEF TypeOK, FreshInv
  <2>2. ASSUME NEW a \in Bons, q \in Pending(a)', ~bon'[a].crossed
        PROVE  bon'[a].status = "PREPARE"
    <3>1. q \in Pending(a) /\ ~bon[a].crossed
      BY <1>9, <1>10, <2>1, <2>2
    <3>2. bon'[a].status = bon[a].status
      BY <1>4, <1>11, <2>1, <3>1
    <3> QED BY <1>0, <3>1, <3>2 DEF FreshInv
  <2> QED BY <1>5, <2>1, <2>2
<1> QED BY <1>12, <1>13, <1>14, <1>15, <1>16, <1>17, <1>18, <1>19 DEF RetourInv

-----------------------------------------------------------------------------
(* The invariant and what it says *)

\* The returns start with the invariant: all at the depot, on no bon.
LEMMA RetoursStart ==
  ASSUME BonRetourAssumption, Init
  PROVE  RetourInv
<1>1. TypeOK
  BY DEF Init, TypeOK, Places, Days, BonRetourAssumption
<1>2. RowsInv /\ ScansInv /\ ReceivedInv
  BY DEF Init, RowsInv, ScansInv, ReceivedInv, Received, Pending, On
<1>3. EmptyInv /\ OneLineInv /\ PlaceInv /\ FreshInv
  BY DEF Init, EmptyInv, OneLineInv, PlaceInv, FreshInv, Pending, On
<1> QED BY <1>1, <1>2, <1>3 DEF RetourInv

\* Every step of the returns keeps the invariant.
LEMMA RetoursGoOn ==
  ASSUME BonRetourAssumption, RetourInv, [Next]_vars
  PROVE  RetourInv'
<1>1. CASE \/ NextDay
           \/ \E p \in Parcels : ReadPrepare(p)
           \/ \E b \in Bons, p \in Parcels, r \in Ramasseurs, day \in Days :
                ReadReceive(b, p, r, day)
           \/ \E r \in Ramasseurs, d \in Days : ReadClose(r, d) \/ AbortClose(r, d)
  BY <1>1, ReadingsKeep
<1>2. ASSUME NEW b \in Bons, WritePrepare(b)
      PROVE  RetourInv'
  BY <1>2, WritePrepareKeeps
<1>3. ASSUME NEW b \in Bons, NEW p \in Parcels, Unprepare(b, p)
      PROVE  RetourInv'
  BY <1>3, UnprepareKeeps
<1>4. ASSUME NEW b \in Bons, NEW r \in Ramasseurs, HandOut(b, r)
      PROVE  RetourInv'
  BY <1>4, HandOutKeeps
<1>5. ASSUME NEW p \in Parcels, WriteReceive(p)
      PROVE  RetourInv'
  BY <1>5, WriteReceiveKeeps
<1>6. ASSUME NEW b \in Bons, Archive(b)
      PROVE  RetourInv'
  BY <1>6, ArchiveKeeps
<1>7. ASSUME NEW r \in Ramasseurs, NEW d \in Days, WriteClose(r, d)
      PROVE  RetourInv'
  BY <1>7, WriteCloseKeeps
<1>8. ASSUME NEW b \in Bons, NEW p \in Parcels, CorrectLine(b, p)
      PROVE  RetourInv'
  BY <1>8, CorrectLineKeeps
<1>9. CASE UNCHANGED vars
  <2>1. /\ today' = today /\ place' = place /\ bon' = bon /\ line' = line /\ fresh' = fresh
        /\ session' = session /\ preparing' = preparing /\ receiving' = receiving
        /\ closing' = closing /\ trips' = trips /\ corrections' = corrections
    BY <1>9 DEF vars
  <2>2. TypeOK' /\ RowsInv'
    BY <2>1 DEF RetourInv, TypeOK, RowsInv
  <2>3. ScansInv'
    BY <2>1 DEF RetourInv, ScansInv, Pending, On
  <2> QED BY <2>1, <2>2, <2>3, RowsStay DEF RetourInv
<1> QED BY <1>1, <1>2, <1>3, <1>4, <1>5, <1>6, <1>7, <1>8, <1>9 DEF Next, ScanStep, TripStep

(* The returns, their bons and the scans under way keep the invariant, through       *)
(* preparations, receipts, corrections and closings that cross them.         *)
THEOREM AlwaysRetourInv ==
  ASSUME BonRetourAssumption
  PROVE  Spec => []RetourInv
BY RetoursStart, RetoursGoOn, PTL DEF Spec

\* Type correctness: every return, bon, line and scan under way stays what it is.
THEOREM RetoursAreTyped ==
  ASSUME BonRetourAssumption
  PROVE  Spec => []TypeOK
<1>1. RetourInv => TypeOK
  BY DEF RetourInv
<1> QED BY <1>1, AlwaysRetourInv, PTL

\* The invariant says that a return given back has one line received.
LEMMA ReceivedByInv ==
  ASSUME RetourInv
  PROVE  ReceivedOnOneLine
<1> SUFFICES ASSUME NEW p \in Parcels \ Articles
             PROVE  Cardinality({b \in Bons : p \in On(b) \ Pending(b)})
                      = IF place[p] = "RETOUR_RECU" THEN 1 ELSE 0
  BY DEF ReceivedOnOneLine
<1> DEFINE lines == {b \in Bons : p \in On(b) \ Pending(b)}
<1>0. ReceivedInv
  BY DEF RetourInv
<1>1. \A b \in Bons : b \in lines <=> Received(b, p)
  BY DEF Received, Pending, On
<1>2. lines \subseteq Bons
  OBVIOUS
<1> HIDE DEF lines
<1>3. CASE place[p] = "RETOUR_RECU"
  <2>1. PICK b \in Bons : Received(b, p)
    BY <1>0, <1>3 DEF ReceivedInv
  <2>2. lines = {b}
    BY <1>0, <1>1, <1>2, <2>1 DEF ReceivedInv
  <2>3. Cardinality(lines) = 1
    BY <2>2, FS_Singleton
  <2> QED BY <1>3, <2>3 DEF lines
<1>4. CASE place[p] # "RETOUR_RECU"
  <2>1. lines = {}
    BY <1>0, <1>1, <1>2, <1>4 DEF ReceivedInv
  <2>2. Cardinality(lines) = 0
    BY <2>1, FS_EmptySet
  <2> QED BY <1>4, <2>2 DEF lines
<1> QED BY <1>3, <1>4

(* However scans, closings and corrections cross, a return is given back to its      *)
(* seller exactly when one line was received for it (D-81, D-88).            *)
THEOREM ReturnsAreReceivedOnce ==
  ASSUME BonRetourAssumption
  PROVE  Spec => []ReceivedOnOneLine
BY AlwaysRetourInv, ReceivedByInv, PTL

\* The invariant says where each return is, as long as nothing crossed on its bons.
LEMMA FollowsByInv ==
  ASSUME RetourInv
  PROVE  ReturnFollowsItsBon
<1> SUFFICES ASSUME NEW p \in Parcels, NEW b \in Bons, p \in On(b),
                    \A a \in Bons : p \in On(a) => ~bon[a].crossed
             PROVE  /\ p \in Pending(b) => WhereItsLineSays(b, p)
                    /\ Is(b, "EN_ROUTE") => Pending(b) # {}
                    /\ Carried(b) /\ ~Is(b, "EN_ROUTE") => Pending(b) = {}
  BY DEF ReturnFollowsItsBon
<1>1. Clean(p) /\ ~bon[b].crossed
  BY DEF Clean
<1>2. p \in Pending(b) => WhereItsLineSays(b, p)
  BY <1>1 DEF RetourInv, PlaceInv
<1> QED BY <1>1, <1>2 DEF RetourInv, EmptyInv, Is, Carried

(* As long as no two transactions crossed on its bons, each item is where its line   *)
(* says, a bon on the way has something to hand over, a bon Remis nothing.   *)
THEOREM ReturnsFollowTheirLines ==
  ASSUME BonRetourAssumption
  PROVE  Spec => []ReturnFollowsItsBon
BY AlwaysRetourInv, FollowsByInv, PTL
=============================================================================
