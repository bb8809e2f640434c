--------------------------- MODULE VerifyDeadline ---------------------------
(***************************************************************************)
(* The 48-hour rule: apps/api/src/a-verifier/verify-deadline.job.ts, the    *)
(* decisions of the seller it races with, and the courier's scans that      *)
(* start a deadline or, cancelled late by an offline phone, take it back.   *)
(*                                                                          *)
(* A pass of the job reads, without a lock, the oldest expired parcels A    *)
(* verifier, and then returns them one by one, each in a transaction that   *)
(* locks the row and runs the state machine again.  Everything else may     *)
(* commit between the read and a parcel's transaction.  The batch lives in  *)
(* memory: a restart of the server loses it.                                *)
(*                                                                          *)
(* Time is a counter of ticks; a pass takes any number of them.             *)
(***************************************************************************)
EXTENDS ParcelMachine, FiniteSets, Sequences

CONSTANTS Parcels,     \* parcels out for delivery at the start
          Delays,      \* values settings.verifyDeadlineHours takes, in ticks
          BatchSize,   \* BATCH_SIZE (200)
          Broken,      \* parcels whose transaction always throws
          MaxNow,      \* bound: last tick of the clock
          MaxFaults    \* bound: transactions that fail once, restarts

ASSUME ClockAssumption ==
  /\ Delays \subseteq Nat \ {0} /\ MaxNow \in Nat /\ MaxFaults \in Nat
  /\ BatchSize \in Nat \ {0}
  /\ Broken \subseteq Parcels
ASSUME NoDeadlineAssumption == None \notin Nat

VARIABLES
  parcel,             \* the parcels table
  verifyDeadlineAt,   \* its column of that name, or None
  returnFees,         \* the RETOUR rows of seller_charges, counted per parcel
  running,            \* the job's flag
  due,                \* what is left of the batch the pass has read
  now,                \* the server's clock
  faults              \* failures and restarts so far

vars == <<parcel, verifyDeadlineAt, returnFees, running, due, now, faults>>

Batches == {s \in UNION {[1..n -> Parcels] : n \in 0..BatchSize} :
              \A i, j \in DOMAIN s : s[i] = s[j] => i = j}

TypeOK ==
  /\ parcel \in [Parcels -> Parcel]
  /\ verifyDeadlineAt \in [Parcels -> Nat \cup {None}]
  /\ returnFees \in [Parcels -> Nat]
  /\ running \in BOOLEAN /\ due \in Batches
  /\ now \in 0..MaxNow /\ faults \in 0..MaxFaults

\* Picked up, received at the depot and handed to a livreur.
Init ==
  /\ \E l \in Livreurs :
       parcel = [p \in Parcels |-> Sortie(EntreeDepot(Ramasser(NewParcel)), l)]
  /\ verifyDeadlineAt = [p \in Parcels |-> None]
  /\ returnFees = [p \in Parcels |-> 0]
  /\ running = FALSE /\ due = <<>> /\ now = 0 /\ faults = 0

-----------------------------------------------------------------------------
(* Transactions on one parcel *)

\* The clock effects: an open deadline stays, ARRETER_DELAI_VERIFICATION clears it.
Write(p, x) ==
  /\ parcel' = [parcel EXCEPT ![p] = x]
  /\ verifyDeadlineAt' = [verifyDeadlineAt EXCEPT ![p] = IF x.deadline THEN @ ELSE None]

\* DEMARRER_DELAI_VERIFICATION, with the setting in force.
WriteWithDeadline(p, x) ==
  /\ parcel' = [parcel EXCEPT ![p] = x]
  /\ \E delay \in Delays : verifyDeadlineAt' = [verifyDeadlineAt EXCEPT ![p] = now + delay]

ReturnFee(p) == returnFees' = [returnFees EXCEPT ![p] = @ + 1]
JobAsItWas   == UNCHANGED <<running, due, now, faults>>

SellerStep(p) ==
  /\ \/ CanRelancer(parcel[p]) /\ Write(p, Relancer(parcel[p])) /\ UNCHANGED returnFees
     \/ CanChangerClient(parcel[p]) /\ Write(p, ChangerClient(parcel[p])) /\ UNCHANGED returnFees
     \/ CanRetourner(parcel[p]) /\ Write(p, Retourner(parcel[p])) /\ ReturnFee(p)
     \/ CanAnnulerApres(parcel[p]) /\ Write(p, AnnulerApres(parcel[p])) /\ ReturnFee(p)
  /\ JobAsItWas

LivreurStep(p, l) ==
  /\ \/ CanLivrer(parcel[p], l) /\ Write(p, Livrer(parcel[p])) /\ UNCHANGED returnFees
     \/ CanEchec(parcel[p], l) /\ WriteWithDeadline(p, Echec(parcel[p])) /\ UNCHANGED returnFees
     \/ CanEchecReporte(parcel[p], l) /\ Write(p, EchecReporte(parcel[p])) /\ UNCHANGED returnFees
     \/ CanEchecFinal(parcel[p], l) /\ Write(p, EchecFinal(parcel[p])) /\ ReturnFee(p)
  /\ JobAsItWas

\* The row a cancelled Echec goes back to: A verifier, and nothing since.
BeforeEchec(x) ==
  [Put(x, "EN_LIVRAISON", "AVEC_LE_LIVREUR") EXCEPT !.attempts = @ - 1, !.deadline = FALSE]

(* The window of the cancellation is measured between two times of the      *)
(* phone: the cancellation itself can reach the server at any time.         *)
CancelEchec(p) ==
  /\ parcel[p].status = "A_VERIFIER" /\ parcel[p].location = "AVEC_LE_LIVREUR"
  /\ Write(p, RestoreCourier(parcel[p], BeforeEchec(parcel[p])))
  /\ UNCHANGED returnFees /\ JobAsItWas

DepotStep(p, l) ==
  /\ \/ /\ CanRetourDeTournee(parcel[p]) /\ parcel[p].livreur = l
        /\ Write(p, RetourDeTournee(parcel[p]))
     \/ CanSortie(parcel[p]) /\ Write(p, Sortie(parcel[p], l))
  /\ UNCHANGED returnFees /\ JobAsItWas

-----------------------------------------------------------------------------
(* The job *)

Expired(p) == parcel[p].status = "A_VERIFIER" /\ verifyDeadlineAt[p] <= now

\* findMany: the expired parcels, oldest deadline first, at most BATCH_SIZE.
OldestExpired(s) ==
  /\ \A i \in DOMAIN s : Expired(s[i])
  /\ \A i, j \in DOMAIN s : i < j => verifyDeadlineAt[s[i]] <= verifyDeadlineAt[s[j]]
  /\ \A p \in Parcels : Expired(p) =>
       \/ \E i \in DOMAIN s : s[i] = p
       \/ Len(s) = BatchSize /\ \A i \in DOMAIN s : verifyDeadlineAt[s[i]] <= verifyDeadlineAt[p]

\* tick(): every minute, unless a pass is still running.
StartPass ==
  /\ ~running /\ running' = TRUE
  /\ \E s \in Batches : OldestExpired(s) /\ due' = s
  /\ UNCHANGED <<parcel, verifyDeadlineAt, returnFees, now, faults>>

\* The next parcel of the batch, whatever has happened to it since.
ReturnNext ==
  /\ due # <<>> /\ Head(due) \notin Broken /\ due' = Tail(due)
  /\ LET p == Head(due) IN
     IF CanAutoRetour48h(parcel[p])
     THEN Write(p, AutoRetour48h(parcel[p])) /\ ReturnFee(p)
     ELSE UNCHANGED <<parcel, verifyDeadlineAt, returnFees>>
  /\ UNCHANGED <<running, now, faults>>

\* Mutant of SkipNext: the try is around the loop, one failure ends the pass.
SkipNextAndStop ==
  /\ due # <<>> /\ Head(due) \in Broken
  /\ due' = <<>> /\ running' = FALSE
  /\ UNCHANGED <<parcel, verifyDeadlineAt, returnFees, now, faults>>

\* Its transaction throws: logged, and the pass goes on.
SkipNext ==
  /\ due # <<>> /\ Head(due) \in Broken
  /\ due' = Tail(due)
  /\ UNCHANGED <<parcel, verifyDeadlineAt, returnFees, running, now, faults>>

\* Mutant of EndPass: the flag is not lowered.
EndPassFlagUp ==
  /\ running /\ due = <<>>
  /\ UNCHANGED vars

EndPass ==
  /\ running /\ due = <<>> /\ running' = FALSE
  /\ UNCHANGED <<parcel, verifyDeadlineAt, returnFees, due, now, faults>>

\* A transaction that fails once (a lost connection, a deadlock victim).
FailNext ==
  /\ faults < MaxFaults /\ faults' = faults + 1
  /\ due # <<>> /\ due' = Tail(due)
  /\ UNCHANGED <<parcel, verifyDeadlineAt, returnFees, running, now>>

Restart ==
  /\ faults < MaxFaults /\ faults' = faults + 1
  /\ running' = FALSE /\ due' = <<>>
  /\ UNCHANGED <<parcel, verifyDeadlineAt, returnFees, now>>

Tick ==
  /\ now < MaxNow /\ now' = now + 1
  /\ UNCHANGED <<parcel, verifyDeadlineAt, returnFees, running, due, faults>>

JobStep == StartPass \/ ReturnNext \/ SkipNext \/ EndPass

Next ==
  \/ \E p \in Parcels : SellerStep(p) \/ CancelEchec(p)
  \/ \E p \in Parcels, l \in Livreurs : LivreurStep(p, l) \/ DepotStep(p, l)
  \/ JobStep \/ FailNext \/ Restart \/ Tick

(* The timer fires every minute and a pass runs to its end: the job never   *)
(* stops for good.  Nothing obliges a seller, a courier or the clock.       *)
Spec == Init /\ [][Next]_vars /\ WF_vars(JobStep)

-----------------------------------------------------------------------------
(* Properties *)

(* A parcel has a deadline exactly while it is A verifier: "any decision    *)
(* clears it, so only undecided failures are found" holds of the cancelled  *)
(* scans too, and an undecided parcel is never lost to the job.             *)
DeadlineIffUndecided ==
  \A p \in Parcels : verifyDeadlineAt[p] # None <=> parcel[p].status = "A_VERIFIER"

(* The seller and the job deciding at the same instant, a pass that finds   *)
(* what an earlier one returned, a batch read before a restart: a return is *)
(* charged once, and only a return is.                                      *)
OneFeePerReturn ==
  \A p \in Parcels :
    returnFees[p] = IF parcel[p].status \in ReturnStatus THEN 1 ELSE 0

(* An expired parcel does not stay undecided, whatever restarts, and        *)
(* "one parcel failing must not hold back the others": fewer parcels than a *)
(* batch that fail for good do not starve the rest.                         *)
ExpiredIsDecided ==
  \A p \in Parcels \ Broken : Expired(p) ~> ~Expired(p)

(* "A parcel still A verifier when its deadline passes becomes a return":   *)
(* the job leaves alone a parcel whose deadline has not passed.             *)
NoReturnBeforeDeadline ==
  [][\A p \in Parcels :
       ReturnNext /\ parcel'[p] # parcel[p] => verifyDeadlineAt[p] <= now]_vars
=============================================================================
