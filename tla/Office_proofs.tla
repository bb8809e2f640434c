----------------------------- MODULE Office_proofs -----------------------------
(***************************************************************************)
(* Theorems of MCOffice: of the components it instantiates, for any ids, and  *)
(* any bounds and settings its assumption allows.  Each is proved of the     *)
(* instance: the variables v1, v2 ... are those it is given in MCOffice.      *)
(***************************************************************************)
EXTENDS MCOffice, FiniteSetTheorems, TLAPS

-----------------------------------------------------------------------------
(* The accounts: v1 is admins, v2 account, v3 hand, v4 call *)

\* Each instance has a Cardinality of its own.
LEMMA TeamCounts ==
  ASSUME NEW S PROVE Team!Cardinality(S) = Cardinality(S)
BY DEF Team!Cardinality, Cardinality, Team!IsFiniteSet, IsFiniteSet

(* An admin remains, whoever deactivates whom: the last one is not counted out. *)
LEMMA AccountsAdmins ==
  ASSUME Team!AnAdminRemains, Team!Next
  PROVE  Team!AnAdminRemains'
<1>1. ASSUME NEW k \in A, Team!DeactivateAdmin(k)
      PROVE  v1' # {}
  <2>1. v1' = v1 \ {v4[k].admin} /\ Cardinality(v1) > 1
    BY <1>1, TeamCounts DEF Team!DeactivateAdmin, Team!NotLastAdmin
  <2>2. ASSUME v1' = {} PROVE FALSE
    <3>1. v1 = {} \/ v1 = {v4[k].admin}
      BY <2>1, <2>2
    <3>2. Cardinality(v1) \in {0, 1}
      BY <3>1, FS_EmptySet, FS_Singleton
    <3> QED BY <2>1, <3>2
  <2> QED BY <2>2
<1>2. ASSUME NEW a \in B, Team!ActivateAdmin(a)
      PROVE  v1' # {}
  BY <1>2 DEF Team!ActivateAdmin
<1>3. CASE Team!WorkStep
  BY <1>3 DEF Team!AnAdminRemains, Team!WorkStep, Team!WriteGive, Team!ReadGive, Team!TakeBack, Team!GiveBack
<1>4. CASE Team!CourierStep
  BY <1>4 DEF Team!AnAdminRemains, Team!CourierStep, Team!CheckOpenWork, Team!Deactivate, Team!StopWork, Team!Activate
<1>5. ASSUME NEW k \in A, NEW a \in B, Team!ReadAdmin(k, a)
      PROVE  v1' # {}
  BY <1>5 DEF Team!AnAdminRemains, Team!ReadAdmin
<1>6. ASSUME NEW k \in A, Team!Abort(k)
      PROVE  v1' # {}
  BY <1>6 DEF Team!AnAdminRemains, Team!Abort
<1> QED BY <1>1, <1>2, <1>3, <1>4, <1>5, <1>6 DEF Team!Next, Team!AdminStep, Team!AnAdminRemains

\* A call under way is of its kind.
LEMMA TeamCall ==
  ASSUME Team!AccountsInv, NEW k \in A
  PROVE  /\ Team!Op(k, "GIVE") => v4[k] \in Team!GiveCall
         /\ Team!Op(k, "STOP") => v4[k] \in Team!StopCall
         /\ Team!Op(k, "ADMIN") => v4[k] \in Team!AdminCall
BY DEF Team!AccountsInv, Team!Op, Team!GiveCall, Team!StopCall, Team!AdminCall

(* Work given, taken back and given again, whoever is being stopped meanwhile. *)
LEMMA AccountsWork ==
  ASSUME Team!AccountsInv, Team!WorkStep, Team!AccountsAssumption
  PROVE  Team!AccountsInv'
<1> USE DEF Team!Couriers, Team!Things
<1>0. Team!AnAdminRemains'
  BY AccountsAdmins DEF Team!AccountsInv, Team!Next
<1>t. /\ v2 \in [Team!Couriers -> Team!Account] /\ v3 \in [Team!Things -> Team!Hand]
      /\ v4 \in [A -> Team!GiveCall \cup Team!StopCall \cup Team!AdminCall \cup {None}]
  BY DEF Team!AccountsInv
<1>1. ASSUME NEW k \in A, NEW x \in Team!Things, NEW c \in Team!Couriers, Team!ReadGive(k, x, c)
      PROVE  Team!AccountsInv'
  <2> DEFINE r == [op |-> "GIVE", thing |-> x, courier |-> c]
  <2>1. r \in Team!GiveCall /\ r.op = "GIVE"
    BY DEF Team!GiveCall
  <2> HIDE DEF r
  <2>2. v4' = [v4 EXCEPT ![k] = r] /\ UNCHANGED <<v1, v2, v3, v5>>
    BY <1>1 DEF Team!ReadGive, r
  <2>3. v4' \in [A -> Team!GiveCall \cup Team!StopCall \cup Team!AdminCall \cup {None}]
    BY <1>t, <2>1, <2>2
  <2>4. Team!StoppedInv'
    BY <1>t, <2>1, <2>2 DEF Team!AccountsInv, Team!StoppedInv, Team!Op, Team!courierOpenWork
  <2> QED BY <1>0, <2>2, <2>3, <2>4 DEF Team!AccountsInv, Team!NothingMissedAtDeactivation
<1>2. ASSUME NEW k \in A, Team!WriteGive(k)
      PROVE  Team!AccountsInv'
  <2> DEFINE x == v4[k].thing
             c == v4[k].courier
             r == [courier |-> c, out |-> TRUE, late |-> ~v2[c].acceptsWork]
  <2>1. x \in Team!Things /\ c \in Team!Couriers
    BY <1>2, TeamCall DEF Team!WriteGive, Team!GiveCall
  <2>2. r \in Team!Hand /\ r.courier = c /\ r.out /\ r.late = ~v2[c].acceptsWork
    BY <1>t, <2>1 DEF Team!Hand, Team!Account
  <2>3. v3' = [v3 EXCEPT ![x] = r] /\ v4' = [v4 EXCEPT ![k] = None] /\ UNCHANGED <<v1, v2, v5>>
    BY <1>2 DEF Team!WriteGive, Team!Done
  <2> HIDE DEF r, x, c
  <2>4. /\ v3' \in [Team!Things -> Team!Hand]
        /\ v4' \in [A -> Team!GiveCall \cup Team!StopCall \cup Team!AdminCall \cup {None}]
    BY <1>t, <2>1, <2>2, <2>3
  <2>5. \A y \in Team!Things : v3'[y] = IF y = x THEN r ELSE v3[y]
    BY <1>t, <2>1, <2>3
  <2>6. Team!StoppedInv'
    BY <1>t, <2>1, <2>2, <2>3, <2>5
    DEF Team!AccountsInv, Team!StoppedInv, Team!Op, Team!courierOpenWork
  <2>7. Team!NothingMissedAtDeactivation'
    BY <1>t, <2>1, <2>2, <2>3, <2>5
    DEF Team!AccountsInv, Team!StoppedInv, Team!NothingMissedAtDeactivation
  <2>8. \A y \in Team!Things : v3'[y].out => v3'[y].courier # None
    BY <2>1, <2>2, <2>5 DEF Team!AccountsInv, Team!AccountsAssumption
  <2> QED BY <1>0, <1>t, <2>3, <2>4, <2>6, <2>7, <2>8 DEF Team!AccountsInv
<1>3. ASSUME NEW x \in Team!Things, Team!TakeBack(x)
      PROVE  Team!AccountsInv'
  <2> DEFINE r == [v3[x] EXCEPT !.out = FALSE]
  <2>1. r \in Team!Hand /\ ~r.out
    BY <1>t DEF Team!Hand
  <2>2. v3' = [v3 EXCEPT ![x] = r] /\ UNCHANGED <<v1, v2, v4, v5>>
    BY <1>3 DEF Team!TakeBack
  <2> HIDE DEF r
  <2>3. \A y \in Team!Things : v3'[y] = IF y = x THEN r ELSE v3[y]
    BY <1>t, <2>2
  <2>4. Team!StoppedInv' /\ Team!NothingMissedAtDeactivation'
    BY <2>1, <2>2, <2>3
    DEF Team!AccountsInv, Team!StoppedInv, Team!Op, Team!courierOpenWork, Team!NothingMissedAtDeactivation
  <2> QED BY <1>0, <1>t, <2>1, <2>2, <2>3, <2>4 DEF Team!AccountsInv
<1>4. ASSUME NEW x \in Team!Things, Team!GiveBack(x)
      PROVE  Team!AccountsInv'
  <2> DEFINE c == v3[x].courier
             r == [v3[x] EXCEPT !.out = TRUE, !.late = ~v2[c].acceptsWork]
  <2>1. c \in Team!Couriers
    BY <1>4, <1>t DEF Team!GiveBack, Team!Hand
  <2>2. r \in Team!Hand /\ r.courier = c /\ r.out /\ r.late = ~v2[c].acceptsWork
    BY <1>t, <2>1 DEF Team!Hand, Team!Account
  <2>3. v3' = [v3 EXCEPT ![x] = r] /\ UNCHANGED <<v1, v2, v4, v5>>
    BY <1>4, <1>t DEF Team!GiveBack
  <2> HIDE DEF r, c
  <2>4. \A y \in Team!Things : v3'[y] = IF y = x THEN r ELSE v3[y]
    BY <1>t, <2>3
  <2>5. Team!StoppedInv'
    BY <1>t, <2>1, <2>2, <2>3, <2>4
    DEF Team!AccountsInv, Team!StoppedInv, Team!Op, Team!courierOpenWork
  <2>6. Team!NothingMissedAtDeactivation'
    BY <1>t, <2>1, <2>2, <2>3, <2>4
    DEF Team!AccountsInv, Team!StoppedInv, Team!NothingMissedAtDeactivation
  <2>7. \A y \in Team!Things : v3'[y].out => v3'[y].courier # None
    BY <2>1, <2>2, <2>4 DEF Team!AccountsInv, Team!AccountsAssumption
  <2> QED BY <1>0, <1>t, <2>2, <2>3, <2>4, <2>5, <2>6, <2>7 DEF Team!AccountsInv
<1> QED BY <1>1, <1>2, <1>3, <1>4 DEF Team!WorkStep

(* A courier stopped, checked, deactivated and reactivated. *)
LEMMA AccountsCourier ==
  ASSUME Team!AccountsInv, Team!CourierStep, Team!AccountsAssumption
  PROVE  Team!AccountsInv'
<1> USE DEF Team!Couriers, Team!Things
<1>0. Team!AnAdminRemains'
  BY AccountsAdmins DEF Team!AccountsInv, Team!Next
<1> DEFINE Calls == Team!GiveCall \cup Team!StopCall \cup Team!AdminCall \cup {None}
<1>t. /\ v2 \in [Team!Couriers -> Team!Account] /\ v3 \in [Team!Things -> Team!Hand]
      /\ v4 \in [A -> Calls]
  BY DEF Team!AccountsInv
<1>1. ASSUME NEW k \in A, NEW c \in Team!Couriers, Team!StopWork(k, c)
      PROVE  Team!AccountsInv'
  <2> DEFINE r == [op |-> "STOP", courier |-> c, checked |-> FALSE, crossed |-> FALSE]
             a == [v2[c] EXCEPT !.acceptsWork = FALSE]
  <2>1. r \in Team!StopCall /\ r.courier = c /\ ~r.checked
    BY DEF Team!StopCall
  <2>2. a \in Team!Account /\ ~a.acceptsWork /\ a.isActive = v2[c].isActive /\ a.crossed = v2[c].crossed
    BY <1>t DEF Team!Account
  <2>3. v4' = [v4 EXCEPT ![k] = r] /\ v2' = [v2 EXCEPT ![c] = a] /\ UNCHANGED <<v1, v3>>
    BY <1>1 DEF Team!StopWork
  <2> HIDE DEF r, a
  <2>4. v2' \in [Team!Couriers -> Team!Account] /\ v4' \in [A -> Calls]
    BY <1>t, <2>1, <2>2, <2>3
  <2>5. Team!StoppedInv'
    BY <1>t, <2>1, <2>2, <2>3 DEF Team!AccountsInv, Team!StoppedInv, Team!Op, Team!courierOpenWork
  <2>6. Team!NothingMissedAtDeactivation'
    BY <1>t, <2>2, <2>3 DEF Team!AccountsInv, Team!NothingMissedAtDeactivation
  <2> QED BY <1>0, <1>t, <2>3, <2>4, <2>5, <2>6 DEF Team!AccountsInv
<1>2. ASSUME NEW k \in A, Team!CheckOpenWork(k)
      PROVE  Team!AccountsInv'
  <2>0. v4[k] \in Team!StopCall /\ UNCHANGED <<v1, v2, v3, v5>>
    BY <1>2, TeamCall DEF Team!CheckOpenWork
  <2> DEFINE c == v4[k].courier
             r == [v4[k] EXCEPT !.checked = TRUE]
  <2>1. CASE v2[c].isActive /\ Team!courierOpenWork(c) = {}
    <3>1. r \in Team!StopCall /\ r.courier = c /\ r.crossed = v4[k].crossed
      BY <2>0 DEF Team!StopCall
    <3>2. v4' = [v4 EXCEPT ![k] = r]
      BY <1>2, <2>1, <2>0 DEF Team!CheckOpenWork
    <3> HIDE DEF r
    <3>3. v4' \in [A -> Calls]
      BY <1>t, <3>1, <3>2
    <3>4. Team!StoppedInv'
      BY <1>2, <1>t, <2>0, <2>1, <3>1, <3>2
      DEF Team!AccountsInv, Team!StoppedInv, Team!Op, Team!courierOpenWork, Team!CheckOpenWork
    <3> QED BY <1>0, <1>t, <2>0, <3>3, <3>4 DEF Team!AccountsInv, Team!NothingMissedAtDeactivation
  <2>2. CASE ~(v2[c].isActive /\ Team!courierOpenWork(c) = {})
    <3>1. v4' = [v4 EXCEPT ![k] = None]
      BY <1>2, <2>2 DEF Team!CheckOpenWork, Team!Done
    <3>2. v4' \in [A -> Calls] /\ Team!StoppedInv'
      BY <1>t, <2>0, <3>1 DEF Team!AccountsInv, Team!StoppedInv, Team!Op, Team!courierOpenWork
    <3> QED BY <1>0, <1>t, <2>0, <3>2 DEF Team!AccountsInv, Team!NothingMissedAtDeactivation
  <2> QED BY <2>1, <2>2
<1>3. ASSUME NEW k \in A, Team!Deactivate(k)
      PROVE  Team!AccountsInv'
  <2>0. v4[k] \in Team!StopCall /\ Team!Op(k, "STOP") /\ v4[k].checked
    BY <1>3, TeamCall DEF Team!Deactivate
  <2> DEFINE c == v4[k].courier
             a == [v2[c] EXCEPT !.isActive = FALSE, !.crossed = v4[k].crossed]
  <2>1. c \in Team!Couriers /\ v4[k].crossed \in BOOLEAN
    BY <2>0 DEF Team!StopCall
  <2>2. a \in Team!Account /\ a.acceptsWork = v2[c].acceptsWork /\ a.crossed = v4[k].crossed
    BY <1>t, <2>1 DEF Team!Account
  <2>3. v4' = [v4 EXCEPT ![k] = None] /\ v2' = [v2 EXCEPT ![c] = a] /\ UNCHANGED <<v1, v3, v5>>
    BY <1>3, <1>t, <2>1 DEF Team!Deactivate, Team!Done
  <2>4. ~v4[k].crossed => /\ ~v2[c].acceptsWork
                          /\ \A x \in Team!Things : v3[x].out /\ v3[x].courier = c => v3[x].late
    BY <2>0 DEF Team!AccountsInv, Team!StoppedInv, Team!courierOpenWork
  <2> HIDE DEF a, c
  <2>5. v2' \in [Team!Couriers -> Team!Account] /\ v4' \in [A -> Calls]
    BY <1>t, <2>1, <2>2, <2>3
  <2>6. Team!StoppedInv'
    BY <1>t, <2>1, <2>2, <2>3, <2>4
    DEF Team!AccountsInv, Team!StoppedInv, Team!Op, Team!courierOpenWork
  <2>7. Team!NothingMissedAtDeactivation'
    BY <1>t, <2>1, <2>2, <2>3, <2>4 DEF Team!AccountsInv, Team!NothingMissedAtDeactivation
  <2> QED BY <1>0, <1>t, <2>3, <2>5, <2>6, <2>7 DEF Team!AccountsInv
<1>4. ASSUME NEW c \in Team!Couriers, Team!Activate(c)
      PROVE  Team!AccountsInv'
  <2> DEFINE a == [isActive |-> TRUE, acceptsWork |-> TRUE, crossed |-> FALSE]
             Stops(k) == Team!Op(k, "STOP") /\ v4[k].courier = c
             r(k) == [v4[k] EXCEPT !.crossed = TRUE]
  <2>1. a \in Team!Account /\ a.isActive
    BY DEF Team!Account
  <2>2. /\ v2' = [v2 EXCEPT ![c] = a] /\ UNCHANGED <<v1, v3>>
        /\ v4' = [k \in A |-> IF Stops(k) THEN r(k) ELSE v4[k]]
    BY <1>4 DEF Team!Activate
  <2>3. ASSUME NEW k \in A, Stops(k)
        PROVE  /\ r(k) \in Team!StopCall /\ r(k).crossed /\ r(k).courier = v4[k].courier
               /\ r(k).checked = v4[k].checked
    BY <2>3, TeamCall DEF Team!StopCall
  <2> HIDE DEF a, r
  <2>4. v2' \in [Team!Couriers -> Team!Account] /\ v4' \in [A -> Calls]
    BY <1>t, <2>1, <2>2, <2>3
  <2>5. Team!StoppedInv'
    <3>1. ASSUME NEW d \in Team!Couriers, ~v2'[d].isActive, ~v2'[d].crossed
          PROVE  ~v2'[d].acceptsWork
      BY <1>t, <2>1, <2>2, <3>1 DEF Team!AccountsInv, Team!StoppedInv
    <3>2. ASSUME NEW k \in A, v4'[k] # None, v4'[k].op = "STOP", ~v4'[k].crossed
          PROVE  /\ v4'[k] = v4[k] /\ Team!Op(k, "STOP") /\ v4[k].courier # c
      BY <2>2, <2>3, <3>2 DEF Team!Op
    <3>3. ASSUME NEW k \in A, v4'[k] # None, v4'[k].op = "STOP", ~v4'[k].crossed
          PROVE  /\ ~v2'[v4'[k].courier].acceptsWork
                 /\ v4'[k].checked =>
                      \A x \in Team!Things : v3[x].out /\ v3[x].courier = v4'[k].courier => v3[x].late
      <4>1. v4[k].courier \in Team!Couriers
        BY <3>2, <3>3, TeamCall DEF Team!StopCall
      <4> QED BY <1>t, <2>2, <3>2, <3>3, <4>1 DEF Team!AccountsInv, Team!StoppedInv, Team!courierOpenWork
    <3> QED BY <2>2, <3>1, <3>3 DEF Team!StoppedInv, Team!Op, Team!courierOpenWork
  <2>6. Team!NothingMissedAtDeactivation'
    BY <1>t, <2>1, <2>2 DEF Team!AccountsInv, Team!NothingMissedAtDeactivation
  <2> QED BY <1>0, <1>t, <2>2, <2>4, <2>5, <2>6 DEF Team!AccountsInv
<1> QED BY <1>1, <1>2, <1>3, <1>4 DEF Team!CourierStep

(* The accounts keep their invariant, whatever is done. *)
LEMMA AccountsStep ==
  ASSUME Team!AccountsInv, Team!Next, Team!AccountsAssumption
  PROVE  Team!AccountsInv'
<1>0. Team!AnAdminRemains'
  BY AccountsAdmins DEF Team!AccountsInv
<1>1. ASSUME NEW k \in A, v4' = [v4 EXCEPT ![k] = None], v1' \subseteq v1, UNCHANGED <<v2, v3>>
      PROVE  Team!AccountsInv'
  BY <1>0, <1>1 DEF Team!AccountsInv, Team!StoppedInv, Team!NothingMissedAtDeactivation, Team!Op,
    Team!courierOpenWork
<1>2. ASSUME NEW k \in A, Team!DeactivateAdmin(k) \/ Team!Abort(k)
      PROVE  Team!AccountsInv'
  BY <1>1, <1>2 DEF Team!DeactivateAdmin, Team!Abort, Team!Done
<1>3. ASSUME NEW a \in B, Team!ActivateAdmin(a)
      PROVE  Team!AccountsInv'
  BY <1>0, <1>3 DEF Team!ActivateAdmin, Team!AccountsInv, Team!StoppedInv, Team!NothingMissedAtDeactivation,
    Team!Op, Team!courierOpenWork
<1>4. ASSUME NEW k \in A, NEW a \in B, Team!ReadAdmin(k, a)
      PROVE  Team!AccountsInv'
  <2> DEFINE r == [op |-> "ADMIN", admin |-> a, others |-> Team!Cardinality(v1)]
  <2>1. Team!Cardinality(v1) \in Int
    <3>1. IsFiniteSet(B)
      BY DEF Team!AccountsAssumption, Team!IsFiniteSet, IsFiniteSet
    <3>2. v1 \in SUBSET B
      BY DEF Team!AccountsInv
    <3>3. IsFiniteSet(v1)
      BY <3>1, <3>2, FS_Subset
    <3> QED BY <3>3, TeamCounts, FS_CardinalityType
  <2>2. r \in Team!AdminCall /\ r.op = "ADMIN"
    BY <2>1 DEF Team!AdminCall
  <2>3. v4' = [v4 EXCEPT ![k] = r] /\ UNCHANGED <<v1, v2, v3>>
    BY <1>4 DEF Team!ReadAdmin
  <2> HIDE DEF r
  <2>4. v4' \in [A -> Team!GiveCall \cup Team!StopCall \cup Team!AdminCall \cup {None}]
    BY <2>2, <2>3 DEF Team!AccountsInv
  <2> QED BY <1>0, <2>2, <2>3, <2>4 DEF Team!AccountsInv, Team!StoppedInv, Team!NothingMissedAtDeactivation,
    Team!Op, Team!courierOpenWork
<1> QED BY <1>2, <1>3, <1>4, AccountsWork, AccountsCourier DEF Team!Next, Team!AdminStep

-----------------------------------------------------------------------------
(* The zones: v1 is working, v2 zone, v3 delegationZone, v4 absent, v5 pickup,   *)
(* v6 planned, v7 call, v8 edits                                             *)

\* A call under way is of its kind.
LEMMA ZonesCall ==
  ASSUME Zones!CoverageInv, NEW k \in A
  PROVE  /\ Zones!Op(k, "PLAN") => v7[k] \in Zones!PlanCall
         /\ Zones!Op(k, "ABSENT") => v7[k] \in Zones!AbsentCall
         /\ Zones!Op(k, "CLOSE") \/ Zones!Op(k, "ATTACH") => v7[k] \in Zones!ZoneCall
BY DEF Zones!CoverageInv, Zones!Op, Zones!PlanCall, Zones!AbsentCall, Zones!ZoneCall

(* Who replaces an absent ramasseur is a ramasseur and not he, and nobody does    *)
(* only if nobody else could.                                               *)
LEMMA ReplacementIsAnother ==
  ASSUME Zones!CoverageInv, Zones!CoverageAssumption, NEW c \in Zones!Couriers, NEW d \in Zones!Days
  PROVE  /\ Zones!Replacement(c, d) \in B \cup {None}
         /\ Zones!Replacement(c, d) # c
         /\ Zones!Replacement(c, d) = None => Zones!Covering(c, d) = {}
<1> DEFINE slot == v2[v3]["RAMASSEUR"]
           free == Zones!Available(d) \ {c}
<1>1. c # None /\ None \notin B /\ None \notin free
  BY DEF Zones!CoverageAssumption, Zones!Couriers, Zones!CoverageInv, Zones!Available
<1>2. CASE v3 = None \/ ~v2[v3].isActive
  <2>1. Zones!Replacement(c, d) = None
    BY <1>2 DEF Zones!Replacement, Zones!forDay
  <2>2. None \notin D
    BY DEF Zones!CoverageAssumption
  <2> QED BY <1>1, <1>2, <2>1, <2>2 DEF Zones!Covering
<1>3. CASE v3 # None /\ v2[v3].isActive
  <2>1. v3 \in D /\ v2[v3] \in Zones!Zone
    BY <1>3 DEF Zones!CoverageInv
  <2>2. slot.titulaireId \in B \cup {None} /\ slot.backupId \in B \cup {None}
        /\ slot = v2[v3].RAMASSEUR
    BY <2>1 DEF Zones!Zone, Zones!Slot, Zones!OfRole
  <2>3. Zones!Replacement(c, d) = Zones!coveringCourier(slot, free)
    BY <1>3 DEF Zones!Replacement, Zones!forDay
  <2> HIDE DEF slot
  <2>4. /\ Zones!Replacement(c, d) \in B \cup {None}
        /\ Zones!Replacement(c, d) # c
    BY <1>1, <2>2, <2>3 DEF Zones!coveringCourier
  <2>5. ASSUME Zones!Replacement(c, d) = None
        PROVE  slot.titulaireId \notin free /\ slot.backupId \notin free
    BY <1>1, <2>3, <2>5 DEF Zones!coveringCourier
  <2>6. ASSUME NEW r \in Zones!Covering(c, d), Zones!Replacement(c, d) = None
        PROVE  FALSE
    <3>1. r \in free /\ r \in {v2[v3].RAMASSEUR.titulaireId, v2[v3].RAMASSEUR.backupId}
      BY DEF Zones!Covering
    <3> QED BY <2>2, <2>5, <2>6, <3>1
  <2> QED BY <2>4, <2>6
<1> QED BY <1>2, <1>3

(* The zones and accounts edited: no pickup and no absence moves. *)
LEMMA ZonesEdited ==
  ASSUME Zones!CoverageInv, Zones!CoverageAssumption, Zones!ZoneStep \/ Zones!PlanStep
  PROVE  Zones!CoverageInv'
<1> DEFINE Calls == Zones!PlanCall \cup Zones!AbsentCall \cup Zones!ZoneCall \cup {None}
<1>t. /\ v1 \subseteq Zones!Couriers /\ v2 \in [D -> Zones!Zone] /\ v3 \in D \cup {None}
      /\ v7 \in [A -> Calls]
  BY DEF Zones!CoverageInv
<1>1. ASSUME UNCHANGED <<v4, v5>>, v1' \subseteq Zones!Couriers, v2' \in [D -> Zones!Zone],
             v3' \in D \cup {None}, v7' \in [A -> Calls],
             \A k \in A : v7'[k] = v7[k] \/ v7'[k].op # "ABSENT" \/ v7'[k] = None
      PROVE  Zones!CoverageInv'
  <2>1. Zones!AbsentIsReplaced'
    BY <1>1 DEF Zones!CoverageInv, Zones!AbsentIsReplaced
  <2>2. Zones!ReplacementInv'
    BY <1>1 DEF Zones!CoverageInv, Zones!ReplacementInv, Zones!Op
  <2> QED BY <1>1, <2>1, <2>2 DEF Zones!CoverageInv
<1>2. ASSUME NEW z \in D, NEW l \in Zones!Slot("LIVREUR"), NEW r \in Zones!Slot("RAMASSEUR"),
             Zones!SetAssignments(z, l, r)
      PROVE  Zones!CoverageInv'
  <2> DEFINE n == [v2[z] EXCEPT !.LIVREUR = l, !.RAMASSEUR = r]
  <2>1. n \in Zones!Zone
    BY <1>t DEF Zones!Zone
  <2>2. v2' = [v2 EXCEPT ![z] = n] /\ UNCHANGED <<v1, v3, v4, v5, v7>>
    BY <1>2, <1>t DEF Zones!SetAssignments
  <2> HIDE DEF n
  <2> QED BY <1>1, <1>t, <2>1, <2>2
<1>3. ASSUME NEW z \in D, NEW b \in BOOLEAN, v2' = [v2 EXCEPT ![z].isActive = b],
             UNCHANGED <<v1, v3, v4, v5>>, v7' = v7 \/ \E k \in A : v7' = [v7 EXCEPT ![k] = None]
      PROVE  Zones!CoverageInv'
  <2> DEFINE n == [v2[z] EXCEPT !.isActive = b]
  <2>1. n \in Zones!Zone
    BY <1>t DEF Zones!Zone
  <2>2. v2' = [v2 EXCEPT ![z] = n]
    BY <1>3, <1>t
  <2> HIDE DEF n
  <2>3. v2' \in [D -> Zones!Zone]
    BY <1>t, <2>1, <2>2
  <2>4. v7' \in [A -> Calls] /\ \A k \in A : v7'[k] = v7[k] \/ v7'[k] = None
    BY <1>t, <1>3
  <2> QED BY <1>1, <1>t, <1>3, <2>3, <2>4
<1>4. ASSUME NEW z \in D, Zones!ReopenZone(z)
      PROVE  Zones!CoverageInv'
  BY <1>3, <1>4 DEF Zones!ReopenZone
<1>5. ASSUME NEW k \in A, Zones!CloseZone(k)
      PROVE  Zones!CoverageInv'
  <2>1. CASE v7[k].zone \in D
    BY <1>3, <1>5, <2>1 DEF Zones!CloseZone, Zones!Done
  <2>2. CASE v7[k].zone \notin D
    <3>1. v2' = v2 /\ v7' = [v7 EXCEPT ![k] = None] /\ UNCHANGED <<v1, v3, v4, v5>>
      BY <1>5, <1>t, <2>2 DEF Zones!CloseZone, Zones!Done
    <3> QED BY <1>1, <1>t, <3>1
  <2> QED BY <2>1, <2>2
<1>6. ASSUME NEW k \in A, NEW z \in D \cup {None}, NEW op \in {"CLOSE", "ATTACH"},
             v7' = [v7 EXCEPT ![k] = [op |-> op, zone |-> z]], UNCHANGED <<v1, v2, v3, v4, v5>>
      PROVE  Zones!CoverageInv'
  <2> DEFINE r == [op |-> op, zone |-> z]
  <2>1. r \in Zones!ZoneCall /\ r.op # "ABSENT"
    BY DEF Zones!ZoneCall
  <2> HIDE DEF r
  <2>2. v7' = [v7 EXCEPT ![k] = r]
    BY <1>6 DEF r
  <2> QED BY <1>1, <1>t, <1>6, <2>1, <2>2
<1>7. ASSUME NEW k \in A, NEW z \in D \cup {None}, (z \in D /\ Zones!ReadZone(k, z)) \/ Zones!ReadDelegation(k, z)
      PROVE  Zones!CoverageInv'
  BY <1>6, <1>7 DEF Zones!ReadZone, Zones!ReadDelegation
<1>8. ASSUME NEW k \in A, Zones!MoveDelegation(k)
      PROVE  Zones!CoverageInv'
  <2>1. v7[k].zone \in D \cup {None}
    BY <1>8, ZonesCall DEF Zones!MoveDelegation, Zones!ZoneCall
  <2>2. v3' = v7[k].zone /\ v7' = [v7 EXCEPT ![k] = None] /\ UNCHANGED <<v1, v2, v4, v5>>
    BY <1>8 DEF Zones!MoveDelegation, Zones!Done
  <2> QED BY <1>1, <1>t, <2>1, <2>2
<1>9. ASSUME NEW c \in Zones!Couriers, Zones!ChangeAccount(c)
      PROVE  Zones!CoverageInv'
  BY <1>1, <1>t, <1>9 DEF Zones!ChangeAccount
<1>10. ASSUME NEW p \in D, NEW l \in C \cup {None}, Zones!MoveInTournees(p, l)
      PROVE  Zones!CoverageInv'
  BY <1>1, <1>t, <1>10 DEF Zones!MoveInTournees
<1> QED BY <1>2, <1>4, <1>5, <1>7, <1>8, <1>9, <1>10 DEF Zones!ZoneStep, Zones!PlanStep

(* Pickups planned, cancelled and done, and the absences they may be left by. *)
LEMMA ZonesPickups ==
  ASSUME Zones!CoverageInv, Zones!CoverageAssumption, Zones!PickupStep
  PROVE  Zones!CoverageInv'
<1> DEFINE Calls == Zones!PlanCall \cup Zones!AbsentCall \cup Zones!ZoneCall \cup {None}
<1>t. v5 \in [C -> Zones!Pickup] /\ v7 \in [A -> Calls] /\ 0 \notin Zones!Days
  BY DEF Zones!CoverageInv, Zones!Days
<1>1. ASSUME NEW k \in A, Zones!WritePlan(k)
      PROVE  Zones!CoverageInv'
  <2> DEFINE q == v7[k].pickup
             r == [status |-> "PLANIFIE", ramasseur |-> v7[k].courier, day |-> v7[k].day, alone |-> FALSE,
                   stale |-> <<v7[k].courier, v7[k].day>> \in v4]
  <2>0. v7[k] \in Zones!PlanCall
    BY <1>1, ZonesCall DEF Zones!WritePlan
  <2>1. /\ q \in C /\ r \in Zones!Pickup
        /\ <<r.ramasseur, r.day>> \in v4 => r.stale
    <3> DEFINE b == <<v7[k].courier, v7[k].day>> \in v4
    <3>1. b \in BOOLEAN /\ q \in C /\ v7[k].courier \in B /\ v7[k].day \in Zones!Days
      BY <2>0 DEF Zones!PlanCall
    <3>2. r = [status |-> "PLANIFIE", ramasseur |-> v7[k].courier, day |-> v7[k].day, alone |-> FALSE,
               stale |-> b]
      OBVIOUS
    <3>3. r.ramasseur = v7[k].courier /\ r.day = v7[k].day /\ r.stale = b
      OBVIOUS
    <3> HIDE DEF b
    <3>4. r \in Zones!Pickup
      BY <3>1, <3>2 DEF Zones!Pickup
    <3> QED BY <3>1, <3>3, <3>4 DEF b
  <2>2. v5' = [v5 EXCEPT ![q] = r] /\ v7' = [v7 EXCEPT ![k] = None] /\ UNCHANGED <<v1, v2, v3, v4>>
    BY <1>1 DEF Zones!WritePlan, Zones!Done
  <2> HIDE DEF q, r
  <2>3. v5' \in [C -> Zones!Pickup] /\ v7' \in [A -> Calls]
    BY <1>t, <2>1, <2>2
  <2>4. Zones!AbsentIsReplaced' /\ Zones!ReplacementInv'
    BY <1>t, <2>1, <2>2 DEF Zones!CoverageInv, Zones!AbsentIsReplaced, Zones!ReplacementInv, Zones!Op
  <2> QED BY <2>2, <2>3, <2>4 DEF Zones!CoverageInv
<1>2. ASSUME NEW k \in A, NEW p \in C, NEW r \in B, NEW d \in Zones!Days, Zones!ReadPlan(k, p, r, d)
      PROVE  Zones!CoverageInv'
  <2> DEFINE n == [op |-> "PLAN", pickup |-> p, courier |-> r, day |-> d]
  <2>1. n \in Zones!PlanCall /\ n.op # "ABSENT"
    BY DEF Zones!PlanCall
  <2>2. v7' = [v7 EXCEPT ![k] = n] /\ UNCHANGED <<v1, v2, v3, v4, v5>>
    BY <1>2 DEF Zones!ReadPlan
  <2> HIDE DEF n
  <2>3. v7' \in [A -> Calls]
    BY <1>t, <2>1, <2>2
  <2> QED BY <1>t, <2>1, <2>2, <2>3
    DEF Zones!CoverageInv, Zones!AbsentIsReplaced, Zones!ReplacementInv, Zones!Op
<1>3. ASSUME NEW p \in C, NEW s \in {"ANNULE", "EFFECTUE"}, Zones!EndPickup(p, s)
      PROVE  Zones!CoverageInv'
  <2> DEFINE r == [v5[p] EXCEPT !.status = s]
  <2>1. r \in Zones!Pickup /\ r.status # "PLANIFIE"
    BY <1>t DEF Zones!Pickup
  <2>2. v5' = [v5 EXCEPT ![p] = r] /\ UNCHANGED <<v1, v2, v3, v4, v7>>
    BY <1>3 DEF Zones!EndPickup
  <2> HIDE DEF r
  <2> QED BY <1>t, <2>1, <2>2
    DEF Zones!CoverageInv, Zones!AbsentIsReplaced, Zones!ReplacementInv, Zones!Op
<1> QED BY <1>1, <1>2, <1>3 DEF Zones!PickupStep

(* A courier marked absent, and no longer. *)
LEMMA ZonesAbsences ==
  ASSUME Zones!CoverageInv, Zones!CoverageAssumption, Zones!AbsenceStep
  PROVE  Zones!CoverageInv'
<1> DEFINE Calls == Zones!PlanCall \cup Zones!AbsentCall \cup Zones!ZoneCall \cup {None}
<1>t. v5 \in [C -> Zones!Pickup] /\ v7 \in [A -> Calls] /\ v4 \subseteq Zones!Couriers \X Zones!Days
  BY DEF Zones!CoverageInv
<1>1. ASSUME NEW k \in A, NEW c \in Zones!Couriers, NEW d \in Zones!Days, Zones!ReadAbsence(k, c, d)
      PROVE  Zones!CoverageInv'
  <2> DEFINE n == [op |-> "ABSENT", courier |-> c, day |-> d, pickups |-> Zones!PlannedFor(c, d),
                   replacement |-> Zones!Replacement(c, d), alone |-> Zones!Covering(c, d) = {}]
  <2>1. Zones!PlannedFor(c, d) \in SUBSET C
    BY DEF Zones!PlannedFor
  <2>2. /\ n \in Zones!AbsentCall /\ n.replacement # n.courier
        /\ n.replacement = None => n.alone
    BY <2>1, ReplacementIsAnother DEF Zones!AbsentCall
  <2>3. v7' = [v7 EXCEPT ![k] = n] /\ UNCHANGED <<v1, v2, v3, v4, v5>>
    BY <1>1 DEF Zones!ReadAbsence
  <2> HIDE DEF n
  <2>4. v7' \in [A -> Calls]
    BY <1>t, <2>2, <2>3
  <2>5. Zones!ReplacementInv'
    BY <1>t, <2>2, <2>3 DEF Zones!CoverageInv, Zones!ReplacementInv, Zones!Op
  <2> QED BY <2>3, <2>4, <2>5 DEF Zones!CoverageInv, Zones!AbsentIsReplaced
<1>2. ASSUME NEW k \in A, Zones!WriteAbsence(k)
      PROVE  Zones!CoverageInv'
  <2> DEFINE c == v7[k].courier
             d == v7[k].day
             s == v7[k].replacement
             read == v7[k].pickups
             moved == IF s = None THEN {} ELSE read
             M(p) == [v5[p] EXCEPT !.ramasseur = s,
                        !.stale = p \notin Zones!PlannedFor(c, d) \/ <<s, d>> \in v4]
             L(p) == [v5[p] EXCEPT !.stale = @ \/ p \notin read, !.alone = v7[k].alone]
  <2>0. v7[k] \in Zones!AbsentCall /\ Zones!Op(k, "ABSENT")
    BY <1>2, ZonesCall DEF Zones!WriteAbsence
  <2>1. /\ c \in Zones!Couriers /\ d \in Zones!Days /\ s \in B \cup {None} /\ v7[k].alone \in BOOLEAN
        /\ s # c /\ (s = None => v7[k].alone)
    BY <2>0 DEF Zones!AbsentCall, Zones!CoverageInv, Zones!ReplacementInv
  <2>2. /\ v4' = v4 \cup {<<c, d>>} /\ v7' = [v7 EXCEPT ![k] = None] /\ UNCHANGED <<v1, v2, v3>>
        /\ v5' = [p \in C |-> IF p \in moved THEN M(p)
                              ELSE IF p \in Zones!PlannedFor(c, d) THEN L(p) ELSE v5[p]]
    BY <1>2 DEF Zones!WriteAbsence, Zones!Done
  <2>3. ASSUME NEW p \in C, p \in moved
        PROVE  /\ M(p) \in Zones!Pickup
               /\ <<M(p).ramasseur, M(p).day>> \in v4' => M(p).stale
    <3>1. M(p) \in Zones!Pickup /\ M(p).ramasseur = s /\ M(p).day = v5[p].day
          /\ M(p).stale = (p \notin Zones!PlannedFor(c, d) \/ <<s, d>> \in v4)
      BY <1>t, <2>1, <2>3 DEF Zones!Pickup
    <3>2. p \in Zones!PlannedFor(c, d) => v5[p].day = d
      BY DEF Zones!PlannedFor
    <3> HIDE DEF M
    <3> QED BY <2>1, <2>2, <3>1, <3>2
  <2>4. ASSUME NEW p \in C, p \notin moved, p \in Zones!PlannedFor(c, d)
        PROVE  L(p) \in Zones!Pickup /\ (L(p).alone \/ L(p).stale)
    <3>1. PICK x \in Zones!Pickup : x = v5[p]
      BY <1>t
    <3>2. PICK b \in BOOLEAN : b = (v5[p].stale \/ p \notin read)
      OBVIOUS
    <3>3. L(p) = [status |-> x.status, ramasseur |-> x.ramasseur, day |-> x.day,
                  alone |-> v7[k].alone, stale |-> b]
      <4>1. L(p) = [v5[p] EXCEPT !.stale = b, !.alone = v7[k].alone]
        BY <3>2
      <4>2. x = [status |-> x.status, ramasseur |-> x.ramasseur, day |-> x.day,
                 alone |-> x.alone, stale |-> x.stale]
        BY DEF Zones!Pickup
      <4> HIDE DEF L
      <4> QED BY <3>1, <4>1, <4>2
    <3>4. v7[k].alone \/ p \notin read
      BY <2>1, <2>4
    <3>5. L(p) \in Zones!Pickup
      BY <2>1, <3>1, <3>3 DEF Zones!Pickup
    <3>6. L(p).alone = v7[k].alone /\ L(p).stale = b
      BY <3>3
    <3> QED BY <3>2, <3>4, <3>5, <3>6
  <2>5. ASSUME NEW p \in C, p \notin Zones!PlannedFor(c, d), v5[p].status = "PLANIFIE"
        PROVE  <<v5[p].ramasseur, v5[p].day>> # <<c, d>>
    BY <2>5 DEF Zones!PlannedFor
  <2> HIDE DEF M, L, moved
  <2>6. v5' \in [C -> Zones!Pickup] /\ v7' \in [A -> Calls] /\ v4' \subseteq Zones!Couriers \X Zones!Days
    <3>1. v5' \in [C -> Zones!Pickup]
      BY <1>t, <2>2, <2>3, <2>4
    <3>2. v7' \in [A -> Calls]
      BY <1>t, <2>2
    <3>3. v4' \subseteq Zones!Couriers \X Zones!Days
      BY <1>t, <2>1, <2>2
    <3> QED BY <3>1, <3>2, <3>3
  <2>7. Zones!AbsentIsReplaced'
    <3> SUFFICES ASSUME NEW p \in C, v5'[p].status = "PLANIFIE",
                        <<v5'[p].ramasseur, v5'[p].day>> \in v4'
                 PROVE  v5'[p].alone \/ v5'[p].stale
      BY DEF Zones!AbsentIsReplaced
    <3>1. CASE p \in moved
      BY <2>2, <2>3, <3>1
    <3>2. CASE p \notin moved /\ p \in Zones!PlannedFor(c, d)
      BY <2>2, <2>4, <3>2
    <3>3. CASE p \notin moved /\ p \notin Zones!PlannedFor(c, d)
      BY <2>2, <2>5, <3>3 DEF Zones!CoverageInv, Zones!AbsentIsReplaced
    <3> QED BY <3>1, <3>2, <3>3
  <2>8. Zones!ReplacementInv'
    BY <1>t, <2>2 DEF Zones!CoverageInv, Zones!ReplacementInv, Zones!Op
  <2> QED BY <2>2, <2>6, <2>7, <2>8 DEF Zones!CoverageInv
<1>3. ASSUME NEW c \in Zones!Couriers, NEW d \in Zones!Days, Zones!RemoveAbsence(c, d)
      PROVE  Zones!CoverageInv'
  BY <1>t, <1>3 DEF Zones!RemoveAbsence, Zones!CoverageInv, Zones!AbsentIsReplaced, Zones!ReplacementInv, Zones!Op
<1> QED BY <1>1, <1>2, <1>3 DEF Zones!AbsenceStep

(* The zones and their pickups keep their invariant, whatever is done. *)
LEMMA ZonesStep ==
  ASSUME Zones!CoverageInv, Zones!Next, Zones!CoverageAssumption
  PROVE  Zones!CoverageInv'
<1>1. ASSUME NEW k \in A, Zones!Abort(k)
      PROVE  Zones!CoverageInv'
  BY <1>1 DEF Zones!Abort, Zones!Done, Zones!CoverageInv, Zones!AbsentIsReplaced, Zones!ReplacementInv, Zones!Op
<1> QED BY <1>1, ZonesEdited, ZonesPickups, ZonesAbsences DEF Zones!Next

-----------------------------------------------------------------------------
(* Work is handed on *)

HandedOnInv ==
  /\ moving = "Zones" => Zones!CoverageInv
  /\ moving = "Accounts" => Team!AccountsInv

(* The inductive invariant of both always holds. *)
THEOREM AlwaysHandedOnInv == Spec => []HandedOnInv
<1>1. Init => HandedOnInv
  <2>1. Zones!Init => Zones!CoverageInv
    BY OfficeAssumption DEF Zones!Init, Zones!CoverageInv, Zones!AbsentIsReplaced, Zones!ReplacementInv,
      Zones!Op, Zones!Zone, Zones!Slot, Zones!OfRole, Zones!Nobody, Zones!Pickup
  <2>2. Team!Init => Team!AccountsInv
    BY OfficeAssumption DEF Team!Init, Team!AccountsInv, Team!AnAdminRemains, Team!NothingMissedAtDeactivation,
      Team!StoppedInv, Team!Op, Team!Account, Team!Hand, Team!AccountsAssumption
  <2> QED BY <2>1, <2>2 DEF Init, HandedOnInv
<1>2. HandedOnInv /\ [Next]_vars => HandedOnInv'
  <2> SUFFICES ASSUME HandedOnInv, [Next]_vars PROVE HandedOnInv'
    OBVIOUS
  <2>0. moving' = moving
    BY DEF Next, vars
  <2>1. CASE moving = "Zones"
    <3>1. CASE Zones!Next
      BY <2>0, <2>1, <3>1, ZonesStep, OfficeAssumption DEF HandedOnInv, OfficeAssumption
    <3>2. CASE UNCHANGED vars
      BY <2>1, <3>2 DEF HandedOnInv, vars, Zones!CoverageInv, Zones!AbsentIsReplaced, Zones!ReplacementInv, Zones!Op
    <3> QED BY <2>1, <3>1, <3>2 DEF Next
  <2>2. CASE moving = "Accounts"
    <3>1. CASE Team!Next
      BY <2>0, <2>2, <3>1, AccountsStep, OfficeAssumption DEF HandedOnInv, OfficeAssumption
    <3>2. CASE UNCHANGED vars
      BY <2>2, <3>2 DEF HandedOnInv, vars, Team!AccountsInv, Team!AnAdminRemains,
        Team!NothingMissedAtDeactivation, Team!StoppedInv, Team!Op, Team!courierOpenWork
    <3> QED BY <2>2, <3>1, <3>2 DEF Next
  <2>3. CASE moving \notin {"Zones", "Accounts"}
    BY <2>0, <2>3 DEF HandedOnInv
  <2> QED BY <2>1, <2>2, <2>3
<1> QED BY <1>1, <1>2, PTL DEF Spec

(* An absent ramasseur's pickups went to whoever covers his zone, a deactivated   *)
(* courier was checked for all the check could see, and an admin remains.        *)
THEOREM WorkHandedOn == Spec => []WorkIsHandedOn
<1>1. HandedOnInv => WorkIsHandedOn
  BY DEF HandedOnInv, WorkIsHandedOn, Zones!CoverageInv, Team!AccountsInv
<1> QED BY <1>1, AlwaysHandedOnInv, PTL


-----------------------------------------------------------------------------
(* The pickups, for any set P of parcels and Ad of addresses: v1 is address, v2   *)
(* pickup, v3 parcel, v4 link, v5 request, v6 scan, v7 closing, v8 fees          *)

\* Each instance has a Cardinality of its own.
LEMMA AskingCounts ==
  ASSUME NEW CONSTANT P, NEW CONSTANT Ad, NEW S PROVE Asking(P, Ad)!Cardinality(S) = Cardinality(S)
BY DEF Asking!Cardinality, Cardinality, Asking!IsFiniteSet, IsFiniteSet

\* What is scanned at a pickup can be counted.
LEMMA ScannedIsCounted ==
  ASSUME NEW CONSTANT P, NEW CONSTANT Ad, Asking(P, Ad)!PickupAssumption, NEW S \in SUBSET P
  PROVE  Asking(P, Ad)!Cardinality(S) \in Nat
<1>1. IsFiniteSet(P)
  BY DEF Asking!PickupAssumption, Asking!IsFiniteSet, IsFiniteSet
<1> QED BY <1>1, FS_Subset, FS_CardinalityType, AskingCounts

(* Where the pickups keep their addresses, forms and status, and no parcel, scan  *)
(* or fee moves, the invariant stays.                                        *)
LEMMA PickupsUndisturbed ==
  ASSUME NEW CONSTANT P, NEW CONSTANT Ad, Asking(P, Ad)!PickupInv,
         UNCHANGED <<v2, v3, v4, v8>>, Asking(P, Ad)!TypeOK',
         \A p \in P : \/ v6'[p] = None
                      \/ v6[p] # None /\ v6'[p].pickup = v6[p].pickup /\ v6'[p].op = v6[p].op,
         \A k \in B : v7'[k] # None => v7[k] # None \/ (v2[k] # None /\ v2[k].status = "PLANIFIE")
  PROVE  Asking(P, Ad)!PickupInv'
<1>1. Asking(P, Ad)!OneOpenPerAddress' /\ Asking(P, Ad)!AskedOnce' /\ Asking(P, Ad)!FeeOnlyOnce' /\ Asking(P, Ad)!ScannedAtOne'
  BY DEF Asking!PickupInv, Asking!OneOpenPerAddress, Asking!AskedOnce, Asking!FeeOnlyOnce, Asking!ScannedAtOne, Asking!Open, Asking!ScannedAt
<1>2. Asking(P, Ad)!ScanInv'
  BY DEF Asking!PickupInv, Asking!ScanInv, Asking!ScannedAt
<1>3. \A k \in B : /\ v2'[k] = None => v8'[k] = 0 /\ Asking(P, Ad)!ScannedAt(k)' = {}
                   /\ v7'[k] # None => v2'[k] # None /\ v2'[k].status = "PLANIFIE"
  BY DEF Asking!PickupInv, Asking!ScannedAt
<1> QED BY <1>1, <1>2, <1>3 DEF Asking!PickupInv

(* A request read, refused or given up; a pickup counted; a scan begun, counted or *)
(* given up; an address.                                                    *)
LEMMA PickupReads ==
  ASSUME NEW CONSTANT P, NEW CONSTANT Ad, Asking(P, Ad)!PickupAssumption, Asking(P, Ad)!PickupInv,
         \/ \E a \in Ad : Asking(P, Ad)!CreateAddress(a) \/ \E b \in Ad : Asking(P, Ad)!ReplaceAddress(a, b)
         \/ \E q \in Ad, form \in B, a \in Ad, listed \in BOOLEAN,
               chosen \in SUBSET P : Asking(P, Ad)!ReadRequest(q, form, a, listed, chosen)
         \/ \E q \in Ad : Asking(P, Ad)!RefuseRequest(q)
         \/ \E p \in P : Asking(P, Ad)!Count(p)
         \/ \E k \in B : Asking(P, Ad)!CountAtClosing(k)
         \/ Asking(P, Ad)!Abort
  PROVE  Asking(P, Ad)!PickupInv'
<1>t. /\ v5 \in [Ad -> Asking(P, Ad)!RequestRow \cup {None}] /\ v6 \in [P -> Asking(P, Ad)!ScanRow \cup {None}]
  BY DEF Asking!PickupInv, Asking!TypeOK
<1>1. ASSUME NEW a \in Ad, Asking(P, Ad)!CreateAddress(a) \/ \E b \in Ad : Asking(P, Ad)!ReplaceAddress(a, b)
      PROVE  Asking(P, Ad)!PickupInv'
  <2>1. Asking(P, Ad)!TypeOK'
    BY <1>1 DEF Asking!CreateAddress, Asking!ReplaceAddress, Asking!PickupInv, Asking!TypeOK, Asking!AddressState
  <2>2. UNCHANGED <<v2, v3, v4, v5, v6, v7, v8>>
    BY <1>1 DEF Asking!CreateAddress, Asking!ReplaceAddress
  <2> QED BY <2>1, <2>2, PickupsUndisturbed
<1>2. ASSUME NEW q \in Ad, NEW form \in B, NEW a \in Ad, NEW listed \in BOOLEAN,
             NEW chosen \in SUBSET P, Asking(P, Ad)!ReadRequest(q, form, a, listed, chosen)
      PROVE  Asking(P, Ad)!PickupInv'
  <2> DEFINE r == [at |-> a, form |-> form, parcels |-> chosen, listed |-> listed]
  <2>1. r \in Asking(P, Ad)!RequestRow
    BY DEF Asking!RequestRow
  <2>2. v5' = [v5 EXCEPT ![q] = r] /\ UNCHANGED <<v1, v2, v3, v4, v6, v7, v8>>
    BY <1>2 DEF Asking!ReadRequest
  <2> HIDE DEF r
  <2>3. Asking(P, Ad)!TypeOK'
    BY <2>1, <2>2 DEF Asking!PickupInv, Asking!TypeOK
  <2> QED BY <1>t, <2>2, <2>3, PickupsUndisturbed
<1>3. ASSUME NEW q \in Ad, Asking(P, Ad)!RefuseRequest(q)
      PROVE  Asking(P, Ad)!PickupInv'
  <2>1. Asking(P, Ad)!TypeOK' /\ UNCHANGED <<v2, v3, v4, v6, v7, v8>>
    BY <1>3 DEF Asking!RefuseRequest, Asking!PickupInv, Asking!TypeOK
  <2> QED BY <1>t, <2>1, PickupsUndisturbed
<1>4. ASSUME NEW p \in P, Asking(P, Ad)!Count(p)
      PROVE  Asking(P, Ad)!PickupInv'
  <2> DEFINE others == Asking(P, Ad)!ScannedAt(v6[p].pickup) \ {p}
             n == Asking(P, Ad)!Cardinality(IF Asking(P, Ad)!LinkAfter(p) \in Asking(P, Ad)!Scanned THEN others \cup {p} ELSE others)
             r == [v6[p] EXCEPT !.count = n]
  <2>0. v6[p] \in Asking(P, Ad)!ScanRow
    BY <1>t, <1>4 DEF Asking!Count
  <2>1. n \in Nat
    BY ScannedIsCounted DEF Asking!ScannedAt
  <2> HIDE DEF n
  <2>2. r \in Asking(P, Ad)!ScanRow /\ r.pickup = v6[p].pickup /\ r.op = v6[p].op
    BY <2>0, <2>1 DEF Asking!ScanRow
  <2>3. v6' = [v6 EXCEPT ![p] = r] /\ v6[p] # None /\ UNCHANGED <<v1, v2, v3, v4, v5, v7, v8>>
    BY <1>4, <1>t DEF Asking!Count, n
  <2> HIDE DEF r
  <2>4. Asking(P, Ad)!TypeOK'
    BY <2>2, <2>3 DEF Asking!PickupInv, Asking!TypeOK
  <2> QED BY <1>t, <2>2, <2>3, <2>4, PickupsUndisturbed
<1>5. ASSUME NEW k \in B, Asking(P, Ad)!CountAtClosing(k)
      PROVE  Asking(P, Ad)!PickupInv'
  <2>1. \A j \in B : v7'[j] # None => v7[j] # None \/ (v2[j] # None /\ v2[j].status = "PLANIFIE")
    BY <1>5 DEF Asking!CountAtClosing
  <2>2. UNCHANGED <<v1, v2, v3, v4, v5, v6, v8>>
    BY <1>5 DEF Asking!CountAtClosing
  <2>3. Asking(P, Ad)!Cardinality(Asking(P, Ad)!ScannedAt(k)) \in Nat
    BY ScannedIsCounted DEF Asking!ScannedAt
  <2>4. Asking(P, Ad)!TypeOK'
    BY <1>5, <2>2, <2>3 DEF Asking!CountAtClosing, Asking!PickupInv, Asking!TypeOK
  <2> QED BY <2>1, <2>2, <2>4, PickupsUndisturbed
<1>6. CASE Asking(P, Ad)!Abort
  <2>1. UNCHANGED <<v1, v2, v3, v4, v8>>
    BY <1>6 DEF Asking!Abort
  <2>0. Asking(P, Ad)!TypeOK'
    BY <1>6, <2>1 DEF Asking!Abort, Asking!PickupInv, Asking!TypeOK
  <2>2. \A p \in P : v6'[p] = None \/ v6'[p] = v6[p]
    BY <1>t, <1>6 DEF Asking!Abort
  <2>3. \A k \in B : v7'[k] # None => v7[k] # None
    BY <1>6 DEF Asking!Abort, Asking!PickupInv, Asking!TypeOK
  <2> QED BY <2>0, <2>1, <2>2, <2>3, PickupsUndisturbed
<1> QED BY <1>1, <1>2, <1>3, <1>4, <1>5, <1>6

(* A scan is begun, or its cancellation. *)
LEMMA PickupScans ==
  ASSUME NEW CONSTANT P, NEW CONSTANT Ad, Asking(P, Ad)!PickupAssumption, Asking(P, Ad)!PickupInv,
         NEW p \in P, NEW k \in B, Asking(P, Ad)!ReadScan(p, k) \/ Asking(P, Ad)!ReadCancel(p, k)
  PROVE  Asking(P, Ad)!PickupInv'
<1> DEFINE r(op) == [pickup |-> k, op |-> op, count |-> None]
<1>t. v6 \in [P -> Asking(P, Ad)!ScanRow \cup {None}]
  BY DEF Asking!PickupInv, Asking!TypeOK
<1>1. r("SCAN") \in Asking(P, Ad)!ScanRow /\ r("ANNULATION") \in Asking(P, Ad)!ScanRow
  BY DEF Asking!ScanRow
<1>2. PICK op \in {"SCAN", "ANNULATION"} :
        /\ v6' = [v6 EXCEPT ![p] = r(op)] /\ UNCHANGED <<v1, v2, v3, v4, v5, v7, v8>>
        /\ op = "SCAN" => v3[p] = "CREE" /\ v2[k] # None
        /\ op = "ANNULATION" => v3[p] = "RAMASSE" /\ p \in Asking(P, Ad)!ScannedAt(k)
  BY DEF Asking!ReadScan, Asking!ReadCancel
<1>3. r(op).pickup = k /\ r(op).op = op /\ r(op) \in Asking(P, Ad)!ScanRow
  BY <1>1
<1>4. v2[k] # None
  BY <1>2 DEF Asking!PickupInv
<1> HIDE DEF r
<1>5. v6' \in [P -> Asking(P, Ad)!ScanRow \cup {None}] /\ \A q \in P : v6'[q] = IF q = p THEN r(op) ELSE v6[q]
  BY <1>t, <1>2, <1>3
<1>6. Asking(P, Ad)!ScanInv'
  BY <1>2, <1>3, <1>4, <1>5 DEF Asking!PickupInv, Asking!ScanInv, Asking!ScannedAt
<1>7. Asking(P, Ad)!OneOpenPerAddress' /\ Asking(P, Ad)!AskedOnce' /\ Asking(P, Ad)!FeeOnlyOnce' /\ Asking(P, Ad)!ScannedAtOne'
  BY <1>2 DEF Asking!PickupInv, Asking!OneOpenPerAddress, Asking!AskedOnce, Asking!FeeOnlyOnce, Asking!ScannedAtOne, Asking!Open, Asking!ScannedAt
<1>8. \A j \in B : /\ v2'[j] = None => v8'[j] = 0 /\ Asking(P, Ad)!ScannedAt(j)' = {}
                   /\ v7'[j] # None => v2'[j] # None /\ v2'[j].status = "PLANIFIE"
  BY <1>2 DEF Asking!PickupInv, Asking!ScannedAt
<1>9. Asking(P, Ad)!TypeOK'
  BY <1>2, <1>5 DEF Asking!PickupInv, Asking!TypeOK
<1> QED BY <1>6, <1>7, <1>8, <1>9 DEF Asking!PickupInv


(* A pickup planned, cancelled, recounted or closed keeps its address and its     *)
(* form, and no closed one opens.                                            *)
LEMMA PickupRowMoves ==
  ASSUME NEW CONSTANT P, NEW CONSTANT Ad, Asking(P, Ad)!PickupAssumption, Asking(P, Ad)!PickupInv,
         NEW k \in B, v2[k] # None, NEW r \in Asking(P, Ad)!PickupRow, r.at = v2[k].at, r.form = v2[k].form,
         v2' = [v2 EXCEPT ![k] = r], r.status \in Asking(P, Ad)!OPEN => Asking(P, Ad)!Open(k)
  PROVE  /\ v2' \in [B -> Asking(P, Ad)!PickupRow \cup {None}]
         /\ \A j \in B : /\ v2'[j] = None <=> v2[j] = None
                         /\ j # k => v2'[j] = v2[j]
         /\ v2'[k] = r
         /\ Asking(P, Ad)!OneOpenPerAddress' /\ Asking(P, Ad)!AskedOnce'
<1>t. v2 \in [B -> Asking(P, Ad)!PickupRow \cup {None}]
  BY DEF Asking!PickupInv, Asking!TypeOK
<1>1. r # None
  BY DEF Asking!PickupAssumption
<1>2. /\ v2' \in [B -> Asking(P, Ad)!PickupRow \cup {None}]
      /\ \A j \in B : v2'[j] = IF j = k THEN r ELSE v2[j]
  BY <1>t
<1>3. \A j \in B : /\ v2'[j] = None <=> v2[j] = None
                   /\ v2[j] # None => v2'[j].at = v2[j].at /\ v2'[j].form = v2[j].form
                   /\ Asking(P, Ad)!Open(j)' => Asking(P, Ad)!Open(j)
  BY <1>1, <1>2 DEF Asking!Open
<1>4. Asking(P, Ad)!OneOpenPerAddress'
  BY <1>3 DEF Asking!PickupInv, Asking!OneOpenPerAddress, Asking!Open
<1>5. Asking(P, Ad)!AskedOnce'
  BY <1>3 DEF Asking!PickupInv, Asking!AskedOnce
<1> QED BY <1>1, <1>2, <1>3, <1>4, <1>5

(* The seller cancels a pickup, the team plans it: nobody is closing it, and what  *)
(* scans had read of it may have been planned.                                *)
LEMMA PickupStatusMoves ==
  ASSUME NEW CONSTANT P, NEW CONSTANT Ad, Asking(P, Ad)!PickupAssumption, Asking(P, Ad)!PickupInv,
         NEW k \in B, Asking(P, Ad)!CancelPickup(k) \/ Asking(P, Ad)!Plan(k)
  PROVE  Asking(P, Ad)!PickupInv'
<1>1. PICK s \in {"ANNULE", "PLANIFIE"} :
        v2' = [v2 EXCEPT ![k].status = s]
  BY DEF Asking!CancelPickup, Asking!Plan
<1>2. v7[k] = None /\ Asking(P, Ad)!Open(k) /\ v2[k] # None /\ UNCHANGED <<v1, v3, v4, v5, v6, v7, v8>>
  BY DEF Asking!CancelPickup, Asking!Plan, Asking!PickupFree, Asking!Open
<1>3. v2 \in [B -> Asking(P, Ad)!PickupRow \cup {None}] /\ v2[k] \in Asking(P, Ad)!PickupRow
  BY <1>2 DEF Asking!PickupInv, Asking!TypeOK
<1>4. PICK r \in Asking(P, Ad)!PickupRow : r = [v2[k] EXCEPT !.status = s]
  BY <1>3 DEF Asking!PickupRow, Asking!PickupStatus
<1>5. r.at = v2[k].at /\ r.form = v2[k].form /\ r.status = s
  BY <1>3, <1>4 DEF Asking!PickupRow
<1>6. v2' = [v2 EXCEPT ![k] = r]
  BY <1>1, <1>3, <1>4
<1>7. /\ v2' \in [B -> Asking(P, Ad)!PickupRow \cup {None}]
      /\ \A j \in B : /\ v2'[j] = None <=> v2[j] = None
                      /\ j # k => v2'[j] = v2[j]
      /\ Asking(P, Ad)!OneOpenPerAddress' /\ Asking(P, Ad)!AskedOnce'
  BY <1>2, <1>5, <1>6, PickupRowMoves
<1>8. v8[k] = 0
  BY <1>2 DEF Asking!PickupInv, Asking!FeeOnlyOnce, Asking!Open, Asking!OPEN, Asking!TypeOK
<1>9. Asking(P, Ad)!FeeOnlyOnce' /\ Asking(P, Ad)!ScannedAtOne' /\ Asking(P, Ad)!ScanInv'
  BY <1>2, <1>7, <1>8 DEF Asking!PickupInv, Asking!FeeOnlyOnce, Asking!ScannedAtOne, Asking!ScanInv, Asking!ScannedAt, Asking!TypeOK, Asking!ScanRow
<1>10. \A j \in B : /\ v2'[j] = None => v8'[j] = 0 /\ Asking(P, Ad)!ScannedAt(j)' = {}
                    /\ v7'[j] # None => v2'[j] # None /\ v2'[j].status = "PLANIFIE"
  BY <1>2, <1>7 DEF Asking!PickupInv, Asking!ScannedAt
<1>11. Asking(P, Ad)!TypeOK'
  BY <1>2, <1>7 DEF Asking!PickupInv, Asking!TypeOK
<1> QED BY <1>7, <1>9, <1>10, <1>11 DEF Asking!PickupInv

(* Terminer: the pickup it holds is planned still, and was never charged. *)
LEMMA PickupCloses ==
  ASSUME NEW CONSTANT P, NEW CONSTANT Ad, Asking(P, Ad)!PickupAssumption, Asking(P, Ad)!PickupInv,
         NEW k \in B, Asking(P, Ad)!Close(k)
  PROVE  Asking(P, Ad)!PickupInv'
<1> DEFINE n == v7[k]
           s == IF n = 0 THEN "ANNULE" ELSE "EFFECTUE"
           owed == IF Asking(P, Ad)!OwesFee(n) THEN 1 ELSE 0
<1>1. /\ v7[k] # None /\ v2' = [v2 EXCEPT ![k].status = s, ![k].scannedCount = n]
      /\ v7' = [v7 EXCEPT ![k] = None] /\ v8' = [v8 EXCEPT ![k] = @ + owed]
      /\ UNCHANGED <<v1, v3, v4, v5, v6>>
  BY DEF Asking!Close
<1>2. n \in Nat /\ s \in Asking(P, Ad)!PickupStatus /\ s \notin Asking(P, Ad)!OPEN
  BY <1>1 DEF Asking!PickupInv, Asking!TypeOK, Asking!PickupStatus, Asking!OPEN
<1>3. v2[k] # None /\ v2[k].status = "PLANIFIE"
  BY <1>1 DEF Asking!PickupInv
<1>4. v8[k] = 0 /\ v8 \in [B -> Nat] /\ v7 \in [B -> Nat \cup {None}]
  BY <1>3 DEF Asking!PickupInv, Asking!FeeOnlyOnce, Asking!TypeOK
<1>5. owed \in {0, 1} /\ (owed = 1 => s = "EFFECTUE")
  BY <1>2 DEF Asking!OwesFee
<1> HIDE DEF n, s, owed
<1>13. v2 \in [B -> Asking(P, Ad)!PickupRow \cup {None}] /\ v2[k] \in Asking(P, Ad)!PickupRow
  BY <1>3 DEF Asking!PickupInv, Asking!TypeOK
<1>14. PICK r \in Asking(P, Ad)!PickupRow : r = [v2[k] EXCEPT !.status = s, !.scannedCount = n]
  BY <1>2, <1>13 DEF Asking!PickupRow
<1>15. r.at = v2[k].at /\ r.form = v2[k].form /\ r.status = s
  BY <1>13, <1>14 DEF Asking!PickupRow
<1>16. v2' = [v2 EXCEPT ![k] = r]
  BY <1>1, <1>13, <1>14
<1>6. /\ v2' \in [B -> Asking(P, Ad)!PickupRow \cup {None}]
      /\ \A j \in B : /\ v2'[j] = None <=> v2[j] = None
                      /\ j # k => v2'[j] = v2[j]
      /\ v2'[k].status = s
      /\ Asking(P, Ad)!OneOpenPerAddress' /\ Asking(P, Ad)!AskedOnce'
  BY <1>2, <1>3, <1>15, <1>16, PickupRowMoves
<1>7. /\ v8' \in [B -> Nat] /\ v7' \in [B -> Nat \cup {None}]
      /\ \A j \in B : v8'[j] = IF j = k THEN owed ELSE v8[j]
      /\ \A j \in B : v7'[j] = IF j = k THEN None ELSE v7[j]
  BY <1>1, <1>4, <1>5
<1>8. Asking(P, Ad)!FeeOnlyOnce'
  BY <1>5, <1>6, <1>7 DEF Asking!PickupInv, Asking!FeeOnlyOnce
<1>12. UNCHANGED <<v3, v4, v6>>
  BY <1>1
<1>9. Asking(P, Ad)!ScannedAtOne' /\ Asking(P, Ad)!ScanInv'
  BY <1>6, <1>12 DEF Asking!PickupInv, Asking!ScannedAtOne, Asking!ScanInv, Asking!ScannedAt, Asking!TypeOK, Asking!ScanRow
<1>10. \A j \in B : /\ v2'[j] = None => v8'[j] = 0 /\ Asking(P, Ad)!ScannedAt(j)' = {}
                    /\ v7'[j] # None => v2'[j] # None /\ v2'[j].status = "PLANIFIE"
  BY <1>1, <1>3, <1>6, <1>7 DEF Asking!PickupInv, Asking!ScannedAt
<1>11. Asking(P, Ad)!TypeOK'
  BY <1>1, <1>6, <1>7 DEF Asking!PickupInv, Asking!TypeOK
<1> QED BY <1>6, <1>8, <1>9, <1>10, <1>11 DEF Asking!PickupInv

(* A scan, or its cancellation, is written: the parcel, held since it was read, is *)
(* then scanned at that pickup alone, or at none.                            *)
LEMMA PickupCommits ==
  ASSUME NEW CONSTANT P, NEW CONSTANT Ad, Asking(P, Ad)!PickupAssumption, Asking(P, Ad)!PickupInv,
         NEW p \in P, Asking(P, Ad)!Commit(p)
  PROVE  Asking(P, Ad)!PickupInv'
<1> DEFINE k == v6[p].pickup
           n == v6[p].count
           s == v2[k].status
           after == Asking(P, Ad)!LinkAfter(p)
           st == IF v6[p].op = "SCAN" THEN "RAMASSE" ELSE "CREE"
<1>0. v6[p] \in Asking(P, Ad)!ScanRow /\ v6[p] # None /\ n # None /\ v7[k] = None
  BY DEF Asking!Commit, Asking!PickupInv, Asking!TypeOK, Asking!PickupFree
<1>1. /\ v2' = [v2 EXCEPT ![k].scannedCount = n] /\ v4' = [v4 EXCEPT ![k][p] = after]
      /\ v3' = [v3 EXCEPT ![p] = st] /\ v6' = [v6 EXCEPT ![p] = None]
      /\ UNCHANGED <<v1, v5, v7, v8>>
  BY DEF Asking!Commit
<1>2. k \in B /\ n \in Nat /\ v6[p].op \in {"SCAN", "ANNULATION"} /\ v2[k] # None
  BY <1>0 DEF Asking!ScanRow, Asking!PickupInv, Asking!ScanInv
<1>3. /\ v2 \in [B -> Asking(P, Ad)!PickupRow \cup {None}] /\ v3 \in [P -> Asking(P, Ad)!ParcelStatus]
      /\ v4 \in [B -> [P -> Asking(P, Ad)!Link]] /\ v6 \in [P -> Asking(P, Ad)!ScanRow \cup {None}]
  BY DEF Asking!PickupInv, Asking!TypeOK
<1>4. v2[k] \in Asking(P, Ad)!PickupRow /\ s \in Asking(P, Ad)!PickupStatus
  BY <1>2, <1>3 DEF Asking!PickupRow
<1>5. /\ v6[p].op = "SCAN" => v3[p] = "CREE"
      /\ v6[p].op = "ANNULATION" => v3[p] = "RAMASSE" /\ v4[k][p] \in Asking(P, Ad)!Scanned
  BY <1>0 DEF Asking!PickupInv, Asking!ScanInv, Asking!ScannedAt
<1>6. \A j \in B : v6[p].op = "SCAN" => v4[j][p] \notin Asking(P, Ad)!Scanned
  BY <1>5 DEF Asking!PickupInv, Asking!ScannedAtOne, Asking!ScannedAt
<1>7. \A j \in B : v6[p].op = "ANNULATION" /\ v4[j][p] \in Asking(P, Ad)!Scanned => j = k
  BY <1>2, <1>5 DEF Asking!PickupInv, Asking!ScannedAtOne, Asking!ScannedAt
<1>8. after \in Asking(P, Ad)!Link /\ (after \in Asking(P, Ad)!Scanned <=> v6[p].op = "SCAN")
  BY <1>2, <1>3, <1>5, <1>6 DEF Asking!LinkAfter, Asking!Link, Asking!Scanned
<1>9. PICK r \in Asking(P, Ad)!PickupRow : r = [v2[k] EXCEPT !.scannedCount = n]
  BY <1>2, <1>4 DEF Asking!PickupRow
<1>10. r.at = v2[k].at /\ r.form = v2[k].form /\ r.status = s
  BY <1>4, <1>9 DEF Asking!PickupRow
<1>11. v2' = [v2 EXCEPT ![k] = r]
  BY <1>1, <1>2, <1>3, <1>9
<1> HIDE DEF after
<1>20. s \in Asking(P, Ad)!OPEN => Asking(P, Ad)!Open(k)
  BY <1>2 DEF Asking!Open
<1>12. /\ v2' \in [B -> Asking(P, Ad)!PickupRow \cup {None}]
       /\ \A j \in B : /\ v2'[j] = None <=> v2[j] = None
                       /\ j # k => v2'[j] = v2[j]
       /\ v2'[k].status = s
       /\ Asking(P, Ad)!OneOpenPerAddress' /\ Asking(P, Ad)!AskedOnce'
  BY <1>2, <1>10, <1>11, <1>20, PickupRowMoves
<1>13. /\ v4' \in [B -> [P -> Asking(P, Ad)!Link]] /\ v3' \in [P -> Asking(P, Ad)!ParcelStatus] /\ v6' \in [P -> Asking(P, Ad)!ScanRow \cup {None}]
       /\ \A j \in B, q \in P : v4'[j][q] = IF j = k /\ q = p THEN after ELSE v4[j][q]
       /\ \A q \in P : v3'[q] = IF q = p THEN st ELSE v3[q]
       /\ \A q \in P : v6'[q] = IF q = p THEN None ELSE v6[q]
  BY <1>1, <1>2, <1>3, <1>8 DEF Asking!ParcelStatus
<1>14. \A j \in B, q \in P : v4'[j][q] \in Asking(P, Ad)!Scanned <=>
          IF q = p THEN v6[p].op = "SCAN" /\ j = k ELSE v4[j][q] \in Asking(P, Ad)!Scanned
  BY <1>2, <1>6, <1>7, <1>8, <1>13
<1>15. Asking(P, Ad)!FeeOnlyOnce'
  BY <1>1, <1>2, <1>12 DEF Asking!PickupInv, Asking!FeeOnlyOnce
<1>16. Asking(P, Ad)!ScannedAtOne'
  <2> SUFFICES ASSUME NEW q \in P
               PROVE  IF v3'[q] \in {"RAMASSE", "AILLEURS"}
                      THEN \E i \in B : \A j \in B : v4'[j][q] \in Asking(P, Ad)!Scanned <=> j = i
                      ELSE \A j \in B : v4'[j][q] \notin Asking(P, Ad)!Scanned
    BY DEF Asking!ScannedAtOne, Asking!ScannedAt, Asking!Scanned
  <2>1. CASE q = p
    BY <1>2, <1>13, <1>14, <2>1
  <2>2. CASE q # p
    <3>1. v3'[q] = v3[q] /\ \A j \in B : v4'[j][q] \in Asking(P, Ad)!Scanned <=> v4[j][q] \in Asking(P, Ad)!Scanned
      BY <1>13, <1>14, <2>2
    <3> QED BY <3>1 DEF Asking!PickupInv, Asking!ScannedAtOne, Asking!ScannedAt, Asking!Scanned
  <2> QED BY <2>1, <2>2
<1>17. Asking(P, Ad)!ScanInv'
  <2> SUFFICES ASSUME NEW q \in P, v6'[q] # None
               PROVE  /\ v2'[v6'[q].pickup] # None
                      /\ v6'[q].op = "SCAN" => v3'[q] = "CREE"
                      /\ v6'[q].op = "ANNULATION" =>
                           v3'[q] = "RAMASSE" /\ v4'[v6'[q].pickup][q] \in Asking(P, Ad)!Scanned
    BY DEF Asking!ScanInv, Asking!ScannedAt, Asking!Scanned
  <2>1. q # p /\ v6'[q] = v6[q] /\ v3'[q] = v3[q] /\ v6[q].pickup \in B
    BY <1>3, <1>13 DEF Asking!ScanRow
  <2> QED BY <1>12, <1>14, <2>1 DEF Asking!PickupInv, Asking!ScanInv, Asking!ScannedAt
<1>18. \A j \in B : /\ v2'[j] = None => v8'[j] = 0 /\ Asking(P, Ad)!ScannedAt(j)' = {}
                    /\ v7'[j] # None => v2'[j] # None /\ v2'[j].status = "PLANIFIE"
  <2>1. \A j \in B : v2'[j] = None => v8'[j] = 0 /\ \A q \in P : v4'[j][q] \notin Asking(P, Ad)!Scanned
    BY <1>1, <1>2, <1>12, <1>13 DEF Asking!PickupInv, Asking!ScannedAt
  <2>2. \A j \in B : v7'[j] # None => v2'[j] # None /\ v2'[j].status = "PLANIFIE"
    BY <1>0, <1>1, <1>2, <1>12 DEF Asking!PickupInv
  <2> QED BY <2>1, <2>2 DEF Asking!ScannedAt, Asking!Scanned
<1>19. Asking(P, Ad)!TypeOK'
  BY <1>1, <1>12, <1>13 DEF Asking!PickupInv, Asking!TypeOK
<1> QED BY <1>12, <1>15, <1>16, <1>17, <1>18, <1>19 DEF Asking!PickupInv

(* A request is written: its form was not known and its address had nothing open. *)
LEMMA PickupWrites ==
  ASSUME NEW CONSTANT P, NEW CONSTANT Ad, Asking(P, Ad)!PickupAssumption, Asking(P, Ad)!PickupInv,
         NEW q \in Ad, NEW k \in B, Asking(P, Ad)!WriteRequest(q, k)
  PROVE  Asking(P, Ad)!PickupInv'
<1> DEFINE r == [at |-> v5[q].at, form |-> v5[q].form, status |-> "DEMANDE", scannedCount |-> 0]
           l == [p \in P |-> IF p \in v5[q].parcels THEN "ATTENDU" ELSE "NON"]
<1>0. v5[q] \in Asking(P, Ad)!RequestRow /\ v2[k] = None
  BY DEF Asking!WriteRequest, Asking!PickupInv, Asking!TypeOK
<1>1. /\ v2' = [v2 EXCEPT ![k] = r] /\ v4' = [v4 EXCEPT ![k] = l] /\ v5' = [v5 EXCEPT ![q] = None]
      /\ UNCHANGED <<v1, v3, v6, v7, v8>>
  BY DEF Asking!WriteRequest
<1>2. r \in Asking(P, Ad)!PickupRow /\ r.at = v5[q].at /\ r.form = v5[q].form /\ r.status = "DEMANDE"
  BY <1>0 DEF Asking!RequestRow, Asking!PickupRow, Asking!PickupStatus
<1>3. l \in [P -> Asking(P, Ad)!Link] /\ \A p \in P : l[p] \notin Asking(P, Ad)!Scanned
  BY DEF Asking!Link, Asking!Scanned
<1>4. /\ \A j \in B : v2[j] # None => v2[j].form # v5[q].form
      /\ \A j \in B : Asking(P, Ad)!Open(j) => v2[j].at # v5[q].at
  BY DEF Asking!WriteRequest, Asking!Clash, Asking!Asked, Asking!OpenAt
<1>5. r # None
  BY <1>2 DEF Asking!PickupAssumption
<1> HIDE DEF r, l
<1>6. Asking(P, Ad)!TypeOK'
  BY <1>1, <1>2, <1>3 DEF Asking!PickupInv, Asking!TypeOK
<1>7. /\ \A j \in B : v2'[j] = IF j = k THEN r ELSE v2[j]
      /\ \A j \in B : v4'[j] = IF j = k THEN l ELSE v4[j]
  BY <1>1 DEF Asking!PickupInv, Asking!TypeOK
<1>8. Asking(P, Ad)!OneOpenPerAddress'
  BY <1>2, <1>4, <1>7 DEF Asking!PickupInv, Asking!OneOpenPerAddress, Asking!Open
<1>9. Asking(P, Ad)!AskedOnce'
  BY <1>2, <1>4, <1>7 DEF Asking!PickupInv, Asking!AskedOnce
<1>10. \A p \in P : v4[k][p] \notin Asking(P, Ad)!Scanned
  BY <1>0 DEF Asking!PickupInv, Asking!ScannedAt
<1>11. \A j \in B, p \in P : v4'[j][p] \in Asking(P, Ad)!Scanned <=> v4[j][p] \in Asking(P, Ad)!Scanned
  BY <1>3, <1>7, <1>10
<1>12. Asking(P, Ad)!ScannedAtOne'
  BY <1>1, <1>11 DEF Asking!PickupInv, Asking!ScannedAtOne, Asking!ScannedAt, Asking!Scanned
<1>13. Asking(P, Ad)!ScanInv'
  BY <1>1, <1>5, <1>7, <1>11 DEF Asking!PickupInv, Asking!ScanInv, Asking!ScannedAt, Asking!Scanned, Asking!TypeOK, Asking!ScanRow
<1>14. Asking(P, Ad)!FeeOnlyOnce'
  BY <1>0, <1>1, <1>7 DEF Asking!PickupInv, Asking!FeeOnlyOnce, Asking!TypeOK
<1>15. \A j \in B : /\ v2'[j] = None => v8'[j] = 0 /\ Asking(P, Ad)!ScannedAt(j)' = {}
                    /\ v7'[j] # None => v2'[j] # None /\ v2'[j].status = "PLANIFIE"
  BY <1>0, <1>1, <1>5, <1>7 DEF Asking!PickupInv, Asking!ScannedAt
<1> QED BY <1>6, <1>8, <1>9, <1>12, <1>13, <1>14, <1>15 DEF Asking!PickupInv

(* A parcel's life goes on where no scan holds it. *)
LEMMA PickupParcelMoves ==
  ASSUME NEW CONSTANT P, NEW CONSTANT Ad, Asking(P, Ad)!PickupAssumption, Asking(P, Ad)!PickupInv,
         NEW p \in P, Asking(P, Ad)!ParcelStep(p)
  PROVE  Asking(P, Ad)!PickupInv'
<1>1. v6[p] = None /\ UNCHANGED <<v1, v2, v4, v5, v6, v7, v8>>
  BY DEF Asking!ParcelStep, Asking!ParcelFree
<1>2. v3 \in [P -> Asking(P, Ad)!ParcelStatus]
  BY DEF Asking!PickupInv, Asking!TypeOK
<1>3. /\ v3' \in [P -> Asking(P, Ad)!ParcelStatus]
      /\ \A q \in P : q # p => v3'[q] = v3[q]
      /\ \/ v3[p] = "RAMASSE" /\ v3'[p] = "AILLEURS"
         \/ v3[p] = "CREE" /\ v3'[p] = "ANNULE"
  BY <1>2 DEF Asking!ParcelStep, Asking!ParcelStatus
<1>4. Asking(P, Ad)!ScannedAtOne' /\ Asking(P, Ad)!ScanInv'
  BY <1>1, <1>3 DEF Asking!PickupInv, Asking!ScannedAtOne, Asking!ScanInv, Asking!ScannedAt
<1>5. Asking(P, Ad)!OneOpenPerAddress' /\ Asking(P, Ad)!AskedOnce' /\ Asking(P, Ad)!FeeOnlyOnce'
  BY <1>1 DEF Asking!PickupInv, Asking!OneOpenPerAddress, Asking!AskedOnce, Asking!FeeOnlyOnce, Asking!Open
<1>6. Asking(P, Ad)!TypeOK'
  BY <1>1, <1>3 DEF Asking!PickupInv, Asking!TypeOK
<1>7. \A j \in B : /\ v2'[j] = None => v8'[j] = 0 /\ Asking(P, Ad)!ScannedAt(j)' = {}
                   /\ v7'[j] # None => v2'[j] # None /\ v2'[j].status = "PLANIFIE"
  BY <1>1 DEF Asking!PickupInv, Asking!ScannedAt
<1> QED BY <1>4, <1>5, <1>6, <1>7 DEF Asking!PickupInv

(* The pickups keep their invariant, whatever is done. *)
LEMMA PickupStep ==
  ASSUME NEW CONSTANT P, NEW CONSTANT Ad, Asking(P, Ad)!PickupAssumption, Asking(P, Ad)!PickupInv,
         Asking(P, Ad)!Next
  PROVE  Asking(P, Ad)!PickupInv'
<1>1. CASE Asking(P, Ad)!SellerStep
  BY <1>1, PickupReads, PickupWrites, PickupStatusMoves DEF Asking!SellerStep
<1>2. CASE Asking(P, Ad)!RamasseurStep
  BY <1>2, PickupReads, PickupCommits, PickupScans, PickupCloses DEF Asking!RamasseurStep
<1>3. CASE Asking(P, Ad)!Abort
  BY <1>3, PickupReads
<1>4. ASSUME NEW k \in B, Asking(P, Ad)!Plan(k) PROVE Asking(P, Ad)!PickupInv'
  BY <1>4, PickupStatusMoves
<1>5. ASSUME NEW p \in P, Asking(P, Ad)!ParcelStep(p) PROVE Asking(P, Ad)!PickupInv'
  BY <1>5, PickupParcelMoves
<1> QED BY <1>1, <1>2, <1>3, <1>4, <1>5 DEF Asking!Next

(* At the start nothing was asked for. *)
LEMMA PickupStart ==
  ASSUME NEW CONSTANT P, NEW CONSTANT Ad, Asking(P, Ad)!PickupAssumption, Asking(P, Ad)!Init
  PROVE  Asking(P, Ad)!PickupInv
<1>1. Asking(P, Ad)!TypeOK
  BY DEF Asking!Init, Asking!TypeOK, Asking!AddressState, Asking!ParcelStatus, Asking!Link
<1>2. Asking(P, Ad)!OneOpenPerAddress /\ Asking(P, Ad)!AskedOnce /\ Asking(P, Ad)!FeeOnlyOnce
  BY DEF Asking!Init, Asking!OneOpenPerAddress, Asking!AskedOnce, Asking!FeeOnlyOnce, Asking!Open
<1>3. Asking(P, Ad)!ScannedAtOne /\ Asking(P, Ad)!ScanInv
  BY DEF Asking!Init, Asking!ScannedAtOne, Asking!ScanInv, Asking!ScannedAt, Asking!Scanned
<1>4. \A j \in B : /\ v2[j] = None => v8[j] = 0 /\ Asking(P, Ad)!ScannedAt(j) = {}
                   /\ v7[j] # None => v2[j] # None /\ v2[j].status = "PLANIFIE"
  BY DEF Asking!Init, Asking!ScannedAt, Asking!Scanned
<1> QED BY <1>1, <1>2, <1>3, <1>4 DEF Asking!PickupInv

(* What is scanned at one pickup is counted for one. *)
LEMMA PickupsAreCounted ==
  ASSUME NEW CONSTANT P, NEW CONSTANT Ad, Asking(P, Ad)!PickupInv
  PROVE  /\ Asking(P, Ad)!TypeOK /\ Asking(P, Ad)!OneOpenPerAddress /\ Asking(P, Ad)!AskedOnce /\ Asking(P, Ad)!FeeOnlyOnce
         /\ Asking(P, Ad)!CountsOnce
<1>1. ASSUME NEW p \in P, v3[p] \in {"RAMASSE", "AILLEURS"}
      PROVE  Asking(P, Ad)!Cardinality({k \in B : p \in Asking(P, Ad)!ScannedAt(k)}) = 1
  <2>1. PICK k \in B : \A j \in B : p \in Asking(P, Ad)!ScannedAt(j) <=> j = k
    BY <1>1 DEF Asking!PickupInv, Asking!ScannedAtOne
  <2>2. {j \in B : p \in Asking(P, Ad)!ScannedAt(j)} = {k}
    BY <2>1
  <2> QED BY <2>2, FS_Singleton, AskingCounts
<1>2. ASSUME NEW p \in P, v3[p] \notin {"RAMASSE", "AILLEURS"}
      PROVE  {k \in B : p \in Asking(P, Ad)!ScannedAt(k)} = {}
  BY <1>2 DEF Asking!PickupInv, Asking!ScannedAtOne
<1>3. Asking(P, Ad)!CountsOnce
  BY <1>1, <1>2 DEF Asking!CountsOnce
<1> QED BY <1>3 DEF Asking!PickupInv

PickupsInv ==
  /\ moving = "Pickup" => Asking(A, C)!PickupInv
  /\ moving = "Addresses" => Asking(C, A)!PickupInv

(* The inductive invariant of the pickups always holds, of either instance. *)
THEOREM AlwaysPickupsInv == Spec => []PickupsInv
<1>1. Asking(A, C)!PickupAssumption /\ Asking(C, A)!PickupAssumption
  BY OfficeAssumption DEF OfficeAssumption
<1>2. Init => PickupsInv
  BY <1>1, PickupStart DEF Init, PickupsInv
<1>3. PickupsInv /\ [Next]_vars => PickupsInv'
  <2> SUFFICES ASSUME PickupsInv, [Next]_vars PROVE PickupsInv'
    OBVIOUS
  <2>0. moving' = moving
    BY DEF Next, vars
  <2>1. CASE moving = "Pickup" /\ Asking(A, C)!Next
    BY <1>1, <2>0, <2>1, PickupStep DEF PickupsInv
  <2>2. CASE moving = "Addresses" /\ Asking(C, A)!Next
    BY <1>1, <2>0, <2>2, PickupStep DEF PickupsInv
  <2>3. CASE UNCHANGED vars
    <3>1. UNCHANGED <<v1, v2, v3, v4, v5, v6, v7, v8>>
      BY <2>3 DEF vars
    <3>2. ASSUME NEW CONSTANT P, NEW CONSTANT Ad, Asking(P, Ad)!PickupInv PROVE Asking(P, Ad)!PickupInv'
      BY <3>1, <3>2 DEF Asking!PickupInv, Asking!TypeOK, Asking!OneOpenPerAddress, Asking!AskedOnce, Asking!FeeOnlyOnce,
        Asking!ScannedAtOne, Asking!ScanInv, Asking!ScannedAt, Asking!Open
    <3> QED BY <2>0, <3>2 DEF PickupsInv
  <2>4. CASE moving \notin {"Pickup", "Addresses"}
    BY <2>0, <2>4 DEF PickupsInv
  <2> QED BY <2>1, <2>2, <2>3, <2>4 DEF Next
<1> QED BY <1>2, <1>3, PTL DEF Spec

(* An address has one pickup open, a form asks for one, a parcel counts for one and *)
(* a pickup is charged once, whatever requests, scans and closings cross.        *)
THEOREM PickupsAreOnce == Spec => []PickupsCountOnce
<1>1. PickupsInv => PickupsCountOnce
  BY PickupsAreCounted DEF PickupsInv, PickupsCountOnce
<1> QED BY <1>1, AlwaysPickupsInv, PTL


-----------------------------------------------------------------------------
(* The notices: v1 is now, v2 hours, v3 parcel, v4 todo, v5 stored, v6 told, v7   *)
(* passedOn, v8 pass, v9 changes, v10 crashes, v11 moves.  Warnings is of the     *)
(* parcels, Days of the couriers.                                           *)

\* The types of the notices of the parcels, kept by each step.
LEMMA WarningsTyped ==
  ASSUME Warnings!TypeOK, Warnings!Next, Warnings!NoticesAssumption
  PROVE  Warnings!TypeOK'
<1> USE DEF Warnings!NoticesAssumption
<1>1. CASE Warnings!Tick
  BY <1>1 DEF Warnings!Tick, Warnings!TypeOK
<1>2. ASSUME NEW p \in C, Warnings!Fail(p) \/ Warnings!Decide(p) \/ Warnings!Warn(p)
      PROVE  Warnings!TypeOK'
  <2>1. v3' \in [C -> Warnings!Parcel]
    <3>1. PICK r : v3' = [v3 EXCEPT ![p] = r] /\ r \in Warnings!Parcel
      <4>1. v3[p] \in Warnings!Parcel /\ v1 \in Int /\ v2 \in Int
        BY DEF Warnings!TypeOK
      <4>2. CASE Warnings!Fail(p)
        <5>1. PICK d \in Int : d = v1 + v2
          BY <4>1
        <5>2. [toVerify |-> TRUE, deadline |-> d, failedAt |-> v1, warned |-> 0,
               notice |-> v3[p].notice] \in Warnings!Parcel
          BY <4>1 DEF Warnings!Parcel
        <5>3. v3' = [v3 EXCEPT ![p] = [toVerify |-> TRUE, deadline |-> d, failedAt |-> v1,
                                        warned |-> 0, notice |-> v3[p].notice]]
          BY <4>2, <5>1 DEF Warnings!Fail, Warnings!TypeOK
        <5> QED BY <5>2, <5>3
      <4>3. CASE Warnings!Decide(p)
        <5>1. [v3[p] EXCEPT !.toVerify = FALSE] \in Warnings!Parcel
          BY <4>1 DEF Warnings!Parcel
        <5> QED BY <4>3, <5>1 DEF Warnings!Decide
      <4>4. CASE Warnings!Warn(p) /\ Warnings!already(p)
        <5>1. v3' = [v3 EXCEPT ![p] = v3[p]]
          BY <4>4 DEF Warnings!Warn, Warnings!TypeOK
        <5> QED BY <4>1, <5>1
      <4>5. CASE Warnings!Warn(p) /\ ~Warnings!already(p)
        <5>1. Warnings!Two(v3[p].warned) \in 0..2
          BY <4>1 DEF Warnings!Parcel, Warnings!Two
        <5>2. [v3[p] EXCEPT !.notice = v1, !.warned = Warnings!Two(@)] \in Warnings!Parcel
          BY <4>1, <5>1 DEF Warnings!Parcel
        <5>3. v3' = [v3 EXCEPT ![p] = [v3[p] EXCEPT !.notice = v1, !.warned = Warnings!Two(@)]]
          BY <4>5 DEF Warnings!Warn, Warnings!TypeOK
        <5> QED BY <5>2, <5>3
      <4> QED BY <1>2, <4>2, <4>3, <4>4, <4>5
    <3> QED BY <3>1 DEF Warnings!TypeOK
  <2>2. v8' \in [name: Warnings!Passes \cup {"IDLE"}, left: SUBSET (C \cup {})]
    <3>1. [v8 EXCEPT !.left = @ \ {p}] \in [name: Warnings!Passes \cup {"IDLE"}, left: SUBSET (C \cup {})]
      BY DEF Warnings!TypeOK
    <3> QED BY <1>2, <3>1 DEF Warnings!Fail, Warnings!Decide, Warnings!Warn, Warnings!Looked, Warnings!TypeOK
  <2>3. UNCHANGED <<v1, v2, v4, v6, v7, v9, v10, v11>>
    BY <1>2 DEF Warnings!Fail, Warnings!Decide, Warnings!Warn
  <2> QED BY <2>1, <2>2, <2>3 DEF Warnings!TypeOK
<1>3. ASSUME NEW h \in Settings, Warnings!ChangeSetting(h)
      PROVE  Warnings!TypeOK'
  BY <1>3 DEF Warnings!ChangeSetting, Warnings!TypeOK
<1>4. ASSUME NEW name \in Warnings!Passes, Warnings!Start(name)
      PROVE  Warnings!TypeOK'
  <2> DEFINE left == CASE name = "VERIFIER" -> Warnings!near
                       [] name = "FIN_DE_JOURNEE" -> {}
                       [] OTHER -> v4[name]
  <2>1. left \in SUBSET (C \cup {})
    BY DEF Warnings!near, Warnings!TypeOK, Warnings!Passes, Warnings!Daily
  <2>2. v8' = [name |-> name, left |-> left] /\ UNCHANGED <<v1, v2, v3, v4, v6, v7, v9, v10, v11>>
    BY <1>4 DEF Warnings!Start
  <2> HIDE DEF left
  <2> QED BY <2>1, <2>2 DEF Warnings!TypeOK
<1>5. CASE Warnings!Finish
  BY <1>5 DEF Warnings!Finish, Warnings!TypeOK, Warnings!Idle
<1>6. CASE Warnings!FailPass \/ Warnings!Restart
  BY <1>6 DEF Warnings!FailPass, Warnings!Restart, Warnings!TypeOK, Warnings!Idle
<1> QED BY <1>1, <1>2, <1>3, <1>4, <1>5, <1>6 DEF Warnings!Next

(* Failures, decisions and warnings while the setting stands: what is stored of a  *)
(* parcel is of its failure exactly when that was warned of.                   *)
LEMMA WarningsStep ==
  ASSUME Warnings!NoticesInv, Warnings!Next, Warnings!NoticesAssumption
  PROVE  Warnings!NoticesInv'
<1> USE DEF Warnings!NoticesAssumption
<1>t. Warnings!TypeOK /\ Warnings!TypeOK'
  BY WarningsTyped DEF Warnings!NoticesInv
<1>s. Warnings!StoredInv' /\ Warnings!ToldOncePerDay'
  BY DEF Warnings!StoredInv, Warnings!ToldOncePerDay
<1>c. v9' = 0 => v9 = 0 /\ v2' = v2
  <2>1. ASSUME NEW h \in Settings, Warnings!ChangeSetting(h) PROVE v9' # 0
    BY <1>t, <2>1 DEF Warnings!ChangeSetting, Warnings!TypeOK
  <2>2. ASSUME NEW p \in C, Warnings!Fail(p) \/ Warnings!Decide(p) \/ Warnings!Warn(p) PROVE UNCHANGED <<v2, v9>>
    BY <2>2 DEF Warnings!Fail, Warnings!Decide, Warnings!Warn
  <2>3. ASSUME NEW name \in Warnings!Passes, Warnings!Start(name) PROVE UNCHANGED <<v2, v9>>
    BY <2>3 DEF Warnings!Start
  <2>4. ASSUME Warnings!Tick \/ Warnings!Finish \/ Warnings!FailPass \/ Warnings!Restart
        PROVE  UNCHANGED <<v2, v9>>
    BY <2>4 DEF Warnings!Tick, Warnings!Finish, Warnings!FailPass, Warnings!Restart
  <2> QED BY <2>1, <2>2, <2>3, <2>4 DEF Warnings!Next
<1>z. CASE v9' # 0
  BY <1>t, <1>s, <1>z DEF Warnings!NoticesInv, Warnings!WarningInv
<1>0. CASE v9' = 0
  <2>0. v9 = 0 /\ v2' = v2 /\ v1 \in Int /\ v2 \in Int /\ v2 > 0
    BY <1>t, <1>0, <1>c DEF Warnings!TypeOK
  <2> DEFINE W(x, n) == \/ x.failedAt = -1 /\ x.deadline = -1 /\ x.notice = -1 /\ x.warned = 0
                        \/ /\ x.deadline = x.failedAt + v2 /\ x.failedAt <= n /\ x.warned <= 1
                           /\ x.warned > 0 <=> x.notice >= x.failedAt
  <2>w. \A p \in C : W(v3[p], v1) /\ v3[p] \in Warnings!Parcel
    BY <2>0, <1>t DEF Warnings!NoticesInv, Warnings!WarningInv, Warnings!TypeOK
  <2>n. v8.name = "VERIFIER" => \A p \in Warnings!near : p \in v8.left \/ v3[p].warned > 0 \/ v3[p].failedAt = v1
    BY <2>0 DEF Warnings!NoticesInv, Warnings!NearIsWarned
  <2>1. ASSUME UNCHANGED v3, v1' = v1 \/ v1' = v1 + 1, UNCHANGED v1 \/ v8'.name # "VERIFIER",
               \/ UNCHANGED v8 \/ v8'.name # "VERIFIER" \/ v8'.left = Warnings!near
        PROVE  Warnings!NoticesInv'
    <3>1. Warnings!WarningInv'
      <4>1. \A p \in C : W(v3'[p], v1')
        BY <2>0, <2>1, <2>w DEF Warnings!Parcel
      <4> QED BY <2>0, <4>1 DEF Warnings!WarningInv
    <3>2. Warnings!NearIsWarned'
      BY <2>1, <2>n DEF Warnings!NearIsWarned, Warnings!near
    <3> QED BY <1>t, <1>s, <3>1, <3>2 DEF Warnings!NoticesInv
  <2>2. CASE Warnings!Tick
    BY <2>1, <2>2 DEF Warnings!Tick, Warnings!Idle
  <2>3. ASSUME NEW name \in Warnings!Passes, Warnings!Start(name)
        PROVE  Warnings!NoticesInv'
    BY <2>1, <2>3 DEF Warnings!Start
  <2>4. CASE Warnings!Finish \/ Warnings!FailPass \/ Warnings!Restart
    BY <2>1, <2>4 DEF Warnings!Finish, Warnings!FailPass, Warnings!Restart, Warnings!Idle
  <2>5. ASSUME NEW h \in Settings, Warnings!ChangeSetting(h)
        PROVE  FALSE
    BY <2>5, <2>0, <1>0 DEF Warnings!ChangeSetting
  <2>6. ASSUME NEW p \in C, NEW r \in Warnings!Parcel, v3' = [v3 EXCEPT ![p] = r], W(r, v1),
               UNCHANGED <<v1, v8.name>>, v8'.left = v8.left \ {p} \/ v8' = v8,
               v8.name = "VERIFIER" /\ r.toVerify /\ r.deadline > v1 /\ r.deadline <= v1 + 2
                 => r.warned > 0 \/ r.failedAt = v1
        PROVE  Warnings!NoticesInv'
    <3>0. v3' \in [C -> Warnings!Parcel] /\ \A q \in C : v3'[q] = IF q = p THEN r ELSE v3[q]
      BY <1>t, <2>6 DEF Warnings!TypeOK
    <3>1. Warnings!WarningInv'
      <4>1. \A q \in C : W(v3'[q], v1')
        BY <2>6, <2>w, <3>0
      <4> QED BY <2>0, <4>1 DEF Warnings!WarningInv
    <3> HIDE DEF W
    <3>2. Warnings!NearIsWarned'
      <4> SUFFICES ASSUME v8'.name = "VERIFIER", NEW q \in C, v3'[q].toVerify, v3'[q].deadline > v1,
                          v3'[q].deadline <= v1 + 2
                   PROVE  q \in v8'.left \/ v3'[q].warned > 0 \/ v3'[q].failedAt = v1
        BY <2>6 DEF Warnings!NearIsWarned, Warnings!near, Warnings!VERIFY_WARNING_HOURS
      <4>1. CASE q # p
        <5>1. q \in Warnings!near
          BY <3>0, <4>1 DEF Warnings!near, Warnings!VERIFY_WARNING_HOURS
        <5> QED BY <2>6, <2>n, <3>0, <4>1, <5>1
      <4>2. CASE q = p
        BY <2>6, <3>0, <4>2
      <4> QED BY <4>1, <4>2
    <3> QED BY <1>t, <1>s, <3>1, <3>2 DEF Warnings!NoticesInv
  <2>7. ASSUME NEW p \in C, Warnings!Fail(p)
        PROVE  Warnings!NoticesInv'
    <3>0. PICK d \in Int : d = v1 + v2
      BY <2>0
    <3>r. PICK r : r = [toVerify |-> TRUE, deadline |-> d, failedAt |-> v1, warned |-> 0,
                        notice |-> v3[p].notice]
      OBVIOUS
    <3>1. /\ r \in Warnings!Parcel /\ r.failedAt = v1 /\ r.deadline = d /\ r.warned = 0
          /\ r.notice = v3[p].notice
      BY <2>0, <2>w, <3>r DEF Warnings!Parcel
    <3>2. v3' = [v3 EXCEPT ![p] = r] /\ UNCHANGED <<v1, v8>> /\ v1 > v3[p].notice
      BY <1>t, <2>7, <3>0, <3>r DEF Warnings!Fail, Warnings!TypeOK
    <3>3. v3[p].notice \in Int
      BY <2>w DEF Warnings!Parcel
    <3>4. W(r, v1)
      BY <2>0, <3>0, <3>1, <3>2, <3>3
    <3> HIDE DEF W
    <3> QED BY <2>6, <3>1, <3>2, <3>4
  <2>8. ASSUME NEW p \in C, Warnings!Decide(p)
        PROVE  Warnings!NoticesInv'
    <3>r. PICK r : r = [v3[p] EXCEPT !.toVerify = FALSE]
      OBVIOUS
    <3>1. /\ r \in Warnings!Parcel /\ ~r.toVerify /\ r.failedAt = v3[p].failedAt
          /\ r.deadline = v3[p].deadline /\ r.warned = v3[p].warned /\ r.notice = v3[p].notice
      BY <2>w, <3>r DEF Warnings!Parcel
    <3>2. v3' = [v3 EXCEPT ![p] = r] /\ UNCHANGED <<v1, v8>>
      BY <1>t, <2>8, <3>r DEF Warnings!Decide, Warnings!TypeOK
    <3>4. W(r, v1)
      BY <2>w, <3>1
    <3> HIDE DEF W
    <3> QED BY <2>6, <3>1, <3>2, <3>4
  <2>9. ASSUME NEW p \in C, Warnings!Warn(p), Warnings!already(p)
        PROVE  Warnings!NoticesInv'
    <3>1. v3' = [v3 EXCEPT ![p] = v3[p]] /\ UNCHANGED v1 /\ v3[p].notice >= v3[p].deadline - v2
      BY <1>t, <2>9 DEF Warnings!Warn, Warnings!TypeOK, Warnings!already, Warnings!since
    <3>2. v8'.name = v8.name /\ v8'.left = v8.left \ {p}
      BY <1>t, <2>9 DEF Warnings!Warn, Warnings!Looked, Warnings!TypeOK
    <3>3. v3[p] \in Warnings!Parcel /\ W(v3[p], v1)
      BY <2>w
    <3>4. v3[p].deadline > v1 => v3[p].warned > 0
      <4>1. v1 >= 0 /\ v3[p].failedAt \in Int /\ v3[p].notice \in Int /\ v3[p].deadline \in Int
        BY <1>t, <3>3 DEF Warnings!TypeOK, Warnings!Parcel
      <4> QED BY <2>0, <3>1, <3>3, <4>1
    <3> HIDE DEF W
    <3> QED BY <2>6, <3>1, <3>2, <3>3, <3>4
  <2>10. ASSUME NEW p \in C, Warnings!Warn(p), ~Warnings!already(p)
         PROVE  Warnings!NoticesInv'
    <3>r. PICK r : r = [v3[p] EXCEPT !.notice = v1, !.warned = 1]
      OBVIOUS
    <3>0. v3[p] \in Warnings!Parcel /\ W(v3[p], v1) /\ ~(v3[p].notice >= v3[p].deadline - v2)
      BY <2>w, <2>10 DEF Warnings!already, Warnings!since
    <3>1. v3[p].warned = 0 /\ v3[p].deadline = v3[p].failedAt + v2 /\ v3[p].failedAt <= v1
      BY <2>0, <3>0 DEF Warnings!Parcel
    <3>2. /\ r \in Warnings!Parcel /\ r.failedAt = v3[p].failedAt /\ r.deadline = v3[p].deadline
          /\ r.warned = 1 /\ r.notice = v1
      <4>1. PICK n \in Int : n = v1
        BY <2>0
      <4>2. r = [v3[p] EXCEPT !.notice = n, !.warned = 1] /\ 1 \in 0..2
        BY <3>r, <4>1
      <4>3. r \in Warnings!Parcel
        BY <3>0, <4>2 DEF Warnings!Parcel
      <4> QED BY <3>0, <4>1, <4>2, <4>3 DEF Warnings!Parcel
    <3>3. v3' = [v3 EXCEPT ![p] = r] /\ UNCHANGED v1
      <4>1. Warnings!Two(v3[p].warned) = 1
        BY <3>1 DEF Warnings!Two
      <4> QED BY <1>t, <2>10, <3>r, <4>1 DEF Warnings!Warn, Warnings!TypeOK
    <3>4. v8'.name = v8.name /\ v8'.left = v8.left \ {p}
      BY <1>t, <2>10 DEF Warnings!Warn, Warnings!Looked, Warnings!TypeOK
    <3>5. W(r, v1) /\ r.warned > 0
      BY <2>0, <3>1, <3>2
    <3> HIDE DEF W
    <3> QED BY <2>6, <3>2, <3>3, <3>4, <3>5
  <2> HIDE DEF W
  <2> QED BY <2>2, <2>3, <2>4, <2>5, <2>7, <2>8, <2>9, <2>10 DEF Warnings!Next
<1> QED BY <1>z, <1>0

\* The types of the notices of the day, kept by each step.
LEMMA DaysTyped ==
  ASSUME Days!TypeOK, Days!Next, Days!NoticesAssumption
  PROVE  Days!TypeOK'
<1> USE DEF Days!NoticesAssumption
<1>1. CASE Days!Tick
  BY <1>1 DEF Days!Tick, Days!TypeOK
<1>2. ASSUME NEW h \in Settings, Days!ChangeSetting(h)
      PROVE  Days!TypeOK'
  BY <1>2 DEF Days!ChangeSetting, Days!TypeOK
<1>3. ASSUME NEW c \in C, Days!Tell(c)
      PROVE  Days!TypeOK'
  <2>1. v8' \in [name: Days!Passes \cup {"IDLE"}, left: SUBSET ({} \cup C)]
    <3>1. [v8 EXCEPT !.left = @ \ {c}] \in [name: Days!Passes \cup {"IDLE"}, left: SUBSET ({} \cup C)]
      BY DEF Days!TypeOK
    <3> QED BY <1>3, <3>1 DEF Days!Tell, Days!Looked
  <2>2. v6' \in [Days!Daily \X C -> 0..2]
    <3>1. <<v8.name, c>> \in Days!Daily \X C
      BY <1>3 DEF Days!Tell
    <3>2. Days!Two(v6[<<v8.name, c>>]) \in 0..2
      BY <3>1 DEF Days!TypeOK, Days!Two
    <3>3. \/ UNCHANGED v6
          \/ v6' = [v6 EXCEPT ![<<v8.name, c>>] = Days!Two(v6[<<v8.name, c>>])]
      BY <1>3, <3>1 DEF Days!Tell, Days!TypeOK
    <3> QED BY <3>1, <3>2, <3>3 DEF Days!TypeOK
  <2>3. UNCHANGED <<v1, v2, v3, v4, v7, v9, v10, v11>>
    BY <1>3 DEF Days!Tell
  <2> QED BY <2>1, <2>2, <2>3 DEF Days!TypeOK
<1>4. ASSUME NEW c \in C, NEW d \in Days!Daily, Days!Move(d, c)
      PROVE  Days!TypeOK'
  <2>1. v4' \in [Days!Daily -> SUBSET C]
    BY <1>4 DEF Days!Move, Days!TypeOK
  <2>2. v11' \in 0..1 /\ UNCHANGED <<v1, v2, v3, v5, v6, v7, v8, v9, v10>>
    BY <1>4 DEF Days!Move, Days!TypeOK
  <2> QED BY <2>1, <2>2 DEF Days!TypeOK
<1>5. ASSUME NEW name \in Days!Passes, Days!Start(name)
      PROVE  Days!TypeOK'
  <2> DEFINE left == CASE name = "VERIFIER" -> Days!near
                       [] name = "FIN_DE_JOURNEE" -> C
                       [] OTHER -> v4[name]
  <2>1. left \in SUBSET ({} \cup C)
    BY DEF Days!near, Days!TypeOK, Days!Passes, Days!Daily
  <2>2. v8' = [name |-> name, left |-> left] /\ UNCHANGED <<v1, v2, v3, v4, v6, v7, v9, v10, v11>>
    BY <1>5 DEF Days!Start
  <2> HIDE DEF left
  <2> QED BY <2>1, <2>2 DEF Days!TypeOK
<1>6. CASE Days!Finish
  BY <1>6 DEF Days!Finish, Days!TypeOK, Days!Idle
<1>7. CASE Days!FailPass
  BY <1>7 DEF Days!FailPass, Days!TypeOK, Days!Idle
<1>8. CASE Days!Restart
  BY <1>8 DEF Days!Restart, Days!TypeOK, Days!Idle
<1> QED BY <1>1, <1>2, <1>3, <1>4, <1>5, <1>6, <1>7, <1>8 DEF Days!Next

(* Whoever was told something today has its notice stored, so a pass that failed    *)
(* half-way, or that a restart forgot, tells nobody again.                     *)
LEMMA DaysStep ==
  ASSUME Days!NoticesInv, Days!Next, Days!NoticesAssumption
  PROVE  Days!NoticesInv'
<1>t. Days!TypeOK /\ Days!TypeOK'
  BY DaysTyped DEF Days!NoticesInv
<1>w. Days!WarningInv' /\ Days!NearIsWarned'
  BY DEF Days!WarningInv, Days!NearIsWarned, Days!near
<1>1. CASE Days!Tick
  <2>1. CASE UNCHANGED <<v5, v6>>
    BY <1>t, <1>w, <2>1 DEF Days!NoticesInv, Days!StoredInv, Days!ToldOncePerDay, Days!hasNotice, Days!Key
  <2>2. CASE v6' = [x \in Days!Daily \X C |-> 0]
    <3>1. \A x \in Days!Daily \X C : v6'[x] = 0
      BY <2>2
    <3>2. Days!StoredInv'
      <4> SUFFICES ASSUME NEW d \in Days!Daily, NEW c \in C, v6'[<<d, c>>] > 0 PROVE FALSE
        BY DEF Days!StoredInv
      <4>1. <<d, c>> \in Days!Daily \X C
        OBVIOUS
      <4> QED BY <3>1, <4>1
    <3>3. Days!ToldOncePerDay'
      BY <3>1 DEF Days!ToldOncePerDay
    <3> QED BY <1>t, <1>w, <3>2, <3>3 DEF Days!NoticesInv
  <2> QED BY <1>1, <2>1, <2>2 DEF Days!Tick
<1>2. ASSUME NEW c \in C, Days!Tell(c)
      PROVE  Days!NoticesInv'
  <2>1. CASE UNCHANGED <<v5, v6>>
    BY <1>t, <1>w, <2>1 DEF Days!NoticesInv, Days!StoredInv, Days!ToldOncePerDay, Days!hasNotice, Days!Key
  <2>2. CASE /\ ~Days!hasNotice(v8.name, c)
             /\ v5' = v5 \cup {Days!Key(v8.name, c)}
             /\ v6' = [v6 EXCEPT ![<<v8.name, c>>] = Days!Two(@)]
    <3>1. PICK d \in Days!Daily : d = v8.name
      BY <1>2 DEF Days!Tell
    <3>2. <<d, c>> \in Days!Daily \X C
      OBVIOUS
    <3>3. v6[<<d, c>>] = 0
      <4>1. ~(v6[<<d, c>>] > 0)
        BY <2>2, <3>1 DEF Days!NoticesInv, Days!StoredInv
      <4>2. v6[<<d, c>>] \in 0..2
        BY <1>t, <3>2 DEF Days!TypeOK
      <4> QED BY <4>1, <4>2
    <3>4. \A x \in Days!Daily \X C : v6'[x] = IF x = <<d, c>> THEN 1 ELSE v6[x]
      <4>1. Days!Two(v6[<<d, c>>]) = 1
        BY <3>3 DEF Days!Two
      <4>2. v6' = [v6 EXCEPT ![<<d, c>>] = 1]
        BY <2>2, <3>1, <4>1
      <4>3. v6 \in [Days!Daily \X C -> 0..2]
        BY <1>t DEF Days!TypeOK
      <4> QED BY <3>2, <4>2, <4>3
    <3>5. Days!ToldOncePerDay'
      BY <3>4 DEF Days!NoticesInv, Days!ToldOncePerDay
    <3>6. Days!StoredInv'
      <4> SUFFICES ASSUME NEW e \in Days!Daily, NEW f \in C, v6'[<<e, f>>] > 0
                   PROVE  Days!Key(e, f) \in v5'
        BY DEF Days!StoredInv, Days!hasNotice, Days!Key
      <4>0. <<e, f>> \in Days!Daily \X C
        OBVIOUS
      <4>1. CASE <<e, f>> = <<d, c>>
        <5>1. e = d /\ f = c
          BY <4>1
        <5> QED BY <2>2, <3>1, <5>1
      <4>2. CASE <<e, f>> # <<d, c>>
        <5>1. v6[<<e, f>>] > 0
          BY <3>4, <4>0, <4>2
        <5>2. Days!Key(e, f) \in v5
          BY <5>1 DEF Days!NoticesInv, Days!StoredInv, Days!hasNotice
        <5> QED BY <2>2, <5>2
      <4> QED BY <4>1, <4>2
    <3> QED BY <1>t, <1>w, <3>5, <3>6 DEF Days!NoticesInv
  <2> QED BY <1>2, <2>1, <2>2 DEF Days!Tell
<1>3. ASSUME UNCHANGED <<v5, v6>>
      PROVE  Days!NoticesInv'
  BY <1>t, <1>w, <1>3 DEF Days!NoticesInv, Days!StoredInv, Days!ToldOncePerDay, Days!hasNotice, Days!Key
<1>4. ASSUME NEW h \in Settings, Days!ChangeSetting(h) PROVE UNCHANGED <<v5, v6>>
  BY <1>4 DEF Days!ChangeSetting
<1>5. ASSUME NEW c \in C, NEW d \in Days!Daily, Days!Move(d, c) PROVE UNCHANGED <<v5, v6>>
  BY <1>5 DEF Days!Move
<1>6. ASSUME NEW name \in Days!Passes, Days!Start(name) PROVE UNCHANGED <<v5, v6>>
  BY <1>6 DEF Days!Start
<1>7. ASSUME Days!Finish \/ Days!FailPass \/ Days!Restart PROVE UNCHANGED <<v5, v6>>
  BY <1>7 DEF Days!Finish, Days!FailPass, Days!Restart
<1> QED BY <1>1, <1>2, <1>3, <1>4, <1>5, <1>6, <1>7 DEF Days!Next

-----------------------------------------------------------------------------
(* The chat: v1 is state, v2 courierId, v3 message, v4 stored, v5 dated, v6       *)
(* operation, v7 told, v8 read, v9 call, v10 trips                            *)

\* A call of the chat.
TalkCall == Talk!WriteCall \cup Talk!AnswerCall \cup Talk!ViewCall \cup {None}

\* What the invariant says of one message.
TalkMessage(m) ==
  /\ v3[m].by = None => m \notin v4 /\ v3[m].shown = "NO" /\ ~Talk!InHand(m)
  /\ v3[m].by # None => v2 # None
  /\ IF v3[m].by \in B
     THEN /\ v6[m] = "OK" <=> m \in v4
          /\ v3[m].shown = "SENT" => v6[m] = "OK"
          /\ v3[m].shown = "REFUSED" => v6[m] = "REFUSED"
          /\ \A k \in A : Talk!Holds(k, m) /\ Talk!Op(k, "ANSWER") => v9[k].answer = v6[m]
     ELSE /\ v6[m] = None
          /\ v3[m].crossed \/
               /\ \A j, k \in A : Talk!Holds(j, m) /\ Talk!Holds(k, m) => j = k
               /\ v3[m].shown \in {"SENT", "REFUSED"} => ~Talk!InHand(m)
               /\ v3[m].shown = "REFUSED" => m \notin v4
               /\ \A k \in A : Talk!Holds(k, m) /\ v9[k].answer = "REFUSED" => m \notin v4
  /\ v3[m].shown = "SENT" => m \in v4
  /\ \A k \in A : Talk!Holds(k, m) /\ v9[k].answer = "OK" => m \in v4
  /\ \A k \in A : Talk!Holds(k, m) /\ v9[k].answer = "STORE" => m \in v5
  /\ m \in v4 /\ v3[m].by # "seller" => v7[<<m, "seller">>] = 1
  /\ \A u \in Talk!Users : v7[<<m, u>>] <= (IF m \in v4 /\ v3[m].by # u THEN 1 ELSE 0)

\* The invariant, message by message.
LEMMA TalkByMessage ==
  Talk!ChatInv <=> Talk!TypeOK /\ v9 \in [A -> TalkCall] /\ \A m \in C : TalkMessage(m)
<1>1. ASSUME Talk!WrittenInv, Talk!OperationInv, Talk!StoredInv, Talk!ToldOnce, NEW m \in C
      PROVE  TalkMessage(m)
  <2>1. /\ v3[m].by = None => m \notin v4 /\ v3[m].shown = "NO" /\ ~Talk!InHand(m)
        /\ v3[m].by # None => v2 # None
    BY <1>1 DEF Talk!WrittenInv
  <2>2. /\ v3[m].shown = "SENT" => m \in v4
        /\ \A k \in A : Talk!Holds(k, m) /\ v9[k].answer = "OK" => m \in v4
        /\ \A k \in A : Talk!Holds(k, m) /\ v9[k].answer = "STORE" => m \in v5
    BY <1>1 DEF Talk!StoredInv
  <2>3. /\ m \in v4 /\ v3[m].by # "seller" => v7[<<m, "seller">>] = 1
        /\ \A u \in Talk!Users : v7[<<m, u>>] <= (IF m \in v4 /\ v3[m].by # u THEN 1 ELSE 0)
    BY <1>1, ZenonT(60) DEF Talk!ToldOnce
  <2> QED BY <1>1, <2>1, <2>2, <2>3 DEF Talk!OperationInv, TalkMessage
<1>2. ASSUME \A m \in C : TalkMessage(m)
      PROVE  Talk!WrittenInv /\ Talk!OperationInv /\ Talk!StoredInv /\ Talk!ToldOnce
  <2>1. Talk!WrittenInv
    BY <1>2 DEF Talk!WrittenInv, TalkMessage
  <2>2. Talk!OperationInv
    BY <1>2 DEF Talk!OperationInv, TalkMessage
  <2>3. Talk!StoredInv
    BY <1>2 DEF Talk!StoredInv, TalkMessage
  <2>4. Talk!ToldOnce
    BY <1>2, ZenonT(60) DEF Talk!ToldOnce, TalkMessage
  <2> QED BY <2>1, <2>2, <2>3, <2>4
<1> QED BY <1>1, <1>2 DEF Talk!ChatInv, TalkCall

\* The same of the next state.
LEMMA TalkByMessageNext ==
  Talk!TypeOK' /\ v9' \in [A -> TalkCall] /\ (\A m \in C : TalkMessage(m)') => Talk!ChatInv'
<1> SUFFICES ASSUME \A m \in C : TalkMessage(m)'
             PROVE  Talk!WrittenInv' /\ Talk!OperationInv' /\ Talk!StoredInv' /\ Talk!ToldOnce'
  BY DEF Talk!ChatInv, TalkCall
<1>1. Talk!WrittenInv'
  BY DEF Talk!WrittenInv, TalkMessage
<1>2. Talk!OperationInv'
  BY DEF Talk!OperationInv, TalkMessage
<1>3. Talk!StoredInv'
  BY DEF Talk!StoredInv, TalkMessage
<1>4. Talk!ToldOnce'
  BY ZenonT(60) DEF Talk!ToldOnce, TalkMessage
<1> QED BY <1>1, <1>2, <1>3, <1>4

(* A message that stays as it is, held by no call that did not hold it, keeps its *)
(* part of the invariant.                                                   *)
LEMMA TalkSame ==
  ASSUME NEW m \in C, TalkMessage(m), v3'[m] = v3[m], v6'[m] = v6[m], m \in v4' <=> m \in v4,
         \A u \in Talk!Users : v7'[<<m, u>>] = v7[<<m, u>>], v2 # None => v2' # None, v5 \subseteq v5',
         \A k \in A : Talk!Holds(k, m)' => Talk!Holds(k, m) /\ v9'[k] = v9[k]
  PROVE  TalkMessage(m)'
<1>1. \A k \in A : Talk!Holds(k, m)' /\ Talk!Op(k, "ANSWER")' => Talk!Op(k, "ANSWER")
  BY DEF Talk!Op
<1>2. Talk!InHand(m)' => Talk!InHand(m)
  BY DEF Talk!InHand, Talk!Holds
<1>3. "seller" \in Talk!Users
  BY DEF Talk!Users
<1> HIDE DEF Talk!Holds, Talk!Op, Talk!InHand
<1> QED BY <1>1, <1>2, <1>3 DEF TalkMessage

\* A call that holds a message is of its kind, and the message one of those there are.
LEMMA TalkHeld ==
  ASSUME v9 \in [A -> TalkCall], NEW k \in A, Talk!ChatAssumption
  PROVE  /\ Talk!Op(k, "WRITE") => v9[k] \in Talk!WriteCall
         /\ Talk!Op(k, "ANSWER") => v9[k] \in Talk!AnswerCall
         /\ Talk!Op(k, "VIEW") => v9[k] \in Talk!ViewCall
BY DEF TalkCall, Talk!Op, Talk!WriteCall, Talk!AnswerCall, Talk!ViewCall

(* A call that ends without an answer, or only reads the thread, and a parcel taken *)
(* out or brought back, touch no message.                                    *)
LEMMA TalkUndisturbed ==
  ASSUME Talk!ChatInv, Talk!ChatAssumption, Talk!TypeOK', UNCHANGED <<v3, v4, v5, v6, v7>>,
         v2 # None => v2' # None,
         v9' = v9 \/ \E k \in A, r \in Talk!ViewCall \cup {None} : v9' = [v9 EXCEPT ![k] = r]
  PROVE  Talk!ChatInv'
<1>0. v9 \in [A -> TalkCall] /\ \A m \in C : TalkMessage(m)
  BY TalkByMessage
<1>1. v9' \in [A -> TalkCall]
  BY <1>0 DEF TalkCall
<1>2. ASSUME NEW m \in C PROVE TalkMessage(m)'
  <2>1. \A j \in A : Talk!Holds(j, m)' => Talk!Holds(j, m) /\ v9'[j] = v9[j]
    <3>1. CASE v9' = v9
      BY <3>1 DEF Talk!Holds, Talk!Op
    <3>2. ASSUME NEW k \in A, NEW r \in Talk!ViewCall \cup {None}, v9' = [v9 EXCEPT ![k] = r]
          PROVE  \A j \in A : Talk!Holds(j, m)' => Talk!Holds(j, m) /\ v9'[j] = v9[j]
      <4> SUFFICES ASSUME NEW j \in A, Talk!Holds(j, m)' PROVE Talk!Holds(j, m) /\ v9'[j] = v9[j]
        OBVIOUS
      <4>1. v9'[j] = IF j = k THEN r ELSE v9[j]
        BY <1>0, <3>2
      <4>2. j # k
        BY <4>1 DEF Talk!Holds, Talk!Op, Talk!ViewCall
      <4> QED BY <4>1, <4>2 DEF Talk!Holds, Talk!Op
    <3> QED BY <3>1, <3>2
  <2> QED BY <1>0, <2>1, TalkSame
<1> QED BY <1>1, <1>2, TalkByMessageNext

\* The parcel is taken out, comes back, or is done with.
LEMMA TalkParcel ==
  ASSUME Talk!ChatInv, Talk!ChatAssumption,
         (\E l \in B : Talk!openOnDispatch(l)) \/ \E to \in {"VERROUILLE", "CLOS"} : Talk!Leave(to)
  PROVE  Talk!ChatInv'
<1>1. UNCHANGED <<v3, v4, v6, v7>> /\ v9' = v9 /\ UNCHANGED <<v5, v8>>
  BY DEF Talk!openOnDispatch, Talk!Leave, Talk!chatVars
<1>2. Talk!TypeOK' /\ (v2 # None => v2' # None)
  <2>1. ASSUME NEW l \in B, Talk!openOnDispatch(l)
        PROVE  Talk!TypeOK' /\ v2' # None
    BY <1>1, <2>1 DEF Talk!openOnDispatch, Talk!ChatInv, Talk!TypeOK, Talk!ChatAssumption, Talk!Users
  <2>2. ASSUME NEW to \in {"VERROUILLE", "CLOS"}, Talk!Leave(to)
        PROVE  Talk!TypeOK' /\ v2' = v2
    BY <1>1, <2>2 DEF Talk!Leave, Talk!ChatInv, Talk!TypeOK
  <2> QED BY <2>1, <2>2
<1> QED BY <1>1, <1>2, TalkUndisturbed

\* A message is written: nobody has received it.
LEMMA TalkWrite ==
  ASSUME Talk!ChatInv, Talk!ChatAssumption, NEW u \in Talk!Users, NEW m \in C, Talk!Write(u, m)
  PROVE  Talk!ChatInv'
<1>0. Talk!TypeOK /\ v9 \in [A -> TalkCall] /\ (\A n \in C : TalkMessage(n)) /\ None \notin Talk!Users
  BY TalkByMessage DEF Talk!ChatAssumption
<1>1. PICK r : /\ v3' = [v3 EXCEPT ![m] = r] /\ r \in Talk!Message
               /\ r.by = u /\ r.shown = "PENDING" /\ r.crossed = v3[m].crossed
  <2>1. v3[m] \in Talk!Message
    BY <1>0 DEF Talk!TypeOK
  <2>2. [v3[m] EXCEPT !.by = u, !.shown = "PENDING"] \in Talk!Message
    BY <2>1 DEF Talk!Message
  <2>3. v3' = [v3 EXCEPT ![m] = [v3[m] EXCEPT !.by = u, !.shown = "PENDING"]]
    BY <1>0 DEF Talk!Write, Talk!TypeOK
  <2>4. /\ [v3[m] EXCEPT !.by = u, !.shown = "PENDING"].by = u
        /\ [v3[m] EXCEPT !.by = u, !.shown = "PENDING"].shown = "PENDING"
        /\ [v3[m] EXCEPT !.by = u, !.shown = "PENDING"].crossed = v3[m].crossed
    BY <2>1 DEF Talk!Message
  <2> QED BY <2>2, <2>3, <2>4
<1>2. UNCHANGED <<v1, v2, v4, v5, v6, v7, v8, v9, v10>> /\ v2 # None /\ v3[m].by = None
  BY DEF Talk!Write, Talk!chatAccessFor
<1>3. Talk!TypeOK'
  BY <1>0, <1>1, <1>2 DEF Talk!TypeOK
<1>4. \A n \in C : v3'[n] = IF n = m THEN r ELSE v3[n]
  BY <1>0, <1>1 DEF Talk!TypeOK
<1>5. \A k \in A, n \in C : Talk!Holds(k, n)' <=> Talk!Holds(k, n)
  BY <1>2 DEF Talk!Holds, Talk!Op
<1>6. ASSUME NEW n \in C PROVE TalkMessage(n)'
  <2>1. CASE n # m
    BY <1>0, <1>2, <1>4, <1>5, <2>1, TalkSame
  <2>2. CASE n = m
    <3>1. m \notin v4 /\ ~Talk!InHand(m) /\ v6[m] = None
      BY <1>0, <1>2 DEF TalkMessage, Talk!ChatAssumption, Talk!Users
    <3>2. \A k \in A : ~Talk!Holds(k, m)'
      BY <1>5, <3>1 DEF Talk!InHand, Talk!Holds
    <3>3. \A w \in Talk!Users : v7'[<<m, w>>] <= 0
      BY <1>0, <1>2, <3>1 DEF TalkMessage
    <3>4. v6'[m] = None /\ m \notin v4' /\ v2' # None /\ v3'[m].by = u /\ v3'[m].shown = "PENDING"
      BY <1>1, <1>2, <1>4, <3>1
    <3>5. None # "OK" /\ u # None
      BY <1>0 DEF Talk!ChatAssumption
    <3> QED BY <2>2, <3>2, <3>3, <3>4, <3>5 DEF TalkMessage
  <2> QED BY <2>1, <2>2
<1> QED BY <1>2, <1>0, <1>3, <1>6, TalkByMessageNext

\* A call that ends with no answer, or reads the thread.
LEMMA TalkReads ==
  ASSUME Talk!ChatInv, Talk!ChatAssumption, NEW k \in A,
         Talk!Lose(k) \/ Talk!markRead(k) \/ \E u \in Talk!Users : Talk!View(k, u)
  PROVE  Talk!ChatInv'
<1>0. Talk!TypeOK /\ v9 \in [A -> TalkCall]
  BY TalkByMessage
<1>1. CASE Talk!Lose(k)
  <2>1. Talk!TypeOK'
    BY <1>0, <1>1 DEF Talk!Lose, Talk!TypeOK
  <2> QED BY <1>1, <2>1, TalkUndisturbed DEF Talk!Lose
<1>2. CASE Talk!markRead(k)
  <2>1. v9[k].user \in Talk!Users
    BY <1>0, <1>2, TalkHeld DEF Talk!markRead, Talk!ViewCall
  <2>2. v8' \in [Talk!Users -> SUBSET C]
    BY <1>0, <1>2, <2>1 DEF Talk!markRead, Talk!TypeOK
  <2>3. Talk!TypeOK'
    BY <1>0, <1>2, <2>2 DEF Talk!markRead, Talk!TypeOK
  <2> QED BY <1>2, <2>3, TalkUndisturbed DEF Talk!markRead
<1>3. ASSUME NEW u \in Talk!Users, Talk!View(k, u)
      PROVE  Talk!ChatInv'
  <2>1. Talk!TypeOK'
    BY <1>0, <1>3 DEF Talk!View, Talk!TypeOK
  <2>2. [step |-> "VIEW", user |-> u] \in Talk!ViewCall
    BY DEF Talk!ViewCall
  <2> QED BY <1>3, <2>1, <2>2, TalkUndisturbed DEF Talk!View
<1> QED BY <1>1, <1>2, <1>3

(* A call given back its answer, or a message received: what each call holds is    *)
(* what it held, but for the one that moved.                                  *)
LEMMA TalkMoved ==
  ASSUME v9 \in [A -> TalkCall], NEW k \in A, NEW r, v9' = [v9 EXCEPT ![k] = r]
  PROVE  /\ v9'[k] = r
         /\ \A j \in A \ {k} : v9'[j] = v9[j]
         /\ \A j \in A \ {k} : \A m \in C : Talk!Holds(j, m)' <=> Talk!Holds(j, m)
         /\ \A j \in A \ {k} : \A s \in {"WRITE", "ANSWER"} : Talk!Op(j, s)' <=> Talk!Op(j, s)
BY DEF Talk!Holds, Talk!Op

\* A copy of a message is received.
LEMMA TalkReceive ==
  ASSUME Talk!ChatInv, Talk!ChatAssumption, NEW k \in A, NEW m \in C, Talk!Receive(k, m)
  PROVE  Talk!ChatInv'
<1>0. /\ Talk!TypeOK /\ v9 \in [A -> TalkCall] /\ (\A n \in C : TalkMessage(n)) /\ None \notin Talk!Users
      /\ None \notin {"OK", "REFUSED"}
  BY TalkByMessage DEF Talk!ChatAssumption
<1>1. /\ v3[m].shown = "PENDING" /\ v3[m].by \in Talk!Users /\ v2 # None
      /\ v9[k] = None /\ UNCHANGED <<v1, v2, v4, v6, v7, v8, v10>>
  <2>1. v3[m].shown = "PENDING" /\ v9[k] = None /\ UNCHANGED <<v1, v2, v4, v6, v7, v8, v10>>
    BY DEF Talk!Receive, Talk!Free
  <2>2. v3[m].by # None /\ v2 # None
    BY <1>0, <2>1 DEF TalkMessage
  <2>3. v3[m].by \in Talk!Users \cup {None}
    BY <1>0 DEF Talk!TypeOK, Talk!Message
  <2> QED BY <2>1, <2>2, <2>3
<1>2. PICK r : /\ v3' = [v3 EXCEPT ![m] = r] /\ r \in Talk!Message /\ r.by = v3[m].by
               /\ r.shown = "PENDING" /\ (r.crossed <=> v3[m].crossed \/ Talk!InHand(m))
  <2>1. v3[m] \in Talk!Message
    BY <1>0 DEF Talk!TypeOK
  <2>2. PICK b \in BOOLEAN : b <=> v3[m].crossed \/ Talk!InHand(m)
    OBVIOUS
  <2>3. [v3[m] EXCEPT !.crossed = b] \in Talk!Message
    BY <2>1 DEF Talk!Message
  <2>4. b = (v3[m].crossed \/ Talk!InHand(m))
    <3>1. v3[m].crossed \in BOOLEAN /\ Talk!InHand(m) \in BOOLEAN
      BY <2>1 DEF Talk!Message, Talk!InHand
    <3> QED BY <2>2, <3>1
  <2>5. v3' = [v3 EXCEPT ![m] = [v3[m] EXCEPT !.crossed = b]]
    BY <1>0, <2>4 DEF Talk!Receive, Talk!TypeOK
  <2>6. /\ [v3[m] EXCEPT !.crossed = b].by = v3[m].by /\ [v3[m] EXCEPT !.crossed = b].shown = v3[m].shown
        /\ [v3[m] EXCEPT !.crossed = b].crossed = b
    BY <2>1 DEF Talk!Message
  <2> QED BY <1>1, <2>2, <2>3, <2>5, <2>6
<1>3. PICK c : /\ v9' = [v9 EXCEPT ![k] = c] /\ c \in Talk!WriteCall \cup Talk!AnswerCall
               /\ c.msg = m
               /\ c.step = "ANSWER" => v6[m] # None /\ c.answer = v6[m]
               /\ c.step = "WRITE" => v6[m] = None /\ c.answer = Talk!Verdict(v3[m].by, m)
  <2>1. CASE v6[m] # None
    <3>1. v9' = [v9 EXCEPT ![k] = [step |-> "ANSWER", msg |-> m, answer |-> v6[m]]]
      BY <2>1 DEF Talk!Receive
    <3>2. v6[m] \in {"OK", "REFUSED"}
      BY <1>0, <2>1 DEF Talk!TypeOK
    <3>3. PICK c : c = [step |-> "ANSWER", msg |-> m, answer |-> v6[m]]
      OBVIOUS
    <3>4. c \in Talk!AnswerCall /\ c.msg = m /\ c.step = "ANSWER" /\ c.answer = v6[m]
      BY <3>2, <3>3 DEF Talk!AnswerCall
    <3> QED BY <2>1, <3>1, <3>3, <3>4
  <2>2. CASE v6[m] = None
    <3>1. PICK l \in B \cup {None} : l = IF v1 = "OUVERT" THEN v2 ELSE None
      BY <1>0 DEF Talk!TypeOK
    <3>2. PICK a \in {"STORE", "OK", "REFUSED"} : a = Talk!Verdict(v3[m].by, m)
      BY DEF Talk!Verdict
    <3>3. v9' = [v9 EXCEPT ![k] = [step |-> "WRITE", msg |-> m, answer |-> a, livreur |-> l]]
      BY <2>2, <3>1, <3>2 DEF Talk!Receive
    <3>4. PICK c : c = [step |-> "WRITE", msg |-> m, answer |-> a, livreur |-> l]
      OBVIOUS
    <3>5. c \in Talk!WriteCall /\ c.msg = m /\ c.step = "WRITE" /\ c.answer = a
      BY <3>4 DEF Talk!WriteCall
    <3> QED BY <2>2, <3>2, <3>3, <3>4, <3>5
  <2> QED BY <2>1, <2>2
<1>4. Talk!TypeOK' /\ v9' \in [A -> TalkCall]
  <2>1. v5' \in SUBSET C /\ v4' \subseteq v5'
    BY <1>0, <1>1 DEF Talk!Receive, Talk!TypeOK
  <2>2. v3' \in [C -> Talk!Message]
    BY <1>0, <1>2 DEF Talk!TypeOK
  <2>3. v9' \in [A -> TalkCall]
    BY <1>0, <1>3 DEF TalkCall
  <2> QED BY <1>0, <1>1, <2>1, <2>2, <2>3 DEF Talk!TypeOK
<1>5. \A n \in C : v3'[n] = IF n = m THEN r ELSE v3[n]
  BY <1>0, <1>2 DEF Talk!TypeOK
<1>6. /\ v9'[k] = c
      /\ \A j \in A \ {k} : v9'[j] = v9[j]
      /\ \A j \in A \ {k} : \A n \in C : Talk!Holds(j, n)' <=> Talk!Holds(j, n)
      /\ \A j \in A \ {k} : \A s \in {"WRITE", "ANSWER"} : Talk!Op(j, s)' <=> Talk!Op(j, s)
  BY <1>0, <1>3, TalkMoved
<1>7. \A n \in C : n # m => ~Talk!Holds(k, n)'
  BY <1>3, <1>6 DEF Talk!Holds
<1>8. Talk!Verdict(v3[m].by, m) = "OK" => m \in v4
  BY DEF Talk!Verdict
<1>9. ASSUME v3[m].by \notin B, Talk!Verdict(v3[m].by, m) = "REFUSED" PROVE m \notin v4
  BY <1>1, <1>9 DEF Talk!Verdict, Talk!chatAccessFor
<1>d. /\ v5 \subseteq v5' /\ \A j \in A : Talk!Holds(j, m) /\ v9[j].answer = "STORE" => m \in v5
      /\ v6[m] = None /\ Talk!Verdict(v3[m].by, m) = "STORE" => m \in v5'
  BY <1>0 DEF Talk!Receive, TalkMessage
<1>e. \A j \in A : Talk!Holds(j, m)' /\ v9'[j].answer = "STORE" => m \in v5'
  <2>1. c.answer = "STORE" => m \in v5'
    BY <1>0, <1>3, <1>d DEF Talk!WriteCall, Talk!AnswerCall, Talk!TypeOK
  <2> QED BY <1>6, <1>d, <2>1
<1>10. Talk!Op(k, "ANSWER")' <=> c # None /\ c.step = "ANSWER"
  BY <1>6 DEF Talk!Op
<1>11. c.step \in {"WRITE", "ANSWER"}
  BY <1>3 DEF Talk!WriteCall, Talk!AnswerCall
<1>12. ASSUME NEW n \in C PROVE TalkMessage(n)'
  <2>1. CASE n # m
    BY <1>0, <1>1, <1>5, <1>6, <1>7, <1>d, <2>1, TalkSame
  <2>2. CASE n = m /\ v3[m].by \in B
    <3>1. v3'[m].by = v3[m].by /\ v3'[m].shown = "PENDING" /\ UNCHANGED <<v2, v4, v6, v7>> /\ v2 # None
      BY <1>1, <1>2, <1>5
    <3>2. v6[m] = "OK" <=> m \in v4
      BY <1>0, <2>2 DEF TalkMessage
    <3>3. ASSUME NEW j \in A, Talk!Holds(j, m)', Talk!Op(j, "ANSWER")' PROVE v9'[j].answer = v6[m]
      <4>1. CASE j = k
        BY <1>3, <1>6, <1>10, <3>3, <4>1
      <4>2. CASE j # k
        BY <1>0, <1>6, <2>2, <3>3, <4>2 DEF TalkMessage
      <4> QED BY <4>1, <4>2
    <3>4. ASSUME NEW j \in A, Talk!Holds(j, m)', v9'[j].answer = "OK" PROVE m \in v4
      <4>1. CASE j = k
        BY <1>3, <1>6, <1>8, <1>11, <3>2, <3>4, <4>1
      <4>2. CASE j # k
        BY <1>0, <1>6, <3>4, <4>2 DEF TalkMessage
      <4> QED BY <4>1, <4>2
    <3>5. v3[m].by # None
      BY <1>0, <1>1
    <3>6. /\ m \in v4 /\ v3[m].by # "seller" => v7[<<m, "seller">>] = 1
          /\ \A u \in Talk!Users : v7[<<m, u>>] <= (IF m \in v4 /\ v3[m].by # u THEN 1 ELSE 0)
      BY <1>0 DEF TalkMessage
    <3> QED BY <1>e, <2>2, <3>1, <3>2, <3>3, <3>4, <3>5, <3>6 DEF TalkMessage
  <2>3. CASE n = m /\ v3[m].by \notin B
    <3>1. v3'[m].by = v3[m].by /\ v3'[m].shown = "PENDING" /\ UNCHANGED <<v2, v4, v6, v7>> /\ v2 # None
      BY <1>1, <1>2, <1>5
    <3>2. v6[m] = None /\ c.step = "WRITE" /\ c.answer = Talk!Verdict(v3[m].by, m)
      BY <1>0, <1>3, <1>11, <2>3 DEF TalkMessage
    <3>4. ASSUME NEW j \in A, Talk!Holds(j, m)', v9'[j].answer = "OK" PROVE m \in v4
      <4>1. CASE j = k
        BY <1>6, <1>8, <3>2, <3>4, <4>1
      <4>2. CASE j # k
        BY <1>0, <1>6, <3>4, <4>2 DEF TalkMessage
      <4> QED BY <4>1, <4>2
    <3>5. v3[m].by # None
      BY <1>0, <1>1
    <3>6. /\ m \in v4 /\ v3[m].by # "seller" => v7[<<m, "seller">>] = 1
          /\ \A u \in Talk!Users : v7[<<m, u>>] <= (IF m \in v4 /\ v3[m].by # u THEN 1 ELSE 0)
      BY <1>0 DEF TalkMessage
    <3>7. ASSUME ~v3'[m].crossed
          PROVE  \A j \in A : Talk!Holds(j, m)' => j = k
      <4>1. ~Talk!InHand(m)
        BY <1>2, <1>5, <3>7
      <4>2. \A j \in A : ~Talk!Holds(j, m)
        BY <4>1 DEF Talk!InHand, Talk!Holds
      <4> QED BY <1>6, <4>2
    <3>8. ASSUME ~v3'[m].crossed, NEW j \in A, Talk!Holds(j, m)', v9'[j].answer = "REFUSED" PROVE m \notin v4
      BY <1>6, <1>9, <2>3, <3>2, <3>7, <3>8
    <3> QED BY <1>e, <2>3, <3>1, <3>2, <3>4, <3>5, <3>6, <3>7, <3>8 DEF TalkMessage
  <2> QED BY <2>1, <2>2, <2>3
<1> QED BY <1>4, <1>12, TalkByMessageNext

\* An answer reaches the sender.
LEMMA TalkAnswer ==
  ASSUME Talk!ChatInv, Talk!ChatAssumption, NEW k \in A, Talk!Answer(k)
  PROVE  Talk!ChatInv'
<1>0. /\ Talk!TypeOK /\ v9 \in [A -> TalkCall] /\ (\A n \in C : TalkMessage(n)) /\ None \notin Talk!Users
      /\ None \notin {"OK", "REFUSED"}
  BY TalkByMessage DEF Talk!ChatAssumption
<1>1. PICK m \in C : m = v9[k].msg /\ Talk!Holds(k, m) /\ v9[k].answer \in {"OK", "REFUSED"}
  BY <1>0, TalkHeld DEF Talk!Answer, Talk!AnswerCall, Talk!Holds
<1>2. PICK r : /\ v3' = [v3 EXCEPT ![m] = r] /\ r \in Talk!Message /\ r.by = v3[m].by
               /\ r.shown = (IF v3[m].shown # "PENDING" THEN v3[m].shown
                             ELSE IF v9[k].answer = "OK" THEN "SENT" ELSE "REFUSED")
               /\ r.crossed = v3[m].crossed
  <2>1. v3[m] \in Talk!Message
    BY <1>0 DEF Talk!TypeOK
  <2>2. PICK s : s = IF v3[m].shown # "PENDING" THEN v3[m].shown
                     ELSE IF v9[k].answer = "OK" THEN "SENT" ELSE "REFUSED"
    OBVIOUS
  <2>3. s \in {"NO", "PENDING", "SENT", "REFUSED"}
    BY <2>1, <2>2 DEF Talk!Message
  <2>4. [v3[m] EXCEPT !.shown = s] \in Talk!Message
    BY <2>1, <2>3 DEF Talk!Message
  <2>5. v3' = [v3 EXCEPT ![m] = [v3[m] EXCEPT !.shown = s]]
    BY <1>0, <1>1, <2>2 DEF Talk!Answer, Talk!TypeOK
  <2>6. /\ [v3[m] EXCEPT !.shown = s].by = v3[m].by /\ [v3[m] EXCEPT !.shown = s].shown = s
        /\ [v3[m] EXCEPT !.shown = s].crossed = v3[m].crossed
    BY <2>1 DEF Talk!Message
  <2> QED BY <2>2, <2>4, <2>5, <2>6
<1>3. UNCHANGED <<v1, v2, v4, v5, v6, v7, v8, v10>> /\ v9' = [v9 EXCEPT ![k] = None] /\ Talk!Op(k, "ANSWER")
  BY DEF Talk!Answer
<1>4. Talk!TypeOK' /\ v9' \in [A -> TalkCall]
  <2>1. v3' \in [C -> Talk!Message]
    BY <1>0, <1>2 DEF Talk!TypeOK
  <2>2. v9' \in [A -> TalkCall]
    BY <1>0, <1>3 DEF TalkCall
  <2> QED BY <1>0, <1>3, <2>1, <2>2 DEF Talk!TypeOK
<1>5. \A n \in C : v3'[n] = IF n = m THEN r ELSE v3[n]
  BY <1>0, <1>2 DEF Talk!TypeOK
<1>6. /\ v9'[k] = None
      /\ \A j \in A \ {k} : v9'[j] = v9[j]
      /\ \A j \in A \ {k} : \A n \in C : Talk!Holds(j, n)' <=> Talk!Holds(j, n)
      /\ \A j \in A \ {k} : \A s \in {"WRITE", "ANSWER"} : Talk!Op(j, s)' <=> Talk!Op(j, s)
  BY <1>0, <1>3, TalkMoved
<1>7. \A n \in C : ~Talk!Holds(k, n)'
  BY <1>6 DEF Talk!Holds, Talk!Op
<1>8. Talk!InHand(m)
  BY <1>1 DEF Talk!Holds, Talk!InHand
<1>9. ASSUME NEW n \in C PROVE TalkMessage(n)'
  <2>1. CASE n # m
    BY <1>0, <1>3, <1>5, <1>6, <1>7, <2>1, TalkSame
  <2>2. CASE n = m
    <3>1. v3'[m].by = v3[m].by /\ v3'[m].crossed = v3[m].crossed /\ v3[m].by # None /\ v2 # None
      BY <1>0, <1>2, <1>5, <1>8 DEF TalkMessage
    <3>2. v3'[m].shown = IF v3[m].shown # "PENDING" THEN v3[m].shown
                         ELSE IF v9[k].answer = "OK" THEN "SENT" ELSE "REFUSED"
      BY <1>2, <1>5
    <3>3. v9[k].answer = "OK" => m \in v4
      BY <1>0, <1>1 DEF TalkMessage
    <3>4. v3'[m].shown = "SENT" => m \in v4
      BY <1>0, <3>2, <3>3 DEF TalkMessage
    <3>5. \A j \in A : Talk!Holds(j, m)' => Talk!Holds(j, m) /\ v9'[j] = v9[j]
      BY <1>6, <1>7
    <3>6. /\ m \in v4 /\ v3[m].by # "seller" => v7[<<m, "seller">>] = 1
          /\ \A u \in Talk!Users : v7[<<m, u>>] <= (IF m \in v4 /\ v3[m].by # u THEN 1 ELSE 0)
          /\ \A j \in A : Talk!Holds(j, m) /\ v9[j].answer = "OK" => m \in v4
          /\ \A j \in A : Talk!Holds(j, m) /\ v9[j].answer = "STORE" => m \in v5
      BY <1>0 DEF TalkMessage
    <3>7. CASE v3[m].by \in B
      <4>1. v9[k].answer = v6[m] /\ (v6[m] = "OK" <=> m \in v4)
        BY <1>0, <1>1, <1>3, <3>7 DEF TalkMessage
      <4>2. /\ v3[m].shown = "SENT" => v6[m] = "OK"
            /\ v3[m].shown = "REFUSED" => v6[m] = "REFUSED"
            /\ \A j \in A : Talk!Holds(j, m) /\ Talk!Op(j, "ANSWER") => v9[j].answer = v6[m]
        BY <1>0, <3>7 DEF TalkMessage
      <4>3. /\ v3'[m].shown = "SENT" => v6[m] = "OK"
            /\ v3'[m].shown = "REFUSED" => v6[m] = "REFUSED"
        BY <1>1, <3>2, <4>1, <4>2
      <4>4. \A j \in A : Talk!Holds(j, m)' /\ Talk!Op(j, "ANSWER")' => v9'[j].answer = v6[m]
        BY <1>6, <1>7, <4>2
      <4> QED BY <1>3, <2>2, <3>1, <3>4, <3>5, <3>6, <3>7, <4>1, <4>3, <4>4 DEF TalkMessage
    <3>8. CASE v3[m].by \notin B
      <4>1. v6[m] = None
        BY <1>0, <3>8 DEF TalkMessage
      <4>2. ASSUME ~v3'[m].crossed
            PROVE  /\ \A j \in A : ~Talk!Holds(j, m)'
                   /\ v3'[m].shown = "REFUSED" => m \notin v4
        <5>1. /\ \A j \in A : Talk!Holds(j, m) /\ Talk!Holds(k, m) => j = k
              /\ v3[m].shown \notin {"SENT", "REFUSED"}
              /\ v9[k].answer = "REFUSED" => m \notin v4
          BY <1>0, <1>1, <1>8, <3>1, <3>8, <4>2 DEF TalkMessage
        <5> QED BY <1>1, <1>6, <1>7, <3>2, <5>1
      <4>3. ~v3'[m].crossed => ~Talk!InHand(m)'
        BY <4>2 DEF Talk!InHand, Talk!Holds
      <4> QED BY <1>3, <2>2, <3>1, <3>4, <3>5, <3>6, <3>8, <4>1, <4>2, <4>3 DEF TalkMessage
    <3> QED BY <3>7, <3>8
  <2> QED BY <2>1, <2>2
<1> QED BY <1>4, <1>9, TalkByMessageNext

\* A commit undone by a unique id: only the phone is answered, with what was stored.
LEMMA TalkClash ==
  ASSUME Talk!ChatInv, Talk!ChatAssumption, NEW k \in A, Talk!Commit(k), Talk!Clashes(k, v9[k].msg)
  PROVE  Talk!ChatInv'
<1>0. /\ Talk!TypeOK /\ v9 \in [A -> TalkCall] /\ (\A n \in C : TalkMessage(n)) /\ None \notin Talk!Users
      /\ None \notin {"OK", "REFUSED"}
  BY TalkByMessage DEF Talk!ChatAssumption
<1>1. PICK m \in C : m = v9[k].msg /\ Talk!Holds(k, m)
  BY <1>0, TalkHeld DEF Talk!Commit, Talk!WriteCall, Talk!Holds
<1>2. UNCHANGED <<v1, v2, v3, v4, v5, v6, v7, v8, v10>>
  BY DEF Talk!Commit
<1>3. Talk!TypeOK'
  BY <1>0, <1>2 DEF Talk!TypeOK
<1>4. CASE v6[m] = None
  <2>1. v9' = [v9 EXCEPT ![k] = None]
    BY <1>1, <1>4 DEF Talk!Commit
  <2> QED BY <1>2, <1>3, <2>1, TalkUndisturbed
<1>5. CASE v6[m] # None
  <2>1. v9' = [v9 EXCEPT ![k] = [step |-> "ANSWER", msg |-> m, answer |-> v6[m]]]
    BY <1>1, <1>5 DEF Talk!Commit
  <2>2. PICK c : c = [step |-> "ANSWER", msg |-> m, answer |-> v6[m]]
    OBVIOUS
  <2>3. v6[m] \in {"OK", "REFUSED"}
    BY <1>0, <1>5 DEF Talk!TypeOK
  <2>4. c \in Talk!AnswerCall /\ c.msg = m /\ c.answer = v6[m]
    BY <2>2, <2>3 DEF Talk!AnswerCall
  <2>5. v9' \in [A -> TalkCall]
    BY <1>0, <2>1, <2>2, <2>4 DEF TalkCall
  <2>6. /\ v9'[k] = c
        /\ \A j \in A \ {k} : v9'[j] = v9[j]
        /\ \A j \in A \ {k} : \A n \in C : Talk!Holds(j, n)' <=> Talk!Holds(j, n)
        /\ \A j \in A \ {k} : \A s \in {"WRITE", "ANSWER"} : Talk!Op(j, s)' <=> Talk!Op(j, s)
    BY <1>0, <2>1, <2>2, TalkMoved
  <2>7. \A n \in C : n # m => ~Talk!Holds(k, n)'
    BY <2>4, <2>6 DEF Talk!Holds
  <2>8. v3[m].by \in B
    BY <1>0, <1>5 DEF TalkMessage
  <2>9. ASSUME NEW n \in C PROVE TalkMessage(n)'
    <3>1. CASE n # m
      BY <1>0, <1>2, <2>6, <2>7, <3>1, TalkSame
    <3>2. CASE n = m
      <4>1. v6[m] = "OK" <=> m \in v4
        BY <1>0, <2>8 DEF TalkMessage
      <4>2. ASSUME NEW j \in A, Talk!Holds(j, m)', Talk!Op(j, "ANSWER")' PROVE v9'[j].answer = v6[m]
        <5>1. CASE j = k
          BY <2>4, <2>6, <5>1
        <5>2. CASE j # k
          BY <1>0, <2>6, <2>8, <4>2, <5>2 DEF TalkMessage
        <5> QED BY <5>1, <5>2
      <4>3. ASSUME NEW j \in A, Talk!Holds(j, m)', v9'[j].answer = "OK" PROVE m \in v4
        <5>1. CASE j = k
          BY <2>4, <2>6, <4>1, <4>3, <5>1
        <5>2. CASE j # k
          BY <1>0, <2>6, <4>3, <5>2 DEF TalkMessage
        <5> QED BY <5>1, <5>2
      <4>4. /\ v3[m].by # None => v2 # None
            /\ v3[m].shown = "SENT" => v6[m] = "OK" /\ m \in v4
            /\ v3[m].shown = "REFUSED" => v6[m] = "REFUSED"
            /\ \A j \in A : Talk!Holds(j, m) /\ v9[j].answer = "STORE" => m \in v5
            /\ m \in v4 /\ v3[m].by # "seller" => v7[<<m, "seller">>] = 1
            /\ \A u \in Talk!Users : v7[<<m, u>>] <= (IF m \in v4 /\ v3[m].by # u THEN 1 ELSE 0)
        BY <1>0, <2>8 DEF TalkMessage
      <4>5. v3[m].by # None
        BY <1>0, <2>8 DEF Talk!Users
      <4>6. \A j \in A : Talk!Holds(j, m)' /\ v9'[j].answer = "STORE" => m \in v5
        BY <2>3, <2>4, <2>6, <4>4
      <4> QED BY <1>2, <2>8, <3>2, <4>1, <4>2, <4>3, <4>4, <4>5, <4>6 DEF TalkMessage
    <3> QED BY <3>1, <3>2
  <2> QED BY <1>3, <2>5, <2>9, TalkByMessageNext
<1> QED BY <1>4, <1>5

(* What storing a message tells: its seller once, unless he wrote it, each other    *)
(* at most once, and nobody of another message.                               *)
LEMMA TalkTold ==
  ASSUME Talk!TypeOK, Talk!ChatAssumption, NEW k \in A, NEW m \in C, Talk!StoreMessage(k, m),
         \A u \in Talk!Users : v7[<<m, u>>] <= 0, v3[m].by \in Talk!Users
  PROVE  /\ v7' \in [C \X Talk!Users -> 0..2] /\ v8' \in [Talk!Users -> SUBSET C]
         /\ v3[m].by # "seller" => v7'[<<m, "seller">>] = 1
         /\ \A u \in Talk!Users : v7'[<<m, u>>] <= (IF v3[m].by # u THEN 1 ELSE 0)
         /\ \A n \in C : n # m => \A u \in Talk!Users : v7'[<<n, u>>] = v7[<<n, u>>]
<1>1. /\ v7' = [x \in C \X Talk!Users |->
                  IF x[1] = m /\ x[2] \in Talk!Others(k, m) THEN Talk!Two(v7[x]) ELSE v7[x]]
      /\ v8' = [v8 EXCEPT ![v3[m].by] = v5]
  BY DEF Talk!StoreMessage
<1>2. v7 \in [C \X Talk!Users -> 0..2] /\ v8 \in [Talk!Users -> SUBSET C] /\ v5 \in SUBSET C
  BY DEF Talk!TypeOK
<1>3. \A i \in 0..2 : Talk!Two(i) \in 0..2
  BY DEF Talk!Two
<1>4. v7' \in [C \X Talk!Users -> 0..2]
  BY <1>1, <1>2, <1>3
<1>5. \A n \in C, u \in Talk!Users :
        v7'[<<n, u>>] = IF n = m /\ u \in Talk!Others(k, m) THEN Talk!Two(v7[<<n, u>>]) ELSE v7[<<n, u>>]
  <2> SUFFICES ASSUME NEW n \in C, NEW u \in Talk!Users
               PROVE v7'[<<n, u>>] = IF n = m /\ u \in Talk!Others(k, m) THEN Talk!Two(v7[<<n, u>>]) ELSE v7[<<n, u>>]
    OBVIOUS
  <2>1. <<n, u>> \in C \X Talk!Users /\ <<n, u>>[1] = n /\ <<n, u>>[2] = u
    OBVIOUS
  <2> QED BY <1>1, <2>1
<1>6. \A u \in Talk!Users : v7[<<m, u>>] = 0
  <2> SUFFICES ASSUME NEW u \in Talk!Users PROVE v7[<<m, u>>] = 0
    OBVIOUS
  <2>1. <<m, u>> \in C \X Talk!Users
    OBVIOUS
  <2>2. v7[<<m, u>>] \in 0..2 /\ v7[<<m, u>>] <= 0
    BY <1>2, <2>1
  <2> QED BY <2>2
<1>7. Talk!Two(0) = 1
  BY DEF Talk!Two
<1>8. /\ v3[m].by \notin Talk!Others(k, m) /\ "seller" \in Talk!Users
      /\ v3[m].by # "seller" => "seller" \in Talk!Others(k, m)
  BY DEF Talk!Others, Talk!Users
<1>9. \A u \in Talk!Users : v7'[<<m, u>>] = IF u \in Talk!Others(k, m) THEN 1 ELSE 0
  BY <1>5, <1>6, <1>7
<1>10. v8' \in [Talk!Users -> SUBSET C]
  BY <1>1, <1>2
<1>11. v3[m].by # "seller" => v7'[<<m, "seller">>] = 1
  BY <1>8, <1>9
<1>12. \A u \in Talk!Users : v7'[<<m, u>>] <= (IF v3[m].by # u THEN 1 ELSE 0)
  BY <1>8, <1>9
<1>13. \A n \in C : n # m => \A u \in Talk!Users : v7'[<<n, u>>] = v7[<<n, u>>]
  BY <1>5
<1> QED BY <1>4, <1>10, <1>11, <1>12, <1>13

(* Committed: the message stored, or its answer alone; with it the operation of    *)
(* the livreur's phone.                                                      *)
LEMMA TalkCommitted ==
  ASSUME Talk!ChatInv, Talk!ChatAssumption, NEW k \in A, Talk!Commit(k), ~Talk!Clashes(k, v9[k].msg)
  PROVE  Talk!ChatInv'
<1>0. /\ Talk!TypeOK /\ v9 \in [A -> TalkCall] /\ (\A n \in C : TalkMessage(n)) /\ None \notin Talk!Users
      /\ None \notin {"OK", "REFUSED"}
  BY TalkByMessage DEF Talk!ChatAssumption
<1>1. PICK m \in C : m = v9[k].msg /\ Talk!Holds(k, m) /\ v9[k].answer \in {"STORE", "OK", "REFUSED"}
  BY <1>0, TalkHeld DEF Talk!Commit, Talk!WriteCall, Talk!Holds
<1>2. v6[m] = None /\ (v9[k].answer = "STORE" => m \notin v4)
  BY <1>1 DEF Talk!Clashes
<1>3. PICK f \in {"OK", "REFUSED"} : f = IF v9[k].answer = "STORE" THEN "OK" ELSE v9[k].answer
  BY <1>1
<1>4. /\ UNCHANGED <<v1, v2, v3, v5, v10>>
      /\ v9' = [v9 EXCEPT ![k] = [step |-> "ANSWER", msg |-> m, answer |-> f]]
      /\ v6' = (IF v3[m].by \in B THEN [v6 EXCEPT ![m] = f] ELSE v6)
      /\ IF v9[k].answer = "STORE" THEN Talk!StoreMessage(k, m) ELSE UNCHANGED <<v4, v7, v8>>
  BY <1>1, <1>3 DEF Talk!Commit
<1>5. PICK c : c = [step |-> "ANSWER", msg |-> m, answer |-> f]
  OBVIOUS
<1>6. c \in Talk!AnswerCall /\ c.msg = m /\ c.answer = f
  BY <1>5 DEF Talk!AnswerCall
<1>7. /\ v9'[k] = c
      /\ \A j \in A \ {k} : v9'[j] = v9[j]
      /\ \A j \in A \ {k} : \A n \in C : Talk!Holds(j, n)' <=> Talk!Holds(j, n)
      /\ \A j \in A \ {k} : \A s \in {"WRITE", "ANSWER"} : Talk!Op(j, s)' <=> Talk!Op(j, s)
  BY <1>0, <1>4, <1>5, TalkMoved
<1>8. \A n \in C : n # m => ~Talk!Holds(k, n)'
  BY <1>6, <1>7 DEF Talk!Holds
<1>9. Talk!InHand(m) /\ v3[m].by \in Talk!Users /\ v2 # None
  <2>1. Talk!InHand(m)
    BY <1>1 DEF Talk!InHand, Talk!Holds
  <2>2. v3[m].by # None /\ v2 # None
    BY <1>0, <2>1 DEF TalkMessage
  <2>3. v3[m].by \in Talk!Users \cup {None}
    BY <1>0 DEF Talk!TypeOK, Talk!Message
  <2> QED BY <2>1, <2>2, <2>3
<1>10. m \notin v4 => \A u \in Talk!Users : v7[<<m, u>>] <= 0
  BY <1>0 DEF TalkMessage
\* What the commit stores and tells.
<1>11. /\ v4' = (IF v9[k].answer = "STORE" THEN v4 \cup {m} ELSE v4)
       /\ v7' \in [C \X Talk!Users -> 0..2] /\ v8' \in [Talk!Users -> SUBSET C]
       /\ \A n \in C : n # m => \A u \in Talk!Users : v7'[<<n, u>>] = v7[<<n, u>>]
       /\ m \in v4' /\ v3[m].by # "seller" => v7'[<<m, "seller">>] = 1
       /\ \A u \in Talk!Users : v7'[<<m, u>>] <= (IF m \in v4' /\ v3[m].by # u THEN 1 ELSE 0)
  <2>1. CASE v9[k].answer = "STORE"
    <3>1. Talk!StoreMessage(k, m) /\ v4' = v4 \cup {m}
      BY <1>4, <2>1 DEF Talk!StoreMessage
    <3>2. \A u \in Talk!Users : v7[<<m, u>>] <= 0
      BY <1>2, <1>10, <2>1
    <3> QED BY <1>0, <1>9, <2>1, <3>1, <3>2, TalkTold
  <2>2. CASE v9[k].answer # "STORE"
    <3>1. UNCHANGED <<v4, v7, v8>>
      BY <1>4, <2>2
    <3>2. /\ m \in v4 /\ v3[m].by # "seller" => v7[<<m, "seller">>] = 1
          /\ \A u \in Talk!Users : v7[<<m, u>>] <= (IF m \in v4 /\ v3[m].by # u THEN 1 ELSE 0)
      BY <1>0 DEF TalkMessage
    <3> QED BY <1>0, <2>2, <3>1, <3>2 DEF Talk!TypeOK
  <2> QED BY <2>1, <2>2
<1>12. v4' \subseteq v5' /\ (\A j \in A : Talk!Holds(j, m) /\ v9[j].answer = "STORE" => m \in v5)
  BY <1>0, <1>1, <1>4, <1>11 DEF TalkMessage, Talk!TypeOK
<1>13. Talk!TypeOK' /\ v9' \in [A -> TalkCall]
  <2>1. v6' \in [C -> {None, "OK", "REFUSED"}]
    BY <1>0, <1>4 DEF Talk!TypeOK
  <2>2. v9' \in [A -> TalkCall]
    BY <1>0, <1>4, <1>5, <1>6 DEF TalkCall
  <2> QED BY <1>0, <1>4, <1>11, <1>12, <2>1, <2>2 DEF Talk!TypeOK
<1>14. \A n \in C : v6'[n] = IF n = m /\ v3[m].by \in B THEN f ELSE v6[n]
  BY <1>0, <1>4 DEF Talk!TypeOK
\* Those that hold the message, and what they answer.
<1>15. /\ v9[k].answer = "OK" => m \in v4
       /\ \A j \in A \ {k} : Talk!Holds(j, m) /\ v9[j].answer = "OK" => m \in v4
       /\ v3[m].shown = "SENT" => m \in v4
  BY <1>0, <1>1 DEF TalkMessage
<1>16. f = "OK" => m \in v4'
  BY <1>3, <1>11, <1>15
<1>17. \A j \in A : Talk!Holds(j, m)' /\ v9'[j].answer = "OK" => m \in v4'
  BY <1>6, <1>7, <1>11, <1>15, <1>16
<1>18. \A j \in A : Talk!Holds(j, m)' /\ v9'[j].answer = "STORE" => m \in v5'
  BY <1>3, <1>4, <1>6, <1>7, <1>12
<1>19. v3[m].by # None
  BY <1>0, <1>9
<1>20. ASSUME v3[m].by \in B PROVE TalkMessage(m)'
  <2>1. /\ m \notin v4 /\ v3[m].shown \notin {"SENT", "REFUSED"}
        /\ \A j \in A : Talk!Holds(j, m) /\ Talk!Op(j, "ANSWER") => v9[j].answer = None
    BY <1>0, <1>2, <1>20 DEF TalkMessage
  <2>2. \A j \in A : ~(Talk!Holds(j, m) /\ Talk!Op(j, "ANSWER"))
    BY <1>0, <2>1, TalkHeld DEF Talk!AnswerCall
  <2>3. f = "OK" <=> m \in v4'
    <3>1. v9[k].answer # "OK"
      BY <1>15, <2>1
    <3> QED BY <1>3, <1>11, <1>16, <2>1, <3>1
  <2>4. \A j \in A : Talk!Holds(j, m)' /\ Talk!Op(j, "ANSWER")' => v9'[j].answer = f
    BY <1>6, <1>7, <2>2
  <2> QED
    BY <1>4, <1>9, <1>11, <1>14, <1>17, <1>18, <1>19, <1>20, <2>1, <2>3, <2>4 DEF TalkMessage
<1>21. ASSUME v3[m].by \notin B PROVE TalkMessage(m)'
  <2>1. v6'[m] = None
    BY <1>2, <1>14, <1>21
  <2>2. ASSUME ~v3[m].crossed
        PROVE  /\ \A j \in A : Talk!Holds(j, m) => j = k
               /\ v3[m].shown \notin {"SENT", "REFUSED"}
               /\ v9[k].answer = "REFUSED" => m \notin v4
    BY <1>0, <1>1, <1>9, <1>21, <2>2 DEF TalkMessage
  <2>3. ASSUME ~v3[m].crossed
        PROVE  /\ \A j \in A : Talk!Holds(j, m)' => j = k
               /\ \A j \in A : Talk!Holds(j, m)' /\ v9'[j].answer = "REFUSED" => m \notin v4'
    <3>1. \A j \in A : Talk!Holds(j, m)' => j = k
      BY <1>7, <2>2, <2>3
    <3>2. f = "REFUSED" => m \notin v4'
      BY <1>3, <1>11, <2>2, <2>3
    <3> QED BY <1>6, <1>7, <3>1, <3>2
  <2>4. v3[m].shown = "SENT" => m \in v4'
    BY <1>11, <1>15
  <2> QED BY <1>4, <1>9, <1>11, <1>17, <1>18, <1>19, <1>21, <2>1, <2>2, <2>3, <2>4 DEF TalkMessage
<1>22. ASSUME NEW n \in C, n # m PROVE TalkMessage(n)'
  <2>1. v3'[n] = v3[n] /\ v6'[n] = v6[n] /\ (n \in v4' <=> n \in v4)
    BY <1>4, <1>11, <1>14, <1>22
  <2>2. \A j \in A : Talk!Holds(j, n)' => Talk!Holds(j, n) /\ v9'[j] = v9[j]
    BY <1>7, <1>8, <1>22
  <2> QED BY <1>0, <1>4, <1>9, <1>11, <1>22, <2>1, <2>2, TalkSame
<1>23. TalkMessage(m)'
  BY <1>20, <1>21
<1> QED BY <1>13, <1>22, <1>23, TalkByMessageNext

(* The chat keeps its invariant, whoever writes, sends again or reads.           *)
LEMMA TalkStep ==
  ASSUME Talk!ChatInv, Talk!Next, Talk!ChatAssumption
  PROVE  Talk!ChatInv'
<1>1. ASSUME NEW k \in A, Talk!Commit(k)
      PROVE  Talk!ChatInv'
  BY <1>1, TalkClash, TalkCommitted
<1>2. ASSUME NEW m \in C, NEW u \in Talk!Users, Talk!Write(u, m)
      PROVE  Talk!ChatInv'
  BY <1>2, TalkWrite
<1>3. ASSUME NEW k \in A, Talk!Answer(k) \/ \E m \in C : Talk!Receive(k, m)
      PROVE  Talk!ChatInv'
  BY <1>3, TalkAnswer, TalkReceive
<1>4. ASSUME NEW k \in A, Talk!Lose(k) \/ Talk!markRead(k) \/ \E u \in Talk!Users : Talk!View(k, u)
      PROVE  Talk!ChatInv'
  BY <1>4, TalkReads
<1> QED BY <1>1, <1>2, <1>3, <1>4, TalkParcel DEF Talk!Next

-----------------------------------------------------------------------------
(* What is told is told once *)

ToldInv ==
  /\ moving = "Notices" => Warnings!NoticesInv
  /\ moving = "Days" => Days!NoticesInv
  /\ moving = "Chat" => Talk!ChatInv

\* The notices begin with nothing told and no parcel to verify.
LEMMA NoticesBegin ==
  ASSUME Warnings!NoticesAssumption, Days!NoticesAssumption
  PROVE  /\ Warnings!Init => Warnings!NoticesInv
         /\ Days!Init => Days!NoticesInv
<1>1. ASSUME Warnings!Init PROVE Warnings!NoticesInv
  <2>1. Warnings!TypeOK
    BY <1>1 DEF Warnings!Init, Warnings!TypeOK, Warnings!NoticesAssumption, Warnings!Parcel, Warnings!Idle,
      Warnings!Passes, Warnings!Daily
  <2>2. Warnings!WarningInv /\ Warnings!NearIsWarned
    BY <1>1 DEF Warnings!Init, Warnings!WarningInv, Warnings!NearIsWarned, Warnings!near
  <2>3. Warnings!StoredInv /\ Warnings!ToldOncePerDay
    BY DEF Warnings!StoredInv, Warnings!ToldOncePerDay
  <2> QED BY <2>1, <2>2, <2>3 DEF Warnings!NoticesInv
<1>2. ASSUME Days!Init PROVE Days!NoticesInv
  <2>1. Days!TypeOK
    <3>1. v4 \in [Days!Daily -> SUBSET C]
      BY <1>2 DEF Days!Init
    <3>2. v6 \in [Days!Daily \X C -> 0..2]
      BY <1>2 DEF Days!Init
    <3> QED BY <1>2, <3>1, <3>2 DEF Days!Init, Days!TypeOK, Days!NoticesAssumption, Days!Parcel, Days!Idle, Days!Passes
  <2>2. Days!WarningInv /\ Days!NearIsWarned
    BY DEF Days!WarningInv, Days!NearIsWarned, Days!near
  <2>3. \A x \in Days!Daily \X C : v6[x] = 0
    BY <1>2 DEF Days!Init
  <2>4. Days!ToldOncePerDay
    BY <2>3 DEF Days!ToldOncePerDay
  <2>5. Days!StoredInv
    <3> SUFFICES ASSUME NEW d \in Days!Daily, NEW c \in C, v6[<<d, c>>] > 0 PROVE FALSE
      BY DEF Days!StoredInv
    <3>1. <<d, c>> \in Days!Daily \X C
      OBVIOUS
    <3> QED BY <2>3, <3>1
  <2> QED BY <2>1, <2>2, <2>4, <2>5 DEF Days!NoticesInv
<1> QED BY <1>1, <1>2

\* The chat begins with nothing written.
LEMMA TalkBegins ==
  ASSUME Talk!ChatAssumption, Talk!Init
  PROVE  Talk!ChatInv
<1>1. Talk!TypeOK /\ v9 \in [A -> TalkCall]
  BY DEF Talk!Init, Talk!TypeOK, Talk!ChatAssumption, Talk!Message, TalkCall
<1>2. \A k \in A, m \in C : ~Talk!Holds(k, m)
  BY DEF Talk!Init, Talk!Holds, Talk!Op
<1>3. ASSUME NEW m \in C PROVE TalkMessage(m)
  <2>1. /\ v3[m].by = None /\ v3[m].shown = "NO" /\ m \notin v4 /\ v6[m] = None
        /\ v6[m] # "OK" /\ v3[m].by \notin B
    BY DEF Talk!Init, Talk!ChatAssumption, Talk!Users
  <2>2. \A u \in Talk!Users : v7[<<m, u>>] = 0
    <3> SUFFICES ASSUME NEW u \in Talk!Users PROVE v7[<<m, u>>] = 0
      OBVIOUS
    <3>1. <<m, u>> \in C \X Talk!Users
      OBVIOUS
    <3> QED BY <3>1 DEF Talk!Init
  <2>3. ~Talk!InHand(m)
    BY <1>2 DEF Talk!InHand, Talk!Holds
  <2>4. \A u \in Talk!Users : v7[<<m, u>>] <= 0
    BY <2>2
  <2> QED BY <1>2, <2>1, <2>3, <2>4 DEF TalkMessage
<1> QED BY <1>1, <1>3, TalkByMessage

(* The inductive invariant of the notices and of the chat always holds. *)
THEOREM AlwaysToldInv == Spec => []ToldInv
<1>0. Warnings!NoticesAssumption /\ Days!NoticesAssumption /\ Talk!ChatAssumption
  <2>1. [c \in {} |-> "name"] \in [{} -> STRING]
    OBVIOUS
  <2> QED BY <2>1, OfficeAssumption DEF OfficeAssumption, Days!NoticesAssumption, Warnings!NoticesAssumption
<1>1. Init => ToldInv
  BY <1>0, NoticesBegin, TalkBegins DEF Init, ToldInv
<1>2. ToldInv /\ [Next]_vars => ToldInv'
  <2> SUFFICES ASSUME ToldInv, [Next]_vars PROVE ToldInv'
    OBVIOUS
  <2>0. moving' = moving
    BY DEF Next, vars
  <2>1. CASE moving = "Notices"
    <3>1. CASE Warnings!Next
      BY <1>0, <2>0, <2>1, <3>1, WarningsStep DEF ToldInv
    <3>2. CASE UNCHANGED vars
      BY <2>1, <3>2 DEF ToldInv, vars, Warnings!NoticesInv, Warnings!TypeOK, Warnings!WarningInv,
        Warnings!StoredInv, Warnings!ToldOncePerDay, Warnings!NearIsWarned, Warnings!near
    <3> QED BY <2>1, <3>1, <3>2 DEF Next
  <2>2. CASE moving = "Days"
    <3>1. CASE Days!Next
      BY <1>0, <2>0, <2>2, <3>1, DaysStep DEF ToldInv
    <3>2. CASE UNCHANGED vars
      BY <2>2, <3>2 DEF ToldInv, vars, Days!NoticesInv, Days!TypeOK, Days!WarningInv,
        Days!StoredInv, Days!ToldOncePerDay, Days!NearIsWarned, Days!near, Days!hasNotice, Days!Key
    <3> QED BY <2>2, <3>1, <3>2 DEF Next
  <2>3. CASE moving = "Chat"
    <3>1. CASE Talk!Next
      BY <1>0, <2>0, <2>3, <3>1, TalkStep DEF ToldInv
    <3>2. CASE UNCHANGED vars
      <4>1. Talk!ChatInv
        BY <2>3 DEF ToldInv
      <4>2. Talk!TypeOK'
        BY <3>2, <4>1 DEF vars, Talk!ChatInv, Talk!TypeOK
      <4> QED BY <1>0, <2>0, <2>3, <3>2, <4>1, <4>2, TalkUndisturbed DEF ToldInv, vars
    <3> QED BY <2>3, <3>1, <3>2 DEF Next
  <2>4. CASE moving \notin {"Notices", "Days", "Chat"}
    BY <2>0, <2>4 DEF ToldInv
  <2> QED BY <2>1, <2>2, <2>3, <2>4
<1> QED BY <1>1, <1>2, PTL DEF Spec

\* A message's answer and its notices, from what the invariant says of it.
LEMMA TalkAnswered ==
  ASSUME Talk!ChatInv
  PROVE  Talk!AnsweredAsStored /\ Talk!ToldOnce
<1>1. Talk!ToldOnce
  BY DEF Talk!ChatInv
<1>2. ASSUME NEW m \in C
      PROVE  /\ v3[m].shown = "SENT" => m \in v4
             /\ v3[m].shown = "REFUSED" => m \notin v4 \/ (v3[m].crossed /\ v3[m].by \notin B)
  BY TalkByMessage DEF TalkMessage
<1> QED BY <1>1, <1>2 DEF Talk!AnsweredAsStored

(* A failure is warned of once, and in time, while the setting stands; whatever a    *)
(* pass that failed or a restart forgot, nobody is told the same thing twice in a   *)
(* day; and a message is shown as it was stored, through lost answers and copies.  *)
THEOREM ToldOnceOnly == Spec => []ToldOnce
<1>1. ToldInv => ToldOnce
  <2>1. Warnings!NoticesInv /\ v9 = 0 => Warnings!WarnedOncePerFailure /\ Warnings!NearIsWarned
    <3> SUFFICES ASSUME Warnings!NoticesInv, v9 = 0, NEW p \in C PROVE v3[p].warned <= 1
      BY DEF Warnings!NoticesInv, Warnings!WarnedOncePerFailure
    <3> QED BY DEF Warnings!NoticesInv, Warnings!WarningInv
  <2>2. Days!NoticesInv => Days!ToldOncePerDay
    BY DEF Days!NoticesInv
  <2> QED BY <2>1, <2>2, TalkAnswered DEF ToldInv, ToldOnce
<1> QED BY <1>1, AlwaysToldInv, PTL


-----------------------------------------------------------------------------
(* The session: v1 is now, v2 row, v3 issued, v4 recent, v5 jar, v6 call, v9      *)
(* faults.                                                                  *)

\* What holds of an open session while nothing failed.
StaysIn == Tabs2!SessionTypes /\ Tabs2!WindowInv /\ Tabs2!RefreshInv /\ Tabs2!JarInv

\* The session first.
LEMMA SessionFirst ==
  ASSUME Tabs2!SessionsAssumption, Tabs2!Init
  PROVE  Tabs2!SessionInv
<1> MaxTokens \in Nat
  BY DEF Tabs2!SessionsAssumption
<1>1. /\ v1 = 0 /\ v2 = [token |-> 0, previous |-> None, revoked |-> None] /\ v3 = 0
      /\ v4 = [t \in Tabs2!Tokens |-> None] /\ v5 = [token |-> 0, freshTo |-> 0]
      /\ v6 = [t \in A |-> None] /\ v9 = 0 /\ 0 \in Tabs2!Tokens
  BY DEF Tabs2!Init, Tabs2!Tokens
<1>2. Tabs2!UnderWay = {}
  BY <1>1 DEF Tabs2!UnderWay
<1>3. Tabs2!Drawing = {} /\ Tabs2!Replaced = {} /\ Tabs2!Current = {}
  BY <1>2 DEF Tabs2!Drawing, Tabs2!Replaced, Tabs2!Current
<1>4. Tabs2!SessionTypes
  BY <1>1 DEF Tabs2!SessionTypes
<1>5. Tabs2!WindowInv /\ Tabs2!RefreshInv /\ Tabs2!JarInv
  BY <1>1, <1>2, <1>3 DEF Tabs2!WindowInv, Tabs2!RefreshInv, Tabs2!JarInv
<1>6. v2.revoked # "REUTILISATION"
  BY <1>1 DEF Tabs2!SessionsAssumption
<1> QED BY <1>1, <1>4, <1>5, <1>6 DEF Tabs2!SessionInv


\* The refreshes when the one of a tab becomes another.
LEMMA RefreshMoves ==
  ASSUME StaysIn, NEW t \in A, NEW n \in Tabs2!Refresh \cup Tabs2!Answered, n # None,
         v6' = [v6 EXCEPT ![t] = n]
  PROVE  /\ v6'[t] = n /\ \A u \in A : u # t => v6'[u] = v6[u]
         /\ v6' \in [A -> Tabs2!Refresh \cup Tabs2!Answered \cup {None}]
         /\ t \in Tabs2!UnderWay'
         /\ \A u \in A : u # t => (u \in Tabs2!UnderWay' <=> u \in Tabs2!UnderWay)
<1>1. v6 \in [A -> Tabs2!Refresh \cup Tabs2!Answered \cup {None}]
  BY DEF StaysIn, Tabs2!SessionTypes
<1>2. /\ v6'[t] = n /\ \A u \in A : u # t => v6'[u] = v6[u]
      /\ v6' \in [A -> Tabs2!Refresh \cup Tabs2!Answered \cup {None}]
  BY <1>1
<1> QED BY <1>2 DEF Tabs2!UnderWay

\* What it says of one refresh.
LEMMA RefreshFacts ==
  ASSUME Tabs2!SessionsAssumption, StaysIn, NEW t \in Tabs2!UnderWay
  PROVE  /\ t \in A /\ v6[t] \in Tabs2!Refresh \cup Tabs2!Answered /\ v6[t] # None
         /\ v6[t].token \in {v3 - 1, v3} /\ v6[t].token \in Tabs2!Tokens
         /\ v6[t].since \in {v1 - 1, v1} /\ v6[t].since \in Nat /\ v1 \in Nat /\ v3 \in Tabs2!Tokens
         /\ v6[t].token = v3 - 1 <=> t \in Tabs2!Replaced
         /\ v6[t].token = v3 <=> t \in Tabs2!Current
<1> MaxTokens \in Nat
  BY DEF Tabs2!SessionsAssumption
<1>1. /\ v6 \in [A -> Tabs2!Refresh \cup Tabs2!Answered \cup {None}] /\ t \in A /\ v6[t] # None
      /\ v1 \in Nat /\ v3 \in Tabs2!Tokens
  BY DEF StaysIn, Tabs2!SessionTypes, Tabs2!UnderWay
<1>2. v6[t] \in Tabs2!Refresh \cup Tabs2!Answered
  BY <1>1
<1>3. v6[t].token \in Tabs2!Tokens /\ v6[t].since \in Nat
  BY <1>2 DEF Tabs2!Refresh, Tabs2!Answered
<1>4. v6[t].since \in {v1 - 1, v1} /\ t \in Tabs2!Replaced \cup Tabs2!Current
  BY DEF StaysIn, Tabs2!RefreshInv
<1> QED BY <1>1, <1>2, <1>3, <1>4 DEF Tabs2!Replaced, Tabs2!Current

(* A tab presents the token of the browser: the last, when no answer is on its way,  *)
(* or the one before, early enough in its window.                              *)
LEMMA SessionSend ==
  ASSUME Tabs2!SessionsAssumption, StaysIn, NEW t \in A, Tabs2!Send(t)
  PROVE  StaysIn'
<1> MaxTokens \in Nat
  BY DEF Tabs2!SessionsAssumption
<1> DEFINE n == [step |-> "SENT", since |-> v1, token |-> v5.token]
<1>0. /\ v6[t] = None /\ v1 >= v5.freshTo /\ v6' = [v6 EXCEPT ![t] = n]
      /\ v1' = v1 /\ v2' = v2 /\ v3' = v3 /\ v4' = v4 /\ v5' = v5
  BY DEF Tabs2!Send
<1>1. /\ v1 \in Nat /\ v3 \in 0..MaxTokens /\ v5.token \in Tabs2!Tokens /\ v5.freshTo \in Nat
      /\ v4 \in [0..MaxTokens -> Tabs2!Rotation \cup {None}]
  BY DEF StaysIn, Tabs2!SessionTypes, Tabs2!Tokens
<1>2. n \in Tabs2!Refresh /\ n # None
  BY <1>1 DEF Tabs2!Refresh, Tabs2!SessionsAssumption
<1>3. n.step = "SENT" /\ n.since = v1 /\ n.token = v5.token
  OBVIOUS
<1>4. t \notin Tabs2!UnderWay
  BY <1>0 DEF Tabs2!UnderWay
<1> HIDE DEF n
<1>5. /\ v6'[t] = n /\ \A u \in A : u # t => v6'[u] = v6[u]
      /\ v6' \in [A -> Tabs2!Refresh \cup Tabs2!Answered \cup {None}]
      /\ t \in Tabs2!UnderWay'
      /\ \A u \in A : u # t => (u \in Tabs2!UnderWay' <=> u \in Tabs2!UnderWay)
  BY <1>0, <1>2, RefreshMoves
<1>6. /\ Tabs2!UnderWay' = Tabs2!UnderWay \cup {t} /\ Tabs2!Drawing' = Tabs2!Drawing
      /\ Tabs2!UnderWay' \subseteq A
      /\ \A u \in Tabs2!UnderWay : u # t /\ v6'[u] = v6[u]
  BY <1>3, <1>4, <1>5 DEF Tabs2!UnderWay, Tabs2!Drawing
<1>7. Tabs2!Replaced' = Tabs2!Replaced \cup (IF v5.token = v3 - 1 THEN {t} ELSE {})
      /\ Tabs2!Current' = Tabs2!Current \cup (IF v5.token = v3 THEN {t} ELSE {})
  BY <1>0, <1>3, <1>5, <1>6 DEF Tabs2!Replaced, Tabs2!Current
<1>8. Tabs2!SessionTypes'
  BY <1>0, <1>5 DEF StaysIn, Tabs2!SessionTypes
<1>9. Tabs2!WindowInv'
  BY <1>0, <1>6 DEF StaysIn, Tabs2!WindowInv
<1>10. Tabs2!JarInv'
  <2>1. CASE v5.token = v3 /\ (v3 # 0 => v5.freshTo > v4[v3 - 1].until)
    BY <1>0, <2>1 DEF Tabs2!JarInv
  <2>2. ASSUME v3 # 0, v5.token = v3 - 1, NEW u \in Tabs2!Replaced, v6[u].step = "ANSWER",
               v6[u].since + 3 = v4[v3 - 1].until
        PROVE  Tabs2!JarInv'
    <3>1. u \in Tabs2!Replaced' /\ v6'[u] = v6[u]
      BY <1>6, <1>7 DEF Tabs2!Replaced
    <3> QED BY <1>0, <2>2, <3>1 DEF Tabs2!JarInv, Tabs2!GRACE
  <2> QED BY <2>1, <2>2 DEF StaysIn, Tabs2!JarInv, Tabs2!GRACE
<1>11. Tabs2!RefreshInv'
  <2>1. CASE v5.token = v3 /\ (v3 # 0 => v5.freshTo > v4[v3 - 1].until)
    <3>1. Tabs2!Replaced = {}
      <4> SUFFICES ASSUME NEW u \in Tabs2!Replaced PROVE FALSE
        OBVIOUS
      <4>1. u \in Tabs2!UnderWay /\ v6[u].token = v3 - 1
        BY DEF Tabs2!Replaced
      <4>2. v3 - 1 \in 0..MaxTokens /\ v6[u].since \in {v1 - 1, v1} /\ v6[u].since \in Nat
        BY <4>1, RefreshFacts DEF Tabs2!Tokens
      <4>3. PICK g : g = v4[v3 - 1]
        OBVIOUS
      <4>4. g \in Tabs2!Rotation /\ g.until \in Nat
        BY <1>1, <4>2, <4>3 DEF StaysIn, Tabs2!WindowInv, Tabs2!Rotation
      <4>5. v6[u].since + 1 <= g.until
        BY <4>2, <4>3, <4>4 DEF StaysIn, Tabs2!RefreshInv
      <4> QED BY <1>0, <1>1, <2>1, <4>2, <4>3, <4>4, <4>5
    <3>2. Tabs2!Replaced' = {} /\ Tabs2!Current' = Tabs2!Current \cup {t}
      BY <1>1, <1>7, <2>1, <3>1
    <3> QED BY <1>0, <1>3, <1>5, <1>6, <2>1, <3>1, <3>2 DEF StaysIn, Tabs2!RefreshInv
  <2>2. ASSUME v3 # 0, v5.token = v3 - 1, NEW u \in Tabs2!Replaced, v6[u].step = "ANSWER",
               v6[u].since + 3 = v4[v3 - 1].until
        PROVE  Tabs2!RefreshInv'
    <3>1. v1 + 2 <= v4[v3 - 1].until
      <4>1. v6[u].since \in {v1 - 1, v1}
        BY RefreshFacts DEF Tabs2!Replaced
      <4> QED BY <1>1, <2>2, <4>1
    <3>2. Tabs2!Current = {} /\ Tabs2!Current' = {} /\ Tabs2!Replaced' = Tabs2!Replaced \cup {t}
      BY <1>1, <1>7, <2>2 DEF StaysIn, Tabs2!RefreshInv
    <3> QED BY <1>0, <1>3, <1>5, <1>6, <3>1, <3>2 DEF StaysIn, Tabs2!RefreshInv
  <2> QED BY <2>1, <2>2 DEF StaysIn, Tabs2!JarInv, Tabs2!GRACE
<1> QED BY <1>8, <1>9, <1>10, <1>11 DEF StaysIn


\* A refresh that goes on: what becomes of the sets of refreshes.
LEMMA RefreshGoesOn ==
  ASSUME Tabs2!SessionsAssumption, StaysIn, NEW t \in Tabs2!UnderWay, v6[t].step # "ANSWER",
         NEW step \in {"FIND", "ROTATE", "WAIT", "SHARED"}, v6' = [v6 EXCEPT ![t].step = step], v3' = v3
  PROVE  /\ v6' \in [A -> Tabs2!Refresh \cup Tabs2!Answered \cup {None}]
         /\ v6'[t].step = step /\ v6'[t].since = v6[t].since /\ v6'[t].token = v6[t].token
         /\ \A u \in A : u # t => v6'[u] = v6[u]
         /\ Tabs2!UnderWay' = Tabs2!UnderWay /\ Tabs2!Replaced' = Tabs2!Replaced
         /\ Tabs2!Current' = Tabs2!Current /\ Tabs2!UnderWay \subseteq A
         /\ Tabs2!Drawing' = (Tabs2!Drawing \ {t}) \cup (IF step \in {"FIND", "ROTATE"} THEN {t} ELSE {})
<1>1. PICK c : c = v6[t]
  OBVIOUS
<1>2. t \in A /\ c \in Tabs2!Refresh /\ Tabs2!UnderWay \subseteq A
  <2>1. t \in A /\ c \in Tabs2!Refresh \cup Tabs2!Answered
    BY <1>1, RefreshFacts
  <2>2. c \notin Tabs2!Answered
    BY <1>1 DEF Tabs2!Answered
  <2> QED BY <2>1, <2>2 DEF Tabs2!UnderWay
<1>3. PICK n : n = [c EXCEPT !.step = step]
  OBVIOUS
<1>4. /\ n \in Tabs2!Refresh /\ n.step = step /\ n.since = c.since /\ n.token = c.token /\ n # None
  <2>1. n \in Tabs2!Refresh /\ n.step = step /\ n.since = c.since /\ n.token = c.token
    BY <1>2, <1>3 DEF Tabs2!Refresh
  <2> QED BY <2>1 DEF Tabs2!SessionsAssumption
<1>5. v6' = [v6 EXCEPT ![t] = n]
  BY <1>1, <1>3
<1>6. /\ v6'[t] = n /\ \A u \in A : u # t => v6'[u] = v6[u]
      /\ v6' \in [A -> Tabs2!Refresh \cup Tabs2!Answered \cup {None}]
      /\ t \in Tabs2!UnderWay'
      /\ \A u \in A : u # t => (u \in Tabs2!UnderWay' <=> u \in Tabs2!UnderWay)
  BY <1>2, <1>4, <1>5, RefreshMoves
<1>7. Tabs2!UnderWay' = Tabs2!UnderWay
  BY <1>2, <1>6 DEF Tabs2!UnderWay
<1>8. \A u \in Tabs2!UnderWay : v6'[u].token = v6[u].token /\ (u # t => v6'[u] = v6[u])
  BY <1>1, <1>2, <1>4, <1>6
<1> QED BY <1>1, <1>2, <1>4, <1>6, <1>7, <1>8 DEF Tabs2!Replaced, Tabs2!Current, Tabs2!Drawing

(* A refresh waits, or is shared: nothing else changes, and it has the time it had.   *)
LEMMA SessionWaits ==
  ASSUME Tabs2!SessionsAssumption, StaysIn, NEW t \in Tabs2!UnderWay, v6[t].step = "SENT",
         v6' = [v6 EXCEPT ![t].step = "WAIT"],
         v1' = v1, v2' = v2, v3' = v3, v4' = v4, v5' = v5
  PROVE  StaysIn'
<1>1. /\ v6' \in [A -> Tabs2!Refresh \cup Tabs2!Answered \cup {None}]
      /\ v6'[t].step = "WAIT" /\ v6'[t].since = v6[t].since /\ v6'[t].token = v6[t].token
      /\ \A u \in A : u # t => v6'[u] = v6[u]
      /\ Tabs2!UnderWay' = Tabs2!UnderWay /\ Tabs2!Replaced' = Tabs2!Replaced
      /\ Tabs2!Current' = Tabs2!Current /\ Tabs2!UnderWay \subseteq A
      /\ Tabs2!Drawing' = Tabs2!Drawing \ {t}
  BY RefreshGoesOn
<1>2. Tabs2!Drawing' = Tabs2!Drawing
  BY <1>1 DEF Tabs2!Drawing
<1>3. Tabs2!SessionTypes'
  BY <1>1 DEF StaysIn, Tabs2!SessionTypes
<1>4. Tabs2!WindowInv'
  BY <1>2 DEF StaysIn, Tabs2!WindowInv
<1>5. Tabs2!RefreshInv'
  <2>1. \A u \in Tabs2!UnderWay : /\ v6'[u].since = v6[u].since /\ (u # t => v6'[u] = v6[u])
                                  /\ (v6'[u].step = "ANSWER" <=> v6[u].step = "ANSWER")
                                  /\ v6'[u].step \in {"SHARED", "FIND", "ROTATE"} => v6[u].step = v6'[u].step
    BY <1>1
  <2>2. Tabs2!Replaced \subseteq Tabs2!UnderWay /\ Tabs2!Current \subseteq Tabs2!UnderWay
    BY DEF Tabs2!Replaced, Tabs2!Current
  <2> QED BY <1>1, <2>1, <2>2 DEF StaysIn, Tabs2!RefreshInv
<1>6. Tabs2!JarInv'
  <2>1. \A u \in Tabs2!Replaced : v6[u].step = "ANSWER" => v6'[u] = v6[u]
    BY <1>1 DEF Tabs2!Replaced
  <2> QED BY <1>1, <2>1 DEF StaysIn, Tabs2!JarInv
<1> QED BY <1>3, <1>4, <1>5, <1>6 DEF StaysIn

(* A refresh arrives: of the token before the last, into the window the last          *)
(* rotation is still in; of the last, first of its window or into it.                *)
LEMMA SessionArrive ==
  ASSUME Tabs2!SessionsAssumption, StaysIn, NEW t \in A, Tabs2!Arrive(t)
  PROVE  StaysIn'
<1> MaxTokens \in Nat
  BY DEF Tabs2!SessionsAssumption
<1> DEFINE token == v6[t].token
<1>0. /\ t \in Tabs2!UnderWay /\ v6[t].step = "SENT"
      /\ IF Tabs2!Shares(token) THEN v4' = v4 /\ v6' = [v6 EXCEPT ![t].step = "WAIT"]
         ELSE /\ v4' = [v4 EXCEPT ![token] = [until |-> v1 + 3, result |-> None]]
              /\ v6' = [v6 EXCEPT ![t].step = "FIND"]
      /\ v1' = v1 /\ v2' = v2 /\ v3' = v3 /\ v5' = v5
  BY DEF Tabs2!Arrive, Tabs2!At, Tabs2!UnderWay, Tabs2!GRACE
<1>1. CASE Tabs2!Shares(token)
  BY <1>0, <1>1, SessionWaits
<1>2. CASE ~Tabs2!Shares(token)
  <2>1. /\ v1 \in Nat /\ v3 \in 0..MaxTokens /\ token \in {v3 - 1, v3} /\ token \in 0..MaxTokens
        /\ v6[t].since \in {v1 - 1, v1} /\ v4 \in [0..MaxTokens -> Tabs2!Rotation \cup {None}]
        /\ (token = v3 - 1 <=> t \in Tabs2!Replaced) /\ (token = v3 <=> t \in Tabs2!Current)
    BY <1>0, RefreshFacts DEF StaysIn, Tabs2!SessionTypes, Tabs2!Tokens
  <2>2. token = v3
    <3> SUFFICES ASSUME token = v3 - 1 PROVE FALSE
      BY <2>1
    <3>1. t \in Tabs2!Replaced /\ v3 # 0 /\ v3 - 1 \in 0..MaxTokens
      BY <2>1
    <3>2. PICK g : g = v4[v3 - 1]
      OBVIOUS
    <3>3. g \in Tabs2!Rotation /\ g.until \in Nat /\ g # None
      BY <2>1, <3>1, <3>2 DEF StaysIn, Tabs2!WindowInv, Tabs2!Rotation
    <3>4. v6[t].since + 2 <= g.until
      BY <1>0, <3>1, <3>2 DEF StaysIn, Tabs2!RefreshInv
    <3>5. g.until > v1
      BY <2>1, <3>3, <3>4
    <3> QED BY <1>2, <3>2, <3>3, <3>5 DEF Tabs2!Shares
  <2>3. v4[v3] = None /\ Tabs2!Drawing = {}
    <3>1. v4[v3] = None
      <4> SUFFICES ASSUME v4[v3] # None PROVE FALSE
        OBVIOUS
      <4>1. v4[v3].until = v1 + 3
        BY DEF StaysIn, Tabs2!WindowInv, Tabs2!GRACE
      <4> QED BY <1>2, <2>1, <2>2, <4>1 DEF Tabs2!Shares
    <3> QED BY <3>1 DEF StaysIn, Tabs2!WindowInv
  <2>4. PICK g : g = [until |-> v1 + 3, result |-> None]
    OBVIOUS
  <2>5. g \in Tabs2!Rotation /\ g # None /\ g.until = v1 + 3 /\ g.result = None
    <3>1. g \in Tabs2!Rotation /\ g.until = v1 + 3 /\ g.result = None
      BY <2>1, <2>4 DEF Tabs2!Rotation
    <3> QED BY <3>1 DEF Tabs2!SessionsAssumption
  <2>6. /\ v4' \in [0..MaxTokens -> Tabs2!Rotation \cup {None}] /\ v4'[v3] = g
        /\ \A x \in 0..MaxTokens : x # v3 => v4'[x] = v4[x]
    BY <1>0, <1>2, <2>1, <2>2, <2>4, <2>5
  <2>7. /\ v6' \in [A -> Tabs2!Refresh \cup Tabs2!Answered \cup {None}]
        /\ v6'[t].step = "FIND" /\ v6'[t].since = v6[t].since /\ v6'[t].token = v6[t].token
        /\ \A u \in A : u # t => v6'[u] = v6[u]
        /\ Tabs2!UnderWay' = Tabs2!UnderWay /\ Tabs2!Replaced' = Tabs2!Replaced
        /\ Tabs2!Current' = Tabs2!Current /\ Tabs2!UnderWay \subseteq A
        /\ Tabs2!Drawing' = (Tabs2!Drawing \ {t}) \cup {t}
    BY <1>0, <1>2, RefreshGoesOn
  <2>8. Tabs2!Drawing' = {t}
    BY <2>3, <2>7
  <2>9. Tabs2!SessionTypes'
    BY <1>0, <2>6, <2>7 DEF StaysIn, Tabs2!SessionTypes, Tabs2!Tokens
  <2>10. Tabs2!WindowInv'
    <3>1. v3 # 0 => v4'[v3 - 1] = v4[v3 - 1]
      BY <2>1, <2>6
    <3>2. ASSUME NEW x \in 0..MaxTokens, v4'[x] # None PROVE x <= v3 /\ v4'[x].until <= v1 + 3
      BY <2>1, <2>5, <2>6, <3>2 DEF StaysIn, Tabs2!WindowInv, Tabs2!Tokens, Tabs2!GRACE
    <3> QED BY <1>0, <2>5, <2>6, <2>8, <3>1, <3>2 DEF StaysIn, Tabs2!WindowInv, Tabs2!Tokens, Tabs2!GRACE
  <2>11. Tabs2!Replaced = {} /\ t \in Tabs2!Current /\ v5.token = v3
    BY <2>1, <2>2 DEF StaysIn, Tabs2!RefreshInv
  <2>12. Tabs2!RefreshInv'
    <3>1. \A u \in Tabs2!UnderWay : /\ v6'[u].since = v6[u].since /\ (u # t => v6'[u] = v6[u])
      BY <2>7
    <3>2. Tabs2!Current \subseteq Tabs2!UnderWay
      BY DEF Tabs2!Current
    <3> QED BY <1>0, <2>7, <2>11, <3>1, <3>2 DEF StaysIn, Tabs2!RefreshInv
  <2>13. Tabs2!JarInv'
    <3>1. v3 # 0 => v4'[v3 - 1] = v4[v3 - 1]
      BY <2>1, <2>6
    <3> QED BY <1>0, <2>11, <3>1 DEF StaysIn, Tabs2!JarInv
  <2> QED BY <2>9, <2>10, <2>12, <2>13 DEF StaysIn
<1> QED BY <1>1, <1>2

(* The session of the token is found: it is the last, of an open session.             *)
LEMMA SessionFind ==
  ASSUME Tabs2!SessionsAssumption, StaysIn, NEW t \in A, Tabs2!Find(t)
  PROVE  StaysIn'
<1>0. t \in Tabs2!UnderWay /\ v6[t].step = "FIND" /\ t \in Tabs2!Drawing
  BY DEF Tabs2!Find, Tabs2!At, Tabs2!UnderWay, Tabs2!Drawing
<1>1. v6[t].token = v3 /\ t \in Tabs2!Current
  BY <1>0, RefreshFacts DEF StaysIn, Tabs2!RefreshInv
<1>2. v2.token = v3 /\ v2.revoked = None
  BY DEF StaysIn, Tabs2!SessionTypes
<1>3. /\ v6' = [v6 EXCEPT ![t].step = "ROTATE"] /\ v1' = v1 /\ v2' = v2 /\ v3' = v3 /\ v4' = v4 /\ v5' = v5
  BY <1>1, <1>2 DEF Tabs2!Find
<1>4. /\ v6' \in [A -> Tabs2!Refresh \cup Tabs2!Answered \cup {None}]
      /\ v6'[t].step = "ROTATE" /\ v6'[t].since = v6[t].since /\ v6'[t].token = v6[t].token
      /\ \A u \in A : u # t => v6'[u] = v6[u]
      /\ Tabs2!UnderWay' = Tabs2!UnderWay /\ Tabs2!Replaced' = Tabs2!Replaced
      /\ Tabs2!Current' = Tabs2!Current /\ Tabs2!UnderWay \subseteq A
      /\ Tabs2!Drawing' = (Tabs2!Drawing \ {t}) \cup {t}
  BY <1>0, <1>3, RefreshGoesOn
<1>5. Tabs2!Drawing' = Tabs2!Drawing
  BY <1>0, <1>4
<1>6. Tabs2!SessionTypes'
  BY <1>3, <1>4 DEF StaysIn, Tabs2!SessionTypes
<1>7. Tabs2!WindowInv'
  BY <1>3, <1>5 DEF StaysIn, Tabs2!WindowInv
<1>8. Tabs2!Replaced = {} /\ v5.token = v3
  BY <1>1 DEF StaysIn, Tabs2!RefreshInv
<1>9. Tabs2!RefreshInv'
  <2>1. \A u \in Tabs2!UnderWay : /\ v6'[u].since = v6[u].since /\ (u # t => v6'[u] = v6[u])
    BY <1>4
  <2>2. Tabs2!Current \subseteq Tabs2!UnderWay
    BY DEF Tabs2!Current
  <2> QED BY <1>3, <1>4, <1>8, <2>1, <2>2 DEF StaysIn, Tabs2!RefreshInv
<1>10. Tabs2!JarInv'
  BY <1>3, <1>8 DEF StaysIn, Tabs2!JarInv
<1> QED BY <1>6, <1>7, <1>9, <1>10 DEF StaysIn


(* The token is replaced: every refresh under way presented it, and whoever waited     *)
(* shares the one that takes its place.                                         *)
LEMMA SessionRotate ==
  ASSUME Tabs2!SessionsAssumption, StaysIn, NEW t \in A, Tabs2!Rotate(t)
  PROVE  StaysIn'
<1> MaxTokens \in Nat
  BY DEF Tabs2!SessionsAssumption
<1>0. t \in Tabs2!UnderWay /\ v6[t].step = "ROTATE" /\ t \in Tabs2!Drawing
  BY DEF Tabs2!Rotate, Tabs2!At, Tabs2!UnderWay, Tabs2!Drawing
<1>1. v6[t].token = v3 /\ t \in Tabs2!Current
  BY <1>0, RefreshFacts DEF StaysIn, Tabs2!RefreshInv
<1>2. /\ v1 \in Nat /\ v3 \in 0..MaxTokens /\ v2 \in [token: {v3}, previous: 0..MaxTokens \cup {None}, revoked: {None}]
      /\ v4 \in [0..MaxTokens -> Tabs2!Rotation \cup {None}]
      /\ v6 \in [A -> Tabs2!Refresh \cup Tabs2!Answered \cup {None}]
      /\ v5 \in [token: 0..MaxTokens, freshTo: Nat]
  BY DEF StaysIn, Tabs2!SessionTypes, Tabs2!Tokens
<1>3. PICK a : a = [step |-> "ANSWER", since |-> v1, token |-> v3, gets |-> v3 + 1]
  OBVIOUS
<1>4. Tabs2!CanRotate(v3)
  BY <1>2 DEF Tabs2!CanRotate
<1>5. /\ v3 < MaxTokens /\ v3' = v3 + 1 /\ v2' = [v2 EXCEPT !.token = v3 + 1, !.previous = v3]
      /\ v4' = [v4 EXCEPT ![v3].result = IF v4[v3] = None THEN @ ELSE v3 + 1]
      /\ v6' = [u \in A |-> IF u = t THEN a
                 ELSE IF v6[u] # None /\ v6[u].token = v3 /\ v6[u].step = "WAIT"
                 THEN [v6[u] EXCEPT !.step = "SHARED"] ELSE v6[u]]
      /\ v1' = v1 /\ v5' = v5
  BY <1>1, <1>3, <1>4 DEF Tabs2!Rotate
<1>6. PICK g \in Tabs2!Rotation : g = v4[v3] /\ g.until = v1 + 3 /\ g # None
  BY <1>0, <1>2 DEF StaysIn, Tabs2!WindowInv, Tabs2!GRACE
<1>7. PICK h : h = [until |-> v1 + 3, result |-> v3 + 1]
  OBVIOUS
<1>8. h \in Tabs2!Rotation /\ h # None /\ h.until = v1 + 3 /\ h.result = v3 + 1
  <2>1. h \in Tabs2!Rotation /\ h.until = v1 + 3 /\ h.result = v3 + 1
    BY <1>2, <1>5, <1>7 DEF Tabs2!Rotation, Tabs2!Tokens
  <2> QED BY <2>1 DEF Tabs2!SessionsAssumption
<1>9. v4' = [v4 EXCEPT ![v3] = h]
  <2>1. [g EXCEPT !.result = v3 + 1] = h
    BY <1>6, <1>7 DEF Tabs2!Rotation
  <2>2. v4' = [v4 EXCEPT ![v3] = [g EXCEPT !.result = v3 + 1]]
    BY <1>2, <1>5, <1>6
  <2> QED BY <2>1, <2>2
<1>10. /\ v4' \in [0..MaxTokens -> Tabs2!Rotation \cup {None}] /\ v4'[v3] = h
       /\ \A x \in 0..MaxTokens : x # v3 => v4'[x] = v4[x]
  BY <1>2, <1>8, <1>9
<1>11. a \in Tabs2!Answered /\ a # None /\ a.step = "ANSWER" /\ a.since = v1 /\ a.token = v3 /\ a.gets = v3 + 1
  <2>1. a \in Tabs2!Answered /\ a.step = "ANSWER" /\ a.since = v1 /\ a.token = v3 /\ a.gets = v3 + 1
    BY <1>2, <1>3, <1>5 DEF Tabs2!Answered, Tabs2!Tokens
  <2> QED BY <2>1 DEF Tabs2!SessionsAssumption
<1>12. Tabs2!Replaced = {} /\ v5.token = v3 /\ Tabs2!UnderWay = Tabs2!Current
  BY <1>1 DEF StaysIn, Tabs2!RefreshInv
<1>13. ASSUME NEW u \in A, u # t
       PROVE  /\ v6'[u] \in Tabs2!Refresh \cup {None}
              /\ v6'[u] # None => /\ v6[u] # None /\ v6'[u].token = v3 /\ v6'[u].since = v6[u].since
                                  /\ v6'[u].step \in {"SENT", "SHARED"}
  <2>1. CASE v6[u] = None
    BY <1>5, <1>13, <2>1
  <2>2. CASE v6[u] # None
    <3>1. u \in Tabs2!UnderWay /\ u \in Tabs2!Current
      BY <1>12, <2>2 DEF Tabs2!UnderWay
    <3>2. v6[u] \in Tabs2!Refresh \cup Tabs2!Answered /\ v6[u].token = v3 /\ v6[u].step # "ANSWER" /\ v6[u].step # "SHARED"
      BY <3>1, RefreshFacts DEF StaysIn, Tabs2!RefreshInv
    <3>3. v6[u].step \notin {"FIND", "ROTATE"}
      BY <1>0, <1>13, <3>1 DEF StaysIn, Tabs2!WindowInv, Tabs2!Drawing
    <3>4. v6[u] \in Tabs2!Refresh /\ v6[u].step \in {"SENT", "WAIT"}
      BY <3>2, <3>3 DEF Tabs2!Refresh, Tabs2!Answered
    <3>5. CASE v6[u].step = "WAIT"
      <4>1. v6'[u] = [v6[u] EXCEPT !.step = "SHARED"]
        BY <1>5, <1>13, <2>2, <3>2, <3>5
      <4>2. PICK c \in Tabs2!Refresh : c = v6[u]
        BY <3>4
      <4>3. PICK e : e = [c EXCEPT !.step = "SHARED"]
        OBVIOUS
      <4>4. e \in Tabs2!Refresh /\ e.token = c.token /\ e.since = c.since /\ e.step = "SHARED"
        BY <4>3 DEF Tabs2!Refresh
      <4> QED BY <2>2, <3>2, <4>1, <4>2, <4>3, <4>4
    <3>6. CASE v6[u].step = "SENT"
      <4>1. v6'[u] = v6[u]
        BY <1>5, <1>13, <3>6
      <4> QED BY <2>2, <3>2, <3>4, <3>6, <4>1
    <3> QED BY <3>4, <3>5, <3>6
  <2> QED BY <2>1, <2>2
<1>14. v6'[t] = a
  BY <1>5
<1>15. v6' \in [A -> Tabs2!Refresh \cup Tabs2!Answered \cup {None}]
  <2>1. \A u \in A : v6'[u] \in Tabs2!Refresh \cup Tabs2!Answered \cup {None}
    BY <1>11, <1>13, <1>14
  <2>2. v6' = [u \in A |-> v6'[u]]
    BY <1>5
  <2> HIDE DEF Tabs2!Refresh
  <2> QED BY <2>1, <2>2
<1>16. /\ t \in Tabs2!UnderWay' /\ Tabs2!UnderWay' \subseteq Tabs2!UnderWay
       /\ \A u \in Tabs2!UnderWay' : u \in A /\ v6'[u].token = v3 /\ v6'[u].step \notin {"FIND", "ROTATE"}
  BY <1>0, <1>11, <1>13, <1>14 DEF Tabs2!UnderWay
<1>17a. v3' # v3 /\ v3' - 1 = v3
  <2>1. v3 \in Nat
    BY <1>2
  <2>2. v3' = v3 + 1
    BY <1>5
  <2> QED BY <2>1, <2>2
<1>17. Tabs2!Drawing' = {} /\ Tabs2!Current' = {} /\ Tabs2!Replaced' = Tabs2!UnderWay'
  <2>1. Tabs2!Drawing' = {}
    BY <1>16 DEF Tabs2!Drawing
  <2>2. Tabs2!Current' = {}
    BY <1>16, <1>17a DEF Tabs2!Current
  <2>3. Tabs2!Replaced' = Tabs2!UnderWay'
    BY <1>16, <1>17a DEF Tabs2!Replaced
  <2> QED BY <2>1, <2>2, <2>3
<1>18. Tabs2!SessionTypes'
  <2>1. v2' \in [token: {v3 + 1}, previous: 0..MaxTokens \cup {None}, revoked: {None}]
    BY <1>2, <1>5
  <2> QED BY <1>2, <1>5, <1>10, <1>15, <2>1 DEF Tabs2!SessionTypes, Tabs2!Tokens
<1>19. Tabs2!WindowInv'
  <2>1. v4'[v3 + 1] = None /\ v3 + 1 \in 0..MaxTokens
    <3>1. v3 + 1 \in 0..MaxTokens /\ v4'[v3 + 1] = v4[v3 + 1]
      BY <1>2, <1>5, <1>10
    <3> QED BY <1>2, <3>1 DEF StaysIn, Tabs2!WindowInv, Tabs2!Tokens
  <2>2. ASSUME NEW x \in 0..MaxTokens, v4'[x] # None PROVE x <= v3 + 1 /\ v4'[x].until <= v1 + 3
    BY <1>2, <1>8, <1>10, <2>2 DEF StaysIn, Tabs2!WindowInv, Tabs2!Tokens, Tabs2!GRACE
  <2> QED BY <1>5, <1>8, <1>10, <1>17, <1>17a, <2>1, <2>2 DEF Tabs2!WindowInv, Tabs2!Tokens, Tabs2!GRACE
<1>20. v3' - 1 = v3 /\ v4'[v3' - 1].until = v1 + 3
  <2>1. v4'[v3].until = v1 + 3
    BY <1>8, <1>10
  <2>2. v4'[v3' - 1] = v4'[v3]
    BY <1>17a
  <2> QED BY <1>17a, <2>1, <2>2
<1>21. Tabs2!RefreshInv'
  <2>1. ASSUME NEW u \in Tabs2!UnderWay'
        PROVE  /\ v6'[u].since \in {v1 - 1, v1} /\ v6'[u].step \notin {"FIND", "ROTATE"}
               /\ IF v6'[u].step = "ANSWER" THEN v6'[u].gets = v3 + 1 /\ v6'[u].since + 1 <= v1 + 3
                  ELSE v6'[u].since + 2 <= v1 + 3
    <3>1. CASE u = t
      BY <1>2, <1>11, <1>14, <3>1
    <3>2. CASE u # t
      <4>1. u \in Tabs2!UnderWay /\ u \in A /\ v6'[u] # None
        BY <1>16 DEF Tabs2!UnderWay
      <4>2. v6[u].since \in {v1 - 1, v1}
        BY <4>1, RefreshFacts
      <4> QED BY <1>2, <1>13, <3>2, <4>1, <4>2
    <3> QED BY <3>1, <3>2
  <2> QED BY <1>5, <1>17, <1>20, <2>1 DEF Tabs2!RefreshInv
<1>22. Tabs2!JarInv'
  <2>1. t \in Tabs2!Replaced' /\ v6'[t].step = "ANSWER" /\ v6'[t].since + 3 = v1 + 3
    BY <1>11, <1>14, <1>16, <1>17
  <2>2. v3' # 0 /\ v5'.token = v3' - 1
    BY <1>2, <1>5, <1>12, <1>20
  <2> QED BY <1>20, <2>1, <2>2 DEF Tabs2!JarInv, Tabs2!GRACE
<1> QED BY <1>18, <1>19, <1>21, <1>22 DEF StaysIn

(* A refresh is answered from the window: with the last token, in time.               *)
LEMMA SessionShare ==
  ASSUME Tabs2!SessionsAssumption, StaysIn, NEW t \in A, Tabs2!Share(t)
  PROVE  StaysIn'
<1> MaxTokens \in Nat
  BY DEF Tabs2!SessionsAssumption
<1>0. /\ t \in Tabs2!UnderWay
      /\ v6[t].step = "SHARED" \/ (v6[t].step = "WAIT" /\ v4[v6[t].token] # None /\ v4[v6[t].token].result # None)
      /\ v1' = v1 /\ v2' = v2 /\ v3' = v3 /\ v4' = v4 /\ v5' = v5
  BY DEF Tabs2!Share, Tabs2!At, Tabs2!UnderWay
<1>1. /\ v1 \in Nat /\ v3 \in 0..MaxTokens /\ v2.revoked = None /\ v6[t].token \in {v3 - 1, v3} /\ v6[t].token \in 0..MaxTokens
      /\ v6[t].since \in {v1 - 1, v1} /\ v4 \in [0..MaxTokens -> Tabs2!Rotation \cup {None}]
      /\ (v6[t].token = v3 - 1 <=> t \in Tabs2!Replaced) /\ (v6[t].token = v3 <=> t \in Tabs2!Current)
  BY <1>0, RefreshFacts DEF StaysIn, Tabs2!SessionTypes, Tabs2!Tokens
<1>2. v6[t].token = v3 - 1 /\ v3 # 0 /\ t \in Tabs2!Replaced
  <2> SUFFICES ASSUME v6[t].token = v3 PROVE FALSE
    BY <1>1
  <2>1. v6[t].step = "WAIT" /\ v4[v3] # None /\ v4[v3].result # None
    BY <1>0, <1>1 DEF StaysIn, Tabs2!RefreshInv
  <2> QED BY <2>1 DEF StaysIn, Tabs2!WindowInv
<1>3. PICK g : g = v4[v3 - 1]
  OBVIOUS
<1>4. g \in Tabs2!Rotation /\ g.until \in Nat /\ g # None /\ g.result = v3
  BY <1>1, <1>2, <1>3 DEF StaysIn, Tabs2!WindowInv, Tabs2!Rotation
<1>5. v6[t].since + 2 <= g.until
  BY <1>0, <1>2, <1>3 DEF StaysIn, Tabs2!RefreshInv
<1>6. PICK a : a = [step |-> "ANSWER", since |-> v1, token |-> v3 - 1, gets |-> v3]
  OBVIOUS
<1>7. a \in Tabs2!Answered /\ a # None /\ a.step = "ANSWER" /\ a.since = v1 /\ a.token = v3 - 1 /\ a.gets = v3
  <2>1. a \in Tabs2!Answered /\ a.step = "ANSWER" /\ a.since = v1 /\ a.token = v3 - 1 /\ a.gets = v3
    BY <1>1, <1>2, <1>6 DEF Tabs2!Answered, Tabs2!Tokens
  <2> QED BY <2>1 DEF Tabs2!SessionsAssumption
<1>8. v6' = [v6 EXCEPT ![t] = a]
  <2>1. v6' = [v6 EXCEPT ![t] = [step |-> "ANSWER", since |-> v1, token |-> v6[t].token,
                 gets |-> IF v2.revoked # None \/ v4[v6[t].token] = None THEN None ELSE v4[v6[t].token].result]]
    BY DEF Tabs2!Share, Tabs2!Answer
  <2> QED BY <1>1, <1>2, <1>3, <1>4, <1>6, <2>1
<1>9. /\ v6'[t] = a /\ \A u \in A : u # t => v6'[u] = v6[u]
      /\ v6' \in [A -> Tabs2!Refresh \cup Tabs2!Answered \cup {None}]
      /\ t \in Tabs2!UnderWay'
      /\ \A u \in A : u # t => (u \in Tabs2!UnderWay' <=> u \in Tabs2!UnderWay)
  BY <1>7, <1>8, RefreshMoves
<1>10. /\ Tabs2!UnderWay' = Tabs2!UnderWay /\ Tabs2!UnderWay \subseteq A
       /\ \A u \in Tabs2!UnderWay : v6'[u].token = v6[u].token /\ (u # t => v6'[u] = v6[u])
  BY <1>0, <1>2, <1>7, <1>9 DEF Tabs2!UnderWay
<1>11. Tabs2!Replaced' = Tabs2!Replaced /\ Tabs2!Current' = Tabs2!Current /\ Tabs2!Drawing' = Tabs2!Drawing
  BY <1>0, <1>7, <1>9, <1>10 DEF Tabs2!Replaced, Tabs2!Current, Tabs2!Drawing
<1>12. Tabs2!SessionTypes'
  BY <1>0, <1>9 DEF StaysIn, Tabs2!SessionTypes
<1>13. Tabs2!WindowInv'
  BY <1>0, <1>11 DEF StaysIn, Tabs2!WindowInv
<1>14. v1 + 1 <= g.until /\ Tabs2!Current = {}
  BY <1>1, <1>2, <1>4, <1>5 DEF StaysIn, Tabs2!RefreshInv
<1>15. Tabs2!RefreshInv'
  <2>1. Tabs2!Replaced \subseteq Tabs2!UnderWay
    BY DEF Tabs2!Replaced
  <2>2. \A u \in Tabs2!UnderWay : v6'[u].since \in {v1 - 1, v1}
    BY <1>0, <1>7, <1>9, <1>10 DEF StaysIn, Tabs2!RefreshInv
  <2>3. ASSUME NEW u \in Tabs2!Replaced
        PROVE  /\ v6'[u].step \notin {"FIND", "ROTATE"}
               /\ IF v6'[u].step = "ANSWER" THEN v6'[u].gets = v3 /\ v6'[u].since + 1 <= g.until
                  ELSE v6'[u].since + 2 <= g.until
    <3>1. CASE u = t
      BY <1>7, <1>9, <1>14, <3>1
    <3>2. CASE u # t
      BY <1>3, <1>10, <2>1, <3>2 DEF StaysIn, Tabs2!RefreshInv
    <3> QED BY <3>1, <3>2
  <2> QED BY <1>0, <1>3, <1>10, <1>11, <1>14, <2>2, <2>3 DEF StaysIn, Tabs2!RefreshInv
<1>16. Tabs2!JarInv'
  <2>1. \A u \in Tabs2!Replaced : v6[u].step = "ANSWER" => v6'[u] = v6[u]
    BY <1>0, <1>10 DEF Tabs2!Replaced
  <2> QED BY <1>0, <1>11, <2>1 DEF StaysIn, Tabs2!JarInv
<1> QED BY <1>12, <1>13, <1>15, <1>16 DEF StaysIn


\* The browser takes an answer: the last token, for longer than its window.
LEMMA SessionReceive ==
  ASSUME Tabs2!SessionsAssumption, StaysIn, NEW t \in A, Tabs2!Receive(t)
  PROVE  StaysIn'
<1> MaxTokens \in Nat
  BY DEF Tabs2!SessionsAssumption
<1>0. /\ t \in Tabs2!UnderWay /\ v6[t].step = "ANSWER" /\ v6' = [v6 EXCEPT ![t] = None]
      /\ v5' = [token |-> v6[t].gets, freshTo |-> v1 + 4]
      /\ v1' = v1 /\ v2' = v2 /\ v3' = v3 /\ v4' = v4
  BY DEF Tabs2!Receive, Tabs2!At, Tabs2!UnderWay, Tabs2!FRESH
<1>1. /\ v1 \in Nat /\ v3 \in 0..MaxTokens /\ v6[t].token \in {v3 - 1, v3} /\ v6[t].token \in 0..MaxTokens
      /\ v6 \in [A -> Tabs2!Refresh \cup Tabs2!Answered \cup {None}]
      /\ v4 \in [0..MaxTokens -> Tabs2!Rotation \cup {None}]
      /\ (v6[t].token = v3 - 1 <=> t \in Tabs2!Replaced) /\ (v6[t].token = v3 <=> t \in Tabs2!Current)
  BY <1>0, RefreshFacts DEF StaysIn, Tabs2!SessionTypes, Tabs2!Tokens
<1>2. t \in Tabs2!Replaced /\ v6[t].gets = v3 /\ Tabs2!Current = {} /\ v3 # 0
  BY <1>0, <1>1 DEF StaysIn, Tabs2!RefreshInv
<1>3. v5' = [token |-> v3, freshTo |-> v1 + 4] /\ v5'.token = v3 /\ v5'.freshTo = v1 + 4
  BY <1>0, <1>2
<1>4. /\ v6' \in [A -> Tabs2!Refresh \cup Tabs2!Answered \cup {None}]
      /\ v6'[t] = None /\ \A u \in A : u # t => v6'[u] = v6[u]
  BY <1>0, <1>1
<1>5. /\ Tabs2!UnderWay' = Tabs2!UnderWay \ {t} /\ Tabs2!UnderWay \subseteq A
      /\ \A u \in Tabs2!UnderWay' : v6'[u] = v6[u] /\ u \in Tabs2!UnderWay
  BY <1>4 DEF Tabs2!UnderWay
<1>6. /\ Tabs2!Replaced' = Tabs2!Replaced \ {t} /\ Tabs2!Current' = Tabs2!Current
      /\ Tabs2!Drawing' = Tabs2!Drawing
  BY <1>0, <1>2, <1>5 DEF Tabs2!Replaced, Tabs2!Current, Tabs2!Drawing
<1>7. Tabs2!SessionTypes'
  <2>1. v5' \in [token: 0..MaxTokens, freshTo: Nat]
    BY <1>1, <1>3
  <2> QED BY <1>0, <1>4, <2>1 DEF StaysIn, Tabs2!SessionTypes, Tabs2!Tokens
<1>8. Tabs2!WindowInv'
  BY <1>0, <1>6 DEF StaysIn, Tabs2!WindowInv
<1>9. Tabs2!RefreshInv'
  <2>1. Tabs2!Replaced \subseteq Tabs2!UnderWay /\ \A u \in Tabs2!Replaced' : u \in Tabs2!UnderWay' /\ u \in Tabs2!Replaced
    BY <1>6 DEF Tabs2!Replaced
  <2> QED BY <1>0, <1>2, <1>5, <1>6, <2>1 DEF StaysIn, Tabs2!RefreshInv
<1>10. Tabs2!JarInv'
  <2>1. PICK g : g = v4[v3 - 1]
    OBVIOUS
  <2>2. v3 - 1 \in 0..MaxTokens
    BY <1>1, <1>2
  <2>3. g # None /\ g \in Tabs2!Rotation /\ g.until \in Nat
    BY <1>1, <1>2, <2>1, <2>2 DEF StaysIn, Tabs2!WindowInv, Tabs2!Rotation
  <2>4. g.until <= v1 + 3
    BY <2>1, <2>2, <2>3 DEF StaysIn, Tabs2!WindowInv, Tabs2!Tokens, Tabs2!GRACE
  <2>5. v5'.freshTo > g.until
    BY <1>1, <1>3, <2>3, <2>4
  <2> QED BY <1>0, <1>3, <2>1, <2>5 DEF Tabs2!JarInv
<1> QED BY <1>7, <1>8, <1>9, <1>10 DEF StaysIn

\* A tick: no refresh is being served, and those on their way set out this instant.
LEMMA SessionTick ==
  ASSUME Tabs2!SessionsAssumption, StaysIn, Tabs2!Tick
  PROVE  StaysIn'
<1> MaxTokens \in Nat
  BY DEF Tabs2!SessionsAssumption
<1>0. /\ v1' = v1 + 1 /\ v2' = v2 /\ v3' = v3 /\ v4' = v4 /\ v5' = v5 /\ v6' = v6
      /\ {t \in A : Tabs2!Served(t) \/ Tabs2!Late(t)} = {}
  BY DEF Tabs2!Tick, Tabs2!sessionVars
<1>1. v1 \in Nat
  BY DEF StaysIn, Tabs2!SessionTypes
<1>2. ASSUME NEW t \in Tabs2!UnderWay
      PROVE  v6[t].step \in {"SENT", "ANSWER"} /\ v6[t].since = v1
  <2>1. t \in A /\ v6[t] # None /\ v6[t].since \in {v1 - 1, v1}
    BY RefreshFacts DEF Tabs2!UnderWay
  <2>2. ~Tabs2!Served(t) /\ ~Tabs2!Late(t)
    BY <1>0, <2>1
  <2> QED BY <1>1, <2>1, <2>2 DEF Tabs2!Served, Tabs2!Late
<1>3. /\ Tabs2!UnderWay' = Tabs2!UnderWay /\ Tabs2!Drawing = {} /\ Tabs2!Drawing' = {}
      /\ Tabs2!Replaced' = Tabs2!Replaced /\ Tabs2!Current' = Tabs2!Current
  BY <1>0, <1>2 DEF Tabs2!UnderWay, Tabs2!Drawing, Tabs2!Replaced, Tabs2!Current
<1>4. Tabs2!SessionTypes'
  BY <1>0, <1>1 DEF StaysIn, Tabs2!SessionTypes
<1>5. Tabs2!WindowInv'
  <2>1. v4[v3] = None
    BY <1>3 DEF StaysIn, Tabs2!WindowInv
  <2>2. ASSUME NEW x \in Tabs2!Tokens, v4[x] # None PROVE x <= v3 /\ v4[x].until <= v1 + 1 + 3
    <3>1. x <= v3 /\ v4[x].until <= v1 + 3
      BY <2>2 DEF StaysIn, Tabs2!WindowInv, Tabs2!GRACE
    <3>2. PICK g \in Tabs2!Rotation : g = v4[x]
      BY <2>2 DEF StaysIn, Tabs2!SessionTypes
    <3>3. g.until \in Nat
      BY DEF Tabs2!Rotation
    <3> QED BY <1>1, <3>1, <3>2, <3>3
  <2> QED BY <1>0, <1>3, <2>1, <2>2 DEF StaysIn, Tabs2!WindowInv, Tabs2!GRACE
<1>6. Tabs2!RefreshInv'
  <2>1. \A t \in Tabs2!UnderWay : v6[t].since = v1' - 1
    BY <1>0, <1>1, <1>2
  <2> QED BY <1>0, <1>3, <2>1 DEF StaysIn, Tabs2!RefreshInv
<1>7. Tabs2!JarInv'
  BY <1>0, <1>3 DEF StaysIn, Tabs2!JarInv
<1> QED BY <1>4, <1>5, <1>6, <1>7 DEF StaysIn

\* A step of the views, or none.
LEMMA SessionSame ==
  ASSUME StaysIn, v1' = v1, v2' = v2, v3' = v3, v4' = v4, v5' = v5, v6' = v6
  PROVE  StaysIn'
<1>1. /\ Tabs2!UnderWay' = Tabs2!UnderWay /\ Tabs2!Drawing' = Tabs2!Drawing
      /\ Tabs2!Replaced' = Tabs2!Replaced /\ Tabs2!Current' = Tabs2!Current
  BY DEF Tabs2!UnderWay, Tabs2!Drawing, Tabs2!Replaced, Tabs2!Current
<1> QED BY <1>1 DEF StaysIn, Tabs2!SessionTypes, Tabs2!WindowInv, Tabs2!RefreshInv, Tabs2!JarInv

\* The steps of an open session that stays open, nothing failing.
LEMMA SessionOpen ==
  ASSUME Tabs2!SessionsAssumption, StaysIn, v9 \in Nat, v9' = 0, v2'.revoked = None, Tabs2!Next
  PROVE  StaysIn'
<1> MaxTokens \in Nat
  BY DEF Tabs2!SessionsAssumption
<1>1. CASE Tabs2!Tick
  BY <1>1, SessionTick
<1>2. ASSUME Tabs2!Fault PROVE FALSE
  BY <1>2 DEF Tabs2!Fault
<1>3. ASSUME NEW t \in A, Tabs2!Refreshing(t) PROVE StaysIn'
  BY <1>2, <1>3, SessionSend, SessionArrive, SessionFind, SessionRotate, SessionShare, SessionReceive
  DEF Tabs2!Refreshing, Tabs2!LoseAnswer
<1>4. ASSUME NEW reason \in Tabs2!REASONS, Tabs2!Revoke(reason) PROVE FALSE
  <2>1. reason # None
    BY DEF Tabs2!SessionsAssumption
  <2>2. v2 \in [token: {v3}, previous: Tabs2!Tokens \cup {None}, revoked: {None}] /\ v2' = [v2 EXCEPT !.revoked = reason]
    BY <1>4 DEF StaysIn, Tabs2!SessionTypes, Tabs2!Revoke
  <2>3. v2'.revoked = reason
    BY <2>2
  <2> QED BY <2>1, <2>3
<1>5. CASE Tabs2!EndExpired \/ Tabs2!EndViews
  BY <1>5, SessionSame DEF Tabs2!EndExpired, Tabs2!EndViews, Tabs2!FindOpen
<1>6. ASSUME NEW e \in v8, NEW v \in e.found, Tabs2!EndView(e, v) PROVE StaysIn'
  BY <1>6, SessionSame DEF Tabs2!EndView, Tabs2!sessionVars
<1> QED BY <1>1, <1>2, <1>3, <1>4, <1>5, <1>6 DEF Tabs2!Next, Tabs2!TickLate, Tabs2!Restart

\* Faults are counted, never taken back.
LEMMA SessionFaults ==
  ASSUME v9 \in Nat, Tabs2!Next
  PROVE  v9' \in Nat /\ (v9' = 0 => v9 = 0)
<1>1. v9' = v9 \/ v9' = v9 + 1
  BY DEF Tabs2!Next, Tabs2!Tick, Tabs2!TickLate, Tabs2!Restart, Tabs2!EndExpired, Tabs2!EndViews, Tabs2!FindOpen,
    Tabs2!Refreshing, Tabs2!Send, Tabs2!Arrive, Tabs2!Find, Tabs2!Rotate, Tabs2!Share, Tabs2!Receive,
    Tabs2!LoseAnswer, Tabs2!Start, Tabs2!Exit, Tabs2!Revoke, Tabs2!EndView, Tabs2!Fault
<1> QED BY <1>1

(* What revokes the session while it is open: of an open session nothing failed for,   *)
(* none of its tokens is taken for a copy.                                     *)
LEMMA SessionRevoked ==
  ASSUME Tabs2!SessionsAssumption, Tabs2!SessionInv, v9' = 0, Tabs2!Next
  PROVE  v9 = 0 /\ v9' \in Nat /\ v2'.revoked # "REUTILISATION" /\ (v2'.revoked = None => v2.revoked = None)
<1> MaxTokens \in Nat
  BY DEF Tabs2!SessionsAssumption
<1>1. v9 = 0 /\ v2.revoked # "REUTILISATION" /\ v9' \in Nat /\ (v2.revoked = None => StaysIn)
  BY SessionFaults DEF Tabs2!SessionInv, StaysIn
<1>2. CASE v2' = v2
  BY <1>1, <1>2
<1>3. CASE v2' # v2
  <2>1. ASSUME NEW t \in A, Tabs2!Find(t) PROVE FALSE
    <3>1. v2.revoked = None /\ t \in Tabs2!UnderWay /\ v6[t].step = "FIND"
      BY <1>3, <2>1 DEF Tabs2!Find, Tabs2!At, Tabs2!UnderWay
    <3>2. StaysIn
      BY <1>1, <3>1
    <3>3. v6[t].token = v3 /\ v2.token = v3
      BY <3>1, <3>2, RefreshFacts DEF StaysIn, Tabs2!RefreshInv, Tabs2!SessionTypes
    <3> QED BY <1>3, <2>1, <3>1, <3>3 DEF Tabs2!Find
  <2>2. ASSUME NEW t \in A, Tabs2!Rotate(t) PROVE v2.revoked = None /\ v2'.revoked = None
    <3>1. v2.revoked = None /\ v2' = [v2 EXCEPT !.token = v3 + 1, !.previous = v6[t].token]
      BY <1>3, <2>2 DEF Tabs2!Rotate, Tabs2!CanRotate
    <3>2. v2 \in [token: {v3}, previous: Tabs2!Tokens \cup {None}, revoked: {None}]
      BY <1>1, <3>1 DEF StaysIn, Tabs2!SessionTypes
    <3> QED BY <3>1, <3>2
  <2>3. ASSUME NEW reason \in Tabs2!REASONS, Tabs2!Revoke(reason)
        PROVE  v2.revoked = None /\ v2'.revoked = reason /\ reason # "REUTILISATION"
    <3>1. v2.revoked = None /\ v2' = [v2 EXCEPT !.revoked = reason]
      BY <2>3 DEF Tabs2!Revoke
    <3>2. v2 \in [token: {v3}, previous: Tabs2!Tokens \cup {None}, revoked: {None}]
      BY <1>1, <3>1 DEF StaysIn, Tabs2!SessionTypes
    <3> QED BY <3>1, <3>2 DEF Tabs2!REASONS
  <2>4. \/ \E t \in A : Tabs2!Find(t) \/ Tabs2!Rotate(t)
        \/ \E reason \in Tabs2!REASONS : Tabs2!Revoke(reason)
    BY <1>3 DEF Tabs2!Next, Tabs2!Tick, Tabs2!TickLate, Tabs2!Restart, Tabs2!EndExpired, Tabs2!EndViews, Tabs2!FindOpen,
      Tabs2!Refreshing, Tabs2!Send, Tabs2!Arrive, Tabs2!Share, Tabs2!Receive,
      Tabs2!LoseAnswer, Tabs2!Start, Tabs2!Exit, Tabs2!EndView, Tabs2!sessionVars
  <2>5. v2.revoked = None /\ v2'.revoked # "REUTILISATION"
    BY <2>1, <2>2, <2>3, <2>4 DEF Tabs2!SessionsAssumption
  <2> QED BY <1>1, <2>5
<1> QED BY <1>2, <1>3

\* The session keeps its invariant.
LEMMA SessionStep ==
  ASSUME Tabs2!SessionsAssumption, Tabs2!SessionInv, Tabs2!Next
  PROVE  Tabs2!SessionInv'
<1>1. v9' \in Nat
  BY SessionFaults DEF Tabs2!SessionInv
<1>2. ASSUME v9' = 0 PROVE v2'.revoked # "REUTILISATION" /\ (v2'.revoked = None => StaysIn')
  <2>1. v9 = 0 /\ v2'.revoked # "REUTILISATION" /\ (v2'.revoked = None => v2.revoked = None)
    BY <1>2, SessionRevoked
  <2>2. ASSUME v2'.revoked = None PROVE StaysIn'
    <3>1. StaysIn
      BY <2>1, <2>2 DEF Tabs2!SessionInv, StaysIn
    <3> QED BY <1>2, <2>1, <2>2, <3>1, SessionOpen
  <2> QED BY <2>1, <2>2
<1> QED BY <1>1, <1>2 DEF Tabs2!SessionInv, StaysIn

\* A step that changes nothing.
LEMMA SessionStands ==
  ASSUME Tabs2!SessionInv, UNCHANGED <<v1, v2, v3, v4, v5, v6, v9>>
  PROVE  Tabs2!SessionInv'
<1>1. ASSUME v9 = 0, v2.revoked = None PROVE StaysIn'
  BY <1>1, SessionSame DEF Tabs2!SessionInv, StaysIn
<1> QED BY <1>1 DEF Tabs2!SessionInv, StaysIn

\* It says that refreshing logs nobody out.
LEMMA SessionByInv ==
  ASSUME Tabs2!SessionsAssumption, Tabs2!SessionInv
  PROVE  Tabs2!NotTakenForACopy /\ Tabs2!StaysSignedIn
<1> MaxTokens \in Nat
  BY DEF Tabs2!SessionsAssumption
<1>1. ASSUME v9 = 0, v2.revoked = None PROVE v5.token # None
  BY <1>1 DEF Tabs2!SessionInv, Tabs2!SessionTypes, Tabs2!Tokens, Tabs2!SessionsAssumption
<1> QED BY <1>1 DEF Tabs2!SessionInv, Tabs2!NotTakenForACopy, Tabs2!StaysSignedIn

\* A revoked session stays as it is.
LEMMA SessionEnds ==
  ASSUME Tabs2!Next
  PROVE  Tabs2!StaysRevoked
BY DEF Tabs2!StaysRevoked, Tabs2!Next, Tabs2!Tick, Tabs2!TickLate, Tabs2!Restart, Tabs2!EndExpired, Tabs2!EndViews, Tabs2!FindOpen,
  Tabs2!Refreshing, Tabs2!Send, Tabs2!Arrive, Tabs2!Find, Tabs2!Rotate, Tabs2!CanRotate, Tabs2!Share, Tabs2!Receive,
  Tabs2!LoseAnswer, Tabs2!Start, Tabs2!Exit, Tabs2!Revoke, Tabs2!EndView, Tabs2!sessionVars


-----------------------------------------------------------------------------
(* The views of a session: v7 is view, v8 ending.                                *)

\* The views first.
LEMMA ViewsFirst ==
  ASSUME View1!SessionsAssumption, View1!Init
  PROVE  View1!ViewInv
<1>1. v1 \in 0..MaxTime /\ v7 = [v \in D |-> None] /\ v8 = {}
  BY DEF View1!Init, View1!SessionsAssumption
<1> QED BY <1>1 DEF View1!ViewInv, View1!EndedOnce

\* An ending under way, of views that were started.
Ending == [reason: {"SORTIE", "EXPIRATION", "SESSION_REVOQUEE"}, found: SUBSET D]

\* A step that leaves the views and the endings under way alone, or begins one.
LEMMA ViewsAlone ==
  ASSUME View1!ViewInv, v7' = v7, v1' \in 0..MaxTime,
         \A e \in v8' : e \in v8 \/ (e \in Ending /\ \A v \in e.found : v7[v] # None)
  PROVE  View1!ViewInv'
<1>1. /\ v8' \subseteq Ending
      /\ \A e \in v8', v \in D : v \in e.found => v7'[v] # None
  BY DEF View1!ViewInv, Ending
<1> QED BY <1>1 DEF View1!ViewInv, View1!EndedOnce, Ending

\* Open views are found, to be ended for a reason.
LEMMA ViewsFound ==
  ASSUME View1!ViewInv, NEW reason \in {"SORTIE", "EXPIRATION", "SESSION_REVOQUEE"},
         NEW found, \A v \in found : v \in View1!Open, View1!FindOpen(reason, found)
  PROVE  View1!ViewInv'
<1>1. v7' = v7 /\ v1' = v1 /\ v8' = v8 \cup {[reason |-> reason, found |-> found]}
  BY DEF View1!FindOpen
<1>2. PICK n : n = [reason |-> reason, found |-> found]
  OBVIOUS
<1>3. \A v \in found : v \in D /\ v7[v] # None
  BY DEF View1!Open
<1>4. n \in Ending /\ n.found = found
  BY <1>2, <1>3 DEF Ending
<1>5. v1' \in 0..MaxTime
  BY <1>1 DEF View1!ViewInv
<1>6. \A e \in v8' : e \in v8 \/ e = n
  BY <1>1, <1>2
<1> QED BY <1>1, <1>3, <1>4, <1>5, <1>6, ViewsAlone

(* A view is ended and its end recorded, or was ended already by another who found     *)
(* it open.                                                                  *)
LEMMA ViewEnds ==
  ASSUME View1!SessionsAssumption, View1!ViewInv, NEW e \in v8, NEW v \in e.found, View1!EndView(e, v)
  PROVE  View1!ViewInv'
<1> MaxTime \in Nat
  BY DEF View1!SessionsAssumption
<1>1. /\ v1 \in 0..MaxTime /\ v1' = v1 /\ v7 \in [D -> View1!View \cup {None}]
      /\ e \in Ending /\ v \in D /\ v7[v] # None
  BY DEF View1!ViewInv, View1!EndView, Ending
<1>2. PICK c \in View1!View : c = v7[v]
  BY <1>1
<1>3. /\ c.audits = (IF c.ended = "NO" THEN 0 ELSE 1)
      /\ c.ended = "EXPIRATION" => c.at = c.expires
  BY <1>1, <1>2 DEF View1!ViewInv, View1!EndedOnce
<1>4. /\ v7' \in [D -> View1!View \cup {None}] /\ v7'[v] # None /\ \A w \in D : w # v => v7'[w] = v7[w]
      /\ v7'[v].audits = (IF v7'[v].ended = "NO" THEN 0 ELSE 1)
      /\ v7'[v].ended = "EXPIRATION" => v7'[v].at = v7'[v].expires
  <2>1. CASE ~View1!StillOpen(v)
    BY <1>1, <1>2, <1>3, <2>1 DEF View1!EndView
  <2>2. CASE View1!StillOpen(v)
    <3>1. c.ended = "NO" /\ c.audits = 0
      BY <1>2, <1>3, <2>2 DEF View1!StillOpen
    <3>2. PICK at : at = IF e.reason = "EXPIRATION" THEN c.expires ELSE v1
      OBVIOUS
    <3>3. PICK n : n = [expires |-> c.expires, ended |-> e.reason, at |-> at, audits |-> 1]
      OBVIOUS
    <3>4. at \in 0..(MaxTime + 3) /\ c.expires \in 0..(MaxTime + 3)
      BY <1>1, <3>2 DEF View1!View, View1!VIEW_LASTS
    <3>e. e.reason \in {"SORTIE", "EXPIRATION", "SESSION_REVOQUEE"}
      BY <1>1 DEF Ending
    <3>5. /\ n \in View1!View /\ n.audits = 1 /\ n.ended # "NO"
          /\ n.ended = "EXPIRATION" => n.at = n.expires
      BY <3>e, <3>2, <3>3, <3>4 DEF View1!View, View1!VIEW_LASTS
    <3>6. n # None
      BY <3>5 DEF View1!SessionsAssumption
    <3>7. v7' = [v7 EXCEPT ![v] = n]
      BY <1>2, <2>2, <3>1, <3>2, <3>3 DEF View1!EndView
    <3> QED BY <1>1, <3>5, <3>6, <3>7
  <2> QED BY <2>1, <2>2
<1>5. View1!EndedOnce'
  BY <1>4 DEF View1!ViewInv, View1!EndedOnce
<1>6. ASSUME NEW f \in v8'
      PROVE  f \in Ending /\ \A w \in f.found : v7[w] # None
  <2>1. CASE f \in v8
    BY <2>1 DEF View1!ViewInv, Ending
  <2>2. CASE f \notin v8
    <3>1. f = [e EXCEPT !.found = @ \ {v}]
      BY <2>2 DEF View1!EndView
    <3>2. f \in Ending /\ f.found \subseteq e.found
      BY <1>1, <3>1 DEF Ending
    <3> QED BY <1>1, <3>2 DEF View1!ViewInv, Ending
  <2> QED BY <2>1, <2>2
<1>7. \A f \in v8', w \in D : w \in f.found => v7'[w] # None
  BY <1>4, <1>6
<1>8. v1' \in 0..MaxTime /\ v8' \subseteq Ending
  BY <1>1, <1>6
<1> QED BY <1>4, <1>5, <1>7, <1>8 DEF View1!ViewInv, Ending

\* A view is started.
LEMMA ViewStarts ==
  ASSUME View1!SessionsAssumption, View1!ViewInv, NEW v \in D, View1!Start(v)
  PROVE  View1!ViewInv'
<1> MaxTime \in Nat
  BY DEF View1!SessionsAssumption
<1>1. PICK n : n = [expires |-> v1 + 3, ended |-> "NO", at |-> 0, audits |-> 0]
  OBVIOUS
<1>2. v1 \in 0..MaxTime /\ v7 \in [D -> View1!View \cup {None}]
  BY DEF View1!ViewInv
<1>3. n \in View1!View /\ n.audits = 0 /\ n.ended = "NO"
  BY <1>1, <1>2 DEF View1!View, View1!VIEW_LASTS
<1>4. n # None
  BY <1>3 DEF View1!SessionsAssumption
<1>5. v7' = [v7 EXCEPT ![v] = n] /\ v1' = v1 /\ v8' = v8
  BY <1>1 DEF View1!Start, View1!VIEW_LASTS
<1>6. v7' \in [D -> View1!View \cup {None}] /\ v7'[v] = n
  BY <1>2, <1>3, <1>5
<1> QED BY <1>2, <1>3, <1>4, <1>5, <1>6 DEF View1!ViewInv, View1!EndedOnce

\* The views keep their invariant.
LEMMA ViewsStep ==
  ASSUME View1!SessionsAssumption, View1!ViewInv, View1!Next
  PROVE  View1!ViewInv'
<1> MaxTime \in Nat
  BY DEF View1!SessionsAssumption
<1>1. v1 \in 0..MaxTime /\ v8 = v8
  BY DEF View1!ViewInv
<1>2. CASE View1!Tick \/ View1!TickLate
  <2>1. v7' = v7 /\ v8' = v8 /\ v1' \in 0..MaxTime
    BY <1>1, <1>2 DEF View1!Tick, View1!TickLate, View1!viewVars
  <2> QED BY <2>1, ViewsAlone
<1>3. CASE View1!Restart
  <2>1. v7' = v7 /\ v8' = {} /\ v1' \in 0..MaxTime
    BY <1>1, <1>3 DEF View1!Restart
  <2> QED BY <2>1, ViewsAlone
<1>4. CASE View1!EndExpired
  <2>1. \A v \in {w \in View1!Open : v7[w].expires <= v1} : v \in View1!Open
    OBVIOUS
  <2> QED BY <1>4, <2>1, ViewsFound DEF View1!EndExpired
<1>5. CASE View1!EndViews
  BY <1>5, ViewsFound DEF View1!EndViews
<1>6. ASSUME NEW t \in C, View1!Refreshing(t) PROVE View1!ViewInv'
  <2>1. v7' = v7 /\ v8' = v8 /\ v1' = v1
    BY <1>6 DEF View1!Refreshing, View1!Send, View1!Arrive, View1!Find, View1!Rotate, View1!Share,
      View1!Receive, View1!LoseAnswer, View1!viewVars
  <2> QED BY <1>1, <2>1, ViewsAlone
<1>7. ASSUME NEW v \in D, View1!Start(v) PROVE View1!ViewInv'
  BY <1>7, ViewStarts
<1>8. ASSUME NEW v \in D, View1!Exit(v) PROVE View1!ViewInv'
  BY <1>8, ViewsFound DEF View1!Exit
<1>9. ASSUME NEW reason \in View1!REASONS, View1!Revoke(reason) PROVE View1!ViewInv'
  <2>1. v7' = v7 /\ v8' = v8 /\ v1' = v1
    BY <1>9 DEF View1!Revoke, View1!viewVars
  <2> QED BY <1>1, <2>1, ViewsAlone
<1>10. ASSUME NEW e \in v8, NEW v \in e.found, View1!EndView(e, v) PROVE View1!ViewInv'
  BY <1>10, ViewEnds
<1> QED BY <1>2, <1>3, <1>4, <1>5, <1>6, <1>7, <1>8, <1>9, <1>10 DEF View1!Next


-----------------------------------------------------------------------------
(* The session of the office run *)

\* The invariants of the session and of its views, while they are what moves.
SessionsInv ==
  /\ moving = "Sessions" => Tabs2!SessionInv
  /\ moving = "Views" => View1!ViewInv

\* Whatever component moves, it alone moves; and these keep their invariants.
THEOREM AlwaysSessionsInv == Spec => []SessionsInv
<1>1. Init => SessionsInv
  <2>1. Tabs2!Init => Tabs2!SessionInv
    BY OfficeAssumption, SessionFirst
  <2>2. View1!Init => View1!ViewInv
    BY OfficeAssumption, ViewsFirst
  <2> QED BY <2>1, <2>2 DEF Init, SessionsInv
<1>2. SessionsInv /\ [Next]_vars => SessionsInv'
  <2> SUFFICES ASSUME SessionsInv, [Next]_vars
               PROVE  SessionsInv'
    OBVIOUS
  <2>1. ASSUME moving' = "Sessions" PROVE Tabs2!SessionInv'
    <3>1. /\ moving = "Sessions"
          /\ Tabs2!Next \/ UNCHANGED <<v1, v2, v3, v4, v5, v6, v7, v8, v9>>
      BY <2>1 DEF Next, vars
    <3>2. Tabs2!SessionInv
      BY <3>1 DEF SessionsInv
    <3> QED BY <3>1, <3>2, OfficeAssumption, SessionStep, SessionStands
  <2>2. ASSUME moving' = "Views" PROVE View1!ViewInv'
    <3>1. /\ moving = "Views"
          /\ View1!Next \/ UNCHANGED <<v1, v2, v3, v4, v5, v6, v7, v8, v9>>
      BY <2>2 DEF Next, vars
    <3>2. View1!ViewInv
      BY <3>1 DEF SessionsInv
    <3>3. CASE View1!Next
      BY <3>2, <3>3, OfficeAssumption, ViewsStep
    <3>4. CASE UNCHANGED <<v1, v2, v3, v4, v5, v6, v7, v8, v9>>
      BY <3>2, <3>4, ViewsAlone DEF View1!ViewInv
    <3> QED BY <3>1, <3>3, <3>4
  <2> QED BY <2>1, <2>2 DEF SessionsInv
<1> QED BY <1>1, <1>2, PTL DEF Spec

(* Two tabs refreshing at once log nobody out, however their refreshes and answers     *)
(* cross while nothing fails (D-13); a revoked session stays so, whatever fails; and    *)
(* each view of a seller is ended and recorded once.                            *)
THEOREM NobodyLoggedOut == Spec => SignedIn
<1>1. SessionsInv => (moving = "Sessions" => Tabs2!NotTakenForACopy /\ Tabs2!StaysSignedIn)
  BY OfficeAssumption, SessionByInv DEF SessionsInv
<1>2. SessionsInv => (moving = "Views" => View1!EndedOnce)
  BY DEF SessionsInv, View1!ViewInv
<1>3. [Next]_vars => [moving = "Sessions" => Tabs2!StaysRevoked]_vars
  BY SessionEnds DEF Next, vars
<1> QED BY <1>1, <1>2, <1>3, AlwaysSessionsInv, PTL DEF Spec, SignedIn
=============================================================================
