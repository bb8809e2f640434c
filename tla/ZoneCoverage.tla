----------------------------- MODULE ZoneCoverage -----------------------------
(***************************************************************************)
(* Who covers a zone, and what is planned with it: zones.service.ts,          *)
(* zone-coverage.service.ts, geo.service.ts (updateDelegation), packages/shared *)
(* zones.ts, absences (courier-absences.service.ts), pickups planned          *)
(* (ramassages.service.ts), Tournees (tournees.service.ts).                  *)
(*                                                                          *)
(* No transaction locks the account, the absence or the zone it reads: a call *)
(* reads and writes in two steps.  One delegation holds every address; whether *)
(* a courier works is his account's (see Accounts).                          *)
(***************************************************************************)
EXTENDS Integers, FiniteSets

CONSTANTS Livreurs, Ramasseurs,
          Zones,
          Pickups,
          Parcels,   \* at the depot, due today
          LastDay,   \* bound: from today, day 1
          Calls,     \* bound: transactions under way at once
          MaxEdits,  \* bound: changes of accounts, zones and absences
          None

Couriers == Livreurs \cup Ramasseurs
Days     == 1..LastDay

\* What the module assumes of its constants.
CoverageAssumption ==
  /\ LastDay \in Nat \ {0} /\ MaxEdits \in Nat /\ Livreurs \cap Ramasseurs = {}
  /\ None \notin Couriers \cup Zones

ZONE_ROLES == {"LIVREUR", "RAMASSEUR"}
OfRole(role) == IF role = "LIVREUR" THEN Livreurs ELSE Ramasseurs

Slot(role) == [titulaireId: OfRole(role) \cup {None}, backupId: OfRole(role) \cup {None}]

Zone == [isActive: BOOLEAN, LIVREUR: Slot("LIVREUR"), RAMASSEUR: Slot("RAMASSEUR")]

(* alone, stale are history: nobody else could take it when its ramasseur was  *)
(* marked absent; its ramasseur was written on a reading that no longer held.  *)
Pickup == [status: {"DEMANDE", "PLANIFIE", "EFFECTUE", "ANNULE"}, ramasseur: Ramasseurs \cup {None},
           day: Days \cup {0}, alone: BOOLEAN, stale: BOOLEAN]

VARIABLES
  working,        \* accounts active and taking work
  zone,
  delegationZone, \* the zone of the delegation
  absent,         \* courier_absences: courier and day
  pickup,
  planned,        \* the livreur a parcel was moved to in Tournees
  call,           \* what a transaction under way has read
  edits

vars == <<working, zone, delegationZone, absent, pickup, planned, call, edits>>

TypeOK ==
  /\ working \subseteq Couriers /\ zone \in [Zones -> Zone]
  /\ delegationZone \in Zones \cup {None} /\ absent \subseteq Couriers \X Days
  /\ pickup \in [Pickups -> Pickup]
  /\ planned \in [Parcels -> Livreurs \cup {None}] /\ edits \in 0..MaxEdits
  /\ \A k \in Calls : call[k] = None
       \/ call[k].op \in {"PLAN", "ABSENT", "CLOSE", "ATTACH"}

Nobody == [titulaireId |-> None, backupId |-> None]

Init ==
  /\ working = Couriers
  /\ zone = [z \in Zones |-> [isActive |-> TRUE, LIVREUR |-> Nobody, RAMASSEUR |-> Nobody]]
  /\ delegationZone \in Zones /\ absent = {}
  /\ pickup = [p \in Pickups |-> [status |-> "DEMANDE", ramasseur |-> None, day |-> 0,
                                  alone |-> FALSE, stale |-> FALSE]]
  /\ planned = [p \in Parcels |-> None] /\ call = [k \in Calls |-> None] /\ edits = 0

-----------------------------------------------------------------------------
(* Coverage: worked out when read *)

Available(d) == {c \in working : <<c, d>> \notin absent}

\* The titular, else the backup, else nobody.
coveringCourier(slot, available) ==
  IF slot.titulaireId \in available THEN slot.titulaireId
  ELSE IF slot.backupId \in available THEN slot.backupId ELSE None

\* An inactive zone is not read; away is an absence not committed yet.
forDay(role, d, away) ==
  IF delegationZone = None THEN None
  ELSE IF ~zone[delegationZone].isActive THEN None
  ELSE coveringCourier(zone[delegationZone][role], Available(d) \ away)

\* Tournees: the livreur it was moved to while he can go out, else its zone's.
plannedLivreurFor(p) ==
  IF planned[p] \in Available(1) THEN planned[p] ELSE forDay("LIVREUR", 1, {})

-----------------------------------------------------------------------------
(* Calls *)

Free(k) == call[k] = None
Op(k, op) == call[k] # None /\ call[k].op = op
Done(k) == call' = [call EXCEPT ![k] = None]
Locked(p) == \E k \in Calls : Op(k, "PLAN") /\ call[k].pickup = p
Edit == edits < MaxEdits /\ edits' = edits + 1

Abort(k) ==
  /\ ~Free(k) /\ Done(k)
  /\ UNCHANGED <<working, zone, delegationZone, absent, pickup, planned, edits>>

-----------------------------------------------------------------------------
(* Zones *)

\* Newly placed he must take work; already in his slot he stays.
MayHold(c, kept) == c # None => c = kept \/ c \in working

\* The four assignments, replaced together.
SetAssignments(z, livreur, ramasseur) ==
  LET wanted == [LIVREUR |-> livreur, RAMASSEUR |-> ramasseur] IN
  /\ Edit /\ zone[z].isActive
  /\ \A role \in ZONE_ROLES :
       /\ wanted[role].titulaireId = wanted[role].backupId => wanted[role].backupId = None
       /\ MayHold(wanted[role].titulaireId, zone[z][role].titulaireId)
       /\ MayHold(wanted[role].backupId, zone[z][role].backupId)
  /\ zone' = [zone EXCEPT ![z].LIVREUR = livreur, ![z].RAMASSEUR = ramasseur]
  /\ UNCHANGED <<working, delegationZone, absent, pickup, planned, call>>

\* Deactivated only without a delegation.
ReadZone(k, z) ==
  /\ Free(k) /\ Edit /\ zone[z].isActive /\ delegationZone # z
  /\ call' = [call EXCEPT ![k] = [op |-> "CLOSE", zone |-> z]]
  /\ UNCHANGED <<working, zone, delegationZone, absent, pickup, planned>>

CloseZone(k) ==
  /\ Op(k, "CLOSE") /\ zone' = [zone EXCEPT ![call[k].zone].isActive = FALSE] /\ Done(k)
  /\ UNCHANGED <<working, delegationZone, absent, pickup, planned, edits>>

ReopenZone(z) ==
  /\ ~zone[z].isActive /\ zone' = [zone EXCEPT ![z].isActive = TRUE] /\ Edit
  /\ UNCHANGED <<working, delegationZone, absent, pickup, planned, call>>

\* updateDelegation: to an active zone, or to none.
ReadDelegation(k, z) ==
  /\ Free(k) /\ Edit /\ (z # None => zone[z].isActive)
  /\ call' = [call EXCEPT ![k] = [op |-> "ATTACH", zone |-> z]]
  /\ UNCHANGED <<working, zone, delegationZone, absent, pickup, planned>>

MoveDelegation(k) ==
  /\ Op(k, "ATTACH") /\ delegationZone' = call[k].zone /\ Done(k)
  /\ UNCHANGED <<working, zone, absent, pickup, planned, edits>>

-----------------------------------------------------------------------------
(* Pickups and absences *)

\* Planifier holds the pickup, then looks for a ramasseur able to work that day.
ReadPlan(k, p, r, d) ==
  /\ Free(k) /\ ~Locked(p) /\ pickup[p].status \in {"DEMANDE", "PLANIFIE"} /\ r \in Available(d)
  /\ call' = [call EXCEPT ![k] = [op |-> "PLAN", pickup |-> p, courier |-> r, day |-> d]]
  /\ UNCHANGED <<working, zone, delegationZone, absent, pickup, planned, edits>>

WritePlan(k) ==
  /\ Op(k, "PLAN")
  /\ LET read == call[k] IN
     pickup' = [pickup EXCEPT ![read.pickup] =
       [status |-> "PLANIFIE", ramasseur |-> read.courier, day |-> read.day, alone |-> FALSE,
        stale |-> <<read.courier, read.day>> \in absent]]
  /\ Done(k)
  /\ UNCHANGED <<working, zone, delegationZone, absent, planned, edits>>

\* The seller cancels it, or the ramasseur ends it.
EndPickup(p, status) ==
  /\ ~Locked(p) /\ pickup[p].status \in (IF status = "ANNULE" THEN {"DEMANDE", "PLANIFIE"}
                                         ELSE {"PLANIFIE"})
  /\ pickup' = [pickup EXCEPT ![p].status = status]
  /\ UNCHANGED <<working, zone, delegationZone, absent, planned, call, edits>>

PlannedFor(c, d) ==
  {p \in Pickups : pickup[p].status = "PLANIFIE" /\ pickup[p].ramasseur = c /\ pickup[p].day = d}

\* Mutant of Replacement: read before the absence is written, and not compared.
ReplacementBefore(c, d) == forDay("RAMASSEUR", d, {})

\* Read after the absence is written, so he no longer covers his zones.
Replacement(c, d) == forDay("RAMASSEUR", d, {c})

\* Who else could have taken them.
Covering(c, d) == {r \in Ramasseurs \ {c} : r \in Available(d) /\ \E z \in Zones :
  z = delegationZone /\ zone[z].isActive
    /\ r \in {zone[z].RAMASSEUR.titulaireId, zone[z].RAMASSEUR.backupId}}

ReadAbsence(k, c, d) ==
  /\ Free(k) /\ Edit /\ <<c, d>> \notin absent
  /\ call' = [call EXCEPT ![k] =
       [op |-> "ABSENT", courier |-> c, day |-> d, pickups |-> PlannedFor(c, d),
        replacement |-> Replacement(c, d), alone |-> Covering(c, d) = {}]]
  /\ UNCHANGED <<working, zone, delegationZone, absent, pickup, planned>>

\* One absence a day (UNIQUE); the pickups read go to the replacement, whatever they are now.
WriteAbsence(k) ==
  /\ Op(k, "ABSENT")
  /\ LET read == call[k]  moved == IF read.replacement = None THEN {} ELSE read.pickups IN
     /\ <<read.courier, read.day>> \notin absent
     /\ \A p \in moved : ~Locked(p)
     /\ absent' = absent \cup {<<read.courier, read.day>>}
     /\ pickup' = [p \in Pickups |->
          IF p \in moved
          THEN [pickup[p] EXCEPT !.ramasseur = read.replacement,
                  !.stale = p \notin PlannedFor(read.courier, read.day)
                              \/ <<read.replacement, read.day>> \in absent]
          ELSE IF p \in PlannedFor(read.courier, read.day)
          THEN [pickup[p] EXCEPT !.stale = @ \/ p \notin read.pickups,
                  !.alone = read.alone]
          ELSE pickup[p]]
  /\ Done(k)
  /\ UNCHANGED <<working, zone, delegationZone, planned, edits>>

\* The pickups moved stay where they are.
RemoveAbsence(c, d) ==
  /\ <<c, d>> \in absent /\ absent' = absent \ {<<c, d>>} /\ Edit
  /\ UNCHANGED <<working, zone, delegationZone, pickup, planned, call>>

-----------------------------------------------------------------------------
(* Tournees, and the accounts *)

\* Only a plan, read again each time.
MoveInTournees(p, l) ==
  /\ (l # None => l \in Available(1)) /\ planned[p] # l
  /\ planned' = [planned EXCEPT ![p] = l]
  /\ UNCHANGED <<working, zone, delegationZone, absent, pickup, call, edits>>

\* An account stopped, or active again.
ChangeAccount(c) ==
  /\ Edit /\ working' = (IF c \in working THEN working \ {c} ELSE working \cup {c})
  /\ UNCHANGED <<zone, delegationZone, absent, pickup, planned, call>>

-----------------------------------------------------------------------------
ZoneStep ==
  \/ \E z \in Zones, l \in Slot("LIVREUR"), r \in Slot("RAMASSEUR") : SetAssignments(z, l, r)
  \/ \E z \in Zones : ReopenZone(z) \/ \E k \in Calls : ReadZone(k, z)
  \/ \E k \in Calls : CloseZone(k) \/ MoveDelegation(k)
       \/ \E z \in Zones \cup {None} : ReadDelegation(k, z)

PickupStep ==
  \/ \E k \in Calls : WritePlan(k) \/ \E p \in Pickups, r \in Ramasseurs, d \in Days : ReadPlan(k, p, r, d)
  \/ \E p \in Pickups, status \in {"ANNULE", "EFFECTUE"} : EndPickup(p, status)

AbsenceStep ==
  \/ \E k \in Calls : WriteAbsence(k) \/ \E c \in Couriers, d \in Days : ReadAbsence(k, c, d)
  \/ \E c \in Couriers, d \in Days : RemoveAbsence(c, d)

PlanStep ==
  \/ \E p \in Parcels, l \in Livreurs \cup {None} : MoveInTournees(p, l)
  \/ \E c \in Couriers : ChangeAccount(c)

Next == ZoneStep \/ PickupStep \/ AbsenceStep \/ PlanStep \/ \E k \in Calls : Abort(k)

Spec == Init /\ [][Next]_vars

-----------------------------------------------------------------------------
(* Properties *)

(* "The absent ramasseur's pickups already planned for that day move to the    *)
(* backup in the same action" (D-52): through replannings, zones edited,        *)
(* accounts stopped and two absences, a pickup stays with an absent ramasseur   *)
(* only when nobody else covered its zone, or when two calls crossed on it.    *)
AbsentIsReplaced ==
  \A p \in Pickups :
    pickup[p].status = "PLANIFIE" /\ <<pickup[p].ramasseur, pickup[p].day>> \in absent
      => pickup[p].alone \/ pickup[p].stale

(* "Deactivating is refused while delegations are attached" (D-51): the zone of *)
(* a delegation is active.  Not so: the two screens read each other unlocked.   *)
DelegationInActiveZone == delegationZone # None => zone[delegationZone].isActive


-----------------------------------------------------------------------------
(* The inductive invariant of AbsentIsReplaced *)

PlanCall   == [op: {"PLAN"}, pickup: Pickups, courier: Ramasseurs, day: Days]
AbsentCall == [op: {"ABSENT"}, courier: Couriers, day: Days, pickups: SUBSET Pickups,
               replacement: Ramasseurs \cup {None}, alone: BOOLEAN]
ZoneCall   == [op: {"CLOSE", "ATTACH"}, zone: Zones \cup {None}]

(* Whoever an absence being written found to replace him is somebody else, and   *)
(* when it found nobody there was nobody.                                    *)
ReplacementInv ==
  \A k \in Calls : Op(k, "ABSENT") =>
    /\ call[k].replacement # call[k].courier
    /\ call[k].replacement = None => call[k].alone

CoverageInv ==
  /\ working \subseteq Couriers /\ zone \in [Zones -> Zone]
  /\ delegationZone \in Zones \cup {None} /\ absent \subseteq Couriers \X Days
  /\ pickup \in [Pickups -> Pickup]
  /\ call \in [Calls -> PlanCall \cup AbsentCall \cup ZoneCall \cup {None}]
  /\ AbsentIsReplaced /\ ReplacementInv
=============================================================================
