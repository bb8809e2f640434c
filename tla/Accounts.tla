------------------------------- MODULE Accounts -------------------------------
(***************************************************************************)
(* The accounts of the admins and of the couriers (accounts.service.ts,       *)
(* courier-open-work.ts): an admin deactivated, a courier stopped and          *)
(* deactivated in two transactions, reactivated; and what a courier is given   *)
(* meanwhile: Sortie coursier (depot-scans.service.ts), the hand-out of bons   *)
(* (bon-handover.service.ts), what comes back and what is given back.          *)
(*                                                                          *)
(* Giving reads the courier's account without a lock and writes later, in the  *)
(* same transaction; deactivating reads his open work and writes later.        *)
(***************************************************************************)
EXTENDS Integers, FiniteSets

CONSTANTS Admins, Livreurs, Ramasseurs,
          Parcels,  \* at the depot, or out with a livreur
          Bons,     \* at the depot, or on the way with a ramasseur
          Calls,    \* bound: requests under way at once
          MaxEdits, \* bound: stops and reactivations
          None

Couriers == Livreurs \cup Ramasseurs
Things   == Parcels \cup Bons

\* What the module assumes of its constants.
AccountsAssumption ==
  /\ MaxEdits \in Nat /\ Livreurs \cap Ramasseurs = {} /\ Parcels \cap Bons = {}
  /\ None \notin Couriers /\ IsFiniteSet(Admins) /\ Admins # {}

\* crossed is history: he was reactivated while he was being deactivated.
Account == [isActive: BOOLEAN, acceptsWork: BOOLEAN, crossed: BOOLEAN]

\* The last courier it was given to.  late is history: he had been stopped.
Hand == [courier: Couriers \cup {None}, out: BOOLEAN, late: BOOLEAN]

VARIABLES
  admins,  \* the admins' accounts that are active
  account, \* of a courier
  hand,    \* of a parcel, a bon
  call,    \* what a request under way has read
  edits

vars == <<admins, account, hand, call, edits>>

TypeOK ==
  /\ admins \subseteq Admins /\ account \in [Couriers -> Account] /\ hand \in [Things -> Hand]
  /\ edits \in 0..MaxEdits
  /\ \A k \in Calls : call[k] = None \/ call[k].op \in {"GIVE", "STOP", "ADMIN"}

Init ==
  /\ admins = Admins
  /\ account = [c \in Couriers |-> [isActive |-> TRUE, acceptsWork |-> TRUE, crossed |-> FALSE]]
  /\ hand = [x \in Things |-> [courier |-> None, out |-> FALSE, late |-> FALSE]]
  /\ call = [k \in Calls |-> None] /\ edits = 0

Free(k)   == call[k] = None
Op(k, op) == call[k] # None /\ call[k].op = op
Done(k)   == call' = [call EXCEPT ![k] = None]
Edit      == edits < MaxEdits /\ edits' = edits + 1
TakesWork(c) == account[c].isActive /\ account[c].acceptsWork

-----------------------------------------------------------------------------
(* Work given and taken back *)

\* Sortie coursier wants a livreur who takes work, handOut a ramasseur.
ReadGive(k, x, c) ==
  /\ Free(k) /\ ~hand[x].out
  /\ c \in (IF x \in Parcels THEN Livreurs ELSE Ramasseurs) /\ TakesWork(c)
  /\ call' = [call EXCEPT ![k] = [op |-> "GIVE", thing |-> x, courier |-> c]]
  /\ UNCHANGED <<admins, account, hand, edits>>

WriteGive(k) ==
  /\ Op(k, "GIVE") /\ ~hand[call[k].thing].out
  /\ hand' = [hand EXCEPT ![call[k].thing] =
       [courier |-> call[k].courier, out |-> TRUE, late |-> ~account[call[k].courier].acceptsWork]]
  /\ Done(k)
  /\ UNCHANGED <<admins, account, edits>>

\* Delivered and counted, back at the depot, handed over.
TakeBack(x) ==
  /\ hand[x].out /\ hand' = [hand EXCEPT ![x].out = FALSE]
  /\ UNCHANGED <<admins, account, call, edits>>

\* A Retour de tournee cancelled, a bon corrected: his again, his account not read.
GiveBack(x) ==
  /\ ~hand[x].out /\ hand[x].courier # None
  /\ hand' = [hand EXCEPT ![x].out = TRUE, ![x].late = ~account[hand[x].courier].acceptsWork]
  /\ UNCHANGED <<admins, account, call, edits>>

-----------------------------------------------------------------------------
(* A courier's account *)

\* Step 1 of Desactiver, committed at once.
StopWork(k, c) ==
  /\ Free(k) /\ Edit
  /\ account' = [account EXCEPT ![c].acceptsWork = FALSE]
  /\ call' = [call EXCEPT ![k] =
       [op |-> "STOP", courier |-> c, checked |-> FALSE, crossed |-> FALSE]]
  /\ UNCHANGED <<admins, hand>>

\* Mutant of courierOpenWork: the bons on the way are not looked at.
courierOpenWorkParcelsOnly(c) == {x \in Parcels : hand[x].out /\ hand[x].courier = c}

\* What still ties him to the operation.
courierOpenWork(c) == {x \in Things : hand[x].out /\ hand[x].courier = c}

\* Step 2: nothing to do if he is inactive, refused while work is open.
CheckOpenWork(k) ==
  /\ Op(k, "STOP") /\ ~call[k].checked
  /\ IF account[call[k].courier].isActive /\ courierOpenWork(call[k].courier) = {}
     THEN call' = [call EXCEPT ![k].checked = TRUE] ELSE Done(k)
  /\ UNCHANGED <<admins, account, hand, edits>>

Deactivate(k) ==
  /\ Op(k, "STOP") /\ call[k].checked
  /\ account' = [account EXCEPT ![call[k].courier].isActive = FALSE,
                                ![call[k].courier].crossed = call[k].crossed]
  /\ Done(k)
  /\ UNCHANGED <<admins, hand, edits>>

Activate(c) ==
  /\ ~TakesWork(c) /\ Edit
  /\ account' = [account EXCEPT ![c] = [isActive |-> TRUE, acceptsWork |-> TRUE, crossed |-> FALSE]]
  /\ call' = [k \in Calls |-> IF Op(k, "STOP") /\ call[k].courier = c
                              THEN [call[k] EXCEPT !.crossed = TRUE] ELSE call[k]]
  /\ UNCHANGED <<admins, hand>>

-----------------------------------------------------------------------------
(* An admin's account *)

ReadAdmin(k, a) ==
  /\ Free(k) /\ a \in admins
  /\ call' = [call EXCEPT ![k] = [op |-> "ADMIN", admin |-> a, others |-> Cardinality(admins)]]
  /\ UNCHANGED <<admins, account, hand, edits>>

\* Mutant of NotLastAdmin: the admins counted when the account was read.
NotLastAdminRead(k) == call[k].others > 1

\* assertNotLastAdmin: the active rows are locked, then counted as they are.
NotLastAdmin(k) == Cardinality(admins) > 1

DeactivateAdmin(k) ==
  /\ Op(k, "ADMIN") /\ NotLastAdmin(k)
  /\ admins' = admins \ {call[k].admin} /\ Done(k)
  /\ UNCHANGED <<account, hand, edits>>

ActivateAdmin(a) ==
  /\ a \notin admins /\ admins # {} /\ admins' = admins \cup {a}
  /\ UNCHANGED <<account, hand, call, edits>>

\* Refused, or thrown.
Abort(k) == ~Free(k) /\ Done(k) /\ UNCHANGED <<admins, account, hand, edits>>

-----------------------------------------------------------------------------
WorkStep ==
  \/ \E k \in Calls : WriteGive(k) \/ \E x \in Things, c \in Couriers : ReadGive(k, x, c)
  \/ \E x \in Things : TakeBack(x) \/ GiveBack(x)

CourierStep ==
  \/ \E k \in Calls : CheckOpenWork(k) \/ Deactivate(k) \/ \E c \in Couriers : StopWork(k, c)
  \/ \E c \in Couriers : Activate(c)

AdminStep ==
  \/ \E k \in Calls : DeactivateAdmin(k) \/ \E a \in Admins : ReadAdmin(k, a)
  \/ \E a \in Admins : ActivateAdmin(a)

Next == WorkStep \/ CourierStep \/ AdminStep \/ \E k \in Calls : Abort(k)

Spec == Init /\ [][Next]_vars

-----------------------------------------------------------------------------
(* Properties *)

(* Admins deactivating each other at the same instant, reactivated meanwhile:  *)
(* somebody can always administer ("both cannot succeed and leave nobody").    *)
AnAdminRemains == admins # {}

(* "Step 1 is what makes that check stable" (D-12): what an inactive courier    *)
(* still carries was given on a reading older than his stop, or given back by   *)
(* a correction; nothing that the check could see was missed.                  *)
NothingMissedAtDeactivation ==
  \A x \in Things :
    LET c == hand[x].courier IN
    hand[x].out /\ ~account[c].isActive => hand[x].late \/ account[c].crossed

(* "nothing new can be assigned between the check and the deactivation": an     *)
(* inactive courier carries nothing.  Not so: a hand-out that had read his      *)
(* account commits after the check.                                         *)
DeactivatedHasNoOpenWork ==
  \A c \in Couriers : ~account[c].isActive => courierOpenWork(c) = {}


-----------------------------------------------------------------------------
(* The inductive invariant of both *)

GiveCall  == [op: {"GIVE"}, thing: Things, courier: Couriers]
StopCall  == [op: {"STOP"}, courier: Couriers, checked: BOOLEAN, crossed: BOOLEAN]
AdminCall == [op: {"ADMIN"}, admin: Admins, others: Int]

(* Until he is reactivated an inactive courier takes no work, and so does one    *)
(* who is being stopped; what the check did not see was handed to him since.    *)
StoppedInv ==
  /\ \A c \in Couriers :
       ~account[c].isActive /\ ~account[c].crossed => ~account[c].acceptsWork
  /\ \A k \in Calls : Op(k, "STOP") /\ ~call[k].crossed =>
       LET c == call[k].courier IN
       /\ ~account[c].acceptsWork
       /\ call[k].checked => \A x \in courierOpenWork(c) : hand[x].late

AccountsInv ==
  /\ admins \subseteq Admins /\ account \in [Couriers -> Account] /\ hand \in [Things -> Hand]
  /\ call \in [Calls -> GiveCall \cup StopCall \cup AdminCall \cup {None}]
  /\ \A x \in Things : hand[x].out => hand[x].courier # None
  /\ AnAdminRemains /\ NothingMissedAtDeactivation /\ StoppedInv
=============================================================================
