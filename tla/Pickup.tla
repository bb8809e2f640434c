-------------------------------- MODULE Pickup --------------------------------
(***************************************************************************)
(* A seller's pickups (ramassages): his addresses and requests               *)
(* (pickups/pickup-addresses.service.ts, pickups.service.ts), their planning *)
(* (ramassages.service.ts), the ramasseur's scans and their cancellation     *)
(* (courier/courier-scans.service.ts) and Terminer, with its fee             *)
(* (courier/courier-pickups.service.ts).                                     *)
(*                                                                          *)
(* A transaction that reads something it does not lock, or writes what       *)
(* another one holds, is several steps: a request reads the open requests    *)
(* and the free parcels and then inserts; a scan holds its parcel, reads the *)
(* pickup, counts the parcels scanned and then writes the count; Terminer    *)
(* holds the pickup, counts and then writes.  What a transaction writes is    *)
(* seen by the others from its last step, its commit.                        *)
(***************************************************************************)
EXTENDS Integers, FiniteSets

CONSTANTS Parcels,    \* parcels of one seller
          Addresses,  \* his pickup addresses
          Pickups,    \* bound: rows of the pickups table
          Forms,      \* clientRequestId: one per form the seller fills
          Requests,   \* bound: requests the server handles at once
          MaxBusy,    \* bound: transactions of several steps under way at once
          Threshold,  \* settings.pickupFreeThreshold
          None

(* A parcel, as far as pickups care: AILLEURS is any later status.           *)
ParcelStatus == {"CREE", "RAMASSE", "AILLEURS", "ANNULE"}
PickupStatus == {"DEMANDE", "PLANIFIE", "EFFECTUE", "ANNULE"}
OPEN == {"DEMANDE", "PLANIFIE"}

(* A row of pickup_parcels: expected and not scanned, expected and scanned,  *)
(* or scanned without having been announced; NON is no row.                  *)
Link    == {"NON", "ATTENDU", "SCANNE", "EXTRA"}
Scanned == {"SCANNE", "EXTRA"}

AddressState == {"NON", "ACTIVE", "REMPLACEE"}
PickupRow  == [at: Addresses, form: Forms, status: PickupStatus, scannedCount: Nat]
RequestRow == [at: Addresses, form: Forms, parcels: SUBSET Parcels, listed: BOOLEAN]
ScanRow    == [pickup: Pickups, op: {"SCAN", "ANNULATION"}, count: Nat \cup {None}]

\* What the module assumes of its constants.
PickupAssumption ==
  Threshold \in Nat /\ MaxBusy \in Nat /\ IsFiniteSet(Parcels) /\ None \notin Addresses \cup PickupRow

VARIABLES
  address,     \* the pickup_addresses table
  pickup,      \* the pickups table
  parcel,      \* status of the parcels
  link,        \* the pickup_parcels table
  request,     \* requests under way: what they read
  scan,        \* scans and cancellations under way, by the parcel they hold
  closing,     \* Terminer under way, by the pickup it holds: what it counted
  fees         \* RAMASSAGE rows of seller_charges, counted per pickup

vars == <<address, pickup, parcel, link, request, scan, closing, fees>>

TypeOK ==
  /\ address \in [Addresses -> AddressState]
  /\ pickup \in [Pickups -> PickupRow \cup {None}]
  /\ parcel \in [Parcels -> ParcelStatus]
  /\ link \in [Pickups -> [Parcels -> Link]]
  /\ request \in [Requests -> RequestRow \cup {None}]
  /\ scan \in [Parcels -> ScanRow \cup {None}]
  /\ closing \in [Pickups -> Nat \cup {None}]
  /\ fees \in [Pickups -> Nat]

Init ==
  /\ address = [a \in Addresses |-> "NON"]
  /\ pickup  = [k \in Pickups |-> None]
  /\ parcel  = [p \in Parcels |-> "CREE"]
  /\ link    = [k \in Pickups |-> [p \in Parcels |-> "NON"]]
  /\ request = [q \in Requests |-> None]
  /\ scan    = [p \in Parcels |-> None]
  /\ closing = [k \in Pickups |-> None]
  /\ fees    = [k \in Pickups |-> 0]

-----------------------------------------------------------------------------
(* What the statements see and lock *)

Open(k)     == pickup[k] # None /\ pickup[k].status \in OPEN
OpenAt(a)   == \E k \in Pickups : Open(k) /\ pickup[k].at = a
Asked(form) == \E k \in Pickups : pickup[k] # None /\ pickup[k].form = form

\* Cree, and in no open request.
Ready(p) == parcel[p] = "CREE" /\ \A k \in Pickups : Open(k) => link[k][p] = "NON"

(* The row of a parcel: a scan holds it, and a request that lists it.        *)
HeldByRequest(p) == \E q \in Requests :
                      request[q] # None /\ request[q].listed /\ p \in request[q].parcels
ParcelFree(p) == scan[p] = None /\ ~HeldByRequest(p)
PickupFree(k) == closing[k] = None

MayStart == Cardinality({q \in Requests : request[q] # None})
            + Cardinality({p \in Parcels : scan[p] # None})
            + Cardinality({k \in Pickups : closing[k] # None}) < MaxBusy

ScannedAt(k) == {p \in Parcels : link[k][p] \in Scanned}

-----------------------------------------------------------------------------
(* The seller's addresses.  Which one is the default is left out. *)

CreateAddress(a) ==
  /\ address[a] = "NON" /\ address' = [address EXCEPT ![a] = "ACTIVE"]
  /\ UNCHANGED <<pickup, parcel, link, request, scan, closing, fees>>

\* update of an address a pickup used: a new one takes its place.
ReplaceAddress(a, b) ==
  /\ address[a] = "ACTIVE" /\ address[b] = "NON"
  /\ \E k \in Pickups : pickup[k] # None /\ pickup[k].at = a
  /\ address' = [address EXCEPT ![a] = "REMPLACEE", ![b] = "ACTIVE"]
  /\ UNCHANGED <<pickup, parcel, link, request, scan, closing, fees>>

-----------------------------------------------------------------------------
(* The seller's request *)

(* The reads of request: the form is not known yet, the address is active    *)
(* and has no open request.  The parcels listed are locked and all ready; no  *)
(* list and no number takes every ready parcel, and locks none.              *)
ReadRequest(q, form, a, listed, chosen) ==
  /\ MayStart /\ request[q] = None /\ ~Asked(form)
  /\ address[a] = "ACTIVE" /\ ~OpenAt(a)
  /\ IF listed
     THEN chosen # {} /\ \A p \in chosen : Ready(p) /\ ParcelFree(p)
     ELSE chosen \in {{}, {p \in Parcels : Ready(p)}}
  /\ request' = [request EXCEPT ![q] =
       [at |-> a, form |-> form, parcels |-> chosen, listed |-> listed]]
  /\ UNCHANGED <<address, pickup, parcel, link, scan, closing, fees>>

\* Mutants of Clash: no unique index on the address; none on the form.
ClashOfForm(q) == Asked(request[q].form)
ClashOfAddress(q) == OpenAt(request[q].at)

\* The two unique indexes of the table.
Clash(q) == Asked(request[q].form) \/ OpenAt(request[q].at)

WriteRequest(q, k) ==
  /\ request[q] # None /\ pickup[k] = None /\ ~Clash(q)
  /\ pickup' = [pickup EXCEPT ![k] =
       [at |-> request[q].at, form |-> request[q].form, status |-> "DEMANDE", scannedCount |-> 0]]
  /\ link' = [link EXCEPT ![k] =
       [p \in Parcels |-> IF p \in request[q].parcels THEN "ATTENDU" ELSE "NON"]]
  /\ request' = [request EXCEPT ![q] = None]
  /\ UNCHANGED <<address, parcel, scan, closing, fees>>

\* P2002: answered with the same form's request, or refused.
RefuseRequest(q) ==
  /\ request[q] # None /\ Clash(q)
  /\ request' = [request EXCEPT ![q] = None]
  /\ UNCHANGED <<address, pickup, parcel, link, scan, closing, fees>>

\* By the seller, while it is asked for or planned, scans or not.
CancelPickup(k) ==
  /\ PickupFree(k) /\ Open(k)
  /\ pickup' = [pickup EXCEPT ![k].status = "ANNULE"]
  /\ UNCHANGED <<address, parcel, link, request, scan, closing, fees>>

\* By the team, once or again.
Plan(k) ==
  /\ PickupFree(k) /\ Open(k)
  /\ pickup' = [pickup EXCEPT ![k].status = "PLANIFIE"]
  /\ UNCHANGED <<address, parcel, link, request, scan, closing, fees>>

-----------------------------------------------------------------------------
(* The ramasseur's scans.  Which ramasseur it is only refuses. *)

\* The parcel is locked, the pickup is read.
ReadScan(p, k) ==
  /\ MayStart /\ ParcelFree(p) /\ parcel[p] = "CREE"
  /\ pickup[k] # None /\ pickup[k].status = "PLANIFIE"
  /\ scan' = [scan EXCEPT ![p] = [pickup |-> k, op |-> "SCAN", count |-> None]]
  /\ UNCHANGED <<address, pickup, parcel, link, request, closing, fees>>

(* Annuler: the scan's event is still the last of the parcel, and the pickup *)
(* is read.                                                                 *)
ReadCancel(p, k) ==
  /\ MayStart /\ ParcelFree(p) /\ parcel[p] = "RAMASSE" /\ p \in ScannedAt(k)
  /\ pickup[k].status = "PLANIFIE"
  /\ scan' = [scan EXCEPT ![p] = [pickup |-> k, op |-> "ANNULATION", count |-> None]]
  /\ UNCHANGED <<address, pickup, parcel, link, request, closing, fees>>

\* The link as the scan, or its cancellation, leaves it.
LinkAfter(p) ==
  LET before == link[scan[p].pickup][p] IN
  IF scan[p].op = "SCAN"
  THEN (IF before = "NON" THEN "EXTRA" ELSE IF before = "ATTENDU" THEN "SCANNE" ELSE before)
  ELSE IF before = "EXTRA" THEN "NON" ELSE "ATTENDU"

(* recountPickup counts its own row and those committed before.              *)
Count(p) ==
  /\ scan[p] # None /\ scan[p].count = None
  /\ LET others == ScannedAt(scan[p].pickup) \ {p}
     IN scan' = [scan EXCEPT ![p].count =
                   Cardinality(IF LinkAfter(p) \in Scanned THEN others \cup {p} ELSE others)]
  /\ UNCHANGED <<address, pickup, parcel, link, request, closing, fees>>

\* Mutant of Commit: a cancellation leaves the parcel on the pickup.
CommitKeepLink(p) ==
  /\ scan[p] # None /\ scan[p].count # None /\ PickupFree(scan[p].pickup)
  /\ LET k == scan[p].pickup IN
     /\ pickup' = [pickup EXCEPT ![k].scannedCount = scan[p].count]
     /\ link' = IF scan[p].op = "SCAN" THEN [link EXCEPT ![k][p] = LinkAfter(p)] ELSE link
     /\ parcel' = [parcel EXCEPT ![p] = IF scan[p].op = "SCAN" THEN "RAMASSE" ELSE "CREE"]
  /\ scan' = [scan EXCEPT ![p] = None]
  /\ UNCHANGED <<address, request, closing, fees>>

\* Mutant of Commit: the parcels are not counted.
CommitUncounted(p) ==
  /\ scan[p] # None /\ PickupFree(scan[p].pickup)
  /\ LET k == scan[p].pickup IN
     /\ pickup' = [pickup EXCEPT ![k].scannedCount = scan[p].count]
     /\ link' = [link EXCEPT ![k][p] = LinkAfter(p)]
     /\ parcel' = [parcel EXCEPT ![p] = IF scan[p].op = "SCAN" THEN "RAMASSE" ELSE "CREE"]
  /\ scan' = [scan EXCEPT ![p] = None]
  /\ UNCHANGED <<address, request, closing, fees>>

\* The count is written on the pickup, which Terminer may hold.
Commit(p) ==
  /\ scan[p] # None /\ scan[p].count # None /\ PickupFree(scan[p].pickup)
  /\ LET k == scan[p].pickup IN
     /\ pickup' = [pickup EXCEPT ![k].scannedCount = scan[p].count]
     /\ link' = [link EXCEPT ![k][p] = LinkAfter(p)]
     /\ parcel' = [parcel EXCEPT ![p] = IF scan[p].op = "SCAN" THEN "RAMASSE" ELSE "CREE"]
  /\ scan' = [scan EXCEPT ![p] = None]
  /\ UNCHANGED <<address, request, closing, fees>>

-----------------------------------------------------------------------------
(* Terminer le ramassage *)

\* Mutant of CountAtClosing: a pickup already over is not refused.
CountAtClosingAgain(k) ==
  /\ MayStart /\ PickupFree(k) /\ pickup[k] # None /\ pickup[k].status # "DEMANDE"
  /\ closing' = [closing EXCEPT ![k] = Cardinality(ScannedAt(k))]
  /\ UNCHANGED <<address, pickup, parcel, link, request, scan, fees>>

CountAtClosing(k) ==
  /\ MayStart /\ PickupFree(k) /\ pickup[k] # None /\ pickup[k].status = "PLANIFIE"
  /\ closing' = [closing EXCEPT ![k] = Cardinality(ScannedAt(k))]
  /\ UNCHANGED <<address, pickup, parcel, link, request, scan, fees>>

\* computePickupFee: nothing for no parcel, nothing from the threshold on.
OwesFee(count) == count > 0 /\ count < Threshold

\* No parcel is a cancelled visit.
Close(k) ==
  /\ closing[k] # None
  /\ pickup' = [pickup EXCEPT ![k].status = IF closing[k] = 0 THEN "ANNULE" ELSE "EFFECTUE",
                              ![k].scannedCount = closing[k]]
  /\ fees' = [fees EXCEPT ![k] = @ + IF OwesFee(closing[k]) THEN 1 ELSE 0]
  /\ closing' = [closing EXCEPT ![k] = None]
  /\ UNCHANGED <<address, parcel, link, request, scan>>

-----------------------------------------------------------------------------
(* A transaction fails: nothing was written. *)

Abort ==
  /\ \/ \E q \in Requests : request[q] # None /\ request' = [request EXCEPT ![q] = None]
                            /\ UNCHANGED <<scan, closing>>
     \/ \E p \in Parcels : scan[p] # None /\ scan' = [scan EXCEPT ![p] = None]
                           /\ UNCHANGED <<request, closing>>
     \/ \E k \in Pickups : closing[k] # None /\ closing' = [closing EXCEPT ![k] = None]
                           /\ UNCHANGED <<request, scan>>
  /\ UNCHANGED <<address, pickup, parcel, link, fees>>

(* The rest of a parcel's life: the depot, or the seller, who cancels it      *)
(* before the pickup or after.                                              *)
ParcelStep(p) ==
  /\ ParcelFree(p)
  /\ \/ parcel[p] = "RAMASSE" /\ parcel' = [parcel EXCEPT ![p] = "AILLEURS"]
     \/ parcel[p] = "CREE" /\ parcel' = [parcel EXCEPT ![p] = "ANNULE"]
  /\ UNCHANGED <<address, pickup, link, request, scan, closing, fees>>

SellerStep ==
  \/ \E a \in Addresses : CreateAddress(a)
  \/ \E a, b \in Addresses : ReplaceAddress(a, b)
  \/ \E q \in Requests, form \in Forms, a \in Addresses, listed \in BOOLEAN,
        chosen \in SUBSET Parcels : ReadRequest(q, form, a, listed, chosen)
  \/ \E q \in Requests : RefuseRequest(q) \/ \E k \in Pickups : WriteRequest(q, k)
  \/ \E k \in Pickups : CancelPickup(k)

RamasseurStep ==
  \/ \E p \in Parcels : Count(p) \/ Commit(p)
  \/ \E p \in Parcels, k \in Pickups : ReadScan(p, k) \/ ReadCancel(p, k)
  \/ \E k \in Pickups : CountAtClosing(k) \/ Close(k)

Next ==
  \/ SellerStep \/ RamasseurStep \/ Abort
  \/ \E k \in Pickups : Plan(k)
  \/ \E p \in Parcels : ParcelStep(p)

Spec == Init /\ [][Next]_vars

-----------------------------------------------------------------------------
(* Properties *)

(* Two forms sent at the same instant, an address edited, a pickup closed or  *)
(* cancelled while another is asked for: an address never has two open        *)
(* requests (D-35).                                                         *)
OneOpenPerAddress ==
  \A j, k \in Pickups : Open(j) /\ Open(k) /\ pickup[j].at = pickup[k].at => j = k

(* A form sent twice, at once or after its pickup is over, asks for one       *)
(* pickup.                                                                  *)
AskedOnce ==
  \A j, k \in Pickups :
    pickup[j] # None /\ pickup[k] # None /\ pickup[j].form = pickup[k].form => j = k

(* Extra parcels, parcels expected at two pickups, scans cancelled and made   *)
(* again elsewhere: a parcel that left the seller's counts for exactly one    *)
(* pickup, and one that did not for none.                                   *)
CountsOnce ==
  \A p \in Parcels :
    LET at == {k \in Pickups : p \in ScannedAt(k)} IN
    IF parcel[p] \in {"RAMASSE", "AILLEURS"} THEN Cardinality(at) = 1 ELSE at = {}

(* Terminer, the seller's cancellation and the team's planning of one pickup  *)
(* at the same instant: the fee is charged once, and only on a visit that      *)
(* took place (A-13).                                                       *)
FeeOnlyOnce ==
  \A k \in Pickups : fees[k] > 0 => fees[k] = 1 /\ pickup[k].status = "EFFECTUE"

(* "Terminer and a late scan of the same pickup queue here": the count a       *)
(* pickup was closed on is the parcels scanned at it.  Not so: the scan reads  *)
(* the pickup without a lock.                                               *)
ClosedOnItsCount ==
  \A k \in Pickups : pickup[k] # None /\ pickup[k].status = "EFFECTUE" =>
    pickup[k].scannedCount = Cardinality(ScannedAt(k))

(* "A parcel in one open request at most".  Not so: a request without a list  *)
(* locks no parcel.                                                         *)
OneOpenPerParcel ==
  \A p \in Parcels, j, k \in Pickups :
    Open(j) /\ Open(k) /\ link[j][p] # "NON" /\ link[k][p] # "NON" => j = k


-----------------------------------------------------------------------------
(* The inductive invariant of the first four *)

(* A scan holds its parcel, which stays as it found it; the pickup it read stays  *)
(* a row of the table.                                                      *)
ScanInv ==
  \A p \in Parcels : scan[p] # None =>
    /\ pickup[scan[p].pickup] # None
    /\ scan[p].op = "SCAN" => parcel[p] = "CREE"
    /\ scan[p].op = "ANNULATION" => parcel[p] = "RAMASSE" /\ p \in ScannedAt(scan[p].pickup)

(* A parcel that left the seller's is scanned at one pickup, another at none;     *)
(* CountsOnce without the count.                                            *)
ScannedAtOne ==
  \A p \in Parcels :
    IF parcel[p] \in {"RAMASSE", "AILLEURS"}
    THEN \E k \in Pickups : \A j \in Pickups : p \in ScannedAt(j) <=> j = k
    ELSE \A j \in Pickups : p \notin ScannedAt(j)

PickupInv ==
  /\ TypeOK
  /\ \A k \in Pickups :
       /\ pickup[k] = None => fees[k] = 0 /\ ScannedAt(k) = {}
       /\ closing[k] # None => pickup[k] # None /\ pickup[k].status = "PLANIFIE"
  /\ OneOpenPerAddress /\ AskedOnce /\ FeeOnlyOnce /\ ScannedAtOne /\ ScanInv
=============================================================================
