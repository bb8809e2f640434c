------------------------------ MODULE CourierDay ------------------------------
(***************************************************************************)
(* A livreur's day on his phone: Ma tournée, the Scanner and its Deliver     *)
(* page, the cash of Ma journée and Ma caisse (apps/courier/src/screens),    *)
(* drawn from two sources that change apart: the rows of the queue as last    *)
(* read (recent, state/app.tsx) and the server's answers (useData.ts,        *)
(* courier-day.service.ts).                                                *)
(*                                                                          *)
(* One copy of each list is modelled; the pages of a list load their own the *)
(* same way.  A failed load shows the copy kept on the phone, which is the    *)
(* last answer that came: the data stays.  Two uploads of the same rows, the  *)
(* session and a cancellation racing an upload are CourierSync's.            *)
(***************************************************************************)
EXTENDS Integers, Sequences, FiniteSets

CONSTANTS Parcels, None,
          DAY,        \* ticks of the clock in a day
          MaxNow,     \* bound: the clock
          MaxScans,   \* bound: rows written
          MaxMoves,   \* bound: moves of the depot and the admin, pages loaded again
          MaxLoads    \* bound: GETs of one list in flight at once

DayAssumption == DAY \in Nat \ {0} /\ {MaxNow, MaxScans, MaxMoves, MaxLoads} \subseteq Nat

Pages == {"tournee", "caisse"}

(* A parcel, by the list it is on: of the depot, to deliver, to bring back, *)
(* delivered with its cash on him, delivered with its cash at the depot.    *)
Standing == {"AU_DEPOT", "A_LIVRER", "A_RAMENER", "CASH", "ENCAISSE"}

\* RETIRE: deleted from the queue, or older than what refreshQueue reads.
Status == {"EN_ATTENTE", "ACCEPTE", "REFUSE", "RETIRE"}

VARIABLES
  now,
  parcel,        \* the server's rows
  rows,          \* scan_queue with its scans, and the server's decision of each
  recent,        \* the rows the screens have, read by refreshQueue
  pendingCount,  \* and how many are still to send
  sync,          \* syncNow: idle, waiting for the answer to a batch, between two
  open,          \* the Deliver page, of a parcel, its scan made or not
  data,          \* the lists shown: parcels to deliver, parcels whose cash he has
  loads,         \* the GETs in flight, oldest first
  current,       \* history: the last GET started for the list has been answered last
  moves

phone  == <<rows, recent, pendingCount, sync, open>>
lists  == <<data, loads, current>>
server == <<parcel, moves>>
vars   == <<now, phone, lists, server>>

Row  == [parcel: Parcels, action: {"LIVRE", "ECHEC"}, time: 0..MaxNow, status: Status,
         sent: BOOLEAN, verdict: {"NULL", "ACCEPTE", "REFUSE"}]
Load == [last: BOOLEAN, read: SUBSET Parcels \cup {None}]

TypeOK ==
  /\ now \in 0..MaxNow /\ parcel \in [Parcels -> Standing]
  /\ rows \in Seq(Row) /\ Len(rows) <= MaxScans
  /\ recent \in Seq(Status) /\ Len(recent) <= Len(rows)
  /\ pendingCount \in 0..MaxScans
  /\ sync \in [at: {"IDLE", "SENT", "NEXT"}, batch: SUBSET DOMAIN rows]
  /\ open \in [of: Parcels, done: BOOLEAN] \cup {None}
  /\ data \in [Pages -> SUBSET Parcels] /\ current \in [Pages -> BOOLEAN]
  /\ loads \in [Pages -> Seq(Load)] /\ \A g \in Pages : Len(loads[g]) <= MaxLoads
  /\ moves \in 0..MaxMoves

\* tour and cash: what the server lists.
ToDeliver == {p \in Parcels : parcel[p] = "A_LIVRER"}
Carried   == {p \in Parcels : parcel[p] = "CASH"}
Listed(g) == IF g = "tournee" THEN ToDeliver ELSE Carried

Idle == [at |-> "IDLE", batch |-> {}]

\* The app has been open a while: its lists have been loaded.
Init ==
  /\ now = 0 /\ parcel \in [Parcels -> {"AU_DEPOT", "A_LIVRER"}]
  /\ rows = <<>> /\ recent = <<>> /\ pendingCount = 0 /\ sync = Idle /\ open = None
  /\ data = [g \in Pages |-> Listed(g)]
  /\ loads = [g \in Pages |-> <<>>] /\ current = [g \in Pages |-> TRUE]
  /\ moves = 0

-----------------------------------------------------------------------------
(* What the screens draw *)

PendingIn(rs) == {i \in DOMAIN rs : rs[i].status = "EN_ATTENTE"}
Stands(s) == s \in {"EN_ATTENTE", "ACCEPTE"}

\* The rows findPreviousScan may answer with, Livré then Échec.
FindPreviousScan(p) == {i \in DOMAIN recent : Stands(recent[i]) /\ rows[i].parcel = p}

ScannedToday ==
  {rows[i].parcel : i \in {j \in DOMAIN recent :
                             Stands(recent[j]) /\ rows[j].time \div DAY = now \div DAY}}

\* Ma tournée, and Ma journée's remaining stops.
Stops == data["tournee"] \ ScannedToday

PendingDeliveries ==
  {i \in DOMAIN recent : recent[i] = "EN_ATTENTE" /\ rows[i].action = "LIVRE"}

\* courierCashCarried, as how often a parcel's amount is in the total shown.
TimesInCash(p) ==
  Cardinality({i \in PendingDeliveries : rows[i].parcel = p})
    + (IF p \in data["caisse"] THEN 1 ELSE 0)

-----------------------------------------------------------------------------
(* The lists *)

Started(ls) == Append([k \in DOMAIN ls |-> [ls[k] EXCEPT !.last = FALSE]],
                      [last |-> TRUE, read |-> None])

(* refreshQueue: the rows of 48 hours, and their count, whose change starts  *)
(* the effect of every useData.  Its two queries run one after the other     *)
(* before anything else of the phone changes the queue.                      *)
RefreshQueue(rs) ==
  /\ recent' = [i \in DOMAIN rs |-> IF rs[i].time >= now - 2 * DAY THEN rs[i].status
                                    ELSE "RETIRE"]
  /\ pendingCount' = Cardinality(PendingIn(rs))
  /\ IF pendingCount' = pendingCount THEN UNCHANGED <<loads, current>>
     ELSE /\ \A g \in Pages : Len(loads[g]) < MaxLoads
          /\ loads' = [g \in Pages |-> Started(loads[g])]
          /\ current' = [g \in Pages |-> FALSE]
  /\ UNCHANGED data

(* A page opened again, Rafraîchir, or the tokens refreshed: the session is  *)
(* another object, and useData's effect runs.                               *)
Reload(g) ==
  /\ Len(loads[g]) < MaxLoads /\ moves < MaxMoves /\ moves' = moves + 1
  /\ loads' = [loads EXCEPT ![g] = Started(@)]
  /\ current' = [current EXCEPT ![g] = FALSE]
  /\ UNCHANGED <<now, phone, data, parcel>>

ServerReads(g, k) ==
  /\ loads[g][k].read = None
  /\ loads' = [loads EXCEPT ![g][k].read = Listed(g)]
  /\ UNCHANGED <<now, phone, data, current, server>>

WithoutLoad(g, k) ==
  [loads EXCEPT ![g] = [j \in 1..(Len(@) - 1) |-> @[IF j < k THEN j ELSE j + 1]]]

\* load keeps the answer, reload shows it: the last that comes, not the last asked.
Answered(g, k) ==
  /\ loads[g][k].read # None
  /\ data' = [data EXCEPT ![g] = loads[g][k].read]
  /\ current' = [current EXCEPT ![g] = loads[g][k].last]
  /\ loads' = WithoutLoad(g, k)
  /\ UNCHANGED <<now, phone, server>>

Unanswered(g, k) ==
  /\ loads' = WithoutLoad(g, k)
  /\ UNCHANGED <<now, phone, data, current, server>>

-----------------------------------------------------------------------------
(* The courier *)

\* The Scanner reads a label, or he types its code: the only way to Deliver.
Scan(p) ==
  /\ open = None /\ FindPreviousScan(p) = {} /\ p \in data["tournee"]
  /\ open' = [of |-> p, done |-> FALSE]
  /\ UNCHANGED <<now, rows, recent, pendingCount, sync, lists, server>>

(* confirmDelivery and confirmFailure, then recordScan.  The stop is kept:   *)
(* the parcel may have left the tour since.                                 *)
Confirm(action) ==
  /\ open # None /\ ~open.done /\ Len(rows) < MaxScans
  /\ rows' = Append(rows, [parcel |-> open.of, action |-> action, time |-> now,
                           status |-> "EN_ATTENTE", sent |-> FALSE, verdict |-> "NULL"])
  /\ RefreshQueue(rows')
  /\ open' = [open EXCEPT !.done = TRUE]
  /\ UNCHANGED <<now, sync, server>>

Back == open # None /\ open' = None
        /\ UNCHANGED <<now, rows, recent, pendingCount, sync, lists, server>>

LastScan(i) ==
  LET standing == {j \in DOMAIN rows : Stands(rows[j].status) /\ rows[j].time >= now - 2 * DAY}
  IN  i \in standing /\ \A j \in standing : j <= i

(* Annuler within its minute, which no tick of the clock ends: that of a sent *)
(* scan throws (CourierSync) and changes nothing.                           *)
Annuler(i) ==
  /\ open # None /\ open.done /\ LastScan(i)
  /\ rows[i].status = "EN_ATTENTE" /\ rows[i].time = now
  /\ rows' = [rows EXCEPT ![i].status = "RETIRE"]
  /\ RefreshQueue(rows')
  /\ open' = None
  /\ UNCHANGED <<now, sync, server>>

-----------------------------------------------------------------------------
(* syncNow, by its timer, a scan or the signal back, and the server's scans *)

Send ==
  /\ sync.at # "SENT" /\ PendingIn(rows) # {}
  /\ sync' = [at |-> "SENT", batch |-> PendingIn(rows)]
  /\ rows' = [i \in DOMAIN rows |-> [rows[i] EXCEPT !.sent = @ \/ i \in PendingIn(rows)]]
  /\ UNCHANGED <<now, recent, pendingCount, open, lists, server>>

\* CourierScansService.scan: in the order of the rows; deliverable or refused.
ServerScans(i) ==
  LET ok == parcel[rows[i].parcel] = "A_LIVRER"
  IN  /\ rows[i].sent /\ rows[i].verdict = "NULL"
      /\ \A j \in 1..(i - 1) : rows[j].status = "EN_ATTENTE" => rows[j].verdict # "NULL"
      /\ rows' = [rows EXCEPT ![i].verdict = IF ok THEN "ACCEPTE" ELSE "REFUSE"]
      /\ parcel' = [parcel EXCEPT ![rows[i].parcel] =
                      IF ~ok THEN @ ELSE IF rows[i].action = "LIVRE" THEN "CASH" ELSE "A_RAMENER"]
      /\ UNCHANGED <<now, recent, pendingCount, sync, open, lists, moves>>

\* syncOnce: each answer on its row, which may have been deleted meanwhile.
RecordAnswers ==
  /\ sync.at = "SENT" /\ \A i \in sync.batch : rows[i].verdict # "NULL"
  /\ rows' = [i \in DOMAIN rows |->
                IF i \in sync.batch /\ rows[i].status = "EN_ATTENTE"
                THEN [rows[i] EXCEPT !.status = rows[i].verdict] ELSE rows[i]]
  /\ sync' = [at |-> "NEXT", batch |-> {}]
  /\ UNCHANGED <<now, recent, pendingCount, open, lists, server>>

(* The finally of syncNow: nothing is left to send, or the answer was lost.  *)
(* The timer comes here too, every 15 seconds, with nothing to send.         *)
EndSync ==
  /\ sync.at = "SENT" \/ PendingIn(rows) = {}
  /\ sync' = Idle
  /\ RefreshQueue(rows)
  /\ UNCHANGED <<now, rows, open, server>>

-----------------------------------------------------------------------------
(* The depot, the admin, the clock *)

\* Sortie; Retour de tournée; a Sortie cancelled, or a forced move.
DepotMoves == {<<"AU_DEPOT", "A_LIVRER">>, <<"A_RAMENER", "AU_DEPOT">>,
               <<"A_LIVRER", "AU_DEPOT">>}
\* Clôturer the caisse; an undone delivery (D-85).
AdminMoves == {<<"CASH", "ENCAISSE">>, <<"CASH", "A_LIVRER">>}

Move(p, to) ==
  /\ moves < MaxMoves /\ <<parcel[p], to>> \in DepotMoves \cup AdminMoves
  /\ parcel' = [parcel EXCEPT ![p] = to] /\ moves' = moves + 1
  /\ UNCHANGED <<now, phone, lists>>

Tick == now < MaxNow /\ now' = now + 1 /\ UNCHANGED <<phone, lists, server>>

-----------------------------------------------------------------------------
Next ==
  \/ \E g \in Pages : Reload(g)
  \/ \E g \in Pages : \E k \in DOMAIN loads[g] :
       ServerReads(g, k) \/ Answered(g, k) \/ Unanswered(g, k)
  \/ \E p \in Parcels : Scan(p)
  \/ \E action \in {"LIVRE", "ECHEC"} : Confirm(action)
  \/ \E i \in DOMAIN rows : Annuler(i) \/ ServerScans(i)
  \/ Back \/ Send \/ RecordAnswers \/ EndSync
  \/ \E p \in Parcels, to \in Standing : Move(p, to)
  \/ Tick

Spec == Init /\ [][Next]_vars

-----------------------------------------------------------------------------
(* "scanning it again shows Déjà scanné instead of recording it twice"      *)
(* (coursier.md:140): two standing scans of one parcel are more than two     *)
(* days apart, whatever was sent, refused, taken back or loaded in between.  *)
NothingScannedTwice ==
  \A i, j \in DOMAIN rows :
    /\ i < j /\ rows[i].parcel = rows[j].parcel
    /\ Stands(rows[i].status) /\ Stands(rows[j].status)
    => rows[j].time - rows[i].time > 2 * DAY

Quiet == sync = Idle /\ \A g \in Pages : loads[g] = <<>> /\ current[g]

\* The delivery of row i, as the server has it: its cash is still on him.
HisCash(i) == /\ rows[i].status = "ACCEPTE" /\ rows[i].action = "LIVRE"
              /\ parcel[rows[i].parcel] = "CASH"

\* Annuler took a scan off the queue that was on its way (CourierSync).
Overtaken(p) == \E i \in DOMAIN rows : rows[i].parcel = p /\ rows[i].status = "RETIRE" /\ rows[i].sent

(* Once the queue is empty and the last GETs started have been answered last, *)
(* every delivery the server accepted is counted once in the cash shown, and  *)
(* no parcel he delivered is still a stop ("Loaded again whenever the queue  *)
(* changes, since a sent scan moves the parcels it touched", useData.ts:8).  *)
EmptyQueueShowsAll ==
  Quiet /\ pendingCount = 0 /\ PendingIn(rows) = {} =>
    \A i \in DOMAIN rows :
      HisCash(i) /\ ~Overtaken(rows[i].parcel) =>
        TimesInCash(rows[i].parcel) = 1 /\ rows[i].parcel \notin Stops

(* Not so: "Cash in Ma caisse counts pending scans too, so the total is       *)
(* always right, even offline" (coursier.md:143).  With one scan answered and *)
(* another made meanwhile, the count is the same: nothing is loaded, and the  *)
(* first delivery is neither pending nor in the list.                        *)
CashIsAlwaysRight ==
  Quiet => \A i \in DOMAIN recent :
             HisCash(i) /\ recent[i] = "ACCEPTE" => TimesInCash(rows[i].parcel) = 1

(* Not so: a delivery whose answer was lost is in the list once it is loaded,  *)
(* and still pending: its cash is counted twice.                            *)
CountedOnceOffline == \A p \in Parcels : TimesInCash(p) <= 1

(* Not so: what the Scanner refuses is "the same parcel scanned for the same  *)
(* action today" (queue.ts:104), so a stop of the tour whose earlier scans    *)
(* are all sent and settled can be scanned from its Scanner button.  It looks *)
(* at 48 hours: a parcel failed yesterday and taken out again today is a stop *)
(* that its livreur can neither deliver nor fail.                            *)
CanScanItsStops ==
  Quiet /\ PendingIn(rows) = {} =>
    \A p \in Stops \cap ToDeliver : FindPreviousScan(p) = {}

(* Not so: Ma tournée shows "the parcels scanned out to him, a stop each"     *)
(* (TourneeScreen.tsx:19).  One whose delivery was undone is hidden by the    *)
(* scan of that delivery until the day ends.                                *)
ShowsItsStops == Quiet => ToDeliver \cap data["tournee"] \subseteq Stops
=============================================================================
