----------------------------- MODULE CourierSync -----------------------------
(***************************************************************************)
(* The courier app's queue and its upload: apps/courier/src/queue (the rows  *)
(* in SQLite, syncOnce, cancelScan), state/app.tsx (the loop of syncNow, the  *)
(* session), api/client.ts (the token of a request, its retry after a 401),  *)
(* and on the server courier-sync.service.ts, CourierScansService.scan with  *)
(* its replay, and applyOnce.                                               *)
(*                                                                          *)
(* Each await of the phone and each transaction of the server is a step.     *)
(* A request whose answer the phone no longer waits for goes on running, so  *)
(* two uploads of the same rows can run side by side.  The rows and the      *)
(* session survive a restart of the app; everything else of it is lost.      *)
(***************************************************************************)
EXTENDS Integers, Sequences, FiniteSets

CONSTANTS Couriers,     \* users who log in on this phone
          None,         \* no session, no request
          BatchSize,    \* COURIER_SYNC_MAX_OPERATIONS (50)
          KindOf,       \* the operation each id names, in the order they are written
          Requests,     \* bound: uploads the server runs at once
          MaxFaults,    \* bound: lost answers, errors, 401s, restarts of the app
          MaxSessions   \* bound: logins

Ops  == DOMAIN KindOf
Kind == {"SCAN", "OPERATION", "ILLISIBLE"}

ASSUME QueueAssumption ==
  /\ KindOf \in Seq(Kind) /\ BatchSize \in Nat \ {0}
  /\ MaxFaults \in Nat /\ MaxSessions \in Nat
  /\ None \notin Couriers

(* The answer of an operation: accepted, refused for its content (the       *)
(* refusal is stored with it; that of an unreadable one is not, it is the    *)
(* same each time), or refused because its id is another courier's.          *)
Answer == {"OK", "REFUS", "REUTILISE"}

\* RETIRE: the row is deleted.  No row becomes ANNULE: see InsertAnnulation.
QueueStatus == {"EN_ATTENTE", "ACCEPTE", "REFUSE", "RETIRE"}
QueueRow == [by: Couriers, status: QueueStatus, code: Answer \cup {"NULL"}]

\* The one loop of syncNow: which await it is at, for whom, with what.
Sync == [at: {"IDLE", "PENDING", "SEND", "WAIT", "RECORD"},
         user: Couriers \cup {None}, batch: Seq(Ops), answers: Seq(Answer)]

\* An upload on the server.  looked: its next operation was not found.
Request == [actor: Couriers, ops: Seq(Ops), answers: Seq(Answer), looked: BOOLEAN,
            awaited: BOOLEAN, retry: BOOLEAN]

\* Who an id was decided for and how; the row cancelLastScan has read.
Decision == [by: Couriers, verdict: {"OK", "REFUS"}]
LastScan == [id: Ops, status: QueueStatus]

ASSUME NothingAssumption ==
  None \notin Request /\ None \notin Decision /\ None \notin LastScan

VARIABLES
  rows,        \* scan_queue, by id; ids are given in the order of seq
  sync,        \* the loop of syncNow
  session,     \* the user of the session kept on the phone
  picked,      \* cancelLastScan has read its row: the row and its status
  requests,    \* uploads the server runs
  store,       \* scans and courier_operations: who an id was decided for, and how
  log,         \* history: the ids in the order the server decided them
  withdrawn,   \* history: scans the phone said were taken off the queue
  annulations, \* the scans an ANNULATION row is queued for
  asked,       \* history: sent scans whose cancellation the courier asked for
  faults, sessions

phone  == <<rows, sync, session, picked, withdrawn, annulations, asked, sessions>>
server == <<requests, store, log>>
vars   == <<phone, server, faults>>

TypeOK ==
  /\ rows \in Seq(QueueRow) /\ Len(rows) <= Len(KindOf)
  /\ sync \in Sync /\ session \in Couriers \cup {None}
  /\ picked \in LastScan \cup {None}
  /\ requests \in [Requests -> Request \cup {None}]
  /\ store \in [Ops -> Decision \cup {None}]
  /\ log \in Seq(Ops)
  /\ withdrawn \subseteq Ops /\ annulations \subseteq Ops /\ asked \subseteq Ops
  /\ faults \in 0..MaxFaults /\ sessions \in 0..MaxSessions

Idle       == [at |-> "IDLE", user |-> None, batch |-> <<>>, answers |-> <<>>]
Started(u) == [at |-> "PENDING", user |-> u, batch |-> <<>>, answers |-> <<>>]

Init ==
  /\ rows = <<>> /\ sync = Idle /\ session = None /\ picked = None
  /\ requests = [s \in Requests |-> None]
  /\ store = [o \in Ops |-> None] /\ log = <<>>
  /\ withdrawn = {} /\ annulations = {} /\ asked = {} /\ faults = 0 /\ sessions = 0

Fault == faults < MaxFaults /\ faults' = faults + 1

-----------------------------------------------------------------------------
(* The session *)

Login(c) ==
  /\ session = None /\ sessions < MaxSessions
  /\ session' = c /\ sessions' = sessions + 1
  /\ UNCHANGED <<rows, sync, picked, withdrawn, annulations, asked, server, faults>>

(* Logout, or expire: some request found the session revoked or too old.     *)
(* The queue is not touched, and neither is a loop that is running.          *)
Logout ==
  /\ session # None /\ session' = None
  /\ UNCHANGED <<rows, sync, picked, withdrawn, annulations, asked, sessions, server, faults>>

-----------------------------------------------------------------------------
(* The courier writes, and takes back *)

\* recordScan and recordOperation.
Enqueue ==
  /\ session # None /\ Len(rows) < Len(KindOf)
  /\ rows' = Append(rows, [by |-> session, status |-> "EN_ATTENTE", code |-> "NULL"])
  /\ UNCHANGED <<sync, session, picked, withdrawn, annulations, asked, sessions, server, faults>>

Scans(c) == {i \in DOMAIN rows :
               KindOf[i] = "SCAN" /\ rows[i].by = c /\ rows[i].status \in {"EN_ATTENTE", "ACCEPTE"}}

\* lastScan: his last scan still standing; a refused one is passed over.
IsLastScan(i, c) == i \in Scans(c) /\ \A j \in Scans(c) : j <= i

\* cancelLastScan reads the rows, the window is still open.
PickLastScan(i) ==
  /\ session # None /\ picked = None /\ IsLastScan(i, session)
  /\ picked' = [id |-> i, status |-> rows[i].status]
  /\ UNCHANGED <<rows, sync, session, withdrawn, annulations, asked, sessions, server, faults>>

(* cancelScan of a scan that waited: DELETE ... WHERE status = EN_ATTENTE,    *)
(* and the phone says REMOVED.                                              *)
RemoveScan ==
  /\ picked # None /\ picked.status = "EN_ATTENTE"
  /\ rows' = IF rows[picked.id].status = "EN_ATTENTE"
             THEN [rows EXCEPT ![picked.id].status = "RETIRE"] ELSE rows
  /\ withdrawn' = withdrawn \cup {picked.id}
  /\ picked' = None
  /\ UNCHANGED <<sync, session, annulations, asked, sessions, server, faults>>

\* The id under which a row for the cancellation of scan i is inserted.
operationIdOf(i) == i

IdIsTaken(i) == i \in DOMAIN rows /\ rows[i].status # "RETIRE"

(* cancelScan of a scan that was sent: the ANNULATION is inserted under       *)
(* operationIdOf in a column that is UNIQUE.  When the id is taken the insert  *)
(* throws, and nothing after it runs.                                        *)
InsertAnnulation ==
  /\ picked # None /\ picked.status = "ACCEPTE"
  /\ asked' = asked \cup {picked.id}
  /\ annulations' = IF IdIsTaken(operationIdOf(picked.id)) THEN annulations
                    ELSE annulations \cup {picked.id}
  /\ picked' = None
  /\ UNCHANGED <<rows, sync, session, withdrawn, sessions, server, faults>>

-----------------------------------------------------------------------------
(* The loop of syncNow *)

\* The timer, the network coming back, a new row, a login.
StartSync ==
  /\ sync.at = "IDLE" /\ session # None
  /\ sync' = Started(session)
  /\ UNCHANGED <<rows, session, picked, withdrawn, annulations, asked, sessions, server, faults>>

Smallest(m, n) == IF m < n THEN m ELSE n

\* The rows of courier c still to send.
Waiting(c) == {i \in DOMAIN rows : rows[i].by = c /\ rows[i].status = "EN_ATTENTE"}

Ascending(b) == \A k, m \in DOMAIN b : k < m => b[k] < b[m]

\* What one read of courier c's waiting rows may hold: as many as an upload takes.
Reads(c) == {b \in [1..Smallest(BatchSize, Cardinality(Waiting(c))) -> Waiting(c)] : Ascending(b)}

\* Mutant of pending: the newest rows when they are too many, an older one left behind.
pendingNewest(c) ==
  {b \in Reads(c) : \A i \in Waiting(c), k \in DOMAIN b :
                      i > b[k] => \E m \in DOMAIN b : b[m] = i}

(* His rows still to send, oldest first, at most the upload's limit: one      *)
(* sequence, said by what it holds, ORDER BY seq LIMIT n.                     *)
pending(c) ==
  {b \in Reads(c) : \A i \in Waiting(c), k \in DOMAIN b :
                      i < b[k] => \E m \in DOMAIN b : b[m] = i}

\* Mutant of ReadPending: the flag stays up after an empty read.
ReadPendingFlagUp ==
  /\ sync.at = "PENDING"
  /\ \E batch \in pending(sync.user) :
       batch # <<>> /\ sync' = [sync EXCEPT !.at = "SEND", !.batch = batch]
  /\ UNCHANGED <<rows, session, picked, withdrawn, annulations, asked, sessions, server, faults>>

\* Nothing left to send ends the loop.
ReadPending ==
  /\ sync.at = "PENDING"
  /\ \E batch \in pending(sync.user) :
       sync' = IF batch = <<>> THEN Idle ELSE [sync EXCEPT !.at = "SEND", !.batch = batch]
  /\ UNCHANGED <<rows, session, picked, withdrawn, annulations, asked, sessions, server, faults>>

\* Mutant of Send: the session is not read again.
SendNoSession(s) ==
  /\ sync.at = "SEND" /\ requests[s] = None
  /\ requests' = [requests EXCEPT ![s] =
       [actor |-> session, ops |-> sync.batch, answers |-> <<>>, looked |-> FALSE,
        awaited |-> TRUE, retry |-> FALSE]]
  /\ sync' = [sync EXCEPT !.at = "WAIT"]
  /\ UNCHANGED <<rows, session, picked, withdrawn, annulations, asked, sessions, store, log, faults>>

(* The request takes the token of the session the phone has now: sync.user   *)
(* chose the rows, session sends them.                                      *)
Send(s) ==
  /\ sync.at = "SEND" /\ session # None /\ requests[s] = None
  /\ requests' = [requests EXCEPT ![s] =
       [actor |-> session, ops |-> sync.batch, answers |-> <<>>, looked |-> FALSE,
        awaited |-> TRUE, retry |-> FALSE]]
  /\ sync' = [sync EXCEPT !.at = "WAIT"]
  /\ UNCHANGED <<rows, session, picked, withdrawn, annulations, asked, sessions, store, log, faults>>

\* No token: the loop ends with an ApiError.
SendWithoutSession ==
  /\ sync.at = "SEND" /\ session = None
  /\ sync' = Idle
  /\ UNCHANGED <<rows, session, picked, withdrawn, annulations, asked, sessions, server, faults>>

Unawaited == [s \in Requests |-> IF requests[s] = None THEN None
                                 ELSE [requests[s] EXCEPT !.awaited = FALSE]]

\* No answer at all: a NetworkError ends the loop, the server may go on.
LoseAnswer ==
  /\ sync.at = "WAIT" /\ Fault
  /\ sync' = Idle /\ requests' = Unawaited
  /\ UNCHANGED <<rows, session, picked, withdrawn, annulations, asked, sessions, store, log>>

\* The app is stopped: the rows and the session are on the disk.
RestartApp ==
  /\ Fault
  /\ sync' = Idle /\ picked' = None /\ requests' = Unawaited
  /\ UNCHANGED <<rows, session, withdrawn, annulations, asked, sessions, store, log>>

\* Mutant of setStatus: the row removed meanwhile comes back.
setStatusAnyway(i, answer) ==
  [rows EXCEPT ![i].status = IF answer = "OK" THEN "ACCEPTE" ELSE "REFUSE", ![i].code = answer]

\* UPDATE ... WHERE id: a row removed meanwhile is not there.
setStatus(i, answer) ==
  IF rows[i].status = "RETIRE" THEN rows
  ELSE [rows EXCEPT ![i].status = IF answer = "OK" THEN "ACCEPTE" ELSE "REFUSE",
                    ![i].code = answer]

(* The answers, one row after the other, matched by position; after the last  *)
(* the next batch, until pending is empty.                                   *)
RecordAnswer ==
  /\ sync.at = "RECORD"
  /\ rows' = setStatus(Head(sync.batch), Head(sync.answers))
  /\ sync' = IF Len(sync.answers) = 1 THEN Started(sync.user)
             ELSE [sync EXCEPT !.batch = Tail(@), !.answers = Tail(@)]
  /\ UNCHANGED <<session, picked, withdrawn, annulations, asked, sessions, server, faults>>

-----------------------------------------------------------------------------
(* The server *)

Current(s) == requests[s].ops[Len(requests[s].answers) + 1]
IsRunning(s) == requests[s] # None /\ Len(requests[s].answers) < Len(requests[s].ops)

Reply(s, answer) ==
  requests' = [requests EXCEPT ![s].answers = Append(@, answer), ![s].looked = FALSE]

\* The first answer of an id sent again, if it is the same courier's.
ReplayOf(o, actor) ==
  IF KindOf[o] # "ILLISIBLE" /\ store[o].by # actor THEN "REUTILISE" ELSE store[o].verdict

\* findUnique, before the transaction.
LookUp(s) ==
  /\ IsRunning(s) /\ ~requests[s].looked
  /\ LET o == Current(s) IN
     IF store[o] # None THEN Reply(s, ReplayOf(o, requests[s].actor))
     ELSE requests' = [requests EXCEPT ![s].looked = TRUE]
  /\ UNCHANGED <<phone, store, log, faults>>

\* Mutant of Decide: the id is not unique, or its clash is not caught.
DecideAgain(s) ==
  /\ IsRunning(s) /\ requests[s].looked
  /\ LET o == Current(s) IN
     \E verdict \in IF KindOf[o] = "ILLISIBLE" THEN {"REFUS"} ELSE {"OK", "REFUS"} :
       /\ store' = [store EXCEPT ![o] = [by |-> requests[s].actor, verdict |-> verdict]]
       /\ log' = Append(log, o)
       /\ Reply(s, verdict)
  /\ UNCHANGED <<phone, faults>>

(* The transaction of one operation: it inserts the id, and the one that      *)
(* comes second finds it taken and answers as the first.  An unreadable       *)
(* operation is refused before it; that no row keeps its answer is the same    *)
(* as keeping it, since the answer never changes.                            *)
Decide(s) ==
  /\ IsRunning(s) /\ requests[s].looked
  /\ LET o == Current(s) IN
     IF store[o] # None
     THEN Reply(s, ReplayOf(o, requests[s].actor)) /\ UNCHANGED <<store, log>>
     ELSE \E verdict \in IF KindOf[o] = "ILLISIBLE" THEN {"REFUS"} ELSE {"OK", "REFUS"} :
            /\ store' = [store EXCEPT ![o] = [by |-> requests[s].actor, verdict |-> verdict]]
            /\ log' = Append(log, o)
            /\ Reply(s, verdict)
  /\ UNCHANGED <<phone, faults>>

\* Mutant of FailRequest: the operation that throws is skipped.
FailRequestSkip(s) ==
  /\ IsRunning(s) /\ requests[s].looked /\ Len(requests[s].ops) > 1 /\ Fault
  /\ requests' = [requests EXCEPT
       ![s].ops = SubSeq(@, 1, Len(requests[s].answers))
                  \o SubSeq(@, Len(requests[s].answers) + 2, Len(@)),
       ![s].looked = FALSE]
  /\ UNCHANGED <<phone, store, log>>

(* The upload is lost, an operation's transaction throws, or the server       *)
(* stops: what it decided stays, and no answer leaves.                       *)
FailRequest(s) ==
  /\ requests[s] # None /\ Fault
  /\ requests' = [requests EXCEPT ![s] = None]
  /\ sync' = IF requests[s].awaited THEN Idle ELSE sync
  /\ UNCHANGED <<rows, session, picked, withdrawn, annulations, asked, sessions, store, log>>

(* 401 before anything ran.  The phone refreshes the tokens it has now and    *)
(* sends the same operations again with them; a second 401, or a refused      *)
(* refresh, ends its session.                                                *)
Unauthorized(s) ==
  /\ requests[s] # None /\ requests[s].awaited /\ Fault
  /\ requests[s].answers = <<>> /\ ~requests[s].looked
  /\ \/ /\ session # None /\ ~requests[s].retry
        /\ requests' = [requests EXCEPT ![s].actor = session, ![s].retry = TRUE]
        /\ UNCHANGED <<sync, session>>
     \/ /\ requests' = [requests EXCEPT ![s] = None]
        /\ sync' = Idle /\ session' = None
  /\ UNCHANGED <<rows, picked, withdrawn, annulations, asked, sessions, store, log>>

Respond(s) ==
  /\ requests[s] # None /\ ~IsRunning(s)
  /\ requests' = [requests EXCEPT ![s] = None]
  /\ sync' = IF requests[s].awaited
             THEN [sync EXCEPT !.at = "RECORD", !.answers = requests[s].answers] ELSE sync
  /\ UNCHANGED <<rows, session, picked, withdrawn, annulations, asked, sessions, store, log, faults>>

-----------------------------------------------------------------------------
CourierStep ==
  \/ \E c \in Couriers : Login(c)
  \/ Logout \/ Enqueue \/ RemoveScan \/ InsertAnnulation
  \/ \E i \in Ops : PickLastScan(i)

SyncStep ==
  \/ StartSync \/ ReadPending \/ SendWithoutSession \/ RecordAnswer
  \/ \E s \in Requests : Send(s)

ServerStep(s) == LookUp(s) \/ Decide(s) \/ Respond(s)

FaultStep ==
  \/ LoseAnswer \/ RestartApp
  \/ \E s \in Requests : FailRequest(s) \/ Unauthorized(s)

Next == CourierStep \/ SyncStep \/ (\E s \in Requests : ServerStep(s)) \/ FaultStep

(* The timer fires every 15 seconds, an await of the phone returns, and the   *)
(* server ends what it runs.  Faults are finitely many: the network comes     *)
(* back for good.  Nothing obliges a courier, nor a session to last.          *)
Spec ==
  /\ Init /\ [][Next]_vars
  /\ WF_vars(SyncStep) /\ \A s \in Requests : WF_vars(ServerStep(s))

-----------------------------------------------------------------------------
(* Properties *)

Position(o) == CHOOSE k \in DOMAIN log : log[k] = o

(* An operation sent again, because its answer was lost, or running in two    *)
(* uploads at once, is decided once (the scan's UUID, applyOnce), and the one  *)
(* decision is the one kept.                                                *)
DecidedOnce ==
  /\ \A k, m \in DOMAIN log : log[k] = log[m] => k = m
  /\ {log[k] : k \in DOMAIN log} = {o \in Ops : store[o] # None}

(* Two operations of one courier, neither taken back, are decided in the      *)
(* order he wrote them, across partial batches, lost answers, uploads that     *)
(* overtake each other and restarts.                                         *)
DecidedInOrder ==
  \A i, j \in DOMAIN rows :
    /\ i < j /\ rows[i].by = rows[j].by
    /\ rows[i].status # "RETIRE" /\ store[j] # None
    => store[i] # None /\ Position(i) < Position(j)

(* What the phone shows is what the server decided, although answers are      *)
(* matched by position: an accepted row was accepted, a refused one refused,   *)
(* or refused as another courier's id and decided under another session.      *)
ShowsTheVerdict ==
  \A i \in DOMAIN rows :
    /\ rows[i].status = "ACCEPTE" => store[i] # None /\ store[i].verdict = "OK"
    /\ rows[i].code = "REFUS" => store[i] # None /\ store[i].verdict = "REFUS"
    /\ rows[i].code = "REUTILISE" => store[i] # None /\ sessions > 1
    /\ rows[i].status = "EN_ATTENTE" <=> rows[i].code = "NULL" /\ rows[i].status # "RETIRE"

(* A courier who stays logged in has every row answered in the end: a refused  *)
(* or unreadable operation, a row written while the loop ends, a forced logout *)
(* and a restart leave none behind.                                          *)
QueueEmpties ==
  \A c \in Couriers : <>[](session = c) => <>[](Waiting(c) = {})

(* The queue implements what it promises.  An answer REUTILISE shows nothing   *)
(* of what was decided.                                                      *)
Delivery == INSTANCE OfflineDelivery WITH
  author    <- [o \in Ops |-> IF o \in DOMAIN rows THEN rows[o].by ELSE None],
  decided   <- [o \in Ops |-> IF store[o] = None THEN "NULL" ELSE store[o].verdict],
  shown     <- [o \in Ops |-> IF o \in DOMAIN rows /\ rows[o].code \in {"OK", "REFUS"}
                              THEN rows[o].code ELSE "NULL"],
  withdrawn <- {o \in DOMAIN rows : rows[o].status = "RETIRE"}

Promise == Delivery!Spec

(* "a forced logout never loses or reassigns a scan": the server decides an    *)
(* operation for the courier who wrote it.                                   *)
NeverReassigned ==
  \A i \in DOMAIN rows : store[i] # None => store[i].by = rows[i].by

(* "A scan never sent is simply taken off the queue": the server knows none    *)
(* of the scans the phone said were removed.                                 *)
RemovedWasNeverSent == \A i \in withdrawn : store[i] = None

(* "a sent one gets a cancellation queued after it": the queue has one for     *)
(* every sent scan the courier asked to cancel.                              *)
CancellationIsQueued == asked \subseteq annulations
=============================================================================
