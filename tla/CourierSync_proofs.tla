-------------------------- MODULE CourierSync_proofs --------------------------
(***************************************************************************)
(* Proofs about CourierSync, for any couriers, operations, upload limit,     *)
(* number of uploads at once, faults and logins: the queue's safety           *)
(* properties are invariants, and the queue implements OfflineDelivery.      *)
(***************************************************************************)
EXTENDS CourierSync, SequenceTheorems, FiniteSetTheorems, TLAPS

-----------------------------------------------------------------------------
(* The inductive invariant *)

(* An upload that may be decided row by row: it is not empty, its rows are    *)
(* there, oldest first, and whatever its author wrote before one of them and   *)
(* did not take back is decided (d is the server's store) or goes before it.   *)
Sendable(b, r, d) ==
  /\ Len(b) >= 1
  /\ \A k \in 1..Len(b) : b[k] \in 1..Len(r)
  /\ \A k, m \in 1..Len(b) : k < m => b[k] < b[m]
  /\ \A k \in 1..Len(b), e \in 1..Len(r) :
       e < b[k] /\ r[e].by = r[b[k]].by /\ r[e].status # "RETIRE"
       => d[e] # None \/ \E m \in 1..Len(b) : m < k /\ b[m] = e

(* Answer a tells the truth about operation o: the verdict kept, or that the   *)
(* id is another's, which two sessions are needed for (n counts them).         *)
Truthful(o, a, d, n) ==
  /\ d[o] # None
  /\ a = d[o].verdict \/ (a = "REUTILISE" /\ n > 1)

(* An upload of these operations, answered so far like this, is sendable, and   *)
(* its answers, matched by position, are true.                                *)
Honest(ops, answers, r, d, n) ==
  /\ Sendable(ops, r, d) /\ Len(answers) <= Len(ops)
  /\ \A k \in 1..Len(answers) : Truthful(ops[k], answers[k], d, n)

UploadsInv ==
  \A s \in Requests : requests[s] # None =>
    Honest(requests[s].ops, requests[s].answers, rows, store, sessions)

(* Row w of operation o shows what was decided; ShowsTheVerdict, and that OK is  *)
(* the code of an accepted row only.                                          *)
Shows(w, o, d, n) ==
  /\ w.status = "ACCEPTE" => d[o] # None /\ d[o].verdict = "OK"
  /\ w.code = "REFUS" => d[o] # None /\ d[o].verdict = "REFUS"
  /\ w.code = "REUTILISE" => d[o] # None /\ n > 1
  /\ w.status = "EN_ATTENTE" <=> w.code = "NULL" /\ w.status # "RETIRE"
  /\ w.code = "OK" => w.status = "ACCEPTE"

\* Nothing is decided that was not written.
RowsInv ==
  /\ \A i \in 1..Len(rows) : Shows(rows[i], i, store, sessions)
  /\ \A o \in Ops : store[o] # None => o \in 1..Len(rows)

(* The loop: a batch read is sendable until it is answered, and its rows have   *)
(* no other answer; the answers match it by position and are true.             *)
Rising(b) == \A k, m \in 1..Len(b) : k < m => b[k] < b[m]

Unanswered(b, r) ==
  \A k \in 1..Len(b) : b[k] \in 1..Len(r) /\ r[b[k]].status \in {"EN_ATTENTE", "RETIRE"}

LoopInv ==
  /\ Rising(sync.batch) /\ Unanswered(sync.batch, rows)
  /\ sync.at \in {"SEND", "WAIT"} => Sendable(sync.batch, rows, store)
  /\ sync.at = "RECORD" =>
       /\ Len(sync.answers) = Len(sync.batch) /\ Len(sync.batch) >= 1
       /\ \A k \in 1..Len(sync.batch) :
            Truthful(sync.batch[k], sync.answers[k], store, sessions)

(* The phone waits for one upload at most, of the batch it read.               *)
AwaitInv ==
  /\ \A s \in Requests : requests[s] # None /\ requests[s].awaited =>
       sync.at = "WAIT" /\ requests[s].ops = sync.batch
  /\ \A s, t \in Requests :
       /\ requests[s] # None /\ requests[s].awaited
       /\ requests[t] # None /\ requests[t].awaited
       => s = t

PickedInv == picked # None => picked.id \in 1..Len(rows)

(* Courier c has been logged in: his session, an upload of his, a decision.    *)
Seen(c) ==
  \/ session = c
  \/ \E s \in Requests : requests[s] # None /\ requests[s].actor = c
  \/ \E o \in Ops : store[o] # None /\ store[o].by = c

SessionInv ==
  /\ sessions = 0 => \A c \in Couriers : ~Seen(c)
  /\ sessions <= 1 => \A c, d \in Couriers : Seen(c) /\ Seen(d) => c = d

(* DecidedInOrder without Position: wherever the two stand in the log.         *)
OrderInv ==
  \A i, j \in 1..Len(rows) :
    /\ i < j /\ rows[i].by = rows[j].by
    /\ rows[i].status # "RETIRE" /\ store[j] # None
    => /\ store[i] # None
       /\ \A k, m \in 1..Len(log) : log[k] = i /\ log[m] = j => k < m

QueueInv ==
  /\ TypeOK /\ DecidedOnce /\ OrderInv /\ RowsInv
  /\ UploadsInv /\ LoopInv /\ AwaitInv /\ PickedInv /\ SessionInv

-----------------------------------------------------------------------------
(* What the operators return *)

\* The ids of the operations are the numbers of their places in KindOf.
LEMMA OpsAreNumbers == Len(KindOf) \in Nat /\ Ops = 1..Len(KindOf)
  BY QueueAssumption, LenProperties DEF Ops

\* Under the type invariant, the ids of the rows are operations.
LEMMA RowsAreOps ==
  ASSUME TypeOK
  PROVE  Len(rows) \in Nat /\ DOMAIN rows = 1..Len(rows) /\ DOMAIN rows \subseteq Ops
  BY OpsAreNumbers DEF TypeOK

(* What pending reads: rows of the courier that wait, oldest first, none        *)
(* skipped.                                                                 *)
LEMMA PendingReads ==
  ASSUME TypeOK, NEW c, NEW b \in pending(c)
  PROVE  /\ b \in Seq(Waiting(c)) /\ b \in Seq(Ops)
         /\ \A k, m \in 1..Len(b) : k < m => b[k] < b[m]
         /\ \A i \in Waiting(c), k \in 1..Len(b) :
              i < b[k] => \E m \in 1..Len(b) : b[m] = i
<1>1. Waiting(c) \subseteq 1..Len(rows) /\ Waiting(c) \subseteq Ops
  BY RowsAreOps DEF Waiting
<1>2. Cardinality(Waiting(c)) \in Nat
  <2>1. IsFiniteSet(1..Len(rows))
    BY RowsAreOps, FS_Interval
  <2> QED BY <2>1, <1>1, FS_Subset, FS_CardinalityType
<1>3. Smallest(BatchSize, Cardinality(Waiting(c))) \in Nat
  BY <1>2, QueueAssumption DEF Smallest
<1>4. b \in Seq(Waiting(c))
  BY <1>3 DEF pending, Reads
<1>5. b \in Seq(Ops)
  BY <1>4, <1>1
<1>6. DOMAIN b = 1..Len(b)
  BY <1>4
<1> QED BY <1>4, <1>5, <1>6 DEF pending, Reads, Ascending

\* The answer to an id sent again is an answer.
LEMMA ReplayIsAnswer ==
  ASSUME TypeOK, NEW o \in Ops, NEW c, store[o] # None
  PROVE  ReplayOf(o, c) \in Answer
  BY DEF TypeOK, Decision, ReplayOf, Answer

\* The operation an upload is at is one of its own.
LEMMA CurrentIsOp ==
  ASSUME TypeOK, NEW s \in Requests, IsRunning(s)
  PROVE  /\ requests[s] \in Request
         /\ Len(requests[s].answers) + 1 \in 1..Len(requests[s].ops)
         /\ Current(s) \in Ops
<1>1. requests[s] \in Request
  BY DEF TypeOK, IsRunning
<1>2. requests[s].ops \in Seq(Ops) /\ requests[s].answers \in Seq(Answer)
  BY <1>1 DEF Request
<1>3. Len(requests[s].answers) + 1 \in 1..Len(requests[s].ops)
  BY <1>2 DEF IsRunning
<1> QED BY <1>1, <1>2, <1>3 DEF Current

-----------------------------------------------------------------------------
(* The type invariant *)

\* An answer is added to the upload's; nothing else of any upload changes.
LEMMA ReplyEffect ==
  ASSUME TypeOK, NEW s \in Requests, IsRunning(s), NEW a \in Answer, Reply(s, a)
  PROVE  /\ requests' \in [Requests -> Request \cup {None}]
         /\ \A t \in Requests : t # s => requests'[t] = requests[t]
         /\ requests'[s] # None
         /\ requests'[s].actor = requests[s].actor /\ requests'[s].ops = requests[s].ops
         /\ requests'[s].awaited = requests[s].awaited
         /\ Len(requests'[s].answers) = Len(requests[s].answers) + 1
         /\ \A k \in 1..Len(requests[s].answers) :
              requests'[s].answers[k] = requests[s].answers[k]
         /\ requests'[s].answers[Len(requests[s].answers) + 1] = a
<1> DEFINE q == [requests[s] EXCEPT !.answers = Append(@, a), !.looked = FALSE]
<1>1. requests[s] \in Request
  BY CurrentIsOp
<1>2. requests[s].answers \in Seq(Answer)
  BY <1>1 DEF Request
<1>3. Append(requests[s].answers, a) \in Seq(Answer)
  BY <1>2
<1>4. q \in Request /\ q.answers = Append(requests[s].answers, a)
      /\ q.actor = requests[s].actor /\ q.ops = requests[s].ops
      /\ q.awaited = requests[s].awaited
  BY <1>1, <1>3 DEF Request
<1>5. requests' = [requests EXCEPT ![s] = q]
  BY DEF Reply
<1>6. requests'[s] = q /\ \A t \in Requests : t # s => requests'[t] = requests[t]
  BY <1>5 DEF TypeOK
<1>7. requests' \in [Requests -> Request \cup {None}]
  BY <1>4, <1>5 DEF TypeOK
<1>8. q # None
  BY <1>4, NothingAssumption
<1> HIDE DEF q
<1>9. /\ Len(q.answers) = Len(requests[s].answers) + 1
      /\ \A k \in 1..Len(requests[s].answers) : q.answers[k] = requests[s].answers[k]
      /\ q.answers[Len(requests[s].answers) + 1] = a
  BY <1>2, <1>4
<1> QED BY <1>4, <1>6, <1>7, <1>8, <1>9

\* No upload is awaited any more, and nothing else of any changes.
LEMMA UnawaitedEffect ==
  ASSUME TypeOK
  PROVE  /\ Unawaited \in [Requests -> Request \cup {None}]
         /\ \A s \in Requests :
              /\ Unawaited[s] # None <=> requests[s] # None
              /\ Unawaited[s] # None =>
                   /\ ~Unawaited[s].awaited
                   /\ Unawaited[s].actor = requests[s].actor
                   /\ Unawaited[s].ops = requests[s].ops
                   /\ Unawaited[s].answers = requests[s].answers
<1> SUFFICES ASSUME NEW s \in Requests
             PROVE  /\ Unawaited[s] \in Request \cup {None}
                    /\ Unawaited[s] # None <=> requests[s] # None
                    /\ Unawaited[s] # None =>
                         /\ ~Unawaited[s].awaited
                         /\ Unawaited[s].actor = requests[s].actor
                         /\ Unawaited[s].ops = requests[s].ops
                         /\ Unawaited[s].answers = requests[s].answers
  BY DEF Unawaited
<1>1. CASE requests[s] = None
  BY <1>1 DEF Unawaited
<1>2. CASE requests[s] # None
  <2>1. requests[s] \in Request
    BY <1>2 DEF TypeOK
  <2>2. Unawaited[s] = [requests[s] EXCEPT !.awaited = FALSE]
    BY <1>2 DEF Unawaited
  <2>3. Unawaited[s] \in Request
    BY <2>1, <2>2 DEF Request
  <2> QED BY <1>2, <2>1, <2>2, <2>3, NothingAssumption DEF Request
<1> QED BY <1>1, <1>2

\* What a new upload is.
LEMMA SendEffect ==
  ASSUME TypeOK, NEW s \in Requests, Send(s)
  PROVE  /\ requests' \in [Requests -> Request \cup {None}]
         /\ \A t \in Requests : t # s => requests'[t] = requests[t]
         /\ requests'[s] # None /\ requests'[s].awaited
         /\ requests'[s].actor = session /\ requests'[s].ops = sync.batch
         /\ requests'[s].answers = <<>>
<1> DEFINE q == [actor |-> session, ops |-> sync.batch, answers |-> <<>>, looked |-> FALSE,
                 awaited |-> TRUE, retry |-> FALSE]
<1>1. q \in Request
  BY DEF TypeOK, Send, Sync, Request
<1>2. requests' = [requests EXCEPT ![s] = q]
  BY DEF Send
<1> QED BY <1>1, <1>2, NothingAssumption DEF TypeOK

\* A row's status and code after an answer.
LEMMA SetStatusEffect ==
  ASSUME TypeOK, NEW i \in 1..Len(rows), NEW a \in Answer
  PROVE  /\ setStatus(i, a) \in Seq(QueueRow) /\ Len(setStatus(i, a)) = Len(rows)
         /\ \A j \in 1..Len(rows) : j # i => setStatus(i, a)[j] = rows[j]
         /\ setStatus(i, a)[i].by = rows[i].by
         /\ rows[i].status = "RETIRE" => setStatus(i, a) = rows
         /\ rows[i].status # "RETIRE" =>
              /\ setStatus(i, a)[i].status = IF a = "OK" THEN "ACCEPTE" ELSE "REFUSE"
              /\ setStatus(i, a)[i].code = a
<1>1. rows[i] \in QueueRow /\ rows \in Seq(QueueRow)
  BY DEF TypeOK
<1>2. CASE rows[i].status = "RETIRE"
  BY <1>1, <1>2 DEF setStatus
<1>3. CASE rows[i].status # "RETIRE"
  <2> DEFINE row == [rows[i] EXCEPT !.status = IF a = "OK" THEN "ACCEPTE" ELSE "REFUSE",
                                    !.code = a]
  <2>1. row \in QueueRow
    BY <1>1 DEF QueueRow, QueueStatus
  <2>2. setStatus(i, a) = [rows EXCEPT ![i] = row]
    BY <1>3 DEF setStatus
  <2>3. row.by = rows[i].by /\ row.code = a
        /\ row.status = IF a = "OK" THEN "ACCEPTE" ELSE "REFUSE"
    BY <1>1 DEF QueueRow
  <2> HIDE DEF row
  <2>4. /\ [rows EXCEPT ![i] = row] \in Seq(QueueRow)
        /\ Len([rows EXCEPT ![i] = row]) = Len(rows)
        /\ \A j \in 1..Len(rows) : [rows EXCEPT ![i] = row][j] = IF j = i THEN row ELSE rows[j]
    BY <1>1, <2>1, ExceptSeq
  <2> QED BY <1>3, <2>2, <2>3, <2>4
<1> QED BY <1>2, <1>3

\* The answer recorded is the first, to the first row of the batch; the loop keeps the rest.
LEMMA RecordEffect ==
  ASSUME QueueInv, RecordAnswer
  PROVE  /\ sync.batch \in Seq(Ops) /\ sync.answers \in Seq(Answer)
         /\ sync.at = "RECORD" /\ Len(sync.answers) = Len(sync.batch) /\ Len(sync.batch) >= 1
         /\ sync.batch[1] \in 1..Len(rows) /\ sync.answers[1] \in Answer
         /\ rows' = setStatus(sync.batch[1], sync.answers[1])
         /\ \/ sync' = Started(sync.user)
            \/ /\ Len(sync.batch) > 1 /\ sync' \in Sync /\ sync'.at = "RECORD"
               /\ Len(sync'.batch) = Len(sync.batch) - 1
               /\ Len(sync'.answers) = Len(sync.batch) - 1
               /\ \A k \in 1..Len(sync'.batch) :
                    /\ sync'.batch[k] = sync.batch[k + 1]
                    /\ sync'.answers[k] = sync.answers[k + 1]
<1>1. sync \in Sync /\ sync.at = "RECORD"
      /\ Len(sync.answers) = Len(sync.batch) /\ Len(sync.batch) >= 1
  BY DEF RecordAnswer, QueueInv, TypeOK, LoopInv
<1>2. sync.batch \in Seq(Ops) /\ sync.answers \in Seq(Answer)
  BY <1>1 DEF Sync
<1>3. /\ Head(sync.batch) = sync.batch[1] /\ Head(sync.answers) = sync.answers[1]
      /\ sync.answers[1] \in Answer /\ sync.batch # <<>> /\ sync.answers # <<>>
  BY <1>1, <1>2
<1>4. sync.batch[1] \in 1..Len(rows)
  BY <1>1, <1>2 DEF QueueInv, LoopInv, Unanswered
<1>5. /\ Tail(sync.batch) \in Seq(Ops) /\ Tail(sync.answers) \in Seq(Answer)
      /\ Len(Tail(sync.batch)) = Len(sync.batch) - 1
      /\ Len(Tail(sync.answers)) = Len(sync.batch) - 1
      /\ \A k \in 1..Len(Tail(sync.batch)) : Tail(sync.batch)[k] = sync.batch[k + 1]
      /\ \A k \in 1..Len(Tail(sync.answers)) : Tail(sync.answers)[k] = sync.answers[k + 1]
  BY <1>1, <1>2, <1>3, HeadTailProperties
<1>6. CASE Len(sync.answers) = 1
  BY <1>1, <1>2, <1>3, <1>4, <1>6 DEF RecordAnswer
<1>7. CASE Len(sync.answers) # 1
  <2>1. sync' = [sync EXCEPT !.batch = Tail(@), !.answers = Tail(@)]
    BY <1>7 DEF RecordAnswer
  <2>2. sync' \in Sync /\ sync'.at = "RECORD"
        /\ sync'.batch = Tail(sync.batch) /\ sync'.answers = Tail(sync.answers)
    BY <1>1, <1>5, <2>1 DEF Sync
  <2>3. Len(sync.batch) > 1
    <3>1. Len(sync.batch) \in Nat /\ Len(sync.answers) \in Nat
      BY <1>2, LenProperties
    <3>2. Len(sync.batch) = Len(sync.answers) /\ Len(sync.batch) >= 1
      BY <1>1
    <3> QED BY <1>7, <3>1, <3>2
  <2> QED BY <1>1, <1>2, <1>3, <1>4, <1>5, <2>2, <2>3 DEF RecordAnswer
<1> QED BY <1>6, <1>7

\* What ReadPending leaves: an empty loop, or a batch to send.
LEMMA ReadEffect ==
  ASSUME QueueInv, ReadPending
  PROVE  \/ sync' = Idle
         \/ \E b \in pending(sync.user) :
              /\ b # <<>> /\ sync' \in Sync
              /\ sync'.at = "SEND" /\ sync'.batch = b
<1> PICK b \in pending(sync.user) :
      sync' = IF b = <<>> THEN Idle ELSE [sync EXCEPT !.at = "SEND", !.batch = b]
  BY DEF ReadPending
<1>1. b \in Seq(Ops)
  BY PendingReads DEF QueueInv
<1>2. CASE b = <<>>
  BY <1>2
<1>3. CASE b # <<>>
  BY <1>1, <1>3 DEF QueueInv, TypeOK, Sync
<1> QED BY <1>2, <1>3

\* Every step keeps the types.
LEMMA QueueTyped ==
  ASSUME QueueInv, [Next]_vars
  PROVE  TypeOK'
<1> USE DEF QueueInv
<1>0. Idle \in Sync
  BY DEF Idle, Sync
<1>1. ASSUME NEW c \in Couriers, Login(c) PROVE TypeOK'
  BY <1>1, QueueAssumption DEF TypeOK, Login, server
<1>2. CASE Logout
  BY <1>2 DEF TypeOK, Logout, server
<1>3. CASE Enqueue
  <2>1. [by |-> session, status |-> "EN_ATTENTE", code |-> "NULL"] \in QueueRow
    BY <1>3 DEF TypeOK, Enqueue, QueueRow, QueueStatus
  <2>2. rows' \in Seq(QueueRow) /\ Len(rows') <= Len(KindOf)
    BY <1>3, <2>1, OpsAreNumbers DEF TypeOK, Enqueue
  <2> QED BY <1>3, <2>2 DEF TypeOK, Enqueue, server
<1>4. CASE RemoveScan
  <2>1. picked \in LastScan /\ picked.id \in 1..Len(rows)
    BY <1>4 DEF RemoveScan, TypeOK, PickedInv
  <2>2. rows' \in Seq(QueueRow) /\ Len(rows') = Len(rows)
    <3>1. rows[picked.id] \in QueueRow
      BY <2>1 DEF TypeOK
    <3>2. [rows[picked.id] EXCEPT !.status = "RETIRE"] \in QueueRow
      BY <3>1 DEF QueueRow, QueueStatus
    <3> QED BY <1>4, <2>1, <3>2, ExceptSeq DEF RemoveScan, TypeOK
  <2> QED BY <1>4, <2>1, <2>2 DEF TypeOK, RemoveScan, server, LastScan
<1>5. CASE InsertAnnulation
  BY <1>5 DEF TypeOK, InsertAnnulation, server, LastScan
<1>6. ASSUME NEW i \in Ops, PickLastScan(i) PROVE TypeOK'
  <2>1. rows[i].status \in QueueStatus
    BY <1>6, RowsAreOps DEF PickLastScan, IsLastScan, Scans, QueueStatus
  <2> QED BY <1>6, <2>1 DEF TypeOK, PickLastScan, server, LastScan
<1>7. CASE StartSync
  BY <1>0, <1>7 DEF TypeOK, StartSync, Sync, Started, server
<1>8. CASE ReadPending
  <2>1. sync' \in Sync
    BY <1>0, <1>8, ReadEffect
  <2> QED BY <1>8, <2>1 DEF TypeOK, ReadPending, server
<1>9. CASE SendWithoutSession
  BY <1>0, <1>9 DEF TypeOK, SendWithoutSession, server
<1>10. CASE RecordAnswer
  <2>1. rows' \in Seq(QueueRow) /\ Len(rows') = Len(rows)
    BY <1>10, RecordEffect, SetStatusEffect
  <2>2. sync' \in Sync
    <3>1. sync.user \in Couriers \cup {None}
      BY DEF TypeOK, Sync
    <3>2. Started(sync.user) \in Sync
      BY <3>1 DEF Sync, Started
    <3> QED BY <1>10, <3>2, RecordEffect
  <2> QED BY <1>10, <2>1, <2>2 DEF TypeOK, RecordAnswer, server
<1>11. ASSUME NEW s \in Requests, Send(s) PROVE TypeOK'
  <2>1. sync' \in Sync
    BY <1>11 DEF TypeOK, Send, Sync
  <2> QED BY <1>11, <2>1, SendEffect DEF TypeOK, Send
<1>12. ASSUME NEW s \in Requests, LookUp(s) PROVE TypeOK'
  <2>1. requests' \in [Requests -> Request \cup {None}]
    <3>1. CASE store[Current(s)] # None
      BY <1>12, <3>1, CurrentIsOp, ReplayIsAnswer, ReplyEffect DEF LookUp
    <3>2. CASE store[Current(s)] = None
      <4>1. [requests[s] EXCEPT !.looked = TRUE] \in Request
        BY <1>12, CurrentIsOp DEF LookUp, Request
      <4> QED BY <1>12, <3>2, <4>1 DEF LookUp, TypeOK
    <3> QED BY <3>1, <3>2
  <2> QED BY <1>12, <2>1 DEF TypeOK, LookUp, phone
<1>13. ASSUME NEW s \in Requests, Decide(s) PROVE TypeOK'
  <2>1. CASE store[Current(s)] # None
    <3>1. requests' \in [Requests -> Request \cup {None}]
      BY <1>13, <2>1, CurrentIsOp, ReplayIsAnswer, ReplyEffect DEF Decide
    <3> QED BY <1>13, <2>1, <3>1 DEF TypeOK, Decide, phone
  <2>2. CASE store[Current(s)] = None
    <3> PICK verdict \in {"OK", "REFUS"} :
          /\ store' = [store EXCEPT ![Current(s)] = [by |-> requests[s].actor,
                                                     verdict |-> verdict]]
          /\ log' = Append(log, Current(s)) /\ Reply(s, verdict)
      BY <1>13, <2>2 DEF Decide
    <3>1. requests' \in [Requests -> Request \cup {None}]
      BY <1>13, ReplyEffect DEF Decide, Answer
    <3>2. [by |-> requests[s].actor, verdict |-> verdict] \in Decision
      BY <1>13, CurrentIsOp DEF Decide, Decision, Request
    <3>3. store' \in [Ops -> Decision \cup {None}]
      BY <3>2 DEF TypeOK
    <3>4. log' \in Seq(Ops)
      BY <1>13, CurrentIsOp DEF Decide, TypeOK
    <3> QED BY <1>13, <3>1, <3>3, <3>4 DEF TypeOK, Decide, phone
  <2> QED BY <2>1, <2>2
<1>14. ASSUME NEW s \in Requests, Respond(s) PROVE TypeOK'
  <2>1. requests[s] \in Request
    BY <1>14 DEF Respond, TypeOK
  <2>2. sync' \in Sync
    BY <1>14, <2>1 DEF Respond, TypeOK, Sync, Request
  <2> QED BY <1>14, <2>2 DEF TypeOK, Respond
<1>15. CASE LoseAnswer
  BY <1>0, <1>15, UnawaitedEffect, QueueAssumption DEF TypeOK, LoseAnswer, Fault
<1>16. CASE RestartApp
  BY <1>0, <1>16, UnawaitedEffect, QueueAssumption DEF TypeOK, RestartApp, Fault
<1>17. ASSUME NEW s \in Requests, FailRequest(s) PROVE TypeOK'
  BY <1>0, <1>17, QueueAssumption DEF TypeOK, FailRequest, Fault
<1>18. ASSUME NEW s \in Requests, Unauthorized(s) PROVE TypeOK'
  <2>1. requests[s] \in Request
    BY <1>18 DEF Unauthorized, TypeOK
  <2>2. requests' \in [Requests -> Request \cup {None}]
    <3>1. CASE session = None
      BY <1>18, <3>1 DEF Unauthorized, TypeOK
    <3>2. CASE session # None
      <4>1. [requests[s] EXCEPT !.actor = session, !.retry = TRUE] \in Request
        BY <2>1, <3>2 DEF TypeOK, Request
      <4> QED BY <1>18, <4>1 DEF Unauthorized, TypeOK
    <3> QED BY <3>1, <3>2
  <2> QED BY <1>0, <1>18, <2>2, QueueAssumption DEF TypeOK, Unauthorized, Fault
<1>19. CASE UNCHANGED vars
  BY <1>19 DEF TypeOK, vars, phone, server
<1> QED
  BY <1>1, <1>2, <1>3, <1>4, <1>5, <1>6, <1>7, <1>8, <1>9, <1>10, <1>11, <1>12, <1>13,
     <1>14, <1>15, <1>16, <1>17, <1>18, <1>19
     DEF Next, CourierStep, SyncStep, ServerStep, FaultStep

-----------------------------------------------------------------------------
(* What a step may change *)

\* The step that decides an operation, for upload s.
Decides(s) == Decide(s) /\ store[Current(s)] = None

\* One operation gets its verdict, is added to the log and answered so.
LEMMA DecidesEffect ==
  ASSUME QueueInv, NEW s \in Requests, Decides(s)
  PROVE  /\ Current(s) \in Ops /\ IsRunning(s)
         /\ \A o \in Ops : o # Current(s) => store'[o] = store[o]
         /\ store'[Current(s)] # None /\ store'[Current(s)].by = requests[s].actor
         /\ store'[Current(s)].verdict \in {"OK", "REFUS"}
         /\ Reply(s, store'[Current(s)].verdict)
         /\ log \in Seq(Ops) /\ log' \in Seq(Ops) /\ Len(log') = Len(log) + 1
         /\ \A k \in 1..Len(log) : log'[k] = log[k]
         /\ log'[Len(log) + 1] = Current(s)
         /\ UNCHANGED <<rows, sync, session, picked, sessions>>
<1> USE DEF QueueInv, Decides
<1>1. IsRunning(s) /\ Current(s) \in Ops /\ requests[s] \in Request
  BY CurrentIsOp DEF Decide
<1> PICK verdict \in {"OK", "REFUS"} :
      /\ store' = [store EXCEPT ![Current(s)] = [by |-> requests[s].actor,
                                                 verdict |-> verdict]]
      /\ log' = Append(log, Current(s)) /\ Reply(s, verdict)
  BY DEF Decide
<1>2. [by |-> requests[s].actor, verdict |-> verdict] \in Decision
  BY <1>1 DEF Decision, Request
<1>3. /\ store'[Current(s)] = [by |-> requests[s].actor, verdict |-> verdict]
      /\ \A o \in Ops : o # Current(s) => store'[o] = store[o]
  BY <1>1 DEF TypeOK
<1>4. /\ log \in Seq(Ops) /\ log' \in Seq(Ops) /\ Len(log') = Len(log) + 1
      /\ \A k \in 1..Len(log) : log'[k] = log[k]
      /\ log'[Len(log) + 1] = Current(s)
  BY <1>1 DEF TypeOK
<1> QED BY <1>1, <1>2, <1>3, <1>4, NothingAssumption DEF Decide, phone

\* One row is added, written by the courier of the session, and waits.
LEMMA EnqueueEffect ==
  ASSUME QueueInv, Enqueue
  PROVE  /\ Len(rows') = Len(rows) + 1 /\ session \in Couriers
         /\ \A i \in 1..Len(rows) : rows'[i] = rows[i]
         /\ rows'[Len(rows) + 1] = [by |-> session, status |-> "EN_ATTENTE", code |-> "NULL"]
  BY DEF QueueInv, TypeOK, Enqueue

\* The row picked is taken off if it waits; its author and every other row stay.
LEMMA RemoveEffect ==
  ASSUME QueueInv, RemoveScan
  PROVE  /\ picked.id \in 1..Len(rows) /\ Len(rows') = Len(rows)
         /\ \A i \in 1..Len(rows) : i # picked.id => rows'[i] = rows[i]
         /\ rows[picked.id].status # "EN_ATTENTE" => rows' = rows
         /\ rows[picked.id].status = "EN_ATTENTE" =>
              /\ rows'[picked.id].by = rows[picked.id].by
              /\ rows'[picked.id].status = "RETIRE"
              /\ rows'[picked.id].code = rows[picked.id].code
<1>1. picked.id \in 1..Len(rows) /\ rows \in Seq(QueueRow)
  BY DEF QueueInv, RemoveScan, PickedInv, TypeOK
<1>2. rows[picked.id] \in QueueRow
  BY <1>1
<1> DEFINE row == [rows[picked.id] EXCEPT !.status = "RETIRE"]
<1>3. /\ row \in QueueRow /\ row.by = rows[picked.id].by /\ row.status = "RETIRE"
      /\ row.code = rows[picked.id].code
  BY <1>2 DEF QueueRow, QueueStatus
<1>4. rows' = IF rows[picked.id].status = "EN_ATTENTE" THEN [rows EXCEPT ![picked.id] = row]
              ELSE rows
  BY DEF RemoveScan
<1> HIDE DEF row
<1>5. /\ Len([rows EXCEPT ![picked.id] = row]) = Len(rows)
      /\ \A i \in 1..Len(rows) :
           [rows EXCEPT ![picked.id] = row][i] = IF i = picked.id THEN row ELSE rows[i]
  BY <1>1, <1>3, ExceptSeq
<1> QED BY <1>1, <1>3, <1>4, <1>5

(* Which action changes what: the decisions, the rows, the logins.            *)
LEMMA WhoMoves ==
  ASSUME [Next]_vars
  PROVE  /\ UNCHANGED <<store, log>> \/ \E s \in Requests : Decides(s)
         /\ UNCHANGED rows \/ Enqueue \/ RemoveScan \/ RecordAnswer
         /\ UNCHANGED sessions \/ \E c \in Couriers : Login(c)
<1>1. CASE CourierStep
  BY <1>1 DEF CourierStep, Login, Logout, Enqueue, RemoveScan, InsertAnnulation, PickLastScan,
              server
<1>2. CASE SyncStep
  BY <1>2 DEF SyncStep, StartSync, ReadPending, SendWithoutSession, RecordAnswer, Send, server
<1>3. ASSUME NEW s \in Requests, ServerStep(s)
      PROVE  /\ UNCHANGED <<store, log>> \/ \E t \in Requests : Decides(t)
             /\ UNCHANGED <<rows, sessions>>
  BY <1>3 DEF ServerStep, LookUp, Decide, Decides, Respond, phone
<1>4. CASE FaultStep
  BY <1>4 DEF FaultStep, LoseAnswer, RestartApp, FailRequest, Unauthorized
<1>5. CASE UNCHANGED vars
  BY <1>5 DEF vars, phone, server
<1> QED BY <1>1, <1>2, <1>3, <1>4, <1>5 DEF Next

(* Nothing is forgotten: rows are only added, with their author, and one       *)
(* taken back stays so; a decision stays; logins are counted up.              *)
Grows ==
  /\ Len(rows) <= Len(rows')
  /\ \A i \in 1..Len(rows) :
       rows'[i].by = rows[i].by /\ (rows[i].status = "RETIRE" => rows'[i].status = "RETIRE")
  /\ \A o \in Ops : store[o] # None => store'[o] = store[o]
  /\ sessions <= sessions'

\* Every step only grows what is known.
LEMMA StepGrows ==
  ASSUME QueueInv, [Next]_vars
  PROVE  Grows
<1>1. \A o \in Ops : store[o] # None => store'[o] = store[o]
  BY WhoMoves, DecidesEffect DEF Decides
<1>2. /\ Len(rows) <= Len(rows')
      /\ \A i \in 1..Len(rows) :
           rows'[i].by = rows[i].by /\ (rows[i].status = "RETIRE" => rows'[i].status = "RETIRE")
  <2>0. Len(rows) \in Nat
    BY RowsAreOps DEF QueueInv
  <2>1. CASE UNCHANGED rows
    BY <2>0, <2>1
  <2>2. CASE Enqueue
    BY <2>0, <2>2, EnqueueEffect
  <2>3. CASE RemoveScan
    BY <2>0, <2>3, RemoveEffect
  <2>4. CASE RecordAnswer
    <3>1. /\ rows' \in Seq(QueueRow) /\ Len(rows') = Len(rows)
          /\ \A j \in 1..Len(rows) : j # sync.batch[1] => rows'[j] = rows[j]
          /\ rows'[sync.batch[1]].by = rows[sync.batch[1]].by
          /\ rows[sync.batch[1]].status = "RETIRE" => rows' = rows
      <4> DEFINE i == sync.batch[1]
                 a == sync.answers[1]
      <4>1. i \in 1..Len(rows) /\ a \in Answer /\ rows' = setStatus(i, a)
        BY <2>4, RecordEffect
      <4>2. TypeOK
        BY DEF QueueInv
      <4> HIDE DEF i, a
      <4>3. /\ rows' \in Seq(QueueRow) /\ Len(rows') = Len(rows)
            /\ \A j \in 1..Len(rows) : j # i => rows'[j] = rows[j]
            /\ rows'[i].by = rows[i].by
            /\ rows[i].status = "RETIRE" => rows' = rows
        BY <4>1, <4>2, SetStatusEffect
      <4> QED BY <4>3 DEF i
    <3> QED BY <2>0, <3>1
  <2> QED BY <2>1, <2>2, <2>3, <2>4, WhoMoves
<1>3. sessions <= sessions'
  BY WhoMoves DEF Login, QueueInv, TypeOK
<1> QED BY <1>1, <1>2, <1>3 DEF Grows

\* What was sendable stays so.
LEMMA StaysSendable ==
  ASSUME QueueInv, [Next]_vars, NEW b \in Seq(Ops), Sendable(b, rows, store)
  PROVE  Sendable(b, rows', store')
<1>1. Len(rows) \in Nat /\ Len(rows') \in Nat /\ Len(b) \in Nat
  BY RowsAreOps, QueueTyped DEF QueueInv, TypeOK
<1>2. \A k \in 1..Len(b) : b[k] \in 1..Len(rows) /\ b[k] \in 1..Len(rows')
  BY <1>1, StepGrows DEF Sendable, Grows
<1>3. ASSUME NEW k \in 1..Len(b), NEW e \in 1..Len(rows'),
             e < b[k], rows'[e].by = rows'[b[k]].by, rows'[e].status # "RETIRE"
      PROVE  store'[e] # None \/ \E m \in 1..Len(b) : m < k /\ b[m] = e
  <2>1. e \in 1..Len(rows) /\ e \in Ops
    BY <1>1, <1>2, <1>3, RowsAreOps DEF QueueInv
  <2>2. rows[e].by = rows[b[k]].by /\ rows[e].status # "RETIRE"
    BY <1>2, <1>3, <2>1, StepGrows DEF Grows
  <2>3. store[e] # None \/ \E m \in 1..Len(b) : m < k /\ b[m] = e
    BY <1>3, <2>1, <2>2 DEF Sendable
  <2> QED BY <2>1, <2>3, StepGrows DEF Grows
<1> QED BY <1>2, <1>3 DEF Sendable

\* What was true stays true.
LEMMA StaysTruthful ==
  ASSUME QueueInv, [Next]_vars, NEW o \in Ops, NEW a, Truthful(o, a, store, sessions)
  PROVE  Truthful(o, a, store', sessions')
  BY StepGrows, QueueTyped DEF Truthful, Grows, QueueInv, TypeOK

\* The operation an upload is at is a row.
LEMMA CurrentIsRow ==
  ASSUME QueueInv, NEW s \in Requests, IsRunning(s)
  PROVE  Current(s) \in 1..Len(rows)
  BY CurrentIsOp DEF QueueInv, UploadsInv, Honest, Sendable, IsRunning, Current

(* Whatever its author wrote before that operation and did not take back is       *)
(* decided: before the upload was read, or by it.                             *)
LEMMA UploadInTurn ==
  ASSUME QueueInv, NEW s \in Requests, IsRunning(s),
         NEW e \in 1..Len(rows), e < Current(s),
         rows[e].by = rows[Current(s)].by, rows[e].status # "RETIRE"
  PROVE  store[e] # None
<1> DEFINE n == Len(requests[s].answers) + 1
<1>1. requests[s] # None /\ requests[s].answers \in Seq(Answer)
      /\ n \in 1..Len(requests[s].ops)
  BY CurrentIsOp DEF QueueInv, IsRunning, Request
<1>2. Len(requests[s].answers) \in Nat /\ n - 1 \in Nat
      /\ Current(s) = requests[s].ops[n]
      /\ Honest(requests[s].ops, requests[s].answers, rows, store, sessions)
  BY <1>1 DEF QueueInv, UploadsInv, Current
<1>3. store[e] # None \/ \E m \in 1..Len(requests[s].ops) : m < n /\ requests[s].ops[m] = e
  BY <1>1, <1>2 DEF Honest, Sendable
<1>4. ASSUME NEW m \in 1..Len(requests[s].ops), m < n, requests[s].ops[m] = e
      PROVE  store[e] # None
  <2>1. m \in 1..Len(requests[s].answers)
    BY <1>2, <1>4
  <2> QED BY <1>2, <1>4, <2>1 DEF Honest, Truthful
<1> QED BY <1>3, <1>4

(* The answer to an id decided already is true: that it is another's takes two  *)
(* couriers, so two logins.                                                  *)
LEMMA ReplayIsTrue ==
  ASSUME QueueInv, NEW s \in Requests, IsRunning(s), store[Current(s)] # None
  PROVE  Truthful(Current(s), ReplayOf(Current(s), requests[s].actor), store, sessions)
<1> DEFINE o == Current(s)
           c == requests[s].actor
<1>1. o \in Ops /\ requests[s] \in Request /\ requests[s] # None
  BY CurrentIsOp DEF QueueInv, IsRunning
<1>2. store[o] \in Decision
  BY <1>1 DEF QueueInv, TypeOK
<1>3. c \in Couriers /\ store[o].by \in Couriers /\ Seen(c) /\ Seen(store[o].by)
  BY <1>1, <1>2 DEF Request, Decision, Seen
<1>4. ASSUME store[o].by # c PROVE sessions > 1
  BY <1>3, <1>4 DEF QueueInv, SessionInv, TypeOK
<1> QED BY <1>2, <1>4 DEF ReplayOf, Truthful

\* The upload goes on as it was, is a new one, or gets a true answer.
LEMMA UploadMoves ==
  ASSUME QueueInv, [Next]_vars, NEW s \in Requests, requests'[s] # None
  PROVE  \/ /\ requests[s] # None
            /\ requests'[s].ops = requests[s].ops
            /\ requests'[s].answers = requests[s].answers
            /\ requests'[s].actor \in {requests[s].actor, session}
            /\ requests'[s].awaited => requests[s].awaited
         \/ Send(s)
         \/ /\ IsRunning(s)
            /\ requests'[s].ops = requests[s].ops
            /\ requests'[s].actor = requests[s].actor
            /\ requests'[s].awaited = requests[s].awaited
            /\ Len(requests'[s].answers) = Len(requests[s].answers) + 1
            /\ \A k \in 1..Len(requests[s].answers) :
                 requests'[s].answers[k] = requests[s].answers[k]
            /\ Truthful(Current(s), requests'[s].answers[Len(requests[s].answers) + 1],
                        store', sessions')
<1> DEFINE Same == /\ requests[s] # None
                   /\ requests'[s].ops = requests[s].ops
                   /\ requests'[s].answers = requests[s].answers
                   /\ requests'[s].actor \in {requests[s].actor, session}
                   /\ requests'[s].awaited => requests[s].awaited
           Answered == /\ IsRunning(s)
                       /\ requests'[s].ops = requests[s].ops
                       /\ requests'[s].actor = requests[s].actor
                       /\ requests'[s].awaited = requests[s].awaited
                       /\ Len(requests'[s].answers) = Len(requests[s].answers) + 1
                       /\ \A k \in 1..Len(requests[s].answers) :
                            requests'[s].answers[k] = requests[s].answers[k]
                       /\ Truthful(Current(s),
                                   requests'[s].answers[Len(requests[s].answers) + 1],
                                   store', sessions')
<1> SUFFICES Same \/ Send(s) \/ Answered
  OBVIOUS
<1>0. ASSUME requests'[s] = requests[s] PROVE Same
  BY <1>0
<1>1. CASE CourierStep
  BY <1>0, <1>1 DEF CourierStep, Login, Logout, Enqueue, RemoveScan, InsertAnnulation,
                    PickLastScan, server
<1>2. CASE SyncStep
  <2>1. ASSUME NEW t \in Requests, Send(t) PROVE Same \/ Send(s)
    <3>1. CASE t = s
      BY <2>1, <3>1
    <3>2. CASE t # s
      BY <1>0, <2>1, <3>2, SendEffect DEF QueueInv
    <3> QED BY <3>1, <3>2
  <2> HIDE DEF Same
  <2> QED BY <1>0, <1>2, <2>1 DEF SyncStep, StartSync, ReadPending, SendWithoutSession,
                                  RecordAnswer, server
<1>3. ASSUME NEW t \in Requests, LookUp(t) PROVE Same \/ Answered
  <2>1. CASE store[Current(t)] = None
    <3>1. requests[t] \in Request /\ requests' = [requests EXCEPT ![t].looked = TRUE]
      BY <1>3, <2>1, CurrentIsOp DEF LookUp, QueueInv
    <3>2. CASE t = s
      BY <3>1, <3>2, NothingAssumption DEF QueueInv, TypeOK, Request
    <3>3. CASE t # s
      BY <1>0, <3>1, <3>3 DEF QueueInv, TypeOK
    <3> QED BY <3>2, <3>3
  <2>2. CASE store[Current(t)] # None
    <3>1. /\ Reply(t, ReplayOf(Current(t), requests[t].actor)) /\ IsRunning(t)
          /\ UNCHANGED <<store, sessions>> /\ Current(t) \in Ops
      BY <1>3, <2>2, CurrentIsOp DEF LookUp, phone, QueueInv
    <3>2. ReplayOf(Current(t), requests[t].actor) \in Answer
      BY <2>2, <3>1, ReplayIsAnswer DEF QueueInv
    <3>3. CASE t = s
      BY <2>2, <3>1, <3>2, <3>3, ReplayIsTrue, ReplyEffect DEF QueueInv
    <3>4. CASE t # s
      BY <1>0, <3>1, <3>2, <3>4, ReplyEffect DEF QueueInv
    <3> QED BY <3>3, <3>4
  <2> QED BY <2>1, <2>2
<1>4. ASSUME NEW t \in Requests, Decide(t) PROVE Same \/ Answered
  <2>1. CASE store[Current(t)] = None
    <3>1. /\ Decides(t) /\ Current(t) \in Ops /\ IsRunning(t)
          /\ store'[Current(t)] # None
          /\ store'[Current(t)].verdict \in {"OK", "REFUS"}
          /\ Reply(t, store'[Current(t)].verdict)
      BY <1>4, <2>1, DecidesEffect DEF Decides
    <3>2. Truthful(Current(t), store'[Current(t)].verdict, store', sessions')
      BY <3>1 DEF Truthful
    <3>3. store'[Current(t)].verdict \in Answer
      BY <3>1 DEF Answer
    <3>4. CASE t = s
      BY <3>1, <3>2, <3>3, <3>4, ReplyEffect DEF QueueInv
    <3>5. CASE t # s
      BY <1>0, <3>1, <3>3, <3>5, ReplyEffect DEF QueueInv
    <3> QED BY <3>4, <3>5
  <2>2. CASE store[Current(t)] # None
    <3>1. /\ Reply(t, ReplayOf(Current(t), requests[t].actor)) /\ IsRunning(t)
          /\ UNCHANGED <<store, sessions>> /\ Current(t) \in Ops
      BY <1>4, <2>2, CurrentIsOp DEF Decide, phone, QueueInv
    <3>2. ReplayOf(Current(t), requests[t].actor) \in Answer
      BY <2>2, <3>1, ReplayIsAnswer DEF QueueInv
    <3>3. CASE t = s
      BY <2>2, <3>1, <3>2, <3>3, ReplayIsTrue, ReplyEffect DEF QueueInv
    <3>4. CASE t # s
      BY <1>0, <3>1, <3>2, <3>4, ReplyEffect DEF QueueInv
    <3> QED BY <3>3, <3>4
  <2> QED BY <2>1, <2>2
<1>5. ASSUME NEW t \in Requests, Respond(t) \/ FailRequest(t) PROVE Same
  <2>1. requests' = [requests EXCEPT ![t] = None]
    BY <1>5 DEF Respond, FailRequest
  <2>2. t # s
    BY <2>1 DEF QueueInv, TypeOK
  <2> QED BY <1>0, <2>1, <2>2 DEF QueueInv, TypeOK
<1>6. CASE LoseAnswer \/ RestartApp
  BY <1>6, UnawaitedEffect DEF LoseAnswer, RestartApp, QueueInv
<1>7. ASSUME NEW t \in Requests, Unauthorized(t) PROVE Same
  <2>1. CASE t # s
    BY <1>0, <1>7, <2>1 DEF Unauthorized, QueueInv, TypeOK
  <2>2. CASE t = s
    <3>1. requests[s] \in Request
      BY <1>7, <2>2 DEF Unauthorized, QueueInv, TypeOK
    <3>2. requests' = [requests EXCEPT ![s].actor = session, ![s].retry = TRUE]
      BY <1>7, <2>2 DEF Unauthorized, QueueInv, TypeOK
    <3>3. requests'[s] = [requests[s] EXCEPT !.actor = session, !.retry = TRUE]
      BY <3>2 DEF QueueInv, TypeOK
    <3> QED BY <3>1, <3>3, NothingAssumption DEF Request
  <2> QED BY <2>1, <2>2
<1>8. CASE UNCHANGED vars
  BY <1>0, <1>8 DEF vars, server
<1> HIDE DEF Same, Answered
<1> QED BY <1>1, <1>2, <1>3, <1>4, <1>5, <1>6, <1>7, <1>8 DEF Next, ServerStep, FaultStep

-----------------------------------------------------------------------------
(* Each part of the invariant is kept *)

\* An operation already in the log is not decided again.
LEMMA KeepsDecidedOnce ==
  ASSUME QueueInv, [Next]_vars
  PROVE  DecidedOnce'
<1>1. CASE UNCHANGED <<store, log>>
  BY <1>1 DEF QueueInv, DecidedOnce
<1>2. ASSUME NEW s \in Requests, Decides(s) PROVE DecidedOnce'
  <2> DEFINE o == Current(s)
  <2>1. /\ o \in Ops /\ store[o] = None /\ store'[o] # None
        /\ \A p \in Ops : p # o => store'[p] = store[p]
        /\ Len(log) \in Nat /\ DOMAIN log = 1..Len(log)
        /\ DOMAIN log' = 1..(Len(log) + 1)
        /\ \A k \in 1..Len(log) : log'[k] = log[k] /\ log[k] \in Ops
        /\ log'[Len(log) + 1] = o
    BY <1>2, DecidesEffect DEF Decides
  <2>2. \A k \in 1..Len(log) : log[k] # o
    BY <2>1 DEF QueueInv, DecidedOnce
  <2> HIDE DEF o
  <2>3. \A k, m \in DOMAIN log' : log'[k] = log'[m] => k = m
    BY <2>1, <2>2 DEF QueueInv, DecidedOnce
  <2>4. ASSUME NEW k \in DOMAIN log' PROVE log'[k] \in Ops /\ store'[log'[k]] # None
    BY <2>1, <2>2 DEF QueueInv, DecidedOnce
  <2>5. ASSUME NEW p \in Ops, store'[p] # None PROVE \E k \in DOMAIN log' : log'[k] = p
    <3>1. CASE p = o
      <4>1. Len(log) + 1 \in DOMAIN log'
        BY <2>1
      <4> QED BY <2>1, <3>1, <4>1
    <3>2. CASE p # o
      <4>1. p \in {log[k] : k \in DOMAIN log}
        BY <2>1, <2>5, <3>2 DEF QueueInv, DecidedOnce
      <4> QED BY <2>1, <4>1
    <3> QED BY <3>1, <3>2
  <2>6. {log'[k] : k \in DOMAIN log'} = {p \in Ops : store'[p] # None}
    BY <2>4, <2>5
  <2> QED BY <2>3, <2>6 DEF DecidedOnce
<1> QED BY <1>1, <1>2, WhoMoves

\* The row picked is there, and rows are not taken out of the table.
LEMMA KeepsPicked ==
  ASSUME QueueInv, [Next]_vars
  PROVE  PickedInv'
<1>1. Len(rows) \in Nat /\ Len(rows') \in Nat /\ Len(rows) <= Len(rows')
  BY RowsAreOps, QueueTyped, StepGrows DEF QueueInv, TypeOK, Grows
<1>2. picked' = picked \/ picked' = None \/ \E i \in Ops : PickLastScan(i)
  <2>1. CASE CourierStep
    BY <2>1 DEF CourierStep, Login, Logout, Enqueue, RemoveScan, InsertAnnulation
  <2>2. CASE SyncStep
    BY <2>2 DEF SyncStep, StartSync, ReadPending, SendWithoutSession, RecordAnswer, Send
  <2>3. CASE \E s \in Requests : ServerStep(s)
    BY <2>3 DEF ServerStep, LookUp, Decide, Respond, phone
  <2>4. CASE FaultStep
    BY <2>4 DEF FaultStep, LoseAnswer, RestartApp, FailRequest, Unauthorized
  <2>5. CASE UNCHANGED vars
    BY <2>5 DEF vars, phone
  <2> QED BY <2>1, <2>2, <2>3, <2>4, <2>5 DEF Next
<1>3. ASSUME NEW i \in Ops, PickLastScan(i) PROVE PickedInv'
  <2>1. i \in 1..Len(rows) /\ picked' = [id |-> i, status |-> rows[i].status]
    BY <1>3, RowsAreOps DEF PickLastScan, IsLastScan, Scans, QueueInv
  <2> QED BY <1>1, <2>1 DEF PickedInv
<1>4. ASSUME picked' = picked PROVE PickedInv'
  BY <1>1, <1>4 DEF PickedInv, QueueInv
<1>5. ASSUME picked' = None PROVE PickedInv'
  BY <1>5 DEF PickedInv
<1> QED BY <1>2, <1>3, <1>4, <1>5

\* Only a login brings a courier nobody has seen.
LEMMA KeepsSession ==
  ASSUME QueueInv, [Next]_vars
  PROVE  SessionInv'
<1>1. session' \in {session, None} \/ \E c \in Couriers : Login(c)
  <2>1. CASE CourierStep
    BY <2>1 DEF CourierStep, Logout, Enqueue, RemoveScan, InsertAnnulation, PickLastScan
  <2>2. CASE SyncStep
    BY <2>2 DEF SyncStep, StartSync, ReadPending, SendWithoutSession, RecordAnswer, Send
  <2>3. CASE \E s \in Requests : ServerStep(s)
    BY <2>3 DEF ServerStep, LookUp, Decide, Respond, phone
  <2>4. CASE FaultStep
    BY <2>4 DEF FaultStep, LoseAnswer, RestartApp, FailRequest, Unauthorized
  <2>5. CASE UNCHANGED vars
    BY <2>5 DEF vars, phone
  <2> QED BY <2>1, <2>2, <2>3, <2>4, <2>5 DEF Next
<1>2. ASSUME NEW c \in Couriers, NEW s \in Requests, requests'[s] # None, requests'[s].actor = c
      PROVE  Seen(c)
  <2>1. CASE Send(s)
    BY <1>2, <2>1, SendEffect DEF Seen, QueueInv
  <2>2. CASE ~Send(s)
    <3>1. requests[s] # None /\ requests'[s].actor \in {requests[s].actor, session}
      BY <1>2, <2>2, UploadMoves DEF IsRunning
    <3> QED BY <1>2, <3>1 DEF Seen
  <2> QED BY <2>1, <2>2
<1>3. ASSUME NEW c \in Couriers, NEW o \in Ops, store'[o] # None, store'[o].by = c
      PROVE  Seen(c)
  <2>1. CASE UNCHANGED <<store, log>>
    BY <1>3, <2>1 DEF Seen
  <2>2. ASSUME NEW s \in Requests, Decides(s) PROVE Seen(c)
    BY <1>3, <2>2, DecidesEffect DEF Seen, IsRunning
  <2> QED BY <2>1, <2>2, WhoMoves
<1>4. ASSUME NEW c \in Couriers, Seen(c)', ~(\E d \in Couriers : Login(d)) PROVE Seen(c)
  <2>1. CASE session' = c
    BY <1>1, <1>4, <2>1, QueueAssumption DEF Seen
  <2> QED BY <1>2, <1>3, <1>4, <2>1 DEF Seen
<1>5. CASE ~(\E c \in Couriers : Login(c))
  BY <1>4, <1>5, WhoMoves DEF QueueInv, SessionInv
<1>6. ASSUME NEW c \in Couriers, Login(c) PROVE SessionInv'
  <2>1. sessions \in Nat /\ sessions' = sessions + 1 /\ session' = c
    BY <1>6, QueueAssumption DEF Login, QueueInv, TypeOK
  <2>2. ASSUME sessions' <= 1, NEW d \in Couriers, Seen(d)' PROVE d = c
    <3>1. sessions = 0 /\ ~Seen(d)
      BY <2>1, <2>2 DEF QueueInv, SessionInv
    <3> QED BY <1>2, <1>3, <2>1, <2>2, <3>1 DEF Seen
  <2> QED BY <2>1, <2>2 DEF SessionInv
<1> QED BY <1>5, <1>6

\* What is decided was written.
LEMMA KeepsWritten ==
  ASSUME QueueInv, [Next]_vars, NEW o \in Ops, store'[o] # None
  PROVE  o \in 1..Len(rows')
<1>1. Len(rows) \in Nat /\ Len(rows') \in Nat /\ Len(rows) <= Len(rows')
  BY RowsAreOps, QueueTyped, StepGrows DEF QueueInv, TypeOK, Grows
<1>2. CASE store[o] # None
  BY <1>1, <1>2 DEF QueueInv, RowsInv
<1>3. CASE store[o] = None
  <2> PICK s \in Requests : Decides(s)
    BY <1>3, WhoMoves
  <2>1. o = Current(s) /\ IsRunning(s)
    BY <1>3, DecidesEffect
  <2>2. Current(s) \in 1..Len(rows)
    BY <2>1, CurrentIsRow
  <2> QED BY <1>1, <2>1, <2>2
<1> QED BY <1>2, <1>3

\* A row that shows the truth goes on showing it while it is not written.
LEMMA StaysShown ==
  ASSUME QueueInv, [Next]_vars, NEW w, NEW o \in Ops, Shows(w, o, store, sessions)
  PROVE  Shows(w, o, store', sessions')
  BY StepGrows, QueueTyped DEF Shows, Grows, QueueInv, TypeOK

\* A row is written new, taken off while it waits, or given a true answer.
LEMMA KeepsRows ==
  ASSUME QueueInv, [Next]_vars
  PROVE  RowsInv'
<1>1. /\ Len(rows) \in Nat /\ Len(rows') \in Nat
      /\ \A i \in 1..Len(rows) : i \in Ops
      /\ \A i \in 1..Len(rows') : i \in Ops
  BY RowsAreOps, QueueTyped, OpsAreNumbers DEF QueueInv, TypeOK
<1>0. /\ \A i \in 1..Len(rows) : rows[i] \in QueueRow
      /\ \A i \in 1..Len(rows) : Shows(rows[i], i, store, sessions)
  BY DEF QueueInv, TypeOK, RowsInv
<1>2. ASSUME NEW i \in 1..Len(rows'), i <= Len(rows), rows'[i] = rows[i]
      PROVE  Shows(rows'[i], i, store', sessions')
  <2>1. i \in 1..Len(rows)
    BY <1>1, <1>2
  <2> QED BY <1>0, <1>1, <1>2, <2>1, StaysShown
<1>3. ASSUME NEW i \in 1..Len(rows') PROVE Shows(rows'[i], i, store', sessions')
  <2>1. CASE UNCHANGED rows
    BY <1>1, <1>2, <2>1
  <2>2. CASE Enqueue
    <3>1. CASE i = Len(rows) + 1
      BY <2>2, <3>1, EnqueueEffect DEF Shows
    <3>2. CASE i # Len(rows) + 1
      <4>1. i \in 1..Len(rows) /\ rows'[i] = rows[i]
        BY <1>1, <2>2, <3>2, EnqueueEffect
      <4> QED BY <1>2, <4>1
    <3> QED BY <3>1, <3>2
  <2>3. CASE RemoveScan
    <3>1. i \in 1..Len(rows) /\ Shows(rows[i], i, store', sessions')
      BY <1>0, <1>1, <2>3, RemoveEffect, StaysShown
    <3>2. CASE rows'[i] = rows[i]
      BY <3>1, <3>2
    <3>3. CASE rows'[i] # rows[i]
      <4>1. /\ i = picked.id /\ rows[i].status = "EN_ATTENTE"
            /\ rows'[i].status = "RETIRE" /\ rows'[i].code = rows[i].code
        BY <1>1, <2>3, <3>1, <3>3, RemoveEffect
      <4> QED BY <3>1, <4>1 DEF Shows
    <3> QED BY <3>2, <3>3
  <2>4. CASE RecordAnswer
    <3> DEFINE o == sync.batch[1]
               a == sync.answers[1]
    <3>1. /\ o \in 1..Len(rows) /\ a \in Answer /\ rows' = setStatus(o, a) /\ Len(rows') = Len(rows)
          /\ \A j \in 1..Len(rows) : j # o => rows'[j] = rows[j]
          /\ rows[o].status = "RETIRE" => rows' = rows
          /\ rows[o].status # "RETIRE" =>
               rows'[o].status = (IF a = "OK" THEN "ACCEPTE" ELSE "REFUSE") /\ rows'[o].code = a
      BY <2>4, RecordEffect, SetStatusEffect DEF QueueInv
    <3>2. Truthful(o, a, store, sessions) /\ UNCHANGED sessions
      BY <2>4, RecordEffect DEF QueueInv, LoopInv, RecordAnswer
    <3>3. i \in 1..Len(rows)
      BY <3>1
    <3>4. CASE i # o \/ rows[o].status = "RETIRE"
      BY <1>1, <1>2, <3>1, <3>3, <3>4
    <3>5. CASE i = o /\ rows[o].status # "RETIRE"
      <4>1. o \in Ops /\ Truthful(o, a, store', sessions')
        BY <1>1, <3>1, <3>2, StaysTruthful
      <4>2. store'[o] \in Decision \cup {None}
        BY <4>1, QueueTyped DEF TypeOK
      <4> HIDE DEF o, a
      <4> QED BY <3>1, <3>5, <4>1, <4>2 DEF Shows, Truthful, Decision, Answer
    <3> QED BY <3>4, <3>5
  <2> QED BY <2>1, <2>2, <2>3, <2>4, WhoMoves
<1> QED BY <1>3, KeepsWritten DEF RowsInv

\* An operation is decided after all its author wrote before it and did not take back.
LEMMA KeepsOrder ==
  ASSUME QueueInv, [Next]_vars
  PROVE  OrderInv'
<1> SUFFICES ASSUME NEW i \in 1..Len(rows'), NEW j \in 1..Len(rows'),
                    i < j, rows'[i].by = rows'[j].by,
                    rows'[i].status # "RETIRE", store'[j] # None
             PROVE  /\ store'[i] # None
                    /\ \A k, m \in 1..Len(log') : log'[k] = i /\ log'[m] = j => k < m
  BY DEF OrderInv
<1>1. Len(rows) \in Nat /\ Len(rows') \in Nat /\ i \in Ops /\ j \in Ops
  <2>1. Len(rows) \in Nat
    BY RowsAreOps DEF QueueInv
  <2>2. TypeOK'
    BY QueueTyped
  <2>3. rows' \in Seq(QueueRow) /\ Len(rows') <= Len(KindOf)
    BY <2>2 DEF TypeOK
  <2>4. Len(rows') \in Nat /\ 1..Len(rows') \subseteq Ops
    BY <2>3, OpsAreNumbers
  <2> QED BY <2>1, <2>4
\* The later one was written before this step, and so was the earlier one.
<1>2. ASSUME j <= Len(rows)
      PROVE  /\ i \in 1..Len(rows) /\ j \in 1..Len(rows)
             /\ rows[i].by = rows[j].by /\ rows[i].status # "RETIRE"
  BY <1>1, <1>2, StepGrows DEF Grows
<1>3. ASSUME store[j] # None
      PROVE  /\ store[i] # None
             /\ \A k, m \in 1..Len(log) : log[k] = i /\ log[m] = j => k < m
  <2>1. j <= Len(rows)
    BY <1>1, <1>3 DEF QueueInv, RowsInv
  <2> QED BY <1>2, <1>3, <2>1 DEF QueueInv, OrderInv
<1>4. CASE UNCHANGED <<store, log>>
  BY <1>3, <1>4
<1>5. ASSUME NEW s \in Requests, Decides(s)
      PROVE  /\ store'[i] # None
             /\ \A k, m \in 1..Len(log') : log'[k] = i /\ log'[m] = j => k < m
  <2> DEFINE o == Current(s)
  <2>1. /\ o \in Ops /\ IsRunning(s) /\ store[o] = None
        /\ \A p \in Ops : p # o => store'[p] = store[p]
        /\ Len(log) \in Nat /\ Len(log') = Len(log) + 1
        /\ \A k \in 1..Len(log) : log'[k] = log[k] /\ store[log[k]] # None
        /\ log'[Len(log) + 1] = o
    BY <1>5, DecidesEffect DEF Decides, QueueInv, DecidedOnce
  <2>2. CASE j # o
    <3>1. store[j] # None /\ store[i] # None /\ i # o
      BY <1>1, <1>3, <2>1, <2>2
    <3> HIDE DEF o
    <3>2. ASSUME NEW k \in 1..Len(log'), NEW m \in 1..Len(log'), log'[k] = i, log'[m] = j
          PROVE  k < m
      <4>1. k \in 1..Len(log) /\ m \in 1..Len(log)
        BY <2>1, <2>2, <3>1, <3>2
      <4>2. log[k] = i /\ log[m] = j
        BY <2>1, <3>2, <4>1
      <4> QED BY <1>3, <3>1, <4>1, <4>2
    <3>3. store'[i] # None
      BY <1>1, <2>1, <3>1
    <3> QED BY <3>2, <3>3
  <2>3. CASE j = o
    <3>1. o \in 1..Len(rows)
      BY <2>1, CurrentIsRow
    <3>2. o <= Len(rows)
      BY <1>1, <3>1
    <3>3. /\ i \in 1..Len(rows) /\ i < o
          /\ rows[i].by = rows[o].by /\ rows[i].status # "RETIRE"
      BY <1>2, <2>3, <3>2
    <3>4. store[i] # None
      BY <2>1, <3>3, UploadInTurn
    <3>6. store[i] # None /\ i # o
      BY <1>1, <3>3, <3>4
    <3> HIDE DEF o
    <3>7. store'[i] # None
      BY <1>1, <2>1, <3>6
    <3>8. ASSUME NEW k \in 1..Len(log'), NEW m \in 1..Len(log'), log'[k] = i, log'[m] = o
          PROVE  k < m
      <4>1. k \in 1..Len(log) /\ m = Len(log) + 1
        BY <2>1, <3>6, <3>8
      <4> QED BY <2>1, <4>1
    <3> QED BY <2>3, <3>7, <3>8
  <2> QED BY <2>2, <2>3
<1> QED BY <1>4, <1>5, WhoMoves

\* An upload starts with a sendable batch and gets true answers.
LEMMA KeepsUploads ==
  ASSUME QueueInv, [Next]_vars
  PROVE  UploadsInv'
<1> SUFFICES ASSUME NEW s \in Requests, requests'[s] # None
             PROVE  Honest(requests'[s].ops, requests'[s].answers, rows', store', sessions')
  BY DEF UploadsInv
<1>1. requests'[s] \in Request
  BY QueueTyped DEF TypeOK
<1>2. ASSUME NEW t \in Requests, requests[t] # None
      PROVE  /\ requests[t].ops \in Seq(Ops) /\ requests[t].answers \in Seq(Answer)
             /\ Len(requests[t].ops) \in Nat /\ Len(requests[t].answers) \in Nat
             /\ Len(requests[t].answers) <= Len(requests[t].ops)
             /\ Sendable(requests[t].ops, rows', store')
             /\ \A k \in 1..Len(requests[t].answers) :
                  Truthful(requests[t].ops[k], requests[t].answers[k], store', sessions')
  <2>1. requests[t] \in Request
    BY <1>2 DEF QueueInv, TypeOK
  <2>2. requests[t].ops \in Seq(Ops) /\ requests[t].answers \in Seq(Answer)
    BY <2>1 DEF Request
  <2>3. Honest(requests[t].ops, requests[t].answers, rows, store, sessions)
    BY <1>2 DEF QueueInv, UploadsInv
  <2>4. Len(requests[t].ops) \in Nat /\ Len(requests[t].answers) \in Nat
    BY <2>2
  <2>5. ASSUME NEW k \in 1..Len(requests[t].answers)
        PROVE  Truthful(requests[t].ops[k], requests[t].answers[k], store', sessions')
    <3>1. k \in 1..Len(requests[t].ops)
      BY <2>3, <2>4 DEF Honest
    <3>2. requests[t].ops[k] \in Ops
      BY <2>2, <3>1
    <3> QED BY <2>3, <3>2, StaysTruthful DEF Honest
  <2> QED BY <2>2, <2>3, <2>4, <2>5, StaysSendable DEF Honest
<1>3. CASE Send(s)
  <2>1. sync.batch \in Seq(Ops) /\ Sendable(sync.batch, rows, store)
    BY <1>3 DEF Send, QueueInv, LoopInv, TypeOK, Sync
  <2>2. Len(sync.batch) \in Nat
    BY <2>1
  <2>3. requests'[s].ops = sync.batch /\ requests'[s].answers = <<>>
    BY <1>3, SendEffect DEF QueueInv
  <2> QED BY <2>1, <2>2, <2>3, StaysSendable DEF Honest
<1>4. CASE /\ requests[s] # None
           /\ requests'[s].ops = requests[s].ops /\ requests'[s].answers = requests[s].answers
  BY <1>2, <1>4 DEF Honest
<1>5. CASE /\ IsRunning(s)
           /\ requests'[s].ops = requests[s].ops
           /\ Len(requests'[s].answers) = Len(requests[s].answers) + 1
           /\ \A k \in 1..Len(requests[s].answers) :
                requests'[s].answers[k] = requests[s].answers[k]
           /\ Truthful(Current(s), requests'[s].answers[Len(requests[s].answers) + 1],
                       store', sessions')
  <2>1. requests[s] # None /\ Len(requests[s].answers) < Len(requests[s].ops)
    BY <1>5 DEF IsRunning
  <2>2. Len(requests'[s].answers) <= Len(requests'[s].ops)
    BY <1>2, <1>5, <2>1
  <2>3. ASSUME NEW k \in 1..Len(requests'[s].answers)
        PROVE  Truthful(requests'[s].ops[k], requests'[s].answers[k], store', sessions')
    <3>1. CASE k = Len(requests[s].answers) + 1
      BY <1>5, <3>1 DEF Current
    <3>2. CASE k # Len(requests[s].answers) + 1
      <4>1. k \in 1..Len(requests[s].answers)
        BY <1>2, <1>5, <2>1, <3>2
      <4> QED BY <1>2, <1>5, <2>1, <4>1
    <3> QED BY <3>1, <3>2
  <2> QED BY <1>2, <1>5, <2>1, <2>2, <2>3 DEF Honest
<1> QED BY <1>3, <1>4, <1>5, UploadMoves

\* While the phone waits for an upload the loop stands still.
LEMMA WaitingStays ==
  ASSUME QueueInv, [Next]_vars, NEW s \in Requests,
         requests[s] # None, requests[s].awaited, requests'[s] # None, requests'[s].awaited
  PROVE  UNCHANGED sync
<1>1. sync.at = "WAIT" /\ sync \in Sync
  BY DEF QueueInv, AwaitInv, TypeOK
<1>2. CASE CourierStep
  BY <1>2 DEF CourierStep, Login, Logout, Enqueue, RemoveScan, InsertAnnulation, PickLastScan
<1>3. CASE SyncStep
  BY <1>1, <1>3 DEF SyncStep, StartSync, ReadPending, SendWithoutSession, RecordAnswer, Send
<1>4. ASSUME NEW t \in Requests, LookUp(t) \/ Decide(t) PROVE UNCHANGED sync
  BY <1>4 DEF LookUp, Decide, phone
<1>5. ASSUME NEW t \in Requests, Respond(t) \/ FailRequest(t) \/ Unauthorized(t)
      PROVE  UNCHANGED sync
  <2>1. CASE t = s
    BY <1>5, <2>1 DEF Respond, FailRequest, Unauthorized, QueueInv, TypeOK
  <2>2. CASE t # s
    <3>1. requests[t] # None => ~requests[t].awaited
      BY <2>2 DEF QueueInv, AwaitInv
    <3> QED BY <1>5, <3>1 DEF Respond, FailRequest, Unauthorized
  <2> QED BY <2>1, <2>2
<1>6. ~(LoseAnswer \/ RestartApp)
  BY UnawaitedEffect DEF LoseAnswer, RestartApp, QueueInv
<1>7. CASE UNCHANGED vars
  BY <1>7 DEF vars, phone
<1> QED BY <1>2, <1>3, <1>4, <1>5, <1>6, <1>7 DEF Next, ServerStep, FaultStep

\* One upload at most is awaited, and it is of the batch read.
LEMMA KeepsAwait ==
  ASSUME QueueInv, [Next]_vars
  PROVE  AwaitInv'
<1>1. ASSUME NEW s \in Requests, requests'[s] # None, requests'[s].awaited
      PROVE  \/ Send(s)
             \/ requests[s] # None /\ requests[s].awaited /\ requests'[s].ops = requests[s].ops
  BY <1>1, UploadMoves DEF IsRunning
<1>2. ASSUME NEW s \in Requests, Send(s)
      PROVE  /\ sync.at = "SEND" /\ sync'.at = "WAIT"
             /\ sync'.batch = sync.batch /\ requests'[s].ops = sync.batch
             /\ \A t \in Requests : t # s => requests'[t] = requests[t]
  <2>1. sync \in Sync /\ sync' = [sync EXCEPT !.at = "WAIT"] /\ sync.at = "SEND"
    BY <1>2 DEF Send, QueueInv, TypeOK
  <2>2. sync'.at = "WAIT" /\ sync'.batch = sync.batch
    BY <2>1 DEF Sync
  <2> QED BY <1>2, <2>1, <2>2, SendEffect DEF QueueInv
<1>3. ASSUME NEW s \in Requests, requests'[s] # None, requests'[s].awaited
      PROVE  sync'.at = "WAIT" /\ requests'[s].ops = sync'.batch
  <2>1. CASE Send(s)
    BY <1>2, <2>1
  <2>2. CASE requests[s] # None /\ requests[s].awaited /\ requests'[s].ops = requests[s].ops
    BY <1>3, <2>2, WaitingStays DEF QueueInv, AwaitInv
  <2> QED BY <1>1, <1>3, <2>1, <2>2
<1>4. ASSUME NEW s \in Requests, requests'[s] # None, requests'[s].awaited,
             NEW t \in Requests, requests'[t] # None, requests'[t].awaited
      PROVE  s = t
  <2>1. ASSUME NEW p \in Requests, Send(p), NEW q \in Requests, requests'[q] # None,
               requests'[q].awaited
        PROVE  q = p
    BY <1>2, <2>1 DEF QueueInv, AwaitInv
  <2>2. CASE Send(s) \/ Send(t)
    BY <1>4, <2>1, <2>2
  <2>3. CASE ~(Send(s) \/ Send(t))
    BY <1>1, <1>4, <2>3 DEF QueueInv, AwaitInv
  <2> QED BY <2>2, <2>3
<1> QED BY <1>3, <1>4 DEF AwaitInv

\* Only an answer recorded gives a row of the batch another status.
LEMMA StaysUnanswered ==
  ASSUME QueueInv, [Next]_vars, NEW b \in Seq(Ops), Unanswered(b, rows), ~RecordAnswer
  PROVE  Unanswered(b, rows')
<1> SUFFICES ASSUME NEW k \in 1..Len(b)
             PROVE  b[k] \in 1..Len(rows') /\ rows'[b[k]].status \in {"EN_ATTENTE", "RETIRE"}
  BY DEF Unanswered
<1>1. /\ Len(rows) \in Nat /\ b[k] \in 1..Len(rows)
      /\ rows[b[k]].status \in {"EN_ATTENTE", "RETIRE"}
  BY RowsAreOps DEF QueueInv, Unanswered
<1>2. CASE UNCHANGED rows
  BY <1>1, <1>2
<1>3. CASE Enqueue
  BY <1>1, <1>3, EnqueueEffect
<1>4. CASE RemoveScan
  BY <1>1, <1>4, RemoveEffect
<1> QED BY <1>2, <1>3, <1>4, WhoMoves

\* How a step may move the loop.
LEMMA LoopMoves ==
  ASSUME QueueInv, [Next]_vars
  PROVE  \/ UNCHANGED sync
         \/ sync' = Idle
         \/ \E u : sync' = Started(u)
         \/ ReadPending
         \/ \E s \in Requests : Send(s)
         \/ RecordAnswer
         \/ \E s \in Requests : Respond(s) /\ requests[s].awaited
<1>1. CASE CourierStep
  BY <1>1 DEF CourierStep, Login, Logout, Enqueue, RemoveScan, InsertAnnulation, PickLastScan
<1>2. CASE SyncStep
  BY <1>2 DEF SyncStep, StartSync, SendWithoutSession
<1>3. ASSUME NEW s \in Requests, ServerStep(s)
      PROVE  UNCHANGED sync \/ (Respond(s) /\ requests[s].awaited)
  BY <1>3 DEF ServerStep, LookUp, Decide, Respond, phone
<1>4. CASE FaultStep
  BY <1>4 DEF FaultStep, LoseAnswer, RestartApp, FailRequest, Unauthorized
<1>5. CASE UNCHANGED vars
  BY <1>5 DEF vars, phone
<1> QED BY <1>1, <1>2, <1>3, <1>4, <1>5 DEF Next

(* The rows pending reads make a sendable batch: a row the same courier wrote    *)
(* earlier waits, and is then read before it, or has an answer.                *)
LEMMA PendingIsSendable ==
  ASSUME QueueInv, NEW c, NEW b \in pending(c), b # <<>>
  PROVE  Sendable(b, rows, store) /\ Rising(b) /\ Unanswered(b, rows)
<1>1. /\ b \in Seq(Waiting(c)) /\ b \in Seq(Ops) /\ Rising(b)
      /\ \A i \in Waiting(c), k \in 1..Len(b) : i < b[k] => \E m \in 1..Len(b) : b[m] = i
  BY PendingReads DEF QueueInv, Rising
<1>2. Len(b) \in Nat /\ Len(b) >= 1
  BY <1>1, EmptySeq
<1>3. ASSUME NEW k \in 1..Len(b)
      PROVE  /\ b[k] \in 1..Len(rows) /\ b[k] \in Ops /\ rows[b[k]].by = c
             /\ rows[b[k]].status = "EN_ATTENTE"
  <2>1. b[k] \in Waiting(c)
    BY <1>1, ElementOfSeq
  <2> QED BY <2>1, RowsAreOps DEF Waiting, QueueInv
<1>4. ASSUME NEW k \in 1..Len(b), NEW e \in 1..Len(rows), e < b[k],
             rows[e].by = rows[b[k]].by, rows[e].status # "RETIRE"
      PROVE  store[e] # None \/ \E m \in 1..Len(b) : m < k /\ b[m] = e
  <2>1. e \in Ops /\ rows[e] \in QueueRow /\ Shows(rows[e], e, store, sessions)
        /\ Len(rows) \in Nat
    BY RowsAreOps DEF QueueInv, TypeOK, RowsInv
  <2>2. CASE rows[e].status = "EN_ATTENTE"
    <3>1. e \in Waiting(c)
      BY <1>3, <1>4, <2>2, RowsAreOps DEF Waiting, QueueInv
    <3> PICK m \in 1..Len(b) : b[m] = e
      BY <1>1, <1>4, <3>1
    <3>2. ASSUME ~(m < k) PROVE FALSE
      <4>1. m \in Nat /\ k \in Nat /\ e \in Nat /\ b[k] \in Nat
        BY <1>2, <1>3, <2>1
      <4>2. m = k \/ k < m
        BY <3>2, <4>1
      <4>3. b[k] <= b[m]
        BY <1>1, <4>1, <4>2 DEF Rising
      <4> QED BY <1>4, <4>1, <4>3
    <3> QED BY <3>2
  <2>3. CASE rows[e].status # "EN_ATTENTE"
    BY <1>4, <2>1, <2>3 DEF Shows, QueueRow, QueueStatus, Answer
  <2> QED BY <2>2, <2>3
<1> QED BY <1>1, <1>2, <1>3, <1>4 DEF Sendable, Rising, Unanswered

\* The batch stays sendable until it is answered; the answers are recorded in turn.
LEMMA KeepsLoop ==
  ASSUME QueueInv, [Next]_vars
  PROVE  LoopInv'
<1>0. sync \in Sync /\ sync.batch \in Seq(Ops) /\ Len(sync.batch) \in Nat
      /\ Len(rows) \in Nat
  BY RowsAreOps DEF QueueInv, TypeOK, Sync
<1>1. ASSUME NEW o \in Ops, NEW a, Truthful(o, a, store, sessions)
      PROVE  Truthful(o, a, store', sessions')
  BY <1>1, StaysTruthful
<1>2. \A k \in 1..Len(sync.batch) : sync.batch[k] \in Ops
  BY <1>0
<1>3. CASE UNCHANGED sync /\ ~RecordAnswer
  <2>1. Unanswered(sync.batch, rows')
    BY <1>0, <1>3, StaysUnanswered DEF QueueInv, LoopInv
  <2>2. sync.at \in {"SEND", "WAIT"} => Sendable(sync.batch, rows', store')
    BY <1>0, StaysSendable DEF QueueInv, LoopInv
  <2>3. sync.at = "RECORD" => \A k \in 1..Len(sync.batch) :
          Truthful(sync.batch[k], sync.answers[k], store', sessions')
    BY <1>1, <1>2 DEF QueueInv, LoopInv
  <2> QED BY <1>3, <2>1, <2>2, <2>3 DEF QueueInv, LoopInv
<1>4. ASSUME sync' = Idle \/ \E u : sync' = Started(u)
      PROVE  LoopInv'
  <2>1. sync'.batch = <<>> /\ sync'.at \in {"IDLE", "PENDING"}
    BY <1>4 DEF Idle, Started
  <2> QED BY <2>1 DEF LoopInv, Rising, Unanswered
<1>5. CASE ReadPending
  <2>1. CASE sync' = Idle
    BY <1>4, <2>1
  <2>2. CASE sync' # Idle
    <3> PICK b \in pending(sync.user) : b # <<>> /\ sync'.at = "SEND" /\ sync'.batch = b
      BY <1>5, <2>2, ReadEffect
    <3>1. Sendable(b, rows, store) /\ Rising(b) /\ Unanswered(b, rows) /\ b \in Seq(Ops)
      BY PendingIsSendable, PendingReads DEF QueueInv
    <3>2. UNCHANGED rows /\ Sendable(b, rows', store')
      BY <1>5, <3>1, StaysSendable DEF ReadPending
    <3> QED BY <3>1, <3>2 DEF LoopInv
  <2> QED BY <2>1, <2>2
<1>6. ASSUME NEW s \in Requests, Send(s) PROVE LoopInv'
  <2>1. sync'.at = "WAIT" /\ sync'.batch = sync.batch /\ sync.at = "SEND" /\ UNCHANGED rows
    BY <1>0, <1>6 DEF Send, Sync
  <2>2. Sendable(sync.batch, rows', store')
    BY <1>0, <2>1, StaysSendable DEF QueueInv, LoopInv
  <2> QED BY <2>1, <2>2 DEF QueueInv, LoopInv
<1>7. CASE RecordAnswer
  <2>1. CASE sync' = Started(sync.user)
    BY <1>4, <2>1
  <2>2. CASE sync' # Started(sync.user)
    <3>1. /\ Len(sync.batch) > 1 /\ sync'.at = "RECORD" /\ sync' \in Sync
          /\ Len(sync'.batch) = Len(sync.batch) - 1
          /\ Len(sync'.answers) = Len(sync.batch) - 1
          /\ \A k \in 1..Len(sync'.batch) :
               sync'.batch[k] = sync.batch[k + 1] /\ sync'.answers[k] = sync.answers[k + 1]
          /\ sync.at = "RECORD"
      BY <1>7, <2>2, RecordEffect
    <3>2. /\ Len(rows') = Len(rows)
          /\ \A j \in 1..Len(rows) : j # sync.batch[1] => rows'[j] = rows[j]
      BY <1>7, RecordEffect, SetStatusEffect DEF QueueInv
    <3>3. ASSUME NEW k \in 1..Len(sync'.batch)
          PROVE  /\ k + 1 \in 1..Len(sync.batch) /\ sync.batch[k + 1] # sync.batch[1]
                 /\ sync.batch[k + 1] \in 1..Len(rows)
                 /\ rows[sync.batch[k + 1]].status \in {"EN_ATTENTE", "RETIRE"}
      <4>1. k + 1 \in 1..Len(sync.batch) /\ 1 \in 1..Len(sync.batch) /\ 1 < k + 1
        BY <1>0, <3>1
      <4>2. sync.batch[1] < sync.batch[k + 1] /\ sync.batch[1] \in 1..Len(rows)
            /\ sync.batch[k + 1] \in 1..Len(rows)
        BY <4>1 DEF QueueInv, LoopInv, Rising, Unanswered
      <4> QED BY <1>0, <4>1, <4>2 DEF QueueInv, LoopInv, Unanswered
    <3>4. Unanswered(sync'.batch, rows')
      BY <3>1, <3>2, <3>3 DEF Unanswered
    <3>5. Rising(sync'.batch)
      <4> SUFFICES ASSUME NEW k \in 1..Len(sync'.batch), NEW m \in 1..Len(sync'.batch), k < m
                   PROVE  sync'.batch[k] < sync'.batch[m]
        BY DEF Rising
      <4>1. k + 1 < m + 1 /\ k + 1 \in 1..Len(sync.batch) /\ m + 1 \in 1..Len(sync.batch)
        BY <1>0, <3>1, <3>3
      <4> QED BY <3>1, <4>1 DEF QueueInv, LoopInv, Rising
    <3>6. ASSUME NEW k \in 1..Len(sync'.batch)
          PROVE  Truthful(sync'.batch[k], sync'.answers[k], store', sessions')
      <4>1. Truthful(sync.batch[k + 1], sync.answers[k + 1], store, sessions)
        BY <3>1, <3>3 DEF QueueInv, LoopInv
      <4> QED BY <1>1, <1>2, <3>1, <3>3, <4>1
    <3>7. Len(sync'.batch) >= 1
      BY <1>0, <3>1
    <3> QED BY <3>1, <3>4, <3>5, <3>6, <3>7 DEF LoopInv
  <2> QED BY <2>1, <2>2
<1>8. ASSUME NEW s \in Requests, Respond(s), requests[s].awaited PROVE LoopInv'
  <2>1. /\ requests[s] \in Request /\ requests[s] # None
        /\ requests[s].ops = sync.batch
        /\ Honest(requests[s].ops, requests[s].answers, rows, store, sessions)
    BY <1>8 DEF Respond, QueueInv, TypeOK, AwaitInv, UploadsInv
  <2>2. /\ sync'.at = "RECORD" /\ sync'.batch = sync.batch
        /\ sync'.answers = requests[s].answers /\ UNCHANGED rows
    BY <1>0, <1>8 DEF Respond, Sync
  <2>3. Len(requests[s].answers) = Len(sync.batch) /\ Len(sync.batch) >= 1
    <3>1. requests[s].answers \in Seq(Answer)
      BY <2>1 DEF Request
    <3>2. Len(requests[s].answers) \in Nat
      BY <3>1
    <3> QED BY <1>0, <1>8, <2>1, <3>2 DEF Respond, IsRunning, Honest, Sendable
  <2>4. \A k \in 1..Len(sync.batch) :
          Truthful(sync.batch[k], requests[s].answers[k], store', sessions')
    BY <1>1, <1>2, <2>1, <2>3 DEF Honest
  <2> QED BY <2>2, <2>3, <2>4 DEF QueueInv, LoopInv
<1> QED BY <1>3, <1>4, <1>5, <1>6, <1>7, <1>8, LoopMoves

-----------------------------------------------------------------------------
(* The theorems *)

\* The invariant holds at first.
LEMMA QueueStarts ==
  ASSUME Init
  PROVE  QueueInv
<1> USE DEF Init
<1>1. TypeOK
  BY OpsAreNumbers, QueueAssumption DEF TypeOK, Sync, Idle
<1>2. DecidedOnce
  BY DEF DecidedOnce
<1>3. /\ Len(rows) = 0 /\ Len(sync.batch) = 0 /\ sync.at = "IDLE"
  BY DEF Idle
<1>4. OrderInv /\ RowsInv /\ LoopInv
  BY <1>3 DEF OrderInv, RowsInv, LoopInv, Rising, Unanswered
<1>5. UploadsInv /\ AwaitInv /\ PickedInv
  BY DEF UploadsInv, AwaitInv, PickedInv
<1>6. SessionInv
  BY QueueAssumption DEF SessionInv, Seen
<1> QED BY <1>1, <1>2, <1>4, <1>5, <1>6 DEF QueueInv

\* Every step keeps the invariant.
LEMMA QueueKeeps ==
  ASSUME QueueInv, [Next]_vars
  PROVE  QueueInv'
  BY QueueTyped, KeepsDecidedOnce, KeepsOrder, KeepsRows, KeepsUploads, KeepsLoop, KeepsAwait,
     KeepsPicked, KeepsSession DEF QueueInv

(* The inductive invariant of the queue: what is typed, decided once and in       *)
(* order, shown as decided, and why: every upload and the loop hold a sendable    *)
(* batch with true answers, whoever is logged in.                             *)
THEOREM AlwaysQueueInv == Spec => []QueueInv
<1>1. Init => QueueInv
  BY QueueStarts
<1>2. QueueInv /\ [Next]_vars => QueueInv'
  BY QueueKeeps
<1> QED BY <1>1, <1>2, PTL DEF Spec

(* The types of the queue, of the loop of syncNow, of the uploads and of the      *)
(* server's records.                                                         *)
THEOREM QueueIsTyped == Spec => []TypeOK
<1>1. QueueInv => TypeOK
  BY DEF QueueInv
<1> QED BY <1>1, AlwaysQueueInv, PTL

(* Whatever answers are lost and however many uploads of the same rows run at      *)
(* once, an operation is decided once.                                        *)
THEOREM EachDecidedOnce == Spec => []DecidedOnce
<1>1. QueueInv => DecidedOnce
  BY DEF QueueInv
<1> QED BY <1>1, AlwaysQueueInv, PTL

(* Operations of one courier are decided in the order he wrote them, whatever the   *)
(* upload's limit: Position is the one place of an operation in the log.         *)
THEOREM DecidedAsWritten == Spec => []DecidedInOrder
<1>1. ASSUME QueueInv PROVE DecidedInOrder
  <2> SUFFICES ASSUME NEW i \in DOMAIN rows, NEW j \in DOMAIN rows,
                      i < j, rows[i].by = rows[j].by,
                      rows[i].status # "RETIRE", store[j] # None
               PROVE  store[i] # None /\ Position(i) < Position(j)
    BY DEF DecidedInOrder
  <2>1. i \in 1..Len(rows) /\ j \in 1..Len(rows) /\ i \in Ops /\ j \in Ops
    BY <1>1, RowsAreOps DEF QueueInv
  <2>2. /\ store[i] # None
        /\ \A k, m \in 1..Len(log) : log[k] = i /\ log[m] = j => k < m
    BY <1>1, <2>1 DEF QueueInv, OrderInv
  <2>3. DOMAIN log = 1..Len(log)
    BY <1>1 DEF QueueInv, TypeOK
  <2>4. ASSUME NEW o \in Ops, store[o] # None
        PROVE  Position(o) \in 1..Len(log) /\ log[Position(o)] = o
    <3>1. \E k \in DOMAIN log : log[k] = o
      BY <1>1, <2>4 DEF QueueInv, DecidedOnce
    <3> QED BY <2>3, <3>1 DEF Position
  <2> QED BY <2>1, <2>2, <2>4
<1> QED BY <1>1, AlwaysQueueInv, PTL

\* The phone shows for each row what the server decided of it.
THEOREM PhoneShowsTheVerdict == Spec => []ShowsTheVerdict
<1>1. ASSUME QueueInv PROVE ShowsTheVerdict
  <2> SUFFICES ASSUME NEW i \in DOMAIN rows
               PROVE  /\ rows[i].status = "ACCEPTE" => store[i] # None /\ store[i].verdict = "OK"
                      /\ rows[i].code = "REFUS" => store[i] # None /\ store[i].verdict = "REFUS"
                      /\ rows[i].code = "REUTILISE" => store[i] # None /\ sessions > 1
                      /\ rows[i].status = "EN_ATTENTE" <=>
                           rows[i].code = "NULL" /\ rows[i].status # "RETIRE"
    BY DEF ShowsTheVerdict
  <2>1. Shows(rows[i], i, store, sessions)
    BY <1>1, RowsAreOps DEF QueueInv, RowsInv
  <2> QED BY <2>1 DEF Shows
<1> QED BY <1>1, AlwaysQueueInv, PTL

-----------------------------------------------------------------------------
(* The queue implements OfflineDelivery *)

\* What OfflineDelivery sees of the queue, operation by operation.
author(o)  == IF o \in DOMAIN rows THEN rows[o].by ELSE None
decided(o) == IF store[o] = None THEN "NULL" ELSE store[o].verdict
shown(o)   == IF o \in DOMAIN rows /\ rows[o].code \in {"OK", "REFUS"} THEN rows[o].code
              ELSE "NULL"
takenBack  == {o \in DOMAIN rows : rows[o].status = "RETIRE"}

\* The author of a row is a courier.
LEMMA AuthorIsCourier ==
  ASSUME TypeOK, NEW o \in DOMAIN rows
  PROVE  rows[o].by \in Couriers /\ rows[o].code \in Answer \cup {"NULL"}
<1>1. rows[o] \in QueueRow
  BY RowsAreOps DEF TypeOK
<1> QED BY <1>1 DEF QueueRow

\* The server's step is Decide, in its author's turn.
LEMMA DecidesDelivers ==
  ASSUME QueueInv, [Next]_vars, NEW s \in Requests, Decides(s)
  PROVE  Delivery!Next
<1> PICK o \in Ops : o = Current(s)
  BY DecidesEffect
<1> PICK v \in {"OK", "REFUS"} : v = store'[o].verdict
  BY DecidesEffect
<1>1. /\ IsRunning(s) /\ store[o] = None /\ store'[o] # None
      /\ \A p \in Ops : p # o => store'[p] = store[p]
      /\ UNCHANGED rows
  BY DecidesEffect DEF Decides
<1>2. /\ o \in DOMAIN rows /\ DOMAIN rows = 1..Len(rows) /\ DOMAIN rows \subseteq Ops
  BY <1>1, CurrentIsRow, RowsAreOps DEF QueueInv
<1>3. author(o) = rows[o].by /\ author(o) # None
  BY <1>2, AuthorIsCourier, QueueAssumption DEF author, QueueInv
<1>4. decided(o) = "NULL" /\ v \in Delivery!Verdict
  BY <1>1 DEF decided, Delivery!Verdict
<1>5. ASSUME NEW e \in Ops, e < o, author(e) = author(o)
      PROVE  decided(e) # "NULL" \/ e \in takenBack
  <2>1. e \in DOMAIN rows /\ rows[e].by = rows[o].by
    BY <1>3, <1>5 DEF author
  <2>2. CASE rows[e].status = "RETIRE"
    BY <2>1, <2>2 DEF takenBack
  <2>3. CASE rows[e].status # "RETIRE"
    <3>1. store[e] # None
      BY <1>1, <1>2, <1>5, <2>1, <2>3, UploadInTurn
    <3>2. store[e] \in Decision
      BY <3>1 DEF QueueInv, TypeOK
    <3> QED BY <3>1, <3>2 DEF decided, Decision
  <2> QED BY <2>2, <2>3
<1>6. \A p \in Ops : decided(p)' = IF p = o THEN v ELSE decided(p)
  BY <1>1 DEF decided
<1>7. Delivery!InTurn(o)
  BY <1>1, <1>5 DEF Delivery!InTurn, author, decided, takenBack
<1>8. Delivery!Decide(o, v)
  <2>1. [p \in Ops |-> decided(p)]' = [[p \in Ops |-> decided(p)] EXCEPT ![o] = v]
    BY <1>1, <1>6
  <2> QED BY <1>1, <1>3, <1>4, <1>7, <2>1 DEF Delivery!Decide, author, decided
<1> QED BY <1>1, <1>4, <1>8 DEF Delivery!Next

\* Writing a row is Write.
LEMMA EnqueueDelivers ==
  ASSUME QueueInv, [Next]_vars, Enqueue
  PROVE  Delivery!Next
<1> PICK o \in Ops : o = Len(rows) + 1
  BY OpsAreNumbers, RowsAreOps DEF Enqueue, QueueInv, TypeOK
<1> PICK c \in Couriers : c = session
  BY EnqueueEffect
<1>1. /\ DOMAIN rows = 1..Len(rows) /\ DOMAIN rows' = 1..Len(rows') /\ Len(rows) \in Nat
      /\ Len(rows') = Len(rows) + 1 /\ UNCHANGED store
      /\ \A i \in 1..Len(rows) : rows'[i] = rows[i]
      /\ rows'[o] = [by |-> c, status |-> "EN_ATTENTE", code |-> "NULL"]
  BY EnqueueEffect, RowsAreOps, QueueTyped DEF QueueInv, TypeOK, Enqueue, server
<1>2. o \notin DOMAIN rows /\ DOMAIN rows' = DOMAIN rows \cup {o}
  BY <1>1
<1>3. author(o) = None
  BY <1>2 DEF author
<1>4. \A p \in Ops : author(p)' = IF p = o THEN c ELSE author(p)
  BY <1>1, <1>2 DEF author
<1>5. \A p \in Ops : decided(p)' = decided(p) /\ shown(p)' = shown(p)
  BY <1>1, <1>2 DEF decided, shown
<1>6. takenBack' = takenBack
  BY <1>1, <1>2 DEF takenBack
<1>7. Delivery!Write(o, c)
  <2>1. [p \in Ops |-> author(p)]' = [[p \in Ops |-> author(p)] EXCEPT ![o] = c]
    BY <1>4
  <2> QED BY <1>3, <1>5, <1>6, <2>1 DEF Delivery!Write, author, decided, shown, takenBack
<1> QED BY <1>7 DEF Delivery!Next

\* Taking a waiting row off is Withdraw; one that is off, or has an answer, stays.
LEMMA RemoveDelivers ==
  ASSUME QueueInv, [Next]_vars, RemoveScan
  PROVE  Delivery!Next \/ UNCHANGED <<rows, store>>
<1>1. picked.id \in 1..Len(rows) /\ UNCHANGED store /\ DOMAIN rows = 1..Len(rows)
      /\ DOMAIN rows' = 1..Len(rows)
  BY RemoveEffect, RowsAreOps, QueueTyped DEF QueueInv, TypeOK, RemoveScan, server
<1>2. CASE rows[picked.id].status # "EN_ATTENTE"
  BY <1>1, <1>2, RemoveEffect
<1>3. CASE rows[picked.id].status = "EN_ATTENTE"
  <2> PICK o \in Ops : o = picked.id
    BY <1>1, RowsAreOps DEF QueueInv
  <2>1. /\ o \in DOMAIN rows /\ \A i \in DOMAIN rows : i # o => rows'[i] = rows[i]
        /\ rows'[o].by = rows[o].by /\ rows'[o].status = "RETIRE"
        /\ rows'[o].code = rows[o].code
    BY <1>1, <1>3, RemoveEffect
  <2>2. rows[o].code = "NULL"
    BY <1>1, <1>3 DEF QueueInv, RowsInv, Shows
  <2>3. author(o) # None /\ shown(o) = "NULL"
    BY <2>1, <2>2, AuthorIsCourier, QueueAssumption DEF author, shown, QueueInv
  <2>4. \A p \in Ops : /\ author(p)' = author(p) /\ decided(p)' = decided(p)
                       /\ shown(p)' = shown(p)
    BY <1>1, <2>1 DEF author, decided, shown
  <2>5. takenBack' = takenBack \cup {o}
    BY <1>1, <2>1 DEF takenBack
  <2>6. Delivery!Withdraw(o)
    BY <2>3, <2>4, <2>5 DEF Delivery!Withdraw, author, decided, shown, takenBack
  <2> QED BY <2>6 DEF Delivery!Next
<1> QED BY <1>2, <1>3

(* Recording a verdict for a waiting row is Show; the answer to a row taken off     *)
(* is dropped, and REUTILISE shows no verdict.                                *)
LEMMA RecordDelivers ==
  ASSUME QueueInv, [Next]_vars, RecordAnswer
  PROVE  Delivery!Next \/ UNCHANGED <<rows, store>> \/ UNCHANGED Delivery!vars
<1>1. /\ sync.batch[1] \in 1..Len(rows) /\ sync.answers[1] \in Answer
      /\ rows' = setStatus(sync.batch[1], sync.answers[1])
      /\ Truthful(sync.batch[1], sync.answers[1], store, sessions)
      /\ rows[sync.batch[1]].status \in {"EN_ATTENTE", "RETIRE"}
      /\ UNCHANGED store
  BY RecordEffect DEF QueueInv, LoopInv, Unanswered, RecordAnswer, server
<1> PICK o \in Ops : o = sync.batch[1]
  BY <1>1, RowsAreOps DEF QueueInv
<1> PICK a \in Answer : a = sync.answers[1]
  BY <1>1
<1>2. CASE rows[o].status = "RETIRE"
  BY <1>1, <1>2, SetStatusEffect DEF QueueInv
<1>3. CASE rows[o].status = "EN_ATTENTE"
  <2>1. /\ DOMAIN rows = 1..Len(rows) /\ DOMAIN rows' = 1..Len(rows)
        /\ o \in DOMAIN rows /\ \A i \in DOMAIN rows : i # o => rows'[i] = rows[i]
        /\ rows'[o].by = rows[o].by /\ rows'[o].code = a
        /\ rows'[o].status \in {"ACCEPTE", "REFUSE"}
    <3>1. /\ Len(rows') = Len(rows) /\ rows' \in Seq(QueueRow)
          /\ \A i \in 1..Len(rows) : i # o => rows'[i] = rows[i]
          /\ rows'[o].by = rows[o].by /\ rows'[o].code = a
          /\ rows'[o].status = IF a = "OK" THEN "ACCEPTE" ELSE "REFUSE"
      BY <1>1, <1>3, SetStatusEffect DEF QueueInv
    <3> QED BY <1>1, <3>1, RowsAreOps DEF QueueInv
  <2>2. rows[o].code = "NULL"
    BY <1>1, <1>3 DEF QueueInv, RowsInv, Shows
  <2>3. \A p \in Ops : author(p)' = author(p) /\ decided(p)' = decided(p)
    BY <1>1, <2>1 DEF author, decided
  <2>4. takenBack' = takenBack /\ o \notin takenBack
    BY <1>3, <2>1 DEF takenBack
  <2>5. \A p \in Ops : p # o => shown(p)' = shown(p)
    BY <2>1 DEF shown
  <2>6. shown(o) = "NULL"
    BY <2>2 DEF shown
  <2>7. CASE a = "REUTILISE"
    <3>1. shown(o)' = "NULL"
      BY <2>1, <2>7 DEF shown
    <3> QED BY <2>3, <2>4, <2>5, <2>6, <3>1
            DEF Delivery!vars, author, decided, shown, takenBack
  <2>8. CASE a # "REUTILISE"
    <3>1. a \in {"OK", "REFUS"} /\ decided(o) = a
      BY <1>1, <2>8 DEF Answer, Truthful, decided
    <3>2. shown(o)' = a
      BY <2>1, <3>1 DEF shown
    <3>3. [p \in Ops |-> shown(p)]' = [[p \in Ops |-> shown(p)] EXCEPT ![o] = a]
      BY <2>5, <3>2
    <3>4. Delivery!Show(o)
      BY <2>3, <2>4, <2>6, <3>1, <3>3 DEF Delivery!Show, author, decided, shown, takenBack
    <3> QED BY <3>4 DEF Delivery!Next
  <2> QED BY <2>7, <2>8
<1> QED BY <1>1, <1>2, <1>3

(* The queue keeps its promise: whatever is lost, sent twice, refused or            *)
(* restarted, every step is a step of OfflineDelivery, or none.                *)
THEOREM QueueDelivers == Spec => Promise
<1>1. ASSUME Init PROVE Delivery!Init
  <2>1. DOMAIN rows = {} /\ \A o \in Ops : store[o] = None
    BY <1>1 DEF Init
  <2> QED BY <2>1 DEF Delivery!Init
<1>2. ASSUME QueueInv, [Next]_vars PROVE [Delivery!Next]_(Delivery!vars)
  <2>1. CASE UNCHANGED <<rows, store>>
    BY <2>1 DEF Delivery!vars
  <2>2. CASE Enqueue \/ RemoveScan \/ RecordAnswer
    BY <1>2, <2>1, <2>2, EnqueueDelivers, RemoveDelivers, RecordDelivers
  <2>3. CASE \E s \in Requests : Decides(s)
    BY <1>2, <2>3, DecidesDelivers
  <2> QED BY <1>2, <2>1, <2>2, <2>3, WhoMoves
<1>3. QueueInv /\ [Next]_vars => [Delivery!Next]_(Delivery!vars)
  BY <1>2
<1> QED BY <1>1, <1>3, AlwaysQueueInv, PTL DEF Spec, Promise, Delivery!Spec
=============================================================================
