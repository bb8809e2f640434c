--------------------------------- MODULE Chat ---------------------------------
(***************************************************************************)
(* The chat of one parcel (chat.service.ts, chat-threads.service.ts, packages/ *)
(* shared chat.ts), with its two kinds of sender: the web panel of the seller  *)
(* and of the team (chat-panel.tsx), which keeps a message that got no answer  *)
(* and sends it again under its id, and the livreur's offline queue, whose      *)
(* operation is applied once (courier-sync.service.ts, courier-operations.ts). *)
(*                                                                          *)
(* A message is written in a transaction that reads the parcel and the thread  *)
(* without a lock: they may change, and another copy of the message may commit, *)
(* between its reading and its writing.                                      *)
(***************************************************************************)
EXTENDS Integers, FiniteSets

CONSTANTS Livreurs, Seller, Staff,
          Messages, \* ids drawn by their senders
          Calls,    \* bound: requests under way at once
          MaxTrips, \* bound: outings of the parcel
          None

Users == Livreurs \cup {Seller, Staff}

\* What the module assumes of its constants.
ChatAssumption ==
  /\ MaxTrips \in Nat /\ Seller # Staff /\ {Seller, Staff} \cap Livreurs = {}
  /\ None \notin Users \cup {"OK", "REFUSED"}

\* crossed is history: a copy was received while another was being written.
Message == [by: Users \cup {None}, shown: {"NO", "PENDING", "SENT", "REFUSED"}, crossed: BOOLEAN]

VARIABLES
  state,     \* of the chat, read from the parcel
  courierId, \* the livreur of the thread; there is a thread once one took it out
  message,   \* as its sender sees it
  stored,    \* chat_messages
  dated,     \* messages that have their createdAt, stored or about to be
  operation, \* courier_operations: the answer under the phone's id
  told,      \* how many notices of a message each user was sent
  read,      \* chat_reads: the messages dated before the user's lastReadAt
  call, trips

vars == <<state, courierId, message, stored, dated, operation, told, read, call, trips>>

TypeOK ==
  /\ state \in {"OUVERT", "VERROUILLE", "CLOS"} /\ courierId \in Livreurs \cup {None}
  /\ message \in [Messages -> Message] /\ stored \subseteq dated /\ dated \subseteq Messages
  /\ operation \in [Messages -> {None, "OK", "REFUSED"}]
  /\ told \in [Messages \X Users -> 0..2] /\ read \in [Users -> SUBSET Messages]
  /\ trips \in 0..MaxTrips

Init ==
  /\ state = "VERROUILLE" /\ courierId = None /\ trips = 0
  /\ message = [m \in Messages |-> [by |-> None, shown |-> "NO", crossed |-> FALSE]]
  /\ stored = {} /\ dated = {} /\ operation = [m \in Messages |-> None]
  /\ told = [x \in Messages \X Users |-> 0] /\ read = [u \in Users |-> {}]
  /\ call = [k \in Calls |-> None]

chatVars == <<message, stored, dated, operation, told, read, call>>

-----------------------------------------------------------------------------
(* The parcel *)

\* Sortie coursier: the one thread is opened, or points at the new livreur.
openOnDispatch(l) ==
  /\ state = "VERROUILLE" /\ trips < MaxTrips /\ trips' = trips + 1
  /\ state' = "OUVERT" /\ courierId' = l
  /\ UNCHANGED chatVars

\* Back at the depot; or delivered and paid, returned, cancelled.
Leave(to) ==
  /\ courierId # None /\ state # "CLOS" /\ to # state /\ state' = to
  /\ UNCHANGED <<courierId, trips, chatVars>>

-----------------------------------------------------------------------------
(* Who may read and write *)

chatAccessFor(u) == courierId # None /\ (u \in Livreurs => u = courierId)

canPostInChat(u) == state = "OUVERT" \/ (state = "VERROUILLE" /\ u = Staff)

-----------------------------------------------------------------------------
(* Senders *)

\* The id is drawn when it is written, on the panel or into the phone's queue.
Write(u, m) ==
  /\ message[m].by = None /\ chatAccessFor(u)
  /\ message' = [message EXCEPT ![m].by = u, ![m].shown = "PENDING"]
  /\ UNCHANGED <<state, courierId, stored, dated, operation, told, read, call, trips>>

Free(k) == call[k] = None
Op(k, step) == call[k] # None /\ call[k].step = step
InHand(m) == \E k \in Calls : (Op(k, "WRITE") \/ Op(k, "ANSWER")) /\ call[k].msg = m

\* Mutant of Verdict: an earlier copy is looked for after the right to write.
VerdictRightFirst(u, m) ==
  IF ~chatAccessFor(u) \/ ~canPostInChat(u) THEN "REFUSED" ELSE IF m \in stored THEN "OK" ELSE "STORE"

\* postIn: the same id again is the same message, even if the chat closed since.
Verdict(u, m) ==
  IF ~chatAccessFor(u) THEN "REFUSED" ELSE IF m \in stored THEN "OK"
  ELSE IF canPostInChat(u) THEN "STORE" ELSE "REFUSED"

(* A copy is received: the first, or sent again with no answer.  applyOnce      *)
(* answers an operation already applied with its answer.                      *)
Receive(k, m) ==
  LET u == message[m].by IN
  /\ Free(k) /\ message[m].shown = "PENDING"
  /\ IF operation[m] # None
     THEN call' = [call EXCEPT ![k] = [step |-> "ANSWER", msg |-> m, answer |-> operation[m]]]
     ELSE call' = [call EXCEPT ![k] = [step |-> "WRITE", msg |-> m, answer |-> Verdict(u, m),
                                       livreur |-> IF state = "OUVERT" THEN courierId ELSE None]]
  /\ dated' = (IF operation[m] = None /\ Verdict(u, m) = "STORE" THEN dated \cup {m} ELSE dated)
  /\ message' = [message EXCEPT ![m].crossed = @ \/ InHand(m)]
  /\ UNCHANGED <<state, courierId, stored, operation, told, read, trips>>

\* tellTheOthers: never the sender, the livreur while he carries it, the team once it joined.
Others(k, m) ==
  ({Seller} \cup {l \in Livreurs : l = call[k].livreur}
     \cup {s \in {Staff} : \E n \in stored : message[n].by = Staff}) \ {message[m].by}

Two(n) == IF n < 2 THEN n + 1 ELSE 2

\* Stored, the thread read by its sender up to now, the others told, in one transaction.
StoreMessage(k, m) ==
  /\ stored' = stored \cup {m}
  /\ told' = [x \in Messages \X Users |->
                IF x[1] = m /\ x[2] \in Others(k, m) THEN Two(told[x]) ELSE told[x]]
  /\ read' = [read EXCEPT ![message[m].by] = dated]

\* Mutant of Clashes: only a message already stored clashes.
ClashesMessageOnly(k, m) == call[k].answer = "STORE" /\ m \in stored

\* A unique id is already there: the message's, or the operation's.
Clashes(k, m) == (call[k].answer = "STORE" /\ m \in stored) \/ operation[m] # None

(* Committed with the answer of an operation.  A clash undoes it: the phone is   *)
(* given the answer stored first, the panel an error.                         *)
Commit(k) ==
  LET m == call[k].msg  final == IF call[k].answer = "STORE" THEN "OK" ELSE call[k].answer IN
  /\ Op(k, "WRITE")
  /\ IF Clashes(k, m)
     THEN /\ call' = [call EXCEPT ![k] =
                IF operation[m] = None THEN None
                ELSE [step |-> "ANSWER", msg |-> m, answer |-> operation[m]]]
          /\ UNCHANGED <<stored, operation, told, read>>
     ELSE /\ IF call[k].answer = "STORE" THEN StoreMessage(k, m) ELSE UNCHANGED <<stored, told, read>>
          /\ operation' = (IF message[m].by \in Livreurs THEN [operation EXCEPT ![m] = final] ELSE operation)
          /\ call' = [call EXCEPT ![k] = [step |-> "ANSWER", msg |-> m, answer |-> final]]
  /\ UNCHANGED <<state, courierId, message, dated, trips>>

\* A refusal is final: it is dropped with the reason.
Answer(k) ==
  /\ Op(k, "ANSWER")
  /\ message' = [message EXCEPT ![call[k].msg].shown =
       IF @ # "PENDING" THEN @ ELSE IF call[k].answer = "OK" THEN "SENT" ELSE "REFUSED"]
  /\ call' = [call EXCEPT ![k] = None]
  /\ UNCHANGED <<state, courierId, stored, dated, operation, told, read, trips>>

\* The server stopped, or the answer was lost: he still has it to send.
Lose(k) ==
  /\ ~Free(k) /\ call' = [call EXCEPT ![k] = None]
  /\ UNCHANGED <<state, courierId, message, stored, dated, operation, told, read, trips>>

-----------------------------------------------------------------------------
(* Reading *)

\* The thread is read, then marked as read up to now.
View(k, u) ==
  /\ Free(k) /\ chatAccessFor(u)
  /\ call' = [call EXCEPT ![k] = [step |-> "VIEW", user |-> u]]
  /\ UNCHANGED <<state, courierId, message, stored, dated, operation, told, read, trips>>

markRead(k) ==
  /\ Op(k, "VIEW")
  /\ read' = [read EXCEPT ![call[k].user] = dated]
  /\ call' = [call EXCEPT ![k] = None]
  /\ UNCHANGED <<state, courierId, message, stored, dated, operation, told, trips>>

\* What others wrote after he last opened the thread, as it is counted.
unread(u) == {m \in stored : message[m].by # u /\ m \notin read[u]}

-----------------------------------------------------------------------------
Next ==
  \/ \E l \in Livreurs : openOnDispatch(l)
  \/ \E to \in {"VERROUILLE", "CLOS"} : Leave(to)
  \/ \E m \in Messages : \E u \in Users : Write(u, m)
  \/ \E k \in Calls : \/ Commit(k) \/ Answer(k) \/ Lose(k) \/ markRead(k)
                      \/ \E m \in Messages : Receive(k, m)
                      \/ \E u \in Users : View(k, u)

Spec == Init /\ [][Next]_vars

-----------------------------------------------------------------------------
(* Properties *)

(* "The same id again from the same person is the same message, answered as such *)
(* even if the chat has closed since": through lost answers, copies, a chat that *)
(* closes and a parcel that changes hands, a message shown as sent is stored and *)
(* one shown as refused is not.  On the web, unless two copies crossed.        *)
AnsweredAsStored ==
  \A m \in Messages :
    /\ message[m].shown = "SENT" => m \in stored
    /\ message[m].shown = "REFUSED" =>
         m \notin stored \/ (message[m].crossed /\ message[m].by \notin Livreurs)

(* A stored message was told once to the seller, unless he wrote it; nobody is   *)
(* told twice, nor of a message that was refused or rolled back.              *)
ToldOnce ==
  \A m \in Messages :
    /\ m \in stored /\ message[m].by # Seller => told[m, Seller] = 1
    /\ \A u \in Users : told[m, u] <= (IF m \in stored /\ message[m].by # u THEN 1 ELSE 0)

(* "What others wrote after he last opened the thread" is unread until he opens  *)
(* it.  Not so: a message his phone kept marks the thread read when it arrives.  *)
WrittenMeanwhileIsUnread ==
  [][\A u \in Users : unread(u) \ unread(u)' # {} =>
       \E k \in Calls : Op(k, "VIEW") /\ call[k].user = u]_vars


-----------------------------------------------------------------------------
(* The inductive invariant of AnsweredAsStored and ToldOnce *)

WriteCall  == [step: {"WRITE"}, msg: Messages, answer: {"STORE", "OK", "REFUSED"},
               livreur: Livreurs \cup {None}]
AnswerCall == [step: {"ANSWER"}, msg: Messages, answer: {"OK", "REFUSED"}]
ViewCall   == [step: {"VIEW"}, user: Users]

Holds(k, m) == (Op(k, "WRITE") \/ Op(k, "ANSWER")) /\ call[k].msg = m

(* A message is stored, received, answered only once it was written, and for that *)
(* there was a thread.                                                      *)
WrittenInv ==
  \A m \in Messages :
    /\ message[m].by = None => m \notin stored /\ message[m].shown = "NO" /\ ~InHand(m)
    /\ message[m].by # None => courierId # None

(* Of a livreur's message the operation knows whether it is stored, and every     *)
(* answer is the operation's.  One of the web has no operation; two copies of it  *)
(* in hand, or one that was answered since, have crossed.                      *)
OperationInv ==
  \A m \in Messages :
    IF message[m].by \in Livreurs
    THEN /\ operation[m] = "OK" <=> m \in stored
         /\ message[m].shown = "SENT" => operation[m] = "OK"
         /\ message[m].shown = "REFUSED" => operation[m] = "REFUSED"
         /\ \A k \in Calls : Holds(k, m) /\ Op(k, "ANSWER") => call[k].answer = operation[m]
    ELSE /\ operation[m] = None
         /\ message[m].crossed \/
              /\ \A j, k \in Calls : Holds(j, m) /\ Holds(k, m) => j = k
              /\ message[m].shown \in {"SENT", "REFUSED"} => ~InHand(m)
              /\ message[m].shown = "REFUSED" => m \notin stored
              /\ \A k \in Calls : Holds(k, m) /\ call[k].answer = "REFUSED" => m \notin stored

\* What is answered as stored is, and what is about to be stored has its date.
StoredInv ==
  \A m \in Messages :
    /\ message[m].shown = "SENT" => m \in stored
    /\ \A k \in Calls : Holds(k, m) /\ call[k].answer = "OK" => m \in stored
    /\ \A k \in Calls : Holds(k, m) /\ call[k].answer = "STORE" => m \in dated

ChatInv ==
  /\ TypeOK /\ call \in [Calls -> WriteCall \cup AnswerCall \cup ViewCall \cup {None}]
  /\ WrittenInv /\ OperationInv /\ StoredInv /\ ToldOnce
=============================================================================
