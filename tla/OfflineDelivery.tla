--------------------------- MODULE OfflineDelivery ---------------------------
(***************************************************************************)
(* What the courier app's queue promises (packages/shared/src/courier.ts,   *)
(* apps/courier/src/queue/queue.ts and the API's sync service): a courier    *)
(* writes operations on his phone, with or without signal; the server        *)
(* decides each of them at most once and a courier's operations in the       *)
(* order he wrote them; the phone shows for each what the server decided.    *)
(*                                                                          *)
(* Taking a scan back before its answer is known (Annuler) only stops it     *)
(* from being sent: it may have been decided, or be decided yet.             *)
(***************************************************************************)
EXTENDS Integers

CONSTANTS Couriers,   \* users of the courier app
          Ops,        \* operation ids, in the order they are written
          None        \* an operation not written yet

Verdict == {"OK", "REFUS"}

VARIABLES
  author,     \* who wrote the operation
  decided,    \* the server's verdict, "NULL" until it decides
  shown,      \* the verdict the phone shows
  withdrawn   \* operations taken back before their answer

vars == <<author, decided, shown, withdrawn>>

Init ==
  /\ author  = [o \in Ops |-> None]
  /\ decided = [o \in Ops |-> "NULL"]
  /\ shown   = [o \in Ops |-> "NULL"]
  /\ withdrawn = {}

Write(o, c) ==
  /\ author[o] = None
  /\ author' = [author EXCEPT ![o] = c]
  /\ UNCHANGED <<decided, shown, withdrawn>>

\* Every earlier operation of the same courier is decided, or was taken back.
InTurn(o) ==
  \A e \in Ops : e < o /\ author[e] = author[o] => decided[e] # "NULL" \/ e \in withdrawn

Decide(o, verdict) ==
  /\ author[o] # None /\ decided[o] = "NULL" /\ InTurn(o)
  /\ decided' = [decided EXCEPT ![o] = verdict]
  /\ UNCHANGED <<author, shown, withdrawn>>

Show(o) ==
  /\ decided[o] # "NULL" /\ shown[o] = "NULL" /\ o \notin withdrawn
  /\ shown' = [shown EXCEPT ![o] = decided[o]]
  /\ UNCHANGED <<author, decided, withdrawn>>

Withdraw(o) ==
  /\ author[o] # None /\ shown[o] = "NULL"
  /\ withdrawn' = withdrawn \cup {o}
  /\ UNCHANGED <<author, decided, shown>>

Next ==
  \E o \in Ops :
    \/ \E c \in Couriers : Write(o, c)
    \/ \E verdict \in Verdict : Decide(o, verdict)
    \/ Show(o) \/ Withdraw(o)

Spec == Init /\ [][Next]_vars
=============================================================================
