------------------------------- MODULE Creation -------------------------------
(***************************************************************************)
(* Parcels created one by one or by a CSV import (parcels.service.ts,         *)
(* parcel-imports.service.ts), with what is read outside their transaction:   *)
(* the settings, cached for a minute (settings.service.ts), and the geography, *)
(* cached until it changes (geo.service.ts).  A request carries an id its      *)
(* sender drew, and may be sent again, even while the first is being served.  *)
(*                                                                          *)
(* Both caches are filled in two steps, around an await: what was read may no  *)
(* longer be so when it is kept.                                             *)
(***************************************************************************)
EXTENDS Integers, FiniteSets

CONSTANTS Forms, Imports, \* ids of requests: one parcel, several at once
          Codes,          \* codes the generator may draw
          Calls,          \* bound: requests and changes under way at once
          CACHE_SECONDS,  \* sixty, in ticks
          MAX_ATTEMPTS,   \* codes drawn for a request (5, 3 for an import)
          MaxNow, MaxFee, \* bounds: ticks, changes of the fees
          None

Requests == Forms \cup Imports

\* What the module assumes of its constants.
CreationAssumption ==
  /\ Forms \cap Imports = {} /\ {CACHE_SECONDS, MAX_ATTEMPTS} \subseteq Nat \ {0}
  /\ {MaxNow, MaxFee} \subseteq Nat /\ None \notin Nat \cup BOOLEAN

Fees == 0..MaxFee

VARIABLES
  now,
  fee,        \* the fees of the settings: the n-th
  replacedAt, \* history: when the n-th gave way to the next
  cached,     \* of the settings: the fees and when they were asked for
  open,       \* the localite takes parcels
  cachedTree, \* whether the tree kept has it
  made,       \* of a request: the codes of its parcels, their fees
  call

vars == <<now, fee, replacedAt, cached, open, cachedTree, made, call>>

Taken == UNION {made[r].codes : r \in {q \in Requests : made[q] # None}}

(* stale is history: asked for, the fees had been replaced a minute before.      *)
Made == [codes: SUBSET Codes, fee: Fees, stale: BOOLEAN]

STEPS == {"LOCALITE", "TREE", "FEES", "SETTINGS", "INSERT", "CHANGED", "MOVED", "ANSWER"}

TypeOK ==
  /\ now \in 0..MaxNow /\ fee \in Fees /\ replacedAt \in [Fees -> (0..MaxNow) \cup {None}]
  /\ cached = None \/ (cached.fee \in Fees /\ cached.at \in 0..MaxNow)
  /\ open \in BOOLEAN /\ cachedTree \in BOOLEAN \cup {None}
  /\ \A r \in Requests : made[r] = None \/ made[r] \in Made
  /\ \A k \in Calls : call[k] = None \/ call[k].step \in STEPS

Init ==
  /\ now = 0 /\ fee = 0 /\ replacedAt = [f \in Fees |-> None] /\ cached = None
  /\ open = TRUE /\ cachedTree = None /\ made = [r \in Requests |-> None]
  /\ call = [k \in Calls |-> None]

dbVars    == <<fee, replacedAt, open, made>>
cacheVars == <<cached, cachedTree>>

Free(k)     == call[k] = None
At(k, step) == call[k] # None /\ call[k].step = step
Go(k, step) == call' = [call EXCEPT ![k].step = step]

\* Answered; what the answer says is a history of the call.
Say(k, what) == call' = [call EXCEPT ![k] = [step |-> "ANSWER", req |-> call[k].req, says |-> what]]

-----------------------------------------------------------------------------
(* The settings and the geography *)

Tick == now < MaxNow /\ now' = now + 1 /\ UNCHANGED <<dbVars, cacheVars, call>>

\* settings.update commits, then clears the cache.
ChangeFees(k) ==
  /\ Free(k) /\ fee < MaxFee /\ fee' = fee + 1 /\ replacedAt' = [replacedAt EXCEPT ![fee] = now]
  /\ call' = [call EXCEPT ![k] = [step |-> "CHANGED"]]
  /\ UNCHANGED <<now, open, made, cacheVars>>

ClearCache(k) ==
  /\ At(k, "CHANGED") /\ cached' = None /\ call' = [call EXCEPT ![k] = None]
  /\ UNCHANGED <<now, dbVars, cachedTree>>

\* geo.update: the localite closed or opened again, then the tree forgotten.
ChangeLocalite(k) ==
  /\ Free(k) /\ open' = ~open /\ call' = [call EXCEPT ![k] = [step |-> "MOVED"]]
  /\ UNCHANGED <<now, fee, replacedAt, made, cacheVars>>

ForgetTree(k) ==
  /\ At(k, "MOVED") /\ cachedTree' = None /\ call' = [call EXCEPT ![k] = None]
  /\ UNCHANGED <<now, dbVars, cached>>

-----------------------------------------------------------------------------
(* A request *)

\* Sent again after its parcels were made, it gets them.
Ask(k, r) ==
  /\ Free(k)
  /\ call' = [call EXCEPT ![k] =
       IF made[r] # None THEN [step |-> "ANSWER", req |-> r, says |-> "MADE"]
       ELSE [step |-> "LOCALITE", req |-> r, attempt |-> 1]]
  /\ UNCHANGED <<now, dbVars, cacheVars>>

\* The form reads the localite's row, the import the tree: kept, or read now.
ReadLocalite(k) ==
  LET has == IF call[k].req \in Forms \/ cachedTree = None THEN open ELSE cachedTree IN
  /\ At(k, "LOCALITE")
  /\ IF call[k].req \in Imports /\ cachedTree = None
     THEN call' = [call EXCEPT ![k] = [step |-> "TREE", req |-> call[k].req, attempt |-> 1, has |-> has]]
     ELSE IF has THEN Go(k, "FEES") ELSE Say(k, "CLOSED")
  /\ UNCHANGED <<now, dbVars, cacheVars>>

KeepTree(k) ==
  /\ At(k, "TREE") /\ cachedTree' = call[k].has
  /\ IF call[k].has THEN call' = [call EXCEPT ![k] = [step |-> "FEES", req |-> call[k].req, attempt |-> 1]]
     ELSE Say(k, "CLOSED")
  /\ UNCHANGED <<now, dbVars, cached>>

\* The fees it will copy on the parcels.
Freeze(k, f, stale) ==
  call' = [call EXCEPT ![k] =
    [step |-> "INSERT", req |-> call[k].req, attempt |-> 1, fee |-> f, stale |-> stale]]

\* current: the cache while it is fresh, else the rows, kept afterwards.
ReadFees(k) ==
  /\ At(k, "FEES")
  /\ IF cached # None /\ now - cached.at < CACHE_SECONDS
     THEN Freeze(k, cached.fee, replacedAt[cached.fee] # None
                                  /\ now - replacedAt[cached.fee] >= CACHE_SECONDS)
     ELSE call' = [call EXCEPT ![k] = [step |-> "SETTINGS", req |-> call[k].req, attempt |-> 1,
                                       fee |-> fee, at |-> now]]
  /\ UNCHANGED <<now, dbVars, cacheVars>>

\* Mutant of KeptSince: the age of the cache counts from when it was filled.
KeptSinceFilled(k) == now

\* The clock was read before the rows.
KeptSince(k) == call[k].at

KeepFees(k) ==
  /\ At(k, "SETTINGS") /\ cached' = [fee |-> call[k].fee, at |-> KeptSince(k)]
  /\ Freeze(k, call[k].fee, FALSE)
  /\ UNCHANGED <<now, dbVars, cachedTree>>

\* Mutant of Insert: a clash is always taken for a code already drawn.
InsertCodeClash(k, codes) ==
  LET r == call[k].req IN
  /\ At(k, "INSERT") /\ Cardinality(codes) = (IF r \in Forms THEN 1 ELSE 2)
  /\ IF made[r] = None /\ codes \cap Taken = {}
     THEN /\ made' = [made EXCEPT ![r] = [codes |-> codes, fee |-> call[k].fee, stale |-> call[k].stale]]
          /\ Say(k, "MADE")
     ELSE /\ UNCHANGED made
          /\ IF call[k].attempt < MAX_ATTEMPTS THEN call' = [call EXCEPT ![k].attempt = @ + 1]
             ELSE Say(k, "NO_CODE")
  /\ UNCHANGED <<now, fee, replacedAt, open, cacheVars>>

(* One transaction, all its parcels or none.  A unique column clashes: the       *)
(* request's own id, and it gets the parcels already made; else a code, drawn   *)
(* again.                                                                    *)
Insert(k, codes) ==
  LET r == call[k].req IN
  /\ At(k, "INSERT") /\ Cardinality(codes) = (IF r \in Forms THEN 1 ELSE 2)
  /\ IF made[r] = None /\ codes \cap Taken = {}
     THEN /\ made' = [made EXCEPT ![r] = [codes |-> codes, fee |-> call[k].fee, stale |-> call[k].stale]]
          /\ Say(k, "MADE")
     ELSE /\ UNCHANGED made
          /\ IF made[r] # None THEN Say(k, "MADE")
             ELSE IF call[k].attempt < MAX_ATTEMPTS THEN call' = [call EXCEPT ![k].attempt = @ + 1]
             ELSE Say(k, "NO_CODE")
  /\ UNCHANGED <<now, fee, replacedAt, open, cacheVars>>

\* The answer received or lost; the server stopped before it.
End(k) ==
  /\ ~Free(k) /\ call[k].step \notin {"CHANGED", "MOVED"} /\ call' = [call EXCEPT ![k] = None]
  /\ UNCHANGED <<now, dbVars, cacheVars>>

-----------------------------------------------------------------------------
Next ==
  \/ Tick
  \/ \E k \in Calls :
       \/ ChangeFees(k) \/ ClearCache(k) \/ ChangeLocalite(k) \/ ForgetTree(k)
       \/ ReadLocalite(k) \/ KeepTree(k) \/ ReadFees(k) \/ KeepFees(k) \/ End(k)
       \/ \E r \in Requests : Ask(k, r)
       \/ \E codes \in SUBSET Codes : Insert(k, codes)

Spec == Init /\ [][Next]_vars

-----------------------------------------------------------------------------
(* Properties *)

(* A request sent again, even at the same instant, is answered with its own      *)
(* parcels: never a second time, and never that no code could be found for what *)
(* is already made.                                                          *)
AnswersWithItsParcels ==
  \A k \in Calls : At(k, "INSERT") /\ At(k, "ANSWER")' =>
    LET r == call[k].req IN (call'[k].says = "MADE") <=> (made'[r] # None)

AnsweredWithItsParcels == [][AnswersWithItsParcels]_vars

(* The fees of a parcel were those of the settings less than a minute before     *)
(* it asked for them, however readings and changes of the settings cross.      *)
FeesAtMostAMinuteOld ==
  \A r \in Requests : made[r] # None => ~made[r].stale

(* "A closed one takes no new parcel" (D-27): a tree with a closed localite is    *)
(* about to be forgotten.  Not so: a tree read before the closing is kept after.  *)
TreeFollows ==
  cachedTree = TRUE /\ ~open => \E k \in Calls : At(k, "MOVED")
=============================================================================
