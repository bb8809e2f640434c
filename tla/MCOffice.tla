------------------------------- MODULE MCOffice -------------------------------
(***************************************************************************)
(* The rest of the system on small instances, one component to a behaviour:   *)
(* the initial state picks which one moves, and that one alone gives the      *)
(* variables v1, v2 ... their meaning.  Some components come in several       *)
(* instances, each with what the others leave out: "Addresses" is Pickup with  *)
(* one parcel, two addresses and two requests at once where "Pickup" has two   *)
(* parcels and one request, "Days" is Notices with couriers and no             *)
(* parcel, "Views" is Sessions with one tab and the views opened from it,      *)
(* "Unheard" is SellerDocuments with a commit nobody heard of and no backup;   *)
(* the courier's day has two parcels (Rounds), a reversal and two answers crossing *)
(* (Undone), or four days (Outings).                                        *)
(*                                                                          *)
(* A, B are ids of no kind: each component makes of them its own rows.       *)
(***************************************************************************)
EXTENDS Integers, FiniteSets, TLC

CONSTANTS A, B, C, D, None

\* Bounds and settings, named as in the components.
CONSTANTS Threshold, MaxBusy, LastDay, MaxEdits, Settings, MaxTime, MaxChanges, MaxCrashes,
          MaxTrips, MaxTokens, MaxNow, MaxFaults

VARIABLES moving, v1, v2, v3, v4, v5, v6, v7, v8, v9, v10, v11

Asking(Parcels, Addresses) == INSTANCE Pickup WITH
  Pickups <- B, Forms <- B, Requests <- Addresses,
  address <- v1, pickup <- v2, parcel <- v3, link <- v4, request <- v5, scan <- v6,
  closing <- v7, fees <- v8

Zones == INSTANCE ZoneCoverage WITH
  Livreurs <- C, Ramasseurs <- B, Zones <- D, Pickups <- C, Parcels <- D, Calls <- A,
  working <- v1, zone <- v2, delegationZone <- v3, absent <- v4, pickup <- v5, planned <- v6,
  call <- v7, edits <- v8

Team == INSTANCE Accounts WITH
  Admins <- B, Livreurs <- C, Ramasseurs <- D, Parcels <- C, Bons <- D, Calls <- A,
  admins <- v1, account <- v2, hand <- v3, call <- v4, edits <- v5

Warnings == INSTANCE Notices WITH
  Parcels <- C, Couriers <- {}, Name <- [c \in {} |-> "name"], MaxMoves <- 1,
  now <- v1, hours <- v2, parcel <- v3, todo <- v4, stored <- v5, told <- v6, passedOn <- v7,
  pass <- v8, changes <- v9, crashes <- v10, moves <- v11

Days == INSTANCE Notices WITH
  Parcels <- {}, Couriers <- C, Name <- [c \in C |-> "name"], MaxMoves <- 1,
  now <- v1, hours <- v2, parcel <- v3, todo <- v4, stored <- v5, told <- v6, passedOn <- v7,
  pass <- v8, changes <- v9, crashes <- v10, moves <- v11

Talk == INSTANCE Chat WITH
  Livreurs <- B, Seller <- "seller", Staff <- "staff", Messages <- C, Calls <- A,
  state <- v1, courierId <- v2, message <- v3, stored <- v4, dated <- v5, operation <- v6,
  told <- v7, read <- v8, call <- v9, trips <- v10

Making == INSTANCE Creation WITH
  Forms <- {"form"}, Imports <- {"import"}, Codes <- B \cup D, Calls <- A,
  CACHE_SECONDS <- 1, MAX_ATTEMPTS <- 2, MaxNow <- 2, MaxFee <- 1,
  now <- v1, fee <- v2, replacedAt <- v3, cached <- v4, open <- v5, cachedTree <- v6,
  made <- v7, call <- v8

Demandes == INSTANCE ChangeRequests WITH
  Requests <- A, Tabs <- {"tab"}, Values <- B, MaxCustomers <- 2, MaxMoves <- 3,
  parcel <- v1, request <- v2, closed <- v3, form <- v4, team <- v5, label <- v6,
  printing <- v7, overtaken <- v8, moves <- v9

Gun == INSTANCE Station WITH
  Parcels <- A, Scans <- B, Window <- 1, MaxNow <- 2, MaxOthers <- 1, HISTORY_SIZE <- 2,
  now <- v1, parcel <- v2, request <- v3, scan <- v4, sequence <- v5, answer <- v6,
  history <- v7, asking <- v8, others <- v9

(* r1 names two localites, of which the seller chooses; r2 none, and gives the     *)
(* delegation of two.                                                       *)
Named(row) == IF row = "r1" THEN {"l1", "l2"} ELSE {}
InDelegation(row) == {"l2", "l3"}

Sheet == INSTANCE CsvText WITH
  Width <- 2, MaxTyped <- 5, sheet <- v1, delimiter <- v2, ended <- v3, typed <- v4

Importing == INSTANCE CsvImport WITH
  Localites <- {"l1", "l2", "l3"}, Rows <- {"r1", "r2"}, Imports <- A, MaxMoves <- 2,
  open <- v1, tree <- v2, file <- v3, reading <- v4, choices <- v5, refused <- v6,
  request <- v7, answer <- v8, made <- v9, result <- v10, moves <- v11

Rounds == INSTANCE CourierDay WITH
  Parcels <- A, DAY <- 1, MaxNow <- 0, MaxScans <- 2, MaxMoves <- 0, MaxLoads <- 1,
  now <- v1, parcel <- v2, rows <- v3, recent <- v4, pendingCount <- v5, sync <- v6,
  open <- v7, data <- v8, loads <- v9, current <- v10, moves <- v11

Undone == INSTANCE CourierDay WITH
  Parcels <- {"parcel"}, DAY <- 1, MaxNow <- 0, MaxScans <- 1, MaxMoves <- 1, MaxLoads <- 2,
  now <- v1, parcel <- v2, rows <- v3, recent <- v4, pendingCount <- v5, sync <- v6,
  open <- v7, data <- v8, loads <- v9, current <- v10, moves <- v11

Outings == INSTANCE CourierDay WITH
  Parcels <- {"parcel"}, DAY <- 1, MaxNow <- 3, MaxScans <- 2, MaxMoves <- 0, MaxLoads <- 1,
  now <- v1, parcel <- v2, rows <- v3, recent <- v4, pendingCount <- v5, sync <- v6,
  open <- v7, data <- v8, loads <- v9, current <- v10, moves <- v11

Papers(MaxBackups, MaxLost) == INSTANCE SellerDocuments WITH
  Documents <- {"d1", "d2", "d3"}, Calls <- A,
  statut <- v1, row <- v2, files <- v3, used <- v4, call <- v5, backup <- v6, backups <- v7,
  lost <- v8

Tabs2 == INSTANCE Sessions WITH
  Tabs <- A, Views <- {},
  now <- v1, row <- v2, issued <- v3, recent <- v4, jar <- v5, call <- v6, view <- v7,
  ending <- v8, faults <- v9

View1 == INSTANCE Sessions WITH
  Tabs <- C, Views <- D, MaxTokens <- 1, MaxNow <- MaxTime,
  now <- v1, row <- v2, issued <- v3, recent <- v4, jar <- v5, call <- v6, view <- v7,
  ending <- v8, faults <- v9

ASSUME OfficeAssumption ==
  /\ Asking(A, C)!PickupAssumption /\ Asking(C, A)!PickupAssumption /\ Zones!CoverageAssumption
  /\ Team!AccountsAssumption /\ Days!NoticesAssumption /\ Talk!ChatAssumption
  /\ Making!CreationAssumption /\ Papers(1, 0)!DocumentsAssumption
  /\ Tabs2!SessionsAssumption /\ View1!SessionsAssumption /\ Gun!StationAssumption
  /\ Sheet!TextAssumption /\ Outings!DayAssumption

-----------------------------------------------------------------------------
vars == <<moving, v1, v2, v3, v4, v5, v6, v7, v8, v9, v10, v11>>

\* The variables a component does not use.
From11 == v11 = None
From10 == v10 = None /\ From11
From9  == v9 = None /\ From10
From6  == v6 = None /\ v7 = None /\ v8 = None /\ From9
From5  == v5 = None /\ From6

Init ==
  \/ moving = "Pickup" /\ Asking(A, C)!Init /\ From9
  \/ moving = "Addresses" /\ Asking(C, A)!Init /\ From9
  \/ moving = "Zones" /\ Zones!Init /\ From9
  \/ moving = "Accounts" /\ Team!Init /\ From6
  \/ moving = "Notices" /\ Warnings!Init
  \/ moving = "Days" /\ Days!Init
  \/ moving = "Chat" /\ Talk!Init /\ From11
  \/ moving = "Creation" /\ Making!Init /\ From9
  \/ moving = "Requests" /\ Demandes!Init /\ From10
  \/ moving = "Station" /\ Gun!Init /\ From10
  \/ moving = "File" /\ Sheet!Init /\ From5
  \/ moving = "Import" /\ Importing!Init
  \/ moving = "Rounds" /\ Rounds!Init
  \/ moving = "Undone" /\ Undone!Init
  \/ moving = "Outings" /\ Outings!Init
  \/ moving = "Documents" /\ Papers(1, 0)!Init /\ From9
  \/ moving = "Unheard" /\ Papers(0, 1)!Init /\ From9
  \/ moving = "Sessions" /\ Tabs2!Init /\ From10
  \/ moving = "Views" /\ View1!Init /\ From10

Next ==
  \/ moving = "Pickup" /\ Asking(A, C)!Next /\ UNCHANGED <<moving, v9, v10, v11>>
  \/ moving = "Addresses" /\ Asking(C, A)!Next /\ UNCHANGED <<moving, v9, v10, v11>>
  \/ moving = "Zones" /\ Zones!Next /\ UNCHANGED <<moving, v9, v10, v11>>
  \/ moving = "Accounts" /\ Team!Next /\ UNCHANGED <<moving, v6, v7, v8, v9, v10, v11>>
  \/ moving = "Notices" /\ Warnings!Next /\ UNCHANGED moving
  \/ moving = "Days" /\ Days!Next /\ UNCHANGED moving
  \/ moving = "Chat" /\ Talk!Next /\ UNCHANGED <<moving, v11>>
  \/ moving = "Creation" /\ Making!Next /\ UNCHANGED <<moving, v9, v10, v11>>
  \/ moving = "Requests" /\ Demandes!Next /\ UNCHANGED <<moving, v10, v11>>
  \/ moving = "Station" /\ Gun!Next /\ UNCHANGED <<moving, v10, v11>>
  \/ moving = "File" /\ Sheet!Next /\ UNCHANGED <<moving, v5, v6, v7, v8, v9, v10, v11>>
  \/ moving = "Import" /\ Importing!Next /\ UNCHANGED moving
  \/ moving = "Rounds" /\ Rounds!Next /\ UNCHANGED moving
  \/ moving = "Undone" /\ Undone!Next /\ UNCHANGED moving
  \/ moving = "Outings" /\ Outings!Next /\ UNCHANGED moving
  \/ moving = "Documents" /\ Papers(1, 0)!Next /\ UNCHANGED <<moving, v9, v10, v11>>
  \/ moving = "Unheard" /\ Papers(0, 1)!Next /\ UNCHANGED <<moving, v9, v10, v11>>
  \/ moving = "Sessions" /\ Tabs2!Next /\ UNCHANGED <<moving, v10, v11>>
  \/ moving = "Views" /\ View1!Next /\ UNCHANGED <<moving, v10, v11>>

Spec == Init /\ [][Next]_vars

-----------------------------------------------------------------------------
\* Each component's variables keep their types.
TypeOK ==
  CASE moving = "Pickup" -> Asking(A, C)!TypeOK
    [] moving = "Addresses" -> Asking(C, A)!TypeOK
    [] moving = "Zones" -> Zones!TypeOK
    [] moving = "Accounts" -> Team!TypeOK
    [] moving = "Notices" -> Warnings!TypeOK
    [] moving = "Days" -> Days!TypeOK
    [] moving = "Chat" -> Talk!TypeOK
    [] moving = "Creation" -> Making!TypeOK
    [] moving = "Requests" -> Demandes!TypeOK
    [] moving = "Station" -> Gun!TypeOK
    [] moving = "File" -> Sheet!TypeOK
    [] moving = "Import" -> Importing!TypeOK
    [] moving = "Rounds" -> Rounds!TypeOK
    [] moving = "Undone" -> Undone!TypeOK
    [] moving = "Outings" -> Outings!TypeOK
    [] moving = "Documents" -> Papers(1, 0)!TypeOK
    [] moving = "Unheard" -> Papers(0, 1)!TypeOK
    [] moving = "Sessions" -> Tabs2!TypeOK
    [] moving = "Views" -> View1!TypeOK

(* A pickup is asked for once, an address has one open, a parcel counts for one,  *)
(* its fee is charged once: as Pickup states them.                           *)
PickupsCountOnce ==
  /\ moving = "Pickup" => /\ Asking(A, C)!OneOpenPerAddress /\ Asking(A, C)!AskedOnce
                          /\ Asking(A, C)!CountsOnce /\ Asking(A, C)!FeeOnlyOnce
  /\ moving = "Addresses" => /\ Asking(C, A)!OneOpenPerAddress /\ Asking(C, A)!AskedOnce
                             /\ Asking(C, A)!CountsOnce /\ Asking(C, A)!FeeOnlyOnce

(* Nobody's work is left behind: an absent ramasseur's pickups of the day moved to *)
(* whoever covers his zone (D-52), no open work the check could see is missed when *)
(* a courier is deactivated (D-12), and an admin remains.                         *)
WorkIsHandedOn ==
  /\ moving = "Zones" => Zones!AbsentIsReplaced
  /\ moving = "Accounts" => Team!AnAdminRemains /\ Team!NothingMissedAtDeactivation

(* A notice is sent once, and sent: the warning of a failure while the setting    *)
(* stands, the notices of a day.  A message is shown as stored and told once.     *)
ToldOnce ==
  /\ moving = "Notices" /\ v9 = 0 => Warnings!WarnedOncePerFailure /\ Warnings!NearIsWarned
  /\ moving = "Days" => Days!ToldOncePerDay
  /\ moving = "Chat" => Talk!AnsweredAsStored /\ Talk!ToldOnce

(* What is sent is handled once, as it was meant: a creation is answered with its *)
(* own parcels, at fees less than a minute old; a change request is settled once, *)
(* and a form sent from an old page puts no old value back; a scan cancelled at   *)
(* the station is the person's last, alone undone; the rows of an import go where  *)
(* the page showed them to go (D-37).                                       *)
HandledOnce ==
  /\ [](moving = "Creation" => Making!FeesAtMostAMinuteOld)
  /\ [][ /\ moving = "Creation" => Making!AnswersWithItsParcels
         /\ moving = "Requests" => Demandes!SettledOnce /\ Demandes!NothingPutBack
         /\ moving = "Station" => Gun!UndoesItsScanAlone /\ Gun!LastOnBothCounts
         /\ moving = "Import" => Importing!AgreeOnARow /\ Importing!GoesWhereNamed ]_vars

(* The papers and the pages agree with what they are of: a seller has his documents *)
(* and each has its file; a waiting request is of the customer the parcel has, and *)
(* a parcel whose label says something else is marked for reprinting (D-57, D-72); *)
(* the station's lines say what became of their scans (D-53); the preview of a file *)
(* holds the cells of its sheet, and a shown result was made; a courier's phone     *)
(* holds no scan twice, and shows what it sent.                               *)
PapersAgree ==
  /\ moving = "Documents" => Papers(1, 0)!RowHasItsFile /\ Papers(1, 0)!HasItsDocuments
  /\ moving = "Unheard" => Papers(0, 1)!HasItsDocuments
  /\ moving = "Requests" => Demandes!WaitsForItsCustomer /\ Demandes!StaleLabelIsMarked
  /\ moving = "Station" => Gun!LinesAreTrue
  /\ moving = "File" => Sheet!ReadAsWritten /\ Sheet!LineIsWhereItStarts
  /\ moving = "Import" => Importing!ResultIsMade
  /\ moving = "Rounds" => Rounds!NothingScannedTwice /\ Rounds!EmptyQueueShowsAll
  /\ moving = "Undone" => Undone!NothingScannedTwice /\ Undone!EmptyQueueShowsAll
  /\ moving = "Outings" => Outings!NothingScannedTwice /\ Outings!EmptyQueueShowsAll

(* Refreshing logs nobody out, nothing brings a revoked session back, and a view  *)
(* of a seller's account is ended and recorded once.                         *)
SignedIn ==
  /\ [](moving = "Sessions" => Tabs2!NotTakenForACopy /\ Tabs2!StaysSignedIn)
  /\ [](moving = "Views" => View1!EndedOnce)
  /\ [][moving = "Sessions" => Tabs2!StaysRevoked]_vars

Symmetry == Permutations(A) \cup Permutations(B)
=============================================================================
