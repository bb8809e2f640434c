# Faffa Go in TLA+

Specifications, model-checking runs and machine-checked proofs of Faffa Go, a
cash-on-delivery courier service: what happens to a parcel, to the cash
collected for it and to the fees its seller owes, between the seller's form and
the day it is paid for or handed back, and what the people around it read of
it, on pages and phones that are not always up to date.

Source paths below are relative to `src/`; `api/` stands for `apps/api/src/`
and `shared/` for `packages/shared/src/`.

## 1. The system

A TypeScript monorepo. `packages/shared` holds pure rules used by all sides;
`apps/api` is a NestJS server over PostgreSQL (Prisma, READ COMMITTED, rows
locked with `SELECT ... FOR UPDATE` where the code says so); `apps/web` is the
back office, the sellers' space and the public site; `apps/courier` is the
couriers' phone app, which works offline and synchronises later.

### Components, their state and their operations

| Component | State it keeps | Operations | Correct when |
|---|---|---|---|
| Parcel state machine (`shared/parcel-state-machine.ts`, `parcel-effects.ts`, `forcage.ts`) | none: a function of the row | 18 actions of scans, decisions and returns, three cash transitions, the forced moves | no sequence of actions yields a row whose columns contradict each other |
| Parcel event service (`api/parcels/parcel-event.service.ts`) | `parcels`, `parcel_events`, `seller_charges` | run, cash transitions, restore before a scan, force a status, undo a delivery | row, event log and fees change together and reversals take back exactly what was done |
| Depot scans (`api/scans`) | `scans` | Entree, Sortie, Retour de tournee, Preparation retours; cancel, cancel by the admin | a cancelled scan leaves nothing behind |
| Courier scans (`api/courier/courier-scans.service.ts`) | `scans`, pickup lines | Ramassage, Livre, Echec, Retour recu; cancel | same, from phones whose operations arrive late |
| Decisions (`api/a-verifier`) | the row's 48-hour deadline | Relancer, Changer la date, Changer le client, Retourner | one decision per failure |
| 48-hour job (`api/a-verifier/verify-deadline.job.ts`) | a flag and a batch, in memory | a pass every minute | every undecided failure becomes a return, once, and not early |
| Forcer un statut (`api/colis/forcage.service.ts`) | - | forced move, undone delivery | the move leaves a consistent row and takes the fees back |
| Tournees, demandes | planned livreur, change requests | plan, apply a request | they end the cancellation of an earlier scan |
| Pickups (`api/pickups`, `courier-pickups.service.ts`) | `pickups`, lines, counts | request, plan, scan, Terminer | the count is the number of scans; nothing enters a finished pickup |
| Courier queue and sync (`apps/courier/src/queue`, `courier-sync.service.ts`) | a queue on the phone, scans by UUID | enqueue, cancel, upload, replay | each scan is applied once, in order |
| Caisse (`api/money/caisse.service.ts`) | sessions, lines, ecarts, debts | count, close, bring bons back, cancel a debt | the cash of a parcel is counted in one closed session |
| Bons de versement, de retour, handover, corrections (`api/money/bon*.ts`) | bons and their lines | prepare, assign, hand out, receive, cancel, correct | a parcel is paid or handed back once |
| Payroll, retenue, document numbers | payrolls, counters | compute, pay, number | a rate is paid once, numbers have no gap or double |
| Sessions and authentication | sessions, throttles | login, refresh, revoke, impersonate | a revoked session does nothing |
| Accounts, zones, absences (`api/accounts`, `api/zones`) | users, titulaires, absences | stop, deactivate, replace, plan | nobody's work is left behind |
| Sellers and documents (`api/sellers`, `api/storage`, `deploy/backup.sh`) | rows and files | create, replace, discard, back up, restore | a row has its file |
| Creation and import (`api/parcels`, `shared/csv-import.ts`, `localites.ts`, the import page) | parcels, imports, two caches | create, draw a code, import a file | a form makes its parcels once, where its page said |
| Change requests and labels (`api/demandes`, `api/labels`) | requests, a mark on the parcel | file, edit, withdraw, apply, refuse, print again | an old page puts no old value back; a stale label is marked |
| Notices, chat (`api/notices`, `api/chat`) | notices, messages, read marks | passes of a job, send, read | told once |
| Scan station, seller's and team's pages (`apps/web`) | what was loaded | click, answers in any order | a button does what it says, or is refused |
| Phone's pages (`apps/courier`) | rows of the queue as last read, lists as last answered | scan, deliver, load again, synchronise | nothing is scanned twice, an empty queue shows everything |
| Dashboards, reports, exceptions (`api/dashboard`, `api/reports`, `api/exceptions`) | none: queries | figures of a period | pages that count the same parcels agree |
| Settings, public site, audit, storage, PDF files, texts | records of their own | forms, lists, files | not part of these rules |

`PROJECT.json` lists all of them with the modules that stand for them.

### How they interact

- **Calls.** Every change of a parcel goes through the event service, which
  locks the row, asks the state machine, and writes columns, event and fees in
  the caller's transaction.
- **Shared tables.** Bons de versement take waiting charges by status, and the
  reversals of a delivery or a failure annul charges by status: they meet on
  `seller_charges` without a common lock. Bons de retour and forced moves meet
  on the parcel's place.
- **Messages.** Phones send batches of operations made earlier; the answer may
  be lost and the batch sent again.
- **Timers.** The 48-hour job reads a batch and then returns the parcels one
  by one.

### What is hard

1. Reversals. There are five (a cancelled depot scan, a cancelled courier scan,
   a forced move, an undone delivery, a corrected receipt or payment), each with
   its own list of columns and its own rule for the fees.
2. Time. A scan is cancelled within a window measured between two clock
   readings of the phone; the cancellation itself arrives at any later time.
3. READ COMMITTED. A check and the write it allows are two statements unless
   the row is locked, and charges, sessions, pickups and bons often are not.
4. Jobs with memory between their reads and their writes.
5. Pages. A request carries what its page showed when it was loaded, or does
   not say what it showed; meanwhile others go on.
6. One fact with several counts. A delivery is an event, a scan, a row and a
   charge; each page reads one of them, by the phone's day or the server's.

The `hazards` of `PROJECT.json` place each of these at its line.

## 2. Modules

    ParcelMachine                 pure: one row, the rules of packages/shared
      |-- ParcelLifecycle         the event service and its callers
      |     |-- MCParcelLifecycle (the two fees the code gets wrong)
      |     `-- Screens           the pages clicked over it, with WorkLists
      |           |-- MCScreens
      |           `-- Screens_proofs (rows and fees, then pages)
      |-- WorkLists               pure: what each person reads of a parcel
      |-- VerifyDeadline          the 48-hour job, time, failures, restarts
      |     |-- MCVerifyDeadline
      |     `-- VerifyDeadline_proofs
      `-- Figures                 the same parcels counted on several pages
    OfflineDelivery               abstract: what the phone's queue promises
      `-- CourierSync             the queue, the upload, the server's replay
            |-- MCCourierSync
            `-- CourierSync_proofs
    CourierDay                    the phone's pages over queue and lists
      `-- MCCourierDay
    MCMoney                       Caisse (also MCCaisse), BonVersement, BonRetour,
      |                           Payroll and Fees, both on MoneyRules, Figures
      `-- Money_proofs            carries to this run the theorems of Caisse_proofs,
                                  BonVersement_proofs and BonRetour_proofs, and
                                  proves the pay
    MCOffice                      Pickup, ZoneCoverage, Accounts, Notices, Chat,
      |                           Creation, CsvText, CsvImport, ChangeRequests,
      |                           Station, CourierDay, SellerDocuments, Sessions
      `-- Office_proofs           pickups, zones, accounts, notices, chat, sessions

**ParcelMachine.** A parcel is the record of the columns the rules read:
status, place, cash, attempts, changes of client, current livreur, the origin
of a relance date, and whether the 48-hour deadline, the frozen courier rate
and the closing date are set. An action of the source is a guard `CanX` (the
negation of its refusals) and `X` (the row it returns with the columns its
effects write). A relance date and slot are represented by their origin, since
the database keeps both or none. Not represented: the planned livreur, the
exchanged item, amounts, the failure's reason (it is the choice between `Echec`
and `EchecReporte`; the last attempt is `EchecFinal` whatever the reason).

**ParcelLifecycle.** One action per transaction.

| Variable | Code |
|---|---|
| `parcel` | `parcels` rows |
| `charges` | `seller_charges` rows, EN_ATTENTE or DEDUITE; an ANNULEE row is never read again and frees its id |
| `scan` | the scan named by the parcel's last event while it is not cancelled, with `parcelBefore` and the charge created under its id |
| `lock` | the row lock a courier's cancellation holds between its check and its writes |
| `onBon` | the parcel is on a line of a bon de retour Prepare or En route, not received |
| `orphan` | history: charges a reversal was about and found already deducted |

All transactions but one lock the row first and are one step. The courier's
cancellation is two (`CheckCourierCancel`, `WriteCourierCancel`, or
`AbortCourierCancel`), because it checks a charge it does not lock. The window,
the scanner's later scans and the closed caisse can only refuse: they are the
choice not to take the step. Preparing and cancelling a bon de versement are
seen per charge (`DeductCharge`, `ReleaseCharge`): a bon takes all of the
seller's waiting charges, which is a sequence of such steps.

**VerifyDeadline.** The same rows with a deadline in ticks, the number of
return fees, the job's flag and what is left of its batch. `StartPass` is the
`findMany` (expired, oldest first, at most `BatchSize`), `ReturnNext` one
transaction of the loop, `SkipNext` the `catch`, `EndPass` the `finally`,
`Restart` a restart of the server, `FailNext` a transaction that fails once.
The delay is read from the settings with each failure, so two failures may
expire in the other order. `CancelEchec` is the restore of a cancelled Echec;
the row it finds is recomputed instead of remembered: before an Echec the
parcel was En livraison with one attempt less, and nothing moved it since
while it is A verifier with the livreur. A clock of any number of ticks may
pass between two steps.

**CourierSync** implements **OfflineDelivery** (refinement by `Delivery ==
INSTANCE OfflineDelivery WITH ...`, checked as `Promise`). The phone's steps
are its awaits: read the pending rows, send, wait, record the answers one by
one; the server's steps are its transactions. A request whose answer is lost
goes on running, so two uploads of the same rows can overtake each other. What
the phone reads of its pending rows (`ORDER BY seq LIMIT n`) is said by what it
holds: `pending` is the set of one sequence, his rows still to send, oldest
first, with none left out before another.

**Screens** composes the lifecycle with one open page, the seller's or the
team's: `OpenDetail` or `OpenColis` loads it, then a click sends what it offers,
whatever happened since. One page is enough: requests commit one by one, and a
page is surprised only by what happened since its load, which the steps of all
the others cover.
`WorkLists` holds the lists, the buttons and the texts of a page as operators on
a parcel: the web's `CanChangeClient` beside the machine's own guard.

**Transactions in several steps.** Every module below follows one rule. A
transaction that reads something it does not lock and writes later is several
steps, with what it read kept in a variable (`call`, `request`, `work`,
`preparing`, `closing` ...); what it writes is seen by the others from its last
step, its commit. A transaction that holds everything it reads is one step.
PostgreSQL's unique indexes are the guards of the writing step, and what the
code does when one refuses is the other branch.

| Module | Code | Its state and its steps |
|---|---|---|
| `Pickup` | `api/pickups`, `courier-pickups.service.ts`, the Ramassage scans | addresses, pickups, their parcels; a request reads and inserts, a scan reads the pickup and commits its count, Terminer counts and writes |
| `Caisse` | `caisse.service.ts` | sessions per livreur and day; what one expects is recomputed from the scans, as in the code; counting and closing read, then write |
| `BonVersement` | `bons-versement`, `bon-handover`, `bon-corrections`, `retenue`, the ramasseur's side of the caisse | bons, charges, certificates, the ramasseurs' sessions; preparing and closing in steps, `handOut`, Remis scans, corrections |
| `BonRetour` | `bons-retour`, `bon-handover`, `bon-corrections` | bons and lines; a Preparation and a Retour recu scan in two steps |
| `MoneyRules`, `Fees` | `fees.ts`, `money.ts`, `seller-money.ts`, `caisse.ts`, `retenue.ts` | pure operators on integers; `Fees` grows the rows they are applied to |
| `Payroll` | `payroll.service.ts`, `payroll.ts` | plan, fiches, debts; `prepare` and `changePlan` read, hold, write |
| `ZoneCoverage` | `api/zones`, `geo.service.ts`, plannings | titulaires and backups, absences, plans made on what was read |
| `Accounts` | `accounts.service.ts`, `courier-open-work.ts` | stop, check of the open work, deactivation, against hand-outs under way |
| `Notices` | `notices.job.ts` | four passes, one parcel or courier at a time; stored notices, memory, restarts |
| `Chat` | `api/chat`, `chat-panel.tsx`, the phone's queue | messages sent again under their id, thread and parcel moving |
| `Creation` | `parcels.service.ts`, `parcel-imports.service.ts`, settings and geography caches | requests repeated, codes drawn, caches filled around an await |
| `SellerDocuments` | `api/sellers`, `api/storage`, `deploy/backup.sh` | files and rows, stops at each step, backup and restore |
| `ChangeRequests` | `demandes`, `decisions.service.ts`, `parcels.service.ts`, `labels.service.ts` and their forms | the customer's fields, requests, open forms, the team's page, the printed label; printing reads, then clears the mark |
| `Station` | `scan-station.tsx`, `depot-scans.service.ts` | scans sent without waiting, received, recorded and answered in any order; Annuler le dernier scan |
| `CsvText` | `csv-import.ts` | a sheet typed cell by cell, written by a spreadsheet, read back by `parseCsv` |
| `CsvImport` | `csv-import-screen.tsx`, `localites.ts`, `parcel-imports.service.ts` | a file on the page, the localites it was loaded with, the seller's choices, requests and answers lost |
| `CourierDay` | `TourneeScreen`, `DeliverScreen`, `ScannerScreen`, `CaisseScreen`, `useData.ts`, `app.tsx`, `courier-day.service.ts` | rows of the queue, the rows the screens last read, lists loaded and answered out of order |
| `Figures` | `dashboard.service.ts`, `seller-money.service.ts`, `reports.service.ts`, `exceptions.service.ts` | events, charges and bons of a seller's parcels; each figure is an operator on them |
| `Sessions` | `sessions.service.ts`, `impersonation.service.ts`, web cookies | rotation, grace, reuse, tabs sharing a cookie, views |

**MCMoney and MCOffice** check several components in one run: the initial state
picks the component that moves (`moving`), and that one alone gives meaning to
`v1`, `v2` ... through an `INSTANCE`. The components do not interact within
these runs, each models the steps of the others it meets; a property speaks of
the behaviours of its component.

## 3. Runs

| Run | Question | Result |
|---|---|---|
| `lifecycle` | do the columns, attempts, fees and bon line of a parcel agree in every order of actions, and is what a page offers and says of it honest when it is clicked late? | passes, 91,477 distinct states |
| `verify_deadline` | does the job return every undecided failure, once, whatever races, fails or restarts? | passes, 100,796 states |
| `verify_broken_parcel` | does a parcel that always fails hold back the others? | passes, 220,880 states |
| `courier_sync` | is each operation of a phone decided once, in order, shown as decided, and answered in the end? | passes |
| `money` | is cash, a return, a pay accounted for once, however counts, closings, scans and corrections cross, and do the pages agree on it? | passes, 918,108 states |
| `office` | do repeated, crossing, late or interrupted requests neither double nor lose what they are for? | passes, 1,573,137 states |
| `undone_delivery_fee` | "the delivery fee cancelled (A-1)" | violated |
| `cancel_fee_race` | "a fee is owed only for what really happened (A-1)" | violated |
| `early_auto_return` | "a parcel still A verifier when its deadline passes" | violated |
| `sync_annuler` | "a sent one gets a cancellation queued after it" | violated |
| `undone_delivery_cash` | "his accepted, not cancelled Livre, the cash still with him" | violated |
| `second_outing` | "the same parcel scanned for the same action today, sent or not, and not cancelled" | violated |

**Bounds.** Parcels share only the table of charges in `ParcelLifecycle`, and
each action reads one parcel: one parcel is enough, and the theorems hold for
any number. Two livreurs tell "his" from "another's". Three attempts and one
change of client are the defaults of the settings. Four charges: the fee of the
change, that of the outcome, and two that a reversal found deducted (when the
table is full, the actions that create a charge wait: this cuts only further
repetitions of the same reversal). Charges and livreurs are
interchangeable, hence the symmetry, in runs without liveness properties. A
parcel cancelled before pickup stops for good: deadlock is not checked in these
runs.

`VerifyDeadline.cfg` has batches of one out of two parcels, so a batch can be
too short, two attempts, three ticks, two delays and one fault (a failure or a
restart). `VerifyDeadlineBroken.cfg` has three parcels, one of which always
fails, in batches of two. Deadlock is checked in both: once every parcel is
settled and the clock is at its bound, the job still passes over empty batches.

`CourierSync.cfg`: two users of one phone, three operations in uploads of two
(so batches are partial), two uploads at once, one fault (a lost answer, an
error, a 401, a restart), two logins. An unreadable operation stands between
two readable ones. `Money.cfg`: two parcels, two couriers, two bons, two days,
two hand-outs and corrections: enough for one thing to be counted or carried
by two, for a closing of yesterday beside today, and for a second hand-out
after something came back. The pay has four days, plans
of one and of two days, two changes and two calls at once: enough for a period
cut by a change, and for a fiche prepared while the plan is changed. One midnight may
fall into calls of the pay under way together, not a second one (`NextDay`): a
transaction of Prisma ends after seconds. Were one to last two, `FichesInOrder`
would not hold. Amounts are numbers of parcels except in `Fees` and in the pay's
one debt; in `Fees` 1, 17, 50 and 133 millimes at 3 % and 15 % make every rounding case.
`Figures` comes in two instances: one parcel over four days (a scan must come
more than two days late for the pages to part) and two parcels with two bons on
one day. `Screens.cfg`: one page open, one parcel, two livreurs, four charges, as
for the lifecycle. `Office.cfg`: two calls at once of each kind, with one or two
of each thing, save what follows. Several components come in several instances, each bounding what
the others leave free: `Pickup` (two parcels and one request at a time, or two
addresses and two requests at once), `SellerDocuments` (with a backup, or with a
commit nobody heard of), `Notices` (warnings, days), `Sessions` (tabs, views;
the grace is three ticks of time, of which there are eight), and `CourierDay` (`Rounds`: two parcels and two scans; `Undone`: a
delivery undone while two loads are in flight; `Outings`: four days). The delay
of `Notices` is set to two or to four times twelve hours. `ChangeRequests` has
two requests, one tab, two values of each field and three moves; `Station` two
parcels, two scans, a cancellation window of one tick out of two; `CsvText` two
columns and five characters typed, so that a quoted break, a doubled quote and a
short row all occur; `CsvImport` three localites, one ambiguous name, two rows,
two imports. Every bound is a CONSTANT of its module, named in its declaration.
Where a theorem is about an instance of `MCOffice` or about the pay of `MCMoney`,
the bounds it could depend on are CONSTANTS of those modules too, so that it
holds for all their values. Deadlock is not checked there: a component stops at
its bounds.

**Fairness.** In `VerifyDeadline`, only the job is fair: `WF_vars(JobStep)`. The timer fires every
60 seconds (`@Interval(60_000)`), a pass that has begun runs to its end because
each parcel's failure is caught, and the flag is lowered in a `finally`. No
fairness is assumed of sellers, couriers or the clock. Faults are bounded by
`MaxFaults`: a server that restarted in each pass for ever would decide
nothing. In `CourierSync`, the loop of `syncNow` and each upload of the server
are fair: an await returns (a lost answer by its timeout), `syncNow` is called
again by a timer, by each enqueue and at each start, and faults are bounded.
Nothing is assumed of the couriers; `QueueEmpties` speaks of one who stays
logged in. The other modules are checked for safety only.

**Properties.** `Custody`: the row makes sense (a deadline exactly while A
verifier, cash and frozen rate exactly while Livre, closed exactly when
cancelled, received back or paid, a holder wherever somebody must answer).
`AttemptsLeft`: no parcel that can go out has spent its attempts.
`FeesMatchOutcome` and `ChangeFeesMatch`: one delivery fee per delivered
parcel, one return fee per return, one change fee per change, none otherwise,
apart from `orphan`. `BonHoldsReturns`: a parcel on an open bon de retour stays
a return. `UndoIsExact`: a cancellation restores also the columns it does not
write. `DeliveryStands`: cash that has reached the depot ends all reversals.
`DeadlineIffUndecided`, `OneFeePerReturn`, `ExpiredIsDecided`: the 48-hour rule.

`OffersAreHonest`: a page offers exactly what the API accepts, announces a fee
exactly when it is charged, and always leaves the seller something else than the
return. `OnSomeonesList`: an open parcel is on a list of whoever can move it on,
and what a livreur holds on his alone. `MoneyShownIsCharged`: the money block
says what is charged. `CancelledNeverGoesOut`: a parcel its customer was told is
cancelled is not taken out again, by stale pages or reversals either.
`UndoneByItsLivreur`: a delivery is undone only for the livreur who made it.

`DecidedOnce`, `DecidedInOrder`, `ShowsTheVerdict`, `QueueEmpties` and the
refinement `Promise`: the courier's queue. `CashAtDepotWasCounted`: the cash at
the depot is what closings moved, each parcel in one, and each closed caisse
was counted against exactly what it moved. `NoCashForgotten`: cash held by a
courier is expected by a caisse not yet closed.

The other properties of `money` and `office` join those their modules state,
where the comments quote the sentence of the code they come from:

| Property | Its parts |
|---|---|
| `BonsFollowTheirCaisse` | a bon carried is expected by an open caisse of its ramasseur (`CarriedCashIsExpected`); a closed one has settled every bon it took out (`ClosedCaisseIsSettled`) |
| `PaidUnderOneCertificate`, `ChargesFollowTheirBon` | a parcel paid is on one bon Remis and one certificate; a surplus is explained once, a deducted charge has a standing bon |
| `ReturnsFollowTheirBon` | a return is where its line says (`ReturnFollowsItsBon`), given back on one line (`ReceivedOnOneLine`) |
| `PaidOnce` | a parcel on one fiche, delivered for good and its cash handed in (`PaidForDelivered`), periods disjoint (`FichesInOrder`) |
| `AmountsAddUp` | nothing is lost between what is included, carried, withheld and paid; a debt is deducted once over all the fiches (`DeductedOnce`); the pages count the same outcomes and the same cash (`OutcomesAreCounted`, `PagesAgree`, `CashIsAccountedFor`) |
| `PickupsCountOnce` | one open pickup per address, a request made once, a parcel counted by one pickup, a fee charged once |
| `WorkIsHandedOn` | absences replaced, open work seen before a deactivation, an admin left |
| `ToldOnce` | warnings, daily notices and messages sent once, and sent |
| `HandledOnce` | creations, change requests, cancellations at the station and rows of an import do what they were sent for, once |
| `PapersAgree` | documents, labels, the station's lines, a file's preview, an import's result and the phone's pages agree with what they show |
| `SignedIn` | refreshing logs nobody out, a revoked session stays so, a view of an account ends once |

Each property has a mutant of the code in the modules, named after what is
broken (a clock left running, a column not restored, a `try` around the loop),
that violates it.

## 4. What the runs found

- **An undone delivery can keep its fee** (`undone_delivery_fee`).
  `undoDelivery` annuls delivery fees EN_ATTENTE. A bon de versement deducts
  all the seller's waiting charges, including that of a parcel whose cash is
  still with the courier. The parcel goes back out with its fee deducted, and
  delivering it again creates another.
- **A cancelled failure can keep its return fee** (`cancel_fee_race`). The
  charge is checked and updated by two statements without a lock; a bon
  prepared between them takes it.
- **A return can come before its deadline** (`early_auto_return`). The job's
  batch may be stale and the machine reads only the status again: a failure
  cancelled late and recorded again is returned at once. Everything else about
  stale batches is harmless, as `OneFeePerReturn` shows.
- **Annuler of a sent scan is never queued** (`sync_annuler`). The row of the
  cancellation gets the id of the scan's row, which is still there, and the
  table's ids are unique: the insert throws. The unit test uses a store in
  memory that accepts it.
- **An undone delivery is still counted** (`undone_delivery_cash`). Undoing a
  delivery leaves its scan; delivered again by another livreur, the parcel is
  expected by both caisses.
- **A stop that cannot be scanned** (`second_outing`). "Déjà scanné" is judged on
  the rows of the last 48 hours, without their day. A parcel scanned yesterday
  and out again today (undone, or failed and brought back) is a stop of Ma
  tournée that its livreur can neither deliver nor fail.

`FeesMatchOutcome` states what remains true: the fees in excess are exactly
those a reversal found already deducted.

### Stated, not holding, and without a run

Sentences of the code that the models refute too; the definition stands in the
module with the comment "Not so". They have no run of their own.

| Definition | The sentence | What happens |
|---|---|---|
| `Pickup!ClosedOnItsCount` | "Terminer and a late scan of the same pickup queue here" (`courier-pickups.service.ts:226`) | the scan does not lock the pickup |
| `Pickup!OneOpenPerParcel` | a parcel "in no open request" (`pickups.service.ts:280`) | a request without a list locks no parcel |
| `CourierSync!RemovedWasNeverSent` | "A scan never sent is simply taken off the queue" | it may be on its way |
| `CourierSync!NeverReassigned` | "never loses or reassigns a scan" (`queue.ts:17`) | a request takes the token of whoever logged in meanwhile |
| `BonVersement!AnnulledIsNotDeducted` | a fee annulled is not owed | created and annulled while a bon is prepared |
| `BonVersement!CorrectsItsCarrier` | "the session of the day he carried it" | two caisses took the bon out the same day |
| `BonVersement!BroughtBackWasNotHandedOver` | "the bons he did not hand over come back" | the closing's reading is overtaken by a Remis |
| `BonRetour!RemisOnceReceived` | "Remis once every line is received" | two last lines received together |
| `BonRetour!CarriedUntilItsDayCloses` | "at his Cloturer, each line not received goes back" | closing an earlier day brings back today's |
| `Payroll!DueAfterItsPeriod` | "A fiche is due once its period has ended" | it is due on the following day only |
| `Payroll!CancelledStays` | a debt cancelled is deducted no more | a fiche under way has read it |
| `ZoneCoverage!DelegationInActiveZone` | "refused while delegations are attached" (D-51) | the two screens read each other unlocked |
| `Accounts!DeactivatedHasNoOpenWork` | "nothing new can be assigned between the check and the deactivation" | a hand-out that read the account before commits after |
| `Notices!EveryPayIsTold` | a fiche comes due, "once per period" | two couriers with one name share a notice |
| `Chat!WrittenMeanwhileIsUnread` | unread is what others wrote after one last opened the thread | a message kept by the phone marks it read on arrival |
| `Notices!WarnedOncePerFailure` | "Each one is sent once, however often the job looks" | a failure's beginning is computed with the setting of now: after the delay is lowered it is told at each pass (`notices.job.ts:74`) |
| `Notices!NearIsWarned` | "Plus que 24 h (D-76): [...] once per failure" (`notices.job.ts:51`) | the same: after the delay is raised, the notice of an earlier failure counts for this one |
| `Screens!CancelAsAnnounced` | Annuler before pickup is "without a fee" (`parcel-screen.tsx:95`) | sent from a page loaded before a Ramassage scan, it returns the parcel and charges it |
| `ChangeRequests!ReprintIsCurrent` | the mark is "cleared when staff reprint the label" (D-57, `labels.service.ts:51`) | a change written while the PDF is drawn loses its mark |
| `ChangeRequests!FiledFromItsPage` | a request is about the customer its page showed (D-72, `decisions.service.ts:258`) | filed from a page loaded before Changer de client, it is the new one's |
| `Station!LatestByEvent` | "the latest is the one whose event came last" (`depot-scans.service.ts:428`) | a scan received first and recorded last is not compared |
| `CsvImport!ChoiceIsKept` | "a row error, never a guess" (`localites.ts:195`) | a choice is dropped when its localite has closed and one other has the name |
| `CsvImport!EveryRowSentIsMade` | every row sent becomes a parcel | after a lost answer, rows chosen since go under the same id and the first import is answered |
| `CourierDay!CashIsAlwaysRight` | "the total is always right, even offline" (`coursier.md:143`) | the lists are loaded again only when the number of rows to send changes |
| `CourierDay!CountedOnceOffline` | the same | a delivery whose answer was lost is in the list and still pending |
| `CourierDay!ShowsItsStops` | "the parcels scanned out to him, a stop each" (`TourneeScreen.tsx:19`) | a stop whose delivery was undone is hidden until the day ends |
| `Figures!TakesOffWhatWaits` | the net is "COD − every fee waiting" (`shared/seller-money.ts`) | a delivery fee an earlier bon has already deducted is taken off again until the parcel is paid |
| `Figures!LateScansCount` | "read wide, keep exact" (`reports.service.ts:149`) | a scan received more than 48 hours late is on the dashboard and not in Activité |
| `Figures!CollectedOnce` | "the cash collected (Livré scans, the phone's day)" | a delivery undone and made again is collected twice in Argent |
| `Creation!TreeFollows` | "A closed one takes no new parcel" (D-27) | a tree read before the closing is kept after it |

Limits of what holds, in the properties themselves: `SellerDocuments` after a
commit whose answer is lost (`lost = 0`), `Sessions` after a fault
(`faults = 0`), `Notices` after a change of the setting, `ChangeRequests` when
a printed field changed under a reprint, `CourierDay` while rows are queued,
`Figures` for scans later than two days and for the cash of undone deliveries.

## 5. Proofs

Eight modules of proofs, checked with tlapm, hold for every set of parcels,
couriers, charges, bons, addresses, zones and messages, every number of days,
scans and operations, every plan, limit and batch size: no value section 3 gives
to a bound is used. Of the runs' 40 properties they prove 32.

**Assumptions.** They are the `ASSUME`s of the modules, and for the components
of `MCMoney` and `MCOffice` the `...Assumption` that each states and
`MoneyAssumption` and `OfficeAssumption` collect; the runs evaluate them all. They
say that bounds are naturals, that there is an attempt, a day, an admin, a place
in an upload, that amounts are numbers, that a plan has a length, that livreurs
are no ramasseurs, that the sets whose members are counted are finite, and that
`None` is none of the values it stands beside. The last includes records (`None` is no charge, no
upload, no row of a bon): TLA+ does not say that a constant differs from a
record, and a table whose missing rows could equal a row would mean nothing.

| Module | Theorem | Property of a run |
|---|---|---|
| `Screens_proofs`, of `ParcelLifecycle` | `TypeCorrect` | `TypeOK` |
| | `CustodyHolds`, `AttemptsHold`, `BonHolds` | `Custody`, `AttemptsLeft`, `BonHoldsReturns` |
| | `CancellationIsExact`, `DeliveriesStand` | `UndoIsExact`, `DeliveryStands` |
| | `FeesHold`, `ChangeFeesHold` | `FeesMatchOutcome`, `ChangeFeesMatch` |
| of `Screens` | `ScreensImplementLifecycle` | that the pages implement the lifecycle (`ScreensSpec => Spec`) |
| | `OffersHold`, `ListsHold`, `MoneyHolds` | `OffersAreHonest`, `OnSomeonesList`, `MoneyShownIsCharged` |
| | `UndoneDeliveriesAreNamed`, `CancelledStaysIn` | `UndoneByItsLivreur`, `CancelledNeverGoesOut` |
| `VerifyDeadline_proofs` | `JobTypeCorrect` | `TypeOK` |
| | `DeadlinesHold`, `ReturnsChargedOnce` | `DeadlineIffUndecided`, `OneFeePerReturn` |
| `CourierSync_proofs` | `QueueIsTyped` | `TypeOK` |
| | `EachDecidedOnce`, `DecidedAsWritten`, `PhoneShowsTheVerdict` | `DecidedOnce`, `DecidedInOrder`, `ShowsTheVerdict` |
| | `QueueDelivers` | `Promise` |
| `Caisse_proofs` | `CaisseIsTyped`, `DepotCashIsCounted`, `CashIsNeverForgotten` | |
| `Money_proofs`, from these | `MoneyIsCounted`, `MoneyIsExpected` | `CashAtDepotWasCounted`, `NoCashForgotten` |
| `BonVersement_proofs` | `BonsAreTyped`, `OneCertificateStands`, `ChargesAreCounted`, `SurplusIsShared`, `CarriedIsExpected`, `ClosedIsSettled` | |
| `Money_proofs`, from these | `MoneyIsCertified`, `MoneyIsDeducted`, `MoneyIsCarried` | `PaidUnderOneCertificate`, `ChargesFollowTheirBon`, `BonsFollowTheirCaisse` |
| `BonRetour_proofs` | `RetoursAreTyped`, `ReturnsAreReceivedOnce`, `ReturnsFollowTheirLines` | |
| `Money_proofs`, from these | `MoneyIsReturned` | `ReturnsFollowTheirBon` |
| of the pay | `MoneyIsPaidOnce` | `PaidOnce` |
| `Office_proofs` | `PickupsAreOnce` | `PickupsCountOnce` |
| | `WorkHandedOn` | `WorkIsHandedOn` |
| | `ToldOnceOnly` | `ToldOnce` |
| | `NobodyLoggedOut` | `SignedIn` |

Each module proves first that its inductive invariant always holds
(`Always...Inv`): true at the start, kept by each action (one lemma or step per
action), and stronger than the properties. TLC checked each invariant before it
was proved.

**The lifecycle.** `Custody` is not inductive: a cancellation restores a row
kept earlier, and nothing in `Custody` speaks of kept rows. `CustodyInv` adds
`Undoable`: the row a cancellable scan kept was itself sound, agrees with the
present one on every column its cancellation does not write, and no cash has
moved since; a courier's scan is never cancellable for a parcel on a bon.
`AttemptsLeft` is strengthened to parcels not yet picked up. Then each guard and
each update of the machine preserves `Sound` (the lemmas `...AreSound`), each
action preserves the row's invariant, and the action properties follow from it
in the state before the step. That `Undoable` makes `UndoIsExact` true is the
interesting part: the two restores write different columns, and each is complete
only because the scans it serves write no others.

**The fees.** `FeesMatchOutcome` alone is not inductive either: cancelling a
courier's scan annuls the one charge named by its event and restores a row, and
the ledger must be right for that row. `FeesInv` adds, for each scan that can be
cancelled (`ScanFee`): if it charged nothing, the row it kept owes what the
present one owes; if it charged a fee, the row it kept owed neither, and that fee
is the one owed now; and if the row it kept was never picked up, nothing was ever
charged. A deducted charge that a reversal was about is in `orphan`, of charges
that still exist. The argument rests on the rows' invariant: each action is
shown to write one parcel and charges of that parcel only (`OneParcelsFees`),
then to leave that parcel's ledger right.

**The pages.** A click is a step of the lifecycle or leaves it alone, whatever
the page showed when it was loaded, so all that is proved above holds under the
pages. `CancelledNeverGoesOut` needs `CancelledInv`: a cancelled parcel is on
its way back or was never picked up, and so was the row kept by any scan that
could still be cancelled, of which none is a courier's.

**The job.** `JobInv` ties deadline and number of fees to the status, row by
row. A batch is arbitrary in it: nothing is assumed of the parcels in `due`,
which is why a stale batch cannot charge twice.

**The queue.** The invariant is about what travels. An upload, or a batch about
to be one, is `Sendable`: oldest first, and whatever its author wrote before one
of its rows and did not take back is decided already or goes before it. Its
answers are `Truthful`: each is the verdict kept, or says that the id is
another's, for which two logins were needed. Both stay true while the server
decides more and the phone writes more, however many uploads of the same rows are under
way, so an upload that decides its rows one by one can only extend the order. The
phone waits for one upload at most, of the batch it read (`AwaitInv`), and the
rows of that batch have no other answer (`Unanswered`), though they may be taken
off. `QueueDelivers` maps each
step to one of `OfflineDelivery` or to a stutter: a row written to `Write`, a
decision of the server to `Decide`, an answer recorded to `Show` (to nothing if
the row was taken off meanwhile), a row taken off to `Withdraw`, the reads,
sends and losses to nothing.

**The caisses.** `CashAtDepotWasCounted` speaks of closed caisses; `CaisseInv`
says of a closing under way that its caisse is still open, was counted against
what it read, and that its lines can only have lost some since. Each parcel at
the depot was moved by one caisse. Of the cash a livreur holds, the last Livre
scan of the parcel is his (`ScanInv`), although scans of deliveries undone may
stand before it: that scan is the one a caisse still open finds it by.

**The bons de versement.** `PaidInv`: a certificate stands only for parcels
paid, and a parcel paid has one and only one. `CarryInv` is the part that is hard
to see: of all the caisses that took out a bon, the open one is the latest, is
that of the bon's ramasseur, and has it among the handed over exactly when it is;
a caisse that is closing read the bon on the way or has it handed over. It holds
of bons that are not `ambiguous`, whose correction had only one caisse to choose,
as the properties do.

**The bons de retour.** That a return is received on one line needs no care with
crossings: the parcel's row is held by its scan, and `ScansInv` says what the
scans under way have found and still holds. Where a return is, and what a bon on
the way has left, holds only where no two transactions crossed, as
`ReturnFollowsItsBon` says: `RetourInv` therefore says of bons not `crossed` that
an item is on one of them only (`OneLineInv`), that the bon is empty exactly when
it should be (`EmptyInv`), that each line not received is where it says
(`PlaceInv`), and that what was just prepared has not left on another
(`FreshInv`): cancelling a preparation may take a return off the one bon
transactions crossed on, and it must then be where its other line says.

**From a component to its run.** `MCMoney` instantiates a component beside
others. `Money_proofs` instantiates the component's module of proofs in the same
way, shows that both instances have the same initial states, actions and
properties (the `Same...` lemmas, one action at a time), and that in a behaviour
where the component moves no other does. The pay and the components of `MCOffice`
are proved about as these modules instantiate them: `P!`, `Team!`, `Tabs2!` ...,
with the variables `v1`, `v2` ... Their inductive invariants are at the end of the
components' own modules, where TLC checked them.

**The pay.** That fiches do not share a day is about schedules that are not in
force any more: a call acts on the one it read, possibly yesterday's, while the
plan was changed, changed again, or the change withdrawn. `ScheduleInv` says what
makes all of them compatible with what was paid: for every schedule that is, or
will be, acted on, each last day of a fiche is one where no period of that
schedule goes on (`Parts`: a calendar period of the plan in force ends that day,
or that plan began later); and if the plan some call reads has a period ending
yesterday, the same holds of yesterday for every other. It is kept because a
change takes effect the day after the period current when it is asked ends, whatever
the schedule it was computed from. It needs `CallsInv`: calls under way began the
same day, and read the same plan in force while that day lasts. `HeldInv` carries
what a fiche has read to its writing: a parcel whose cash was handed in can no
more be taken back. One thing the proof made visible: a change asked on the first
day of a new plan makes `rolled` forget the plan that ended yesterday, and a fiche
prepared that day has a period that starts today and ends yesterday. It pays what
is unpaid, and is in order with the others.

**Pickups.** A parcel that left its seller is scanned at exactly one pickup,
another at none (`ScannedAtOne`): `CountsOnce` without the count, which may be
late. It is kept because a scan holds its parcel between its reads and its commit
(`ScanInv`), though not its pickup; the unique indexes do the rest. The
instances handle as many requests at once as there are addresses; as an address
may never be created, that is any number of requests for any addresses.

**Zones and accounts.** `AbsentIsReplaced` is of absences written; its invariant
is about the ones being written: whoever was found to replace somebody is
somebody else, and where nobody was found there was nobody. A deactivation is the
opposite case, where nothing is locked: `StoppedInv` says that a courier being
stopped takes no work unless he is reactivated meanwhile, and that what the check
did not see was handed to him since (`late`). That an admin remains is a fact
about cardinalities: the last of a finite set is not removed.

**Notices and chat.** While the setting stands, a deadline is that long after its
failure, so the failure's beginning is computed back exactly and the notice kept is
of this failure if and only if one was told (`WarningInv`). The invariant does not
survive a change of the setting, and neither do the properties. Of a message from
a phone the operation decides: each answer on its way is the operation's, which
says whether the message is stored (`OperationInv`). Messages from the web have no
operation: theirs holds of messages no two copies of which crossed.

**Sessions.** The argument is about time. While the session is open and nothing
failed, the window holds the last rotation; whoever presented the token before it
did so early enough to be answered from the window (`RefreshInv`: a tick each way,
three of grace), none of them is left when the new token is itself presented
(`JarInv`: the access token outlasts the grace), and one refresh at most is drawing
a token (`WindowInv`). So `findForRefresh` never meets a token already replaced. A
fault ends all this (`faults = 0` in the invariant as in the properties): with a lost
answer a copy is suspected.

**Only model-checked.**

- `ExpiredIsDecided` and `QueueEmpties`: liveness, as the prover does not treat
  fairness.
- `AmountsAddUp`: sums over sequences of rows of any length are folds, and what a
  fold computes needs an induction over data the prover cannot do.
- `TypeOK` of `MCMoney` and `MCOffice`: it is the conjunction of all their
  components' (proved, within the invariants, of the caisses, of both kinds of
  bons, of pickups, notices and chat, and in part of the others).
- `HandledOnce` and `PapersAgree`: they join properties of creation, change
  requests, the scan station, imports, files of text, documents and the phone's
  pages, each with an invariant of its own. None is proved; `CsvText` would need
  an induction over the text.

## 6. Not modelled, and the plan

Left: proofs for the components of `HandledOnce` and `PapersAgree`, about the
instances of `MCOffice` as for the others. No module declares a RECURSIVE operator.

Not modelled, and why:

- layouts of labels, slips and PDF files, wording, formatting: no state;
- lists, filters and exports: they write nothing;
- the format of each field of a form, encodings of a file, search boxes: they
  only refuse what is not well formed;
- the other screens of the web and of the phone (login and PIN, the ramasseur's
  pages, menus, earnings, settings): they show what the server decides again;
- the other reports, the other lists of the exceptions: queries of one table
  whose rows the modules above follow;
- document numbers: one row incremented by one statement;
- the order in which transactions lock two rows: PostgreSQL ends a deadlock by
  aborting one of them, whose caller sees an error and may try again;
- the public site, seeds, translations: content.

The definitions cover about 18 % of the lines of code. Most of the rest is
what this list names: components that lay out data, types and texts (over a
third of the repository is `apps/web`), request validation, seeds and PDF
drawing. What is left among the services are lists and forms beside the
transactions modelled here.
