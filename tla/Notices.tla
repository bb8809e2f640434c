------------------------------- MODULE Notices -------------------------------
(***************************************************************************)
(* The notices nobody's action sets off (notices.job.ts, on                  *)
(* notifications.service.ts): "plus que 24 h" on a parcel to verify, the      *)
(* relances of the day, the reminder before couriers go home, a pay coming    *)
(* due.  Each is sent once: the notification already stored is the memory, and *)
(* passedOn, lost at a restart, only spares the looking.                     *)
(*                                                                          *)
(* Time goes in units of twelve hours, and does not move during a pass, which *)
(* takes less than the minute between two ticks.                             *)
(***************************************************************************)
EXTENDS Integers, FiniteSets

CONSTANTS Parcels, Couriers,
          Name,       \* of a courier, as the pay notice carries it
          Settings,   \* verify_deadline_hours, in units
          MaxTime,    \* bound
          MaxChanges, \* bound: changes of that setting
          MaxCrashes, \* bound: restarts of the server and failed passes
          MaxMoves    \* bound: what is left to tell changes that often

\* What the module assumes of its constants.
NoticesAssumption ==
  /\ Settings # {} /\ Settings \subseteq Nat \ {0} /\ MaxTime \in Nat
  /\ {MaxChanges, MaxCrashes, MaxMoves} \subseteq Nat /\ Name \in [Couriers -> STRING]

VERIFY_WARNING_HOURS == 2 \* 24 hours

Daily  == {"RELANCES", "FIN_DE_JOURNEE", "PAIE"}
Passes == Daily \cup {"VERIFIER"}

(* failedAt and warned are history: the start of the failure, and how many     *)
(* notices it was given.  notice is the instant of the latest one stored.     *)
Parcel == [toVerify: BOOLEAN, deadline: Int, failedAt: Int, warned: 0..2, notice: Int]

VARIABLES
  now,
  hours,    \* the setting
  parcel,
  todo,     \* for each daily pass, the couriers there is something to tell about
  stored,   \* today's notices: pass, the courier or his name
  told,     \* history: how often each courier was told today
  passedOn, \* the daily passes already done today
  pass,     \* the pass under way, whom it has still to look at
  changes, crashes, moves

vars == <<now, hours, parcel, todo, stored, told, passedOn, pass, changes, crashes, moves>>

TypeOK ==
  /\ now \in 0..MaxTime /\ hours \in Settings /\ parcel \in [Parcels -> Parcel]
  /\ todo \in [Daily -> SUBSET Couriers] /\ told \in [Daily \X Couriers -> 0..2]
  /\ passedOn \subseteq Daily
  /\ pass \in [name: Passes \cup {"IDLE"}, left: SUBSET (Parcels \cup Couriers)]
  /\ changes \in 0..MaxChanges /\ crashes \in 0..MaxCrashes /\ moves \in 0..MaxMoves

Idle == [name |-> "IDLE", left |-> {}]

Init ==
  /\ now = 0 /\ hours \in Settings
  /\ parcel = [p \in Parcels |-> [toVerify |-> FALSE, deadline |-> -1, failedAt |-> -1,
                                  warned |-> 0, notice |-> -1]]
  /\ todo \in [Daily -> {{}, Couriers}] /\ stored = {} /\ told = [x \in Daily \X Couriers |-> 0]
  /\ passedOn = {} /\ pass = Idle /\ changes = 0 /\ crashes = 0 /\ moves = 0

-----------------------------------------------------------------------------
(* What happens meanwhile *)

\* A day is two units: its notices are of another day, and so is passedOn.
Tick ==
  /\ pass = Idle /\ now < MaxTime /\ now' = now + 1
  /\ IF now' % 2 = 0
     THEN stored' = {} /\ told' = [x \in Daily \X Couriers |-> 0] /\ passedOn' = {}
     ELSE UNCHANGED <<stored, told, passedOn>>
  /\ UNCHANGED <<hours, parcel, todo, pass, changes, crashes, moves>>

\* A failed attempt, later than the one before.
Fail(p) ==
  /\ ~parcel[p].toVerify /\ now > parcel[p].failedAt /\ now > parcel[p].notice
  /\ parcel' = [parcel EXCEPT ![p] = [toVerify |-> TRUE, deadline |-> now + hours, failedAt |-> now,
                                     warned |-> 0, notice |-> @.notice]]
  /\ UNCHANGED <<now, hours, todo, stored, told, passedOn, pass, changes, crashes, moves>>

\* Decided by the seller, returned by the 48-hour job, the scan cancelled.
Decide(p) ==
  /\ parcel[p].toVerify /\ parcel' = [parcel EXCEPT ![p].toVerify = FALSE]
  /\ UNCHANGED <<now, hours, todo, stored, told, passedOn, pass, changes, crashes, moves>>

\* settings.update: a deadline already set keeps its date.
ChangeSetting(h) ==
  /\ changes < MaxChanges /\ h # hours /\ hours' = h /\ changes' = changes + 1
  /\ UNCHANGED <<now, parcel, todo, stored, told, passedOn, pass, crashes, moves>>

\* Parcels relanced, carried or brought back, cash counted, a caisse closed.
Move(d, c) ==
  /\ moves < MaxMoves /\ moves' = moves + 1
  /\ todo' = [todo EXCEPT ![d] = IF c \in @ THEN @ \ {c} ELSE @ \cup {c}]
  /\ UNCHANGED <<now, hours, parcel, stored, told, passedOn, pass, changes, crashes>>

-----------------------------------------------------------------------------
(* The job *)

\* In its window at the start of the pass.
near == {p \in Parcels : parcel[p].toVerify /\ parcel[p].deadline > now
                           /\ parcel[p].deadline <= now + VERIFY_WARNING_HOURS}

\* isDailyNoticeDue: the reminder in the second half of the day, the others all day.
due(d) == d \notin passedOn /\ (d = "FIN_DE_JOURNEE" => now % 2 = 1)

\* tick: a new pass only when none is running; the reminder looks at every courier.
Start(name) ==
  /\ pass = Idle /\ (name \in Daily => due(name))
  /\ pass' = [name |-> name, left |-> CASE name = "VERIFIER" -> near
                                        [] name = "FIN_DE_JOURNEE" -> Couriers
                                        [] OTHER -> todo[name]]
  /\ UNCHANGED <<now, hours, parcel, todo, stored, told, passedOn, changes, crashes, moves>>

Looked(x) == pass' = [pass EXCEPT !.left = @ \ {x}]

\* The failure this deadline belongs to began one deadline ago.
since(p) == parcel[p].deadline - hours

\* Mutant of already: any earlier warning of the parcel counts.
alreadyEver(p) == parcel[p].notice >= 0

already(p) == parcel[p].notice >= since(p)

Two(n) == IF n < 2 THEN n + 1 ELSE 2

\* The seller and the team, in one transaction; the parcel is not read again.
Warn(p) ==
  /\ pass.name = "VERIFIER" /\ p \in pass.left /\ Looked(p)
  /\ parcel' = IF already(p) THEN parcel
               ELSE [parcel EXCEPT ![p].notice = now, ![p].warned = Two(@)]
  /\ UNCHANGED <<now, hours, todo, stored, told, passedOn, changes, crashes, moves>>

\* A pay notice carries a name and is for the team; the others are the courier's own.
Key(d, c) == IF d = "PAIE" THEN <<d, Name[c]>> ELSE <<d, c>>

\* Mutant of hasNotice: passedOn is trusted alone.
hasNoticeNever(d, c) == FALSE

hasNotice(d, c) == Key(d, c) \in stored

Tell(c) ==
  LET d == pass.name IN
  /\ d \in Daily /\ c \in pass.left /\ Looked(c)
  /\ IF hasNotice(d, c) \/ (d = "FIN_DE_JOURNEE" /\ c \notin todo[d])
     THEN UNCHANGED <<stored, told>>
     ELSE stored' = stored \cup {Key(d, c)} /\ told' = [told EXCEPT ![<<d, c>>] = Two(@)]
  /\ UNCHANGED <<now, hours, parcel, todo, passedOn, changes, crashes, moves>>

\* A daily pass that looked at everybody is done for the day.
Finish ==
  /\ pass # Idle /\ pass.left = {} /\ pass' = Idle
  /\ passedOn' = (IF pass.name \in Daily THEN passedOn \cup {pass.name} ELSE passedOn)
  /\ UNCHANGED <<now, hours, parcel, todo, stored, told, changes, crashes, moves>>

\* An error ends the pass; the next tick looks again.
FailPass ==
  /\ pass # Idle /\ crashes < MaxCrashes /\ crashes' = crashes + 1 /\ pass' = Idle
  /\ UNCHANGED <<now, hours, parcel, todo, stored, told, passedOn, changes, moves>>

Restart ==
  /\ crashes < MaxCrashes /\ crashes' = crashes + 1 /\ pass' = Idle /\ passedOn' = {}
  /\ UNCHANGED <<now, hours, parcel, todo, stored, told, changes, moves>>

-----------------------------------------------------------------------------
Next ==
  \/ Tick
  \/ \E p \in Parcels : Fail(p) \/ Decide(p) \/ Warn(p)
  \/ \E h \in Settings : ChangeSetting(h)
  \/ \E c \in Couriers : Tell(c) \/ \E d \in Daily : Move(d, c)
  \/ \E name \in Passes : Start(name)
  \/ Finish \/ FailPass \/ Restart

Spec == Init /\ [][Next]_vars

-----------------------------------------------------------------------------
(* Properties *)

(* "Each one is sent once, however often the job looks": one warning for a     *)
(* failure of a parcel.  Not so once verify_deadline_hours was changed.        *)
WarnedOncePerFailure == \A p \in Parcels : parcel[p].warned <= 1

(* A pass over the failed parcels leaves none of those near their deadline      *)
(* without its warning, whatever an earlier failure of the parcel was told.    *)
(* Not so either once the setting was changed.                               *)
NearIsWarned ==
  pass.name = "VERIFIER" => \A p \in near : p \in pass.left \/ parcel[p].warned > 0
                                              \/ parcel[p].failedAt = now

(* The daily notices: a restart, or a pass that failed half-way, repeats none.   *)
ToldOncePerDay == \A x \in Daily \X Couriers : told[x] <= 1

(* Whose pay is due is told to the team once the day's pass is over.  Not so     *)
(* when two couriers share a name.                                           *)
EveryPayIsTold ==
  pass.name = "PAIE" => \A c \in todo["PAIE"] : c \in pass.left \/ told["PAIE", c] > 0


-----------------------------------------------------------------------------
(* The inductive invariant of WarnedOncePerFailure, NearIsWarned, ToldOncePerDay *)

(* While the setting stands a deadline is that long after its failure, and the    *)
(* notice stored is of this failure exactly when it was warned of.             *)
WarningInv ==
  changes = 0 => \A p \in Parcels :
    LET x == parcel[p] IN
    \/ x.failedAt = -1 /\ x.deadline = -1 /\ x.notice = -1 /\ x.warned = 0
    \/ /\ x.deadline = x.failedAt + hours /\ x.failedAt <= now /\ x.warned <= 1
       /\ x.warned > 0 <=> x.notice >= x.failedAt

\* Whoever was told something today, the notice of it is stored.
StoredInv == \A d \in Daily, c \in Couriers : told[d, c] > 0 => hasNotice(d, c)

NoticesInv ==
  /\ TypeOK /\ WarningInv /\ StoredInv /\ ToldOncePerDay
  /\ changes = 0 => NearIsWarned
=============================================================================
