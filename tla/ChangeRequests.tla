---------------------------- MODULE ChangeRequests -----------------------------
(***************************************************************************)
(* What a parcel says of its customer, who changes it, and its label: the     *)
(* seller's forms (Modifier, Relancer, Changer de client), his change         *)
(* requests (Demander une modification) applied or refused by the team, and    *)
(* the label printed again at the depot.                                     *)
(*                                                                          *)
(* A form is filled on a page loaded before it is sent, and several are open *)
(* at once (the seller's tabs); the team's list is loaded before Appliquer.   *)
(* All these transactions hold the parcel's row and are one step.  Printing   *)
(* is not: the label is drawn from a row read before the flag is cleared.     *)
(*                                                                          *)
(* Three fields stand for the form's: the telephone is printed and any form   *)
(* changes it, the localite is printed and Relancer does not, the note is not *)
(* printed and no request carries it.                                        *)
(***************************************************************************)
EXTENDS Integers, FiniteSets

CONSTANTS
  Requests,    \* seller_change_requests
  Tabs,        \* the seller's open pages
  Values,      \* what a field may say; for the localite, the localites
  None,
  MaxCustomers, \* maxClientChanges, and the first customer
  MaxMoves     \* bound: writes to the parcel, its requests and the localites

Fields == {"telephone", "localite", "note"}
PARCEL_LABEL_FIELDS == {"telephone", "localite"}
CHANGE_REQUEST_FIELDS == {"telephone", "localite"}
RELANCER_CORRECTION_FIELDS == {"telephone", "note"}

(* The status, as far as the forms tell statuses apart: EN_COURS is Ramasse,  *)
(* Au depot or En livraison; FINI is delivered, cancelled or a return.        *)
Statuses == {"CREE", "EN_COURS", "A_VERIFIER", "RELANCE", "FINI"}

VARIABLES
  parcel,      \* its row: status, whether its location is the depot, customer,
               \*   fields, labelReprintNeeded
  request,     \* the change requests: status, what they ask (None: not asked),
               \*   the customer the parcel had when they were last written
  closed,      \* the localites deactivated
  form,        \* per tab, the open form: its kind, the request it edits, the
               \*   customer and the fields its page shows
  team,        \* the request on the team's page, or None
  label,       \* what the label on the parcel says
  printing,    \* a reprint under way: the fields it read, and (history) whether a
               \*   printed one changed since; or None
  overtaken,   \* history: one had changed when the last reprint cleared the mark
  moves

vars == <<parcel, request, closed, form, team, label, printing, overtaken, moves>>

NoRequest == [status |-> "NONE", asks |-> [f \in CHANGE_REQUEST_FIELDS |-> None], customer |-> 0]

TypeOK ==
  /\ parcel \in [status: Statuses, atDepot: BOOLEAN, customer: 1..MaxCustomers,
                 fields: [Fields -> Values], labelReprintNeeded: BOOLEAN]
  /\ request \in [Requests ->
       [status: {"NONE", "EN_ATTENTE", "APPLIQUEE", "REFUSEE", "RETIREE"},
        asks: [CHANGE_REQUEST_FIELDS -> Values \union {None}], customer: 0..MaxCustomers]]
  /\ closed \subseteq Values
  /\ form \in [Tabs -> {None} \union
       [kind: {"modifier", "relancer", "client", "demande", "modifier-demande"},
        request: Requests \union {None}, customer: 1..MaxCustomers, seen: [Fields -> Values]]]
  /\ team \in Requests \union {None}
  /\ label \in [PARCEL_LABEL_FIELDS -> Values]
  /\ printing \in [fields: [PARCEL_LABEL_FIELDS -> Values], missed: BOOLEAN] \union {None}
  /\ overtaken \in BOOLEAN
  /\ moves \in 0..MaxMoves

(* A parcel just created, or one come back to the depot from its first tour, *)
(* as its seller first described it.                                        *)
Init ==
  /\ \E v \in Values, status \in {"CREE", "A_VERIFIER"} :
       /\ parcel = [status |-> status, atDepot |-> status = "A_VERIFIER", customer |-> 1,
                    fields |-> [f \in Fields |-> v], labelReprintNeeded |-> FALSE]
       /\ label = [f \in PARCEL_LABEL_FIELDS |-> v]
  /\ request = [r \in Requests |-> NoRequest]
  /\ closed = {}
  /\ form = [t \in Tabs |-> None]
  /\ team = None
  /\ printing = None
  /\ overtaken = FALSE
  /\ moves = 0

-----------------------------------------------------------------------------

CanRequestChange(status) == status \in {"EN_COURS", "A_VERIFIER", "RELANCE"}
CanChangeClient ==
  parcel.status \in {"A_VERIFIER", "RELANCE"} /\ parcel.atDepot /\ parcel.customer < MaxCustomers
LabelNeedsReprint(changed) == changed \intersect PARCEL_LABEL_FIELDS # {}
Counted == moves < MaxMoves /\ moves' = moves + 1
Waiting == {r \in Requests : request[r].status = "EN_ATTENTE"}
Printed(fields) == [f \in PARCEL_LABEL_FIELDS |-> fields[f]]
Merge(fields, changed, typed) == [f \in Fields |-> IF f \in changed THEN typed[f] ELSE fields[f]]
Asked(r) == {f \in CHANGE_REQUEST_FIELDS : request[r].asks[f] # None}

(* A reprint that has read the row misses a printed field written now. *)
Overtakes(fields) ==
  printing' = IF printing # None /\ Printed(fields) # Printed(parcel.fields)
                THEN [printing EXCEPT !.missed = TRUE] ELSE printing

(* Only what the seller changed is sent: typed against what the page shows. *)
ChangesOf(t, typed) == {f \in Fields : typed[f] # form[t].seen[f]}

-----------------------------------------------------------------------------
(* The seller's page.                                                        *)

(* A form opens where its button shows: one waiting request is edited, not    *)
(* joined by another.                                                        *)
OpenForm(t, kind) ==
  /\ form[t] = None
  /\ CASE kind = "modifier" -> parcel.status = "CREE"
       [] kind = "relancer" -> parcel.status = "A_VERIFIER"
       [] kind = "client" -> CanChangeClient
       [] kind = "demande" -> CanRequestChange(parcel.status) /\ Waiting = {}
       [] kind = "modifier-demande" -> Waiting # {}
  /\ \E r \in Waiting \union {None} :
       /\ (kind = "modifier-demande") = (r # None)
       /\ form' = [form EXCEPT ![t] = [kind |-> kind, request |-> r,
                                       customer |-> parcel.customer, seen |-> parcel.fields]]
  /\ UNCHANGED <<parcel, request, closed, team, label, printing, overtaken, moves>>

(* Closed, or refused and then closed: a refusal writes nothing. *)
CloseForm(t) ==
  /\ form[t] # None
  /\ form' = [form EXCEPT ![t] = None]
  /\ UNCHANGED <<parcel, request, closed, team, label, printing, overtaken, moves>>

Sent(t, kind) == form[t] # None /\ form[t].kind = kind /\ form' = [form EXCEPT ![t] = None]

(* Before pickup the label is the seller's: the answer tells him to print it  *)
(* again (reprintLabel), nothing is marked on the parcel.                    *)
Modifier(t, typed) ==
  /\ Sent(t, "modifier")
  /\ parcel.status = "CREE"
  /\ LET changed == ChangesOf(t, typed)
         next == Merge(parcel.fields, changed, typed)
     IN  /\ next # parcel.fields
         /\ next.localite # parcel.fields.localite => next.localite \notin closed
         /\ parcel' = [parcel EXCEPT !.fields = next]
         /\ Overtakes(next)
  /\ Counted
  /\ UNCHANGED <<request, closed, team, label, overtaken>>

(* Refused too at the last attempt, which writes nothing. *)
Relancer(t, typed) ==
  /\ Sent(t, "relancer")
  /\ parcel.status = "A_VERIFIER"
  /\ LET changed == ChangesOf(t, typed) \intersect RELANCER_CORRECTION_FIELDS
         next == Merge(parcel.fields, changed, typed)
         written == {f \in changed : next[f] # parcel.fields[f]}
     IN  /\ parcel' = [parcel EXCEPT !.status = "RELANCE", !.fields = next,
                         !.labelReprintNeeded = @ \/ LabelNeedsReprint(written)]
         /\ Overtakes(next)
  /\ Counted
  /\ UNCHANGED <<request, closed, team, label, overtaken>>

Withdrawn(r) == IF request[r].status = "EN_ATTENTE" THEN [request[r] EXCEPT !.status = "RETIREE"]
                ELSE request[r]

ChangerClient(t, typed) ==
  /\ Sent(t, "client")
  /\ CanChangeClient
  /\ typed.localite \notin closed
  /\ parcel' = [parcel EXCEPT !.status = "RELANCE", !.customer = @ + 1, !.fields = typed,
                  !.labelReprintNeeded = TRUE]
  /\ request' = [r \in Requests |-> Withdrawn(r)]
  /\ Overtakes(typed)
  /\ Counted
  /\ UNCHANGED <<closed, team, label, overtaken>>

Contents == {c \in [CHANGE_REQUEST_FIELDS -> Values \union {None}] :
               /\ \E f \in CHANGE_REQUEST_FIELDS : c[f] # None
               /\ c.localite \notin closed}

RequestChange(t, asks) ==
  /\ Sent(t, "demande")
  /\ CanRequestChange(parcel.status)
  /\ Waiting = {}
  /\ \E r \in Requests :
       /\ request[r].status = "NONE"
       /\ request' = [request EXCEPT ![r] = [status |-> "EN_ATTENTE", asks |-> asks,
                                             customer |-> parcel.customer]]
  /\ Counted
  /\ UNCHANGED <<parcel, closed, team, label, printing, overtaken>>

EditChangeRequest(t, asks) ==
  /\ Sent(t, "modifier-demande")
  /\ LET r == form[t].request IN
       /\ request[r].status = "EN_ATTENTE"
       /\ CanRequestChange(parcel.status)
       /\ request' = [request EXCEPT ![r].asks = asks, ![r].customer = parcel.customer]
  /\ Counted
  /\ UNCHANGED <<parcel, closed, team, label, printing, overtaken>>

WithdrawChangeRequest(t) ==
  /\ Sent(t, "modifier-demande")
  /\ request[form[t].request].status = "EN_ATTENTE"
  /\ request' = [request EXCEPT ![form[t].request].status = "RETIREE"]
  /\ Counted
  /\ UNCHANGED <<parcel, closed, team, label, printing, overtaken>>

-----------------------------------------------------------------------------
(* The team: its list of waiting requests, loaded before a button is clicked. *)

TeamLoads(r) ==
  /\ team = None
  /\ request[r].status = "EN_ATTENTE"
  /\ team' = r
  /\ UNCHANGED <<parcel, request, closed, form, label, printing, overtaken, moves>>

ApplyRefusal(r) ==
  \/ ~CanRequestChange(parcel.status)
  \/ request[r].asks.localite # None /\ ~parcel.atDepot

(* The localite is looked up only if it changes. *)
Apply ==
  /\ team # None
  /\ request[team].status = "EN_ATTENTE"
  /\ ~ApplyRefusal(team)
  /\ LET asks == request[team].asks
         next == Merge(parcel.fields, Asked(team), asks)
         written == {f \in Fields : next[f] # parcel.fields[f]}
     IN  /\ "localite" \in written => next.localite \notin closed
         /\ parcel' = [parcel EXCEPT !.fields = next,
                         !.labelReprintNeeded = @ \/ LabelNeedsReprint(written)]
         /\ Overtakes(next)
  /\ request' = [request EXCEPT ![team].status = "APPLIQUEE"]
  /\ team' = None
  /\ Counted
  /\ UNCHANGED <<closed, form, label, overtaken>>

Refuse ==
  /\ team # None
  /\ request[team].status = "EN_ATTENTE"
  /\ request' = [request EXCEPT ![team].status = "REFUSEE"]
  /\ team' = None
  /\ Counted
  /\ UNCHANGED <<parcel, closed, form, label, printing, overtaken>>

(* Leaving the page, or a click refused: "deja ete traitee". *)
TeamLeaves ==
  /\ team # None
  /\ team' = None
  /\ UNCHANGED <<parcel, request, closed, form, label, printing, overtaken, moves>>

-----------------------------------------------------------------------------
(* Reimprimer l'etiquette: the row, the PDF, and then the flag.              *)

ReprintReads ==
  /\ printing = None
  /\ parcel.status # "CREE"
  /\ printing' = [fields |-> Printed(parcel.fields), missed |-> FALSE]
  /\ UNCHANGED <<parcel, request, closed, form, team, label, overtaken, moves>>

ReprintClears ==
  /\ printing # None
  /\ label' = printing.fields
  /\ overtaken' = printing.missed
  /\ parcel' = [parcel EXCEPT !.labelReprintNeeded = FALSE]
  /\ printing' = None
  /\ UNCHANGED <<request, closed, form, team, moves>>

(* The PDF fails: the mark stays. *)
ReprintFails ==
  /\ printing # None
  /\ printing' = None
  /\ UNCHANGED <<parcel, request, closed, form, team, label, overtaken, moves>>

-----------------------------------------------------------------------------
(* Everything else that moves the parcel (ParcelLifecycle) and the localites.  *)

(* At pickup the parcel carries the label its seller printed, again after each   *)
(* Modifier as the answer asks him: assumed, no code sees it.                  *)
Ramassage ==
  /\ parcel.status = "CREE"
  /\ parcel' = [parcel EXCEPT !.status = "EN_COURS"]
  /\ label' = Printed(parcel.fields)
  /\ Counted
  /\ UNCHANGED <<request, closed, form, team, printing, overtaken>>

Move(status, atDepot) ==
  /\ parcel.status # "CREE"
  /\ parcel' = [parcel EXCEPT !.status = status, !.atDepot = atDepot]
  /\ Counted
  /\ UNCHANGED <<request, closed, form, team, label, printing, overtaken>>

SwitchLocalite(v) ==
  /\ closed' = IF v \in closed THEN closed \ {v} ELSE closed \union {v}
  /\ Counted
  /\ UNCHANGED <<parcel, request, form, team, label, printing, overtaken>>

SellerStep(t) ==
  \/ \E kind \in {"modifier", "relancer", "client", "demande", "modifier-demande"} : OpenForm(t, kind)
  \/ CloseForm(t)
  \/ \E typed \in [Fields -> Values] : Modifier(t, typed) \/ Relancer(t, typed) \/ ChangerClient(t, typed)
  \/ \E asks \in Contents : RequestChange(t, asks) \/ EditChangeRequest(t, asks)
  \/ WithdrawChangeRequest(t)

Next ==
  \/ \E t \in Tabs : SellerStep(t)
  \/ \E r \in Requests : TeamLoads(r)
  \/ Apply \/ Refuse \/ TeamLeaves
  \/ ReprintReads \/ ReprintClears \/ ReprintFails
  \/ Ramassage
  \/ \E status \in Statuses \ {"CREE"}, atDepot \in BOOLEAN : Move(status, atDepot)
  \/ \E v \in Values : SwitchLocalite(v)

Spec == Init /\ [][Next]_vars

-----------------------------------------------------------------------------

(* "A request filed for the old customer must never be applied to the new     *)
(* one" (D-72), as the server can know it: a waiting request was last written *)
(* while the parcel had the customer it has now, and at most one waits.       *)
WaitsForItsCustomer ==
  /\ Cardinality(Waiting) <= 1
  /\ \A r \in Waiting : request[r].customer = parcel.customer

(* "The new label carries what was changed: nothing left to reprint" (D-57):  *)
(* once picked up, a parcel whose label says something else is marked, unless *)
(* the change was written while its last label was being drawn.              *)
StaleLabelIsMarked ==
  parcel.status # "CREE" /\ ~overtaken /\ ~parcel.labelReprintNeeded
    => label = Printed(parcel.fields)

(* A request is settled once: applied, refused or withdrawn, it changes no     *)
(* more, whatever pages still show it waiting.                               *)
SettledOnce ==
  \A r \in Requests :
    request[r].status \in {"APPLIQUEE", "REFUSEE", "RETIREE"} => request'[r] = request[r]

(* "Only what the seller changed is sent": a form sent from an old page never *)
(* puts back a value that page shows and somebody has changed since.          *)
NothingPutBack ==
  \A t \in Tabs :
    form[t] # None /\ form'[t] = None /\ form[t].kind \in {"modifier", "relancer"} =>
      \A f \in Fields : parcel'.fields[f] # parcel.fields[f] => parcel'.fields[f] # form[t].seen[f]

RequestsAreHandled == [][SettledOnce /\ NothingPutBack]_vars

(* Not so: "cleared when staff reprint the label" (D-57), and then nothing is *)
(* left to reprint.  A change written while the PDF is drawn loses its mark.  *)
ReprintIsCurrent ==
  parcel.status # "CREE" /\ ~parcel.labelReprintNeeded
    => label = Printed(parcel.fields)

(* Not so: the customer the seller had before him is not sent with a request. *)
(* Filed from a page loaded before Changer de client, it is the new one's.    *)
FiledFromItsPage ==
  [][\A t \in Tabs :
       form[t] # None /\ form[t].kind = "demande" /\ request' # request /\ form'[t] = None
         => form[t].customer = parcel.customer]_vars
================================================================================
