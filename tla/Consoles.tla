------------------------------ MODULE Consoles ------------------------------
(***************************************************************************)
(* The two pages that act on shipments: the seller's dashboard, which lists  *)
(* and cancels, and the partner's update form.  Both show a copy of what the  *)
(* API answered some time ago.  The API is one step here (ShipmentLifecycle   *)
(* is its inside); the form's requests are too, as what it shows is as old    *)
(* before it is sent as while it is on its way.                               *)
(***************************************************************************)
EXTENDS Integers, FiniteSets

CONSTANTS
  Shipments,
  Call,      \* bound: requests the dashboard has outstanding at the same time
  Days, Picks,  \* bound: the days and the statuses a partner picks
  Handled,   \* bound: the shipments whose partner uses the form
  Offsets,   \* hours the clocks of partners are ahead of the server's
  Earliest,  \* bound: the first day that is saved
  None

ASSUME OffsetAssumption == Offsets \subseteq -12..14 /\ Earliest \in Nat

VARIABLES
  row,        \* the API's shipments: status and estimated delivery, in hours
  list, loading, error, cancelling,  \* SellerDashboard's state
  call,       \* its requests
  refused,    \* history: shipments whose cancel came too late for the API
  crowded,    \* history: two requests were outstanding at the same time
  form,       \* the partner's form, None while the page is closed
  touched     \* history: what the partner filled in since it loaded or saved

dashboard == <<list, loading, error, cancelling, call, refused, crowded>>
vars == <<row, dashboard, form, touched>>

PARTNER_SETTABLE == {"in_transit", "out_for_delivery", "delivered", "cancelled"}

Statuses == PARTNER_SETTABLE \cup {"placed"}

ASSUME PicksAssumption == Days \subseteq Nat /\ Picks \subseteq PARTNER_SETTABLE

ASSUME HandledAssumption == Handled \subseteq Shipments

CanCancel(status) == status \notin {"delivered", "cancelled"}

\* The day an instant falls on, on a clock ...
AsDay(hours, offset) == (hours + offset) \div 24

\* ... and midnight of a day, without a zone: the server takes it as its own.
AsDateTime(day) == 24 * day

Calls == [op : {"list", "cancel"}, id : Shipments \cup {None},
          handler : BOOLEAN,   \* sent by handleCancel, which ends with it
          at : {"sent", "answered", "refused", "failed"},
          saw : [Shipments -> Statuses] \cup {None}]

ASSUME NoneAssumption == None \notin Calls

Ask(op, id, handler) ==
  [op |-> op, id |-> id, handler |-> handler, at |-> "sent", saw |-> None]

Shown == [s \in Shipments |-> row[s].status]

Init ==
  /\ row = [s \in Shipments |-> [status |-> "placed", due |-> 24 * 3 + 22]]
  /\ list = None /\ loading = TRUE /\ error = FALSE /\ cancelling = None
  /\ call = [c \in Call |-> None]
  /\ refused = {} /\ crowded = FALSE
  /\ form = None /\ touched = {}

-----------------------------------------------------------------------------
(* The seller's dashboard *)

Send(c, what) ==
  /\ call[c] = None /\ call' = [call EXCEPT ![c] = what]
  /\ crowded' = (crowded \/ \E d \in Call : call[d] # None)

Mount(c) ==
  /\ loading /\ \A d \in Call : call[d] = None
  /\ Send(c, Ask("list", None, FALSE))
  /\ UNCHANGED <<row, list, loading, error, cancelling, refused, form, touched>>

Retry(c) ==
  /\ error /\ ~loading
  /\ Send(c, Ask("list", None, FALSE))
  /\ UNCHANGED <<row, list, loading, error, cancelling, refused, form, touched>>

Cancel(c) == \E s \in Shipments :
  /\ ~loading /\ ~error /\ list # None
  /\ CanCancel(list[s]) /\ cancelling # s
  /\ cancelling' = s
  /\ Send(c, Ask("cancel", s, TRUE))
  /\ UNCHANGED <<row, list, loading, error, refused, form, touched>>

Reply(c, how, saw) == call' = [call EXCEPT ![c].at = how, ![c].saw = saw]

ServeList(c) ==
  /\ call[c] # None /\ call[c].op = "list" /\ call[c].at = "sent"
  /\ Reply(c, "answered", Shown)
  /\ UNCHANGED <<row, list, loading, error, cancelling, refused, crowded, form, touched>>

ServeCancel(c) ==
  /\ call[c] # None /\ call[c].op = "cancel" /\ call[c].at = "sent"
  /\ IF row[call[c].id].status \in {"delivered", "cancelled"}
     THEN /\ Reply(c, "refused", None)
          /\ refused' = refused \cup {call[c].id} /\ UNCHANGED row
     ELSE /\ Reply(c, "answered", None)
          /\ row' = [row EXCEPT ![call[c].id].status = "cancelled"]
          /\ UNCHANGED refused
  /\ UNCHANGED <<list, loading, error, cancelling, crowded, form, touched>>

\* The request does not arrive, or its answer does not.
Lose(c) ==
  /\ call[c] # None /\ call[c].at \in {"sent", "answered"}
  /\ Reply(c, "failed", None)
  /\ UNCHANGED <<row, list, loading, error, cancelling, refused, crowded, form, touched>>

\* Mutant: a cancel is taken for done without reading the list again.
Cancelled_NoReload(c) ==
  /\ call[c] # None /\ call[c].op = "cancel" /\ call[c].at = "answered"
  /\ call' = [call EXCEPT ![c] = None]
  /\ cancelling' = None
  /\ UNCHANGED <<row, list, loading, error, refused, crowded, form, touched>>

Cancelled(c) ==
  /\ call[c] # None /\ call[c].op = "cancel" /\ call[c].at = "answered"
  /\ call' = [call EXCEPT ![c] = Ask("list", None, TRUE)]
  /\ UNCHANGED <<row, list, loading, error, cancelling, refused, crowded, form, touched>>

\* Mutant: only a cancel that went well frees its button.
CancelFailed_Busy(c) ==
  /\ call[c] # None /\ call[c].op = "cancel" /\ call[c].at \in {"refused", "failed"}
  /\ call' = [call EXCEPT ![c] = None]
  /\ error' = TRUE
  /\ UNCHANGED <<row, list, loading, cancelling, refused, crowded, form, touched>>

CancelFailed(c) ==
  /\ call[c] # None /\ call[c].op = "cancel" /\ call[c].at \in {"refused", "failed"}
  /\ call' = [call EXCEPT ![c] = None]
  /\ error' = TRUE /\ cancelling' = None
  /\ UNCHANGED <<row, list, loading, refused, crowded, form, touched>>

Loaded(c) ==
  /\ call[c] # None /\ call[c].op = "list" /\ call[c].at \in {"answered", "failed"}
  /\ call' = [call EXCEPT ![c] = None]
  /\ list' = IF call[c].at = "answered" THEN call[c].saw ELSE list
  /\ error' = (call[c].at = "failed")
  /\ loading' = FALSE
  /\ cancelling' = IF call[c].handler THEN None ELSE cancelling
  /\ UNCHANGED <<row, refused, crowded, form, touched>>

-----------------------------------------------------------------------------
(* The partner's update form *)

\* Mutant: the day is read off the date in UTC, as toISOString gives it.
Prefill_Utc(s, offset) ==
  [id |-> s, offset |-> offset,
   status |-> IF row[s].status \in PARTNER_SETTABLE THEN row[s].status ELSE "in_transit",
   day |-> row[s].due \div 24]

\* "placed" is not on offer, so the form starts from the first status that is.
Prefill(s, offset) ==
  [id |-> s, offset |-> offset,
   status |-> IF row[s].status \in PARTNER_SETTABLE THEN row[s].status ELSE "in_transit",
   day |-> AsDay(row[s].due, offset)]

\* On any of the partner's devices, wherever it is.
OpenForm(s) == \E offset \in Offsets :
  /\ s \in Handled
  /\ form' = Prefill(s, offset) /\ touched' = {}
  /\ UNCHANGED <<row, dashboard>>

PickStatus == \E st \in Picks :
  /\ form # None
  /\ form' = [form EXCEPT !.status = st]
  /\ touched' = touched \cup {"status"}
  /\ UNCHANGED <<row, dashboard>>

\* An empty date is not sent.
PickDay == \E d \in Days \cup {None} :
  /\ form # None
  /\ form' = [form EXCEPT !.day = d]
  /\ touched' = touched \cup {"day"}
  /\ UNCHANGED <<row, dashboard>>

\* Status and date are sent as the form holds them.  A delivery may be refused
\* for its code, and any save may fail: the form then stays as it is.
Save ==
  /\ form # None /\ (form.day # None => form.day >= Earliest)
  /\ row' = [row EXCEPT ![form.id] = [status |-> form.status,
       due |-> IF form.day = None THEN @.due ELSE AsDateTime(form.day)]]
  /\ touched' = {}
  /\ UNCHANGED <<dashboard, form>>

Leave ==
  /\ form # None
  /\ form' = None /\ touched' = {}
  /\ UNCHANGED <<row, dashboard>>

Next ==
  \/ \E c \in Call : Mount(c) \/ Retry(c) \/ Cancel(c) \/ ServeList(c) \/ ServeCancel(c)
                     \/ Lose(c) \/ Cancelled(c) \/ CancelFailed(c) \/ Loaded(c)
  \/ \E s \in Shipments : OpenForm(s)
  \/ PickStatus \/ PickDay \/ Save \/ Leave

Spec == Init /\ [][Next]_vars

\* A request is answered or fails, and the page handles what comes of it.
FairSpec == Spec /\ \A c \in Call :
  WF_vars(ServeList(c) \/ ServeCancel(c) \/ Lose(c) \/ Cancelled(c) \/ CancelFailed(c) \/ Loaded(c))

-----------------------------------------------------------------------------
(* Properties *)

\* "delivered/cancelled shipments can't be cancelled again"
\* (SellerDashboard.jsx:28): no cancel is offered that the API then refuses as
\* coming too late, but for shipments whose partner is at work.
CancelsInTime == refused \subseteq Handled

\* "refetch, not patch" (SellerDashboard.jsx:63): a dashboard at rest that
\* shows a table shows the shipments as they are, as far as only the seller
\* changed them; also after requests and answers were lost.
TableIsTruth ==
  (\A c \in Call : call[c] = None) /\ ~loading /\ ~error =>
    \A s \in Shipments \ Handled : list[s] = row[s].status

\* Both hold for a seller who waits for one request before the next.
OneByOneIsTrue == ~crowded => CancelsInTime /\ TableIsTruth

\* A button that says CANCELLING... comes back, however the cancel and the
\* list read after it end.
ButtonReturns == cancelling # None ~> cancelling = None

\* "prefill so a one-field save doesn't reset delivery date"
\* (UpdateShipment.jsx:59): a save in which no day was picked leaves the
\* delivery on the day, by the clock that the form was opened on, that it was
\* on.  On a clock behind the server's it may slip to the day before, where the
\* server's midnight is, and further only when the form is opened again.
Slip(offset) == IF offset < 0 THEN 1 ELSE 0

Moved(s) ==
  AsDay(row[s].due, form.offset) - AsDay(row'[s].due, form.offset)

DayKept == [][\A s \in Shipments :
  "day" \notin touched /\ row'[s].due # row[s].due =>
    form # None /\ Moved(s) \in 0..Slip(form.offset)]_vars

\* The same for every clock, without the slip.
DayNeverSlips == [][\A s \in Shipments :
  "day" \notin touched /\ row'[s].due # row[s].due => Moved(s) = 0]_vars

\* "only send fields the partner actually filled in" (UpdateShipment.jsx:101):
\* a save in which no status was picked does not revive a cancelled shipment.
CancelledStaysUnlessPicked == [][\A s \in Shipments :
  row[s].status = "cancelled" /\ row'[s].status # "cancelled" => "status" \in touched]_vars
=============================================================================
