--------------------------- MODULE ConsolesProofs ---------------------------
(***************************************************************************)
(* Proofs about the seller's dashboard and the partner's update form, for   *)
(* any number of shipments and requests: one request at a time shows the    *)
(* truth, and a save leaves the delivery on its day, or the day before.     *)
(***************************************************************************)
EXTENDS Consoles, TLAPS

Rows == [Shipments -> [status : Statuses, due : Int]]

Form == [id : Handled, offset : Offsets, status : Statuses, day : Int \cup {None}]

TypeOK ==
  /\ row \in Rows
  /\ list \in [Shipments -> Statuses] \cup {None}
  /\ loading \in BOOLEAN /\ error \in BOOLEAN /\ crowded \in BOOLEAN
  /\ call \in [Call -> Calls \cup {None}]
  /\ form \in Form \cup {None}

\* A list request is never refused, a cancel has its shipment.
CallsOK == \A c \in Call : call[c] # None =>
  /\ call[c].op = "cancel" => call[c].id \in Shipments
  /\ call[c].op = "list" /\ call[c].at = "answered" => call[c].saw \in [Shipments -> Statuses]

(***************************************************************************)
(* Types.                                                                   *)
(***************************************************************************)
LEMMA ShownIsTable == TypeOK => Shown \in [Shipments -> Statuses]
BY DEF TypeOK, Rows, Shown

LEMMA ReplyIsCall ==
  ASSUME TypeOK, NEW c \in Call, call[c] # None, NEW how \in {"answered", "refused", "failed"},
         NEW saw \in [Shipments -> Statuses] \cup {None}, Reply(c, how, saw)
  PROVE  /\ call' \in [Call -> Calls \cup {None}]
         /\ call'[c].op = call[c].op /\ call'[c].id = call[c].id
         /\ call'[c].at = how /\ call'[c].saw = saw
         /\ \A d \in Call \ {c} : call'[d] = call[d]
<1>1. call[c] \in Calls
  BY DEF TypeOK
<1> DEFINE new == [call[c] EXCEPT !.at = how, !.saw = saw]
<1>2. new \in Calls /\ new.op = call[c].op /\ new.id = call[c].id /\ new.at = how /\ new.saw = saw
  BY <1>1 DEF Calls
<1>3. call' = [call EXCEPT ![c] = new]
  BY DEF Reply, TypeOK
<1> HIDE DEF new
<1>4. QED
  BY <1>2, <1>3 DEF TypeOK

LEMMA SendIsCall ==
  ASSUME TypeOK, CallsOK, NEW c \in Call, NEW a \in Calls, Send(c, a),
         a.at = "sent", a.op = "cancel" => a.id \in Shipments
  PROVE  /\ call' \in [Call -> Calls \cup {None}] /\ crowded' \in BOOLEAN
         /\ CallsOK'
<1>1. call' = [call EXCEPT ![c] = a]
  BY DEF Send
<1>2. crowded' \in BOOLEAN
  BY DEF Send
<1>3. QED
  BY <1>1, <1>2 DEF TypeOK, CallsOK

LEMMA InitTyped == Init => TypeOK /\ CallsOK
<1> SUFFICES ASSUME Init PROVE TypeOK /\ CallsOK
  OBVIOUS
<1>1. row \in Rows
  BY DEF Init, Rows, Statuses
<1>2. QED
  BY <1>1 DEF Init, TypeOK, CallsOK

LEMMA StepTyped == TypeOK /\ CallsOK /\ [Next]_vars => (TypeOK /\ CallsOK)'
<1> SUFFICES ASSUME TypeOK, CallsOK, [Next]_vars PROVE (TypeOK /\ CallsOK)'
  OBVIOUS
<1>1. ASSUME NEW c \in Call, Mount(c) \/ Retry(c) PROVE (TypeOK /\ CallsOK)'
  <2> DEFINE a == Ask("list", None, FALSE)
  <2>1. Send(c, a) /\ UNCHANGED <<row, list, loading, error, form>>
    BY <1>1 DEF Mount, Retry
  <2>2. a \in Calls /\ a.at = "sent" /\ a.op = "list"
    BY DEF Ask, Calls
  <2> HIDE DEF a
  <2>3. QED
    BY <2>1, <2>2, SendIsCall DEF TypeOK
<1>2. ASSUME NEW c \in Call, Cancel(c) PROVE (TypeOK /\ CallsOK)'
  <2>1. PICK s \in Shipments : Send(c, Ask("cancel", s, TRUE))
        /\ UNCHANGED <<row, list, loading, error, form>>
    BY <1>2 DEF Cancel
  <2> DEFINE a == Ask("cancel", s, TRUE)
  <2>2. a \in Calls /\ a.at = "sent" /\ a.id = s
    BY DEF Ask, Calls
  <2> HIDE DEF a
  <2>3. Send(c, a)
    BY <2>1 DEF a
  <2>4. QED
    BY <2>1, <2>2, <2>3, SendIsCall DEF TypeOK
<1>3. ASSUME NEW c \in Call, ServeList(c) PROVE (TypeOK /\ CallsOK)'
  <2>1. call[c] # None /\ Reply(c, "answered", Shown)
        /\ UNCHANGED <<row, list, loading, error, crowded, form>>
    BY <1>3 DEF ServeList
  <2>2. Shown \in [Shipments -> Statuses]
    BY ShownIsTable
  <2>3. QED
    BY <1>3, <2>1, <2>2, ReplyIsCall DEF TypeOK, CallsOK
<1>4. ASSUME NEW c \in Call, ServeCancel(c) PROVE (TypeOK /\ CallsOK)'
  <2>1. PICK how \in {"answered", "refused", "failed"} : call[c] # None /\ call[c].op = "cancel" /\ Reply(c, how, None)
    BY <1>4 DEF ServeCancel
  <2>2. UNCHANGED <<list, loading, error, crowded, form>>
    BY <1>4 DEF ServeCancel
  <2>3. row' \in Rows
    BY <1>4 DEF ServeCancel, TypeOK, Rows, Statuses, PARTNER_SETTABLE
  <2>4. QED
    BY <2>1, <2>2, <2>3, ReplyIsCall DEF TypeOK, CallsOK
<1>5. ASSUME NEW c \in Call, Lose(c) PROVE (TypeOK /\ CallsOK)'
  <2>1. call[c] # None /\ Reply(c, "failed", None)
        /\ UNCHANGED <<row, list, loading, error, crowded, form>>
    BY <1>5 DEF Lose
  <2>2. QED
    BY <2>1, ReplyIsCall DEF TypeOK, CallsOK
<1>6. ASSUME NEW c \in Call, Cancelled(c) PROVE (TypeOK /\ CallsOK)'
  BY <1>6 DEF Cancelled, Ask, Calls, TypeOK, CallsOK
<1>7. ASSUME NEW c \in Call, CancelFailed(c) PROVE (TypeOK /\ CallsOK)'
  BY <1>7 DEF CancelFailed, TypeOK, CallsOK
<1>8. ASSUME NEW c \in Call, Loaded(c) PROVE (TypeOK /\ CallsOK)'
  <2>1. list' \in [Shipments -> Statuses] \cup {None}
    BY <1>8 DEF Loaded, TypeOK, CallsOK
  <2>2. QED
    BY <1>8, <2>1 DEF Loaded, TypeOK, CallsOK
<1>9. ASSUME NEW s \in Shipments, OpenForm(s) PROVE (TypeOK /\ CallsOK)'
  <2>1. \A offset \in Offsets : Prefill(s, offset) \in Form
    <3>1. s \in Handled /\ row[s].due \in Int /\ row[s].status \in Statuses
      BY <1>9 DEF OpenForm, TypeOK, Rows
    <3>2. \A offset \in Offsets : AsDay(row[s].due, offset) \in Int
      BY <3>1, OffsetAssumption DEF AsDay
    <3>3. QED
      BY <3>1, <3>2 DEF Prefill, Form, Statuses, PARTNER_SETTABLE
  <2>2. QED
    BY <1>9, <2>1 DEF OpenForm, dashboard, TypeOK, CallsOK
<1>10. CASE PickStatus \/ PickDay \/ Leave
  <2>1. form' \in Form \cup {None}
    BY <1>10, PicksAssumption DEF PickStatus, PickDay, Leave, TypeOK, Form, Statuses
  <2>2. QED
    BY <1>10, <2>1 DEF PickStatus, PickDay, Leave, dashboard, TypeOK, CallsOK
<1>11. CASE Save
  <2>1. form \in Form
    BY <1>11 DEF Save, TypeOK
  <2>2. row' \in Rows
    BY <1>11, <2>1, HandledAssumption DEF Save, Form, TypeOK, Rows, AsDateTime
  <2>3. QED
    BY <1>11, <2>2 DEF Save, dashboard, TypeOK, CallsOK
<1>12. CASE UNCHANGED vars
  BY <1>12 DEF vars, dashboard, TypeOK, CallsOK
<1>13. QED
  BY <1>1, <1>2, <1>3, <1>4, <1>5, <1>6, <1>7, <1>8, <1>9, <1>10, <1>11, <1>12 DEF Next

(***************************************************************************)
(* The day of a delivery.                                                   *)
(***************************************************************************)
\* While no day was picked, the form holds the day of its delivery, or, saved on
\* a clock behind the server's, the day after.
DayInv == form # None /\ "day" \notin touched /\ form.day # None =>
  form.day - AsDay(row[form.id].due, form.offset) \in 0..Slip(form.offset)

\* The server's midnight is on the same day east of it, and on the day before west.
LEMMA DayAndBack ==
  ASSUME NEW d \in Int, NEW offset \in Offsets
  PROVE  d - AsDay(AsDateTime(d), offset) = Slip(offset)
BY OffsetAssumption DEF AsDay, AsDateTime, Slip

LEMMA DaysAreInts ==
  ASSUME NEW hours \in Int, NEW offset \in Offsets
  PROVE  AsDay(hours, offset) \in Int
BY OffsetAssumption DEF AsDay

\* What a step may do to the days of the deliveries.
DayStep == \A s \in Shipments :
  "day" \notin touched /\ row'[s].due # row[s].due =>
    form # None /\ Moved(s) \in 0..Slip(form.offset)

LEMMA SaveKeepsDay ==
  ASSUME TypeOK, DayInv, Save
  PROVE  DayStep /\ DayInv'
<1>1. form \in Form /\ form.id \in Shipments /\ form.offset \in Offsets
  BY HandledAssumption DEF Save, TypeOK, Form
<1>2. /\ row' = [row EXCEPT ![form.id] = [status |-> form.status,
            due |-> IF form.day = None THEN row[form.id].due ELSE AsDateTime(form.day)]]
      /\ form' = form /\ touched' = {} /\ form # None
  BY DEF Save, TypeOK, Rows
<1>3. row'[form.id].due = IF form.day = None THEN row[form.id].due ELSE AsDateTime(form.day)
  BY <1>1, <1>2 DEF TypeOK, Rows
<1>4. form.day # None =>
        form.day \in Int /\ form.day - AsDay(row'[form.id].due, form.offset) = Slip(form.offset)
  BY <1>1, <1>3, DayAndBack DEF Form
<1>5. DayInv'
  BY <1>2, <1>4 DEF DayInv, Slip
<1>6. ASSUME NEW s \in Shipments, "day" \notin touched, row'[s].due # row[s].due
      PROVE  Moved(s) \in 0..Slip(form.offset)
  <2>1. s = form.id /\ form.day # None
    BY <1>2, <1>3, <1>6 DEF TypeOK, Rows
  <2> DEFINE old == AsDay(row[s].due, form.offset)
             new == AsDay(row'[s].due, form.offset)
             slip == Slip(form.offset)
  <2>2. /\ form.day - old \in 0..slip /\ form.day - new = slip
        /\ form.day \in Int
    BY <1>2, <1>4, <1>6, <2>1 DEF DayInv
  <2>3. row[s].due \in Int /\ row'[s].due \in Int
    BY <1>1, <1>3, <1>4, <2>1 DEF TypeOK, Rows, AsDateTime
  <2>4. old \in Int /\ new \in Int /\ slip \in {0, 1}
    BY <1>1, <2>3, DaysAreInts DEF Slip
  <2> HIDE DEF old, new, slip
  <2>5. old - new \in 0..slip
    BY <2>2, <2>4
  <2>6. QED
    BY <2>5 DEF Moved, old, new, slip
<1>7. QED
  BY <1>2, <1>5, <1>6 DEF DayStep

LEMMA StepDay == TypeOK /\ DayInv /\ [Next]_vars => DayInv' /\ DayStep
<1> SUFFICES ASSUME TypeOK, DayInv, [Next]_vars PROVE DayInv' /\ DayStep
  OBVIOUS
<1>1. CASE Save
  BY <1>1, SaveKeepsDay
<1>2. ASSUME NEW c \in Call, ServeCancel(c) PROVE DayInv' /\ DayStep
  <2>1. form' = form /\ touched' = touched
    BY <1>2 DEF ServeCancel
  <2>2. \A s \in Shipments : row'[s].due = row[s].due
    BY <1>2 DEF ServeCancel, TypeOK, Rows
  <2>3. form # None => form.id \in Shipments
    BY HandledAssumption DEF TypeOK, Form
  <2>4. QED
    BY <2>1, <2>2, <2>3 DEF DayInv, DayStep, AsDay
<1>3. ASSUME NEW s \in Shipments, OpenForm(s) PROVE DayInv' /\ DayStep
  <2>1. PICK offset \in Offsets : form' = Prefill(s, offset) /\ row' = row /\ s \in Handled
    BY <1>3 DEF OpenForm
  <2>2. AsDay(row[s].due, offset) \in Int
    BY <2>1, DaysAreInts, HandledAssumption DEF TypeOK, Rows
  <2>3. /\ form'.day = AsDay(row'[form'.id].due, form'.offset)
        /\ form'.offset = offset /\ form'.id = s
    BY <2>1 DEF Prefill
  <2>4. AsDay(row'[form'.id].due, form'.offset) \in Int
    BY <2>1, <2>2, <2>3
  <2>5. DayInv'
    BY <2>3, <2>4 DEF DayInv, Slip
  <2>6. QED
    BY <2>1, <2>5 DEF DayStep
<1>4. CASE PickStatus
  <2>1. PICK st \in Picks : form' = [form EXCEPT !.status = st]
    BY <1>4 DEF PickStatus
  <2>2. form \in Form /\ form # None /\ row' = row /\ touched' = touched \cup {"status"}
    BY <1>4 DEF PickStatus, TypeOK
  <2>3. form'.id = form.id /\ form'.day = form.day /\ form'.offset = form.offset
    BY <2>1, <2>2 DEF Form
  <2>4. QED
    BY <2>2, <2>3 DEF DayInv, DayStep, AsDay
<1>5. CASE PickDay \/ Leave
  BY <1>5 DEF PickDay, Leave, DayInv, DayStep
<1>6. CASE UNCHANGED <<row, form, touched>>
  BY <1>6 DEF DayInv, DayStep, AsDay
<1>7. QED
  BY <1>1, <1>2, <1>3, <1>4, <1>5, <1>6
     DEF Next, vars, Mount, Retry, Cancel, ServeList, Lose, Cancelled, CancelFailed, Loaded

\* A save in which no day was picked leaves the delivery on its day, although the
\* form was prefilled by one clock and is read by another, and however cancels,
\* saves and other days came in between; and on a clock behind the server's on the
\* day before at the worst.
THEOREM UntouchedDayStays == Spec => DayKept
<1>1. Init => TypeOK /\ CallsOK /\ DayInv
  BY InitTyped DEF Init, DayInv
<1>2. TypeOK /\ CallsOK /\ DayInv /\ [Next]_vars => (TypeOK /\ CallsOK /\ DayInv)'
  BY StepTyped, StepDay
<1>3. TypeOK /\ DayInv /\ [Next]_vars =>
        [\A s \in Shipments :
           "day" \notin touched /\ row'[s].due # row[s].due =>
             form # None /\ Moved(s) \in 0..Slip(form.offset)]_vars
  BY StepDay DEF DayStep
<1>4. QED
  BY <1>1, <1>2, <1>3, PTL DEF Spec, DayKept

(***************************************************************************)
(* One request at a time.                                                   *)
(***************************************************************************)
Others == Shipments \ Handled

Resting == \A c \in Call : call[c] = None

\* What each request in flight may rely on while it is the only one: a cancel is of a
\* shipment that is still open, and the answer of a list is still true.
WaitingInv ==
  /\ \A c, d \in Call : call[c] # None /\ call[d] # None => c = d
  /\ \A c \in Call : call[c] # None =>
       /\ call[c].op = "cancel" /\ call[c].at = "sent" /\ call[c].id \in Others =>
            CanCancel(row[call[c].id].status)
       /\ call[c].op = "list" /\ call[c].at = "answered" =>
            \A s \in Others : call[c].saw[s] = row[s].status

TruthInv == ~crowded => WaitingInv /\ CancelsInTime /\ TableIsTruth

LEMMA SendAlone ==
  ASSUME TypeOK, NEW c \in Call, NEW a \in Calls, Send(c, a), ~crowded'
  PROVE  /\ ~crowded /\ Resting
         /\ call'[c] = a /\ a # None /\ \A d \in Call \ {c} : call'[d] = None
BY NoneAssumption DEF Send, Resting, TypeOK

LEMMA ReplyAlone ==
  ASSUME TypeOK, WaitingInv, NEW c \in Call, call[c] # None, NEW how \in {"answered", "refused", "failed"},
         NEW saw \in [Shipments -> Statuses] \cup {None}, Reply(c, how, saw)
  PROVE  /\ call'[c] # None /\ call'[c].op = call[c].op /\ call'[c].id = call[c].id
         /\ call'[c].at = how /\ call'[c].saw = saw
         /\ \A d \in Call \ {c} : call'[d] = None
<1>1. call' \in [Call -> Calls \cup {None}] /\ call'[c] \in Calls
  <2>1. call[c] \in Calls
    BY DEF TypeOK
  <2>2. [call[c] EXCEPT !.at = how, !.saw = saw] \in Calls
    BY <2>1 DEF Calls
  <2>3. call'[c] = [call[c] EXCEPT !.at = how, !.saw = saw]
    BY DEF Reply, TypeOK
  <2>4. QED
    BY <2>2, <2>3, ReplyIsCall
<1>2. QED
  BY <1>1, ReplyIsCall, NoneAssumption DEF WaitingInv

\* What the seller does.
LEMMA AskingKeepsTruth ==
  ASSUME TypeOK, CallsOK, TruthInv, NEW c \in Call, Mount(c) \/ Retry(c) \/ Cancel(c), ~crowded'
  PROVE  WaitingInv' /\ CancelsInTime' /\ TableIsTruth'
<1>1. PICK a \in Calls :
        /\ Send(c, a) /\ a.at = "sent"
        /\ a.op = "list" \/ (/\ a.op = "cancel" /\ a.id \in Shipments /\ ~loading /\ ~error
                             /\ CanCancel(list[a.id]))
        /\ UNCHANGED <<row, list, loading, error, refused>>
  <2>1. CASE Mount(c) \/ Retry(c)
    <3>1. Ask("list", None, FALSE) \in Calls
      BY DEF Ask, Calls
    <3>2. QED
      BY <2>1, <3>1 DEF Mount, Retry, Ask
  <2>2. CASE Cancel(c)
    <3>1. PICK s \in Shipments :
            /\ ~loading /\ ~error /\ CanCancel(list[s]) /\ Send(c, Ask("cancel", s, TRUE))
            /\ UNCHANGED <<row, list, loading, error, refused>>
      BY <2>2 DEF Cancel
    <3>2. Ask("cancel", s, TRUE) \in Calls
      BY DEF Ask, Calls
    <3>3. QED
      BY <3>1, <3>2 DEF Ask
  <2>3. QED
    BY <2>1, <2>2
<1>2. /\ ~crowded /\ Resting
      /\ call'[c] = a /\ a # None /\ \A d \in Call \ {c} : call'[d] = None
  BY <1>1, SendAlone
<1>3. CancelsInTime' /\ TableIsTruth'
  BY <1>1, <1>2 DEF TruthInv, CancelsInTime, TableIsTruth
<1>4. a.op = "cancel" /\ a.id \in Others => CanCancel(row[a.id].status)
  BY <1>1, <1>2 DEF TruthInv, TableIsTruth, Resting, Others
<1>5. WaitingInv'
  BY <1>1, <1>2, <1>4 DEF WaitingInv
<1>6. QED
  BY <1>3, <1>5

\* What becomes of a request.
LEMMA ServingKeepsTruth ==
  ASSUME TypeOK, CallsOK, TruthInv, NEW c \in Call, ServeList(c) \/ ServeCancel(c) \/ Lose(c), ~crowded'
  PROVE  WaitingInv' /\ CancelsInTime' /\ TableIsTruth'
<1> USE DEF Others
<1>1. ~crowded /\ call[c] # None /\ UNCHANGED <<list, loading, error>>
  BY DEF ServeList, ServeCancel, Lose
<1>2. WaitingInv /\ CancelsInTime /\ TableIsTruth
  BY <1>1 DEF TruthInv
<1>3. CASE ServeList(c)
  <2>1. /\ call'[c] # None /\ call'[c].op = "list" /\ call'[c].saw = Shown
        /\ \A d \in Call \ {c} : call'[d] = None
    BY <1>1, <1>2, <1>3, ShownIsTable, ReplyAlone DEF ServeList
  <2>2. QED
    BY <1>2, <1>3, <2>1 DEF ServeList, Shown, WaitingInv, CancelsInTime, TableIsTruth
<1>4. CASE Lose(c)
  <2>1. /\ call'[c] # None /\ call'[c].at = "failed"
        /\ \A d \in Call \ {c} : call'[d] = None
    BY <1>1, <1>2, <1>4, ReplyAlone DEF Lose
  <2>2. QED
    BY <1>2, <1>4, <2>1 DEF Lose, WaitingInv, CancelsInTime, TableIsTruth
<1>5. CASE ServeCancel(c)
  <2>1. PICK how \in {"answered", "refused"} :
          /\ Reply(c, how, None)
          /\ refused' = refused \/ (row[call[c].id].status \in {"delivered", "cancelled"}
                                      /\ refused' = refused \cup {call[c].id})
    BY <1>5 DEF ServeCancel
  <2>2. /\ call'[c] # None /\ call'[c].op = "cancel" /\ call'[c].at \in {"answered", "refused"}
        /\ \A d \in Call \ {c} : call'[d] = None
    BY <1>1, <1>2, <1>5, <2>1, ReplyAlone DEF ServeCancel
  <2>3. call[c].id \in Shipments
    BY <1>1, <1>5 DEF ServeCancel, CallsOK
  <2>4. call[c].id \in Others => CanCancel(row[call[c].id].status)
    BY <1>1, <1>2, <1>5, <2>3 DEF WaitingInv, ServeCancel
  <2>5. CancelsInTime'
    BY <1>2, <2>1, <2>3, <2>4 DEF CancelsInTime, CanCancel
  <2>6. QED
    BY <2>2, <2>5 DEF WaitingInv, TableIsTruth
<1>6. QED
  BY <1>3, <1>4, <1>5

LEMMA EndingKeepsTruth ==
  ASSUME TypeOK, CallsOK, TruthInv, NEW c \in Call, Cancelled(c) \/ CancelFailed(c) \/ Loaded(c), ~crowded'
  PROVE  WaitingInv' /\ CancelsInTime' /\ TableIsTruth'
<1>1. ~crowded /\ call[c] # None /\ UNCHANGED <<row, refused>>
  <2>1. UNCHANGED crowded /\ call[c] # None /\ UNCHANGED <<row, refused>>
    BY DEF Cancelled, CancelFailed, Loaded
  <2>2. QED
    BY <2>1
<1>2. WaitingInv /\ CancelsInTime /\ \A d \in Call \ {c} : call[d] = None
  BY <1>1 DEF TruthInv, WaitingInv
<1>3. CASE Cancelled(c)
  <2> DEFINE a == Ask("list", None, TRUE)
  <2>1. a \in Calls /\ a.op = "list" /\ a.at = "sent"
    BY DEF Ask, Calls
  <2>2. call' = [call EXCEPT ![c] = a]
    BY <1>3 DEF Cancelled
  <2>3. UNCHANGED <<list, loading, error>>
    BY <1>3 DEF Cancelled
  <2> HIDE DEF a
  <2>4. a # None
    BY <2>1, NoneAssumption
  <2>5. QED
    BY <1>1, <1>2, <2>1, <2>2, <2>3, <2>4 DEF WaitingInv, CancelsInTime, TableIsTruth, TypeOK
<1>4. CASE CancelFailed(c)
  BY <1>1, <1>2, <1>4 DEF CancelFailed, WaitingInv, CancelsInTime, TableIsTruth, TypeOK
<1>5. CASE Loaded(c)
  <2>1. call' = [call EXCEPT ![c] = None] /\ call[c].op = "list" /\ call[c].at \in {"answered", "failed"}
        /\ list' = (IF call[c].at = "answered" THEN call[c].saw ELSE list)
        /\ error' = (call[c].at = "failed")
    BY <1>5 DEF Loaded
  <2>2. CASE call[c].at = "answered"
    <3>1. \A s \in Others : list'[s] = row'[s].status
      BY <1>1, <1>2, <2>1, <2>2 DEF WaitingInv
    <3>2. QED
      BY <1>1, <1>2, <2>1, <3>1 DEF Others, WaitingInv, CancelsInTime, TableIsTruth, TypeOK
  <2>3. CASE call[c].at = "failed"
    BY <1>1, <1>2, <2>1, <2>3 DEF WaitingInv, CancelsInTime, TableIsTruth, TypeOK
  <2>4. QED
    BY <2>1, <2>2, <2>3
<1>6. QED
  BY <1>3, <1>4, <1>5

\* The partner only saves shipments that are handled.
LEMMA FormKeepsTruth ==
  ASSUME TypeOK, TruthInv, UNCHANGED dashboard,
         row' = row \/ Save
  PROVE  TruthInv'
<1>1. \A s \in Others : row'[s] = row[s]
  BY DEF Save, TypeOK, Rows, Form, Others
<1>2. QED
  BY <1>1 DEF dashboard, TruthInv, WaitingInv, CancelsInTime, TableIsTruth, Others

LEMMA StepTruth == TypeOK /\ CallsOK /\ TruthInv /\ [Next]_vars => TruthInv'
<1> SUFFICES ASSUME TypeOK, CallsOK, TruthInv, [Next]_vars PROVE TruthInv'
  OBVIOUS
<1>1. ASSUME NEW c \in Call, Mount(c) \/ Retry(c) \/ Cancel(c) PROVE TruthInv'
  BY <1>1, AskingKeepsTruth DEF TruthInv
<1>2. ASSUME NEW c \in Call, ServeList(c) \/ ServeCancel(c) \/ Lose(c) PROVE TruthInv'
  BY <1>2, ServingKeepsTruth DEF TruthInv
<1>3. ASSUME NEW c \in Call, Cancelled(c) \/ CancelFailed(c) \/ Loaded(c) PROVE TruthInv'
  BY <1>3, EndingKeepsTruth DEF TruthInv
<1>4. CASE Save \/ PickStatus \/ PickDay \/ Leave \/ UNCHANGED vars \/ \E s \in Shipments : OpenForm(s)
  BY <1>4, FormKeepsTruth DEF Save, PickStatus, PickDay, Leave, OpenForm, vars
<1>5. QED
  BY <1>1, <1>2, <1>3, <1>4 DEF Next

\* A seller who waits for one request before the next is offered no cancel that comes
\* too late, and sees the shipments as they are, whatever is lost on the way; but
\* for shipments whose partner is at work (SellerDashboard.jsx refetches after each
\* cancel and turns every failure into an error that has to be retried).
THEOREM OneByOneSeesTruth == Spec => []OneByOneIsTrue
<1>1. Init => TypeOK /\ CallsOK /\ TruthInv
  BY InitTyped DEF Init, TruthInv, WaitingInv, CancelsInTime, TableIsTruth
<1>2. TypeOK /\ CallsOK /\ TruthInv /\ [Next]_vars => (TypeOK /\ CallsOK /\ TruthInv)'
  BY StepTyped, StepTruth
<1>3. TruthInv => OneByOneIsTrue
  BY DEF TruthInv, OneByOneIsTrue
<1>4. QED
  BY <1>1, <1>2, <1>3, PTL DEF Spec
=============================================================================
