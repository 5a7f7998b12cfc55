------------------------------- MODULE Worker -------------------------------
(***************************************************************************)
(* How a delivery code travels: the API stores it and queues a text and a   *)
(* mail at the broker, the Celery worker runs the two tasks.  A text is     *)
(* retried, a mail is not.  Tasks are acknowledged when they start, so a    *)
(* task that runs when its worker dies is lost; one that waits for its      *)
(* countdown is not acknowledged and comes back.                            *)
(***************************************************************************)
EXTENDS Naturals, FiniteSets

CONSTANTS
  Codes,        \* bound: how many codes are issued
  Contacts,     \* the channels of the customer, a set of "sms" and "mail"
  MaxRetries,   \* max_retries of send_sms
  Faults        \* whether the broker is down at times and the worker dies

ASSUME CodesAssumption == Codes \in Nat

ASSUME ContactAssumption ==
  Contacts \subseteq {"sms", "mail"} /\ Contacts # {}   \* require_at_least_one_contact

ASSUME RetryAssumption == MaxRetries \in Nat /\ Faults \in BOOLEAN

VARIABLES
  dispatch,  \* where the API stands with each code
  phase,     \* of each task
  retries,   \* request.retries of a text
  outcome,   \* what Twilio answered to its last attempt
  delay,     \* the countdown of its retry, in seconds
  reached    \* whether the customer has it

Dispatches == 1..Codes

taskVars == <<phase, retries, outcome, delay, reached>>
vars == <<dispatch, taskVars>>

Tasks == [kind : {"sms", "mail"}, code : Dispatches]

Text(d) == [kind |-> "sms", code |-> d]
Mail(d) == [kind |-> "mail", code |-> d]

\* Outcomes of an attempt: "retryable" is HTTP 429 and 5xx, "permanent" any
\* other HTTP error, "exception" no answer at all, and "accepted".

Done == {"sent", "dropped", "failed", "lost"}

Init ==
  /\ dispatch = [d \in Dispatches |-> "new"]
  /\ phase = [t \in Tasks |-> "none"]
  /\ retries = [t \in Tasks |-> 0]
  /\ outcome = [t \in Tasks |-> "accepted"]
  /\ delay = [t \in Tasks |-> 0]
  /\ reached = [t \in Tasks |-> FALSE]

GoOn(d, step) == dispatch' = [dispatch EXCEPT ![d] = step]

Move(t, to) == phase' = [phase EXCEPT ![t] = to]

(***************************************************************************)
(* The API: add_otp, then send_sms.delay, then send_templated_email.        *)
(***************************************************************************)
StoreCode(d) ==
  /\ dispatch[d] = "new" /\ \A e \in 1..(d - 1) : dispatch[e] \in {"done", "failed"}
  /\ GoOn(d, "text")
  /\ UNCHANGED taskVars

QueueText(d) ==
  /\ dispatch[d] = "text"
  /\ GoOn(d, "mail")
  /\ IF "sms" \in Contacts THEN Move(Text(d), "queued") ELSE UNCHANGED phase
  /\ UNCHANGED <<retries, outcome, delay, reached>>

\* Mutant: a customer with a phone only gets the text.
QueueMail_NotIfTexted(d) ==
  /\ dispatch[d] = "mail"
  /\ GoOn(d, "done")
  /\ IF Contacts = {"mail"} THEN Move(Mail(d), "queued") ELSE UNCHANGED phase
  /\ UNCHANGED <<retries, outcome, delay, reached>>

QueueMail(d) ==
  /\ dispatch[d] = "mail"
  /\ GoOn(d, "done")
  /\ IF "mail" \in Contacts THEN Move(Mail(d), "queued") ELSE UNCHANGED phase
  /\ UNCHANGED <<retries, outcome, delay, reached>>

\* delay() raises: the request fails between the two channels or before both.
BrokerDown(d) ==
  /\ Faults
  /\ \/ dispatch[d] = "text" /\ "sms" \in Contacts
     \/ dispatch[d] = "mail" /\ "mail" \in Contacts
  /\ GoOn(d, "failed")
  /\ UNCHANGED taskVars

(***************************************************************************)
(* The worker.                                                              *)
(***************************************************************************)
Take(t) ==
  /\ phase[t] = "queued"
  /\ Move(t, "running")
  /\ UNCHANGED <<dispatch, retries, outcome, delay, reached>>

\* An attempt that may or may not bring the message to the customer.
Attempt(t, arrives) == reached' = [reached EXCEPT ![t] = @ \/ arrives]

SendText(t) ==
  /\ phase[t] = "running" /\ t.kind = "sms"
  /\ outcome' = [outcome EXCEPT ![t] = "accepted"]
  /\ Attempt(t, TRUE)
  /\ Move(t, "sent")
  /\ UNCHANGED <<dispatch, retries, delay>>

\* Invalid number, bad credentials: swallowed.
DropText(t) ==
  /\ phase[t] = "running" /\ t.kind = "sms"
  /\ outcome' = [outcome EXCEPT ![t] = "permanent"]
  /\ Move(t, "dropped")
  /\ UNCHANGED <<dispatch, retries, delay, reached>>

\* Task.retry raises the error itself once max_retries is used up.
MayRetry(t) == retries[t] < MaxRetries

\* Mutant: a retry starts over as a task of its own.
NextRetry_Fresh(t) == 0

NextRetry(t) == retries[t] + 1

\* retry() without a countdown waits default_retry_delay; the backoff options
\* of the task only concern autoretry_for, which it does not use.
RetryDelay(t) == 180

\* An HTTP status worth a retry, or any other exception; in a timeout Twilio
\* may have accepted the text nevertheless.
RetryText(t) ==
  /\ phase[t] = "running" /\ t.kind = "sms"
  /\ \/ outcome' = [outcome EXCEPT ![t] = "retryable"] /\ UNCHANGED reached
     \/ outcome' = [outcome EXCEPT ![t] = "exception"] /\ \E b \in BOOLEAN : Attempt(t, b)
  /\ \/ /\ MayRetry(t)
        /\ retries' = [retries EXCEPT ![t] = NextRetry(t)]
        /\ delay' = [delay EXCEPT ![t] = RetryDelay(t)]
        /\ Move(t, "waiting")
     \/ ~MayRetry(t) /\ Move(t, "failed") /\ UNCHANGED <<retries, delay>>
  /\ UNCHANGED dispatch

Due(t) ==
  /\ phase[t] = "waiting"
  /\ Move(t, "queued")
  /\ UNCHANGED <<dispatch, retries, outcome, delay, reached>>

SendMail(t) ==
  /\ phase[t] = "running" /\ t.kind = "mail"
  /\ \/ Move(t, "sent") /\ Attempt(t, TRUE)
     \/ Move(t, "failed") /\ UNCHANGED reached
  /\ UNCHANGED <<dispatch, retries, outcome, delay>>

WorkerDies ==
  /\ Faults /\ \E t \in Tasks : phase[t] = "running"
  /\ phase' = [t \in Tasks |-> IF phase[t] = "running" THEN "lost" ELSE phase[t]]
  /\ UNCHANGED <<dispatch, retries, outcome, delay, reached>>

Serve(d) == StoreCode(d) \/ QueueText(d) \/ QueueMail(d)

Work(t) ==
  Take(t) \/ SendText(t) \/ DropText(t) \/ RetryText(t) \/ Due(t) \/ SendMail(t)

Next ==
  \/ \E d \in Dispatches : Serve(d) \/ BrokerDown(d)
  \/ \E t \in Tasks : Work(t)
  \/ WorkerDies

Spec == Init /\ [][Next]_vars

\* The worker keeps taking tasks, every call to Twilio or the mail server ends
\* somehow, and a countdown runs out.
FairSpec == Spec /\ \A t \in Tasks : WF_vars(Work(t))

(***************************************************************************)
(* Properties.                                                              *)
(***************************************************************************)

\* A task that was queued comes to an end, whatever Twilio answers and however
\* often the worker dies.
TasksEnd == \A t \in Tasks : phase[t] = "queued" ~> phase[t] \in Done

\* "Send OTP on every channel, not just SMS": once the request has queued a
\* code for a customer with a phone and an address, the code is only lost if
\* both the text and the mail come to grief.
LostOnlyOnBoth == \A d \in Dispatches :
  /\ dispatch[d] = "done" /\ Contacts = {"sms", "mail"}
  /\ ~reached[Text(d)] /\ ~reached[Mail(d)]
  /\ phase[Text(d)] \in Done
  => phase[Mail(d)] \in {"queued", "running", "failed", "lost"}

\* "The OTP still reaches the customer by email": a text that failed for good
\* has a mail on its way or delivered.
DroppedIsMailed == \A d \in Dispatches :
  phase[Text(d)] = "dropped" /\ dispatch[d] = "done" =>
    phase[Mail(d)] \in {"queued", "running", "sent"}

\* "5s, 10s, 20s, 40s, 80s": how long the n-th retry is put off, jitter and
\* retry_backoff_max = 300 aside.
BacksOff == \A t \in Tasks :
  phase[t] = "waiting" => delay[t] <= 5 * 2 ^ (retries[t] - 1)

\* "Twilio send retries only on 429 / 5xx."
RetriedOnStatusOnly == \A t \in Tasks : phase[t] = "waiting" => outcome[t] = "retryable"
=============================================================================
