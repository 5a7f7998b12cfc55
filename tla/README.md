# FastShip in TLA+

A formal model of the FastShip shipment platform: a FastAPI service over Postgres and Redis, a
Celery worker, and a React single page application.  The modules are translated from the code under
`src/`; TLC checks them on small instances, TLAPS proves all of their safety properties for every
value of their constants.

* [The system](#the-system)
* [Modules and how they correspond to the code](#modules-and-how-they-correspond-to-the-code)
* [Runs](#runs)
* [Where the code and its texts disagree](#where-the-code-and-its-texts-disagree)
* [Fairness](#fairness)
* [Proofs](#proofs)
* [What is not modelled](#what-is-not-modelled)
* [Plan](#plan)

## The system

One API process serves HTTP requests on one event loop.  Requests interleave at every `await`: a
SELECT, a COMMIT, a call to Redis, a publish to the broker.  Each request has an ORM session of its
own (`Database/session.py`), with `expire_on_commit=False` over READ COMMITTED: what it loaded when
the user was authenticated is what the handler decides on, however long ago that was, and at COMMIT
only the columns that differ from the loaded value are written.  There is no `SELECT ... FOR UPDATE`,
no version column and no retry.  Most of what can go wrong follows from that paragraph.

| component | state | operations | talks to |
|---|---|---|---|
| Shipment life cycle (`services/shipment.py`, `services/ShipmentEvent.py`, `api/routers/shipment.py`) | tables shipment, shipment_event, review | create, update, cancel, rate | assignment (create), delivery codes (dispatch, hand-over), worker (every event) |
| Delivery codes (`Database/redis.py`, `_notify`) | Redis db 1: one code per shipment, with a TTL | add_otp, verify_otp, clear_otp, expiry | the life cycle; carried to the buyer by the worker |
| Partner assignment (`services/DeliveryPartner.py`) | table delivery_partner: ZIP codes, capacity | assign_shipment, profile update | counts the shipments of the life cycle |
| Accounts and tokens (`services/User.py` and the role services, dependencies, `utils.py`) | tables seller, delivery_partner, client; Redis db 0: blacklist | register, verify, log in, forgot, reset, log out, authenticate | mails signed links through the worker |
| Shipment tags (`services/shipment.py`, `schemas/ShipmentTag.py`) | tables tag, shipment_tag | add_tag, remove_tag | the vocabulary comes from startup; a stop cuts requests off |
| Notification worker (`worker/tasks.py`, `services/mailer.py`) | queue, retries of a task | send_sms, send_mail | Twilio, mail server |
| Startup and migrations (`entrypoint.sh`, `main.py`, `Database/session.py`, `migrations/`) | schema, `alembic_version`, tag rows | stamp, upgrade, create_all, seed_tags | everything that reads a table |
| SPA session and page transitions (`context/`, `App.jsx`, `Navbar.jsx`, `Login.jsx`, `SubmitShipment.jsx`) | React state per tab, localStorage per browser, router history, overlay | click, back, open, log in, log out, submit | the API's account routes |
| Dashboards and update form (`SellerDashboard.jsx`, `UpdateShipment.jsx`) | copies of API answers | list, cancel, prefill, save | the API's shipment routes |
| Forms and profile editors (`Login.jsx`, `PathSignup.jsx`, `SignupForm.jsx`, `SubmitShipment.jsx`, `Track.jsx`, `ProfileEditor.jsx`, `SellerProfile.jsx`, `PartnerProfile.jsx`, `ZipChipInput.jsx`) | fields, messages, busy flags, redirect timers, chips, object URLs | type, pick, check, send, answer, redirect, commit a chip, pick a picture | the API's account and shipment routes; the page transitions |
| Loading screens (`LoadingNavProvider.jsx`, `loadingNav.js`, `LoadingOverlay.jsx`, `WarpOverlay.jsx`) | percentage and its curve, timers, the frame last drawn | go, frame, swap, fade | swap the page of the SPA |
| Intro, pointer and landing page (`components/intro/`, `motion/`, `Home.jsx`, `Hero.jsx`) | the engine's clock, camera and particles, the curtain, pieces that appear, one parallax loop, leaning controls | frame, skip, resize, render, release, scroll, point, enter, leave | the page below waits for the curtain |
| Static pages, titles, middleware, templates | none that changes | see [What is not modelled](#what-is-not-modelled) | |

What is hard in each, and what makes it right:

* **Life cycle.**  A handler decides on a stale snapshot; Redis, the broker and Postgres are changed
  at three different moments, with a crash or an outage possible between any two.  A delivered event
  or a review must never exist without a hand-over, the status column and the timeline may only part
  through a race, no event may go unannounced, only the two parties may add events.
* **Codes.**  GET and DEL are two calls; a dispatch may store a new code between them.  A stored code
  must be one the buyer gets, and open the door to no more hand-overs than overlap.
* **Assignment.**  Capacity is counted on loaded rows and taken at a later COMMIT.  How far can it be
  overbooked, and does a creation that overlaps nothing get it right afterwards?
* **Accounts.**  Three kinds of signed links share a secret, two of them a salt; an id is looked up in
  whichever table the route serves; only the unique index stops two registrations.  Verification,
  reset, log in and service must each rest on the right link, password and token.
* **Tags.**  The check for an existing tag reads the session's copy; the primary key catches the rest;
  a stop of the server cuts requests off between their check and their COMMIT.
* **Worker.**  Tasks are acknowledged when they start, a text is retried, a mail is not.  Every task
  ends, and one channel that fails does not lose a code.
* **Startup.**  A start is broken off anywhere and run again, over volumes of older releases.
* **SPA.**  Answers arrive after their page is gone; two places hold the session; a transition must
  neither overlap another nor leave its overlay behind.
* **Dashboards.**  Everything on screen is a copy; requests and answers are lost and reordered; a day
  crosses from one clock to another and back.
* **Forms.**  What is said of a field outlives what it was said of; answers find another page, another
  card or a loading screen; a lost answer invites a second submission; texts are sent as numbers.
* **Loading screens.**  A timer swaps the page, frames that know nothing of it hide it.
* **Intro and pointer.**  A render restarts the engine while a timeout of the old one is pending; the
  camera is integrated frame by frame against beats on the clock; frames that were asked for come late.

## Modules and how they correspond to the code

A request of the API is a process: `pc[r]` says at which await it stands, `seen[r]` (`view[r]`,
`tags[r]`) what its session loaded.  Every action is the code between two awaits.  History variables
are only read by properties, and say so where they are declared.

* **`ShipmentLifecycle`**: `LoadRows` and `LoadTimeline` are the two SELECTs of authentication (rows
  first, timelines after, so an event can fall between them).  `InsertShipment` and `RefreshShipment`
  are `ShipmentService.add`, whose row is committed before its first event.  `Refuse`, `AcceptUpdate`,
  `AcceptCancel`, `UpdateRowOnly` are the early returns and branches of `update` and `cancel`;
  `VerifyCode` and `BurnCode` GET and DEL of the code; `ComposeEvent` and `ComposeDispatch` the
  inheritance of missing fields and `add_otp`; `Publish` and `PublishFails` the `.delay` calls, of
  which the text's comes first; `CommitEvent` the COMMIT, with `StatusColumn` for "written only if it
  differs from what was loaded"; `ReadForReview` and `CommitReview` are `rate`.  `Crash` fails every
  request in flight.  Codes, addresses, ratings and descriptions are identities or flags.
  `ShipmentProperties` has the properties, `ShipmentInvariants` the inductive ones,
  `MCShipment` the calls of the instances.  `MaxInFlight` is how many requests are served together: a
  bound for TLC, a parameter of what overlapping requests can add up to (`DeliveriesPerCode`).
* **`Assignment`**: `Authenticate`, `SelectPartners`, `LoadShipments`, `Assign` are the awaits of a
  creation; rows that the session holds from authentication are not refreshed by the later SELECT
  (`Known`, `SeenActive`).  `LoadProfile`/`SaveProfile` are a partner's profile update, in which an
  omitted field is copied as None.  `Close` and `Reopen` are what the life cycle does to the count.
* **`Accounts`**: an account is named by the request that registered it, a token by the request that
  logged in; a link is a salt and an id.  The three roles share the actions and differ in `role`.
* **`Tagging`**: `Load` at authentication, then `KeepTag`/`InsertTag`/`RemoveTag`/`NotFound`; `Cut` is
  what a stop does to the requests in flight.  A DELETE that finds its row gone is answered like one that
  finds it: asyncpg reports no row counts the unit of work could trust.
* **`Worker`**: `StoreCode`, `QueueText`, `QueueMail` are `_notify`; `Take`, `SendText`, `DropText`,
  `RetryText`, `Due`, `SendMail` the tasks; `BrokerDown` and `WorkerDies` the faults.
* **`Startup`**: a revision is its place in the chain; the schema is the set of revisions whose effect
  the tables show.  `ServerTags` composes it with `Tagging`: requests are served between the end of a
  start and the next stop, which is also their `Cut`.
* **`Navigation`**: one action per handler and timer of the application; `job` holds requests and
  timers that outlive their page, with the path their handler closed over.  A log in is two calls:
  `TokenGiven` is the answer to the first, `AskProfile` the second leaving, whose explicit token the
  interceptor of `client.js` replaces by the stored one, so that `ProfileGiven` stores the profile of
  one account (`who`) with the token of another (`token`), unless the roles differ and the API refuses.
  `Written` is `writeSession`, which swallows a storage that fails; `parted` remembers the tabs whose
  session is not the stored one.
* **`Consoles`**: the API is one step here, since `ShipmentLifecycle` is its inside.  Hours are counted
  by the server's clock and days by the browser's (`AsDay`, `Prefill`), whose offset may be another each
  time the form is opened.
* **`FormChecks`**, **`Forms`**: the checks and payloads of the six forms as operators on texts, and the
  tab that shows them.  A text is the sequence of what stands between its commas, which is what the
  checks tell apart; of an e-mail and of the content it also matters whether it is an address and whether
  it is longer than the column, which the schemas look at and the forms, marked `noValidate`, do not
  (`Refused`).  `Controls` is what a page lets the user do, `Submit` checks and sends, `Serve` is
  the server (external), `Answer`, `Over` and `Fail` the three ends of a request, `Redirect` the timer.
* **`ProfileEditors`**: the three editors with their different ways to load, the ZIP chips and the
  picture.  `Served` is the list of ZIP codes a partner's profile comes with, which may name one twice:
  neither sign-up nor the server looks for repetitions.  `Desk` puts editors and forms into one tab.
* **`Overlay`**: a change of page on the clock, in units of a frame.  A timeout is due at its time and fires
  up to `MaxLate` units later, with frames drawn in between.  `JitteredCurve` and `SampleCurve`
  are the turret's percentage, `Alpha` the opacity of a tile of the wave, `Aim` and `Wave` a frame of
  each, `SwapTimer` and `EndTimer` the timeouts.
* **`IntroEngine`**: the intro's engine as operators on its clock and scene, in whole numbers: `Simulated`
  is `_step`, `Painted` which parts `renderAt` draws.  `Intro` adds the curtain, Home and its flag and
  the hero's pieces (`Complete` is `complete()`, `Refused` the same when sessionStorage throws), `Pointer`
  the parallax loop and the leaning controls, `Landing` puts both on one page and `Motion` follows a tab
  from its changes of page to its visits of the landing page.

Two abstract specifications say what a part promises and nothing of how:

* **`DeliveryPromise`**: a code is drawn, shown, a delivery recorded, a review left, each after the one
  before it and for good.  `ShipmentLifecycle` implements it with `coded`, `shown`, `delivered` and
  `reviewed` read off the codes issued, the codes proved and the two tables (`HandoverKept`), crashes
  and outages included; `ShipmentProofs` proves it.
* **`PageSwap`**: one page at a time is being gone to, it appears once, under a hidden screen, and the
  screen is given back.  `Navigation` implements it in every tab, whatever is clicked or answered
  meanwhile (`PagesSwap`, where the screen counts as hidden while an overlay is up), and `Overlay` on the
  clock (`SwapsHidden`, where it is hidden if the last frame drawn covers all of it; a swap whose last
  frame missed the two in which the wave is full is the one step that is none of `PageSwap`'s);
  `NavigationProofs` and `MotionProofs` prove both.

The modules meet at few places: the life cycle takes the assigned partner as a constant, and
`Assignment` takes openings and closings as actions; the life cycle hands messages to a set `outbox`,
and `Worker` starts from there; the forms see the server as one step that may refuse, and the loading
screen as an interval, whose inside is `Overlay`.

## Runs

Ten runs must finish without an error; two end in a counterexample, which is described in the next
section.  `tlc -workers 2 -config X.cfg M` repeats any of them; the longest takes two to three minutes.

| run | instance | what it shows |
|---|---|---|
| `shipment_faults` | one shipment, four requests, two at a time, one code, every operation of its two parties, broker outages, crashes, code expiry (1.4 million states) | `HandoverKept`: the API implements `DeliveryPromise`; the column drifts and a late cancel happens only by a race; events are announced; a stored code was sent |
| `shipment_sequential` | one shipment, five requests one at a time, code expiry, a partner and a seller it does not concern (103,000 states) | only the parties add events, one code opens one delivery and one review is kept as long as no two requests overlap, every request is answered, a new shipment gets its first event |
| `assignment_overlap` | two partners of capacity 0 or 1, one profile edit, four creations, two at a time, one reopened, one that overlaps nothing (3.2 million states) | overbooking is bounded by the creations that can overlap; the one that is alone is placed right, and refused only if nobody has a place |
| `accounts_faults` | two roles, one address, two passwords, four requests, two at a time, faults, a mailed review link (2.2 million states) | what a link and a token prove, and that an address finds one account |
| `server_tags` | two releases, stops at any step, two shipments of two sellers, two tags, three requests, two at a time (1.7 million states) | the API serves from a full vocabulary and all tables; nobody touches another seller's tags; what overlapping and broken requests leave neither fails nor deceives one that is alone |
| `worker_faults` | two codes, both channels, three retries, outages and worker deaths (163,000 states) | tasks end, one channel is enough |
| `navigation_tabs` | two tabs, two sellers, one job, a storage that fails at times; the changes of page, the way back to the submit page and the hiding of one of the tabs (325,000 states) | a request carries the token its tab logged in with, until the tab is parted from the storage; half a log in signs nobody in; page changes implement `PageSwap` and end |
| `consoles_both` | two shipments, two requests outstanding, a partner 5 hours ahead who handles one of them (553,000 states) | the table shows what the API has, as far as one request waits for the other; buttons come back; a save without a day keeps the delivery's day |
| `desk_tab` | all six forms and three editors, one request outstanding, one answer lost a visit (387,000 states) | messages are so, what is told was done, one visit does one thing, the amounts that pass the checks are taken and a refusal is of an address or a content, log in leads home, typing is kept, editing repeats no ZIP and leaks no picture, everything settles |
| `motion_tab` | both loading screens with nine curves of three lengths, effects, frames and timers that come late, then two visits of the landing page on three frame rates, a button and a card, a storage that may refuse (177,000 states) | page changes implement `PageSwap` on the clock but where no full frame was drawn, the percentage only rises, the intro hands over once and always, nothing is painted beyond the wall, particles stay few, what follows the pointer rests as it should |
| `shipment_replay` | one shipment, four requests, two at a time | one code delivers twice |
| `startup_deploy` | six releases over one volume | a release serves from the columns of an older one |

Two larger instances have a configuration of their own and pass as well:

| configuration | instance | what it shows |
|---|---|---|
| `Shipment_overlap` | one shipment, six requests from creation to review, two at a time, code expiry (3.8 million states) | one code opens two deliveries at most, and two reviews are kept at most: those of requests that overlap |
| `Consoles_days` | two shipments a partner handles, one request outstanding, the form opened on clocks 5 hours behind and 5 hours ahead (1.1 million states) | a save without a day keeps the delivery's day, or on a clock behind loses one |

Why these bounds are enough to be of use:

* Two requests at a time is where a stale snapshot bites; four requests let a shipment be created,
  dispatched and then raced for.  Three overlapping requests add no new kind of step: a request only
  meets others through the tables, Redis and the broker.  The proofs cover any number.
* One shipment is enough, as no action on one shipment reads another's state; what the others could do
  to it is in the partner and the seller of `shipment_sequential` whom it does not concern.
* One code means that a repeated draw of `randint` is the rule, which is the worst case.
* Capacity 0 and 1 are the two cases of the comparison; the proof covers any capacity.
* Three retries instead of five: the fourth and fifth repeat the third.
* `shipment_sequential` serves one request at a time, so that five lead from creation to review beside
  the strangers'; what overlapping deliveries and reviews add up to is in `Shipment_overlap`, and proved
  for any number.  There a third delivery takes a creation, a dispatch and three hand-overs, a third review
  four requests and the three; two at a time is the least that overlaps.  Every hand-over shows the right
  code there, and the way leads straight to the review.
* The partner's clock is 5 hours ahead of the server's in `consoles_both`, where the prefilled day differs
  from the server's, and also 5 hours behind in `Consoles_days`, where a form is left on one clock and opened
  on the other; any clocks are covered by the proof.  `Earliest` is the first day that is saved: a day slips
  back at every save on a clock behind, and it keeps the days finite.  In `consoles_both` the day is cleared
  or left alone (`Days = {}`).
* Two tabs and two accounts of one role are what the interceptor needs to mix them up.  One tab is
  followed from page to page (`Watched`), in the other users only log in, log out and reload: that is all
  of a tab that another one meets.  Users go back to the submit page (`BackTo`), which is the one that a
  guard may refuse and where requests leave.  One job is outstanding.  `StorageFails` lets any write fail.
  A seller and a partner (`RoleOf <- SellerAndPartner`) pass too, in fewer states: the API then refuses
  the second call of a log in over the other's session.
* A tab has one request outstanding in `desk_tab` (each form waits for its own; a second one is only
  sent by another visit), one account can be registered, and two fields are filled in by the browser or
  typed in at most two ways: each value is one side of a check.  The texts are an amount that is nought,
  fits, or is more than any parcel weighs, an address, a word, one too long for a content, a list and
  nothing.  The served ZIP codes name one twice.  Editors open with nothing outstanding, one
  visit in a behaviour; there is no log out here, since `Navigation` has it.
* In `motion_tab` a frame takes 1 or 2 units (as at 60 or 30 Hz) or 200 (a tab that slept, where the
  engine clips it); a page change may miss a frame (`MaxGap`), its effect may run two units late
  (`MaxLag`) and its timers one (`MaxLate`): together more than the wave's two full frames allow for.  The draws of
  the engine follow one sequence of fractions that visits the whole range.  The curves move neighbouring
  points together, apart and towards each other.  Renders, visits and the time of an engine are bounded.
  A visit of Home begins when no page is being loaded.

`Alone` (Assignment, Tagging) is a set of requests that overlap no other.  It is the form of claim
that survives the races: not "this never happens", which is false, but "whatever races did before, a
request that meets nobody can rely on what it finds".  `crowded` (Consoles) is the same for the
requests of a dashboard, `Handled` names the shipments whose partner is at work.

Every property of a passing run has a mutant: a definition `X_Something` beside the definition `X` it
replaces, which breaks the code the way a plausible slip would, and with which TLC finds the property
violated.

## Where the code and its texts disagree

Runs that end in a counterexample:

* `shipment_replay` (`OneCodeOneDelivery`): two hand-overs that overlap both pass GET before either
  reaches DEL.  `services/shipment.py:81` says "One code, one delivery."
* `startup_deploy` (`SchemaServed`): `entrypoint.sh` stamps head before it upgrades, so no revision is
  ever applied to an existing volume.  README.md:351 says "For an existing database, use Alembic".

Further counterexamples.  The first column is the configuration to run; one with a file of its own names
the property already, in the others the property replaces those listed, with the constants that are given.

| configuration | property | text it contradicts |
|---|---|---|
| `Consoles_days` | `DayNeverSlips` | `UpdateShipment.jsx:59` "prefill so a one-field save doesn't reset delivery date": west of the server every save of an untouched form moves the delivery a day back |
| `Consoles_stale_list` | `CancelsInTime`, `TableIsTruth` | `SellerDashboard.jsx:28` "can't be cancelled again" and `:63` "refetch, not patch": one slot for two cancels, and answers are shown in the order they arrive |
| `Consoles_both` | `CancelledStaysUnlessPicked` | `UpdateShipment.jsx:101` "only send fields the partner actually filled in": the prefilled status is sent too |
| `Navigation_profile` | `ProfileIsOfToken` | `AuthProvider.jsx:15` "Pass token explicitly — not in storage yet, interceptor can't attach it.": where another seller's session is stored, `client.js:22` puts its token into the second call of a log in; the page then shows the other one's profile and sends with the new one's token |
| `Navigation_profile` | `RedirectOnlyIfStaying` | `SubmitShipment.jsx:63` "Don't fire the redirect if the user navigates away first": a redirect armed by a late answer fires |
| `Navigation_profile`, `StorageFails = TRUE` | `SentAsShown` | `context/auth.js:34` "session still lives in React state for this tab": with a full storage requests take the old token |
| `Desk_tab` | `NoBare422` | `SubmitShipment.jsx:77` "catch here, not as a bare 422": the forms are `noValidate` and look at neither the shape of an address nor the length of a content, which the schemas refuse (`schemas/seller.py:40`, `DeliveryPartner.py:53`, `shipment.py:23`, `:87`) |
| `Desk_tab` | `ChipsDiffer` | `ZipChipInput.jsx` refuses a chip that is there already: sign-up (`PathSignup.jsx:93-97,123`) sends a ZIP as often as it was typed, and `PartnerProfile.jsx:80-82` shows it so |
| `Worker_texts` | `DroppedIsMailed` | `worker/tasks.py:78` "the OTP still reaches the customer by email": a customer with a phone only has no mail |
| `Worker_texts` | `BacksOff` | `worker/tasks.py:67` "5s, 10s, 20s, 40s, 80s": retry() without countdown waits 180 s |
| `Worker_texts` | `RetriedOnStatusOnly` | README.md:469 "Twilio send retries only on 429 / 5xx": other exceptions are retried too |
| `Shipment_reviews` | `OneReviewPerShipment` | `services/shipment.py:103` "One review per shipment": two overlapping submissions insert two |
| `Server_overlap` | `AddNeverFails` | `services/shipment.py:148`: the same tag added twice at once is answered with 500 |
| `Shipment_replay` | `Lockstep` | README.md:53 "the shipment column is kept in lockstep": of two overlapping status changes the column may keep the older one's |
| `Shipment_replay` | `CancelOnlyOpen` | `services/shipment.py:116` "A parcel already handed over cannot be un-delivered": the cancel decided before the delivery was committed |
| `Shipment_replay`, `Codes <- TwoCodes` | `BurnsAcceptedCode` | `Database/redis.py:44` "Burn the code once it has been accepted": DEL may remove a newer code, never presented |
| `Shipment_replay`, `Calls <- StatusCalls` | `PlacedIsFirst` | `shipmentStatus.js:19` "never transitioned back into": a status-only or location-only update may record placed again |
| `Shipment_reviews`, `Faults = TRUE` | `ReviewIsOfDelivered` | `api/routers/shipment.py:159` "for a delivered shipment": the mail with the link is queued before the event is committed |
| `Assignment_overlap` | `AssignedHasRoom` | README.md:52 "skipping anyone whose handling capacity is exhausted": two creations take the last place |
| `Accounts_faults` | `MailedOnRegistration` | "A verification email will be sent upon registration": the broker is down after the account is committed |
| `Startup_deploy`, `Container = FALSE` | `HandUpgradeWorks` | README.md:351: the upgrade by hand fails on tables that create_all made |
| `Motion_tab` | `SwapsAlwaysHidden` | `WarpOverlay.jsx:10` "'fully covered' lines up with the route swap": an effect that runs two frames late, or a timer one, leaves the last tiles open |
| `Motion_tab` | `SaysWhichRole` | `SelectPath.jsx:37`: the subtitle of the turret is looked up under /signup/..., the paths are /client/signup, ... |

Several of these have a counterpart that does hold and is checked or proved: the drift is always a
race (`DriftIsRaced`), a late cancel too (`LateCancelIsRaced`), the overbooking is bounded
(`OverbookBound`), one channel of two is enough (`LostOnlyOnBoth`), one request at a time shows the
truth (`OneByOneIsTrue`), a redirect set by a page that is there belongs to the page that is shown
(`ToldIsTrue`), one code opens as many deliveries as requests overlap, and no more (`DeliveriesPerCode`), a
day slips only on a clock behind, and one at a time (`DayKept`).

What the forms do, although no text says otherwise: PASSWORDS DO NOT MATCH stays when the other of the
two fields is corrected; a comma passes the partner's serviceable ZIP field as an empty list; LINK SENT
stays beside another address typed since.

What the intro does where sessionStorage refuses to be written: `complete()` has set `finishedRef` and then
throws, so nothing raises the curtain any more.  `CurtainRises` excepts exactly that (`Stuck`).

## Fairness

Fairness is weak, per process, and only on what the program drives; clients, users, the network's
faults and crashes promise nothing.

* `ShipmentLifecycle`: `Serve(r)`, because the event loop resumes every handler whose await is over,
  and without faults every await ends.
* `Worker`: `Work(t)`, because the worker keeps taking tasks, a call to Twilio or the mail server
  ends somehow, and a countdown runs out.  No outcome is favoured: attempts may fail for ever, and a
  task ends because retries are counted.
* `Navigation`: `Arrive(t)` and `Finish(t)`, browser timers and frames.  A frame needs a visible tab,
  which is part of `Arrive`'s guard: `LoadingEnds` promises nothing of a hidden one.
* `Forms`: that a request ends somehow, that a redirect's timer fires and that a loading screen lifts.
* `Landing`: the engine's frames, the timeout of `complete()` and the observer: browser services that
  run while the tab is in front.  Skips, scrolling, renders and the pointer promise nothing.
* `Consoles`: for each request, that it is answered or lost and that the page handles what comes; not
  that it succeeds.

## Proofs

Checked by TLAPS, without assumptions other than the named ASSUMEs of the modules (types of constants
and bounds; that `None`, `NaN` and `Nobody` are no value, and that `/` is a page; that cancel and create
fix their own event fields; that every shipment has a contact), which TLC evaluates in the runs, and the
hypotheses that a theorem states itself.  The inductive invariants were checked by TLC on the runs'
instances before they were proved.

`ShipmentProofs`, about `ShipmentLifecycle`:

* **`TypeCorrect`**: `Typed` = `TypeOK` and `PhaseOK`.  The type of `timeline` needs the status about to
  be recorded to be one, which `PhaseOK` remembers from `add`.
* **`NoDeliveryWithoutCode`, `NoReviewWithoutCode`**: "a delivered event has a hand-over" is not
  inductive, since an update may inherit a delivered status, a mail may outlive the request that queued
  it, and a code may be compared long before it is used.  `HandoverInv` closes it under all of these: the
  stored code was issued for its shipment, a request that proved one belongs to a shipment handed over
  (`CodesInv`); whoever will record or inherit delivered does too (`DeliveriesInv`); so does every review
  link and its holder (`ReviewsInv`).  Being handed over is stable, which is its own lemma.
* **`PromiseIsKept`**: `Spec => HandoverKept`.  One lemma for each of the steps of `DeliveryPromise`, and
  one that says that all others, crashes included, are none; that a recorded delivery was shown a code is
  `HandoverInv`.
* **`ColumnDriftsOnlyByRace`**: a request that no event overtook still sees the column as it is
  (`SnapshotInv`), so not writing an equal value is harmless; `EventsInv` says that rows exist before
  events and that events belong to requests that are over.
* **`EventsOnlyByParties`**: from `PartiesInv`, a request past its checks is the right party's and has not
  added its event yet.
* **`LateCancelOnlyByRace`**: a cancel in progress loaded an open shipment (`OpenCancelInv`), so if no
  event overtook it the event before its own is open, unless the column it trusted had drifted: then, by
  `DriftIsRaced`, the request that recorded that event had been overtaken.  The second case takes six
  requests; the runs do not reach it, the proof attempt did, and the property names it.
* **`EveryEventIsAnnounced`, `StoredCodeReachesBuyer`**: messages stay in the outbox; a request commits
  its event only from `publish`, past every channel of its shipment (`AnnouncedInv`); a code was issued
  by a request that is still about to publish it, has, or failed (`IssuedInv`).
* **`DeliveriesAreBounded`, `ReviewsAreBounded`**, for any number of requests served together: what is left
  of "One code, one delivery" and "One review per shipment" when requests overlap.  Whoever was accepted
  and not yet deleted the code is in flight, so there are at most `MaxInFlight` of them (`BusyInv`);
  `CountInv` says that while a code is stored the deliveries past their DEL are within the bound for the
  codes before it (`Settled`), because DEL takes away the code it settles, and that once it is gone all
  that was accepted is within the bound for all codes.  A crash or a failure only takes requests away, a
  dispatch adds a code.  For reviews, `ReviewCountInv`: once one is stored, nobody joins those who found
  none.  With one request at a time the bounds are the two sentences; `Shipment_replay` and
  `Shipment_reviews` show that two reach them.

`AssignmentProofs`:

* **`OverbookingIsBounded`**: counting argument.  Once a partner is full, only creations that counted it
  before can still take a place (`PlacesInv`), and at most `MaxInFlight` requests are in flight
  (`SlotsInv`); old copies never undercount (`CopiesInv`).  Shipments that may be reopened are left out
  of the count (`Lasting`), because reopening asks for no capacity.
* **`ServedWhenAlone`**: while a creation that overlaps nothing is served, only its own steps are taken
  (`OnlyItself`), so the capacities, the open shipments, the eligible partners and the loads it read one
  after the other are still those of the tables (`AloneInv`), the rows its session did not refresh too.

`AccountsProofs`: `AccountsInv` is inductive; **`EmailsAreUnique`, `LinksProveOneAccount`** and
**`TokensProveSession`** are made of its conjuncts.  What is needed beside them: a call never changes once
it arrived, a request about to save or to mail holds an account of the right table, a presented token
exists and was checked.

`ServerProofs`, about `ServerTags`: **`ServesWhenReady`** from `StartInv` (a tag has one row or none, and the
ones about to be inserted have none, since only one start runs at a time), **`AloneAreDone`** from
`RequestInv` (a request that overlaps none holds the tags as they are until it is answered), and
**`TagsChangedByOwner`**, which needs no invariant.  About `Worker`, for any number of codes and retries,
with and without faults:

* **`OneChannelIsEnough`**: a request past both channels has queued the mail, a mail is never put off or
  dropped, and one that was sent arrived (`MailInv`); so a code that reached nobody has a mail on its way,
  failed or lost.
* **`TasksRunOut`**: what `TasksEnd` rests on beside fairness.  A task is queued once and `retries` counts
  up to `MaxRetries` (`EndInv`), so `StepsLeft`, at most `3 * MaxRetries + 3`, falls with every step the
  task takes, to the worker's death included.

`NavigationProofs`, for any number of tabs, accounts and requests:

* **`NobodyHalfSignedIn`**: from `NavigationInv`, which types the jobs by their kind and step and says
  that whoever a tab or the storage shows is an account that got past both calls (`SessionsOK`).
* **`TabsSwapPages`**: a step simulation.  `LoaderOK` (a tab is busy exactly while something covers its
  page, and then it has a destination) makes every action of a tab a step of `PageSwap` there and a
  stutter in all others.
* **`SendsAsLoggedIn`**, for any number of tabs and a storage that may fail: a tab that is not parted shows
  the session that is stored (`TogetherInv`), and a submission remembers whether its tab was parted when
  it left.  Every write parts all other tabs, and a write that fails the tab itself; a reload brings a tab
  back.  That the profile shown is of the same account is false (`Navigation_profile`).

`ConsolesProofs`:

* **`UntouchedDayStays`**, on any clocks: while no day was picked the form holds the day of the delivery, by
  the clock it was opened on, or none (`DayInv`); the way to the server and back keeps it, or on a clock
  behind turns the server's midnight into the day before.
* **`OneByOneSeesTruth`**: until the first overlap (`~crowded`) a cancel under way is of a shipment that
  is still open, and the answer of a list is still true when it is handled (`WaitingInv`).

`DeskProofs`, all safety properties of `desk_tab`, for any values, cards, places for a ZIP and requests:

* **`MessagesStayCurrent`**: a form's fields are those of its page (`FieldsOK`), so a message that stays
  when something is typed or an answer comes still has its field.
* **`WhatIsToldIsTrue`, `OneVisitMakesOne`**: `VisitInv`.  A live request is of the page that is shown
  (`FromHere`), what is done of it the server remembers (`DoneIsHeard`), there is one that makes something
  at a time and none after success was told (`OneAtATime`); so all that was made was told, is about to
  be, or went unheard (`Counted`).
* **`AmountsAreTaken`** from `FieldsOK` and `JobsOK`: what passes the checks of a form is refused for an
  address or a content only, and its amounts are above nought; **`LogInLandsAtHome`** needs no invariant.
* **`NoCodeTwiceAndOnePicture`, `NothingTypedIsLost`**: `EditorInv`.  A chip is added only if it is not
  there, and removing one repeats none of the others, so what is repeated was served so (`ChipsOK`); the one URL
  alive is the picture's (`PictureOK`); a form whose profile is still awaited has nothing to lose
  (`FormOK`).  The lemmas on
  sequences behind it are why `RemoveChip` says what `filter` returns, the places that are kept in
  increasing order, and not how it gets there: `SelectSeq` is defined by recursion.

`MotionProofs`, about a tab that loads and visits the landing page (`MotionSpec`, whose steps `TabMoves`
splits into those of the intro, the pointer and the overlay):

* **`IntroHandsOver`**: one timeout is armed while the curtain fades and none before or after, Home's flag is
  set when it fires, and the pieces wait for the flag (`CurtainInv`).
* **`PointerRests`**: `RestsAsItShould` with the types of the channels.
* **`SwapsAreHidden`**, for any lag of the overlay's effect, any gap between frames and any delay of a timer:
  what the wave drew last is determined by when it drew it (`WaveInv`), 35 points of progress a unit; in
  the two units before it turns, the tile with the largest delay is full too.  So a swap that does not
  find one of these two frames drawn last is the only one that may be seen.

* **`ParticlesStayFew`**, **`WallStandsAhead`**: `RunningInv`, which is `EngineInv` of the clock and the
  scene while an engine runs.  A frame lasts 1 to 3 units (the code's cap on a frame), so each list has a
  budget: shards against the time since the burst began (`ShardBudget`), cubes against their debt
  (`CubeBudget`), streaks and rays against their caps.  That the camera is short of the wall is not
  inductive, since it flies faster and faster: `FlightInv` says how much `Room` it has at each instant,
  a line for each of five stretches of the timeline, which the speed at the stretch's end (`SpeedBounds`)
  uses up no faster than the line falls, and of which 7000 is left when the corridor is last painted.
* **`PercentCountsUp`**: a jittered curve rises, in time and in percent, and ends at 100 (`CurveRises`);
  so the sample of a later instant is no lower (`SampleRises`), although each is the rounded quotient of
  its own segment, and the percentage shown is at most that of the last frame drawn (`CountInv`).

Both need induction over data, which the library's induction theorems do not give here: they are
parameterised by an operator, which the provers cannot instantiate.  Instead a set of naturals is shown to
have a least member (`LeastOf`) from the well-foundedness of inclusion on finite sets, and `Induction` is
stated for sets.  The recursive functions that are reasoned about (`Kept`, `Percents`) are shown to exist
that way (`KeptDef`, `PercentsDef`) before anything is said of their values.

Only model-checked is liveness (`Answered`, `TasksEnd`, `LoadingEnds`, `ButtonReturns`, `Settles`,
`CurtainRises`): it needs ENABLED, which is out of the prover's reach.  All other properties of the
passing runs are proved.

## What is not modelled

* `ShipmentService.delete`, the seller's and client's profile edits of the API, and reading routes: no
  route calls the first, nothing reads what the second write, and the others write nothing.
* Hashes, signatures and token encodings: a hash is as good as the password, a link is its salt and
  payload.  Expiry is an action that may happen any time.
* Geography beyond ZIP membership, texts of mails, templates, styles.
* Middleware and exception handlers: they map an error to a status code, which is a request's answer
  here; the access log swallows its failures and no request reads it.
* Numbers beyond a column's width: a ZIP of more digits than an integer has is answered with an error by
  the database, whatever form it came from.
* More than one API process or worker: the containers start one each.  `ShipmentLifecycle` would not
  change, as requests share no memory.
* Drawings: the pixel art of `PixelIcons.jsx`, `PixelSprites.jsx` and `TurretSprite.jsx` is constant
  data, the intro's shapes, colours and places on the canvas are functions of the state that
  `IntroEngine` has, and nothing reads them back.  Of the floating-point arithmetic the models keep what
  a beat, a percent or a whole number of frames can tell apart.
* Page titles and `seoPlugin.js`: a table from paths to strings, applied once a page or a build.
* `motionPolicy.js`: a constant.  The partner's dashboard and `Navbar`'s narrow menu: lists and a switch.
* The composition of the life cycle with the worker, and of the SPA with the accounts: each side meets
  the other as an interface (`outbox`, a request that may be refused); the products are too large for
  TLC at bounds that would show more than the parts do.

## Plan

What could come next: measures that fall with every step, as `StepsLeft` does for the worker's tasks, for
the other liveness properties; a second outstanding request in `desk_tab`, which the pages allow after they
are left.
