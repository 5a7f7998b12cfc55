----------------------------- MODULE ServerProofs ----------------------------
(* The starts of the API and the tag requests served between them, for every *)
(* vocabulary, every sequence of releases and any number of requests; the     *)
(* worker that carries the codes, for any number of codes and retries.        *)
EXTENDS ServerTags, Worker, TLAPS

(***************************************************************************)
(* The starts.                                                              *)
(***************************************************************************)
\* A tag has one row or none, the ones about to be inserted have none, and the
\* tables of the deployed release are there from their creation on.
StartInv ==
  /\ rows \in [TagNames -> {0, 1}]
  /\ step = "insert" => missing = {t \in TagNames : rows[t] = 0}
  /\ step = "serving" => \A t \in TagNames : rows[t] = 1
  /\ step \in {"seed", "insert", "serving"} => Server!Known \cap Server!Creating \subseteq schema

LEMMA StartsHold == StartInv /\ [ServerTagsNext]_serverTagsVars => StartInv'
<1> SUFFICES ASSUME StartInv, [ServerTagsNext]_serverTagsVars PROVE StartInv'
  OBVIOUS
<1> USE DEF StartInv
<1>1. CASE Server!Deploy
  BY <1>1 DEF Server!Deploy
<1>2. CASE Server!Start
  BY <1>2 DEF Server!Start
<1>3. CASE Server!StampHead
  BY <1>3 DEF Server!StampHead
<1>4. CASE Server!UpgradeHead
  BY <1>4 DEF Server!UpgradeHead
<1>5. CASE Server!UpgradeByHand
  BY <1>5 DEF Server!UpgradeByHand
<1>6. CASE Server!CreateTables
  BY <1>6 DEF Server!CreateTables, Server!Known
<1>7. CASE Server!ReadTags
  BY <1>7 DEF Server!ReadTags, Server!Known
<1>8. CASE Server!InsertTags
  <2>1. \A t \in TagNames : rows'[t] = 1
    BY <1>8 DEF Server!InsertTags
  <2>2. rows' \in [TagNames -> {0, 1}]
    BY <1>8, <2>1 DEF Server!InsertTags
  <2> QED
    BY <1>8, <2>1, <2>2 DEF Server!InsertTags, Server!Known
<1>9. CASE Server!Stop
  BY <1>9 DEF Server!Stop
<1>10. CASE UNCHANGED serverVars
  BY <1>10 DEF serverVars, Server!Known
<1> QED
  BY <1>1, <1>2, <1>3, <1>4, <1>5, <1>6, <1>7, <1>8, <1>9, <1>10
     DEF ServerTagsNext, ServeTags, Prepare, Stop, serverTagsVars

LEMMA StartInvariant == ServerTagsSpec => []StartInv
<1>1. ServerTagsInit => StartInv
  BY DEF ServerTagsInit, Server!Init, StartInv
<1> QED
  BY <1>1, StartsHold, PTL DEF ServerTagsSpec

\* A serving API finds every tag once and every table its code declares,
\* whatever starts were broken off and whatever releases replaced each other.
THEOREM ServesWhenReady == ServerTagsSpec => []ReadyWhenServing
<1>1. StartInv => ReadyWhenServing
  BY DEF StartInv, ReadyWhenServing, Server!ReadyWhenServing
<1> QED
  BY <1>1, StartInvariant, PTL

(***************************************************************************)
(* The requests.                                                            *)
(***************************************************************************)
\* What a request asks stays as it arrived, and a request that overlaps none
\* holds the tags as they are.
RequestInv ==
  /\ pc \in [Req -> {"new", "loaded"} \cup Requests!Ended]
  /\ ask \in [Req -> Requests!Ask \cup {None}]
  /\ tags \in [Req -> SUBSET TagNames]
  /\ \A r \in Req : pc[r] = "loaded" => ask[r] \in Requests!Ask
  /\ \A r \in Req \cap Alone : pc[r] = "loaded" =>
       /\ Requests!InFlight = {r}
       /\ tags[r] = {t \in TagNames : <<ask[r].id, t>> \in shipment_tag}

\* An answer ends its request.
LEMMA AnswerHolds ==
  ASSUME RequestInv, NEW r \in Req, pc[r] = "loaded",
         NEW how \in Requests!Ended, Requests!Answer(r, how)
  PROVE  RequestInv'
<1>1. /\ pc' = [pc EXCEPT ![r] = how] /\ ask' = ask /\ tags' = tags
      /\ how # "loaded"
  BY DEF Requests!Answer, Requests!Ended
<1>2. /\ pc' \in [Req -> {"new", "loaded"} \cup Requests!Ended]
      /\ \A q \in Req : pc'[q] = "loaded" => q # r /\ pc[q] = "loaded"
  BY <1>1 DEF RequestInv
<1>3. ASSUME NEW q \in Req \cap Alone, pc'[q] = "loaded" PROVE FALSE
  <2>1. Requests!InFlight = {q} /\ q # r
    BY <1>2, <1>3 DEF RequestInv
  <2>2. r \in Requests!InFlight
    BY DEF Requests!InFlight
  <2> QED
    BY <2>1, <2>2
<1> QED
  BY <1>1, <1>2, <1>3 DEF RequestInv

LEMMA LoadHolds ==
  ASSUME RequestInv, NEW r \in Req, Requests!Load(r)
  PROVE  RequestInv'
<1>1. PICK a \in Requests!Ask :
        /\ pc[r] = "new"
        /\ Requests!InFlight \cap Alone = {} /\ (r \in Alone => Requests!InFlight = {})
        /\ pc' = [pc EXCEPT ![r] = "loaded"]
        /\ ask' = [ask EXCEPT ![r] = a]
        /\ tags' = [tags EXCEPT ![r] = {t \in TagNames : <<a.id, t>> \in shipment_tag}]
        /\ shipment_tag' = shipment_tag
  BY DEF Requests!Load
<1>2. /\ pc' \in [Req -> {"new", "loaded"} \cup Requests!Ended]
      /\ ask' \in [Req -> Requests!Ask \cup {None}]
      /\ tags' \in [Req -> SUBSET TagNames]
      /\ \A q \in Req : pc'[q] = "loaded" => ask'[q] \in Requests!Ask
  BY <1>1 DEF RequestInv
<1>3. ASSUME NEW q \in Req \cap Alone, pc'[q] = "loaded"
      PROVE  /\ q = r /\ (Requests!InFlight)' = {r}
             /\ tags'[q] = {t \in TagNames : <<ask'[q].id, t>> \in shipment_tag'}
  <2>1. q = r
    <3>1. q \notin Requests!InFlight
      BY <1>1
    <3> QED
      BY <1>1, <1>3, <3>1 DEF RequestInv, Requests!InFlight
  <2>2. \A p \in Req : pc'[p] = "loaded" => p = r
    BY <1>1, <2>1 DEF RequestInv, Requests!InFlight
  <2>3. pc'[r] = "loaded" /\ ask'[r] = a
        /\ tags'[r] = {t \in TagNames : <<a.id, t>> \in shipment_tag}
    BY <1>1 DEF RequestInv
  <2> QED
    BY <1>1, <2>1, <2>2, <2>3 DEF Requests!InFlight
<1> QED
  BY <1>2, <1>3 DEF RequestInv

LEMMA RequestsHold == RequestInv /\ [ServerTagsNext]_serverTagsVars => RequestInv'
<1> SUFFICES ASSUME RequestInv, [ServerTagsNext]_serverTagsVars PROVE RequestInv'
  OBVIOUS
<1>1. CASE ServeTags
  <2>1. PICK r \in Req : Requests!Load(r) \/ Requests!NotFound(r) \/ Requests!KeepTag(r)
                         \/ Requests!InsertTag(r) \/ Requests!RemoveTag(r)
    BY <1>1 DEF ServeTags
  <2>2. CASE Requests!Load(r)
    BY <2>2, LoadHolds
  <2>3. CASE ~Requests!Load(r)
    <3>1. pc[r] = "loaded" /\ \E how \in {"ok", "not_found", "failed"} : Requests!Answer(r, how)
      BY <2>1, <2>3 DEF Requests!NotFound, Requests!KeepTag, Requests!InsertTag, Requests!RemoveTag
    <3> QED
      BY <3>1, AnswerHolds DEF Requests!Ended
  <2> QED
    BY <2>2, <2>3
<1>2. CASE Requests!Cut
  <2>1. /\ pc' \in [Req -> {"new", "loaded"} \cup Requests!Ended]
        /\ \A r \in Req : pc'[r] # "loaded"
    BY <1>2 DEF Requests!Cut, RequestInv, Requests!InFlight, Requests!Ended
  <2> QED
    BY <1>2, <2>1 DEF Requests!Cut, RequestInv
<1>3. CASE UNCHANGED requestVars
  BY <1>3 DEF requestVars, RequestInv, Requests!InFlight
<1> QED
  BY <1>1, <1>2, <1>3 DEF ServerTagsNext, Prepare, Stop, serverTagsVars

LEMMA RequestInvariant == ServerTagsSpec => []RequestInv
<1>1. ServerTagsInit => RequestInv
  BY DEF ServerTagsInit, Requests!Init, RequestInv
<1> QED
  BY <1>1, RequestsHold, PTL DEF ServerTagsSpec

\* Only a request of its own seller, naming the pair, changes the tags of a
\* shipment, over every stop and start.
THEOREM TagsChangedByOwner == ServerTagsSpec => ChangedByOwner
<1> DEFINE OwnerActs == \A p \in Shipments \X TagNames :
      (p \in shipment_tag') # (p \in shipment_tag) =>
        \E r \in Req : pc[r] = "loaded" /\ Requests!Pair(r) = p /\ Owner[p[1]] = ask[r].seller
<1>1. [ServerTagsNext]_serverTagsVars => [OwnerActs]_requestVars
  <2> SUFFICES ASSUME [ServerTagsNext]_serverTagsVars, NEW p \in Shipments \X TagNames,
                      (p \in shipment_tag') # (p \in shipment_tag)
               PROVE  \E r \in Req : pc[r] = "loaded" /\ Requests!Pair(r) = p
                                     /\ Owner[p[1]] = ask[r].seller
    OBVIOUS
  <2>1. PICK r \in Req : Requests!InsertTag(r) \/ Requests!RemoveTag(r)
    BY DEF ServerTagsNext, ServeTags, Prepare, Stop, serverTagsVars, requestVars, Requests!Load, Requests!NotFound,
           Requests!KeepTag, Requests!Cut
  <2>2. pc[r] = "loaded" /\ Requests!Owns(r) /\ p = Requests!Pair(r)
    BY <2>1 DEF Requests!InsertTag, Requests!RemoveTag
  <2> QED
    BY <2>2 DEF Requests!Owns, Requests!Pair
<1> QED
  BY <1>1, PTL DEF ServerTagsSpec, ChangedByOwner, Requests!ChangedByOwner, Requests!vars, requestVars

\* A request that overlaps none is neither failed nor deceived by what
\* overlapping requests, stops and starts left behind.
THEOREM AloneAreDone == ServerTagsSpec => AloneIsDone
<1> DEFINE Right(r) == /\ pc'[r] # "failed"
                       /\ pc'[r] = "ok" =>
                            ((Requests!Pair(r) \in shipment_tag') <=> (ask[r].op = "add"))
<1> DEFINE AllRight == \A r \in Req \cap Alone : pc[r] = "loaded" => Right(r)
<1>1. RequestInv /\ [ServerTagsNext]_serverTagsVars => [AllRight]_requestVars
  <2> SUFFICES ASSUME RequestInv, [ServerTagsNext]_serverTagsVars, NEW r \in Req \cap Alone, pc[r] = "loaded"
               PROVE  Right(r)
    OBVIOUS
  <2>1. Requests!InFlight = {r} /\ ask[r] \in Requests!Ask
        /\ (Requests!Pair(r) \in shipment_tag <=> ask[r].tag \in tags[r])
    BY DEF RequestInv, Requests!Pair, Requests!Ask
  <2>2. CASE ServeTags
    <3>1. PICK q \in Req : Requests!Load(q) \/ Requests!NotFound(q) \/ Requests!KeepTag(q)
                           \/ Requests!InsertTag(q) \/ Requests!RemoveTag(q)
      BY <2>2 DEF ServeTags
    <3>2. ~Requests!Load(q)
      BY <2>1 DEF Requests!Load
    <3>3. q = r
      BY <2>1, <3>1, <3>2 DEF Requests!NotFound, Requests!KeepTag, Requests!InsertTag,
           Requests!RemoveTag, Requests!InFlight
    <3>4. CASE Requests!NotFound(r)
      BY <3>4 DEF Requests!NotFound, Requests!Answer, RequestInv
    <3>5. CASE Requests!KeepTag(r)
      BY <2>1, <3>5 DEF Requests!KeepTag, Requests!HasTag, Requests!Answer, RequestInv
    <3>6. CASE Requests!InsertTag(r)
      BY <2>1, <3>6 DEF Requests!InsertTag, Requests!HasTag, Requests!Answer, RequestInv
    <3>7. CASE Requests!RemoveTag(r)
      BY <2>1, <3>7 DEF Requests!RemoveTag, Requests!HasTag, Requests!Answer, RequestInv
    <3> QED
      BY <3>1, <3>2, <3>3, <3>4, <3>5, <3>6, <3>7
  <2>3. CASE Requests!Cut
    BY <2>1, <2>3 DEF Requests!Cut, Requests!InFlight
  <2>4. CASE UNCHANGED requestVars
    BY <2>4 DEF requestVars
  <2> QED
    BY <2>2, <2>3, <2>4 DEF ServerTagsNext, Prepare, Stop, serverTagsVars
<1> QED
  BY <1>1, RequestInvariant, PTL DEF ServerTagsSpec, AloneIsDone, Requests!AloneIsDone, Requests!vars, requestVars
(***************************************************************************)
(* The worker.                                                              *)
(***************************************************************************)
\* A request that got past both channels has queued the mail, a mail is never
\* dropped nor put off, and one that was sent arrived.
MailInv ==
  /\ dispatch \in [Dispatches -> {"new", "text", "mail", "done", "failed"}]
  /\ phase \in [Tasks -> {"none", "queued", "running", "waiting"} \cup Done]
  /\ reached \in [Tasks -> BOOLEAN]
  /\ \A d \in Dispatches :
       /\ dispatch[d] = "done" /\ "mail" \in Contacts => phase[Mail(d)] # "none"
       /\ phase[Mail(d)] \notin {"waiting", "dropped"}
       /\ phase[Mail(d)] = "sent" => reached[Mail(d)]

LEMMA TaskKinds ==
  /\ \A d \in Dispatches : Text(d) \in Tasks /\ Mail(d) \in Tasks
  /\ \A t \in Tasks : t \in {Text(t.code), Mail(t.code)} /\ t.code \in Dispatches
  /\ \A d, e \in Dispatches : Text(d) # Mail(e) /\ (Mail(d) = Mail(e) => d = e)
BY DEF Tasks, Text, Mail

\* A task that moves on loses none of this if it is a text, or a mail that goes
\* where mails go.
LEMMA MoveHolds ==
  ASSUME MailInv, NEW t \in Tasks, NEW to, dispatch' = dispatch,
         Move(t, to), to \in {"queued", "running", "waiting"} \cup Done,
         t.kind = "mail" => to \notin {"waiting", "dropped"},
         reached' \in [Tasks -> BOOLEAN],
         \A u \in Tasks : reached[u] => reached'[u],
         t.kind = "mail" /\ to = "sent" => reached'[t]
  PROVE  MailInv'
<1>1. phase' \in [Tasks -> {"none", "queued", "running", "waiting"} \cup Done]
  BY DEF MailInv, Move
<1>2. ASSUME NEW d \in Dispatches
      PROVE  /\ dispatch'[d] = "done" /\ "mail" \in Contacts => phase'[Mail(d)] # "none"
             /\ phase'[Mail(d)] \notin {"waiting", "dropped"}
             /\ phase'[Mail(d)] = "sent" => reached'[Mail(d)]
  <2>1. CASE t = Mail(d)
    <3>1. phase'[Mail(d)] = to /\ t.kind = "mail"
      BY <2>1, TaskKinds DEF MailInv, Move, Mail
    <3> QED
      BY <2>1, <3>1 DEF Done
  <2>2. CASE t # Mail(d)
    <3>1. phase'[Mail(d)] = phase[Mail(d)]
      BY <2>2, TaskKinds DEF MailInv, Move
    <3> QED
      BY <3>1, TaskKinds DEF MailInv
  <2> QED
    BY <2>1, <2>2
<1> QED
  BY <1>1, <1>2 DEF MailInv

\* What the API does with a code.
LEMMA DispatchHolds ==
  ASSUME MailInv, NEW d \in Dispatches, Serve(d) \/ BrokerDown(d)
  PROVE  MailInv'
<1>1. reached' = reached
  BY DEF Serve, BrokerDown, StoreCode, QueueText, QueueMail, taskVars
<1>2. dispatch' \in [Dispatches -> {"new", "text", "mail", "done", "failed"}]
  BY DEF MailInv, Serve, BrokerDown, StoreCode, QueueText, QueueMail, GoOn
<1>3. CASE StoreCode(d) \/ BrokerDown(d)
  <2>1. phase' = phase /\ \A e \in Dispatches : dispatch'[e] = "done" => dispatch[e] = "done"
    BY <1>3 DEF MailInv, BrokerDown, StoreCode, GoOn, taskVars
  <2> QED
    BY <1>1, <1>2, <2>1 DEF MailInv
<1>4. CASE QueueText(d)
  <2>1. \A e \in Dispatches : dispatch'[e] = "done" => dispatch[e] = "done"
    BY <1>4 DEF MailInv, QueueText, GoOn
  <2>2. /\ phase' \in [Tasks -> {"none", "queued", "running", "waiting"} \cup Done]
        /\ \A e \in Dispatches : phase'[Mail(e)] = phase[Mail(e)]
    BY <1>4, TaskKinds DEF MailInv, QueueText, Move
  <2> QED
    BY <1>1, <1>2, <2>1, <2>2 DEF MailInv
<1>5. CASE QueueMail(d)
  <2>1. phase' \in [Tasks -> {"none", "queued", "running", "waiting"} \cup Done]
    BY <1>5 DEF MailInv, QueueMail, Move
  <2>2. ASSUME NEW e \in Dispatches
        PROVE  \/ e = d /\ "mail" \in Contacts /\ phase'[Mail(e)] = "queued"
               \/ /\ phase'[Mail(e)] = phase[Mail(e)]
                  /\ "mail" \in Contacts => dispatch'[e] = dispatch[e]
    BY <1>5, TaskKinds DEF MailInv, QueueMail, Move, GoOn
  <2>3. ASSUME NEW e \in Dispatches
        PROVE  /\ dispatch'[e] = "done" /\ "mail" \in Contacts => phase'[Mail(e)] # "none"
               /\ phase'[Mail(e)] \notin {"waiting", "dropped"}
               /\ phase'[Mail(e)] = "sent" => reached'[Mail(e)]
    BY <1>1, <2>2 DEF MailInv
  <2> QED
    BY <1>2, <1>1, <2>1, <2>3 DEF MailInv
<1> QED
  BY <1>3, <1>4, <1>5 DEF Serve

LEMMA AttemptHolds ==
  ASSUME MailInv, NEW t \in Tasks, NEW b \in BOOLEAN, Attempt(t, b)
  PROVE  /\ reached' \in [Tasks -> BOOLEAN]
         /\ \A u \in Tasks : reached[u] => reached'[u]
         /\ b => reached'[t]
BY DEF MailInv, Attempt

\* What the worker does with a task.
LEMMA WorkHolds ==
  ASSUME MailInv, NEW t \in Tasks, Work(t)
  PROVE  MailInv'
<1>1. reached \in [Tasks -> BOOLEAN]
  BY DEF MailInv
<1>2. CASE Take(t)
  BY <1>1, <1>2, MoveHolds DEF Take
<1>3. CASE SendText(t)
  BY <1>3, MoveHolds, AttemptHolds DEF SendText, Done
<1>4. CASE DropText(t)
  BY <1>1, <1>4, MoveHolds DEF DropText, Done
<1>5. CASE RetryText(t)
  <2>1. /\ reached' \in [Tasks -> BOOLEAN]
        /\ \A u \in Tasks : reached[u] => reached'[u]
    BY <1>1, <1>5, AttemptHolds DEF RetryText
  <2>2. t.kind = "sms" /\ dispatch' = dispatch
    BY <1>5 DEF RetryText
  <2>3. Move(t, "waiting") \/ Move(t, "failed")
    BY <1>5 DEF RetryText
  <2> QED
    BY <2>1, <2>2, <2>3, MoveHolds DEF Done
<1>6. CASE Due(t)
  BY <1>1, <1>6, MoveHolds DEF Due
<1>7. CASE SendMail(t)
  BY <1>1, <1>7, MoveHolds, AttemptHolds DEF SendMail, Done
<1> QED
  BY <1>2, <1>3, <1>4, <1>5, <1>6, <1>7 DEF Work

LEMMA MailKept == MailInv /\ [Next]_vars => MailInv'
<1> SUFFICES ASSUME MailInv, [Next]_vars PROVE MailInv'
  OBVIOUS
<1>1. CASE WorkerDies
  <2>1. dispatch' = dispatch /\ reached' = reached
    BY <1>1 DEF WorkerDies
  <2>2. phase' = [t \in Tasks |-> IF phase[t] = "running" THEN "lost" ELSE phase[t]]
    BY <1>1 DEF WorkerDies
  <2>3. phase' \in [Tasks -> {"none", "queued", "running", "waiting"} \cup Done]
    BY <2>2 DEF MailInv, Done
  <2>4. \A d \in Dispatches : phase'[Mail(d)] = phase[Mail(d)] \/ phase'[Mail(d)] = "lost"
    BY <2>2, TaskKinds
  <2> QED
    BY <2>1, <2>3, <2>4 DEF MailInv
<1>2. CASE UNCHANGED vars
  BY <1>2 DEF vars, taskVars, MailInv
<1> QED
  BY <1>1, <1>2, DispatchHolds, WorkHolds DEF Next

\* Whatever becomes of the broker and the worker, a code whose request was done
\* for a customer with a phone and an address is only lost on both channels.
THEOREM OneChannelIsEnough == Spec => []LostOnlyOnBoth
<1>1. Init => MailInv
  BY TaskKinds DEF Init, MailInv
<1>2. MailInv => LostOnlyOnBoth
  <2> SUFFICES ASSUME MailInv, NEW d \in Dispatches, dispatch[d] = "done",
                      Contacts = {"sms", "mail"}, ~reached[Mail(d)]
               PROVE  phase[Mail(d)] \in {"queued", "running", "failed", "lost"}
    BY DEF LostOnlyOnBoth
  <2>1. phase[Mail(d)] \in {"none", "queued", "running", "waiting"} \cup Done
    BY TaskKinds DEF MailInv
  <2> QED
    BY <2>1 DEF MailInv, Done
<1> QED
  BY <1>1, <1>2, MailKept, PTL DEF Spec
\* What TasksEnd rests on: a task is queued once, its retries are counted, and so
\* every step it takes leaves it fewer to take.
EndInv ==
  /\ retries \in [Tasks -> Nat] /\ \A t \in Tasks : retries[t] <= MaxRetries
  /\ \A d \in Dispatches :
       /\ dispatch[d] \in {"new", "text"} => phase[Text(d)] = "none"
       /\ dispatch[d] \in {"new", "text", "mail"} => phase[Mail(d)] = "none"

StepsFrom == [waiting |-> 3, queued |-> 2, running |-> 1]

StepsLeft(t) ==
  IF phase[t] \in Done THEN 0 ELSE 3 * (MaxRetries - retries[t]) + StepsFrom[phase[t]]

\* A task that was queued is nearer its end, or where it was.
Nearer(t) == phase[t] # "none" /\ phase'[t] # phase[t] => StepsLeft(t)' < StepsLeft(t)

LEMMA DispatchEnds ==
  ASSUME MailInv, EndInv, NEW d \in Dispatches, Serve(d) \/ BrokerDown(d)
  PROVE  EndInv' /\ \A t \in Tasks : Nearer(t)
<1>1. retries' = retries
  BY DEF Serve, BrokerDown, StoreCode, QueueText, QueueMail, taskVars
<1>2. \A e \in Dispatches : e # d => dispatch'[e] = dispatch[e]
  BY DEF MailInv, Serve, BrokerDown, StoreCode, QueueText, QueueMail, GoOn
<1>3. /\ dispatch'[d] \in {"new", "text"} => dispatch[d] \in {"new", "text"} /\ phase' = phase
      /\ dispatch'[d] \in {"new", "text", "mail"} =>
           /\ dispatch[d] \in {"new", "text", "mail"}
           /\ phase'[Mail(d)] = phase[Mail(d)]
  BY TaskKinds DEF MailInv, Serve, BrokerDown, StoreCode, QueueText, QueueMail, GoOn, Move, taskVars
<1>4. \A t \in Tasks : phase'[t] # phase[t] => phase[t] = "none" /\ t \in {Text(d), Mail(d)}
  BY TaskKinds DEF MailInv, EndInv, Serve, BrokerDown, StoreCode, QueueText, QueueMail, Move, taskVars
<1>5. ASSUME NEW e \in Dispatches, e # d
      PROVE  phase'[Text(e)] = phase[Text(e)] /\ phase'[Mail(e)] = phase[Mail(e)]
  BY <1>4, <1>5, TaskKinds DEF Text, Mail
<1> QED
  BY <1>1, <1>2, <1>3, <1>4, <1>5 DEF EndInv, Nearer

LEMMA WorkEnds ==
  ASSUME MailInv, EndInv, NEW t \in Tasks, Work(t)
  PROVE  EndInv' /\ \A u \in Tasks : Nearer(u)
<1>1. dispatch' = dispatch /\ phase[t] # "none"
  BY DEF Work, Take, SendText, DropText, RetryText, Due, SendMail
<1>2. PICK to : phase' = [phase EXCEPT ![t] = to]
  BY DEF Work, Take, SendText, DropText, RetryText, Due, SendMail, Move
<1>3. phase \in [Tasks -> {"none", "queued", "running", "waiting"} \cup Done]
  BY DEF MailInv
<1>4. phase'[t] = to /\ \A u \in Tasks : u # t => phase'[u] = phase[u]
  BY <1>2, <1>3
<1>5. \/ retries' = retries /\ phase[t] = "queued" /\ to = "running"
      \/ retries' = retries /\ phase[t] = "waiting" /\ to = "queued"
      \/ retries' = retries /\ phase[t] = "running" /\ to \in Done
      \/ /\ phase[t] = "running" /\ to = "waiting" /\ retries[t] < MaxRetries
         /\ retries' = [retries EXCEPT ![t] = @ + 1]
  BY <1>3, <1>4 DEF Work, Take, SendText, DropText, RetryText, MayRetry, NextRetry, Due, SendMail, Move, Done
<1>6. \A u \in Tasks : retries[u] \in Nat /\ retries[u] <= MaxRetries
  BY DEF EndInv
<1>7. /\ retries' \in [Tasks -> Nat]
      /\ retries'[t] = IF to = "waiting" THEN retries[t] + 1 ELSE retries[t]
      /\ \A u \in Tasks : u # t => retries'[u] = retries[u]
      /\ retries'[t] <= MaxRetries
  <2>1. CASE retries' = retries /\ to # "waiting"
    BY <1>6, <2>1 DEF EndInv
  <2>2. CASE /\ to = "waiting" /\ retries[t] < MaxRetries
             /\ retries' = [retries EXCEPT ![t] = @ + 1]
    BY <1>6, <2>2, RetryAssumption DEF EndInv
  <2> QED
    BY <1>5, <2>1, <2>2 DEF Done
<1>8. \A u \in Tasks : phase[u] = "none" => phase'[u] = "none"
  BY <1>1, <1>4
<1>9. StepsLeft(t)' < StepsLeft(t)
  BY <1>4, <1>5, <1>6, <1>7, RetryAssumption DEF StepsLeft, StepsFrom, Done
<1> QED
  BY <1>1, <1>4, <1>6, <1>7, <1>8, <1>9, TaskKinds DEF EndInv, Nearer

LEMMA StepEnds ==
  MailInv /\ EndInv /\ [Next]_vars => EndInv' /\ \A t \in Tasks : Nearer(t)
<1> SUFFICES ASSUME MailInv, EndInv, [Next]_vars PROVE EndInv' /\ \A t \in Tasks : Nearer(t)
  OBVIOUS
<1>1. CASE WorkerDies
  <2>1. dispatch' = dispatch /\ retries' = retries
    BY <1>1 DEF WorkerDies
  <2>2. phase' = [t \in Tasks |-> IF phase[t] = "running" THEN "lost" ELSE phase[t]]
    BY <1>1 DEF WorkerDies
  <2>3. \A t \in Tasks : phase[t] = "none" => phase'[t] = "none"
    BY <2>2
  <2>4. ASSUME NEW t \in Tasks, phase'[t] # phase[t] PROVE StepsLeft(t)' < StepsLeft(t)
    <3>1. phase[t] = "running" /\ phase'[t] = "lost" /\ retries[t] \in Nat /\ retries[t] <= MaxRetries
      BY <2>2, <2>4 DEF EndInv
    <3> QED
      BY <3>1, RetryAssumption DEF StepsLeft, StepsFrom, Done
  <2> QED
    BY <2>1, <2>3, <2>4, TaskKinds DEF EndInv, Nearer
<1>2. CASE UNCHANGED vars
  BY <1>2 DEF vars, taskVars, EndInv, Nearer
<1> QED
  BY <1>1, <1>2, DispatchEnds, WorkEnds DEF Next

\* However often a text is retried and whatever dies, a task that was queued has
\* a bounded number of steps before it, and each one it takes leaves fewer.
THEOREM TasksRunOut ==
  Spec => /\ [](\A t \in Tasks : phase[t] # "none" =>
                  StepsLeft(t) \in Nat /\ StepsLeft(t) <= 3 * MaxRetries + 3)
          /\ [][\A t \in Tasks : Nearer(t)]_vars
<1> DEFINE Bounded == \A t \in Tasks : phase[t] # "none" =>
                        StepsLeft(t) \in Nat /\ StepsLeft(t) <= 3 * MaxRetries + 3
           AllNearer == \A t \in Tasks : Nearer(t)
<1>1. Init => MailInv /\ EndInv
  BY TaskKinds, RetryAssumption DEF Init, MailInv, EndInv
<1>2. MailInv /\ EndInv => Bounded
  <2> SUFFICES ASSUME MailInv, EndInv, NEW t \in Tasks, phase[t] # "none"
               PROVE  StepsLeft(t) \in Nat /\ StepsLeft(t) <= 3 * MaxRetries + 3
    OBVIOUS
  <2>1. /\ retries[t] \in Nat /\ retries[t] <= MaxRetries
        /\ phase[t] \in {"queued", "running", "waiting"} \cup Done
    BY DEF MailInv, EndInv
  <2> QED
    BY <2>1, RetryAssumption DEF StepsLeft, StepsFrom
<1>3. MailInv /\ EndInv /\ [Next]_vars => [AllNearer]_vars
  BY StepEnds
<1> QED
  BY <1>1, <1>2, <1>3, MailKept, StepEnds, PTL DEF Spec
=============================================================================
