----------------------------- MODULE DSARIntake -----------------------------
(***************************************************************************)
(* The channels in front of one DSARService: the REST gateway               *)
(* (dsar_gateway.py, a thread per request, one lock), the pull listener     *)
(* (dsar_listener.py, one loop over a drop folder and a topic) and the MCP  *)
(* server (mcp_server.py, one loop over stdin). Every actor runs the same   *)
(* code of DSARService, each with a call of its own; that they take turns   *)
(* is what the lock and the loops are for, and what is checked here.        *)
(*                                                                         *)
(* A deployment uses one of the three channels (variable mode).             *)
(***************************************************************************)
EXTENDS Integers, Sequences, FiniteSets

CONSTANTS
    Ids, NoId, Terms, KindOf, TermOf, Suspicious, DirectTerms,  \* of DSARService
    FreshIds,       \* the ids from_dict draws for a request that has none
    Files,          \* drop files, numbered in filename order
    Topic,          \* the records of the topic, a sequence of numbers
    RequestOf,      \* request_id of a file or record, NoId when it has none
    Broken,         \* those that cannot be parsed or validated
    Threads, Loop,  \* the gateway's threads, and the single thread of a loop
    Modes,          \* channels a deployment may use
    MaxDrops, MaxRequests, MaxCrashes, MaxFaults,   \* bounds
    MaxAudit, MaxAside                              \* bounds of DSARService

Messages == Files \cup {Topic[k] : k \in DOMAIN Topic}
Actors == Threads \cup {Loop}
NoMessage == 0
Free == Loop        \* the lock is a thread's or free

ASSUME IntakeAssumption ==
    /\ NoId \notin Ids
    /\ KindOf \in [Ids -> {"erasure", "consent_withdrawal", "access"}]
    /\ TermOf \in [Ids -> Terms]
    /\ Suspicious \subseteq {id \in Ids : KindOf[id] # "access"}
    /\ DirectTerms \subseteq Terms
    /\ Topic \in Seq(Nat \ {NoMessage}) /\ Files \subseteq Nat \ {NoMessage}
    /\ \A k \in DOMAIN Topic : Topic[k] \notin Files
    /\ RequestOf \in [Messages -> Ids \cup {NoId}]
    /\ FreshIds \subseteq Ids /\ Broken \subseteq Messages
    /\ \A m \in Messages : RequestOf[m] \notin FreshIds
    /\ Loop \notin Threads
    /\ Modes \subseteq {"push", "pull", "agent"}
    /\ {MaxDrops, MaxRequests, MaxCrashes, MaxFaults, MaxAudit, MaxAside} \subseteq Nat

VARIABLES
    audit, pending, registry, loaded, drains,   \* of DSARService, shared by the actors
    calls,          \* per actor, the service call it is in
    request,        \* per actor, what it still has to ask of the service
    lock,           \* DSARHTTPServer.lock
    mode,
    folder,         \* files of the drop folder not yet moved
    listing,        \* those of the poll under way still to be moved
    batch,          \* messages taken and not yet processed
    now,            \* the message process_one is at
    source, phase,  \* where run() is
    published,      \* records the topic holds
    offset,         \* the consumer's position in the topic
    committed,      \* the position it resumes from
    settled,        \* messages that got a result (ghost)
    answered,       \* messages whose result was not an error (ghost)
    lost,           \* files moved away and never settled (ghost)
    drawn,          \* fresh ids in use
    cut,            \* requests whose execution was interrupted (ghost)
    drops, requests, crashes, faults    \* bounded counters

shared == <<audit, pending, registry, loaded, drains>>
queues == <<folder, listing, batch, now, source, phase, published, offset, committed>>
fates == <<settled, answered, lost>>
counters == <<drops, requests, crashes, faults>>
vars == <<shared, calls, request, lock, mode, queues, fates, drawn, cut, counters>>

-----------------------------------------------------------------------------
(* The service, as one actor runs it and as the deployment sees it. *)

As(a) == INSTANCE DSARService WITH call <- calls[a]
NoCall == As(Loop)!NoCall

Busy == {a \in Actors : calls[a] # NoCall}
CallUnderWay == IF Busy = {} THEN NoCall ELSE calls[CHOOSE a \in Busy : TRUE]
Service == INSTANCE DSARService WITH call <- CallUnderWay

Nothing == [todo |-> <<>>, id |-> NoId]
Asking(todo, id) == [todo |-> todo, id |-> id]

\* The calls an actor can be in after one step of request id.
CallsAfter(a, id) ==
    {NoCall} \cup [op : {"record_hold", "export", "record_rejection"}, id : {id}]
             \cup [op : {"record", "record_approval"}, id : {id},
                   before : {As(a)!CertificatesIn(audit)}
                            \cup (IF calls[a].op = "run_approved" THEN {calls[a].before} ELSE {})]
             \cup [op : {"run_approved"}, id : {id}, before : {As(a)!CertificatesIn(audit)},
                   hold : {pending[n] : n \in DOMAIN pending}]

\* The first effect of a call, or all there is to it.
Begin(a, op, id) ==
    \/ op = "plan" /\ As(a)!Plan
    \/ /\ op = "execute"
       /\ \/ As(a)!ExecuteRevocation(id) \/ As(a)!ExecuteHeld(id) \/ As(a)!ExecuteAccess(id)
          \/ As(a)!Known(id) # As(a)!Unanswered /\ As(a)!Consult
    \/ /\ op = "verify"
       /\ \/ As(a)!Verify(id)
          \/ As(a)!Known(id) = As(a)!Unanswered /\ As(a)!Consult
    \/ /\ op = "approve"
       /\ As(a)!Approve(id) \/ (As(a)!Known(id).status # "held" /\ As(a)!Consult)
    \/ /\ op = "reject"
       /\ As(a)!Reject(id) \/ (As(a)!Known(id).status # "held" /\ As(a)!Consult)
    \/ op = "status" /\ As(a)!Consult
    \/ op = "forget" /\ \E term \in DirectTerms : As(a)!DirectForget(term)

\* The effects that follow it.
Resume(a) ==
    \/ As(a)!RecordExecuted \/ As(a)!RecordHeld \/ As(a)!ExportAccess
    \/ As(a)!RunApproved \/ As(a)!RecordApproval \/ As(a)!RecordRejection

\* (Mutants of a definition stand before it; no behaviour of Spec uses them.)
NoLock(a) == a \in Actors
HasTurn(a) == a = Loop \/ lock = a

\* One step of a call: every durable effect is a step of its own.
Serve(a) ==
    /\ request[a] # Nothing
    /\ HasTurn(a)
    /\ \E call \in CallsAfter(a, request[a].id) :
          /\ calls' = [calls EXCEPT ![a] = call]
          /\ \/ /\ calls[a] = NoCall /\ request[a].todo # <<>>
                /\ Begin(a, Head(request[a].todo), request[a].id)
                /\ request' = [request EXCEPT ![a].todo = Tail(@)]
             \/ Resume(a) /\ UNCHANGED request
    /\ UNCHANGED <<lock, mode, queues, fates, drawn, cut, counters>>

Finished(a) == request[a] # Nothing /\ request[a].todo = <<>> /\ calls[a] = NoCall
\* An effect without its summary.
Open(a) == IF calls[a] = NoCall THEN {} ELSE {calls[a].id}

\* The call raises between two effects; the caller is told, what was done stays.
Raise(a) ==
    /\ faults < MaxFaults /\ faults' = faults + 1
    /\ request[a].todo # <<>> \/ calls[a] # NoCall
    /\ HasTurn(a)
    /\ cut' = cut \cup Open(a)
    /\ calls' = [calls EXCEPT ![a] = NoCall]
    /\ request' = [request EXCEPT ![a] = Asking(<<"raised">>, @.id)]
    /\ UNCHANGED <<shared, lock, mode, queues, fates, drawn, drops, requests, crashes>>

Raised(a) == request[a].todo = <<"raised">>

-----------------------------------------------------------------------------
(* The gateway: a thread per request, served under the lock. *)

GatewayOps == {"plan", "execute", "verify", "approve", "reject", "status"}

Arrive(t) ==
    /\ mode = "push" /\ requests < MaxRequests
    /\ request[t] = Nothing
    /\ \E op \in GatewayOps, id \in Ids \ FreshIds :
          request' = [request EXCEPT ![t] = Asking(<<op>>, id)]
    /\ requests' = requests + 1
    /\ UNCHANGED <<shared, calls, lock, mode, queues, fates, drawn, cut, drops, crashes, faults>>

AcquireAnyway(t) ==
    /\ request[t] # Nothing
    /\ lock' = t
    /\ UNCHANGED <<shared, calls, request, mode, queues, fates, drawn, cut, counters>>

Acquire(t) ==
    /\ request[t] # Nothing /\ lock = Free
    /\ lock' = t
    /\ UNCHANGED <<shared, calls, request, mode, queues, fates, drawn, cut, counters>>

\* handle_raw and dispatch answer by themselves: token, size, JSON, route, verb, fields.
Refuse(t) ==
    /\ lock = t /\ calls[t] = NoCall
    /\ request[t].todo # <<>> /\ ~ Raised(t)
    /\ request' = [request EXCEPT ![t].todo = <<>>]
    /\ UNCHANGED <<shared, calls, lock, mode, queues, fates, drawn, cut, counters>>

RespondNoFinally(t) ==
    /\ lock = t
    /\ Finished(t) \/ Raised(t)
    /\ request' = [request EXCEPT ![t] = Nothing]
    /\ lock' = IF Raised(t) THEN lock ELSE Free
    /\ UNCHANGED <<shared, calls, mode, queues, fates, drawn, cut, counters>>

\* The lock is given back before the response is written, error or not.
Respond(t) ==
    /\ lock = t
    /\ Finished(t) \/ Raised(t)
    /\ request' = [request EXCEPT ![t] = Nothing]
    /\ lock' = Free
    /\ UNCHANGED <<shared, calls, mode, queues, fates, drawn, cut, counters>>

-----------------------------------------------------------------------------
(* The MCP server: read a line, run the tool, write the line. *)

ToolOps == {"plan", "execute", "verify", "forget"}

ReadLine ==
    /\ mode = "agent" /\ requests < MaxRequests
    /\ request[Loop] = Nothing
    /\ \E op \in ToolOps, id \in Ids \ FreshIds :
          request' = [request EXCEPT ![Loop] = Asking(<<op>>, id)]
    /\ requests' = requests + 1
    /\ UNCHANGED <<shared, calls, lock, mode, queues, fates, drawn, cut, drops, crashes, faults>>

WriteLine ==
    /\ mode = "agent"
    /\ Finished(Loop) \/ Raised(Loop)
    /\ request' = [request EXCEPT ![Loop] = Nothing]
    /\ UNCHANGED <<shared, calls, lock, mode, queues, fates, drawn, cut, counters>>

-----------------------------------------------------------------------------
(* The world around the listener. *)

Drop(file) ==
    /\ mode = "pull" /\ drops < MaxDrops /\ drops' = drops + 1
    /\ folder' = folder \cup {file}
    /\ UNCHANGED <<shared, calls, request, lock, mode, listing, batch, now, source, phase,
                   published, offset, committed, fates, drawn, cut, requests, crashes, faults>>

Publish ==
    /\ mode = "pull" /\ published < Len(Topic)
    /\ published' = published + 1
    /\ UNCHANGED <<shared, calls, request, lock, mode, folder, listing, batch, now, source, phase,
                   offset, committed, fates, drawn, cut, counters>>

\* Offset management stays with the consumer that owns it: it may commit at any time.
Commit ==
    /\ committed < offset
    /\ committed' = committed + 1
    /\ UNCHANGED <<shared, calls, request, lock, mode, folder, listing, batch, now, source, phase,
                   published, offset, fates, drawn, cut, counters>>

-----------------------------------------------------------------------------
(* DSARListener.run: poll a source, process what it returned, poll the next one. *)

Lowest(files) == CHOOSE f \in files : \A g \in files : f <= g
InHand == ({batch[k] : k \in DOMAIN batch} \cup {now}) \ {NoMessage}

ListFolder ==
    /\ mode = "pull" /\ source = "folder" /\ phase = "poll"
    /\ listing' = folder
    /\ phase' = "move"
    /\ UNCHANGED <<shared, calls, request, lock, mode, folder, batch, now, source,
                   published, offset, committed, fates, drawn, cut, counters>>

CopyFile ==
    /\ phase = "move" /\ listing # {}
    /\ listing' = listing \ {Lowest(listing)}
    /\ batch' = Append(batch, Lowest(listing))
    /\ UNCHANGED <<shared, calls, request, lock, mode, folder, now, source, phase,
                   published, offset, committed, fates, drawn, cut, counters>>

\* Read, move to processed/, remember: one file of the poll.
MoveFile ==
    /\ phase = "move" /\ listing # {}
    /\ LET file == Lowest(listing)
       IN  /\ listing' = listing \ {file}
           /\ folder' = folder \ {file}
           /\ batch' = Append(batch, file)
    /\ UNCHANGED <<shared, calls, request, lock, mode, now, source, phase,
                   published, offset, committed, fates, drawn, cut, counters>>

PollReturns ==
    /\ phase = "move" /\ listing = {}
    /\ phase' = "work"
    /\ UNCHANGED <<shared, calls, request, lock, mode, folder, listing, batch, now, source,
                   published, offset, committed, fates, drawn, cut, counters>>

\* poll() raises: an error entry for the source, and the files it had moved are gone.
PollRaises ==
    /\ phase = "move" /\ faults < MaxFaults /\ faults' = faults + 1
    /\ lost' = lost \cup InHand
    /\ listing' = {} /\ batch' = <<>>
    /\ source' = "topic" /\ phase' = "poll"
    /\ UNCHANGED <<shared, calls, request, lock, mode, folder, now, published, offset, committed,
                   settled, answered, drawn, cut, drops, requests, crashes>>

\* KafkaSource.poll: one batch, of any length; nothing is committed here.
PollTopic ==
    /\ mode = "pull" /\ source = "topic" /\ phase = "poll"
    /\ \E n \in offset .. published :
          /\ batch' = SubSeq(Topic, offset + 1, n)
          /\ offset' = n
    /\ phase' = "work"
    /\ UNCHANGED <<shared, calls, request, lock, mode, folder, listing, now, source,
                   published, committed, fates, drawn, cut, counters>>

NextSourceEarly ==
    /\ phase = "work" /\ now = NoMessage
    /\ source' = IF source = "folder" THEN "topic" ELSE "folder"
    /\ phase' = "poll"
    /\ UNCHANGED <<shared, calls, request, lock, mode, folder, listing, batch, now,
                   published, offset, committed, fates, drawn, cut, counters>>

NextSource ==
    /\ phase = "work" /\ batch = <<>> /\ now = NoMessage
    /\ source' = IF source = "folder" THEN "topic" ELSE "folder"
    /\ phase' = "poll"
    /\ UNCHANGED <<shared, calls, request, lock, mode, folder, listing, batch, now,
                   published, offset, committed, fates, drawn, cut, counters>>

\* from_dict keeps the request_id of the payload and draws one when there is none.
IdsFor(m) == IF RequestOf[m] # NoId THEN {RequestOf[m]} ELSE FreshIds \ drawn

\* process_one up to the first service call.
TakeMessage ==
    /\ phase = "work" /\ now = NoMessage /\ batch # <<>> /\ Head(batch) \notin Broken
    /\ now' = Head(batch) /\ batch' = Tail(batch)
    /\ \E id \in IdsFor(Head(batch)) :
          /\ request' = [request EXCEPT ![Loop] = Asking(<<"plan", "execute", "verify">>, id)]
          /\ drawn' = drawn \cup ({id} \cap FreshIds)
    /\ UNCHANGED <<shared, calls, lock, mode, folder, listing, source, phase,
                   published, offset, committed, fates, cut, counters>>

\* A message that does not parse becomes an error entry, and is dropped.
DropBroken ==
    /\ phase = "work" /\ now = NoMessage /\ batch # <<>> /\ Head(batch) \in Broken
    /\ batch' = Tail(batch)
    /\ settled' = settled \cup {Head(batch)}
    /\ UNCHANGED <<shared, calls, request, lock, mode, folder, listing, now, source, phase,
                   published, offset, committed, answered, lost, drawn, cut, counters>>

SettleAs(counted) ==
    /\ now # NoMessage
    /\ settled' = settled \cup {now}
    /\ answered' = answered \cup counted
    /\ request' = [request EXCEPT ![Loop] = Nothing]
    /\ now' = NoMessage
    /\ UNCHANGED <<shared, calls, lock, mode, folder, listing, batch, source, phase,
                   published, offset, committed, lost, drawn, cut, counters>>

SettleCountsErrors == (Finished(Loop) \/ Raised(Loop)) /\ SettleAs({now})
SettleDiesOnError == Finished(Loop) /\ ~ Raised(Loop) /\ SettleAs({now})
\* The result of the message, an error entry if any call of it raised.
Settle ==
    /\ Finished(Loop) \/ Raised(Loop)
    /\ SettleAs(IF Raised(Loop) THEN {} ELSE {now})

-----------------------------------------------------------------------------
(* The process stops, at any point, and starts again over the same trail. *)

Crash ==
    /\ crashes < MaxCrashes /\ crashes' = crashes + 1
    /\ calls' = [a \in Actors |-> NoCall] /\ Service!Crash
    /\ cut' = cut \cup UNION {Open(a) : a \in Actors}
    /\ request' = [a \in Actors |-> Nothing] /\ lock' = Free
    /\ listing' = {} /\ batch' = <<>> /\ now' = NoMessage
    /\ source' = "folder" /\ phase' = "poll"
    /\ offset' = committed
    /\ lost' = lost \cup (InHand \cap Files)
    /\ UNCHANGED <<mode, folder, published, committed, settled, answered, drawn,
                   drops, requests, faults>>

Init ==
    /\ calls = [a \in Actors |-> NoCall]
    /\ drains = FALSE /\ Service!Init       \* a restart may come while a request is held
    /\ request = [a \in Actors |-> Nothing] /\ lock = Free
    /\ mode \in Modes
    /\ folder = {} /\ listing = {} /\ batch = <<>> /\ now = NoMessage
    /\ source = "folder" /\ phase = "poll"
    /\ published = 0 /\ offset = 0 /\ committed = 0
    /\ settled = {} /\ answered = {} /\ lost = {} /\ drawn = {} /\ cut = {}
    /\ drops = 0 /\ requests = 0 /\ crashes = 0 /\ faults = 0

ThreadStep(t) == Serve(t) \/ Refuse(t) \/ Respond(t)
ListenerStep ==
    \/ ListFolder \/ MoveFile \/ PollReturns \/ PollTopic \/ NextSource
    \/ TakeMessage \/ DropBroken \/ Settle \/ Serve(Loop)

Next ==
    \/ \E t \in Threads : Arrive(t) \/ Acquire(t) \/ ThreadStep(t)
    \/ ReadLine \/ WriteLine
    \/ \E file \in Files : Drop(file)
    \/ Publish \/ Commit
    \/ ListenerStep \/ PollRaises
    \/ \E a \in Actors : Raise(a)
    \/ Crash

\* The threads are the operating system's to run, and run() never stops polling;
\* nobody owes the program a request, a commit, a failure or a crash.
Fairness == WF_vars(ListenerStep) /\ \A t \in Threads : WF_vars(ThreadStep(t))

Spec == Init /\ [][Next]_vars /\ Fairness

-----------------------------------------------------------------------------
(* Properties. *)

RequestType == [todo : Seq(GatewayOps \cup ToolOps \cup {"raised"}), id : Ids \cup {NoId}]

\* Every variable keeps its type; the listener holds what its phase says it holds.
TypeOK ==
    /\ Service!TypeOK /\ \A a \in Actors : As(a)!TypeOK
    /\ request \in [Actors -> RequestType] /\ lock \in Threads \cup {Free}
    /\ mode \in Modes
    /\ folder \subseteq Files /\ listing \subseteq folder
    /\ batch \in Seq(Messages) /\ now \in Messages \cup {NoMessage}
    /\ source \in {"folder", "topic"} /\ phase \in {"poll", "move", "work"}
    /\ committed \in 0 .. offset /\ offset \in 0 .. published /\ published \in 0 .. Len(Topic)
    /\ phase = "poll" => InHand = {} /\ listing = {}
    /\ phase = "move" => source = "folder" /\ now = NoMessage
    /\ answered \subseteq settled /\ settled \subseteq Messages /\ lost \subseteq Files
    /\ drawn \subseteq FreshIds /\ cut \subseteq Ids
    /\ drops \in 0 .. MaxDrops /\ requests \in 0 .. MaxRequests
    /\ crashes \in 0 .. MaxCrashes /\ faults \in 0 .. MaxFaults

\* Whatever the channel, the service sees one call at a time: every step of an actor
\* is a step of the serial DSARService, but for the exception that ends a call early.
SerialService ==
    Service!Init /\ [][Service!Next \/ faults' # faults]_(Service!vars)

Drops == INSTANCE DropDelivery WITH
    waiting <- folder, taken <- InHand \cap Files, settled <- settled \cap Files

\* A dropped file is waiting, taken, settled or lost, and moves on as DropDelivery says.
FilesDelivered == Drops!Spec

\* A dropped file is taken however busy the other source is, and is settled or lost.
FilesProgress == Drops!Progress

\* docs/servicenow_integration.md: execute runs exactly once per request_id, with
\* redelivery, retries over HTTP and reviews; an interrupted execution is excepted.
ExecutedOnce ==
    \A id \in Ids \ cut : Cardinality(Service!Carried(id)) <= 1

\* A result without error is backed by the trail: an answered message that names its
\* request stays answered across restarts.
AnswerOnRecord ==
    \A m \in answered : RequestOf[m] # NoId => Service!Latest(audit, RequestOf[m]) # Service!Unanswered

\* The lock is always given back.
LockReleased == \A t \in Threads : lock = t ~> lock # t
=============================================================================
