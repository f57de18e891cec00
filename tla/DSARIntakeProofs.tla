-------------------------- MODULE DSARIntakeProofs --------------------------
(***************************************************************************)
(* What holds of DSARIntake for every set of threads, requests, files and   *)
(* records, and however often it is restarted or a call of it raises: the   *)
(* service sees one call at a time, a request is carried out once, what was *)
(* answered is on record, and a dropped file is delivered or lost.          *)
(*                                                                         *)
(* What was proved of the service under one caller is used here of the      *)
(* service under all of them: its call is the one of the actor whose turn   *)
(* it is.                                                                  *)
(***************************************************************************)
EXTENDS DSARIntake, FiniteSetTheorems, WellFoundedInduction, TLAPS

\* The theorems of the service, about the call that is under way.
Facts == INSTANCE DSARServiceProofs WITH call <- CallUnderWay

\* What is assumed of the deployment is what the service assumes.
LEMMA FactsAssumption == Facts!DSARAssumption
BY IntakeAssumption DEF Facts!DSARAssumption

\* What the service reads, seen by an actor and by the deployment.
LEMMA SameLatest ==
    ASSUME NEW a \in Actors, NEW log, NEW id
    PROVE  /\ As(a)!Latest(log, id) = Facts!Latest(log, id)
           /\ Service!Latest(log, id) = Facts!Latest(log, id)
BY DEF As!Latest, As!Summaries, As!Newest, As!Unanswered, As!RegistryActions,
       Facts!Latest, Facts!Summaries, Facts!Newest, Facts!Unanswered, Facts!RegistryActions,
       Service!Latest, Service!Summaries, Service!Newest, Service!Unanswered, Service!RegistryActions

\* The registry, rebuilt or not, is the same whoever asks it.
LEMMA SameKnown ==
    ASSUME NEW a \in Actors
    PROVE  /\ As(a)!Rehydrated = Facts!Rehydrated /\ Service!Rehydrated = Facts!Rehydrated
           /\ \A id : As(a)!Known(id) = Facts!Known(id) /\ Service!Known(id) = Facts!Known(id)
           /\ As(a)!EnsureRegistry <=> Facts!EnsureRegistry
           /\ Service!EnsureRegistry <=> Facts!EnsureRegistry
<1>1. As(a)!Rehydrated = Facts!Rehydrated /\ Service!Rehydrated = Facts!Rehydrated
    BY SameLatest DEF As!Rehydrated, Facts!Rehydrated, Service!Rehydrated
<1> QED BY <1>1 DEF As!Known, Facts!Known, Service!Known, As!EnsureRegistry,
                    Facts!EnsureRegistry, Service!EnsureRegistry

\* So are the certificates, the holds and the bound on what is beside them.
LEMMA SameData ==
    ASSUME NEW a \in Actors
    PROVE  /\ \A log, before :
                 /\ As(a)!NewCertificate(log, before) = Facts!NewCertificate(log, before)
                 /\ Service!NewCertificate(log, before) = Facts!NewCertificate(log, before)
           /\ \A log : /\ As(a)!CertificatesIn(log) = Facts!CertificatesIn(log)
                       /\ Service!CertificatesIn(log) = Facts!CertificatesIn(log)
           /\ \A list : /\ As(a)!NewestHold(list) = Facts!NewestHold(list)
                        /\ Service!NewestHold(list) = Facts!NewestHold(list)
           /\ As(a)!AsideCount = Facts!AsideCount /\ Service!AsideCount = Facts!AsideCount
<1>1. \A log : /\ As(a)!CertificatesIn(log) = Facts!CertificatesIn(log)
                /\ Service!CertificatesIn(log) = Facts!CertificatesIn(log)
    BY DEF As!CertificatesIn, Facts!CertificatesIn, Service!CertificatesIn
<1>2. ASSUME NEW log, NEW before
      PROVE  /\ As(a)!NewCertificate(log, before) = Facts!NewCertificate(log, before)
             /\ Service!NewCertificate(log, before) = Facts!NewCertificate(log, before)
    BY DEF As!NewCertificate, As!Newest, As!None, As!CertificatesIn, Facts!NewCertificate,
           Facts!Newest, Facts!None, Facts!CertificatesIn, Service!NewCertificate,
           Service!Newest, Service!None, Service!CertificatesIn
<1>3. \A list : /\ As(a)!NewestHold(list) = Facts!NewestHold(list)
                 /\ Service!NewestHold(list) = Facts!NewestHold(list)
    BY DEF As!NewestHold, As!Waiting, As!Newest, Facts!NewestHold, Facts!Waiting, Facts!Newest,
           Service!NewestHold, Service!Waiting, Service!Newest
<1>4. As(a)!AsideCount = Facts!AsideCount /\ Service!AsideCount = Facts!AsideCount
    <2> DEFINE entries == {k \in DOMAIN audit : Facts!IsAside(audit[k])}
               holds == {n \in DOMAIN pending : pending[n].owner = NoId}
    <2>0. \A S : /\ As(a)!Cardinality(S) = Cardinality(S)
                 /\ Facts!Cardinality(S) = Cardinality(S)
                 /\ Service!Cardinality(S) = Cardinality(S)
        BY DEF Cardinality, As!Cardinality, Facts!Cardinality, Service!Cardinality
    <2>1. {k \in DOMAIN audit : As(a)!IsAside(audit[k])} = entries
        BY DEF As!IsAside, Facts!IsAside
    <2>2. {k \in DOMAIN audit : Service!IsAside(audit[k])} = entries
        BY DEF Service!IsAside, Facts!IsAside
    <2>3. As(a)!AsideCount =
              Cardinality({k \in DOMAIN audit : As(a)!IsAside(audit[k])}) + Cardinality(holds)
        BY <2>0 DEF As!AsideCount
    <2>4. Service!AsideCount =
              Cardinality({k \in DOMAIN audit : Service!IsAside(audit[k])}) + Cardinality(holds)
        BY <2>0 DEF Service!AsideCount
    <2>5. Facts!AsideCount = Cardinality(entries) + Cardinality(holds)
        BY <2>0 DEF Facts!AsideCount
    <2> HIDE DEF entries, holds
    <2> QED BY <2>1, <2>2, <2>3, <2>4, <2>5
<1> QED BY <1>1, <1>2, <1>3, <1>4

\* An effect of a call, seen by the actor whose call it is, is that effect of the service:
\* here an erasure or a withdrawal carried out, and below each of the others.
LEMMA SameExecuteRevocation ==
    ASSUME NEW a \in Actors, calls[a] = CallUnderWay, (calls[a])' = CallUnderWay',
           NEW id, As(a)!ExecuteRevocation(id)
    PROVE  Facts!ExecuteRevocation(id) /\ Service!ExecuteRevocation(id)
BY SameKnown, SameData
   DEF As!ExecuteRevocation, As!Idle, As!NoCall, As!Room, As!Log,
       As!Unanswered, As!Effect, As!Direct, Facts!ExecuteRevocation,
       Facts!Idle, Facts!NoCall, Facts!Room, Facts!Log, Facts!Unanswered,
       Facts!Effect, Facts!Direct, Service!ExecuteRevocation, Service!Idle,
       Service!NoCall, Service!Room, Service!Log, Service!Unanswered,
       Service!Effect, Service!Direct

LEMMA SameExecuteHeld ==
    ASSUME NEW a \in Actors, calls[a] = CallUnderWay, (calls[a])' = CallUnderWay',
           NEW id, As(a)!ExecuteHeld(id)
    PROVE  Facts!ExecuteHeld(id) /\ Service!ExecuteHeld(id)
BY SameKnown, SameData
   DEF As!ExecuteHeld, As!Idle, As!NoCall, As!Room, As!Log, As!Unanswered,
       As!HoldOf, As!Note, Facts!ExecuteHeld, Facts!Idle, Facts!NoCall,
       Facts!Room, Facts!Log, Facts!Unanswered, Facts!HoldOf, Facts!Note,
       Service!ExecuteHeld, Service!Idle, Service!NoCall, Service!Room,
       Service!Log, Service!Unanswered, Service!HoldOf, Service!Note

LEMMA SameExecuteAccess ==
    ASSUME NEW a \in Actors, calls[a] = CallUnderWay, (calls[a])' = CallUnderWay',
           NEW id, As(a)!ExecuteAccess(id)
    PROVE  Facts!ExecuteAccess(id) /\ Service!ExecuteAccess(id)
BY SameKnown, SameData
   DEF As!ExecuteAccess, As!Idle, As!NoCall, As!Room, As!Log, As!Unanswered,
       As!Summary, As!None, Facts!ExecuteAccess, Facts!Idle, Facts!NoCall,
       Facts!Room, Facts!Log, Facts!Unanswered, Facts!Summary, Facts!None,
       Service!ExecuteAccess, Service!Idle, Service!NoCall, Service!Room,
       Service!Log, Service!Unanswered, Service!Summary, Service!None

LEMMA SameApprove ==
    ASSUME NEW a \in Actors, calls[a] = CallUnderWay, (calls[a])' = CallUnderWay',
           NEW id, As(a)!Approve(id)
    PROVE  Facts!Approve(id) /\ Service!Approve(id)
BY SameKnown, SameData
   DEF As!Approve, As!Idle, As!NoCall, As!Room, As!Log, As!StillPending,
       As!Note, Facts!Approve, Facts!Idle, Facts!NoCall, Facts!Room,
       Facts!Log, Facts!StillPending, Facts!Note, Service!Approve,
       Service!Idle, Service!NoCall, Service!Room, Service!Log,
       Service!StillPending, Service!Note

LEMMA SameReject ==
    ASSUME NEW a \in Actors, calls[a] = CallUnderWay, (calls[a])' = CallUnderWay',
           NEW id, As(a)!Reject(id)
    PROVE  Facts!Reject(id) /\ Service!Reject(id)
BY SameKnown, SameData
   DEF As!Reject, As!Idle, As!NoCall, As!Room, As!Log, As!StillPending,
       As!Note, Facts!Reject, Facts!Idle, Facts!NoCall, Facts!Room,
       Facts!Log, Facts!StillPending, Facts!Note, Service!Reject,
       Service!Idle, Service!NoCall, Service!Room, Service!Log,
       Service!StillPending, Service!Note

LEMMA SameVerify ==
    ASSUME NEW a \in Actors, calls[a] = CallUnderWay, (calls[a])' = CallUnderWay',
           NEW id, As(a)!Verify(id)
    PROVE  Facts!Verify(id) /\ Service!Verify(id)
BY SameKnown, SameData
   DEF As!Verify, As!Idle, As!NoCall, As!Room, As!Log, As!Aside,
       As!Unanswered, As!Note, Facts!Verify, Facts!Idle, Facts!NoCall,
       Facts!Room, Facts!Log, Facts!Aside, Facts!Unanswered, Facts!Note,
       Service!Verify, Service!Idle, Service!NoCall, Service!Room,
       Service!Log, Service!Aside, Service!Unanswered, Service!Note

LEMMA SameRecordExecuted ==
    ASSUME NEW a \in Actors, calls[a] = CallUnderWay, (calls[a])' = CallUnderWay', As(a)!RecordExecuted
    PROVE  Facts!RecordExecuted /\ Service!RecordExecuted
BY SameKnown, SameData
   DEF As!RecordExecuted, As!Idle, As!NoCall, As!Room, As!Log, As!Register,
       As!Summary, As!None, Facts!RecordExecuted, Facts!Idle, Facts!NoCall,
       Facts!Room, Facts!Log, Facts!Register, Facts!Summary, Facts!None,
       Service!RecordExecuted, Service!Idle, Service!NoCall, Service!Room,
       Service!Log, Service!Register, Service!Summary, Service!None

LEMMA SameRecordHeld ==
    ASSUME NEW a \in Actors, calls[a] = CallUnderWay, (calls[a])' = CallUnderWay', As(a)!RecordHeld
    PROVE  Facts!RecordHeld /\ Service!RecordHeld
BY SameKnown, SameData
   DEF As!RecordHeld, As!Idle, As!NoCall, As!Room, As!Log, As!Register,
       As!Summary, As!None, Facts!RecordHeld, Facts!Idle, Facts!NoCall,
       Facts!Room, Facts!Log, Facts!Register, Facts!Summary, Facts!None,
       Service!RecordHeld, Service!Idle, Service!NoCall, Service!Room,
       Service!Log, Service!Register, Service!Summary, Service!None

LEMMA SameExportAccess ==
    ASSUME NEW a \in Actors, calls[a] = CallUnderWay, (calls[a])' = CallUnderWay', As(a)!ExportAccess
    PROVE  Facts!ExportAccess /\ Service!ExportAccess
BY SameKnown, SameData
   DEF As!ExportAccess, As!Idle, As!NoCall, As!Room, As!Log, As!Note,
       Facts!ExportAccess, Facts!Idle, Facts!NoCall, Facts!Room, Facts!Log,
       Facts!Note, Service!ExportAccess, Service!Idle, Service!NoCall,
       Service!Room, Service!Log, Service!Note

LEMMA SameRunApproved ==
    ASSUME NEW a \in Actors, calls[a] = CallUnderWay, (calls[a])' = CallUnderWay', As(a)!RunApproved
    PROVE  Facts!RunApproved /\ Service!RunApproved
BY SameKnown, SameData
   DEF As!RunApproved, As!Idle, As!NoCall, As!Room, As!Log, As!Effect,
       As!OnApproval, Facts!RunApproved, Facts!Idle, Facts!NoCall,
       Facts!Room, Facts!Log, Facts!Effect, Facts!OnApproval,
       Service!RunApproved, Service!Idle, Service!NoCall, Service!Room,
       Service!Log, Service!Effect, Service!OnApproval

LEMMA SameRecordApproval ==
    ASSUME NEW a \in Actors, calls[a] = CallUnderWay, (calls[a])' = CallUnderWay', As(a)!RecordApproval
    PROVE  Facts!RecordApproval /\ Service!RecordApproval
BY SameKnown, SameData
   DEF As!RecordApproval, As!Idle, As!NoCall, As!Room, As!Log, As!Register,
       As!Summary, As!None, Facts!RecordApproval, Facts!Idle, Facts!NoCall,
       Facts!Room, Facts!Log, Facts!Register, Facts!Summary, Facts!None,
       Service!RecordApproval, Service!Idle, Service!NoCall, Service!Room,
       Service!Log, Service!Register, Service!Summary, Service!None

LEMMA SameRecordRejection ==
    ASSUME NEW a \in Actors, calls[a] = CallUnderWay, (calls[a])' = CallUnderWay', As(a)!RecordRejection
    PROVE  Facts!RecordRejection /\ Service!RecordRejection
BY SameKnown, SameData
   DEF As!RecordRejection, As!Idle, As!NoCall, As!Room, As!Log, As!Register,
       As!Summary, As!None, Facts!RecordRejection, Facts!Idle, Facts!NoCall,
       Facts!Room, Facts!Log, Facts!Register, Facts!Summary, Facts!None,
       Service!RecordRejection, Service!Idle, Service!NoCall, Service!Room,
       Service!Log, Service!Register, Service!Summary, Service!None

LEMMA SamePlan ==
    ASSUME NEW a \in Actors, calls[a] = CallUnderWay, (calls[a])' = CallUnderWay', As(a)!Plan
    PROVE  Facts!Plan /\ Service!Plan
BY SameKnown, SameData
   DEF As!Plan, As!Idle, As!NoCall, As!Room, As!Log, As!Aside, As!Note,
       Facts!Plan, Facts!Idle, Facts!NoCall, Facts!Room, Facts!Log,
       Facts!Aside, Facts!Note, Service!Plan, Service!Idle, Service!NoCall,
       Service!Room, Service!Log, Service!Aside, Service!Note

LEMMA SameConsult ==
    ASSUME NEW a \in Actors, calls[a] = CallUnderWay, (calls[a])' = CallUnderWay', As(a)!Consult
    PROVE  Facts!Consult /\ Service!Consult
BY SameKnown, SameData
   DEF As!Consult, As!Idle, As!NoCall, As!Room, As!Log, Facts!Consult,
       Facts!Idle, Facts!NoCall, Facts!Room, Facts!Log, Service!Consult,
       Service!Idle, Service!NoCall, Service!Room, Service!Log

LEMMA SameDirectForget ==
    ASSUME NEW a \in Actors, calls[a] = CallUnderWay, (calls[a])' = CallUnderWay',
           NEW id, As(a)!DirectForget(id)
    PROVE  Facts!DirectForget(id) /\ Service!DirectForget(id)
BY SameKnown, SameData
   DEF As!DirectForget, As!Idle, As!NoCall, As!Room, As!Log, As!Aside,
       As!Effect, Facts!DirectForget, Facts!Idle, Facts!NoCall, Facts!Room,
       Facts!Log, Facts!Aside, Facts!Effect, Service!DirectForget,
       Service!Idle, Service!NoCall, Service!Room, Service!Log,
       Service!Aside, Service!Effect

-----------------------------------------------------------------------------
(* The inductive invariants. *)

\* What a caller can still have to ask: one operation, or the three of process_one.
Todos ==
    {<<>>, <<"raised">>, <<"plan", "execute", "verify">>, <<"execute", "verify">>}
    \cup {<<op>> : op \in GatewayOps \cup ToolOps}

\* One actor at a time is in the service: the threads have the lock, the loop is alone.
TurnInv ==
    /\ DOMAIN calls = Actors
    /\ request \in [Actors -> [todo : Todos, id : Ids \cup {NoId}]]
    /\ lock \in Threads \cup {Free} /\ mode \in Modes
    /\ \A a \in Actors : /\ calls[a] # NoCall => HasTurn(a) /\ request[a] # Nothing /\ ~ Raised(a)
                         /\ request[a] # Nothing => request[a].id \in Ids
    /\ \A t \in Threads : request[t] # Nothing => mode = "push"
    /\ request[Loop] # Nothing => mode # "push"
    /\ lock \in Threads => request[lock] # Nothing

\* What the listener has in hand in each phase of run().
PlaceInv ==
    /\ phase \in {"poll", "move", "work"} /\ (phase # "poll" => mode = "pull")
    /\ batch \in Seq(Messages) /\ now \in Messages \cup {NoMessage}
    /\ phase = "poll" => batch = <<>>
    /\ phase # "work" => now = NoMessage

\* How far process_one is with a request: it verifies what is on record.
Progress(r, c) ==
    /\ r.todo \in {<<"plan", "execute", "verify">>, <<"execute", "verify">>,
                   <<"verify">>, <<>>, <<"raised">>}
    /\ c # NoCall => /\ r.todo = <<"verify">> /\ c.id = r.id
                     /\ c.op \in {"record", "record_hold", "export"}
    /\ r.todo \in {<<"verify">>, <<>>} =>
          Service!Latest(audit, r.id) # Service!Unanswered \/ c.op \in {"record", "record_hold"}

\* The request of the listener is the one of the message at hand.
TaskInv ==
    /\ now # NoMessage => /\ request[Loop] # Nothing
                          /\ RequestOf[now] # NoId => request[Loop].id = RequestOf[now]
    /\ mode = "pull" /\ request[Loop] # Nothing =>
          now # NoMessage /\ Progress(request[Loop], calls[Loop])

MessageInv == PlaceInv /\ TaskInv

\* The files of a poll: none twice, none both listed and taken.
FileInv ==
    /\ folder \subseteq Files /\ listing \subseteq folder /\ source \in {"folder", "topic"}
    /\ listing # {} => phase = "move"
    /\ phase = "move" => source = "folder" /\ \A k \in DOMAIN batch : batch[k] \in Files
    /\ \A k \in DOMAIN batch : batch[k] \in Files =>
          /\ batch[k] \notin listing /\ batch[k] # now
          /\ \A j \in DOMAIN batch : batch[j] = batch[k] => j = k

-----------------------------------------------------------------------------
(* One actor at a time. *)

\* What is left to ask after one operation is something that can be left to ask.
LEMMA TailTodo ==
    ASSUME NEW todo \in Todos, todo # <<>>
    PROVE  Tail(todo) \in Todos \ {<<"raised">>} /\ (todo # <<"raised">> => Head(todo) # "raised")
<1>1. CASE todo = <<"raised">> BY <1>1 DEF Todos
<1>2. CASE todo = <<"plan", "execute", "verify">>
    <2>1. Head(todo) = "plan" /\ Tail(todo) = <<"execute", "verify">> BY <1>2
    <2> QED BY <2>1 DEF Todos
<1>3. CASE todo = <<"execute", "verify">>
    <2>1. Head(todo) = "execute" /\ Tail(todo) = <<"verify">> BY <1>3
    <2>2. "verify" \in GatewayOps BY DEF GatewayOps
    <2>3. <<"verify">> # <<"raised">> OBVIOUS
    <2> QED BY <2>1, <2>2, <2>3 DEF Todos
<1>4. ASSUME NEW op \in GatewayOps \cup ToolOps, todo = <<op>>
      PROVE  Tail(todo) \in Todos \ {<<"raised">>} /\ (todo # <<"raised">> => Head(todo) # "raised")
    <2>1. Tail(todo) = <<>> /\ Head(todo) = op BY <1>4
    <2>2. op # "raised" BY DEF GatewayOps, ToolOps
    <2> QED BY <2>1, <2>2 DEF Todos
<1> QED BY <1>1, <1>2, <1>3, <1>4 DEF Todos

\* Where only one actor can be in a call, its call is the service's.
LEMMA UnderWay ==
    ASSUME NEW a \in Actors, \A b \in Actors \ {a} : calls[b] = NoCall
    PROVE  CallUnderWay = calls[a]
<1>1. CASE calls[a] = NoCall
    <2>1. Busy = {} BY <1>1 DEF Busy
    <2> QED BY <1>1, <2>1 DEF CallUnderWay
<1>2. CASE calls[a] # NoCall
    <2>1. Busy = {a} BY <1>2 DEF Busy
    <2> QED BY <2>1 DEF CallUnderWay
<1> QED BY <1>1, <1>2

\* The same after a step.
LEMMA UnderWayNext ==
    ASSUME NEW a \in Actors, \A b \in Actors \ {a} : calls'[b] = NoCall
    PROVE  CallUnderWay' = calls'[a]
<1>0. NoCall' = NoCall BY DEF NoCall, As!NoCall
<1>1. CASE calls'[a] = NoCall
    <2>1. Busy' = {} BY <1>0, <1>1 DEF Busy
    <2> QED BY <1>0, <1>1, <2>1 DEF CallUnderWay
<1>2. CASE calls'[a] # NoCall
    <2>1. Busy' = {a} BY <1>0, <1>2 DEF Busy
    <2> QED BY <2>1 DEF CallUnderWay
<1> QED BY <1>1, <1>2

\* Whoever has the turn is alone in the service.
LEMMA Alone ==
    ASSUME TurnInv, NEW a \in Actors, request[a] # Nothing, HasTurn(a)
    PROVE  (\A b \in Actors \ {a} : calls[b] = NoCall) /\ CallUnderWay = calls[a]
<1>1. \A b \in Actors \ {a} : calls[b] = NoCall
    <2> SUFFICES ASSUME NEW b \in Actors, b # a, calls[b] # NoCall PROVE FALSE OBVIOUS
    <2>1. HasTurn(b) /\ request[b] # Nothing BY DEF TurnInv
    <2> QED BY <2>1, IntakeAssumption DEF TurnInv, HasTurn, Actors, Free
<1> QED BY <1>1, UnderWay

\* Nobody in a call: the service is idle.
LEMMA NobodyIn ==
    ASSUME \A a \in Actors : calls[a] = NoCall
    PROVE  CallUnderWay = NoCall
BY DEF CallUnderWay, Busy

\* An actor in the middle of a call resumes it; one that is not has nothing to resume.
LEMMA ResumeCalls ==
    ASSUME NEW a \in Actors, Resume(a)
    PROVE  calls[a] # NoCall
BY DEF Resume, As!RecordExecuted, As!RecordHeld, As!ExportAccess, As!RunApproved,
       As!RecordApproval, As!RecordRejection, NoCall, As!NoCall

\* A step of a call leaves the other actors alone, and asks at most one thing less.
LEMMA ServeTurn ==
    ASSUME TurnInv, NEW a \in Actors, Serve(a)
    PROVE  /\ request[a] # Nothing /\ HasTurn(a) /\ ~ Raised(a) /\ request[a].id \in Ids
           /\ \E c : calls' = [calls EXCEPT ![a] = c]
           /\ \/ /\ calls[a] = NoCall /\ request[a].todo # <<>>
                 /\ Begin(a, Head(request[a].todo), request[a].id)
                 /\ request' = [request EXCEPT ![a].todo = Tail(@)]
              \/ Resume(a) /\ calls[a] # NoCall /\ request' = request
           /\ UNCHANGED <<lock, mode, queues, fates, drawn, cut, counters>>
<1>1. /\ request[a] # Nothing /\ HasTurn(a)
      /\ \E c : calls' = [calls EXCEPT ![a] = c]
      /\ \/ /\ calls[a] = NoCall /\ request[a].todo # <<>>
            /\ Begin(a, Head(request[a].todo), request[a].id)
            /\ request' = [request EXCEPT ![a].todo = Tail(@)]
         \/ Resume(a) /\ request' = request
      /\ UNCHANGED <<lock, mode, queues, fates, drawn, cut, counters>>
    BY DEF Serve
<1>2. ~ Raised(a)
    <2> SUFFICES ASSUME Raised(a) PROVE FALSE OBVIOUS
    <2>1. calls[a] = NoCall BY DEF TurnInv
    <2>2. Begin(a, "raised", request[a].id) BY <1>1, <2>1, ResumeCalls DEF Raised
    <2> QED BY <2>2 DEF Begin
<1>3. request[a].id \in Ids BY <1>1 DEF TurnInv
<1> QED BY <1>1, <1>2, <1>3, ResumeCalls

\* The turns are kept when an actor that has the turn takes a step of its request.
LEMMA TurnKept ==
    ASSUME TurnInv, NEW a \in Actors, HasTurn(a), request[a] # Nothing, ~ Raised(a),
           NEW r \in [todo : Todos, id : Ids], r.todo # <<"raised">>,
           request' = [request EXCEPT ![a] = r],
           NEW c, calls' = [calls EXCEPT ![a] = c], UNCHANGED <<lock, mode>>,
           r # Nothing
    PROVE  TurnInv'
<1>0. NoCall' = NoCall /\ Nothing' = Nothing BY DEF NoCall, As!NoCall, Nothing
<1>1. /\ \A b \in Actors \ {a} : calls'[b] = calls[b] /\ request'[b] = request[b]
      /\ calls'[a] = c /\ request'[a] = r /\ DOMAIN calls' = Actors
      /\ request' \in [Actors -> [todo : Todos, id : Ids \cup {NoId}]]
    BY DEF TurnInv
<1>2. \A b \in Actors : HasTurn(b)' <=> HasTurn(b) BY DEF HasTurn
<1>3. \A b \in Actors : (b # a => (Raised(b)' <=> Raised(b))) /\ ~ Raised(a)'
    BY <1>1 DEF Raised
<1>4. r.id \in Ids OBVIOUS
<1>5. Todos' = Todos /\ lock' = lock /\ mode' = mode BY DEF Todos
<1>6. \A b \in Actors : /\ calls'[b] # NoCall => HasTurn(b)' /\ request'[b] # Nothing /\ ~ Raised(b)'
                        /\ request'[b] # Nothing => request'[b].id \in Ids
    BY <1>1, <1>2, <1>3, <1>4 DEF TurnInv
<1>7. /\ \A t \in Threads : request'[t] # Nothing => mode' = "push"
      /\ request'[Loop] # Nothing => mode' # "push"
      /\ lock' \in Threads => request'[lock'] # Nothing
    BY <1>1, <1>5 DEF TurnInv, Actors
<1>8. lock' \in Threads \cup {Free} /\ mode' \in Modes BY <1>5 DEF TurnInv
<1> QED BY <1>0, <1>1, <1>6, <1>7, <1>8 DEF TurnInv, Free

\* The turns are kept by a step of a call.
LEMMA TurnServe ==
    ASSUME TurnInv, NEW a \in Actors, Serve(a)
    PROVE  TurnInv'
<1>1. /\ request[a] # Nothing /\ HasTurn(a) /\ ~ Raised(a) /\ request[a].id \in Ids
      /\ UNCHANGED <<lock, mode>>
    BY ServeTurn
<1>2. PICK c : calls' = [calls EXCEPT ![a] = c] BY ServeTurn
<1>3. request[a] \in [todo : Todos, id : Ids \cup {NoId}] /\ request \in [Actors -> [todo : Todos, id : Ids \cup {NoId}]]
    BY DEF TurnInv
<1>4. CASE request' = request
    <2>1. request' = [request EXCEPT ![a] = request[a]] BY <1>3, <1>4
    <2>2. request[a] \in [todo : Todos, id : Ids] /\ request[a].todo # <<"raised">>
        BY <1>1, <1>3 DEF Raised
    <2> QED BY <1>1, <1>2, <2>1, <2>2, TurnKept
<1>5. CASE request[a].todo # <<>> /\ request' = [request EXCEPT ![a].todo = Tail(@)]
    <2> DEFINE r == [request[a] EXCEPT !.todo = Tail(@)]
    <2>1. Tail(request[a].todo) \in Todos \ {<<"raised">>} BY <1>3, <1>5, TailTodo
    <2>2. r \in [todo : Todos, id : Ids] /\ r.todo # <<"raised">> /\ r.id = request[a].id
        BY <1>1, <1>3, <2>1
    <2>3. r # Nothing BY <1>1, <2>2, IntakeAssumption DEF Nothing
    <2>4. request' = [request EXCEPT ![a] = r] BY <1>3, <1>5
    <2> HIDE DEF r
    <2> QED BY <1>1, <1>2, <2>2, <2>3, <2>4, TurnKept
<1> QED BY <1>4, <1>5, ServeTurn

\* A request comes, is refused or is answered; a call raises.
LEMMA TurnRaise ==
    ASSUME TurnInv, NEW a \in Actors, Raise(a)
    PROVE  TurnInv' /\ request[a] # Nothing
<1> USE DEF Raise
<1>0. NoCall' = NoCall /\ Nothing' = Nothing BY DEF NoCall, As!NoCall, Nothing
<1>1. request[a] # Nothing /\ request[a].id \in Ids
    BY DEF TurnInv, Nothing
<1> DEFINE r == Asking(<<"raised">>, request[a].id)
<1>2. r \in [todo : Todos, id : Ids] /\ r.id = request[a].id /\ r # Nothing
    BY <1>1, IntakeAssumption DEF Asking, Todos, Nothing
<1>3. request' = [request EXCEPT ![a] = r] BY DEF TurnInv
<1> HIDE DEF r
<1>4. /\ \A b \in Actors \ {a} : calls'[b] = calls[b] /\ request'[b] = request[b]
      /\ calls'[a] = NoCall /\ request'[a] = r /\ DOMAIN calls' = Actors
      /\ request' \in [Actors -> [todo : Todos, id : Ids \cup {NoId}]]
    BY <1>2, <1>3 DEF TurnInv
<1>5. lock' = lock /\ mode' = mode OBVIOUS
<1>6. \A b \in Actors \ {a} : (HasTurn(b)' <=> HasTurn(b)) /\ (Raised(b)' <=> Raised(b))
    BY <1>4, <1>5 DEF HasTurn, Raised
<1>7. \A b \in Actors : /\ calls'[b] # NoCall => HasTurn(b)' /\ request'[b] # Nothing /\ ~ Raised(b)'
                        /\ request'[b] # Nothing => request'[b].id \in Ids
    BY <1>1, <1>2, <1>4, <1>6 DEF TurnInv
<1>8. /\ \A t \in Threads : request'[t] # Nothing => mode' = "push"
      /\ request'[Loop] # Nothing => mode' # "push"
      /\ lock' \in Threads => request'[lock'] # Nothing
      /\ lock' \in Threads \cup {Free} /\ mode' \in Modes
    BY <1>1, <1>2, <1>4, <1>5 DEF TurnInv, Actors
<1> QED BY <1>0, <1>1, <1>4, <1>7, <1>8 DEF TurnInv, Free, Todos

\* The request of an actor that is in no call changes.
LEMMA TurnBetween ==
    ASSUME TurnInv, NEW a \in Actors, calls[a] = NoCall, calls' = calls, mode' = mode,
           NEW r \in [todo : Todos, id : Ids \cup {NoId}],
           request' = [request EXCEPT ![a] = r],
           r # Nothing => r.id \in Ids,
           r # Nothing /\ a \in Threads => mode = "push",
           r # Nothing /\ a = Loop => mode # "push",
           \/ lock' = lock /\ (a \in Threads /\ a = lock => r # Nothing)
           \/ lock = a /\ lock' = Free
    PROVE  TurnInv'
<1>0. NoCall' = NoCall /\ Nothing' = Nothing BY DEF NoCall, As!NoCall, Nothing
<1>1. /\ \A b \in Actors \ {a} : calls'[b] = calls[b] /\ request'[b] = request[b]
      /\ calls'[a] = NoCall /\ request'[a] = r /\ DOMAIN calls' = Actors
      /\ request' \in [Actors -> [todo : Todos, id : Ids \cup {NoId}]]
    BY DEF TurnInv
<1>2. \A b \in Actors \ {a} : /\ HasTurn(b) => HasTurn(b)'
                              /\ Raised(b)' <=> Raised(b)
    BY <1>1, IntakeAssumption DEF HasTurn, Raised
<1>3. \A b \in Actors : /\ calls'[b] # NoCall => HasTurn(b)' /\ request'[b] # Nothing /\ ~ Raised(b)'
                        /\ request'[b] # Nothing => request'[b].id \in Ids
    BY <1>1, <1>2 DEF TurnInv
<1>4. /\ \A t \in Threads : request'[t] # Nothing => mode' = "push"
      /\ request'[Loop] # Nothing => mode' # "push"
      /\ lock' \in Threads => request'[lock'] # Nothing
      /\ lock' \in Threads \cup {Free} /\ mode' \in Modes
    BY <1>1, IntakeAssumption DEF TurnInv, Actors, Free
<1> QED BY <1>0, <1>1, <1>3, <1>4 DEF TurnInv, Free, Todos

\* Everything is let go when the process starts, for the first time or again.
LEMMA TurnStart ==
    ASSUME calls' = [a \in Actors |-> NoCall], request' = [a \in Actors |-> Nothing],
           lock' = Free, mode' \in Modes
    PROVE  TurnInv'
<1>1. NoCall' = NoCall /\ Nothing' = Nothing BY DEF NoCall, As!NoCall, Nothing
<1>2. Nothing \in [todo : Todos, id : Ids \cup {NoId}] BY DEF Nothing, Todos
<1>3. Loop \in Actors /\ Threads \subseteq Actors BY DEF Actors
<1> QED BY <1>1, <1>2, <1>3, IntakeAssumption DEF TurnInv, Free, Todos

\* The lock goes to a thread while nobody is in the service.
LEMMA TurnAcquired ==
    ASSUME TurnInv, NEW t \in Threads, Acquire(t)
    PROVE  TurnInv'
<1>0. NoCall' = NoCall /\ Nothing' = Nothing BY DEF NoCall, As!NoCall, Nothing
<1>1. mode = "push" /\ lock = Free /\ lock' = t /\ UNCHANGED <<calls, request, mode>>
    BY DEF Acquire, TurnInv
<1>2. \A a \in Actors : calls[a] = NoCall
    BY <1>1, IntakeAssumption DEF TurnInv, HasTurn, Actors, Free
<1>3. request[t] # Nothing BY DEF Acquire
<1> QED BY <1>0, <1>1, <1>2, <1>3 DEF TurnInv, Free, Todos

\* The first message of a batch, and the rest.
LEMMA HeadTail ==
    ASSUME NEW list \in Seq(Messages), list # <<>>
    PROVE  /\ Head(list) \in Messages /\ Tail(list) \in Seq(Messages)
           /\ Len(list) \in Nat \ {0} /\ DOMAIN list = 1..Len(list) /\ Head(list) = list[1]
           /\ DOMAIN Tail(list) = 1..(Len(list) - 1)
           /\ \A k \in 1..(Len(list) - 1) : Tail(list)[k] = list[k + 1]
OBVIOUS

\* Nobody has a turn at the start.
LEMMA TurnInit == Init => TurnInv
<1>1. Nothing \in [todo : Todos, id : Ids \cup {NoId}] BY DEF Nothing, Todos
<1>2. Loop \in Actors /\ Threads \subseteq Actors BY DEF Actors
<1> QED BY <1>1, <1>2, IntakeAssumption DEF Init, TurnInv, Free

\* One actor at a time, whatever happens.
LEMMA TurnStep ==
    ASSUME TurnInv, MessageInv, [Next]_vars
    PROVE  TurnInv'
<1>a. /\ \A a \in Actors : request[a] \in [todo : Todos, id : Ids \cup {NoId}]
      /\ Nothing \in [todo : Todos, id : Ids \cup {NoId}]
      /\ <<>> \in Todos /\ Loop \in Actors /\ Threads \subseteq Actors
    BY DEF TurnInv, Nothing, Todos, Actors
<1>b. \A op \in GatewayOps \cup ToolOps, id \in Ids :
         Asking(<<op>>, id) \in [todo : Todos, id : Ids \cup {NoId}]
    BY DEF Asking, Todos
<1>c. \A todo, id : Asking(todo, id).id = id BY DEF Asking
<1>d. \A t \in Threads : t # Loop BY IntakeAssumption
<1>1. ASSUME NEW t \in Threads, Arrive(t) PROVE TurnInv'
    <2>1. PICK op \in GatewayOps, id \in Ids \ FreshIds :
              request' = [request EXCEPT ![t] = Asking(<<op>>, id)]
        BY <1>1 DEF Arrive
    <2>2. calls[t] = NoCall /\ mode = "push" /\ UNCHANGED <<calls, mode, lock>>
        BY <1>1, <1>a DEF Arrive, TurnInv
    <2>3. Asking(<<op>>, id).todo = <<op>> BY DEF Asking
    <2>4. Asking(<<op>>, id) # Nothing BY <2>3 DEF Nothing
    <2> DEFINE r == Asking(<<op>>, id)
    <2>5. r \in [todo : Todos, id : Ids \cup {NoId}] /\ r.id = id BY <1>b, <1>c
    <2> HIDE DEF r
    <2> QED BY <1>a, <1>d, <2>1, <2>2, <2>4, <2>5, TurnBetween DEF r
<1>2. ASSUME NEW t \in Threads, Acquire(t) PROVE TurnInv' BY <1>2, TurnAcquired
<1>3. ASSUME NEW a \in Actors, Serve(a) PROVE TurnInv' BY <1>3, TurnServe
<1>4. ASSUME NEW t \in Threads, Refuse(t) PROVE TurnInv'
    <2> DEFINE r == [request[t] EXCEPT !.todo = <<>>]
    <2>1. r \in [todo : Todos, id : Ids \cup {NoId}] /\ r.id = request[t].id BY <1>a
    <2>2. /\ calls[t] = NoCall /\ request' = [request EXCEPT ![t] = r]
          /\ UNCHANGED <<calls, mode, lock>> /\ request[t].todo # <<>>
        BY <1>4 DEF Refuse
    <2>3. request[t] # Nothing BY <2>2 DEF Nothing
    <2>4. request[t].id \in Ids BY <1>a, <2>3 DEF TurnInv
    <2>5. r # Nothing BY <2>1, <2>4, IntakeAssumption DEF Nothing
    <2>6. mode = "push" BY <2>3 DEF TurnInv
    <2> HIDE DEF r
    <2> QED BY <1>a, <1>d, <2>1, <2>2, <2>4, <2>5, <2>6, TurnBetween
<1>5. ASSUME NEW t \in Threads, Respond(t) PROVE TurnInv'
    <2>1. /\ request' = [request EXCEPT ![t] = Nothing] /\ UNCHANGED <<calls, mode>>
          /\ lock = t /\ lock' = Free
        BY <1>5 DEF Respond
    <2>2. calls[t] = NoCall BY <1>5, <1>a DEF Respond, Finished, TurnInv
    <2> QED BY <1>a, <1>d, <2>1, <2>2, TurnBetween
<1>6. CASE ReadLine
    <2>1. PICK op \in ToolOps, id \in Ids \ FreshIds :
              request' = [request EXCEPT ![Loop] = Asking(<<op>>, id)]
        BY <1>6 DEF ReadLine
    <2>2. calls[Loop] = NoCall /\ mode = "agent" /\ UNCHANGED <<calls, mode, lock>>
        BY <1>6, <1>a DEF ReadLine, TurnInv
    <2> DEFINE r == Asking(<<op>>, id)
    <2>3. r \in [todo : Todos, id : Ids \cup {NoId}] /\ r.id = id BY <1>b, <1>c
    <2> HIDE DEF r
    <2> QED BY <1>a, <1>d, <2>1, <2>2, <2>3, TurnBetween DEF r
<1>7. CASE WriteLine \/ Settle
    <2>1. request' = [request EXCEPT ![Loop] = Nothing] /\ UNCHANGED <<calls, mode, lock>>
        BY <1>7 DEF WriteLine, Settle, SettleAs
    <2>2. calls[Loop] = NoCall BY <1>7, <1>a DEF WriteLine, Settle, Finished, TurnInv
    <2> QED BY <1>a, <1>d, <2>1, <2>2, TurnBetween
<1>8. CASE TakeMessage
    <2>1. /\ mode = "pull" /\ now = NoMessage /\ Head(batch) \in Messages
          /\ UNCHANGED <<calls, mode, lock>>
        BY <1>8, HeadTail DEF TakeMessage, MessageInv, PlaceInv
    <2>2. PICK id \in IdsFor(Head(batch)) :
              request' = [request EXCEPT ![Loop] = Asking(<<"plan", "execute", "verify">>, id)]
        BY <1>8 DEF TakeMessage
    <2>3. id \in Ids BY <2>1, <2>2, IntakeAssumption DEF IdsFor
    <2>4. calls[Loop] = NoCall BY <1>a, <2>1 DEF MessageInv, TaskInv, TurnInv
    <2> DEFINE r == Asking(<<"plan", "execute", "verify">>, id)
    <2>5. r \in [todo : Todos, id : Ids \cup {NoId}] /\ r.id = id
        BY <2>3 DEF Asking, Todos
    <2> HIDE DEF r
    <2> QED BY <1>a, <1>d, <2>1, <2>2, <2>3, <2>4, <2>5, TurnBetween DEF r
<1>9. ASSUME NEW a \in Actors, Raise(a) PROVE TurnInv' BY <1>9, TurnRaise
<1>10. CASE Crash
    <2>1. mode' \in Modes BY <1>10 DEF Crash, TurnInv
    <2> QED BY <1>10, <2>1, TurnStart DEF Crash
<1>11. CASE UNCHANGED <<calls, request, lock, mode>>
    BY <1>11 DEF TurnInv, Free, Todos, HasTurn, Raised, NoCall, As!NoCall, Nothing
<1>12. CASE \/ \E file \in Files : Drop(file)
            \/ Publish \/ Commit \/ ListFolder \/ MoveFile \/ PollReturns \/ PollTopic
            \/ NextSource \/ DropBroken \/ PollRaises \/ UNCHANGED vars
    BY <1>11, <1>12 DEF Drop, Publish, Commit, ListFolder, MoveFile, PollReturns, PollTopic,
       NextSource, DropBroken, PollRaises, vars
<1> QED BY <1>a, <1>1, <1>2, <1>3, <1>4, <1>5, <1>6, <1>7, <1>8, <1>9, <1>10, <1>12
        DEF Next, ThreadStep, ListenerStep

-----------------------------------------------------------------------------
(* What the actors do is what one caller of the service could have done. *)

\* A new deployment is a new service.
LEMMA SameInit == Init => Service!Init /\ Facts!Init
<1> SUFFICES ASSUME Init PROVE Service!Init /\ Facts!Init OBVIOUS
<1>1. CallUnderWay = NoCall BY NobodyIn DEF Init
<1> QED BY <1>1 DEF Init, Service!Init, Facts!Init, Service!NoCall, Facts!NoCall, NoCall,
                    As!NoCall,
        Service!Unanswered, Facts!Unanswered

\* A crash of the deployment is one of the service.
LEMMA SameCrash == Crash => Facts!Crash
<1> SUFFICES ASSUME Crash PROVE Facts!Crash OBVIOUS
<1>1. Service!Crash BY DEF Crash
<1>2. Loop \in Actors BY DEF Actors
<1>3. \A id : Service!Latest(audit, id) = Facts!Latest(audit, id) BY <1>2, SameLatest
<1> QED BY <1>1, <1>3 DEF Service!Crash, Facts!Crash, Service!NoCall, Facts!NoCall,
        Service!Unanswered, Facts!Unanswered

\* A step of a call, whoever takes it, is a step of the service.
LEMMA ServeIsService ==
    ASSUME TurnInv, NEW a \in Actors, Serve(a)
    PROVE  Facts!Next /\ Service!Next
<1>1. /\ request[a] # Nothing /\ HasTurn(a) /\ request[a].id \in Ids
      /\ \E c : calls' = [calls EXCEPT ![a] = c]
      /\ Begin(a, Head(request[a].todo), request[a].id) \/ Resume(a)
    BY ServeTurn
<1>2. (\A b \in Actors \ {a} : calls[b] = NoCall) /\ calls[a] = CallUnderWay
    BY <1>1, Alone
<1>3. \A b \in Actors \ {a} : calls'[b] = NoCall BY <1>1, <1>2 DEF TurnInv
<1>4. (calls[a])' = CallUnderWay' BY <1>3, UnderWayNext
<1> DEFINE id == request[a].id
           op == Head(request[a].todo)
<1>a. id \in Ids BY <1>1
<1>5. CASE Begin(a, op, id)
    <2> HIDE DEF op, id
    <2>1. CASE As(a)!Plan
        <3>1. Facts!Plan /\ Service!Plan BY <1>2, <1>4, <2>1, SamePlan
        <3> QED BY <3>1 DEF Facts!Next, Service!Next
    <2>2. CASE As(a)!ExecuteRevocation(id)
        <3>1. Facts!ExecuteRevocation(id) /\ Service!ExecuteRevocation(id)
            BY <1>2, <1>4, <2>2, SameExecuteRevocation
        <3> QED BY <1>a, <3>1 DEF Facts!Next, Service!Next
    <2>3. CASE As(a)!ExecuteHeld(id)
        <3>1. Facts!ExecuteHeld(id) /\ Service!ExecuteHeld(id) BY <1>2, <1>4, <2>3, SameExecuteHeld
        <3> QED BY <1>a, <3>1 DEF Facts!Next, Service!Next
    <2>4. CASE As(a)!ExecuteAccess(id)
        <3>1. Facts!ExecuteAccess(id) /\ Service!ExecuteAccess(id)
            BY <1>2, <1>4, <2>4, SameExecuteAccess
        <3> QED BY <1>a, <3>1 DEF Facts!Next, Service!Next
    <2>5. CASE As(a)!Consult
        <3>1. Facts!Consult /\ Service!Consult BY <1>2, <1>4, <2>5, SameConsult
        <3> QED BY <3>1 DEF Facts!Next, Service!Next
    <2>6. CASE As(a)!Verify(id)
        <3>1. Facts!Verify(id) /\ Service!Verify(id) BY <1>2, <1>4, <2>6, SameVerify
        <3> QED BY <1>a, <3>1 DEF Facts!Next, Service!Next
    <2>7. CASE As(a)!Approve(id)
        <3>1. Facts!Approve(id) /\ Service!Approve(id) BY <1>2, <1>4, <2>7, SameApprove
        <3> QED BY <1>a, <3>1 DEF Facts!Next, Service!Next
    <2>8. CASE As(a)!Reject(id)
        <3>1. Facts!Reject(id) /\ Service!Reject(id) BY <1>2, <1>4, <2>8, SameReject
        <3> QED BY <1>a, <3>1 DEF Facts!Next, Service!Next
    <2>9. ASSUME NEW term \in DirectTerms, As(a)!DirectForget(term)
          PROVE  Facts!Next /\ Service!Next
        <3>1. Facts!DirectForget(term) /\ Service!DirectForget(term)
            BY <1>2, <1>4, <2>9, SameDirectForget
        <3> QED BY <3>1 DEF Facts!Next, Service!Next
    <2> QED BY <1>5, <2>1, <2>2, <2>3, <2>4, <2>5, <2>6, <2>7, <2>8, <2>9 DEF Begin
<1>6. CASE Resume(a)
    <2>1. CASE As(a)!RecordExecuted
        <3>1. Facts!RecordExecuted /\ Service!RecordExecuted BY <1>2, <1>4, <2>1, SameRecordExecuted
        <3> QED BY <3>1 DEF Facts!Next, Service!Next
    <2>2. CASE As(a)!RecordHeld
        <3>1. Facts!RecordHeld /\ Service!RecordHeld BY <1>2, <1>4, <2>2, SameRecordHeld
        <3> QED BY <3>1 DEF Facts!Next, Service!Next
    <2>3. CASE As(a)!ExportAccess
        <3>1. Facts!ExportAccess /\ Service!ExportAccess BY <1>2, <1>4, <2>3, SameExportAccess
        <3> QED BY <3>1 DEF Facts!Next, Service!Next
    <2>4. CASE As(a)!RunApproved
        <3>1. Facts!RunApproved /\ Service!RunApproved BY <1>2, <1>4, <2>4, SameRunApproved
        <3> QED BY <3>1 DEF Facts!Next, Service!Next
    <2>5. CASE As(a)!RecordApproval
        <3>1. Facts!RecordApproval /\ Service!RecordApproval BY <1>2, <1>4, <2>5, SameRecordApproval
        <3> QED BY <3>1 DEF Facts!Next, Service!Next
    <2>6. CASE As(a)!RecordRejection
        <3>1. Facts!RecordRejection /\ Service!RecordRejection
            BY <1>2, <1>4, <2>6, SameRecordRejection
        <3> QED BY <3>1 DEF Facts!Next, Service!Next
    <2> QED BY <1>6, <2>1, <2>2, <2>3, <2>4, <2>5, <2>6 DEF Resume
<1> QED BY <1>1, <1>5, <1>6

\* A call that raises is over, and nothing else changes.
LEMMA RaiseEnds ==
    ASSUME TurnInv, NEW a \in Actors, Raise(a)
    PROVE  /\ CallUnderWay = calls[a] /\ CallUnderWay' = NoCall
           /\ UNCHANGED shared /\ cut' = cut \cup Open(a)
<1>1. request[a] # Nothing /\ HasTurn(a) BY TurnRaise DEF Raise
<1>2. (\A b \in Actors \ {a} : calls[b] = NoCall) /\ CallUnderWay = calls[a] BY <1>1, Alone
<1>3. calls' = [calls EXCEPT ![a] = NoCall] /\ UNCHANGED shared /\ cut' = cut \cup Open(a)
    BY DEF Raise
<1>4. calls'[a] = NoCall /\ \A b \in Actors \ {a} : calls'[b] = NoCall BY <1>2, <1>3 DEF TurnInv
<1>5. CallUnderWay' = calls'[a] BY <1>4, UnderWayNext
<1> QED BY <1>2, <1>3, <1>4, <1>5

\* What a step is to the service.
LEMMA StepKinds ==
    ASSUME [Next]_vars
    PROVE  \/ \E a \in Actors : Serve(a) \/ Raise(a)
           \/ Crash
           \/ UNCHANGED <<shared, calls, cut>>
BY DEF Next, ThreadStep, ListenerStep, Actors, Arrive, Acquire, Refuse, Respond, ReadLine,
       WriteLine,
   Drop, Publish, Commit, ListFolder, MoveFile, PollReturns, PollRaises, PollTopic,
   NextSource, TakeMessage, DropBroken, Settle, SettleAs, vars

\* An actor that waits, or does something of its own, is no step of the service.
LEMMA NoService ==
    ASSUME UNCHANGED <<shared, calls>>
    PROVE  UNCHANGED Facts!vars /\ UNCHANGED Service!vars
<1>1. CallUnderWay' = CallUnderWay BY DEF CallUnderWay, Busy, NoCall, As!NoCall
<1> QED BY <1>1 DEF shared, Facts!vars, Service!vars

-----------------------------------------------------------------------------
(* Executed once. *)

\* The service is sound, and what was not interrupted was carried out at most once.
ServiceInv == Facts!IInv /\ \A id \in Ids \ cut : Facts!Once(id)

\* At the start nothing was carried out.
LEMMA ServiceInit == Init => ServiceInv
<1> SUFFICES ASSUME Init PROVE ServiceInv OBVIOUS
<1>1. Facts!Init BY SameInit
<1>2. Facts!IInv BY <1>1, Facts!InitInv, FactsAssumption
<1>3. \A id \in Ids : Facts!Once(id) BY <1>1, Facts!OnceInit, FactsAssumption
<1> QED BY <1>2, <1>3 DEF ServiceInv

\* A step of a call that looks like a crash interrupts nothing.
LEMMA ServeIsNoCrash ==
    ASSUME TurnInv, Facts!IInv, NEW a \in Actors, Serve(a), Facts!Crash
    PROVE  Facts!Idle
<1>1. request[a] # Nothing /\ HasTurn(a) BY ServeTurn
<1>2. CallUnderWay = calls[a] BY <1>1, Alone
<1>3. CASE calls[a] = NoCall
    BY <1>2, <1>3 DEF Facts!Idle, Facts!NoCall, NoCall, As!NoCall
<1>4. CASE Resume(a)
    <2>1. \E e : audit' = Append(audit, e)
        BY <1>4 DEF Resume, As!RecordExecuted, As!RecordHeld, As!ExportAccess, As!RunApproved,
           As!RecordApproval, As!RecordRejection, As!Register, As!Log
    <2>2. audit \in Seq(Facts!SummaryType \cup Facts!EffectType \cup Facts!NoteType)
        BY DEF Facts!IInv, Facts!TypeOK
    <2>3. audit' = audit BY DEF Facts!Crash
    <2>4. PICK e : audit' = Append(audit, e) BY <2>1
    <2>5. Len(Append(audit, e)) = Len(audit) + 1 /\ Len(audit) \in Nat BY <2>2
    <2> QED BY <2>3, <2>4, <2>5
<1> QED BY <1>3, <1>4, ServeTurn

\* What a crash interrupts is in cut.
LEMMA CrashCuts ==
    ASSUME TurnInv, Crash, NEW id \in Ids, id \notin cut'
    PROVE  id \notin cut /\ (Facts!Idle \/ CallUnderWay.id # id)
<1>1. cut' = cut \cup UNION {Open(a) : a \in Actors} BY DEF Crash
<1>2. CASE Busy = {}
    BY <1>1, <1>2 DEF CallUnderWay, Facts!Idle, Facts!NoCall, NoCall, As!NoCall
<1>3. CASE Busy # {}
    <2>1. PICK a \in Busy : CallUnderWay = calls[a] BY <1>3 DEF CallUnderWay
    <2>2. a \in Actors /\ Open(a) = {calls[a].id} BY <2>1 DEF Busy, Open
    <2> QED BY <1>1, <2>1, <2>2
<1> QED BY <1>2, <1>3

\* Every step keeps the service sound, and carries nothing out twice.
LEMMA ServiceStep ==
    ASSUME TurnInv, ServiceInv, [Next]_vars
    PROVE  ServiceInv' /\ Facts!AnswerChange
<1>a. Facts!IInv /\ \A id \in Ids \ cut : Facts!Once(id) BY DEF ServiceInv
<1>1. ASSUME NEW a \in Actors, Serve(a) PROVE ServiceInv' /\ Facts!AnswerChange
    <2>1. Facts!Next BY <1>1, ServeIsService
    <2>2. cut' = cut BY <1>1 DEF Serve
    <2>3. Facts!IInv' /\ Facts!AnswerChange BY <1>a, <2>1, Facts!EveryStep, FactsAssumption
    <2>4. Facts!Crash => Facts!Idle BY <1>1, <1>a, ServeIsNoCrash
    <2>5. ASSUME NEW id \in Ids \ cut' PROVE Facts!Once(id)'
        BY <1>a, <2>1, <2>2, <2>4, Facts!OnceStep, FactsAssumption
    <2> QED BY <2>3, <2>5 DEF ServiceInv
<1>2. ASSUME NEW a \in Actors, Raise(a) PROVE ServiceInv' /\ Facts!AnswerChange
    <2>1. /\ CallUnderWay = calls[a] /\ CallUnderWay' = Facts!NoCall
          /\ UNCHANGED <<audit, pending, registry, loaded, drains>> /\ cut' = cut \cup Open(a)
        BY <1>2, RaiseEnds DEF Facts!NoCall, NoCall, As!NoCall, shared
    <2>2. Facts!IInv' /\ Facts!AnswerChange BY <1>a, <2>1, Facts!RaiseKeeps, FactsAssumption
    <2>3. ASSUME NEW id \in Ids \ cut' PROVE Facts!Once(id)'
        <3>1. Facts!Idle \/ CallUnderWay.id # id
            BY <2>1 DEF Open, Facts!Idle, Facts!NoCall, NoCall, As!NoCall
        <3> QED BY <1>a, <2>1, <3>1, Facts!OnceCut, FactsAssumption
    <2> QED BY <2>2, <2>3 DEF ServiceInv
<1>3. CASE Crash
    <2>1. Facts!Crash BY <1>3, SameCrash
    <2>2. Facts!Next BY <2>1 DEF Facts!Next
    <2>3. Facts!IInv' /\ Facts!AnswerChange BY <1>a, <2>2, Facts!EveryStep, FactsAssumption
    <2>4. ASSUME NEW id \in Ids \ cut' PROVE Facts!Once(id)'
        <3>1. id \notin cut /\ (Facts!Idle \/ CallUnderWay.id # id) BY <1>3, CrashCuts
        <3> QED BY <1>a, <2>2, <3>1, Facts!OnceStep, FactsAssumption
    <2> QED BY <2>3, <2>4 DEF ServiceInv
<1>4. CASE UNCHANGED <<shared, calls, cut>>
    <2>1. UNCHANGED Facts!vars /\ cut' = cut BY <1>4, NoService
    <2>2. Facts!IInv' /\ Facts!AnswerChange BY <1>a, <2>1, Facts!EveryStep, FactsAssumption
    <2>3. Facts!Crash => Facts!Idle
        BY <2>1 DEF Facts!Crash, Facts!vars, Facts!Idle
    <2>4. ASSUME NEW id \in Ids \ cut' PROVE Facts!Once(id)'
        BY <1>a, <2>1, <2>3, Facts!OnceStep, FactsAssumption
    <2> QED BY <2>2, <2>4 DEF ServiceInv
<1> QED BY <1>1, <1>2, <1>3, <1>4, StepKinds

-----------------------------------------------------------------------------
(* A message that was answered is on record. *)

\* An answer on record stays on record.
LEMMA OnRecordStays ==
    ASSUME Facts!IInv, Facts!IInv', Facts!AnswerChange, NEW id \in Ids,
           Service!Latest(audit, id) # Service!Unanswered
    PROVE  Service!Latest(audit', id) # Service!Unanswered
<1>1. Loop \in Actors BY DEF Actors
<1>2. /\ Service!Latest(audit, id) = Facts!Latest(audit, id)
      /\ Service!Latest(audit', id) = Facts!Latest(audit', id)
      /\ Service!Unanswered = Facts!Unanswered /\ Facts!Unanswered.status = "none"
    BY <1>1, SameLatest DEF Service!Unanswered, Facts!Unanswered
<1>3. Facts!Latest(audit, id) \in Facts!SummaryType \cup {Facts!Unanswered}
    BY Facts!KnownIsLatest, FactsAssumption
<1>4. Facts!Latest(audit, id).status # "none"
    BY <1>2, <1>3, Facts!StatusTells, FactsAssumption
<1>5. Facts!Latest(audit', id).status # "none"
    BY <1>4, Facts!AnsweredStays, FactsAssumption
<1> QED BY <1>2, <1>5

\* A request that is on record, and an actor that is in no call.
LEMMA Answered ==
    ASSUME Facts!IInv, NEW id \in Ids, Facts!Known(id) # Facts!Unanswered
    PROVE  Service!Latest(audit, id) # Service!Unanswered
<1>1. Loop \in Actors BY DEF Actors
<1>2. Facts!Known(id) = Facts!Latest(audit, id) BY Facts!KnownIsLatest, FactsAssumption
<1> QED BY <1>1, <1>2, SameLatest DEF Service!Unanswered, Facts!Unanswered

\* Once the summary is registered, the request is on record.
LEMMA RegisteredAnswers ==
    ASSUME Facts!IInv', loaded', NEW id \in Ids, NEW s,
           registry'[id] = s, s.status \in {"executed", "held"}
    PROVE  Service!Latest(audit', id) # Service!Unanswered
<1>1. Loop \in Actors BY DEF Actors
<1>2. registry'[id] = Facts!Latest(audit', id) BY DEF Facts!IInv, Facts!ReplayIsTruthful
<1>3. Service!Latest(audit', id) = Facts!Latest(audit', id) BY <1>1, SameLatest
<1>4. Service!Unanswered.status = "none" BY DEF Service!Unanswered
<1> QED BY <1>2, <1>3, <1>4

\* What others do to the service leaves the listener where it is.
LEMMA TaskKept ==
    ASSUME TurnInv, TaskInv, Facts!IInv, Facts!IInv', Facts!AnswerChange,
           now' = now, mode' = mode, request'[Loop] = request[Loop], calls'[Loop] = calls[Loop]
    PROVE  TaskInv'
<1>0. NoCall' = NoCall /\ Nothing' = Nothing /\ Service!Unanswered' = Service!Unanswered
    BY DEF NoCall, As!NoCall, Nothing, Service!Unanswered
<1>1. ASSUME request[Loop] # Nothing,
             Service!Latest(audit, request[Loop].id) # Service!Unanswered
      PROVE  Service!Latest(audit', request[Loop].id) # Service!Unanswered
    <2>1. request[Loop].id \in Ids BY <1>1 DEF TurnInv, Actors
    <2> QED BY <1>1, <2>1, OnRecordStays
<1> QED BY <1>0, <1>1 DEF TaskInv, Progress

\* The listener takes a step of the service.
LEMMA TaskServe ==
    ASSUME TurnInv, TaskInv, Facts!IInv, Facts!IInv', Facts!AnswerChange, Serve(Loop)
    PROVE  TaskInv'
<1> DEFINE r == request[Loop]
<1>0. /\ NoCall' = NoCall /\ Nothing' = Nothing /\ Service!Unanswered' = Service!Unanswered
      /\ NoCall.op = "idle" /\ Loop \in Actors
    BY DEF NoCall, As!NoCall, Nothing, Service!Unanswered, Actors
<1>1. /\ r # Nothing /\ HasTurn(Loop) /\ ~ Raised(Loop) /\ r.id \in Ids
      /\ \E c : calls' = [calls EXCEPT ![Loop] = c]
      /\ \/ /\ calls[Loop] = NoCall /\ r.todo # <<>>
            /\ Begin(Loop, Head(r.todo), r.id)
            /\ request' = [request EXCEPT ![Loop].todo = Tail(@)]
         \/ Resume(Loop) /\ calls[Loop] # NoCall /\ request' = request
      /\ now' = now /\ mode' = mode
    <2>1. now' = now /\ mode' = mode BY DEF Serve, queues
    <2>2. Loop \in Actors BY <1>0
    <2>3. /\ request[Loop] # Nothing /\ HasTurn(Loop) /\ ~ Raised(Loop) /\ request[Loop].id \in Ids
          /\ \E c : calls' = [calls EXCEPT ![Loop] = c]
        BY <2>2, ServeTurn
    <2>4. \/ /\ calls[Loop] = NoCall /\ request[Loop].todo # <<>>
             /\ Begin(Loop, Head(request[Loop].todo), request[Loop].id)
             /\ request' = [request EXCEPT ![Loop].todo = Tail(@)]
          \/ Resume(Loop) /\ calls[Loop] # NoCall /\ request' = request
        BY <2>2, ResumeCalls DEF Serve
    <2> QED BY <2>1, <2>3, <2>4
<1>2. (\A b \in Actors \ {Loop} : calls[b] = NoCall) /\ calls[Loop] = CallUnderWay
    BY <1>0, <1>1, Alone
<1>3. \A b \in Actors \ {Loop} : calls'[b] = NoCall BY <1>1, <1>2 DEF TurnInv
<1>4. (calls[Loop])' = CallUnderWay' BY <1>0, <1>3, UnderWayNext
<1>5. request'[Loop].id = r.id /\ request'[Loop] # Nothing
    <2>1. request'[Loop].id = r.id BY <1>0, <1>1 DEF TurnInv
    <2> QED BY <1>1, <2>1, IntakeAssumption DEF Nothing
<1>6. SUFFICES ASSUME mode = "pull" PROVE Progress(request[Loop], calls[Loop])'
    BY <1>0, <1>1, <1>5 DEF TaskInv
<1>7. now # NoMessage /\ Progress(r, calls[Loop]) BY <1>1, <1>6 DEF TaskInv
<1> DEFINE id == r.id
<1>a. id \in Ids BY <1>1
<1>8. CASE calls[Loop] = NoCall /\ r.todo = <<"plan", "execute", "verify">>
    <2>1. Begin(Loop, "plan", id) /\ request' = [request EXCEPT ![Loop].todo = Tail(@)]
        BY <1>1, <1>8, ResumeCalls
    <2>2. As(Loop)!Plan BY <2>1 DEF Begin
    <2>3. calls'[Loop] = NoCall BY <1>8, <2>2 DEF As!Plan
    <2>4. request'[Loop].todo = <<"execute", "verify">> BY <1>0, <1>8, <2>1 DEF TurnInv
    <2>5. <<"execute", "verify">> # <<"verify">> /\ <<"execute", "verify">> # <<>> OBVIOUS
    <2> QED BY <1>0, <2>3, <2>4, <2>5 DEF Progress
<1>9. CASE calls[Loop] = NoCall /\ r.todo = <<"execute", "verify">>
    <2>1. Begin(Loop, "execute", id) /\ request' = [request EXCEPT ![Loop].todo = Tail(@)]
        BY <1>1, <1>9, ResumeCalls
    <2>2. request'[Loop].todo = <<"verify">> BY <1>0, <1>9, <2>1 DEF TurnInv
    <2>3. SUFFICES /\ calls'[Loop] # NoCall => calls'[Loop].id = id
                                               /\ calls'[Loop].op \in {"record", "record_hold", "export"}
                   /\ \/ Service!Latest(audit', id) # Service!Unanswered
                      \/ calls'[Loop].op \in {"record", "record_hold"}
        BY <1>0, <1>5, <2>2 DEF Progress
    <2> HIDE DEF id
    <2>4. CASE As(Loop)!ExecuteRevocation(id)
        <3>1. calls'[Loop].op = "record" /\ calls'[Loop].id = id
            BY <2>4 DEF As!ExecuteRevocation
        <3> QED BY <3>1
    <2>5. CASE As(Loop)!ExecuteHeld(id)
        <3>1. calls'[Loop].op = "record_hold" /\ calls'[Loop].id = id BY <2>5 DEF As!ExecuteHeld
        <3> QED BY <3>1
    <2>6. CASE As(Loop)!ExecuteAccess(id)
        <3>1. Facts!ExecuteAccess(id) BY <1>0, <1>2, <1>4, <2>6, SameExecuteAccess
        <3> DEFINE s == Facts!Summary("dsar_execute", id, "executed", Facts!None, Facts!None)
        <3>2. registry' = [Facts!Rehydrated EXCEPT ![id] = s] /\ loaded'
            BY <3>1 DEF Facts!ExecuteAccess
        <3>3. s.status = "executed" BY DEF Facts!Summary
        <3>4. registry'[id] = s
            <4> HIDE DEF s
            <4>1. Facts!Rehydrated \in [Ids -> Facts!SummaryType \cup {Facts!Unanswered}]
                BY Facts!KnownIsLatest, FactsAssumption
            <4> QED BY <1>a, <3>2, <4>1 DEF id
        <3> HIDE DEF s
        <3>5. Service!Latest(audit', id) # Service!Unanswered
            BY <1>a, <3>2, <3>3, <3>4, RegisteredAnswers DEF id
        <3>6. calls'[Loop].op = "export" /\ calls'[Loop].id = id BY <2>6 DEF As!ExecuteAccess
        <3> QED BY <3>5, <3>6
    <2>7. CASE As(Loop)!Known(id) # As(Loop)!Unanswered /\ As(Loop)!Consult
        <3>1. calls'[Loop] = NoCall /\ audit' = audit BY <1>9, <2>7 DEF As!Consult
        <3>2. Facts!Known(id) # Facts!Unanswered
            BY <1>0, <2>7, SameKnown DEF As!Unanswered, Facts!Unanswered
        <3>3. Service!Latest(audit, id) # Service!Unanswered BY <1>a, <3>2, Answered DEF id
        <3> QED BY <3>1, <3>3
    <2> QED BY <2>1, <2>4, <2>5, <2>6, <2>7 DEF Begin
<1>10. CASE calls[Loop] = NoCall /\ r.todo = <<"verify">>
    <2>1. Begin(Loop, "verify", id) /\ request' = [request EXCEPT ![Loop].todo = Tail(@)]
        BY <1>1, <1>10, ResumeCalls
    <2>2. request'[Loop].todo = <<>> BY <1>0, <1>10, <2>1 DEF TurnInv
    <2>3. Service!Latest(audit', id) # Service!Unanswered
        BY <1>0, <1>a, <1>7, <1>10, OnRecordStays DEF Progress
    <2>4. calls'[Loop] = NoCall BY <1>10, <2>1 DEF Begin, As!Verify, As!Consult
    <2> QED BY <1>0, <1>5, <2>2, <2>3, <2>4 DEF Progress
<1>11. CASE calls[Loop] # NoCall
    <2>1. /\ Resume(Loop) /\ request' = request /\ r.todo = <<"verify">> /\ calls[Loop].id = id
          /\ calls[Loop].op \in {"record", "record_hold", "export"}
        BY <1>1, <1>7, <1>11 DEF Progress
    <2>2. calls[Loop].op = "export" => Service!Latest(audit, id) # Service!Unanswered
        BY <1>7, <2>1 DEF Progress
    <2>3. SUFFICES calls'[Loop] = NoCall /\ Service!Latest(audit', id) # Service!Unanswered
        BY <1>0, <2>1 DEF Progress
    <2>4. loaded /\ registry \in [Ids -> Facts!SummaryType \cup {Facts!Unanswered}]
        BY <1>2, <1>11 DEF Facts!IInv, Facts!TypeOK, Facts!Idle, Facts!NoCall, NoCall, As!NoCall
    <2>5. ASSUME NEW s, Facts!Register(s), s.id = id, s.status \in {"executed", "held"}
          PROVE  Service!Latest(audit', id) # Service!Unanswered
        <3> HIDE DEF id
        <3>1. registry' = [registry EXCEPT ![s.id] = s] /\ loaded' = loaded
            BY <2>5 DEF Facts!Register
        <3>2. registry'[id] = s BY <1>a, <2>4, <2>5, <3>1 DEF id
        <3> QED BY <1>a, <2>4, <2>5, <3>1, <3>2, RegisteredAnswers DEF id
    <2>6. CASE As(Loop)!RecordExecuted
        <3>1. calls'[Loop] = NoCall BY <2>6 DEF As!RecordExecuted, NoCall, As!NoCall
        <3>2. Facts!RecordExecuted BY <1>0, <1>2, <1>4, <2>6, SameRecordExecuted
        <3> DEFINE s == Facts!Summary("dsar_execute", CallUnderWay.id, "executed",
                                   Facts!NewCertificate(audit, CallUnderWay.before), Facts!None)
        <3>3. s.id = id /\ s.status = "executed" BY <1>2, <2>1 DEF Facts!Summary
        <3>4. Facts!Register(s) BY <3>2 DEF Facts!RecordExecuted
        <3> HIDE DEF s
        <3> QED BY <2>5, <3>1, <3>3, <3>4
    <2>7. CASE As(Loop)!RecordHeld
        <3>1. calls'[Loop] = NoCall BY <2>7 DEF As!RecordHeld, NoCall, As!NoCall
        <3>2. Facts!RecordHeld BY <1>0, <1>2, <1>4, <2>7, SameRecordHeld
        <3> DEFINE s == Facts!Summary("dsar_execute", CallUnderWay.id, "held", Facts!None,
                                   Facts!NewestHold(pending))
        <3>3. s.id = id /\ s.status = "held" BY <1>2, <2>1 DEF Facts!Summary
        <3>4. Facts!Register(s) BY <3>2 DEF Facts!RecordHeld
        <3> HIDE DEF s
        <3> QED BY <2>5, <3>1, <3>3, <3>4
    <2>8. CASE As(Loop)!ExportAccess
        <3>1. calls[Loop].op = "export" /\ calls'[Loop] = NoCall
            BY <2>8 DEF As!ExportAccess, NoCall, As!NoCall
        <3> QED BY <1>a, <2>2, <3>1, OnRecordStays
    <2>9. CASE As(Loop)!RunApproved \/ As(Loop)!RecordApproval \/ As(Loop)!RecordRejection
        BY <2>1, <2>9 DEF As!RunApproved, As!RecordApproval, As!RecordRejection
    <2> QED BY <2>1, <2>6, <2>7, <2>8, <2>9 DEF Resume
<1>12. CASE calls[Loop] = NoCall /\ r.todo \in {<<>>, <<"raised">>}
    BY <1>1, <1>12 DEF Raised
<1> QED BY <1>7, <1>8, <1>9, <1>10, <1>11, <1>12 DEF Progress

-----------------------------------------------------------------------------
(* The listener's own state. *)

\* Nothing is read that was not published, and nothing committed that was not read.
OffsetInv == committed \in 0 .. offset /\ offset \in 0 .. published /\ published \in 0 .. Len(Topic)

CounterInv ==
    /\ drops \in 0 .. MaxDrops /\ requests \in 0 .. MaxRequests
    /\ crashes \in 0 .. MaxCrashes /\ faults \in 0 .. MaxFaults

\* The next file of a listing, in filename order.
LEMMA LowestIsFirst ==
    ASSUME NEW S \in SUBSET Nat, S # {}
    PROVE  Lowest(S) \in S /\ \A f \in S : Lowest(S) <= f
<1> DEFINE Less == OpToRel(<, Nat)
<1>1. \A x, y \in Nat : <<y, x>> \in Less <=> y < x BY DEF OpToRel
<1>2. \A x, y \in Nat : x <= y \/ y < x OBVIOUS
<1>3. IsWellFoundedOn(Less, Nat) BY NatLessThanWellFounded
<1> HIDE DEF Less
<1>4. \E x \in S : \A y \in S : ~ (<<y, x>> \in Less) BY <1>3, WFMin
<1>5. \A x, y \in S : x <= y \/ <<y, x>> \in Less BY <1>1, <1>2
<1>6. \E x \in S : \A y \in S : x <= y BY <1>4, <1>5
<1> QED BY <1>6 DEF Lowest

\* The positions in the topic keep their order.
LEMMA OffsetStep ==
    ASSUME OffsetInv, [Next]_vars
    PROVE  OffsetInv'
<1>0. Len(Topic) \in Nat BY IntakeAssumption
<1>1. CASE UNCHANGED <<published, offset, committed>> BY <1>1 DEF OffsetInv
<1>2. CASE Publish BY <1>0, <1>2 DEF Publish, OffsetInv
<1>3. CASE Commit BY <1>0, <1>3 DEF Commit, OffsetInv
<1>4. CASE PollTopic BY <1>0, <1>4 DEF PollTopic, OffsetInv
<1>5. CASE Crash BY <1>0, <1>5 DEF Crash, OffsetInv
<1> QED BY <1>1, <1>2, <1>3, <1>4, <1>5 DEF Next, ThreadStep, ListenerStep,
       Arrive, Acquire, Serve, Raise, Refuse, Respond, ReadLine, WriteLine, Drop, ListFolder,
       MoveFile, PollReturns, PollRaises, NextSource, TakeMessage, DropBroken, Settle, SettleAs,
       queues, vars

\* The bounds hold.
LEMMA CounterStep ==
    ASSUME CounterInv, [Next]_vars
    PROVE  CounterInv'
<1>0. {MaxDrops, MaxRequests, MaxCrashes, MaxFaults} \subseteq Nat BY IntakeAssumption
<1>1. CASE UNCHANGED counters BY <1>1 DEF CounterInv, counters
<1>2. CASE \/ \E t \in Threads : Arrive(t)
           \/ ReadLine
           \/ \E file \in Files : Drop(file)
           \/ PollRaises \/ Crash
           \/ \E a \in Actors : Raise(a)
    BY <1>0, <1>2 DEF CounterInv, Arrive, ReadLine, Drop, PollRaises, Crash, Raise
<1> QED BY <1>1, <1>2 DEF Next, ThreadStep, ListenerStep, Acquire, Serve, Refuse, Respond,
       WriteLine, Publish, Commit, ListFolder, MoveFile, PollReturns, PollTopic, NextSource,
       TakeMessage, DropBroken, Settle, SettleAs, vars

\* Files and records are messages, and none is both.
LEMMA MessageKinds ==
    /\ Messages \subseteq Nat /\ NoMessage \notin Messages
    /\ Files \subseteq Messages /\ \A k \in DOMAIN Topic : Topic[k] \in Messages \ Files
    /\ Len(Topic) \in Nat
<1>1. /\ Topic \in Seq(Nat \ {NoMessage}) /\ Files \subseteq Nat \ {NoMessage}
      /\ \A k \in DOMAIN Topic : Topic[k] \notin Files
    BY IntakeAssumption
<1>2. Len(Topic) \in Nat /\ \A k \in DOMAIN Topic : Topic[k] \in Nat \ {NoMessage} BY <1>1
<1>3. Messages = Files \cup {Topic[k] : k \in DOMAIN Topic} BY DEF Messages
<1> QED BY <1>1, <1>2, <1>3

\* A batch of the topic: records, in the order of the topic.
LEMMA BatchOfTopic ==
    ASSUME NEW n \in Nat, NEW m \in Nat, n <= m, m <= Len(Topic)
    PROVE  /\ SubSeq(Topic, n + 1, m) \in Seq(Messages)
           /\ \A k \in DOMAIN SubSeq(Topic, n + 1, m) : SubSeq(Topic, n + 1, m)[k] \notin Files
<1>1. Topic \in Seq(Messages)
    BY MessageKinds, IntakeAssumption
<1>2. DOMAIN Topic = 1..Len(Topic) BY <1>1
<1>3. SubSeq(Topic, n + 1, m) = [k \in 1..(m - n) |-> Topic[n + k]]
    BY <1>1, MessageKinds
<1>4. \A k \in 1..(m - n) : n + k \in DOMAIN Topic BY <1>2, MessageKinds
<1>5. DOMAIN SubSeq(Topic, n + 1, m) = 1..(m - n) BY <1>3
<1>6. SubSeq(Topic, n + 1, m) \in Seq(Messages) BY <1>1, <1>2, MessageKinds
<1> QED BY <1>3, <1>4, <1>5, <1>6, MessageKinds

\* What the listener has in hand follows the phases of run().
LEMMA PlaceStep ==
    ASSUME PlaceInv, FileInv, OffsetInv, [Next]_vars
    PROVE  PlaceInv'
<1>a. <<>> \in Seq(Messages) /\ Messages' = Messages /\ NoMessage' = NoMessage
    BY DEF Messages, NoMessage
<1>1. CASE UNCHANGED <<mode, phase, batch, now>> BY <1>1, <1>a DEF PlaceInv
<1>2. CASE ListFolder \/ PollReturns \/ PollRaises \/ NextSource \/ Crash
    BY <1>2, <1>a DEF PlaceInv, ListFolder, PollReturns, PollRaises, NextSource, Crash
<1>3. CASE MoveFile
    <2>1. listing \subseteq Files /\ listing # {} /\ batch' = Append(batch, Lowest(listing))
          /\ phase = "move" /\ UNCHANGED <<mode, phase, now>>
        BY <1>3 DEF MoveFile, FileInv
    <2>2. Lowest(listing) \in Messages BY <2>1, LowestIsFirst, MessageKinds
    <2>3. batch' \in Seq(Messages) BY <2>1, <2>2 DEF PlaceInv
    <2> QED BY <1>a, <2>1, <2>3 DEF PlaceInv
<1>4. CASE PollTopic
    <2>1. PICK n \in offset .. published : batch' = SubSeq(Topic, offset + 1, n)
        BY <1>4 DEF PollTopic
    <2>2. batch' \in Seq(Messages)
        BY <2>1, BatchOfTopic, MessageKinds DEF OffsetInv
    <2> QED BY <1>4, <1>a, <2>2 DEF PlaceInv, PollTopic
<1>5. CASE TakeMessage BY <1>5, <1>a, HeadTail DEF PlaceInv, TakeMessage
<1>6. CASE DropBroken BY <1>6, <1>a, HeadTail DEF PlaceInv, DropBroken
<1>7. CASE Settle BY <1>7, <1>a DEF PlaceInv, Settle, SettleAs
<1>8. CASE \/ \E t \in Threads : Arrive(t) \/ Acquire(t) \/ Refuse(t) \/ Respond(t)
           \/ \E a \in Actors : Serve(a) \/ Raise(a)
           \/ ReadLine \/ WriteLine \/ Publish \/ Commit \/ UNCHANGED vars
           \/ \E file \in Files : Drop(file)
    BY <1>1, <1>8 DEF Arrive, Acquire, Refuse, Respond, Serve, Raise, ReadLine, WriteLine,
       Publish, Commit, Drop, queues, vars
<1> QED BY <1>2, <1>3, <1>4, <1>5, <1>6, <1>7, <1>8 DEF Next, ThreadStep, ListenerStep, Actors

\* No file is taken twice, and none that is taken is still to be moved.
LEMMA FileStep ==
    ASSUME PlaceInv, FileInv, OffsetInv, [Next]_vars
    PROVE  FileInv'
<1>1. CASE UNCHANGED <<folder, listing, batch, now, source, phase>> BY <1>1 DEF FileInv
<1>2. ASSUME NEW file \in Files, Drop(file) PROVE FileInv'
    BY <1>2 DEF FileInv, Drop
<1>3. CASE ListFolder BY <1>3 DEF FileInv, PlaceInv, ListFolder
<1>4. CASE MoveFile
    <2> DEFINE f == Lowest(listing)
    <2>1. /\ listing \subseteq folder /\ folder \subseteq Files /\ listing # {}
          /\ phase = "move" /\ listing' = listing \ {f} /\ folder' = folder \ {f}
          /\ batch' = Append(batch, f) /\ UNCHANGED <<now, source, phase>> /\ now = NoMessage
        BY <1>4 DEF MoveFile, FileInv, PlaceInv
    <2>2. f \in listing BY <2>1, LowestIsFirst, MessageKinds
    <2>3. f \in Files /\ f # now BY <2>1, <2>2, MessageKinds
    <2> HIDE DEF f
    <2>4. /\ batch \in Seq(Messages) /\ f \in Messages /\ \A k \in DOMAIN batch : batch[k] \in Files
          /\ \A k \in DOMAIN batch : /\ batch[k] \notin listing /\ batch[k] # now
                                     /\ \A j \in DOMAIN batch : batch[j] = batch[k] => j = k
        BY <2>1, <2>3, MessageKinds DEF FileInv, PlaceInv
    <2>5. /\ Len(batch) \in Nat /\ DOMAIN batch = 1..Len(batch)
          /\ DOMAIN batch' = 1..(Len(batch) + 1) /\ batch'[Len(batch) + 1] = f
          /\ \A k \in DOMAIN batch : batch'[k] = batch[k]
        BY <2>1, <2>4
    <2>6. \A k \in DOMAIN batch' : k \in DOMAIN batch \/ k = Len(batch) + 1 BY <2>5
    <2>7. \A k \in DOMAIN batch' : /\ batch'[k] \in Files /\ batch'[k] \notin listing'
                                   /\ batch'[k] # now'
        BY <2>1, <2>2, <2>3, <2>4, <2>5, <2>6
    <2>8. \A k, j \in DOMAIN batch' : batch'[j] = batch'[k] => j = k
        BY <2>2, <2>4, <2>5, <2>6
    <2> QED BY <2>1, <2>7, <2>8 DEF FileInv
<1>5. CASE PollReturns \/ PollRaises \/ NextSource \/ Crash
    BY <1>5 DEF FileInv, PollReturns, PollRaises, NextSource, Crash
<1>6. CASE PollTopic
    <2>1. PICK n \in offset .. published : batch' = SubSeq(Topic, offset + 1, n)
        BY <1>6 DEF PollTopic
    <2>2. \A k \in DOMAIN batch' : batch'[k] \notin Files
        BY <2>1, BatchOfTopic, MessageKinds DEF OffsetInv
    <2>3. listing = {} BY <1>6 DEF PollTopic, FileInv
    <2> QED BY <1>6, <2>2, <2>3 DEF FileInv, PollTopic
<1>7. CASE TakeMessage \/ DropBroken
    <2>1. /\ batch \in Seq(Messages) /\ batch # <<>> /\ batch' = Tail(batch) /\ phase = "work"
          /\ now' \in {now, Head(batch)} /\ UNCHANGED <<folder, listing, source, phase>>
        BY <1>7 DEF TakeMessage, DropBroken, PlaceInv
    <2>2. \A k \in DOMAIN batch' : /\ k + 1 \in DOMAIN batch /\ k + 1 # 1 /\ 1 \in DOMAIN batch
                                   /\ batch'[k] = batch[k + 1] /\ k \in Nat
        BY <2>1, HeadTail
    <2>3. \A k \in DOMAIN batch' : batch'[k] \in Files =>
             /\ batch'[k] \notin listing /\ batch'[k] # now /\ batch'[k] # batch[1]
             /\ \A j \in DOMAIN batch' : batch'[j] = batch'[k] => j + 1 = k + 1
        BY <2>2 DEF FileInv
    <2>4. \A k, j \in DOMAIN batch' : j + 1 = k + 1 => j = k BY <2>2
    <2>5. batch[1] = Head(batch) BY <2>1, HeadTail
    <2> QED BY <2>1, <2>3, <2>4, <2>5 DEF FileInv
<1>8. CASE Settle
    <2>1. \A k \in DOMAIN batch : batch[k] # NoMessage BY MessageKinds DEF PlaceInv
    <2> QED BY <1>8, <2>1 DEF FileInv, Settle, SettleAs
<1>9. CASE \/ \E t \in Threads : Arrive(t) \/ Acquire(t) \/ Refuse(t) \/ Respond(t)
           \/ \E a \in Actors : Serve(a) \/ Raise(a)
           \/ ReadLine \/ WriteLine \/ Publish \/ Commit \/ UNCHANGED vars
    BY <1>1, <1>9 DEF Arrive, Acquire, Refuse, Respond, Serve, Raise, ReadLine, WriteLine,
       Publish, Commit, queues, vars
<1> QED BY <1>2, <1>3, <1>4, <1>5, <1>6, <1>7, <1>8, <1>9
        DEF Next, ThreadStep, ListenerStep, Actors

\* The listener's request is the one of the message at hand, and is verified on record.
LEMMA TaskStep ==
    ASSUME TurnInv, PlaceInv, TaskInv, ServiceInv, ServiceInv', Facts!AnswerChange, [Next]_vars
    PROVE  TaskInv'
<1>0. /\ NoCall' = NoCall /\ Nothing' = Nothing /\ NoCall.op = "idle" /\ Loop \in Actors
      /\ Threads \subseteq Actors /\ Loop \notin Threads /\ NoMessage' = NoMessage
      /\ Service!Unanswered' = Service!Unanswered
    BY IntakeAssumption DEF NoCall, As!NoCall, Nothing, Actors, NoMessage, Service!Unanswered
<1>a. Facts!IInv /\ Facts!IInv' BY DEF ServiceInv
<1>1. CASE now' = now /\ mode' = mode /\ request'[Loop] = request[Loop] /\ calls'[Loop] = calls[Loop]
    BY <1>a, <1>1, TaskKept
<1>2. CASE Serve(Loop) BY <1>a, <1>2, TaskServe
<1>3. ASSUME NEW t \in Threads, Arrive(t) \/ Acquire(t) \/ Refuse(t) \/ Respond(t) PROVE TaskInv'
    <2>1. now' = now /\ mode' = mode /\ calls' = calls
        BY <1>3 DEF Arrive, Acquire, Refuse, Respond, queues
    <2>2. request'[Loop] = request[Loop]
        BY <1>0, <1>3 DEF Arrive, Acquire, Refuse, Respond, TurnInv
    <2> QED BY <1>1, <2>1, <2>2
<1>4. ASSUME NEW t \in Threads, Serve(t) PROVE TaskInv'
    <2>1. now' = now /\ mode' = mode /\ request'[Loop] = request[Loop] /\ calls'[Loop] = calls[Loop]
        BY <1>0, <1>4 DEF Serve, TurnInv, queues
    <2> QED BY <1>1, <2>1
<1>5. ASSUME NEW t \in Threads, Raise(t) PROVE TaskInv'
    <2>1. now' = now /\ mode' = mode /\ request'[Loop] = request[Loop] /\ calls'[Loop] = calls[Loop]
        BY <1>0, <1>5 DEF Raise, TurnInv, queues
    <2> QED BY <1>1, <2>1
<1>6. CASE Raise(Loop)
    <2>1. request[Loop] # Nothing BY <1>0, <1>6, TurnRaise
    <2>2. /\ calls'[Loop] = NoCall /\ request'[Loop].id = request[Loop].id
          /\ request'[Loop].todo = <<"raised">> /\ now' = now /\ mode' = mode
        BY <1>0, <1>6 DEF Raise, TurnInv, Asking, queues
    <2>3. <<"raised">> # <<"verify">> OBVIOUS
    <2>4. <<"raised">> # <<>> OBVIOUS
    <2>5. Nothing.todo = <<>> BY DEF Nothing
    <2>6. request'[Loop] # Nothing BY <2>2, <2>4, <2>5
    <2> QED BY <1>0, <2>1, <2>2, <2>3, <2>4, <2>6 DEF TaskInv, Progress
<1>7. CASE ReadLine \/ WriteLine
    <2>1. mode = "agent" /\ mode' = mode /\ now' = now
        BY <1>7 DEF ReadLine, WriteLine, queues
    <2>2. now = NoMessage BY <2>1 DEF PlaceInv
    <2> QED BY <1>0, <2>1, <2>2 DEF TaskInv
<1>8. CASE TakeMessage
    <2>1. now = NoMessage /\ mode = "pull" /\ mode' = mode /\ calls' = calls /\ now' = Head(batch)
        BY <1>8 DEF TakeMessage, PlaceInv
    <2>2. Head(batch) \in Messages BY <1>8, HeadTail DEF TakeMessage, PlaceInv
    <2>3. calls[Loop] = NoCall BY <1>0, <2>1 DEF TaskInv, TurnInv
    <2>4. PICK id \in IdsFor(Head(batch)) :
              request' = [request EXCEPT ![Loop] = Asking(<<"plan", "execute", "verify">>, id)]
        BY <1>8 DEF TakeMessage
    <2>5. /\ request'[Loop].id = id /\ request'[Loop].todo = <<"plan", "execute", "verify">>
          /\ RequestOf[now'] # NoId => id = RequestOf[now']
        BY <1>0, <2>1, <2>4 DEF TurnInv, Asking, IdsFor
    <2>6. request'[Loop] # Nothing /\ now' # NoMessage
        BY <2>1, <2>2, <2>5, MessageKinds DEF Nothing
    <2>7. <<"plan", "execute", "verify">> # <<"verify">> /\ <<"plan", "execute", "verify">> # <<>>
        OBVIOUS
    <2> QED BY <1>0, <2>1, <2>3, <2>5, <2>6, <2>7 DEF TaskInv, Progress
<1>9. CASE Settle \/ Crash
    <2>1. now' = NoMessage /\ request'[Loop] = Nothing
        BY <1>0, <1>9 DEF Settle, SettleAs, Crash, TurnInv
    <2> QED BY <1>0, <2>1 DEF TaskInv
<1>10. CASE UNCHANGED <<now, mode, request, calls>> BY <1>1, <1>10
<1>11. CASE \/ ListFolder \/ MoveFile \/ PollReturns \/ PollRaises \/ PollTopic \/ NextSource
            \/ DropBroken \/ Publish \/ Commit \/ UNCHANGED vars
            \/ \E file \in Files : Drop(file)
    BY <1>10, <1>11 DEF ListFolder, MoveFile, PollReturns, PollRaises, PollTopic, NextSource,
       DropBroken, Publish, Commit, Drop, queues, vars
<1> QED BY <1>2, <1>3, <1>4, <1>5, <1>6, <1>7, <1>8, <1>9, <1>11
        DEF Next, ThreadStep, ListenerStep, Actors

-----------------------------------------------------------------------------
(* The invariant, and what follows. *)

\* What is told of messages and requests is told of those there are.
FateInv ==
    /\ answered \subseteq settled /\ settled \subseteq Messages /\ lost \subseteq Files
    /\ drawn \subseteq FreshIds /\ cut \subseteq Ids

\* An effect without its summary is one of a request.
LEMMA OpenIds ==
    ASSUME TurnInv, ServiceInv, NEW a \in Actors
    PROVE  Open(a) \subseteq Ids
<1>1. CASE calls[a] # NoCall
    <2>1. request[a] # Nothing /\ HasTurn(a) BY <1>1 DEF TurnInv
    <2>2. CallUnderWay = calls[a] BY <2>1, Alone
    <2>3. ~ Facts!Idle BY <1>1, <2>2 DEF Facts!Idle, Facts!NoCall, NoCall, As!NoCall
    <2>4. CallUnderWay.id \in Ids BY <2>3 DEF ServiceInv, Facts!IInv, Facts!TypeOK
    <2> QED BY <1>1, <2>2, <2>4 DEF Open
<1> QED BY <1>1 DEF Open

\* Only messages and requests there are get a fate.
LEMMA FateStep ==
    ASSUME TurnInv, ServiceInv, PlaceInv, FileInv, FateInv, [Next]_vars
    PROVE  FateInv'
<1>1. CASE UNCHANGED <<fates, drawn, cut>> BY <1>1 DEF FateInv, fates, Messages
<1>2. ASSUME NEW a \in Actors, Raise(a) PROVE FateInv'
    BY <1>2, OpenIds DEF FateInv, Raise, fates, Messages
<1>3. CASE Crash
    <2>1. UNION {Open(a) : a \in Actors} \subseteq Ids BY OpenIds
    <2> QED BY <1>3, <2>1 DEF FateInv, Crash, Messages
<1>4. CASE PollRaises
    <2>1. InHand \subseteq Files BY <1>4 DEF PollRaises, InHand, FileInv, PlaceInv
    <2> QED BY <1>4, <2>1 DEF FateInv, PollRaises, Messages
<1>5. CASE TakeMessage BY <1>5 DEF FateInv, TakeMessage, fates, Messages
<1>6. CASE DropBroken
    <2>1. Head(batch) \in Messages BY <1>6, HeadTail DEF DropBroken, PlaceInv
    <2> QED BY <1>6, <2>1 DEF FateInv, DropBroken, Messages
<1>7. CASE Settle BY <1>7 DEF FateInv, Settle, SettleAs, PlaceInv, Messages
<1>8. CASE \/ \E t \in Threads : Arrive(t) \/ Acquire(t) \/ Refuse(t) \/ Respond(t)
           \/ \E a \in Actors : Serve(a)
           \/ \E file \in Files : Drop(file)
           \/ ReadLine \/ WriteLine \/ Publish \/ Commit \/ ListFolder \/ MoveFile \/ PollReturns
           \/ PollTopic \/ NextSource \/ UNCHANGED vars
    BY <1>1, <1>8 DEF Arrive, Acquire, Refuse, Respond, Serve, Drop, ReadLine, WriteLine, Publish,
       Commit, ListFolder, MoveFile, PollReturns, PollTopic, NextSource, vars
<1> QED BY <1>2, <1>3, <1>4, <1>5, <1>6, <1>7, <1>8 DEF Next, ThreadStep, ListenerStep, Actors

IntakeInv ==
    TurnInv /\ MessageInv /\ FileInv /\ OffsetInv /\ CounterInv /\ ServiceInv /\ FateInv

\* The whole invariant holds at the start.
LEMMA IntakeInit == Init => IntakeInv
<1> SUFFICES ASSUME Init PROVE IntakeInv OBVIOUS
<1>0. /\ Loop \in Actors /\ Len(Topic) \in Nat
      /\ {MaxDrops, MaxRequests, MaxCrashes, MaxFaults} \subseteq Nat
    BY IntakeAssumption DEF Actors
<1>1. PlaceInv BY DEF Init, PlaceInv
<1>2. TaskInv BY <1>0 DEF Init, TaskInv
<1>3. FileInv BY DEF Init, FileInv
<1>4. OffsetInv /\ CounterInv BY <1>0 DEF Init, OffsetInv, CounterInv
<1>5. FateInv BY DEF Init, FateInv
<1> QED BY <1>1, <1>2, <1>3, <1>4, <1>5, TurnInit, ServiceInit DEF IntakeInv, MessageInv

\* Every step keeps it, and keeps every answer but a held one.
LEMMA IntakeStep ==
    ASSUME IntakeInv, [Next]_vars
    PROVE  IntakeInv' /\ Facts!AnswerChange
<1>1. TurnInv' BY TurnStep DEF IntakeInv
<1>2. ServiceInv' /\ Facts!AnswerChange BY ServiceStep DEF IntakeInv
<1>3. PlaceInv' /\ FileInv' BY PlaceStep, FileStep DEF IntakeInv, MessageInv
<1>4. TaskInv' BY <1>2, TaskStep DEF IntakeInv, MessageInv
<1>5. OffsetInv' /\ CounterInv' BY OffsetStep, CounterStep DEF IntakeInv
<1>6. FateInv' BY FateStep DEF IntakeInv, MessageInv
<1> QED BY <1>1, <1>2, <1>3, <1>4, <1>5, <1>6 DEF IntakeInv, MessageInv

\* It always holds.
LEMMA IntakeHolds == Spec => []IntakeInv
<1>1. IntakeInv /\ [Next]_vars => IntakeInv' BY IntakeStep
<1> QED BY <1>1, IntakeInit, PTL DEF Spec

\* Whichever channel a request takes, what the service does is what one caller at a time
\* could have made it do: the lock of the gateway and the loops of the listener and of
\* the MCP server serialise the calls of dsar.py, whose effects are steps of their own.
THEOREM CallsAreSerial == Spec => SerialService
<1>1. Init => Service!Init BY SameInit
<1>2. IntakeInv /\ [Next]_vars => [Service!Next \/ faults' # faults]_(Service!vars)
    <2> SUFFICES ASSUME IntakeInv, [Next]_vars
                 PROVE  [Service!Next \/ faults' # faults]_(Service!vars)
        OBVIOUS
    <2>1. ASSUME NEW a \in Actors, Serve(a) PROVE Service!Next
        BY <2>1, ServeIsService DEF IntakeInv
    <2>2. ASSUME NEW a \in Actors, Raise(a) PROVE faults' # faults
        <3>1. faults \in Int /\ MaxFaults \in Nat BY IntakeAssumption DEF IntakeInv, CounterInv
        <3>2. faults' = faults + 1 BY <2>2 DEF Raise
        <3> QED BY <3>1, <3>2
    <2>3. CASE Crash BY <2>3 DEF Crash, Service!Next
    <2>4. CASE UNCHANGED <<shared, calls, cut>> BY <2>4, NoService
    <2> QED BY <2>1, <2>2, <2>3, <2>4, StepKinds
<1> QED BY <1>1, <1>2, IntakeHolds, PTL DEF Spec, SerialService

\* A request whose execution was not interrupted is carried out at most once, over
\* redeliveries of its message, retries of its call, reviews, failures and restarts
\* (docs/servicenow_integration.md; the replay registry of DSARService.execute).
THEOREM CarriedOutOnce == Spec => []ExecutedOnce
<1>1. IntakeInv => ExecutedOnce
    <2> SUFFICES ASSUME IntakeInv, NEW id \in Ids \ cut
                 PROVE  Cardinality(Service!Carried(id)) <= 1
        BY DEF ExecutedOnce
    <2>1. Service!Carried(id) = Facts!Carried(id)
        BY DEF Service!Carried, Facts!Carried, Service!Effects, Facts!Effects
    <2>2. \A j, k \in Facts!Carried(id) : j = k
        BY DEF IntakeInv, ServiceInv, Facts!Once
    <2>3. CASE Service!Carried(id) = {}
        <3>1. Cardinality(Service!Carried(id)) = 0 BY <2>3, FS_EmptySet
        <3> QED BY <3>1
    <2>4. CASE Service!Carried(id) # {}
        <3>1. PICK k : Service!Carried(id) = {k} BY <2>1, <2>2, <2>4
        <3>2. Cardinality(Service!Carried(id)) = 1 BY <3>1, FS_Singleton
        <3> QED BY <3>2
    <2> QED BY <2>3, <2>4
<1> QED BY <1>1, IntakeHolds, PTL

\* A message is answered by its result, and by nothing else.
LEMMA SettledNow ==
    ASSUME [Next]_vars, NEW m \in answered', m \notin answered
    PROVE  Settle /\ m = now /\ ~ Raised(Loop) /\ Finished(Loop) /\ now # NoMessage
<1>1. Settle \/ UNCHANGED answered
    BY DEF Next, ThreadStep, ListenerStep, Arrive, Acquire, Refuse, Respond, Serve, Raise, Drop,
       ReadLine, WriteLine, Publish, Commit, ListFolder, MoveFile, PollReturns, PollRaises,
       PollTopic, NextSource, TakeMessage, DropBroken, Crash, fates, vars
<1> QED BY <1>1 DEF Settle, SettleAs

\* A result without error is given for what is on record, and it stays there.
LEMMA AnswerOnRecordStep ==
    ASSUME IntakeInv, AnswerOnRecord, [Next]_vars
    PROVE  AnswerOnRecord'
<1>1. IntakeInv' /\ Facts!AnswerChange BY IntakeStep
<1>2. ASSUME NEW id \in Ids, Service!Latest(audit, id) # Service!Unanswered
      PROVE  Service!Latest(audit', id) # Service!Unanswered
    BY <1>1, <1>2, OnRecordStays DEF IntakeInv, ServiceInv
<1>3. ASSUME NEW m \in answered', RequestOf[m] # NoId
      PROVE  RequestOf[m] \in Ids /\ Service!Latest(audit, RequestOf[m]) # Service!Unanswered
    <2>1. m \in Messages BY <1>1 DEF IntakeInv, FateInv, Messages
    <2>2. RequestOf[m] \in Ids BY <1>3, <2>1, IntakeAssumption
    <2>3. CASE m \in answered BY <1>3, <2>2, <2>3 DEF AnswerOnRecord
    <2>4. CASE m \notin answered
        <3>1. Settle /\ m = now /\ ~ Raised(Loop) /\ Finished(Loop) /\ now # NoMessage
            BY <2>4, SettledNow
        <3>2. mode = "pull" /\ request[Loop] # Nothing /\ request[Loop].id = RequestOf[m]
            BY <1>3, <3>1 DEF IntakeInv, MessageInv, PlaceInv, TaskInv
        <3>3. Progress(request[Loop], NoCall) /\ request[Loop].todo = <<>>
            BY <3>1, <3>2 DEF IntakeInv, MessageInv, TaskInv, Finished
        <3>4. NoCall.op = "idle" BY DEF NoCall, As!NoCall
        <3> QED BY <2>2, <3>2, <3>3, <3>4 DEF Progress
    <2> QED BY <2>3, <2>4
<1>4. Service!Unanswered' = Service!Unanswered BY DEF Service!Unanswered
<1> QED BY <1>2, <1>3, <1>4 DEF AnswerOnRecord

\* What the listener answers without an error stays on record, across restarts: the
\* result of a message rests on the audit trail, and a redelivery replays it.
THEOREM AnswersStayOnRecord == Spec => []AnswerOnRecord
<1>1. Init => AnswerOnRecord BY DEF Init, AnswerOnRecord
<1>2. IntakeInv /\ AnswerOnRecord /\ [Next]_vars => AnswerOnRecord' BY AnswerOnRecordStep
<1> QED BY <1>1, <1>2, IntakeHolds, PTL DEF Spec

-----------------------------------------------------------------------------
(* The drop folder implements DropDelivery. *)

TakenFiles == InHand \cap Files

\* In the phases a message is not at hand, what is in hand is the batch.
LEMMA TakenInPoll ==
    ASSUME PlaceInv, phase = "poll"
    PROVE  TakenFiles = {}
BY DEF PlaceInv, TakenFiles, InHand

\* No file was sent yet.
LEMMA DeliveryInit == Init => Drops!Init
BY DEF Init, Drops!Init, InHand

\* One file of the poll is taken.
LEMMA DeliveryTake ==
    ASSUME PlaceInv, FileInv, MoveFile
    PROVE  \E file \in Files : Drops!Take(file)
<1> DEFINE f == Lowest(listing)
<1>1. /\ listing \subseteq folder /\ folder \subseteq Files /\ listing # {}
      /\ folder' = folder \ {f} /\ batch' = Append(batch, f) /\ batch \in Seq(Messages)
      /\ phase = "move" /\ now' = now /\ now = NoMessage /\ UNCHANGED <<settled, lost>>
    BY DEF MoveFile, PlaceInv, FileInv, fates
<1>2. f \in listing BY <1>1, LowestIsFirst, MessageKinds
<1>3. f \in Files /\ f \in Messages /\ f # NoMessage BY <1>1, <1>2, MessageKinds
<1>4. f \notin TakenFiles BY <1>1, <1>2, <1>3 DEF FileInv, TakenFiles, InHand
<1> HIDE DEF f
<1>5. /\ Len(batch) \in Nat /\ DOMAIN batch = 1..Len(batch)
      /\ DOMAIN batch' = 1..(Len(batch) + 1) /\ batch'[Len(batch) + 1] = f
      /\ \A k \in DOMAIN batch : batch'[k] = batch[k]
    BY <1>1, <1>3
<1>6. DOMAIN batch' = DOMAIN batch \cup {Len(batch) + 1} BY <1>5
<1>7. {batch'[k] : k \in DOMAIN batch'} = {batch[k] : k \in DOMAIN batch} \cup {f}
    BY <1>5, <1>6
<1>8. TakenFiles' = TakenFiles \cup {f}
    BY <1>1, <1>3, <1>7 DEF TakenFiles, InHand, NoMessage
<1> QED BY <1>1, <1>2, <1>3, <1>4, <1>8 DEF Drops!Take, TakenFiles

\* The first message of the batch is settled, or becomes the one at hand.
LEMMA BatchAfter ==
    ASSUME PlaceInv, FileInv, batch # <<>>, batch' = Tail(batch), now = NoMessage
    PROVE  /\ Head(batch) \in Messages
           /\ InHand = {batch'[k] : k \in DOMAIN batch'} \cup {Head(batch)}
           /\ Head(batch) \in Files => Head(batch) \notin {batch'[k] : k \in DOMAIN batch'}
           /\ NoMessage \notin {batch'[k] : k \in DOMAIN batch'}
<1>1. /\ Head(batch) \in Messages /\ batch' \in Seq(Messages)
      /\ Len(batch) \in Nat \ {0} /\ DOMAIN batch = 1..Len(batch) /\ Head(batch) = batch[1]
      /\ DOMAIN batch' = 1..(Len(batch) - 1)
      /\ \A k \in 1..(Len(batch) - 1) : batch'[k] = batch[k + 1]
    BY HeadTail DEF PlaceInv
<1>2. \A k \in DOMAIN batch : batch[k] \in Messages BY DEF PlaceInv
<1>3. {batch[k] : k \in DOMAIN batch} = {batch'[k] : k \in DOMAIN batch'} \cup {Head(batch)}
    <2>1. \A k \in DOMAIN batch : k = 1 \/ (k - 1 \in DOMAIN batch' /\ batch[k] = batch'[k - 1])
        BY <1>1
    <2>2. \A k \in DOMAIN batch' : k + 1 \in DOMAIN batch /\ batch'[k] = batch[k + 1] BY <1>1
    <2>3. 1 \in DOMAIN batch BY <1>1
    <2>4. ASSUME NEW k \in DOMAIN batch
          PROVE  batch[k] = Head(batch) \/ \E j \in DOMAIN batch' : batch[k] = batch'[j]
        BY <1>1, <2>1
    <2>5. ASSUME NEW k \in DOMAIN batch'
          PROVE  \E j \in DOMAIN batch : batch'[k] = batch[j]
        BY <2>2
    <2>6. \E j \in DOMAIN batch : Head(batch) = batch[j] BY <1>1, <2>3
    <2> QED BY <2>4, <2>5, <2>6
<1>4. InHand = {batch[k] : k \in DOMAIN batch} BY <1>2, MessageKinds DEF InHand
<1>5. ASSUME Head(batch) \in Files, NEW k \in DOMAIN batch', batch'[k] = Head(batch) PROVE FALSE
    <2>1. k + 1 \in DOMAIN batch /\ k + 1 # 1 /\ 1 \in DOMAIN batch /\ batch[k + 1] = batch[1]
        BY <1>1, <1>5
    <2> QED BY <1>1, <1>5, <2>1 DEF FileInv
<1>6. \A k \in DOMAIN batch' : batch'[k] # NoMessage BY <1>1, MessageKinds
<1> QED BY <1>1, <1>3, <1>4, <1>5, <1>6

\* Every step of the listener and of its producers is one of DropDelivery, or none.
LEMMA DeliveryStep ==
    ASSUME PlaceInv, FileInv, OffsetInv, FateInv, [Next]_vars
    PROVE  [Drops!Next]_(Drops!delivery)
<1> SUFFICES \/ Drops!Next
             \/ /\ folder' = folder /\ TakenFiles' = TakenFiles
                /\ (settled \cap Files)' = settled \cap Files /\ lost' = lost
    BY DEF Drops!delivery, TakenFiles
<1>0. NoMessage' = NoMessage BY DEF NoMessage
<1>1. CASE UNCHANGED <<folder, batch, now, settled, lost>>
    BY <1>0, <1>1 DEF TakenFiles, InHand
<1>2. ASSUME NEW file \in Files, Drop(file) PROVE Drops!Next
    <2>1. TakenFiles' = TakenFiles BY <1>0, <1>2 DEF Drop, TakenFiles, InHand
    <2> QED BY <1>2, <2>1 DEF Drop, Drops!Next, Drops!Send, TakenFiles, fates
<1>3. CASE MoveFile BY <1>3, DeliveryTake DEF Drops!Next
<1>4. CASE PollRaises
    <2>1. InHand \subseteq Files BY <1>4 DEF PollRaises, InHand, FileInv, PlaceInv
    <2>2. now' = NoMessage /\ batch' = <<>> BY <1>4 DEF PollRaises, PlaceInv
    <2>3. TakenFiles' = {} BY <1>0, <2>2 DEF TakenFiles, InHand
    <2>4. lost' = lost \cup TakenFiles /\ folder' = folder /\ settled' = settled
        BY <1>4, <2>1 DEF PollRaises, TakenFiles
    <2> QED BY <2>3, <2>4 DEF Drops!Next, Drops!LoseTaken, TakenFiles
<1>5. CASE Crash
    <2>1. TakenFiles' = {} BY <1>0, <1>5 DEF Crash, TakenFiles, InHand
    <2>2. lost' = lost \cup TakenFiles /\ folder' = folder /\ settled' = settled
        BY <1>5 DEF Crash, TakenFiles
    <2> QED BY <2>1, <2>2 DEF Drops!Next, Drops!LoseTaken, TakenFiles
<1>6. CASE PollTopic
    <2>1. PICK n \in offset .. published : batch' = SubSeq(Topic, offset + 1, n)
        BY <1>6 DEF PollTopic
    <2>2. \A k \in DOMAIN batch' : batch'[k] \notin Files
        BY <2>1, BatchOfTopic, MessageKinds DEF OffsetInv
    <2>3. now' = NoMessage BY <1>6 DEF PollTopic, PlaceInv
    <2>4. TakenFiles' = {} BY <1>0, <2>2, <2>3 DEF TakenFiles, InHand
    <2>5. TakenFiles = {} BY <1>6, TakenInPoll DEF PollTopic
    <2> QED BY <1>6, <2>4, <2>5 DEF PollTopic, fates
<1>7. CASE TakeMessage
    <2>1. /\ now = NoMessage /\ batch # <<>> /\ batch' = Tail(batch) /\ now' = Head(batch)
          /\ UNCHANGED <<folder, settled, lost>>
        BY <1>7 DEF TakeMessage, fates
    <2>2. /\ InHand = {batch'[k] : k \in DOMAIN batch'} \cup {Head(batch)}
          /\ NoMessage \notin {batch'[k] : k \in DOMAIN batch'} /\ Head(batch) # NoMessage
        BY <2>1, BatchAfter, MessageKinds
    <2>3. InHand' = {batch'[k] : k \in DOMAIN batch'} \cup {Head(batch)}
        BY <1>0, <2>1, <2>2 DEF InHand
    <2> QED BY <2>1, <2>2, <2>3 DEF TakenFiles
<1>8. CASE DropBroken
    <2> DEFINE rest == {batch'[k] : k \in DOMAIN batch'}
    <2>1. /\ now = NoMessage /\ batch # <<>> /\ batch' = Tail(batch) /\ now' = now
          /\ settled' = settled \cup {Head(batch)} /\ UNCHANGED <<folder, lost>>
        BY <1>8 DEF DropBroken
    <2>2. /\ InHand = rest \cup {Head(batch)} /\ NoMessage \notin rest
          /\ Head(batch) \in Files => Head(batch) \notin rest
        BY <2>1, BatchAfter
    <2>3. InHand' = rest BY <1>0, <2>1, <2>2 DEF InHand
    <2> HIDE DEF rest
    <2>4. CASE Head(batch) \in Files
        <3>1. TakenFiles' = TakenFiles \ {Head(batch)} /\ Head(batch) \in TakenFiles
            BY <2>2, <2>3, <2>4 DEF TakenFiles
        <3>2. Drops!Settle(Head(batch))
            BY <2>1, <2>4, <3>1 DEF Drops!Settle, TakenFiles
        <3> QED BY <2>4, <3>2 DEF Drops!Next
    <2>5. CASE Head(batch) \notin Files
        BY <2>1, <2>2, <2>3, <2>5 DEF TakenFiles
    <2> QED BY <2>4, <2>5
<1>9. CASE Settle
    <2>1. /\ now # NoMessage /\ now' = NoMessage /\ settled' = settled \cup {now}
          /\ UNCHANGED <<folder, batch, lost>>
        BY <1>9 DEF Settle, SettleAs
    <2>2. InHand' = {batch[k] : k \in DOMAIN batch} \ {NoMessage} BY <1>0, <2>1 DEF InHand
    <2>3. CASE now \in Files
        <3>1. \A k \in DOMAIN batch : batch[k] # now BY <2>3 DEF FileInv
        <3>2. TakenFiles' = TakenFiles \ {now} /\ now \in TakenFiles
            BY <2>1, <2>2, <2>3, <3>1 DEF TakenFiles, InHand
        <3>3. Drops!Settle(now) BY <2>1, <2>3, <3>2 DEF Drops!Settle, TakenFiles
        <3> QED BY <2>3, <3>3 DEF Drops!Next
    <2>4. CASE now \notin Files
        BY <2>1, <2>2, <2>4 DEF TakenFiles, InHand
    <2> QED BY <2>3, <2>4
<1>10. CASE NextSource BY <1>1, <1>10 DEF NextSource, fates
<1>11. CASE \/ \E t \in Threads : Arrive(t) \/ Acquire(t) \/ Refuse(t) \/ Respond(t)
            \/ \E a \in Actors : Serve(a) \/ Raise(a)
            \/ ReadLine \/ WriteLine \/ Publish \/ Commit \/ ListFolder \/ PollReturns
            \/ UNCHANGED vars
    BY <1>1, <1>11 DEF Arrive, Acquire, Refuse, Respond, Serve, Raise, ReadLine, WriteLine,
       Publish, Commit, ListFolder, PollReturns, queues, fates, vars
<1> QED BY <1>2, <1>3, <1>4, <1>5, <1>6, <1>7, <1>8, <1>9, <1>10, <1>11
        DEF Next, ThreadStep, ListenerStep, Actors

\* A dropped file is waiting, taken, settled or lost, and moves on as DropDelivery says:
\* no file is taken twice for one drop, and none disappears but by a crash or a poll that
\* raises (FileDropSource.poll, DSARListener.run and process_one).
THEOREM FilesAreDelivered == Spec => FilesDelivered
<1>1. IntakeInv /\ [Next]_vars => [Drops!Next]_(Drops!delivery)
    BY DeliveryStep DEF IntakeInv, MessageInv
<1> QED BY <1>1, DeliveryInit, IntakeHolds, PTL DEF Spec, FilesDelivered, Drops!Spec

-----------------------------------------------------------------------------
(* Types. *)

\* The types of the service are the same under both names.
LEMMA SameTypes ==
    ASSUME Facts!TypeOK
    PROVE  Service!TypeOK
BY DEF Facts!TypeOK, Facts!SummaryType, Facts!EffectType, Facts!NoteType, Facts!HoldType,
       Facts!RegistryActions,
       Facts!Statuses, Facts!Effects, Facts!Unanswered, Facts!Idle, Facts!NoCall,
       Service!TypeOK, Service!SummaryType, Service!EffectType, Service!NoteType,
       Service!HoldType, Service!RegistryActions, Service!Statuses, Service!Effects,
       Service!Unanswered, Service!Idle, Service!NoCall

\* And for every actor, in a call or not.
LEMMA ActorTypes ==
    ASSUME Facts!TypeOK, NEW a \in Actors, calls[a] = NoCall \/ calls[a] = CallUnderWay
    PROVE  As(a)!TypeOK
BY DEF Facts!TypeOK, Facts!SummaryType, Facts!EffectType, Facts!NoteType, Facts!HoldType,
       Facts!RegistryActions,
       Facts!Statuses, Facts!Effects, Facts!Unanswered, Facts!Idle, Facts!NoCall, NoCall,
       As!TypeOK, As!SummaryType, As!EffectType, As!NoteType, As!HoldType, As!RegistryActions,
       As!Statuses, As!Effects, As!Unanswered, As!Idle, As!NoCall

\* Every variable keeps its type, the calls of each actor among them, and the listener
\* holds what the phase of run() says it holds.
THEOREM IntakeTypeCorrect == Spec => []TypeOK
<1>1. ASSUME IntakeInv PROVE TypeOK
    <2>1. Facts!TypeOK BY <1>1 DEF IntakeInv, ServiceInv, Facts!IInv
    <2>2. ASSUME NEW a \in Actors PROVE As(a)!TypeOK
        <3>1. CASE calls[a] # NoCall
            <4>1. request[a] # Nothing /\ HasTurn(a) BY <1>1, <3>1 DEF IntakeInv, TurnInv
            <4>2. CallUnderWay = calls[a] BY <1>1, <4>1, Alone DEF IntakeInv
            <4> QED BY <2>1, <4>2, ActorTypes
        <3>2. CASE calls[a] = NoCall BY <2>1, <3>2, ActorTypes
        <3> QED BY <3>1, <3>2
    <2>3. request \in [Actors -> RequestType]
        <3>1. Todos \subseteq Seq(GatewayOps \cup ToolOps \cup {"raised"})
            <4> DEFINE S == GatewayOps \cup ToolOps \cup {"raised"}
            <4>1. {"plan", "execute", "verify", "raised"} \subseteq S BY DEF GatewayOps
            <4>2. GatewayOps \cup ToolOps \subseteq S OBVIOUS
            <4> HIDE DEF S
            <4>3. <<>> \in Seq(S) /\ \A op \in S : <<op>> \in Seq(S) OBVIOUS
            <4>4. <<"execute", "verify">> \in Seq(S) BY <4>1
            <4>5. <<"plan", "execute", "verify">> \in Seq(S) BY <4>1
            <4>6. Todos \subseteq Seq(S) BY <4>1, <4>2, <4>3, <4>4, <4>5 DEF Todos
            <4> QED BY <4>6 DEF S
        <3> QED BY <1>1, <3>1 DEF IntakeInv, TurnInv, RequestType
    <2>4. phase = "poll" => InHand = {} /\ listing = {}
        BY <1>1 DEF IntakeInv, MessageInv, PlaceInv, FileInv, InHand
    <2>5. phase = "move" => source = "folder" /\ now = NoMessage
        BY <1>1 DEF IntakeInv, MessageInv, PlaceInv, FileInv
    <2> QED BY <1>1, <2>1, <2>2, <2>3, <2>4, <2>5, SameTypes
            DEF TypeOK, IntakeInv, TurnInv, MessageInv, PlaceInv, FileInv, OffsetInv, CounterInv,
                FateInv
<1> QED BY <1>1, IntakeHolds, PTL
=============================================================================
