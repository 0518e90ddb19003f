----------------------------- MODULE LiveRequests -----------------------------
(***************************************************************************)
(* Requests that share state while they run: the runtime actions, which    *)
(* concurrent requests with one idempotency key share; the observation of  *)
(* the AI provider, which is probed once and then served from a cache; and *)
(* the stream of a Job's events, which a client resumes where it stopped.  *)
(***************************************************************************)
EXTENDS Integers, Sequences, FiniteSets, SequencesExt

CONSTANTS
    Callers,            \* concurrent requests
    Keys,               \* idempotency keys, with their action
    CacheLimit,         \* runtimeActionCacheLimit
    MaxCalls,           \* bound: requests with a key
    Observers,          \* callers of Observe
    AISettings,         \* [readable, config, source, secret]: settings and credential
    MaxSettings,        \* bound: changes of the settings
    MaxEvents,          \* bound: events of the streamed Job
    MaxConnections      \* bound: connections of the client

VARIABLES
    actions,     \* the action handler: inflight, completed, order; and runs, evicted for history
    callers,     \* [pc, key, answer] of each caller
    aiCache,     \* the cached observation and its lock
    observers,   \* [pc, key, seen, answer] of each observer; seen is history, the settings it read
    ai,          \* the settings as they are, and whether they moved during an observation
    stream       \* a Job, its events, and the connection that reads them

liveVars == <<actions, callers, aiCache, observers, ai, stream>>

-------------------------------------------------------------------------------
(* Runtime actions.                                                        *)

NoActions == [inflight |-> {}, completed |-> <<>>, order |-> <<>>, runs |-> [k \in Keys |-> 0],
              evicted |-> [k \in Keys |-> 0], outcomes |-> [k \in Keys |-> {}], left |-> MaxCalls]
Caller == [pc |-> "idle", key |-> 0, answer |-> "none"]
CallerGoes(c, pc, answer) == callers' = [callers EXCEPT ![c].pc = pc, ![c].answer = answer]

\* Resolve refuses a request whose precondition no longer holds or whose key is invalid.
Invoke(c, k) ==
    /\ callers[c].pc = "idle" /\ actions.left > 0
    /\ \/ callers' = [callers EXCEPT ![c] = [pc |-> "enter", key |-> k, answer |-> "none"]]
       \/ callers' = [callers EXCEPT ![c] = [pc |-> "idle", key |-> k, answer |-> "refused"]]
    /\ actions' = [actions EXCEPT !.left = @ - 1]
    /\ UNCHANGED <<aiCache, observers, ai, stream>>

\* What a request with this key does under the mutex: answer, wait or run.
Place(k) == IF k \in DOMAIN actions.completed THEN "answer" ELSE IF k \in actions.inflight THEN "wait" ELSE "run"

Enter(c) ==
    /\ callers[c].pc = "enter"
    /\ LET k == callers[c].key IN
       CASE Place(k) = "answer" -> CallerGoes(c, "idle", actions.completed[k]) /\ actions' = actions
         [] Place(k) = "wait" -> CallerGoes(c, "wait", "none") /\ actions' = actions
         [] Place(k) = "run" ->
              /\ CallerGoes(c, "run", "none")
              /\ actions' = [actions EXCEPT !.inflight = @ \cup {k}, !.runs[k] = @ + 1]
    /\ UNCHANGED <<aiCache, observers, ai, stream>>

\* The action runs with the context of the request that entered first, so that its
\* disconnection is a result like any other.  Closing the call wakes those who wait.
Finish(c) ==
    /\ callers[c].pc = "run"
    /\ \E err \in {"ok", "failed", "canceled"} :
         LET k == callers[c].key
             order == Append(actions.order, k)
             full == Len(order) > CacheLimit
             completed == [x \in {k} \cup DOMAIN actions.completed |-> IF x = k THEN err ELSE actions.completed[x]]
             evicted == [actions.evicted EXCEPT ![order[1]] = @ + 1]
         IN /\ actions' = [actions EXCEPT
                 !.inflight = @ \ {k}, !.outcomes[k] = @ \cup {err},
                 !.order = IF full THEN Tail(order) ELSE order,
                 !.completed = IF full THEN [x \in DOMAIN completed \ {order[1]} |-> completed[x]] ELSE completed,
                 !.evicted = IF full THEN evicted ELSE @]
            /\ callers' = [x \in Callers |->
                 IF x = c \/ (callers[x].pc = "wait" /\ callers[x].key = k)
                 THEN [callers[x] EXCEPT !.pc = "idle", !.answer = err] ELSE callers[x]]
    /\ UNCHANGED <<aiCache, observers, ai, stream>>

WaiterLeaves(c) ==
    /\ callers[c].pc = "wait"
    /\ CallerGoes(c, "idle", "left")
    /\ UNCHANGED <<actions, aiCache, observers, ai, stream>>

-------------------------------------------------------------------------------
(* The AI provider's capability.                                           *)

\* configurationKey: the settings and where the credential comes from, not the secret.
KeyOfEndpoint(s) == IF s.readable THEN <<s.config>> ELSE <<>>
configurationKey(s) == IF s.readable THEN <<s.config, s.source>> ELSE <<>>

Observer == [pc |-> "idle", key |-> <<>>, seen |-> <<>>, answer |-> <<>>]
NoCache == [lock |-> 0, key |-> <<>>, fresh |-> FALSE, value |-> <<>>]
InObservation == \E o \in Observers : observers[o].pc # "idle"

\* The key is read before the mutex is taken.
ReadKey(o) ==
    /\ observers[o].pc = "idle" /\ observers[o].answer = <<>>
    /\ observers' = [observers EXCEPT ![o] = [pc |-> "lock", key |-> configurationKey(ai.settings),
                                                  seen |-> <<ai.settings>>, answer |-> <<>>]]
    /\ UNCHANGED <<actions, callers, aiCache, ai, stream>>

Served(o) == observers[o].key # <<>> /\ observers[o].key = aiCache.key /\ aiCache.fresh
Lock(o) ==
    /\ observers[o].pc = "lock" /\ aiCache.lock = 0
    /\ IF Served(o)
       THEN observers' = [observers EXCEPT ![o].pc = "idle", ![o].answer = <<aiCache.value>>] /\ aiCache' = aiCache
       ELSE observers' = [observers EXCEPT ![o].pc = "probe"] /\ aiCache' = [aiCache EXCEPT !.lock = o]
    /\ UNCHANGED <<actions, callers, ai, stream>>

\* The settings are read again for the probe.  A caller whose deadline passes is
\* answered with the last result for its key, if there is one, and caches nothing.
Probe(o) ==
    /\ observers[o].pc = "probe"
    /\ \E late \in BOOLEAN, state \in {"available", "unavailable"} :
         LET value == [of |-> ai.settings, state |-> IF late THEN "unavailable" ELSE state]
             known == late /\ observers[o].key # <<>> /\ observers[o].key = aiCache.key
         IN /\ late => state = "unavailable"
            /\ observers' = [observers EXCEPT ![o].pc = "idle", ![o].answer = IF known THEN <<aiCache.value>> ELSE <<value>>]
            /\ aiCache' = IF known THEN [aiCache EXCEPT !.lock = 0]
                          ELSE [lock |-> 0, key |-> observers[o].key, fresh |-> TRUE, value |-> value]
    /\ UNCHANGED <<actions, callers, ai, stream>>

CacheExpires ==
    /\ aiCache.fresh /\ aiCache.lock = 0
    /\ aiCache' = [aiCache EXCEPT !.fresh = FALSE]
    /\ UNCHANGED <<actions, callers, observers, ai, stream>>

SettingsChange(s) ==
    /\ s # ai.settings /\ ai.changes < MaxSettings
    /\ ai' = [settings |-> s, changes |-> ai.changes + 1, raced |-> ai.raced \/ InObservation]
    /\ UNCHANGED <<actions, callers, aiCache, observers, stream>>

ObserverAgain(o) ==
    /\ observers[o].answer # <<>> /\ ai.changes < MaxSettings
    /\ observers' = [observers EXCEPT ![o] = Observer]
    /\ UNCHANGED <<actions, callers, aiCache, ai, stream>>

-------------------------------------------------------------------------------
(* The events of a Job.  received is what the client has; written is what  *)
(* this connection has written to it.                                      *)

NoStream == [pc |-> "closed", events |-> 0, status |-> "running", after |-> 0, written |-> <<>>,
             received |-> <<>>, ended |-> FALSE, connections |-> 0]

JobAppends ==
    /\ stream.events < MaxEvents /\ stream.status = "running"
    /\ \E status \in {"running", "succeeded"} :
         stream' = [stream EXCEPT !.events = @ + 1, !.status = status]
    /\ UNCHANGED <<actions, callers, aiCache, observers, ai>>

\* The client connects with the ordinal of the last event it has.
Connect ==
    /\ stream.pc = "closed" /\ ~stream.ended /\ stream.connections < MaxConnections
    /\ stream' = [stream EXCEPT !.pc = "list", !.connections = @ + 1, !.written = <<>>,
                                !.after = Len(stream.received)]
    /\ UNCHANGED <<actions, callers, aiCache, observers, ai>>

ListJobEvents(after) == [i \in 1..(stream.events - after) |-> after + i]
ListEvents ==
    /\ stream.pc = "list"
    /\ LET events == ListJobEvents(stream.after)
       IN stream' = [stream EXCEPT !.pc = "job", !.written = @ \o events,
                                   !.after = IF events = <<>> THEN @ ELSE events[Len(events)]]
    /\ UNCHANGED <<actions, callers, aiCache, observers, ai>>

\* The state of the Job is read after its events: a Job that ends in between ends the
\* stream, and its last event is left to the next connection.
ReadJob ==
    /\ stream.pc = "job"
    /\ stream' = IF stream.status = "running" THEN [stream EXCEPT !.pc = "list"]
                 ELSE [stream EXCEPT !.pc = "closed", !.ended = TRUE, !.received = @ \o stream.written]
    /\ UNCHANGED <<actions, callers, aiCache, observers, ai>>

\* The connection breaks; what was written last may not have arrived.
Disconnect ==
    /\ stream.pc # "closed"
    /\ \E n \in 0..Len(stream.written) :
         stream' = [stream EXCEPT !.pc = "closed", !.received = @ \o SubSeq(stream.written, 1, n)]
    /\ UNCHANGED <<actions, callers, aiCache, observers, ai>>

-------------------------------------------------------------------------------

ActionsInit ==
    /\ actions = NoActions /\ callers = [c \in Callers |-> Caller]
    /\ aiCache = NoCache /\ observers = [o \in Observers |-> [Observer EXCEPT !.answer = <<"idle">>]]
    /\ ai = [settings |-> CHOOSE s \in AISettings : TRUE, changes |-> MaxSettings, raced |-> FALSE]
    /\ stream = [NoStream EXCEPT !.ended = TRUE, !.status = "succeeded"]
ProviderInit ==
    /\ actions = [NoActions EXCEPT !.left = 0] /\ callers = [c \in Callers |-> Caller]
    /\ aiCache = NoCache /\ observers = [o \in Observers |-> Observer]
    /\ ai \in {[settings |-> s, changes |-> 0, raced |-> FALSE] : s \in AISettings}
    /\ stream = [NoStream EXCEPT !.ended = TRUE, !.status = "succeeded"]
StreamInit ==
    /\ actions = [NoActions EXCEPT !.left = 0] /\ callers = [c \in Callers |-> Caller]
    /\ aiCache = NoCache /\ observers = [o \in Observers |-> [Observer EXCEPT !.answer = <<"idle">>]]
    /\ ai = [settings |-> CHOOSE s \in AISettings : TRUE, changes |-> MaxSettings, raced |-> FALSE]
    /\ stream = NoStream
LiveInit == ActionsInit \/ ProviderInit \/ StreamInit

LiveNext ==
    \/ \E c \in Callers :
         \/ \E k \in Keys : Invoke(c, k)
         \/ Enter(c) \/ Finish(c) \/ WaiterLeaves(c)
    \/ \E o \in Observers : ReadKey(o) \/ Lock(o) \/ Probe(o) \/ ObserverAgain(o)
    \/ CacheExpires
    \/ \E s \in AISettings : SettingsChange(s)
    \/ JobAppends \/ Connect \/ ListEvents \/ ReadJob \/ Disconnect

-------------------------------------------------------------------------------
(* Properties.                                                             *)

\* execute: a key runs its action once more only after its result was evicted, and
\* everyone who waited for it or repeats it has the result of a run of this key.
KeyRunsOnce ==
    /\ \A k \in Keys : actions.runs[k] <= 1 + actions.evicted[k]
    /\ DOMAIN actions.completed = ToSet(actions.order) /\ Len(actions.order) <= CacheLimit
    /\ \A c \in Callers :
         callers[c].answer \in {"ok", "failed", "canceled"} => callers[c].answer \in actions.outcomes[callers[c].key]

\* aiCapabilityRuntime: while the settings are not changed during an observation, an
\* answer describes settings with the endpoint, the model and the credential source
\* that the asker has read.
AnswerIsCurrent ==
    \A o \in Observers :
        ~ai.raced /\ observers[o].seen # <<>> /\ observers[o].answer # <<>> =>
            LET asked == observers[o].seen[1]  of == observers[o].answer[1].of
            IN asked.readable => of.readable /\ of.config = asked.config /\ of.source = asked.source

\* streamJobEvents: over all its connections a client has every event once, in order
\* and without a gap.
StreamIsGapless ==
    LET all == stream.received \o (IF stream.pc = "closed" THEN <<>> ELSE stream.written)
    IN all = [i \in DOMAIN all |-> i]

\* Requests that share state are served as if each had come alone.
SharedRequestsAgree == KeyRunsOnce /\ AnswerIsCurrent /\ StreamIsGapless
=============================================================================
