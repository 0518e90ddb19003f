----------------------------- MODULE GraphProcess -----------------------------
(***************************************************************************)
(* The bundled local-rag child and everything that starts, watches, probes *)
(* and stops it: the supervisor with its kill-on-close Job object          *)
(* (graphprocess/supervisor.go over platform/process), the selection of an *)
(* external or a bundled service (selection.go), the health observer       *)
(* (observation.go), and the runtime dependency that owns them under       *)
(* actionMu (bootstrap/graph_runtime.go).                                  *)
(*                                                                         *)
(* A thread is the holder of actionMu, or the monitor goroutine of one     *)
(* ready child, which relaunches when its child exits.  The observation of *)
(* a child that is down (exited, backoff, restart_exhausted) is published  *)
(* outside the lock of the supervisor and delivered to the dependency as a *)
(* step of its own (pend); the other observations only change what the     *)
(* status page displays and are left out.  The adapter is the POSIX one,   *)
(* which starts a child and only then stops it with a signal.  A child     *)
(* never survives a kill, hence closed handles are not modelled: every     *)
(* handle is closed after its child was killed or seen dead.  A signal to  *)
(* a child that is dead and not waited for yet may succeed or fail.  An    *)
(* endpoint is the child listening on it; another port is another child.   *)
(***************************************************************************)
EXTENDS Naturals, FiniteSets

CONSTANTS Supervisors,       \* supervisors made so far at most (one per start)
          MaxGen,            \* bound: launches of one supervisor
          Settings           \* the settings the process may be started with

(***************************************************************************)
(* mode and endpoint are settings.graph.mode and whether                   *)
(* settings.graph.endpoint is given; attempts is policy.MaximumAttempts    *)
(* and CandidateAttempts; starts bounds the supervisors made, launches the *)
(* children each of them launches, and requests the reconnect and reprobe  *)
(* requests.                                                               *)
(***************************************************************************)
ASSUME RuntimeAssumption ==
    /\ Supervisors \subseteq Nat \ {0} /\ IsFiniteSet(Supervisors)
    /\ MaxGen \in Nat
    /\ \A c \in Settings :
         /\ c.mode \in {"disabled", "external", "bundled"} /\ c.endpoint \in BOOLEAN
         /\ c.attempts \in Nat \ {0} /\ c.launches \in c.attempts..MaxGen
         /\ c.starts \in Nat /\ c.requests \in Nat

VARIABLES conf,    \* the settings, loaded once at startup
          sup,     \* per supervisor: context, Job object, current child, attempts
          proc,    \* per supervisor and generation: the child
          inJob,   \* children assigned to the Job object of their supervisor
          thr,     \* per thread: where it is in launchUntilReady / monitor
          pend,    \* per thread: a child is down, and it is about to tell
          dep,     \* the fields of graphRuntimeDependency; lost is history: the
                   \* supervisor that a start has overwritten without a Stop
          call,    \* the operation that holds actionMu
          callCtx  \* the context of that operation is alive

processVars == <<conf, sup, proc, inJob, thr, pend, dep, call, callCtx>>

Gens    == 1..MaxGen
Caller  == <<0, 0>>
Threads == {Caller} \cup (Supervisors \X Gens)
NoThread == [pc |-> "idle", s |-> 0, g |-> 0, first |-> TRUE]
Nobody  == <<0, 0>>
External == <<0, 1>>
Idle    == [op |-> "none", pc |-> "idle", tries |-> 0, s |-> 0, owned |-> 0,
            health |-> "none", next |-> "idle"]

ProcessInit ==
    /\ conf \in Settings
    /\ sup = [s \in Supervisors |->
                [made |-> FALSE, live |-> TRUE, job |-> "open", current |-> 0,
                 attempts |-> 0, next |-> 0]]
    /\ proc = [s \in Supervisors |-> [g \in Gens |-> "none"]]
    /\ inJob = {}
    /\ thr = [t \in Threads |-> NoThread]
    /\ pend = [t \in Threads |-> FALSE]
    /\ dep = [sup |-> 0, lost |-> 0, endpoint |-> Nobody, observer |-> "none", invalid |-> FALSE,
              health |-> "none", loop |-> FALSE]
    /\ call = Idle
    /\ callCtx = TRUE

-------------------------------------------------------------------------------
(***************************************************************************)
(* Observations.  publishProcess stores the observation; a child that is   *)
(* down makes the health unavailable and the cached health observation     *)
(* stale, and the result of a probe under way will be stale as well.       *)
(***************************************************************************)
Publishing(t) == pend' = [pend EXCEPT ![t] = TRUE]

Invalidated(d) == [d EXCEPT !.observer = IF @ = "fresh" THEN "stale" ELSE @,
                            !.invalid = (call.pc = "probing")]

Deliver(t) ==
    /\ pend[t]
    /\ dep' = [Invalidated(dep) EXCEPT !.health = "unavailable"]
    /\ pend' = [pend EXCEPT ![t] = FALSE]
    /\ UNCHANGED <<conf, sup, proc, inJob, thr, call, callCtx>>

-------------------------------------------------------------------------------
(***************************************************************************)
(* launchUntilReady, run by the holder of actionMu with the context of its *)
(* request, and by a monitor with the context of the supervisor.           *)
(***************************************************************************)
Alive(t) == sup[thr[t].s].live /\ (t = Caller => callCtx)
At(t, pc) == thr[t].pc = pc /\ ~pend[t]
Goto(t, pc) == thr' = [thr EXCEPT ![t].pc = pc]
\* launchUntilReady returns: a monitor ends with it.
Return(t, pc) == IF t = Caller THEN [thr[t] EXCEPT !.pc = pc] ELSE NoThread
Fails(t) == thr' = [thr EXCEPT ![t] = Return(t, "failed")]

\* prepareRetry: nothing more once a context has ended, otherwise back off.
Retry(t) ==
    IF Alive(t)
    THEN /\ Publishing(t)
         /\ Goto(t, "backoff")
    ELSE /\ Fails(t)
         /\ UNCHANGED pend

ClearCurrent(u, g) == IF u.current = g THEN [u EXCEPT !.current = 0] ELSE u

\* Attempts that may fall out of the window, kept within the bound on launches.
Keepable(u) == {k \in 0..u.attempts : u.next + conf.attempts - k <= conf.launches}

\* beginAttempt, then BuildBundled and the start of the child in CreateSuspended,
\* either of which may fail.
BeginAttempt(t) ==
    /\ At(t, "begin")
    /\ \E kept \in Keepable(sup[thr[t].s]) :
         LET s == thr[t].s  g == sup[s].next + 1 IN
         IF kept >= conf.attempts
         THEN /\ sup' = [sup EXCEPT ![s].attempts = kept]
              /\ Publishing(t)
              /\ Fails(t)
              /\ UNCHANGED proc
         ELSE /\ sup' = [sup EXCEPT ![s].attempts = kept + 1, ![s].next = g]
              /\ \/ /\ Alive(t)
                    /\ proc' = [proc EXCEPT ![s][g] = "started"]
                    /\ thr' = [thr EXCEPT ![t].pc = "created", ![t].g = g]
                    /\ UNCHANGED pend
                 \/ /\ Retry(t)
                    /\ UNCHANGED proc
    /\ UNCHANGED <<conf, inJob, dep, call, callCtx>>

\* The rest of CreateSuspended: SIGSTOP, and a last look at the context.  A child that
\* could not be stopped, or that nobody waits for any more, is killed.
Suspend(t) ==
    /\ At(t, "created")
    /\ LET s == thr[t].s  g == thr[t].g IN
       \/ /\ Alive(t)
          /\ proc' = [proc EXCEPT ![s][g] = IF @ = "started" THEN "suspended" ELSE @]
          /\ Goto(t, "assign")
          /\ UNCHANGED pend
       \/ /\ proc' = [proc EXCEPT ![s][g] = "dead"]
          /\ Retry(t)
    /\ UNCHANGED <<conf, sup, inJob, dep, call, callCtx>>

\* JobObject.Assign refuses a closed Job; the child is then killed.
AssignedAlways(u) == TRUE
Assignable(u) == u.job = "open"

Assign(t) ==
    /\ At(t, "assign")
    /\ LET s == thr[t].s  g == thr[t].g IN
       IF Assignable(sup[s])
       THEN /\ inJob' = inJob \cup {<<s, g>>}
            /\ Goto(t, "resume")
            /\ UNCHANGED <<conf, proc, pend>>
       ELSE /\ proc' = [proc EXCEPT ![s][g] = "dead"]
            /\ Retry(t)
            /\ UNCHANGED inJob
    /\ UNCHANGED <<conf, sup, dep, call, callCtx>>

\* Resume may fail, always on a child that is not there any more; one that is dead
\* and not waited for yet, as the Job object may have killed it, takes the signal.
Resume(t) ==
    /\ At(t, "resume")
    /\ LET s == thr[t].s  g == thr[t].g IN
       \/ /\ proc' = [proc EXCEPT ![s][g] = IF @ = "suspended" THEN "running" ELSE @]
          /\ Goto(t, "resumed")
          /\ UNCHANGED pend
       \/ /\ proc' = [proc EXCEPT ![s][g] = "dead"]
          /\ Retry(t)
    /\ UNCHANGED <<conf, sup, inJob, dep, call, callCtx>>

Track(t) ==
    /\ At(t, "resumed")
    /\ sup' = [sup EXCEPT ![thr[t].s].current = thr[t].g]
    /\ Goto(t, "wait")
    /\ UNCHANGED <<conf, proc, inJob, pend, dep, call, callCtx>>

\* The child answers its health probe and is watched from then on.
BecomeReady(t) ==
    /\ At(t, "wait")
    /\ proc[thr[t].s][thr[t].g] = "running"
    /\ thr' = [thr EXCEPT ![t] = Return(t, "returned"),
                          ![<<thr[t].s, thr[t].g>>] =
                             [pc |-> "watch", s |-> thr[t].s, g |-> thr[t].g,
                              first |-> FALSE]]
    /\ UNCHANGED <<conf, sup, proc, inJob, pend, dep, call, callCtx>>

\* The readiness probe failed or timed out (the child is retired), or it exited.
\* The exit and the backoff that follows are observed as one.
NotReady(t) ==
    /\ At(t, "wait")
    /\ LET s == thr[t].s  g == thr[t].g IN
       /\ proc' = [proc EXCEPT ![s][g] = "dead"]
       /\ sup' = [sup EXCEPT ![s] = ClearCurrent(@, g)]
    /\ Publishing(t)
    /\ IF Alive(t) THEN Goto(t, "backoff") ELSE Fails(t)
    /\ UNCHANGED <<conf, inJob, dep, call, callCtx>>

\* The backoff timer fires and another port is taken, or a context ends.
Backoff(t) ==
    /\ At(t, "backoff")
    /\ \/ /\ thr' = [thr EXCEPT ![t].pc = "begin", ![t].first = FALSE]
          /\ UNCHANGED pend
       \/ /\ Publishing(t)
          /\ Fails(t)
       \/ /\ ~Alive(t)
          /\ Fails(t)
          /\ UNCHANGED pend
    /\ UNCHANGED <<conf, sup, proc, inJob, dep, call, callCtx>>

-------------------------------------------------------------------------------
(***************************************************************************)
(* monitor: waits for its child, and restarts it unless the supervisor was *)
(* stopped.  A child that was ready long enough resets the attempts.       *)
(***************************************************************************)
MonitorExit(t) ==
    /\ At(t, "watch")
    /\ proc[thr[t].s][thr[t].g] = "dead"
    /\ sup' = [sup EXCEPT ![thr[t].s] = ClearCurrent(@, thr[t].g)]
    /\ Goto(t, "exited")
    /\ UNCHANGED <<conf, proc, inJob, pend, dep, call, callCtx>>

MonitorRestart(t) ==
    /\ At(t, "exited")
    /\ IF Alive(t)
       THEN \E kept \in {sup[thr[t].s].attempts, 0} \cap Keepable(sup[thr[t].s]) :
              sup' = [sup EXCEPT ![thr[t].s].attempts = kept]
       ELSE UNCHANGED sup
    /\ Retry(t)
    /\ UNCHANGED <<conf, proc, inJob, dep, call, callCtx>>

Children(states) == {p \in Supervisors \X Gens : proc[p[1]][p[2]] \in states}
Running == Children({"running"})
Living  == Children({"started", "suspended", "running"})

\* The child ends by itself, or is killed from outside.
ChildExits(s, g) ==
    /\ <<s, g>> \in Living
    /\ proc' = [proc EXCEPT ![s][g] = "dead"]
    /\ UNCHANGED <<conf, sup, inJob, thr, pend, dep, call, callCtx>>

\* JobObject.Close: after it is closed every assigned child is killed.
CloseJob(s) ==
    /\ sup[s].job = "closing"
    /\ sup' = [sup EXCEPT ![s].job = "closed"]
    /\ proc' = [proc EXCEPT ![s] = [g \in Gens |->
                                      IF <<s, g>> \in inJob THEN "dead" ELSE @[g]]]
    /\ inJob' = {p \in inJob : p[1] # s}
    /\ UNCHANGED <<conf, thr, pend, dep, call, callCtx>>

-------------------------------------------------------------------------------
(***************************************************************************)
(* Selection and the start of the dependency.  call.pc says what the       *)
(* holder of actionMu does next.                                           *)
(***************************************************************************)
Calling(pc) == call.pc = pc /\ ~pend[Caller]
Unavailable(d) == [d EXCEPT !.health = "unavailable"]
\* What follows a stopped supervisor: the start of a Reconnect, or the end.
AfterClose == IF call.op = "reconnect" /\ call.next = "start" THEN "start" ELSE "end"

\* start: the disabled mode only publishes; the bundled mode makes a supervisor and
\* overwrites the one there is, as the first start meets the one of a Reconnect that
\* was asked for while the process was starting.
MakeSupervisor ==
    /\ Calling("start")
    /\ IF conf.mode = "disabled"
       THEN /\ dep' = Unavailable(dep)
            /\ call' = [call EXCEPT !.pc = "end"]
            /\ UNCHANGED sup
       ELSE IF conf.mode = "external"
       THEN /\ call' = [call EXCEPT !.pc = "probe"]
            /\ UNCHANGED <<conf, sup, dep>>
       ELSE \E s \in {x \in Supervisors : x <= conf.starts /\ ~sup[x].made} :
              /\ \A x \in Supervisors : x < s => sup[x].made
              /\ sup' = [sup EXCEPT ![s].made = TRUE]
              /\ dep' = [dep EXCEPT !.sup = s,
                                    !.lost = IF dep.sup = 0 THEN @ ELSE dep.sup]
              /\ call' = [call EXCEPT !.pc = "probe", !.tries = conf.attempts]
    /\ UNCHANGED <<conf, proc, inJob, thr, pend, callCtx>>

\* NewSupervisor failed.
SupervisorRefused ==
    /\ Calling("start") /\ conf.mode = "bundled"
    /\ dep' = Unavailable(dep)
    /\ call' = [call EXCEPT !.pc = "end"]
    /\ UNCHANGED <<conf, sup, proc, inJob, thr, pend, callCtx>>

\* Select: an explicit endpoint that is compatible wins over a bundled child.
ProbeExternal ==
    /\ Calling("probe")
    /\ \/ /\ conf.endpoint /\ callCtx
          /\ call' = [call EXCEPT !.pc = "observe", !.s = 0, !.owned = 1]
       \/ call' = [call EXCEPT !.pc = IF dep.sup = 0 THEN "unselected" ELSE "candidate"]
    /\ UNCHANGED <<conf, sup, proc, inJob, thr, pend, dep, callCtx>>

\* One candidate port: StartBundled refuses while a child is current.
TryCandidate ==
    /\ Calling("candidate")
    /\ LET s == dep.sup IN
       IF call.tries = 0
       THEN /\ call' = [call EXCEPT !.pc = "unselected"]
            /\ UNCHANGED thr
       ELSE \/ /\ sup[s].current = 0 /\ callCtx
               /\ call' = [call EXCEPT !.pc = "launching", !.tries = @ - 1]
               /\ thr' = [thr EXCEPT ![Caller] = [NoThread EXCEPT !.pc = "begin", !.s = s]]
            \/ /\ call' = [call EXCEPT !.tries = @ - 1]
               /\ UNCHANGED thr
    /\ UNCHANGED <<conf, sup, proc, inJob, pend, dep, callCtx>>

\* Select accepts the child only on the port it asked for: a child that became
\* ready on a later port is killed, and its monitor restarts it on its own.
Candidate ==
    /\ Calling("launching")
    /\ thr[Caller].pc \in {"returned", "failed"}
    /\ LET s == thr[Caller].s  g == thr[Caller].g IN
       \/ /\ thr[Caller].pc = "returned" /\ thr[Caller].first
          /\ call' = [call EXCEPT !.pc = "observe", !.s = s, !.owned = g]
          /\ UNCHANGED proc
       \/ /\ thr[Caller].pc = "returned" /\ ~thr[Caller].first
          /\ proc' = [proc EXCEPT ![s][g] = "dead"]
          /\ call' = [call EXCEPT !.pc = "candidate"]
       \/ /\ thr[Caller].pc = "failed"
          /\ call' = [call EXCEPT !.pc = "candidate"]
          /\ UNCHANGED proc
    /\ thr' = [thr EXCEPT ![Caller] = NoThread]
    /\ UNCHANGED <<conf, sup, inJob, pend, dep, callCtx>>

\* No service was selected: the supervisor is stopped again.
Unselected ==
    /\ Calling("unselected")
    /\ dep' = Unavailable([dep EXCEPT !.sup = 0])
    /\ call' = IF dep.sup = 0 THEN [call EXCEPT !.pc = "end"]
               ELSE [call EXCEPT !.pc = "stop", !.s = dep.sup, !.next = "end"]
    /\ UNCHANGED <<conf, sup, proc, inJob, thr, pend, callCtx>>

Answers(e) == e \in {External} \cup Running

\* HealthObserver.Observe of the selected endpoint by a new observer.
ObserveSelected ==
    /\ Calling("observe")
    /\ \E h \in {"healthy", "unavailable"} :
         /\ h = "healthy" => Answers(<<call.s, call.owned>>) /\ callCtx
         /\ call' = [call EXCEPT !.pc = "started", !.health = h]
    /\ UNCHANGED <<conf, sup, proc, inJob, thr, pend, dep, callCtx>>

Started ==
    /\ Calling("started")
    /\ dep' = [dep EXCEPT !.observer = "fresh", !.invalid = FALSE,
                          !.endpoint = <<call.s, call.owned>>, !.health = call.health]
    /\ call' = [call EXCEPT !.pc = "end"]
    /\ UNCHANGED <<conf, sup, proc, inJob, thr, pend, callCtx>>

-------------------------------------------------------------------------------
(***************************************************************************)
(* close and Supervisor.Stop.  No child can be asked to stop gracefully on *)
(* any platform, so Stop closes the Job object, which kills them.          *)
(***************************************************************************)
CloseDependency ==
    /\ Calling("close")
    /\ dep' = [dep EXCEPT !.sup = 0, !.observer = "none", !.endpoint = Nobody]
    /\ call' = IF dep.sup = 0 THEN [call EXCEPT !.pc = AfterClose]
               ELSE [call EXCEPT !.pc = "stop", !.s = dep.sup]
    /\ UNCHANGED <<conf, sup, proc, inJob, thr, pend, callCtx>>

StopCancel ==
    /\ Calling("stop")
    /\ sup' = [sup EXCEPT ![call.s].live = FALSE]
    /\ call' = [call EXCEPT !.pc = "closeJob", !.owned = sup[call.s].current]
    /\ UNCHANGED <<conf, proc, inJob, thr, pend, dep, callCtx>>

StopCloseJob ==
    /\ Calling("closeJob")
    /\ sup' = [sup EXCEPT ![call.s].job = "closing"]
    /\ call' = [call EXCEPT !.pc = "closing"]
    /\ UNCHANGED <<conf, proc, inJob, thr, pend, dep, callCtx>>

StopDone ==
    /\ Calling("closing")
    /\ sup[call.s].job = "closed"
    /\ sup' = [sup EXCEPT ![call.s] = IF call.owned = 0 THEN @
                                      ELSE ClearCurrent(@, call.owned)]
    /\ call' = [call EXCEPT !.pc = AfterClose, !.next = "end"]
    /\ UNCHANGED <<conf, proc, inJob, thr, pend, dep, callCtx>>

-------------------------------------------------------------------------------
(***************************************************************************)
(* Reprobe and pollHealth: a probe whose observer was invalidated while it *)
(* ran is kept, but as already expired.                                    *)
(***************************************************************************)
ProbeHealth ==
    /\ Calling("reprobe")
    /\ dep' = [dep EXCEPT !.invalid = FALSE,
                          !.observer = IF call.op = "reprobe" THEN "stale" ELSE @]
    /\ call' = [call EXCEPT !.pc = IF call.op = "poll" /\ dep.observer = "fresh"
                                   THEN "end" ELSE "probing"]
    /\ UNCHANGED <<conf, sup, proc, inJob, thr, pend, callCtx>>

CacheHealth ==
    /\ Calling("probing")
    /\ \E h \in {"healthy", "unavailable"} :
         /\ h = "healthy" => Answers(dep.endpoint) /\ callCtx
         /\ call' = [call EXCEPT !.pc = "cached", !.health = h]
    /\ dep' = [dep EXCEPT !.observer = IF dep.invalid THEN "stale" ELSE "fresh",
                          !.invalid = FALSE]
    /\ UNCHANGED <<conf, sup, proc, inJob, thr, pend, callCtx>>

SetHealth ==
    /\ Calling("cached")
    /\ dep' = [dep EXCEPT !.health = call.health]
    /\ call' = [call EXCEPT !.pc = "end"]
    /\ UNCHANGED <<conf, sup, proc, inJob, thr, pend, callCtx>>

\* The cached observation outlives its TTL.
HealthExpires ==
    /\ dep.observer = "fresh"
    /\ dep' = [dep EXCEPT !.observer = "stale"]
    /\ UNCHANGED <<conf, sup, proc, inJob, thr, pend, call, callCtx>>

-------------------------------------------------------------------------------
ThreadStep(t) ==
    \/ Deliver(t) \/ BeginAttempt(t) \/ Suspend(t) \/ Assign(t) \/ Resume(t)
    \/ Track(t) \/ BecomeReady(t) \/ NotReady(t)
    \/ Backoff(t) \/ MonitorExit(t) \/ MonitorRestart(t)

CallStep ==
    \/ MakeSupervisor \/ SupervisorRefused \/ ProbeExternal \/ TryCandidate
    \/ Candidate \/ Unselected \/ ObserveSelected \/ Started
    \/ CloseDependency \/ StopCancel \/ StopCloseJob \/ StopDone
    \/ ProbeHealth \/ CacheHealth \/ SetHealth

ProcessTypeOK ==
    /\ sup \in [Supervisors -> [made : BOOLEAN, live : BOOLEAN,
                 job : {"open", "closing", "closed"}, current : 0..MaxGen,
                 attempts : 0..MaxGen, next : 0..MaxGen]]
    /\ proc \in [Supervisors -> [Gens -> {"none", "started", "suspended", "running", "dead"}]]
    /\ inJob \subseteq Supervisors \X Gens
    /\ dep.sup \in Supervisors \cup {0}

(***************************************************************************)
(* ChildrenAreContained: whatever launches, restarts, readiness probes,    *)
(* reconnects and Stops overlap, a child that lives is in the Job object   *)
(* of its supervisor and that is not closed, or it was never resumed and   *)
(* is still in the hands of the thread that creates it: between its start  *)
(* and SIGSTOP (an interval the POSIX adapter cannot avoid) and until it   *)
(* is assigned.  So once Stop has closed the Job object no child serves,   *)
(* even one a monitor was just launching when Stop found no current child. *)
(***************************************************************************)
Creating(p) == \E t \in Threads : /\ thr[t].pc \in {"created", "assign"}
                                  /\ <<thr[t].s, thr[t].g>> = p

ChildrenAreContained ==
    \A p \in Living :
        \/ p \in inJob /\ sup[p[1]].job # "closed"
        \/ p \notin Running /\ Creating(p)

(***************************************************************************)
(* A healthy Graph service whose child has died does not stay healthy: the *)
(* exit observation, or the poll after the health TTL, takes it back even  *)
(* when a probe of the old child finishes after its exit was published.    *)
(***************************************************************************)
StaleHealth ==
    /\ dep.health = "healthy"
    /\ dep.endpoint \notin {Nobody, External}
    /\ proc[dep.endpoint[1]][dep.endpoint[2]] = "dead"
=============================================================================
