--------------------------- MODULE RuntimeLifecycle ---------------------------
(***************************************************************************)
(* The life of the desktop process: the phased startup of the runtime      *)
(* coordinator (app/runtime/startup.go), the status store and its refresh  *)
(* (lifecycle.go, graph_runtime.go), the HTTP host, the worker groups and  *)
(* the bounded shutdown of bootstrap.Process.Close, composed with the      *)
(* graph process of GraphProcess.                                          *)
(*                                                                         *)
(* Capabilities other than the Graph health are a free choice: a refresh   *)
(* of a healthy Graph may publish ready or degraded.  A shutdown operation *)
(* runs in its own goroutine (callBounded) and may outlive its deadline.   *)
(***************************************************************************)
EXTENDS GraphProcess, Sequences

VARIABLES phase,      \* StatusStore.snapshot.Phase
          boot,       \* where Coordinator.Start is
          startLive,  \* the startup context has not ended
          host,       \* the HTTP host accepts requests
          depsOn,     \* Coordinator.Start: dependenciesStarted
          workers,    \* the worker group is started
          closing,    \* position of Process.Close in Order
          op,         \* the bounded operations of Process.Close
          http,       \* the runtime action request being served
          asked,      \* requests made so far
          lp,         \* what the refresh loop is doing
          ref         \* per refresher: the health its convergence has read

lifeVars == <<phase, boot, startLive, host, depsOn, workers, closing, op,
              http, asked, lp, ref>>
vars == <<processVars, lifeVars>>

Order == <<"host", "recovery", "boundaries", "workers", "dependencies", "projects">>
Ops == {Order[i] : i \in DOMAIN Order}
Serving == {"ready", "degraded"}

Init ==
    /\ ProcessInit
    /\ phase = "loading_settings" /\ boot = "settings" /\ startLive = TRUE
    /\ host = FALSE /\ depsOn = FALSE /\ workers = FALSE
    /\ closing = 0 /\ op = [o \in Ops |-> "idle"]
    /\ http = "idle" /\ asked = 0 /\ lp = "idle"
    /\ ref = [r \in {"loop", "http"} |-> "none"]

\* canTransition: forward through the startup phases, between ready and degraded,
\* to stopping from anywhere but stopped, and from stopping only to stopped.
StartupOrder == <<"loading_settings", "verifying_package", "binding_http",
                  "starting_dependencies", "recovering", "opening_recent_project">>

CanTransition(from, to) ==
    \/ from = to /\ from \in Serving \cup {"stopping"}
    \/ to = "stopping" /\ from # "stopped"
    \/ from = "stopping" /\ to = "stopped"
    \/ from \in Serving /\ to \in Serving
    \/ from = StartupOrder[6] /\ to \in Serving
    \/ \E i \in 1..5 : from = StartupOrder[i] /\ to = StartupOrder[i + 1]

\* StatusStore.Transition; a refused transition changes nothing.
Transition(to) == phase' = IF CanTransition(phase, to) THEN to ELSE phase

-------------------------------------------------------------------------------
(***************************************************************************)
(* Coordinator.Start.                                                      *)
(***************************************************************************)
Boot(pc) == boot = pc

\* abortStartup: stopping, then the dependencies and the host, then stopped.
Abort ==
    /\ Transition("stopping")
    /\ boot' = IF depsOn THEN "abort" ELSE "abortHost"

LoadSettings ==
    /\ Boot("settings")
    /\ \/ Transition("verifying_package") /\ boot' = "package"
       \/ Abort
    /\ UNCHANGED <<processVars, startLive, host, depsOn, workers, closing, op,
                   http, asked, lp, ref>>

\* A missing packaged component degrades; any other failure stops the startup.
VerifyPackage ==
    /\ Boot("package")
    /\ \/ Transition("binding_http") /\ boot' = "bind"
       \/ Abort
    /\ UNCHANGED <<processVars, startLive, host, depsOn, workers, closing, op,
                   http, asked, lp, ref>>

\* AcquireListener, StartHost and WaitReachable; a host that was acquired is
\* stopped again by the abort.
BindHost ==
    /\ Boot("bind")
    /\ \/ /\ startLive
          /\ host' = TRUE
          /\ Transition("starting_dependencies") /\ boot' = "dependencies"
       \/ /\ Abort
          /\ UNCHANGED host
       \/ /\ startLive
          /\ host' = TRUE
          /\ Abort
    /\ UNCHANGED <<processVars, startLive, depsOn, workers, closing, op,
                   http, asked, lp, ref>>

\* workerGroup.StartDependencies: graphRuntimeDependency.Start takes actionMu and
\* starts the refresh loop.
StartDependencies ==
    /\ Boot("dependencies")
    /\ call = Idle
    /\ call' = [Idle EXCEPT !.op = "start", !.pc = "start"]
    /\ dep' = [dep EXCEPT !.loop = TRUE]
    /\ callCtx' = startLive
    /\ boot' = "starting"
    /\ UNCHANGED <<conf, sup, proc, inJob, thr, pend, phase, startLive, host, depsOn,
                   workers, closing, op, http, asked, lp, ref>>

\* The holder of actionMu releases it.
Finish(o) ==
    /\ call.op = o /\ call.pc = "end" /\ ~pend[Caller]
    /\ call' = Idle /\ callCtx' = TRUE
    /\ UNCHANGED <<conf, sup, proc, inJob, thr, pend, dep>>

\* Start only fails when nothing was selected and its context has ended; the
\* startup is canceled when the context has ended.
DependenciesStarted ==
    /\ Boot("starting")
    /\ Finish("start")
    /\ depsOn' = (startLive \/ dep.endpoint # Nobody)
    /\ IF startLive
       THEN Transition("recovering") /\ boot' = "recover"
       ELSE /\ Transition("stopping")
            /\ boot' = IF depsOn' THEN "abort" ELSE "abortHost"
    /\ UNCHANGED <<startLive, host, workers, closing, op, http, asked, lp, ref>>

\* A failed recovery is a reason, not an end.
Recover ==
    /\ Boot("recover")
    /\ IF startLive
       THEN Transition("opening_recent_project") /\ boot' = "project"
       ELSE Abort
    /\ UNCHANGED <<processVars, startLive, host, depsOn, workers, closing, op,
                   http, asked, lp, ref>>

\* OpenRecentProject starts the workers, whether or not a project opens.  (Workers
\* that fail to start are closed again and leave less to stop: not modelled.)
OpenRecentProject ==
    /\ Boot("project")
    /\ workers' = startLive
    /\ boot' = "converge"
    /\ UNCHANGED <<processVars, phase, startLive, host, depsOn, closing, op,
                   http, asked, lp, ref>>

\* ConvergeCapabilities, the browser and the last transition of Start.
Converge ==
    /\ Boot("converge")
    /\ IF startLive
       THEN /\ \E to \in Serving :
                 /\ to = "ready" => dep.health = "healthy"
                 /\ Transition(to)
            /\ boot' = "up"
       ELSE Abort
    /\ startLive' = FALSE
    /\ UNCHANGED <<processVars, host, depsOn, workers, closing, op,
                   http, asked, lp, ref>>

\* StopDependencies of the abort: the workers, then the graph dependency.
AbortDependencies ==
    /\ Boot("abort")
    /\ workers' = FALSE
    /\ dep' = [dep EXCEPT !.loop = FALSE]
    /\ boot' = "abortGraph"
    /\ UNCHANGED <<conf, sup, proc, inJob, thr, pend, call, callCtx, phase, startLive,
                   host, depsOn, closing, op, http, asked, lp, ref>>

AbortGraph ==
    /\ Boot("abortGraph")
    /\ lp = "idle" /\ call = Idle
    /\ call' = [Idle EXCEPT !.op = "close", !.pc = "close"]
    /\ boot' = "abortWait"
    /\ UNCHANGED <<conf, sup, proc, inJob, thr, pend, dep, callCtx, phase, startLive,
                   host, depsOn, workers, closing, op, http, asked, lp, ref>>

AbortedGraph ==
    /\ Boot("abortWait")
    /\ Finish("close")
    /\ boot' = "abortHost"
    /\ UNCHANGED <<phase, startLive, host, depsOn, workers, closing, op,
                   http, asked, lp, ref>>

\* StopHost of the abort has no deadline: it waits for the requests.
AbortHost ==
    /\ Boot("abortHost")
    /\ http = "idle"
    /\ host' = FALSE
    /\ Transition("stopped")
    /\ boot' = "aborted"
    /\ UNCHANGED <<processVars, startLive, depsOn, workers, closing, op,
                   http, asked, lp, ref>>

\* The startup deadline, or the caller, ends the startup context.
StartupDeadline ==
    /\ startLive /\ boot \notin {"up", "aborted"}
    /\ startLive' = FALSE
    /\ callCtx' = IF call.op = "start" THEN FALSE ELSE callCtx
    /\ UNCHANGED <<conf, sup, proc, inJob, thr, pend, dep, call, phase, boot, host, depsOn,
                   workers, closing, op, http, asked, lp, ref>>

-------------------------------------------------------------------------------
(***************************************************************************)
(* Runtime actions over HTTP, the refresh loop and the refresh itself.     *)
(***************************************************************************)
Enter(o, pc) == [Idle EXCEPT !.op = o, !.pc = pc, !.next = "start"]

\* The host serves before the dependencies are started, and until it is stopped.
HttpReconnect ==
    /\ host /\ http = "idle" /\ asked < conf.requests
    /\ conf.mode # "disabled" /\ call = Idle
    /\ call' = Enter("reconnect", "close")
    /\ callCtx' = TRUE
    /\ http' = "calling" /\ asked' = asked + 1
    /\ UNCHANGED <<conf, sup, proc, inJob, thr, pend, dep, phase, boot, startLive, host,
                   depsOn, workers, closing, op, lp, ref>>

HttpReprobe ==
    /\ host /\ http = "idle" /\ asked < conf.requests
    /\ dep.observer # "none" /\ dep.endpoint # Nobody
    /\ call = Idle
    /\ call' = Enter("reprobe", "reprobe")
    /\ callCtx' = TRUE
    /\ http' = "calling" /\ asked' = asked + 1
    /\ UNCHANGED <<conf, sup, proc, inJob, thr, pend, dep, phase, boot, startLive, host,
                   depsOn, workers, closing, op, lp, ref>>

\* The client goes away, or the server is closed: the request context ends.
RequestCanceled ==
    /\ callCtx
    /\ call.op \in {"reconnect", "reprobe"} \/ (call.op = "poll" /\ ~dep.loop)
    /\ callCtx' = FALSE
    /\ UNCHANGED <<conf, sup, proc, inJob, thr, pend, dep, call, lifeVars>>

\* Refresh reads the phase and the health; outside ready and degraded it does
\* nothing.
Reads(r) == ref' = [ref EXCEPT ![r] = IF phase \notin Serving THEN "none"
                                      ELSE IF dep.health = "healthy" THEN "healthy"
                                      ELSE "unavailable"]
Refreshes == phase \in Serving

HttpCallReturns ==
    /\ http = "calling"
    /\ Finish("reconnect") \/ Finish("reprobe")
    /\ Reads("http")
    /\ http' = IF Refreshes THEN "refresh" ELSE "idle"
    /\ UNCHANGED <<phase, boot, startLive, host, depsOn, workers,
                   closing, op, asked, lp>>

\* pollHealth takes actionMu; a poll that is not needed returns at once.
LoopPoll ==
    /\ dep.loop /\ lp = "idle" /\ call = Idle
    /\ dep.observer = "stale"
    /\ call' = Enter("poll", "reprobe")
    /\ callCtx' = TRUE
    /\ lp' = "polling"
    /\ UNCHANGED <<conf, sup, proc, inJob, thr, pend, dep, phase, boot, startLive, host,
                   depsOn, workers, closing, op, http, asked, ref>>

LoopPolled ==
    /\ lp = "polling"
    /\ Finish("poll")
    /\ Reads("loop")
    /\ lp' = IF Refreshes THEN "refresh" ELSE "idle"
    /\ UNCHANGED <<phase, boot, startLive, host, depsOn, workers,
                   closing, op, http, asked>>

\* requestRefresh: a delivered observation or a project opened or closed has left
\* a request; one may be there at any time.
LoopRequested ==
    /\ dep.loop /\ lp = "idle" /\ Refreshes
    /\ Reads("loop")
    /\ lp' = "refresh"
    /\ UNCHANGED <<processVars, phase, boot, startLive, host, depsOn, workers,
                   closing, op, http, asked>>

\* The transition is refused when the process is stopping by now.
RefreshPublish(r) ==
    /\ ref[r] # "none"
    /\ \E to \in Serving :
         /\ to = "ready" => ref[r] = "healthy"
         /\ Transition(to)
    /\ ref' = [ref EXCEPT ![r] = "none"]
    /\ IF r = "loop" THEN lp' = "idle" /\ UNCHANGED http
       ELSE http' = "idle" /\ UNCHANGED lp
    /\ UNCHANGED <<processVars, boot, startLive, host, depsOn, workers,
                   closing, op, asked>>

-------------------------------------------------------------------------------
(***************************************************************************)
(* Process.Close: each operation of Order in its own goroutine, waited for *)
(* until it ends or the deadline passes.                                   *)
(***************************************************************************)
Step(o, state) == op' = [op EXCEPT ![o] = state]

\* The goroutine of the next operation starts; StopDependencies first ends the
\* refresh loop.
StartOp(i) ==
    /\ closing' = i
    /\ IF i \in DOMAIN Order THEN Step(Order[i], "running") ELSE UNCHANGED op
    /\ IF i \in DOMAIN Order /\ Order[i] = "dependencies"
       THEN dep' = [dep EXCEPT !.loop = FALSE] ELSE UNCHANGED dep
    /\ UNCHANGED <<conf, sup, proc, inJob, thr, pend, call, callCtx, boot, startLive,
                   host, depsOn, workers, http, asked, lp, ref>>

BeginClose ==
    /\ boot = "up" /\ closing = 0
    /\ Transition("stopping")
    /\ StartOp(1)

\* server.Shutdown waits for the requests.
StopHost ==
    /\ op["host"] = "running" /\ http = "idle"
    /\ host' = FALSE /\ Step("host", "done")
    /\ UNCHANGED <<processVars, phase, boot, startLive, depsOn, workers, closing,
                   http, asked, lp, ref>>

StopWorkers ==
    /\ op["workers"] = "running"
    /\ workers' = FALSE /\ Step("workers", "done")
    /\ UNCHANGED <<processVars, phase, boot, startLive, host, depsOn, closing,
                   http, asked, lp, ref>>

\* stopRefreshLoop waits for the loop before actionMu is taken.
StopGraph ==
    /\ op["dependencies"] = "running" /\ lp = "idle" /\ call = Idle
    /\ call' = [Idle EXCEPT !.op = "close", !.pc = "close"]
    /\ Step("dependencies", "closing")
    /\ UNCHANGED <<conf, sup, proc, inJob, thr, pend, dep, callCtx, phase, boot, startLive,
                   host, depsOn, workers, closing, http, asked, lp, ref>>

GraphStopped ==
    /\ op["dependencies"] = "closing"
    /\ Finish("close")
    /\ Step("dependencies", "done")
    /\ UNCHANGED <<phase, boot, startLive, host, depsOn, workers,
                   closing, http, asked, lp, ref>>

\* The phases of ShutdownCoordinator.Prepare, the boundary that closes the restore
\* targets, and Projects.Close change nothing that is modelled here.
Complete(o) ==
    /\ op[o] = "running"
    /\ Step(o, "done")
    /\ UNCHANGED <<processVars, phase, boot, startLive, host, depsOn, workers, closing,
                   http, asked, lp, ref>>

\* callBounded gives an operation up at the deadline; those after it are started
\* and given up as well, and their goroutines end with the process.
AbandonsAllButHost(o) == o # "host"
Abandons(o) == o \in Ops

Deadline ==
    /\ closing \in DOMAIN Order
    /\ Abandons(Order[closing])
    /\ closing' = Len(Order) + 1
    /\ Transition("stopped")
    /\ UNCHANGED <<processVars, boot, startLive, host, depsOn, workers, op,
                   http, asked, lp, ref>>

\* callBounded returns with its operation.
ReturnsAlways(o) == TRUE
Returns(o) == op[o] = "done"

NextOp ==
    /\ closing \in DOMAIN Order
    /\ Returns(Order[closing])
    /\ StartOp(closing + 1)
    /\ IF closing = Len(Order) THEN Transition("stopped") ELSE UNCHANGED phase

-------------------------------------------------------------------------------
ProcessNext ==
    /\ \/ \E t \in Threads : ThreadStep(t)
       \/ \E s \in Supervisors : CloseJob(s) \/ \E g \in Gens : ChildExits(s, g)
       \/ CallStep
       \/ HealthExpires
    /\ UNCHANGED lifeVars

Startup == LoadSettings \/ VerifyPackage \/ BindHost \/ StartDependencies
           \/ DependenciesStarted \/ Recover \/ OpenRecentProject \/ Converge
           \/ AbortDependencies \/ AbortGraph \/ AbortedGraph \/ AbortHost

Requests == HttpReconnect \/ HttpReprobe \/ RequestCanceled
Refreshing == HttpCallReturns \/ LoopPoll \/ LoopPolled \/ LoopRequested
              \/ \E r \in {"loop", "http"} : RefreshPublish(r)
Operations == StopHost \/ StopWorkers \/ StopGraph \/ GraphStopped
              \/ \E o \in {"recovery", "boundaries", "projects"} : Complete(o)

\* The process exits once Close or the aborted Start has returned.
Runs == phase # "stopped"

Next ==
    /\ Runs
    /\ \/ ProcessNext \/ Startup \/ StartupDeadline \/ Requests \/ Refreshing
       \/ BeginClose \/ NextOp \/ Operations \/ Deadline

(***************************************************************************)
(* Fairness: some goroutine that can run does (the startup is one of them, *)
(* its steps are bounded by the startup deadline), a refresh that was      *)
(* begun is published, the ticker ticks, the TTL and the deadline pass.    *)
(* Nothing is assumed of the operations of Process.Close: one of them may  *)
(* hang.                                                                   *)
(***************************************************************************)
ProcessSteps ==
    /\ \/ \E t \in Threads : ThreadStep(t)
       \/ \E s \in Supervisors : CloseJob(s)
       \/ CallStep
    /\ UNCHANGED lifeVars

Goroutines == ProcessSteps \/ Startup \/ HttpCallReturns \/ LoopPolled

Fairness ==
    /\ WF_vars(Runs /\ Goroutines)
    /\ WF_vars(Runs /\ \E r \in {"loop", "http"} : RefreshPublish(r))
    /\ WF_vars(Runs /\ HealthExpires /\ UNCHANGED lifeVars)
    /\ SF_vars(Runs /\ LoopPoll)
    /\ WF_vars(Runs /\ (NextOp \/ Deadline))

Spec == Init /\ [][Next]_vars /\ Fairness

TypeOK ==
    /\ ProcessTypeOK
    /\ phase \in {StartupOrder[i] : i \in 1..6} \cup Serving \cup {"stopping", "stopped"}
    /\ closing \in 0..(Len(Order) + 1)
    /\ op \in [Ops -> {"idle", "running", "closing", "done"}]

(***************************************************************************)
(* ShutdownIsOrdered: what Process.Close does within its deadline it does  *)
(* in the order its comment gives: the host is down before recovery and    *)
(* the boundaries are prepared, the workers are stopped before the graph   *)
(* dependency, and the project store is closed only when nothing is left   *)
(* that uses it - no worker, no refresh, no runtime action, no resumed     *)
(* child.  There is one exception, and no other: Close cannot stop the     *)
(* supervisor that the start of the dependencies has overwritten, which is *)
(* there only when a reconnect came before that start.  No request and no  *)
(* late refresh makes a stopping process ready again.                      *)
(***************************************************************************)
\* Close has gone on from o, and has not given up since.
Past(o) == \E i \in DOMAIN Order : Order[i] = o /\ closing \in (i + 1)..Len(Order)

ShutdownIsOrdered ==
    /\ closing > 0 => phase \in {"stopping", "stopped"}
    /\ phase \in Serving => host \/ closing > 0
    /\ Past("host") => ~host /\ http = "idle"
    /\ Past("workers") => ~workers
    /\ Past("dependencies") =>
          /\ call = Idle /\ lp = "idle" /\ dep.sup = 0 /\ dep.endpoint = Nobody
          /\ \A p \in Running : p[1] = dep.lost /\ asked > 0

(***************************************************************************)
(* RuntimeSettles: a Close always reaches stopped, even when one of its    *)
(* operations hangs; and a Graph service reported healthy although its     *)
(* child is dead is taken back while the refresh loop runs, by the exit     *)
(* observation or by the next poll after the health TTL.                   *)
(***************************************************************************)
RuntimeSettles ==
    /\ (closing > 0) ~> (phase = "stopped")
    /\ (StaleHealth /\ dep.loop) ~> (~StaleHealth \/ ~dep.loop \/ ~Runs)
=============================================================================
