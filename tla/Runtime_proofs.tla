---------------------------- MODULE Runtime_proofs ----------------------------
(***************************************************************************)
(* Proofs about the desktop process and its bundled child, for any number  *)
(* of supervisors, launches, requests and settings: a child that lives is  *)
(* in the open Job object that kills it or with the thread that creates    *)
(* it, and what Process.Close does it does in its order.                   *)
(***************************************************************************)
EXTENDS RuntimeLifecycle, TLAPS

SupRows  == [made : BOOLEAN, live : BOOLEAN, job : {"open", "closing", "closed"},
             current : 0..MaxGen, attempts : 0..MaxGen, next : 0..MaxGen]
ThreadPC == {"idle", "begin", "created", "assign", "resume", "resumed", "wait", "backoff", "returned", "failed",
             "watch", "exited"}
ThrRows  == [pc : ThreadPC, s : Supervisors \cup {0}, g : 0..MaxGen, first : BOOLEAN]
Health   == {"none", "healthy", "unavailable"}
DepRows  == [sup : Supervisors \cup {0}, lost : Supervisors \cup {0}, endpoint : (Supervisors \cup {0}) \X Nat,
             observer : {"none", "fresh", "stale"}, invalid : BOOLEAN, health : Health, loop : BOOLEAN]
CallRows == [op : {"none", "start", "reconnect", "reprobe", "poll", "close"},
             pc : {"idle", "start", "probe", "candidate", "launching", "unselected", "observe", "started",
                   "close", "stop", "closeJob", "closing", "reprobe", "probing", "cached", "end"},
             tries : Nat, s : Supervisors \cup {0}, owned : Nat, health : Health,
             next : {"idle", "start", "end"}]

Typed ==
    /\ conf \in Settings
    /\ sup \in [Supervisors -> SupRows]
    /\ proc \in [Supervisors -> [Gens -> {"none", "started", "suspended", "running", "dead"}]]
    /\ inJob \subseteq Supervisors \X Gens
    /\ thr \in [Threads -> ThrRows]
    /\ dep \in DepRows
    /\ call \in CallRows

(* A child that is created is known to its thread, below the next          *)
(* generation; when it is about to be resumed it is in an open Job, or the *)
(* closing of the Job has killed it.                                       *)
Launching == {"created", "assign", "resume", "resumed", "wait"}

ThreadIsSound(t) ==
    /\ thr[t].pc # "idle" => thr[t].s \in Supervisors /\ sup[thr[t].s].made
    /\ thr[t].pc \in Launching => thr[t].g \in 1..sup[thr[t].s].next
    /\ thr[t].pc = "resume" =>
          \/ proc[thr[t].s][thr[t].g] = "dead"
          \/ <<thr[t].s, thr[t].g>> \in inJob /\ sup[thr[t].s].job # "closed"

ThreadsAreSound == \A t \in Threads : ThreadIsSound(t)

(* A child is known to one thread alone while it is launched, and its      *)
(* monitor, which begins with it, is not there yet.                        *)
LaunchesAreSound ==
    /\ \A t \in Threads : thr[t].pc \in Launching => thr[<<thr[t].s, thr[t].g>>].pc = "idle"
    /\ \A t, u \in Threads : thr[t].pc \in Launching /\ thr[u].pc \in Launching /\ t # u
          => thr[t].s # thr[u].s \/ thr[t].g # thr[u].g
    /\ \A s \in Supervisors : \A g \in Gens : thr[<<s, g>>].pc # "idle" => g <= sup[s].next

(* ChildrenAreContained child by child; only a supervisor that was made    *)
(* has children that were assigned.                                        *)
LivingStates == {"started", "suspended", "running"}

ChildIsSound(s, g) ==
    proc[s][g] \in LivingStates =>
        \/ <<s, g>> \in inJob /\ sup[s].job # "closed" /\ sup[s].made
        \/ proc[s][g] # "running" /\ Creating(<<s, g>>)

ChildrenAreSound == \A s \in Supervisors : \A g \in Gens : ChildIsSound(s, g)

(* The operation that holds actionMu: a supervisor that is not the         *)
(* dependency's has its Job closed, or is the one being stopped, or the    *)
(* one that the first start has overwritten.  Its thread is at rest unless *)
(* it launches a candidate.                                                *)
Stopping == {"stop", "closeJob", "closing"}
CallIsSound ==
    /\ dep.sup # 0 => sup[dep.sup].made
    /\ call.pc \in {"candidate", "launching"} => dep.sup # 0
    /\ call.pc \in Stopping => dep.sup = 0
    /\ call.pc = "start" => dep.sup = 0 \/ (call.op = "start" /\ dep.lost = 0)
    /\ call.pc \in Stopping => call.s # 0
    /\ call.op = "close" => call.pc \in {"close", "end"} \cup Stopping
    /\ call.op = "close" /\ call.pc # "close" => dep.sup = 0 /\ dep.endpoint = Nobody
    /\ \A s \in Supervisors :
          sup[s].made /\ sup[s].job # "closed" => s \in {dep.sup, dep.lost} \/ (call.pc \in Stopping /\ call.s = s)

CallerIsSound == call.pc # "launching" => thr[Caller].pc = "idle"

(* The startup, before it takes actionMu, while it serves, and aborted.    *)
Unstarted == {"settings", "package", "bind", "dependencies"}
Hosting   == {"dependencies", "starting", "recover", "project", "converge"}
Aborting  == {"abort", "abortGraph", "abortWait", "abortHost"}

StartupIsSound ==
    /\ boot \in Unstarted => dep.lost = 0 /\ ~dep.loop /\ call.op # "start"
    /\ boot \in Unstarted /\ asked = 0 => dep.sup = 0 /\ call = Idle
    /\ boot \in Unstarted \ {"dependencies"} => ~host /\ asked = 0
    /\ asked \in Nat
    /\ asked = 0 => dep.lost = 0 /\ (call.pc = "start" => dep.sup = 0)
    /\ boot \in Hosting => host
    /\ boot = "up" /\ closing = 0 => host
    /\ boot \in Aborting => phase = "stopping"
    /\ phase \in Serving => boot = "up"
    /\ ref \in [{"loop", "http"} -> Health]
    /\ \A r \in {"loop", "http"} : ref[r] # "none" => boot = "up"

(* The operations of Process.Close, each begun when the one before it is   *)
(* done.                                                                   *)
CloseIsSound ==
    /\ closing \in 0..7
    /\ op \in [Ops -> {"idle", "running", "closing", "done"}]
    /\ closing > 0 => boot = "up" /\ phase \in {"stopping", "stopped"}
    /\ closing = 7 => phase = "stopped"
    /\ closing = 0 => op["host"] = "idle"
    /\ closing <= 1 => op["recovery"] = "idle"
    /\ closing <= 2 => op["boundaries"] = "idle"
    /\ closing <= 3 => op["workers"] = "idle"
    /\ closing <= 4 => op["dependencies"] = "idle"
    /\ closing <= 5 => op["projects"] = "idle"
    /\ closing \in 2..6 => op["host"] = "done"
    /\ closing \in 5..6 => op["workers"] = "done"
    /\ closing = 6 => op["dependencies"] = "done"
    /\ op["host"] = "done" => ~host /\ http = "idle"
    /\ op["workers"] = "done" => ~workers
    /\ op["dependencies"] # "idle" => ~dep.loop
    /\ op["dependencies"] \in {"closing", "done"} => lp = "idle"
    /\ op["dependencies"] = "closing" => call.op = "close"
    /\ op["dependencies"] = "done" => call = Idle /\ dep.sup = 0 /\ dep.endpoint = Nobody

ProcessInv == Typed /\ ThreadsAreSound /\ LaunchesAreSound /\ ChildrenAreSound /\ CallIsSound /\ CallerIsSound
IInv == ProcessInv /\ StartupIsSound /\ CloseIsSound

-----------------------------------------------------------------------------
(* What the lemmas below say of a step.                                    *)
(* No Job is closed, and no child below the next generation comes back.    *)
Grows ==
    /\ inJob \subseteq inJob'
    /\ \A s \in Supervisors :
          /\ sup[s].made => sup'[s].made
          /\ sup[s].next <= sup'[s].next
          /\ sup[s].job # "closed" => sup'[s].job # "closed"
          /\ \A g \in 1..sup[s].next : proc[s][g] = "dead" => proc'[s][g] = "dead"

(* Only the thread t moves, with the child it launches, or not towards one *)
(* of its own.                                                             *)
Moves(t) ==
    /\ thr' \in [Threads -> ThrRows]
    /\ \A u \in Threads \ {t} : thr'[u] = thr[u]
    /\ thr'[t].pc \in Launching => thr[t].pc \in Launching /\ thr'[t].g = thr[t].g
    /\ thr'[t].pc # "idle" => thr[t].pc # "idle" /\ thr'[t].s = thr[t].s

Passive(t) == Moves(t) /\ thr'[t].pc \notin {"created", "assign", "resume"}

LEMMA BoundsFacts ==
    /\ MaxGen \in Nat
    /\ Supervisors \subseteq Nat \ {0}
    /\ 0 \notin Supervisors
    /\ Caller \in Threads
    /\ Supervisors \X Gens \subseteq Threads
    /\ \A n \in Nat : n <= MaxGen => n \in 0..MaxGen
    /\ Gens \subseteq 0..MaxGen
  BY RuntimeAssumption DEF Threads, Caller, Gens

LEMMA ThreadStays ==
    ASSUME Typed, NEW t \in Threads, ThreadIsSound(t), Grows, thr'[t] = thr[t], sup' \in [Supervisors -> SupRows]
    PROVE  ThreadIsSound(t)'
<1>0. thr[t].g \in Nat
  BY BoundsFacts DEF Typed, ThrRows
<1>1. CASE thr[t].pc = "idle"
  BY <1>1 DEF ThreadIsSound, Launching
<1>2. CASE thr[t].pc # "idle"
  <2>1. PICK s \in Supervisors : s = thr[t].s
    BY <1>2 DEF ThreadIsSound
  <2>2. sup[s].next \in Nat /\ sup'[s].next \in Nat
    BY BoundsFacts DEF Typed, SupRows
  <2>3. /\ sup[s].made => sup'[s].made
        /\ sup[s].next <= sup'[s].next
        /\ sup[s].job # "closed" => sup'[s].job # "closed"
        /\ \A g \in 1..sup[s].next : proc[s][g] = "dead" => proc'[s][g] = "dead"
        /\ inJob \subseteq inJob'
    BY DEF Grows
  <2>4. sup'[thr'[t].s].made /\ thr'[t].s \in Supervisors
    BY <1>2, <2>1, <2>3 DEF ThreadIsSound
  <2>5. thr[t].pc \in Launching => thr[t].g \in 1..sup[s].next /\ thr[t].g \in 1..sup'[s].next
    BY <2>1, <2>2, <2>3, <1>0 DEF ThreadIsSound
  <2>6. thr[t].pc = "resume" =>
          \/ proc'[s][thr[t].g] = "dead"
          \/ <<s, thr[t].g>> \in inJob' /\ sup'[s].job # "closed"
    BY <2>1, <2>3, <2>5 DEF ThreadIsSound, Launching
  <2> QED
    BY <2>1, <2>4, <2>5, <2>6 DEF ThreadIsSound
<1> QED
  BY <1>1, <1>2

LEMMA ThreadsStay ==
    ASSUME Typed, ThreadsAreSound, Grows, UNCHANGED thr, sup' \in [Supervisors -> SupRows]
    PROVE  ThreadsAreSound'
<1>1. \A t \in Threads : ThreadIsSound(t)'
  BY ThreadStays DEF ThreadsAreSound
<1> QED
  BY <1>1 DEF ThreadsAreSound

LEMMA PassiveKept ==
    ASSUME Typed, ThreadsAreSound, Grows, NEW t \in Threads, Passive(t), sup' \in [Supervisors -> SupRows]
    PROVE  ThreadsAreSound'
<1>1. ASSUME NEW u \in Threads PROVE ThreadIsSound(u)'
  <2>1. CASE u # t
    BY <2>1, ThreadStays DEF Passive, Moves, ThreadsAreSound
  <2>2. CASE u = t
    <3>1. thr[t].pc # "idle" => thr[t].s \in Supervisors /\ sup[thr[t].s].made
      BY DEF ThreadsAreSound, ThreadIsSound
    <3>2. thr'[t].pc # "idle" => thr'[t].s \in Supervisors /\ sup'[thr'[t].s].made
      BY <3>1 DEF Passive, Moves, Grows
    <3>3. thr'[t].pc \in Launching => thr'[t].g \in 1..sup'[thr'[t].s].next
      <4>1. SUFFICES ASSUME thr'[t].pc \in Launching PROVE thr'[t].g \in 1..sup'[thr'[t].s].next
        OBVIOUS
      <4>2. thr'[t].g = thr[t].g /\ thr'[t].s = thr[t].s /\ thr[t].pc \in Launching
        BY <4>1 DEF Passive, Moves, Launching
      <4>3. thr[t].g \in 1..sup[thr[t].s].next /\ thr[t].s \in Supervisors
        BY <3>1, <4>2 DEF ThreadsAreSound, ThreadIsSound, Launching
      <4>4. PICK s \in Supervisors : s = thr[t].s
        BY <4>3
      <4>5. sup[s].next <= sup'[s].next
        BY DEF Grows
      <4>6. sup[s].next \in Nat /\ sup'[s].next \in Nat
        BY BoundsFacts DEF Typed, SupRows
      <4> QED
        BY <4>2, <4>3, <4>4, <4>5, <4>6
    <3> QED
      BY <2>2, <3>2, <3>3 DEF Passive, ThreadIsSound
  <2> QED
    BY <2>1, <2>2
<1> QED
  BY <1>1 DEF ThreadsAreSound

(* No step of a thread takes up a child that another thread has, as long   *)
(* as it does not begin with a new one.                                    *)
LEMMA LaunchesKept ==
    ASSUME Typed, ThreadsAreSound, LaunchesAreSound, NEW t \in Threads,
           \A u \in Threads \ {t} : thr'[u] = thr[u],
           thr'[t].pc \in Launching => thr[t].pc \in Launching /\ thr'[t].g = thr[t].g /\ thr'[t].s = thr[t].s,
           t = Caller \/ (thr'[t].pc # "idle" => thr[t].pc # "idle"),
           \A s \in Supervisors : sup[s].next \in Nat /\ sup'[s].next \in Nat /\ sup[s].next <= sup'[s].next
    PROVE  LaunchesAreSound'
<1>1. ASSUME NEW u \in Threads, thr'[u].pc \in Launching
      PROVE  /\ thr[u].pc \in Launching /\ thr'[u].g = thr[u].g /\ thr'[u].s = thr[u].s
             /\ thr[u].s \in Supervisors /\ thr[u].g \in Gens
  <2>1. thr[u].pc \in Launching /\ thr'[u].g = thr[u].g /\ thr'[u].s = thr[u].s
    BY <1>1
  <2>2. thr[u].s \in Supervisors /\ thr[u].g \in 1..sup[thr[u].s].next
    BY <2>1 DEF ThreadsAreSound, ThreadIsSound, Launching
  <2>3. sup[thr[u].s].next \in 0..MaxGen
    BY <2>2 DEF Typed, SupRows
  <2> QED
    BY <2>1, <2>2, <2>3, BoundsFacts DEF Gens
<1>2. ASSUME NEW s \in Supervisors, NEW g \in Gens, thr'[<<s, g>>].pc # "idle" PROVE thr[<<s, g>>].pc # "idle"
  <2>1. <<s, g>> \in Threads /\ <<s, g>> # Caller
    BY BoundsFacts DEF Caller
  <2> QED
    BY <1>2, <2>1
<1>3. ASSUME NEW u \in Threads, thr'[u].pc \in Launching PROVE thr'[<<thr'[u].s, thr'[u].g>>].pc = "idle"
  <2>1. thr[<<thr[u].s, thr[u].g>>].pc = "idle"
    BY <1>1, <1>3 DEF LaunchesAreSound
  <2> QED
    BY <1>1, <1>2, <1>3, <2>1
<1>4. ASSUME NEW u \in Threads, NEW v \in Threads, thr'[u].pc \in Launching, thr'[v].pc \in Launching, u # v
      PROVE  thr'[u].s # thr'[v].s \/ thr'[u].g # thr'[v].g
  <2>1. thr[u].pc \in Launching /\ thr'[u].g = thr[u].g /\ thr'[u].s = thr[u].s
    BY <1>1, <1>4
  <2>2. thr[v].pc \in Launching /\ thr'[v].g = thr[v].g /\ thr'[v].s = thr[v].s
    BY <1>1, <1>4
  <2> QED
    BY <1>4, <2>1, <2>2 DEF LaunchesAreSound
<1>5. ASSUME NEW s \in Supervisors, NEW g \in Gens, thr'[<<s, g>>].pc # "idle" PROVE g <= sup'[s].next
  <2>1. g <= sup[s].next /\ g \in Nat
    BY <1>2, <1>5, BoundsFacts DEF LaunchesAreSound, Gens
  <2> QED
    BY <2>1
<1> QED
  BY <1>3, <1>4, <1>5 DEF LaunchesAreSound

(* The children stay where they are, or die: no child that is not in its   *)
(* Job loses the thread that creates it.                                   *)
LEMMA ChildKept ==
    ASSUME ChildrenAreSound, inJob \subseteq inJob', NEW s \in Supervisors, NEW g \in Gens,
           sup[s].made => sup'[s].made, sup[s].job # "closed" => sup'[s].job # "closed",
           proc'[s][g] = proc[s][g] \/ proc'[s][g] = "dead",
           \A u \in Threads : \/ thr'[u] = thr[u]
                              \/ thr[u].pc \notin {"created", "assign"}
                              \/ thr[u].s # s \/ thr[u].g # g
                              \/ proc'[s][g] = "dead"
    PROVE  ChildIsSound(s, g)'
<1>1. SUFFICES ASSUME proc'[s][g] \in LivingStates
               PROVE  \/ <<s, g>> \in inJob' /\ sup'[s].job # "closed" /\ sup'[s].made
                      \/ proc'[s][g] # "running" /\ Creating(<<s, g>>)'
  BY DEF ChildIsSound
<1>2. proc'[s][g] = proc[s][g] /\ proc'[s][g] # "dead"
  BY <1>1 DEF LivingStates
<1>3. CASE <<s, g>> \in inJob /\ sup[s].job # "closed" /\ sup[s].made
  BY <1>3
<1>4. CASE proc[s][g] # "running" /\ Creating(<<s, g>>)
  <2>1. PICK u \in Threads : thr[u].pc \in {"created", "assign"} /\ <<thr[u].s, thr[u].g>> = <<s, g>>
    BY <1>4 DEF Creating
  <2>2. thr[u].s = s /\ thr[u].g = g
    BY <2>1
  <2>3. thr'[u] = thr[u]
    BY <1>2, <2>1, <2>2
  <2> QED
    BY <1>2, <1>4, <2>1, <2>3 DEF Creating
<1> QED
  BY <1>1, <1>2, <1>3, <1>4 DEF ChildrenAreSound, ChildIsSound

LEMMA ChildrenKept ==
    ASSUME ChildrenAreSound, inJob \subseteq inJob',
           \A s \in Supervisors : (sup[s].made => sup'[s].made) /\ (sup[s].job # "closed" => sup'[s].job # "closed"),
           \A s \in Supervisors : \A g \in Gens : proc'[s][g] = proc[s][g] \/ proc'[s][g] = "dead",
           \A u \in Threads : \/ thr'[u] = thr[u]
                              \/ thr[u].pc \notin {"created", "assign"}
                              \/ proc'[thr[u].s][thr[u].g] = "dead"
    PROVE  ChildrenAreSound'
<1>1. ASSUME NEW s \in Supervisors, NEW g \in Gens PROVE ChildIsSound(s, g)'
  BY ChildKept
<1> QED
  BY <1>1 DEF ChildrenAreSound

LEMMA CallKept ==
    ASSUME Typed, CallIsSound, UNCHANGED call, dep'.sup = dep.sup, dep'.lost = dep.lost, dep'.endpoint = dep.endpoint,
           \A s \in Supervisors : sup'[s].made = sup[s].made /\ (sup'[s].job # "closed" => sup[s].job # "closed")
    PROVE  CallIsSound'
<1>1. dep.sup # 0 => dep.sup \in Supervisors
  BY DEF Typed, DepRows
<1> QED
  BY <1>1 DEF CallIsSound, Stopping

(* The two ends of a launch that fails.                                    *)
LEMMA FailsPassive ==
    ASSUME Typed, NEW t \in Threads, thr[t].pc # "idle", Fails(t)
    PROVE  Passive(t)
<1>1. NoThread \in ThrRows /\ NoThread.pc = "idle"
  BY BoundsFacts DEF NoThread, ThrRows, ThreadPC
<1>2. Return(t, "failed") \in ThrRows /\ Return(t, "failed").pc \in {"idle", "failed"}
      /\ (Return(t, "failed").pc # "idle" => Return(t, "failed").s = thr[t].s)
  BY <1>1 DEF Return, Typed, ThrRows, ThreadPC
<1> QED
  BY <1>2 DEF Fails, Passive, Moves, Launching, Typed

LEMMA GotoFacts ==
    ASSUME Typed, NEW t \in Threads, NEW pc \in ThreadPC, Goto(t, pc)
    PROVE  /\ thr' \in [Threads -> ThrRows]
           /\ thr'[t].pc = pc /\ thr'[t].g = thr[t].g /\ thr'[t].s = thr[t].s
           /\ \A x \in Threads \ {t} : thr'[x] = thr[x]
<1>1. PICK r \in ThrRows : r = thr[t]
  BY DEF Typed
<1>2. PICK q : q = [r EXCEPT !.pc = pc]
  OBVIOUS
<1>3. q \in ThrRows /\ q.pc = pc /\ q.s = r.s /\ q.g = r.g
  BY <1>1, <1>2 DEF ThrRows
<1>4. thr' = [thr EXCEPT ![t] = q]
  BY <1>1, <1>2 DEF Goto
<1> QED
  BY <1>1, <1>3, <1>4 DEF Typed

LEMMA GotoPassive ==
    ASSUME Typed, NEW t \in Threads, thr[t].pc # "idle", NEW pc \in ThreadPC \ {"created", "assign", "resume", "idle"},
           pc \in Launching => thr[t].pc \in Launching, Goto(t, pc)
    PROVE  Passive(t)
  BY GotoFacts DEF Passive, Moves

LEMMA RetryPassive ==
    ASSUME Typed, NEW t \in Threads, thr[t].pc # "idle", Retry(t)
    PROVE  Passive(t)
<1>1. "backoff" \in ThreadPC \ {"created", "assign", "resume", "idle"} /\ "backoff" \notin Launching
  BY DEF ThreadPC, Launching
<1> QED
  BY <1>1, FailsPassive, GotoPassive DEF Retry

-----------------------------------------------------------------------------
(* The steps of a launch and of a monitor.                                 *)

LEMMA ThreadTyped ==
    ASSUME ProcessInv, NEW t \in Threads, thr[t].pc # "idle"
    PROVE  /\ thr[t].s \in Supervisors /\ sup[thr[t].s].made /\ thr[t].g \in 0..MaxGen
           /\ sup[thr[t].s] \in SupRows
           /\ thr[t].pc \in Launching => thr[t].g \in Gens /\ thr[t].g \in 1..sup[thr[t].s].next
<1>1. thr[t] \in ThrRows /\ thr[t].g \in 0..MaxGen
  BY DEF ProcessInv, Typed, ThrRows
<1>2. thr[t].s \in Supervisors /\ sup[thr[t].s].made
  BY DEF ProcessInv, ThreadsAreSound, ThreadIsSound
<1>3. sup[thr[t].s] \in SupRows /\ sup[thr[t].s].next \in 0..MaxGen
  BY <1>2 DEF ProcessInv, Typed, SupRows
<1>4. thr[t].pc \in Launching => thr[t].g \in 1..sup[thr[t].s].next
  BY DEF ProcessInv, ThreadsAreSound, ThreadIsSound
<1> QED
  BY <1>1, <1>2, <1>3, <1>4, BoundsFacts DEF Gens

(* The child that a thread launches is its own, and has no monitor yet.    *)
LEMMA LaunchFacts ==
    ASSUME ProcessInv, NEW t \in Threads, thr[t].pc \in Launching
    PROVE  /\ thr[t].s \in Supervisors /\ thr[t].g \in Gens
           /\ <<thr[t].s, thr[t].g>> \in Threads /\ thr[<<thr[t].s, thr[t].g>>].pc = "idle"
           /\ <<thr[t].s, thr[t].g>> # Caller
           /\ \A u \in Threads \ {t} : thr[u].pc \in Launching => thr[u].s # thr[t].s \/ thr[u].g # thr[t].g
<1>1. thr[t].s \in Supervisors /\ thr[t].g \in Gens
  BY ThreadTyped DEF Launching
<1>2. <<thr[t].s, thr[t].g>> \in Threads /\ <<thr[t].s, thr[t].g>> # Caller
  BY <1>1, BoundsFacts DEF Caller
<1>3. /\ thr[<<thr[t].s, thr[t].g>>].pc = "idle"
      /\ \A u \in Threads \ {t} : thr[u].pc \in Launching => thr[u].s # thr[t].s \/ thr[u].g # thr[t].g
  BY DEF ProcessInv, LaunchesAreSound
<1> QED
  BY <1>1, <1>2, <1>3

(* A step of a thread that leaves the children as they are, or dead.       *)
LEMMA QuietKept ==
    ASSUME ProcessInv, NEW t \in Threads, Passive(t) \/ UNCHANGED thr,
           UNCHANGED thr \/ thr[t].pc \notin {"created", "assign"} \/ proc'[thr[t].s][thr[t].g] = "dead",
           UNCHANGED <<conf, inJob, call>>, dep' \in DepRows, dep'.sup = dep.sup, dep'.lost = dep.lost,
           dep'.endpoint = dep.endpoint, sup' \in [Supervisors -> SupRows],
           \A s \in Supervisors : /\ sup'[s].made = sup[s].made /\ sup'[s].job = sup[s].job
                                  /\ sup[s].next <= sup'[s].next,
           proc' = proc \/ \E s \in Supervisors : \E g : proc' = [proc EXCEPT ![s][g] = "dead"]
    PROVE  ProcessInv'
<1>1. proc' \in [Supervisors -> [Gens -> {"none", "started", "suspended", "running", "dead"}]]
  BY DEF ProcessInv, Typed
<1>2. Typed'
  BY <1>1 DEF ProcessInv, Typed, Passive, Moves
<1>3. \A s \in Supervisors : \A g \in Gens : proc'[s][g] = proc[s][g] \/ proc'[s][g] = "dead"
  BY DEF ProcessInv, Typed
<1>4. \A s \in Supervisors : \A g \in 1..sup[s].next : g \in Gens
  BY BoundsFacts DEF ProcessInv, Typed, SupRows, Gens
<1>5. Grows
  BY <1>3, <1>4 DEF Grows
<1>6. ThreadsAreSound'
  BY <1>5, PassiveKept, ThreadsStay DEF ProcessInv
<1>7. ChildrenAreSound'
  <2>1. \A u \in Threads : \/ thr'[u] = thr[u]
                           \/ thr[u].pc \notin {"created", "assign"}
                           \/ proc'[thr[u].s][thr[u].g] = "dead"
    BY DEF Passive, Moves
  <2> QED
    BY <1>3, <2>1, ChildrenKept DEF ProcessInv
<1>8. CallIsSound'
  BY CallKept DEF ProcessInv
<1>9. /\ \A u \in Threads \ {t} : thr'[u] = thr[u]
      /\ thr'[t].pc \in Launching => thr[t].pc \in Launching /\ thr'[t].g = thr[t].g /\ thr'[t].s = thr[t].s
      /\ thr'[t].pc # "idle" => thr[t].pc # "idle"
  BY DEF Passive, Moves, Launching
<1>10. LaunchesAreSound'
  <2>1. \A s \in Supervisors : sup[s].next \in Nat /\ sup'[s].next \in Nat /\ sup[s].next <= sup'[s].next
    BY BoundsFacts DEF ProcessInv, Typed, SupRows
  <2> QED
    BY <1>9, <2>1, LaunchesKept DEF ProcessInv
<1>11. CallerIsSound'
  BY <1>9, BoundsFacts DEF ProcessInv, CallerIsSound
<1> QED
  BY <1>2, <1>6, <1>7, <1>8, <1>10, <1>11 DEF ProcessInv

LEMMA DeliverKept ==
    ASSUME ProcessInv, NEW t \in Threads, Deliver(t)
    PROVE  /\ ProcessInv' /\ dep'.loop = dep.loop /\ dep'.lost = dep.lost
           /\ dep.observer = "none" => dep'.observer = "none"
<1>1. /\ dep' \in DepRows /\ dep'.sup = dep.sup /\ dep'.lost = dep.lost /\ dep'.endpoint = dep.endpoint /\ dep'.loop = dep.loop
      /\ dep.observer = "none" => dep'.observer = "none"
  <2>1. PICK d \in DepRows : d = dep
    BY DEF ProcessInv, Typed
  <2>2. PICK e : e = [d EXCEPT !.observer = IF d.observer = "fresh" THEN "stale" ELSE d.observer,
                               !.invalid = (call.pc = "probing")]
    OBVIOUS
  <2>3. (call.pc = "probing") \in BOOLEAN
    OBVIOUS
  <2>4. /\ e \in DepRows /\ e.sup = d.sup /\ e.lost = d.lost /\ e.endpoint = d.endpoint /\ e.loop = d.loop
        /\ d.observer = "none" => e.observer = "none"
    BY <2>2, <2>3 DEF DepRows, Health
  <2>5. dep' = [e EXCEPT !.health = "unavailable"]
    BY <2>1, <2>2 DEF Deliver, Invalidated
  <2> QED
    BY <2>1, <2>4, <2>5 DEF DepRows, Health
<1>2. \A s \in Supervisors : sup[s].next <= sup[s].next
  BY BoundsFacts DEF ProcessInv, Typed, SupRows
<1> QED
  BY <1>1, <1>2, QuietKept DEF Deliver, ProcessInv, Typed

(* A supervisor's row whose attempts or current child changed.             *)
LEMMA SupRowKept ==
    ASSUME Typed, NEW s \in Supervisors, NEW u \in SupRows, sup' = [sup EXCEPT ![s] = u],
           u.made = sup[s].made, u.job = sup[s].job, sup[s].next <= u.next
    PROVE  /\ sup' \in [Supervisors -> SupRows]
           /\ \A x \in Supervisors : /\ sup'[x].made = sup[x].made /\ sup'[x].job = sup[x].job
                                     /\ sup[x].next <= sup'[x].next
<1>1. \A x \in Supervisors : sup[x].next \in Nat
  BY BoundsFacts DEF Typed, SupRows
<1> QED
  BY <1>1 DEF Typed

LEMMA KeptAttempts ==
    ASSUME ProcessInv, NEW s \in Supervisors, NEW kept \in Keepable(sup[s])
    PROVE  /\ kept \in 0..MaxGen
           /\ kept < conf.attempts => /\ kept + 1 \in 0..MaxGen
                                      /\ sup[s].next + 1 \in Gens
<1>1. conf.attempts \in Nat \ {0} /\ conf.launches \in conf.attempts..MaxGen
  BY RuntimeAssumption DEF ProcessInv, Typed
<1>2. sup[s].attempts \in 0..MaxGen /\ sup[s].next \in 0..MaxGen
  BY DEF ProcessInv, Typed, SupRows
<1>3. kept \in 0..sup[s].attempts /\ sup[s].next + conf.attempts - kept <= conf.launches
  BY DEF Keepable
<1> QED
  BY <1>1, <1>2, <1>3, BoundsFacts DEF Gens

LEMMA BeginKept ==
    ASSUME ProcessInv, NEW t \in Threads, BeginAttempt(t)
    PROVE  ProcessInv'
<1>1. PICK s \in Supervisors : s = thr[t].s
  BY ThreadTyped DEF BeginAttempt, At
<1>2. thr[t].pc = "begin" /\ sup[s].made /\ sup[s] \in SupRows /\ sup[s].next \in Nat
  BY <1>1, ThreadTyped, BoundsFacts DEF BeginAttempt, At, SupRows
<1>3. PICK kept \in Keepable(sup[s]) :
        \/ /\ kept >= conf.attempts
           /\ sup' = [sup EXCEPT ![s].attempts = kept]
           /\ Fails(t)
           /\ UNCHANGED proc
        \/ /\ ~(kept >= conf.attempts)
           /\ sup' = [sup EXCEPT ![s].attempts = kept + 1, ![s].next = sup[s].next + 1]
           /\ \/ /\ proc' = [proc EXCEPT ![s][sup[s].next + 1] = "started"]
                 /\ thr' = [thr EXCEPT ![t].pc = "created", ![t].g = sup[s].next + 1]
              \/ /\ Retry(t)
                 /\ UNCHANGED proc
  BY <1>1 DEF BeginAttempt
<1>4. UNCHANGED <<conf, inJob, dep, call>>
  BY DEF BeginAttempt
<1>5. kept \in Nat /\ conf.attempts \in Nat
  BY KeptAttempts, RuntimeAssumption, BoundsFacts DEF ProcessInv, Typed
<1>8. PICK old \in SupRows : old = sup[s]
  BY <1>2
<1>6. CASE kept >= conf.attempts
  <2>0. kept \in 0..MaxGen
    BY KeptAttempts
  <2>1. PICK u : u = [old EXCEPT !.attempts = kept]
    OBVIOUS
  <2>5. u \in SupRows /\ u.made = old.made /\ u.job = old.job /\ u.next = old.next
    BY <2>0, <2>1 DEF SupRows
  <2>2. u \in SupRows /\ u.made = sup[s].made /\ u.job = sup[s].job /\ sup[s].next <= u.next
    BY <1>2, <1>8, <2>5
  <2>3. sup' = [sup EXCEPT ![s] = u]
    BY <1>3, <1>6, <1>8, <2>1, <1>5
  <2>4. Passive(t)
    BY <1>2, <1>3, <1>6, <1>5, FailsPassive DEF ProcessInv
  <2> QED
    <3>1. /\ sup' \in [Supervisors -> SupRows]
          /\ \A x \in Supervisors : /\ sup'[x].made = sup[x].made /\ sup'[x].job = sup[x].job
                                    /\ sup[x].next <= sup'[x].next
      BY <2>2, <2>3, SupRowKept DEF ProcessInv
    <3>2. proc' = proc /\ thr[t].pc \notin {"created", "assign"}
      BY <1>2, <1>3, <1>5, <1>6
    <3> QED
      BY <1>4, <2>4, <3>1, <3>2, QuietKept DEF ProcessInv, Typed
<1>7. CASE ~(kept >= conf.attempts)
  <2>0. kept < conf.attempts
    BY <1>5, <1>7
  <2>n. kept + 1 \in 0..MaxGen /\ sup[s].next + 1 \in 0..MaxGen
    BY <2>0, KeptAttempts, BoundsFacts
  <2>a. PICK v : v = [old EXCEPT !.attempts = kept + 1]
    OBVIOUS
  <2>b. v \in SupRows /\ v.made = old.made /\ v.job = old.job /\ v.next = old.next
    BY <2>n, <2>a DEF SupRows
  <2>1. PICK u : u = [v EXCEPT !.next = sup[s].next + 1]
    OBVIOUS
  <2>c. u \in SupRows /\ u.made = old.made /\ u.job = old.job /\ u.next = sup[s].next + 1
    BY <2>n, <2>b, <2>1 DEF SupRows
  <2>2. /\ u \in SupRows /\ u.made = sup[s].made /\ u.job = sup[s].job /\ sup[s].next <= u.next
        /\ u.next = sup[s].next + 1
    BY <1>2, <1>8, <2>c
  <2>3. sup' = [sup EXCEPT ![s] = u]
    BY <1>3, <1>7, <1>8, <2>a, <2>1
  <2>4. /\ sup' \in [Supervisors -> SupRows]
        /\ \A x \in Supervisors : /\ sup'[x].made = sup[x].made /\ sup'[x].job = sup[x].job
                                  /\ sup[x].next <= sup'[x].next
    BY <2>2, <2>3, SupRowKept DEF ProcessInv
  <2>5. CASE Retry(t) /\ UNCHANGED proc
    <3>1. Passive(t)
      BY <1>2, <2>5, RetryPassive DEF ProcessInv
    <3>2. thr[t].pc \notin {"created", "assign"}
      BY <1>2
    <3> QED
      BY <1>4, <2>4, <2>5, <3>1, <3>2, QuietKept DEF ProcessInv, Typed
  <2>6. CASE /\ proc' = [proc EXCEPT ![s][sup[s].next + 1] = "started"]
             /\ thr' = [thr EXCEPT ![t].pc = "created", ![t].g = sup[s].next + 1]
    <3>1. PICK g \in Gens : g = sup[s].next + 1
      BY <2>0, KeptAttempts
    <3>2. proc' \in [Supervisors -> [Gens -> {"none", "started", "suspended", "running", "dead"}]]
      BY <2>6, <3>1 DEF ProcessInv, Typed
    <3>3. /\ thr' \in [Threads -> ThrRows]
          /\ thr'[t].pc = "created" /\ thr'[t].g = g /\ thr'[t].s = s
          /\ \A x \in Threads \ {t} : thr'[x] = thr[x]
      <4>1. PICK a : a = [thr[t] EXCEPT !.pc = "created"]
        OBVIOUS
      <4>2. a \in ThrRows /\ a.pc = "created" /\ a.s = s
        BY <1>1, <4>1 DEF ProcessInv, Typed, ThrRows, ThreadPC
      <4>3. PICK b : b = [a EXCEPT !.g = g]
        OBVIOUS
      <4>4. b \in ThrRows /\ b.pc = "created" /\ b.s = s /\ b.g = g
        BY <4>2, <4>3, BoundsFacts DEF ThrRows
      <4>5. thr' = [thr EXCEPT ![t] = b]
        BY <2>6, <3>1, <4>1, <4>3
      <4> QED
        BY <4>4, <4>5 DEF ProcessInv, Typed
    <3>4. Typed'
      BY <1>4, <2>4, <3>2, <3>3 DEF ProcessInv, Typed
    <3>5. Grows
      <4>1. ASSUME NEW x \in Supervisors, NEW h \in 1..sup[x].next, proc[x][h] = "dead" PROVE proc'[x][h] = "dead"
        <5>1. <<x, h>> # <<s, g>>
          BY <1>2, <3>1, <4>1
        <5>2. h \in Gens
          BY BoundsFacts DEF ProcessInv, Typed, SupRows, Gens
        <5> QED
          BY <2>6, <3>1, <4>1, <5>1, <5>2 DEF ProcessInv, Typed
      <4> QED
        BY <1>4, <2>4, <4>1 DEF Grows
    <3>a. sup'[s].next = g /\ sup'[s].made /\ g \in 1..g /\ ~(g <= sup[s].next)
      <4>1. sup'[s] = u
        BY <2>3 DEF ProcessInv, Typed
      <4>2. g \in 1..g
        BY <3>1, BoundsFacts DEF Gens
      <4>3. ~(g <= sup[s].next)
        BY <1>2, <3>1
      <4> QED
        BY <1>2, <2>2, <3>1, <4>1, <4>2, <4>3
    <3>6. ThreadsAreSound'
      <4>1. ASSUME NEW x \in Threads PROVE ThreadIsSound(x)'
        <5>1. CASE x # t
          BY <5>1, <3>3, <3>5, <2>4, ThreadStays DEF ProcessInv, ThreadsAreSound
        <5>2. CASE x = t
          BY <5>2, <3>3, <3>a DEF ThreadIsSound
        <5> QED
          BY <5>1, <5>2
      <4> QED
        BY <4>1 DEF ThreadsAreSound
    <3>7. ChildrenAreSound'
      <4>1. ASSUME NEW x \in Supervisors, NEW h \in Gens PROVE ChildIsSound(x, h)'
        <5>1. CASE x = s /\ h = g
          <6>1. Creating(<<s, g>>)'
            BY <3>3 DEF Creating
          <6>2. proc'[s][g] = "started"
            BY <2>6, <3>1 DEF ProcessInv, Typed
          <6> QED
            BY <5>1, <6>1, <6>2 DEF ChildIsSound
        <5>2. CASE ~(x = s /\ h = g)
          <6>1. proc'[x][h] = proc[x][h]
            BY <2>6, <3>1, <5>2 DEF ProcessInv, Typed
          <6>2. \A y \in Threads : thr'[y] = thr[y] \/ thr[y].pc \notin {"created", "assign"}
            BY <1>2, <3>3
          <6> QED
            BY <1>4, <2>4, <6>1, <6>2, ChildKept DEF ProcessInv
        <5> QED
          BY <5>1, <5>2
      <4> QED
        BY <4>1 DEF ChildrenAreSound
    <3>8. CallIsSound'
      BY <1>4, <2>4, CallKept DEF ProcessInv
    <3>9. LaunchesAreSound'
      <4>0. <<s, g>> \in Threads /\ thr[<<s, g>>].pc = "idle"
        <5>1. <<s, g>> \in Threads
          BY BoundsFacts
        <5>2. thr[<<s, g>>].pc # "idle" => g <= sup[s].next
          BY DEF ProcessInv, LaunchesAreSound
        <5> QED
          BY <3>a, <5>1, <5>2
      <4>1. ASSUME NEW x \in Threads, thr'[x].pc \in Launching PROVE thr'[<<thr'[x].s, thr'[x].g>>].pc = "idle"
        <5>1. CASE x = t
          BY <1>2, <3>3, <4>0, <5>1
        <5>2. CASE x # t
          <6>1. /\ thr'[x] = thr[x] /\ <<thr[x].s, thr[x].g>> \in Threads
                /\ thr[<<thr[x].s, thr[x].g>>].pc = "idle"
            BY <3>3, <4>1, <5>2, LaunchFacts
          <6> QED
            BY <1>2, <3>3, <6>1
        <5> QED
          BY <5>1, <5>2
      <4>2. ASSUME NEW x \in Threads, x # t, thr'[x].pc \in Launching
            PROVE  thr[x].pc \in Launching /\ thr'[x] = thr[x] /\ (thr[x].s # s \/ thr[x].g # g)
        <5>1. thr'[x] = thr[x] /\ thr[x].pc \in Launching
          BY <3>3, <4>2
        <5>2. thr[x].g \in 1..sup[thr[x].s].next
          BY <5>1, ThreadTyped DEF Launching
        <5> QED
          BY <1>2, <3>a, <5>1, <5>2
      <4>3. ASSUME NEW x \in Threads, NEW y \in Threads, thr'[x].pc \in Launching, thr'[y].pc \in Launching, x # y
            PROVE  thr'[x].s # thr'[y].s \/ thr'[x].g # thr'[y].g
        <5>1. CASE x = t
          BY <3>3, <4>2, <4>3, <5>1
        <5>2. CASE y = t
          BY <3>3, <4>2, <4>3, <5>2
        <5>3. CASE x # t /\ y # t
          BY <4>2, <4>3, <5>3 DEF ProcessInv, LaunchesAreSound
        <5> QED
          BY <5>1, <5>2, <5>3
      <4>4. ASSUME NEW x \in Supervisors, NEW h \in Gens, thr'[<<x, h>>].pc # "idle" PROVE h <= sup'[x].next
        <5>1. thr[<<x, h>>].pc # "idle" /\ <<x, h>> \in Threads
          BY <1>2, <3>3, <4>4, BoundsFacts
        <5>2. h <= sup[x].next
          BY <5>1 DEF ProcessInv, LaunchesAreSound
        <5>3. sup[x].next \in Nat /\ sup'[x].next \in Nat /\ h \in Nat
          BY <2>4, BoundsFacts DEF ProcessInv, Typed, SupRows, Gens
        <5> QED
          BY <2>4, <5>2, <5>3
      <4> QED
        BY <4>1, <4>3, <4>4 DEF LaunchesAreSound
    <3>10. CallerIsSound'
      BY <1>2, <1>4, <3>3, BoundsFacts DEF ProcessInv, CallerIsSound
    <3> QED
      BY <3>4, <3>6, <3>7, <3>8, <3>9, <3>10 DEF ProcessInv
  <2> QED
    BY <1>3, <1>7, <2>5, <2>6
<1> QED
  BY <1>6, <1>7

(* A thread takes its child one step further: the child comes into its     *)
(* Job, or stays with its thread.                                          *)
LEMMA LaunchStepKept ==
    ASSUME ProcessInv, NEW t \in Threads, thr[t].pc \in Launching, NEW s \in Supervisors, NEW g \in Gens,
           s = thr[t].s, g = thr[t].g, NEW pc \in Launching, Goto(t, pc),
           UNCHANGED <<conf, sup, dep, call>>, inJob \subseteq inJob', inJob' \subseteq inJob \cup {<<s, g>>},
           NEW v \in {"none", "started", "suspended", "running", "dead"}, proc' = [proc EXCEPT ![s][g] = v],
           proc[s][g] = "dead" => v = "dead",
           pc = "resume" => <<s, g>> \in inJob' /\ sup[s].job # "closed",
           ChildIsSound(s, g)'
    PROVE  ProcessInv'
<1>0. thr[t].pc # "idle" /\ sup' \in [Supervisors -> SupRows]
  BY DEF Launching, ProcessInv, Typed
<1>1. /\ thr' \in [Threads -> ThrRows]
      /\ thr'[t].pc = pc /\ thr'[t].g = g /\ thr'[t].s = s
      /\ \A x \in Threads \ {t} : thr'[x] = thr[x]
  <2>1. pc \in ThreadPC
    BY DEF Launching, ThreadPC
  <2> QED
    BY <2>1, GotoFacts DEF ProcessInv
<1>2. /\ proc' \in [Supervisors -> [Gens -> {"none", "started", "suspended", "running", "dead"}]]
      /\ \A x \in Supervisors : \A h \in Gens : /\ x # s \/ h # g => proc'[x][h] = proc[x][h]
                                               /\ proc[x][h] = "dead" => proc'[x][h] = "dead"
  BY DEF ProcessInv, Typed
<1>3. Typed'
  <2>1. <<s, g>> \in Supervisors \X Gens
    OBVIOUS
  <2> QED
    BY <1>1, <1>2, <2>1 DEF ProcessInv, Typed
<1>4. Grows
  <2>1. \A x \in Supervisors : /\ sup[x].next <= sup'[x].next
                               /\ \A h \in 1..sup[x].next : h \in Gens
    BY BoundsFacts DEF ProcessInv, Typed, SupRows, Gens
  <2> QED
    BY <1>2, <2>1 DEF Grows
<1>5. ThreadsAreSound'
  <2>1. ASSUME NEW x \in Threads PROVE ThreadIsSound(x)'
    <3>1. CASE x # t
      BY <3>1, <1>0, <1>1, <1>4, ThreadStays DEF ProcessInv, ThreadsAreSound
    <3>2. CASE x = t
      <4>1. sup'[s].made /\ g \in 1..sup'[s].next
        BY <1>0, ThreadTyped
      <4> QED
        BY <3>2, <1>1, <4>1 DEF ThreadIsSound
    <3> QED
      BY <3>1, <3>2
  <2> QED
    BY <2>1 DEF ThreadsAreSound
<1>6. LaunchesAreSound'
  <2>1. \A x \in Supervisors : sup[x].next \in Nat /\ sup'[x].next \in Nat /\ sup[x].next <= sup'[x].next
    BY BoundsFacts DEF ProcessInv, Typed, SupRows
  <2> QED
    BY <1>0, <1>1, <2>1, LaunchesKept DEF ProcessInv
<1>7. ChildrenAreSound'
  <2>1. ASSUME NEW x \in Supervisors, NEW h \in Gens, x # s \/ h # g PROVE ChildIsSound(x, h)'
    <3>1. \A u \in Threads : thr'[u] = thr[u] \/ thr[u].s # x \/ thr[u].g # h
      BY <1>1, <2>1
    <3> QED
      BY <1>2, <2>1, <3>1, ChildKept DEF ProcessInv
  <2> QED
    BY <2>1 DEF ChildrenAreSound
<1>8. CallIsSound'
  BY CallKept DEF ProcessInv
<1>9. CallerIsSound'
  BY <1>0, <1>1, BoundsFacts DEF ProcessInv, CallerIsSound
<1> QED
  BY <1>3, <1>5, <1>6, <1>7, <1>8, <1>9 DEF ProcessInv

LEMMA SuspendKept ==
    ASSUME ProcessInv, NEW t \in Threads, Suspend(t)
    PROVE  ProcessInv'
<1>1. PICK s \in Supervisors : s = thr[t].s
  BY ThreadTyped DEF Suspend, At
<1>2. PICK g \in Gens : g = thr[t].g
  BY ThreadTyped DEF Suspend, At, Launching
<1>3. thr[t].pc = "created" /\ thr[t].pc \in Launching
  BY DEF Suspend, At, Launching
<1>4. UNCHANGED <<conf, sup, inJob, dep, call>> /\ sup' \in [Supervisors -> SupRows]
  BY DEF Suspend, ProcessInv, Typed
<1>n. \A x \in Supervisors : sup[x].next \in Nat /\ sup[x].next <= sup'[x].next
  BY <1>4, BoundsFacts DEF ProcessInv, Typed, SupRows
<1>5. CASE proc' = [proc EXCEPT ![s][g] = IF proc[s][g] = "started" THEN "suspended" ELSE proc[s][g]] /\ Goto(t, "assign")
  <2>1. PICK v \in {"none", "started", "suspended", "running", "dead"} :
            v = IF proc[s][g] = "started" THEN "suspended" ELSE proc[s][g]
    BY DEF ProcessInv, Typed
  <2>2. proc' = [proc EXCEPT ![s][g] = v] /\ (proc[s][g] = "dead" => v = "dead")
    BY <1>5, <2>1
  <2>3. thr'[t].pc = "assign" /\ thr'[t].g = g /\ thr'[t].s = s
    <3>1. "assign" \in ThreadPC
      BY DEF ThreadPC
    <3> QED
      BY <1>1, <1>2, <1>5, <3>1, GotoFacts DEF ProcessInv
  <2>4. proc'[s][g] = v
    BY <2>2 DEF ProcessInv, Typed
  <2>5. ChildIsSound(s, g)'
    <3>1. Creating(<<s, g>>)'
      BY <2>3 DEF Creating
    <3>2. proc'[s][g] = "running" => proc[s][g] = "running"
      BY <2>1, <2>4
    <3>3. proc[s][g] = "running" => <<s, g>> \in inJob /\ sup[s].job # "closed" /\ sup[s].made
      BY DEF ProcessInv, ChildrenAreSound, ChildIsSound, LivingStates
    <3> QED
      BY <1>4, <3>1, <3>2, <3>3 DEF ChildIsSound
  <2>6. "assign" \in Launching
    BY DEF Launching
  <2>7. Goto(t, "assign") /\ inJob \subseteq inJob' /\ inJob' \subseteq inJob \cup {<<s, g>>}
    BY <1>4, <1>5
  <2> QED
    BY <1>1, <1>2, <1>3, <1>4, <2>2, <2>5, <2>6, <2>7, LaunchStepKept
<1>6. CASE proc' = [proc EXCEPT ![s][g] = "dead"] /\ Retry(t)
  <2>1. Passive(t)
    BY <1>3, <1>6, RetryPassive DEF ProcessInv
  <2>2. proc'[thr[t].s][thr[t].g] = "dead"
    BY <1>1, <1>2, <1>6 DEF ProcessInv, Typed
  <2> QED
    BY <1>4, <1>n, <1>6, <2>1, <2>2, QuietKept DEF ProcessInv, Typed
<1> QED
  BY <1>1, <1>2, <1>5, <1>6 DEF Suspend

LEMMA AssignKept ==
    ASSUME ProcessInv, NEW t \in Threads, Assign(t)
    PROVE  ProcessInv'
<1>1. PICK s \in Supervisors : s = thr[t].s
  BY ThreadTyped DEF Assign, At
<1>2. PICK g \in Gens : g = thr[t].g
  BY ThreadTyped DEF Assign, At, Launching
<1>3. thr[t].pc = "assign" /\ thr[t].pc \in Launching /\ sup[s].made
  BY <1>1, ThreadTyped DEF Assign, At, Launching
<1>4. UNCHANGED <<conf, sup, dep, call>> /\ sup' \in [Supervisors -> SupRows]
  BY DEF Assign, ProcessInv, Typed
<1>n. \A x \in Supervisors : sup[x].next \in Nat /\ sup[x].next <= sup'[x].next
  BY <1>4, BoundsFacts DEF ProcessInv, Typed, SupRows
<1>5. CASE Assignable(sup[s])
  <2>1. inJob' = inJob \cup {<<s, g>>} /\ Goto(t, "resume") /\ UNCHANGED proc
    BY <1>1, <1>2, <1>5 DEF Assign
  <2>2. sup[s].job # "closed"
    BY <1>5 DEF Assignable
  <2>3. PICK v \in {"none", "started", "suspended", "running", "dead"} : v = proc[s][g]
    BY DEF ProcessInv, Typed
  <2>4. proc' = [proc EXCEPT ![s][g] = v]
    BY <2>1, <2>3 DEF ProcessInv, Typed
  <2>5. ChildIsSound(s, g)'
    BY <1>3, <1>4, <2>1, <2>2 DEF ChildIsSound
  <2>6. "resume" \in Launching
    BY DEF Launching
  <2> QED
    BY <1>1, <1>2, <1>3, <1>4, <2>1, <2>2, <2>3, <2>4, <2>5, <2>6, LaunchStepKept
<1>6. CASE ~Assignable(sup[s])
  <2>1. proc' = [proc EXCEPT ![s][g] = "dead"] /\ Retry(t) /\ UNCHANGED inJob
    BY <1>1, <1>2, <1>6 DEF Assign
  <2>2. Passive(t)
    BY <1>3, <2>1, RetryPassive DEF ProcessInv
  <2>3. proc'[thr[t].s][thr[t].g] = "dead"
    BY <1>1, <1>2, <2>1 DEF ProcessInv, Typed
  <2> QED
    BY <1>4, <1>n, <2>1, <2>2, <2>3, QuietKept DEF ProcessInv, Typed
<1> QED
  BY <1>5, <1>6

LEMMA ResumeKept ==
    ASSUME ProcessInv, NEW t \in Threads, Resume(t)
    PROVE  ProcessInv'
<1>1. PICK s \in Supervisors : s = thr[t].s
  BY ThreadTyped DEF Resume, At
<1>2. PICK g \in Gens : g = thr[t].g
  BY ThreadTyped DEF Resume, At, Launching
<1>3. /\ thr[t].pc = "resume" /\ thr[t].pc \in Launching /\ sup[s].made
      /\ proc[s][g] = "dead" \/ (<<s, g>> \in inJob /\ sup[s].job # "closed")
  BY <1>1, <1>2 DEF Resume, At, ProcessInv, ThreadsAreSound, ThreadIsSound, Launching
<1>4. UNCHANGED <<conf, sup, inJob, dep, call>> /\ sup' \in [Supervisors -> SupRows]
  BY DEF Resume, ProcessInv, Typed
<1>n. \A x \in Supervisors : sup[x].next \in Nat /\ sup[x].next <= sup'[x].next
  BY <1>4, BoundsFacts DEF ProcessInv, Typed, SupRows
<1>5. CASE proc' = [proc EXCEPT ![s][g] = IF proc[s][g] = "suspended" THEN "running" ELSE proc[s][g]] /\ Goto(t, "resumed")
  <2>1. PICK v \in {"none", "started", "suspended", "running", "dead"} :
            v = IF proc[s][g] = "suspended" THEN "running" ELSE proc[s][g]
    BY DEF ProcessInv, Typed
  <2>2. proc' = [proc EXCEPT ![s][g] = v] /\ (proc[s][g] = "dead" => v = "dead")
    BY <1>5, <2>1
  <2>3. proc'[s][g] = v
    BY <2>2 DEF ProcessInv, Typed
  <2>4. ChildIsSound(s, g)'
    BY <1>3, <1>4, <2>2, <2>3 DEF ChildIsSound, LivingStates
  <2>5. "resumed" \in Launching
    BY DEF Launching
  <2>6. Goto(t, "resumed") /\ inJob \subseteq inJob' /\ inJob' \subseteq inJob \cup {<<s, g>>}
    BY <1>4, <1>5
  <2> QED
    BY <1>1, <1>2, <1>3, <1>4, <2>2, <2>4, <2>5, <2>6, LaunchStepKept
<1>6. CASE proc' = [proc EXCEPT ![s][g] = "dead"] /\ Retry(t)
  <2>1. Passive(t)
    BY <1>3, <1>6, RetryPassive DEF ProcessInv
  <2> QED
    BY <1>3, <1>4, <1>n, <1>6, <2>1, QuietKept DEF ProcessInv, Typed
<1> QED
  BY <1>1, <1>2, <1>5, <1>6 DEF Resume

LEMMA ClearCurrentTyped ==
    ASSUME NEW u \in SupRows, NEW g
    PROVE  /\ ClearCurrent(u, g) \in SupRows
           /\ ClearCurrent(u, g).made = u.made /\ ClearCurrent(u, g).job = u.job
           /\ ClearCurrent(u, g).next = u.next
<1>1. 0 \in 0..MaxGen
  BY BoundsFacts
<1> QED
  BY <1>1 DEF ClearCurrent, SupRows

(* The rest of a launch and of a monitor: only the bookkeeping of the      *)
(* supervisor moves, and a child may die.                                  *)
LEMMA WaitKept ==
    ASSUME ProcessInv, NEW t \in Threads, Track(t) \/ NotReady(t) \/ Backoff(t) \/ MonitorExit(t) \/ MonitorRestart(t)
    PROVE  ProcessInv'
<1>0. thr[t].pc # "idle"
  BY DEF Track, NotReady, Backoff, MonitorExit, MonitorRestart, At
<1>1. PICK s \in Supervisors : s = thr[t].s
  BY <1>0, ThreadTyped
<1>2. PICK old \in SupRows : old = sup[s]
  BY <1>0, <1>1, ThreadTyped
<1>3. old.next \in Nat /\ \A n \in Nat : n <= n
  BY <1>2, BoundsFacts DEF SupRows
<1>4. UNCHANGED <<conf, inJob, dep, call>>
  BY DEF Track, NotReady, Backoff, MonitorExit, MonitorRestart
<1>p. /\ {"wait", "backoff", "exited", "begin"} \subseteq ThreadPC \ {"created", "assign", "resume", "idle"}
      /\ {"backoff", "exited", "begin"} \cap Launching = {} /\ "resumed" \in Launching
      /\ thr[t].pc \notin {"created", "assign"}
  BY DEF ThreadPC, Launching, Track, NotReady, Backoff, MonitorExit, MonitorRestart, At
<1>5. Passive(t)
  <2>1. CASE Track(t)
    BY <1>0, <1>p, <2>1, GotoPassive DEF Track, At, ProcessInv
  <2>2. CASE NotReady(t)
    BY <1>0, <1>p, <2>2, GotoPassive, FailsPassive DEF NotReady, ProcessInv
  <2>3. CASE Backoff(t)
    <3>1. CASE thr' = [thr EXCEPT ![t].pc = "begin", ![t].first = FALSE]
      <4>1. PICK a : a = [thr[t] EXCEPT !.pc = "begin"]
        OBVIOUS
      <4>2. a \in ThrRows /\ a.pc = "begin" /\ a.s = s
        BY <1>1, <4>1 DEF ProcessInv, Typed, ThrRows, ThreadPC
      <4>3. PICK b : b = [a EXCEPT !.first = FALSE]
        OBVIOUS
      <4>4. b \in ThrRows /\ b.pc = "begin" /\ b.s = s
        BY <4>2, <4>3 DEF ThrRows
      <4>5. thr' = [thr EXCEPT ![t] = b]
        BY <3>1, <4>1, <4>3
      <4> QED
        BY <1>0, <1>1, <1>p, <4>4, <4>5 DEF ProcessInv, Typed, Passive, Moves
    <3>2. CASE Fails(t)
      BY <1>0, <3>2, FailsPassive DEF ProcessInv
    <3> QED
      BY <2>3, <3>1, <3>2 DEF Backoff
  <2>4. CASE MonitorExit(t)
    BY <1>0, <1>p, <2>4, GotoPassive DEF MonitorExit, ProcessInv
  <2>5. CASE MonitorRestart(t)
    BY <1>0, <2>5, RetryPassive DEF MonitorRestart, ProcessInv
  <2> QED
    BY <2>1, <2>2, <2>3, <2>4, <2>5
<1>6. \E u \in SupRows : /\ sup' = [sup EXCEPT ![s] = u]
                         /\ u.made = old.made /\ u.job = old.job /\ u.next = old.next
  <2>1. CASE Track(t)
    <3>1. PICK g \in 0..MaxGen : g = thr[t].g
      BY <1>0, ThreadTyped
    <3>2. PICK u : u = [old EXCEPT !.current = g]
      OBVIOUS
    <3>3. u \in SupRows /\ u.made = old.made /\ u.job = old.job /\ u.next = old.next
      BY <3>1, <3>2 DEF SupRows
    <3>4. sup' = [sup EXCEPT ![s] = u]
      BY <1>1, <1>2, <2>1, <3>1, <3>2 DEF Track
    <3> QED
      BY <3>3, <3>4
  <2>2. CASE NotReady(t) \/ MonitorExit(t)
    <3>1. sup' = [sup EXCEPT ![s] = ClearCurrent(sup[s], thr[t].g)]
      BY <1>1, <2>2 DEF NotReady, MonitorExit
    <3> QED
      BY <1>2, <3>1, ClearCurrentTyped
  <2>3. CASE Backoff(t)
    <3>1. sup' = [sup EXCEPT ![s] = old]
      BY <1>2, <2>3 DEF Backoff, ProcessInv, Typed
    <3> QED
      BY <3>1
  <2>4. CASE MonitorRestart(t)
    <3>1. sup' = sup \/ \E kept \in Keepable(sup[s]) : sup' = [sup EXCEPT ![s].attempts = kept]
      BY <1>1, <2>4 DEF MonitorRestart
    <3>2. ASSUME NEW kept \in Keepable(sup[s]), sup' = [sup EXCEPT ![s].attempts = kept]
          PROVE  \E u \in SupRows : /\ sup' = [sup EXCEPT ![s] = u]
                                    /\ u.made = old.made /\ u.job = old.job /\ u.next = old.next
      <4>1. kept \in 0..MaxGen
        BY KeptAttempts
      <4>2. PICK u : u = [old EXCEPT !.attempts = kept]
        OBVIOUS
      <4>3. u \in SupRows /\ u.made = old.made /\ u.job = old.job /\ u.next = old.next
        BY <4>1, <4>2 DEF SupRows
      <4>4. sup' = [sup EXCEPT ![s] = u]
        BY <1>2, <3>2, <4>2
      <4> QED
        BY <4>3, <4>4
    <3>3. CASE sup' = sup
      <4>1. sup' = [sup EXCEPT ![s] = old]
        BY <1>2, <3>3 DEF ProcessInv, Typed
      <4> QED
        BY <4>1
    <3> QED
      BY <3>1, <3>2, <3>3
  <2> QED
    BY <2>1, <2>2, <2>3, <2>4
<1>7. /\ sup' \in [Supervisors -> SupRows]
      /\ \A x \in Supervisors : /\ sup'[x].made = sup[x].made /\ sup'[x].job = sup[x].job
                                /\ sup[x].next <= sup'[x].next
  BY <1>2, <1>3, <1>6, SupRowKept DEF ProcessInv
<1>8. proc' = proc \/ \E x \in Supervisors : \E g : proc' = [proc EXCEPT ![x][g] = "dead"]
  BY <1>1 DEF Track, NotReady, Backoff, MonitorExit, MonitorRestart
<1> QED
  BY <1>4, <1>5, <1>7, <1>8, <1>p, QuietKept DEF ProcessInv, Typed

(* The child is ready: its monitor begins, and the launch returns.         *)
LEMMA ReadyKept ==
    ASSUME ProcessInv, NEW t \in Threads, BecomeReady(t)
    PROVE  ProcessInv'
<1>1. PICK s \in Supervisors : s = thr[t].s
  BY ThreadTyped DEF BecomeReady, At
<1>2. PICK g \in Gens : g = thr[t].g
  BY ThreadTyped DEF BecomeReady, At, Launching
<1>3. thr[t].pc = "wait" /\ thr[t].pc \in Launching /\ sup[s].made /\ g <= sup[s].next
  BY <1>1, <1>2, ThreadTyped DEF BecomeReady, At, Launching
<1>m. /\ <<s, g>> \in Threads /\ <<s, g>> # Caller /\ thr[<<s, g>>].pc = "idle" /\ t # <<s, g>>
      /\ \A u \in Threads \ {t} : thr[u].pc \in Launching => thr[u].s # s \/ thr[u].g # g
  <2>1. thr[<<s, g>>].pc = "idle"
    BY <1>1, <1>2, <1>3, LaunchFacts
  <2>2. t # <<s, g>>
    BY <1>3, <2>1
  <2> QED
    BY <1>1, <1>2, <1>3, <2>1, <2>2, LaunchFacts
<1>4. UNCHANGED <<conf, sup, proc, inJob, dep, call>>
  BY DEF BecomeReady
<1>5. PICK r : r = Return(t, "returned")
  OBVIOUS
<1>6. PICK w : w = [pc |-> "watch", s |-> s, g |-> g, first |-> FALSE]
  OBVIOUS
<1>7. NoThread \in ThrRows /\ NoThread.pc = "idle"
  BY BoundsFacts DEF NoThread, ThrRows, ThreadPC
<1>8. r \in ThrRows /\ r.pc \in {"idle", "returned"} /\ (r.pc # "idle" => r.s = s)
  BY <1>1, <1>5, <1>7 DEF Return, ProcessInv, Typed, ThrRows, ThreadPC
<1>9. w \in ThrRows /\ w.pc = "watch" /\ w.s = s
  BY <1>6, BoundsFacts DEF ThrRows, ThreadPC
<1>10. thr' = [thr EXCEPT ![t] = r, ![<<s, g>>] = w]
  BY <1>1, <1>2, <1>5, <1>6 DEF BecomeReady
<1>11. /\ thr' \in [Threads -> ThrRows]
       /\ thr'[t] = r /\ thr'[<<s, g>>] = w
       /\ \A x \in Threads \ {t, <<s, g>>} : thr'[x] = thr[x]
  BY <1>m, <1>8, <1>9, <1>10 DEF ProcessInv, Typed
<1>12. Typed'
  BY <1>4, <1>11 DEF ProcessInv, Typed
<1>13. Grows
  BY <1>4, BoundsFacts DEF Grows, ProcessInv, Typed, SupRows
<1>14. ASSUME NEW x \in Threads PROVE ThreadIsSound(x)'
  <2>1. CASE thr'[x] = thr[x]
    BY <2>1, <1>4, <1>13, ThreadStays DEF ProcessInv, Typed, ThreadsAreSound
  <2>2. CASE thr'[x] = r \/ thr'[x] = w
    BY <2>2, <1>3, <1>4, <1>8, <1>9 DEF ThreadIsSound, Launching
  <2> QED
    BY <1>11, <2>1, <2>2
<1>15. ThreadsAreSound'
  BY <1>14 DEF ThreadsAreSound
<1>16. ChildrenAreSound'
  <2>1. \A u \in Threads : thr'[u] = thr[u] \/ thr[u].pc \notin {"created", "assign"}
    BY <1>3, <1>m, <1>11
  <2> QED
    BY <1>4, <2>1, ChildrenKept DEF ProcessInv
<1>17. CallIsSound'
  BY <1>4, CallKept DEF ProcessInv
<1>18. LaunchesAreSound'
  <2>1. ASSUME NEW x \in Threads, thr'[x].pc \in Launching
        PROVE  thr'[x] = thr[x] /\ thr[x].pc \in Launching /\ x # t /\ x # <<s, g>>
    BY <1>8, <1>9, <1>11, <2>1 DEF Launching
  <2>2. ASSUME NEW x \in Threads, thr'[x].pc \in Launching PROVE thr'[<<thr'[x].s, thr'[x].g>>].pc = "idle"
    <3>1. /\ <<thr[x].s, thr[x].g>> \in Threads /\ thr[<<thr[x].s, thr[x].g>>].pc = "idle"
          /\ thr[x].s # s \/ thr[x].g # g
      BY <1>m, <2>1, <2>2, LaunchFacts
    <3>2. <<thr[x].s, thr[x].g>> # t /\ <<thr[x].s, thr[x].g>> # <<s, g>>
      BY <1>3, <3>1
    <3> QED
      BY <1>11, <2>1, <2>2, <3>1, <3>2
  <2>3. ASSUME NEW x \in Threads, NEW y \in Threads, thr'[x].pc \in Launching, thr'[y].pc \in Launching, x # y
        PROVE  thr'[x].s # thr'[y].s \/ thr'[x].g # thr'[y].g
    BY <2>1, <2>3 DEF ProcessInv, LaunchesAreSound
  <2>4. ASSUME NEW x \in Supervisors, NEW h \in Gens, thr'[<<x, h>>].pc # "idle" PROVE h <= sup'[x].next
    <3>1. <<x, h>> \in Threads
      BY BoundsFacts
    <3>2. CASE <<x, h>> = <<s, g>>
      BY <1>3, <1>4, <3>2
    <3>3. CASE <<x, h>> # <<s, g>>
      <4>1. thr[<<x, h>>].pc # "idle"
        BY <1>3, <1>11, <2>4, <3>1, <3>3
      <4> QED
        BY <1>4, <4>1 DEF ProcessInv, LaunchesAreSound
    <3> QED
      BY <3>2, <3>3
  <2> QED
    BY <2>2, <2>3, <2>4 DEF LaunchesAreSound
<1>19. CallerIsSound'
  BY <1>3, <1>4, <1>m, <1>11, BoundsFacts DEF ProcessInv, CallerIsSound
<1> QED
  BY <1>12, <1>15, <1>16, <1>17, <1>18, <1>19 DEF ProcessInv

LEMMA ChildExitsKept ==
    ASSUME ProcessInv, NEW s \in Supervisors, NEW g \in Gens, ChildExits(s, g)
    PROVE  ProcessInv'
<1>1. \A x \in Supervisors : sup[x].next <= sup[x].next
  BY BoundsFacts DEF ProcessInv, Typed, SupRows
<1> QED
  BY <1>1, BoundsFacts, QuietKept DEF ChildExits, ProcessInv, Typed

(* Closing the Job object kills what was assigned to it.                   *)
LEMMA CloseJobKept ==
    ASSUME ProcessInv, NEW s \in Supervisors, CloseJob(s)
    PROVE  ProcessInv'
<1>1. /\ sup' = [sup EXCEPT ![s].job = "closed"]
      /\ proc' = [proc EXCEPT ![s] = [g \in Gens |-> IF <<s, g>> \in inJob THEN "dead" ELSE proc[s][g]]]
      /\ inJob' = {p \in inJob : p[1] # s}
      /\ UNCHANGED <<conf, thr, dep, call>>
  BY DEF CloseJob
<1>2. /\ sup' \in [Supervisors -> SupRows]
      /\ \A x \in Supervisors : sup'[x].made = sup[x].made /\ sup'[x].next = sup[x].next
      /\ \A x \in Supervisors \ {s} : sup'[x].job = sup[x].job
      /\ sup'[s].job = "closed"
  BY <1>1 DEF ProcessInv, Typed, SupRows
<1>3. /\ proc' \in [Supervisors -> [Gens -> {"none", "started", "suspended", "running", "dead"}]]
      /\ \A x \in Supervisors \ {s} : proc'[x] = proc[x]
      /\ \A g \in Gens : proc'[s][g] = IF <<s, g>> \in inJob THEN "dead" ELSE proc[s][g]
  BY <1>1 DEF ProcessInv, Typed
<1>4. \A x \in Supervisors \ {s} : \A g : <<x, g>> \in inJob => <<x, g>> \in inJob'
  BY <1>1
<1>5. Typed'
  BY <1>1, <1>2, <1>3 DEF ProcessInv, Typed
<1>6. ThreadsAreSound'
  <2>1. ASSUME NEW t \in Threads, thr[t].pc # "idle"
        PROVE  /\ thr[t].s \in Supervisors /\ sup'[thr[t].s].made
               /\ thr[t].pc \in Launching => thr[t].g \in 1..sup'[thr[t].s].next
               /\ thr[t].pc = "resume" => \/ proc'[thr[t].s][thr[t].g] = "dead"
                                          \/ <<thr[t].s, thr[t].g>> \in inJob' /\ sup'[thr[t].s].job # "closed"
    <3>1. PICK x \in Supervisors : x = thr[t].s
      BY <2>1, ThreadTyped
    <3>2. sup[x].made /\ (thr[t].pc \in Launching => thr[t].g \in Gens /\ thr[t].g \in 1..sup[x].next)
      BY <2>1, <3>1, ThreadTyped
    <3>3. thr[t].pc = "resume" => \/ proc[x][thr[t].g] = "dead"
                                  \/ <<x, thr[t].g>> \in inJob /\ sup[x].job # "closed"
      BY <2>1, <3>1 DEF ProcessInv, ThreadsAreSound, ThreadIsSound
    <3>4. thr[t].pc = "resume" => \/ proc'[x][thr[t].g] = "dead"
                                  \/ <<x, thr[t].g>> \in inJob' /\ sup'[x].job # "closed"
      <4>1. CASE x = s
        BY <1>3, <3>2, <3>3, <4>1 DEF Launching
      <4>2. CASE x # s
        BY <1>2, <1>3, <1>4, <3>3, <4>2
      <4> QED
        BY <4>1, <4>2
    <3> QED
      BY <1>2, <3>1, <3>2, <3>4
  <2> QED
    BY <1>1, <2>1 DEF ThreadsAreSound, ThreadIsSound, Launching
<1>7. ChildrenAreSound'
  <2>1. ASSUME NEW x \in Supervisors, NEW g \in Gens, proc'[x][g] \in LivingStates
        PROVE  \/ <<x, g>> \in inJob' /\ sup'[x].job # "closed" /\ sup'[x].made
               \/ proc'[x][g] # "running" /\ Creating(<<x, g>>)'
    <3>0. Creating(<<x, g>>) => Creating(<<x, g>>)'
      BY <1>1 DEF Creating
    <3>1. CASE x = s
      <4>1. <<x, g>> \notin inJob /\ proc'[x][g] = proc[x][g]
        BY <1>3, <2>1, <3>1 DEF LivingStates
      <4> QED
        BY <2>1, <3>0, <4>1 DEF ProcessInv, ChildrenAreSound, ChildIsSound
    <3>2. CASE x # s
      BY <1>2, <1>3, <1>4, <2>1, <3>0, <3>2 DEF ProcessInv, ChildrenAreSound, ChildIsSound
    <3> QED
      BY <3>1, <3>2
  <2> QED
    BY <2>1 DEF ChildrenAreSound, ChildIsSound
<1>8. CallIsSound'
  BY <1>1, <1>2, CallKept DEF ProcessInv
<1>9. LaunchesAreSound'
  BY <1>1, <1>2 DEF ProcessInv, LaunchesAreSound
<1>10. CallerIsSound'
  BY <1>1 DEF ProcessInv, CallerIsSound
<1> QED
  BY <1>5, <1>6, <1>7, <1>8, <1>9, <1>10 DEF ProcessInv

LEMMA ThreadStepKept ==
    ASSUME ProcessInv, NEW t \in Threads, ThreadStep(t)
    PROVE  /\ ProcessInv' /\ UNCHANGED call
           /\ dep'.loop = dep.loop /\ dep'.sup = dep.sup /\ dep'.lost = dep.lost /\ dep'.endpoint = dep.endpoint
           /\ dep.observer = "none" => dep'.observer = "none"
<1>1. CASE Deliver(t)
  <2>1. dep'.sup = dep.sup /\ dep'.endpoint = dep.endpoint
    BY <1>1 DEF Deliver, Invalidated, ProcessInv, Typed, DepRows
  <2> QED
    BY <1>1, <2>1, DeliverKept DEF Deliver
<1>2. CASE ~Deliver(t)
  <2>1. ProcessInv'
    BY <1>2, BeginKept, SuspendKept, AssignKept, ResumeKept, WaitKept, ReadyKept DEF ThreadStep
  <2>2. UNCHANGED <<call, dep>>
    BY <1>2 DEF ThreadStep, BeginAttempt, Suspend, Assign, Resume, Track, BecomeReady, NotReady, Backoff, MonitorExit,
                MonitorRestart
  <2> QED
    BY <2>1, <2>2
<1> QED
  BY <1>1, <1>2

-----------------------------------------------------------------------------
(* The operations that hold actionMu.                                      *)

(* What every step of one keeps for the composition.                       *)
Holding ==
    /\ ProcessInv'
    /\ call.pc # "idle" /\ call'.op = call.op /\ dep'.loop = dep.loop
    /\ dep'.lost # dep.lost => call.op = "start" /\ call.pc = "start" /\ dep.sup # 0
    /\ call'.pc = "start" => dep'.sup = 0

(* A step that moves only the records of the dependency and the operation. *)
LEMMA RecordsKept ==
    ASSUME ProcessInv, UNCHANGED <<conf, sup, proc, inJob, thr>>, dep' \in DepRows, call' \in CallRows, CallIsSound',
           call'.pc = call.pc \/ call.pc # "launching"
    PROVE  ProcessInv'
<1>1. Typed'
  BY DEF ProcessInv, Typed
<1>2. ThreadsAreSound' /\ LaunchesAreSound' /\ CallerIsSound'
  BY DEF ProcessInv, ThreadsAreSound, ThreadIsSound, LaunchesAreSound, CallerIsSound
<1>3. ChildrenAreSound'
  <2>1. \A s \in Supervisors, g \in Gens : Creating(<<s, g>>) = Creating(<<s, g>>)'
    BY DEF Creating
  <2> QED
    BY <2>1 DEF ProcessInv, ChildrenAreSound, ChildIsSound
<1> QED
  BY <1>1, <1>2, <1>3 DEF ProcessInv

LEMMA HealthRowKept ==
    ASSUME NEW d \in DepRows
    PROVE  /\ Unavailable(d) \in DepRows
           /\ Unavailable(d).sup = d.sup /\ Unavailable(d).lost = d.lost /\ Unavailable(d).endpoint = d.endpoint /\ Unavailable(d).loop = d.loop
  BY DEF Unavailable, DepRows, Health

LEMMA MakeKept ==
    ASSUME ProcessInv, MakeSupervisor \/ SupervisorRefused
    PROVE  Holding
<1>1. /\ call.pc = "start" /\ call.op # "close" /\ call \in CallRows /\ dep \in DepRows
      /\ dep.sup = 0 \/ (call.op = "start" /\ dep.lost = 0)
  BY DEF MakeSupervisor, SupervisorRefused, Calling, ProcessInv, Typed, CallIsSound, Stopping
<1>2. UNCHANGED <<conf, proc, inJob, thr>>
  BY DEF MakeSupervisor, SupervisorRefused
<1>3. CASE UNCHANGED sup /\ (dep' = dep \/ dep' = Unavailable(dep)) /\ \E pc \in {"end", "probe"} : call' = [call EXCEPT !.pc = pc]
  <2>1. PICK pc \in {"end", "probe"} : call' = [call EXCEPT !.pc = pc]
    BY <1>3
  <2>2. call' \in CallRows /\ call'.pc = pc /\ call'.op = call.op
    BY <1>1, <2>1 DEF CallRows
  <2>3. /\ dep' \in DepRows /\ dep'.sup = dep.sup /\ dep'.lost = dep.lost
        /\ dep'.endpoint = dep.endpoint /\ dep'.loop = dep.loop
    BY <1>1, <1>3, HealthRowKept
  <2>4. CallIsSound'
    BY <1>1, <1>3, <2>1, <2>2, <2>3 DEF ProcessInv, CallIsSound, Stopping
  <2> QED
    BY <1>1, <1>2, <1>3, <2>2, <2>3, <2>4, RecordsKept DEF Holding
<1>4. CASE \E s \in Supervisors : /\ sup' = [sup EXCEPT ![s].made = TRUE]
                                  /\ dep' = [dep EXCEPT !.sup = s, !.lost = IF dep.sup = 0 THEN dep.lost ELSE dep.sup]
                                  /\ call' = [call EXCEPT !.pc = "probe", !.tries = conf.attempts]
  <2>1. PICK s \in Supervisors :
                /\ sup' = [sup EXCEPT ![s].made = TRUE]
                /\ dep' = [dep EXCEPT !.sup = s, !.lost = IF dep.sup = 0 THEN dep.lost ELSE dep.sup]
                /\ call' = [call EXCEPT !.pc = "probe", !.tries = conf.attempts]
    BY <1>4
  <2>2. call' \in CallRows /\ call'.pc = "probe" /\ call'.op = call.op
    <3>1. conf.attempts \in Nat
      BY RuntimeAssumption DEF ProcessInv, Typed
    <3> QED
      BY <1>1, <2>1, <3>1 DEF CallRows
  <2>l. PICK lost \in Supervisors \cup {0} : lost = IF dep.sup = 0 THEN dep.lost ELSE dep.sup
    BY <1>1 DEF DepRows
  <2>3. dep' \in DepRows /\ dep'.sup = s /\ dep'.lost = lost /\ dep'.endpoint = dep.endpoint /\ dep'.loop = dep.loop
    <3>1. PICK d : d = [dep EXCEPT !.sup = s]
      OBVIOUS
    <3>2. d \in DepRows /\ d.sup = s /\ d.endpoint = dep.endpoint /\ d.loop = dep.loop
      BY <1>1, <3>1 DEF DepRows
    <3>3. dep' = [d EXCEPT !.lost = lost]
      BY <2>1, <2>l, <3>1
    <3> QED
      BY <3>2, <3>3 DEF DepRows
  <2>4. /\ sup' \in [Supervisors -> SupRows]
        /\ \A x \in Supervisors : sup'[x].next = sup[x].next /\ sup'[x].job = sup[x].job
        /\ \A x \in Supervisors \ {s} : sup'[x].made = sup[x].made
        /\ sup'[s].made
    BY <2>1 DEF ProcessInv, Typed, SupRows
  <2>5. Typed'
    BY <1>2, <2>2, <2>3, <2>4 DEF ProcessInv, Typed
  <2>6. Grows
    <3>1. \A x \in Supervisors : sup[x].next <= sup'[x].next
      BY <2>4, BoundsFacts DEF ProcessInv, Typed, SupRows
    <3> QED
      BY <1>2, <2>4, <3>1 DEF Grows
  <2>7. ThreadsAreSound'
    BY <1>2, <2>4, <2>6, ThreadsStay DEF ProcessInv
  <2>8. ChildrenAreSound'
    BY <1>2, <2>4, ChildrenKept DEF ProcessInv
  <2>9. CallIsSound'
    <3>1. ASSUME NEW x \in Supervisors, sup'[x].made, sup'[x].job # "closed" PROVE x \in {dep'.sup, dep'.lost}
      <4>1. CASE x # s
        <5>1. x \in {dep.sup, dep.lost}
          BY <1>1, <2>4, <3>1, <4>1 DEF ProcessInv, CallIsSound, Stopping
        <5> QED
          BY <1>1, <2>l, <2>3, <5>1, BoundsFacts
      <4> QED
        BY <2>3, <4>1
    <3> QED
      BY <1>1, <2>2, <2>3, <2>4, <3>1, BoundsFacts DEF CallIsSound, Stopping
  <2>10. LaunchesAreSound' /\ CallerIsSound'
    BY <1>1, <1>2, <2>2, <2>4 DEF ProcessInv, LaunchesAreSound, CallerIsSound
  <2>11. dep'.lost # dep.lost => dep.sup # 0 /\ call.op = "start"
    BY <1>1, <2>l, <2>3
  <2> QED
    BY <1>1, <2>2, <2>3, <2>5, <2>7, <2>8, <2>9, <2>10, <2>11 DEF Holding, ProcessInv
<1> QED
  BY <1>3, <1>4 DEF MakeSupervisor, SupervisorRefused

(* The steps of a selection and of a probe that move nothing else.         *)
LEMMA ProbeKept ==
    ASSUME ProcessInv, ProbeExternal \/ ObserveSelected \/ Started \/ ProbeHealth \/ CacheHealth \/ SetHealth
    PROVE  Holding
<1>1. /\ call.pc \in {"probe", "observe", "started", "reprobe", "probing", "cached"} /\ call.op # "close"
      /\ call \in CallRows /\ dep \in DepRows
  BY DEF ProbeExternal, ObserveSelected, Started, ProbeHealth, CacheHealth, SetHealth, Calling, ProcessInv,
         Typed, CallIsSound, Stopping
<1>2. UNCHANGED <<conf, sup, proc, inJob, thr>>
  BY DEF ProbeExternal, ObserveSelected, Started, ProbeHealth, CacheHealth, SetHealth
<1>3. /\ call' \in CallRows /\ call'.op = call.op
      /\ call'.pc \in {"observe", "unselected", "started", "end", "probing", "cached"}
                  \cup (IF dep.sup # 0 THEN {"candidate"} ELSE {})
  <2>1. CASE ProbeExternal
    <3>1. CASE call' = [call EXCEPT !.pc = "observe", !.s = 0, !.owned = 1]
      BY <1>1, <3>1 DEF CallRows
    <3>2. CASE call' = [call EXCEPT !.pc = IF dep.sup = 0 THEN "unselected" ELSE "candidate"]
      <4>1. CASE dep.sup = 0
        BY <1>1, <3>2, <4>1 DEF CallRows
      <4>2. CASE dep.sup # 0
        BY <1>1, <3>2, <4>2 DEF CallRows
      <4> QED
        BY <4>1, <4>2
    <3> QED
      BY <2>1, <3>1, <3>2 DEF ProbeExternal
  <2>2. CASE ObserveSelected
    <3>1. PICK h \in {"healthy", "unavailable"} : call' = [call EXCEPT !.pc = "started", !.health = h]
      BY <2>2 DEF ObserveSelected
    <3> QED
      BY <1>1, <3>1 DEF CallRows, Health
  <2>3. CASE Started \/ SetHealth
    BY <1>1, <2>3 DEF Started, SetHealth, CallRows
  <2>4. CASE ProbeHealth
    <3>1. PICK pc \in {"end", "probing"} : pc = IF call.op = "poll" /\ dep.observer = "fresh" THEN "end" ELSE "probing"
      OBVIOUS
    <3>2. call' = [call EXCEPT !.pc = pc]
      BY <2>4, <3>1 DEF ProbeHealth
    <3> QED
      BY <1>1, <3>1, <3>2 DEF CallRows
  <2>5. CASE CacheHealth
    <3>1. PICK h \in {"healthy", "unavailable"} : call' = [call EXCEPT !.pc = "cached", !.health = h]
      BY <2>5 DEF CacheHealth
    <3> QED
      BY <1>1, <3>1 DEF CallRows, Health
  <2> QED
    BY <2>1, <2>2, <2>3, <2>4, <2>5
<1>4. dep' \in DepRows /\ dep'.sup = dep.sup /\ dep'.lost = dep.lost /\ dep'.loop = dep.loop
  <2>1. CASE ProbeExternal \/ ObserveSelected
    BY <1>1, <2>1 DEF ProbeExternal, ObserveSelected
  <2>2. CASE Started
    <3>1. <<call.s, call.owned>> \in (Supervisors \cup {0}) \X Nat /\ call.health \in Health
      BY <1>1 DEF CallRows
    <3>2. PICK d : d = [dep EXCEPT !.observer = "fresh", !.invalid = FALSE]
      OBVIOUS
    <3>3. d \in DepRows /\ d.sup = dep.sup /\ d.lost = dep.lost /\ d.loop = dep.loop
      BY <1>1, <3>2 DEF DepRows
    <3>4. PICK e : e = [d EXCEPT !.endpoint = <<call.s, call.owned>>]
      OBVIOUS
    <3>5. e \in DepRows /\ e.sup = dep.sup /\ e.lost = dep.lost /\ e.loop = dep.loop
      BY <3>1, <3>3, <3>4 DEF DepRows
    <3>6. dep' = [e EXCEPT !.health = call.health]
      BY <2>2, <3>2, <3>4 DEF Started
    <3> QED
      BY <3>1, <3>5, <3>6 DEF DepRows
  <2>3. CASE ProbeHealth \/ CacheHealth
    <3>1. PICK o \in {"none", "fresh", "stale"} : dep' = [dep EXCEPT !.invalid = FALSE, !.observer = o]
      <4>1. dep.observer \in {"none", "fresh", "stale"}
        BY <1>1 DEF DepRows
      <4>2. CASE ProbeHealth
        <5>1. PICK o : o = IF call.op = "reprobe" THEN "stale" ELSE dep.observer
          OBVIOUS
        <5>2. dep' = [dep EXCEPT !.invalid = FALSE, !.observer = o]
          BY <4>2, <5>1 DEF ProbeHealth
        <5> QED
          BY <4>1, <5>1, <5>2
      <4>3. CASE CacheHealth
        <5>1. PICK o : o = IF dep.invalid THEN "stale" ELSE "fresh"
          OBVIOUS
        <5>2. dep' = [dep EXCEPT !.observer = o, !.invalid = FALSE]
          BY <4>3, <5>1 DEF CacheHealth
        <5>3. dep' = [dep EXCEPT !.invalid = FALSE, !.observer = o]
          BY <1>1, <5>2 DEF DepRows
        <5> QED
          BY <5>1, <5>3
      <4> QED
        BY <2>3, <4>2, <4>3
    <3> QED
      BY <1>1, <3>1 DEF DepRows
  <2>4. CASE SetHealth
    <3>1. call.health \in Health
      BY <1>1 DEF CallRows
    <3> QED
      BY <1>1, <2>4, <3>1 DEF SetHealth, DepRows
  <2> QED
    BY <2>1, <2>2, <2>3, <2>4
<1>5. CallIsSound'
  BY <1>1, <1>2, <1>3, <1>4 DEF ProcessInv, CallIsSound, Stopping
<1> QED
  BY <1>1, <1>2, <1>3, <1>4, <1>5, RecordsKept DEF Holding

(* The candidates of a selection: the caller's thread launches a child.    *)
LEMMA CandidateKept ==
    ASSUME ProcessInv, TryCandidate \/ Candidate
    PROVE  Holding
<1>1. /\ call.pc \in {"candidate", "launching"} /\ call.op # "close"
      /\ call \in CallRows /\ dep \in DepRows /\ dep.sup \in Supervisors /\ sup[dep.sup].made
  BY DEF TryCandidate, Candidate, Calling, ProcessInv, Typed, CallIsSound, Stopping, DepRows
<1>2. UNCHANGED <<conf, sup, inJob, dep>> /\ sup' \in [Supervisors -> SupRows]
  BY DEF TryCandidate, Candidate, ProcessInv, Typed
<1>t. NoThread \in ThrRows /\ NoThread.pc = "idle" /\ Caller \in Threads
  BY BoundsFacts DEF NoThread, ThrRows, ThreadPC
<1>3. call' \in CallRows /\ call'.op = call.op /\ call'.pc \in {"unselected", "candidate", "launching", "observe"}
  <2>1. CASE TryCandidate
    <3>1. CASE call' = [call EXCEPT !.pc = "unselected"]
      BY <1>1, <3>1 DEF CallRows
    <3>2. CASE call.tries # 0
      <4>1. call.tries - 1 \in Nat
        BY <1>1, <3>2 DEF CallRows
      <4>2. CASE call' = [call EXCEPT !.pc = "launching", !.tries = call.tries - 1]
        BY <1>1, <4>1, <4>2 DEF CallRows
      <4>3. CASE call' = [call EXCEPT !.tries = call.tries - 1]
        BY <1>1, <4>1, <4>3 DEF CallRows
      <4> QED
        BY <2>1, <3>2, <4>2, <4>3 DEF TryCandidate
    <3> QED
      BY <2>1, <3>1, <3>2 DEF TryCandidate
  <2>2. CASE Candidate
    <3>1. thr[Caller] \in ThrRows
      BY <1>t DEF ProcessInv, Typed
    <3>2. thr[Caller].s \in Supervisors \cup {0} /\ thr[Caller].g \in Nat
      BY <3>1, BoundsFacts DEF ThrRows
    <3>3. CASE call' = [call EXCEPT !.pc = "observe", !.s = thr[Caller].s, !.owned = thr[Caller].g]
      BY <1>1, <3>2, <3>3 DEF CallRows
    <3>4. CASE call' = [call EXCEPT !.pc = "candidate"]
      BY <1>1, <3>4 DEF CallRows
    <3> QED
      BY <2>2, <3>3, <3>4 DEF Candidate
  <2> QED
    BY <2>1, <2>2
<1>4. proc' = proc \/ \E s \in Supervisors : \E g : proc' = [proc EXCEPT ![s][g] = "dead"]
  <2>1. CASE TryCandidate
    BY <2>1 DEF TryCandidate
  <2>2. CASE Candidate
    <3>1. thr[Caller].s \in Supervisors
      BY <1>t, <2>2 DEF Candidate, ProcessInv, ThreadsAreSound, ThreadIsSound
    <3> QED
      BY <2>2, <3>1 DEF Candidate
  <2> QED
    BY <2>1, <2>2
<1>5. thr' = thr \/ (\E r \in ThrRows : /\ thr' = [thr EXCEPT ![Caller] = r]
                                        /\ r.pc = "idle" \/ (r.pc = "begin" /\ r.s = dep.sup))
  <2>1. CASE TryCandidate
    <3>1. PICK r : r = [NoThread EXCEPT !.pc = "begin", !.s = dep.sup]
      OBVIOUS
    <3>2. r \in ThrRows /\ r.pc = "begin" /\ r.s = dep.sup
      BY <1>1, <1>t, <3>1, BoundsFacts DEF NoThread, ThrRows, ThreadPC
    <3>3. thr' = thr \/ thr' = [thr EXCEPT ![Caller] = r]
      BY <2>1, <3>1 DEF TryCandidate
    <3> QED
      BY <3>2, <3>3
  <2>2. CASE Candidate
    BY <1>t, <2>2 DEF Candidate
  <2> QED
    BY <2>1, <2>2
<1>6. /\ thr' \in [Threads -> ThrRows]
      /\ \A t \in Threads \ {Caller} : thr'[t] = thr[t]
      /\ \/ thr'[Caller] = thr[Caller]
         \/ thr'[Caller].pc = "idle"
         \/ thr'[Caller].pc = "begin" /\ thr'[Caller].s = dep.sup
  BY <1>5, <1>t DEF ProcessInv, Typed
<1>7. /\ proc' \in [Supervisors -> [Gens -> {"none", "started", "suspended", "running", "dead"}]]
      /\ \A s \in Supervisors : \A g \in Gens : proc'[s][g] = proc[s][g] \/ proc'[s][g] = "dead"
  <2>1. proc' \in [Supervisors -> [Gens -> {"none", "started", "suspended", "running", "dead"}]]
    BY <1>4 DEF ProcessInv, Typed
  <2>2. \A s \in Supervisors : \A g \in Gens : proc'[s][g] = proc[s][g] \/ proc'[s][g] = "dead"
    BY <1>4 DEF ProcessInv, Typed
  <2> QED
    BY <2>1, <2>2
<1>8. Typed'
  BY <1>2, <1>3, <1>6, <1>7 DEF ProcessInv, Typed
<1>9. Grows
  <2>1. \A s \in Supervisors : \A g \in 1..sup[s].next : g \in Gens
    BY BoundsFacts DEF ProcessInv, Typed, SupRows, Gens
  <2>2. \A s \in Supervisors : sup[s].next <= sup[s].next
    BY BoundsFacts DEF ProcessInv, Typed, SupRows
  <2> QED
    BY <1>2, <1>7, <2>1, <2>2 DEF Grows
<1>10. ThreadsAreSound'
  <2>1. ASSUME NEW t \in Threads PROVE ThreadIsSound(t)'
    <3>1. CASE thr'[t] = thr[t]
      BY <3>1, <1>2, <1>9, ThreadStays DEF ProcessInv, ThreadsAreSound
    <3>2. CASE t = Caller /\ (thr'[t].pc = "idle" \/ (thr'[t].pc = "begin" /\ thr'[t].s = dep.sup))
      BY <3>2, <1>1, <1>2 DEF ThreadIsSound, Launching
    <3> QED
      BY <1>6, <3>1, <3>2
  <2> QED
    BY <2>1 DEF ThreadsAreSound
<1>11. ChildrenAreSound'
  <2>1. thr' = thr \/ thr[Caller].pc \in {"idle", "returned", "failed"}
    BY DEF TryCandidate, Candidate, Calling, ProcessInv, CallerIsSound
  <2>2. \A u \in Threads : thr'[u] = thr[u] \/ thr[u].pc \notin {"created", "assign"}
    BY <1>6, <2>1
  <2> QED
    BY <1>2, <1>7, <2>2, ChildrenKept DEF ProcessInv
<1>12. CallIsSound'
  BY <1>1, <1>2, <1>3, BoundsFacts DEF ProcessInv, CallIsSound, Stopping
<1>13. LaunchesAreSound'
  <2>1. \A s \in Supervisors : sup[s].next \in Nat /\ sup'[s].next \in Nat /\ sup[s].next <= sup'[s].next
    BY <1>2, BoundsFacts DEF ProcessInv, Typed, SupRows
  <2>2. thr'[Caller].pc \in Launching => thr'[Caller] = thr[Caller]
    BY <1>6 DEF Launching
  <2> QED
    BY <1>t, <1>6, <2>1, <2>2, LaunchesKept DEF ProcessInv
<1>14. CallerIsSound'
  <2>1. CASE TryCandidate
    <3>1. thr[Caller].pc = "idle"
      BY <2>1 DEF TryCandidate, Calling, ProcessInv, CallerIsSound
    <3>2. UNCHANGED thr \/ call' = [call EXCEPT !.pc = "launching", !.tries = call.tries - 1]
      BY <2>1 DEF TryCandidate
    <3> QED
      BY <1>1, <3>1, <3>2 DEF CallerIsSound, CallRows
  <2>2. CASE Candidate
    BY <1>t, <2>2 DEF Candidate, CallerIsSound, ProcessInv, Typed
  <2> QED
    BY <2>1, <2>2
<1> QED
  BY <1>1, <1>2, <1>3, <1>8, <1>10, <1>11, <1>12, <1>13, <1>14 DEF Holding, ProcessInv

(* The dependency gives its supervisor up, and stops it.                   *)
LEMMA GiveUpKept ==
    ASSUME ProcessInv, Unselected \/ CloseDependency
    PROVE  Holding
<1>1. /\ call.pc \in {"unselected", "close"} /\ (call.op = "close" => call.pc = "close")
      /\ call \in CallRows /\ dep \in DepRows
  BY DEF Unselected, CloseDependency, Calling, ProcessInv, Typed, CallIsSound, Stopping
<1>2. UNCHANGED <<conf, sup, proc, inJob, thr>>
  BY DEF Unselected, CloseDependency
<1>3. /\ dep' \in DepRows /\ dep'.sup = 0 /\ dep'.lost = dep.lost /\ dep'.loop = dep.loop
      /\ call.pc = "close" => dep'.endpoint = Nobody
  <2>1. CASE Unselected
    <3>1. PICK d : d = [dep EXCEPT !.sup = 0]
      OBVIOUS
    <3>2. d \in DepRows /\ d.sup = 0 /\ d.lost = dep.lost /\ d.loop = dep.loop
      BY <1>1, <3>1 DEF DepRows
    <3>3. dep' = Unavailable(d)
      BY <2>1, <3>1 DEF Unselected
    <3>4. call.pc # "close"
      BY <2>1 DEF Unselected, Calling
    <3> QED
      BY <3>2, <3>3, <3>4, HealthRowKept
  <2>2. CASE CloseDependency
    <3>1. Nobody \in (Supervisors \cup {0}) \X Nat
      BY DEF Nobody
    <3>2. PICK d : d = [dep EXCEPT !.sup = 0, !.observer = "none"]
      OBVIOUS
    <3>3. d \in DepRows /\ d.sup = 0 /\ d.lost = dep.lost /\ d.loop = dep.loop
      BY <1>1, <3>2 DEF DepRows
    <3>4. dep' = [d EXCEPT !.endpoint = Nobody]
      BY <2>2, <3>2 DEF CloseDependency
    <3> QED
      BY <3>1, <3>3, <3>4 DEF DepRows
  <2> QED
    BY <2>1, <2>2
<1>4. /\ call' \in CallRows /\ call'.op = call.op
      /\ dep.sup = 0 => call'.pc \in {"start", "end"} /\ (call.op = "close" => call'.pc = "end")
      /\ dep.sup # 0 => call'.pc = "stop" /\ call'.s = dep.sup
  <2>1. CASE dep.sup = 0
    <3>1. AfterClose \in {"start", "end"} /\ (call.op = "close" => AfterClose = "end")
      BY DEF AfterClose
    <3>2. PICK pc \in {"start", "end"} : call' = [call EXCEPT !.pc = pc] /\ (call.op = "close" => pc = "end")
      <4>1. CASE Unselected
        BY <2>1, <4>1 DEF Unselected
      <4>2. CASE CloseDependency
        BY <2>1, <3>1, <4>2 DEF CloseDependency
      <4> QED
        BY <4>1, <4>2
    <3> QED
      BY <1>1, <2>1, <3>2 DEF CallRows
  <2>2. CASE dep.sup # 0
    <3>1. dep.sup \in Supervisors \cup {0}
      BY <1>1 DEF DepRows
    <3>2. PICK c : c = [call EXCEPT !.pc = "stop"]
      OBVIOUS
    <3>3. c \in CallRows /\ c.op = call.op /\ c.pc = "stop"
      BY <1>1, <3>2 DEF CallRows
    <3>4. PICK d : d = [c EXCEPT !.s = dep.sup]
      OBVIOUS
    <3>5. d \in CallRows /\ d.op = call.op /\ d.pc = "stop" /\ d.s = dep.sup
      BY <3>1, <3>3, <3>4 DEF CallRows
    <3>6. call' = d \/ call' = [d EXCEPT !.next = "end"]
      BY <2>2, <3>2, <3>4 DEF Unselected, CloseDependency
    <3> QED
      BY <2>2, <3>5, <3>6 DEF CallRows
  <2> QED
    BY <2>1, <2>2
<1>5. CallIsSound'
  BY <1>1, <1>2, <1>3, <1>4 DEF ProcessInv, CallIsSound, Stopping
<1> QED
  BY <1>1, <1>2, <1>3, <1>4, <1>5, RecordsKept DEF Holding

(* Supervisor.Stop.                                                        *)
LEMMA StopKept ==
    ASSUME ProcessInv, StopCancel \/ StopCloseJob \/ StopDone
    PROVE  Holding
<1>1. /\ call.pc \in Stopping /\ dep.sup = 0 /\ call \in CallRows /\ call.s \in Supervisors
      /\ call.op = "close" => dep.endpoint = Nobody
  BY DEF StopCancel, StopCloseJob, StopDone, Calling, ProcessInv, Typed, CallIsSound, Stopping, CallRows
<1>2. UNCHANGED <<conf, proc, inJob, thr, dep>>
  BY DEF StopCancel, StopCloseJob, StopDone
<1>3. PICK s \in Supervisors : s = call.s
  BY <1>1
<1>4. PICK old \in SupRows : old = sup[s]
  BY DEF ProcessInv, Typed
<1>n. old.current \in Nat /\ old.next \in Nat
  BY BoundsFacts DEF SupRows
<1>5. PICK u \in SupRows : /\ sup' = [sup EXCEPT ![s] = u]
                           /\ u.made = old.made /\ u.next = old.next
                           /\ u.job = (IF StopCloseJob THEN "closing" ELSE old.job)
  <2>1. CASE StopCancel
    <3>1. PICK u : u = [old EXCEPT !.live = FALSE]
      OBVIOUS
    <3>2. u \in SupRows /\ u.made = old.made /\ u.next = old.next /\ u.job = old.job
      BY <3>1 DEF SupRows
    <3>3. sup' = [sup EXCEPT ![s] = u]
      BY <1>3, <1>4, <2>1, <3>1 DEF StopCancel
    <3>4. ~StopCloseJob
      BY <2>1 DEF StopCancel, StopCloseJob, Calling
    <3> QED
      BY <3>2, <3>3, <3>4
  <2>2. CASE StopCloseJob
    <3>1. PICK u : u = [old EXCEPT !.job = "closing"]
      OBVIOUS
    <3>2. u \in SupRows /\ u.made = old.made /\ u.next = old.next /\ u.job = "closing"
      BY <3>1 DEF SupRows
    <3>3. sup' = [sup EXCEPT ![s] = u]
      BY <1>3, <1>4, <2>2, <3>1 DEF StopCloseJob
    <3> QED
      BY <2>2, <3>2, <3>3
  <2>3. CASE StopDone
    <3>1. PICK u : u = IF call.owned = 0 THEN old ELSE ClearCurrent(old, call.owned)
      OBVIOUS
    <3>2. u \in SupRows /\ u.made = old.made /\ u.next = old.next /\ u.job = old.job
      BY <3>1, ClearCurrentTyped
    <3>3. sup' = [sup EXCEPT ![s] = u]
      BY <1>3, <1>4, <2>3, <3>1 DEF StopDone
    <3>4. ~StopCloseJob
      BY <2>3 DEF StopDone, StopCloseJob, Calling
    <3> QED
      BY <3>2, <3>3, <3>4
  <2> QED
    BY <2>1, <2>2, <2>3
<1>6. /\ sup' \in [Supervisors -> SupRows]
      /\ \A x \in Supervisors : sup'[x].made = sup[x].made /\ sup'[x].next = sup[x].next
      /\ \A x \in Supervisors \ {s} : sup'[x].job = sup[x].job
      /\ sup'[s].job = u.job
      /\ sup[s].job # "closed" => sup'[s].job # "closed"
  BY <1>4, <1>5 DEF ProcessInv, Typed
<1>7. /\ call' \in CallRows /\ call'.op = call.op
      /\ \/ call'.pc \in {"closeJob", "closing"} /\ call'.s = s
         \/ call'.pc \in {"start", "end"} /\ (call.op = "close" => call'.pc = "end") /\ sup[s].job = "closed" /\ ~StopCloseJob
  <2>1. CASE StopCancel
    <3>1. call' = [call EXCEPT !.pc = "closeJob", !.owned = old.current]
      BY <1>3, <1>4, <2>1 DEF StopCancel
    <3> QED
      BY <1>1, <1>3, <1>n, <3>1 DEF CallRows
  <2>2. CASE StopCloseJob
    BY <1>1, <1>3, <2>2 DEF StopCloseJob, CallRows
  <2>3. CASE StopDone
    <3>1. AfterClose \in {"start", "end"} /\ (call.op = "close" => AfterClose = "end")
      BY DEF AfterClose
    <3>2. PICK pc \in {"start", "end"} : pc = AfterClose
      BY <3>1
    <3>3. call' = [call EXCEPT !.pc = pc, !.next = "end"]
      BY <2>3, <3>2 DEF StopDone
    <3>4. call' \in CallRows /\ call'.op = call.op /\ call'.pc = pc
      BY <1>1, <3>3 DEF CallRows
    <3>5. sup[s].job = "closed" /\ ~StopCloseJob
      BY <1>3, <2>3 DEF StopDone, StopCloseJob, Calling
    <3> QED
      BY <3>1, <3>2, <3>4, <3>5
  <2> QED
    BY <2>1, <2>2, <2>3
<1>8. Typed'
  BY <1>2, <1>6, <1>7 DEF ProcessInv, Typed
<1>9. Grows
  <2>1. \A x \in Supervisors : sup[x].next <= sup'[x].next
    BY <1>6, BoundsFacts DEF ProcessInv, Typed, SupRows
  <2> QED
    BY <1>2, <1>6, <2>1 DEF Grows
<1>10. ThreadsAreSound'
  BY <1>2, <1>6, <1>9, ThreadsStay DEF ProcessInv
<1>11. ChildrenAreSound'
  <2>1. \A x \in Supervisors : /\ sup[x].made => sup'[x].made
                               /\ sup[x].job # "closed" => sup'[x].job # "closed"
    BY <1>6
  <2> QED
    BY <1>2, <2>1, ChildrenKept DEF ProcessInv
<1>12. CallIsSound'
  <2>1. ASSUME NEW x \in Supervisors, sup'[x].made, sup'[x].job # "closed"
        PROVE  x \in {dep'.sup, dep'.lost} \/ (call'.pc \in Stopping /\ call'.s = x)
    <3>1. CASE x = s
      <4>1. call'.pc \in {"closeJob", "closing"} /\ call'.s = s
        BY <1>4, <1>5, <1>6, <1>7, <2>1, <3>1
      <4> QED
        BY <3>1, <4>1 DEF Stopping
    <3>2. CASE x # s
      BY <1>1, <1>2, <1>3, <1>6, <2>1, <3>2, BoundsFacts DEF ProcessInv, CallIsSound
    <3> QED
      BY <3>1, <3>2
  <2>2. call'.pc \in Stopping => call'.s # 0
    BY <1>7, BoundsFacts DEF Stopping
  <2>3. call'.op = "close" => call'.pc \in {"close", "end"} \cup Stopping
    BY <1>7 DEF Stopping
  <2>4. call'.pc \notin {"candidate", "launching"}
    BY <1>7
  <2> QED
    BY <1>1, <1>2, <1>7, <2>1, <2>2, <2>3, <2>4 DEF CallIsSound
<1>13. LaunchesAreSound' /\ CallerIsSound'
  BY <1>1, <1>2, <1>6 DEF ProcessInv, LaunchesAreSound, CallerIsSound, Stopping
<1> QED
  BY <1>1, <1>2, <1>7, <1>8, <1>10, <1>11, <1>12, <1>13 DEF Holding, ProcessInv, Stopping

LEMMA CallStepKept ==
    ASSUME ProcessInv, CallStep
    PROVE  Holding
  BY MakeKept, ProbeKept, CandidateKept, GiveUpKept, StopKept DEF CallStep

LEMMA ExpiresKept ==
    ASSUME ProcessInv, HealthExpires
    PROVE  /\ ProcessInv' /\ UNCHANGED call
           /\ dep'.loop = dep.loop /\ dep'.sup = dep.sup /\ dep'.lost = dep.lost /\ dep'.endpoint = dep.endpoint
           /\ dep.observer = "none" => dep'.observer = "none"
<1>1. /\ dep' \in DepRows /\ dep'.sup = dep.sup /\ dep'.lost = dep.lost /\ dep'.endpoint = dep.endpoint /\ dep'.loop = dep.loop
      /\ dep.observer = "fresh"
  BY DEF HealthExpires, ProcessInv, Typed, DepRows
<1>2. CallIsSound'
  BY <1>1, CallKept DEF HealthExpires, ProcessInv
<1> QED
  BY <1>1, <1>2, RecordsKept DEF HealthExpires, ProcessInv, Typed

-----------------------------------------------------------------------------
(* The composition: the process steps, and the calls the rest makes.       *)

LEMMA IdleFacts == Idle \in CallRows /\ Idle.pc = "idle" /\ Idle.op = "none"
  BY DEF Idle, CallRows, Health

LEMMA ProcessStepKept ==
    ASSUME IInv, ProcessNext
    PROVE  IInv'
<1>1. /\ ProcessInv' /\ UNCHANGED lifeVars /\ call'.op = call.op /\ dep'.loop = dep.loop
      /\ dep'.lost # dep.lost => call.op = "start" /\ call.pc = "start" /\ dep.sup # 0
      /\ call'.pc = "start" => dep'.sup = 0 \/ (call.pc = "start" /\ dep'.sup = dep.sup)
      /\ call = Idle => /\ call' = Idle /\ dep'.sup = dep.sup /\ dep'.endpoint = dep.endpoint
                        /\ dep.observer = "none" => dep'.observer = "none"
  <2>1. ASSUME NEW t \in Threads, ThreadStep(t)
        PROVE  /\ ProcessInv' /\ UNCHANGED call
               /\ dep'.loop = dep.loop /\ dep'.sup = dep.sup /\ dep'.lost = dep.lost /\ dep'.endpoint = dep.endpoint
               /\ dep.observer = "none" => dep'.observer = "none"
    BY <2>1, ThreadStepKept DEF IInv
  <2>2. ASSUME NEW s \in Supervisors, CloseJob(s) \/ \E g \in Gens : ChildExits(s, g)
        PROVE  ProcessInv' /\ UNCHANGED <<call, dep>>
    <3>1. CASE CloseJob(s)
      BY <3>1, CloseJobKept DEF IInv, CloseJob
    <3>2. ASSUME NEW g \in Gens, ChildExits(s, g) PROVE ProcessInv' /\ UNCHANGED <<call, dep>>
      BY <3>2, ChildExitsKept DEF IInv, ChildExits
    <3> QED
      BY <2>2, <3>1, <3>2
  <2>3. CASE CallStep
    BY <2>3, CallStepKept, IdleFacts DEF IInv, Holding, ProcessNext
  <2>4. CASE HealthExpires
    BY <2>4, ExpiresKept DEF IInv, ProcessNext
  <2> QED
    BY <2>1, <2>2, <2>3, <2>4 DEF ProcessNext
<1>2. StartupIsSound'
  <2>1. UNCHANGED <<phase, boot, host, closing, asked, ref>>
    BY <1>1 DEF lifeVars
  <2>2. boot \in Unstarted => dep'.lost = 0 /\ ~dep'.loop /\ call'.op # "start"
    BY <1>1 DEF IInv, StartupIsSound
  <2>3. boot \in Unstarted /\ asked = 0 => dep'.sup = 0 /\ call' = Idle
    BY <1>1 DEF IInv, StartupIsSound
  <2>4. asked = 0 => dep'.lost = 0 /\ (call'.pc = "start" => dep'.sup = 0)
    BY <1>1 DEF IInv, StartupIsSound
  <2> QED
    BY <2>1, <2>2, <2>3, <2>4 DEF IInv, StartupIsSound
<1>3. CloseIsSound'
  BY <1>1 DEF IInv, CloseIsSound, lifeVars
<1> QED
  BY <1>1, <1>2, <1>3 DEF IInv

LEMMA ProcessStays ==
    ASSUME ProcessInv, UNCHANGED <<conf, sup, proc, inJob, thr, dep, call>>
    PROVE  ProcessInv'
<1>1. CallIsSound'
  BY DEF ProcessInv, CallIsSound
<1> QED
  BY <1>1, RecordsKept DEF ProcessInv, Typed

(* actionMu is taken, ...                                                  *)
LEMMA EnterKept ==
    ASSUME ProcessInv, call = Idle, UNCHANGED <<conf, sup, proc, inJob, thr>>,
           call' \in CallRows, call'.pc \in {"start", "close", "reprobe"},
           call'.pc = "start" => dep.sup = 0 \/ (call'.op = "start" /\ dep.lost = 0), call'.op = "close" => call'.pc = "close",
           dep' \in DepRows, dep'.sup = dep.sup, dep'.lost = dep.lost
    PROVE  ProcessInv'
<1>1. CallIsSound'
  BY IdleFacts DEF ProcessInv, CallIsSound, Stopping
<1> QED
  BY <1>1, IdleFacts, RecordsKept

(* ... and released.                                                       *)
LEMMA FinishKept ==
    ASSUME ProcessInv, NEW o, Finish(o)
    PROVE  /\ ProcessInv' /\ UNCHANGED dep /\ call' = Idle /\ call.op = o /\ call.pc = "end"
           /\ o = "close" => dep.sup = 0 /\ dep.endpoint = Nobody
<1>1. call' = Idle /\ call.op = o /\ call.pc = "end" /\ UNCHANGED <<conf, sup, proc, inJob, thr, dep>>
  BY DEF Finish
<1>2. CallIsSound'
  BY <1>1, IdleFacts DEF ProcessInv, CallIsSound, Stopping
<1>3. ProcessInv'
  BY <1>1, <1>2, IdleFacts, RecordsKept DEF ProcessInv, Typed
<1> QED
  BY <1>1, <1>3 DEF ProcessInv, CallIsSound

LEMMA LoopRowKept ==
    ASSUME dep \in DepRows, NEW b \in BOOLEAN, dep' = [dep EXCEPT !.loop = b]
    PROVE  /\ dep' \in DepRows /\ dep'.sup = dep.sup /\ dep'.lost = dep.lost /\ dep'.endpoint = dep.endpoint
           /\ dep'.observer = dep.observer /\ dep'.loop = b
  BY DEF DepRows

(* The transitions of the status store that the phases rest on.            *)
LEMMA TransitionFacts ==
    ASSUME NEW to, Transition(to), phase # "stopped"
    PROVE  /\ phase' \in {phase, to}
           /\ to = "stopping" => phase' = "stopping"
           /\ phase = "stopping" /\ to = "stopped" => phase' = "stopped"
           /\ phase = "stopping" /\ to \in Serving => phase' = "stopping"
<1>1. \A i \in 1..6 : StartupOrder[i] # "stopping"
  BY DEF StartupOrder
<1>2. CanTransition(phase, "stopping") /\ CanTransition("stopping", "stopped")
  BY DEF CanTransition
<1>3. \A x \in Serving : ~CanTransition("stopping", x)
  BY <1>1 DEF CanTransition, Serving
<1> QED
  BY <1>2, <1>3 DEF Transition

LEMMA OrderFacts ==
    /\ DOMAIN Order = 1..6 /\ Len(Order) = 6
    /\ Order[1] = "host" /\ Order[2] = "recovery" /\ Order[3] = "boundaries" /\ Order[4] = "workers"
    /\ Order[5] = "dependencies" /\ Order[6] = "projects"
    /\ Ops = {"host", "recovery", "boundaries", "workers", "dependencies", "projects"}
<1>1. /\ DOMAIN Order = 1..6 /\ Len(Order) = 6
      /\ Order[1] = "host" /\ Order[2] = "recovery" /\ Order[3] = "boundaries" /\ Order[4] = "workers"
      /\ Order[5] = "dependencies" /\ Order[6] = "projects"
  BY DEF Order
<1>2. Ops = {Order[1], Order[2], Order[3], Order[4], Order[5], Order[6]}
  BY <1>1 DEF Ops
<1> QED
  BY <1>1, <1>2

-----------------------------------------------------------------------------
(* The startup.                                                            *)

LEMMA AbortFacts ==
    ASSUME Abort, phase # "stopped"
    PROVE  phase' = "stopping" /\ boot' \in {"abort", "abortHost"}
  BY TransitionFacts DEF Abort

(* The steps that leave the process and its dependency alone.              *)
(* Nothing of Process.Close has begun.                                     *)
LEMMA UnbegunKept ==
    ASSUME CloseIsSound, closing = 0, UNCHANGED <<closing, op>>
    PROVE  CloseIsSound'
<1>1. /\ op["host"] = "idle" /\ op["recovery"] = "idle" /\ op["boundaries"] = "idle"
      /\ op["workers"] = "idle" /\ op["dependencies"] = "idle" /\ op["projects"] = "idle"
  BY DEF CloseIsSound
<1> QED
  BY <1>1 DEF CloseIsSound

LEMMA BootKept ==
    ASSUME IInv, phase # "stopped",
           LoadSettings \/ VerifyPackage \/ BindHost \/ Recover \/ OpenRecentProject \/ Converge \/ AbortHost
    PROVE  IInv'
<1>1. UNCHANGED <<processVars, depsOn, closing, op, http, asked, lp, ref>>
  BY DEF LoadSettings, VerifyPackage, BindHost, Recover, OpenRecentProject, Converge, AbortHost
<1>2. ProcessInv'
  BY <1>1, ProcessStays DEF IInv, processVars
<1>3. /\ boot \in {"settings", "package", "bind", "recover", "project", "converge", "abortHost"} /\ closing = 0
      /\ phase \notin Serving
  BY DEF LoadSettings, VerifyPackage, BindHost, Recover, OpenRecentProject, Converge, AbortHost, Boot,
         IInv, StartupIsSound, CloseIsSound
<1>4. CloseIsSound'
  BY <1>1, <1>3, UnbegunKept DEF IInv
<1>5. UNCHANGED <<call, dep, ref, asked>>
  BY <1>1 DEF processVars
<1>6. StartupIsSound'
  <2>1. CASE LoadSettings
    <3>1. boot = "settings" /\ UNCHANGED host
      BY <2>1 DEF LoadSettings, Boot
    <3>2. \/ boot' = "package" /\ phase' \in {phase, "verifying_package"}
          \/ boot' \in {"abort", "abortHost"} /\ phase' = "stopping"
      BY <2>1, TransitionFacts, AbortFacts DEF LoadSettings
    <3> QED
      BY <1>3, <1>5, <3>1, <3>2 DEF IInv, StartupIsSound, Unstarted, Hosting, Aborting, Serving
  <2>2. CASE VerifyPackage
    <3>1. boot = "package" /\ UNCHANGED host
      BY <2>2 DEF VerifyPackage, Boot
    <3>2. \/ boot' = "bind" /\ phase' \in {phase, "binding_http"}
          \/ boot' \in {"abort", "abortHost"} /\ phase' = "stopping"
      BY <2>2, TransitionFacts, AbortFacts DEF VerifyPackage
    <3> QED
      BY <1>3, <1>5, <3>1, <3>2 DEF IInv, StartupIsSound, Unstarted, Hosting, Aborting, Serving
  <2>3. CASE BindHost
    <3>1. boot = "bind"
      BY <2>3 DEF BindHost, Boot
    <3>2. \/ boot' = "dependencies" /\ phase' \in {phase, "starting_dependencies"} /\ host'
          \/ boot' \in {"abort", "abortHost"} /\ phase' = "stopping"
      BY <2>3, TransitionFacts, AbortFacts DEF BindHost
    <3> QED
      BY <1>3, <1>5, <3>1, <3>2 DEF IInv, StartupIsSound, Unstarted, Hosting, Aborting, Serving
  <2>4. CASE Recover
    <3>1. boot = "recover" /\ UNCHANGED host
      BY <2>4 DEF Recover, Boot
    <3>2. \/ boot' = "project" /\ phase' \in {phase, "opening_recent_project"}
          \/ boot' \in {"abort", "abortHost"} /\ phase' = "stopping"
      BY <2>4, TransitionFacts, AbortFacts DEF Recover
    <3> QED
      BY <1>3, <1>5, <3>1, <3>2 DEF IInv, StartupIsSound, Unstarted, Hosting, Aborting, Serving
  <2>5. CASE OpenRecentProject
    <3>1. boot = "project" /\ boot' = "converge" /\ UNCHANGED <<host, phase>>
      BY <2>5 DEF OpenRecentProject, Boot
    <3> QED
      BY <1>3, <1>5, <3>1 DEF IInv, StartupIsSound, Unstarted, Hosting, Aborting, Serving
  <2>6. CASE Converge
    <3>1. boot = "converge" /\ UNCHANGED host
      BY <2>6 DEF Converge, Boot
    <3>2. \/ boot' = "up"
          \/ boot' \in {"abort", "abortHost"} /\ phase' = "stopping"
      BY <2>6, AbortFacts DEF Converge
    <3> QED
      BY <1>3, <1>5, <3>1, <3>2 DEF IInv, StartupIsSound, Unstarted, Hosting, Aborting, Serving
  <2>7. CASE AbortHost
    <3>1. boot = "abortHost" /\ boot' = "aborted"
      BY <2>7 DEF AbortHost, Boot
    <3>2. phase' \in {phase, "stopped"}
      BY <2>7, TransitionFacts DEF AbortHost
    <3> QED
      BY <1>3, <1>5, <3>1, <3>2 DEF IInv, StartupIsSound, Unstarted, Hosting, Aborting, Serving
  <2> QED
    BY <2>1, <2>2, <2>3, <2>4, <2>5, <2>6, <2>7
<1> QED
  BY <1>2, <1>4, <1>6 DEF IInv

(* The start and the end of the dependency.                                *)
LEMMA StartKept ==
    ASSUME IInv, phase # "stopped", StartDependencies \/ AbortDependencies \/ AbortGraph
    PROVE  IInv'
<1>1. /\ boot \in {"dependencies", "abort", "abortGraph"} /\ closing = 0 /\ dep \in DepRows
      /\ boot = "dependencies" => dep.lost = 0 /\ host /\ phase \notin Serving /\ (asked = 0 => dep.sup = 0)
      /\ boot # "dependencies" => phase = "stopping"
  BY DEF StartDependencies, AbortDependencies, AbortGraph, Boot, IInv, StartupIsSound, CloseIsSound, Unstarted,
         Hosting, Aborting, ProcessInv, Typed
<1>2. UNCHANGED <<phase, host, closing, op, http, asked, lp, ref>>
  BY DEF StartDependencies, AbortDependencies, AbortGraph
<1>3. /\ dep' \in DepRows /\ dep'.sup = dep.sup /\ dep'.lost = dep.lost
      /\ boot = "dependencies" => boot' = "starting"
      /\ boot = "abort" => boot' = "abortGraph"
      /\ boot = "abortGraph" => boot' = "abortWait"
  BY <1>1, LoopRowKept DEF StartDependencies, AbortDependencies, AbortGraph, Boot
<1>4. ProcessInv'
  <2>1. CASE StartDependencies
    <3>1. call' = [Idle EXCEPT !.op = "start", !.pc = "start"]
      BY <2>1 DEF StartDependencies
    <3>2. call' \in CallRows /\ call'.op = "start" /\ call'.pc = "start"
      BY <3>1 DEF Idle, CallRows, Health
    <3>3. dep.lost = 0
      BY <1>1, <2>1 DEF StartDependencies, Boot
    <3> QED
      BY <1>3, <2>1, <3>2, <3>3, EnterKept DEF StartDependencies, IInv
  <2>2. CASE AbortGraph
    <3>1. call' = [Idle EXCEPT !.op = "close", !.pc = "close"]
      BY <2>2 DEF AbortGraph
    <3>2. call' \in CallRows /\ call'.op = "close" /\ call'.pc = "close"
      BY <3>1 DEF Idle, CallRows, Health
    <3> QED
      BY <1>3, <2>2, <3>2, EnterKept DEF AbortGraph, IInv
  <2>3. CASE AbortDependencies
    <3>1. dep'.endpoint = dep.endpoint
      BY <1>1, <2>3, LoopRowKept DEF AbortDependencies
    <3>2. CallIsSound'
      BY <1>3, <2>3, <3>1, CallKept DEF AbortDependencies, IInv, ProcessInv
    <3> QED
      BY <1>3, <2>3, <3>2, RecordsKept DEF AbortDependencies, IInv, ProcessInv, Typed
  <2> QED
    BY <2>1, <2>2, <2>3
<1>5. CloseIsSound'
  BY <1>1, <1>2, UnbegunKept DEF IInv
<1>c. call'.pc = "start" => boot = "dependencies" \/ call' = call
  BY DEF StartDependencies, AbortDependencies, AbortGraph, Boot, Idle
<1>6. StartupIsSound'
  BY <1>1, <1>2, <1>3, <1>c DEF IInv, StartupIsSound, Unstarted, Hosting, Aborting, Serving
<1> QED
  BY <1>4, <1>5, <1>6 DEF IInv

LEMMA StartedKept ==
    ASSUME IInv, phase # "stopped", DependenciesStarted \/ AbortedGraph
    PROVE  IInv'
<1>1. /\ boot \in {"starting", "abortWait"} /\ closing = 0
      /\ boot = "starting" => host /\ phase \notin Serving
      /\ boot # "starting" => phase = "stopping"
  BY DEF DependenciesStarted, AbortedGraph, Boot, IInv, StartupIsSound, CloseIsSound, Hosting, Aborting
<1>2. UNCHANGED <<host, closing, op, http, asked, lp, ref>>
  BY DEF DependenciesStarted, AbortedGraph
<1>3. ProcessInv' /\ UNCHANGED dep /\ call'.pc = "idle"
  BY FinishKept, IdleFacts DEF DependenciesStarted, AbortedGraph, IInv
<1>4. \/ boot' = "recover" /\ phase' \in {phase, "recovering"} /\ boot = "starting"
      \/ boot' \in {"abort", "abortHost"} /\ phase' = "stopping"
  <2>1. CASE DependenciesStarted
    BY <2>1, TransitionFacts DEF DependenciesStarted, Boot
  <2>2. CASE AbortedGraph
    BY <1>1, <2>2 DEF AbortedGraph, Boot
  <2> QED
    BY <2>1, <2>2
<1>5. CloseIsSound'
  BY <1>1, <1>2, UnbegunKept DEF IInv
<1>6. StartupIsSound'
  BY <1>1, <1>2, <1>3, <1>4 DEF IInv, StartupIsSound, Unstarted, Hosting, Aborting, Serving
<1> QED
  BY <1>3, <1>5, <1>6 DEF IInv

-----------------------------------------------------------------------------
(* The runtime actions over HTTP and the refresh loop.                     *)

(* Once the dependencies are stopped no runtime action and no poll begins: *)
(* the host is down and the loop has ended.                                *)
LEMMA StoppedFacts ==
    ASSUME IInv, phase # "stopped", op["dependencies"] \in {"closing", "done"}
    PROVE  ~host /\ http = "idle" /\ ~dep.loop /\ lp = "idle" /\ boot = "up"
<1>1. closing \in 5..6
  BY DEF IInv, CloseIsSound
<1> QED
  BY <1>1 DEF IInv, CloseIsSound

(* A refresh that publishes has read the phase of a process that serves.   *)
LEMMA ReadsKept ==
    ASSUME StartupIsSound, NEW r \in {"loop", "http"}, Reads(r)
    PROVE  /\ ref' \in [{"loop", "http"} -> Health]
           /\ \A x \in {"loop", "http"} : ref'[x] # "none" => boot = "up"
<1>1. PICK h \in Health : ref' = [ref EXCEPT ![r] = h] /\ (h # "none" => phase \in Serving)
  BY DEF Reads, Health
<1> QED
  BY <1>1 DEF StartupIsSound

LEMMA RequestKept ==
    ASSUME IInv, phase # "stopped", HttpReconnect \/ HttpReprobe \/ LoopPoll
    PROVE  IInv'
<1>1. UNCHANGED <<conf, sup, proc, inJob, thr, dep, phase, boot, host, workers, closing, op>> /\ call = Idle
  BY DEF HttpReconnect, HttpReprobe, LoopPoll
<1>2. PICK o \in {"reconnect", "reprobe", "poll"}, pc \in {"close", "reprobe"} : call' = Enter(o, pc)
  BY DEF HttpReconnect, HttpReprobe, LoopPoll
<1>3. call' \in CallRows /\ call'.op = o /\ call'.pc = pc
  BY <1>2 DEF Enter, Idle, CallRows, Health
<1>4. ProcessInv'
  BY <1>1, <1>3, EnterKept DEF IInv, ProcessInv, Typed
<1>5. boot \notin Unstarted \/ (boot = "dependencies" /\ host)
  BY DEF HttpReconnect, HttpReprobe, LoopPoll, IInv, StartupIsSound, Unstarted
<1>a. /\ asked' \in Nat /\ (asked' = 0 => asked = 0)
      /\ boot \in Unstarted => asked' # 0
  <2>1. asked \in Nat
    BY DEF IInv, StartupIsSound
  <2>2. asked' = asked + 1 \/ (asked' = asked /\ boot \notin Unstarted)
    BY DEF HttpReconnect, HttpReprobe, LoopPoll, IInv, StartupIsSound
  <2> QED
    BY <2>1, <2>2
<1>6. op["dependencies"] \notin {"closing", "done"}
  BY StoppedFacts DEF HttpReconnect, HttpReprobe, LoopPoll
<1>7. op["host"] = "done" => http' = "idle"
  BY <1>1 DEF HttpReconnect, HttpReprobe, LoopPoll, IInv, CloseIsSound
<1>r. UNCHANGED ref
  BY DEF HttpReconnect, HttpReprobe, LoopPoll
<1>8. CloseIsSound'
  BY <1>1, <1>6, <1>7 DEF IInv, CloseIsSound
<1>9. StartupIsSound'
  BY <1>1, <1>3, <1>5, <1>a, <1>r DEF IInv, StartupIsSound, Unstarted
<1> QED
  BY <1>4, <1>8, <1>9 DEF IInv

LEMMA ReturnKept ==
    ASSUME IInv, phase # "stopped", HttpCallReturns \/ LoopPolled
    PROVE  IInv'
<1>1. UNCHANGED <<phase, boot, host, workers, closing, op, asked>>
  BY DEF HttpCallReturns, LoopPolled
<1>2. PICK o \in {"reconnect", "reprobe", "poll"} : Finish(o)
  BY DEF HttpCallReturns, LoopPolled
<1>3. ProcessInv' /\ UNCHANGED dep /\ call.op = o /\ call.pc = "end" /\ call' = Idle
  BY <1>2, FinishKept DEF IInv
<1>4. boot \notin Unstarted \/ asked # 0
  BY <1>3, IdleFacts DEF IInv, StartupIsSound
<1>5. op["dependencies"] \notin {"closing", "done"}
  BY <1>3, IdleFacts DEF IInv, CloseIsSound
<1>6. op["host"] = "done" => http' = "idle"
  BY DEF HttpCallReturns, LoopPolled, IInv, CloseIsSound
<1>7. CloseIsSound'
  BY <1>1, <1>3, <1>5, <1>6 DEF IInv, CloseIsSound
<1>r. /\ ref' \in [{"loop", "http"} -> Health]
      /\ \A r \in {"loop", "http"} : ref'[r] # "none" => boot = "up"
  BY ReadsKept DEF HttpCallReturns, LoopPolled, IInv
<1>8. StartupIsSound'
  BY <1>1, <1>3, <1>4, <1>r, IdleFacts DEF IInv, StartupIsSound, Unstarted
<1> QED
  BY <1>3, <1>7, <1>8 DEF IInv

(* A late refresh does not make a stopping process ready again.            *)
LEMMA RefreshKept ==
    ASSUME IInv, phase # "stopped",
           RequestCanceled \/ LoopRequested \/ StartupDeadline \/ \E r \in {"loop", "http"} : RefreshPublish(r)
    PROVE  IInv'
<1>1. UNCHANGED <<conf, sup, proc, inJob, thr, dep, call, boot, host, workers, closing, op, asked>>
  BY DEF RequestCanceled, LoopRequested, StartupDeadline, RefreshPublish, processVars, lifeVars
<1>2. ProcessInv'
  BY <1>1, ProcessStays DEF IInv
<1>3. /\ phase = "stopping" => phase' = "stopping"
      /\ phase' \in Serving => phase \in Serving \/ \E r \in {"loop", "http"} : RefreshPublish(r)
      /\ phase' \in {phase} \cup Serving
  <2>1. CASE RequestCanceled \/ LoopRequested \/ StartupDeadline
    BY <2>1 DEF RequestCanceled, LoopRequested, StartupDeadline, lifeVars
  <2>2. ASSUME NEW r \in {"loop", "http"}, RefreshPublish(r)
        PROVE  (phase = "stopping" => phase' = "stopping") /\ phase' \in {phase} \cup Serving
    <3>1. PICK to \in Serving : Transition(to)
      BY <2>2 DEF RefreshPublish
    <3> QED
      BY <3>1, TransitionFacts
  <2> QED
    BY <2>1, <2>2
<1>4. phase' \in Serving => boot = "up"
  BY <1>3 DEF IInv, StartupIsSound, RefreshPublish
<1>r. /\ ref' \in [{"loop", "http"} -> Health]
      /\ \A r \in {"loop", "http"} : ref'[r] # "none" => boot = "up"
  <2>1. CASE RequestCanceled \/ StartupDeadline
    BY <2>1 DEF RequestCanceled, StartupDeadline, lifeVars, IInv, StartupIsSound
  <2>2. CASE LoopRequested
    BY <2>2, ReadsKept DEF LoopRequested, IInv
  <2>3. ASSUME NEW r \in {"loop", "http"}, RefreshPublish(r) PROVE ref' = [ref EXCEPT ![r] = "none"]
    BY <2>3 DEF RefreshPublish
  <2> QED
    BY <2>1, <2>2, <2>3 DEF IInv, StartupIsSound, Health
<1>5. op["host"] = "done" => http' = "idle"
  BY DEF RequestCanceled, LoopRequested, StartupDeadline, RefreshPublish, lifeVars, IInv, CloseIsSound
<1>6. op["dependencies"] \in {"closing", "done"} => lp' = "idle"
  BY StoppedFacts DEF RequestCanceled, LoopRequested, StartupDeadline, RefreshPublish, lifeVars
<1>7. CloseIsSound'
  BY <1>1, <1>3, <1>5, <1>6 DEF IInv, CloseIsSound
<1>8. StartupIsSound'
  BY <1>1, <1>3, <1>4, <1>r DEF IInv, StartupIsSound
<1> QED
  BY <1>2, <1>7, <1>8 DEF IInv

-----------------------------------------------------------------------------
(* Process.Close.                                                          *)

LEMMA CloseKept ==
    ASSUME IInv, phase # "stopped", BeginClose \/ NextOp
    PROVE  IInv'
<1>1. /\ boot = "up" /\ closing \in 0..6 /\ dep \in DepRows
      /\ closing # 0 => phase = "stopping"
  BY OrderFacts DEF BeginClose, NextOp, IInv, CloseIsSound, ProcessInv, Typed
<1>2. PICK i \in 1..7 : i = closing + 1
  BY <1>1
<1>3. StartOp(i) /\ (closing # 0 => op[Order[closing]] = "done")
  BY <1>2 DEF BeginClose, NextOp, Returns
<1>4. UNCHANGED <<conf, sup, proc, inJob, thr, call, boot, host, workers, http, asked, lp, ref>> /\ closing' = i
  BY <1>3 DEF StartOp
<1>5. phase' = (IF i = 7 THEN "stopped" ELSE "stopping")
  <2>1. CASE BeginClose
    <3>1. i = 1
      BY <1>2, <2>1 DEF BeginClose
    <3> QED
      BY <2>1, <3>1, TransitionFacts DEF BeginClose
  <2>2. CASE NextOp
    <3>1. closing # 0
      BY <2>2, OrderFacts DEF NextOp
    <3> QED
      BY <1>1, <1>2, <2>2, <3>1, TransitionFacts, OrderFacts DEF NextOp
  <2> QED
    BY <2>1, <2>2
<1>6. /\ dep' \in DepRows /\ dep'.sup = dep.sup /\ dep'.lost = dep.lost /\ dep'.endpoint = dep.endpoint
      /\ i = 5 => ~dep'.loop
      /\ ~dep.loop => ~dep'.loop
  <2>1. CASE i = 5
    <3>1. dep' = [dep EXCEPT !.loop = FALSE]
      BY <1>3, <2>1, OrderFacts DEF StartOp
    <3> QED
      BY <1>1, <3>1, LoopRowKept
  <2>2. CASE i # 5
    <3>1. dep' = dep
      BY <1>3, <2>2, OrderFacts DEF StartOp
    <3> QED
      BY <1>1, <2>2, <3>1
  <2> QED
    BY <2>1, <2>2
<1>7. ProcessInv'
  <2>1. CallIsSound'
    BY <1>4, <1>6, CallKept DEF IInv, ProcessInv
  <2> QED
    BY <1>4, <1>6, <2>1, RecordsKept DEF IInv, ProcessInv, Typed
<1>8. StartupIsSound'
  BY <1>1, <1>2, <1>4, <1>5, <1>6 DEF IInv, StartupIsSound, Unstarted, Hosting, Aborting, Serving
<1>9. CloseIsSound'
  <2>1. /\ op' \in [Ops -> {"idle", "running", "closing", "done"}]
        /\ i = 7 => op' = op
        /\ i \in 1..6 => op' = [op EXCEPT ![Order[i]] = "running"]
    BY <1>3, OrderFacts DEF StartOp, Step, IInv, CloseIsSound
  <2>2. CASE i = 1
    BY <1>1, <1>2, <1>4, <1>5, <1>6, <2>1, <2>2, OrderFacts DEF IInv, CloseIsSound
  <2>3. CASE i = 2
    BY <1>1, <1>2, <1>3, <1>4, <1>5, <1>6, <2>1, <2>3, OrderFacts DEF IInv, CloseIsSound
  <2>4. CASE i = 3
    BY <1>1, <1>2, <1>3, <1>4, <1>5, <1>6, <2>1, <2>4, OrderFacts DEF IInv, CloseIsSound
  <2>5. CASE i = 4
    BY <1>1, <1>2, <1>3, <1>4, <1>5, <1>6, <2>1, <2>5, OrderFacts DEF IInv, CloseIsSound
  <2>6. CASE i = 5
    BY <1>1, <1>2, <1>3, <1>4, <1>5, <1>6, <2>1, <2>6, OrderFacts DEF IInv, CloseIsSound
  <2>7. CASE i = 6
    BY <1>1, <1>2, <1>3, <1>4, <1>5, <1>6, <2>1, <2>7, OrderFacts DEF IInv, CloseIsSound
  <2>8. CASE i = 7
    BY <1>1, <1>2, <1>3, <1>4, <1>5, <1>6, <2>1, <2>8, OrderFacts DEF IInv, CloseIsSound
  <2> QED
    BY <2>2, <2>3, <2>4, <2>5, <2>6, <2>7, <2>8
<1> QED
  BY <1>7, <1>8, <1>9 DEF IInv

(* The operations, and the deadline that gives one up.                     *)
LEMMA OperationKept ==
    ASSUME IInv, phase # "stopped", 
           StopHost \/ StopWorkers \/ Deadline \/ \E o \in {"recovery", "boundaries", "projects"} : Complete(o)
    PROVE  IInv'
<1>1. UNCHANGED <<conf, sup, proc, inJob, thr, dep, call, boot, http, asked, lp, ref>>
  BY DEF StopHost, StopWorkers, Complete, Deadline, processVars
<1>2. ProcessInv'
  BY <1>1, ProcessStays DEF IInv
<1>3. closing \in 1..6 /\ boot = "up" /\ phase = "stopping"
  <2>1. closing \in 0..7 /\ closing # 7
    BY DEF IInv, CloseIsSound
  <2>2. closing # 0
    BY OrderFacts DEF StopHost, StopWorkers, Complete, Deadline, IInv, CloseIsSound
  <2> QED
    BY <2>1, <2>2 DEF IInv, CloseIsSound
<1>4. CASE Deadline
  <2>1. closing' = 7 /\ phase' = "stopped" /\ UNCHANGED <<host, workers, op>>
    BY <1>3, <1>4, OrderFacts, TransitionFacts DEF Deadline
  <2>2. CloseIsSound'
    BY <1>1, <1>3, <2>1 DEF IInv, CloseIsSound
  <2>3. StartupIsSound'
    BY <1>1, <1>3, <2>1 DEF IInv, StartupIsSound, Unstarted, Hosting, Aborting, Serving
  <2> QED
    BY <1>2, <2>2, <2>3 DEF IInv
<1>5. CASE StopHost
  <2>1. /\ op' = [op EXCEPT !["host"] = "done"] /\ host' = FALSE /\ http = "idle"
        /\ op["host"] = "running" /\ UNCHANGED <<closing, phase, workers>>
    BY <1>5 DEF StopHost, Step
  <2>2. CloseIsSound'
    BY <1>1, <1>3, <2>1, OrderFacts DEF IInv, CloseIsSound
  <2>3. StartupIsSound'
    BY <1>1, <1>3, <2>1 DEF IInv, StartupIsSound, Unstarted, Hosting, Aborting, Serving
  <2> QED
    BY <1>2, <2>2, <2>3 DEF IInv
<1>6. CASE StopWorkers
  <2>1. /\ op' = [op EXCEPT !["workers"] = "done"] /\ workers' = FALSE /\ op["workers"] = "running"
        /\ UNCHANGED <<closing, phase, host>>
    BY <1>6 DEF StopWorkers, Step
  <2>2. CloseIsSound'
    BY <1>1, <1>3, <2>1, OrderFacts DEF IInv, CloseIsSound
  <2>3. StartupIsSound'
    BY <1>1, <1>3, <2>1 DEF IInv, StartupIsSound, Unstarted, Hosting, Aborting, Serving
  <2> QED
    BY <1>2, <2>2, <2>3 DEF IInv
<1>7. ASSUME NEW o \in {"recovery", "boundaries", "projects"}, Complete(o) PROVE IInv'
  <2>1. /\ op' = [op EXCEPT ![o] = "done"] /\ op[o] = "running"
        /\ UNCHANGED <<closing, phase, host, workers>>
    BY <1>7 DEF Complete, Step
  <2>2. CloseIsSound'
    <3>1. op' \in [Ops -> {"idle", "running", "closing", "done"}] /\ \A x \in Ops \ {o} : op'[x] = op[x]
      BY <2>1, OrderFacts DEF IInv, CloseIsSound
    <3>2. \A x \in {"host", "workers", "dependencies"} : op'[x] = op[x]
      BY <3>1, OrderFacts
    <3>3. \A x \in {"recovery", "boundaries", "projects"} : op[x] = "idle" => op'[x] = "idle"
      BY <2>1, <3>1, OrderFacts
    <3> QED
      BY <1>1, <2>1, <3>1, <3>2, <3>3 DEF IInv, CloseIsSound
  <2>3. StartupIsSound'
    BY <1>1, <1>3, <2>1 DEF IInv, StartupIsSound, Unstarted, Hosting, Aborting, Serving
  <2> QED
    BY <1>2, <2>2, <2>3 DEF IInv
<1> QED
  BY <1>4, <1>5, <1>6, <1>7

LEMMA StopGraphKept ==
    ASSUME IInv, phase # "stopped", StopGraph \/ GraphStopped
    PROVE  IInv'
<1>1. UNCHANGED <<conf, sup, proc, inJob, thr, dep, phase, boot, host, workers, closing, http, asked, lp, ref>>
  BY FinishKept DEF StopGraph, GraphStopped, Finish
<1>2. closing \in 5..6 /\ boot = "up" /\ ~dep.loop /\ op["dependencies"] # "idle"
  BY DEF StopGraph, GraphStopped, IInv, CloseIsSound
<1>3. CASE StopGraph
  <2>1. call' = [Idle EXCEPT !.op = "close", !.pc = "close"]
    BY <1>3 DEF StopGraph
  <2>2. call' \in CallRows /\ call'.op = "close" /\ call'.pc = "close"
    BY <2>1 DEF Idle, CallRows, Health
  <2>3. op' = [op EXCEPT !["dependencies"] = "closing"] /\ op["dependencies"] = "running" /\ lp = "idle" /\ call = Idle
    BY <1>3 DEF StopGraph, Step
  <2>4. ProcessInv'
    BY <1>1, <2>2, <2>3, EnterKept DEF IInv, ProcessInv, Typed
  <2>5. CloseIsSound'
    BY <1>1, <1>2, <2>2, <2>3, OrderFacts DEF IInv, CloseIsSound
  <2>6. StartupIsSound'
    BY <1>1, <1>2, <2>2 DEF IInv, StartupIsSound, Unstarted
  <2> QED
    BY <2>4, <2>5, <2>6 DEF IInv
<1>4. CASE GraphStopped
  <2>1. Finish("close") /\ op' = [op EXCEPT !["dependencies"] = "done"] /\ op["dependencies"] = "closing"
    BY <1>4 DEF GraphStopped, Step
  <2>2. ProcessInv' /\ call' = Idle /\ dep.sup = 0 /\ dep.endpoint = Nobody
    BY <2>1, FinishKept DEF IInv
  <2>5. CloseIsSound'
    BY <1>1, <1>2, <2>1, <2>2, OrderFacts DEF IInv, CloseIsSound
  <2>6. StartupIsSound'
    BY <1>1, <1>2, <2>2, IdleFacts DEF IInv, StartupIsSound, Unstarted
  <2> QED
    BY <2>2, <2>5, <2>6 DEF IInv
<1> QED
  BY <1>3, <1>4

-----------------------------------------------------------------------------
(* Every step.                                                             *)

LEMMA Consecution ==
    ASSUME IInv, [Next]_vars PROVE IInv'
<1>1. CASE Next
  <2>1. phase # "stopped"
    BY <1>1 DEF Next, Runs
  <2>2. CASE Startup
    BY <2>1, <2>2, BootKept, StartKept, StartedKept DEF Startup
  <2>3. CASE Requests \/ Refreshing \/ StartupDeadline
    <3>1. HttpReconnect \/ HttpReprobe \/ LoopPoll => IInv'
      BY <2>1, RequestKept
    <3>2. HttpCallReturns \/ LoopPolled => IInv'
      BY <2>1, ReturnKept
    <3>3. RequestCanceled \/ LoopRequested \/ StartupDeadline \/ (\E r \in {"loop", "http"} : RefreshPublish(r)) => IInv'
      BY <2>1, RefreshKept
    <3> QED
      BY <2>3, <3>1, <3>2, <3>3 DEF Requests, Refreshing
  <2>4. CASE BeginClose \/ NextOp \/ Operations \/ Deadline
    BY <2>1, <2>4, CloseKept, OperationKept, StopGraphKept DEF Operations
  <2> QED
    BY <1>1, <2>2, <2>3, <2>4, ProcessStepKept DEF Next
<1>2. CASE UNCHANGED vars
  <2>1. ProcessInv'
    BY <1>2, ProcessStays DEF vars, processVars, IInv
  <2> QED
    BY <1>2, <2>1 DEF vars, processVars, lifeVars, IInv, StartupIsSound, CloseIsSound
<1> QED
  BY <1>1, <1>2

-----------------------------------------------------------------------------
(* The children, the operation that holds actionMu, the startup and the    *)
(* operations of Process.Close agree in every state, for any number of     *)
(* supervisors, launches and requests, and any settings.                   *)
THEOREM RuntimeInvariant == Spec => []IInv
<1>1. Init => IInv
  <2>1. SUFFICES ASSUME Init PROVE IInv
    OBVIOUS
  <2>2. Typed
    <3>1. NoThread \in ThrRows
      BY BoundsFacts DEF NoThread, ThrRows, ThreadPC
    <3>2. 0 \in 0..MaxGen
      BY BoundsFacts
    <3>3. [made |-> FALSE, live |-> TRUE, job |-> "open", current |-> 0, attempts |-> 0, next |-> 0] \in SupRows
      BY <3>2 DEF SupRows
    <3>4. Nobody \in (Supervisors \cup {0}) \X Nat
      BY DEF Nobody
    <3>5. dep \in DepRows
      BY <2>1, <3>4 DEF Init, ProcessInit, DepRows, Health
    <3> QED
      BY <2>1, <3>1, <3>3, <3>5, IdleFacts DEF Init, ProcessInit, Typed
  <2>3. ThreadsAreSound
    BY <2>1 DEF Init, ProcessInit, ThreadsAreSound, ThreadIsSound, NoThread, Launching
  <2>4. ChildrenAreSound
    BY <2>1 DEF Init, ProcessInit, ChildrenAreSound, ChildIsSound, LivingStates
  <2>5. CallIsSound
    BY <2>1, IdleFacts DEF Init, ProcessInit, CallIsSound, Stopping
  <2>8. LaunchesAreSound
    <3>1. \A t \in Threads : thr[t].pc = "idle"
      BY <2>1 DEF Init, ProcessInit, NoThread
    <3> QED
      BY <3>1, BoundsFacts DEF LaunchesAreSound, Launching
  <2>9. CallerIsSound
    BY <2>1, BoundsFacts DEF Init, ProcessInit, CallerIsSound, NoThread
  <2>6. StartupIsSound
    BY <2>1, IdleFacts DEF Init, ProcessInit, StartupIsSound, Unstarted, Hosting, Aborting, Serving, Health
  <2>7. CloseIsSound
    BY <2>1, OrderFacts DEF Init, CloseIsSound
  <2> QED
    BY <2>2, <2>3, <2>4, <2>5, <2>6, <2>7, <2>8, <2>9 DEF IInv, ProcessInv
<1> QED
  BY <1>1, Consecution, PTL DEF Spec

(* ChildrenAreContained: whatever launches, restarts, readiness probes and *)
(* Stops overlap, a child that lives is in the Job object of its           *)
(* supervisor, and that is not closed, or it was never resumed and its     *)
(* thread is still creating it.                                            *)
THEOREM ChildrenAreContainedHolds == Spec => []ChildrenAreContained
<1>1. IInv => ChildrenAreContained
  <2>1. SUFFICES ASSUME IInv, NEW p \in Living
                 PROVE  \/ p \in inJob /\ sup[p[1]].job # "closed"
                        \/ p \notin Running /\ Creating(p)
    BY DEF ChildrenAreContained
  <2>2. PICK s \in Supervisors, g \in Gens : p = <<s, g>> /\ proc[s][g] \in LivingStates
    BY <2>1 DEF Living, Children, LivingStates
  <2>3. p \in Running => proc[s][g] = "running"
    BY <2>2 DEF Running, Children
  <2> QED
    BY <2>1, <2>2, <2>3 DEF IInv, ProcessInv, ChildrenAreSound, ChildIsSound
<1> QED
  BY <1>1, RuntimeInvariant, PTL

(* ShutdownIsOrdered: what Process.Close has done within its deadline it   *)
(* has done in order.  When it has stopped the dependency, that has no     *)
(* supervisor any more, so that every Job object was closed but that of a  *)
(* supervisor that the first start has overwritten, which takes a request  *)
(* that was served before that start.                                      *)
THEOREM ShutdownIsOrderedHolds == Spec => []ShutdownIsOrdered
<1>1. IInv => ShutdownIsOrdered
  <2>1. SUFFICES ASSUME IInv PROVE ShutdownIsOrdered
    OBVIOUS
  <2>2. closing > 0 => phase \in {"stopping", "stopped"}
    BY <2>1 DEF IInv, CloseIsSound
  <2>3. phase \in Serving => host \/ closing > 0
    BY <2>1 DEF IInv, StartupIsSound, CloseIsSound
  <2>4. Past("host") => closing \in 2..6
    BY OrderFacts DEF Past
  <2>5. Past("workers") => closing \in 5..6
    <3>1. SUFFICES ASSUME NEW i \in 1..6, Order[i] = "workers", closing \in (i + 1)..6 PROVE closing \in 5..6
      BY OrderFacts DEF Past
    <3>2. i = 4
      BY <3>1, OrderFacts
    <3> QED
      BY <3>1, <3>2
  <2>6. Past("dependencies") => closing = 6
    <3>1. SUFFICES ASSUME NEW i \in 1..6, Order[i] = "dependencies", closing \in (i + 1)..6 PROVE closing = 6
      BY OrderFacts DEF Past
    <3>2. i = 5
      BY <3>1, OrderFacts
    <3> QED
      BY <3>1, <3>2
  <2>7. closing \in 2..6 => ~host /\ http = "idle"
    BY <2>1 DEF IInv, CloseIsSound
  <2>8. closing \in 5..6 => ~workers
    BY <2>1 DEF IInv, CloseIsSound
  <2>9. closing = 6 => call = Idle /\ lp = "idle" /\ dep.sup = 0 /\ dep.endpoint = Nobody
    BY <2>1 DEF IInv, CloseIsSound
  <2>10. ASSUME closing = 6, NEW p \in Running PROVE p[1] = dep.lost /\ asked > 0
    <3>1. PICK s \in Supervisors, g \in Gens : p = <<s, g>> /\ proc[s][g] = "running"
      BY <2>10 DEF Running, Children
    <3>2. sup[s].made /\ sup[s].job # "closed"
      BY <2>1, <3>1 DEF IInv, ProcessInv, ChildrenAreSound, ChildIsSound, LivingStates
    <3>3. s \in {0, dep.lost}
      BY <2>1, <2>9, <2>10, <3>2, IdleFacts DEF IInv, ProcessInv, CallIsSound, Stopping
    <3>4. s = dep.lost /\ dep.lost # 0
      BY <3>3, BoundsFacts
    <3>5. asked \in Nat /\ asked # 0
      BY <2>1, <3>4 DEF IInv, StartupIsSound
    <3> QED
      BY <3>1, <3>4, <3>5
  <2> QED
    BY <2>2, <2>3, <2>4, <2>5, <2>6, <2>7, <2>8, <2>9, <2>10 DEF ShutdownIsOrdered
<1> QED
  BY <1>1, RuntimeInvariant, PTL
=============================================================================
