------------------------------ MODULE Diagnostics ------------------------------
(***************************************************************************)
(* How the process tells what it does: the status store and its observers  *)
(* (app/runtime/lifecycle.go, bootstrap.go), the bounded queue of log      *)
(* events and the writer that rotates the log files (diagnostics/logger.go), *)
(* and the end of Process.Close, which releases the observers and closes   *)
(* the log.  An event is a number and a size, a file a sequence of lines;  *)
(* a file that is not there has no lines.  logFiles[1] is the current file, *)
(* logFiles[i + 1] the one with the suffix i.                              *)
(***************************************************************************)
EXTENDS Integers, Sequences, FiniteSets, SequencesExt

CONSTANTS
    MaxBytes,        \* Options.MaxBytes
    Capacity,        \* Options.Capacity
    Scenes           \* [files (Options.MaxFiles), observers, sizes of the events, closes (whether Close is called)] and
                     \* the bounds: events of requests, transitions before Close, failures of file operations, launches

VARIABLES logFiles,  \* the files of the log directory
          logged,    \* history: every line ever written
          logger,    \* Logger, its goroutine and its rotatingWriter
          emitters,  \* calls of Emit that have looked at closed
          board,     \* StatusStore, its subscribers and what the observers have seen
          closer,    \* the end of Process.Close
          bounds     \* the scene, and how many of each there were so far

diagnosticVars == <<logFiles, logged, logger, emitters, board, closer, bounds>>

Subscribers == bounds.scene.observers
MaxFiles == Len(logFiles)
Emitters == {"request", "log", "closer"}
Size(lines) == FoldLeft(LAMBDA n, line : n + line.size, 0, lines)

\* New: the current file is appended to, whatever an earlier process has left in it.
New(files) ==
    [queue |-> <<>>, closed |-> FALSE, pc |-> "select", file |-> "open", size |-> Size(files[1]),
     at |-> "idle", shifts |-> 0, body |-> <<>>, failures |-> 0, accepted |-> <<>>, lost |-> {}, dropped |-> 0]
NotEmitting == [pc |-> "idle", event |-> <<>>]
\* Subscribe puts the current snapshot into the channel.
Subscribed(observers) ==
    [generation |-> 0, publishing |-> {}, target |-> <<>>, step |-> 1, open |-> observers,
     channel |-> [o \in observers |-> <<0>>], seen |-> [o \in observers |-> -1], busy |-> [o \in observers |-> FALSE]]
NotClosing == [pc |-> "none", deadline |-> FALSE, error |-> FALSE, before |-> <<>>]

DiagnosticInit ==
    \E scene \in Scenes :
        /\ logFiles = [i \in 1..scene.files |-> <<>>] /\ logged = <<>> /\ logger = New(logFiles)
        /\ emitters = [e \in Emitters |-> NotEmitting]
        /\ board = Subscribed(scene.observers) /\ closer = NotClosing
        /\ bounds = [scene |-> scene, events |-> 0, made |-> 0, transitions |-> 0, faults |-> 0, launches |-> 1]

-------------------------------------------------------------------------------
(* The status store.                                                       *)

MutexFree == board.publishing = {}
BeginTransition ==
    /\ MutexFree
    /\ board' = [board EXCEPT !.generation = @ + 1, !.publishing = board.open, !.step = 1]

\* Transition of the runtime while it is not being closed.
Transition ==
    /\ closer.pc = "none" /\ bounds.transitions < bounds.scene.transitions
    /\ BeginTransition
    /\ bounds' = [bounds EXCEPT !.transitions = @ + 1]
    /\ UNCHANGED <<logFiles, logged, logger, emitters, closer>>

\* publishLatest for one subscriber: three selects, between which the observer may
\* receive.
Done(o) == [board EXCEPT !.publishing = @ \ {o}, !.target = <<>>, !.step = 1]
Sends(o) == [Done(o) EXCEPT !.channel[o] = <<board.generation>>]
publishLatest(o) ==
    /\ o \in board.publishing /\ board.target \in {<<>>, <<o>>}
    /\ board' = CASE board.step = 1 /\ board.channel[o] = <<>> -> Sends(o)
                  [] board.step = 1 /\ board.channel[o] # <<>> -> [board EXCEPT !.target = <<o>>, !.step = 2]
                  [] board.step = 2 -> [board EXCEPT !.channel[o] = <<>>, !.step = 3]
                  [] board.step = 3 /\ board.channel[o] = <<>> -> Sends(o)
                  [] board.step = 3 /\ board.channel[o] # <<>> -> Done(o)
    /\ UNCHANGED <<logFiles, logged, logger, emitters, closer, bounds>>

\* The goroutine of an observer takes the next snapshot; a closed channel is drained.
Observe(o) ==
    /\ ~board.busy[o] /\ board.channel[o] # <<>>
    /\ board' = [board EXCEPT !.channel[o] = <<>>, !.seen[o] = board.channel[o][1], !.busy[o] = TRUE]
    /\ UNCHANGED <<logFiles, logged, logger, emitters, closer, bounds>>

\* The status observer replaces the resource.
Publish ==
    /\ "status" \in Subscribers /\ board.busy["status"]
    /\ board' = [board EXCEPT !.busy["status"] = FALSE]
    /\ UNCHANGED <<logFiles, logged, logger, emitters, closer, bounds>>

Ended(o) == o \notin board.open /\ board.channel[o] = <<>> /\ ~board.busy[o]

-------------------------------------------------------------------------------
(* Emit: closed is read first, the queue is tried later.                    *)

Emit(e, size) ==
    /\ emitters[e].pc = "idle" /\ ~logger.closed
    /\ emitters' = [emitters EXCEPT ![e] = [pc |-> "send", event |-> <<[id |-> bounds.made + 1, size |-> size, whole |-> TRUE]>>]]

\* Middleware, after a request has been served.
EmitRequest ==
    /\ bounds.events < bounds.scene.events
    /\ \E size \in bounds.scene.sizes : Emit("request", size)
    /\ bounds' = [bounds EXCEPT !.events = @ + 1, !.made = @ + 1]
    /\ UNCHANGED <<logFiles, logged, logger, board, closer>>

\* runtimeLogObserver.Observe; a closed logger takes nothing.
EmitObserved ==
    /\ "log" \in Subscribers /\ board.busy["log"] /\ emitters["log"].pc = "idle"
    /\ IF logger.closed THEN board' = [board EXCEPT !.busy["log"] = FALSE] /\ UNCHANGED <<emitters, bounds>>
       ELSE /\ Emit("log", 1)
            /\ bounds' = [bounds EXCEPT !.made = @ + 1] /\ UNCHANGED board
    /\ UNCHANGED <<logFiles, logged, logger, closer>>

Send(e) ==
    /\ emitters[e].pc = "send"
    /\ logger' = IF Len(logger.queue) < Capacity
                 THEN [logger EXCEPT !.queue = @ \o emitters[e].event, !.accepted = Append(@, emitters[e].event[1].id)]
                 ELSE [logger EXCEPT !.dropped = @ + 1]
    /\ emitters' = [emitters EXCEPT ![e] = NotEmitting]
    /\ board' = IF e = "log" THEN [board EXCEPT !.busy["log"] = FALSE] ELSE board
    /\ closer' = IF e = "closer" THEN [closer EXCEPT !.pc = "close"] ELSE closer
    /\ UNCHANGED <<logFiles, logged, bounds>>

-------------------------------------------------------------------------------
(* The goroutine of the logger and its writer.                              *)

Fails == bounds.faults < bounds.scene.faults /\ bounds' = [bounds EXCEPT !.faults = @ + 1]
\* recordFailure: the event is lost.
recordFailure ==
    [logger EXCEPT !.at = "idle", !.body = <<>>, !.failures = @ + 1, !.lost = @ \cup {line.id : line \in ToSet(logger.body)}]
At(pc) == logger.at = pc /\ UNCHANGED <<emitters, board, closer>>
Goes(at) == logger' = [logger EXCEPT !.at = at] /\ UNCHANGED bounds
GivesUp == Fails /\ logger' = recordFailure

Receive ==
    /\ logger.pc \in {"select", "drain"} /\ logger.at = "idle" /\ logger.queue # <<>>
    /\ logger' = [logger EXCEPT !.queue = Tail(@), !.body = <<Head(logger.queue)>>, !.at = "write"]
    /\ UNCHANGED <<logFiles, logged, emitters, board, closer, bounds>>

\* select may choose either when both are ready.
Stop ==
    /\ logger.pc = "select" /\ logger.at = "idle" /\ logger.closed
    /\ logger' = [logger EXCEPT !.pc = "drain"]
    /\ UNCHANGED <<logFiles, logged, emitters, board, closer, bounds>>

\* write: an event larger than a file is refused, one that does not fit any more
\* rotates the files first.
write ==
    LET size == logger.body[1].size IN
    /\ At("write")
    /\ IF size > MaxBytes THEN logger' = recordFailure /\ UNCHANGED bounds
       ELSE Goes(IF logger.size + size > MaxBytes THEN "sync" ELSE "append")
    /\ UNCHANGED <<logFiles, logged>>

\* A failed Write may have written a part of the line.
WriteBody ==
    LET line == logger.body[1]
        writes(l) == /\ logFiles' = [logFiles EXCEPT ![1] = Append(@, l)]
                     /\ logged' = Append(logged, l)
    IN
    /\ At("append")
    /\ \/ /\ logger.file = "open"
          /\ writes(line)
          /\ logger' = [logger EXCEPT !.at = "idle", !.body = <<>>, !.size = @ + line.size] /\ UNCHANGED bounds
       \/ logger.file = "closed" /\ logger' = recordFailure /\ UNCHANGED <<logFiles, logged, bounds>>
       \/ /\ logger.file = "open" /\ Fails
          /\ \/ line.size > 1 /\ writes([line EXCEPT !.size = 1, !.whole = FALSE])
                /\ logger' = [recordFailure EXCEPT !.size = @ + 1]
             \/ logger' = recordFailure /\ UNCHANGED <<logFiles, logged>>

rotateSync ==
    /\ At("sync")
    /\ \/ logger.file = "open" /\ Goes("close")
       \/ logger.file = "open" /\ GivesUp
       \/ logger.file = "closed" /\ logger' = recordFailure /\ UNCHANGED bounds
    /\ UNCHANGED <<logFiles, logged>>

\* A Close that reports an error has closed the file as well.
rotateClose ==
    /\ At("close")
    /\ \/ logger' = [logger EXCEPT !.file = "closed", !.at = "drop"] /\ UNCHANGED bounds
       \/ Fails /\ logger' = [recordFailure EXCEPT !.file = "closed"]
    /\ UNCHANGED <<logFiles, logged>>

\* The oldest file goes; with one file that is the current one and an error counts.
rotateDrop ==
    /\ At("drop")
    /\ \/ /\ logFiles' = [logFiles EXCEPT ![MaxFiles] = <<>>]
          /\ Goes(IF MaxFiles = 1 THEN "open" ELSE "shift")
       \/ MaxFiles = 1 /\ GivesUp /\ UNCHANGED logFiles
       \/ MaxFiles > 1 /\ Fails /\ logger' = [logger EXCEPT !.at = "shift"] /\ UNCHANGED logFiles
    /\ UNCHANGED logged

\* The others move up one at a time, the oldest first and the current one last; a
\* file that is not there is passed over.
rotateShift ==
    LET i == MaxFiles - logger.shifts - 1 IN
    /\ At("shift")
    /\ \/ /\ logFiles' = IF logFiles[i] = <<>> THEN logFiles
                         ELSE [logFiles EXCEPT ![i + 1] = logFiles[i], ![i] = <<>>]
          /\ logger' = IF i = 1 THEN [logger EXCEPT !.at = "open", !.shifts = 0]
                       ELSE [logger EXCEPT !.shifts = @ + 1]
          /\ UNCHANGED bounds
       \/ Fails /\ logger' = [recordFailure EXCEPT !.shifts = 0] /\ UNCHANGED logFiles
    /\ UNCHANGED logged

rotateOpen ==
    /\ At("open")
    /\ \/ /\ logFiles' = [logFiles EXCEPT ![1] = <<>>]
          /\ logger' = [logger EXCEPT !.file = "open", !.size = 0, !.at = "append"] /\ UNCHANGED bounds
       \/ GivesUp /\ UNCHANGED logFiles
    /\ UNCHANGED logged

\* The queue is drained: sync and close; both fail on a file that a failed rotation
\* has left closed.
finish ==
    /\ logger.pc = "drain" /\ logger.at = "idle" /\ logger.queue = <<>>
    /\ \/ logger' = [logger EXCEPT !.pc = "done", !.file = "closed",
                                   !.failures = IF logger.file = "open" THEN @ ELSE @ + 2] /\ UNCHANGED bounds
       \/ Fails /\ logger' = [logger EXCEPT !.pc = "done", !.file = "closed", !.failures = @ + 1]
    /\ UNCHANGED <<logFiles, logged, emitters, board, closer>>

Writer == Receive \/ Stop \/ write \/ WriteBody \/ rotateSync \/ rotateClose \/ rotateDrop \/ rotateShift \/ rotateOpen \/ finish

-------------------------------------------------------------------------------
(* The end of Process.Close.                                               *)

Closes(pc) == closer.pc = pc /\ UNCHANGED <<logFiles, logged>>

CloseProcess ==
    /\ Closes("none") /\ bounds.scene.closes
    /\ BeginTransition
    /\ closer' = [closer EXCEPT !.pc = "release"]
    /\ UNCHANGED <<logger, emitters, bounds>>

\* Unsubscribe needs the mutex; the value in a closed channel can still be received.
Unsubscribe ==
    /\ Closes("release") /\ MutexFree
    /\ board' = [board EXCEPT !.open = {}]
    /\ closer' = [closer EXCEPT !.pc = "wait"]
    /\ UNCHANGED <<logger, emitters, bounds>>

Deadline ==
    /\ closer.pc \in {"release", "wait", "close", "await"} /\ ~closer.deadline
    /\ closer' = [closer EXCEPT !.deadline = TRUE]
    /\ UNCHANGED <<logFiles, logged, logger, emitters, board, bounds>>

\* The observers have ended, or the deadline has passed; then the last event.
EmitStopped ==
    /\ Closes("wait")
    /\ closer.deadline \/ \A o \in Subscribers : Ended(o)
    /\ closer' = [closer EXCEPT !.pc = "emit", !.error = \E o \in Subscribers : ~Ended(o)]
    /\ Emit("closer", 1)
    /\ bounds' = [bounds EXCEPT !.made = @ + 1]
    /\ UNCHANGED <<logger, board>>

Close ==
    /\ Closes("close")
    /\ logger' = [logger EXCEPT !.closed = TRUE]
    /\ closer' = [closer EXCEPT !.pc = "await", !.before = logger.accepted]
    /\ UNCHANGED <<emitters, board, bounds>>

Closed ==
    /\ Closes("await")
    /\ \/ logger.pc = "done" /\ closer' = [closer EXCEPT !.pc = "closed", !.error = @ \/ logger.failures > 0]
       \/ closer.deadline /\ closer' = [closer EXCEPT !.pc = "closed", !.error = TRUE]
    /\ UNCHANGED <<logger, emitters, board, bounds>>

\* The process ends, in the middle of anything, and another one starts.
Relaunch ==
    /\ bounds.launches < bounds.scene.launches
    /\ bounds' = [bounds EXCEPT !.launches = @ + 1, !.transitions = 0]
    /\ logger' = New(logFiles) /\ emitters' = [e \in Emitters |-> NotEmitting]
    /\ board' = Subscribed(Subscribers) /\ closer' = NotClosing
    /\ UNCHANGED <<logFiles, logged>>

DiagnosticNext ==
    \/ Transition \/ (\E o \in Subscribers : publishLatest(o) \/ Observe(o)) \/ Publish
    \/ EmitRequest \/ EmitObserved \/ (\E e \in Emitters : Send(e))
    \/ Writer
    \/ CloseProcess \/ Unsubscribe \/ Deadline \/ EmitStopped \/ Close \/ Closed
    \/ Relaunch

-------------------------------------------------------------------------------
(* Properties.                                                             *)

\* rotate, write: whatever fails and wherever the process ends, the files together
\* hold the newest lines in the order in which they were written: file i those from
\* one cut to the next, the current file the newest.  None is larger than the limit.
FilesAreNewest ==
    \E cut \in [1..(MaxFiles + 1) -> 0..Len(logged)] :
        /\ cut[1] = Len(logged)
        /\ \A i \in 1..MaxFiles :
             cut[i + 1] <= cut[i] /\ logFiles[i] = SubSeq(logged, cut[i + 1] + 1, cut[i])
FilesAreBounded == \A i \in 1..MaxFiles : Size(logFiles[i]) <= MaxBytes

\* Emit, run: an accepted event is written, waits, or is counted as a failure, and
\* the events of a launch are written in the order in which they were accepted.
EventsAreAccounted ==
    LET whole == {line.id : line \in {l \in ToSet(logged) : l.whole}}
        waits == {line.id : line \in ToSet(logger.queue \o logger.body)}
    IN /\ ToSet(logger.accepted) \subseteq whole \cup waits \cup logger.lost
       /\ Cardinality(logger.lost) <= logger.failures
WrittenAsAccepted ==
    \A i, j \in DOMAIN logged : i < j =>
      \A a, b \in DOMAIN logger.accepted :
         logger.accepted[a] = logged[i].id /\ logger.accepted[b] = logged[j].id => a < b

\* Close: without an error every event accepted before it is in the log, the last one
\* or its loss included, and every observer has seen the last status.
CloseIsHonest ==
    closer.pc = "closed" /\ ~closer.error =>
        /\ \A id \in ToSet(closer.before) : \E line \in ToSet(logged) : line.id = id /\ line.whole
        /\ \A o \in Subscribers : board.seen[o] = board.generation

\* Transition, publishLatest: while nobody publishes, an observer has seen the
\* current status or finds it in its channel; it never sees an older one again.
StatusIsLatest ==
    \A o \in Subscribers :
        /\ MutexFree => board.channel[o] = <<board.generation>>
                        \/ (board.channel[o] = <<>> /\ board.seen[o] = board.generation)
        /\ board.channel[o] # <<>> => board.seen[o] < board.channel[o][1]

DiagnosticsAreSound ==
    FilesAreNewest /\ FilesAreBounded /\ EventsAreAccounted /\ WrittenAsAccepted /\ CloseIsHonest /\ StatusIsLatest
================================================================================
