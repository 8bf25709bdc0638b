-------------------------------- MODULE Gui --------------------------------
(***************************************************************************)
(* The speed test window (src/src/gui.rs).  The user interface runs on one *)
(* thread; each measurement is a task of the tokio runtime, started by the *)
(* button or by the loop behind the "automatic" box, and reports through a *)
(* channel that every frame of the window drains.  A measurement that      *)
(* succeeds appends its record to the file of History, to which speedtest  *)
(* commands in other processes append as well.                             *)
(***************************************************************************)
EXTENDS SpeedTest

CONSTANTS Task,      \* bound: tasks that may be alive at once
          EventCap   \* bound: events in the channel when a measurement starts

ASSUME GuiAssumption ==
    /\ Writer = Task \cup Command
    /\ Task \cap Command = {} /\ "none" \notin Task
    /\ EventCap \in Nat

VARIABLES
    measuring,  \* self.measuring: the button is disabled
    auto,       \* self.auto_enabled
    autoTask,   \* the task that auto_stop_tx can stop; "none"
    task,       \* what a task does
    kind,       \* "auto" for the loop of set_auto, else "manual"
    stop,       \* whether a loop has been sent its stop signal
    result,     \* the result a task reports: a record, or 0 for an error
    events,     \* the channel
    shown       \* self.history, without what was loaded at the start

guiVars == <<measuring, auto, autoTask, task, kind, stop, result, events, shown>>
vars == <<guiVars, commandVars, fileVars>>

Started == [type |-> "started", record |-> 0]
Finished(r) == [type |-> "finished", record |-> r]
Event == {Started} \cup {Finished(r) : r \in 0..MaxRecords}

GuiTypeOK ==
    /\ measuring \in BOOLEAN
    /\ auto \in BOOLEAN
    /\ autoTask \in Task \cup {"none"}
    /\ task \in [Task -> {"free", "waiting", "measuring", "appending", "reporting"}]
    /\ kind \in [Task -> {"manual", "auto"}]
    /\ stop \in [Task -> BOOLEAN]
    /\ result \in [Task -> 0..MaxRecords]
    /\ events \in Seq(Event)
    /\ shown \in Seq(Record)
    /\ \A t \in Task : task[t] = "free" => kind[t] = "manual" /\ ~stop[t]
    /\ auto => autoTask # "none" /\ kind[autoTask] = "auto" /\ ~stop[autoTask]

TypeOK == HistoryTypeOK /\ SpeedTestTypeOK /\ GuiTypeOK

Init ==
    /\ HistoryInit
    /\ SpeedTestInit
    /\ measuring = FALSE
    /\ auto = FALSE
    /\ autoTask = "none"
    /\ task = [t \in Task |-> "free"]
    /\ kind = [t \in Task |-> "manual"]
    /\ stop = [t \in Task |-> FALSE]
    /\ result = [t \in Task |-> 0]
    /\ events = <<>>
    /\ shown = <<>>

-----------------------------------------------------------------------------
(***************************************************************************)
(* The user interface thread.                                              *)
(***************************************************************************)

\* start_measurement, while the button is enabled; the frame has just drained
\* the channel, so that few events are in it.
Click ==
    /\ ~measuring /\ Len(events) <= EventCap
    /\ measuring' = TRUE
    /\ events' = Append(events, Started)
    /\ \E t \in Task :
          /\ task[t] = "free"
          /\ task' = [task EXCEPT ![t] = "measuring"]
    /\ UNCHANGED <<auto, autoTask, kind, stop, result, shown, fileVars, commandVars>>

\* set_auto(true) starts another loop.
AutoOn ==
    /\ ~auto
    /\ auto' = TRUE
    /\ \E t \in Task :
          /\ task[t] = "free"
          /\ task' = [task EXCEPT ![t] = "waiting"]
          /\ kind' = [kind EXCEPT ![t] = "auto"]
          /\ autoTask' = t
    /\ UNCHANGED <<measuring, stop, result, events, shown, fileVars, commandVars>>

\* Mutant: the sender is forgotten instead of used.
Unsignalled == stop

\* The signals sent once the loop has been told to stop.
Signalled == [stop EXCEPT ![autoTask] = TRUE]

\* set_auto(false).
AutoOff ==
    /\ auto
    /\ auto' = FALSE
    /\ stop' = Signalled
    /\ autoTask' = "none"
    /\ UNCHANGED <<measuring, task, kind, result, events, shown, fileVars, commandVars>>

\* Mutant: an error leaves the button as it is.
MeasuringUnlessError(e) ==
    e.type = "started" \/ (e.record = 0 /\ measuring)

\* self.measuring once e has been handled.
MeasuringAfter(e) == e.type = "started"

\* Mutant: a frame looks at one event and forgets the others.
Forgotten == <<>>

\* What is left in the channel for the next turn of the loop.
EventsLeft == Tail(events)

\* drain_events handles the next event.
Drain ==
    /\ events # <<>>
    /\ LET e == Head(events) IN
          /\ measuring' = MeasuringAfter(e)
          /\ shown' = IF e.record = 0 THEN shown ELSE Append(shown, e.record)
    /\ events' = EventsLeft
    /\ UNCHANGED <<auto, autoTask, task, kind, stop, result, fileVars, commandVars>>

-----------------------------------------------------------------------------
(***************************************************************************)
(* The measurements.                                                       *)
(***************************************************************************)

\* The loop wakes by its ticker and reports that a measurement starts.
AutoTick(t) ==
    /\ task[t] = "waiting"
    /\ Len(events) < EventCap
    /\ task' = [task EXCEPT ![t] = "measuring"]
    /\ events' = Append(events, Started)
    /\ UNCHANGED <<measuring, auto, autoTask, kind, stop, result, shown, fileVars, commandVars>>

\* Mutant: one stop flag outlives the loops.
StopKept(t) == stop

\* The signal goes with the loop that receives it.
StopConsumed(t) == [stop EXCEPT ![t] = FALSE]

\* The loop sees the stop signal; only here does it look for it.
AutoStop(t) ==
    /\ task[t] = "waiting" /\ stop[t]
    /\ task' = [task EXCEPT ![t] = "free"]
    /\ kind' = [kind EXCEPT ![t] = "manual"]
    /\ stop' = StopConsumed(t)
    /\ UNCHANGED <<measuring, auto, autoTask, result, events, shown, fileVars, commandVars>>

\* run_mlab_measurement has its results, and appends the record.
MeasureOk(t) ==
    /\ task[t] = "measuring"
    /\ Open(t)
    /\ task' = [task EXCEPT ![t] = "appending"]
    /\ UNCHANGED <<measuring, auto, autoTask, kind, stop, result, events, shown, commandVars>>

\* It fails, before or when it opens the file.
MeasureErr(t) ==
    /\ task[t] = "measuring"
    /\ task' = [task EXCEPT ![t] = "reporting"]
    /\ result' = [result EXCEPT ![t] = 0]
    /\ UNCHANGED <<measuring, auto, autoTask, kind, stop, events, shown, fileVars, commandVars>>

\* The two writes of append_history; after the second the record is reported.
TaskAppend(t) ==
    /\ task[t] = "appending"
    /\ AppendStep(t)
    /\ IF stage'[t] = "idle"
       THEN /\ task' = [task EXCEPT ![t] = "reporting"]
            /\ result' = [result EXCEPT ![t] = record[t]]
       ELSE UNCHANGED <<task, result>>
    /\ UNCHANGED <<measuring, auto, autoTask, kind, stop, events, shown, commandVars>>

\* One of the writes fails.
TaskAppendErr(t) ==
    /\ task[t] = "appending"
    /\ AppendCut(t)
    /\ task' = [task EXCEPT ![t] = "reporting"]
    /\ result' = [result EXCEPT ![t] = 0]
    /\ UNCHANGED <<measuring, auto, autoTask, kind, stop, events, shown, commandVars>>

\* The result is sent; a loop goes on, the task of a click is over.
Report(t) ==
    /\ task[t] = "reporting"
    /\ events' = Append(events, Finished(result[t]))
    /\ task' = [task EXCEPT ![t] = IF kind[t] = "auto" THEN "waiting" ELSE "free"]
    /\ result' = [result EXCEPT ![t] = 0]
    /\ UNCHANGED <<measuring, auto, autoTask, kind, stop, shown, fileVars, commandVars>>

Measurement(t) == MeasureOk(t) \/ MeasureErr(t) \/ TaskAppend(t) \/ Report(t)

\* A speedtest command of another process, or a prune.
Elsewhere ==
    /\ \/ \E c \in Command : CommandNext(c)
       \/ PruneStep /\ UNCHANGED commandVars
    /\ UNCHANGED guiVars

Next ==
    \/ Click
    \/ AutoOn
    \/ AutoOff
    \/ Drain
    \/ \E t \in Task :
          \/ AutoTick(t)
          \/ AutoStop(t)
          \/ Measurement(t)
          \/ TaskAppendErr(t)
    \/ Elsewhere

Spec == Init /\ [][Next]_vars

\* The window repaints every half second, tokio runs the tasks, a measurement
\* comes to an end, and select! picks among ready branches at random, so that
\* it does not always overlook a stop signal.
FairSpec ==
    /\ Spec
    /\ WF_vars(Drain)
    /\ \A t \in Task : WF_vars(Measurement(t)) /\ SF_vars(AutoStop(t))

-----------------------------------------------------------------------------
(***************************************************************************)
(* Properties.                                                             *)
(***************************************************************************)
Quiet == \A t \in Task : task[t] \in {"free", "waiting"}

\* The button does not stay disabled: once no measurement runs and the channel
\* is empty, it is enabled, however the measurements of several tasks have
\* overlapped and whether they failed or not (drain_events).
ButtonComesBack == Quiet /\ events = <<>> => ~measuring

Reported ==
    shown \o [i \in 1..Len(events) |-> events[i].record]

\* The window shows each record that its measurements have saved, once: none is
\* lost between the file and the list, though the channel, the button and the
\* loops are not synchronised (start_measurement, set_auto, drain_events).
ShownIsSaved ==
    LET mine == {s[2] : s \in {s \in saved : s[1] \in Task}} IN
    /\ \A r \in mine : \/ \E i \in 1..Len(Reported) : Reported[i] = r
                       \/ \E t \in Task : result[t] = r
    /\ \A i, j \in 1..Len(Reported) :
          Reported[i] # 0 => /\ Reported[i] \in mine
                             /\ Reported[i] = Reported[j] => i = j

\* Unticking the box stops every loop, also one in the middle of a measurement
\* and also if the box has been ticked and unticked before (set_auto).
AutoStops ==
    ~auto ~> auto \/ \A t \in Task : kind[t] = "auto" => task[t] = "free"
=============================================================================
