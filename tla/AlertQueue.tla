----------------------------- MODULE AlertQueue -----------------------------
(***************************************************************************)
(* The queue and thread life cycle of AlertDispatcher                      *)
(* (src/risk/alert_dispatcher.cpp): dispatch() from the engine, stop()     *)
(* from the main thread, run() on its own thread.  What run() does with an *)
(* alert once it is off the queue is module AlertDispatcher.               *)
(***************************************************************************)
EXTENDS Sequences

VARIABLES queue_,
          dispatcherRunning,  \* AlertDispatcher::running_
          dpc                 \* where run() is

queueVars == <<queue_, dispatcherRunning, dpc>>

QueueInit == queue_ = << >> /\ dispatcherRunning = FALSE /\ dpc = "start"

dispatch(alert) == /\ queue_' = Append(queue_, alert)
                   /\ UNCHANGED <<dispatcherRunning, dpc>>

\* The thread gets to the first line of run().
DispatcherStart == /\ dpc = "start"
                   /\ dispatcherRunning' = TRUE
                   /\ dpc' = "loop"
                   /\ UNCHANGED queue_

\* Fault: alerts are taken only while the dispatcher runs.
TakeAlert_OnlyRunning == /\ dpc = "loop" /\ queue_ # << >> /\ dispatcherRunning
                         /\ queue_' = Tail(queue_)
                         /\ dpc' = "handle"
                         /\ UNCHANGED dispatcherRunning

\* The wait ends with an alert in the queue, whatever running_ says.
TakeAlert == /\ dpc = "loop" /\ queue_ # << >>
             /\ queue_' = Tail(queue_)
             /\ dpc' = "handle"
             /\ UNCHANGED dispatcherRunning

\* Fault: stop() ends the loop with alerts still queued.
DispatcherExit_LeavesQueue == /\ dpc = "loop" /\ ~dispatcherRunning
                              /\ dpc' = "done"
                              /\ UNCHANGED <<queue_, dispatcherRunning>>

\* The wait ends, or its second passes, with nothing queued and stop() called.
DispatcherExit == /\ dpc = "loop" /\ queue_ = << >> /\ ~dispatcherRunning
                  /\ dpc' = "done"
                  /\ UNCHANGED <<queue_, dispatcherRunning>>

\* run() goes back to waiting.
BackToWait == /\ dpc = "handle" /\ dpc' = "loop"
              /\ UNCHANGED <<queue_, dispatcherRunning>>

\* stop(), from the main thread.  The wait has a timeout of a second, so a
\* notification that comes too early only delays the exit.
DispatcherStop == /\ dispatcherRunning' = FALSE
                  /\ UNCHANGED <<queue_, dpc>>
=============================================================================
