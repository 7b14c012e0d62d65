-------------------------- MODULE AlertDispatcher --------------------------
(***************************************************************************)
(* AlertDispatcher::run with deduplication and fan-out, and send() of the  *)
(* live channels: console, Telegram and webhooks.  A channel reports a     *)
(* failure only by throwing: HTTP errors are logged and swallowed inside   *)
(* send().                                                                 *)
(*                                                                         *)
(* The n-th alert dispatched is item n of the history `dispatched`; the    *)
(* queue holds item numbers.                                               *)
(***************************************************************************)
EXTENDS AlertQueue, AlertDeduplicator, FiniteSets

CONSTANTS channels_,   \* the registered channels, in order
          Endpoints,   \* Endpoints[c]: the webhook urls of customer c
          MaxAlerts    \* bound: alerts the engine dispatches

\* App::init_modules_ registers each channel at most once.
ASSUME DispatcherAssumption ==
  /\ MaxAlerts \in Nat
  /\ channels_ \in Seq({"console", "telegram", "webhook"})
  /\ \A i, j \in DOMAIN channels_ : channels_[i] = channels_[j] => i = j

VARIABLES dispatched,  \* history: every alert dispatched, in order
          current,     \* the item run() is handling; 0: none
          nextChannel, \* index of the channel to send to next
          stopCalled,  \* history: stop() was called
          alerts_sent_total, alerts_send_failures_total, alerts_deduplicated_total,
          suppressed,  \* history: items dropped as duplicates, in order
          completed    \* history: items sent to the channels, in order

counters == <<alerts_sent_total, alerts_send_failures_total, alerts_deduplicated_total>>
sendVars == <<current, nextChannel, counters, suppressed, completed>>
dispatcherVars == <<queueVars, vars, dispatched, stopCalled, sendVars>>

Names == {channels_[i] : i \in DOMAIN channels_}

DispatcherInit ==
  /\ Init /\ QueueInit
  /\ dispatched = << >> /\ current = 0 /\ nextChannel = 0 /\ stopCalled = FALSE
  /\ alerts_sent_total = [c \in Names |-> 0]
  /\ alerts_send_failures_total = [c \in Names |-> 0]
  /\ alerts_deduplicated_total = 0
  /\ suppressed = << >> /\ completed = << >>
----------------------------------------------------------------------------
(* Channels: whether one send() throws.  Whom it reaches stays inside it.  *)

ConsoleSend == {FALSE}
\* No curl handle, a transport error and an HTTP status outside 2xx are logged;
\* only the payload's serialisation throws.
TelegramSend == BOOLEAN
\* The payload is built once, then each endpoint succeeds or fails on its own
\* and is logged; a customer without endpoints is skipped before anything can
\* throw.
WebhookSend(alert) == IF Endpoints[alert.customer_id] = {} THEN {FALSE} ELSE BOOLEAN

Threw(ch, alert) ==
  CASE ch = "console"  -> ConsoleSend
    [] ch = "telegram" -> TelegramSend
    [] ch = "webhook"  -> WebhookSend(alert)
----------------------------------------------------------------------------
(* The engine and the main thread *)

Dispatch(alert) ==
  /\ Len(dispatched) < MaxAlerts /\ ~stopCalled
  /\ dispatch(Len(dispatched) + 1)
  /\ dispatched' = Append(dispatched, alert)
  /\ UNCHANGED <<vars, stopCalled, sendVars>>

\* A stop() before run() has begun is lost; LiveApp is about that.
StopDispatcher == /\ ~stopCalled /\ dpc # "start"
                  /\ DispatcherStop
                  /\ stopCalled' = TRUE
                  /\ UNCHANGED <<vars, dispatched, sendVars>>

Clock == (Tick \/ StepBack) /\ UNCHANGED <<queueVars, dispatched, stopCalled, sendVars>>
----------------------------------------------------------------------------
(* run() *)

Enter == /\ DispatcherStart
         /\ UNCHANGED <<vars, dispatched, stopCalled, sendVars>>

Leave == /\ DispatcherExit
         /\ UNCHANGED <<vars, dispatched, stopCalled, sendVars>>

TakeInto(item) == /\ TakeAlert
                  /\ current' = item
                  /\ UNCHANGED <<vars, dispatched, stopCalled, nextChannel, counters,
                                 suppressed, completed>>

\* Fault: back() is read where pop() removes the front.
Take_Back == TakeInto(queue_[Len(queue_)])

Take == TakeInto(Head(queue_))

\* should_suppress records the key before anything is sent.
Deduplicate ==
  LET key == build_key(dispatched[current])
  IN  /\ dpc = "handle" /\ current # 0 /\ nextChannel = 0
      /\ should_suppress(key)
      /\ IF Recent(key)
         THEN /\ alerts_deduplicated_total' = alerts_deduplicated_total + 1
              /\ suppressed' = Append(suppressed, current)
              /\ current' = 0
              /\ BackToWait
              /\ UNCHANGED nextChannel
         ELSE /\ nextChannel' = 1
              /\ UNCHANGED <<alerts_deduplicated_total, suppressed, current, queueVars>>
      /\ UNCHANGED <<dispatched, stopCalled, alerts_sent_total,
                     alerts_send_failures_total, completed>>

\* One channel's send(), its exception caught; the loop goes on either way.
Count(threw, ch) ==
  IF threw
  THEN /\ alerts_send_failures_total' = [alerts_send_failures_total EXCEPT ![ch] = @ + 1]
       /\ UNCHANGED alerts_sent_total
  ELSE /\ alerts_sent_total' = [alerts_sent_total EXCEPT ![ch] = @ + 1]
       /\ UNCHANGED alerts_send_failures_total

SendThen(afterThrow) ==
  /\ dpc = "handle" /\ nextChannel \in DOMAIN channels_
  /\ LET ch == channels_[nextChannel]
     IN  \E threw \in Threw(ch, dispatched[current]) :
           /\ Count(threw, ch)
           /\ nextChannel' = IF threw THEN afterThrow ELSE nextChannel + 1
  /\ UNCHANGED <<queueVars, vars, dispatched, stopCalled, current,
                 alerts_deduplicated_total, suppressed, completed>>

\* Fault: an exception ends the loop over the channels.
Send_StopsOnThrow == SendThen(Len(channels_) + 1)

Send == SendThen(nextChannel + 1)

\* After the last channel.
Finish ==
  /\ nextChannel > Len(channels_)
  /\ BackToWait
  /\ completed' = Append(completed, current)
  /\ current' = 0 /\ nextChannel' = 0
  /\ UNCHANGED <<vars, dispatched, stopCalled, counters, suppressed>>

Run == Enter \/ Take \/ Deduplicate \/ Send \/ Finish \/ Leave

DispatcherNext == Run \/ Clock \/ StopDispatcher \/ \E a \in Alerts : Dispatch(a)

\* The dispatcher's thread is scheduled, and send() has timeouts.
DispatcherSpec == /\ DispatcherInit /\ [][DispatcherNext]_dispatcherVars
                  /\ WF_dispatcherVars(Run)
----------------------------------------------------------------------------
(* Properties that hold *)

Elements(s) == {s[i] : i \in DOMAIN s}
InHand == IF current = 0 THEN {} ELSE {current}

\* No alert is lost, handled twice or overtaken between dispatch() and the
\* channels, through suppression, exceptions and shutdown: the items done are
\* the first ones dispatched, each either suppressed or sent, in order.
EveryAlertAccounted ==
  /\ Elements(suppressed) \cup Elements(completed) \cup InHand
       = 1..(Len(dispatched) - Len(queue_))
  /\ Elements(suppressed) \cap Elements(completed) = {}
  /\ Len(suppressed) + Len(completed) + Cardinality(InHand)
       = Len(dispatched) - Len(queue_)

\* README, counter semantics: an alert is counted by every channel exactly
\* once, as sent or as failed, also when an earlier channel threw; a
\* suppressed one only as deduplicated.
CountersAddUp ==
  /\ \A i \in DOMAIN channels_ :
       alerts_sent_total[channels_[i]] + alerts_send_failures_total[channels_[i]]
         = Len(completed) + (IF nextChannel > i THEN 1 ELSE 0)
  /\ alerts_deduplicated_total = Len(suppressed)

\* run() ends only with the queue empty and every alert done with (alerts are
\* not dispatched after stop(), as in a backtest).
StopDrainsQueue ==
  dpc = "done" => Len(suppressed) + Len(completed) = Len(dispatched)

SameSubject(a, b) ==
  \A f \in {"customer_id", "rule_type", "chain_id", "token_address"} : a[f] = b[f]

\* README: an alert is dropped if one "with the same dedup key has already been
\* sent".  The key is recorded before anything is sent; but by the time an alert
\* is dropped, an earlier one about the same customer, rule, chain and token has
\* been offered to every channel - whether a webhook or Telegram then delivered
\* it or not.
SuppressedWasSent ==
  \A n \in Elements(suppressed) : \E m \in Elements(completed) :
     m < n /\ SameSubject(dispatched[m], dispatched[n])

\* Every alert dispatched is suppressed or sent to all channels in the end.
EveryAlertHandled ==
  \A n \in 1..MaxAlerts :
     (Len(dispatched) >= n) ~> (n \in Elements(suppressed) \cup Elements(completed))
=============================================================================
