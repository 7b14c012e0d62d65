------------------------------- MODULE Health -------------------------------
(***************************************************************************)
(* The health endpoints (src/health): heartbeats of the pipeline threads,  *)
(* evaluate_readiness on the HTTP server's worker threads with App's       *)
(* database probe, the server's start and its stop at shutdown.  Time is   *)
(* in seconds, on two clocks: heartbeats are dated by the steady clock,    *)
(* which begins at 1 here, RPC successes by the system clock, which may be *)
(* set.                                                                    *)
(***************************************************************************)
EXTENDS Integers

CONSTANTS Threads,          \* the pipeline threads with a heartbeat
          Probes,           \* HTTP workers that may serve /readyz at once
          HeartbeatMaxAge,  \* heartbeat_max_age_ms
          RpcMaxSilence,    \* rpc_max_silence_ms
          LoopPeriod,       \* longest idle iteration of a pipeline thread
          CallTimeout,      \* CURLOPT_TIMEOUT of RPC, Telegram and webhooks
          UINT64_MAX,
          Leads,            \* by how much the system clock may be ahead of the other
          TickLength,       \* the seconds that pass at once
          MaxTime,          \* bound on the steady clock
          MaxCalls,         \* bound on RPC calls
          MaxSets           \* bound on how often the system clock is set

\* An idle thread sleeps for 200 ms or waits for a second; 5 s is stale.
ASSUME HealthAssumption ==
  /\ {HeartbeatMaxAge, RpcMaxSilence, LoopPeriod, CallTimeout, TickLength, MaxTime,
      MaxCalls, MaxSets} \subseteq Nat
  /\ LoopPeriod <= HeartbeatMaxAge /\ RpcMaxSilence > 0
  /\ UINT64_MAX \in Nat /\ UINT64_MAX > HeartbeatMaxAge /\ UINT64_MAX > MaxTime
  /\ Leads \subseteq Nat
  /\ {"event_source", "dispatcher"} \subseteq Threads
  /\ Threads \subseteq {"event_source", "risk_engine", "dispatcher"}

VARIABLES now,         \* the steady clock
          lead,        \* by how much the system clock is ahead of it
          back,        \* history: by how much it has been set back, in total
          sets,        \* how often it has been set, up to MaxSets
          last_ms_,    \* Heartbeat::last_ms_ of each thread
          tpc,         \* what each thread is doing
          since,       \* since when it has been busy, back or stuck
          server,      \* the HTTP server, from the construction of its App on
          connAlive,   \* the session of conn_ exists at the database
          connOpen,    \* what conn_->is_open() says
          ppc,         \* where each probe is in evaluate_readiness
          now_ms,      \* the clock each probe read
          report,      \* its checks so far
          cause,       \* history: the first thing that could fail it
          last_rpc_success,  \* last_rpc_success_timestamp_seconds; 0: none yet
          heard,             \* history: the steady clock at that success
          calls              \* RPC calls made, up to MaxCalls

Checks == {"threads_alive", "db_connected", "rpc_recent", "heartbeats_recorded"}

clockVars  == <<now, lead, back, sets>>
threadVars == <<last_ms_, tpc, since>>
dbVars     == <<connAlive, connOpen>>
probeVars  == <<ppc, now_ms, report, cause>>
rpcVars    == <<last_rpc_success, heard, calls>>
healthVars == <<clockVars, threadVars, server, dbVars, probeVars, rpcVars>>

system_now == now + lead

Starting(beat) ==
  /\ now = 1 /\ lead \in Leads /\ back = 0 /\ sets = 0
  /\ last_ms_ = [t \in Threads |-> beat]
  /\ tpc = [t \in Threads |-> "off"] /\ since = [t \in Threads |-> 0]
  /\ server = "off"
  /\ connAlive = TRUE /\ connOpen = TRUE
  /\ ppc = [p \in Probes |-> "idle"] /\ now_ms = [p \in Probes |-> 0]
  /\ report = [p \in Probes |-> {}] /\ cause = [p \in Probes |-> "none"]
  /\ last_rpc_success = 0 /\ heard = 0 /\ calls = 0

\* Fault: heartbeats begin as recorded.
HealthInit_FreshBeats == Starting(1)

HealthInit == Starting(0)
----------------------------------------------------------------------------
(* JsonRpcClient::call: only an answer with a result is dated.  No curl     *)
(* handle, a transport error or timeout, a status other than 200, a body    *)
(* that is not JSON, an error member, no result member: an exception, and   *)
(* no trace here.                                                           *)

Hear(answered) == heard' = IF answered THEN now ELSE heard

\* Fault: a call is dated when it ends, whatever became of it.
call_DatesFailures(answered) == last_rpc_success' = system_now /\ Hear(answered)

call(answered) == /\ last_rpc_success' = IF answered THEN system_now ELSE last_rpc_success
                  /\ Hear(answered)
----------------------------------------------------------------------------
(* App::run up to the wait *)

\* The event source's constructor asks for the chain id; when that throws, the
\* process ends.  The threads are started next, and then the server's.
StartPipeline == /\ server = "off"
                 /\ call(TRUE)
                 /\ tpc' = [t \in Threads |-> "new"] /\ server' = "starting"
                 /\ UNCHANGED <<clockVars, last_ms_, since, dbVars, probeVars, calls>>

\* The server's thread gets to listen().  One that cannot serves nobody.
Listen == /\ server = "starting"
          /\ server' \in {"serving", "stopping"}
          /\ UNCHANGED <<clockVars, threadVars, dbVars, probeVars, rpcVars>>
----------------------------------------------------------------------------
(* The pipeline threads *)

\* One iteration of run() begins.
Record(t) == /\ tpc[t] \in {"new", "loop", "back"}
             /\ last_ms_' = [last_ms_ EXCEPT ![t] = now]
             /\ tpc' = [tpc EXCEPT ![t] = "loop"] /\ since' = [since EXCEPT ![t] = 0]
             /\ UNCHANGED <<clockVars, server, dbVars, probeVars, rpcVars>>

\* The source calls the node, or the dispatcher an endpoint.
Begin(t) == /\ tpc[t] = "loop"
            /\ t = "dispatcher" \/ (t = "event_source" /\ calls < MaxCalls)
            /\ tpc' = [tpc EXCEPT ![t] = "busy"] /\ since' = [since EXCEPT ![t] = now]
            /\ UNCHANGED <<clockVars, last_ms_, server, dbVars, probeVars, rpcVars>>

\* The call ends, and the next one follows or the iteration winds up.
Continue(t) == /\ tpc[t] = "busy"
               /\ since' = [since EXCEPT ![t] = now]
               /\ \/ tpc' = [tpc EXCEPT ![t] = "back"]
                  \/ (t = "event_source" => calls + 1 < MaxCalls) /\ UNCHANGED tpc
               /\ UNCHANGED <<clockVars, last_ms_, server, dbVars, probeVars>>

EndCall == /\ Continue("event_source")
           /\ \E answered \in BOOLEAN : call(answered)
           /\ calls' = calls + 1
EndSend == Continue("dispatcher") /\ UNCHANGED rpcVars

\* A thread never gets on again, whatever the reason.
Stick(t) == /\ tpc[t] \in {"loop", "busy", "back"}
            /\ tpc' = [tpc EXCEPT ![t] = "stuck"] /\ since' = [since EXCEPT ![t] = now]
            /\ UNCHANGED <<clockVars, last_ms_, server, dbVars, probeVars, rpcVars>>

\* External: time passes on both clocks.  A looping thread comes round first, a
\* call times out.
Tick == /\ now' = now + TickLength /\ now' <= MaxTime
        /\ \A t \in Threads : /\ tpc[t] = "loop" => now' <= last_ms_[t] + LoopPeriod
                              /\ tpc[t] = "back" => now' <= since[t] + LoopPeriod
                              /\ tpc[t] = "busy" => now' <= since[t] + CallTimeout
        /\ UNCHANGED <<lead, back, sets, threadVars, server, dbVars, probeVars, rpcVars>>

\* External: somebody, or NTP, sets the system clock.
SetClock == /\ sets < MaxSets /\ sets' = sets + 1
            /\ lead' \in Leads \ {lead}
            /\ back' = IF lead' < lead THEN back + (lead - lead') ELSE back
            /\ UNCHANGED <<now, threadVars, server, dbVars, probeVars, rpcVars>>
----------------------------------------------------------------------------

\* External: the database goes down, and the session of conn_ with it.  Whether
\* it comes back makes no difference: nothing opens conn_ again.
DbDown == /\ connAlive /\ connAlive' = FALSE
          /\ UNCHANGED <<clockVars, threadVars, server, connOpen, probeVars, rpcVars>>
----------------------------------------------------------------------------
(* evaluate_readiness *)

InProgress(p) == ppc[p] # "idle"

\* A check: where it comes in the report, and where the probe goes next.
Step(p, from, to) == /\ ppc[p] = from /\ ppc' = [ppc EXCEPT ![p] = to]
                     /\ UNCHANGED <<clockVars, threadVars, server, connAlive, rpcVars>>
Result(p, check, ok) == report' = [report EXCEPT ![p] = IF ok THEN @ \cup {check} ELSE @]
Blame(p, what) == cause' = [cause EXCEPT ![p] = IF @ = "none" THEN what ELSE @]

Request(p) ==
  /\ server = "serving"
  /\ Step(p, "idle", "threads")
  /\ now_ms' = [now_ms EXCEPT ![p] = now]
  /\ report' = [report EXCEPT ![p] = {}]
  /\ cause' = [cause EXCEPT ![p] =
                 IF \A t \in Threads : tpc[t] = "loop" THEN "none" ELSE "notLooping"]
  /\ UNCHANGED connOpen

\* Fault: no test for a heartbeat later than the clock that was read.
age_ms_Wraps(t, n) == IF last_ms_[t] = 0 THEN UINT64_MAX
                      ELSE (n - last_ms_[t]) % (UINT64_MAX + 1)

age_ms(t, n) == CASE last_ms_[t] = 0 -> UINT64_MAX
                  [] n < last_ms_[t] -> 0
                  [] OTHER           -> n - last_ms_[t]

AllAlive(p, threads) == \A t \in threads : age_ms(t, now_ms[p]) <= HeartbeatMaxAge

\* Fault: the dispatcher is not looked at.
CheckThreads_NoDispatcher(p) ==
  /\ Step(p, "threads", "db")
  /\ Result(p, "threads_alive", AllAlive(p, Threads \ {"dispatcher"}))
  /\ UNCHANGED <<connOpen, now_ms, cause>>

CheckThreads(p) == /\ Step(p, "threads", "db")
                   /\ Result(p, "threads_alive", AllAlive(p, Threads))
                   /\ UNCHANGED <<connOpen, now_ms, cause>>

\* db_probe: the connection is closed, or has a transaction under way, on
\* which pqxx refuses a second one.
DbClosed(p) == /\ ~connOpen /\ Step(p, "db", "rpc")
               /\ UNCHANGED <<connOpen, now_ms, report, cause>>

DbCollides(p) == /\ connOpen /\ \E q \in Probes : ppc[q] = "select"
                 /\ Step(p, "db", "rpc")
                 /\ Blame(p, "collided")
                 /\ UNCHANGED <<connOpen, now_ms, report>>

DbBegin(p) == /\ connOpen /\ \A q \in Probes : ppc[q] # "select"
              /\ Step(p, "db", "select")
              /\ UNCHANGED <<connOpen, now_ms, report, cause>>

\* SELECT 1: a session that is gone is noticed here, and closed for good.
DbSelect(p) == /\ Step(p, "select", "rpc")
               /\ Result(p, "db_connected", connAlive)
               /\ connOpen' = connAlive
               /\ UNCHANGED <<now_ms, cause>>

\* History: what may have made the check fail.
Blamed == IF now - heard >= RpcMaxSilence THEN "rpcSilent"
          ELSE IF last_rpc_success < heard + lead THEN "setForward" ELSE "none"

\* A success dated later than the system clock now says counts as fresh, and a
\* gauge of 0 as a service that is starting.
CheckRpc(p) ==
  /\ Step(p, "rpc", "recorded")
  /\ LET silence == IF system_now >= last_rpc_success
                    THEN system_now - last_rpc_success ELSE 0
     IN  Result(p, "rpc_recent", last_rpc_success = 0 \/ silence < RpcMaxSilence)
  /\ Blame(p, Blamed)
  /\ UNCHANGED <<connOpen, now_ms>>

CheckRecorded(p) == /\ Step(p, "recorded", "answer")
                    /\ Result(p, "heartbeats_recorded", \A t \in Threads : last_ms_[t] # 0)
                    /\ UNCHANGED <<connOpen, now_ms, cause>>

\* 200 when every check is ok, else 503; the worker is free again.
Answer(p) == /\ Step(p, "answer", "idle")
             /\ now_ms' = [now_ms EXCEPT ![p] = 0]
             /\ report' = [report EXCEPT ![p] = {}] /\ cause' = [cause EXCEPT ![p] = "none"]
             /\ UNCHANGED connOpen

Probe(p) == \/ Request(p) \/ CheckThreads(p)
            \/ DbClosed(p) \/ DbCollides(p) \/ DbBegin(p) \/ DbSelect(p)
            \/ CheckRpc(p) \/ CheckRecorded(p) \/ Answer(p)
----------------------------------------------------------------------------
(* stop_orderly_: the server first, then the threads *)

StopServer == /\ server = "serving" /\ server' = "stopping"
              /\ UNCHANGED <<clockVars, threadVars, dbVars, probeVars, rpcVars>>

\* Fault: the server's thread is not joined.
JoinServer_NoWait == /\ server = "stopping" /\ server' = "joined"
                     /\ UNCHANGED <<clockVars, threadVars, dbVars, probeVars, rpcVars>>

\* listen() returns when the workers have answered what they had accepted.
JoinServer == /\ server = "stopping" /\ \A p \in Probes : ~InProgress(p)
              /\ server' = "joined"
              /\ UNCHANGED <<clockVars, threadVars, dbVars, probeVars, rpcVars>>

StopThread(t) == /\ server = "joined" /\ tpc[t] \in {"new", "loop", "back"}
                 /\ tpc' = [tpc EXCEPT ![t] = "stopped"]
                 /\ UNCHANGED <<clockVars, last_ms_, since, server, dbVars, probeVars, rpcVars>>

HealthNext == \/ StartPipeline \/ Listen \/ SetClock
              \/ \E t \in Threads : Record(t) \/ Begin(t) \/ Stick(t) \/ StopThread(t)
              \/ EndCall \/ EndSend \/ Tick \/ DbDown
              \/ \E p \in Probes : Probe(p)
              \/ StopServer \/ JoinServer

HealthSpec == HealthInit /\ [][HealthNext]_healthVars
----------------------------------------------------------------------------
(* Properties that hold *)

Ready(p)    == ppc[p] = "answer" /\ report[p] = Checks
NotReady(p) == ppc[p] = "answer" /\ report[p] # Checks

\* A thread that stopped coming round more than heartbeat_max_age_ms before
\* a request is noticed by it, in whatever order the checks and the other
\* threads' heartbeats interleave.
StuckThreadNoticed ==
  \A p \in Probes : Ready(p) =>
    \A t \in Threads : tpc[t] = "stuck" => since[t] + HeartbeatMaxAge >= now_ms[p]

\* No service is ready before each of its threads has begun to work: the two
\* heartbeat checks read at different times, and both have to let it through.
ReadyMeansStarted ==
  \A p \in Probes : Ready(p) => \A t \in Threads : tpc[t] \notin {"off", "new"}

\* An outage of the node is noticed: a ready service has heard from it within
\* rpc_max_silence_ms of the request.  The success is dated by a clock that may
\* be set, and what lies in its future counts as fresh: every second the clock
\* is set back may hide a second more of the outage, and nothing else may.
RpcOutageNoticed ==
  \A p \in Probes : Ready(p) => now_ms[p] - heard < RpcMaxSilence + back

\* A 503 has one of five causes: some thread was not in its loop when the
\* request came, the database went away - then or at any time before, since
\* conn_ is never opened again -, another request was probing the database at
\* the same moment, the node was silent, or the system clock was set forward
\* after the node was last heard.  A heartbeat recorded after the probe has
\* read its clock is not among them, nor is a clock set back.
NoFalseAlarm ==
  \A p \in Probes : NotReady(p) => cause[p] # "none" \/ ~connAlive

\* app.cpp, stop_orderly_: the server is stopped first "so no /readyz probe
\* observes a partially torn-down pipeline".
ProbesSeeWholePipeline ==
  (\E p \in Probes : InProgress(p)) => \A t \in Threads : tpc[t] # "stopped"
=============================================================================
