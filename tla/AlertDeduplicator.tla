------------------------- MODULE AlertDeduplicator -------------------------
(***************************************************************************)
(* AlertDeduplicator (src/risk/alert_deduplicator.cpp): the table of       *)
(* last-fired times by key, pruned every so many alerts, and the system    *)
(* clock the dispatcher reads, which an administrator or NTP may set back. *)
(***************************************************************************)
EXTENDS Integers

CONSTANTS Alerts,         \* alerts: records customer_id, rule_type, chain_id,
                          \* token_address; the last two may be NoValue
          NoValue,        \* std::nullopt
          RuleWindow,     \* per_rule_window_ms, by rule type
          DefaultWindow,  \* default_window_ms
          CleanupEvery,   \* cleanup_every_n_alerts
          MaxTime         \* bound on the clock

\* Every window: the default and the configured ones.
Windows == {DefaultWindow} \cup {RuleWindow[r] : r \in DOMAIN RuleWindow}

\* unordered_map<string, uint64_t>: finitely many windows, so one is longest.
ASSUME WindowAssumption ==
  /\ Windows \subseteq Nat
  /\ \E m \in Windows : \A w \in Windows : w <= m
  /\ CleanupEvery \in Nat
  /\ MaxTime \in Nat

\* std::optional<uint64_t> and the text of an address: neither text stands for
\* a value that is there.
ASSUME AlertsAssumption ==
  \A a \in Alerts : a.chain_id # "-" /\ a.token_address # ""

VARIABLES now,                            \* system_clock, in milliseconds
          last_fired_ms_,
          alerts_processed_since_cleanup_,
          lastSent,   \* history: when each key was last let through
          peak,       \* history: the latest time the clock ever showed
          verdict     \* the last answer of should_suppress

vars == <<now, last_fired_ms_, alerts_processed_since_cleanup_, lastSent, peak, verdict>>

\* Fault: one chain's alert stands for another's.
build_key_AnyChain(a) == <<a.customer_id, a.rule_type, "-",
                           IF a.token_address = NoValue THEN "" ELSE a.token_address>>

\* build_key: the four fields, "-" for no chain, "" for no token.  A tuple
\* stands for the joined string.
build_key(a) == <<a.customer_id, a.rule_type,
                  IF a.chain_id = NoValue THEN "-" ELSE a.chain_id,
                  IF a.token_address = NoValue THEN "" ELSE a.token_address>>

Keys == {build_key(a) : a \in Alerts}

\* The window of a key, from its rule type.
WindowOf(k) == IF k[2] \in DOMAIN RuleWindow THEN RuleWindow[k[2]] ELSE DefaultWindow

\* Fault: the maximum is taken before the windows are there.
max_configured_window_ms_Unset == 0

\* The constructor's maximum.
max_configured_window_ms_ == CHOOSE m \in Windows : \A w \in Windows : w <= m

Never == -1
NoVerdict == [key |-> << >>, suppressed |-> FALSE, at |-> 0]

Init == /\ now = 0
        /\ last_fired_ms_ = << >>
        /\ alerts_processed_since_cleanup_ = 0
        /\ lastSent = [k \in Keys |-> Never]
        /\ peak = 0
        /\ verdict = NoVerdict
----------------------------------------------------------------------------
Tracked(k) == k \in DOMAIN last_fired_ms_

\* Fault: a clock behind the entry does not suppress.
Recent_OnlyAfter(k) == /\ Tracked(k) /\ now >= last_fired_ms_[k]
                       /\ now - last_fired_ms_[k] < WindowOf(k)

\* The test of should_suppress: the clock is behind the entry, or within the
\* window after it.
Recent(k) == /\ Tracked(k)
             /\ \/ now < last_fired_ms_[k]
                \/ now - last_fired_ms_[k] < WindowOf(k)

\* The table after should_suppress recorded key k, when it lets k through.
Recorded(k) == IF Recent(k) THEN last_fired_ms_
               ELSE [x \in DOMAIN last_fired_ms_ \cup {k} |->
                       IF x = k THEN now ELSE last_fired_ms_[x]]

\* cleanup_stale_entries: entries ahead of the clock stay.
Stale(t) == now >= t /\ now - t > max_configured_window_ms_
cleanup_stale_entries(table) ==
  [x \in {y \in DOMAIN table : ~Stale(table[y])} |-> table[x]]

\* Every CleanupEvery-th call prunes the table.
CleanupDue == alerts_processed_since_cleanup_ + 1 >= CleanupEvery

should_suppress(k) ==
  /\ IF CleanupDue
     THEN /\ last_fired_ms_' = cleanup_stale_entries(Recorded(k))
          /\ alerts_processed_since_cleanup_' = 0
     ELSE /\ last_fired_ms_' = Recorded(k)
          /\ alerts_processed_since_cleanup_' = alerts_processed_since_cleanup_ + 1
  /\ verdict' = [key |-> k, suppressed |-> Recent(k), at |-> now]
  /\ lastSent' = IF Recent(k) THEN lastSent ELSE [lastSent EXCEPT ![k] = now]
  /\ UNCHANGED <<now, peak>>

\* External: the clock advances, or is set back.
Tick == /\ now' \in (now + 1)..MaxTime
        /\ peak' = IF now' > peak THEN now' ELSE peak
        /\ UNCHANGED <<last_fired_ms_, alerts_processed_since_cleanup_, lastSent, verdict>>

StepBack == /\ now' \in 0..(now - 1)
            /\ UNCHANGED <<last_fired_ms_, alerts_processed_since_cleanup_,
                           lastSent, peak, verdict>>

Next == Tick \/ StepBack \/ \E a \in Alerts : should_suppress(build_key(a))

Spec == Init /\ [][Next]_vars
----------------------------------------------------------------------------
(* Properties *)

TypeOK ==
  /\ now \in 0..MaxTime /\ peak \in 0..MaxTime
  /\ alerts_processed_since_cleanup_ \in Nat
  /\ DOMAIN last_fired_ms_ \subseteq Keys
  /\ \A k \in DOMAIN last_fired_ms_ : last_fired_ms_[k] \in Nat
  /\ lastSent \in [Keys -> Nat \cup {Never}]
  /\ verdict \in {NoVerdict} \cup [key : Keys, suppressed : BOOLEAN, at : Nat]

\* Two alerts with one key are let through only when the clock has shown a
\* time at least a window after the first: neither the pruning of the table
\* (with a limit that covers every rule's window) nor a clock set back lets a
\* duplicate out earlier.
SendsAreSpaced ==
  [][\A k \in Keys : (lastSent[k] # Never /\ lastSent'[k] # lastSent[k])
                        => peak - lastSent[k] >= WindowOf(k)]_vars

\* An alert is suppressed only on account of an alert with the same four
\* fields that was let through, and whose window has not passed on the clock
\* read: nothing is suppressed by an entry of another key, or by an old one.
SuppressionJustified ==
  verdict.suppressed => /\ lastSent[verdict.key] # Never
                        /\ verdict.at < lastSent[verdict.key] + WindowOf(verdict.key)

\* The pruned table answers every alert as AlertWindow promises: on a clock that
\* is never set back, exactly as a table that forgets nothing would.
Promise == INSTANCE AlertWindow WITH Window <- WindowOf
ImplementsWindow == Promise!WindowSpec

\* The inductive invariant: an entry is the last time its key was let through,
\* and a key without an entry was let through never, or longer ago than the
\* longest window (on the latest clock reading).
TableInv ==
  /\ now <= peak
  /\ \A k \in Keys : lastSent[k] <= peak
  /\ \A k \in DOMAIN last_fired_ms_ : last_fired_ms_[k] = lastSent[k]
  /\ \A k \in Keys \ DOMAIN last_fired_ms_ :
        lastSent[k] = Never \/ peak - lastSent[k] > max_configured_window_ms_
IInv == TypeOK /\ TableInv /\ SuppressionJustified
=============================================================================
