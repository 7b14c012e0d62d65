-------------------------- MODULE RiskRulesProofs --------------------------
(***************************************************************************)
(* What the rules tell of a log, for every configuration, every set of     *)
(* logs and every width of a word.                                         *)
(***************************************************************************)
EXTENDS RiskRules, ConversionsProofs

----------------------------------------------------------------------------
(* The oracle rule: its baselines are the last valid answers *)

\* What the division of DeltaBps rounds away does not decide.
LEMMA DivAbove ==
  ASSUME NEW n \in Nat, NEW p \in Nat, p > 0, NEW t \in Nat
  PROVE  n \div p > t <=> n >= (t + 1) * p
<1>1. n \div p \in Int /\ n \div p >= 0
  OBVIOUS
<1>2. p * (n \div p) <= n
  OBVIOUS
<1>3. n < p * (n \div p) + p
  OBVIOUS
<1> DEFINE q == n \div p
<1>4. q \in Nat /\ p * q <= n /\ n < p * q + p
  BY <1>1, <1>2, <1>3
<1> HIDE DEF q
<1>5. \A a, b \in Nat : a <= b => a * p <= b * p
  OBVIOUS
<1>6. ASSUME q > t PROVE n >= (t + 1) * p
  <2>1. (t + 1) * p <= q * p
    BY <1>4, <1>5, <1>6
  <2> QED BY <1>4, <2>1
<1>7. ASSUME ~(q > t) PROVE ~(n >= (t + 1) * p)
  <2>1. q * p <= t * p
    BY <1>4, <1>5, <1>7
  <2>2. (t + 1) * p = t * p + p
    OBVIOUS
  <2> QED BY <1>4, <2>1, <2>2
<1> QED BY <1>6, <1>7 DEF q

\* The saturation of DeltaBps does not decide either: no threshold reaches it.
LEMMA SpikeIsExact ==
  ASSUME NEW cur \in Nat, NEW prev \in Nat, prev > 0, NEW t \in 0..(U64 - 2)
  PROVE  DeltaBps(cur, prev) > t <=> Distance(cur, prev) * 10000 >= (t + 1) * prev
<1> DEFINE n == Distance(cur, prev) * 10000
<1>1. n \in Nat
  BY DEF Distance
<1> HIDE DEF n
<1>2. U64 \in Nat /\ t \in Nat
  BY WidthAssumption
<1>3. n \div prev > t <=> n >= (t + 1) * prev
  BY <1>1, <1>2, DivAbove
<1>4. n \div prev \in Int
  BY <1>1
<1>5. DeltaBps(cur, prev) = AtMost(n \div prev, U64 - 1)
  BY DEF DeltaBps, n
<1>6. DeltaBps(cur, prev) > t <=> n \div prev > t
  BY <1>2, <1>4, <1>5 DEF AtMost
<1> QED BY <1>3, <1>6 DEF n

\* The four kinds of signal, one case each: the cases of normalize exclude one
\* another.
TypeOf(raw) == IF raw.topic_count > 0 THEN classify_topic0(raw.topic0) ELSE "Unknown"
IsOracle(raw) == /\ raw.topic0 = "AnswerUpdated" /\ raw.topic_count >= 3
                 /\ data_size(raw) >= WordWidth
IsGovernance(raw) == raw.topic_count > 0 /\ raw.topic0 \in GovernanceTopics

\* Each of the four makes its own signal.
LEMMA NormalizeCases ==
  ASSUME NEW raw \in RawLogs
  PROVE  /\ IsGovernance(raw) =>
              normalize(raw) = [type |-> "Governance", payload |-> GovernanceEvent(raw)]
         /\ IsMintBurn(raw) =>
              normalize(raw) = [type |-> "MintBurn", payload |-> MintBurnEvent(raw)]
         /\ IsOracle(raw) =>
              normalize(raw) = [type |-> "OracleUpdate", payload |-> OracleUpdateEvent(raw)]
         /\ ~IsGovernance(raw) /\ ~IsMintBurn(raw) /\ ~IsOracle(raw) =>
              normalize(raw) = [type |-> TypeOf(raw), payload |-> EvmLogEvent(raw)]
<1> DEFINE type == TypeOf(raw)
           Oracle == type = "OracleUpdate" /\ raw.topic_count >= 3 /\ data_size(raw) >= WordWidth
<1>1. /\ classify_topic0(raw.topic0) = "OracleUpdate" <=> raw.topic0 = "AnswerUpdated"
      /\ classify_topic0(raw.topic0) = "Governance" <=> raw.topic0 \in GovernanceTopics
  BY DEF classify_topic0, GovernanceTopics
<1>2. raw.topic_count \in Nat
  BY LogAssumption
<1>3. Oracle <=> IsOracle(raw)
  BY <1>1, <1>2 DEF IsOracle, TypeOf
<1>4. type = "Governance" <=> IsGovernance(raw)
  BY <1>1, <1>2 DEF IsGovernance, TypeOf
<1>5. /\ ~(IsOracle(raw) /\ IsMintBurn(raw))
      /\ ~(IsOracle(raw) /\ IsGovernance(raw))
      /\ ~(IsMintBurn(raw) /\ IsGovernance(raw))
  BY DEF IsMintBurn, IsOracle, IsGovernance, GovernanceTopics
<1>6. normalize(raw) =
        CASE type = "Governance" -> [type |-> type, payload |-> GovernanceEvent(raw)]
          [] IsMintBurn(raw) -> [type |-> "MintBurn", payload |-> MintBurnEvent(raw)]
          [] Oracle -> [type |-> type, payload |-> OracleUpdateEvent(raw)]
          [] OTHER -> [type |-> type, payload |-> EvmLogEvent(raw)]
  BY DEF normalize, TypeOf
<1> HIDE DEF type
<1> QED BY <1>3, <1>4, <1>5, <1>6 DEF type

\* An alert names its rule, and only the routing of a type reaches a rule.
LEMMA RoutedOracle ==
  ASSUME NEW s, NEW a \in Routed(s), a.rule_type = "oracle_update"
  PROVE  s.type = "OracleUpdate"
BY DEF Routed, LargeTransferRule, BridgeTransferRule, GovernanceRule, MintBurnRule,
       ApprovalRule, Alert

\* The rule's map holds, of every feed, the last valid answer it has shown.
FeedInv ==
  /\ log \in RawLogs \cup {NoLog}
  /\ DOMAIN last_by_feed_ \subseteq Feeds
  /\ \A f \in DOMAIN last_by_feed_ : last_by_feed_[f] \in Nat
  /\ \A f \in Feeds :
       ShownBefore(f) = IF f \in DOMAIN last_by_feed_ THEN last_by_feed_[f] ELSE NoAnswer

\* No feed has shown anything at the start.
LEMMA FeedStart == Init => FeedInv
<1> SUFFICES ASSUME Init PROVE FeedInv
  OBVIOUS
<1>1. NoLog.topic0 = "none"
  BY DEF NoLog
<1>2. ~ValidAnswer(log)
  BY <1>1 DEF Init, ValidAnswer
<1>3. DOMAIN last_by_feed_ = {}
  BY DEF Init
<1> QED BY <1>2, <1>3 DEF Init, FeedInv, ShownBefore

\* What a log the engine sees does to the oracle rule.
LEMMA Observed ==
  ASSUME NEW raw \in RawLogs, ~Refused(raw)
  PROVE  LET s == normalize(raw)
         IN  /\ IsObservation(s) <=> ValidAnswer(raw) /\ <<ChainId, raw.address>> \in Feeds
             /\ IsObservation(s) => /\ s.type = "OracleUpdate"
                                    /\ FeedOf(s.payload) = <<ChainId, raw.address>>
                                    /\ s.payload.chain_id = ChainId
                                    /\ s.payload.address = raw.address
                                    /\ s.payload.current_answer = raw.topic1
                                    /\ raw.topic1 \in Nat
<1>1. raw.topic1 \in Int /\ U64 \in Nat
  BY LogAssumption, WidthAssumption
<1> DEFINE s == normalize(raw)
<1>2. CASE IsOracle(raw)
  <2>1. s = [type |-> "OracleUpdate", payload |-> OracleUpdateEvent(raw)]
    BY <1>2, NormalizeCases
  <2>2. /\ s.type = "OracleUpdate" /\ s.payload.kind = "OracleUpdateEvent"
        /\ s.payload.chain_id = ChainId /\ s.payload.address = raw.address
        /\ s.payload.current_answer = raw.topic1
    BY <2>1 DEF OracleUpdateEvent
  <2>3. ValidAnswer(raw) <=> raw.topic1 \in 0..(U64 - 1)
    BY <1>1, <1>2 DEF ValidAnswer, IsOracle
  <2> HIDE DEF s
  <2>4. IsObservation(s) <=> <<ChainId, raw.address>> \in Feeds /\ raw.topic1 \in 0..(U64 - 1)
    BY <2>2 DEF IsObservation, FeedOf
  <2> QED BY <1>1, <2>2, <2>3, <2>4 DEF s, FeedOf
<1>3. CASE ~IsOracle(raw)
  <2>1. ~ValidAnswer(raw)
    BY <1>3 DEF ValidAnswer, IsOracle
  <2>2. \/ s = [type |-> "Governance", payload |-> GovernanceEvent(raw)]
        \/ s = [type |-> "MintBurn", payload |-> MintBurnEvent(raw)]
        \/ s = [type |-> TypeOf(raw), payload |-> EvmLogEvent(raw)]
    BY <1>3, NormalizeCases
  <2> HIDE DEF s
  <2>3. s.payload.kind # "OracleUpdateEvent"
    BY <2>2 DEF GovernanceEvent, MintBurnEvent, EvmLogEvent
  <2>4. ~IsObservation(s)
    BY <2>3 DEF IsObservation
  <2> QED BY <2>1, <2>4 DEF s
<1> QED BY <1>2, <1>3

\* A log that is an observation changes its own feed, any other log none.
LEMMA FeedStep == FeedInv /\ [Next]_vars => FeedInv'
<1> SUFFICES ASSUME FeedInv, [Next]_vars PROVE FeedInv'
  OBVIOUS
<1>1. ASSUME NEW raw \in RawLogs, Process(raw) PROVE FeedInv'
  <2> DEFINE s == normalize(raw)
  <2>1. /\ ~Refused(raw) /\ last_by_feed_' = LastObservations(s) /\ log' = raw
        /\ baseline' = [f \in Feeds |-> ShownBefore(f)]
    BY <1>1 DEF Process
  <2>2. \A f \in Feeds : ShownBefore(f)' = IF ValidAnswer(raw) /\ <<ChainId, raw.address>> = f
                                           THEN raw.topic1 ELSE ShownBefore(f)
    BY <2>1 DEF ShownBefore
  <2>3. CASE IsObservation(s)
    <3> DEFINE here == <<ChainId, raw.address>>
    <3>1. ValidAnswer(raw) /\ here \in Feeds /\ FeedOf(s.payload) = here
          /\ s.payload.current_answer = raw.topic1 /\ raw.topic1 \in Nat
      BY <2>1, <2>3, Observed
    <3> HIDE DEF s, here
    <3>2. last_by_feed_' = [f \in DOMAIN last_by_feed_ \cup {here} |->
                              IF f = here THEN raw.topic1 ELSE last_by_feed_[f]]
      BY <2>1, <2>3, <3>1 DEF LastObservations
    <3>3. \A f \in Feeds : ShownBefore(f)' = IF here = f THEN raw.topic1 ELSE ShownBefore(f)
      BY <2>2, <3>1 DEF here
    <3>4. /\ DOMAIN last_by_feed_' \subseteq Feeds
          /\ \A f \in DOMAIN last_by_feed_' : last_by_feed_'[f] \in Nat
      BY <3>1, <3>2 DEF FeedInv
    <3>5. \A f \in Feeds : ShownBefore(f)' = IF f \in DOMAIN last_by_feed_'
                                             THEN last_by_feed_'[f] ELSE NoAnswer
      BY <3>2, <3>3 DEF FeedInv
    <3> QED BY <2>1, <3>4, <3>5 DEF FeedInv, NoAnswer
  <2>4. CASE ~IsObservation(s)
    <3>1. \A f \in Feeds : ~(ValidAnswer(raw) /\ <<ChainId, raw.address>> = f)
      BY <2>1, <2>4, Observed
    <3>2. last_by_feed_' = last_by_feed_
      BY <2>1, <2>4 DEF LastObservations
    <3>3. \A f \in Feeds : ShownBefore(f)' = ShownBefore(f)
      BY <2>2, <3>1
    <3> QED BY <2>1, <3>2, <3>3 DEF FeedInv, NoAnswer
  <2> QED BY <2>3, <2>4
<1>2. ASSUME NEW raw \in RawLogs, Refuse(raw) PROVE FeedInv'
  <2>1. /\ Refused(raw) /\ last_by_feed_' = last_by_feed_ /\ log' = raw
        /\ baseline' = [f \in Feeds |-> ShownBefore(f)]
    BY <1>2 DEF Refuse
  <2>2. ~ValidAnswer(raw)
    BY <2>1 DEF ValidAnswer
  <2>3. \A f \in Feeds : ShownBefore(f)' = ShownBefore(f)
    BY <2>1, <2>2 DEF ShownBefore
  <2> QED BY <2>1, <2>3 DEF FeedInv, NoAnswer
<1>3. CASE UNCHANGED vars
  BY <1>3 DEF FeedInv, ShownBefore, ValidAnswer, vars
<1> QED BY <1>1, <1>2, <1>3 DEF Next

\* The alerts of an observation, by the answer that was last.
LEMMA OracleAlerts ==
  ASSUME NEW s, IsObservation(s), NEW cfg \in Oracles
  PROVE  (\E a \in OracleUpdateRule(s) : a.rule_type = "oracle_update" /\ a.cfg = cfg) <=>
           /\ FeedOf(s.payload) \in DOMAIN last_by_feed_
           /\ last_by_feed_[FeedOf(s.payload)] # 0
           /\ Watching(cfg, s.payload) /\ cfg.enabled
           /\ DeltaBps(s.payload.current_answer, last_by_feed_[FeedOf(s.payload)])
                > cfg.spike_threshold_bps
<1> DEFINE prev == last_by_feed_[FeedOf(s.payload)]
           Due(c) == /\ prev # 0 /\ Watching(c, s.payload) /\ c.enabled
                     /\ DeltaBps(s.payload.current_answer, prev) > c.spike_threshold_bps
<1>1. CASE FeedOf(s.payload) \notin DOMAIN last_by_feed_
  BY <1>1 DEF OracleUpdateRule
<1>2. CASE FeedOf(s.payload) \in DOMAIN last_by_feed_
  <2>1. OracleUpdateRule(s) = {Alert("oracle_update", c, to_string(s.payload.current_answer)) :
                                 c \in {d \in Oracles : Due(d)}}
    BY <1>2 DEF OracleUpdateRule
  <2> HIDE DEF Due
  <2>2. \A c : /\ Alert("oracle_update", c, to_string(s.payload.current_answer)).cfg = c
               /\ Alert("oracle_update", c, to_string(s.payload.current_answer)).rule_type
                    = "oracle_update"
    BY DEF Alert
  <2>3. (\E a \in OracleUpdateRule(s) : a.rule_type = "oracle_update" /\ a.cfg = cfg) <=> Due(cfg)
    BY <2>1, <2>2
  <2> QED BY <1>2, <2>3 DEF Due
<1> QED BY <1>1, <1>2

\* SpikesAgainstLastValid for one configuration, of any state.
SpikeOf(cfg, as, raw, prev) ==
  (\E a \in as : a.rule_type = "oracle_update" /\ a.cfg = cfg) <=>
    /\ ValidAnswer(raw) /\ raw.address = cfg.address /\ cfg.chain_id = ChainId
    /\ cfg.enabled /\ prev > 0
    /\ Distance(raw.topic1, prev) * 10000 >= (cfg.spike_threshold_bps + 1) * prev

\* The property is that of each configuration.
LEMMA SpikesAreSpikesOf ==
  SpikesAgainstLastValid <=>
    \A cfg \in Oracles : SpikeOf(cfg, alerts, log, baseline[<<cfg.chain_id, cfg.address>>])
BY DEF SpikesAgainstLastValid, SpikeOf

\* A log raises the alerts its change against the last valid answer asks for.
LEMMA SpikesStep == FeedInv /\ SpikesAgainstLastValid /\ [Next]_vars => SpikesAgainstLastValid'
<1> SUFFICES ASSUME FeedInv, SpikesAgainstLastValid, [Next]_vars PROVE SpikesAgainstLastValid'
  OBVIOUS
<1>0. SpikesAgainstLastValid' <=>
        \A cfg \in Oracles : SpikeOf(cfg, alerts', log', baseline'[<<cfg.chain_id, cfg.address>>])
  <2>1. (SpikesAgainstLastValid <=>
           \A cfg \in Oracles : SpikeOf(cfg, alerts, log, baseline[<<cfg.chain_id, cfg.address>>]))'
    BY SpikesAreSpikesOf, PTL
  <2> QED BY <2>1
<1>1. ASSUME NEW raw \in RawLogs, Process(raw) PROVE SpikesAgainstLastValid'
  <2> DEFINE s == normalize(raw)
             here == <<ChainId, raw.address>>
  <2>1. /\ ~Refused(raw) /\ alerts' = Routed(s) /\ log' = raw
        /\ baseline' = [f \in Feeds |-> ShownBefore(f)]
    BY <1>1 DEF Process
  <2> SUFFICES ASSUME NEW cfg \in Oracles
               PROVE  SpikeOf(cfg, alerts', raw, baseline'[<<cfg.chain_id, cfg.address>>])
    BY <1>0, <2>1
  <2> DEFINE f == <<cfg.chain_id, cfg.address>>
  <2>2. f \in Feeds
    BY DEF Feeds
  <2>3. baseline'[f] = IF f \in DOMAIN last_by_feed_ THEN last_by_feed_[f] ELSE NoAnswer
    BY <2>1, <2>2 DEF FeedInv
  <2>4. f \in DOMAIN last_by_feed_ => last_by_feed_[f] \in Nat
    BY DEF FeedInv
  <2>5. cfg.spike_threshold_bps \in 0..(U64 - 2)
    BY WidthAssumption
  <2> HIDE DEF f
  <2>6. CASE IsObservation(s)
    <3>1. /\ ValidAnswer(raw) /\ s.type = "OracleUpdate" /\ FeedOf(s.payload) = here
          /\ s.payload.chain_id = ChainId /\ s.payload.address = raw.address
          /\ s.payload.current_answer = raw.topic1 /\ raw.topic1 \in Nat
      BY <2>1, <2>6, Observed
    <3> HIDE DEF s
    <3>2. alerts' = OracleUpdateRule(s)
      BY <2>1, <3>1 DEF Routed
    <3>3. (\E a \in alerts' : a.rule_type = "oracle_update" /\ a.cfg = cfg) <=>
            /\ here \in DOMAIN last_by_feed_ /\ last_by_feed_[here] # 0
            /\ cfg.chain_id = ChainId /\ cfg.address = raw.address /\ cfg.enabled
            /\ DeltaBps(raw.topic1, last_by_feed_[here]) > cfg.spike_threshold_bps
      BY <2>6, <3>1, <3>2, OracleAlerts DEF Watching
    <3>4. CASE ~(cfg.chain_id = ChainId /\ cfg.address = raw.address)
      BY <3>3, <3>4 DEF SpikeOf
    <3>5. CASE cfg.chain_id = ChainId /\ cfg.address = raw.address
      <4>1. f = here
        BY <3>5 DEF f
      <4>2. CASE f \in DOMAIN last_by_feed_ /\ last_by_feed_[f] # 0
        <5>1. baseline'[f] = last_by_feed_[f] /\ last_by_feed_[f] \in Nat /\ last_by_feed_[f] > 0
          BY <2>3, <2>4, <4>2
        <5>2. DeltaBps(raw.topic1, last_by_feed_[f]) > cfg.spike_threshold_bps <=>
                Distance(raw.topic1, last_by_feed_[f]) * 10000
                  >= (cfg.spike_threshold_bps + 1) * last_by_feed_[f]
          BY <2>5, <3>1, <5>1, SpikeIsExact
        <5> QED BY <3>1, <3>3, <3>5, <4>1, <4>2, <5>1, <5>2 DEF f, SpikeOf
      <4>3. CASE ~(f \in DOMAIN last_by_feed_ /\ last_by_feed_[f] # 0)
        <5>1. ~(baseline'[f] > 0)
          BY <2>3, <4>3 DEF NoAnswer
        <5> QED BY <3>3, <4>1, <4>3, <5>1 DEF f, SpikeOf
      <4> QED BY <4>2, <4>3
    <3> QED BY <3>4, <3>5
  <2>7. CASE ~IsObservation(s)
    <3>1. ~(ValidAnswer(raw) /\ raw.address = cfg.address /\ cfg.chain_id = ChainId)
      BY <2>1, <2>2, <2>7, Observed DEF f
    <3> HIDE DEF s
    <3>2. ~\E a \in alerts' : a.rule_type = "oracle_update"
      <4> SUFFICES ASSUME NEW a \in Routed(s), a.rule_type = "oracle_update" PROVE FALSE
        BY <2>1
      <4>1. s.type = "OracleUpdate"
        BY RoutedOracle
      <4>2. Routed(s) = {}
        BY <2>7, <4>1 DEF Routed, OracleUpdateRule
      <4> QED BY <4>2
    <3> QED BY <3>1, <3>2 DEF SpikeOf
  <2> QED BY <2>6, <2>7
<1>2. ASSUME NEW raw \in RawLogs, Refuse(raw) PROVE SpikesAgainstLastValid'
  <2>1. Refused(raw) /\ alerts' = {} /\ log' = raw
    BY <1>2 DEF Refuse
  <2>2. ~ValidAnswer(log')
    BY <2>1 DEF ValidAnswer
  <2> QED BY <2>1, <2>2 DEF SpikesAgainstLastValid, ValidAnswer
<1>3. CASE UNCHANGED vars
  BY <1>0, <1>3, SpikesAreSpikesOf DEF vars
<1> QED BY <1>1, <1>2, <1>3 DEF Next

\* Oracle alerts are exactly the changes against the last valid answer of the
\* same feed that pass the threshold, whatever logs came in between and
\* whatever the division and the saturation of DeltaBps leave out.
THEOREM SpikesAreReal == Spec => []SpikesAgainstLastValid
<1>1. Init => FeedInv /\ SpikesAgainstLastValid
  <2> SUFFICES ASSUME Init PROVE SpikesAgainstLastValid
    BY FeedStart
  <2>1. NoLog.topic0 = "none"
    BY DEF NoLog
  <2>2. alerts = {} /\ ~ValidAnswer(log)
    BY <2>1 DEF Init, ValidAnswer
  <2> QED BY <2>2 DEF SpikesAgainstLastValid
<1> QED BY <1>1, FeedStep, SpikesStep, PTL DEF Spec
----------------------------------------------------------------------------
(* Amounts and thresholds *)

\* std::to_string denotes the answer.
LEMMA ToStringDenotes ==
  ASSUME NEW n \in Nat
  PROVE  Denotes(Radix, to_string(n)) = n
<1> DEFINE S == 0..n
           Base == {k \in S : k < Radix}
           b == [k \in S |-> <<k>>]
           p == [k \in S |-> k \div Radix]
           r == [k \in S |-> k % Radix]
           m == [k \in S |-> k]
           Step(f, k) == IF k < Radix THEN <<k>> ELSE Append(f[k \div Radix], k % Radix)
           f == CHOOSE g : g = [k \in S |-> Step(g, k)]
<1>1. Radix \in Nat /\ Radix > 1
  BY ConversionsAssumption
<1>2. to_string(n) = f[n]
  BY DEF to_string
<1>3. \A g : \A k \in S : Step(g, k) = OneMore(Base, b, p, r, g, k)
  BY DEF OneMore
<1>4. \A x \in S : m[x] \in 0..n /\ m[x] \in Nat
  OBVIOUS
<1>5. \A x \in S : x \in Base => b[x] \in Seq(Nat) /\ Denotes(Radix, b[x]) = m[x]
  <2> SUFFICES ASSUME NEW x \in S PROVE <<x>> \in Seq(Nat) /\ Denotes(Radix, <<x>>) = x
    OBVIOUS
  <2>1. x \in Nat
    OBVIOUS
  <2> HIDE DEF S
  <2> QED BY <1>1, <2>1, DenotesDigit
<1>6. \A x \in S : x \notin Base => /\ p[x] \in S /\ m[p[x]] < m[x] /\ r[x] \in Nat
                                    /\ m[x] = m[p[x]] * Radix + r[x]
  <2> SUFFICES ASSUME NEW x \in S, x \notin Base
               PROVE  /\ p[x] \in S /\ m[p[x]] < m[x] /\ r[x] \in Nat
                      /\ m[x] = m[p[x]] * Radix + r[x]
    OBVIOUS
  <2>1. x \in Nat /\ x <= n /\ x >= Radix
    BY <1>1
  <2>2. PICK d \in Nat, e \in 0..(Radix - 1) :
          d = x \div Radix /\ e = x % Radix /\ x = Radix * d + e
    BY <1>1, <2>1, DivRem
  <2>3. d < x
    BY <1>1, <2>1, <2>2, QuotientSmaller
  <2>4. d \in S /\ p[x] = d /\ r[x] = e /\ m[x] = x /\ m[d] = d
    BY <2>1, <2>2, <2>3
  <2>5. Radix * d = d * Radix /\ e \in Nat
    BY <1>1
  <2> HIDE DEF p, r, m, S
  <2> QED BY <2>2, <2>3, <2>4, <2>5
<1>7. f = [k \in S |-> Step(f, k)]
  <2> HIDE DEF S, Base, b, p, r, m, Step
  <2>1. PICK g : g = [x \in S |-> OneMore(Base, b, p, r, g, x)]
    <3>1. Shrinks(S, Base, p, m, n)
      BY <1>4, <1>6 DEF Shrinks
    <3>2. Solvable(S, Base, b, p, r)
      BY <3>1, DigitsExist
    <3> QED BY <3>2 DEF Solvable
  <2>2. g = [x \in S |-> Step(g, x)]
    BY <1>3, <2>1
  <2> QED BY <2>2
<1>8. n \in S
  OBVIOUS
<1> HIDE DEF f, S, Base, b, p, r, m, Step
<1>9. f = [x \in S |-> OneMore(Base, b, p, r, f, x)]
  BY <1>3, <1>7
<1>10. \A x \in S : f[x] \in Seq(Nat) /\ Denotes(Radix, f[x]) = m[x]
  <2>1. Counts(S, Base, b, p, r, m)
    BY <1>4, <1>5, <1>6 DEF Counts
  <2> QED BY <1>9, <2>1, DigitsDenote
<1>11. m[n] = n
  BY <1>8 DEF m
<1> QED BY <1>2, <1>8, <1>10, <1>11

\* A log that is not refused and has a full word of data: the rules' amount is
\* the number its first digits denote.
LEMMA FirstWordIsAmount ==
  ASSUME NEW raw \in RawLogs, ~Refused(raw), byte_len(raw) >= WordWidth
  PROVE  /\ FirstWord(raw) \in Word
         /\ Denotes(Byte, FirstWord(raw)) = Denotes(Nibble, SubSeq(raw.data.digits, 1, 2 * WordWidth))
<1> DEFINE text == raw.data
           d == raw.data.digits
           cut == IF Len(d) < 2 * DataCapacity THEN Len(d) ELSE 2 * DataCapacity
           used == [text EXCEPT !.digits = SubSeq(d, 1, cut)]
           word == FirstWord(raw)
           first == SubSeq(d, 1, 2 * WordWidth)
<1>1. /\ text \in [prefix : STRING, upper : BOOLEAN, digits : Seq(Int)]
      /\ d \in Seq(Int)
  BY LogAssumption
<1>2. /\ Nibble \in Nat /\ Nibble > 1 /\ WordWidth \in Nat /\ WordWidth > 0
      /\ DataCapacity = 8 * WordWidth /\ DataCapacity \in Nat
  BY ConversionsAssumption DEF DataCapacity
<1>3. Prefixed(text) /\ \A i \in 1..Len(d) : d[i] \in 0..(Nibble - 1)
  BY <1>1 DEF Refused, validate_hex, HexDigits
<1>4. Len(d) \in Nat /\ Len(d) >= 2 * WordWidth
  <2>1. Len(d) \in Nat
    BY <1>1
  <2>2. Len(d) \div 2 >= WordWidth
    BY DEF byte_len
  <2> HIDE DEF d
  <2> QED BY <1>2, <2>1, <2>2
<1>5. cut \in 0..Len(d) /\ cut >= 2 * WordWidth
  BY <1>2, <1>4
<1> HIDE DEF cut
<1>6. /\ used.digits = SubSeq(d, 1, cut) /\ Len(used.digits) = cut
      /\ DOMAIN used.digits = 1..cut
      /\ \A i \in 1..cut : used.digits[i] = d[i]
  BY <1>1, <1>5
<1>7. HexDigits(used)
  <2> HIDE DEF used, d
  <2> QED BY <1>3, <1>4, <1>5, <1>6 DEF HexDigits
<1>8. parse_hex_bytes(text, DataCapacity) =
        [i \in 1..DataCapacity |-> IF 2 * i <= Len(used.digits) THEN ByteAt(used, i) ELSE 0]
  <2>1. parse_hex_bytes(text, DataCapacity) =
          IF ~Prefixed(text) \/ ~HexDigits(used) THEN Throws
          ELSE [i \in 1..DataCapacity |-> IF 2 * i <= Len(used.digits) THEN ByteAt(used, i) ELSE 0]
    BY DEF parse_hex_bytes, cut
  <2> HIDE DEF text, used
  <2> QED BY <1>3, <1>7, <2>1
<1>9. /\ word = [i \in 1..WordWidth |-> word[i]]
      /\ \A i \in 1..WordWidth : word[i] = d[2 * i - 1] * Nibble + d[2 * i]
  <2>1. word = [i \in 1..WordWidth |-> parse_hex_bytes(text, DataCapacity)[i]]
    BY DEF FirstWord
  <2> HIDE DEF used, d, word
  <2> SUFFICES ASSUME NEW i \in 1..WordWidth PROVE word[i] = d[2 * i - 1] * Nibble + d[2 * i]
    BY <2>1
  <2>2. i \in 1..DataCapacity /\ 2 * i \in 1..cut /\ 2 * i - 1 \in 1..cut /\ 2 * i <= cut
    BY <1>2, <1>4, <1>5
  <2>3. word[i] = ByteAt(used, i)
    BY <1>6, <1>8, <2>1, <2>2
  <2> QED BY <1>6, <2>2, <2>3 DEF ByteAt
<1>10. \A i \in 1..WordWidth : word[i] \in 0..(Byte - 1)
  <2> HIDE DEF d, word
  <2> SUFFICES ASSUME NEW i \in 1..WordWidth PROVE word[i] \in 0..(Byte - 1)
    OBVIOUS
  <2>1. 2 * i \in 1..Len(d) /\ 2 * i - 1 \in 1..Len(d)
    BY <1>2, <1>4
  <2>2. PICK x, y \in 0..(Nibble - 1) : x = d[2 * i - 1] /\ y = d[2 * i]
    BY <1>3, <2>1
  <2>3. word[i] = x * Nibble + y
    BY <1>9, <2>2
  <2>4. x * Nibble <= (Nibble - 1) * Nibble /\ x * Nibble \in Nat
    BY <1>2
  <2>5. (Nibble - 1) * Nibble = Byte - Nibble /\ Byte \in Nat
    BY <1>2 DEF Byte
  <2> QED BY <1>2, <2>3, <2>4, <2>5
<1>11. word \in Word
  BY <1>9, <1>10 DEF Word
<1>12. /\ first \in Seq(Int) /\ Len(first) = 2 * WordWidth
       /\ \A i \in 1..(2 * WordWidth) : first[i] = d[i]
  <2> DEFINE m == 2 * WordWidth
  <2>1. m \in 0..Len(d)
    BY <1>2, <1>4
  <2> HIDE DEF m
  <2>2. /\ SubSeq(d, 1, m) \in Seq(Int) /\ Len(SubSeq(d, 1, m)) = m
        /\ \A i \in 1..m : SubSeq(d, 1, m)[i] = d[i]
    BY <1>1, <2>1
  <2> QED BY <2>2 DEF m
<1>13. first \in Seq(Nat)
  <2> HIDE DEF first, d
  <2>1. \A i \in 1..(2 * WordWidth) : first[i] \in Nat
    BY <1>2, <1>3, <1>4, <1>12
  <2> QED BY <1>2, <1>12, <2>1
<1>14. word \in Seq(Nat) /\ Len(word) = WordWidth
  <2> HIDE DEF word
  <2> QED BY <1>2, <1>11, ByteNat DEF Word
<1>15. \A i \in 1..WordWidth : word[i] = first[2 * i - 1] * Nibble + first[2 * i]
  <2> HIDE DEF word, first, d
  <2> SUFFICES ASSUME NEW i \in 1..WordWidth
               PROVE  word[i] = first[2 * i - 1] * Nibble + first[2 * i]
    OBVIOUS
  <2>1. 2 * i \in 1..(2 * WordWidth) /\ 2 * i - 1 \in 1..(2 * WordWidth)
    BY <1>2
  <2> QED BY <1>9, <1>12, <2>1
<1>16. Denotes(Nibble * Nibble, word) = Denotes(Nibble, first)
  <2> HIDE DEF word, first
  <2>1. Nibble \in Nat /\ WordWidth \in Nat
    BY <1>2
  <2>2. Len(first) = 2 * WordWidth
    BY <1>12
  <2> QED BY <1>13, <1>14, <1>15, <2>1, <2>2, HexValue, Zenon
<1> QED BY <1>11, <1>16 DEF Byte

\* The eight words normalize keeps are at least one.
LEMMA FullWord ==
  ASSUME NEW raw \in RawLogs
  PROVE  /\ byte_len(raw) \in Nat
         /\ data_size(raw) >= WordWidth <=> byte_len(raw) >= WordWidth
<1>1. raw.data.digits \in Seq(Int)
  BY LogAssumption
<1>2. Len(raw.data.digits) \in Nat
  BY <1>1
<1>3. byte_len(raw) \in Nat
  <2> DEFINE n == Len(raw.data.digits)
  <2>1. n \in Nat
    BY <1>2
  <2> HIDE DEF n
  <2>2. n \div 2 \in Nat
    BY <2>1
  <2> QED BY <2>2 DEF n, byte_len
<1>4. WordWidth \in Nat /\ DataCapacity = 8 * WordWidth
  BY ConversionsAssumption DEF DataCapacity
<1> QED BY <1>3, <1>4 DEF data_size, AtMost

\* A signal that keeps the raw log, and what the rules on such signals ask of it.
LEMMA RawSignal ==
  ASSUME NEW raw \in RawLogs, normalize(raw).payload.kind = "EvmLogEvent"
  PROVE  LET s == normalize(raw)
         IN  /\ s.type = TypeOf(raw)
             /\ s.payload.chain_id = ChainId /\ s.payload.address = raw.address
             /\ s.payload.amount = FirstWord(raw)
             /\ Evaluable(s) <=> /\ ~raw.removed /\ ~truncated(raw) /\ raw.topic_count >= 3
                                 /\ byte_len(raw) >= WordWidth
<1> DEFINE s == normalize(raw)
<1>1. s.payload.kind = "EvmLogEvent"
  OBVIOUS
<1>2. \/ s = [type |-> "Governance", payload |-> GovernanceEvent(raw)]
      \/ s = [type |-> "MintBurn", payload |-> MintBurnEvent(raw)]
      \/ s = [type |-> "OracleUpdate", payload |-> OracleUpdateEvent(raw)]
      \/ s = [type |-> TypeOf(raw), payload |-> EvmLogEvent(raw)]
  BY NormalizeCases
<1> HIDE DEF s
<1>3. s = [type |-> TypeOf(raw), payload |-> EvmLogEvent(raw)]
  BY <1>1, <1>2 DEF GovernanceEvent, MintBurnEvent, OracleUpdateEvent
<1>4. /\ s.type = TypeOf(raw)
      /\ s.payload.chain_id = ChainId /\ s.payload.address = raw.address
      /\ s.payload.amount = FirstWord(raw)
      /\ s.payload.removed = raw.removed /\ s.payload.truncated = truncated(raw)
      /\ s.payload.topic_count = AtMost(raw.topic_count, 4)
      /\ s.payload.data_size = data_size(raw)
  BY <1>3 DEF EvmLogEvent
<1>5. raw.topic_count \in Nat
  BY LogAssumption
<1>6. s.payload.topic_count >= 3 <=> raw.topic_count >= 3
  BY <1>4, <1>5 DEF AtMost
<1>7. Evaluable(s) <=> /\ ~raw.removed /\ ~truncated(raw) /\ raw.topic_count >= 3
                       /\ byte_len(raw) >= WordWidth
  BY <1>1, <1>4, <1>6, FullWord DEF Evaluable
<1> QED BY <1>4, <1>7 DEF s

\* A mint or burn.
LEMMA MintBurnSignal ==
  ASSUME NEW raw \in RawLogs, normalize(raw).payload.kind = "MintBurnEvent"
  PROVE  LET s == normalize(raw)
         IN  /\ IsMintBurn(raw) /\ s.type = "MintBurn"
             /\ s.payload.chain_id = ChainId /\ s.payload.address = raw.address
             /\ s.payload.amount = FirstWord(raw)
             /\ s.payload.direction = Direction(raw)
             /\ raw.topic_count >= 3 /\ byte_len(raw) >= WordWidth
<1> DEFINE s == normalize(raw)
<1>1. s.payload.kind = "MintBurnEvent"
  OBVIOUS
<1>2. \/ s = [type |-> "Governance", payload |-> GovernanceEvent(raw)]
      \/ IsMintBurn(raw) /\ s = [type |-> "MintBurn", payload |-> MintBurnEvent(raw)]
      \/ s = [type |-> "OracleUpdate", payload |-> OracleUpdateEvent(raw)]
      \/ s = [type |-> TypeOf(raw), payload |-> EvmLogEvent(raw)]
  BY NormalizeCases
<1> HIDE DEF s
<1>3. IsMintBurn(raw) /\ s = [type |-> "MintBurn", payload |-> MintBurnEvent(raw)]
  BY <1>1, <1>2 DEF GovernanceEvent, EvmLogEvent, OracleUpdateEvent
<1>4. /\ s.type = "MintBurn"
      /\ s.payload.chain_id = ChainId /\ s.payload.address = raw.address
      /\ s.payload.amount = FirstWord(raw)
      /\ s.payload.direction = Direction(raw)
  BY <1>3 DEF MintBurnEvent
<1>5. raw.topic_count >= 3 /\ byte_len(raw) >= WordWidth
  BY <1>3, FullWord DEF IsMintBurn
<1> QED BY <1>3, <1>4, <1>5 DEF s

\* What stands behind an alert, rule by rule.
TransferFacts(raw, a) ==
  /\ a.rule_type \in {"large_transfer", "bridge_transfer"}
  /\ a.cfg \in LargeTransfers \cup Bridges
  /\ greater_be_256(FirstWord(raw), a.cfg.threshold)
ApprovalFacts(raw, a) ==
  /\ a.rule_type = "approval" /\ a.cfg \in Approvals
  /\ \/ a.cfg.alert_on_infinite /\ FirstWord(raw) = MaxWord
     \/ greater_be_256(FirstWord(raw), a.cfg.threshold)
MintBurnFacts(raw, a) ==
  /\ a.rule_type = "mint_burn" /\ a.cfg \in MintBurns
  /\ \/ Direction(raw) = "Mint" /\ ~greater_be_256(a.cfg.mint_threshold, FirstWord(raw))
     \/ Direction(raw) = "Burn" /\ ~greater_be_256(a.cfg.burn_threshold, FirstWord(raw))
WordFacts(raw, a) ==
  /\ raw.topic_count >= 3 /\ byte_len(raw) >= WordWidth
  /\ a.amount = uint256_be_to_decimal(FirstWord(raw))

\* Every alert of a signal is of one of these kinds.
LEMMA AlertFacts ==
  ASSUME NEW raw \in RawLogs, NEW a \in Routed(normalize(raw))
  PROVE  \/ /\ TransferFacts(raw, a) /\ WordFacts(raw, a)
            /\ normalize(raw).payload.kind = "EvmLogEvent"
         \/ /\ ApprovalFacts(raw, a) /\ WordFacts(raw, a)
            /\ normalize(raw).payload.kind = "EvmLogEvent"
         \/ /\ MintBurnFacts(raw, a) /\ WordFacts(raw, a)
            /\ normalize(raw).payload.kind = "MintBurnEvent"
         \/ a.rule_type = "governance"
         \/ a.rule_type = "oracle_update" /\ a \in OracleUpdateRule(normalize(raw))
<1> DEFINE s == normalize(raw)
<1> HIDE DEF s
<1>1. \/ a \in LargeTransferRule(s) \/ a \in BridgeTransferRule(s) \/ a \in GovernanceRule(s)
      \/ a \in MintBurnRule(s) \/ a \in ApprovalRule(s) \/ a \in OracleUpdateRule(s)
  <2>1. a \in Routed(s)
    BY DEF s
  <2> QED BY <2>1 DEF Routed
<1>2. Evaluable(s) => /\ s.payload.kind = "EvmLogEvent" /\ s.payload.amount = FirstWord(raw)
                      /\ raw.topic_count >= 3 /\ byte_len(raw) >= WordWidth
  <2>1. Evaluable(s) => s.payload.kind = "EvmLogEvent"
    BY DEF Evaluable
  <2> QED BY <2>1, RawSignal DEF s
<1>3. ASSUME a \in LargeTransferRule(s) \/ a \in BridgeTransferRule(s)
      PROVE  TransferFacts(raw, a) /\ WordFacts(raw, a) /\ s.payload.kind = "EvmLogEvent"
  <2>1. Evaluable(s)
    BY <1>3 DEF LargeTransferRule, BridgeTransferRule
  <2>2. PICK rule \in {"large_transfer", "bridge_transfer"}, cfg \in LargeTransfers \cup Bridges :
          /\ a = Alert(rule, cfg, uint256_be_to_decimal(s.payload.amount))
          /\ greater_be_256(s.payload.amount, cfg.threshold)
    BY <1>3, <2>1 DEF LargeTransferRule, BridgeTransferRule
  <2>3. a.rule_type = rule /\ a.cfg = cfg /\ a.amount = uint256_be_to_decimal(s.payload.amount)
    BY <2>2 DEF Alert
  <2> QED BY <1>2, <2>1, <2>2, <2>3 DEF TransferFacts, WordFacts
<1>4. ASSUME a \in ApprovalRule(s)
      PROVE  ApprovalFacts(raw, a) /\ WordFacts(raw, a) /\ s.payload.kind = "EvmLogEvent"
  <2>1. Evaluable(s)
    BY <1>4 DEF ApprovalRule
  <2>2. PICK cfg \in Approvals :
          /\ a = Alert("approval", cfg, uint256_be_to_decimal(s.payload.amount))
          /\ \/ cfg.alert_on_infinite /\ s.payload.amount = MaxWord
             \/ greater_be_256(s.payload.amount, cfg.threshold)
    BY <1>4, <2>1 DEF ApprovalRule
  <2>3. a.rule_type = "approval" /\ a.cfg = cfg /\ a.amount = uint256_be_to_decimal(s.payload.amount)
    BY <2>2 DEF Alert
  <2> QED BY <1>2, <2>1, <2>2, <2>3 DEF ApprovalFacts, WordFacts
<1>5. ASSUME a \in MintBurnRule(s)
      PROVE  MintBurnFacts(raw, a) /\ WordFacts(raw, a) /\ s.payload.kind = "MintBurnEvent"
  <2>1. s.payload.kind = "MintBurnEvent"
    BY <1>5 DEF MintBurnRule
  <2>2. PICK cfg \in MintBurns :
          /\ a = Alert("mint_burn", cfg, uint256_be_to_decimal(s.payload.amount))
          /\ \/ s.payload.direction = "Mint" /\ ~greater_be_256(cfg.mint_threshold, s.payload.amount)
             \/ s.payload.direction = "Burn" /\ ~greater_be_256(cfg.burn_threshold, s.payload.amount)
    BY <1>5, <2>1 DEF MintBurnRule
  <2>3. a.rule_type = "mint_burn" /\ a.cfg = cfg /\ a.amount = uint256_be_to_decimal(s.payload.amount)
    BY <2>2 DEF Alert
  <2>4. /\ s.payload.amount = FirstWord(raw) /\ s.payload.direction = Direction(raw)
        /\ raw.topic_count >= 3 /\ byte_len(raw) >= WordWidth
    BY <2>1, MintBurnSignal DEF s
  <2> QED BY <2>1, <2>2, <2>3, <2>4 DEF MintBurnFacts, WordFacts
<1>6. ASSUME a \in GovernanceRule(s) PROVE a.rule_type = "governance"
  BY <1>6 DEF GovernanceRule, Alert
<1>7. ASSUME a \in OracleUpdateRule(s) PROVE a.rule_type = "oracle_update"
  BY <1>7 DEF OracleUpdateRule, Alert
<1> QED BY <1>1, <1>3, <1>4, <1>5, <1>6, <1>7 DEF s

\* The amount of a log, as the properties read it.
AmountOf(raw) == Denotes(Nibble, SubSeq(raw.data.digits, 1, 2 * WordWidth))

\* The comparison of the rules is the comparison of the numbers.
LEMMA AmountAbove ==
  ASSUME NEW raw \in RawLogs, ~Refused(raw), byte_len(raw) >= WordWidth, NEW t \in Word
  PROVE  /\ greater_be_256(FirstWord(raw), t) <=> AmountOf(raw) > Number(t)
         /\ ~greater_be_256(t, FirstWord(raw)) <=> AmountOf(raw) >= Number(t)
         /\ AmountOf(raw) \in Nat /\ Number(t) \in Nat
<1>1. FirstWord(raw) \in Word /\ Denotes(Byte, FirstWord(raw)) = AmountOf(raw)
  BY FirstWordIsAmount DEF AmountOf
<1>2. /\ greater_be_256(FirstWord(raw), t) <=> AmountOf(raw) > Number(t)
      /\ greater_be_256(t, FirstWord(raw)) <=> Number(t) > AmountOf(raw)
  BY <1>1, GreaterIsGreater DEF Number
<1>3. \A w \in Word : Denotes(Byte, w) \in Nat
  BY WordNumber
<1>4. AmountOf(raw) \in Nat /\ Number(t) \in Nat
  BY <1>1, <1>3 DEF Number
<1> QED BY <1>2, <1>4

\* ThresholdsHonoured of one alert.
Honoured(a, raw, amount) ==
  CASE a.rule_type \in {"large_transfer", "bridge_transfer"} -> amount > Number(a.cfg.threshold)
    [] a.rule_type = "approval" -> \/ amount > Number(a.cfg.threshold)
                                   \/ a.cfg.alert_on_infinite /\ amount = Capacity256
    [] a.rule_type = "mint_burn" ->
         IF raw.topic1 = 0 THEN amount >= Number(a.cfg.mint_threshold)
                           ELSE amount >= Number(a.cfg.burn_threshold)
    [] OTHER -> TRUE

\* Each rule honours its thresholds.
LEMMA HonouredByRules ==
  ASSUME NEW raw \in RawLogs, ~Refused(raw), NEW a \in Routed(normalize(raw))
  PROVE  Honoured(a, raw, AmountOf(raw))
<1>1. CASE TransferFacts(raw, a) /\ WordFacts(raw, a)
  <2>1. a.cfg.threshold \in Word
    BY <1>1, ConfigAssumption DEF TransferFacts
  <2>2. AmountOf(raw) > Number(a.cfg.threshold)
    BY <1>1, <2>1, AmountAbove DEF TransferFacts, WordFacts
  <2>3. a.rule_type \in {"large_transfer", "bridge_transfer"}
    BY <1>1 DEF TransferFacts
  <2> QED BY <2>2, <2>3 DEF Honoured
<1>2. CASE ApprovalFacts(raw, a) /\ WordFacts(raw, a)
  <2>1. a.cfg.threshold \in Word
    BY <1>2, ConfigAssumption DEF ApprovalFacts
  <2>2. a.rule_type = "approval"
    BY <1>2 DEF ApprovalFacts
  <2>3. CASE greater_be_256(FirstWord(raw), a.cfg.threshold)
    <3>1. AmountOf(raw) > Number(a.cfg.threshold)
      BY <1>2, <2>1, <2>3, AmountAbove DEF WordFacts
    <3> QED BY <2>2, <3>1 DEF Honoured
  <2>4. CASE a.cfg.alert_on_infinite /\ FirstWord(raw) = MaxWord
    <3>1. Denotes(Byte, FirstWord(raw)) = AmountOf(raw)
      BY <1>2, FirstWordIsAmount DEF AmountOf, WordFacts
    <3>2. AmountOf(raw) = Capacity256
      BY <2>4, <3>1 DEF Capacity256, MaxWord
    <3> QED BY <2>2, <2>4, <3>2 DEF Honoured
  <2> QED BY <1>2, <2>3, <2>4 DEF ApprovalFacts
<1>3. CASE MintBurnFacts(raw, a) /\ WordFacts(raw, a)
  <2>1. a.cfg.mint_threshold \in Word /\ a.cfg.burn_threshold \in Word
    BY <1>3, ConfigAssumption DEF MintBurnFacts
  <2>2. a.rule_type = "mint_burn"
    BY <1>3 DEF MintBurnFacts
  <2>3. /\ ~greater_be_256(a.cfg.mint_threshold, FirstWord(raw))
             => AmountOf(raw) >= Number(a.cfg.mint_threshold)
        /\ ~greater_be_256(a.cfg.burn_threshold, FirstWord(raw))
             => AmountOf(raw) >= Number(a.cfg.burn_threshold)
    BY <1>3, <2>1, AmountAbove DEF WordFacts
  <2>4. /\ raw.topic1 = 0 => Direction(raw) # "Burn"
        /\ raw.topic1 # 0 => Direction(raw) # "Mint"
    BY DEF Direction
  <2>5. IF raw.topic1 = 0 THEN AmountOf(raw) >= Number(a.cfg.mint_threshold)
                          ELSE AmountOf(raw) >= Number(a.cfg.burn_threshold)
    BY <1>3, <2>3, <2>4 DEF MintBurnFacts
  <2> QED BY <2>2, <2>5 DEF Honoured
<1>4. CASE a.rule_type = "governance" \/ a.rule_type = "oracle_update"
  BY <1>4 DEF Honoured
<1> QED BY <1>1, <1>2, <1>3, <1>4, AlertFacts

\* The property is that of each alert.
LEMMA ThresholdsAreHonoured ==
  ThresholdsHonoured <=> \A a \in alerts : Honoured(a, log, AmountOf(log))
BY DEF ThresholdsHonoured, Honoured, Amount, AmountOf

\* An alert is told only at or above its threshold, compared as numbers: the
\* bytes that memcmp looks at denote the amount in the log.
THEOREM ThresholdsAreNumbers == Spec => []ThresholdsHonoured
<1>1. Init => ThresholdsHonoured
  BY DEF Init, ThresholdsHonoured
<1>2. ThresholdsHonoured /\ [Next]_vars => ThresholdsHonoured'
  <2> SUFFICES ASSUME ThresholdsHonoured, [Next]_vars PROVE ThresholdsHonoured'
    OBVIOUS
  <2>1. ThresholdsHonoured' <=> \A a \in alerts' : Honoured(a, log', AmountOf(log'))
    <3>1. (ThresholdsHonoured <=> \A a \in alerts : Honoured(a, log, AmountOf(log)))'
      BY ThresholdsAreHonoured, PTL
    <3> QED BY <3>1
  <2>2. ASSUME NEW raw \in RawLogs, Process(raw) PROVE ThresholdsHonoured'
    <3>1. ~Refused(raw) /\ alerts' = Routed(normalize(raw)) /\ log' = raw
      BY <2>2 DEF Process
    <3> QED BY <2>1, <3>1, HonouredByRules
  <2>3. ASSUME NEW raw \in RawLogs, Refuse(raw) PROVE ThresholdsHonoured'
    BY <2>1, <2>3 DEF Refuse
  <2>4. CASE UNCHANGED vars
    BY <2>1, <2>4, ThresholdsAreHonoured DEF vars
  <2> QED BY <2>2, <2>3, <2>4 DEF Next
<1> QED BY <1>1, <1>2, PTL DEF Spec

\* TransferReportedOnce, of any alerts and any log.
Kinds(as) == {a.rule_type : a \in as} \cap {"large_transfer", "mint_burn"}
Watched(cfgs, raw) == {c \in cfgs : c.chain_id = ChainId /\ c.address = raw.address}
Over(raw) == /\ Watched(LargeTransfers, raw) # {}
             /\ \A c \in Watched(LargeTransfers, raw) : AmountOf(raw) > Number(c.threshold)
Exceeds(raw) == /\ \E c \in Watched(MintBurns, raw) : c.enabled
                /\ \A c \in Watched(MintBurns, raw) : /\ AmountOf(raw) > Number(c.mint_threshold)
                                                      /\ AmountOf(raw) > Number(c.burn_threshold)
KindOf(raw) == IF 0 \in {raw.topic1, raw.topic2} THEN "mint_burn" ELSE "large_transfer"
ReportDue(raw) == /\ raw.topic0 = "Transfer" /\ raw.topic_count >= 3 /\ ~raw.removed /\ ~Refused(raw)
                  /\ byte_len(raw) \in WordWidth..DataCapacity
                  /\ {raw.topic1, raw.topic2} # {0}
                  /\ IF KindOf(raw) = "mint_burn" THEN Exceeds(raw) ELSE Over(raw)

\* The property in these parts.
LEMMA ReportedOnceParts ==
  TransferReportedOnce <=> /\ Kinds(alerts) \subseteq {KindOf(log)}
                           /\ ReportDue(log) => Kinds(alerts) # {}
BY DEF TransferReportedOnce, Kinds, KindOf, Watched, Over, Exceeds, ReportDue, Amount, AmountOf

\* The rules do not speak for each other.
LEMMA RuleTypesApart ==
  ASSUME NEW s, NEW a \in Routed(s), a.rule_type = "large_transfer"
  PROVE  s.type = "Transfer"
<1>1. /\ a \in GovernanceRule(s) => a.rule_type = "governance"
      /\ a \in MintBurnRule(s) => a.rule_type = "mint_burn"
      /\ a \in ApprovalRule(s) => a.rule_type = "approval"
      /\ a \in OracleUpdateRule(s) => a.rule_type = "oracle_update"
  BY DEF GovernanceRule, MintBurnRule, ApprovalRule, OracleUpdateRule, Alert
<1> QED BY <1>1 DEF Routed

\* A signal reaches no rule but the one for what it is.
LEMMA RightKind ==
  ASSUME NEW raw \in RawLogs
  PROVE  Kinds(Routed(normalize(raw))) \subseteq {KindOf(raw)}
<1> SUFFICES ASSUME NEW a \in Routed(normalize(raw)), a.rule_type \in {"large_transfer", "mint_burn"}
             PROVE  a.rule_type = KindOf(raw)
  BY DEF Kinds
<1>1. CASE a.rule_type = "mint_burn"
  <2>1. normalize(raw).payload.kind = "MintBurnEvent"
    BY <1>1, AlertFacts DEF ApprovalFacts, TransferFacts
  <2>2. IsMintBurn(raw)
    BY <2>1, MintBurnSignal
  <2> QED BY <1>1, <2>2 DEF IsMintBurn, KindOf
<1>2. CASE a.rule_type = "large_transfer"
  <2>1. /\ normalize(raw).payload.kind = "EvmLogEvent"
        /\ raw.topic_count >= 3 /\ byte_len(raw) >= WordWidth
    BY <1>2, AlertFacts DEF ApprovalFacts, MintBurnFacts, WordFacts
  <2>2. TypeOf(raw) = "Transfer"
    BY <1>2, <2>1, RuleTypesApart, RawSignal
  <2>3. raw.topic0 = "Transfer"
    BY <2>2 DEF TypeOf, classify_topic0
  <2>4. ASSUME 0 \in {raw.topic1, raw.topic2} PROVE FALSE
    <3>1. IsMintBurn(raw)
      BY <2>1, <2>3, <2>4, FullWord DEF IsMintBurn
    <3>2. normalize(raw) = [type |-> "MintBurn", payload |-> MintBurnEvent(raw)]
      BY <2>3, <3>1, NormalizeCases
    <3> QED BY <2>1, <3>2 DEF MintBurnEvent
  <2> QED BY <1>2, <2>4 DEF KindOf
<1> QED BY <1>1, <1>2

\* A transfer that is due for a report gets one.
LEMMA DueIsReported ==
  ASSUME NEW raw \in RawLogs, ReportDue(raw)
  PROVE  Kinds(Routed(normalize(raw))) # {}
<1> DEFINE s == normalize(raw)
<1>1. /\ raw.topic0 = "Transfer" /\ raw.topic_count >= 3 /\ ~raw.removed /\ ~Refused(raw)
      /\ byte_len(raw) \in WordWidth..DataCapacity
      /\ {raw.topic1, raw.topic2} # {0}
  BY DEF ReportDue
<1>2. /\ byte_len(raw) \in Nat /\ byte_len(raw) >= WordWidth /\ ~truncated(raw)
      /\ data_size(raw) >= WordWidth
  <2>1. WordWidth \in Nat /\ DataCapacity \in Nat
    BY ConversionsAssumption DEF DataCapacity
  <2> QED BY <1>1, <2>1, FullWord DEF truncated
<1>3. ~IsOracle(raw) /\ ~IsGovernance(raw)
  BY <1>1 DEF IsOracle, IsGovernance, GovernanceTopics
<1>4. ASSUME 0 \in {raw.topic1, raw.topic2} PROVE \E a \in Routed(s) : a.rule_type = "mint_burn"
  <2>1. IsMintBurn(raw)
    BY <1>1, <1>2, <1>4 DEF IsMintBurn
  <2>2. s = [type |-> "MintBurn", payload |-> MintBurnEvent(raw)]
    BY <2>1, NormalizeCases
  <2>3. /\ s.type = "MintBurn" /\ s.payload.kind = "MintBurnEvent"
        /\ s.payload.chain_id = ChainId /\ s.payload.address = raw.address
        /\ s.payload.amount = FirstWord(raw) /\ s.payload.direction = Direction(raw)
    BY <2>2 DEF MintBurnEvent
  <2>4. PICK c \in Watched(MintBurns, raw) : c.enabled
    BY <1>4 DEF ReportDue, KindOf, Exceeds
  <2>5. /\ c \in MintBurns /\ c.chain_id = ChainId /\ c.address = raw.address
        /\ AmountOf(raw) > Number(c.mint_threshold) /\ AmountOf(raw) > Number(c.burn_threshold)
    BY <1>4, <2>4 DEF ReportDue, KindOf, Exceeds, Watched
  <2>6. c.mint_threshold \in Word /\ c.burn_threshold \in Word
    BY <2>5, ConfigAssumption
  <2>7. /\ ~greater_be_256(c.mint_threshold, FirstWord(raw))
        /\ ~greater_be_256(c.burn_threshold, FirstWord(raw))
    <3>1. ASSUME NEW t \in Word, AmountOf(raw) > Number(t)
          PROVE  ~greater_be_256(t, FirstWord(raw))
      <4>1. AmountOf(raw) >= Number(t)
        BY <1>1, <1>2, <3>1, AmountAbove
      <4> QED BY <1>1, <1>2, <4>1, AmountAbove
    <3> QED BY <2>5, <2>6, <3>1
  <2>8. Direction(raw) \in {"Mint", "Burn"}
    BY <1>1 DEF Direction
  <2> DEFINE a == Alert("mint_burn", c, uint256_be_to_decimal(s.payload.amount))
  <2> HIDE DEF s
  <2>9. a \in MintBurnRule(s)
    BY <2>3, <2>4, <2>5, <2>7, <2>8 DEF MintBurnRule, Watching
  <2>10. a \in Routed(s)
    BY <2>3, <2>9 DEF Routed
  <2>11. a.rule_type = "mint_burn"
    BY DEF Alert
  <2> HIDE DEF a
  <2> QED BY <2>10, <2>11
<1>5. ASSUME 0 \notin {raw.topic1, raw.topic2}
      PROVE  \E a \in Routed(s) : a.rule_type = "large_transfer"
  <2>1. ~IsMintBurn(raw)
    BY <1>5 DEF IsMintBurn
  <2>2. s = [type |-> TypeOf(raw), payload |-> EvmLogEvent(raw)]
    BY <1>3, <2>1, NormalizeCases
  <2>3. s.payload.kind = "EvmLogEvent"
    BY <2>2 DEF EvmLogEvent
  <2>4. /\ s.type = TypeOf(raw)
        /\ s.payload.chain_id = ChainId /\ s.payload.address = raw.address
        /\ s.payload.amount = FirstWord(raw) /\ Evaluable(s)
    BY <1>1, <1>2, <2>3, RawSignal
  <2>5. TypeOf(raw) = "Transfer"
    <3>1. raw.topic_count \in Nat
      BY LogAssumption
    <3> QED BY <1>1, <3>1 DEF TypeOf, classify_topic0, GovernanceTopics
  <2>6. PICK c \in Watched(LargeTransfers, raw) : AmountOf(raw) > Number(c.threshold)
    BY <1>5 DEF ReportDue, KindOf, Over
  <2>7. c \in LargeTransfers /\ c.chain_id = ChainId /\ c.address = raw.address
    BY DEF Watched
  <2>8. greater_be_256(FirstWord(raw), c.threshold)
    BY <1>1, <1>2, <2>6, <2>7, ConfigAssumption, AmountAbove
  <2> DEFINE a == Alert("large_transfer", c, uint256_be_to_decimal(s.payload.amount))
  <2> HIDE DEF s
  <2>9. a \in LargeTransferRule(s)
    BY <2>4, <2>7, <2>8 DEF LargeTransferRule, Watching
  <2>10. a \in Routed(s)
    BY <2>4, <2>5, <2>9 DEF Routed
  <2>11. a.rule_type = "large_transfer"
    BY DEF Alert
  <2> HIDE DEF a
  <2> QED BY <2>10, <2>11
<1> HIDE DEF s
<1> QED BY <1>4, <1>5 DEF Kinds, s

\* A transfer is reported as a mint or burn or as a large transfer according to
\* its two addresses, never as the other, and one above every threshold it is
\* watched with is reported.
THEOREM TransfersAreReportedOnce == Spec => []TransferReportedOnce
<1>1. Init => TransferReportedOnce
  <2> SUFFICES ASSUME Init PROVE TransferReportedOnce
    OBVIOUS
  <2>1. alerts = {} /\ log.topic0 = "none"
    BY DEF Init, NoLog
  <2>2. Kinds(alerts) = {}
    BY <2>1 DEF Kinds
  <2>3. ~ReportDue(log)
    BY <2>1 DEF ReportDue
  <2> QED BY <2>2, <2>3, ReportedOnceParts
<1>2. TransferReportedOnce /\ [Next]_vars => TransferReportedOnce'
  <2> SUFFICES ASSUME TransferReportedOnce, [Next]_vars PROVE TransferReportedOnce'
    OBVIOUS
  <2>1. TransferReportedOnce' <=> /\ Kinds(alerts') \subseteq {KindOf(log')}
                                  /\ ReportDue(log') => Kinds(alerts') # {}
    <3>1. (TransferReportedOnce <=> /\ Kinds(alerts) \subseteq {KindOf(log)}
                                    /\ ReportDue(log) => Kinds(alerts) # {})'
      BY ReportedOnceParts, PTL
    <3> QED BY <3>1
  <2>2. ASSUME NEW raw \in RawLogs, Process(raw) PROVE TransferReportedOnce'
    <3>1. alerts' = Routed(normalize(raw)) /\ log' = raw
      BY <2>2 DEF Process
    <3> QED BY <2>1, <3>1, RightKind, DueIsReported
  <2>3. ASSUME NEW raw \in RawLogs, Refuse(raw) PROVE TransferReportedOnce'
    <3>1. Refused(raw) /\ alerts' = {} /\ log' = raw
      BY <2>3 DEF Refuse
    <3>2. Kinds(alerts') = {} /\ ~ReportDue(log')
      BY <3>1 DEF Kinds, ReportDue
    <3> QED BY <2>1, <3>2
  <2>4. CASE UNCHANGED vars
    BY <2>1, <2>4, ReportedOnceParts DEF vars
  <2> QED BY <2>2, <2>3, <2>4 DEF Next
<1> QED BY <1>1, <1>2, PTL DEF Spec

\* AmountsAreInTheLog of one alert.
InLog(a, raw, amount) ==
  a.rule_type # "governance" =>
    /\ raw.topic_count >= 3 /\ byte_len(raw) >= WordWidth
    /\ Denotes(Radix, a.amount) = (IF a.rule_type = "oracle_update" THEN raw.topic1 ELSE amount)

\* Each rule takes its amount from the log.
LEMMA InLogByRules ==
  ASSUME NEW raw \in RawLogs, ~Refused(raw), NEW a \in Routed(normalize(raw))
  PROVE  InLog(a, raw, AmountOf(raw))
<1>1. ASSUME WordFacts(raw, a), a.rule_type # "oracle_update" PROVE InLog(a, raw, AmountOf(raw))
  <2>1. FirstWord(raw) \in Word /\ Denotes(Byte, FirstWord(raw)) = AmountOf(raw)
    BY <1>1, FirstWordIsAmount DEF WordFacts, AmountOf
  <2>2. Denotes(Radix, a.amount) = AmountOf(raw)
    BY <1>1, <2>1, DecimalDenotes DEF WordFacts
  <2> QED BY <1>1, <2>2 DEF InLog, WordFacts
<1>2. ASSUME a.rule_type = "oracle_update", a \in OracleUpdateRule(normalize(raw))
      PROVE  InLog(a, raw, AmountOf(raw))
  <2> DEFINE s == normalize(raw)
  <2>1. IsObservation(s)
    BY <1>2 DEF OracleUpdateRule
  <2>2. ValidAnswer(raw) /\ s.payload.current_answer = raw.topic1 /\ raw.topic1 \in Nat
    BY <2>1, Observed
  <2>3. raw.topic_count >= 3 /\ byte_len(raw) >= WordWidth
    BY <2>2, FullWord DEF ValidAnswer
  <2> HIDE DEF s
  <2>4. a.amount = to_string(s.payload.current_answer)
    BY <1>2 DEF OracleUpdateRule, Alert, s
  <2>5. Denotes(Radix, a.amount) = raw.topic1
    BY <2>2, <2>4, ToStringDenotes
  <2> QED BY <1>2, <2>3, <2>5 DEF InLog
<1>3. CASE a.rule_type = "governance"
  BY <1>3 DEF InLog
<1> QED BY <1>1, <1>2, <1>3, AlertFacts DEF TransferFacts, ApprovalFacts, MintBurnFacts

\* The property is that of each alert.
LEMMA AmountsAreInLog ==
  AmountsAreInTheLog <=> \A a \in alerts : InLog(a, log, AmountOf(log))
BY DEF AmountsAreInTheLog, InLog, Amount, AmountOf

\* The decimal text an alert carries denotes the number in the log's first data
\* word (an oracle alert: the answer), whatever was cut, copied and divided on
\* the way, and no alert has an amount without a full word to read it from.
THEOREM AmountsAreExact == Spec => []AmountsAreInTheLog
<1>1. Init => AmountsAreInTheLog
  BY DEF Init, AmountsAreInTheLog
<1>2. AmountsAreInTheLog /\ [Next]_vars => AmountsAreInTheLog'
  <2> SUFFICES ASSUME AmountsAreInTheLog, [Next]_vars PROVE AmountsAreInTheLog'
    OBVIOUS
  <2>1. AmountsAreInTheLog' <=> \A a \in alerts' : InLog(a, log', AmountOf(log'))
    <3>1. (AmountsAreInTheLog <=> \A a \in alerts : InLog(a, log, AmountOf(log)))'
      BY AmountsAreInLog, PTL
    <3> QED BY <3>1
  <2>2. ASSUME NEW raw \in RawLogs, Process(raw) PROVE AmountsAreInTheLog'
    <3>1. ~Refused(raw) /\ alerts' = Routed(normalize(raw)) /\ log' = raw
      BY <2>2 DEF Process
    <3> QED BY <2>1, <3>1, InLogByRules
  <2>3. ASSUME NEW raw \in RawLogs, Refuse(raw) PROVE AmountsAreInTheLog'
    BY <2>1, <2>3 DEF Refuse
  <2>4. CASE UNCHANGED vars
    BY <2>1, <2>4, AmountsAreInLog DEF vars
  <2> QED BY <2>2, <2>3, <2>4 DEF Next
<1> QED BY <1>1, <1>2, PTL DEF Spec
=============================================================================
