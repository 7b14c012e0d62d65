----------------------------- MODULE RiskRules -----------------------------
(***************************************************************************)
(* What one log of the chain leads to: normalize (src/events/normalize.cpp)*)
(* turns it into a signal, RiskEngine routes the signal by its type, and   *)
(* the six rules (src/risk/rules) answer with alerts.  Only the oracle     *)
(* rule keeps state: the last answer of every watched feed.                *)
(*                                                                         *)
(* Data and amounts are the bytes of Conversions; addresses and answers    *)
(* are numbers, 0 the zero address and -1 any negative int256.  A set of   *)
(* alerts stands for the vector of one evaluation; an alert names the      *)
(* configuration that raised it, so that equal alerts of two               *)
(* configurations stay apart.                                              *)
(***************************************************************************)
EXTENDS Conversions

CONSTANTS
  RawLogs,          \* logs: topic0, topic_count, topic1, topic2, data (a hex
                    \* text), address, removed, index (of the transaction or of
                    \* the log), legible (the other hex fields parse)
  ChainId,          \* the chain of this process
  U32, U64,         \* 2^32 and 2^64
  LargeTransfers, Governance, MintBurns, Approvals, Bridges, Oracles,
                    \* the configurations of each rule
  BridgeAddresses,  \* bridge_addresses_: chain and address
  NoFilter          \* a governance rule without an action filter

\* spike_threshold_bps is 32 bits wide.
ASSUME WidthAssumption ==
  {U32, U64} \subseteq Nat \ {0} /\ \A cfg \in Oracles : cfg.spike_threshold_bps \in 0..(U64 - 2)

\* A node's answer is typed: counts and indices are not negative, and a hex
\* text is a sequence of digits and bad characters.  Thresholds are words.
ASSUME LogAssumption ==
  \A raw \in RawLogs :
    /\ {raw.topic_count, raw.index} \subseteq Nat
    /\ {raw.topic1, raw.topic2} \subseteq Int
    /\ raw.data \in [prefix : STRING, upper : BOOLEAN, digits : Seq(Int)]
    /\ {raw.removed, raw.legible} \subseteq BOOLEAN
ASSUME ConfigAssumption ==
  /\ \A cfg \in LargeTransfers \cup Bridges \cup Approvals : cfg.threshold \in Word
  /\ \A cfg \in MintBurns : {cfg.mint_threshold, cfg.burn_threshold} \subseteq Word

VARIABLES last_by_feed_,  \* the oracle rule's last answers, by feed
          alerts,         \* the alerts of the last log
          log,            \* history: the last log
          baseline        \* history: the last valid answer of each feed before it

vars == <<last_by_feed_, alerts, log, baseline>>

AtMost(a, b)  == IF a <= b THEN a ELSE b
AtLeast(a, b) == IF a >= b THEN a ELSE b
----------------------------------------------------------------------------
(* normalize *)

\* EvmLogEvent::data holds 256 bytes, eight words; a longer payload is cut.
DataCapacity == 8 * WordWidth

byte_len(raw)   == Len(raw.data.digits) \div 2
data_size(raw)  == AtMost(byte_len(raw), DataCapacity)
truncated(raw)  == byte_len(raw) > DataCapacity

\* Fault: a payload of more than one word is read from its end.
FirstWord_Last(raw) ==
  LET data == parse_hex_bytes(raw.data, DataCapacity)
  IN  [i \in 1..WordWidth |-> data[AtLeast(data_size(raw) - WordWidth, 0) + i]]

\* The first word of the payload; bytes that are not there are zero.
FirstWord(raw) == LET data == parse_hex_bytes(raw.data, DataCapacity)
                  IN  [i \in 1..WordWidth |-> data[i]]

\* normalize throws: a hex field does not parse, or an index has over 32 bits.
Refused(raw) == ~raw.legible \/ raw.index >= U32 \/ ~validate_hex(raw.data)

GovernanceTopics == {"OwnershipTransferred", "Paused", "Unpaused",
                     "RoleGranted", "RoleRevoked", "Upgraded"}

classify_topic0(t) ==
  CASE t = "Transfer"              -> "Transfer"
    [] t \in {"SwapV2", "SwapV3"}  -> "Swap"
    [] t \in {"Mint", "Burn"}      -> "LiquidityChange"
    [] t \in GovernanceTopics      -> "Governance"
    [] t = "Approval"              -> "Approval"
    [] t = "AnswerUpdated"         -> "OracleUpdate"
    [] OTHER                       -> "Unknown"

EvmLogEvent(raw) ==
  [kind |-> "EvmLogEvent", chain_id |-> ChainId, removed |-> raw.removed,
   address |-> raw.address, topic_count |-> AtMost(raw.topic_count, 4),
   to |-> raw.topic2, amount |-> FirstWord(raw),
   data_size |-> data_size(raw), truncated |-> truncated(raw)]

GovernanceEvent(raw) ==
  [kind |-> "GovernanceEvent", chain_id |-> ChainId, address |-> raw.address,
   action |-> raw.topic0]

Direction(raw) == CASE raw.topic1 = 0 /\ raw.topic2 = 0 -> "Unknown"
                    [] raw.topic1 = 0 -> "Mint"
                    [] OTHER          -> "Burn"

MintBurnEvent(raw) ==
  [kind |-> "MintBurnEvent", chain_id |-> ChainId, address |-> raw.address,
   amount |-> FirstWord(raw), direction |-> Direction(raw)]

OracleUpdateEvent(raw) ==
  [kind |-> "OracleUpdateEvent", chain_id |-> ChainId, address |-> raw.address,
   current_answer |-> raw.topic1]

\* Fault: only the sender is looked at.
IsMintBurn_FromOnly(raw) ==
  /\ raw.topic0 = "Transfer" /\ raw.topic_count >= 3
  /\ raw.topic1 = 0
  /\ data_size(raw) >= WordWidth

\* A transfer from or to the zero address, with a full data word.
IsMintBurn(raw) ==
  /\ raw.topic0 = "Transfer" /\ raw.topic_count >= 3
  /\ 0 \in {raw.topic1, raw.topic2}
  /\ data_size(raw) >= WordWidth

\* An anonymous log has no topic0 and stays Unknown.
normalize(raw) ==
  LET type == IF raw.topic_count > 0 THEN classify_topic0(raw.topic0) ELSE "Unknown"
  IN  CASE type = "Governance" -> [type |-> type, payload |-> GovernanceEvent(raw)]
        [] IsMintBurn(raw) -> [type |-> "MintBurn", payload |-> MintBurnEvent(raw)]
        [] type = "OracleUpdate" /\ raw.topic_count >= 3 /\ data_size(raw) >= WordWidth ->
             [type |-> type, payload |-> OracleUpdateEvent(raw)]
        [] OTHER -> [type |-> type, payload |-> EvmLogEvent(raw)]
----------------------------------------------------------------------------
(* The rules *)

\* An alert's amount is a decimal text; the empty text stands for none.
Alert(rule, cfg, amount) == [rule_type |-> rule, cfg |-> cfg, amount |-> amount]
NoAmount == << >>

\* std::to_string of a 64-bit answer.
to_string(n) ==
  LET digits[k \in 0..n] == IF k < Radix THEN <<k>>
                           ELSE Append(digits[k \div Radix], k % Radix)
  IN  digits[n]

Watching(cfg, p) == cfg.chain_id = p.chain_id /\ cfg.address = p.address

\* The checks of the rules on raw logs, in one place: complete, not cut, and
\* not removed by a reorganisation.
Evaluable(s) == /\ s.payload.kind = "EvmLogEvent"
                /\ ~s.payload.removed /\ ~s.payload.truncated
                /\ s.payload.topic_count >= 3 /\ s.payload.data_size >= WordWidth

LargeTransferRule(s) ==
  IF ~Evaluable(s) THEN {}
  ELSE {Alert("large_transfer", cfg, uint256_be_to_decimal(s.payload.amount)) :
          cfg \in {c \in LargeTransfers : Watching(c, s.payload)
                                            /\ greater_be_256(s.payload.amount, c.threshold)}}

BridgeTransferRule(s) ==
  IF ~Evaluable(s) \/ <<s.payload.chain_id, s.payload.to>> \notin BridgeAddresses THEN {}
  ELSE {Alert("bridge_transfer", cfg, uint256_be_to_decimal(s.payload.amount)) :
          cfg \in {c \in Bridges : /\ Watching(c, s.payload) /\ c.enabled
                                   /\ greater_be_256(s.payload.amount, c.threshold)}}

ApprovalRule(s) ==
  IF ~Evaluable(s) THEN {}
  ELSE {Alert("approval", cfg, uint256_be_to_decimal(s.payload.amount)) :
          cfg \in {c \in Approvals :
                     /\ Watching(c, s.payload) /\ c.enabled
                     /\ \/ c.alert_on_infinite /\ s.payload.amount = MaxWord
                        \/ greater_be_256(s.payload.amount, c.threshold)}}

\* "Unknown" is no direction of either threshold.
MintBurnRule(s) ==
  IF s.payload.kind # "MintBurnEvent" THEN {}
  ELSE {Alert("mint_burn", cfg, uint256_be_to_decimal(s.payload.amount)) :
          cfg \in {c \in MintBurns :
                     /\ Watching(c, s.payload) /\ c.enabled
                     /\ \/ s.payload.direction = "Mint" /\ ~greater_be_256(c.mint_threshold, s.payload.amount)
                        \/ s.payload.direction = "Burn" /\ ~greater_be_256(c.burn_threshold, s.payload.amount)}}

GovernanceRule(s) ==
  IF s.payload.kind # "GovernanceEvent" THEN {}
  ELSE {Alert("governance", cfg, NoAmount) :
          cfg \in {c \in Governance : /\ Watching(c, s.payload) /\ c.enabled
                                      /\ c.action_filter \in {NoFilter, s.payload.action}}}

\* The oracle rule: delta in basis points, saturated at UINT64_MAX.
Distance(a, b) == IF a > b THEN a - b ELSE b - a
DeltaBps(cur, prev) == AtMost((Distance(cur, prev) * 10000) \div prev, U64 - 1)

Feeds == {<<cfg.chain_id, cfg.address>> : cfg \in Oracles}
FeedOf(p) == <<p.chain_id, p.address>>

\* Negative answers and those past 64 bits are skipped, and so are unwatched
\* feeds: no comparison, no new baseline.
IsObservation(s) == /\ s.payload.kind = "OracleUpdateEvent"
                    /\ FeedOf(s.payload) \in Feeds
                    /\ s.payload.current_answer \in 0..(U64 - 1)

OracleUpdateRule(s) ==
  IF ~IsObservation(s) \/ FeedOf(s.payload) \notin DOMAIN last_by_feed_ THEN {}
  ELSE LET prev == last_by_feed_[FeedOf(s.payload)]
       IN  {Alert("oracle_update", cfg, to_string(s.payload.current_answer)) :
              cfg \in {c \in Oracles : /\ prev # 0
                                       /\ Watching(c, s.payload) /\ c.enabled
                                       /\ DeltaBps(s.payload.current_answer, prev)
                                            > c.spike_threshold_bps}}

\* Fault: a feed that showed zero keeps zero as its baseline.
LastObservations_KeepsZero(s) ==
  IF ~IsObservation(s) \/ (FeedOf(s.payload) \in DOMAIN last_by_feed_
                             /\ last_by_feed_[FeedOf(s.payload)] = 0)
  THEN last_by_feed_
  ELSE [f \in DOMAIN last_by_feed_ \cup {FeedOf(s.payload)} |->
          IF f = FeedOf(s.payload) THEN s.payload.current_answer ELSE last_by_feed_[f]]

\* Every observation becomes the baseline of its feed, alert or not.
LastObservations(s) ==
  IF ~IsObservation(s) THEN last_by_feed_
  ELSE [f \in DOMAIN last_by_feed_ \cup {FeedOf(s.payload)} |->
          IF f = FeedOf(s.payload) THEN s.payload.current_answer ELSE last_by_feed_[f]]
----------------------------------------------------------------------------
(* RiskEngine: the routing table, and one signal *)

Routed(s) ==
  CASE s.type = "Transfer"     -> LargeTransferRule(s) \cup BridgeTransferRule(s)
    [] s.type = "Governance"   -> GovernanceRule(s)
    [] s.type = "MintBurn"     -> MintBurnRule(s)
    [] s.type = "Approval"     -> ApprovalRule(s)
    [] s.type = "OracleUpdate" -> OracleUpdateRule(s)
    [] OTHER                   -> {}

NoLog == [topic0 |-> "none", topic_count |-> 0, topic1 |-> 0, topic2 |-> 0,
          data |-> hex_text(<< >>), address |-> 0, removed |-> FALSE, index |-> 0,
          legible |-> TRUE]
NoAnswer == -1

Init == /\ last_by_feed_ = << >>
        /\ alerts = {}
        /\ log = NoLog
        /\ baseline = [f \in Feeds |-> NoAnswer]

\* The last valid answer a feed has shown, this log's included.
ValidAnswer(raw) == /\ ~Refused(raw)
                    /\ raw.topic0 = "AnswerUpdated" /\ raw.topic_count >= 3
                    /\ data_size(raw) >= WordWidth /\ raw.topic1 >= 0 /\ raw.topic1 < U64
ShownBefore(f) == IF ValidAnswer(log) /\ <<ChainId, log.address>> = f
                  THEN log.topic1 ELSE baseline[f]

\* A log normalize accepts goes through the engine.
Process(raw) ==
  LET s == normalize(raw)
  IN  /\ ~Refused(raw)
      /\ alerts' = Routed(s)
      /\ last_by_feed_' = LastObservations(s)
      /\ log' = raw
      /\ baseline' = [f \in Feeds |-> ShownBefore(f)]

\* A log normalize throws on ends with EventSource.
Refuse(raw) == /\ Refused(raw)
               /\ alerts' = {}
               /\ log' = raw
               /\ baseline' = [f \in Feeds |-> ShownBefore(f)]
               /\ UNCHANGED last_by_feed_

Next == \E raw \in RawLogs : Process(raw) \/ Refuse(raw)

Spec == Init /\ [][Next]_vars
----------------------------------------------------------------------------
(* Properties that hold *)

\* An oracle alert tells of a change against the last valid answer of the same
\* feed, whatever came in between - negative or oversized answers, other
\* feeds, a zero, which gives no percentage but is a baseline all the same -
\* and every such change of at least one basis point over the threshold is
\* told to every customer who asked (stated without the division).
SpikesAgainstLastValid ==
  \A cfg \in Oracles :
    LET prev == baseline[<<cfg.chain_id, cfg.address>>]
    IN  (\E a \in alerts : a.rule_type = "oracle_update" /\ a.cfg = cfg) <=>
          /\ ValidAnswer(log) /\ log.address = cfg.address /\ cfg.chain_id = ChainId
          /\ cfg.enabled /\ prev > 0
          /\ Distance(log.topic1, prev) * 10000 >= (cfg.spike_threshold_bps + 1) * prev

\* The amount of the log in hand, as a number: its first digits.
Amount    == Denotes(Nibble, SubSeq(log.data.digits, 1, 2 * WordWidth))
Number(w) == Denotes(Byte, w)

\* No alert carries an amount that was not in the log: each comes from three
\* topics and a complete data word, whichever of normalize and the rules looked
\* at it, and its decimal text denotes the number in that word - the bytes have
\* been cut, padded, copied and divided on the way.
AmountsAreInTheLog ==
  \A a \in alerts : a.rule_type # "governance" =>
    /\ log.topic_count >= 3 /\ byte_len(log) >= WordWidth
    /\ Denotes(Radix, a.amount) = (IF a.rule_type = "oracle_update" THEN log.topic1 ELSE Amount)

\* The thresholds, as numbers: a large transfer, a bridge transfer and an
\* approval alert only above them (an infinite approval at any), a mint or burn
\* not below them, each side against its own; and below one no alert is due.
ThresholdsHonoured ==
  \A a \in alerts :
    CASE a.rule_type \in {"large_transfer", "bridge_transfer"} -> Amount > Number(a.cfg.threshold)
      [] a.rule_type = "approval" -> \/ Amount > Number(a.cfg.threshold)
                                     \/ a.cfg.alert_on_infinite /\ Amount = Capacity256
      [] a.rule_type = "mint_burn" ->
           IF log.topic1 = 0 THEN Amount >= Number(a.cfg.mint_threshold)
                             ELSE Amount >= Number(a.cfg.burn_threshold)
      [] OTHER -> TRUE

\* A transfer is reported as what it is and as nothing else - a mint or burn
\* when the zero address is on one side, else a large transfer -, and one above
\* every threshold its token is watched with is reported: normalize, the routing
\* table and the two rules agree on which of them looks at it.  Only one with
\* the zero address on both sides, a refused, a removed or an oversized one may
\* go unreported.
TransferReportedOnce ==
  LET kinds == {a.rule_type : a \in alerts} \cap {"large_transfer", "mint_burn"}
      kind  == IF 0 \in {log.topic1, log.topic2} THEN "mint_burn" ELSE "large_transfer"
      watching(cfgs) == {c \in cfgs : c.chain_id = ChainId /\ c.address = log.address}
      over  == /\ watching(LargeTransfers) # {}
               /\ \A c \in watching(LargeTransfers) : Amount > Number(c.threshold)
      exceeds == /\ \E c \in watching(MintBurns) : c.enabled
                 /\ \A c \in watching(MintBurns) :
                       Amount > Number(c.mint_threshold) /\ Amount > Number(c.burn_threshold)
  IN  /\ kinds \subseteq {kind}
      /\ (/\ log.topic0 = "Transfer" /\ log.topic_count >= 3 /\ ~log.removed /\ ~Refused(log)
          /\ byte_len(log) \in WordWidth..DataCapacity
          /\ {log.topic1, log.topic2} # {0}
          /\ IF kind = "mint_burn" THEN exceeds ELSE over) => kinds # {}
----------------------------------------------------------------------------
(* What the repository says and the code does not do *)

\* risk_engine.cpp: "Reorg handling occurs before engine" - so no alert is
\* raised for a log that the node reports as removed.
RemovedLogsAreSilent == log.removed => alerts = {}

\* README, the table of rules: MintBurn "Fires when a mint or burn amount exceeds
\* the per-customer threshold for a monitored token".
MintBurnExceeds ==
  \A a \in alerts : a.rule_type = "mint_burn" =>
    Amount > Number(IF log.topic1 = 0 THEN a.cfg.mint_threshold ELSE a.cfg.burn_threshold)
=============================================================================
