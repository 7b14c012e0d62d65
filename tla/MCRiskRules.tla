---------------------------- MODULE MCRiskRules ----------------------------
(* One token watched by every amount rule, two price feeds (one of a       *)
(* disabled customer too), one governed contract, one bridge; a second     *)
(* chain in the configuration.  A byte has four values and a word two      *)
(* bytes.  U64 stands for 2^64: thresholds are below it and one            *)
(* basis-point delta reaches it.                                           *)
EXTENDS RiskRules

Token  == 1
FeedA  == 2
FeedB  == 3
Bridge == 8

MCLargeTransfers == {[customer_id |-> 1, chain_id |-> 1, address |-> Token, threshold |-> <<1, 2>>],
                     [customer_id |-> 2, chain_id |-> 9, address |-> Token, threshold |-> <<0, 0>>]}
MCBridges == {[customer_id |-> 1, chain_id |-> 1, address |-> Token, threshold |-> <<0, 3>>, enabled |-> TRUE]}
MCMintBurns == {[customer_id |-> c, chain_id |-> 1, address |-> Token, enabled |-> c = 1,
                 mint_threshold |-> <<1, 2>>, burn_threshold |-> <<0, 0>>] : c \in 1..2}
MCApprovals == {[customer_id |-> 1, chain_id |-> 1, address |-> Token, enabled |-> TRUE,
                 threshold |-> t, alert_on_infinite |-> i] : t \in {<<2, 1>>, MaxWord}, i \in BOOLEAN}
MCGovernance == {[customer_id |-> 1, chain_id |-> 1, address |-> Token, enabled |-> TRUE,
                  action_filter |-> f] : f \in {NoFilter, "Paused"}}
MCOracles == {[customer_id |-> 1, chain_id |-> 1, address |-> FeedA, enabled |-> TRUE,
               spike_threshold_bps |-> 100],
              [customer_id |-> 2, chain_id |-> 1, address |-> FeedA, enabled |-> FALSE,
               spike_threshold_bps |-> 0],
              [customer_id |-> 2, chain_id |-> 1, address |-> FeedB, enabled |-> TRUE,
               spike_threshold_bps |-> 20000]}
MCBridgeAddresses == {<<1, Bridge>>}

\* No data, an incomplete word, one word, two words, more than fits, and a text
\* with a character that is no digit.
Payloads == {hex_text(d) : d \in {<< >>, <<3>>, <<0, 0>>, <<0, 3>>, <<1, 2>>, <<1, 3>>,
                                   <<2, 1, 3, 3>>, [i \in 1..(DataCapacity + 1) |-> 3]}}
            \cup {[hex_text(<<3, 3>>) EXCEPT !.digits[3] = BadChar]}
Words == {hex_text(w) : w \in {<<2, 1>>, <<2, 2>>, <<3, 3>>}}

Transfers ==
  [topic0 : {"Transfer"}, topic_count : {2, 3}, topic1 : {0, 7}, topic2 : {0, Bridge},
   data : Payloads, address : {Token}, removed : BOOLEAN, index : {U32 - 1}, legible : {TRUE}]
Answers == {l \in
  [topic0 : {"AnswerUpdated"}, topic_count : {3}, topic1 : {-1, 0, 1, 20000, 20201, 20202, 60000, 65536},
   topic2 : {5}, data : {hex_text(<<0, 0>>)}, address : {FeedA, FeedB}, removed : {FALSE},
   index : {0, U32}, legible : BOOLEAN] : l.index = 0 \/ l.legible}
Others ==
  [topic0 : {"Approval", "Paused", "Upgraded", "SwapV2", "Mint", "AnswerUpdated", "other"},
   topic_count : {0, 3}, topic1 : {7}, topic2 : {7}, data : Words,
   address : {Token}, removed : BOOLEAN, index : {0}, legible : {TRUE}]
MCRawLogs == Transfers \cup Answers \cup Others
=============================================================================
