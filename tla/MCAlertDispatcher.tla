------------------------- MODULE MCAlertDispatcher -------------------------
(* Two customers, one with a webhook endpoint and one with none; two       *)
(* rules, the second without a window of its own; two alerts that differ   *)
(* in their chain only, and one with neither chain nor token.              *)
EXTENDS AlertDispatcher

MCAlerts == {[customer_id |-> 1, rule_type |-> "governance", chain_id |-> "1",
              token_address |-> "t"],
             [customer_id |-> 1, rule_type |-> "governance", chain_id |-> "2",
              token_address |-> "t"],
             [customer_id |-> 2, rule_type |-> "other", chain_id |-> NoValue,
              token_address |-> NoValue]}
MCEndpoints  == <<{"a"}, {}>>
MCRuleWindow == [r \in {"governance"} |-> 2]
LiveChannels == <<"console", "telegram", "webhook">>
=============================================================================
