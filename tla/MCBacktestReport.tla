-------------------------- MODULE MCBacktestReport --------------------------
(* One key with a window of two.                                           *)
EXTENDS BacktestReport

MCAlerts == {[customer_id |-> 1, rule_type |-> "governance", chain_id |-> "1",
              token_address |-> "t"]}
MCRuleWindow == [r \in {"governance"} |-> 2]
=============================================================================
