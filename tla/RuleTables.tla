----------------------------- MODULE RuleTables -----------------------------
(***************************************************************************)
(* How rows of configuration become the rules' tables: the load_..._       *)
(* functions of App (src/app/app.cpp), which read PostgreSQL, and          *)
(* load_backtest_config (src/backtest/backtest_config.cpp), which reads a  *)
(* YAML document.  A table is the sequence of configurations in the order  *)
(* they were appended; what the code spreads over a map is told by key.    *)
(* Three tables are keyed by the address as text, three by its bytes.      *)
(***************************************************************************)
EXTENDS Conversions, Selection, FiniteSetsExt

CONSTANTS Skipped,           \* the row is passed over (Throws: an exception leaves
                             \* the loop)
          Missing,           \* a field that is not there
          WrongType,         \* a JSON field of another type
          U64,               \* 2^64
          Coerced,           \* what a cast makes of a JSON number that is no integer
                             \* of 64 bits, or of a boolean
          DefaultChain,      \* the defaults of a large_transfer row: 42161,
          DefaultToken,      \* USDT on Arbitrum,
          DefaultThreshold,  \* 10000000000
          MaxBps,            \* 100000
          MaxDecimals        \* 255

RuleTypes == {"large_transfer", "governance", "mint_burn", "approval", "bridge", "oracle"}
Tables    == RuleTypes \cup {"customers", "bridge_contracts"}

\* The columns; the parameters of a large_transfer row are JSON, of which any
\* field may be left out or be of another type.
Json(S)     == S \cup {Missing, WrongType}
JsonInts    == (-(U64 \div 2))..(U64 - 1)
JsonNumbers == JsonInts \cup DOMAIN Coerced
TableRow(t) ==
  CASE t = "customers"      -> [customer_id : Int]
    [] t = "large_transfer" -> [enabled : BOOLEAN, customer_id : Int, chain_id : Json(JsonNumbers),
                                address : Json(HexTexts), threshold : Json(Seq(Int))]
    [] t = "governance"     -> [enabled : BOOLEAN, customer_id : Int, chain_id : Int, address : HexTexts]
    [] t = "mint_burn"      -> [enabled : BOOLEAN, customer_id : Int, chain_id : Int, address : HexTexts,
                                mint_threshold : Seq(Int), burn_threshold : Seq(Int)]
    [] t = "approval"       -> [enabled : BOOLEAN, customer_id : Int, chain_id : Int, address : HexTexts,
                                threshold : Seq(Int), alert_on_infinite : BOOLEAN \cup {Missing}]
    [] t = "bridge_contracts" -> [enabled : BOOLEAN, chain_id : Int, address : HexTexts]
    [] t = "bridge"         -> [enabled : BOOLEAN, customer_id : Int, chain_id : Int, address : HexTexts,
                                threshold : Seq(Int)]
    [] t = "oracle"         -> [enabled : BOOLEAN, customer_id : Int, chain_id : Int, address : HexTexts,
                                bps : Int, decimals : Int]

\* What the rules keep of a row.
TableConfig(t) ==
  CASE t = "customers"  -> [customer_id : Int]
    [] t = "governance" -> [customer_id : Int, chain_id : Int, key : HexTexts]
    [] t = "mint_burn"  -> [customer_id : Int, chain_id : Int, key : HexTexts,
                            mint_threshold : Word, burn_threshold : Word]
    [] t = "approval"   -> [customer_id : Int, chain_id : Int, key : HexTexts,
                            threshold : Word, alert_on_infinite : BOOLEAN]
    [] t = "bridge_contracts" -> [chain_id : Int, key : Address]
    [] t = "oracle"     -> [customer_id : Int, chain_id : Int, key : Address,
                            spike_threshold_bps : Int, decimals : Int]
    [] t \in {"large_transfer", "bridge"} ->
                           [customer_id : Int, chain_id : Int, key : Address, threshold : Word]

\* A row that is passed over and an exception leave no configuration.
ASSUME OutcomeAssumption ==
  Skipped # Throws /\ \A t \in Tables : {Skipped, Throws} \cap TableConfig(t) = {}

\* A cast gives an unsigned number, out of a range where it is undefined too.
ASSUME JsonAssumption ==
  /\ U64 \in Nat \ {0}
  /\ \A v \in DOMAIN Coerced : /\ v \notin Int /\ v \notin {Missing, WrongType}
                               /\ Coerced[v] \in 0..(U64 - 1)

ASSUME DefaultsAssumption ==
  DefaultChain \in 0..(U64 - 1) /\ DefaultToken \in HexTexts /\ DefaultThreshold \in Seq(Int)
----------------------------------------------------------------------------
(* App: one row of each table.  A negative BIGINT is no uint64_t.          *)

live_customer(row) == [customer_id |-> row.customer_id]

Or(field, default) == IF field = Missing THEN default ELSE field

\* External: nlohmann's conversion of a number or a boolean to an unsigned
\* integer is a cast, which wraps a negative one and cuts a fraction off.
json_uint(field) == IF field \in DOMAIN Coerced THEN Coerced[field]
                    ELSE IF field < 0 THEN field + U64 ELSE field

\* The parameters are JSON: a field that is missing has a default, anything
\* else wrong with them costs this row only.
live_large_transfer(row) ==
  LET address   == parse_hex_bytes(Or(row.address, DefaultToken), AddressWidth)
      threshold == decimal_to_be_256(Or(row.threshold, DefaultThreshold))
  IN  IF row.chain_id = WrongType \/ row.address = WrongType \/ row.threshold = WrongType THEN Skipped
      ELSE IF address = Throws \/ threshold = Throws THEN Skipped
      ELSE [customer_id |-> row.customer_id, chain_id |-> json_uint(Or(row.chain_id, DefaultChain)),
            key |-> address, threshold |-> threshold]

\* Whatever text stands there is a key.
live_governance(row) ==
  IF row.chain_id < 0 THEN Throws
  ELSE [customer_id |-> row.customer_id, chain_id |-> row.chain_id, key |-> lower(row.address)]

live_mint_burn(row) ==
  LET mint == decimal_to_be_256(row.mint_threshold)
      burn == decimal_to_be_256(row.burn_threshold)
  IN  IF row.chain_id < 0 \/ mint = Throws \/ burn = Throws THEN Throws
      ELSE [customer_id |-> row.customer_id, chain_id |-> row.chain_id, key |-> lower(row.address),
            mint_threshold |-> mint, burn_threshold |-> burn]

\* The column's default is TRUE (db/005_approval_rules.sql).
live_approval(row) ==
  LET threshold == decimal_to_be_256(row.threshold)
  IN  IF \/ row.chain_id < 0 \/ threshold = Throws
         \/ parse_hex_bytes(lower(row.address), AddressWidth) = Throws THEN Throws
      ELSE [customer_id |-> row.customer_id, chain_id |-> row.chain_id, key |-> lower(row.address),
            threshold |-> threshold, alert_on_infinite |-> Or(row.alert_on_infinite, TRUE)]

live_bridge_contract(row) ==
  LET address == parse_hex_bytes(lower(row.address), AddressWidth)
  IN  IF row.chain_id < 0 \/ address = Throws THEN Throws
      ELSE [chain_id |-> row.chain_id, key |-> address]

live_bridge(row) ==
  LET address   == parse_hex_bytes(lower(row.address), AddressWidth)
      threshold == decimal_to_be_256(row.threshold)
  IN  IF row.chain_id < 0 \/ address = Throws \/ threshold = Throws THEN Throws
      ELSE [customer_id |-> row.customer_id, chain_id |-> row.chain_id,
            key |-> address, threshold |-> threshold]

OracleRanges(row) == row.bps \in 1..MaxBps /\ row.decimals \in 0..MaxDecimals

\* Checked row by row: out of range or a bad address costs this row only.
live_oracle(row) ==
  LET address == parse_hex_bytes(lower(row.address), AddressWidth)
  IN  IF row.chain_id < 0 THEN Throws
      ELSE IF ~OracleRanges(row) \/ address = Throws THEN Skipped
      ELSE [customer_id |-> row.customer_id, chain_id |-> row.chain_id, key |-> address,
            spike_threshold_bps |-> row.bps, decimals |-> row.decimals]

live_row(t, row) == CASE t = "customers"        -> live_customer(row)
                      [] t = "large_transfer"   -> live_large_transfer(row)
                      [] t = "governance"       -> live_governance(row)
                      [] t = "mint_burn"        -> live_mint_burn(row)
                      [] t = "approval"         -> live_approval(row)
                      [] t = "bridge_contracts" -> live_bridge_contract(row)
                      [] t = "bridge"           -> live_bridge(row)
                      [] t = "oracle"           -> live_oracle(row)
----------------------------------------------------------------------------
(* App: one table *)

\* WHERE enabled = true; customers cannot be switched off.
Selected(t, rows) == IF t = "customers" THEN rows
                     ELSE Chosen(rows, {i \in DOMAIN rows : rows[i].enabled})

Outcomes(t, rows) == [i \in DOMAIN Selected(t, rows) |-> live_row(t, Selected(t, rows)[i])]
Stops(outcomes)   == {i \in DOMAIN outcomes : outcomes[i] = Throws}

\* Fault: an exception empties the table.
Kept_AllOrNothing(outcomes) ==
  Chosen(outcomes, {i \in DOMAIN outcomes : Stops(outcomes) = {} /\ outcomes[i] # Skipped})

\* The configurations appended before an exception stay.
Kept(outcomes) ==
  Chosen(outcomes, {i \in DOMAIN outcomes : /\ \A j \in Stops(outcomes) : i < j
                                           /\ outcomes[i] # Skipped})

load_configs(t, rows) == Kept(Outcomes(t, rows))

\* Without a registry, or with one that could not be read to its end, the
\* customers' bridge rules are not even asked for.
load_bridge_rules(rows) ==
  LET registry == Outcomes("bridge_contracts", rows["bridge_contracts"])
  IN  IF Stops(registry) # {} \/ Kept(registry) = << >> THEN << >>
      ELSE load_configs("bridge", rows["bridge"])
----------------------------------------------------------------------------
(* The backtest: the same rows as items of a YAML document.  The file      *)
(* either is right from its first line to its last, or it is refused.      *)

validate_hex_address(text) ==
  /\ Len(text.digits) = 2 * AddressWidth /\ text.prefix = "0x" /\ validate_hex(text)

\* Fault: addresses are taken as they are written.
yaml_address_AsWritten(row) ==
  IF row.address \in {Missing, WrongType} THEN Throws
  ELSE IF validate_hex_address(row.address) THEN row.address ELSE Throws

yaml_address(row) == IF row.address \in {Missing, WrongType} THEN Throws
                     ELSE IF validate_hex_address(lower(row.address)) THEN lower(row.address)
                     ELSE Throws

\* require_uint and require_string: a field that must be there.
yaml_uint(field)    == IF field \in {Missing, WrongType} \cup DOMAIN Coerced THEN Throws
                       ELSE IF field < 0 THEN Throws ELSE field
yaml_decimal(field) == IF field \in {Missing, WrongType} THEN Throws
                       ELSE decimal_to_be_256(field)

yaml_customer(row) == [customer_id |-> row.customer_id]

\* The chain and the address of an item, and its address as bytes.
BadItem(row)    == yaml_uint(row.chain_id) = Throws \/ yaml_address(row) = Throws
yaml_bytes(row) == parse_hex_bytes(yaml_address(row), AddressWidth)

\* parse_large_transfer and parse_bridge_transfers
parse_transfers(row) ==
  IF yaml_decimal(row.threshold) = Throws THEN Throws
  ELSE [customer_id |-> row.customer_id, chain_id |-> row.chain_id, key |-> yaml_bytes(row),
        threshold |-> yaml_decimal(row.threshold)]

parse_governance(row) ==
  [customer_id |-> row.customer_id, chain_id |-> row.chain_id, key |-> yaml_address(row)]

parse_mint_burn(row) ==
  IF yaml_decimal(row.mint_threshold) = Throws \/ yaml_decimal(row.burn_threshold) = Throws THEN Throws
  ELSE [customer_id |-> row.customer_id, chain_id |-> row.chain_id, key |-> yaml_address(row),
        mint_threshold |-> yaml_decimal(row.mint_threshold),
        burn_threshold |-> yaml_decimal(row.burn_threshold)]

parse_approval(row) ==
  IF yaml_decimal(row.threshold) = Throws THEN Throws
  ELSE [customer_id |-> row.customer_id, chain_id |-> row.chain_id, key |-> yaml_address(row),
        threshold |-> yaml_decimal(row.threshold),
        alert_on_infinite |-> Or(row.alert_on_infinite, FALSE)]

parse_oracle_update(row) ==
  IF ~OracleRanges(row) THEN Throws
  ELSE [customer_id |-> row.customer_id, chain_id |-> row.chain_id, key |-> yaml_bytes(row),
        spike_threshold_bps |-> row.bps, decimals |-> row.decimals]

parse_bridge_contracts(row) == [chain_id |-> row.chain_id, key |-> yaml_bytes(row)]

yaml_row(t, row) ==
  IF t # "customers" /\ BadItem(row) THEN Throws
  ELSE CASE t = "customers"                    -> yaml_customer(row)
         [] t \in {"large_transfer", "bridge"} -> parse_transfers(row)
         [] t = "governance"                   -> parse_governance(row)
         [] t = "mint_burn"                    -> parse_mint_burn(row)
         [] t = "approval"                     -> parse_approval(row)
         [] t = "oracle"                       -> parse_oracle_update(row)
         [] t = "bridge_contracts"             -> parse_bridge_contracts(row)

yaml_table(t, items) == [i \in DOMAIN items |-> yaml_row(t, items[i])]

Declared(customers) == {customers[i].customer_id : i \in DOMAIN customers}

validate_customer_ids(tables) ==
  \A t \in RuleTypes : \A i \in DOMAIN tables[t] :
    tables[t][i].customer_id \in Declared(tables["customers"])

\* The document's header: readable, a known chain, a range that is not empty,
\* somewhere to write to, and requests of at least a block.
HeaderValid(doc) ==
  /\ doc.readable /\ doc.chain \in {"ethereum", "arbitrum"}
  /\ doc.start_block < doc.end_block
  /\ doc.output_path # "" /\ doc.max_block_range # 0

load_backtest_config(header, items) ==
  LET tables == [t \in Tables |-> yaml_table(t, items[t])]
  IN  IF /\ HeaderValid(header)
         /\ \A t \in Tables : Stops(tables[t]) = {}
         /\ validate_customer_ids(tables)
      THEN tables ELSE Throws
=============================================================================
