----------------------------- MODULE MCStartup -----------------------------
(* Texts over two hex digits and three decimal digits: an address is two   *)
(* hex digits, a word holds 0..15, so that every kind of text is there,    *)
(* exhaustively: too short, too long, odd, without a prefix, in upper      *)
(* case, with a character that is no digit, too large by one.              *)
(* Three kinds of scenario: one table with any text in its only row; one   *)
(* table with any two rows of a few kinds; and one fixed database with     *)
(* failures, restarts, secrets and every kind of backtest document.        *)
EXTENDS Startup, TLC

CONSTANTS True, Half   \* JSON values that are cast
MCCoerced == (True :> 1) @@ (Half :> 0)

Upto(S, n) == UNION {[1..m -> S] : m \in 0..n}

Texts == [prefix : {"0x"}, upper : BOOLEAN, digits : Upto({BadChar, 0, 1}, 4)]
         \cup [prefix : {"0X", "none"}, upper : {FALSE}, digits : Upto({BadChar, 0, 1}, 2)]
Numbers == Upto({BadChar, 0, 1, 2}, 4)

Text(p, u, d) == [prefix |-> p, upper |-> u, digits |-> d]
Good     == Text("0x", FALSE, <<1, 0>>)
Mixed    == Text("0x", TRUE, <<0, 1>>)
Short    == Text("0x", FALSE, << >>)
Odd      == Text("0x", FALSE, <<1>>)
MCToken  == Text("0x", TRUE, <<1, 1>>)
MCNumber == <<1, 2>>
Huge     == <<1, 2, 1>>

Item(t, address, number, chain) ==
  [enabled |-> TRUE, chain_id |-> chain, address |-> address] @@
  (IF t = "bridge_contracts" THEN << >> ELSE [customer_id |-> 1]) @@
  CASE t \in {"large_transfer", "bridge"} -> [threshold |-> number]
    [] t = "approval" -> [threshold |-> number, alert_on_infinite |-> TRUE]
    [] t = "mint_burn" -> [mint_threshold |-> number, burn_threshold |-> <<1>>]
    [] t = "oracle" -> [bps |-> 2, decimals |-> 1]
    [] OTHER -> << >>

Customers(ids) == [i \in 1..Len(ids) |-> [customer_id |-> ids[i]]]
MCCommonRows == [t \in Tables |-> IF t = "customers" THEN Customers(<<1, 2>>)
                              ELSE <<Item(t, Good, MCNumber, 1)>>]
Adressed == Tables \ {"customers"}

With(t, rows) == [table |-> t, rows |-> rows]

\* One row, any text; its number, any number.
OneText == {With(t, <<Item(t, a, MCNumber, 1)>>) : t \in Adressed, a \in Texts}
OneNumber ==
  {With(t, <<Item(t, Good, n, 1)>>) : t \in {"large_transfer", "approval", "bridge", "mint_burn"}, n \in Numbers}
  \cup {With("mint_burn", <<[Item("mint_burn", Good, MCNumber, 1) EXCEPT !.burn_threshold = n]>>) : n \in Numbers}

\* Two rows of a few kinds, one of them switched off perhaps.
Kinds(t) == {Item(t, a, n, c) : a \in {Good, Mixed, Short, Odd}, n \in {MCNumber, Huge}, c \in {1, -1}}
            \cup {[Item(t, Odd, MCNumber, 1) EXCEPT !.enabled = FALSE]}
            \cup (IF t = "oracle" THEN {[Item(t, Mixed, MCNumber, 1) EXCEPT !.bps = b, !.decimals = d] :
                                          b \in {0, 1, MaxBps, MaxBps + 1}, d \in {-1, MaxDecimals, MaxDecimals + 1}}
                  ELSE IF t = "approval" THEN {[Item(t, Good, MCNumber, 1) EXCEPT !.alert_on_infinite = Missing]}
                  ELSE IF t = "large_transfer" THEN
                    {[Item(t, Mixed, MCNumber, 1) EXCEPT !.chain_id = c, !.address = a, !.threshold = n] :
                       c \in {2, Missing, WrongType, True, Half}, a \in {Good, Missing}, n \in {MCNumber, Missing, WrongType}}
                  ELSE {})
Other(t, row) == IF t = "bridge_contracts" THEN row ELSE [row EXCEPT !.customer_id = 2]
TwoRows == UNION {{With(t, <<r, Other(t, q)>>) : r, q \in Kinds(t)} : t \in Adressed}

Header == [readable |-> TRUE, chain |-> "ethereum", start_block |-> 1, end_block |-> 2,
           output_path |-> "report", max_block_range |-> 1, rpc_url |-> TRUE]
Headers == {Header, [Header EXCEPT !.rpc_url = FALSE], [Header EXCEPT !.readable = FALSE],
            [Header EXCEPT !.chain = "other"], [Header EXCEPT !.start_block = 2],
            [Header EXCEPT !.output_path = ""], [Header EXCEPT !.max_block_range = 0]}

Scenario(which, keys, docs, faults, starts, provisions) ==
  [table |-> which.table, rows |-> which.rows, keys |-> keys, documents |-> docs,
   faults |-> faults, starts |-> starts, provisions |-> provisions]

AnyKey == MasterKeys \cup {NoKey, BadKey}
Usual  == With("customers", Customers(<<1, 2>>))

MCScenarios ==
  {Scenario(w, {BadKey}, {Header}, 0, 1, 0) : w \in OneText \cup OneNumber \cup TwoRows
                                    \cup {With("customers", Customers(ids)) : ids \in {<< >>, <<2>>}}}
  \cup {Scenario(Usual, MasterKeys, Headers, 2, 2, 0), Scenario(Usual, AnyKey, {}, 1, 2, 2)}
=============================================================================
