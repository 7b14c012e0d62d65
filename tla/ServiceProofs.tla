--------------------------- MODULE ServiceProofs ---------------------------
(***************************************************************************)
(* Proofs about the service from its start to its health endpoints.        *)
(* Startup: for every database, every number of connection attempts, and   *)
(* every sequence of failures, kills and restarts.  Health: what a         *)
(* readiness answer means, for any number of concurrent probes and any     *)
(* ages, periods and timeouts.                                             *)
(***************************************************************************)
EXTENDS Startup, Health, ConversionsProofs

----------------------------------------------------------------------------
(* A loop that keeps some elements *)

\* One more element considered.
NextChosen(seq, keep, x, n) == IF n \in keep THEN Append(x, seq[n]) ELSE x

\* ChosenUpTo satisfies its own recursion.
LEMMA ChosenRecursion ==
  ASSUME NEW S, NEW seq \in Seq(S), NEW keep
  PROVE  LET c == ChosenUpTo(seq, keep)
         IN  /\ c[0] = << >>
             /\ \A n \in 1..Len(seq) : c[n] = NextChosen(seq, keep, c[n - 1], n)
             /\ \A n \in 0..Len(seq) : c[n] \in Seq(S)
<1> DEFINE c == ChosenUpTo(seq, keep)
           len == Len(seq)
           X == Seq(S)
           G == [n \in 1..len |-> [x \in X |-> NextChosen(seq, keep, x, n)]]
<1>1. len \in Nat
  OBVIOUS
<1>2. \A n \in 1..len, x \in X : NextChosen(seq, keep, x, n) \in X
  BY DEF NextChosen
<1>3. c = CHOOSE g : g = [n \in 0..len |-> IF n = 0 THEN << >> ELSE NextChosen(seq, keep, g[n - 1], n)]
  BY DEF ChosenUpTo, NextChosen
<1>4. << >> \in X
  OBVIOUS
<1> HIDE DEF c, len, X
<1>5. G \in [1..len -> [X -> X]]
  BY <1>2
<1>6. PICK f : Iterates(f, len, X, << >>, G)
  <2> HIDE DEF G
  <2> QED BY <1>1, <1>4, <1>5, RecursionExists, Zenon
<1>7. \A n \in 1..len : f[n] = NextChosen(seq, keep, f[n - 1], n)
  <2> SUFFICES ASSUME NEW n \in 1..len PROVE f[n] = NextChosen(seq, keep, f[n - 1], n)
    OBVIOUS
  <2>1. n - 1 \in 0..len
    BY <1>1
  <2>2. f[n - 1] \in X /\ f[n] = G[n][f[n - 1]]
    BY <1>6, <2>1 DEF Iterates
  <2> QED BY <2>2
<1>8. f = [n \in 0..len |-> IF n = 0 THEN << >> ELSE NextChosen(seq, keep, f[n - 1], n)]
  <2>1. \A n \in 0..len : n # 0 => n \in 1..len
    BY <1>1
  <2>2. \A n \in 0..len : f[n] = IF n = 0 THEN << >> ELSE NextChosen(seq, keep, f[n - 1], n)
    BY <1>6, <1>7, <2>1 DEF Iterates
  <2> QED BY <1>6, <2>2 DEF Iterates
<1>9. c = [n \in 0..len |-> IF n = 0 THEN << >> ELSE NextChosen(seq, keep, c[n - 1], n)]
  BY <1>3, <1>8
<1>10. c[0] = << >> /\ \A n \in 1..len : c[n] = NextChosen(seq, keep, c[n - 1], n)
  BY <1>1, <1>9
<1>11. \A n \in 0..len : c[n] \in X
  <2> DEFINE Good == {n \in 0..len : c[n] \in X}
  <2>1. 0 \in Good
    BY <1>1, <1>4, <1>10
  <2>2. \A n \in 1..len : n - 1 \in Good => n \in Good
    <3>1. \A n \in 1..len : n \in 0..len
      BY <1>1
    <3> QED BY <1>2, <1>10, <3>1
  <2>3. \A n \in 0..len : n \in Good
    <3> HIDE DEF Good
    <3> QED BY <1>1, <2>1, <2>2, Induction
  <2> QED BY <2>3
<1> QED BY <1>10, <1>11 DEF c, len, X

\* What is chosen stood in a place to keep, and whatever stood there is chosen.
LEMMA ChosenElements ==
  ASSUME NEW S, NEW seq \in Seq(S), NEW keep
  PROVE  /\ Chosen(seq, keep) \in Seq(S)
         /\ \A k \in DOMAIN Chosen(seq, keep) :
              \E i \in DOMAIN seq : i \in keep /\ Chosen(seq, keep)[k] = seq[i]
         /\ \A i \in DOMAIN seq : i \in keep =>
              \E k \in DOMAIN Chosen(seq, keep) : Chosen(seq, keep)[k] = seq[i]
<1> DEFINE c == ChosenUpTo(seq, keep)
           len == Len(seq)
           From(n) == \A k \in DOMAIN c[n] : \E i \in DOMAIN seq : i \in keep /\ c[n][k] = seq[i]
           Into(n) == \A i \in 1..n : i \in keep => \E k \in DOMAIN c[n] : c[n][k] = seq[i]
           Good == {n \in 0..len : From(n) /\ Into(n)}
<1>1. len \in Nat /\ DOMAIN seq = 1..len
  OBVIOUS
<1>2. /\ c[0] = << >> /\ \A n \in 1..len : c[n] = NextChosen(seq, keep, c[n - 1], n)
      /\ \A n \in 0..len : c[n] \in Seq(S)
  BY ChosenRecursion
<1> HIDE DEF c, len
<1>3. 0 \in Good
  BY <1>1, <1>2
<1>4. ASSUME NEW n \in 1..len, n - 1 \in Good PROVE n \in Good
  <2>1. n - 1 \in 0..len /\ n \in 0..len /\ n \in DOMAIN seq
    BY <1>1
  <2>2. From(n - 1) /\ Into(n - 1) /\ c[n - 1] \in Seq(S)
    BY <1>2, <1>4, <2>1
  <2>3. CASE n \notin keep
    <3>1. c[n] = c[n - 1]
      BY <1>2, <2>3 DEF NextChosen
    <3>2. \A i \in 1..n : i \in keep => i \in 1..(n - 1)
      BY <1>1, <2>3
    <3> QED BY <2>1, <2>2, <3>1, <3>2
  <2>4. CASE n \in keep
    <3>1. c[n] = Append(c[n - 1], seq[n])
      BY <1>2, <2>4 DEF NextChosen
    <3> DEFINE s == c[n - 1]
               m == Len(s)
    <3>2. s \in Seq(S) /\ m \in Nat /\ seq[n] \in S
      BY <1>1, <2>2
    <3>3. /\ DOMAIN c[n] = 1..(m + 1) /\ DOMAIN s = 1..m
          /\ \A k \in 1..m : c[n][k] = s[k]
          /\ c[n][m + 1] = seq[n]
      <4> HIDE DEF s
      <4> QED BY <3>1, <3>2 DEF s
    <3> HIDE DEF s, m
    <3>4. \A k \in 1..(m + 1) : k \in 1..m \/ k = m + 1
      BY <3>2
    <3>5. From(n)
      BY <2>1, <2>2, <2>4, <3>3, <3>4 DEF s
    <3>6. \A i \in 1..n : i \in 1..(n - 1) \/ i = n
      BY <1>1
    <3>7. m + 1 \in 1..(m + 1) /\ 1..m \subseteq 1..(m + 1)
      BY <3>2
    <3>8. Into(n)
      BY <2>2, <3>3, <3>6, <3>7 DEF s
    <3> QED BY <2>1, <3>5, <3>8
  <2> QED BY <2>3, <2>4
<1>5. \A n \in 0..len : n \in Good
  <2> HIDE DEF Good
  <2> QED BY <1>1, <1>3, <1>4, Induction
<1>6. len \in 0..len /\ Chosen(seq, keep) = c[len]
  BY <1>1 DEF Chosen, c, len
<1>7. From(len) /\ Into(len) /\ c[len] \in Seq(S)
  BY <1>2, <1>5, <1>6
<1> QED BY <1>1, <1>6, <1>7

\* A loop that passes nothing over copies the sequence.
LEMMA ChosenAll ==
  ASSUME NEW S, NEW seq \in Seq(S), NEW keep, DOMAIN seq \subseteq keep
  PROVE  Chosen(seq, keep) = seq
<1> DEFINE c == ChosenUpTo(seq, keep)
           len == Len(seq)
           Good == {n \in 0..len : Len(c[n]) = n /\ \A k \in 1..n : c[n][k] = seq[k]}
<1>1. len \in Nat /\ DOMAIN seq = 1..len
  OBVIOUS
<1>2. /\ c[0] = << >> /\ \A n \in 1..len : c[n] = NextChosen(seq, keep, c[n - 1], n)
      /\ \A n \in 0..len : c[n] \in Seq(S)
  BY ChosenRecursion
<1>3. 0 \in Good
  <2> HIDE DEF c
  <2> QED BY <1>1, <1>2
<1> HIDE DEF c, len
<1>4. ASSUME NEW n \in 1..len, n - 1 \in Good PROVE n \in Good
  <2>1. n \in keep /\ n - 1 \in 0..len /\ n \in 0..len /\ seq[n] \in S
    BY <1>1
  <2>2. c[n] = Append(c[n - 1], seq[n]) /\ c[n - 1] \in Seq(S)
    BY <1>2, <2>1 DEF NextChosen
  <2>3. Len(c[n - 1]) = n - 1 /\ \A k \in 1..(n - 1) : c[n - 1][k] = seq[k]
    BY <1>4
  <2>4. Len(c[n]) = n /\ c[n][n] = seq[n] /\ \A k \in 1..(n - 1) : c[n][k] = c[n - 1][k]
    BY <2>1, <2>2, <2>3
  <2>5. \A k \in 1..n : k \in 1..(n - 1) \/ k = n
    BY <1>1
  <2> QED BY <2>1, <2>3, <2>4, <2>5
<1>5. \A n \in 0..len : n \in Good
  <2> HIDE DEF Good
  <2> QED BY <1>1, <1>3, <1>4, Induction
<1>6. len \in 0..len /\ Chosen(seq, keep) = c[len] /\ c[len] \in Seq(S)
  BY <1>1, <1>2 DEF Chosen, c, len
<1>7. Len(c[len]) = len /\ \A k \in 1..len : c[len][k] = seq[k]
  BY <1>5, <1>6
<1>8. seq \in Seq(S) /\ Len(seq) = len
  BY DEF len
<1> QED BY <1>6, <1>7, <1>8

----------------------------------------------------------------------------
(* The start: the phases and the readiness file *)

Phases == {"down", "connect", "checkpoint", "modules", "load", "register", "threads", "started",
           "running"}

\* Where the process is, and how each query that failed went.
PhaseInv == phase \in Phases /\ lost \in [Tables \cup {"webhooks"} -> {"no"} \cup Outcome]

\* Nothing is lost before the first start.
LEMMA PhaseStart == Init => PhaseInv
BY DEF Init, PhaseInv, Phases, Nothing

\* What a step does to the phase and to the list of lost tables.
LEMMA PhaseStep == PhaseInv /\ [Next]_vars => PhaseInv'
<1> SUFFICES ASSUME PhaseInv, [Next]_vars PROVE PhaseInv'
    OBVIOUS
<1> USE DEF PhaseInv, Phases
<1>1. CASE Provision \/ Mishap \/ UNCHANGED vars
           \/ \E ok \in BOOLEAN, header \in scenario.documents : Backtest(header, ok)
  <2>1. UNCHANGED <<phase, lost>>
    BY <1>1 DEF Provision, Mishap, Backtest, vars, processVars
  <2> QED BY <2>1
<1>2. CASE Start
  <2>1. phase' = "connect" /\ lost' = Nothing
    BY <1>2 DEF Start
  <2> QED BY <2>1 DEF Nothing
<1>3. CASE NoDatabaseUrl \/ Kill
  <2>1. phase' = "down" /\ lost' = lost
    BY <1>3 DEF NoDatabaseUrl, Kill, GiveUp
  <2> QED BY <2>1
<1>4. ASSUME NEW ok \in BOOLEAN, Connect(ok) \/ ReadCheckpoint(ok) \/ BuildModules(ok)
      PROVE  PhaseInv'
  <2>1. lost' = lost /\ phase' \in {"down", "connect", "checkpoint", "modules", "load"}
    BY <1>4 DEF Connect, ReadCheckpoint, BuildModules, GiveUp, Advance
  <2> QED BY <2>1
<1>5. ASSUME NEW ok \in BOOLEAN, StartThreads(ok) \/ WriteReadinessFile(ok) PROVE PhaseInv'
  <2>1. lost' = lost /\ phase' \in {"started", "running"}
    BY <1>5 DEF StartThreads, WriteReadinessFile
  <2> QED BY <2>1
<1>6. ASSUME NEW ok \in BOOLEAN, Stop(ok) PROVE PhaseInv'
  <2>1. lost' = lost /\ phase' = "down"
    BY <1>6 DEF Stop, Ended
  <2> QED BY <2>1
<1>7. ASSUME NEW went \in Outcome, NEW t \in Tables, LoadTable(t, went) PROVE PhaseInv'
  <2>1. phase' = phase /\ lost' = IF went = "ok" THEN lost ELSE [lost EXCEPT ![t] = went]
    BY <1>7 DEF LoadTable
  <2> QED BY <2>1
<1>8. ASSUME NEW went \in Outcome, NEW first \in Outcome, LoadBridge(first, went)
      PROVE  PhaseInv'
  <2>1. /\ phase' = phase
        /\ lost' = [lost EXCEPT !["bridge_contracts"] = IF first = "ok" THEN @ ELSE first,
                                !["bridge"] = IF went = "ok" THEN @ ELSE went]
    BY <1>8 DEF LoadBridge
  <2> QED BY <2>1
<1>9. ASSUME NEW went \in Outcome, LoadWebhooks(went) PROVE PhaseInv'
  <2>1. phase' = "register" /\ lost' \in {lost, [lost EXCEPT !["webhooks"] = went]}
    BY <1>9 DEF LoadWebhooks
  <2> QED BY <2>1
<1>10. ASSUME NEW went \in Outcome, RegisterRules(went) PROVE PhaseInv'
  <2>1. /\ phase' = "threads"
        /\ lost' = IF went = "ok" THEN lost ELSE [lost EXCEPT !["large_transfer"] = went]
    BY <1>10 DEF RegisterRules
  <2> QED BY <2>1
<1> QED BY <1>1, <1>2, <1>3, <1>4, <1>5, <1>6, <1>7, <1>8, <1>9, <1>10 DEF Next

\* The readiness file is written last and removed by an orderly stop: it is left
\* behind only by a process that was killed when it was ready or could not
\* remove it, and by no start that failed on its way.
THEOREM ReadyFileIsTruthful == Spec => []ReadyFileTruthful
<1>1. Init => ReadyFileTruthful
  BY DEF Init, ReadyFileTruthful
<1>2. ReadyFileTruthful /\ [Next]_vars => ReadyFileTruthful'
  <2> SUFFICES ASSUME ReadyFileTruthful, [Next]_vars PROVE ReadyFileTruthful'
    OBVIOUS
  <2> USE DEF ReadyFileTruthful, Running
  <2>1. CASE Kill \/ \E ok \in BOOLEAN : WriteReadinessFile(ok) \/ Stop(ok)
    BY <2>1 DEF Stop, Ended, Kill, WriteReadinessFile
  <2>2. CASE ~(Kill \/ \E ok \in BOOLEAN : WriteReadinessFile(ok) \/ Stop(ok))
    <3>1. UNCHANGED <<readyFile, leftBehind>> /\ (phase = "running" => phase' = "running")
      BY <2>2 DEF Next, Provision, Mishap, Start, Down, NoDatabaseUrl, Backtest, Connect,
                  ReadCheckpoint, BuildModules, StartThreads, LoadTable, LoadBridge, LoadWebhooks,
                  RegisterRules, GiveUp, Advance, vars, processVars
    <3> QED BY <3>1
  <2> QED BY <2>1, <2>2
<1> QED BY <1>1, <1>2, PTL DEF Spec
----------------------------------------------------------------------------
(* One row *)

\* tolower changes no digit.
LEMMA Lowered == ASSUME NEW text \in HexTexts PROVE lower(text) \in HexTexts
BY DEF lower, HexTexts

\* Case does not matter to parse_hex_bytes, but for the x of the prefix.
LEMMA ParsedAlike ==
  ASSUME NEW text \in HexTexts, text.prefix # "0X", NEW width \in Nat
  PROVE  parse_hex_bytes(lower(text), width) = parse_hex_bytes(text, width)
<1> DEFINE low == lower(text)
           Used(x) == [x EXCEPT !.digits = SubSeq(@, 1, IF Len(@) < 2 * width THEN Len(@) ELSE 2 * width)]
<1>1. low \in HexTexts /\ low.digits = text.digits /\ low.prefix = text.prefix
  BY Lowered DEF lower
<1> HIDE DEF low
<1>2. Used(low).digits = Used(text).digits
  BY <1>1 DEF HexTexts
<1>3. Prefixed(low) <=> Prefixed(text)
  BY <1>1 DEF Prefixed
<1>4. /\ HexDigits(Used(low)) <=> HexDigits(Used(text))
      /\ \A i \in 1..width : ByteAt(Used(low), i) = ByteAt(Used(text), i)
  <2> HIDE DEF Used
  <2> QED BY <1>2 DEF HexDigits, ByteAt
<1>5. \A x : parse_hex_bytes(x, width) =
               IF ~Prefixed(x) \/ ~HexDigits(Used(x)) THEN Throws
               ELSE [i \in 1..width |-> IF 2 * i <= Len(Used(x).digits) THEN ByteAt(Used(x), i) ELSE 0]
  BY DEF parse_hex_bytes
<1> HIDE DEF Used
<1> QED BY <1>2, <1>3, <1>4, <1>5 DEF low

\* An address in a row: what it is parsed to, as written and in lower case.
LEMMA AddressParsed ==
  ASSUME NEW text \in HexTexts
  PROVE  /\ parse_hex_bytes(text, AddressWidth) \in Address \cup {Throws}
         /\ parse_hex_bytes(lower(text), AddressWidth) \in Address \cup {Throws}
         /\ \A bytes \in Address : Spells(text, bytes) =>
              /\ parse_hex_bytes(text, AddressWidth) = bytes
              /\ parse_hex_bytes(lower(text), AddressWidth) = bytes
              /\ lower(text) = hex_text(bytes)
<1>1. AddressWidth \in Nat /\ lower(text) \in HexTexts
  BY ConversionsAssumption, Lowered
<1>2. /\ parse_hex_bytes(text, AddressWidth) \in Address \cup {Throws}
      /\ parse_hex_bytes(lower(text), AddressWidth) \in Address \cup {Throws}
  BY <1>1, HexParsed DEF Address
<1>3. ASSUME NEW bytes \in Address, Spells(text, bytes)
      PROVE  /\ parse_hex_bytes(text, AddressWidth) = bytes
             /\ parse_hex_bytes(lower(text), AddressWidth) = bytes
             /\ lower(text) = hex_text(bytes)
  <2>1. text.prefix = "0x" /\ text.digits = hex_text(bytes).digits /\ bytes \in [1..AddressWidth -> 0..(Byte - 1)]
    BY <1>3 DEF Spells, Address
  <2>2. parse_hex_bytes(text, AddressWidth) = bytes
    BY <1>1, <2>1, SpelledIsParsed
  <2>3. parse_hex_bytes(lower(text), AddressWidth) = bytes
    BY <1>1, <2>1, <2>2, ParsedAlike
  <2>4. lower(text) = hex_text(bytes)
    <3> DEFINE d == hex_text(bytes).digits
    <3>1. hex_text(bytes) = [prefix |-> "0x", upper |-> FALSE, digits |-> d]
      BY DEF hex_text
    <3> HIDE DEF d
    <3>2. text.digits = d
      BY <2>1 DEF d
    <3> QED BY <2>1, <3>1, <3>2 DEF lower
  <2> QED BY <2>2, <2>3, <2>4
<1> QED BY <1>2, <1>3

\* What becomes of a row: a configuration that honours it, unless it is passed
\* over or throws; a well-formed row becomes one, and only a row that spoils
\* its table throws.
RowTaken(t, row) ==
  LET cfg == live_row(t, row)
  IN  /\ cfg \in TableConfig(t) \cup {Skipped, Throws}
      /\ cfg \notin {Skipped, Throws} => Honours(t, cfg, row)
      /\ WellFormed(t, row) => cfg \in TableConfig(t)
      /\ ~Spoils(t, row) => cfg # Throws

\* A threshold in a row.
LEMMA NumberParsed ==
  ASSUME NEW text \in Seq(Int)
  PROVE  /\ decimal_to_be_256(text) \in Word \cup {Throws}
         /\ decimal_to_be_256(text) \in Word <=> Fits(text)
         /\ decimal_to_be_256(text) # Throws <=> Fits(text)
         /\ decimal_to_be_256(text) # Throws =>
              Denotes(Byte, decimal_to_be_256(text)) = Denotes(Radix, text)
BY DecimalToWord, ThrowsAssumption

\* live_mint_burn: two thresholds, the address kept as text.
LEMMA MintBurnTaken == ASSUME NEW row \in TableRow("mint_burn") PROVE RowTaken("mint_burn", row)
<1> DEFINE mint == decimal_to_be_256(row.mint_threshold)
           burn == decimal_to_be_256(row.burn_threshold)
           cfg == [customer_id |-> row.customer_id, chain_id |-> row.chain_id, key |-> lower(row.address),
                   mint_threshold |-> mint, burn_threshold |-> burn]
<1>1. /\ row.customer_id \in Int /\ row.chain_id \in Int /\ row.address \in HexTexts
      /\ row.mint_threshold \in Seq(Int) /\ row.burn_threshold \in Seq(Int)
  BY DEF TableRow
<1>2. live_row("mint_burn", row) =
        IF row.chain_id < 0 \/ mint = Throws \/ burn = Throws THEN Throws ELSE cfg
  BY DEF live_row, live_mint_burn
<1>3. WellFormed("mint_burn", row) =>
        row.chain_id >= 0 /\ Fits(row.mint_threshold) /\ Fits(row.burn_threshold)
  BY DEF WellFormed, ChainOf
<1>4. Spoils("mint_burn", row) <=> ~WellFormed("mint_burn", row)
  BY DEF Spoils
<1>5. /\ mint \in Word \cup {Throws} /\ (mint # Throws <=> Fits(row.mint_threshold))
      /\ mint # Throws => Denotes(Byte, mint) = Denotes(Radix, row.mint_threshold)
  BY <1>1, NumberParsed
<1>6. /\ burn \in Word \cup {Throws} /\ (burn # Throws <=> Fits(row.burn_threshold))
      /\ burn # Throws => Denotes(Byte, burn) = Denotes(Radix, row.burn_threshold)
  BY <1>1, NumberParsed
<1> HIDE DEF mint, burn
<1>7. mint # Throws /\ burn # Throws => cfg \in TableConfig("mint_burn")
  BY <1>1, <1>5, <1>6, Lowered DEF TableConfig
<1>8. mint # Throws /\ burn # Throws => Honours("mint_burn", cfg, row)
  <2>1. \A bytes \in Address : Spells(row.address, bytes) => cfg.key = hex_text(bytes)
    BY <1>1, AddressParsed
  <2> QED BY <1>5, <1>6, <2>1 DEF Honours, SameNumbers, ChainOf, AddressOf, LooksUp
<1>9. Throws \notin TableConfig("mint_burn")
  BY OutcomeAssumption DEF Tables, RuleTypes
<1> HIDE DEF cfg
<1> QED BY <1>1, <1>2, <1>3, <1>4, <1>5, <1>6, <1>7, <1>8, <1>9 DEF RowTaken

\* live_governance: any text is a key.
LEMMA GovernanceTaken == ASSUME NEW row \in TableRow("governance") PROVE RowTaken("governance", row)
<1> DEFINE cfg == [customer_id |-> row.customer_id, chain_id |-> row.chain_id, key |-> lower(row.address)]
<1>1. row.customer_id \in Int /\ row.chain_id \in Int /\ row.address \in HexTexts
  BY DEF TableRow
<1>2. live_row("governance", row) = IF row.chain_id < 0 THEN Throws ELSE cfg
  BY DEF live_row, live_governance
<1>3. WellFormed("governance", row) => row.chain_id >= 0
  BY DEF WellFormed, ChainOf
<1>4. Spoils("governance", row) <=> row.chain_id < 0
  BY DEF Spoils
<1>5. cfg \in TableConfig("governance")
  BY <1>1, Lowered DEF TableConfig
<1>6. Honours("governance", cfg, row)
  <2>1. \A bytes \in Address : Spells(row.address, bytes) => cfg.key = hex_text(bytes)
    BY <1>1, AddressParsed
  <2> QED BY <2>1 DEF Honours, SameNumbers, ChainOf, AddressOf, LooksUp
<1>7. Throws \notin TableConfig("governance")
  BY OutcomeAssumption DEF Tables, RuleTypes
<1> HIDE DEF cfg
<1> QED BY <1>1, <1>2, <1>3, <1>4, <1>5, <1>6, <1>7 DEF RowTaken

\* live_approval: the address is kept as text and has to parse.
LEMMA ApprovalTaken == ASSUME NEW row \in TableRow("approval") PROVE RowTaken("approval", row)
<1> DEFINE threshold == decimal_to_be_256(row.threshold)
           address == parse_hex_bytes(lower(row.address), AddressWidth)
           flag == Or(row.alert_on_infinite, TRUE)
           cfg == [customer_id |-> row.customer_id, chain_id |-> row.chain_id, key |-> lower(row.address),
                   threshold |-> threshold, alert_on_infinite |-> flag]
<1>1. /\ row.customer_id \in Int /\ row.chain_id \in Int /\ row.address \in HexTexts
      /\ row.threshold \in Seq(Int) /\ row.alert_on_infinite \in BOOLEAN \cup {Missing}
  BY DEF TableRow
<1>2. live_row("approval", row) =
        IF row.chain_id < 0 \/ threshold = Throws \/ address = Throws THEN Throws ELSE cfg
  BY DEF live_row, live_approval
<1>3. WellFormed("approval", row) =>
        /\ row.chain_id >= 0 /\ Fits(row.threshold)
        /\ \E bytes \in Address : Spells(row.address, bytes)
  BY DEF WellFormed, ChainOf, AddressOf, ThresholdOf
<1>4. Spoils("approval", row) <=> ~WellFormed("approval", row)
  BY DEF Spoils
<1>5. /\ threshold \in Word \cup {Throws} /\ (threshold # Throws <=> Fits(row.threshold))
      /\ threshold # Throws => Denotes(Byte, threshold) = Denotes(Radix, row.threshold)
  BY <1>1, NumberParsed
<1>6. (\E bytes \in Address : Spells(row.address, bytes)) => address # Throws
  BY <1>1, AddressParsed, ThrowsAssumption
<1>7. flag \in BOOLEAN
  BY <1>1 DEF Or
<1> HIDE DEF threshold, address, flag
<1>8. threshold # Throws => cfg \in TableConfig("approval")
  BY <1>1, <1>5, <1>7, Lowered DEF TableConfig
<1>9. threshold # Throws => Honours("approval", cfg, row)
  <2>1. \A bytes \in Address : Spells(row.address, bytes) => cfg.key = hex_text(bytes)
    BY <1>1, AddressParsed
  <2> QED BY <1>5, <2>1 DEF Honours, SameNumbers, ChainOf, AddressOf, ThresholdOf, LooksUp
<1>10. Throws \notin TableConfig("approval")
  BY OutcomeAssumption DEF Tables, RuleTypes
<1> HIDE DEF cfg
<1> QED BY <1>1, <1>2, <1>3, <1>4, <1>5, <1>6, <1>8, <1>9, <1>10 DEF RowTaken

\* live_bridge: the address is kept as bytes.
LEMMA BridgeTaken == ASSUME NEW row \in TableRow("bridge") PROVE RowTaken("bridge", row)
<1> DEFINE threshold == decimal_to_be_256(row.threshold)
           address == parse_hex_bytes(lower(row.address), AddressWidth)
           cfg == [customer_id |-> row.customer_id, chain_id |-> row.chain_id,
                   key |-> address, threshold |-> threshold]
<1>1. /\ row.customer_id \in Int /\ row.chain_id \in Int /\ row.address \in HexTexts
      /\ row.threshold \in Seq(Int)
  BY DEF TableRow
<1>2. live_row("bridge", row) =
        IF row.chain_id < 0 \/ address = Throws \/ threshold = Throws THEN Throws ELSE cfg
  BY DEF live_row, live_bridge
<1>3. WellFormed("bridge", row) =>
        /\ row.chain_id >= 0 /\ Fits(row.threshold)
        /\ \E bytes \in Address : Spells(row.address, bytes)
  BY DEF WellFormed, ChainOf, AddressOf, ThresholdOf
<1>4. Spoils("bridge", row) <=> ~WellFormed("bridge", row)
  BY DEF Spoils
<1>5. /\ threshold \in Word \cup {Throws} /\ (threshold # Throws <=> Fits(row.threshold))
      /\ threshold # Throws => Denotes(Byte, threshold) = Denotes(Radix, row.threshold)
  BY <1>1, NumberParsed
<1>6. /\ address \in Address \cup {Throws}
      /\ \A bytes \in Address : Spells(row.address, bytes) => address = bytes
  BY <1>1, AddressParsed
<1> HIDE DEF threshold, address
<1>7. threshold # Throws /\ address # Throws => cfg \in TableConfig("bridge")
  BY <1>1, <1>5, <1>6 DEF TableConfig
<1>8. threshold # Throws => Honours("bridge", cfg, row)
  BY <1>5, <1>6 DEF Honours, SameNumbers, ChainOf, AddressOf, ThresholdOf, LooksUp
<1>9. Throws \notin TableConfig("bridge") \cup Address
  BY OutcomeAssumption, ThrowsAssumption DEF Tables, RuleTypes
<1> HIDE DEF cfg
<1> QED BY <1>1, <1>2, <1>3, <1>4, <1>5, <1>6, <1>7, <1>8, <1>9 DEF RowTaken

\* live_oracle: out of range is passed over.
LEMMA OracleTaken == ASSUME NEW row \in TableRow("oracle") PROVE RowTaken("oracle", row)
<1> DEFINE address == parse_hex_bytes(lower(row.address), AddressWidth)
           cfg == [customer_id |-> row.customer_id, chain_id |-> row.chain_id, key |-> address,
                   spike_threshold_bps |-> row.bps, decimals |-> row.decimals]
<1>1. /\ row.customer_id \in Int /\ row.chain_id \in Int /\ row.address \in HexTexts
      /\ row.bps \in Int /\ row.decimals \in Int
  BY DEF TableRow
<1>2. live_row("oracle", row) = IF row.chain_id < 0 THEN Throws
                                ELSE IF ~OracleRanges(row) \/ address = Throws THEN Skipped ELSE cfg
  BY DEF live_row, live_oracle
<1>3. WellFormed("oracle", row) =>
        row.chain_id >= 0 /\ OracleRanges(row) /\ \E bytes \in Address : Spells(row.address, bytes)
  BY DEF WellFormed, ChainOf, AddressOf, OracleRanges
<1>4. Spoils("oracle", row) <=> row.chain_id < 0
  BY DEF Spoils
<1>5. /\ address \in Address \cup {Throws}
      /\ \A bytes \in Address : Spells(row.address, bytes) => address = bytes
  BY <1>1, AddressParsed
<1> HIDE DEF address
<1>6. address # Throws => cfg \in TableConfig("oracle")
  BY <1>1, <1>5 DEF TableConfig
<1>7. Honours("oracle", cfg, row)
  BY <1>5 DEF Honours, SameNumbers, ChainOf, AddressOf, LooksUp
<1>8. Throws \notin TableConfig("oracle") \cup Address /\ Skipped # Throws
  BY OutcomeAssumption, ThrowsAssumption DEF Tables, RuleTypes
<1> HIDE DEF cfg
<1> QED BY <1>1, <1>2, <1>3, <1>4, <1>5, <1>6, <1>7, <1>8 DEF RowTaken

\* The cast of a JSON number: an unsigned integer stays what it is.
LEMMA CastNumber ==
  ASSUME NEW v \in JsonNumbers
  PROVE  json_uint(v) \in Int /\ (v \in Nat => json_uint(v) = v)
<1>1. CASE v \in DOMAIN Coerced
  BY <1>1, JsonAssumption DEF json_uint
<1>2. CASE v \notin DOMAIN Coerced
  BY <1>2, JsonAssumption DEF json_uint, JsonNumbers, JsonInts
<1> QED BY <1>1, <1>2

\* live_large_transfer: defaults for what is missing, and nothing throws.
LEMMA LargeTransferTaken ==
  ASSUME NEW row \in TableRow("large_transfer") PROVE RowTaken("large_transfer", row)
<1> DEFINE text == Or(row.address, DefaultToken)
           number == Or(row.threshold, DefaultThreshold)
           named == Or(row.chain_id, DefaultChain)
           chain == json_uint(named)
           address == parse_hex_bytes(text, AddressWidth)
           threshold == decimal_to_be_256(number)
           wrong == row.chain_id = WrongType \/ row.address = WrongType \/ row.threshold = WrongType
           cfg == [customer_id |-> row.customer_id, chain_id |-> chain,
                   key |-> address, threshold |-> threshold]
<1>1. /\ row.customer_id \in Int /\ row.chain_id \in Json(JsonNumbers) /\ row.address \in Json(HexTexts)
      /\ row.threshold \in Json(Seq(Int))
  BY DEF TableRow
<1>2. live_row("large_transfer", row) =
        IF wrong THEN Skipped ELSE IF address = Throws \/ threshold = Throws THEN Skipped ELSE cfg
  BY DEF live_row, live_large_transfer
<1>3. WellFormed("large_transfer", row) =>
        ~wrong /\ Fits(number) /\ \E bytes \in Address : Spells(text, bytes)
  BY DEF WellFormed, AddressOf, ThresholdOf
<1>4. ~wrong => /\ text \in HexTexts /\ number \in Seq(Int)
                /\ chain \in Int /\ (named \in Nat => chain = named)
  <2>1. ~wrong => text \in HexTexts /\ number \in Seq(Int) /\ named \in JsonNumbers
    BY <1>1, DefaultsAssumption, JsonAssumption DEF Or, Json, JsonNumbers, JsonInts
  <2>2. named \in JsonNumbers => chain \in Int /\ (named \in Nat => chain = named)
    BY CastNumber
  <2> QED BY <2>1, <2>2
<1>5. ChainOf("large_transfer", row) = named /\ AddressOf("large_transfer", row) = text
      /\ ThresholdOf("large_transfer", row) = number
  BY DEF ChainOf, AddressOf, ThresholdOf
<1> HIDE DEF text, number, named, chain
<1>6. ~wrong => /\ threshold \in Word \cup {Throws} /\ (threshold # Throws <=> Fits(number))
                /\ threshold # Throws => Denotes(Byte, threshold) = Denotes(Radix, number)
  BY <1>4, NumberParsed
<1>7. ~wrong => /\ address \in Address \cup {Throws}
                /\ \A bytes \in Address : Spells(text, bytes) => address = bytes
  BY <1>4, AddressParsed
<1> HIDE DEF threshold, address, wrong
<1>8. ~wrong /\ threshold # Throws /\ address # Throws => cfg \in TableConfig("large_transfer")
  BY <1>1, <1>4, <1>6, <1>7 DEF TableConfig
<1>9. ~wrong /\ threshold # Throws => Honours("large_transfer", cfg, row)
  BY <1>4, <1>5, <1>6, <1>7 DEF Honours, SameNumbers, LooksUp
<1>10. /\ Throws \notin TableConfig("large_transfer") \cup Address
       /\ Skipped # Throws
  BY OutcomeAssumption, ThrowsAssumption DEF Tables, RuleTypes
<1> HIDE DEF cfg
<1> QED BY <1>2, <1>3, <1>6, <1>7, <1>8, <1>9, <1>10 DEF RowTaken

\* live_bridge_contract: the registry of bridges.
LEMMA RegistryTaken ==
  ASSUME NEW row \in TableRow("bridge_contracts")
  PROVE  /\ live_row("bridge_contracts", row) \in TableConfig("bridge_contracts") \cup {Throws}
         /\ WellFormed("bridge_contracts", row) =>
              live_row("bridge_contracts", row) \in TableConfig("bridge_contracts")
<1> DEFINE address == parse_hex_bytes(lower(row.address), AddressWidth)
           cfg == [chain_id |-> row.chain_id, key |-> address]
<1>1. row.chain_id \in Int /\ row.address \in HexTexts
  BY DEF TableRow
<1>2. live_row("bridge_contracts", row) = IF row.chain_id < 0 \/ address = Throws THEN Throws ELSE cfg
  BY DEF live_row, live_bridge_contract
<1>3. WellFormed("bridge_contracts", row) =>
        row.chain_id >= 0 /\ \E bytes \in Address : Spells(row.address, bytes)
  BY DEF WellFormed, ChainOf, AddressOf
<1>4. /\ address \in Address \cup {Throws}
      /\ \A bytes \in Address : Spells(row.address, bytes) => address = bytes
  BY <1>1, AddressParsed
<1> HIDE DEF address
<1>5. address # Throws => cfg \in TableConfig("bridge_contracts")
  BY <1>1, <1>4 DEF TableConfig
<1>6. Throws \notin Address
  BY ThrowsAssumption
<1> HIDE DEF cfg
<1> QED BY <1>1, <1>2, <1>3, <1>4, <1>5, <1>6

\* Every table's rows.
LEMMA EveryRowTaken == ASSUME NEW t \in RuleTypes, NEW row \in TableRow(t) PROVE RowTaken(t, row)
BY MintBurnTaken, GovernanceTaken, ApprovalTaken, BridgeTaken, OracleTaken, LargeTransferTaken DEF RuleTypes

\* An item whose chain and address the backtest takes.
LEMMA YamlItem ==
  ASSUME NEW row, row.chain_id \in Json(Int \cup DOMAIN Coerced), row.address \in Json(HexTexts), ~BadItem(row)
  PROVE  /\ row.chain_id \in Int /\ row.chain_id >= 0 /\ row.chain_id \notin {Missing, WrongType}
         /\ row.address \in HexTexts /\ row.address \notin {Missing, WrongType}
         /\ yaml_address(row) = lower(row.address)
         /\ yaml_bytes(row) = parse_hex_bytes(lower(row.address), AddressWidth)
         /\ row.address.prefix # "0X" => yaml_bytes(row) = parse_hex_bytes(row.address, AddressWidth)
         /\ yaml_bytes(row) \in Address /\ yaml_bytes(row) # Throws
<1>1. row.chain_id \in Int /\ row.chain_id >= 0 /\ row.chain_id \notin {Missing, WrongType}
  BY DEF BadItem, yaml_uint, Json
<1>2. yaml_address(row) # Throws
  BY DEF BadItem
<1>3. row.address \in HexTexts /\ row.address \notin {Missing, WrongType}
  BY <1>2 DEF yaml_address, Json
<1>4. yaml_address(row) = lower(row.address) /\ validate_hex_address(lower(row.address))
  BY <1>2, <1>3 DEF yaml_address
<1>5. lower(row.address) \in HexTexts /\ AddressWidth \in Nat
  BY <1>3, Lowered, ConversionsAssumption
<1>6. parse_hex_bytes(lower(row.address), AddressWidth) \in Address
  BY <1>4, <1>5, HexParsed DEF validate_hex_address, validate_hex, Address
<1>7. yaml_bytes(row) = parse_hex_bytes(lower(row.address), AddressWidth)
  BY <1>4 DEF yaml_bytes
<1>8. row.address.prefix # "0X" => yaml_bytes(row) = parse_hex_bytes(row.address, AddressWidth)
  BY <1>3, <1>5, <1>7, ParsedAlike
<1> QED BY <1>1, <1>3, <1>4, <1>6, <1>7, <1>8, ThrowsAssumption

\* A number the backtest takes.
LEMMA YamlNumber ==
  ASSUME NEW text \in Json(Seq(Int)), yaml_decimal(text) # Throws
  PROVE  /\ text \notin {Missing, WrongType} /\ yaml_decimal(text) = decimal_to_be_256(text)
         /\ decimal_to_be_256(text) \in Word
<1>1. text \notin {Missing, WrongType} /\ text \in Seq(Int)
  BY DEF yaml_decimal, Json
<1> QED BY <1>1, NumberParsed DEF yaml_decimal

\* A row the backtest takes, and takes for granted nothing the service does
\* not, becomes the same configuration there and here.
LEMMA YamlAgrees ==
  ASSUME NEW t \in RuleTypes \cup {"bridge_contracts"}, NEW row \in TableRow(t),
         yaml_row(t, row) # Throws, Plain(t, row)
  PROVE  live_row(t, row) = yaml_row(t, row) /\ yaml_row(t, row) \in TableConfig(t)
<1>1. ~BadItem(row)
  BY DEF yaml_row, RuleTypes
<1>2. CASE t = "large_transfer"
  <2>1. /\ row.customer_id \in Int /\ row.chain_id \in Json(JsonNumbers) /\ row.address \in Json(HexTexts)
        /\ row.threshold \in Json(Seq(Int))
    BY <1>2 DEF TableRow
  <2>2. /\ row.chain_id \in Int /\ row.chain_id >= 0 /\ row.chain_id \notin {Missing, WrongType}
        /\ row.address \notin {Missing, WrongType} /\ yaml_bytes(row) \in Address
        /\ row.address.prefix # "0X" => yaml_bytes(row) = parse_hex_bytes(row.address, AddressWidth)
    <3>1. row.chain_id \in Json(Int \cup DOMAIN Coerced)
      BY <2>1, JsonAssumption DEF Json, JsonNumbers, JsonInts
    <3> QED BY <1>1, <2>1, <3>1, YamlItem
  <2>3. yaml_row(t, row) = parse_transfers(row)
    BY <1>1, <1>2 DEF yaml_row
  <2>4. yaml_decimal(row.threshold) # Throws
    BY <2>3 DEF parse_transfers
  <2>5. /\ row.threshold \notin {Missing, WrongType}
        /\ yaml_decimal(row.threshold) = decimal_to_be_256(row.threshold)
        /\ decimal_to_be_256(row.threshold) \in Word /\ decimal_to_be_256(row.threshold) # Throws
    BY <2>1, <2>4, YamlNumber
  <2>6. yaml_bytes(row) = parse_hex_bytes(row.address, AddressWidth) /\ yaml_bytes(row) # Throws
    BY <1>2, <2>2, ThrowsAssumption DEF Plain
  <2>7. live_row(t, row) = live_large_transfer(row)
    BY <1>2 DEF live_row
  <2>8. live_large_transfer(row) = parse_transfers(row)
    <3>1. row.chain_id \in JsonNumbers /\ row.chain_id \in Nat
      BY <2>1, <2>2 DEF Json
    <3>2. json_uint(row.chain_id) = row.chain_id
      BY <3>1, CastNumber
    <3> QED BY <3>2, <2>2, <2>4, <2>5, <2>6 DEF live_large_transfer, parse_transfers, Or
  <2>9. parse_transfers(row) \in TableConfig(t)
    BY <1>2, <2>1, <2>2, <2>4, <2>5 DEF parse_transfers, TableConfig
  <2> QED BY <2>3, <2>7, <2>8, <2>9
<1>3. CASE t # "large_transfer"
  <2>1. row.chain_id \in Json(Int \cup DOMAIN Coerced) /\ row.address \in Json(HexTexts)
    BY <1>3 DEF TableRow, RuleTypes, Json
  <2>2. /\ row.chain_id \in Int /\ row.chain_id >= 0 /\ row.address \in HexTexts
        /\ yaml_address(row) = lower(row.address) /\ lower(row.address) \in HexTexts
        /\ yaml_bytes(row) = parse_hex_bytes(lower(row.address), AddressWidth)
        /\ yaml_bytes(row) \in Address /\ yaml_bytes(row) # Throws
    BY <1>1, <2>1, YamlItem, Lowered
  <2>3. ~(row.chain_id < 0)
    BY <2>2
  <2>4. CASE t = "governance"
    <3>1. row.customer_id \in Int
      BY <2>4 DEF TableRow
    <3>2. yaml_row(t, row) = parse_governance(row) /\ live_row(t, row) = live_governance(row)
      BY <1>1, <2>4 DEF yaml_row, live_row
    <3> QED BY <2>2, <2>3, <2>4, <3>1, <3>2 DEF parse_governance, live_governance, TableConfig
  <2>5. CASE t = "mint_burn"
    <3>1. row.customer_id \in Int /\ row.mint_threshold \in Json(Seq(Int)) /\ row.burn_threshold \in Json(Seq(Int))
      BY <2>5 DEF TableRow, Json
    <3>2. yaml_row(t, row) = parse_mint_burn(row) /\ live_row(t, row) = live_mint_burn(row)
      BY <1>1, <2>5 DEF yaml_row, live_row
    <3>3. yaml_decimal(row.mint_threshold) # Throws /\ yaml_decimal(row.burn_threshold) # Throws
      BY <3>2 DEF parse_mint_burn
    <3>4. /\ yaml_decimal(row.mint_threshold) = decimal_to_be_256(row.mint_threshold)
          /\ yaml_decimal(row.burn_threshold) = decimal_to_be_256(row.burn_threshold)
          /\ decimal_to_be_256(row.mint_threshold) \in Word /\ decimal_to_be_256(row.burn_threshold) \in Word
      BY <3>1, <3>3, YamlNumber
    <3> QED BY <2>2, <2>3, <2>5, <3>1, <3>2, <3>3, <3>4 DEF parse_mint_burn, live_mint_burn, TableConfig
  <2>6. CASE t = "approval"
    <3>1. row.customer_id \in Int /\ row.threshold \in Json(Seq(Int)) /\ row.alert_on_infinite \in BOOLEAN
      BY <2>6 DEF TableRow, Json, Plain
    <3>2. yaml_row(t, row) = parse_approval(row) /\ live_row(t, row) = live_approval(row)
      BY <1>1, <2>6 DEF yaml_row, live_row
    <3>3. yaml_decimal(row.threshold) # Throws
      BY <3>2 DEF parse_approval
    <3>4. /\ yaml_decimal(row.threshold) = decimal_to_be_256(row.threshold)
          /\ decimal_to_be_256(row.threshold) \in Word
      BY <3>1, <3>3, YamlNumber
    <3>5. /\ Or(row.alert_on_infinite, TRUE) = row.alert_on_infinite
          /\ Or(row.alert_on_infinite, FALSE) = row.alert_on_infinite
      BY <2>6 DEF Or, Plain
    <3> DEFINE cfg == [customer_id |-> row.customer_id, chain_id |-> row.chain_id, key |-> lower(row.address),
                       threshold |-> decimal_to_be_256(row.threshold),
                       alert_on_infinite |-> row.alert_on_infinite]
    <3>6. parse_approval(row) = cfg
      BY <2>2, <3>3, <3>4, <3>5, Zenon DEF parse_approval
    <3>7. decimal_to_be_256(row.threshold) # Throws
      BY <3>3, <3>4
    <3>8. live_approval(row) = cfg
      BY <2>2, <2>3, <3>5, <3>7, Zenon DEF live_approval
    <3>9. cfg \in TableConfig(t)
      BY <2>2, <2>6, <3>1, <3>4 DEF TableConfig
    <3> QED BY <3>2, <3>6, <3>8, <3>9
  <2>7. CASE t = "bridge"
    <3>1. row.customer_id \in Int /\ row.threshold \in Json(Seq(Int))
      BY <2>7 DEF TableRow, Json
    <3>2. yaml_row(t, row) = parse_transfers(row) /\ live_row(t, row) = live_bridge(row)
      BY <1>1, <2>7 DEF yaml_row, live_row
    <3>3. yaml_decimal(row.threshold) # Throws
      BY <3>2 DEF parse_transfers
    <3>4. /\ yaml_decimal(row.threshold) = decimal_to_be_256(row.threshold)
          /\ decimal_to_be_256(row.threshold) \in Word
      BY <3>1, <3>3, YamlNumber
    <3> QED BY <2>2, <2>3, <2>7, <3>1, <3>2, <3>3, <3>4 DEF parse_transfers, live_bridge, TableConfig
  <2>8. CASE t = "oracle"
    <3>1. row.customer_id \in Int /\ row.bps \in Int /\ row.decimals \in Int
      BY <2>8 DEF TableRow
    <3>2. yaml_row(t, row) = parse_oracle_update(row) /\ live_row(t, row) = live_oracle(row)
      BY <1>1, <2>8 DEF yaml_row, live_row
    <3>3. OracleRanges(row)
      BY <3>2 DEF parse_oracle_update
    <3> QED BY <2>2, <2>3, <2>8, <3>1, <3>2, <3>3 DEF parse_oracle_update, live_oracle, TableConfig
  <2>9. CASE t = "bridge_contracts"
    <3>1. yaml_row(t, row) = parse_bridge_contracts(row) /\ live_row(t, row) = live_bridge_contract(row)
      BY <1>1, <2>9 DEF yaml_row, live_row
    <3> QED BY <2>2, <2>3, <2>9, <3>1 DEF parse_bridge_contracts, live_bridge_contract, TableConfig
  <2> QED BY <1>3, <2>4, <2>5, <2>6, <2>7, <2>8, <2>9 DEF RuleTypes
<1> QED BY <1>2, <1>3
----------------------------------------------------------------------------
(* The tables *)

\* The rows of the database are rows of their tables, and so are the enabled.
LEMMA RowsTyped ==
  ASSUME scenario \in Scenarios, NEW t \in Tables
  PROVE  Owned(t) \in Seq(TableRow(t))
<1>1. Rows(t) \in Seq(TableRow(t))
  BY RowsAssumption DEF Rows, database
<1>2. CASE t = "customers"
  BY <1>1, <1>2 DEF Owned, Selected
<1>3. CASE t # "customers"
  <2>1. Owned(t) = Chosen(Rows(t), {i \in DOMAIN Rows(t) : Rows(t)[i].enabled})
    BY <1>3 DEF Owned, Selected
  <2> QED BY <1>1, <2>1, ChosenElements
<1> QED BY <1>2, <1>3

\* One outcome of each enabled row.
LEMMA OutcomesTyped ==
  ASSUME scenario \in Scenarios, NEW t \in RuleTypes \cup {"bridge_contracts"}
  PROVE  /\ Outcomes(t, Rows(t)) \in Seq(TableConfig(t) \cup {Skipped, Throws})
         /\ DOMAIN Outcomes(t, Rows(t)) = DOMAIN Owned(t)
         /\ \A i \in DOMAIN Owned(t) : /\ Owned(t)[i] \in TableRow(t)
                                       /\ Outcomes(t, Rows(t))[i] = live_row(t, Owned(t)[i])
<1> DEFINE owned == Owned(t)
           O == TableConfig(t) \cup {Skipped, Throws}
<1>1. t \in Tables
  BY DEF Tables
<1>2. owned \in Seq(TableRow(t)) /\ Len(owned) \in Nat /\ DOMAIN owned = 1..Len(owned)
  BY <1>1, RowsTyped
<1>3. Outcomes(t, Rows(t)) = [i \in DOMAIN owned |-> live_row(t, owned[i])]
  BY DEF Outcomes, Owned
<1> HIDE DEF owned
<1>4. \A i \in DOMAIN owned : owned[i] \in TableRow(t)
  BY <1>2
<1>5. \A i \in DOMAIN owned : live_row(t, owned[i]) \in O
  BY <1>4, EveryRowTaken, RegistryTaken DEF RowTaken
<1> HIDE DEF O
<1>6. [i \in DOMAIN owned |-> live_row(t, owned[i])] \in Seq(O)
  BY <1>2, <1>5, FunctionIsSeq
<1> QED BY <1>3, <1>4, <1>6 DEF owned, O

\* What a loader keeps is no exception and nothing passed over, and it keeps
\* whatever stands before the first exception.
LEMMA KeptElements ==
  ASSUME NEW S, NEW outcomes \in Seq(S)
  PROVE  /\ \A k \in DOMAIN Kept(outcomes) :
              \E i \in DOMAIN outcomes : /\ outcomes[i] \notin {Skipped, Throws}
                                         /\ Kept(outcomes)[k] = outcomes[i]
         /\ \A i \in DOMAIN outcomes :
              outcomes[i] # Skipped /\ (\A j \in 1..i : outcomes[j] # Throws) =>
                \E k \in DOMAIN Kept(outcomes) : Kept(outcomes)[k] = outcomes[i]
         /\ (\A i \in DOMAIN outcomes : outcomes[i] \notin {Skipped, Throws}) => Kept(outcomes) = outcomes
<1> DEFINE keep == {i \in DOMAIN outcomes : (\A j \in Stops(outcomes) : i < j) /\ outcomes[i] # Skipped}
<1>1. Kept(outcomes) = Chosen(outcomes, keep)
  BY DEF Kept
<1>2. Len(outcomes) \in Nat /\ DOMAIN outcomes = 1..Len(outcomes)
  OBVIOUS
<1>3. \A i \in keep : outcomes[i] \notin {Skipped, Throws}
  BY <1>2 DEF Stops
<1>4. ASSUME NEW i \in DOMAIN outcomes, outcomes[i] # Skipped, \A j \in 1..i : outcomes[j] # Throws
      PROVE  i \in keep
  <2>1. \A j \in DOMAIN outcomes : j \in 1..i \/ i < j
    BY <1>2
  <2> QED BY <1>4, <2>1 DEF Stops
<1>5. ASSUME \A i \in DOMAIN outcomes : outcomes[i] \notin {Skipped, Throws}
      PROVE  DOMAIN outcomes \subseteq keep
  BY <1>5 DEF Stops
<1> HIDE DEF keep
<1> QED BY <1>1, <1>3, <1>4, <1>5, ChosenElements, ChosenAll

\* Every configuration a loader leaves honours a row.
LEMMA LoadedHonours ==
  ASSUME scenario \in Scenarios, NEW t \in RuleTypes, NEW k \in DOMAIN Loaded(t, "ok")
  PROVE  \E i \in DOMAIN Owned(t) : Honours(t, Loaded(t, "ok")[k], Owned(t)[i])
<1>1. Loaded(t, "ok") = << >> \/ Loaded(t, "ok") = Kept(Outcomes(t, Rows(t)))
  BY DEF Loaded, load_bridge_rules, load_configs, Rows
<1>2. k \in DOMAIN Kept(Outcomes(t, Rows(t))) /\ Loaded(t, "ok") = Kept(Outcomes(t, Rows(t)))
  BY <1>1
<1>3. PICK i \in DOMAIN Owned(t) : /\ live_row(t, Owned(t)[i]) \notin {Skipped, Throws}
                                   /\ Loaded(t, "ok")[k] = live_row(t, Owned(t)[i])
  <2> DEFINE out == Outcomes(t, Rows(t))
  <2>1. /\ out \in Seq(TableConfig(t) \cup {Skipped, Throws}) /\ DOMAIN out = DOMAIN Owned(t)
        /\ \A i \in DOMAIN Owned(t) : out[i] = live_row(t, Owned(t)[i])
    BY OutcomesTyped
  <2> HIDE DEF out
  <2>2. PICK i \in DOMAIN out : out[i] \notin {Skipped, Throws} /\ Kept(out)[k] = out[i]
    BY <1>2, <2>1, KeptElements DEF out
  <2> QED BY <1>2, <2>1, <2>2 DEF out
<1> QED BY <1>3, OutcomesTyped, EveryRowTaken DEF RowTaken

\* A well-formed row of a table that can be read is in effect, unless a row
\* before it ends the loader.
LEMMA LoadedInEffect ==
  ASSUME scenario \in Scenarios, NEW t \in RuleTypes, Readable(t), NEW i \in DOMAIN Owned(t),
         WellFormed(t, Owned(t)[i]), \A j \in 1..(i - 1) : ~Spoils(t, Owned(t)[j])
  PROVE  \E k \in DOMAIN Loaded(t, "ok") : Honours(t, Loaded(t, "ok")[k], Owned(t)[i])
<1> DEFINE out == Outcomes(t, Rows(t))
           owned == Owned(t)
<1>1. t \in Tables
  BY DEF Tables
<1>2. /\ out \in Seq(TableConfig(t) \cup {Skipped, Throws}) /\ DOMAIN out = DOMAIN owned
      /\ \A j \in DOMAIN owned : owned[j] \in TableRow(t) /\ out[j] = live_row(t, owned[j])
  BY OutcomesTyped
<1>3. Loaded(t, "ok") = Kept(out)
  <2>1. CASE t # "bridge"
    BY <2>1 DEF Loaded, load_configs
  <2>2. CASE t = "bridge"
    <3> DEFINE registry == Outcomes("bridge_contracts", Rows("bridge_contracts"))
               listed == Owned("bridge_contracts")
    <3>1. listed # << >> /\ \A j \in DOMAIN listed : WellFormed("bridge_contracts", listed[j])
      BY <2>2 DEF Readable
    <3>2. /\ registry \in Seq(TableConfig("bridge_contracts") \cup {Skipped, Throws})
          /\ DOMAIN registry = DOMAIN listed
          /\ \A j \in DOMAIN listed : /\ listed[j] \in TableRow("bridge_contracts")
                                      /\ registry[j] = live_row("bridge_contracts", listed[j])
      BY OutcomesTyped
    <3>3. listed \in Seq(TableRow("bridge_contracts"))
      BY RowsTyped DEF Tables
    <3> HIDE DEF registry, listed
    <3>4. \A j \in DOMAIN registry : registry[j] \in TableConfig("bridge_contracts")
      BY <3>1, <3>2, RegistryTaken
    <3>5. \A j \in DOMAIN registry : registry[j] \notin {Skipped, Throws}
      BY <3>4, OutcomeAssumption DEF Tables
    <3>6. Stops(registry) = {} /\ Kept(registry) = registry
      BY <3>2, <3>5, KeptElements DEF Stops
    <3>7. registry # << >>
      BY <3>1, <3>2, <3>3
    <3> QED BY <2>2, <3>6, <3>7 DEF Loaded, load_bridge_rules, load_configs, registry, Rows
  <2> QED BY <2>1, <2>2
<1>4. Len(owned) \in Nat /\ DOMAIN owned = 1..Len(owned) /\ i \in 1..Len(owned)
  BY <1>1, RowsTyped
<1> HIDE DEF out, owned
<1>5. out[i] \in TableConfig(t)
  BY <1>2, EveryRowTaken DEF RowTaken, owned
<1>6. out[i] \notin {Skipped, Throws}
  BY <1>1, <1>5, OutcomeAssumption
<1>7. \A j \in 1..(i - 1) : out[j] # Throws
  <2> SUFFICES ASSUME NEW j \in 1..(i - 1) PROVE out[j] # Throws
    OBVIOUS
  <2>1. j \in DOMAIN owned /\ ~Spoils(t, owned[j])
    BY <1>4 DEF owned
  <2> QED BY <1>2, <2>1, EveryRowTaken DEF RowTaken
<1>8. \A j \in 1..i : j \in 1..(i - 1) \/ j = i
  BY <1>4
<1>9. PICK k \in DOMAIN Kept(out) : Kept(out)[k] = out[i]
  <2>1. \A j \in 1..i : out[j] # Throws
    BY <1>6, <1>7, <1>8
  <2>2. i \in DOMAIN out
    BY <1>2 DEF owned
  <2> QED BY <1>2, <1>6, <2>1, <2>2, KeptElements
<1>10. Honours(t, out[i], owned[i])
  BY <1>2, <1>6, EveryRowTaken DEF RowTaken, owned
<1> QED BY <1>3, <1>9, <1>10 DEF owned

\* A document the backtest takes has no item that throws.
LEMMA DocumentTaken ==
  ASSUME NEW header, NEW items, load_backtest_config(header, items) # Throws, NEW t \in Tables
  PROVE  /\ load_backtest_config(header, items)[t] = yaml_table(t, items[t])
         /\ Stops(yaml_table(t, items[t])) = {}
<1> DEFINE T == [s \in Tables |-> yaml_table(s, items[s])]
<1>1. load_backtest_config(header, items) =
        IF /\ HeaderValid(header) /\ \A s \in Tables : Stops(T[s]) = {}
           /\ validate_customer_ids(T)
        THEN T ELSE Throws
  BY DEF load_backtest_config
<1>2. T[t] = yaml_table(t, items[t])
  OBVIOUS
<1> HIDE DEF T
<1>3. load_backtest_config(header, items) = T /\ \A s \in Tables : Stops(T[s]) = {}
  BY <1>1
<1> QED BY <1>2, <1>3

\* Plain rows the backtest takes leave the service the same table.
LEMMA TablesAgree ==
  ASSUME scenario \in Scenarios, NEW t \in RuleTypes \cup {"bridge_contracts"},
         Stops(yaml_table(t, Owned(t))) = {}, \A i \in DOMAIN Owned(t) : Plain(t, Owned(t)[i])
  PROVE  /\ Kept(Outcomes(t, Rows(t))) = yaml_table(t, Owned(t))
         /\ Stops(Outcomes(t, Rows(t))) = {}
<1> DEFINE out == Outcomes(t, Rows(t))
           owned == Owned(t)
<1>1. /\ out \in Seq(TableConfig(t) \cup {Skipped, Throws}) /\ DOMAIN out = DOMAIN owned
      /\ \A i \in DOMAIN owned : owned[i] \in TableRow(t) /\ out[i] = live_row(t, owned[i])
  BY OutcomesTyped
<1>2. out = [i \in DOMAIN owned |-> live_row(t, owned[i])]
  BY DEF Outcomes, Owned
<1> HIDE DEF out, owned
<1>3. \A i \in DOMAIN owned : yaml_row(t, owned[i]) # Throws
  BY DEF Stops, yaml_table, owned
<1>4. \A i \in DOMAIN owned : /\ live_row(t, owned[i]) = yaml_row(t, owned[i])
                               /\ yaml_row(t, owned[i]) \in TableConfig(t)
  BY <1>1, <1>3, YamlAgrees DEF owned
<1>5. out = yaml_table(t, owned)
  BY <1>2, <1>4 DEF yaml_table
<1>6. \A i \in DOMAIN out : out[i] \notin {Skipped, Throws}
  BY <1>1, <1>4, OutcomeAssumption DEF Tables
<1> QED BY <1>1, <1>5, <1>6, KeptElements DEF Stops, out, owned

\* The loaders in their order.
Place == [customers |-> 1, governance |-> 2, mint_burn |-> 3, approval |-> 4, bridge |-> 5,
          bridge_contracts |-> 5, oracle |-> 6, large_transfer |-> 8]

\* The loader of t has run.
Done(t) == \/ phase = "load" /\ Place[t] < at
           \/ phase = "register" /\ t # "large_transfer"
           \/ phase \in {"threads", "started", "running"}

\* A table is empty or what its loader makes of the rows, and the latter once
\* the loader has run and its query has not failed.
TableInv(t) == /\ tables[t] = << >> \/ tables[t] = Loaded(t, "ok")
               /\ Done(t) /\ lost[t] = "no" => tables[t] = Loaded(t, "ok")

TablesInv ==
  /\ scenario \in Scenarios /\ DOMAIN tables = Tables
  /\ phase \in {"connect", "checkpoint", "modules"} => at = 1
  /\ phase = "load" => at \in 1..7
  /\ \A t \in Tables : TableInv(t)

\* A backtest that succeeded has taken every enabled row.
BacktestInv ==
  backtest.exit = 0 => \A t \in Tables : /\ Stops(yaml_table(t, Owned(t))) = {}
                                         /\ backtest.tables[t] = yaml_table(t, Owned(t))

\* Every table is empty at first.
LEMMA TablesStart == Init => TablesInv /\ BacktestInv
BY DEF Init, TablesInv, TableInv, Done, BacktestInv, NoTables, NoBacktest

\* No step turns one database into another.
LEMMA ScenarioKept == [Next]_vars => scenario' = scenario
BY DEF Next, Provision, Mishap, Elsewhere, Still, Start, NoDatabaseUrl, Stop, Ended, Kill, Backtest, Connect,
       ReadCheckpoint, BuildModules, StartThreads, WriteReadinessFile, LoadTable, LoadBridge,
       LoadWebhooks, RegisterRules, vars

\* The same database makes the same tables.
LEMMA SameRows ==
  ASSUME scenario' = scenario
  PROVE  \A t : Loaded(t, "ok")' = Loaded(t, "ok") /\ Owned(t)' = Owned(t) /\ Rows(t)' = Rows(t)
BY DEF Loaded, Owned, Rows, database

\* Steps that leave the tables alone take no loader's place.
LEMMA TablesKept ==
  ASSUME TablesInv, scenario' = scenario, tables' = tables,
         \A t \in Tables : Done(t)' /\ lost'[t] = "no" => Done(t) /\ lost[t] = "no",
         phase' \in {"connect", "checkpoint", "modules"} => at' = 1,
         phase' = "load" => at' \in 1..7
  PROVE  TablesInv'
BY SameRows DEF TablesInv, TableInv

\* Each step of the process, by what it does to the tables.
LEMMA TablesStep == TablesInv /\ PhaseInv /\ [Next]_vars => TablesInv'
<1> SUFFICES ASSUME TablesInv, PhaseInv, [Next]_vars PROVE TablesInv'
  OBVIOUS
<1>0. scenario' = scenario
  BY ScenarioKept
<1>1. CASE Provision \/ Mishap \/ UNCHANGED vars
           \/ \E ok \in BOOLEAN, header \in scenario.documents : Backtest(header, ok)
  <2>1. UNCHANGED <<phase, lost, tables, at>>
    BY <1>1 DEF Provision, Mishap, Backtest, vars, processVars
  <2> QED BY <1>0, <2>1, TablesKept DEF Done, TablesInv
<1>2. CASE Start
  <2>1. phase' = "connect" /\ tables' = NoTables /\ at' = 1
    BY <1>2 DEF Start
  <2> QED BY <1>0, <2>1 DEF TablesInv, TableInv, Done, NoTables
<1>3. CASE NoDatabaseUrl \/ Kill \/ \E ok \in BOOLEAN : Stop(ok)
  <2>1. phase' = "down" /\ tables' = tables
    BY <1>3 DEF NoDatabaseUrl, Stop, Ended, Kill, GiveUp
  <2> QED BY <1>0, <2>1, TablesKept DEF Done
<1>4. ASSUME NEW ok \in BOOLEAN, Connect(ok) \/ ReadCheckpoint(ok) \/ BuildModules(ok)
      PROVE  TablesInv'
  <2>1. /\ tables' = tables /\ lost' = lost /\ at' = at /\ phase \in {"connect", "checkpoint", "modules"}
        /\ phase' \in {"down", "connect", "checkpoint", "modules", "load"}
    BY <1>4 DEF Connect, ReadCheckpoint, BuildModules, GiveUp, Advance
  <2>2. at' = 1
    BY <2>1 DEF TablesInv
  <2>3. \A t \in Tables : ~Done(t)'
    BY <2>1, <2>2 DEF Done, Place, Tables, RuleTypes
  <2> QED BY <1>0, <2>1, <2>2, <2>3, TablesKept
<1>5. ASSUME NEW ok \in BOOLEAN, StartThreads(ok) \/ WriteReadinessFile(ok)
      PROVE  TablesInv'
  <2>1. UNCHANGED <<lost, tables>> /\ phase \in {"threads", "started"} /\ phase' \in {"started", "running"}
    BY <1>5 DEF StartThreads, WriteReadinessFile
  <2> QED BY <1>0, <2>1, TablesKept DEF Done
<1>6. ASSUME NEW went \in Outcome, NEW t \in Tables, LoadTable(t, went) PROVE TablesInv'
  <2>1. /\ phase = "load" /\ phase' = "load" /\ at' = at + 1 /\ t = LoadOrder[at]
        /\ t \notin {"bridge", "webhooks"}
        /\ tables' = [tables EXCEPT ![t] = Loaded(t, went)]
        /\ lost' = IF went = "ok" THEN lost ELSE [lost EXCEPT ![t] = went]
    BY <1>6 DEF LoadTable
  <2>2. at \in 1..6 /\ Place[t] = at /\ \A s \in Tables : Place[s] = at => s = t
    BY <2>1 DEF TablesInv, LoadOrder, Place, Tables, RuleTypes
  <2>3. Loaded(t, went) = (IF went = "ok" THEN Loaded(t, "ok") ELSE << >>)
    BY DEF Loaded
  <2>4. \A s \in Tables : Place[s] \in Int
    BY DEF Place, Tables, RuleTypes
  <2>5. ASSUME NEW s \in Tables PROVE TableInv(s)'
    <3>1. CASE s = t
      <4>1. tables'[s] = Loaded(t, went) /\ lost'[s] = IF went = "ok" THEN lost[s] ELSE went
        BY <2>1, <3>1 DEF TablesInv, PhaseInv
      <4> QED BY <1>0, <2>3, <3>1, <4>1, SameRows DEF TableInv, Outcome
    <3>2. CASE s # t
      <4>1. tables'[s] = tables[s] /\ lost'[s] = lost[s]
        BY <2>1, <3>2 DEF TablesInv, PhaseInv
      <4>2. Done(s)' => Done(s)
        BY <2>1, <2>2, <2>4, <3>2 DEF Done
      <4> QED BY <1>0, <4>1, <4>2, SameRows DEF TableInv, TablesInv
    <3> QED BY <3>1, <3>2
  <2> QED BY <1>0, <2>1, <2>2, <2>5 DEF TablesInv
<1>7. ASSUME NEW went \in Outcome, NEW first \in Outcome, LoadBridge(first, went)
      PROVE  TablesInv'
  <2>1. /\ phase = "load" /\ phase' = "load" /\ at' = at + 1 /\ LoadOrder[at] = "bridge"
        /\ first # "ok" => went = first
        /\ tables' = [tables EXCEPT !["bridge_contracts"] = Loaded("bridge_contracts", first),
                                    !["bridge"] = Loaded("bridge", went)]
        /\ lost' = [lost EXCEPT !["bridge_contracts"] = IF first = "ok" THEN @ ELSE first,
                                !["bridge"] = IF went = "ok" THEN @ ELSE went]
    BY <1>7 DEF LoadBridge
  <2>2. at = 5
    BY <2>1 DEF TablesInv, LoadOrder
  <2>3. \A how \in Outcome, t \in Tables : Loaded(t, how) = (IF how = "ok" THEN Loaded(t, "ok") ELSE << >>)
    BY DEF Loaded
  <2>4. ASSUME NEW s \in Tables PROVE TableInv(s)'
    <3>1. CASE s = "bridge"
      <4>1. tables'[s] = Loaded(s, went) /\ lost'[s] = IF went = "ok" THEN lost[s] ELSE went
        BY <2>1, <3>1 DEF TablesInv, PhaseInv
      <4> QED BY <1>0, <2>3, <4>1, SameRows DEF TableInv, Outcome
    <3>2. CASE s = "bridge_contracts"
      <4>1. tables'[s] = Loaded(s, first) /\ lost'[s] = IF first = "ok" THEN lost[s] ELSE first
        BY <2>1, <3>2 DEF TablesInv, PhaseInv
      <4> QED BY <1>0, <2>3, <4>1, SameRows DEF TableInv, Outcome
    <3>3. CASE s \notin {"bridge", "bridge_contracts"}
      <4>1. tables'[s] = tables[s] /\ lost'[s] = lost[s]
        BY <2>1, <3>3 DEF TablesInv, PhaseInv
      <4>2. Done(s)' => Done(s)
        BY <2>1, <2>2, <3>3 DEF Done, Place, Tables, RuleTypes
      <4> QED BY <1>0, <4>1, <4>2, SameRows DEF TableInv, TablesInv
    <3> QED BY <3>1, <3>2, <3>3
  <2> QED BY <1>0, <2>1, <2>2, <2>4 DEF TablesInv
<1>8. ASSUME NEW went \in Outcome, LoadWebhooks(went) PROVE TablesInv'
  <2>1. phase = "load" /\ phase' = "register" /\ tables' = tables /\ LoadOrder[at] = "webhooks"
    BY <1>8 DEF LoadWebhooks
  <2>2. at = 7
    BY <2>1 DEF TablesInv, LoadOrder
  <2>3. \A t \in Tables : lost'[t] = lost[t]
    <3>1. lost' = lost \/ lost' = [lost EXCEPT !["webhooks"] = went]
      BY <1>8 DEF LoadWebhooks
    <3> QED BY <3>1 DEF PhaseInv, Tables, RuleTypes
  <2>4. \A t \in Tables : Done(t)' => Done(t)
    BY <2>1, <2>2 DEF Done, Place, Tables, RuleTypes
  <2> QED BY <1>0, <2>1, <2>3, <2>4, TablesKept
<1>9. ASSUME NEW went \in Outcome, RegisterRules(went) PROVE TablesInv'
  <2>1. /\ phase = "register" /\ phase' = "threads"
        /\ tables' = [tables EXCEPT !["large_transfer"] = Loaded("large_transfer", went)]
        /\ lost' = IF went = "ok" THEN lost ELSE [lost EXCEPT !["large_transfer"] = went]
    BY <1>9 DEF RegisterRules
  <2>2. Loaded("large_transfer", went) = (IF went = "ok" THEN Loaded("large_transfer", "ok") ELSE << >>)
    BY DEF Loaded
  <2>3. ASSUME NEW s \in Tables PROVE TableInv(s)'
    <3>1. CASE s = "large_transfer"
      <4>1. tables'[s] = Loaded(s, went) /\ lost'[s] = IF went = "ok" THEN lost[s] ELSE went
        BY <2>1, <3>1 DEF TablesInv, PhaseInv
      <4> QED BY <1>0, <2>2, <3>1, <4>1, SameRows DEF TableInv, Outcome
    <3>2. CASE s # "large_transfer"
      <4>1. tables'[s] = tables[s] /\ lost'[s] = lost[s]
        BY <2>1, <3>2 DEF TablesInv, PhaseInv
      <4>2. Done(s)
        BY <2>1, <3>2 DEF Done
      <4> QED BY <1>0, <4>1, <4>2, SameRows DEF TableInv, TablesInv
    <3> QED BY <3>1, <3>2
  <2> QED BY <1>0, <2>1, <2>3 DEF TablesInv
<1> QED BY <1>1, <1>2, <1>3, <1>4, <1>5, <1>6, <1>7, <1>8, <1>9 DEF Next

\* The only backtest there is takes the rows as they are.
LEMMA BacktestStep == TablesInv /\ BacktestInv /\ [Next]_vars => BacktestInv'
<1> SUFFICES ASSUME BacktestInv, [Next]_vars PROVE BacktestInv'
  OBVIOUS
<1>0. scenario' = scenario
  BY ScenarioKept
<1>1. CASE backtest' = backtest
  BY <1>0, <1>1, SameRows DEF BacktestInv
<1>2. ASSUME NEW ok \in BOOLEAN, NEW header \in scenario.documents, Backtest(header, ok)
      PROVE  BacktestInv'
  <2> DEFINE items == [t \in Tables |-> Selected(t, database[t])]
             cfg == load_backtest_config(header, items)
  <2>1. backtest'.exit = 0 => cfg # Throws /\ backtest'.tables = cfg
    <3>1. backtest' = IF cfg = Throws THEN [exit |-> 4, tables |-> NoTables]
                      ELSE IF ~header.rpc_url THEN [exit |-> 3, tables |-> NoTables]
                      ELSE IF ~ok THEN [exit |-> 4, tables |-> NoTables]
                      ELSE [exit |-> 0, tables |-> cfg]
      BY <1>2 DEF Backtest
    <3> HIDE DEF cfg
    <3> QED BY <3>1
  <2>2. \A t \in Tables : items[t] = Owned(t)
    BY DEF Owned, Rows
  <2> HIDE DEF items
  <2>3. cfg # Throws => \A t \in Tables : cfg[t] = yaml_table(t, Owned(t)) /\ Stops(yaml_table(t, Owned(t))) = {}
    BY <2>2, DocumentTaken
  <2> HIDE DEF cfg
  <2> QED BY <1>0, <2>1, <2>3, SameRows DEF BacktestInv
<1>3. CASE ~\E ok \in BOOLEAN, header \in scenario.documents : Backtest(header, ok)
  <2>1. backtest' = backtest
    BY <1>3 DEF Next, Provision, Mishap, Elsewhere, Still, Start, NoDatabaseUrl, Stop, Ended, Kill, Connect,
         ReadCheckpoint, BuildModules, StartThreads, WriteReadinessFile, LoadTable, LoadBridge,
         LoadWebhooks, RegisterRules, vars
  <2> QED BY <1>1, <2>1
<1> QED BY <1>2, <1>3

\* The inductive invariant of the configuration.
ConfigInv == PhaseInv /\ TablesInv /\ BacktestInv

\* It holds in every reachable state.
THEOREM ConfigInvariant == Spec => []ConfigInv
<1>1. Init => ConfigInv
  BY PhaseStart, TablesStart DEF ConfigInv
<1>2. ConfigInv /\ [Next]_vars => ConfigInv'
  BY PhaseStep, TablesStep, BacktestStep DEF ConfigInv
<1> QED BY <1>1, <1>2, PTL DEF Spec

\* The load_..._ functions of App: no rule watches a chain or an address or applies a
\* threshold that no enabled row of its table asks for, whatever the rows hold
\* and whichever queries failed.
THEOREM NothingIsInvented == Spec => []NothingInvented
<1>1. ConfigInv => NothingInvented
  <2> SUFFICES ASSUME ConfigInv, NEW t \in RuleTypes, NEW k \in DOMAIN tables[t]
               PROVE  \E i \in DOMAIN Owned(t) : Honours(t, tables[t][k], Owned(t)[i])
    BY DEF NothingInvented
  <2>1. scenario \in Scenarios /\ (tables[t] = << >> \/ tables[t] = Loaded(t, "ok"))
    BY DEF ConfigInv, TablesInv, TableInv, Tables
  <2>2. tables[t] = Loaded(t, "ok")
    BY <2>1
  <2> QED BY <2>1, <2>2, LoadedHonours
<1> QED BY <1>1, ConfigInvariant, PTL

\* The load_..._ functions of App: a running service applies every enabled and
\* well-formed row of a table it could read, up to the row that ends a loader.
THEOREM RowsAreInEffect == Spec => []RowsInEffect
<1>1. ConfigInv => RowsInEffect
  <2> SUFFICES ASSUME ConfigInv, Running, NEW t \in RuleTypes, Readable(t), NEW i \in DOMAIN Owned(t),
                      WellFormed(t, Owned(t)[i]), \A j \in 1..(i - 1) : ~Spoils(t, Owned(t)[j])
               PROVE  \E k \in DOMAIN tables[t] : Honours(t, tables[t][k], Owned(t)[i])
    BY DEF RowsInEffect
  <2>1. scenario \in Scenarios /\ TableInv(t)
    BY DEF ConfigInv, TablesInv, Tables
  <2>2. tables[t] = Loaded(t, "ok")
    BY <2>1 DEF TableInv, Done, Running, Readable
  <2> QED BY <2>1, <2>2, LoadedInEffect
<1> QED BY <1>1, ConfigInvariant, PTL

\* load_backtest_config against the load_..._ functions: rows a backtest takes
\* give the running service the same tables.
THEOREM BacktestsAgree == Spec => []BacktestAgrees
<1>1. ConfigInv => BacktestAgrees
  <2> SUFFICES ASSUME ConfigInv, Running, backtest.exit = 0, NEW t \in RuleTypes, lost[t] = "no",
                      \A i \in DOMAIN Owned(t) : Plain(t, Owned(t)[i]),
                      t = "bridge" => tables["bridge_contracts"] # << >>
               PROVE  tables[t] = backtest.tables[t]
    BY DEF BacktestAgrees
  <2>1. scenario \in Scenarios /\ TableInv(t) /\ TableInv("bridge_contracts")
    BY DEF ConfigInv, TablesInv, Tables
  <2>2. /\ Stops(yaml_table(t, Owned(t))) = {} /\ backtest.tables[t] = yaml_table(t, Owned(t))
        /\ Stops(yaml_table("bridge_contracts", Owned("bridge_contracts"))) = {}
    BY DEF ConfigInv, BacktestInv, Tables
  <2>3. tables[t] = Loaded(t, "ok")
    BY <2>1 DEF TableInv, Done, Running
  <2>4. Kept(Outcomes(t, Rows(t))) = yaml_table(t, Owned(t))
    BY <2>1, <2>2, TablesAgree
  <2>5. CASE t # "bridge"
    BY <2>2, <2>3, <2>4, <2>5 DEF Loaded, load_configs
  <2>6. CASE t = "bridge"
    <3> DEFINE registry == Outcomes("bridge_contracts", Rows("bridge_contracts"))
    <3>1. \A row : Plain("bridge_contracts", row)
      BY DEF Plain
    <3>2. Stops(registry) = {}
      BY <2>1, <2>2, <3>1, TablesAgree
    <3>3. Kept(registry) # << >>
      BY <2>1, <2>6 DEF TableInv, Loaded, load_configs
    <3> QED BY <2>2, <2>3, <2>4, <2>6, <3>2, <3>3 DEF Loaded, load_bridge_rules, load_configs, Rows
  <2> QED BY <2>5, <2>6
<1> QED BY <1>1, ConfigInvariant, PTL
----------------------------------------------------------------------------
(* The secrets *)

WebhookRow == [customer_id : Owners, url : Urls, enabled : BOOLEAN,
               hmac_secret_encrypted : Ciphertexts \cup {Null}, hmac_secret_nonce : Nonces \cup {Null}]

\* A sealed secret is the one its customer was told, and a row nobody touched
\* opens under the key it was sealed with.
Sealed(row, note, touched) ==
  /\ row.hmac_secret_encrypted = Null <=> row.hmac_secret_nonce = Null
  /\ row.hmac_secret_encrypted # Null =>
       row.hmac_secret_encrypted.plaintext = note.secret /\ note.secret # Empty
  /\ ~touched => /\ row.enabled
                 /\ row.hmac_secret_encrypted # Null =>
                      /\ row.hmac_secret_encrypted.key = note.key
                      /\ row.hmac_secret_encrypted.nonce = row.hmac_secret_nonce
                      /\ row.hmac_secret_nonce.size = NonceSize /\ row.hmac_secret_encrypted.size = TagSize

\* What is known of a row from when it was written.
Note == [secret : AnySecret, key : MasterKeys \cup {NoKey, BadKey}]

SameEndpoint(row, other) == row.customer_id = other.customer_id /\ row.url = other.url

\* Every row is sealed, and no two are for the same endpoint.
RowsInv ==
  /\ webhookRows \in Seq(WebhookRow) /\ drawn \in Int /\ masterKey \in MasterKeys \cup {NoKey, BadKey}
  /\ told \in Seq(Note)
  /\ Len(told) = Len(webhookRows) /\ damaged \subseteq DOMAIN webhookRows
  /\ \A i \in DOMAIN webhookRows : Sealed(webhookRows[i], told[i], i \in damaged)
  /\ \A i, j \in DOMAIN webhookRows : SameEndpoint(webhookRows[i], webhookRows[j]) => i = j

\* What a process has read of the rows.
WebhooksInv ==
  /\ phase \in {"connect", "checkpoint", "modules", "load"} => customer_webhooks_ = << >>
  /\ phase \in {"register", "threads", "started", "running"} =>
       /\ customer_webhooks_ = << >> \/ customer_webhooks_ = load_webhook_channels(webhookRows)
       /\ lost["webhooks"] = "no" => customer_webhooks_ = load_webhook_channels(webhookRows)

\* There are no rows at first.
LEMMA SecretsStart == Init => RowsInv /\ WebhooksInv
BY DEF Init, SecretsInit, RowsInv, WebhooksInv

\* A row more, for an endpoint that has none, with what its customer is told.
LEMMA RowAdded ==
  ASSUME RowsInv, NEW row \in WebhookRow, NEW note \in Note,
         Sealed(row, note, FALSE), ~Taken(row.customer_id, row.url),
         webhookRows' = Append(webhookRows, row), told' = Append(told, note),
         drawn' \in Int, UNCHANGED <<masterKey, damaged>>
  PROVE  RowsInv'
<1> DEFINE n == Len(webhookRows)
<1>1. /\ webhookRows \in Seq(WebhookRow) /\ told \in Seq(Note)
      /\ n \in Nat /\ Len(told) = n /\ damaged \subseteq 1..n /\ DOMAIN webhookRows = 1..n
      /\ masterKey \in MasterKeys \cup {NoKey, BadKey}
  BY DEF RowsInv
<1>2. /\ webhookRows' \in Seq(WebhookRow) /\ told' \in Seq(Note)
      /\ Len(webhookRows') = n + 1 /\ Len(told') = n + 1 /\ DOMAIN webhookRows' = 1..(n + 1)
      /\ webhookRows'[n + 1] = row /\ told'[n + 1] = note
      /\ \A i \in 1..n : webhookRows'[i] = webhookRows[i] /\ told'[i] = told[i]
  BY <1>1
<1>3. \A i \in 1..(n + 1) : i \in 1..n \/ i = n + 1
  BY <1>1
<1>4. n + 1 \notin damaged /\ damaged \subseteq 1..(n + 1)
  BY <1>1
<1>5. \A i \in 1..n : /\ Sealed(webhookRows[i], told[i], i \in damaged)
                      /\ ~SameEndpoint(webhookRows[i], row) /\ ~SameEndpoint(row, webhookRows[i])
                      /\ \A j \in 1..n : SameEndpoint(webhookRows[i], webhookRows[j]) => i = j
  BY <1>1 DEF RowsInv, Taken, SameEndpoint
<1> HIDE DEF n
<1>6. \A i \in 1..(n + 1) : Sealed(webhookRows'[i], told'[i], i \in damaged)
  <2>1. Sealed(webhookRows'[n + 1], told'[n + 1], n + 1 \in damaged)
    <3>1. Sealed(row, note, n + 1 \in damaged)
      BY <1>4 DEF Sealed
    <3> QED BY <1>2, <3>1
  <2>2. \A i \in 1..n : Sealed(webhookRows'[i], told'[i], i \in damaged)
    BY <1>2, <1>5
  <2> QED BY <1>3, <2>1, <2>2
<1>7. \A i, j \in 1..(n + 1) : SameEndpoint(webhookRows'[i], webhookRows'[j]) => i = j
  BY <1>2, <1>3, <1>5
<1> QED BY <1>1, <1>2, <1>4, <1>6, <1>7 DEF RowsInv

\* Damage to a row changes neither its endpoint nor the secret sealed in it.
LEMMA RowDamaged ==
  ASSUME NEW row \in WebhookRow, NEW note, NEW touched, Sealed(row, note, touched), NEW new \in Damaged(row)
  PROVE  /\ new \in WebhookRow /\ new.customer_id = row.customer_id /\ new.url = row.url
         /\ Sealed(new, note, TRUE)
<1> SUFFICES /\ new \in WebhookRow /\ new.customer_id = row.customer_id /\ new.url = row.url
             /\ new.hmac_secret_encrypted = Null <=> row.hmac_secret_encrypted = Null
             /\ new.hmac_secret_nonce = Null <=> row.hmac_secret_nonce = Null
             /\ row.hmac_secret_encrypted # Null =>
                  new.hmac_secret_encrypted.plaintext = row.hmac_secret_encrypted.plaintext
  BY DEF Sealed
<1>1. CASE new = [row EXCEPT !.enabled = FALSE]
  BY <1>1 DEF WebhookRow
<1>2. CASE row.hmac_secret_encrypted # Null /\ new \in {[row EXCEPT !.hmac_secret_nonce.number = @ + 1],
                                                      [row EXCEPT !.hmac_secret_nonce.size = @ - 1]}
  <2>1. row.hmac_secret_nonce \in Nonces
    BY <1>2 DEF WebhookRow, Sealed
  <2>2. PICK nonce \in Nonces : new = [row EXCEPT !.hmac_secret_nonce = nonce]
    BY <1>2, <2>1 DEF WebhookRow, Nonces
  <2> QED BY <2>1, <2>2, SecretsAssumption DEF WebhookRow
<1>3. CASE row.hmac_secret_encrypted # Null /\ new \in {[row EXCEPT !.hmac_secret_encrypted.size = @ - 1],
                                                      [row EXCEPT !.hmac_secret_encrypted.key = BadKey]}
  <2>1. row.hmac_secret_encrypted \in Ciphertexts
    BY <1>3 DEF WebhookRow
  <2>2. PICK c \in Ciphertexts : /\ new = [row EXCEPT !.hmac_secret_encrypted = c]
                                 /\ c.plaintext = row.hmac_secret_encrypted.plaintext
    BY <1>3, <2>1 DEF WebhookRow, Ciphertexts
  <2> QED BY <2>1, <2>2, SecretsAssumption DEF WebhookRow
<1> QED BY <1>1, <1>2, <1>3 DEF Damaged

\* The admin tool, the operator's hand and a new key.
LEMMA RowsStep == RowsInv /\ [Next]_vars => RowsInv'
<1> SUFFICES ASSUME RowsInv, [Next]_vars PROVE RowsInv'
  OBVIOUS
<1>1. ASSUME NEW customer \in Owners, NEW url \in Urls, NEW given \in AnySecret,
             given = Empty \/ given.kind = "given", EncryptSecret(customer, url, given)
      PROVE  RowsInv'
  <2> DEFINE plaintext == secret_plaintext(given)
             nonce == [number |-> drawn, size |-> NonceSize]
             sealed == aes_gcm_encrypt(masterKey, nonce, plaintext)
             row == Row(customer, url, sealed, nonce)
             note == [secret |-> plaintext, key |-> masterKey]
  <2>1. /\ ~Taken(customer, url) /\ masterKey \in MasterKeys
        /\ webhookRows' = Append(webhookRows, row) /\ told' = Append(told, note)
        /\ drawn' = drawn + 1 /\ UNCHANGED <<masterKey, damaged>>
    BY <1>1 DEF EncryptSecret, parse_master_key_hex
  <2>2. drawn \in Int
    BY DEF RowsInv
  <2>3. plaintext \in AnySecret /\ plaintext # Empty
    BY <1>1, <2>2 DEF secret_plaintext, Secret, AnySecret, Empty
  <2>4. nonce \in Nonces /\ nonce.size = NonceSize
    BY <2>2 DEF Nonces, NonceSize
  <2> HIDE DEF plaintext, nonce
  <2>5. /\ sealed \in Ciphertexts /\ sealed.plaintext = plaintext /\ sealed.key = masterKey
        /\ sealed.nonce = nonce /\ sealed.size = TagSize
    BY <2>1, <2>3, <2>4 DEF aes_gcm_encrypt, Ciphertexts, TagSize
  <2> HIDE DEF sealed
  <2>6. row \in WebhookRow
    BY <2>4, <2>5 DEF Row, WebhookRow
  <2>7. /\ row.customer_id = customer /\ row.url = url /\ row.enabled = TRUE
        /\ row.hmac_secret_encrypted = sealed /\ row.hmac_secret_nonce = nonce
    BY DEF Row
  <2>8. note \in Note
        /\ note.secret = plaintext /\ note.key = masterKey
    BY <2>1, <2>3 DEF Note
  <2> HIDE DEF row, note
  <2>9. sealed # Null /\ nonce # Null
    BY <2>4, <2>5, SecretsAssumption
  <2>10. Sealed(row, note, FALSE)
    BY <2>3, <2>4, <2>5, <2>7, <2>8, <2>9 DEF Sealed
  <2>11. ~Taken(row.customer_id, row.url) /\ drawn' \in Int
    BY <2>1, <2>2, <2>7
  <2> QED BY <2>1, <2>6, <2>8, <2>10, <2>11, RowAdded
<1>2. ASSUME NEW customer \in Owners, NEW url \in Urls, InsertUnsigned(customer, url)
      PROVE  RowsInv'
  <2> DEFINE row == Row(customer, url, Null, Null)
             note == [secret |-> Empty, key |-> masterKey]
  <2>1. /\ ~Taken(customer, url)
        /\ webhookRows' = Append(webhookRows, row) /\ told' = Append(told, note)
        /\ UNCHANGED <<masterKey, drawn, damaged>>
    BY <1>2 DEF InsertUnsigned
  <2>2. drawn' \in Int /\ masterKey \in MasterKeys \cup {NoKey, BadKey}
    BY <2>1 DEF RowsInv
  <2>3. row \in WebhookRow
    BY DEF Row, WebhookRow
  <2>4. /\ row.customer_id = customer /\ row.url = url /\ row.enabled = TRUE
        /\ row.hmac_secret_encrypted = Null /\ row.hmac_secret_nonce = Null
    BY DEF Row
  <2>5. Empty \in AnySecret
    BY DEF Empty, Secret, AnySecret
  <2>6. note \in Note
    BY <2>2, <2>5 DEF Note
  <2> HIDE DEF row, note
  <2>7. Sealed(row, note, FALSE)
    BY <2>4 DEF Sealed
  <2>8. ~Taken(row.customer_id, row.url)
    BY <2>1, <2>4
  <2> QED BY <2>1, <2>2, <2>3, <2>6, <2>7, <2>8, RowAdded
<1>3. ASSUME NEW i \in DOMAIN webhookRows, DamageRow(i) PROVE RowsInv'
  <2>1. PICK new \in Damaged(webhookRows[i]) : webhookRows' = [webhookRows EXCEPT ![i] = new]
    BY <1>3 DEF DamageRow
  <2>2. damaged' = damaged \cup {i} /\ UNCHANGED <<masterKey, drawn, told>>
    BY <1>3 DEF DamageRow
  <2>3. webhookRows[i] \in WebhookRow /\ Sealed(webhookRows[i], told[i], i \in damaged)
    BY DEF RowsInv
  <2>4. /\ new \in WebhookRow /\ new.customer_id = webhookRows[i].customer_id
        /\ new.url = webhookRows[i].url /\ Sealed(new, told[i], TRUE)
    BY <2>1, <2>3, RowDamaged
  <2>5. /\ webhookRows' \in Seq(WebhookRow) /\ DOMAIN webhookRows' = DOMAIN webhookRows
        /\ Len(webhookRows') = Len(webhookRows) /\ webhookRows'[i] = new
        /\ \A j \in DOMAIN webhookRows : j # i => webhookRows'[j] = webhookRows[j]
    BY <2>1, <2>4 DEF RowsInv
  <2>6. \A j \in DOMAIN webhookRows : Sealed(webhookRows'[j], told'[j], j \in damaged')
    <3> SUFFICES ASSUME NEW j \in DOMAIN webhookRows PROVE Sealed(webhookRows'[j], told'[j], j \in damaged')
      OBVIOUS
    <3>1. CASE j = i
      <4>1. Sealed(new, told[i], i \in damaged')
        BY <2>2, <2>4 DEF Sealed
      <4> QED BY <2>2, <2>5, <3>1, <4>1
    <3>2. CASE j # i
      <4>1. Sealed(webhookRows[j], told[j], j \in damaged)
        BY DEF RowsInv
      <4>2. Sealed(webhookRows[j], told[j], j \in damaged')
        BY <2>2, <3>2, <4>1 DEF Sealed
      <4> QED BY <2>2, <2>5, <3>2, <4>2
    <3> QED BY <3>1, <3>2
  <2>7. \A j \in DOMAIN webhookRows : /\ webhookRows'[j].customer_id = webhookRows[j].customer_id
                                      /\ webhookRows'[j].url = webhookRows[j].url
    BY <2>4, <2>5
  <2>8. \A j, k \in DOMAIN webhookRows : SameEndpoint(webhookRows'[j], webhookRows'[k]) => j = k
    BY <2>7 DEF RowsInv, SameEndpoint
  <2> HIDE DEF Sealed, SameEndpoint
  <2>9. damaged' \subseteq DOMAIN webhookRows'
    BY <2>2, <2>5 DEF RowsInv
  <2> QED BY <2>2, <2>5, <2>6, <2>8, <2>9 DEF RowsInv
<1>4. CASE ChangeKey
  BY <1>4 DEF ChangeKey, RowsInv
<1>5. CASE UNCHANGED secretVars
  BY <1>5 DEF secretVars, RowsInv
<1>6. CASE Provision
  <2>1. \A n \in GivenSecrets : Secret("given", n) \in AnySecret /\ Secret("given", n).kind = "given"
    BY SecretsAssumption DEF Secret, AnySecret
  <2>2. Empty \in AnySecret
    BY DEF Empty, Secret, AnySecret
  <2> QED BY <1>1, <1>2, <1>6, <2>1, <2>2 DEF Provision
<1>7. CASE Mishap
  BY <1>3, <1>4, <1>7 DEF Mishap
<1>8. CASE ~Provision /\ ~Mishap
  <2>1. UNCHANGED secretVars
    BY <1>8 DEF Next, Still, Start, NoDatabaseUrl, Stop, Ended, Kill, Backtest, Connect,
         ReadCheckpoint, BuildModules, StartThreads, WriteReadinessFile, LoadTable, LoadBridge,
         LoadWebhooks, RegisterRules, vars
  <2> QED BY <1>5, <2>1
<1> QED BY <1>6, <1>7, <1>8

\* What a process reads of the rows is what is there: they change only between
\* processes.
LEMMA WebhooksStep == WebhooksInv /\ PhaseInv /\ [Next]_vars => WebhooksInv'
<1> SUFFICES ASSUME WebhooksInv, PhaseInv, [Next]_vars PROVE WebhooksInv'
  OBVIOUS
<1>1. CASE Provision \/ Mishap
  <2>1. phase' = "down"
    BY <1>1 DEF Provision, Mishap, Down, processVars
  <2> QED BY <2>1 DEF WebhooksInv
<1>2. CASE Start
  BY <1>2 DEF Start, WebhooksInv
<1>3. CASE NoDatabaseUrl \/ Kill \/ \E ok \in BOOLEAN : Stop(ok)
  <2>1. phase' = "down"
    BY <1>3 DEF NoDatabaseUrl, Stop, Ended, Kill, GiveUp
  <2> QED BY <2>1 DEF WebhooksInv
<1>4. ASSUME UNCHANGED secretVars, customer_webhooks_' = customer_webhooks_,
             lost'["webhooks"] = lost["webhooks"],
             \/ phase' = phase \/ phase' = "down"
             \/ phase' \in {"checkpoint", "modules", "load"} /\ phase \in {"connect", "checkpoint", "modules"}
             \/ phase \in {"register", "threads", "started"} /\ phase' \in {"threads", "started", "running"}
      PROVE  WebhooksInv'
  <2>1. load_webhook_channels(webhookRows)' = load_webhook_channels(webhookRows)
    BY <1>4 DEF secretVars, load_webhook_channels, endpoint_of, parse_master_key_hex
  <2> QED BY <1>4, <2>1 DEF WebhooksInv
<1>5. CASE UNCHANGED vars \/ \E ok \in BOOLEAN, header \in scenario.documents : Backtest(header, ok)
  <2>1. UNCHANGED <<secretVars, phase, lost, customer_webhooks_>>
    BY <1>5 DEF Backtest, vars, processVars
  <2> QED BY <1>4, <2>1
<1>6. ASSUME NEW ok \in BOOLEAN,
             \/ Connect(ok) \/ ReadCheckpoint(ok) \/ BuildModules(ok)
             \/ StartThreads(ok) \/ WriteReadinessFile(ok)
      PROVE  WebhooksInv'
  <2>1. UNCHANGED <<secretVars, lost, customer_webhooks_>>
    BY <1>6 DEF Connect, ReadCheckpoint, BuildModules, StartThreads, WriteReadinessFile, GiveUp, Advance, Still
  <2>2. \/ phase' = phase \/ phase' = "down"
        \/ phase' \in {"checkpoint", "modules", "load"} /\ phase \in {"connect", "checkpoint", "modules"}
        \/ phase \in {"register", "threads", "started"} /\ phase' \in {"threads", "started", "running"}
    BY <1>6 DEF Connect, ReadCheckpoint, BuildModules, StartThreads, WriteReadinessFile, GiveUp, Advance
  <2> QED BY <1>4, <2>1, <2>2
<1>7. ASSUME NEW went \in Outcome, NEW t \in Tables, LoadTable(t, went) PROVE WebhooksInv'
  <2>1. /\ UNCHANGED <<secretVars, customer_webhooks_, phase>>
        /\ lost' = IF went = "ok" THEN lost ELSE [lost EXCEPT ![t] = went]
    BY <1>7 DEF LoadTable, Still
  <2>2. lost'["webhooks"] = lost["webhooks"]
    BY <2>1 DEF PhaseInv, Tables, RuleTypes
  <2> QED BY <1>4, <2>1, <2>2
<1>8. ASSUME NEW went \in Outcome, NEW first \in Outcome, LoadBridge(first, went) PROVE WebhooksInv'
  <2>1. /\ UNCHANGED <<secretVars, customer_webhooks_, phase>>
        /\ lost' = [lost EXCEPT !["bridge_contracts"] = IF first = "ok" THEN @ ELSE first,
                                !["bridge"] = IF went = "ok" THEN @ ELSE went]
    BY <1>8 DEF LoadBridge, Still
  <2>2. lost'["webhooks"] = lost["webhooks"]
    BY <2>1 DEF PhaseInv
  <2> QED BY <1>4, <2>1, <2>2
<1>9. ASSUME NEW went \in Outcome, LoadWebhooks(went) PROVE WebhooksInv'
  <2>1. UNCHANGED secretVars /\ phase = "load" /\ phase' = "register" /\ customer_webhooks_ = << >>
    BY <1>9 DEF LoadWebhooks, Still, WebhooksInv
  <2>2. load_webhook_channels(webhookRows)' = load_webhook_channels(webhookRows)
    BY <2>1 DEF secretVars, load_webhook_channels, endpoint_of, parse_master_key_hex
  <2>3. CASE parse_master_key_hex(masterKey)
    <3>1. /\ customer_webhooks_' = IF went = "ok" THEN load_webhook_channels(webhookRows) ELSE << >>
          /\ lost' = IF went = "ok" THEN lost ELSE [lost EXCEPT !["webhooks"] = went]
      BY <1>9, <2>3 DEF LoadWebhooks
    <3>2. went # "ok" => lost'["webhooks"] = went
      BY <3>1 DEF PhaseInv
    <3> QED BY <2>1, <2>2, <3>1, <3>2 DEF WebhooksInv, Outcome
  <2>4. CASE ~parse_master_key_hex(masterKey)
    <3>1. customer_webhooks_' = customer_webhooks_ /\ load_webhook_channels(webhookRows) = << >>
      BY <1>9, <2>4 DEF LoadWebhooks, load_webhook_channels
    <3> QED BY <2>1, <2>2, <3>1 DEF WebhooksInv
  <2> QED BY <2>3, <2>4
<1>10. ASSUME NEW went \in Outcome, RegisterRules(went) PROVE WebhooksInv'
  <2>1. /\ UNCHANGED <<secretVars, customer_webhooks_>> /\ phase = "register" /\ phase' = "threads"
        /\ lost' = IF went = "ok" THEN lost ELSE [lost EXCEPT !["large_transfer"] = went]
    BY <1>10 DEF RegisterRules, Still
  <2>2. lost'["webhooks"] = lost["webhooks"]
    BY <2>1 DEF PhaseInv
  <2> QED BY <1>4, <2>1, <2>2
<1> QED BY <1>1, <1>2, <1>3, <1>5, <1>6, <1>7, <1>8, <1>9, <1>10 DEF Next

\* An endpoint the service has is that of one row, which opened; and a row that
\* is on and opens has one.
LEMMA EndpointsOfRows ==
  ASSUME RowsInv, parse_master_key_hex(masterKey)
  PROVE  LET loaded == load_webhook_channels(webhookRows)
         IN  /\ \A k \in DOMAIN loaded : \E i \in DOMAIN webhookRows :
                  /\ loaded[k] = endpoint_of(webhookRows[i]) /\ loaded[k] # Refused
             /\ \A i \in DOMAIN webhookRows :
                  webhookRows[i].enabled /\ endpoint_of(webhookRows[i]) # Refused =>
                    \E k \in DOMAIN loaded : loaded[k] = endpoint_of(webhookRows[i])
<1> DEFINE opened == [i \in DOMAIN webhookRows |-> endpoint_of(webhookRows[i])]
           keep == {i \in DOMAIN webhookRows : webhookRows[i].enabled /\ endpoint_of(webhookRows[i]) # Refused}
           S == {endpoint_of(webhookRows[i]) : i \in DOMAIN webhookRows}
<1>1. Len(webhookRows) \in Nat /\ DOMAIN webhookRows = 1..Len(webhookRows)
  BY DEF RowsInv
<1>2. opened \in [1..Len(webhookRows) -> S]
  BY <1>1
<1>3. opened \in Seq(S)
  <2> HIDE DEF opened, S
  <2> QED BY <1>1, <1>2, FunctionIsSeq
<1>4. load_webhook_channels(webhookRows) = Chosen(opened, keep)
  BY DEF load_webhook_channels
<1>5. /\ DOMAIN opened = DOMAIN webhookRows
      /\ \A i \in DOMAIN webhookRows : opened[i] = endpoint_of(webhookRows[i])
  OBVIOUS
<1>6. \A i \in DOMAIN webhookRows :
        i \in keep <=> webhookRows[i].enabled /\ endpoint_of(webhookRows[i]) # Refused
  OBVIOUS
<1> HIDE DEF opened, keep, S
<1> QED BY <1>3, <1>4, <1>5, <1>6, ChosenElements

\* What a row opens to.
LEMMA OpenedRow ==
  ASSUME RowsInv, NEW i \in DOMAIN webhookRows
  PROVE  LET row == webhookRows[i]
             e == endpoint_of(row)
         IN  /\ e # Refused =>
                  /\ e.customer_id = row.customer_id /\ e.url = row.url /\ RowOf(e) = i
                  /\ row.hmac_secret_encrypted = Null => e.hmac_secret = Empty
                  /\ row.hmac_secret_encrypted # Null =>
                       e.hmac_secret = told[i].secret /\ told[i].secret # Empty
             /\ i \notin damaged /\ (row.hmac_secret_encrypted = Null \/ told[i].key = masterKey) =>
                  row.enabled /\ e # Refused
<1> DEFINE row == webhookRows[i]
           e == endpoint_of(row)
           secret == IF Null \in {row.hmac_secret_encrypted, row.hmac_secret_nonce} THEN Empty
                     ELSE aes_gcm_decrypt(masterKey, row.hmac_secret_nonce, row.hmac_secret_encrypted)
           record == [customer_id |-> row.customer_id, url |-> row.url, hmac_secret |-> secret]
<1>1. row \in WebhookRow /\ Sealed(row, told[i], i \in damaged)
  BY DEF RowsInv
<1>2. e = IF secret = Refused THEN Refused ELSE record
  BY DEF endpoint_of
<1>3. row.hmac_secret_encrypted = Null => secret = Empty
  OBVIOUS
<1>4. row.hmac_secret_encrypted # Null /\ secret # Refused => secret = told[i].secret /\ told[i].secret # Empty
  BY <1>1 DEF Sealed, aes_gcm_decrypt
<1>5. i \notin damaged /\ row.hmac_secret_encrypted # Null /\ told[i].key = masterKey => secret = told[i].secret
  <2> SUFFICES ASSUME i \notin damaged, row.hmac_secret_encrypted # Null, told[i].key = masterKey
               PROVE  secret = told[i].secret
    OBVIOUS
  <2> DEFINE sealed == row.hmac_secret_encrypted
             nonce == row.hmac_secret_nonce
  <2>1. /\ nonce # Null /\ sealed # Null /\ sealed.plaintext = told[i].secret
        /\ sealed.key = masterKey /\ sealed.nonce = nonce
        /\ nonce.size = NonceSize /\ sealed.size = TagSize
    BY <1>1 DEF Sealed
  <2> HIDE DEF sealed, nonce
  <2>2. aes_gcm_decrypt(masterKey, nonce, sealed) = told[i].secret
    BY <2>1 DEF aes_gcm_decrypt, TagSize
  <2>3. secret = aes_gcm_decrypt(masterKey, nonce, sealed)
    BY <2>1 DEF sealed, nonce
  <2> QED BY <2>2, <2>3
<1>6. told[i].secret \in AnySecret /\ Empty \in AnySecret
  <2>1. Empty \in AnySecret
    BY DEF Empty, Secret, AnySecret
  <2>2. told \in Seq(Note) /\ i \in DOMAIN told
    BY DEF RowsInv
  <2>3. told[i] \in Note
    BY <2>2
  <2> QED BY <2>1, <2>3 DEF Note
<1>7. row.customer_id \in Owners /\ row.url \in Urls
  BY <1>1 DEF WebhookRow
<1>8. i \notin damaged => row.enabled
  BY <1>1 DEF Sealed
<1>9. record.customer_id = row.customer_id /\ record.url = row.url /\ record.hmac_secret = secret
  OBVIOUS
<1> HIDE DEF secret
<1>10. secret \in AnySecret => record # Refused /\ secret # Refused
  BY <1>7, SecretsAssumption
<1>11. RowOf(record) = i
  <2>1. \A j \in DOMAIN webhookRows :
          webhookRows[j].customer_id = record.customer_id /\ webhookRows[j].url = record.url <=> j = i
    BY <1>9 DEF RowsInv, SameEndpoint
  <2> HIDE DEF record
  <2> QED BY <2>1 DEF RowOf
<1> HIDE DEF record, e, row
<1>12. e # Refused => e = record /\ secret # Refused
  BY <1>2
<1>13. e # Refused =>
         /\ e.customer_id = row.customer_id /\ e.url = row.url /\ RowOf(e) = i
         /\ row.hmac_secret_encrypted = Null => e.hmac_secret = Empty
         /\ row.hmac_secret_encrypted # Null => e.hmac_secret = told[i].secret /\ told[i].secret # Empty
  BY <1>3, <1>4, <1>9, <1>11, <1>12
<1>14. i \notin damaged /\ (row.hmac_secret_encrypted = Null \/ told[i].key = masterKey) =>
         row.enabled /\ e # Refused
  BY <1>2, <1>3, <1>5, <1>6, <1>8, <1>10
<1> QED BY <1>13, <1>14 DEF e, row

\* The inductive invariant of the secrets.
SecretsInv == PhaseInv /\ RowsInv /\ WebhooksInv

\* encrypt_secret_command, load_webhook_channels_ and send: a request is signed
\* with the secret its customer was told or, where there is none, not at all,
\* and a row that can be opened has its endpoint.
THEOREM SecretsAreHeld == Spec => []SecretsHold
<1>1. Init => SecretsInv
  BY PhaseStart, SecretsStart DEF SecretsInv
<1>2. SecretsInv /\ [Next]_vars => SecretsInv'
  BY PhaseStep, RowsStep, WebhooksStep DEF SecretsInv
<1>3. SecretsInv => SecretsHold
  <2> SUFFICES ASSUME RowsInv, WebhooksInv, Running PROVE SecretsHold
    BY DEF SecretsHold, SecretsInv
  <2> DEFINE loaded == load_webhook_channels(webhookRows)
  <2>1. /\ customer_webhooks_ = << >> \/ customer_webhooks_ = loaded
        /\ lost["webhooks"] = "no" => customer_webhooks_ = loaded
    BY DEF WebhooksInv, Running
  <2>2. ASSUME NEW e \in Endpoints
        PROVE  IF webhookRows[RowOf(e)].hmac_secret_encrypted = Null THEN signature(e) = Unsigned
               ELSE signature(e) # Unsigned /\ signature(e) = hmac_sha256_hex(told[RowOf(e)].secret)
    <3>1. PICK k \in DOMAIN customer_webhooks_ : e = customer_webhooks_[k]
      BY DEF Endpoints
    <3>2. customer_webhooks_ = loaded
      BY <2>1, <3>1
    <3>3. parse_master_key_hex(masterKey)
      BY <3>1, <3>2 DEF load_webhook_channels
    <3>4. PICK i \in DOMAIN webhookRows : e = endpoint_of(webhookRows[i]) /\ e # Refused
      <4> HIDE DEF loaded
      <4> QED BY <3>1, <3>2, <3>3, EndpointsOfRows DEF loaded
    <3>5. /\ RowOf(e) = i
          /\ webhookRows[i].hmac_secret_encrypted = Null => e.hmac_secret = Empty
          /\ webhookRows[i].hmac_secret_encrypted # Null =>
               e.hmac_secret = told[i].secret /\ told[i].secret # Empty
      BY <3>4, OpenedRow
    <3> QED BY <3>5 DEF signature, Unsigned, hmac_sha256_hex
  <2>3. ASSUME lost["webhooks"] = "no", parse_master_key_hex(masterKey), NEW i \in DOMAIN webhookRows \ damaged,
               webhookRows[i].hmac_secret_encrypted = Null \/ told[i].key = masterKey
        PROVE  \E e \in Endpoints : RowOf(e) = i
    <3>1. webhookRows[i].enabled /\ endpoint_of(webhookRows[i]) # Refused
      BY <2>3, OpenedRow
    <3>2. RowOf(endpoint_of(webhookRows[i])) = i
      BY <3>1, OpenedRow
    <3>3. \E k \in DOMAIN loaded : loaded[k] = endpoint_of(webhookRows[i])
      BY <2>3, <3>1, EndpointsOfRows
    <3> HIDE DEF loaded
    <3>4. endpoint_of(webhookRows[i]) \in Endpoints
      BY <2>1, <2>3, <3>3 DEF Endpoints
    <3> QED BY <3>2, <3>4
  <2> QED BY <2>2, <2>3 DEF SecretsHold
<1> QED BY <1>1, <1>2, <1>3, PTL DEF Spec
----------------------------------------------------------------------------
(* The health endpoints *)

ThreadStates == {"off", "new", "loop", "busy", "back", "stuck", "stopped"}
ProbeStates  == {"idle", "threads", "db", "select", "rpc", "recorded", "answer"}
AllCauses    == {"none", "notLooping", "collided", "rpcSilent", "setForward"}

HealthTypeOK ==
  /\ now \in Nat \ {0} /\ lead \in Nat /\ back \in Nat /\ sets \in Nat
  /\ last_ms_ \in [Threads -> Nat] /\ since \in [Threads -> Nat]
  /\ tpc \in [Threads -> ThreadStates]
  /\ server \in {"off", "starting", "serving", "stopping", "joined"}
  /\ connAlive \in BOOLEAN /\ connOpen \in BOOLEAN
  /\ ppc \in [Probes -> ProbeStates] /\ now_ms \in [Probes -> Nat]
  /\ report \in [Probes -> SUBSET Checks] /\ cause \in [Probes -> AllCauses]
  /\ last_rpc_success \in Nat /\ heard \in Nat /\ calls \in Nat

\* A heartbeat is never ahead of the clock, is 0 until the first iteration, is
\* at most a period old in the loop, and is older than the moment a thread got
\* stuck.
ThreadInv ==
  \A t \in Threads :
    /\ last_ms_[t] <= now
    /\ tpc[t] \in {"off", "new"} => last_ms_[t] = 0
    /\ tpc[t] = "loop" => last_ms_[t] # 0 /\ now <= last_ms_[t] + LoopPeriod
    /\ tpc[t] = "stuck" => last_ms_[t] <= since[t]

\* Threads are started before the server listens and stopped after the join,
\* and the join waits for the probes; the connection is closed only when its
\* session is gone.
ServerInv ==
  /\ server = "off" => \A t \in Threads : tpc[t] = "off"
  /\ server \in {"off", "starting"} => \A p \in Probes : ppc[p] = "idle"
  /\ \A t \in Threads : tpc[t] = "stopped" => server = "joined"
  /\ server = "joined" => \A p \in Probes : ppc[p] = "idle"
  /\ connAlive => connOpen

\* Every thread's heartbeat was recent when probe p read its clock - a fact
\* that lasts, since heartbeats only move forward.
Recent(p) ==
  \A t \in Threads : last_ms_[t] # 0 /\ now_ms[p] <= last_ms_[t] + HeartbeatMaxAge

\* What the heartbeat checks in a report stand for.
CheckedInv ==
  \A p \in Probes :
    /\ "threads_alive" \in report[p] => Recent(p)
    /\ "heartbeats_recorded" \in report[p] => \A t \in Threads : last_ms_[t] # 0

\* What a check that is missing from a report is due to.
BlameInv ==
  \A p \in Probes :
    /\ ppc[p] # "idle" /\ cause[p] = "none" => Recent(p)
    /\ ppc[p] \in {"db", "select", "rpc", "recorded", "answer"} /\ cause[p] = "none" =>
         "threads_alive" \in report[p]
    /\ ppc[p] \in {"rpc", "recorded", "answer"} /\ cause[p] = "none" /\ connAlive =>
         "db_connected" \in report[p]
    /\ ppc[p] = "answer" /\ cause[p] = "none" => "heartbeats_recorded" \in report[p]

HealthInv == HealthTypeOK /\ ThreadInv /\ ServerInv /\ CheckedInv /\ BlameInv

\* The date of the last success is ahead of the system clock's present count of
\* that moment by no more than the clock has been set back, and there is one
\* before anybody can ask.  A check that passed bounds the node's silence by the
\* limit and what was set back; one that failed has the node or the clock to
\* blame.
RpcInv ==
  /\ heard <= now /\ last_rpc_success <= heard + lead + back
  /\ server # "off" => last_rpc_success # 0
  /\ \A p \in Probes :
       /\ now_ms[p] <= now
       /\ "rpc_recent" \in report[p] => now_ms[p] - heard < RpcMaxSilence + back
       /\ ppc[p] \in {"recorded", "answer"} /\ cause[p] = "none" =>
            "rpc_recent" \in report[p]

USE HealthAssumption DEF clockVars, threadVars, dbVars, probeVars, rpcVars, healthVars

\* No request has read anything at the start.
LEMMA HealthStart == HealthInit => HealthInv
<1> SUFFICES ASSUME HealthInit PROVE HealthInv
    OBVIOUS
<1> USE DEF HealthInit, Starting
<1>1. HealthTypeOK
  BY DEF HealthTypeOK, ThreadStates, ProbeStates, AllCauses
<1>2. ThreadInv /\ ServerInv
  BY DEF ThreadInv, ServerInv
<1>3. CheckedInv /\ BlameInv
  BY DEF CheckedInv, BlameInv
<1> QED BY <1>1, <1>2, <1>3 DEF HealthInv

\* What a setting of the system clock does to the two counts kept of it.
LEMMA ClockSet ==
  ASSUME HealthTypeOK, SetClock
  PROVE  /\ lead' \in Nat /\ back' \in Nat /\ sets' \in Nat
         /\ back <= back' /\ lead + back <= lead' + back'
         /\ UNCHANGED <<now, threadVars, server, dbVars, probeVars, rpcVars>>
<1>1. lead' \in Leads /\ sets' = sets + 1
      /\ back' = (IF lead' < lead THEN back + (lead - lead') ELSE back)
      /\ UNCHANGED <<now, threadVars, server, dbVars, probeVars, rpcVars>>
  BY Zenon DEF SetClock
<1>2. lead \in Nat /\ back \in Nat /\ sets \in Nat /\ lead' \in Nat
  BY <1>1 DEF HealthTypeOK
<1>3. sets' \in Nat /\ back' \in Nat /\ back <= back' /\ lead + back <= lead' + back'
  BY <1>1, <1>2
<1> QED BY <1>1, <1>2, <1>3

\* Every step of a thread, a request or the clock keeps the invariant.
LEMMA HealthStep == HealthInv /\ [HealthNext]_healthVars => HealthInv'
<1> SUFFICES ASSUME HealthInv, [HealthNext]_healthVars PROVE HealthInv'
    OBVIOUS
<1> USE DEF HealthInv, HealthTypeOK, ThreadInv, ServerInv, CheckedInv, BlameInv, Recent,
            ThreadStates, ProbeStates, AllCauses, Checks
<1>1. ASSUME NEW t \in Threads, Record(t) PROVE HealthInv'
  <2>1. /\ last_ms_' = [last_ms_ EXCEPT ![t] = now]
        /\ tpc' = [tpc EXCEPT ![t] = "loop"] /\ since' = [since EXCEPT ![t] = 0]
        /\ UNCHANGED <<clockVars, server, dbVars, probeVars, rpcVars>>
        /\ tpc[t] \in {"new", "loop", "back"}
    BY <1>1 DEF Record
  <2>2. HealthTypeOK'
    BY <2>1
  <2>3. ThreadInv' /\ ServerInv'
    BY <2>1
  <2>4. \A u \in Threads : last_ms_'[u] >= last_ms_[u] /\ (last_ms_[u] # 0 => last_ms_'[u] # 0)
    BY <2>1
  <2>5. \A p \in Probes : Recent(p) => Recent(p)'
    BY <2>1, <2>2, <2>4
  <2> HIDE DEF Recent
  <2>6. CheckedInv' /\ BlameInv'
    BY <2>1, <2>2, <2>4, <2>5
  <2> QED BY <2>2, <2>3, <2>6
<1>2. ASSUME NEW t \in Threads, Begin(t) PROVE HealthInv'
  BY <1>2 DEF Begin
<1>3. ASSUME NEW t \in Threads, Stick(t) PROVE HealthInv'
  BY <1>3 DEF Stick
<1>4. ASSUME NEW t \in Threads, StopThread(t) PROVE HealthInv'
  BY <1>4 DEF StopThread
<1>5. CASE EndCall
  BY <1>5 DEF EndCall, Continue, call, Hear, system_now
<1>6. CASE EndSend
  BY <1>6 DEF EndSend, Continue
<1>7. CASE Tick
  BY <1>7 DEF Tick
<1>8. CASE DbDown
  BY <1>8 DEF DbDown
<1>9. ASSUME NEW p \in Probes, Request(p) PROVE HealthInv'
  BY <1>9 DEF Request, Step
<1>10. ASSUME NEW p \in Probes, CheckThreads(p) PROVE HealthInv'
  BY <1>10 DEF CheckThreads, Step, Result, AllAlive, age_ms
<1>11. ASSUME NEW p \in Probes, DbClosed(p) PROVE HealthInv'
  BY <1>11 DEF DbClosed, Step
<1>12. ASSUME NEW p \in Probes, DbCollides(p) PROVE HealthInv'
  BY <1>12 DEF DbCollides, Step, Blame
<1>13. ASSUME NEW p \in Probes, DbBegin(p) PROVE HealthInv'
  BY <1>13 DEF DbBegin, Step
<1>14. ASSUME NEW p \in Probes, DbSelect(p) PROVE HealthInv'
  BY <1>14 DEF DbSelect, Step, Result
<1>15. ASSUME NEW p \in Probes, CheckRpc(p) PROVE HealthInv'
  BY <1>15 DEF CheckRpc, Blame, Blamed, Step, Result
<1>16. ASSUME NEW p \in Probes, CheckRecorded(p) PROVE HealthInv'
  BY <1>16 DEF CheckRecorded, Step, Result
<1>17. ASSUME NEW p \in Probes, Answer(p) PROVE HealthInv'
  BY <1>17 DEF Answer, Step
<1>18. CASE StopServer
  BY <1>18 DEF StopServer
<1>19. CASE JoinServer
  BY <1>19 DEF JoinServer, InProgress
<1>20. CASE StartPipeline
  BY <1>20 DEF StartPipeline, call, Hear, system_now
<1>21. CASE Listen
  BY <1>21 DEF Listen
<1>22. CASE SetClock
  BY <1>22, ClockSet
<1>23. CASE UNCHANGED healthVars
  BY <1>23
<1> QED
  BY <1>1, <1>2, <1>3, <1>4, <1>5, <1>6, <1>7, <1>8, <1>9, <1>10, <1>11, <1>12,
     <1>13, <1>14, <1>15, <1>16, <1>17, <1>18, <1>19, <1>20, <1>21, <1>22, <1>23
  DEF HealthNext, Probe

\* Whatever the clock is set to, the date of the last success and the checks
\* that used it stay within what it was set back.
LEMMA RpcStep == HealthInv /\ RpcInv /\ [HealthNext]_healthVars => RpcInv'
<1> SUFFICES ASSUME HealthInv, RpcInv, [HealthNext]_healthVars PROVE RpcInv'
    OBVIOUS
<1> USE DEF HealthInv, HealthTypeOK, RpcInv, ProbeStates, AllCauses, Checks, system_now
<1>1. CASE StartPipeline
  BY <1>1 DEF StartPipeline, call, Hear
<1>2. CASE Listen \/ StopServer \/ JoinServer \/ EndSend \/ DbDown
  BY <1>2 DEF Listen, StopServer, JoinServer, EndSend, Continue, DbDown
<1>3. CASE SetClock
  BY <1>3, ClockSet
<1>4. ASSUME NEW t \in Threads, Record(t) \/ Begin(t) \/ Stick(t) \/ StopThread(t) PROVE RpcInv'
  BY <1>4 DEF Record, Begin, Stick, StopThread
<1>5. CASE EndCall
  BY <1>5 DEF EndCall, Continue, call, Hear
<1>6. CASE Tick
  BY <1>6 DEF Tick
<1>7. ASSUME NEW p \in Probes, Request(p) \/ Answer(p) PROVE RpcInv'
  BY <1>7 DEF Request, Answer, Step
<1>8. ASSUME NEW p \in Probes, CheckThreads(p) \/ DbSelect(p) \/ CheckRecorded(p) PROVE RpcInv'
  BY <1>8 DEF CheckThreads, DbSelect, CheckRecorded, Step, Result
<1>9. ASSUME NEW p \in Probes, DbClosed(p) \/ DbCollides(p) \/ DbBegin(p) PROVE RpcInv'
  BY <1>9 DEF DbClosed, DbCollides, DbBegin, Step, Blame
<1>10. ASSUME NEW p \in Probes, CheckRpc(p) PROVE RpcInv'
  <2> DEFINE silence == IF system_now >= last_rpc_success THEN system_now - last_rpc_success ELSE 0
  <2>1. last_rpc_success # 0 /\ now_ms[p] <= now
    BY <1>10 DEF CheckRpc, Step, ServerInv
  <2>2. silence < RpcMaxSilence => now_ms[p] - heard < RpcMaxSilence + back
    BY <2>1
  <2>3. Blamed = "none" => silence < RpcMaxSilence
    BY <2>1 DEF Blamed
  <2>4. /\ ppc' = [ppc EXCEPT ![p] = "recorded"]
        /\ report' = [report EXCEPT ![p] = IF silence < RpcMaxSilence THEN @ \cup {"rpc_recent"} ELSE @]
        /\ cause' = [cause EXCEPT ![p] = IF @ = "none" THEN Blamed ELSE @]
        /\ UNCHANGED <<clockVars, server, now_ms, rpcVars>>
    BY <1>10, <2>1 DEF CheckRpc, Blame, Step, Result
  <2> HIDE DEF silence
  <2> QED BY <2>1, <2>2, <2>3, <2>4
<1>11. CASE UNCHANGED healthVars
  BY <1>11
<1> QED
  BY <1>1, <1>2, <1>3, <1>4, <1>5, <1>6, <1>7, <1>8, <1>9, <1>10, <1>11
  DEF HealthNext, Probe

\* The inductive invariant holds in every reachable state.
THEOREM HealthInvariant == HealthSpec => [](HealthInv /\ RpcInv)
<1>1. HealthInit => RpcInv
  BY DEF HealthInit, Starting, RpcInv
<1> QED BY <1>1, HealthStart, HealthStep, RpcStep, PTL DEF HealthSpec

\* evaluate_readiness with heartbeat.hpp: a service that answers ready has no
\* thread that got stuck longer than heartbeat_max_age_ms before the request.
THEOREM StuckThreadsAreNoticed == HealthSpec => []StuckThreadNoticed
<1>1. HealthInv => StuckThreadNoticed
  BY DEF HealthInv, HealthTypeOK, ThreadInv, CheckedInv, Recent, StuckThreadNoticed, Ready, Checks
<1> QED BY <1>1, HealthInvariant, PTL

\* The two heartbeat checks together: ready means that every thread of the
\* pipeline has begun its work.
THEOREM ReadyIsStarted == HealthSpec => []ReadyMeansStarted
<1>1. HealthInv => ReadyMeansStarted
  BY DEF HealthInv, ThreadInv, CheckedInv, ReadyMeansStarted, Ready, Checks
<1> QED BY <1>1, HealthInvariant, PTL

\* rpc_recent: a ready service has had an answer from its node within
\* rpc_max_silence_ms of the request and the seconds the system clock was set
\* back, for every sequence of settings, calls and interleaved checks; the
\* grace for a gauge of 0 never applies.
THEOREM OutagesAreNoticed == HealthSpec => []RpcOutageNoticed
<1>1. RpcInv => RpcOutageNoticed
  BY DEF RpcInv, RpcOutageNoticed, Ready, Checks
<1> QED BY <1>1, HealthInvariant, PTL

\* A 503 has a cause: no interleaving of probes, heartbeats and clock readings
\* makes a healthy service look dead.
THEOREM AlarmsHaveCauses == HealthSpec => []NoFalseAlarm
<1>1. HealthInv /\ RpcInv => NoFalseAlarm
  <2> SUFFICES ASSUME HealthInv, RpcInv, NEW p \in Probes, NotReady(p), cause[p] = "none", connAlive
               PROVE  FALSE
    BY DEF NoFalseAlarm
  <2>1. ppc[p] = "answer" /\ report[p] # Checks /\ report[p] \subseteq Checks
    BY DEF NotReady, HealthInv, HealthTypeOK
  <2>2. {"threads_alive", "db_connected", "rpc_recent", "heartbeats_recorded"} \subseteq report[p]
    BY <2>1 DEF HealthInv, BlameInv, RpcInv
  <2> QED BY <2>1, <2>2 DEF Checks
<1> QED BY <1>1, HealthInvariant, PTL

\* stop_orderly_ joins the server before it stops a thread: no probe looks at
\* a pipeline that is half torn down.
THEOREM ProbesSeeAll == HealthSpec => []ProbesSeeWholePipeline
<1>1. HealthInv => ProbesSeeWholePipeline
  BY DEF HealthInv, ServerInv, ProbesSeeWholePipeline, InProgress
<1> QED BY <1>1, HealthInvariant, PTL
=============================================================================
