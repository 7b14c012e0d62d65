------------------------------ MODULE Secrets ------------------------------
(***************************************************************************)
(* Webhook secrets from the admin tool to the signature: the command       *)
(* admin encrypt-secret (src/admin/encrypt_secret.cpp), the sealing and    *)
(* opening of src/security/crypto.cpp, App::load_webhook_channels_ and     *)
(* the signing in WebhookAlertChannel::send.                               *)
(*                                                                         *)
(* AES-GCM and HMAC are OpenSSL's and are modelled by what they promise: a *)
(* ciphertext opens only under the key and the nonce it was sealed with    *)
(* and only unchanged; a signature tells the secret it was made with.      *)
(***************************************************************************)
EXTENDS Selection

CONSTANTS MasterKeys,       \* 64 hex digits each
          Owners, Urls,     \* customers and endpoints
          GivenSecrets,     \* numbers of the secrets customers bring themselves
          NoKey, BadKey,    \* SENTINEL_SECRET_MASTER_KEY not set, or not 64 hex digits
          Refused,          \* opening a ciphertext throws
          Null              \* SQL's NULL

VARIABLES masterKey,        \* SENTINEL_SECRET_MASTER_KEY
          webhookRows,      \* customer_webhook_channels
          drawn,            \* how many random values RAND_bytes has given
          told,             \* history: of each row, the secret its customer was
                            \* given and the key in force then
          damaged           \* history: rows that were changed by hand

secretVars == <<masterKey, webhookRows, drawn, told, damaged>>

NonceSize == 12
TagSize   == 16

Secret(kind, number) == [kind |-> kind, number |-> number]
Empty == Secret("empty", 0)

AnySecret   == [kind : {"empty", "given", "random"}, number : Int]
Nonces      == [number : Int, size : Int]
Ciphertexts == [key : MasterKeys \cup {BadKey}, nonce : Nonces, plaintext : AnySecret, size : Int]

\* Neither NULL nor an exception is a value.
ASSUME SecretsAssumption ==
  /\ GivenSecrets \subseteq Int
  /\ Null \notin Nonces \cup Ciphertexts
  /\ Refused \notin AnySecret \cup [customer_id : Owners, url : Urls, hmac_secret : AnySecret]
----------------------------------------------------------------------------
(* crypto.cpp *)

parse_master_key_hex(env) == env \in MasterKeys

\* size is what the row holds beyond the secret itself: the tag.
aes_gcm_encrypt(key, nonce, plaintext) ==
  [key |-> key, nonce |-> nonce, plaintext |-> plaintext, size |-> TagSize]

aes_gcm_decrypt(key, nonce, ciphertext) ==
  IF nonce.size # NonceSize \/ ciphertext.size < TagSize THEN Refused
  ELSE IF key # ciphertext.key \/ nonce # ciphertext.nonce THEN Refused
  ELSE ciphertext.plaintext

hmac_sha256_hex(secret) == [hmac |-> secret]
Unsigned == [hmac |-> Empty]
----------------------------------------------------------------------------
(* encrypt_secret_command and the INSERT it prints *)

SecretsInit == /\ masterKey \in MasterKeys \cup {NoKey, BadKey}
               /\ webhookRows = << >> /\ drawn = 0 /\ told = << >> /\ damaged = {}

Taken(customer, url) == \E i \in DOMAIN webhookRows :
  webhookRows[i].customer_id = customer /\ webhookRows[i].url = url

Row(customer, url, encrypted, nonce) ==
  [customer_id |-> customer, url |-> url, enabled |-> TRUE,
   hmac_secret_encrypted |-> encrypted, hmac_secret_nonce |-> nonce]

\* No --secret, or an empty one: a random secret takes its place.
secret_plaintext(given) == IF given = Empty THEN Secret("random", drawn) ELSE given

\* Without a usable key, or without randomness, the command ends (exit codes 2
\* and 3) before it prints anything; what it prints is the secret for the
\* customer and the INSERT.  customer_id and url are unique.
EncryptSecret(customer, url, given) ==
  LET plaintext == secret_plaintext(given)
      nonce     == [number |-> drawn, size |-> NonceSize]
  IN  /\ ~Taken(customer, url)
      /\ parse_master_key_hex(masterKey)
      /\ webhookRows' = Append(webhookRows,
                               Row(customer, url, aes_gcm_encrypt(masterKey, nonce, plaintext), nonce))
      /\ told' = Append(told, [secret |-> plaintext, key |-> masterKey])
      /\ drawn' = drawn + 1
      /\ UNCHANGED <<masterKey, damaged>>

\* An endpoint without a secret is inserted by hand.
InsertUnsigned(customer, url) ==
  /\ ~Taken(customer, url)
  /\ webhookRows' = Append(webhookRows, Row(customer, url, Null, Null))
  /\ told' = Append(told, [secret |-> Empty, key |-> masterKey])
  /\ UNCHANGED <<masterKey, drawn, damaged>>

\* External: a row is damaged by hand - another row's nonce, a nonce or a
\* ciphertext of another size, a changed ciphertext - or switched off; and the
\* master key of the deployment changes.
Damaged(row) ==
  {[row EXCEPT !.enabled = FALSE]} \cup
  IF row.hmac_secret_encrypted = Null THEN {}
  ELSE {[row EXCEPT !.hmac_secret_nonce.number = @ + 1],
        [row EXCEPT !.hmac_secret_nonce.size = @ - 1],
        [row EXCEPT !.hmac_secret_encrypted.size = @ - 1],
        [row EXCEPT !.hmac_secret_encrypted.key = BadKey]}

DamageRow(i) == /\ \E row \in Damaged(webhookRows[i]) : webhookRows' = [webhookRows EXCEPT ![i] = row]
                /\ damaged' = damaged \cup {i}
                /\ UNCHANGED <<masterKey, drawn, told>>

ChangeKey == /\ masterKey' \in (MasterKeys \cup {NoKey, BadKey}) \ {masterKey}
             /\ UNCHANGED <<webhookRows, drawn, told, damaged>>
----------------------------------------------------------------------------
(* load_webhook_channels_ and send *)

\* A table constraint keeps the two columns NULL together.  A column that is not
\* in PostgreSQL's hex format (parse_pg_bytea throws) ends as a ciphertext that
\* does not open does: the row is passed over.
endpoint_of(row) ==
  LET secret == IF Null \in {row.hmac_secret_encrypted, row.hmac_secret_nonce} THEN Empty
                ELSE aes_gcm_decrypt(masterKey, row.hmac_secret_nonce, row.hmac_secret_encrypted)
  IN  IF secret = Refused THEN Refused
      ELSE [customer_id |-> row.customer_id, url |-> row.url, hmac_secret |-> secret]

\* Fault: a row that does not open is taken without its secret.
load_webhook_channels_Unsigned(rows) ==
  LET used == Chosen(rows, {i \in DOMAIN rows : rows[i].enabled})
  IN  IF ~parse_master_key_hex(masterKey) THEN << >>
      ELSE [i \in DOMAIN used |->
              IF endpoint_of(used[i]) # Refused THEN endpoint_of(used[i])
              ELSE [customer_id |-> used[i].customer_id, url |-> used[i].url, hmac_secret |-> Empty]]

\* No key, no webhooks at all; a row that does not open is passed over.
load_webhook_channels(rows) ==
  IF ~parse_master_key_hex(masterKey) THEN << >>
  ELSE Chosen([i \in DOMAIN rows |-> endpoint_of(rows[i])],
              {i \in DOMAIN rows : rows[i].enabled /\ endpoint_of(rows[i]) # Refused})

\* The signature header of a request to this endpoint.
signature(endpoint) == IF endpoint.hmac_secret = Empty THEN Unsigned
                       ELSE hmac_sha256_hex(endpoint.hmac_secret)
=============================================================================
