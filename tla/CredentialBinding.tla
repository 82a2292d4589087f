------------------------- MODULE CredentialBinding --------------------------
(***************************************************************************)
(* Connector credentials of app/core/security.py: AES-GCM, with tenant and *)
(* connector bound to the ciphertext as associated data.  The cipher opens *)
(* a box with the key, the nonce and the associated data it was sealed     *)
(* with and with no others; what there is to show is that the associated   *)
(* data, one string joined from two ids, tells the pairs of ids apart.     *)
(***************************************************************************)
EXTENDS Naturals, Sequences

CONSTANTS Symbols,     \* the characters of an id; a uuid has no colon
          Colon,       \* the separator
          Plaintexts,  \* credentials
          Nonces,      \* random nonces
          InvalidTag,  \* the exception of a box that does not open
          ValueError   \* the exception of a master key of a wrong length

ASSUME ColonAssumption == Colon \notin Symbols
ASSUME ErrorAssumption == InvalidTag # ValueError

(* str() of a uuid. *)
Ids == Seq(Symbols)

(* A configured master key and its length in bytes. *)
MasterKeys == [id : Nat, length : Nat]

(* _master_key lets keys of these lengths through. *)
MasterKeyOk(key) == key.length \in {16, 24, 32}

(* f"{tenant_id}:{connector_id}" *)
Aad(tenant_id, connector_id) == tenant_id \o <<Colon>> \o connector_id

(* The nonce travels in front of the ciphertext. *)
EncryptCredential(plaintext, key, nonce, tenant_id, connector_id) ==
    IF MasterKeyOk(key)
      THEN [nonce |-> nonce,
            ct |-> [key |-> key, nonce |-> nonce, text |-> plaintext,
                    aad |-> Aad(tenant_id, connector_id)]]
      ELSE ValueError

DecryptCredential(token, key, tenant_id, connector_id) ==
    IF ~MasterKeyOk(key) THEN ValueError
    ELSE IF /\ token.ct.key = key
            /\ token.ct.nonce = token.nonce
            /\ token.ct.aad = Aad(tenant_id, connector_id)
      THEN token.ct.text
      ELSE InvalidTag

-----------------------------------------------------------------------------
(* A stored credential opens under the key and for the tenant and connector it
   was encrypted for, and under no other key, for no other pair, whatever way
   the two ids could be cut out of the joined string. *)
CredentialsStayBound(ids, keys) ==
    \A t, c, u, d \in ids, k, l \in keys, x \in Plaintexts, n \in Nonces :
        MasterKeyOk(k) /\ MasterKeyOk(l) =>
            DecryptCredential(EncryptCredential(x, k, n, t, c), l, u, d)
                = IF k = l /\ t = u /\ c = d THEN x ELSE InvalidTag
=============================================================================
