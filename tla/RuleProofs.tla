---------------------------- MODULE RuleProofs -----------------------------
(***************************************************************************)
(* The components without a state.  The rules of RecordVerify do what they *)
(* are for whatever texts there are, in values and in records, and         *)
(* credentials are bound to their tenant and connector for ids of any      *)
(* length.                                                                 *)
(***************************************************************************)
EXTENDS RecordVerify, CredentialBinding, SequenceTheorems, TLAPS

-----------------------------------------------------------------------------
(* Records *)

Options == {Email, Phone, Mobile, Dob, LastName}

KeyNames == {"order_id", "serial_no", "tracking_no", "account_id", "booking_ref"}

(* The templates use five options and five key fields. *)
LEMMA Registry ==
    ASSUME NEW schema \in Schemas
    PROVE  /\ Range(schema.verify) \subseteq Options
           /\ AllKeyFields(schema) \subseteq KeyNames
<1>1. PICK i \in Industry : schema \in Range(INDUSTRY_SCHEMAS[i])
  BY DEF Schemas
<1>2. Industry = {"retail", "logistics", "telecom", "healthcare", "travel"}
  BY DEF Industry, INDUSTRY_SCHEMAS
<1>3. schema \in {RecordSchema("order_id", <<>>, <<Email>>),
                  RecordSchema("serial_no", <<"order_id">>, <<Email>>),
                  RecordSchema("tracking_no", <<>>, <<Phone, Email>>),
                  RecordSchema("account_id", <<>>, <<Mobile>>),
                  RecordSchema("booking_ref", <<>>, <<Phone, Dob>>),
                  RecordSchema("booking_ref", <<>>, <<Email, LastName>>)}
  BY <1>1, <1>2 DEF INDUSTRY_SCHEMAS, Range
<1>4. QED
  BY <1>3 DEF RecordSchema, AllKeyFields, Options, KeyNames, Range

(* No template has a field that is both. *)
LEMMA FieldsApart ==
    ASSUME NEW schema \in Schemas
    PROVE  VerifyFields(schema) \cap AllKeyFields(schema) = {}
<1>1. \A opt \in Options : opt.field \notin KeyNames
  BY DEF Options, KeyNames, Email, Phone, Mobile, Dob, LastName, VerifyOption
<1>2. QED
  BY <1>1, Registry DEF VerifyFields

(* The fields of a record hold texts. *)
LEMMA RowFields ==
    ASSUME NEW columns, NEW record \in Rows(columns), NEW f \in DOMAIN record
    PROVE  record[f] \in Text
  BY DEF Rows

(* One option: its rule accepts the respellings that the name of its field allows. *)
LEMMA OptionRule ==
    ASSUME NEW opt \in Options, NEW v \in Text, NEW t \in Text
    PROVE  Matches(opt.rule, v, t) <=> v \in Respellings(opt.field, t)
<1>1. CASE opt \in {Email, LastName}
  <2>1. Matches(opt.rule, v, t) <=> Casefold(Strip(v)) = Casefold(Strip(t))
    BY <1>1 DEF Email, LastName, VerifyOption, Matches
  <2>2. Casefold(Strip(v)) = Casefold(Strip(t))
          <=> v.digits = t.digits /\ Fold[v.rest] = Fold[t.rest]
    BY DEF Casefold, Strip, Text
  <2>3. v \in Respellings(opt.field, t)
          <=> v.digits = t.digits /\ Fold[v.rest] = Fold[t.rest]
    BY <1>1 DEF Email, LastName, VerifyOption, Respellings
  <2>4. QED
    BY <2>1, <2>2, <2>3
<1>2. CASE opt \in {Phone, Mobile}
  BY <1>2 DEF Phone, Mobile, VerifyOption, Matches, Respellings, Digits
<1>3. CASE opt = Dob
  <2>1. Matches(opt.rule, v, t) <=> Strip(v) = Strip(t)
    BY <1>3 DEF Dob, VerifyOption, Matches
  <2>2. Strip(v) = Strip(t) <=> v.digits = t.digits /\ v.rest = t.rest
    BY DEF Strip, Text
  <2>3. v \in Respellings(opt.field, t) <=> v.digits = t.digits /\ v.rest = t.rest
    BY <1>3 DEF Dob, VerifyOption, Respellings
  <2>4. QED
    BY <2>1, <2>2, <2>3
<1>4. QED
  BY <1>1, <1>2, <1>3 DEF Options

(* The loop of verify_record with the rules of _matches: a customer is verified by
   the content of a listed field, however the name of that field lets him write
   it, and by nothing else. *)
THEOREM VerificationTakesRespellings ==
    ASSUME NEW columns
    PROVE  VerifiedIffRespelled(columns)
<1> SUFFICES ASSUME NEW schema \in Schemas, NEW v \in Text, NEW record \in Rows(columns)
             PROVE  VerifyRecord(schema, v, record) <=>
                        \E f \in VerifyFields(schema) \cap DOMAIN record :
                            v \in Respellings(f, record[f])
  BY DEF VerifiedIffRespelled
<1>1. ASSUME NEW opt \in Range(schema.verify), opt.field \in DOMAIN record
      PROVE  Matches(opt.rule, v, record[opt.field]) <=>
                 v \in Respellings(opt.field, record[opt.field])
  BY <1>1, Registry, RowFields, OptionRule
<1>2. QED
  BY <1>1 DEF VerifyRecord, VerifyFields

(* _NON_DIGITS.sub: a value that verifies has the digits of a listed field, so that
   one without digits is accepted only where such a field has none either. *)
THEOREM DigitsAreCompared ==
    ASSUME NEW columns
    PROVE  DigitsDecide(columns)
<1>1. ASSUME NEW field, NEW t \in Text, NEW v \in Respellings(field, t)
      PROVE  Digits(t) = Digits(v)
  BY DEF Respellings, Digits
<1>2. QED
  BY <1>1, VerificationTakesRespellings, RowFields DEF VerifiedIffRespelled, DigitsDecide

(* verify_record and matches_key look at different fields of a record, in every
   template of the registry. *)
THEOREM KeysAreNoProof ==
    ASSUME NEW columns
    PROVE  KeysProveNothing(columns)
<1> SUFFICES ASSUME NEW schema \in Schemas, NEW v \in Text, NEW record \in Rows(columns)
             PROVE  /\ VerifyRecord(schema, v, record) <=>
                           VerifyRecord(schema, v, Without(record, AllKeyFields(schema)))
                    /\ MatchesKey(schema, v, record) <=>
                           MatchesKey(schema, v, Without(record, VerifyFields(schema)))
  BY DEF KeysProveNothing
<1>1. ASSUME NEW fields
      PROVE  /\ DOMAIN Without(record, fields) = DOMAIN record \ fields
             /\ \A f \in DOMAIN record \ fields : Without(record, fields)[f] = record[f]
  BY DEF Without, Restrict
<1>2. \A f \in VerifyFields(schema) : f \notin AllKeyFields(schema)
  BY FieldsApart
<1>3. VerifyRecord(schema, v, record) <=>
          VerifyRecord(schema, v, Without(record, AllKeyFields(schema)))
  <2> DEFINE r == Without(record, AllKeyFields(schema))
  <2>1. ASSUME NEW opt \in Range(schema.verify)
        PROVE  /\ opt.field \in DOMAIN record <=> opt.field \in DOMAIN r
               /\ opt.field \in DOMAIN r => r[opt.field] = record[opt.field]
    <3>1. opt.field \notin AllKeyFields(schema)
      BY <1>2 DEF VerifyFields
    <3>2. QED
      BY <3>1, <1>1
  <2> HIDE DEF r
  <2>2. VerifyRecord(schema, v, record) <=> VerifyRecord(schema, v, r)
    BY <2>1 DEF VerifyRecord
  <2>3. QED
    BY <2>2 DEF r
<1>4. MatchesKey(schema, v, record) <=>
          MatchesKey(schema, v, Without(record, VerifyFields(schema)))
  BY <1>1, <1>2 DEF MatchesKey
<1>5. QED
  BY <1>3, <1>4

(* The alias of the warranty template: the order number leads from an order to its
   warranty, and so does the serial number. *)
THEOREM WarrantyHasTwoKeys ==
    ASSUME NEW columns
    PROVE  OrderFindsItsWarranty(columns)
<1> DEFINE order == INDUSTRY_SCHEMAS["retail"]["order"]
           warranty == INDUSTRY_SCHEMAS["retail"]["warranty"]
<1>1. AllKeyFields(order) = {"order_id"}
  BY DEF INDUSTRY_SCHEMAS, RecordSchema, AllKeyFields, Range
<1>2. AllKeyFields(warranty) = {"serial_no", "order_id"}
  BY DEF INDUSTRY_SCHEMAS, RecordSchema, AllKeyFields, Range
<1>3. QED
  BY <1>1, <1>2 DEF OrderFindsItsWarranty, MatchesKey

-----------------------------------------------------------------------------
(* Credentials *)

(* The colon of the joined string is the first one, so it ends the tenant. *)
LEMMA AadParts ==
    ASSUME NEW t \in Ids, NEW c \in Ids
    PROVE  /\ Aad(t, c) \in Seq(Symbols \cup {Colon})
           /\ Len(Aad(t, c)) = Len(t) + 1 + Len(c)
           /\ \A i \in 1..Len(t) : Aad(t, c)[i] = t[i]
           /\ Aad(t, c)[Len(t) + 1] = Colon
           /\ \A i \in 1..Len(c) : Aad(t, c)[Len(t) + 1 + i] = c[i]
  BY DEF Aad, Ids

(* A tenant that ends earlier has its colon where the other has a symbol. *)
LEMMA TenantsNotShorter ==
    ASSUME NEW t \in Ids, NEW c \in Ids, NEW u \in Ids, NEW d \in Ids,
           Aad(t, c) = Aad(u, d)
    PROVE  Len(t) >= Len(u)
<1>1. SUFFICES ASSUME Len(t) < Len(u) PROVE FALSE
  BY DEF Ids
<1>2. Len(t) + 1 \in 1..Len(u)
  BY <1>1 DEF Ids
<1>3. Aad(u, d)[Len(t) + 1] = u[Len(t) + 1]
  BY <1>2, AadParts
<1>4. u[Len(t) + 1] \in Symbols
  BY <1>2 DEF Ids
<1>5. Aad(t, c)[Len(t) + 1] = Colon
  BY AadParts
<1>6. QED
  BY <1>3, <1>4, <1>5, ColonAssumption

(* The joined string determines both ids. *)
LEMMA AadInjective ==
    ASSUME NEW t \in Ids, NEW c \in Ids, NEW u \in Ids, NEW d \in Ids,
           Aad(t, c) = Aad(u, d)
    PROVE  t = u /\ c = d
<1>1. Len(t) = Len(u)
  <2>1. Len(t) >= Len(u) /\ Len(u) >= Len(t)
    BY TenantsNotShorter
  <2>2. QED
    BY <2>1 DEF Ids
<1>2. Len(c) = Len(d)
  <2>1. Len(Aad(t, c)) = Len(t) + 1 + Len(c)
    BY AadParts
  <2>2. Len(Aad(u, d)) = Len(u) + 1 + Len(d)
    BY AadParts
  <2>3. QED
    BY <1>1, <2>1, <2>2 DEF Ids
<1>3. ASSUME NEW i \in 1..Len(t) PROVE t[i] = u[i]
  <2>1. Aad(t, c)[i] = t[i]
    BY AadParts
  <2>2. i \in 1..Len(u)
    BY <1>1
  <2>3. Aad(u, d)[i] = u[i]
    BY <2>2, AadParts
  <2>4. QED
    BY <2>1, <2>3
<1>4. ASSUME NEW i \in 1..Len(c) PROVE c[i] = d[i]
  <2>1. Aad(t, c)[Len(t) + 1 + i] = c[i]
    BY AadParts
  <2>2. i \in 1..Len(d)
    BY <1>2
  <2>3. Aad(u, d)[Len(u) + 1 + i] = d[i]
    BY <2>2, AadParts
  <2>4. QED
    BY <1>1, <2>1, <2>3
<1>5. QED
  BY <1>1, <1>2, <1>3, <1>4, SeqEqual DEF Ids

(* For any set of ids without a colon and any keys: a credential of
   security.py opens for its own key, tenant and connector and for no others. *)
THEOREM CredentialsBound ==
    ASSUME NEW ids \in SUBSET Ids, NEW keys \in SUBSET MasterKeys
    PROVE  CredentialsStayBound(ids, keys)
<1>1. SUFFICES ASSUME NEW t \in ids, NEW c \in ids, NEW u \in ids, NEW d \in ids,
                      NEW k \in keys, NEW l \in keys, NEW x \in Plaintexts,
                      NEW n \in Nonces, MasterKeyOk(k), MasterKeyOk(l)
               PROVE  DecryptCredential(EncryptCredential(x, k, n, t, c), l, u, d)
                        = IF k = l /\ t = u /\ c = d THEN x ELSE InvalidTag
  BY DEF CredentialsStayBound
<1>2. Aad(t, c) = Aad(u, d) <=> t = u /\ c = d
  BY AadInjective
<1>3. QED
  BY <1>1, <1>2 DEF DecryptCredential, EncryptCredential
=============================================================================
