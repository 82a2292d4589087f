---------------------------- MODULE RecordVerify ----------------------------
(***************************************************************************)
(* Identity verification of app/domain/records/schemas.py: the registry of *)
(* record templates and the comparison rules.  They have no state; the     *)
(* attempts a customer may make are counted by RateLimit.                  *)
(*                                                                         *)
(* A text is what somebody typed, or what a cell of an uploaded record     *)
(* holds.  Three things about it count: spaces around it, its digits, and  *)
(* the rest of it, which is the text with its digits blanked out.  Any     *)
(* field may hold any text: a phone field may have no digit, and a name    *)
(* may have the digits of a phone number.                                  *)
(***************************************************************************)
EXTENDS Sequences, Functions

CONSTANTS Rests,    \* what texts are apart from their digits
          Fold,     \* Fold[r]: r in lower case
          Numbers   \* the digits of texts; a text without digits has ""

ASSUME FoldAssumption == Fold \in [Rests -> Rests]
ASSUME NumbersAssumption == "" \in Numbers

Text == [padded : BOOLEAN, rest : Rests, digits : Numbers]

-----------------------------------------------------------------------------
(* The registry *)

VerifyOption(field, rule) == [field |-> field, rule |-> rule]

Email == VerifyOption("email", "email_casefold")
Phone == VerifyOption("phone", "phone_digits")
Mobile == VerifyOption("registered_mobile", "phone_digits")
Dob == VerifyOption("dob", "dob_exact")
LastName == VerifyOption("last_name", "name_casefold")

RecordSchema(key, aliases, verify) ==
    [key_field |-> key, alias_keys |-> aliases, verify |-> verify]

INDUSTRY_SCHEMAS ==
    [retail     |-> [order        |-> RecordSchema("order_id", <<>>, <<Email>>),
                     warranty     |-> RecordSchema("serial_no", <<"order_id">>, <<Email>>)],
     logistics  |-> [shipment     |-> RecordSchema("tracking_no", <<>>, <<Phone, Email>>)],
     telecom    |-> [subscription |-> RecordSchema("account_id", <<>>, <<Mobile>>),
                     billing      |-> RecordSchema("account_id", <<>>, <<Mobile>>)],
     healthcare |-> [appointment  |-> RecordSchema("booking_ref", <<>>, <<Phone, Dob>>)],
     travel     |-> [booking      |-> RecordSchema("booking_ref", <<>>, <<Email, LastName>>)]]

Industry == DOMAIN INDUSTRY_SCHEMAS

Schemas == UNION {Range(INDUSTRY_SCHEMAS[i]) : i \in Industry}

AllKeyFields(schema) == {schema.key_field} \cup Range(schema.alias_keys)

MaxVerifyAttempts(industry) == IF industry = "healthcare" THEN 1 ELSE 3

-----------------------------------------------------------------------------
(* The comparison *)

Strip(t) == [t EXCEPT !.padded = FALSE]

Casefold(t) == [t EXCEPT !.rest = Fold[@]]

(* What _NON_DIGITS.sub leaves of any text. *)
Digits(t) == t.digits

(* _matches *)
Matches(rule, provided, actual) ==
    \/ /\ rule \in {"email_casefold", "name_casefold"}
       /\ Casefold(Strip(provided)) = Casefold(Strip(actual))
    \/ rule = "phone_digits" /\ Digits(provided) = Digits(actual)
    \/ rule = "dob_exact" /\ Strip(provided) = Strip(actual)

(* Any of the options whose field the record has. *)
VerifyRecord(schema, provided, record) ==
    \E opt \in Range(schema.verify) :
        /\ opt.field \in DOMAIN record
        /\ Matches(opt.rule, provided, record[opt.field])

(* The primary key or an alias. *)
MatchesKey(schema, requested, record) ==
    \E kf \in AllKeyFields(schema) :
        /\ kf \in DOMAIN record
        /\ Strip(record[kf]) = Strip(requested)

-----------------------------------------------------------------------------
(* Reference definitions *)

VerifyFields(schema) == {opt.field : opt \in Range(schema.verify)}

(* The rows of an uploaded table with these columns, some cells left empty.  The
   columns are what they are, whatever the registry says of them. *)
Rows(columns) == UNION {[have -> Text] : have \in SUBSET columns}

Without(record, fields) == Restrict(record, DOMAIN record \ fields)

(* The ways to write what a field holds that the name of the field allows: a
   phone number in any format, an address or a name in any case, a date or a
   key as it is; all of them with spaces around. *)
Respellings(field, t) ==
    {u \in Text :
        /\ u.digits = t.digits
        /\ \/ field \in {"phone", "registered_mobile"}
           \/ field \in {"email", "last_name"} /\ Fold[u.rest] = Fold[t.rest]
           \/ u.rest = t.rest}

(* Whoever gives the content of one listed field, however he writes it, is
   verified, and nobody else: the options of a template do not shadow each
   other, and none is compared under the rule of another kind of field. *)
VerifiedIffRespelled(columns) ==
    \A schema \in Schemas : \A v \in Text, record \in Rows(columns) :
        VerifyRecord(schema, v, record) <=>
            \E f \in VerifyFields(schema) \cap DOMAIN record :
                v \in Respellings(f, record[f])

(* No rule lets the digits of a value pass unseen.  A value without digits
   verifies nobody whose listed fields all have some, and a value verifies two
   records only if listed fields of theirs have the same digits, be it none. *)
DigitsDecide(columns) ==
    \A schema \in Schemas : \A v \in Text, record \in Rows(columns) :
        VerifyRecord(schema, v, record) =>
            \E f \in VerifyFields(schema) \cap DOMAIN record :
                Digits(record[f]) = Digits(v)

(* The key that finds a record is no proof of identity, and what proves the
   identity finds no record: each check is blind to the fields of the other. *)
KeysProveNothing(columns) ==
    \A schema \in Schemas : \A v \in Text, record \in Rows(columns) :
        /\ VerifyRecord(schema, v, record) <=>
               VerifyRecord(schema, v, Without(record, AllKeyFields(schema)))
        /\ MatchesKey(schema, v, record) <=>
               MatchesKey(schema, v, Without(record, VerifyFields(schema)))

(* "Either resolves the same warranty": an order number that finds an order also
   finds the warranty of that order, and so does the serial number. *)
OrderFindsItsWarranty(columns) ==
    LET order == INDUSTRY_SCHEMAS["retail"]["order"]
        warranty == INDUSTRY_SCHEMAS["retail"]["warranty"]
    IN  \A v \in Text, o \in Rows(columns), w \in Rows(columns) :
            /\ "order_id" \in DOMAIN o /\ "order_id" \in DOMAIN w
            /\ o["order_id"] = w["order_id"]
            /\ MatchesKey(order, v, o)
            => /\ MatchesKey(warranty, v, w)
               /\ "serial_no" \in DOMAIN w => MatchesKey(warranty, w["serial_no"], w)
=============================================================================
