---------------------------- MODULE MCRateLimit -----------------------------
(* Small instances of RateLimit for TLC.  RecordVerify, the second user of the
   limiter, gives the limit of the attempt counter.  Its rules have no state:
   TLC evaluates them once per run, for texts of a few letters and digits. *)
EXTENDS RateLimit, RecordVerify

HealthcareAttempts == MaxVerifyAttempts("healthcare")

LowerCase == [r \in Rests |-> IF r = "A" THEN "a" ELSE r]

(* What an uploaded table may look like: the columns each template looks at. *)
Tables == {{"order_id", "serial_no", "email"}, {"tracking_no", "phone", "email"},
           {"account_id", "registered_mobile"}, {"booking_ref", "phone", "dob"},
           {"booking_ref", "email", "last_name"}}

ASSUME RulesAgreeOnSmallTables ==
    \A columns \in Tables : /\ VerifiedIffRespelled(columns)
                            /\ DigitsDecide(columns)
                            /\ KeysProveNothing(columns)

ASSUME AliasWorksOnSmallTable == OrderFindsItsWarranty({"order_id", "serial_no"})
=============================================================================
