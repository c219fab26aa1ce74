------------------------------ MODULE MCSendBulk ------------------------------
(* Instances of the bulk handler for TLC. *)
EXTENDS SendBulk

AllCodes == {"none", "rate_limited", "validation_failed", "internal_error",
             "smtp_unavailable"}

AllUpdates == Statuses \ {"received"}

IdsOfTwo == 1 .. 2

IdsOfThree == 1 .. 3

\* Two submissions at a time for any size, and no limit for small sizes.
MixedLoads == ((0 .. 4) \X {2}) \cup ((1 .. 2) \X {0})

PairLoad == {<<2, 1>>}
=============================================================================
