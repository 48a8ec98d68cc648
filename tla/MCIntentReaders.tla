-------------------------- MODULE MCIntentReaders --------------------------
(* IntentReaders beside two writers, with a power loss (DurabilityRequests). *)
EXTENDS IntentReaders, MCIntentStore

MonthNames == (m1 :> 1) @@ (m2 :> 2)
============================================================================
