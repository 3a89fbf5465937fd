----------------------------- MODULE MCTracking -----------------------------
(* Small instances of Tracking: labels as CarrierStatusRegistry words them. *)
EXTENDS Tracking

CONSTANTS w1, w2, caller, canceller

OneWorker == {w1}
TwoWorkers == {w1, w2}
OneCaller == {caller}
OneCanceller == {canceller}
Nobody == {}

TwoLabels == <<"Unknown", "Delivered">>
ThreeLabels == <<"Unknown", "In Transit", "Delivered">>
=============================================================================
