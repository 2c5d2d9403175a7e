---------------------------- MODULE MCIoScheduler ----------------------------
(***************************************************************************)
(* Instance of IoScheduler: two lanes, batches of up to three jobs (one    *)
(* lane must take a second job while the other still works) and one        *)
(* spurious wakeup.                                                        *)
(***************************************************************************)
EXTENDS IoScheduler

CONSTANTS w1, w2

MCLanes == {w1, w2}
==============================================================================
