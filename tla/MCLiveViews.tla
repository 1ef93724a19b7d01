---------------------------- MODULE MCLiveViews ----------------------------
(* LiveViews on every view, with three changes or faults.                  *)
EXTENDS LiveViews
=============================================================================
