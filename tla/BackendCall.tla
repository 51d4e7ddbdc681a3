------------------------------ MODULE BackendCall ------------------------------
(***************************************************************************)
(* What Core expects of one call of backend.execute, whatever becomes of   *)
(* MATLAB: it returns only when the session it started is gone, it may     *)
(* raise at any time, and a session commits at most one receipt, possibly  *)
(* long after the call has raised.  The actions CallBackend, CommitReceipt,*)
(* SessionExits, BackendReturns and BackendRaises of module Executor are   *)
(* these.                                                                  *)
(***************************************************************************)
CONSTANT Receipts   \* what a receipt may say

VARIABLES
  call,      \* "calling", "returned", "raised"
  session,   \* "running" while the session may still write, "stopped"
  receipt    \* "none" or one of Receipts

Init == call = "calling" /\ session = "running" /\ receipt = "none"

CommitReceipt ==
  /\ session = "running" /\ receipt = "none"
  /\ receipt' \in Receipts
  /\ UNCHANGED <<call, session>>

SessionExits ==
  /\ session = "running" /\ session' = "stopped"
  /\ UNCHANGED <<call, receipt>>

Return ==
  /\ call = "calling" /\ session = "stopped"
  /\ call' = "returned"
  /\ UNCHANGED <<session, receipt>>

Raise ==
  /\ call = "calling" /\ call' = "raised"
  /\ UNCHANGED <<session, receipt>>

Next == CommitReceipt \/ SessionExits \/ Return \/ Raise

Spec == Init /\ [][Next]_<<call, session, receipt>>
=============================================================================
