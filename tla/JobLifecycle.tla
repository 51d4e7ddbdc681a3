---------------------------- MODULE JobLifecycle ----------------------------
(***************************************************************************)
(* What durable execution promises of the jobs of one installation root,   *)
(* whatever its processes, files and sessions do: a bounded number is open *)
(* at a time, at most one job of an idempotency key is dispatched, once, a *)
(* client is told "not dispatched" only of a job that never is, a verdict  *)
(* needs a dispatch, and only a completed job ever changes its verdict.    *)
(***************************************************************************)
EXTENDS Naturals, FiniteSets

CONSTANTS Jobs, Keys, NoKey, MaxActiveJobs

VARIABLES
  status,      \* "absent", "open", "completed", "failed", "cancelled", "unknown"
  key,         \* the idempotency key of an accepted job
  dispatched,  \* jobs handed to MATLAB
  told         \* jobs whose client reads that nothing was dispatched

Verdict == {"completed", "failed", "cancelled"}

Init ==
  /\ status = [j \in Jobs |-> "absent"]
  /\ key = [j \in Jobs |-> NoKey]
  /\ dispatched = {}
  /\ told = {}

Accept(j, k) ==
  /\ status[j] = "absent"
  /\ Cardinality({i \in Jobs : status[i] = "open"}) < MaxActiveJobs
  /\ status' = [status EXCEPT ![j] = "open"]
  /\ key' = [key EXCEPT ![j] = k]
  /\ UNCHANGED <<dispatched, told>>

Dispatch(j) ==
  /\ status[j] = "open"
  /\ \A i \in dispatched : key[i] # key[j]
  /\ dispatched' = dispatched \cup {j}
  /\ UNCHANGED <<status, key, told>>

\* A job that was not dispatched is failed or cancelled, and its client is told so.
Refuse(j) ==
  /\ status[j] = "open" /\ j \notin dispatched
  /\ status' \in {[status EXCEPT ![j] = s] : s \in {"failed", "cancelled"}}
  /\ told' = told \cup {j}
  /\ UNCHANGED <<key, dispatched>>

\* The outcome is lost: by a process that stopped, or by an answer that never came.
Lose(j) ==
  /\ status[j] = "open"
  /\ status' = [status EXCEPT ![j] = "unknown"]
  /\ UNCHANGED <<key, dispatched, told>>

\* A receipt settles a dispatched job, also one whose outcome was lost.
Settle(j) ==
  /\ status[j] \in {"open", "unknown"} /\ j \in dispatched
  /\ status' \in {[status EXCEPT ![j] = s] : s \in Verdict}
  /\ UNCHANGED <<key, dispatched, told>>

\* The artifacts no longer are what the manifest says.
Revoke(j) ==
  /\ status[j] = "completed"
  /\ status' = [status EXCEPT ![j] = "failed"]
  /\ UNCHANGED <<key, dispatched, told>>

Next ==
  \E j \in Jobs :
    \/ \E k \in Keys : Accept(j, k)
    \/ Dispatch(j) \/ Refuse(j) \/ Lose(j) \/ Settle(j) \/ Revoke(j)

Spec == Init /\ [][Next]_<<status, key, dispatched, told>>
=============================================================================
