----------------------------- MODULE JobService -----------------------------
(***************************************************************************)
(* What the on-demand service promises the callers of one installation     *)
(* root, however many processes it takes and whoever of them dies: one     *)
(* Core at a time, a request that takes effect at most once, by a Core and *)
(* under settings that were in force since the call began, and a caller    *)
(* whose answer is true of the request for ever.                           *)
(***************************************************************************)
EXTENDS Naturals

CONSTANTS Clients, Procs

VARIABLES
  holders,  \* processes that hold a Core of the root
  saved,    \* version of the saved settings
  asked,    \* the version when the call began
  effects,  \* times the request took effect
  ran,      \* the version it took effect under
  heard,    \* what its caller knows: "new", "open", "done", "never", "unsure"
  jobs      \* accepted and not settled

Init ==
  /\ holders = {} /\ saved = 0 /\ jobs = {}
  /\ asked = [c \in Clients |-> 0]
  /\ effects = [c \in Clients |-> 0] /\ ran = [c \in Clients |-> 0]
  /\ heard = [c \in Clients |-> "new"]

\* A call begins; it may be refused at once.
Ask(c) ==
  /\ heard[c] = "new"
  /\ asked' = [asked EXCEPT ![c] = saved]
  /\ \E w \in {"open", "never", "unsure"} : heard' = [heard EXCEPT ![c] = w]
  /\ UNCHANGED <<holders, saved, effects, ran, jobs>>

\* Also after its caller gave up waiting, but never after a definite refusal.
Effect(c) ==
  /\ heard[c] \in {"open", "unsure"} /\ effects[c] = 0
  /\ holders # {}
  /\ effects' = [effects EXCEPT ![c] = 1]
  /\ \E v \in asked[c]..saved : ran' = [ran EXCEPT ![c] = v]
  /\ jobs' \in {jobs, jobs \cup {c}}
  /\ UNCHANGED <<holders, saved, asked, heard>>

Tell(c) ==
  /\ heard[c] = "open"
  /\ \/ effects[c] = 1 /\ heard' = [heard EXCEPT ![c] = "done"]
     \/ effects[c] = 0 /\ heard' = [heard EXCEPT ![c] = "never"]
     \/ heard' = [heard EXCEPT ![c] = "unsure"]
  /\ UNCHANGED <<holders, saved, asked, effects, ran, jobs>>

\* Only a Core settles jobs.
Settle ==
  /\ holders # {} /\ jobs' \in SUBSET jobs
  /\ UNCHANGED <<holders, saved, asked, effects, ran, heard>>

Take(p) ==
  /\ holders = {} /\ holders' = {p}
  /\ UNCHANGED <<saved, asked, effects, ran, heard, jobs>>

Leave(p) ==
  /\ p \in holders /\ holders' = holders \ {p}
  /\ UNCHANGED <<saved, asked, effects, ran, heard, jobs>>

Save ==
  /\ saved' = saved + 1
  /\ UNCHANGED <<holders, asked, effects, ran, heard, jobs>>

Next ==
  \/ \E c \in Clients : Ask(c) \/ Effect(c) \/ Tell(c)
  \/ \E p \in Procs : Take(p) \/ Leave(p)
  \/ Settle \/ Save

Spec == Init /\ [][Next]_<<holders, saved, asked, effects, ran, heard, jobs>>
=============================================================================
