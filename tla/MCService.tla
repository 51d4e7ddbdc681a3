------------------------------- MODULE MCService -------------------------------
(* What the frontends of the instances of Service ask for. *)
EXTENDS Service, TLC

CONSTANTS run, cancel, waitA, waitB

MCKind == [c \in Clients |->
  CASE c = run -> "run" [] c = cancel -> "cancel" [] c \in {waitA, waitB} -> "wait"]

ProcSymmetry == Permutations(Procs)
=============================================================================
