----------------------------- MODULE TrialLease -----------------------------
(***************************************************************************)
(* What one trial promises the search that runs trials one after another   *)
(* on the same GPU: it takes the GPU at most once, and it hands a result   *)
(* back only with the GPU free.  In every other case it aborts the search, *)
(* or, where files cannot be written, fails with an exception the search   *)
(* treats as a failed trial.                                               *)
(***************************************************************************)
CONSTANT MayFail  \* whether a trial can end with such an exception

VARIABLES
  gpu,      \* "unused", "held", "free"
  verdict   \* "open", "returned", "aborted", "failed"

vars == <<gpu, verdict>>

Init == gpu = "unused" /\ verdict = "open"

\* The server is launched.
Take ==
  /\ verdict = "open" /\ gpu = "unused"
  /\ gpu' = "held"
  /\ UNCHANGED verdict

\* The server, its port and its GPU memory are gone.
Release ==
  /\ verdict = "open" /\ gpu = "held"
  /\ gpu' = "free"
  /\ UNCHANGED verdict

\* The trial ends.
End ==
  /\ verdict = "open"
  /\ \/ gpu # "held" /\ verdict' = "returned"
     \/ verdict' = "aborted"
     \/ MayFail /\ verdict' = "failed"
  /\ UNCHANGED gpu

Next == Take \/ Release \/ End

Spec == Init /\ [][Next]_vars /\ WF_vars(End)
=============================================================================
