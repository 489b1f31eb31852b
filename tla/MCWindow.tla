------------------------------ MODULE MCWindow ------------------------------
(* Small instances of CrossLayerWindow for TLC: two engines on two devices.    *)
EXTENDS CrossLayerWindow

(* A current server that exports legacy names as well, every device found; and *)
(* an older one without the preemption counter, on devices named by the user.  *)
MCCurrent == [nvml |-> TRUE, energy |-> TRUE, explicit |-> FALSE,
              names |-> {1, 2}, omits |-> {}, powerless |-> {}]
MCOlder == [nvml |-> TRUE, energy |-> FALSE, explicit |-> TRUE,
            names |-> {2}, omits |-> {"num_preemptions_total"}, powerless |-> {}]
MCSetups == {MCCurrent, MCOlder}

(* Each engine has served one request of four prompt tokens to warm up, and    *)
(* requests of three follow: after a restart two of them bring the requests,   *)
(* but not the prompt tokens, back to where they were.                         *)
MCWarm ==
  {[first |-> [b \in AllBounds |-> IF b = Inf THEN 0 ELSE 1],
    prompt |-> 4, generated |-> 1, running |-> 0]}
MCPrompts == {3}

(* The second device has no power sensor. *)
MCOnePowered == {[MCCurrent EXCEPT !.powerless = {2}]}
=============================================================================
