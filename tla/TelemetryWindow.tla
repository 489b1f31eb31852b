--------------------------- MODULE TelemetryWindow ---------------------------
(***************************************************************************)
(* What a telemetry session promises those who read its result: frames are *)
(* only ever added, the baseline first and nothing but a final sample once *)
(* there is one, and the result handed out is the complete, unchanging     *)
(* list of them.                                                           *)
(***************************************************************************)
EXTENDS Naturals, Sequences

VARIABLES
  frames,   \* the kinds of the frames collected so far, in order
  result    \* {}, or the singleton of the frames the result was built from

vars == <<frames, result>>

Kinds == {"baseline", "periodic", "final"}
Ends(s) == s # <<>> /\ s[Len(s)] = "final"

Init == frames = <<>> /\ result = {}

Collect(kind) ==
  /\ result = {}
  /\ kind = "baseline" => frames = <<>>
  /\ Ends(frames) => kind = "final"
  /\ frames' = Append(frames, kind)
  /\ UNCHANGED result

Publish ==
  /\ result = {}
  /\ result' = {frames}
  /\ UNCHANGED frames

Next == Publish \/ \E kind \in Kinds : Collect(kind)

Spec == Init /\ [][Next]_vars
=============================================================================
