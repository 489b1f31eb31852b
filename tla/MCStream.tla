------------------------------ MODULE MCStream ------------------------------
(***************************************************************************)
(* Two requests, one at a time, against an engine that answers well, in    *)
(* pieces, wrongly, or not at all.                                         *)
(***************************************************************************)
EXTENDS RequestStream

Delta(text, ids) == [Payload("delta") EXCEPT !.text = text, !.ids = ids]
Usage(out) == [Payload("delta") EXCEPT !.in = 3, !.out = out]
Event(p) == <<Data, Whole(p), NL, NL>>

\* An answer of three tokens in two deltas.
Answer ==
  Event(Delta(1, 1)) \o Event([Delta(1, 2) EXCEPT !.in = 3, !.out = 3]) \o Event(Done)
\* CRLF, a comment, a payload in two chunks, and no line end after [DONE].
Ragged == <<Data, Cut(Delta(1, 1)), Rest(Delta(1, 1)), CR, NL, CR, NL, Other, NL,
            Data, Whole(Done)>>
\* A payload on two data lines.
TwoLines == <<Data, Cut(Delta(1, 1)), NL, Data, Rest(Delta(1, 1)), NL, NL>>
              \o Event(Done)
\* Text without token ids after text with too many.
Bare == Event(Delta(1, 2)) \o Event(Delta(1, 0)) \o Event(Done)
\* The engine generates nothing.
Empty == Event(Usage(0)) \o Event(Done)
Truncated == <<Data, Cut(Usage(1))>>
NotDone == Event(Delta(1, 1))
Error == Event([Payload("server_error") EXCEPT !.oom = TRUE])
Garbage == <<Data, Undecodable, NL, NL>>

MCRequests == 1..2
MCOffset == <<0, 1>>
MCPrompt == <<None, 2>>
MCFaults == <<{"timeout"}, {"transport_error"}>>
MCScripts ==
  <<{Answer, Bare, Empty}, {TwoLines, Ragged, Truncated, NotDone, Error, Garbage}>>
MCReadings ==
  {[oom |-> FALSE, peak |-> 1, utilization |-> 1, alive |-> TRUE],
   [oom |-> TRUE, peak |-> None, utilization |-> None, alive |-> FALSE]}
MCSlo == [ttft |-> 0, tpot |-> 0, e2e |-> 0]
MCLimits == [error |-> 50, oom |-> TRUE, alive |-> TRUE, vram |-> 1,
             utilization |-> None, latency |-> 0, throughput |-> None]

=============================================================================
