----------------------------- MODULE SSEDecoder -----------------------------
(***************************************************************************)
(* SSEDecoder of benchmarks/sse_client.py: Server-Sent Events out of the   *)
(* bytes of a response, however HTTP cuts them into chunks.                *)
(*                                                                         *)
(* A byte string is a sequence of symbols: line ends, carriage returns, the*)
(* field name "data:", other lines (comments, event, id, retry), and the   *)
(* JSON of a payload, whole or cut in two.  A symbol may be delivered on   *)
(* its own, so a chunk may end anywhere: in a payload, in a CRLF, in a     *)
(* character of several bytes.                                             *)
(***************************************************************************)
EXTENDS Integers, Sequences, SequencesExt

None == -1

NL == [kind |-> "nl"]
CR == [kind |-> "cr"]
Data == [kind |-> "data"]
Other == [kind |-> "other"]
Undecodable == [kind |-> "undecodable"]      \* not UTF-8
Whole(p) == [kind |-> "whole", of |-> p]
Cut(p) == [kind |-> "cut", of |-> p]
Rest(p) == [kind |-> "rest", of |-> p]

\* What an event's data says: a delta carries text pieces, token ids and the
\* token counts of its usage; the rest are the errors _consume_event reports.
Payload(type) ==
  [type |-> type, text |-> 0, ids |-> 0, in |-> None, out |-> None, oom |-> FALSE]
Done == Payload("done")
Blank == Payload("blank")
InvalidJson == Payload("invalid_json")
Failure(type, oom) == [Payload(type) EXCEPT !.oom = oom]

Deltas ==
  [type : {"delta"}, text : Nat, ids : Nat, in : Nat \cup {None}, out : Nat \cup {None},
   oom : {FALSE}]
Refusals ==
  {Failure(type, oom) : type \in {"invalid_event", "server_error"}, oom \in BOOLEAN}
Payloads == {Done, Blank, InvalidJson} \cup Deltas \cup Refusals

Symbols ==
  {NL, CR, Data, Other, Undecodable} \cup [kind : {"whole", "cut", "rest"}, of : Payloads]

\* The data lines of one event, joined by line ends: a payload may continue on
\* the next line, [DONE] may not.
Meaning(lines) ==
  LET all == FoldLeft(LAMBDA a, line : a \o line, <<>>, lines) IN
  CASE all = <<>> -> Blank
    [] Len(all) = 1 /\ all[1].kind = "whole" -> all[1].of
    [] /\ Len(all) = 2 /\ all[1].kind = "cut" /\ all[2] = Rest(all[1].of)
       /\ Len(lines) = 1 \/ all[1].of # Done -> all[1].of
    [] OTHER -> InvalidJson

-----------------------------------------------------------------------------
FreshDecoder == [buffer |-> <<>>, lines |-> <<>>]

StripCR(line) == IF line # <<>> /\ Last(line) = CR THEN Front(line) ELSE line

\* s holds the data lines of the event under way and the events found so far.
Dispatch(s) ==
  IF s.lines = <<>> THEN s
  ELSE [lines |-> <<>>, events |-> Append(s.events, Meaning(s.lines))]

ConsumeLine(s, raw) ==
  LET line == StripCR(raw) IN
  IF line = <<>> THEN Dispatch(s)
  ELSE IF line[1] = Data THEN [s EXCEPT !.lines = Append(@, Tail(line))]
  ELSE s

\* The lines that are complete, and what follows the last line end.
CutAt(c, x) ==
  IF x = NL THEN [full |-> Append(c.full, c.rest), rest |-> <<>>]
  ELSE [c EXCEPT !.rest = Append(@, x)]
Split(b) == FoldLeft(CutAt, [full |-> <<>>, rest |-> <<>>], b)

Found(d) == [lines |-> d.lines, events |-> <<>>]

\* A chunk that starts in the middle of a line is taken for a line of its own.
Feed_Unbuffered(d, chunk) ==
  LET cut == Split(chunk)
      s == FoldLeft(ConsumeLine, Found(d), cut.full) IN
  [decoder |-> [buffer |-> cut.rest, lines |-> s.lines], events |-> s.events]

\* The decoder after a chunk, and the events the chunk completed.
Feed(d, chunk) ==
  LET cut == Split(d.buffer \o chunk)
      s == FoldLeft(ConsumeLine, Found(d), cut.full) IN
  [decoder |-> [buffer |-> cut.rest, lines |-> s.lines], events |-> s.events]

\* The end of the response: the last line, and an event without a blank line.
Close(d) ==
  Dispatch(IF d.buffer = <<>> THEN Found(d) ELSE ConsumeLine(Found(d), d.buffer)).events

=============================================================================
