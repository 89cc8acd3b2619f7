----------------------------- MODULE UsageMeter -----------------------------
(***************************************************************************)
(* What a request is charged for: the meter that reads the usage the       *)
(* upstream reports, from a JSON body or from the lines of an event stream *)
(* that arrives in arbitrary chunks (http/usage.ts).                       *)
(*                                                                         *)
(* A payload has the usage objects and stop reasons found at each place    *)
(* the two dialects put them; a count that is missing, negative or no      *)
(* number is Null, as is an absent object.  A stream is a sequence of      *)
(* symbols, NewLine among them; Text[e] is the line of payload e, and any  *)
(* other line is no JSON.                                                  *)
(***************************************************************************)
EXTENDS Naturals, Sequences, SequencesExt, FiniteSetsExt

CONSTANTS
  Null,
  NewLine,
  Text,         \* Text[e]: the symbols of the data line that carries payload e
  MaxBuffered,  \* MAX_BUFFERED_BYTES
  MaxEvent      \* MAX_EVENT_BYTES

Count(n)   == IF n = Null THEN 0 ELSE n
Or(n, old) == IF n = Null THEN old ELSE n

\* Anthropic's message_start has its usage in an envelope.
usageObject(p) == Or(p.usage, p.message)

\* finish_reason of a choice, stop_reason of a delta or a message, or a status.
readFinishReason(p) == Or(p.choice, Or(p.delta, Or(p.stop, p.status)))

Unread == [input |-> Null, output |-> Null, total |-> Null,
           cached |-> Null, thinking |-> Null, reason |-> Null]

\* Anthropic reports input and output in separate events, growing.
observeAnthropic(meter, u) ==
  LET grown(old, n) == IF n = Null THEN old ELSE IF Count(old) > n THEN old ELSE n
  IN  [meter EXCEPT !.input = grown(@, u.input_tokens), !.output = grown(@, u.output_tokens)]

\* OpenAI's prompt and completion, by either name; the total it reports, or
\* else their sum.
prompt(u)     == Or(u.prompt_tokens, u.input_tokens)
completion(u) == Or(u.completion_tokens, u.output_tokens)

observeOpenai(meter, u) ==
  [meter EXCEPT !.input = Or(prompt(u), @), !.output = Or(completion(u), @),
                !.total = IF u.total_tokens # Null THEN u.total_tokens
                          ELSE IF prompt(u) = Null /\ completion(u) = Null THEN @
                          ELSE Count(prompt(u)) + Count(completion(u))]

observe(dialect, meter, p) ==
  LET u == usageObject(p)
      stopped == [meter EXCEPT !.reason = Or(readFinishReason(p), @)]
      detailed == [stopped EXCEPT !.cached = Or(u.cache_read_input_tokens, Or(u.cached_tokens, @)),
                                  !.thinking = Or(u.reasoning_tokens, @)]
  IN  IF u = Null THEN stopped
      ELSE IF dialect = "anthropic" THEN observeAnthropic(detailed, u) ELSE observeOpenai(detailed, u)

units(dialect, meter) ==
  IF dialect # "anthropic" THEN meter.total
  ELSE IF meter.input = Null /\ meter.output = Null THEN Null
  ELSE Count(meter.input) + Count(meter.output)

(***************************************************************************)
(* The stream.  The state is the buffer, and the meter as read so far.     *)
(***************************************************************************)
\* The complete lines of a text, and what follows the last line break.
readSymbol(text, c) ==
  IF c = NewLine THEN [lines |-> Append(text.lines, text.rest), rest |-> <<>>]
  ELSE [text EXCEPT !.rest = Append(@, c)]

Split(text) == FoldLeft(readSymbol, [lines |-> <<>>, rest |-> <<>>], text)

\* A buffer that grows too long keeps its end.
Kept(text) ==
  IF Len(text) > MaxBuffered THEN SubSeq(text, Len(text) - MaxBuffered + 1, Len(text)) ELSE text

\* The payloads a line carries: none when it is no event, or too long.
Events(line) == {e \in DOMAIN Text : Text[e] = line /\ Len(line) <= MaxEvent}

observeLine(dialect, meter, line) ==
  IF Events(line) = {} THEN meter
  ELSE observe(dialect, meter, CHOOSE e \in Events(line) : TRUE)

observeSseChunk(dialect, state, chunk) ==
  LET text == Split(state.buffer \o chunk)
  IN  [buffer |-> Kept(text.rest),
       meter |-> FoldLeft(LAMBDA m, line : observeLine(dialect, m, line), state.meter, text.lines)]

\* The meter after a stream that came in these chunks, or after these payloads.
Metered(dialect, chunks) ==
  FoldLeft(LAMBDA s, chunk : observeSseChunk(dialect, s, chunk),
           [buffer |-> <<>>, meter |-> Unread], chunks).meter

Observed(dialect, payloads) ==
  FoldLeft(LAMBDA m, p : observe(dialect, m, p), Unread, payloads)

-----------------------------------------------------------------------------
(***************************************************************************)
(* What the meter promises.                                                *)
(***************************************************************************)
\* No line of a text, complete or not, outgrows the buffer.
Fits(text) == \A n \in 0 .. Len(text) : Len(Split(SubSeq(text, 1, n)).rest) <= MaxBuffered

\* How the network cuts a stream changes nothing of what is charged or
\* recorded, as long as no line outgrows the buffer: read whole, or in two
\* chunks cut anywhere, or symbol by symbol.
ChunksDoNotMatter(dialect, stream) ==
  LET whole == Metered(dialect, <<stream>>)
  IN  Fits(stream) =>
      /\ Metered(dialect, [i \in DOMAIN stream |-> <<stream[i]>>]) = whole
      /\ \A cut \in 0 .. Len(stream) :
           Metered(dialect, <<SubSeq(stream, 1, cut), SubSeq(stream, cut + 1, Len(stream))>>) = whole

\* A line longer than an event may be, however it is cut, leaves what other
\* lines reported.
LongLineIsSkipped(dialect, before, long) ==
  Len(long) > MaxEvent =>
    Metered(dialect, <<before, long, <<NewLine>>>>) = Metered(dialect, <<before>>)

\* The payloads that report a usage u with A(u).
Reporting(payloads, A(_)) ==
  {i \in DOMAIN payloads : usageObject(payloads[i]) # Null /\ A(usageObject(payloads[i]))}

\* OpenAI: the charge is the last usage's that counts anything, its total if it
\* has one.  Nothing reported, nothing charged: the estimate stands.
LastWordIsCharged(payloads) ==
  LET counting == Reporting(payloads, LAMBDA u : <<prompt(u), completion(u), u.total_tokens>>
                                                   # <<Null, Null, Null>>)
      last == usageObject(payloads[CHOOSE i \in counting : \A j \in counting : j <= i])
      charge == units("openai", Observed("openai", payloads))
  IN  IF counting = {} THEN charge = Null
      ELSE charge = IF last.total_tokens # Null THEN last.total_tokens
                    ELSE Count(prompt(last)) + Count(completion(last))

\* Anthropic: the charge is the largest input and the largest output reported,
\* in whichever order and however often: no late event lowers a charge.
LargestPartsAreCharged(payloads) ==
  LET inputs  == {usageObject(payloads[i]).input_tokens :
                    i \in Reporting(payloads, LAMBDA u : u.input_tokens # Null)}
      outputs == {usageObject(payloads[i]).output_tokens :
                    i \in Reporting(payloads, LAMBDA u : u.output_tokens # Null)}
  IN  units("anthropic", Observed("anthropic", payloads)) =
        IF inputs \cup outputs = {} THEN Null ELSE Max(inputs \cup {0}) + Max(outputs \cup {0})
=============================================================================
