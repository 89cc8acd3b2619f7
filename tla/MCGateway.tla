------------------------------ MODULE MCGateway ------------------------------
(***************************************************************************)
(* Instances of Gateway for TLC.  What an answer actually used is read by  *)
(* the UsageMeter, checked here over all short streams.                    *)
(***************************************************************************)
EXTENDS Gateway, Sequences, TLC

CONSTANTS r1, r2, r3, t1, t2, k1, p1, bSmall, bLarge

MCEstimate == (bSmall :> 1) @@ (bLarge :> 2)
MCBudget == [t \in Tenants |-> 3]
MCSlotLimit2 == [t \in Tenants |-> 2]

Asks(t, k, b, s) == [tenant |-> t, key |-> k, body |-> b, stream |-> s]

\* One tenant and one key: the same body, another body, and a keyed stream.
MCKeyedCalls ==
  {Asks(t1, k1, bSmall, FALSE), Asks(t1, k1, bLarge, FALSE), Asks(t1, k1, bSmall, TRUE)}

\* Two tenants compete with streams and an unkeyed request.
MCStreamCalls ==
  {Asks(t1, NoKey, bLarge, TRUE), Asks(t1, NoKey, bSmall, FALSE), Asks(t2, NoKey, bSmall, TRUE)}

MCLiveCalls == {Asks(t1, NoKey, bLarge, TRUE), Asks(t1, k1, bSmall, FALSE)}

Symmetry == Permutations(Requests)

(***************************************************************************)
(* The meter: two events of two symbols; a longer line is no event.        *)
(***************************************************************************)
None == NoKey  \* no number

\* A payload that counts input i, output o and total t, at its top level or in
\* Anthropic's envelope.
Counts(i, o, t) ==
  [input_tokens |-> i, output_tokens |-> o, total_tokens |-> t, prompt_tokens |-> None,
   completion_tokens |-> None, cached_tokens |-> None, cache_read_input_tokens |-> None,
   reasoning_tokens |-> None]
Payload(top, nested) ==
  [usage |-> top, message |-> nested, choice |-> None, delta |-> None, stop |-> None, status |-> None]

First  == Payload(None, Counts(1, None, None))
Second == Payload(Counts(None, 2, None), None)

Meter == INSTANCE UsageMeter WITH
  Null <- None, NewLine <- "\n", MaxBuffered <- 4, MaxEvent <- 2,
  Text <- (First :> <<"a", "b">>) @@ (Second :> <<"b", "c">>)

Dialects == {"openai", "anthropic"}
Streams(n) == UNION {[1 .. k -> {"a", "b", "c", "\n"}] : k \in 0 .. n}
Payloads ==
  {Payload(Counts(i, o, t), None) : i \in {None, 0, 2}, o \in {None, 1}, t \in {None, 3}}
    \cup {Payload(None, Counts(1, None, None)), Payload(None, None)}

\* Every stream of up to five symbols; a line of five outgrows the buffer.
ASSUME MeterReadsAnyChunks ==
  \A d \in Dialects, s \in Streams(5) : Meter!ChunksDoNotMatter(d, s)

ASSUME MeterSkipsLongLines ==
  \A d \in Dialects, long \in [1 .. 6 -> {"a", "b", "c"}] :
    Meter!LongLineIsSkipped(d, <<"a", "b", "\n">>, long)

ASSUME MeterCharges ==
  \A k \in 0 .. 3 : \A payloads \in [1 .. k -> Payloads] :
    Meter!LastWordIsCharged(payloads) /\ Meter!LargestPartsAreCharged(payloads)
=============================================================================
