-------------------------- MODULE DataConversions --------------------------
(* The conversions of the bridge that concern the data of one object, each    *)
(* called once with an input: moments to years and periods and back, values   *)
(* to objects and back.                                                       *)
EXTENDS Calls, Calendar, Values

\* The inputs are what the functions may be called with.
ASSUME InputsAssumption ==
  \A i \in DOMAIN Inputs : \A x \in Inputs[i] :
    /\ x.about = "moment" => x.frequency \in Dated /\ IsMoment(x.frequency, x.moment)
    /\ x.about = "period" =>
         x.frequency \in Dated /\ IsYear(x.frequency, x.year) /\ x.period \in Int
    /\ x.about = "value" => IsValue(x.value) /\ x.policy \in Policies
    /\ x.about = "raw" => IsRaw(x.raw) /\ x.policy \in Policies

Dates   == Call("period", ToMoment(input.frequency, input.year, input.period))
Periods == Call("moment", ToYearPeriod(input.frequency, input.moment))
Writes  == Call("value", ToFame(input.value, input.policy))
Reads   == Call("raw", FromFame(input.raw, input.policy, NoFirst))

DataNext == Dates \/ Periods \/ Writes \/ Reads \/ Done
DataSpec == Init /\ [][DataNext]_vars

-----------------------------------------------------------------------------
(* Moments.                                                                   *)

\* The two conversions are inverse: a moment comes back from its year and period,
\* and a year and period are accepted only as those of a moment, never moved to
\* another one (year_period_to_mit, mit_to_year_period).
PeriodsInverse ==
  /\ After("moment") => ToMoment(input.frequency, output[1], output[2]) = <<input.moment>>
  /\ After("period") /\ output # Refused =>
       ToYearPeriod(input.frequency, output[1]) = <<input.year, input.period>>

-----------------------------------------------------------------------------
(* Values.                                                                    *)

\* The last column of the table of bridge/_values.py.
ReadAs == [float |-> "float", float32 |-> "float32", int |-> "float", bool |-> "bool",
           MIT |-> "MIT", str |-> "str", bytes |-> "str", Text |-> "str",
           braces |-> "NameList", NameList |-> "NameList",
           floatSeries |-> "floatSeries", float32Series |-> "float32Series",
           intSeries |-> "floatSeries", boolSeries |-> "boolSeries",
           DateSeries |-> "DateSeries", StringSeries |-> "StringSeries",
           list |-> "StringSeries"]

\* What a value is when it is written and read again.
Again(v, policy) ==
  LET form == ReadAs[v.form]
  IN Value(IF form = "str" /\ policy.text = "bytes" THEN "bytes" ELSE form, v.first,
             Decoded(Encoded(v.obs), policy.text))

\* Values for which the module's note announces something else: a first date that
\* is not stored, a missing observation taken for an empty series, one that is
\* refused, and bytes that are not text in the encoding of the policy.
Announced(v, policy) ==
  \/ v.obs = <<>> /\ (policy.empty = "preserve" \/ v.form \in {"StringSeries", "list"})
  \/ policy.empty = "reference" /\ v.obs = <<"none">> /\ v.form \in SeriesForms \ {"StringSeries"}
  \/ policy.missing = "strict" /\ "none" \in ToSet(v.obs)
  \/ \E i \in DOMAIN v.obs : ~Decodable(Stored(v.obs[i]), policy.text)

\* A value that can be written reads back as the table says, from the same
\* first date and with the same observations, but for what is announced.
ReadsAsTable ==
  After("value") /\ ~IsError(output) /\ ~Announced(input.value, input.policy) =>
    FromFame(output, input.policy, NoFirst) = Again(input.value, input.policy)

\* What was read is written back as the same object: of the same kind, from the
\* same first index, with the same observations except that the three kinds of
\* missing ones have become one, and no missing observation has become a value.
WritesBack ==
  After("raw") /\ ~IsError(output) =>
    LET back == ToFame(output, input.policy)
        Blur(obs) == [i \in DOMAIN obs |-> IF obs[i] \in Missing THEN "NC" ELSE obs[i]]
    IN [back EXCEPT !.obs = Blur(@)] = [input.raw EXCEPT !.obs = Blur(@)]
=============================================================================
