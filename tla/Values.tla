------------------------------- MODULE Values -------------------------------
(* The conversion of Python values into what a FAME object holds (`to_fame`)  *)
(* and back (`from_fame`), bridge/_values.py, under the policies for missing  *)
(* observations, empty series and text.                                       *)
(*                                                                            *)
(* A value has a form (its Python type) and observations; a scalar has one.   *)
(* An observation is "value", or "none" (NaN, None), or "inexact" (an integer *)
(* that float64 does not hold); of text it says the characters ("ascii",      *)
(* "wide" for what only UTF-8 encodes, "binary" for no text), of bytes too.   *)
(*                                                                            *)
(* A definition marked "Mutant" is not part of the model: it is the next one  *)
(* with a plausible bug, and shows that a property can fail.                  *)
EXTENDS Naturals, Sequences, SequencesExt

\* The kind of each form, what `_prepare` recognizes it as.
KindOf == [float |-> "precision", float32 |-> "numeric", int |-> "precision",
           bool |-> "boolean", MIT |-> "date", str |-> "string", bytes |-> "string",
           Text |-> "string", braces |-> "namelist", NameList |-> "namelist",
           floatSeries |-> "precision", float32Series |-> "numeric",
           intSeries |-> "precision", boolSeries |-> "boolean", DateSeries |-> "date",
           StringSeries |-> "string", list |-> "string"]

SeriesForms == {"floatSeries", "float32Series", "intSeries", "boolSeries", "DateSeries",
                "StringSeries", "list"}

\* What a value of each form consists of.
Characters == {"ascii", "wide"}
Octets == {"b.ascii", "b.wide", "b.binary"}
Observations == [float |-> {"value", "none"}, float32 |-> {"value", "none"},
                 int |-> {"value", "inexact"}, bool |-> {"value"}, MIT |-> {"value"},
                 str |-> Characters, bytes |-> Octets, Text |-> Characters,
                 braces |-> {"value"}, NameList |-> {"value"},
                 floatSeries |-> {"value", "none"}, float32Series |-> {"value", "none"},
                 intSeries |-> {"value", "inexact"}, boolSeries |-> {"value"},
                 DateSeries |-> {"value", "none"},
                 StringSeries |-> Characters \cup Octets \cup {"none"},
                 list |-> Characters \cup Octets]

Value(form, first, obs) == [form |-> form, first |-> first, obs |-> obs]
Error(error) == [form |-> "error", first |-> 0, obs |-> <<error>>]
IsError(v) == "form" \in DOMAIN v /\ v.form = "error"
Bytes == [ascii |-> "b.ascii", wide |-> "b.wide", binary |-> "b.binary"]
Stored(o) == IF \E c \in DOMAIN Bytes : Bytes[c] = o
               THEN CHOOSE c \in DOMAIN Bytes : Bytes[c] = o ELSE o

Policies == [missing : {"nan", "strict"}, empty : {"preserve", "reference"},
             text : {"ascii", "bytes", "utf-8"}]

\* What the library holds: class, kind, first index or NC, and observations, of
\* which NC, NA and ND are missing.
NoFirst == 0
Raw(class, kind, first, obs) == [class |-> class, kind |-> kind, first |-> first, obs |-> obs]
Missing == {"NC", "NA", "ND"}
IsMissing(raw) == \E i \in DOMAIN raw.obs : raw.obs[i] \in Missing

\* What objects consist of.  A scalar of dates or text that is missing is read as
\* None, which is no value of any form; name lists have no missing ones.
Kinds == {"precision", "numeric", "boolean", "date", "string"}
Held(class, kind) ==
  (IF kind = "string" THEN {"ascii", "wide", "binary"} ELSE {"value"})
  \cup (IF class = "scalar" /\ kind \in {"date", "string", "namelist"} THEN {} ELSE Missing)

IsValue(v) ==
  /\ v = Value(v.form, v.first, v.obs)
  /\ v.form \in DOMAIN KindOf
  /\ v.obs \in Seq(Observations[v.form])
  /\ v.form \notin SeriesForms => Len(v.obs) = 1 /\ v.first = NoFirst
IsRaw(raw) ==
  /\ raw = Raw(raw.class, raw.kind, raw.first, raw.obs)
  /\ raw.class \in {"scalar", "series"}
  /\ raw.kind \in Kinds \/ (raw.class = "scalar" /\ raw.kind = "namelist")
  /\ raw.obs \in Seq(Held(raw.class, raw.kind))
  /\ raw.class = "scalar" => Len(raw.obs) = 1 /\ raw.first = NoFirst

\* `encode_value`: text in the encoding of the policy, bytes as they are.
Encodable(o, text) ==
  CASE o = "wide"   -> text = "utf-8"
    [] o = "binary" -> FALSE
    [] OTHER        -> TRUE

\* `_prepare` refuses a value before anything native.
Prepared(v, policy) ==
  \A i \in DOMAIN v.obs : v.obs[i] # "inexact" /\ Encodable(v.obs[i], policy.text)

\* Mutant: missing observations are left as plain NaN, as the reference's scalars are.
MutEncoded(obs) == [i \in DOMAIN obs |-> IF obs[i] = "none" THEN "value" ELSE Stored(obs[i])]

\* Missing observations become NC.
Encoded(obs) == [i \in DOMAIN obs |-> IF obs[i] = "none" THEN "NC" ELSE Stored(obs[i])]

\* `to_fame`.  An empty series is one NA observation under the reference's policy,
\* unless it holds strings.
ToFame(v, policy) ==
  LET kind == KindOf[v.form]
      marked == policy.empty = "reference" /\ kind # "string"
  IN IF ~Prepared(v, policy) THEN Error("data")
     ELSE IF v.form \notin SeriesForms THEN Raw("scalar", kind, NoFirst, Encoded(v.obs))
     ELSE IF v.obs # <<>> THEN Raw("series", kind, v.first, Encoded(v.obs))
     ELSE IF marked THEN Raw("series", kind, v.first, <<"NA">>)
     ELSE Raw("series", kind, NoFirst, <<>>)

\* `decode_value`, strictly in the encoding of the policy.
Decodable(o, text) ==
  CASE o = "wide"   -> text # "ascii"
    [] o = "binary" -> text = "bytes"
    [] OTHER        -> TRUE

\* Missing observations are classified before anything is decoded.
Decoded(obs, text) ==
  [i \in DOMAIN obs |->
     IF obs[i] \in Missing THEN "none"
     ELSE IF text = "bytes" /\ obs[i] \in DOMAIN Bytes THEN Bytes[obs[i]] ELSE obs[i]]

\* The Python type each kind is read as.
ScalarForm(kind, text) ==
  CASE kind = "precision" -> "float"
    [] kind = "numeric"   -> "float32"
    [] kind = "boolean"   -> "bool"
    [] kind = "date"      -> "MIT"
    [] kind = "namelist"  -> "NameList"
    [] kind = "string"    -> IF text = "bytes" THEN "bytes" ELSE "str"
SeriesForm(kind) ==
  CASE kind = "precision" -> "floatSeries"
    [] kind = "numeric"   -> "float32Series"
    [] kind = "boolean"   -> "boolSeries"
    [] kind = "date"      -> "DateSeries"
    [] kind = "string"    -> "StringSeries"

\* The refusals that `_scalar_from_fame` and `_series_from_fame` share.
Refusal(raw, policy) ==
  IF IsMissing(raw) /\ (policy.missing = "strict" \/ raw.kind = "boolean") THEN "missing"
  ELSE IF \E i \in DOMAIN raw.obs : ~Decodable(raw.obs[i], policy.text) THEN "text"
  ELSE "none"

\* `_scalar_from_fame`
FromScalar(raw, policy) ==
  IF Refusal(raw, policy) # "none" THEN Error(Refusal(raw, policy))
  ELSE Value(ScalarForm(raw.kind, policy.text), 0, Decoded(raw.obs, policy.text))

\* Mutant: strict missing values are refused before a marker is looked for.
MutFromSeries(raw, policy, firstdate) ==
  LET form == SeriesForm(raw.kind)
      marker == /\ policy.empty = "reference" /\ raw.kind # "string"
                /\ Len(raw.obs) = 1 /\ IsMissing(raw)
  IN IF raw.obs = <<>> THEN IF firstdate = NoFirst THEN Error("empty")
                                                   ELSE Value(form, firstdate, <<>>)
     ELSE IF Refusal(raw, policy) # "none" THEN Error(Refusal(raw, policy))
     ELSE IF marker THEN Value(form, raw.first, <<>>)
     ELSE Value(form, raw.first, Decoded(raw.obs, policy.text))

\* `_series_from_fame`.  An empty series has no first date but the caller's; under
\* the reference's policy one missing observation is an empty series, whatever the
\* policy for missing ones.
FromSeries(raw, policy, firstdate) ==
  LET form == SeriesForm(raw.kind)
      marker == /\ policy.empty = "reference" /\ raw.kind # "string"
                /\ Len(raw.obs) = 1 /\ IsMissing(raw)
  IN IF raw.obs = <<>> THEN IF firstdate = NoFirst THEN Error("empty")
                                                   ELSE Value(form, firstdate, <<>>)
     ELSE IF marker THEN Value(form, raw.first, <<>>)
     ELSE IF Refusal(raw, policy) # "none" THEN Error(Refusal(raw, policy))
     ELSE Value(form, raw.first, Decoded(raw.obs, policy.text))

\* `from_fame`
FromFame(raw, policy, firstdate) ==
  IF raw.class = "scalar" THEN FromScalar(raw, policy)
                          ELSE FromSeries(raw, policy, firstdate)
=============================================================================
