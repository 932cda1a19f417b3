------------------------- MODULE ResourceFilterFlags -------------------------
(***************************************************************************)
(* ResourceFilterFlags (resource_filter_flags.go 14-85): the --filter-*    *)
(* flags, turned by ResourceFilter into a ctlres.ResourceFilter.           *)
(*                                                                         *)
(* The --filter-age string is a sequence of characters; a character is a   *)
(* one-letter string.  Times looks at its last character and parses the   *)
(* rest with time.ParseDuration, modelled here for strings of digits, the *)
(* unit letters "m" and "h", signs and other letters (no "." fractions, no *)
(* sub-second units).  Times are whole seconds; a nil *time.Time is {}.    *)
(* The --filter JSON is external (NewBoolFilterFromString): a flag value   *)
(* records whether it was given, whether it parses, and the kinds the      *)
(* parsed filter excludes.                                                 *)
(***************************************************************************)
EXTENDS Integers, Sequences

\* the --filter flag as Set leaves it when it is not given
NoBoolFilter == [given |-> FALSE, valid |-> TRUE, notKinds |-> {}]

(***************************************************************************)
(* ResourceFilterFlags and Set (14-32): the values the flags can hold after *)
(* parsing a command line, given the ages, kind lists and --filter values   *)
(* a command line may carry; a flag left out keeps Set's default ("", nil, *)
(* "").                                                                    *)
(***************************************************************************)
FlagValues(ages, kindSets, boolFilters) ==
  [age: ages \cup {<<>>}, kinds: kindSets \cup {{}}, bf: boolFilters \cup {NoBoolFilter}]

DigitChars == <<"0", "1", "2", "3", "4", "5", "6", "7", "8", "9">>

\* the value of a digit character
Digit == [c \in {DigitChars[i] : i \in 1..10} |-> (CHOOSE i \in 1..10 : DigitChars[i] = c) - 1]

\* seconds per unit of the units the inputs use (time.unitMap)
UnitSeconds == [u \in {"m", "h"} |-> IF u = "m" THEN 60 ELSE 3600]

Parsed(v) == [ok |-> TRUE, v |-> v]
ParseFailed == [ok |-> FALSE, v |-> 0]

(***************************************************************************)
(* The loop of time.ParseDuration over "[0-9]+unit" terms: n is the value  *)
(* of the digits read for the current term, seen whether there were any.   *)
(* A unit without digits, digits without a unit, or an unknown unit fail;  *)
(* two letters in a row form one unit name, which is unknown for these    *)
(* letters.                                                                *)
(***************************************************************************)
RECURSIVE Terms(_, _, _)
Terms(s, n, seen) ==
  CASE s = <<>>                                 -> IF seen THEN ParseFailed ELSE Parsed(0)
    [] Head(s) \in DOMAIN Digit                 -> Terms(Tail(s), 10 * n + Digit[Head(s)], TRUE)
    [] Head(s) \in DOMAIN UnitSeconds /\ seen    ->
         LET rest == Terms(Tail(s), 0, FALSE)
         IN IF rest.ok THEN Parsed(n * UnitSeconds[Head(s)] + rest.v) ELSE ParseFailed
    [] OTHER                                    -> ParseFailed

\* time.ParseDuration: optional sign, the special case "0", then one or more terms
ParseDuration(s) ==
  LET signed == s # <<>> /\ Head(s) \in {"+", "-"}
      body   == IF signed THEN Tail(s) ELSE s
      t      == Terms(body, 0, FALSE)
  IN CASE body = <<"0">>       -> Parsed(0)
       [] body = <<>>          -> ParseFailed
       [] ~t.ok                -> ParseFailed
       [] signed /\ Head(s) = "-" -> Parsed(-t.v)
       [] OTHER                -> Parsed(t.v)

TimesFailed == [err |-> TRUE, before |-> {}, after |-> {}]

\* mutant: the "+" suffix is taken for "younger than"
TimesSuffixSwapped(age, now) ==
  IF age = <<>> THEN [err |-> FALSE, before |-> {}, after |-> {}]
  ELSE LET lastIdx == Len(age)
           older   == age[lastIdx] = "-"
           ageStr  == IF age[lastIdx] \in {"+", "-"} THEN SubSeq(age, 1, lastIdx - 1) ELSE <<>>
           dur     == ParseDuration(ageStr)
       IN CASE ~dur.ok -> TimesFailed
            [] older   -> [err |-> FALSE, before |-> {now - dur.v}, after |-> {}]
            [] OTHER   -> [err |-> FALSE, before |-> {}, after |-> {now - dur.v}]

(***************************************************************************)
(* Times (56-85): an empty age sets no bound.  A trailing "+" means older  *)
(* than the duration (CreatedAtBeforeTime = now - dur), "-" younger        *)
(* (CreatedAtAfterTime); any other last character leaves ageStr empty,     *)
(* which ParseDuration rejects.                                            *)
(***************************************************************************)
Times(age, now) ==
  IF age = <<>> THEN [err |-> FALSE, before |-> {}, after |-> {}]
  ELSE LET lastIdx == Len(age)
           older   == age[lastIdx] = "+"
           ageStr  == IF age[lastIdx] \in {"+", "-"} THEN SubSeq(age, 1, lastIdx - 1) ELSE <<>>
           dur     == ParseDuration(ageStr)
       IN CASE ~dur.ok -> TimesFailed
            [] older   -> [err |-> FALSE, before |-> {now - dur.v}, after |-> {}]
            [] OTHER   -> [err |-> FALSE, before |-> {}, after |-> {now - dur.v}]

(***************************************************************************)
(* ResourceFilter (34-54): the times of Times, the flag filters copied     *)
(* from Rf, and the --filter bool filter when one was given and parses.   *)
(***************************************************************************)
ResourceFilter(flags, now) ==
  LET t == Times(flags.age, now) IN
  IF t.err \/ (flags.bf.given /\ ~flags.bf.valid)
  THEN [err |-> TRUE, kinds |-> {}, before |-> {}, after |-> {}, notKinds |-> {}]
  ELSE [err |-> FALSE, kinds |-> flags.kinds, before |-> t.before, after |-> t.after,
        notKinds |-> IF flags.bf.given THEN flags.bf.notKinds ELSE {}]

(***************************************************************************)
(* ctlres.ResourceFilter.Apply (pkg/kapp/resources, outside this tree):    *)
(* a resource is kept when its kind is listed (or no kind is), it was not *)
(* created before CreatedAtAfterTime nor after CreatedAtBeforeTime, and    *)
(* the bool filter does not exclude its kind.                              *)
(***************************************************************************)
Matches(rf, r) ==
  /\ rf.kinds = {} \/ r.kind \in rf.kinds
  /\ \A t \in rf.after : ~(r.created < t)
  /\ \A t \in rf.before : ~(r.created > t)
  /\ r.kind \notin rf.notKinds

Apply(rf, rs) == { r \in rs : Matches(rf, r) }

=============================================================================
