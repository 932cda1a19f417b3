---------------------------- MODULE MCInspectCmd ----------------------------
(***************************************************************************)
(* Model-checking instance of InspectCmd.  The clock starts at one hour    *)
(* and moves by a minute; resources were created an hour, a minute and no  *)
(* time before.  The --filter-age values cover each branch of Times and    *)
(* ParseDuration: both suffixes, no suffix, a bare suffix, the special     *)
(* "0", a negative and a compound duration, a unit without digits and an   *)
(* unknown unit.                                                           *)
(***************************************************************************)
EXTENDS InspectCmd, TLC

CONSTANTS Pod, Svc

\* a string as its sequence of one-character strings
Chars(str) == [i \in 1..Len(str) |-> SubSeq(str, i, i)]

MCAges == { Chars(a) : a \in {"1h+", "1h-", "1m-", "0+", "-1m+", "1h", "+", "1x-", "h-", "1h1m-", "60m+"} }

MCClusterResources == [kind: {Pod, Svc}, created: {0, 3540, 3600}]

MCKindSets == {{Pod}}

\* a --filter that parses and excludes Svc, and one that does not parse
MCBoolFilters ==
  { [given |-> TRUE, valid |-> TRUE, notKinds |-> {Svc}],
    [given |-> TRUE, valid |-> FALSE, notKinds |-> {}] }

=============================================================================
