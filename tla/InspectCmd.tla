----------------------------- MODULE InspectCmd -----------------------------
(***************************************************************************)
(* kapp inspect (pkg/kapp/cmd/app/inspect.go): InspectOptions.Run lists    *)
(* the app's resources, filters them with the --filter-* flags             *)
(* (ResourceFilterFlags) and prints them as raw YAML, a status view, a     *)
(* tree or a table.                                                        *)
(*                                                                         *)
(* Every call to the cluster or the app record may fail, and Run returns   *)
(* at the first failure.  In raw mode a resource is printed as soon as it  *)
(* is converted, so a failure part way leaves some resources printed.      *)
(* The wall clock moves while Run works; Times reads it once.  A resource  *)
(* is its kind and creation time; printed output is the set of resources   *)
(* it shows (the views sort, so order is not observable).                  *)
(***************************************************************************)
EXTENDS Integers, Sequences, SequencesExt, ResourceFilterFlags

CONSTANTS
  ClusterResources, \* the app's resources: [kind, created]
  Ages,             \* --filter-age values a command line may give
  KindSets,         \* --filter-kind lists a command line may give
  BoolFilters,      \* --filter values a command line may give
  NowStart,         \* the wall clock when Run starts, in seconds
  TickStep,         \* how far the clock moves in one step
  MaxNow            \* bound on the clock

VARIABLES
  flags,        \* o.ResourceFilterFlags and o.Raw, o.Status, o.Tree
  pc,           \* the statement Run is at
  now,          \* time.Now()
  listed,       \* resources as listed by IdentifiedResources.List
  shown,        \* resources after resourceFilter.Apply
  toPrint,      \* raw mode: resources the loop has still to print
  printed,      \* resources printed so far
  view,         \* which output the switch chose
  result,       \* what Run returned: "none" yet, "ok" or "error"
  filteredAt    \* history: the clock the applied filter was built with, {} before

vars == <<flags, pc, now, listed, shown, toPrint, printed, view, result, filteredAt>>

\* the calls before the listing, in order: Factory, UsedGVs, LabelSelector, Meta (61-81)
SetupSteps == <<"factory", "usedGVs", "labelSelector", "meta">>

\* the statement after a setup call that succeeded
NextPc(p) ==
  LET i == CHOOSE i \in DOMAIN SetupSteps : SetupSteps[i] = p
  IN IF i = Len(SetupSteps) THEN "list" ELSE SetupSteps[i + 1]

Returned(r) == pc' = "done" /\ result' = r

\* NewInspectCmd (48-54): the filter flags with --raw, --status and --tree
CommandLines(filterFlags) ==
  { [age |-> f.age, kinds |-> f.kinds, bf |-> f.bf, raw |-> raw, status |-> status, tree |-> tree] :
      f \in filterFlags, raw \in BOOLEAN, status \in BOOLEAN, tree \in BOOLEAN }

FlagInputs == CommandLines(FlagValues(Ages, KindSets, BoolFilters))

-----------------------------------------------------------------------------

\* NewInspectCmd, ResourceFilterFlags.Set (inspect 34-56, flags 20-32): the parsed flags
Init ==
  /\ flags \in FlagInputs
  /\ pc = SetupSteps[1]
  /\ now = NowStart
  /\ listed = {}
  /\ shown = {}
  /\ toPrint = {}
  /\ printed = {}
  /\ view = "none"
  /\ result = "none"
  /\ filteredAt = {}

\* a setup call returns an error: Run returns it (62-64, 67-69, 74-76, 79-81)
SetupFailed ==
  /\ pc \in Range(SetupSteps)
  /\ Returned("error")
  /\ UNCHANGED <<flags, now, listed, shown, toPrint, printed, view, filteredAt>>

\* a setup call succeeds; MarkRequiredGVs only records the used GVs (61-81)
SetupDone ==
  /\ pc \in Range(SetupSteps)
  /\ pc' = NextPc(pc)
  /\ UNCHANGED <<flags, now, listed, shown, toPrint, printed, view, result, filteredAt>>

\* IdentifiedResources.List: the app's resources, or an error (83-87)
ListResources ==
  /\ pc = "list"
  /\ \/ /\ listed' = ClusterResources
        /\ pc' = "filter"
        /\ UNCHANGED result
     \/ /\ Returned("error")
        /\ UNCHANGED listed
  /\ UNCHANGED <<flags, now, shown, toPrint, printed, view, filteredAt>>

\* ResourceFilter (reading the clock in Times) and Apply (89-94)
FilterResources ==
  LET rf == ResourceFilter(flags, now) IN
  /\ pc = "filter"
  /\ IF rf.err
     THEN Returned("error") /\ UNCHANGED <<shown, filteredAt>>
     ELSE /\ shown' = Apply(rf, listed) /\ pc' = "output" /\ UNCHANGED result
          /\ filteredAt' = {now}
  /\ UNCHANGED <<flags, now, listed, toPrint, printed, view>>

\* mutant: the raw loop ranges over the resources as listed, not as filtered
OutputRawUnfiltered ==
  /\ pc = "output"
  /\ view' = CASE flags.raw    -> "raw"
               [] flags.status -> "status"
               [] flags.tree   -> "tree"
               [] OTHER        -> "table"
  /\ IF flags.raw
     THEN pc' = "raw" /\ toPrint' = listed /\ UNCHANGED <<printed, result>>
     ELSE Returned("ok") /\ printed' = shown /\ UNCHANGED toPrint
  /\ UNCHANGED <<flags, now, listed, shown, filteredAt>>

\* the output switch: raw starts the print loop, the views print everything (97-126)
Output ==
  /\ pc = "output"
  /\ view' = CASE flags.raw    -> "raw"
               [] flags.status -> "status"
               [] flags.tree   -> "tree"
               [] OTHER        -> "table"
  /\ IF flags.raw
     THEN pc' = "raw" /\ toPrint' = shown /\ UNCHANGED <<printed, result>>
     ELSE Returned("ok") /\ printed' = shown /\ UNCHANGED toPrint
  /\ UNCHANGED <<flags, now, listed, shown, filteredAt>>

\* the raw loop is over (115, 128)
RawLoopDone ==
  /\ pc = "raw" /\ toPrint = {}
  /\ Returned("ok")
  /\ UNCHANGED <<flags, now, listed, shown, toPrint, printed, view, filteredAt>>

\* one resource, without history and managed fields, printed as a YAML block (99-114)
RawPrint ==
  /\ pc = "raw"
  /\ \E r \in toPrint :
       /\ printed' = printed \cup {r}
       /\ toPrint' = toPrint \ {r}
  /\ UNCHANGED <<flags, pc, now, listed, shown, view, result, filteredAt>>

\* NewResourceWithoutHistory, NewResourceWithManagedFields or AsYAMLBytes fails:
\* Run returns, the blocks printed so far stay printed (100-112)
RawConvertFailed ==
  /\ pc = "raw" /\ toPrint # {}
  /\ Returned("error")
  /\ UNCHANGED <<flags, now, listed, shown, toPrint, printed, view, filteredAt>>

\* the wall clock moves on while Run works
Tick ==
  /\ pc # "done" /\ now + TickStep <= MaxNow
  /\ now' = now + TickStep
  /\ UNCHANGED <<flags, pc, listed, shown, toPrint, printed, view, result, filteredAt>>

Next ==
  \/ SetupFailed \/ SetupDone
  \/ ListResources
  \/ FilterResources
  \/ Output
  \/ RawPrint \/ RawConvertFailed \/ RawLoopDone
  \/ Tick

Spec == Init /\ [][Next]_vars

-----------------------------------------------------------------------------

TypeOK ==
  /\ pc \in Range(SetupSteps) \cup {"list", "filter", "output", "raw", "done"}
  /\ now \in NowStart..MaxNow
  /\ listed \subseteq ClusterResources
  /\ shown \subseteq listed /\ toPrint \subseteq shown
  /\ view \in {"none", "raw", "status", "tree", "table"}
  /\ result \in {"none", "ok", "error"}

(***************************************************************************)
(* The reference for the age filter is the --filter-age help text ("5m-,  *)
(* 500h+"): "D+" keeps resources at least D old, "D-" those at most D old, *)
(* an age being the time from creation to the clock the filter was built   *)
(* with.                                                                   *)
(***************************************************************************)
AgeWanted(age, r, t) ==
  age = <<>> \/
    LET d == ParseDuration(SubSeq(age, 1, Len(age) - 1)).v
    IN IF age[Len(age)] = "+" THEN t - r.created >= d ELSE t - r.created <= d

\* the flags ask for r: its kind is listed, the --filter JSON keeps it, and its age fits
Wanted(r) ==
  /\ flags.kinds = {} \/ r.kind \in flags.kinds
  /\ ~flags.bf.given \/ r.kind \notin flags.bf.notKinds
  /\ \A t \in filteredAt : AgeWanted(flags.age, r, t)

(***************************************************************************)
(* Whatever Run has printed, even when it later fails part way through the *)
(* raw loop, is a resource the flags ask for.                              *)
(***************************************************************************)
PrintedOnlyWanted == \A r \in printed : Wanted(r)

=============================================================================
