------------------------ MODULE PermissionPreflight ------------------------
(***************************************************************************)
(* The permissions Preflight check (unnamed/part_001 22-136): its          *)
(* lifecycle (NewPreflight, SetEnabled, SetConfig) and Run, which builds   *)
(* the configured PermissionValidator afresh, walks the change graph in    *)
(* order, checks "delete" for a delete and "create" then "update" for an   *)
(* upsert, keeps every failure and joins them at the end.                  *)
(*                                                                         *)
(* Each check goes through the BasicValidator (resource_filter_flags.go    *)
(* 117-131): a RESTMapping lookup, then one ValidatePermissions call of    *)
(* the validator, taken from PermissionValidators.  The Role and Binding   *)
(* validators the composite dispatches RBAC kinds to are not in the       *)
(* source; the change graphs here hold no RBAC objects.                    *)
(***************************************************************************)
EXTENDS Naturals, Sequences, FiniteSets

CONSTANTS
  Namespaces, NoNamespace, AllNamespaces, Resources, ClusterScoped, Verbs,
  Star, GrantWorlds, MaxCalls, DefaultNs,
  ChangeGraphs,   \* the change graphs Run may be given: sequences of [op, resource, ns]
  Unmapped,       \* resources the RESTMapper cannot map (a CR whose CRD is not yet served)
  ConfigInputs,   \* permissionValidatorResource values a CheckConfig may carry
  MaxRuns         \* bound on the number of Run calls

ASSUME Unmapped \subseteq Resources

SSAR == "SelfSubjectAccessReview"
SSRR == "SelfSubjectRulesReview"

VARIABLES
  enabled,        \* p.enabled
  config,         \* p.config.PermissionValidatorResource
  accepted,       \* history: the strategy the last accepted SetConfig asked for
  runs,           \* number of Run calls made
  phase,          \* "idle", "running" (inside Run) or "done"
  graph,          \* changeGraph.All() of the current Run
  ci,             \* index of the change being checked (0 before the first)
  todo,           \* the verbs still to check for change ci
  errorSet,       \* errorSet: the failed checks, as [change, verb]
  result,         \* what the last Run returned: "ok", "error" (joined) or "depsError"
  strategy, grants, calls, last, cache, reviews   \* the validator Run built

vvars == <<strategy, grants, calls, last, cache, reviews>>
vars == <<enabled, config, accepted, runs, phase, graph, ci, todo, errorSet, result, vvars>>

V == INSTANCE PermissionValidators WITH Strategies <- {SSAR, SSRR}

\* mutant: an upsert is checked for "create" only
UpsertCreateOnly(op) ==
  CASE op = "delete" -> <<"delete">>
    [] op = "upsert" -> <<"create">>
    [] OTHER         -> <<>>

\* the verbs Run checks for a change; the switch has no other case (111-128)
VerbsOf(op) ==
  CASE op = "delete" -> <<"delete">>
    [] op = "upsert" -> <<"create", "update">>
    [] OTHER         -> <<>>

\* the ResourceAttributes the BasicValidator asks about
Request(c, verb) == [ns |-> c.ns, resource |-> c.resource, verb |-> verb]

\* the operations a graph asks for, by the spec's rule: Delete needs
\* "delete", Upsert needs "create" and "update"
RequiredVerbs(op) == IF op = "delete" THEN {"delete"} ELSE {"create", "update"}

Checks(g) == UNION { { [change |-> i, verb |-> v] : v \in RequiredVerbs(g[i].op) } : i \in DOMAIN g }

-----------------------------------------------------------------------------

\* NewPreflight (37-45): the config defaults to SelfSubjectAccessReview
Init ==
  /\ enabled \in BOOLEAN
  /\ config = SSAR
  /\ accepted = SSAR
  /\ runs = 0
  /\ phase = "idle"
  /\ graph = <<>>
  /\ ci = 0
  /\ todo = <<>>
  /\ errorSet = {}
  /\ result = "ok"
  /\ strategy = SSAR
  /\ grants \in GrantWorlds
  /\ calls = 0
  /\ last = V!Oracle!NoCheck
  /\ cache = <<>>
  /\ reviews = [n \in Namespaces |-> 0]

\* SetEnabled (51-53)
SetEnabled(b) ==
  /\ phase # "running"
  /\ enabled' = b
  /\ UNCHANGED <<config, accepted, runs, phase, graph, ci, todo, errorSet, result, vvars>>

(***************************************************************************)
(* SetConfig (55-77): a known strategy is valid, "" defaults to            *)
(* SelfSubjectAccessReview, anything else is an error.  The validated      *)
(* pCfg is a local that is never assigned to p.config, so a valid call     *)
(* changes nothing but what the caller was told it accepted.              *)
(***************************************************************************)
SetConfig(c) ==
  /\ phase # "running"
  /\ accepted' = CASE c \in {SSAR, SSRR} -> c
                   [] c = ""             -> SSAR
                   [] OTHER              -> accepted
  /\ UNCHANGED <<enabled, config, runs, phase, graph, ci, todo, errorSet, result, vvars>>

\* mutant: errorSet is not reset when a new Run starts
FreshKeepsErrors(g) ==
  /\ runs < MaxRuns
  /\ runs' = runs + 1
  /\ graph' = g
  /\ ci' = 0
  /\ todo' = <<>>
  /\ UNCHANGED errorSet
  /\ strategy' = config
  /\ calls' = 0
  /\ last' = V!Oracle!NoCheck
  /\ cache' = <<>>
  /\ reviews' = [n \in Namespaces |-> 0]

\* the fresh run state: a new validator of the configured kind (90-96)
Fresh(g) ==
  /\ runs < MaxRuns
  /\ runs' = runs + 1
  /\ graph' = g
  /\ ci' = 0
  /\ todo' = <<>>
  /\ errorSet' = {}
  /\ strategy' = config
  /\ calls' = 0
  /\ last' = V!Oracle!NoCheck
  /\ cache' = <<>>
  /\ reviews' = [n \in Namespaces |-> 0]

\* CoreClient or RESTMapper fails: Run returns that error and checks nothing (80-88)
RunDepsFailed(g) ==
  /\ phase # "running"
  /\ Fresh(g)
  /\ phase' = "done"
  /\ result' = "depsError"
  /\ UNCHANGED <<enabled, config, accepted, grants>>

\* Run starts on graph g (79-110)
RunStart(g) ==
  /\ phase # "running"
  /\ Fresh(g)
  /\ phase' = "running"
  /\ UNCHANGED <<enabled, config, accepted, result, grants>>

\* the range loop moves to the next change (110-111)
NextChange ==
  /\ phase = "running" /\ todo = <<>> /\ ci < Len(graph)
  /\ ci' = ci + 1
  /\ todo' = VerbsOf(graph[ci + 1].op)
  /\ UNCHANGED <<enabled, config, accepted, runs, phase, graph, errorSet, result, vvars>>

\* mutant: a failure replaces errorSet instead of being appended to it
RecordLastOnly(failed) ==
  errorSet' = IF failed THEN {[change |-> ci, verb |-> Head(todo)]} ELSE errorSet

\* a failed check is appended to errorSet, and the loop goes on (113-127)
Record(failed) ==
  errorSet' = IF failed THEN errorSet \cup {[change |-> ci, verb |-> Head(todo)]} ELSE errorSet

\* BasicValidator.Validate: RESTMapping fails and its error is returned (118-121)
MappingFailed ==
  /\ phase = "running" /\ todo # <<>>
  /\ graph[ci].resource \in Unmapped
  /\ Record(TRUE)
  /\ todo' = Tail(todo)
  /\ UNCHANGED <<enabled, config, accepted, runs, phase, graph, ci, result, vvars>>

\* BasicValidator.Validate: the mapped request goes to ValidatePermissions (123-130)
CheckVerb ==
  /\ phase = "running" /\ todo # <<>>
  /\ graph[ci].resource \notin Unmapped
  /\ V!ValidatePermissions(Request(graph[ci], Head(todo)))
  /\ Record(last'.outcome # "allowed")
  /\ todo' = Tail(todo)
  /\ UNCHANGED <<enabled, config, accepted, runs, phase, graph, ci, result>>

\* errors.Join of errorSet, or nil (131-135)
Finish ==
  /\ phase = "running" /\ todo = <<>> /\ ci = Len(graph)
  /\ phase' = "done"
  /\ result' = IF errorSet = {} THEN "ok" ELSE "error"
  /\ UNCHANGED <<enabled, config, accepted, runs, graph, ci, todo, errorSet, vvars>>

\* the caller has made all the Run calls the bound allows
RunsExhausted == runs = MaxRuns /\ phase # "running" /\ UNCHANGED vars

Next ==
  \/ \E b \in BOOLEAN : SetEnabled(b)
  \/ \E c \in ConfigInputs : SetConfig(c)
  \/ \E g \in ChangeGraphs : RunDepsFailed(g) \/ RunStart(g)
  \/ NextChange
  \/ MappingFailed
  \/ CheckVerb
  \/ Finish
  \/ RunsExhausted

Spec == Init /\ [][Next]_vars

-----------------------------------------------------------------------------

TypeOK ==
  /\ enabled \in BOOLEAN
  /\ config \in {SSAR, SSRR} /\ accepted \in {SSAR, SSRR}
  /\ runs \in 0..MaxRuns
  /\ phase \in {"idle", "running", "done"}
  /\ graph \in ChangeGraphs \cup {<<>>}
  /\ ci \in 0..Len(graph)
  /\ errorSet \subseteq Checks(graph)
  /\ result \in {"ok", "error", "depsError"}

\* the check of change i for verb v asks about something the caller may do
Permitted(i, v) == V!Authorized(Request(graph[i], v))

(***************************************************************************)
(* Run returns nil only if the caller may perform every operation of the   *)
(* graph: each verb of each change, create and update of an upsert alike,  *)
(* is authorized by the caller's grants.                                   *)
(***************************************************************************)
PreflightSound ==
  phase = "done" /\ result = "ok" => \A c \in Checks(graph) : Permitted(c.change, c.verb)

(***************************************************************************)
(* A Run that got to its checks reports every operation the caller may not *)
(* perform, not only the first or the last: the joined error names each   *)
(* unauthorized change and verb of the graph.                              *)
(***************************************************************************)
EveryUnauthorizedCheckReported ==
  phase = "done" /\ result # "depsError" =>
    \A c \in Checks(graph) : ~Permitted(c.change, c.verb) => c \in errorSet

(***************************************************************************)
(* The strategy a Run validates with is the one the last accepted          *)
(* SetConfig selected (SetConfig's contract: it "adapts" the configuration *)
(* into the engine's typed configuration).                                 *)
(***************************************************************************)
ConfiguredStrategyUsed == phase = "running" => strategy = accepted

=============================================================================
