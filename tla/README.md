# TLA+ models of kapp's preflight checks and `inspect`

This directory models parts of kapp as they appear in the source under
`src/`, and checks them with TLC:

- the **CRD upgrade-safety check** (`crdupgradesafety`, the implementation half of
  `src/pkg/kapp/crdupgradesafety/change_validator_test.go`, lines 432-689);
- the **permissions preflight** (`permissions`, `src/unnamed/part_001` and the
  `BasicValidator` in `src/pkg/kapp/cmd/tools/resource_filter_flags.go` 86-131);
- the **`kapp inspect` command** (`src/pkg/kapp/cmd/app/inspect.go`) and the
  **resource filter flags** it uses (`resource_filter_flags.go` 14-85).

## The system and how its parts interact

| Part | Source | What it does |
|---|---|---|
| FlattenSchema | change_validator_test.go 646-659 | walks a schema (Properties and Items) into a map from path to a deep copy of the node |
| CalculateFlatSchemaDiff | 664-689 | a path missing from the new schema is an error; otherwise the copies, with Properties cleared, are compared field by field |
| EnumChangeValidation, RequiredFieldChangeValidation | 463-545 | judge one changed field; `handled()` clears their attribute on both copies through the FieldDiff's pointers |
| ChangeValidator.Validate | 571-611 | for each old version the new CRD has: flatten, diff, run every changed field through the chain; unclaimed fields are "unknown changes"; all errors joined |
| SelfSubjectAccessReviewValidator | part_001 167-214 | one access review per check |
| SelfSubjectRulesReviewValidator | part_001 216-300 | one rules review per namespace, cached under a mutex; "" looked up as "default"; local RulesAllow |
| Preflight (NewPreflight, SetEnabled, SetConfig, Run) | part_001 22-136 | builds the configured validator, checks delete / create+update for every change, joins the failures |
| BasicValidator | resource_filter_flags.go 103-131 | REST-maps the resource and asks the permission validator |
| RulesFor* resolvers | part_001 302-392 | the rules a Role carries or a binding's referenced role grants |
| ResourceFilterFlags | resource_filter_flags.go 14-85 | `--filter-*` flags; `Times` turns `--filter-age` ("5m+", "10m-") into a created-before or created-after bound from the clock; `ResourceFilter` adds the kind and `--filter` JSON filters |
| InspectOptions.Run | inspect.go 58-129 | Factory, UsedGVs, LabelSelector, Meta, List, then the filter; prints raw YAML one resource at a time, or a status, tree or table view |

The Role, Binding and composite validators that Run builds are not in the
source tree. The spec does not say what the role and binding validators check,
so they are not modelled. Graphs in the preflight model hold no RBAC objects,
so the composite always falls back to the BasicValidator, which is modelled.

## Modules

- `CRDSchema`: pure operators.
  - `FlattenSchema` is RECURSIVE (`SchemaPaths`, `SubSchema`).
  - `CalculateFlatSchemaDiff` returns `[err, diffs]`.
  - The two validations return `[handled, err, diff]`, where `diff` is the
    cleared copy the next validation receives. This models the shared-pointer
    mutation.
  - A node keeps Enum and Required (as sets, since both validations compare
    them as sets) and Default and MinLength (which no validation handles).
  - It also keeps Properties and Items.
- `ChangeValidator`: `Validate` as a state machine.
  - State: `vi` is the version, `phase`, `diffs`/`pending` are the field map
    and the fields the range loop has not visited, `field`/`ci` are the chain
    position, and `errs` holds the errors.
  - A version's two schemas are chosen when the loop reaches it, so inputs are
    generated lazily.
  - `PickField` takes any pending field, which models Go's map order.
  - History variables `expected` and `cited` record what the per-attribute
    safety rules say of each field, and which fields the e2e tests expect a
    dedicated error for (a default added, a minLength raised). These are the
    reference the properties compare with.
- `PermissionOracle`: the abstract promise of a PermissionValidator. A check
  answers "allowed" only if the caller's grants authorize it, "denied" only if
  they do not, or "error".
- `PermissionValidators`: both strategies. Each action is one whole
  `ValidatePermissions` call, which is atomic because the SSRR call holds
  `rv.mu` throughout.
  - `cache` is `rv.cache`.
  - `reviews` counts successful rules reviews per namespace.
  - `ImplementsOracle == Oracle!Spec` checks the refinement, with the identity
    mapping on `grants`, `calls` and `last`.
- `PermissionPreflight`: `SetEnabled`, `SetConfig` and `Run`, composed with
  `PermissionValidators` through `INSTANCE`. `Run` is split into these steps:
  - `RunDepsFailed` or `RunStart`, which builds a fresh validator of the kind
    `p.config` names;
  - `NextChange`, which takes the verbs `VerbsOf` gives the change's
    operation (none for an operation other than delete or upsert, since the
    `switch` has no default);
  - `MappingFailed` or `CheckVerb`, once per verb;
  - `Finish`.

  `accepted` records what the last accepted `SetConfig` asked for.
- `RulesResolver`: the four resolvers as operators over a read-only cluster
  (`roles`, `clusterRoles`).
  - Actions cover a successful resolution, a failed typed conversion and a
    failed fetch.
  - `Referent` is the reference: the role that RBAC says a binding grants.
- `ResourceFilterFlags`: operators.
  - `FlagValues` is what `Set` lets a command line give: the given ages,
    kind lists and `--filter` values, plus Set's defaults; `InspectCmd`'s
    `CommandLines` adds `--raw`, `--status` and `--tree`.
  - `ParseDuration` models `time.ParseDuration` (RECURSIVE `Terms`) over
    strings as sequences of one-character strings: sign, the special "0",
    terms of digits and a unit (`m`, `h`); anything else fails.
  - `Times` returns `[err, before, after]`, where a nil time is `{}`.
  - `Apply`/`Matches` model `ctlres.ResourceFilter.Apply`, which is outside
    `src/`, from its contract (marked spec_modelled).
- `InspectCmd`: `Run` as a state machine.
  - `pc` is the statement Run is at; each setup call may fail (`SetupFailed`).
  - `ListResources` and `FilterResources` may fail; the filter reads `now`
    once, recorded in the history variable `filteredAt`.
  - Raw mode moves resources from `toPrint` to `printed` one at a time
    (`RawPrint`); a conversion may fail part way (`RawConvertFailed`).
  - `Tick` moves the wall clock while Run works.
  - A resource is a kind and a creation time; printed output is the set of
    resources shown (YAML, ManagedFields and view layout abstracted).
- `InspectCmd` also holds the age reference, `Wanted` and `AgeWanted`, taken
  from the `--filter-age` help text, with ages measured at the clock the
  applied filter was built with (`filteredAt`).
- `SSRRConcurrent`: one SSRR validator shared by goroutines (`Callers`).
  - `holder` is `rv.mu`. A call is `Call`, then `Lock` (lock, normalise,
    probe), then `ReviewFailed` or `ReviewOk` (the blocking Create, made
    under the lock), then `Match`; `Return` is the deferred Unlock.
  - `ImplementsAtomic` maps it onto `PermissionValidators`: a cache entry
    whose filling call has not returned yet is hidden (`AtomicCache`,
    `AtomicReviews`), so the review step is a stutter and the match step is
    the atomic `SSRRReviewed`.
- `MC*` modules: the finite instances. They define the schema trees, grant
  worlds, change graphs and resources.

## Runs

| Run | Expect | What it shows |
|---|---|---|
| cv_fields | pass | Over all 1-field schema pairs with any enum set of 2 values and required set of 2 names, and both chain orders, Validate reports exactly the error kinds the enum and required rules call for (`ErrorKindsExplainField`). A field whose enum and required both changed is explained by the two validations together. Default and MinLength are held fixed here: no validation under src handles them, and what the e2e tests expect of them is cv_default's question. |
| cv_versions | pass | Over 3 versions of root+property schemas, skipped and failing versions included, errors name exactly the unsafe (version, field) pairs (`ErrorsLocateUnsafeFields`). |
| cv_items | violation | An item-schema change is also reported as an unknown change of the parent, because only Properties is cleared. |
| cv_default | violation | An added default, or a raised minLength, is an "unknown change", not the dedicated error the e2e tests expect (`E2EErrorsCited`). The kapp binary the tests run may register more validations than src has; the model shows what the validations under src do. |
| pv_strategies | pass | Both strategies implement the oracle; for namespaced checks SSRR does so despite failed and incomplete reviews, and reviews each namespace at most once (`OneReviewPerNamespace`). |
| sr_concurrent | pass | Three goroutines share one SSRR validator and make three calls between them. The mutex keeps a namespace from being reviewed twice (`OneReviewPerNamespace`). The interleaved calls refine the atomic calls of `PermissionValidators` (`ImplementsAtomic`). |
| pv_ssrr_cluster | violation | A cluster-scoped check is allowed from the rules of a RoleBinding in "default". |
| pf_run | pass | Over 2 Runs of every graph of 1-2 changes and every grant world: Run passes a graph only if every verb of every change is authorized (`PreflightSound`), and reports every unauthorized check (`EveryUnauthorizedCheckReported`). |
| pf_config | violation | After `SetConfig(SelfSubjectRulesReview)` returns nil, Run still uses SelfSubjectAccessReview. |
| rr_resolve | pass | The resolvers return the rules of the role each binding references, in the right scope. |
| in_filter | pass | Over 12 age strings (empty, "+", "-", zero, negative, compound, no suffix, unknown unit), two kind filters, three `--filter` values, every output mode and every failure point: inspect prints only resources the flags ask for (`PrintedOnlyWanted`), even when raw printing fails part way. |
| rr_crb_ref | violation | A ClusterRoleBinding referencing a Role resolves to the ClusterRole of that name. |

Every property of a passing run has a mutant in `PROJECT.json`. Each mutant
replaces one definition by a plausible bug, and TLC finds the property
violated. Examples:
- a validation that compares before clearing;
- a differ that keeps children;
- incomplete reviews cached;
- the cache keyed or probed by the wrong namespace;
- upserts checked for create only;
- errors overwritten instead of appended;
- NotFound taken as an empty role.

Note that pf_run passes partly *because of* the SetConfig bug. Run always uses
SSAR, so the SSRR cluster-scoped bug (pv_ssrr_cluster) cannot reach Run. If
SetConfig is fixed, the SSRR bug becomes reachable from the preflight.

## Bounds

- **CRD.** One value more than a rule needs for each attribute:
  - two enum values, so one can be added to or dropped from a non-empty set;
  - two required names;
  - a default present or absent;
  - two minLengths.

  Trees go two levels deep: a root plus one property or one item schema. That
  is the least depth at which parent/child interaction appears. Three versions
  cover a skipped version between two checked ones.
- **Permissions.**
  - Two namespaces, one of them "default", which the normalisation targets.
  - A namespaced and a cluster-scoped resource, plus a custom resource the
    RESTMapper cannot map.
  - Grants with wildcards and both scopes.
  - `MaxCalls` = 4: two changes × two verbs.
  - `MaxRuns` = 2, enough for a second Run to reuse state left by the first.
- **Inspect.** The clock starts at 3600 s and moves in 60 s steps up to 3720.
  Resources are created at 0, 3540 and 3600 s, so a 1m or 1h bound falls
  exactly on, just before or just after a resource's age, and the clock
  moving by one step changes which side it is on. Two kinds, so a kind
  filter and a bool filter each keep and drop something.
- **Concurrency.** Three goroutines and `MaxCalls` = 3: all three calls can
  be in flight at once, racing on one namespace, or a later call can hit
  the cache, over two
  namespaces, a cluster-scoped resource (looked up as "default") and every
  subset of three grants.
- **Resolvers.** Two namespaces, so a Role can be looked up in the wrong one.
  Two rule lists, so rules can be confused.

## Liveness

No run checks a liveness property. Each loop of the modelled code (Run's
loop over the change graph, Validate's loops, inspect's raw loop) is a Go
`range` over a finite collection with straight-line calls inside, so it ends
once every call returns. Whether a call returns is up to the API server and
the context passed in from outside src: the SSRR Create in particular is made
while holding `rv.mu`, with no timeout of its own, so a review that never
answers blocks every waiting goroutine (listed as a hazard). A fairness
assumption that every call returns would assume that hazard away, and
without it the only thing to show is that a hung call blocks its waiters.

## Not modelled

- Role, Binding and composite validators: not in the source.
- The namespace, name, kind-name and label filters of `--filter-*`, and the
  contents of `--filter` JSON beyond the kinds it excludes.
- `time.ParseDuration` fractions and sub-minute units.
- Output formatting: YAML bytes, ManagedFields and the view layouts.
- e2e tests and CI.
- Error message wording: errors are (version, field, kind) or (change, verb).
- Resource names in RBAC rules, and API groups, which are folded into the
  resource.
- RBAC changing during a run. The spec fixes the caller's RBAC for a run
  and the SSRR cache is never invalidated by design, so the models keep
  grants constant.

## Plan for later work

1. Make `RulesResolver` the back end of a spec-level role/binding validator,
   once its behaviour can be stated.
2. Let grants change between checks of one run, for the SSRR cache's
   staleness (the spec fixes RBAC for a run and never invalidates the
   cache, so this would check a scenario outside the design).
3. Add a Run with RBAC objects, through composite dispatch.
