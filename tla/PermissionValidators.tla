------------------------ MODULE PermissionValidators ------------------------
(***************************************************************************)
(* The two PermissionValidator strategies (unnamed/part_001, package       *)
(* permissions):                                                           *)
(*   SelfSubjectAccessReviewValidator: one SelfSubjectAccessReview per     *)
(*     check; the API server decides.                                      *)
(*   SelfSubjectRulesReviewValidator: one SelfSubjectRulesReview per       *)
(*     namespace, cached for the validator's lifetime, then local rule     *)
(*     matching (rbacauthorizer.RulesAllow).  An empty namespace is looked *)
(*     up as "default".                                                    *)
(* The whole of ValidatePermissions runs under rv.mu, so each check is one *)
(* atomic step whatever goroutines call it.  Remote calls may fail         *)
(* (transport error, cancelled context); the review may come back          *)
(* incomplete.  Rules are matched on verb and resource (API group folded   *)
(* into the resource); resource names are not modelled.                    *)
(***************************************************************************)
EXTENDS Naturals, TLC

CONSTANTS
  Namespaces, NoNamespace, AllNamespaces, Resources, ClusterScoped, Verbs,
  Star, GrantWorlds, MaxCalls,
  DefaultNs,      \* "default"
  Strategies      \* the strategies a validator may be built with

ASSUME DefaultNs \in Namespaces

SSAR == "SelfSubjectAccessReview"
SSRR == "SelfSubjectRulesReview"

VARIABLES
  strategy,       \* which validator was built: PermissionValidatorTypeSelfSubject{Access,Rules}Review
  grants,         \* the caller's grants in the cluster (fixed)
  calls,          \* number of ValidatePermissions calls answered
  last,           \* the last call and its outcome
  cache,          \* rv.cache: namespace -> rules, for the namespaces reviewed
  reviews         \* history: SelfSubjectRulesReviews that succeeded, per namespace

vars == <<strategy, grants, calls, last, cache, reviews>>

Oracle == INSTANCE PermissionOracle

Requests == Oracle!Requests
Authorized(r) == Oracle!Authorized(r)

Rule == [verb: Verbs \cup {Star}, resource: Resources \cup {Star}]

\* what a complete SelfSubjectRulesReview of namespace n lists: the rules of
\* the RoleBindings in n and of the ClusterRoleBindings, without their scope
ReviewRules(n) ==
  { [verb |-> g.verb, resource |-> g.resource] : g \in {h \in grants : h.scope \in {n, AllNamespaces}} }

\* rbacauthorizer.RulesAllow over the cached rules (282-289)
RulesAllow(rules, r) == \E g \in rules : Oracle!RuleMatches(g, r)

Verdict(rules, r) == IF RulesAllow(rules, r) THEN "allowed" ELSE "denied"

\* the namespace the cache is keyed by (239-242)
CacheKey(r) == IF r.ns = NoNamespace THEN DefaultNs ELSE r.ns

Answered(r, o) ==
  /\ calls < MaxCalls
  /\ calls' = calls + 1
  /\ last' = [req |-> r, outcome |-> o]

-----------------------------------------------------------------------------
(* SelfSubjectAccessReviewValidator.ValidatePermissions (182-214)          *)

\* Create fails, or the review carries an EvaluationError
SSARFailed(r) ==
  /\ strategy = SSAR
  /\ Answered(r, "error")
  /\ UNCHANGED <<strategy, grants, cache, reviews>>

\* the review is evaluated: Status.Allowed decides
SSARDecided(r) ==
  /\ strategy = SSAR
  /\ Answered(r, IF Authorized(r) THEN "allowed" ELSE "denied")
  /\ UNCHANGED <<strategy, grants, cache, reviews>>

-----------------------------------------------------------------------------
(* SelfSubjectRulesReviewValidator.ValidatePermissions (235-300)           *)

\* no rules cached for the namespace, and Create fails: nothing is cached
SSRRReviewFailed(r) ==
  /\ strategy = SSRR
  /\ CacheKey(r) \notin DOMAIN cache
  /\ Answered(r, "error")
  /\ UNCHANGED <<strategy, grants, cache, reviews>>

\* mutant: Status.Incomplete is not checked, and the partial rules are cached
IncompleteCached(r) ==
  LET n == CacheKey(r) IN
  /\ strategy = SSRR
  /\ n \notin DOMAIN cache
  /\ \E partial \in SUBSET ReviewRules(n) :
       /\ cache' = cache @@ (n :> partial)
       /\ Answered(r, Verdict(partial, r))
  /\ reviews' = [reviews EXCEPT ![n] = @ + 1]
  /\ UNCHANGED <<strategy, grants>>

\* the review is Incomplete (it lists only part of the rules): error, nothing cached
SSRRReviewIncomplete(r) ==
  /\ strategy = SSRR
  /\ CacheKey(r) \notin DOMAIN cache
  /\ Answered(r, "error")
  /\ UNCHANGED <<strategy, grants, cache, reviews>>

\* mutant: the rules are stored under resourceAttrib.Namespace instead of ns
CachedUnderRequestNs(r) ==
  LET n == CacheKey(r) IN
  /\ strategy = SSRR
  /\ n \notin DOMAIN cache
  /\ cache' = cache @@ (r.ns :> ReviewRules(n))
  /\ reviews' = [reviews EXCEPT ![n] = @ + 1]
  /\ Answered(r, Verdict(ReviewRules(n), r))
  /\ UNCHANGED <<strategy, grants>>

\* mutant: the cache is probed with resourceAttrib.Namespace instead of ns
ProbedWithRequestNs(r) ==
  LET n == CacheKey(r) IN
  /\ strategy = SSRR
  /\ r.ns \notin DOMAIN cache
  /\ cache' = [m \in DOMAIN cache \cup {n} |-> IF m = n THEN ReviewRules(n) ELSE cache[m]]
  /\ reviews' = [reviews EXCEPT ![n] = @ + 1]
  /\ Answered(r, Verdict(ReviewRules(n), r))
  /\ UNCHANGED <<strategy, grants>>

\* the review succeeds: its rules are cached, then matched
SSRRReviewed(r) ==
  LET n == CacheKey(r) IN
  /\ strategy = SSRR
  /\ n \notin DOMAIN cache
  /\ cache' = cache @@ (n :> ReviewRules(n))
  /\ reviews' = [reviews EXCEPT ![n] = @ + 1]
  /\ Answered(r, Verdict(ReviewRules(n), r))
  /\ UNCHANGED <<strategy, grants>>

\* rules already cached for the namespace: matched without a review
SSRRCached(r) ==
  /\ strategy = SSRR
  /\ CacheKey(r) \in DOMAIN cache
  /\ Answered(r, Verdict(cache[CacheKey(r)], r))
  /\ UNCHANGED <<strategy, grants, cache, reviews>>

-----------------------------------------------------------------------------

Init ==
  /\ strategy \in Strategies
  /\ grants \in GrantWorlds
  /\ calls = 0
  /\ last = Oracle!NoCheck
  /\ cache = <<>>
  /\ reviews = [n \in Namespaces |-> 0]

\* the caller has made all the checks the bound allows
CallsExhausted == calls = MaxCalls /\ UNCHANGED vars

\* one call of the built validator's ValidatePermissions
ValidatePermissions(r) ==
  \/ SSARFailed(r)
  \/ SSARDecided(r)
  \/ SSRRReviewFailed(r)
  \/ SSRRReviewIncomplete(r)
  \/ SSRRReviewed(r)
  \/ SSRRCached(r)

Next ==
  \/ CallsExhausted
  \/ \E r \in Requests : ValidatePermissions(r)

Spec == Init /\ [][Next]_vars

-----------------------------------------------------------------------------

TypeOK ==
  /\ strategy \in {SSAR, SSRR}
  /\ calls \in 0..MaxCalls
  /\ last.req \in Requests /\ last.outcome \in Oracle!Outcomes
  /\ DOMAIN cache \subseteq Namespaces
  /\ \A n \in DOMAIN cache : cache[n] \subseteq Rule
  /\ reviews \in [Namespaces -> Nat]

(***************************************************************************)
(* Each strategy implements the oracle: a check returns nil only for an   *)
(* action the caller's grants allow and "not permitted" only for one they *)
(* do not, whatever reviews failed or were cached before.                 *)
(***************************************************************************)
ImplementsOracle == Oracle!Spec

(***************************************************************************)
(* Checks in one namespace cost one SelfSubjectRulesReview: once a review  *)
(* of a namespace succeeded, later checks there, cluster-scoped ones       *)
(* included, reuse its rules (spec: "two checks in the same namespace      *)
(* within one run must trigger exactly one bulk rule fetch").             *)
(***************************************************************************)
OneReviewPerNamespace == \A n \in Namespaces : reviews[n] <= 1

=============================================================================
