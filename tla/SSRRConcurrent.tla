--------------------------- MODULE SSRRConcurrent ---------------------------
(***************************************************************************)
(* One SelfSubjectRulesReviewValidator (unnamed/part_001 216-300) shared   *)
(* by several goroutines that call ValidatePermissions concurrently.       *)
(* A call takes rv.mu (held to the end by the deferred Unlock), looks the  *)
(* namespace up in rv.cache, and if it is missing makes the blocking       *)
(* SelfSubjectRulesReview Create while still holding the lock; then it    *)
(* matches the cached rules.  The Create may fail or come back incomplete. *)
(*                                                                         *)
(* PermissionValidators takes each call as one atomic step; ImplementsAtomic *)
(* checks that the steps here, interleaved, refine it.                     *)
(***************************************************************************)
EXTENDS Naturals, TLC

CONSTANTS
  Namespaces, NoNamespace, AllNamespaces, Resources, ClusterScoped, Verbs,
  Star, GrantWorlds, MaxCalls, DefaultNs,
  Callers,        \* goroutines sharing the validator
  None            \* rv.mu is free

SSRR == "SelfSubjectRulesReview"

VARIABLES
  grants,         \* the caller's grants (fixed)
  cache,          \* rv.cache
  reviews,        \* history: successful reviews per namespace
  holder,         \* the goroutine holding rv.mu, or None
  pc,             \* per goroutine: "idle", "lock", "review" or "match"
  req,            \* per goroutine: the ResourceAttributes of its call
  filled,         \* per goroutine: its call filled the cache entry it matches
  started,        \* calls begun
  calls,          \* calls answered
  last            \* the last answer: [req, outcome]

vars == <<grants, cache, reviews, holder, pc, req, filled, started, calls, last>>

\* the atomic model's helpers: the rules a review lists, matching, the cache key
P == INSTANCE PermissionValidators WITH strategy <- SSRR, Strategies <- {SSRR}

Answer(g, o) ==
  /\ calls' = calls + 1
  /\ last' = [req |-> req[g], outcome |-> o]

\* the call returns: the deferred Unlock releases rv.mu
Return(g) ==
  /\ holder' = None
  /\ pc' = [pc EXCEPT ![g] = "idle"]
  /\ filled' = [filled EXCEPT ![g] = FALSE]

-----------------------------------------------------------------------------

\* NewSelfSubjectRulesReviewValidator (223-229): an empty cache, mu free
Init ==
  /\ grants \in GrantWorlds
  /\ cache = <<>>
  /\ reviews = [n \in Namespaces |-> 0]
  /\ holder = None
  /\ pc = [g \in Callers |-> "idle"]
  /\ req = [g \in Callers |-> P!Oracle!NoCheck.req]
  /\ filled = [g \in Callers |-> FALSE]
  /\ started = 0
  /\ calls = 0
  /\ last = P!Oracle!NoCheck

\* goroutine g calls ValidatePermissions(r) (235)
Call(g, r) ==
  /\ pc[g] = "idle" /\ started < MaxCalls
  /\ started' = started + 1
  /\ pc' = [pc EXCEPT ![g] = "lock"]
  /\ req' = [req EXCEPT ![g] = r]
  /\ UNCHANGED <<grants, cache, reviews, holder, filled, calls, last>>

\* mutant: rv.mu guards the cache lookup only, not the review that fills it
LockLookupOnly(g) ==
  /\ pc[g] = "lock" /\ holder = None
  /\ pc' = [pc EXCEPT ![g] = IF P!CacheKey(req[g]) \in DOMAIN cache THEN "match" ELSE "review"]
  /\ UNCHANGED <<grants, cache, reviews, holder, req, filled, started, calls, last>>

\* rv.mu.Lock, "" normalised to "default", the cache probed (236-245)
Lock(g) ==
  /\ pc[g] = "lock" /\ holder = None
  /\ holder' = g
  /\ pc' = [pc EXCEPT ![g] = IF P!CacheKey(req[g]) \in DOMAIN cache THEN "match" ELSE "review"]
  /\ UNCHANGED <<grants, cache, reviews, req, filled, started, calls, last>>

\* mutant: the rules of an incomplete review are cached before it is rejected
IncompleteCached(g) ==
  LET n == P!CacheKey(req[g]) IN
  /\ pc[g] = "review"
  /\ \E partial \in SUBSET P!ReviewRules(n) : cache' = cache @@ (n :> partial)
  /\ Answer(g, "error")
  /\ Return(g)
  /\ UNCHANGED <<grants, reviews, req, started>>

\* Create fails or the review is Incomplete: an error, nothing cached (246-259)
ReviewFailed(g) ==
  /\ pc[g] = "review"
  /\ Answer(g, "error")
  /\ Return(g)
  /\ UNCHANGED <<grants, cache, reviews, req, started>>

\* mutant: the rules are stored under resourceAttrib.Namespace instead of ns
CachedUnderRequestNs(g) ==
  LET n == P!CacheKey(req[g]) IN
  /\ pc[g] = "review"
  /\ cache' = cache @@ (req[g].ns :> P!ReviewRules(n))
  /\ reviews' = [reviews EXCEPT ![n] = @ + 1]
  /\ pc' = [pc EXCEPT ![g] = "match"]
  /\ filled' = [filled EXCEPT ![g] = TRUE]
  /\ UNCHANGED <<grants, holder, req, started, calls, last>>

\* the review succeeds; its rules are stored in rv.cache[ns] (246-277)
ReviewOk(g) ==
  LET n == P!CacheKey(req[g]) IN
  /\ pc[g] = "review"
  /\ cache' = cache @@ (n :> P!ReviewRules(n))
  /\ reviews' = [reviews EXCEPT ![n] = @ + 1]
  /\ pc' = [pc EXCEPT ![g] = "match"]
  /\ filled' = [filled EXCEPT ![g] = TRUE]
  /\ UNCHANGED <<grants, holder, req, started, calls, last>>

\* RulesAllow over rv.cache[ns]: nil or "not permitted" (279-300)
Match(g) ==
  /\ pc[g] = "match"
  /\ Answer(g, P!Verdict(cache[P!CacheKey(req[g])], req[g]))
  /\ Return(g)
  /\ UNCHANGED <<grants, cache, reviews, req, started>>

\* every goroutine has made its calls and they have returned
CallsDone ==
  /\ started = MaxCalls /\ \A g \in Callers : pc[g] = "idle"
  /\ UNCHANGED vars

Next ==
  \/ \E g \in Callers :
       \/ \E r \in P!Requests : Call(g, r)
       \/ Lock(g) \/ ReviewFailed(g) \/ ReviewOk(g) \/ Match(g)
  \/ CallsDone

Spec == Init /\ [][Next]_vars

-----------------------------------------------------------------------------

TypeOK ==
  /\ holder \in Callers \cup {None}
  /\ pc \in [Callers -> {"idle", "lock", "review", "match"}]
  /\ req \in [Callers -> P!Requests \cup {P!Oracle!NoCheck.req}]
  /\ started \in 0..MaxCalls /\ calls \in 0..started
  /\ DOMAIN cache \subseteq Namespaces

(***************************************************************************)
(* Concurrent checks in one namespace cost one SelfSubjectRulesReview: the *)
(* lock held across lookup, review and store keeps a second goroutine from *)
(* reviewing a namespace the first is reviewing (spec: the lock prevents   *)
(* "duplicate bulk queries under concurrent use").                         *)
(***************************************************************************)
OneReviewPerNamespace == \A n \in Namespaces : reviews[n] <= 1

\* the cache as the atomic model sees it: an entry whose filling call has
\* not returned yet is not there
FillingNs == { P!CacheKey(req[g]) : g \in { h \in Callers : filled[h] } }

AtomicCache == [n \in DOMAIN cache \ FillingNs |-> cache[n]]

AtomicReviews == [n \in Namespaces |-> IF n \in FillingNs THEN reviews[n] - 1 ELSE reviews[n]]

A == INSTANCE PermissionValidators
       WITH strategy <- SSRR, Strategies <- {SSRR}, cache <- AtomicCache, reviews <- AtomicReviews

(***************************************************************************)
(* The interleaved calls behave as the atomic ones of PermissionValidators: *)
(* each answer is the one a whole ValidatePermissions call, taken at its   *)
(* return, would give, and so each is true to the caller's grants.         *)
(***************************************************************************)
ImplementsAtomic == A!Spec

=============================================================================
