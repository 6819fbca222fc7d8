---- MODULE ModelRouter ----
(***************************************************************************)
(* Which models serve a role of a review, and in which order a stage falls *)
(* back from one to the next (llm/router.py).  Prices and scores are       *)
(* numbers; a record lists the capabilities a role can require in caps.    *)
(***************************************************************************)
EXTENDS Integers, Sequences, SequencesExt

CONSTANTS
  Catalog,  \* sequence of [provider, model, tier, status, score, price, caps, window, shut, live]
  NoModel

ASSUME CatalogAssumption ==
  /\ Catalog \in Seq({Catalog[k] : k \in DOMAIN Catalog})
  /\ \A k \in DOMAIN Catalog :
       /\ Catalog[k].score \in Int /\ Catalog[k].price \in Int
       /\ [provider |-> Catalog[k].provider, model |-> Catalog[k].model] # NoModel

Providers == {Catalog[k].provider : k \in DOMAIN Catalog}
TierOrder == <<"frontier", "balanced", "economy", "fallback">>

\* ROLE_DEFAULT_TIERS.
DefaultTier(role) ==
  CASE role \in {"primary_review", "chunk_review", "synthesis"} -> "balanced"
    [] role \in {"challenger", "tie_break"} -> "frontier"
    [] OTHER -> "economy"

\* _fallback_tier_order: never a tier above the one asked for.
FallbackTiers(tier) == SubSeq(TierOrder, CHOOSE k \in 1 .. 4 : TierOrder[k] = tier, 4)

\* models.roles of the configuration, or what a role asks for when it is not there.
RoleConfig(config, role) ==
  IF role \in DOMAIN config.roles THEN config.roles[role]
  ELSE [tier |-> DefaultTier(role), pin |-> NoModel, only |-> Providers, diverse |-> FALSE,
        needs |-> {"tools", "structured"}]

\* _explicit_model_for_role: the role's own pin, the pinned model of the
\* repository for the roles that read it, max_mode's models for the debate.
ExplicitModel(config, role) ==
  CASE RoleConfig(config, role).pin # NoModel -> RoleConfig(config, role).pin
    [] RoleConfig(config, role).pin = NoModel
       /\ role \in {"primary_review", "chunk_review", "synthesis", "editor", "config_generator"} ->
         config.pin
    [] RoleConfig(config, role).pin = NoModel /\ role \in {"challenger", "tie_break"} ->
         config.debate[role]
    [] OTHER -> NoModel

\* A deprecated or shut model, one that cannot do what the role needs, one too small.
ModelUsable(rec, needs, tokens) ==
  /\ rec.status \notin {"retired", "deprecated"}
  /\ needs \subseteq rec.caps
  /\ tokens = 0 \/ rec.window = 0 \/ tokens <= rec.window
  /\ ~rec.shut

\* _score_model, for a record of the desired tier.
ScoreModel(rec) ==
  rec.score + (CASE rec.status = "active" -> 40 [] rec.status = "legacy" -> 10 [] OTHER -> 0)

Preference(order, provider) ==
  IF \E k \in DOMAIN order : order[k] = provider
  THEN CHOOSE k \in DOMAIN order : order[k] = provider /\ \A l \in 1 .. k - 1 : order[l] # provider
  ELSE Len(order) + 1

\* Does entry j of the catalog sort before entry k?  The fast path takes the
\* cheapest economy model, the others the policy's provider order, then score.
Better(order, cheapest, j, k) ==
  LET Rank(rec) == 1000 * (IF cheapest THEN rec.price ELSE Preference(order, rec.provider))
                   - ScoreModel(rec)
      ahead == Rank(Catalog[k]) - Rank(Catalog[j])
  IN ahead > 0 \/ (ahead = 0 /\ j < k)

\* _select_best_candidate among the models of the providers of one tier.
BestCandidate(config, role, tier, needs, tokens, providers) ==
  LET usable == {k \in DOMAIN Catalog :
                   /\ Catalog[k].live /\ Catalog[k].provider \in providers
                   /\ Catalog[k].tier = tier
                   /\ ModelUsable(Catalog[k], needs, tokens)}
      cheapest == role = "fast_path" /\ tier = "economy"
      best == CHOOSE k \in usable :
                \A l \in usable \ {k} : Better(config.order, cheapest, k, l)
  IN IF usable = {} THEN NoModel
     ELSE [provider |-> Catalog[best].provider, model |-> Catalog[best].model]

FirstOf(models) ==
  models[CHOOSE k \in DOMAIN models : models[k] # NoModel /\ \A j \in 1 .. k - 1 : models[j] = NoModel]

\* resolve_model_for_role: a pin that is not in the catalog is trusted, one the
\* catalog calls unusable gives way to the best model if the policy allows it.
\* A role may be confined to one provider, or kept off the previous stage's.
ResolveModel(config, role, tokens, available, previous) ==
  LET asked == RoleConfig(config, role)
      pin   == ExplicitModel(config, role)
      known == {k \in DOMAIN Catalog :
                  Catalog[k].provider = pin.provider /\ Catalog[k].model = pin.model}
      from  == (available \cap asked.only) \ (IF asked.diverse THEN {previous} ELSE {})
      best  == BestCandidate(config, role, asked.tier, asked.needs, tokens, from)
      stays == pin # NoModel
               /\ (~config.autoFallback
                   \/ \A k \in known : ModelUsable(Catalog[k], asked.needs, tokens))
  IN IF stays THEN pin
     ELSE FirstOf(<<best, pin, config.default>>)

\* Mutant: a stage tries its resolved model only.
SingleAttempt(config, role, tokens, available, previous) ==
  <<ResolveModel(config, role, tokens, available, previous)>>

\* An offer joins the chain unless there is none or it is in it already.
WithOffer(chain, model) ==
  IF model \in {NoModel} \cup ToSet(chain) THEN chain ELSE Append(chain, model)

\* One tier's offers join the chain: the best model of each provider with a key, in the
\* policy's order.
WithTier(config, role, tier, tokens, available, chain) ==
  LET Offer(p) == IF p \in available
                  THEN BestCandidate(config, role, tier, RoleConfig(config, role).needs, tokens, {p})
                  ELSE NoModel
      with[k \in 0 .. Len(config.order)] ==
        IF k = 0 THEN chain ELSE WithOffer(with[k - 1], Offer(config.order[k]))
  IN with[Len(config.order)]

\* A role whose model is pinned and may not be replaced has no fallbacks.
Pinned(config, role) == ExplicitModel(config, role) # NoModel /\ ~config.autoFallback

\* resolve_model_attempt_chain: the resolved model, then the best model of every
\* provider with a key, tier by tier downwards, each model once.
AttemptChain(config, role, tokens, available, previous) ==
  LET tiers == FallbackTiers(RoleConfig(config, role).tier)
      first == <<ResolveModel(config, role, tokens, available, previous)>>
      with[t \in 0 .. Len(tiers)] ==
        IF t = 0 THEN first ELSE WithTier(config, role, tiers[t], tokens, available, with[t - 1])
  IN IF Pinned(config, role) THEN first ELSE with[Len(tiers)]
====
