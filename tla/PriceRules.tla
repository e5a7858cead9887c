------------------------------ MODULE PriceRules -------------------------------
(***************************************************************************)
(* The table of model prices: edited by administrators (billing.go),       *)
(* brought up to date by imports in two steps (billing_import.go), and     *)
(* searched for the rule that prices a usage record (billing_match.go).    *)
(*                                                                         *)
(* An import is a preview, made from a scan of the table and stored, and   *)
(* later an apply of selected rows of it: one transaction, guarded by the  *)
(* revisions the preview saw, recorded under the caller's idempotency key, *)
(* and repeated by callers that did not see the answer.                    *)
(***************************************************************************)
EXTENDS Naturals, Sequences, FiniteSets, FiniteSetsExt, SequencesExt

CONSTANTS
    Identities,    \* identities a rule can have: [provider, model, tier, band]
    ImportTargets, \* the identities an import covers
    Callers,       \* concurrent callers of the apply operation
    MaxRules,      \* bound: rules created
    MaxEdits,      \* bound: steps of administrators
    MaxImportTime, \* bound: the clock
    PreviewTTL,    \* how long a preview may be applied
    OperationRetention  \* how long an operation's record is kept

(* A record outlives the previews it could have come from: a quarter of an hour against 30 days. *)
ASSUME PriceAssumption ==
    /\ IsFiniteSet(Identities) /\ ImportTargets \subseteq Identities
    /\ \A identity \in Identities : identity.band \in Nat
    /\ MaxRules \in Nat /\ MaxEdits \in Nat /\ MaxImportTime \in Nat
    /\ PreviewTTL \in Nat /\ OperationRetention \in Nat /\ PreviewTTL < OperationRetention

VARIABLES
    priceRules,   \* table billing_model_price: [identity, source, enabled, revision, by], in order of creation
    pricePreview, \* the preview: <<>> or <<[rows, expires]>>
    priceOps,     \* the record of the idempotency key: <<>> or <<the time it was applied>>
    priceCall,    \* what each caller is doing
    priceNow,     \* the clock
    priceEdits,   \* administrator steps so far
    priceApplied  \* ghost: how often the key's request has been carried out

priceVars == <<priceRules, pricePreview, priceOps, priceCall, priceNow, priceEdits, priceApplied>>

(* "by" is what the row says besides: the hand that wrote it last. *)
RuleBy(identity, source, enabled, by) ==
    [identity |-> identity, source |-> source, enabled |-> enabled, revision |-> 1, by |-> by, deleted |-> FALSE]

PriceInit ==
    /\ priceRules = <<>> /\ pricePreview = <<>> /\ priceOps = <<>>
    /\ priceCall = [c \in Callers |-> "none"]
    /\ priceNow = 0 /\ priceEdits = 0 /\ priceApplied = 0

(* The partial unique index: at most one enabled rule per identity. *)
ActiveUnique(rules) ==
    \A i, j \in DOMAIN rules :
        i # j /\ rules[i].enabled /\ rules[j].enabled /\ ~rules[i].deleted /\ ~rules[j].deleted
           => rules[i].identity # rules[j].identity

Alive(rules) == {i \in DOMAIN rules : ~rules[i].deleted}

(***************************************************************************)
(* Administrators.                                                         *)
(***************************************************************************)
PriceEdit(rules) ==
    /\ priceEdits < MaxEdits /\ priceEdits' = priceEdits + 1
    /\ ActiveUnique(rules) /\ priceRules' = rules
    /\ UNCHANGED <<pricePreview, priceOps, priceCall, priceNow, priceApplied>>

CreateBillingModelPrice(identity) ==
    /\ Len(priceRules) < MaxRules
    /\ \E enabled \in BOOLEAN :
          PriceEdit(Append(priceRules, RuleBy(identity, "manual", enabled, priceEdits + 1)))

(* Faulty variant: an edit leaves the revision as it is. *)
EditedSilently(rule, enabled) == [rule EXCEPT !.enabled = enabled, !.by = priceEdits + 1]

Edited(rule, enabled) == [rule EXCEPT !.enabled = enabled, !.by = priceEdits + 1, !.revision = @ + 1]

UpdateBillingModelPrice(i) ==
    \E enabled \in BOOLEAN : PriceEdit([priceRules EXCEPT ![i] = Edited(@, enabled)])

DeleteBillingModelPrice(i) == PriceEdit([priceRules EXCEPT ![i].deleted = TRUE])

(***************************************************************************)
(* Imports.                                                                *)
(***************************************************************************)

(* billingImportMatchedRow under the overwrite modes "skip", "sync" and "all". *)
ImportAction(existing, mode) ==
    IF existing = {} THEN "create"
    ELSE IF mode # "skip" /\ \E i \in existing : priceRules[i].source = "sync" THEN "update_sync"
    ELSE IF mode = "all" THEN "overwrite" ELSE "skip"

(* buildBillingModelPriceImportPreview: a row per target; one with two rules of     *)
(* its identity, one enabled and one not, is for review.                            *)
PreviewRow(identity, mode) ==
    LET existing == {i \in Alive(priceRules) : priceRules[i].identity = identity}
    IN [identity |-> identity,
        action |-> IF Cardinality(existing) > 1 THEN "review" ELSE ImportAction(existing, mode),
        existing |-> IF Cardinality(existing) # 1 THEN <<>>
                     ELSE LET i == CHOOSE i \in existing : TRUE IN <<[id |-> i, rule |-> priceRules[i]]>>]

CreatePreview(mode) ==
    /\ pricePreview = <<>>
    /\ pricePreview' = <<[rows |-> {PreviewRow(t, mode) : t \in ImportTargets}, expires |-> priceNow + PreviewTTL]>>
    /\ UNCHANGED <<priceRules, priceOps, priceCall, priceNow, priceEdits, priceApplied>>

Applicable(row) == row.action \in {"create", "update_sync", "overwrite"}

(* Callers select every applicable row, and always the same ones: the idempotency *)
(* key stands for the request, with or without leave to overwrite.                *)
SelectedRows == {row \in pricePreview[1].rows : Applicable(row)}

(* The checks before anything is written.  A key that is already recorded is        *)
(* answered from its record, or refused when the request differs.                   *)
BeginApply(c, confirm) ==
    /\ priceCall[c] = "none" /\ pricePreview # <<>> /\ SelectedRows # {}
    /\ priceOps = <<>>
    /\ priceNow <= pricePreview[1].expires
    /\ \A row \in SelectedRows : row.action = "overwrite" => confirm
    /\ priceCall' = [priceCall EXCEPT ![c] = "writing"]
    /\ UNCHANGED <<priceRules, pricePreview, priceOps, priceNow, priceEdits, priceApplied>>

(* applyBillingModelPriceImportUpdateBatch: rows whose rule is not the one the      *)
(* preview saw are not updated, and then nothing is.                                *)
RevisionsMatch ==
    \A row \in SelectedRows : row.existing # <<>> =>
        /\ ~priceRules[row.existing[1].id].deleted
        /\ priceRules[row.existing[1].id].revision = row.existing[1].rule.revision

SyncedRule(row) == [row.existing[1].rule EXCEPT !.source = "sync", !.by = 0, !.revision = @ + 1]
CreatedRules == SetToSeq({RuleBy(row.identity, "sync", TRUE, 0) : row \in {r \in SelectedRows : r.existing = <<>>}})
UpdatedRules ==
    [i \in DOMAIN priceRules |->
        IF \E row \in SelectedRows : row.existing # <<>> /\ row.existing[1].id = i
        THEN SyncedRule(CHOOSE row \in SelectedRows : row.existing # <<>> /\ row.existing[1].id = i)
        ELSE priceRules[i]]
AppliedRules == UpdatedRules \o CreatedRules

(* idempotency_key is unique. *)
KeyFree == priceOps = <<>>

ApplyImport(c) ==
    /\ priceCall[c] = "writing"
    /\ KeyFree /\ RevisionsMatch /\ ActiveUnique(AppliedRules)
    /\ priceRules' = AppliedRules
    /\ priceOps' = <<priceNow>>
    /\ priceApplied' = priceApplied + 1
    /\ priceCall' = [priceCall EXCEPT ![c] = "none"]
    /\ UNCHANGED <<pricePreview, priceNow, priceEdits>>

(* The transaction fails, for a conflict or otherwise, and writes nothing; the     *)
(* caller then gets the recorded operation if there is one.                        *)
FailImport(c) ==
    /\ priceCall[c] = "writing"
    /\ priceCall' = [priceCall EXCEPT ![c] = "none"]
    /\ UNCHANGED <<priceRules, pricePreview, priceOps, priceNow, priceEdits, priceApplied>>

(* cleanupBillingModelPriceImports, at the next preview of anyone. *)
CleanupImports ==
    /\ priceOps # <<>> /\ priceOps[1] + OperationRetention < priceNow
    /\ priceOps' = <<>>
    /\ UNCHANGED <<priceRules, pricePreview, priceCall, priceNow, priceEdits, priceApplied>>

(* A transaction is shorter than a tick. *)
PriceTick ==
    /\ priceNow < MaxImportTime /\ priceNow' = priceNow + 1
    /\ \A c \in Callers : priceCall[c] = "none"
    /\ UNCHANGED <<priceRules, pricePreview, priceOps, priceCall, priceEdits, priceApplied>>

PriceNext ==
    \/ \E identity \in Identities : CreateBillingModelPrice(identity)
    \/ \E i \in Alive(priceRules) : UpdateBillingModelPrice(i) \/ DeleteBillingModelPrice(i)
    \/ \E mode \in {"skip", "sync", "all"} : CreatePreview(mode)
    \/ \E c \in Callers : (\E confirm \in BOOLEAN : BeginApply(c, confirm)) \/ ApplyImport(c) \/ FailImport(c)
    \/ CleanupImports \/ PriceTick

(***************************************************************************)
(* billingFindPrice.  A rule's model is a name or a pattern: a prefix with *)
(* a length and the names it matches.                                      *)
(***************************************************************************)
PriceModels == {"m", "n"}
PatternLength(model) == CASE model = "long*" -> 3 [] model = "*" -> 1 [] OTHER -> 0
IsPattern(model) == PatternLength(model) > 0
ModelMatches(ruleModel, model, pattern) ==
    IF pattern THEN ruleModel = "*" \/ (ruleModel = "long*" /\ model = "m")
    ELSE ~IsPattern(ruleModel) /\ ruleModel = model

MatchLevels == <<[any |-> FALSE, pattern |-> FALSE], [any |-> FALSE, pattern |-> TRUE],
                 [any |-> TRUE, pattern |-> FALSE], [any |-> TRUE, pattern |-> TRUE]>>

(* The query and its order: min_input_tokens descending, then the id. *)
EnabledRules == {i \in Alive(priceRules) : priceRules[i].enabled}
Band(i) == priceRules[i].identity.band
QueryOrder(i, j) == Band(i) > Band(j) \/ (Band(i) = Band(j) /\ i <= j)

NoRule == 0

(* billingSelectPriceRule: of the keys, longest first, the one under which the loop  *)
(* over the tiers returns, and there the first rule of the query.  Two keys of one   *)
(* length never match the same model.                                                *)
SelectPriceRule(provider, model, pattern, tier, tokens) ==
    LET matching == {i \in EnabledRules : /\ priceRules[i].identity.provider = provider
                                          /\ Band(i) <= tokens
                                          /\ ModelMatches(priceRules[i].identity.model, model, pattern)}
        OfTier(key, t) == {i \in matching : priceRules[i].identity.model = key /\ priceRules[i].identity.tier = t}
        keys == {priceRules[i].identity.model : i \in {r \in matching : priceRules[r].identity.tier \in {tier, "any"}}}
        key == CHOOSE k \in keys : \A other \in keys : PatternLength(other) <= PatternLength(k)
        found == IF OfTier(key, tier) # {} THEN OfTier(key, tier) ELSE OfTier(key, "any")
    IN IF keys = {} THEN NoRule ELSE CHOOSE i \in found : \A j \in found : QueryOrder(i, j)

(* The loops over levels and candidates return where a rule is selected. *)
Tried(l, k, provider, candidates, tier, tokens) ==
    SelectPriceRule(IF MatchLevels[l].any THEN "any" ELSE provider, candidates[k], MatchLevels[l].pattern, tier, tokens)
Hits(provider, candidates, tier, tokens) ==
    {t \in (DOMAIN MatchLevels) \X (DOMAIN candidates) : Tried(t[1], t[2], provider, candidates, tier, tokens) # NoRule}

(* Faulty variant: the candidates are tried one after the other at every level. *)
FindPriceByCandidate(provider, candidates, tier, tokens) ==
    LET hits == Hits(provider, candidates, tier, tokens)
        first == CHOOSE t \in hits : \A u \in hits : t[2] < u[2] \/ (t[2] = u[2] /\ t[1] <= u[1])
    IN IF hits = {} THEN NoRule ELSE Tried(first[1], first[2], provider, candidates, tier, tokens)

FindPrice(provider, candidates, tier, tokens) ==
    LET hits == Hits(provider, candidates, tier, tokens)
        first == CHOOSE t \in hits : \A u \in hits : t[1] < u[1] \/ (t[1] = u[1] /\ t[2] <= u[2])
    IN IF EnabledRules = {} \/ hits = {} THEN NoRule ELSE Tried(first[1], first[2], provider, candidates, tier, tokens)

(***************************************************************************)
(* Properties.                                                             *)
(***************************************************************************)

(* A request is carried out once per idempotency key, however many callers      *)
(* repeat it at the same time and whenever the records are cleaned up           *)
(* (billing_import.go, ApplyBillingModelPriceImport).                           *)
ImportAppliedOnce == [][priceApplied' # priceApplied => priceApplied = 0 /\ priceApplied' = 1]_priceVars

(* An import overwrites a rule only as its preview showed it: no edit made       *)
(* between the preview and the apply is lost (the revisions of                   *)
(* applyBillingModelPriceImportUpdateBatch).                                     *)
NoEditOverwritten ==
    [][priceApplied' # priceApplied =>
          \A i \in DOMAIN priceRules : priceRules'[i] # priceRules[i] =>
              \E row \in SelectedRows : row.existing # <<>> /\ row.existing[1] = [id |-> i, rule |-> priceRules[i]]]_priceVars

(* An import is carried out once and on the rules its preview showed.            *)
ImportsAreExact == ImportAppliedOnce /\ NoEditOverwritten

(* What "specific" means, of a rule and not of the search, in the order of           *)
(* docs/management/api.md:1686: its level (an exact model or alias before any         *)
(* pattern, and those of the provider before the ones of every provider), then the    *)
(* first candidate it matches ("the executed model and then the client-requested      *)
(* alias at each specificity level"), the length of its pattern, its tier, its band.  *)
Fits(i, provider, candidates, tier, tokens) ==
    LET r == priceRules[i].identity
    IN /\ i \in EnabledRules /\ r.provider \in {provider, "any"} /\ r.band <= tokens /\ r.tier \in {tier, "any"}
       /\ \E k \in DOMAIN candidates : ModelMatches(r.model, candidates[k], IsPattern(r.model))
Level(i) ==
    LET r == priceRules[i].identity
    IN (IF r.provider = "any" THEN 2 ELSE 0) + (IF IsPattern(r.model) THEN 1 ELSE 0)
Position(i, candidates) ==
    Min({k \in DOMAIN candidates : ModelMatches(priceRules[i].identity.model, candidates[k], IsPattern(priceRules[i].identity.model))})
MoreSpecific(i, j, candidates) ==
    LET a == priceRules[i].identity
        b == priceRules[j].identity
        SamePlace == Level(i) = Level(j) /\ Position(i, candidates) = Position(j, candidates)
        SameKey == SamePlace /\ PatternLength(a.model) = PatternLength(b.model)
    IN \/ Level(i) < Level(j)
       \/ Level(i) = Level(j) /\ Position(i, candidates) < Position(j, candidates)
       \/ SamePlace /\ PatternLength(a.model) > PatternLength(b.model)
       \/ SameKey /\ a.tier # "any" /\ b.tier = "any"
       \/ SameKey /\ a.tier = b.tier /\ a.band > b.band

(* The most specific rule prices a usage (billingFindPrice): a rule is found          *)
(* whenever one fits, it fits, and none that fits is more specific.  Specificity      *)
(* comes before the order of the candidates from one level to the next ("an exact     *)
(* model or alias beats any pattern", billing_match.go:75); among the patterns of     *)
(* one level the model's come first, and the longest of them is taken.                *)
WinsByRank(found, provider, candidates, tier, tokens) ==
    /\ found = NoRule <=> ~\E i \in DOMAIN priceRules : Fits(i, provider, candidates, tier, tokens)
    /\ found # NoRule =>
          /\ found \in DOMAIN priceRules /\ Fits(found, provider, candidates, tier, tokens)
          /\ \A i \in DOMAIN priceRules :
                Fits(i, provider, candidates, tier, tokens) => ~MoreSpecific(i, found, candidates)
MostSpecificRuleWins ==
    \A candidates \in {<<"m">>, <<"n", "m">>}, tier \in {"standard", "flex"}, tokens \in 0 .. 1 :
        WinsByRank(FindPrice("p", candidates, tier, tokens), "p", candidates, tier, tokens)

================================================================================
