---------------------------- MODULE MCComponents ----------------------------
(***************************************************************************)
(* Components that share no state in these models, checked in one run: a   *)
(* behaviour is one of a single component, the focus, while the others     *)
(* stay where they start.                                                  *)
(***************************************************************************)
EXTENDS Refresh, AutoRefresh, AuthCache, OAuthSessions, ModelRegistry, QuotaProbe,
        InFlight, SnapshotCursor, KeyValueStore, Billing, PriceRules, ChargeSplit

\* Two Homes refreshing one credential, or one each of two that hold the same tokens.
RefreshCrews == {{<<"h", "a">>, <<"k", "a">>}, {<<"h", "a">>, <<"k", "b">>}}
CacheVersions == [u \in Uuids |-> IF u = "x" THEN 2 ELSE 1]
InFlightBodies == {{"g"}, {"h", "i"}}
Identity(p, m, t, b) == [provider |-> p, model |-> m, tier |-> t, band |-> b]
PriceIdentities ==
    {Identity("p", "m", "any", 0), Identity("p", "m", "flex", 0), Identity("p", "m", "any", 1),
     Identity("p", "long*", "any", 0), Identity("p", "*", "any", 0), Identity("any", "n", "any", 0)}
PriceTargets == {Identity("p", "m", "any", 0), Identity("p", "m", "any", 1)}

VARIABLE focus

\* One start for a component that is not in focus, and one of two starts that only differ
\* by an exchange of names.
Aside ==
    /\ row["b"].fence = "none"
    /\ focus # "refresh" => refreshing = {<<"h", "a">>, <<"k", "a">>} /\ \A a \in Auths : row[a].fence = "none"
    /\ focus # "schedule" => \A id \in Credentials : table[id] = Gone
    /\ focus # "login" => \A f \in Flows : flow[f].kind = "callback"
    /\ focus # "billing" => billOwned /\ billUser.limit = NoLimit /\ billUser.mode = "first_use"

Init ==
    /\ focus \in {"refresh", "schedule", "cache", "login", "registry", "quota",
                  "inFlight", "cursor", "kv", "billing", "prices", "charge"}
    /\ RefreshInit /\ AutoInit /\ AuthCacheInit /\ SessionInit /\ RegistryInit /\ QuotaInit
    /\ InFlightInit /\ CursorInit /\ KVInit /\ BillingInit /\ PriceInit
    /\ Aside
    /\ IF focus = "charge" THEN SplitInit
       ELSE splitUsage = [f \in Fields |-> 0] /\ splitPrice = BasePrice /\ splitCost = {}

credentialVars == <<refreshVars, autoVars, authCacheVars, sessionVars, registryVars, quotaVars>>
accountVars == <<inFlightVars, cursorVars, kvVars, billVars, priceVars, splitVars>>

Next ==
    /\ UNCHANGED focus
    /\ \/ /\ focus = "refresh" /\ RefreshNext
          /\ UNCHANGED <<autoVars, authCacheVars, sessionVars, registryVars, quotaVars, accountVars>>
       \/ /\ focus = "schedule" /\ AutoNext
          /\ UNCHANGED <<refreshVars, authCacheVars, sessionVars, registryVars, quotaVars, accountVars>>
       \/ /\ focus = "cache" /\ AuthCacheNext
          /\ UNCHANGED <<refreshVars, autoVars, sessionVars, registryVars, quotaVars, accountVars>>
       \/ /\ focus = "login" /\ SessionNext
          /\ UNCHANGED <<refreshVars, autoVars, authCacheVars, registryVars, quotaVars, accountVars>>
       \/ /\ focus = "registry" /\ RegistryNext
          /\ UNCHANGED <<refreshVars, autoVars, authCacheVars, sessionVars, quotaVars, accountVars>>
       \/ /\ focus = "quota" /\ QuotaNext
          /\ UNCHANGED <<refreshVars, autoVars, authCacheVars, sessionVars, registryVars, accountVars>>
       \/ /\ focus = "inFlight" /\ InFlightNext
          /\ UNCHANGED <<credentialVars, cursorVars, kvVars, billVars, priceVars, splitVars>>
       \/ /\ focus = "cursor" /\ CursorNext
          /\ UNCHANGED <<credentialVars, inFlightVars, kvVars, billVars, priceVars, splitVars>>
       \/ /\ focus = "kv" /\ KVNext
          /\ UNCHANGED <<credentialVars, inFlightVars, cursorVars, billVars, priceVars, splitVars>>
       \/ /\ focus = "billing" /\ BillingNext
          /\ UNCHANGED <<credentialVars, inFlightVars, cursorVars, kvVars, priceVars, splitVars>>
       \/ /\ focus = "prices" /\ PriceNext
          /\ UNCHANGED <<credentialVars, inFlightVars, cursorVars, kvVars, billVars, splitVars>>
       \/ /\ focus = "charge" /\ SplitNext
          /\ UNCHANGED <<credentialVars, inFlightVars, cursorVars, kvVars, billVars, priceVars>>

\* Nobody touches a credential that is not refreshed; of two that are, operators only restore
\* the files.
RelevantEdits ==
    IF refreshing = {<<"h", "a">>, <<"k", "a">>} THEN row["b"] = FreshRow("none")
    ELSE \A a \in Auths : edited[a] = 0 /\ ~row[a].disabled /\ row[a].access # 0

\* Of two keys of the key-value store, one is used once time has passed.
OneKeyExpires == kvNow > 1 => kvRow[2] = NoRow

Bound == RelevantEdits /\ OneKeyExpires

\* The components that are not in focus never change: only the one in focus tells two
\* states apart.
FocusView ==
    CASE focus = "refresh" -> <<focus, refreshVars>>
      [] focus = "schedule" -> <<focus, autoVars>>
      [] focus = "cache" -> <<focus, authCacheVars>>
      [] focus = "login" -> <<focus, sessionVars>>
      [] focus = "registry" -> <<focus, registryVars>>
      [] focus = "quota" -> <<focus, quotaVars>>
      [] focus = "inFlight" -> <<focus, inFlightVars>>
      [] focus = "cursor" -> <<focus, cursorVars>>
      [] focus = "kv" -> <<focus, kvVars>>
      [] focus = "billing" -> <<focus, billVars>>
      [] focus = "prices" -> <<focus, priceVars>>
      [] focus = "charge" -> <<focus, splitVars>>
=============================================================================
