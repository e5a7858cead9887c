---------------------------- MODULE ModelRegistry ----------------------------
(***************************************************************************)
(* The registry of the models that the credentials of a Home serve         *)
(* (registry/model_registry.go, as manager.go drives it).                  *)
(*                                                                         *)
(* Each registration of a model keeps reference counts, in all and by      *)
(* provider, and the marks of the clients that cannot serve it right now.  *)
(* They are adjusted by the difference whenever a client registers again   *)
(* with other models (a model may be listed twice) or another provider.    *)
(* Every operation runs under the mutex of the registry.                   *)
(***************************************************************************)
EXTENDS Integers, FiniteSets, FiniteSetsExt, Functions

CONSTANTS
    RegClients,    \* credentials
    RegModels,
    RegProviders,  \* with NoProvider among them
    MaxListed      \* bound: how often a client lists the same model

\* A client without a provider.
NoProvider == ""

ASSUME RegistryAssumption == NoProvider \in RegProviders /\ MaxListed \in Nat /\ IsFiniteSet(RegClients)

VARIABLES
    clientModels,     \* how often each client lists each model
    clientProviders,  \* the provider of each client
    models            \* the registrations; count 0 stands for none

registryVars == <<clientModels, clientProviders, models>>

NotListed == [m \in RegModels |-> 0]
NoRegistration == [count |-> 0, providers |-> [p \in RegProviders |-> 0], quota |-> {}, suspended |-> {}]

RegistryInit ==
    /\ clientModels = [c \in RegClients |-> NotListed]
    /\ clientProviders = [c \in RegClients |-> NoProvider]
    /\ models = [m \in RegModels |-> NoRegistration]

-------------------------------------------------------------------------------
\* The registration r of one model after one call.  A missing provider is not counted.
Counted(r, p, change) ==
    IF p = NoProvider THEN r ELSE [r EXCEPT !.providers[p] = Max({0, @ + change})]

Unmarked(r, c) == [r EXCEPT !.quota = {k \in @ : k.client # c}, !.suspended = {k \in @ : k.client # c}]

\* addModelRegistration, k times
WithAdded(r, p, k) == Counted([r EXCEPT !.count = @ + k], p, k)

\* removeModelRegistration, k times: the last one takes the registration with it
WithRemoved(r, c, p, k) ==
    IF k = 0 THEN r
    ELSE IF r.count <= k THEN NoRegistration
    ELSE Counted(Unmarked([r EXCEPT !.count = @ - k], c), p, -k)

\* unregisterClientInternal removes every listing in the same way.
Unregistered(r, c, p, k) == WithRemoved(r, c, p, k)

\* registerClient for a client that is registered: first the listings that stay leave the
\* old provider, then the surplus goes, then what is missing is added, and last what
\* stayed joins the new provider; the marks of the client start afresh.
Moved(r, old, new, from, to) ==
    IF from # to /\ new > 0 /\ old > 0 THEN Counted(r, from, -Min({old, new})) ELSE r

\* FAULTY variant: the listings join the new provider with their new number.
JoinedAll(r, old, new, from, to) == IF from # to THEN Counted(r, to, new) ELSE r

Joined(r, old, new, from, to) ==
    IF from # to THEN Counted(r, to, Min({old, new})) ELSE r

Reconciled(r, c, old, new, from, to) ==
    LET left == Moved(r, old, new, from, to)
        removed == WithRemoved(left, c, from, Max({0, old - new}))
        added == WithAdded(removed, to, Max({0, new - old}))
    IN  IF new = 0 THEN removed ELSE Joined(Unmarked(added, c), old, new, from, to)

-------------------------------------------------------------------------------
RegisterClient(c, listed, provider) ==
    /\ listed # NotListed
    /\ models' = [m \in RegModels |->
          IF clientModels[c] = NotListed THEN WithAdded(models[m], provider, listed[m])
          ELSE Reconciled(models[m], c, clientModels[c][m], listed[m], clientProviders[c], provider)]
    /\ clientModels' = [clientModels EXCEPT ![c] = listed]
    /\ clientProviders' = [clientProviders EXCEPT ![c] = provider]

\* Also registerClient without models.
UnregisterClient(c) ==
    /\ models' = [m \in RegModels |-> Unregistered(models[m], c, clientProviders[c], clientModels[c][m])]
    /\ clientModels' = [clientModels EXCEPT ![c] = NotListed]
    /\ clientProviders' = [clientProviders EXCEPT ![c] = NoProvider]

\* reconcileRegistryModelStatesLocked for one model of a credential: SetModelQuotaExceeded or
\* ClearModelQuotaExceeded, ResumeClientModel, SuspendClientModel, which do nothing when the
\* client does not list the model.
Supports(c, m) == clientModels[c][m] > 0

ReconcileModelState(c, m, state) ==
    /\ Supports(c, m)
    /\ LET cleared == Unmarked(models[m], c)
       IN  models' = [models EXCEPT ![m] =
              CASE state = "free" -> cleared
                [] state = "cooldown" ->
                      [cleared EXCEPT !.quota = @ \union {[client |-> c, recent |-> TRUE]},
                                      !.suspended = @ \union {[client |-> c, reason |-> "quota"]}]
                [] state = "blocked" ->
                      [cleared EXCEPT !.suspended = @ \union {[client |-> c, reason |-> "other"]}]]
    /\ UNCHANGED <<clientModels, clientProviders>>

\* modelQuotaExceededWindow
QuotaWindowPasses(m) ==
    /\ \E k \in models[m].quota :
          /\ k.recent
          /\ models' = [models EXCEPT ![m].quota = (@ \ {k}) \union {[k EXCEPT !.recent = FALSE]}]
    /\ UNCHANGED <<clientModels, clientProviders>>

RegistryNext ==
    \/ \E c \in RegClients :
          \/ \E listed \in [RegModels -> 0 .. MaxListed], p \in RegProviders : RegisterClient(c, listed, p)
          \/ UnregisterClient(c)
          \/ \E m \in RegModels, state \in {"free", "cooldown", "blocked"} : ReconcileModelState(c, m, state)
    \/ \E m \in RegModels : QuotaWindowPasses(m)

-------------------------------------------------------------------------------
\* modelRegistrationAvailability: what GetAvailableModelDefinitions lists.
Available(r) ==
    LET cooling == Cardinality({k \in r.quota : k.recent})
        other == Cardinality({k \in r.suspended : k.reason = "other"})
        coolingOnly == {k \in r.suspended : k.reason = "quota"}
    IN  \/ r.count - cooling - other > 0
        \/ r.count > 0 /\ (cooling > 0 \/ coolingOnly # {}) /\ other = 0

(* Whatever the clients registered before, with whichever providers and    *)
(* repetitions, the counts of a model are those of the clients that list   *)
(* it now: no model stays routed to a provider that has left it, and none  *)
(* is dropped while a client lists it.                                     *)
CountsMatchListings ==
    \A m \in RegModels :
        /\ models[m].count = SumFunction([c \in RegClients |-> clientModels[c][m]])
        /\ \A p \in RegProviders \ {NoProvider} :
              models[m].providers[p] =
                  SumFunction([c \in RegClients |-> IF clientProviders[c] = p THEN clientModels[c][m] ELSE 0])

(* A model that some credential can serve is listed: a credential that has *)
(* left, or has come back with other models, leaves no mark behind that    *)
(* would count against the others.                                         *)
ServableIsListed ==
    \A m \in RegModels, c \in RegClients :
        /\ clientModels[c][m] > 0
        /\ \A k \in models[m].quota \union models[m].suspended : k.client # c
        => Available(models[m])

(* What the registry offers is what its clients have: no count, provider   *)
(* or mark is left over from what they registered before.                  *)
RegistryConsistent == CountsMatchListings /\ ServableIsListed
=============================================================================
