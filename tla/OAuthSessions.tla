---------------------------- MODULE OAuthSessions ----------------------------
(***************************************************************************)
(* One pending login, shared by all Homes through the database             *)
(* (oauth_sessions.go, management/oauth_login.go, oauth.go, oauth_v8.go).  *)
(*                                                                         *)
(* Requests on any Home look at the session, talk to the provider and come *)
(* back to it later: callbacks (possibly repeated), a device flow that     *)
(* waits for the user, status polls, a cancellation, while the session may *)
(* run out.  Nothing is locked; every write is conditional on the row.     *)
(***************************************************************************)
EXTENDS Naturals, FiniteSets

CONSTANTS
    Flows,        \* requests that may end in credentials
    FlowKinds,    \* "callback" | "device"
    Polls         \* status polls

ASSUME SessionAssumption == FlowKinds \subseteq {"callback", "device"} /\ Flows \cap Polls = {}

VARIABLES
    session,      \* the row: its status and whether expires_at has passed, or NoSession
    flow,         \* the requests: what they do next and the row they have seen
    stored,       \* the flows whose credentials are in the database
    cancelled     \* the user was told that the login is cancelled

sessionVars == <<session, flow, stored, cancelled>>

NoSession == [status |-> "deleted", expired |-> FALSE]
Fresh == [at |-> "arrive", looks |-> 0, seen |-> NoSession, kind |-> "none"]

SessionInit ==
    /\ session = [status |-> "", expired |-> FALSE]
    /\ flow \in [Flows \union Polls -> {[Fresh EXCEPT !.kind = k] : k \in FlowKinds \union {"poll"}}]
    /\ \A f \in Flows \union Polls : flow[f].kind = "poll" <=> f \in Polls
    /\ stored = {} /\ cancelled = FALSE

PendingSession == session.status = "" /\ ~session.expired

-------------------------------------------------------------------------------
\* GetOAuthSession: read, settle what has run out, and read again.

SessionTTLPasses ==
    /\ session # NoSession /\ ~session.expired
    /\ session' = [session EXCEPT !.expired = TRUE]
    /\ UNCHANGED <<flow, stored, cancelled>>

Look(f) ==
    /\ flow[f].at = "arrive"
    /\ flow' = [flow EXCEPT ![f].seen = session,
                            ![f].at = CASE session.expired /\ session.status = "complete" -> "purge"
                                        [] session.expired /\ session.status = "" -> "expire"
                                        [] OTHER -> "looked"]
    /\ UNCHANGED <<session, stored, cancelled>>

PurgeCompleted(f) ==
    /\ flow[f].at = "purge"
    /\ session' = IF session.status = "complete" /\ session.expired THEN NoSession ELSE session
    /\ flow' = [flow EXCEPT ![f].at = "looked", ![f].seen = NoSession]
    /\ UNCHANGED <<stored, cancelled>>

ExpirePending(f) ==
    /\ flow[f].at = "expire"
    /\ session' = IF session.status = "" /\ session.expired THEN [session EXCEPT !.status = "error"] ELSE session
    /\ flow' = [flow EXCEPT ![f].at = "reload"]
    /\ UNCHANGED <<stored, cancelled>>

Reload(f) ==
    /\ flow[f].at = "reload"
    /\ flow' = [flow EXCEPT ![f].at = "looked", ![f].seen = session]
    /\ UNCHANGED <<session, stored, cancelled>>

\* A callback looks on arrival, when it merges its data into the session, when its
\* goroutine binds a context to the session and before it talks to the provider; a
\* device flow looks when it binds its context, and gives up when that is cancelled.
LooksNeeded(kind) == IF kind = "callback" THEN 4 ELSE 1

Looked(f) ==
    LET pending == flow[f].seen.status = ""
        looks == flow[f].looks + 1
    IN  /\ flow[f].at = "looked"
        /\ flow' = [flow EXCEPT
               ![f].looks = looks, ![f].seen = NoSession,
               ![f].at = CASE flow[f].kind = "poll" -> "done"
                           [] flow[f].kind = "device" -> IF pending THEN "exchange" ELSE "fail"
                           [] flow[f].kind = "callback" /\ ~pending -> "done"
                           [] flow[f].kind = "callback" /\ pending /\ looks = 2 -> "merge"
                           [] flow[f].kind = "callback" /\ pending /\ looks = LooksNeeded("callback") -> "exchange"
                           [] OTHER -> "arrive"]
        /\ UNCHANGED <<session, stored, cancelled>>

\* MergeOAuthSessionData writes only while the session is pending; the data itself is
\* left out.  A callback that carries an error ends the session instead.
Merge(f) ==
    /\ flow[f].at = "merge"
    /\ \E next \in {"arrive", "fail"} :
          flow' = [flow EXCEPT ![f].at = IF PendingSession THEN next ELSE "done"]
    /\ UNCHANGED <<session, stored, cancelled>>

\* The provider answers, or does not; a cancelled context also ends here.
Exchange(f) ==
    /\ flow[f].at = "exchange"
    /\ \E next \in {"store", "fail"} : flow' = [flow EXCEPT ![f].at = next]
    /\ UNCHANGED <<session, stored, cancelled>>

\* The time that decides whether the session has run out is taken before the transaction.
TakeNow(f) ==
    /\ flow[f].at = "store"
    /\ flow' = [flow EXCEPT ![f].at = "claim", ![f].seen = session]
    /\ UNCHANGED <<session, stored, cancelled>>

\* FAULTY variant: only a login that is completed already is refused.
ClaimedUnlessComplete(f) == session.status # "complete" /\ ~flow[f].seen.expired

\* completePendingOAuthSession
Claimed(f) == session.status = "" /\ ~flow[f].seen.expired

\* CompleteOAuthSessionWithAuths: one transaction claims the session and stores the
\* credentials; when they cannot be stored the claim is undone.
CompleteWithAuths(f) ==
    /\ flow[f].at = "claim"
    /\ \/ /\ Claimed(f)
          /\ session' = [status |-> "complete", expired |-> FALSE]
          /\ stored' = stored \union {f}
          /\ \E next \in {"done", "fail"} :    \* refreshAuths may still fail
                flow' = [flow EXCEPT ![f].at = next, ![f].seen = NoSession]
       \/ /\ flow' = [flow EXCEPT ![f].at = "fail", ![f].seen = NoSession]
          /\ UNCHANGED <<session, stored>>
    /\ UNCHANGED cancelled

\* SetOAuthSessionError
Fail(f) ==
    /\ flow[f].at = "fail"
    /\ session' = IF PendingSession THEN [status |-> "error", expired |-> FALSE] ELSE session
    /\ flow' = [flow EXCEPT ![f].at = "done"]
    /\ UNCHANGED <<stored, cancelled>>

\* CancelOAuthSession: also a session that has run out, as long as nobody has said so.
Cancel ==
    /\ session.status = ""
    /\ session' = [session EXCEPT !.status = "error"]
    /\ cancelled' = TRUE
    /\ UNCHANGED <<flow, stored>>

SessionNext ==
    \/ SessionTTLPasses \/ Cancel
    \/ \E f \in Flows \union Polls :
          \/ Look(f) \/ PurgeCompleted(f) \/ ExpirePending(f) \/ Reload(f) \/ Looked(f)
          \/ Merge(f) \/ Exchange(f) \/ TakeNow(f) \/ CompleteWithAuths(f) \/ Fail(f)

-------------------------------------------------------------------------------
(* Whichever of the callbacks, the device flow, the expiry and the         *)
(* cancellation comes first, at most one of them stores credentials, and   *)
(* none does once the user was told that the login is cancelled.           *)
OneLoginOrNone ==
    [][/\ stored' # stored => stored = {} /\ Cardinality(stored') = 1
       /\ cancelled' => stored' = {}]_sessionVars

(* A session that has been settled stays as it is: a late error, expiry or *)
(* cancellation cannot turn a completed login into a failed one, nor the   *)
(* other way round; a completed one may only be forgotten.                 *)
SessionSettlesOnce ==
    [][session.status # "" =>
         session'.status = session.status \/ (session.status = "complete" /\ session' = NoSession)]_sessionVars

(* A login has one outcome.                                                *)
LoginSettlesOnce == OneLoginOrNone /\ SessionSettlesOnce
=============================================================================
