------------------------- MODULE FingerprintRegistry -------------------------
(***************************************************************************)
(* The connections of CPA nodes and their fences                           *)
(* (internal/respserver/fingerprint_registry.go and server.go,             *)
(* cmd/home/cluster_event_handler.go), on top of the memberships.          *)
(*                                                                         *)
(* Every Home process keeps a registry with one entry per membership       *)
(* lifetime (0 for connections of no lifetime): whether it is fenced, its  *)
(* connections and the number of its running handlers.  A cancellation     *)
(* writes a cpa-fence event; each Home then fences the lifetime, closes    *)
(* its connections, waits until none and no handler is left, acknowledges  *)
(* and tries to complete the cancellation.                                 *)
(*                                                                         *)
(* A connection is served by one goroutine (HandleConn), whose position is *)
(* its phase.  Home rows do not age here: reclaiming the work of a silent  *)
(* Home is the subject of ConcurrencyLimiter.                              *)
(***************************************************************************)
EXTENDS Membership

CONSTANTS
    Connections,    \* identities of the connections that exist at one time
    NoConnection    \* the fence that no connection's goroutine waits for

ASSUME ConnectionsAssumption == IsFiniteSet(Connections) /\ NoConnection \notin Connections

VARIABLES
    conns,         \* the TrackedConnection and the HandleConn goroutine of each connection
    fenced,        \* the entries with fenced = true, as <<home, fingerprint, lifetime>>
    fences,        \* the calls of fence() in progress
    fenceEvents    \* cluster_events of scope cpa-fence, as <<fingerprint, lifetime, revision>>

registryVars == <<conns, fenced, fences, fenceEvents>>

vars == <<homes, up, activePolicyCount, members, classifying, participations, quiescence,
          lifecycleRevision, conns, fenced, fences, fenceEvents>>

(***************************************************************************)
(* at is the lifetime fixed when the connection was classified, entry the  *)
(* one it is registered under; closed tells how far the connection's only  *)
(* Close has come; granted: the reply to be written carries an accounted   *)
(* admission; attach: the lifetime subscribed to by the running command;   *)
(* attached: the one of the subscription; subscribed: it was not undone;   *)
(* beating: its heartbeat goroutine runs.                                  *)
(***************************************************************************)
Phases == {"none", "joining", "accepting", "reading", "handling", "attaching", "replying",
           "undelivered", "local", "unlive", "fencing", "closing", "ended"}

ConnRecords ==
    [phase : Phases, home : Incarnations \union {NoHome}, fingerprint : Fingerprints,
     at : Nat, entry : Nat, tracked : BOOLEAN, open : BOOLEAN,
     closed : {"no", "socket", "done"}, granted : BOOLEAN, attach : Nat, attached : Nat,
     subscribed : BOOLEAN, beating : BOOLEAN]

NoConn ==
    [phase |-> "none", home |-> NoHome, fingerprint |-> CHOOSE f \in Fingerprints : TRUE,
     at |-> 0, entry |-> 0, tracked |-> FALSE, open |-> FALSE, closed |-> "no",
     granted |-> FALSE, attach |-> 0, attached |-> 0, subscribed |-> FALSE,
     beating |-> FALSE]

FenceRecords ==
    [home : Incarnations, fingerprint : Fingerprints, at : Nat, revision : Nat,
     waiter : Connections \union {NoConnection}, todo : SUBSET Connections,
     acknowledged : BOOLEAN]

\* HandleConn is about to return; its deferred calls stop the subscription, then close.
Closing(c) ==
    [c EXCEPT !.phase = "closing", !.granted = FALSE, !.attach = 0, !.subscribed = FALSE, !.beating = FALSE]

EntryOf(x) == <<conns[x].home, conns[x].fingerprint, conns[x].entry>>

\* entry.connections and the connections whose handler counts in entry.handlers.
ConnectionsOf(e) == {x \in Connections : conns[x].tracked /\ EntryOf(x) = e}

HandlersOf(e) == {x \in Connections : conns[x].phase = "handling" /\ EntryOf(x) = e}

Init ==
    /\ HomeInit
    /\ MemberInit
    /\ activePolicyCount = 0
    /\ conns = [x \in Connections |-> NoConn]
    /\ fenced = {}
    /\ fences = {}
    /\ fenceEvents = {}

-------------------------------------------------------------------------------
(* HandleConn, up to the command loop *)

\* A connection arrives at a running Home, which reads the membership (ClassifyConnection).
OpenConnection(x, f, h) ==
    /\ h \in up
    /\ conns[x].phase = "none"
    /\ LET controlled == ActiveLifetime(f, members[f].connectedAt, h) IN
       conns' = [conns EXCEPT ![x] =
            [NoConn EXCEPT !.phase = IF controlled THEN "joining" ELSE "accepting",
                           !.at = IF controlled THEN members[f].connectedAt ELSE 0,
                           !.home = h, !.fingerprint = f, !.open = TRUE]]
    /\ UNCHANGED <<participations, fenced, fences>>

\* RecordParticipation; when it fails the connection is closed.
JoinConnection(x) ==
    LET c == conns[x] IN
    /\ c.phase = "joining"
    /\ RecordParticipation(c.fingerprint, c.at, c.home)
    /\ conns' = [conns EXCEPT ![x] =
            IF Joinable(c.fingerprint, c.at, c.home) THEN [c EXCEPT !.phase = "accepting"] ELSE NoConn]
    /\ UNCHANGED <<fenced, fences>>

\* Faulty variant: a fenced entry still takes connections.
AcceptIgnoresFence(x) ==
    /\ conns[x].phase = "accepting"
    /\ conns' = [conns EXCEPT ![x] =
            [conns[x] EXCEPT !.phase = "reading", !.entry = conns[x].at, !.tracked = TRUE]]
    /\ UNCHANGED <<participations, fenced, fences>>

\* FingerprintRegistry.Accept: a fenced lifetime takes no more connections.
Accept(x) ==
    LET c == conns[x] IN
    /\ c.phase = "accepting"
    /\ conns' = [conns EXCEPT ![x] =
            IF <<c.home, c.fingerprint, c.at>> \in fenced THEN NoConn
            ELSE [c EXCEPT !.phase = "reading", !.entry = c.at, !.tracked = TRUE]]
    /\ UNCHANGED <<participations, fenced, fences>>

-------------------------------------------------------------------------------
(* The command loop *)

\* Faulty variant: a command already buffered runs although its lifetime is fenced.
BeginIgnoresFence(x) ==
    /\ conns[x].phase = "reading"
    /\ conns' = [conns EXCEPT ![x].phase = "handling"]

\* A command was read, perhaps from the buffer of a closed socket (BeginHandler).
BeginHandler(x) ==
    /\ conns[x].phase = "reading"
    /\ conns' = [conns EXCEPT ![x] =
            IF EntryOf(x) \in fenced THEN Closing(conns[x]) ELSE [conns[x] EXCEPT !.phase = "handling"]]

\* The read fails once the socket is closed and the buffer empty.
ReadFails(x) ==
    /\ conns[x].phase = "reading"
    /\ ~ conns[x].open
    /\ conns' = [conns EXCEPT ![x] = Closing(conns[x])]

\* A dispatch that is admitted under the lifetime of the connection.
AdmitDispatch(x) ==
    /\ conns[x].phase = "handling"
    /\ ~ conns[x].granted
    /\ conns[x].attach = 0
    /\ ActiveLifetime(conns[x].fingerprint, conns[x].at, conns[x].home)
    /\ HomeActive(conns[x].home)
    /\ conns' = [conns EXCEPT ![x].granted = TRUE]

\* SUBSCRIBE config: the membership moves here, the connection follows when the command ends.
SubscribeCommand(x, takeover) ==
    LET c == conns[x] IN
    /\ c.phase = "handling"
    /\ ~ c.granted /\ c.attach = 0 /\ ~ c.subscribed
    /\ SubscribeMembership(c.fingerprint, c.home, 1, 1, takeover)
    /\ conns' = [conns EXCEPT ![x].attach = members'[c.fingerprint].connectedAt]
    /\ UNCHANGED <<fenced, fences, fenceEvents>>

\* UNSUBSCRIBE config stops the heartbeat and keeps the lifetime attached.
UnsubscribeCommand(x) ==
    /\ conns[x].phase = "handling"
    /\ conns[x].subscribed
    /\ conns' = [conns EXCEPT ![x].phase = "replying", ![x].subscribed = FALSE, ![x].beating = FALSE]

\* PING on a subscription whose liveness cannot be recorded, for whatever reason.
PingFails(x) ==
    /\ conns[x].phase = "handling"
    /\ conns[x].subscribed
    /\ conns' = [conns EXCEPT ![x].phase = "unlive"]

\* The command returns and finishHandler runs; its reply is written after that.
FinishHandler(x) ==
    /\ conns[x].phase = "handling"
    /\ conns' = [conns EXCEPT ![x].phase = IF conns[x].attach > 0 THEN "attaching" ELSE "replying"]

(***************************************************************************)
(* AttachSubscriptionLifetime: the connection moves to the entry of its    *)
(* subscription.  It is not told whether the connection was closed in the  *)
(* meantime.  A second subscription is moved and then refused.             *)
(***************************************************************************)
Attach(x) ==
    LET c == conns[x]
        refused == <<c.home, c.fingerprint, c.attach>> \in fenced
    IN
    /\ c.phase = "attaching"
    /\ conns' = [conns EXCEPT ![x] =
            IF refused THEN Closing(c)
            ELSE LET moved == [c EXCEPT !.entry = c.attach, !.tracked = TRUE] IN
                 IF c.attached > 0 THEN Closing(moved)
                 ELSE [moved EXCEPT !.attached = c.attach, !.phase = "replying"]]

\* The reply reaches the socket; a subscription starts its heartbeat.
DeliverReply(x) ==
    /\ conns[x].phase = "replying"
    /\ conns[x].open
    /\ conns' = [conns EXCEPT ![x].phase = "reading", ![x].granted = FALSE,
                              ![x].subscribed = @ \/ conns[x].attach > 0,
                              ![x].beating = @ \/ conns[x].attach > 0, ![x].attach = 0]

\* The reply cannot be prepared or written.
WriteFails(x) ==
    /\ conns[x].phase = "replying"
    /\ conns' = [conns EXCEPT ![x] =
            IF conns[x].granted THEN [conns[x] EXCEPT !.phase = "undelivered"] ELSE Closing(conns[x])]

\* The CPA, or the network, closes the connection.
PeerCloses(x) ==
    /\ conns[x].open
    /\ conns[x].phase # "closing"
    /\ conns' = [conns EXCEPT ![x].open = FALSE]

\* The steps of a connection that touch nothing but the connection itself.
LoopStep(x) ==
    /\ \/ BeginHandler(x) \/ ReadFails(x) \/ AdmitDispatch(x) \/ UnsubscribeCommand(x)
       \/ PingFails(x) \/ FinishHandler(x) \/ Attach(x) \/ DeliverReply(x) \/ WriteFails(x)
       \/ PeerCloses(x)
    /\ UNCHANGED <<participations, fenced, fences>>

-------------------------------------------------------------------------------
(* Heartbeats *)

\* A heartbeat of the subscription, or a PING, is recorded before it is answered.
RecordLiveness(x) ==
    /\ conns[x].beating \/ (conns[x].phase = "handling" /\ conns[x].subscribed)
    /\ RefreshCPALiveness(conns[x].fingerprint, conns[x].entry, conns[x].home)

\* fence() up to the release of its locks: the entry is fenced, its connections are listed.
StartFence(e, revision, waiter) ==
    /\ fenced' = fenced \union {e}
    /\ fences' = fences \union
            {[home |-> e[1], fingerprint |-> e[2], at |-> e[3], revision |-> revision,
              waiter |-> waiter, todo |-> ConnectionsOf(e), acknowledged |-> FALSE]}

\* The heartbeat cannot be recorded, for whatever reason: its goroutine fences the lifetime.
HeartbeatFails(x) ==
    /\ conns[x].beating
    /\ StartFence(EntryOf(x), 0, NoConnection)
    /\ conns' = [conns EXCEPT ![x].beating = FALSE]

\* The pong cannot be written: the heartbeat goroutine just ends.
PongFails(x) ==
    /\ conns[x].beating
    /\ conns' = [conns EXCEPT ![x].beating = FALSE]
    /\ UNCHANGED <<fenced, fences>>

\* A PING that could not be recorded: the connection's goroutine fences and waits.
FenceAfterPing(x) ==
    /\ conns[x].phase = "unlive"
    /\ StartFence(EntryOf(x), 0, x)
    /\ conns' = [conns EXCEPT ![x].phase = "fencing"]

-------------------------------------------------------------------------------
(* Cancellation, fence and acknowledgement *)

\* beginFingerprintCancellationForMembershipTx ends by writing the cpa-fence event.
PublishFence(f) ==
    fenceEvents' = fenceEvents \union {<<f, members'[f].connectedAt, members'[f].cancelRevision>>}

(***************************************************************************)
(* fenceAccountedDispatch: the lifetime is canceled everywhere if the      *)
(* database lets us, and fenced locally in any case.                       *)
(***************************************************************************)
CancelUndelivered(x) ==
    LET c == conns[x] IN
    /\ c.phase = "undelivered"
    /\ BeginFingerprintCancellationForLifetime(c.fingerprint, c.at, c.home)
    /\ PublishFence(c.fingerprint)
    /\ conns' = [conns EXCEPT ![x].phase = "local"]
    /\ UNCHANGED <<fenced, fences>>

CancelFails(x) ==
    /\ conns[x].phase = "undelivered"
    /\ conns' = [conns EXCEPT ![x].phase = "local"]
    /\ UNCHANGED <<fenced, fences>>

FenceLocally(x) ==
    /\ conns[x].phase = "local"
    /\ StartFence(<<conns[x].home, conns[x].fingerprint, conns[x].at>>, 0, x)
    /\ conns' = [conns EXCEPT ![x].phase = "fencing"]

\* CleanupStaleMemberships, by any running Home.
CleanupStale(f) ==
    /\ CleanupStaleMembership(f)
    /\ PublishFence(f)
    /\ UNCHANGED <<conns, fenced, fences>>

(***************************************************************************)
(* handleCPAFence, for an event of the log or a pending row found by       *)
(* recoverCPAFences.  An event stays in the log after its lifetime has     *)
(* been taken over.                                                        *)
(***************************************************************************)
HandleCPAFence(h, event) ==
    /\ h \in up
    /\ \A t \in fences : t.revision > 0 => <<t.home, t.fingerprint, t.at>> # <<h, event[1], event[2]>>
    /\ StartFence(<<h, event[1], event[2]>>, event[3], NoConnection)
    /\ UNCHANGED conns

\* Faulty variant: the connection leaves its entry before its socket is closed.
UntrackFirst(x) ==
    /\ conns[x].closed = "no"
    /\ conns[x].phase = "closing" \/ \E t \in fences : x \in t.todo
    /\ conns' = [conns EXCEPT ![x].closed = "socket", ![x].tracked = FALSE]
    /\ UNCHANGED <<fenced, fences>>

\* TrackedConnection.Close, called once, by a fence or by HandleConn: first the socket ...
CloseSocket(x) ==
    /\ conns[x].closed = "no"
    /\ conns[x].phase = "closing" \/ \E t \in fences : x \in t.todo
    /\ conns' = [conns EXCEPT ![x].closed = "socket", ![x].open = FALSE]
    /\ UNCHANGED <<fenced, fences>>

\* ... then the entry.
Untrack(x) ==
    /\ conns[x].closed = "socket"
    /\ conns' = [conns EXCEPT ![x].closed = "done", ![x].tracked = FALSE, ![x].open = FALSE]
    /\ UNCHANGED <<fenced, fences>>

\* Close returns to the fence that called it, which goes on to the next connection.
FenceClosed(t, x) ==
    /\ x \in t.todo
    /\ conns[x].closed = "done"
    /\ fences' = (fences \ {t}) \union {[t EXCEPT !.todo = @ \ {x}]}
    /\ UNCHANGED <<conns, fenced>>

\* HandleConn returns; the identity is free again once no one refers to the connection.
EndConnection(x) ==
    /\ conns[x].phase \in {"closing", "ended"}
    /\ conns[x].closed = "done"
    /\ conns' = [conns EXCEPT ![x] =
            IF conns[x].tracked \/ \E t \in fences : x \in t.todo
            THEN [conns[x] EXCEPT !.phase = "ended"] ELSE NoConn]
    /\ UNCHANGED <<fenced, fences>>

\* What a fence waits for after it has closed the connections it listed.
Drained(t) ==
    /\ t.todo = {}
    /\ ConnectionsOf(<<t.home, t.fingerprint, t.at>>) = {}
    /\ HandlersOf(<<t.home, t.fingerprint, t.at>>) = {}

\* A local fence ends; a connection that waited for it is closed.
LocalFenceEnds(t) ==
    /\ t.revision = 0
    /\ Drained(t)
    /\ fences' = fences \ {t}
    /\ conns' = IF t.waiter = NoConnection THEN conns ELSE [conns EXCEPT ![t.waiter] = Closing(@)]
    /\ UNCHANGED fenced

\* The drained entry is acknowledged while its lock is held.
AcknowledgeFence(t) ==
    /\ t.revision > 0 /\ ~ t.acknowledged
    /\ Drained(t)
    /\ AcknowledgeQuiescence(t.fingerprint, t.at, t.revision, t.home)
    /\ fences' = (fences \ {t}) \union {[t EXCEPT !.acknowledged = TRUE]}
    /\ UNCHANGED <<conns, fenced>>

\* The revision and lifetime checks of AcknowledgeQuiescence.
RevisionMatches(t) ==
    /\ members[t.fingerprint].state = "canceling"
    /\ members[t.fingerprint].cancelRevision = t.revision
    /\ members[t.fingerprint].connectedAt = t.at
    /\ \E row \in RowsOf(t.fingerprint, t.at, t.revision) : row.home = t.home

\* The acknowledgement finds another revision, another lifetime or no row: the event is done.
AcknowledgeMismatch(t) ==
    /\ t.revision > 0 /\ ~ t.acknowledged
    /\ Drained(t)
    /\ ~ RevisionMatches(t)
    /\ fences' = fences \ {t}
    /\ UNCHANGED <<conns, fenced>>

\* CompleteFingerprintCancellation, and the end of the event when others are still awaited.
CompleteFence(t) ==
    /\ t.acknowledged
    /\ CompleteCancellation(t.fingerprint, t.at, t.revision)
    /\ fences' = fences \ {t}
    /\ UNCHANGED <<conns, fenced>>

CompleteLater(t) ==
    /\ t.acknowledged
    /\ ~ (RevisionMatches(t) /\ Quiescent(t.fingerprint, RowsOf(t.fingerprint, t.at, t.revision)))
    /\ fences' = fences \ {t}
    /\ UNCHANGED <<conns, fenced>>

-------------------------------------------------------------------------------
(* Home processes *)

StartHome(h) ==
    /\ RegisterHomeIncarnation(h, TRUE)
    /\ UNCHANGED <<conns, fenced, fences>>

\* The process ends, in order or not, and its registry, goroutines and sockets with it.
StopHome(h) ==
    /\ CrashHome(h) \/ RetireHomeIncarnation(h)
    /\ conns' = [x \in Connections |-> IF conns[x].home = h THEN NoConn ELSE conns[x]]
    /\ fenced' = {e \in fenced : e[1] # h}
    /\ fences' = {t \in fences : t.home # h}

-------------------------------------------------------------------------------
ConnectionStep ==
    /\ \E x \in Connections :
        \/ \E f \in Fingerprints, h \in Incarnations : OpenConnection(x, f, h)
        \/ JoinConnection(x) \/ Accept(x) \/ LoopStep(x)
    /\ UNCHANGED <<homes, up, members, quiescence, fenceEvents>>

\* Steps of the heartbeats, the fences and the end of connections, in this process only.
LocalStep ==
    /\ \/ \E x \in Connections :
            \/ HeartbeatFails(x) \/ PongFails(x) \/ FenceAfterPing(x) \/ CancelFails(x)
            \/ FenceLocally(x) \/ CloseSocket(x) \/ Untrack(x) \/ EndConnection(x)
       \/ \E h \in Incarnations, event \in fenceEvents : HandleCPAFence(h, event)
       \/ \E t \in fences :
            \/ \E x \in Connections : FenceClosed(t, x)
            \/ LocalFenceEnds(t) \/ AcknowledgeMismatch(t) \/ CompleteLater(t)
    /\ UNCHANGED <<homes, up, members, participations, quiescence, fenceEvents>>

MembershipStep ==
    \/ \E x \in Connections : UNCHANGED <<homes, up>> /\
        \/ \E takeover \in BOOLEAN : SubscribeCommand(x, takeover)
        \/ RecordLiveness(x) /\ UNCHANGED registryVars
    \/ \E f \in Fingerprints : MemberAges(f) /\ UNCHANGED <<homes, up>> /\ UNCHANGED registryVars
    \/ \E t \in fences : (AcknowledgeFence(t) \/ CompleteFence(t)) /\ UNCHANGED <<homes, up, fenceEvents>>
    \/ \E x \in Connections : CancelUndelivered(x)
    \/ \E f \in Fingerprints : CleanupStale(f)

HomeStep ==
    /\ \E h \in Incarnations : StartHome(h) \/ StopHome(h)
    /\ UNCHANGED <<members, participations, quiescence, fenceEvents>>

Next ==
    /\ ConnectionStep \/ LocalStep \/ MembershipStep \/ HomeStep
    /\ UNCHANGED <<activePolicyCount, classifying, lifecycleRevision>>

Spec == Init /\ [][Next]_vars

-------------------------------------------------------------------------------
(* Properties *)

\* What an acknowledgement stands for: as long as the Home that gave it runs, it has no handler
\* of that lifetime, and no grant of that lifetime that could still reach the CPA
\* (FenceAndAcknowledge, although replies are written after their handler has ended).
AcknowledgedIsDrained ==
    \A row \in quiescence :
        row.status = "acknowledged" /\ row.home \in up =>
            /\ HandlersOf(<<row.home, row.fingerprint, row.connectedAt>>) = {}
            /\ \A x \in Connections :
                conns[x].home = row.home /\ conns[x].fingerprint = row.fingerprint
                /\ conns[x].at = row.connectedAt /\ conns[x].granted => ~ conns[x].open

\* No grant is delivered once its lifetime is closed and its slots are given to others.
NoGrantAfterReclaim ==
    [][\A x \in Connections :
        LET c == conns[x] IN
        c.granted /\ conns'[x].phase = "reading" =>
            ~ (members[c.fingerprint].state = "closed" /\ members[c.fingerprint].connectedAt = c.at)]_vars

\* "Close stops the tracked connection and removes it from its lifetime entry": a connection
\* whose HandleConn has returned is in no entry.
ClosedIsUntracked ==
    \A x \in Connections : conns[x].phase = "ended" => ~ conns[x].tracked

-------------------------------------------------------------------------------
(***************************************************************************)
(* Fairness: goroutines run, a command ends (its context is canceled with  *)
(* the connection), a blocked read or write on a closed socket returns.    *)
(* Nothing is assumed of the CPA nodes or of the commands they send.       *)
(***************************************************************************)
Goroutine(x) ==
    \/ /\ \/ ReadFails(x) \/ FinishHandler(x) \/ Attach(x) \/ DeliverReply(x) \/ WriteFails(x)
       /\ UNCHANGED <<homes, up, activePolicyCount, memberVars, fenced, fences, fenceEvents>>
    \/ /\ FenceAfterPing(x) \/ CancelFails(x) \/ FenceLocally(x) \/ EndConnection(x)
       /\ UNCHANGED <<homes, up, activePolicyCount, memberVars, fenceEvents>>

\* Close runs in the goroutine that called it, which may be a fence's.
Closer(x) ==
    /\ CloseSocket(x) \/ Untrack(x)
    /\ UNCHANGED <<homes, up, activePolicyCount, memberVars, fenceEvents>>

FenceProceeds(h, f, at, local) ==
    \E t \in fences :
        /\ t.home = h /\ t.fingerprint = f /\ t.at = at /\ (t.revision = 0 <=> local)
        /\ \/ /\ \/ \E x \in Connections : FenceClosed(t, x)
                 \/ LocalFenceEnds(t) \/ AcknowledgeMismatch(t) \/ CompleteLater(t)
              /\ UNCHANGED memberVars
           \/ AcknowledgeFence(t) \/ CompleteFence(t)
        /\ UNCHANGED <<homes, up, activePolicyCount, fenceEvents>>

FairSpec ==
    /\ Spec
    /\ \A x \in Connections : WF_vars(Goroutine(x)) /\ WF_vars(Closer(x))
    /\ \A h \in Incarnations, f \in Fingerprints, at \in 0 .. MaxLifetime, local \in BOOLEAN :
            WF_vars(FenceProceeds(h, f, at, local))

\* A fence for an event ends, with its acknowledgement or because it was overtaken, unless its
\* Home stops or a connection was moved after its Close (see ClosedIsUntracked): nobody waits
\* for anybody in a circle, although connections fence and wait as well.
FenceEnds ==
    \A h \in Incarnations, f \in Fingerprints, at \in 1 .. MaxLifetime :
        (\E t \in fences : t.home = h /\ t.fingerprint = f /\ t.at = at /\ t.revision > 0)
            ~> \/ ~ \E t \in fences : t.home = h /\ t.fingerprint = f /\ t.at = at /\ t.revision > 0
               \/ \E x \in Connections : conns[x].tracked /\ conns[x].closed = "done"
==============================================================================
