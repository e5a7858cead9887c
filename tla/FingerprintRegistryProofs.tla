----------------------- MODULE FingerprintRegistryProofs -----------------------
(***************************************************************************)
(* Machine-checked proof of what an acknowledgement of a fence stands for, *)
(* for any number of Homes, CPA nodes, connections and lifetimes: nothing  *)
(* of the lifetime runs at the Home that gave it, no grant of it can still *)
(* be delivered there, and so no grant is delivered after a reclaim.       *)
(*                                                                         *)
(* The invariant relates three views of one lifetime: the membership and   *)
(* its rows in the database (TablesInv), each connection's goroutine       *)
(* (ConnInv), and the fences of the registry (FenceInv).                   *)
(***************************************************************************)
EXTENDS FingerprintRegistry, FiniteSetTheorems, TLAPS

-------------------------------------------------------------------------------
(* The inductive invariant. *)

\* A connection that is not there is NoConn, whatever fingerprint that carries.
Conns == {c \in ConnRecords : c.phase # "none"} \union {NoConn}

RegistryTypes ==
    /\ homes \in [Incarnations -> HomeRecords]
    /\ up \subseteq Incarnations
    /\ members \in [Fingerprints -> MemberRecords]
    /\ participations \subseteq Participations
    /\ quiescence \subseteq QuiescenceRows
    /\ conns \in [Connections -> Conns]
    /\ fenced \subseteq Incarnations \X Fingerprints \X Nat
    /\ fences \subseteq FenceRecords
    /\ fenceEvents \subseteq Fingerprints \X Nat \X Nat

\* Home rows do not age in this module, and whoever is named in a table was registered.
HomesInv ==
    /\ \A h \in Incarnations : homes[h].age = Fresh
    /\ \A h \in up : homes[h].state # "none"
    /\ \A p \in participations : homes[p.home].state # "none"
    /\ \A q \in quiescence : homes[q.home].state # "none"
    /\ \A f \in Fingerprints : Open(f) =>
        /\ members[f].home \in Incarnations
        /\ homes[members[f].home].state # "none"

\* The rows of a cancellation belong to a lifetime that is over or about to end, and a
\* canceling membership waits for everyone who takes part.
TablesInv ==
    /\ \A f \in Fingerprints : Open(f) => members[f].connectedAt > 0
    /\ \A q \in quiescence :
        /\ q.status # "fenced"
        /\ q.connectedAt <= members[q.fingerprint].connectedAt
        /\ q.connectedAt = members[q.fingerprint].connectedAt =>
               members[q.fingerprint].state \in {"canceling", "closed"}
    /\ \A p \in participations : members[p.fingerprint].state = "canceling"
            /\ members[p.fingerprint].connectedAt = p.connectedAt =>
        \E q \in RowsOf(p.fingerprint, p.connectedAt, members[p.fingerprint].cancelRevision) :
            q.home = p.home

\* Where a connection can be while it carries an admission that is not answered yet.
GrantPhases == {"handling", "unlive", "replying", "undelivered", "local", "fencing"}

\* What one connection c, served at a Home, may be.
ConnInv(c) ==
    c.phase # "none" =>
        /\ c.home \in up
        /\ c.at <= members[c.fingerprint].connectedAt
        /\ c.closed = "done" => ~ c.open
        /\ c.phase \in {"joining", "accepting"} => ~ c.tracked
        /\ c.attach > 0 => c.at < c.attach /\ c.attach <= members[c.fingerprint].connectedAt
        /\ c.phase = "attaching" => c.attach > 0
        /\ c.phase \notin {"joining", "accepting"} =>
             /\ c.tracked \/ c.closed = "done"
             /\ c.entry = c.at \/ c.at < members[c.fingerprint].connectedAt
        /\ c.phase # "joining" /\ c.at > 0 /\ c.at = members[c.fingerprint].connectedAt
             /\ Open(c.fingerprint) => Serving(c.fingerprint, c.at, c.home) \in participations
        /\ c.granted =>
             /\ c.phase \in GrantPhases
             /\ c.attach = 0
             /\ c.entry = c.at
             /\ members[c.fingerprint].state = "closed" /\ members[c.fingerprint].connectedAt = c.at => ~ c.open

\* A running fence t has fenced its entry, and the connections it closes and the one that
\* waits for it are still there.
FenceOf(t) ==
    /\ t.home \in up /\ <<t.home, t.fingerprint, t.at>> \in fenced
    /\ \A x \in t.todo :
        conns[x].phase \notin {"none", "joining", "accepting"} /\ conns[x].home = t.home
    /\ t.waiter # NoConnection => conns[t.waiter].phase = "fencing" /\ conns[t.waiter].home = t.home

\* A connection waits for one fence at a time.
WaitersDiffer ==
    \A s, t \in fences : s.waiter = t.waiter /\ t.waiter # NoConnection => s = t

\* An acknowledged lifetime stays fenced.
FenceInv ==
    /\ \A t \in fences : FenceOf(t)
    /\ WaitersDiffer
    /\ \A q \in quiescence : q.status = "acknowledged" /\ q.home \in up =>
        <<q.home, q.fingerprint, q.connectedAt>> \in fenced

RegistryInv ==
    /\ RegistryTypes
    /\ HomesInv
    /\ TablesInv
    /\ \A x \in Connections : ConnInv(conns[x])
    /\ FenceInv
    /\ AcknowledgedIsDrained


-------------------------------------------------------------------------------
(* Connections: what most steps do to one. *)

\* The same connection, a step further: nothing is granted, opened, moved or attached.
Onward(c, d) ==
    /\ d.home = c.home /\ d.fingerprint = c.fingerprint /\ d.at = c.at /\ d.entry = c.entry
    /\ c.phase # "none" /\ d.phase # "none"
    /\ d.phase = "joining" <=> c.phase = "joining"
    /\ d.phase = "accepting" <=> c.phase = "accepting"
    /\ d.open => c.open
    /\ d.tracked => c.tracked
    /\ c.tracked \/ c.closed = "done" => d.tracked \/ d.closed = "done"
    /\ d.closed = "done" => c.closed = "done" \/ ~ d.open
    /\ d.attach \in {0, c.attach}
    /\ d.phase = "attaching" => d.attach = c.attach /\ (c.phase = "attaching" \/ c.attach > 0)
    /\ d.granted => c.granted /\ (d.phase = c.phase \/ d.phase \in GrantPhases)

LEMMA OnwardKeeps ==
    ASSUME NEW c, NEW d, ConnInv(c), Onward(c, d)
    PROVE  ConnInv(d)
BY DEF ConnInv, Onward, GrantPhases

LEMMA ClosingOnward ==
    ASSUME NEW c \in ConnRecords, c.phase \notin {"none", "joining", "accepting"}
    PROVE  /\ Closing(c) \in ConnRecords /\ Onward(c, Closing(c))
           /\ Closing(c).phase = "closing" /\ ~ Closing(c).granted
<1> DEFINE d == Closing(c)
<1>1. /\ d \in ConnRecords /\ d.phase = "closing" /\ d.granted = FALSE /\ d.attach = 0
      /\ d.home = c.home /\ d.fingerprint = c.fingerprint /\ d.at = c.at /\ d.entry = c.entry
      /\ d.open = c.open /\ d.tracked = c.tracked /\ d.closed = c.closed
  BY DEF Closing, ConnRecords, Phases
<1> HIDE DEF d
<1>2. Onward(c, d)
  BY <1>1 DEF Onward
<1> USE DEF d
<1> QED
  BY <1>1, <1>2

\* A connection that exists is a full record.
LEMMA ConnTyped ==
    ASSUME RegistryTypes, NEW x \in Connections, conns[x].phase # "none"
    PROVE  conns[x] \in ConnRecords
BY DEF RegistryTypes, Conns, NoConn

LEMMA NoConnPhase == NoConn.phase = "none" /\ ConnInv(NoConn) /\ NoConn.granted = FALSE
BY DEF NoConn, ConnInv

(***************************************************************************)
(* A step of the command loop: one connection goes onward, or begins a     *)
(* handler, is granted an admission, or moves to its subscription.         *)
(***************************************************************************)
BeginsHandler(c, d) == Onward(c, d) /\ <<c.home, c.fingerprint, c.entry>> \notin fenced

Granted(c, d) ==
    /\ c.phase = "handling" /\ d.phase = "handling" /\ c.attach = 0 /\ d.attach = 0
    /\ d.home = c.home /\ d.fingerprint = c.fingerprint /\ d.at = c.at /\ d.entry = c.entry
    /\ d.open = c.open /\ d.closed = c.closed /\ d.tracked = c.tracked
    /\ ActiveLifetime(c.fingerprint, c.at, c.home)

Moved(c, d) ==
    /\ c.phase = "attaching" /\ d.phase \in {"replying", "closing"}
    /\ d.home = c.home /\ d.fingerprint = c.fingerprint /\ d.at = c.at
    /\ d.entry = c.attach /\ c.attach > 0 /\ d.attach \in {0, c.attach} /\ d.tracked /\ ~ d.granted
    /\ d.open = c.open /\ d.closed = c.closed


LEMMA LoopStepConn ==
    ASSUME RegistryTypes, NEW x \in Connections, ConnInv(conns[x]), LoopStep(x)
    PROVE  /\ conns' \in [Connections -> Conns]
           /\ \A y \in Connections \ {x} : conns'[y] = conns[y]
           /\ conns[x] \in ConnRecords /\ conns'[x] \in ConnRecords
           /\ \/ Onward(conns[x], conns'[x]) /\ (conns'[x].phase = "handling" => conns[x].phase = "handling")
              \/ BeginsHandler(conns[x], conns'[x])
              \/ Granted(conns[x], conns'[x])
              \/ Moved(conns[x], conns'[x])
           /\ conns[x].phase = "fencing" => conns'[x].phase = "fencing" /\ conns'[x].home = conns[x].home
<1> DEFINE c == conns[x]
           Goal(d) == /\ c \in ConnRecords /\ d \in ConnRecords
                      /\ \/ Onward(c, d) /\ (d.phase = "handling" => c.phase = "handling")
                         \/ BeginsHandler(c, d)
                         \/ Granted(c, d)
                         \/ Moved(c, d)
                      /\ c.phase = "fencing" => d.phase = "fencing" /\ d.home = c.home
<1>0. conns \in [Connections -> Conns]
  BY DEF RegistryTypes
<1>s. ASSUME NEW d, conns' = [conns EXCEPT ![x] = d], Goal(d)
      PROVE  /\ conns' \in [Connections -> Conns]
             /\ conns'[x] = d
             /\ \A y \in Connections \ {x} : conns'[y] = conns[y]
  <2>1. d \in Conns
    BY <1>s DEF Onward, BeginsHandler, Granted, Moved, Conns
  <2> QED
    BY <1>0, <1>s, <2>1
<1>r. SUFFICES \E d : conns' = [conns EXCEPT ![x] = d] /\ Goal(d)
  <2> HIDE DEF Goal
  <2>1. ASSUME NEW d, conns' = [conns EXCEPT ![x] = d], Goal(d)
        PROVE  Goal(conns'[x]) /\ conns' \in [Connections -> Conns]
               /\ \A y \in Connections \ {x} : conns'[y] = conns[y]
    BY <1>s, <2>1
  <2>2. (\E d : conns' = [conns EXCEPT ![x] = d] /\ Goal(d)) =>
           Goal(conns'[x]) /\ conns' \in [Connections -> Conns]
               /\ \A y \in Connections \ {x} : conns'[y] = conns[y]
    BY <2>1
  <2> USE DEF Goal
  <2> QED
    BY <2>2
<1>1. CASE BeginHandler(x)
  <2>1. c.phase = "reading" /\ c \in ConnRecords
    BY <1>1, ConnTyped DEF BeginHandler
  <2>2. CASE EntryOf(x) \in fenced
    <3>1. conns' = [conns EXCEPT ![x] = Closing(c)]
      BY <1>1, <2>2 DEF BeginHandler
    <3>2. Goal(Closing(c))
      BY <2>1, ClosingOnward
    <3> QED
      BY <3>1, <3>2
  <2>3. CASE EntryOf(x) \notin fenced
    <3> DEFINE d == [c EXCEPT !.phase = "handling"]
    <3>1. conns' = [conns EXCEPT ![x] = d]
      BY <1>1, <2>3 DEF BeginHandler
    <3>2. /\ d \in ConnRecords /\ d.phase = "handling" /\ d.granted = c.granted /\ d.attach = c.attach
          /\ d.home = c.home /\ d.fingerprint = c.fingerprint /\ d.at = c.at /\ d.entry = c.entry
          /\ d.open = c.open /\ d.tracked = c.tracked /\ d.closed = c.closed
      BY <2>1 DEF ConnRecords, Phases
    <3> HIDE DEF d
    <3>3. BeginsHandler(c, d)
      BY <2>1, <2>3, <3>2 DEF BeginsHandler, Onward, EntryOf, GrantPhases
    <3>4. Goal(d)
      BY <2>1, <3>2, <3>3
    <3> QED
      BY <3>1, <3>4
  <2> QED
    BY <2>2, <2>3
<1>2. CASE ReadFails(x)
  <2>1. c.phase = "reading" /\ c \in ConnRecords /\ conns' = [conns EXCEPT ![x] = Closing(c)]
    BY <1>2, ConnTyped DEF ReadFails
  <2>2. Goal(Closing(c))
    BY <2>1, ClosingOnward
  <2> QED
    BY <2>1, <2>2
<1>3. CASE AdmitDispatch(x)
  <2> DEFINE d == [c EXCEPT !.granted = TRUE]
  <2>1. /\ c.phase = "handling" /\ c \in ConnRecords /\ conns' = [conns EXCEPT ![x] = d]
        /\ c.attach = 0 /\ ActiveLifetime(c.fingerprint, c.at, c.home)
    BY <1>0, <1>3, ConnTyped DEF AdmitDispatch
  <2>2. /\ d \in ConnRecords /\ d.phase = c.phase /\ d.attach = c.attach
        /\ d.home = c.home /\ d.fingerprint = c.fingerprint /\ d.at = c.at /\ d.entry = c.entry
        /\ d.open = c.open /\ d.tracked = c.tracked /\ d.closed = c.closed
    BY <2>1 DEF ConnRecords, Phases
  <2> HIDE DEF d
  <2>3. Granted(c, d)
    BY <2>1, <2>2 DEF Granted
  <2>4. Goal(d)
    BY <2>1, <2>2, <2>3
  <2> QED
    BY <2>1, <2>4
<1>4. CASE UnsubscribeCommand(x)
  <2> DEFINE d == [c EXCEPT !.phase = "replying", !.subscribed = FALSE, !.beating = FALSE]
  <2>1. c.phase = "handling" /\ c \in ConnRecords /\ conns' = [conns EXCEPT ![x] = d]
    BY <1>0, <1>4, ConnTyped DEF UnsubscribeCommand
  <2>2. /\ d \in ConnRecords /\ d.phase = "replying" /\ d.attach = c.attach /\ d.granted = c.granted
        /\ d.home = c.home /\ d.fingerprint = c.fingerprint /\ d.at = c.at /\ d.entry = c.entry
        /\ d.open = c.open /\ d.tracked = c.tracked /\ d.closed = c.closed
    BY <2>1 DEF ConnRecords, Phases
  <2> HIDE DEF d
  <2>3. Onward(c, d)
    BY <2>1, <2>2 DEF Onward, GrantPhases
  <2>4. Goal(d)
    BY <2>1, <2>2, <2>3
  <2> QED
    BY <2>1, <2>4
<1>5. CASE PingFails(x)
  <2> DEFINE d == [c EXCEPT !.phase = "unlive"]
  <2>1. c.phase = "handling" /\ c \in ConnRecords /\ conns' = [conns EXCEPT ![x] = d]
    BY <1>0, <1>5, ConnTyped DEF PingFails
  <2>2. /\ d \in ConnRecords /\ d.phase = "unlive" /\ d.attach = c.attach /\ d.granted = c.granted
        /\ d.home = c.home /\ d.fingerprint = c.fingerprint /\ d.at = c.at /\ d.entry = c.entry
        /\ d.open = c.open /\ d.tracked = c.tracked /\ d.closed = c.closed
    BY <2>1 DEF ConnRecords, Phases
  <2> HIDE DEF d
  <2>3. Onward(c, d)
    BY <2>1, <2>2 DEF Onward, GrantPhases
  <2>4. Goal(d)
    BY <2>1, <2>2, <2>3
  <2> QED
    BY <2>1, <2>4
<1>6. CASE FinishHandler(x)
  <2> DEFINE p == IF c.attach > 0 THEN "attaching" ELSE "replying"
             d == [c EXCEPT !.phase = p]
  <2>1. c.phase = "handling" /\ c \in ConnRecords
    BY <1>6, ConnTyped DEF FinishHandler
  <2>2. conns' = [conns EXCEPT ![x] = d]
    BY <1>0, <1>6 DEF FinishHandler
  <2>3. p \in {"attaching", "replying"} /\ (p = "attaching" <=> c.attach > 0)
    OBVIOUS
  <2> HIDE DEF p
  <2>4. /\ d \in ConnRecords /\ d.phase = p /\ d.attach = c.attach /\ d.granted = c.granted
        /\ d.home = c.home /\ d.fingerprint = c.fingerprint /\ d.at = c.at /\ d.entry = c.entry
        /\ d.open = c.open /\ d.tracked = c.tracked /\ d.closed = c.closed
    BY <2>1, <2>3 DEF ConnRecords, Phases
  <2>5. c.granted => c.attach = 0
    BY <2>1 DEF ConnInv
  <2>6. c.attach \in Nat
    BY <2>1 DEF ConnRecords
  <2> HIDE DEF d
  <2>7. Onward(c, d)
    BY <2>1, <2>3, <2>4, <2>5, <2>6 DEF Onward, GrantPhases
  <2>8. Goal(d)
    BY <2>1, <2>3, <2>4, <2>7
  <2> QED
    BY <2>2, <2>8
<1>7. CASE Attach(x)
  <2>1. c.phase = "attaching" /\ c \in ConnRecords /\ c.attach > 0 /\ ~ c.granted
    BY <1>7, ConnTyped DEF Attach, ConnInv, GrantPhases
  <2> DEFINE moved == [c EXCEPT !.entry = c.attach, !.tracked = TRUE]
             kept == [moved EXCEPT !.attached = c.attach, !.phase = "replying"]
  <2>2. /\ moved \in ConnRecords /\ moved.phase = c.phase /\ moved.attach = c.attach /\ moved.granted = c.granted
        /\ moved.home = c.home /\ moved.fingerprint = c.fingerprint /\ moved.at = c.at /\ moved.entry = c.attach
        /\ moved.open = c.open /\ moved.tracked = TRUE /\ moved.closed = c.closed
    BY <2>1 DEF ConnRecords, Phases
  <2>3. conns' = [conns EXCEPT ![x] = Closing(c)] \/ conns' = [conns EXCEPT ![x] = Closing(moved)]
        \/ conns' = [conns EXCEPT ![x] = kept]
    BY <1>7 DEF Attach
  <2>4. /\ kept \in ConnRecords /\ kept.phase = "replying" /\ kept.attach = moved.attach /\ kept.granted = moved.granted
        /\ kept.home = moved.home /\ kept.fingerprint = moved.fingerprint /\ kept.at = moved.at /\ kept.entry = moved.entry
        /\ kept.open = moved.open /\ kept.tracked = moved.tracked /\ kept.closed = moved.closed
    <3> HIDE DEF moved
    <3> QED
      BY <2>1, <2>2 DEF ConnRecords, Phases
  <2> HIDE DEF moved, kept
  <2>5. Goal(kept)
    BY <2>1, <2>2, <2>4 DEF Moved
  <2>6. Goal(Closing(c))
    BY <2>1, ClosingOnward
  <2>7. Goal(Closing(moved))
    <3>1. /\ Closing(moved) \in ConnRecords /\ Onward(moved, Closing(moved))
          /\ Closing(moved).phase = "closing" /\ ~ Closing(moved).granted
      BY <2>1, <2>2, ClosingOnward
    <3>2. /\ Closing(moved).open = moved.open /\ Closing(moved).closed = moved.closed
          /\ Closing(moved).tracked = moved.tracked
      BY <2>2 DEF Closing, ConnRecords
    <3> HIDE DEF Closing
    <3>3. Moved(c, Closing(moved))
      BY <2>1, <2>2, <3>1, <3>2 DEF Moved, Onward
    <3> QED
      BY <2>1, <3>1, <3>3
  <2> QED
    BY <2>3, <2>5, <2>6, <2>7
<1>8. CASE DeliverReply(x)
  <2> DEFINE d == [c EXCEPT !.phase = "reading", !.granted = FALSE, !.subscribed = @ \/ c.attach > 0,
                            !.beating = @ \/ c.attach > 0, !.attach = 0]
  <2>1. c.phase = "replying" /\ c \in ConnRecords
    BY <1>8, ConnTyped DEF DeliverReply
  <2>2. conns' = [conns EXCEPT ![x] = d]
    BY <1>0, <1>8, <2>1 DEF DeliverReply
  <2>3. /\ d \in ConnRecords /\ d.phase = "reading" /\ d.attach = 0 /\ d.granted = FALSE
        /\ d.home = c.home /\ d.fingerprint = c.fingerprint /\ d.at = c.at /\ d.entry = c.entry
        /\ d.open = c.open /\ d.tracked = c.tracked /\ d.closed = c.closed
    BY <2>1 DEF ConnRecords, Phases
  <2> HIDE DEF d
  <2>4. Onward(c, d)
    BY <2>1, <2>3 DEF Onward, GrantPhases
  <2>5. Goal(d)
    BY <2>1, <2>3, <2>4
  <2> QED
    BY <2>2, <2>5
<1>9. CASE WriteFails(x)
  <2> DEFINE d == [c EXCEPT !.phase = "undelivered"]
  <2>1. c.phase = "replying" /\ c \in ConnRecords
    BY <1>9, ConnTyped DEF WriteFails
  <2>2. conns' = [conns EXCEPT ![x] = d] \/ conns' = [conns EXCEPT ![x] = Closing(c)]
    BY <1>0, <1>9 DEF WriteFails
  <2>3. /\ d \in ConnRecords /\ d.phase = "undelivered" /\ d.attach = c.attach /\ d.granted = c.granted
        /\ d.home = c.home /\ d.fingerprint = c.fingerprint /\ d.at = c.at /\ d.entry = c.entry
        /\ d.open = c.open /\ d.tracked = c.tracked /\ d.closed = c.closed
    BY <2>1 DEF ConnRecords, Phases
  <2> HIDE DEF d
  <2>4. Onward(c, d)
    BY <2>1, <2>3 DEF Onward, GrantPhases
  <2>5. Goal(d)
    BY <2>1, <2>3, <2>4
  <2>6. Goal(Closing(c))
    BY <2>1, ClosingOnward
  <2> QED
    BY <2>2, <2>5, <2>6
<1>10. CASE PeerCloses(x)
  <2> DEFINE d == [c EXCEPT !.open = FALSE]
  <2>1. c.phase # "none" /\ c \in ConnRecords
    <3>1. c.open
      BY <1>10 DEF PeerCloses
    <3>2. NoConn.open = FALSE
      BY DEF NoConn
    <3> QED
      BY <1>0, <3>1, <3>2 DEF Conns
  <2>2. conns' = [conns EXCEPT ![x] = d]
    BY <1>0, <1>10 DEF PeerCloses
  <2>3. /\ d \in ConnRecords /\ d.phase = c.phase /\ d.attach = c.attach /\ d.granted = c.granted
        /\ d.home = c.home /\ d.fingerprint = c.fingerprint /\ d.at = c.at /\ d.entry = c.entry
        /\ d.open = FALSE /\ d.tracked = c.tracked /\ d.closed = c.closed
    BY <2>1 DEF ConnRecords, Phases
  <2> HIDE DEF d
  <2>4. Onward(c, d)
    BY <2>1, <2>3 DEF Onward, GrantPhases
  <2>5. Goal(d)
    BY <2>1, <2>3, <2>4
  <2> QED
    BY <2>2, <2>5
<1> QED
  BY <1>1, <1>2, <1>3, <1>4, <1>5, <1>6, <1>7, <1>8, <1>9, <1>10 DEF LoopStep


-------------------------------------------------------------------------------
(* Connections: heartbeats, fences and the end of a connection. *)

\* The connection moves onward and starts no handler.
Quieter(c, d) == Onward(c, d) /\ (d.phase = "handling" => c.phase = "handling")

\* One connection is rewritten, and moves onward.
OneQuieter(x) ==
    /\ conns' \in [Connections -> Conns]
    /\ \A y \in Connections \ {x} : conns'[y] = conns[y]
    /\ Quieter(conns[x], conns'[x])

LEMMA HeartbeatConn ==
    ASSUME RegistryTypes, NEW x \in Connections, conns[x].beating,
           conns' = [conns EXCEPT ![x].beating = FALSE]
    PROVE  OneQuieter(x) /\ conns'[x].phase = conns[x].phase
<1> DEFINE c == conns[x]
           d == [c EXCEPT !.beating = FALSE]
<1>0. conns \in [Connections -> Conns]
  BY DEF RegistryTypes
<1>1. c \in ConnRecords /\ c.phase # "none"
  <2>1. NoConn.beating = FALSE
    BY DEF NoConn
  <2> QED
    BY <1>0, <2>1 DEF Conns
<1>2. conns' = [conns EXCEPT ![x] = d]
  BY <1>0
<1>3. /\ d \in ConnRecords /\ d.phase = c.phase /\ d.attach = c.attach /\ d.granted = c.granted
      /\ d.home = c.home /\ d.fingerprint = c.fingerprint /\ d.at = c.at /\ d.entry = c.entry
      /\ d.open = c.open /\ d.tracked = c.tracked /\ d.closed = c.closed
  BY <1>1 DEF ConnRecords, Phases
<1> HIDE DEF d
<1>4. Onward(c, d) /\ d \in Conns
  BY <1>1, <1>3 DEF Onward, Conns, GrantPhases
<1> QED
  BY <1>0, <1>2, <1>3, <1>4 DEF OneQuieter, Quieter

LEMMA RephasedConn ==
    ASSUME RegistryTypes, NEW x \in Connections, NEW p \in {"local", "fencing"},
           conns[x].phase \in {"unlive", "undelivered", "local"},
           conns' = [conns EXCEPT ![x].phase = p]
    PROVE  OneQuieter(x) /\ conns'[x].phase = p /\ conns'[x].home = conns[x].home
<1> DEFINE c == conns[x]
           d == [c EXCEPT !.phase = p]
<1>0. conns \in [Connections -> Conns]
  BY DEF RegistryTypes
<1>1. c \in ConnRecords /\ c.phase \in {"unlive", "undelivered", "local"}
  BY ConnTyped
<1>2. conns' = [conns EXCEPT ![x] = d]
  BY <1>0
<1>3. /\ d \in ConnRecords /\ d.phase = p /\ d.attach = c.attach /\ d.granted = c.granted
      /\ d.home = c.home /\ d.fingerprint = c.fingerprint /\ d.at = c.at /\ d.entry = c.entry
      /\ d.open = c.open /\ d.tracked = c.tracked /\ d.closed = c.closed
  BY <1>1 DEF ConnRecords, Phases
<1> HIDE DEF d
<1>4. Onward(c, d) /\ d \in Conns
  BY <1>1, <1>3 DEF Onward, Conns, GrantPhases
<1> QED
  BY <1>0, <1>1, <1>2, <1>3, <1>4 DEF OneQuieter, Quieter

LEMMA ClosedConn ==
    ASSUME RegistryTypes, NEW x \in Connections, CloseSocket(x) \/ Untrack(x),
           \A t \in fences : FenceOf(t)
    PROVE  OneQuieter(x) /\ conns'[x].phase = conns[x].phase
<1> DEFINE c == conns[x]
<1>0. conns \in [Connections -> Conns]
  BY DEF RegistryTypes
<1>1. c \in ConnRecords /\ c.phase # "none"
  <2>1. NoConn.closed = "no"
    BY DEF NoConn
  <2>2. CASE CloseSocket(x)
    BY <2>2, ConnTyped DEF CloseSocket, FenceOf
  <2>3. CASE Untrack(x)
    BY <1>0, <2>1, <2>3 DEF Untrack, Conns
  <2> QED
    BY <2>2, <2>3
<1>2. CASE CloseSocket(x)
  <2> DEFINE d == [c EXCEPT !.closed = "socket", !.open = FALSE]
  <2>1. conns' = [conns EXCEPT ![x] = d] /\ c.closed = "no"
    BY <1>0, <1>2 DEF CloseSocket
  <2>2. /\ d \in ConnRecords /\ d.phase = c.phase /\ d.attach = c.attach /\ d.granted = c.granted
        /\ d.home = c.home /\ d.fingerprint = c.fingerprint /\ d.at = c.at /\ d.entry = c.entry
        /\ d.open = FALSE /\ d.tracked = c.tracked /\ d.closed = "socket"
    BY <1>1 DEF ConnRecords, Phases
  <2> HIDE DEF d
  <2>3. Onward(c, d) /\ d \in Conns
    BY <1>1, <2>1, <2>2 DEF Onward, Conns, GrantPhases
  <2> QED
    BY <1>0, <2>1, <2>2, <2>3 DEF OneQuieter, Quieter
<1>3. CASE Untrack(x)
  <2> DEFINE d == [c EXCEPT !.closed = "done", !.tracked = FALSE, !.open = FALSE]
  <2>1. conns' = [conns EXCEPT ![x] = d]
    BY <1>0, <1>3 DEF Untrack
  <2>2. /\ d \in ConnRecords /\ d.phase = c.phase /\ d.attach = c.attach /\ d.granted = c.granted
        /\ d.home = c.home /\ d.fingerprint = c.fingerprint /\ d.at = c.at /\ d.entry = c.entry
        /\ d.open = FALSE /\ d.tracked = FALSE /\ d.closed = "done"
    BY <1>1 DEF ConnRecords, Phases
  <2> HIDE DEF d
  <2>3. Onward(c, d) /\ d \in Conns
    BY <1>1, <2>1, <2>2 DEF Onward, Conns, GrantPhases
  <2> QED
    BY <1>0, <2>1, <2>2, <2>3 DEF OneQuieter, Quieter
<1> QED
  BY <1>2, <1>3

LEMMA EndedConn ==
    ASSUME RegistryTypes, NEW x \in Connections, ConnInv(conns[x]), EndConnection(x)
    PROVE  /\ \/ OneQuieter(x) /\ conns'[x].phase = "ended"
              \/ /\ conns' = [conns EXCEPT ![x] = NoConn]
                 /\ \A t \in fences : x \notin t.todo
           /\ conns[x].phase \in {"closing", "ended"}
<1> DEFINE c == conns[x]
           d == [c EXCEPT !.phase = "ended"]
<1>0. conns \in [Connections -> Conns]
  BY DEF RegistryTypes
<1>1. c.phase \in {"closing", "ended"}
  BY DEF EndConnection
<1>2. c \in ConnRecords /\ ~ c.granted
  BY <1>1, ConnTyped DEF ConnInv, GrantPhases
<1>3. CASE conns' = [conns EXCEPT ![x] = d]
  <2>2. /\ d \in ConnRecords /\ d.phase = "ended" /\ d.attach = c.attach /\ d.granted = c.granted
        /\ d.home = c.home /\ d.fingerprint = c.fingerprint /\ d.at = c.at /\ d.entry = c.entry
        /\ d.open = c.open /\ d.tracked = c.tracked /\ d.closed = c.closed
    BY <1>2 DEF ConnRecords, Phases
  <2> HIDE DEF d
  <2>3. Onward(c, d) /\ d \in Conns
    BY <1>1, <1>2, <2>2 DEF Onward, Conns, GrantPhases
  <2> QED
    BY <1>0, <1>1, <1>3, <2>2, <2>3 DEF OneQuieter, Quieter
<1>4. CASE conns' = [conns EXCEPT ![x] = NoConn] /\ \A t \in fences : x \notin t.todo
  BY <1>1, <1>4
<1> QED
  BY <1>0, <1>3, <1>4 DEF EndConnection

\* The waiting connection of a local fence is closed when the fence ends.
LEMMA WaiterConn ==
    ASSUME RegistryTypes, NEW t \in fences, FenceOf(t), LocalFenceEnds(t), t.waiter # NoConnection
    PROVE  t.waiter \in Connections /\ OneQuieter(t.waiter)
<1> DEFINE x == t.waiter
<1>0. conns \in [Connections -> Conns] /\ x \in Connections
  BY DEF RegistryTypes, FenceRecords
<1>1. conns[x].phase = "fencing" /\ conns[x] \in ConnRecords
  BY <1>0, ConnTyped DEF FenceOf
<1>2. conns' = [conns EXCEPT ![x] = Closing(conns[x])]
  BY <1>0 DEF LocalFenceEnds
<1>3. /\ Closing(conns[x]) \in ConnRecords /\ Onward(conns[x], Closing(conns[x]))
      /\ Closing(conns[x]).phase = "closing"
  BY <1>1, ClosingOnward
<1>4. Closing(conns[x]) \in Conns
  BY <1>3 DEF Conns
<1> HIDE DEF x
<1>5. conns'[x] = Closing(conns[x]) /\ conns' \in [Connections -> Conns]
      /\ \A y \in Connections \ {x} : conns'[y] = conns[y]
  BY <1>0, <1>2, <1>4
<1>6. OneQuieter(x)
  BY <1>3, <1>5 DEF OneQuieter, Quieter
<1> QED
  BY <1>0, <1>6 DEF x

-------------------------------------------------------------------------------
(* What keeps each part of the invariant. *)

\* The new tables allow the connection c to go on.
KeepsConn(c) ==
    LET f == c.fingerprint
        m == members[f]
        n == members'[f]
    IN
    /\ c.home \in up'
    /\ n.connectedAt >= m.connectedAt
    /\ n.connectedAt = m.connectedAt =>
        /\ n.state \in {"active", "canceling"} =>
            /\ m.state \in {"active", "canceling"}
            /\ Serving(f, c.at, c.home) \in participations => Serving(f, c.at, c.home) \in participations'
        /\ n.state = "closed" /\ c.granted /\ c.at = m.connectedAt => m.state = "closed" \/ ~ c.open

LEMMA ConnFrame ==
    ASSUME RegistryTypes, RegistryTypes', NEW x \in Connections, ConnInv(conns[x]),
           conns'[x] = conns[x] \/ Onward(conns[x], conns'[x]),
           conns[x].phase # "none" => KeepsConn(conns[x])
    PROVE  ConnInv(conns[x])'
<1> DEFINE c == conns[x]
           d == conns'[x]
           f == c.fingerprint
<1>1. CASE c.phase = "none"
  BY <1>1 DEF ConnInv, Onward
<1>2. CASE c.phase # "none"
  <2>1. /\ c \in ConnRecords /\ f \in Fingerprints /\ c.at \in Nat /\ c.attach \in Nat
        /\ members[f].connectedAt \in Nat /\ members'[f].connectedAt \in Nat
    BY <1>2, ConnTyped DEF RegistryTypes, ConnRecords, MemberRecords
  <2>2. /\ d.home = c.home /\ d.fingerprint = f /\ d.at = c.at /\ d.entry = c.entry
        /\ d.phase = "joining" <=> c.phase = "joining"
        /\ d.phase = "accepting" <=> c.phase = "accepting"
        /\ d.open => c.open
        /\ d.tracked => c.tracked
        /\ c.tracked \/ c.closed = "done" => d.tracked \/ d.closed = "done"
        /\ d.closed = "done" => c.closed = "done" \/ ~ d.open
        /\ d.attach \in {0, c.attach}
        /\ d.phase = "attaching" => d.attach = c.attach /\ (c.phase = "attaching" \/ c.attach > 0)
        /\ d.granted => c.granted /\ (d.phase = c.phase \/ d.phase \in GrantPhases)
    BY DEF Onward
  <2>3. KeepsConn(c) /\ ConnInv(c)
    BY <1>2
  <2> QED
    BY <1>2, <2>1, <2>2, <2>3 DEF ConnInv, KeepsConn, Open, GrantPhases
<1> QED
  BY <1>1, <1>2

\* The connection c, which becomes d, does not leave the fences that refer to it.
KeepsFences(c, d) ==
    /\ c.phase \notin {"none", "joining", "accepting"} =>
        d.phase \notin {"none", "joining", "accepting"} /\ d.home = c.home
    /\ c.phase = "fencing" => d.phase = "fencing"

LEMMA FenceFrame ==
    ASSUME NEW s \in FenceRecords, NEW t, FenceOf(s), s.home \in up', fenced \subseteq fenced',
           t.home = s.home, t.fingerprint = s.fingerprint, t.at = s.at, t.waiter = s.waiter,
           t.todo \subseteq s.todo,
           \A x \in Connections : conns'[x] = conns[x] \/ KeepsFences(conns[x], conns'[x])
    PROVE  FenceOf(t)'
BY DEF FenceOf, KeepsFences, FenceRecords

\* The same fences, after a step that leaves the registry alone.
LEMMA FencesKept ==
    ASSUME RegistryTypes, FenceInv, up' = up, fenced' = fenced, fences' = fences,
           \A q \in quiescence' : q.status = "acknowledged" => q \in quiescence,
           \A x \in Connections : conns'[x] = conns[x] \/ KeepsFences(conns[x], conns'[x])
    PROVE  FenceInv'
<1>1. \A t \in fences' : FenceOf(t)'
  <2> SUFFICES ASSUME NEW t \in fences PROVE FenceOf(t)'
    OBVIOUS
  <2>1. t \in FenceRecords /\ FenceOf(t)
    BY DEF RegistryTypes, FenceInv
  <2>2. t.home \in up'
    BY <2>1 DEF FenceOf
  <2> QED
    BY <2>1, <2>2, FenceFrame
<1> QED
  BY <1>1 DEF FenceInv, WaitersDiffer

\* The connection c, which becomes d, starts nothing that an acknowledgement rules out.
Drains(c, d) ==
    /\ d.phase = "handling" =>
        \/ c.phase = "handling" /\ d.home = c.home /\ d.fingerprint = c.fingerprint /\ d.entry = c.entry
        \/ <<d.home, d.fingerprint, d.entry>> \notin fenced
    /\ d.granted /\ d.open =>
        \/ c.granted /\ c.open /\ d.home = c.home /\ d.fingerprint = c.fingerprint /\ d.at = c.at
        \/ ActiveLifetime(d.fingerprint, d.at, d.home)

LEMMA DrainedFrame ==
    ASSUME TablesInv, FenceInv, AcknowledgedIsDrained,
           \A q \in quiescence' : q.status = "acknowledged" /\ q.home \in up' =>
               q \in quiescence /\ q.home \in up,
           \A x \in Connections : conns'[x] = conns[x] \/ Drains(conns[x], conns'[x])
    PROVE  AcknowledgedIsDrained'
<1> SUFFICES ASSUME NEW q \in quiescence', q.status = "acknowledged", q.home \in up'
             PROVE  /\ HandlersOf(<<q.home, q.fingerprint, q.connectedAt>>)' = {}
                    /\ \A x \in Connections :
                        conns'[x].home = q.home /\ conns'[x].fingerprint = q.fingerprint
                        /\ conns'[x].at = q.connectedAt /\ conns'[x].granted => ~ conns'[x].open
  BY DEF AcknowledgedIsDrained
<1>1. q \in quiescence /\ q.home \in up
  OBVIOUS
<1>2. /\ HandlersOf(<<q.home, q.fingerprint, q.connectedAt>>) = {}
      /\ \A x \in Connections :
          conns[x].home = q.home /\ conns[x].fingerprint = q.fingerprint
          /\ conns[x].at = q.connectedAt /\ conns[x].granted => ~ conns[x].open
  BY <1>1 DEF AcknowledgedIsDrained
<1>3. <<q.home, q.fingerprint, q.connectedAt>> \in fenced
  BY <1>1 DEF FenceInv
<1>4. ~ ActiveLifetime(q.fingerprint, q.connectedAt, q.home)
  BY <1>1 DEF TablesInv, ActiveLifetime
<1>5. ASSUME NEW x \in Connections, conns'[x].phase = "handling",
             <<conns'[x].home, conns'[x].fingerprint, conns'[x].entry>> = <<q.home, q.fingerprint, q.connectedAt>>
      PROVE  FALSE
  <2>1. conns[x].phase = "handling" /\ EntryOf(x) = <<q.home, q.fingerprint, q.connectedAt>>
    BY <1>3, <1>5 DEF Drains, EntryOf
  <2> QED
    BY <1>2, <2>1 DEF HandlersOf
<1>6. HandlersOf(<<q.home, q.fingerprint, q.connectedAt>>)' = {}
  BY <1>5 DEF HandlersOf, EntryOf
<1>7. ASSUME NEW x \in Connections, conns'[x].home = q.home, conns'[x].fingerprint = q.fingerprint,
             conns'[x].at = q.connectedAt, conns'[x].granted
      PROVE  ~ conns'[x].open
  BY <1>2, <1>4, <1>7 DEF Drains
<1> QED
  BY <1>6, <1>7

LEMMA OnwardFrames ==
    ASSUME NEW c, NEW d
    PROVE  /\ Quieter(c, d) => Drains(c, d)
           /\ BeginsHandler(c, d) => Drains(c, d)
           /\ Granted(c, d) => Drains(c, d)
           /\ Moved(c, d) => Drains(c, d)
           /\ Onward(c, d) /\ (c.phase = "fencing" => d.phase = "fencing") => KeepsFences(c, d)
BY DEF Quieter, BeginsHandler, Granted, Moved, Onward, Drains, KeepsFences

-------------------------------------------------------------------------------
(* Homes of this module never age. *)

LEMMA HomesStay ==
    ASSUME RegistryTypes, HomesInv
    PROVE  /\ \A S : ResolveHomes(homes, S) = homes
           /\ ExpireStale(homes) = homes
           /\ \A h \in Incarnations : ~ HomeReclaimable(homes[h])
<1>1. \A h \in Incarnations : homes[h] \in HomeRecords /\ homes[h].age = 0
  BY DEF RegistryTypes, HomesInv, Fresh
<1>2. \A h \in Incarnations : [homes[h] EXCEPT !.state = homes[h].state] = homes[h]
  BY <1>1 DEF HomeRecords
<1>3. \A h \in Incarnations : ResolvedHome(homes[h]) = homes[h]
  BY <1>1, <1>2 DEF ResolvedHome, Stale, Dead
<1>4. homes = [h \in Incarnations |-> homes[h]]
  BY DEF RegistryTypes
<1>5. \A S : ResolveHomes(homes, S) = homes
  BY <1>3, <1>4 DEF ResolveHomes
<1>6. ExpireStale(homes) = homes
  BY <1>1, <1>4 DEF ExpireStale, Stale
<1> QED
  BY <1>1, <1>5, <1>6 DEF HomeReclaimable, Dead

-------------------------------------------------------------------------------
(* Steps that leave the tables alone. *)

LEMMA SameTables ==
    ASSUME RegistryInv, UNCHANGED <<homes, up, members, participations, quiescence>>
    PROVE  /\ HomesInv' /\ TablesInv'
           /\ \A x \in Connections : conns[x].phase # "none" => KeepsConn(conns[x])
<1>1. HomesInv' /\ TablesInv'
  BY DEF RegistryInv, HomesInv, TablesInv, Open, RowsOf
<1>2. ASSUME NEW x \in Connections, conns[x].phase # "none" PROVE KeepsConn(conns[x])
  <2>1. conns[x].fingerprint \in Fingerprints /\ conns[x].home \in up
    BY <1>2, ConnTyped DEF RegistryInv, ConnInv, ConnRecords
  <2>2. members[conns[x].fingerprint].connectedAt \in Nat
    BY <2>1 DEF RegistryInv, RegistryTypes, MemberRecords
  <2> QED
    BY <2>1, <2>2 DEF KeepsConn
<1> QED
  BY <1>1, <1>2

\* One connection is rewritten and nothing else happens.
LEMMA OneConnStep ==
    ASSUME RegistryInv, UNCHANGED <<homes, up, members, participations, quiescence, fenced, fences, fenceEvents>>,
           NEW x \in Connections,
           conns' \in [Connections -> Conns], \A y \in Connections \ {x} : conns'[y] = conns[y],
           ConnInv(conns[x])', Drains(conns[x], conns'[x]), KeepsFences(conns[x], conns'[x])
    PROVE  RegistryInv'
<1>1. RegistryTypes'
  BY DEF RegistryInv, RegistryTypes
<1>2. HomesInv' /\ TablesInv'
  BY SameTables
<1>3. ASSUME NEW y \in Connections PROVE ConnInv(conns[y])'
  <2>1. CASE y = x
    BY <2>1
  <2>2. CASE y # x
    BY <1>1, <2>2, ConnFrame, SameTables DEF RegistryInv
  <2> QED
    BY <2>1, <2>2
<1>4. FenceInv'
  BY FencesKept DEF RegistryInv
<1>5. AcknowledgedIsDrained'
  BY DrainedFrame DEF RegistryInv
<1> QED
  BY <1>1, <1>2, <1>3, <1>4, <1>5 DEF RegistryInv

LEMMA OpenStep ==
    ASSUME RegistryInv, UNCHANGED <<homes, up, members, quiescence, fenceEvents>>,
           NEW x \in Connections, NEW f \in Fingerprints, NEW h \in Incarnations, OpenConnection(x, f, h)
    PROVE  RegistryInv'
<1> DEFINE controlled == ActiveLifetime(f, members[f].connectedAt, h)
           p == IF controlled THEN "joining" ELSE "accepting"
           at == IF controlled THEN members[f].connectedAt ELSE 0
           d == [NoConn EXCEPT !.phase = p, !.at = at, !.home = h, !.fingerprint = f, !.open = TRUE]
<1>1. /\ h \in up /\ conns[x].phase = "none" /\ conns' = [conns EXCEPT ![x] = d]
      /\ UNCHANGED <<participations, fenced, fences>>
  BY DEF OpenConnection
<1>2. members[f].connectedAt \in Nat
  BY DEF RegistryInv, RegistryTypes, MemberRecords
<1>3. /\ p \in {"joining", "accepting"} /\ at \in Nat /\ at <= members[f].connectedAt
      /\ p # "joining" => at = 0
  BY <1>2
<1> HIDE DEF p, at
<1>4. /\ d \in ConnRecords /\ d.phase = p /\ d.at = at /\ d.home = h /\ d.fingerprint = f
      /\ d.granted = FALSE /\ d.closed = "no" /\ d.tracked = FALSE /\ d.attach = 0
  BY <1>3 DEF NoConn, ConnRecords, Phases
<1> HIDE DEF d
<1>5. d \in Conns
  BY <1>3, <1>4 DEF Conns
<1>6. conns' \in [Connections -> Conns] /\ conns'[x] = d /\ \A y \in Connections \ {x} : conns'[y] = conns[y]
  BY <1>1, <1>5 DEF RegistryInv, RegistryTypes
<1>7. ConnInv(conns[x])'
  BY <1>1, <1>3, <1>4, <1>6 DEF ConnInv
<1>8. Drains(conns[x], conns'[x]) /\ KeepsFences(conns[x], conns'[x])
  BY <1>1, <1>3, <1>4, <1>6 DEF Drains, KeepsFences
<1> QED
  BY <1>1, <1>6, <1>7, <1>8, OneConnStep

LEMMA AcceptStep ==
    ASSUME RegistryInv, UNCHANGED <<homes, up, members, quiescence, fenceEvents>>,
           NEW x \in Connections, Accept(x)
    PROVE  RegistryInv'
<1> DEFINE c == conns[x]
           d == [c EXCEPT !.phase = "reading", !.entry = c.at, !.tracked = TRUE]
<1>1. /\ c.phase = "accepting" /\ c \in ConnRecords /\ ConnInv(c) /\ conns \in [Connections -> Conns]
      /\ conns' = [conns EXCEPT ![x] = NoConn] \/ conns' = [conns EXCEPT ![x] = d]
      /\ UNCHANGED <<participations, fenced, fences>>
  BY ConnTyped DEF Accept, RegistryInv, RegistryTypes
<1>2. CASE conns' = [conns EXCEPT ![x] = NoConn]
  <2>1. conns' \in [Connections -> Conns] /\ conns'[x] = NoConn /\ \A y \in Connections \ {x} : conns'[y] = conns[y]
    BY <1>1, <1>2 DEF Conns
  <2>2. ConnInv(conns[x])'
    BY <2>1, NoConnPhase DEF ConnInv
  <2>3. Drains(conns[x], conns'[x]) /\ KeepsFences(conns[x], conns'[x])
    BY <1>1, <2>1, NoConnPhase DEF Drains, KeepsFences
  <2> QED
    BY <1>1, <2>1, <2>2, <2>3, OneConnStep
<1>3. CASE conns' = [conns EXCEPT ![x] = d]
  <2>1. /\ d \in ConnRecords /\ d.phase = "reading" /\ d.attach = c.attach /\ d.granted = c.granted
        /\ d.home = c.home /\ d.fingerprint = c.fingerprint /\ d.at = c.at /\ d.entry = c.at
        /\ d.open = c.open /\ d.tracked = TRUE /\ d.closed = c.closed
    BY <1>1 DEF ConnRecords, Phases
  <2> HIDE DEF d
  <2>2. conns' \in [Connections -> Conns] /\ conns'[x] = d /\ \A y \in Connections \ {x} : conns'[y] = conns[y]
    BY <1>1, <1>3, <2>1 DEF Conns
  <2>3. ~ c.granted
    BY <1>1 DEF ConnInv, GrantPhases
  <2>4. ConnInv(conns[x])'
    BY <1>1, <2>1, <2>2, <2>3 DEF ConnInv, Open
  <2>5. Drains(conns[x], conns'[x]) /\ KeepsFences(conns[x], conns'[x])
    BY <1>1, <2>1, <2>2, <2>3 DEF Drains, KeepsFences
  <2> QED
    BY <1>1, <2>2, <2>4, <2>5, OneConnStep
<1> QED
  BY <1>1, <1>2, <1>3

LEMMA LoopStepInv ==
    ASSUME RegistryInv, UNCHANGED <<homes, up, members, quiescence, fenceEvents>>,
           NEW x \in Connections, LoopStep(x)
    PROVE  RegistryInv'
<1> DEFINE c == conns[x]
           d == conns'[x]
<1>1. /\ conns' \in [Connections -> Conns]
      /\ \A y \in Connections \ {x} : conns'[y] = conns[y]
      /\ c \in ConnRecords /\ d \in ConnRecords
      /\ \/ Onward(c, d) /\ (d.phase = "handling" => c.phase = "handling")
         \/ BeginsHandler(c, d)
         \/ Granted(c, d)
         \/ Moved(c, d)
      /\ c.phase = "fencing" => d.phase = "fencing" /\ d.home = c.home
  BY LoopStepConn DEF RegistryInv
<1>2. UNCHANGED <<participations, fenced, fences>>
  BY DEF LoopStep
<1>3. RegistryTypes' /\ ConnInv(c) /\ RegistryTypes
  BY <1>1, <1>2 DEF RegistryInv, RegistryTypes
<1>4. c.fingerprint \in Fingerprints /\ c.at \in Nat /\ c.attach \in Nat /\ members[c.fingerprint].connectedAt \in Nat
  BY <1>1 DEF ConnRecords, RegistryInv, RegistryTypes, MemberRecords
<1>5. ConnInv(conns[x])'
  <2>1. CASE Onward(c, d)
    BY <1>2, <1>3, <2>1, ConnFrame, SameTables
  <2>2. CASE Granted(c, d)
    <3>1. members'[c.fingerprint].state = "active"
      BY <2>2 DEF Granted, ActiveLifetime
    <3>2. c.at = members[c.fingerprint].connectedAt
      BY <2>2 DEF Granted, ActiveLifetime
    <3> QED
      BY <1>2, <1>3, <1>4, <2>2, <3>1, <3>2 DEF Granted, ConnInv, GrantPhases, Open
  <2>3. CASE Moved(c, d)
    BY <1>2, <1>3, <1>4, <2>3 DEF Moved, ConnInv, Open
  <2> QED
    BY <1>1, <2>1, <2>2, <2>3 DEF BeginsHandler
<1>6. Drains(c, d)
  BY <1>1, OnwardFrames DEF Quieter
<1>7. KeepsFences(c, d)
  BY <1>1 DEF KeepsFences, Onward, BeginsHandler, Granted, Moved
<1> QED
  BY <1>1, <1>2, <1>5, <1>6, <1>7, OneConnStep

LEMMA JoinStep ==
    ASSUME RegistryInv, UNCHANGED <<homes, up, members, quiescence, fenceEvents>>,
           NEW x \in Connections, JoinConnection(x)
    PROVE  RegistryInv'
<1> DEFINE c == conns[x]
           f == c.fingerprint
           joins == Joinable(f, c.at, c.home)
           d == [c EXCEPT !.phase = "accepting"]
<1>1. /\ c.phase = "joining" /\ c \in ConnRecords /\ ConnInv(c) /\ conns \in [Connections -> Conns]
      /\ conns' = [conns EXCEPT ![x] = IF joins THEN d ELSE NoConn]
      /\ participations' = IF joins THEN participations \union {Serving(f, c.at, c.home)} ELSE participations
      /\ UNCHANGED <<fenced, fences>>
  BY ConnTyped DEF JoinConnection, RecordParticipation, RegistryInv, RegistryTypes
<1>2. f \in Fingerprints /\ c.home \in Incarnations /\ c.home \in up /\ c.at \in Nat /\ members[f].connectedAt \in Nat
  BY <1>1 DEF ConnRecords, RegistryInv, RegistryTypes, MemberRecords, ConnInv
<1>3. CASE ~ joins
  <2>1. conns' \in [Connections -> Conns] /\ conns'[x] = NoConn /\ \A y \in Connections \ {x} : conns'[y] = conns[y]
    BY <1>1, <1>3 DEF Conns
  <2>2. ConnInv(conns[x])'
    BY <2>1, NoConnPhase DEF ConnInv
  <2>3. Drains(conns[x], conns'[x]) /\ KeepsFences(conns[x], conns'[x])
    BY <1>1, <2>1, NoConnPhase DEF Drains, KeepsFences
  <2> QED
    BY <1>1, <1>3, <2>1, <2>2, <2>3, OneConnStep
<1>4. CASE joins
  <2>1. /\ d \in ConnRecords /\ d.phase = "accepting" /\ d.attach = c.attach /\ d.granted = c.granted
        /\ d.home = c.home /\ d.fingerprint = c.fingerprint /\ d.at = c.at /\ d.entry = c.entry
        /\ d.open = c.open /\ d.tracked = c.tracked /\ d.closed = c.closed
    BY <1>1 DEF ConnRecords, Phases
  <2> HIDE DEF d
  <2>2. conns' \in [Connections -> Conns] /\ conns'[x] = d /\ \A y \in Connections \ {x} : conns'[y] = conns[y]
    BY <1>1, <1>4, <2>1 DEF Conns
  <2>3. ~ c.granted /\ c.phase # "handling"
    BY <1>1 DEF ConnInv, GrantPhases
  <2>4. /\ participations' = participations \union {Serving(f, c.at, c.home)}
        /\ members[f].state = "active" /\ homes[c.home].state = "active"
        /\ Serving(f, c.at, c.home) \in Participations
    BY <1>1, <1>2, <1>4 DEF Joinable, HomeActive, Serving, Participations
  <2>5. RegistryTypes'
    BY <2>2, <2>4, <1>1 DEF RegistryInv, RegistryTypes
  <2>6. HomesInv' /\ TablesInv'
    <3>1. Serving(f, c.at, c.home).home = c.home /\ Serving(f, c.at, c.home).fingerprint = f
      BY DEF Serving
    <3>2. HomesInv'
      BY <2>4, <3>1 DEF RegistryInv, HomesInv, Open
    <3>3. TablesInv'
      BY <2>4, <3>1 DEF RegistryInv, TablesInv, Open, RowsOf
    <3> QED
      BY <3>2, <3>3
  <2>7. ASSUME NEW y \in Connections, conns[y].phase # "none" PROVE KeepsConn(conns[y])
    <3>1. conns[y].fingerprint \in Fingerprints /\ conns[y].home \in up
      BY <2>7, ConnTyped DEF RegistryInv, ConnInv, ConnRecords
    <3>2. members[conns[y].fingerprint].connectedAt \in Nat
      BY <3>1 DEF RegistryInv, RegistryTypes, MemberRecords
    <3> QED
      BY <2>4, <3>1, <3>2 DEF KeepsConn
  <2>8. ASSUME NEW y \in Connections PROVE ConnInv(conns[y])'
    <3>1. CASE y = x
      <4>1. ConnInv(conns[x])'
        BY <1>1, <1>2, <2>1, <2>2, <2>3, <2>4 DEF ConnInv, Open
      <4> QED
        BY <3>1, <4>1
    <3>2. CASE y # x
      BY <2>2, <2>5, <2>7, <3>2, ConnFrame DEF RegistryInv
    <3> QED
      BY <3>1, <3>2
  <2>9. Drains(conns[x], conns'[x]) /\ KeepsFences(conns[x], conns'[x])
    BY <1>1, <2>1, <2>2, <2>3 DEF Drains, KeepsFences
  <2>10. FenceInv'
    BY <1>1, <2>2, <2>9, FencesKept DEF RegistryInv
  <2>11. AcknowledgedIsDrained'
    BY <2>2, <2>9, DrainedFrame DEF RegistryInv
  <2> QED
    BY <2>5, <2>6, <2>8, <2>10, <2>11 DEF RegistryInv
<1> QED
  BY <1>3, <1>4

-------------------------------------------------------------------------------
(* Fences start, go on and end. *)

\* A connection goes onward and the registry may change: what is left to show is the fences.
LEMMA QuietStep ==
    ASSUME RegistryInv, UNCHANGED <<homes, up, members, participations, quiescence, fenceEvents>>,
           conns' \in [Connections -> Conns],
           \A y \in Connections : conns'[y] = conns[y] \/ Quieter(conns[y], conns'[y]),
           fenced' \subseteq Incarnations \X Fingerprints \X Nat, fenced \subseteq fenced',
           fences' \subseteq FenceRecords,
           \A t \in fences' : FenceOf(t)', WaitersDiffer'
    PROVE  RegistryInv'
<1>1. RegistryTypes'
  BY DEF RegistryInv, RegistryTypes
<1>2. HomesInv' /\ TablesInv'
  BY SameTables
<1>3. ASSUME NEW y \in Connections PROVE ConnInv(conns[y])'
  BY <1>1, ConnFrame, SameTables DEF RegistryInv, Quieter
<1>4. FenceInv'
  BY DEF RegistryInv, FenceInv
<1>5. AcknowledgedIsDrained'
  <2>1. \A y \in Connections : conns'[y] = conns[y] \/ Drains(conns[y], conns'[y])
    BY OnwardFrames
  <2> QED
    BY <2>1, DrainedFrame DEF RegistryInv
<1> QED
  BY <1>1, <1>2, <1>3, <1>4, <1>5 DEF RegistryInv

\* A connection is quieter, and if it waits for a fence it goes on waiting.
LEMMA QuietKeepsFences ==
    ASSUME NEW x \in Connections, OneQuieter(x),
           conns[x].phase = "fencing" => conns'[x].phase = "fencing"
    PROVE  /\ \A y \in Connections : conns'[y] = conns[y] \/ Quieter(conns[y], conns'[y])
           /\ \A y \in Connections : conns'[y] = conns[y] \/ KeepsFences(conns[y], conns'[y])
<1>1. KeepsFences(conns[x], conns'[x])
  BY OnwardFrames DEF OneQuieter, Quieter
<1> QED
  BY <1>1 DEF OneQuieter

\* The fences that were there go on.
LEMMA FencesContinue ==
    ASSUME RegistryInv, up' = up, fenced \subseteq fenced', NEW t \in fences,
           \A x \in Connections : conns'[x] = conns[x] \/ KeepsFences(conns[x], conns'[x])
    PROVE  FenceOf(t)'
<1>1. t \in FenceRecords /\ FenceOf(t)
  BY DEF RegistryInv, RegistryTypes, FenceInv
<1>2. t.home \in up'
  BY <1>1 DEF FenceOf
<1> QED
  BY <1>1, <1>2, FenceFrame

\* A step of one connection that leaves the registry alone.
LEMMA QuietConnStep ==
    ASSUME RegistryInv, UNCHANGED <<homes, up, members, participations, quiescence, fenceEvents, fenced, fences>>,
           NEW x \in Connections, OneQuieter(x),
           conns[x].phase = "fencing" => conns'[x].phase = "fencing"
    PROVE  RegistryInv'
<1>1. /\ \A y \in Connections : conns'[y] = conns[y] \/ Quieter(conns[y], conns'[y])
      /\ \A y \in Connections : conns'[y] = conns[y] \/ KeepsFences(conns[y], conns'[y])
  BY QuietKeepsFences
<1>2. \A t \in fences' : FenceOf(t)'
  BY <1>1, FencesContinue
<1>3. WaitersDiffer' /\ conns' \in [Connections -> Conns]
  BY DEF RegistryInv, FenceInv, WaitersDiffer, OneQuieter
<1> QED
  BY <1>1, <1>2, <1>3, QuietStep DEF RegistryInv, RegistryTypes

\* A fence starts for the entry e.
LEMMA StartFenceStep ==
    ASSUME RegistryInv, UNCHANGED <<homes, up, members, participations, quiescence, fenceEvents>>,
           NEW e, NEW r \in Nat, NEW w \in Connections \union {NoConnection},
           e \in Incarnations \X Fingerprints \X Nat, e[1] \in up,
           StartFence(e, r, w),
           conns' \in [Connections -> Conns],
           \A y \in Connections : 
               conns'[y] = conns[y] \/ (Quieter(conns[y], conns'[y]) /\ KeepsFences(conns[y], conns'[y])),
           w # NoConnection =>
               conns[w].phase # "fencing" /\ conns'[w].phase = "fencing" /\ conns'[w].home = e[1]
    PROVE  RegistryInv'
<1>0. PICK todo : todo = ConnectionsOf(e)
  OBVIOUS
<1>t. PICK t : t = [home |-> e[1], fingerprint |-> e[2], at |-> e[3], revision |-> r,
                    waiter |-> w, todo |-> todo, acknowledged |-> FALSE]
  OBVIOUS
<1>1. fenced' = fenced \union {e} /\ fences' = fences \union {t}
  BY <1>0, <1>t DEF StartFence
<1>2. /\ e[1] \in Incarnations /\ e[2] \in Fingerprints /\ e[3] \in Nat /\ e = <<e[1], e[2], e[3]>>
      /\ todo \subseteq Connections
  BY <1>0 DEF ConnectionsOf
<1>3. \A x \in todo : conns[x].phase \notin {"none", "joining", "accepting"} /\ conns[x].home = e[1]
  <2> SUFFICES ASSUME NEW x \in todo
               PROVE  conns[x].phase \notin {"none", "joining", "accepting"} /\ conns[x].home = e[1]
    OBVIOUS
  <2>1. x \in Connections /\ conns[x].tracked /\ EntryOf(x) = e
    BY <1>0 DEF ConnectionsOf
  <2>2. conns[x].phase # "none"
    <3>1. NoConn.tracked = FALSE
      BY DEF NoConn
    <3> QED
      BY <2>1, <3>1 DEF RegistryInv, RegistryTypes, Conns
  <2>3. ConnInv(conns[x])
    BY <2>1 DEF RegistryInv
  <2> QED
    BY <2>1, <2>2, <2>3 DEF ConnInv, EntryOf
<1>4. /\ t \in FenceRecords
      /\ t.home = e[1] /\ t.fingerprint = e[2] /\ t.at = e[3] /\ t.waiter = w /\ t.todo = todo
  BY <1>2, <1>t DEF FenceRecords
<1>5. FenceOf(t)'
  <2>1. <<t.home, t.fingerprint, t.at>> \in fenced'
    BY <1>1, <1>2, <1>4
  <2>2. \A x \in t.todo : conns'[x].phase \notin {"none", "joining", "accepting"} /\ conns'[x].home = t.home
    BY <1>2, <1>3, <1>4 DEF KeepsFences
  <2> QED
    BY <1>4, <2>1, <2>2 DEF FenceOf
<1>6. \A s \in fences' : FenceOf(s)'
  <2>1. ASSUME NEW s \in fences PROVE FenceOf(s)'
    BY <1>1, FencesContinue
  <2> QED
    BY <1>1, <1>5, <2>1
<1>7. \A s \in fences : s.waiter = w /\ w # NoConnection => FALSE
  BY DEF RegistryInv, FenceInv, FenceOf
<1>8. WaitersDiffer'
  BY <1>1, <1>4, <1>7 DEF RegistryInv, FenceInv, WaitersDiffer
<1>9. fenced' \subseteq Incarnations \X Fingerprints \X Nat /\ fences' \subseteq FenceRecords
  BY <1>1, <1>4 DEF RegistryInv, RegistryTypes
<1> QED
  BY <1>1, <1>6, <1>8, <1>9, QuietStep

\* One fence is removed, or replaced by one that has less to do.
LEMMA FenceGoesOn ==
    ASSUME RegistryInv, UNCHANGED <<homes, up, members, participations, quiescence, fenced, conns, fenceEvents>>,
           NEW t \in fences, NEW u \in FenceRecords,
           u.home = t.home, u.fingerprint = t.fingerprint, u.at = t.at, u.waiter = t.waiter,
           u.todo \subseteq t.todo,
           fences' = (fences \ {t}) \union {u} \/ fences' = fences \ {t}
    PROVE  RegistryInv'
<1>0. fences \subseteq FenceRecords /\ FenceOf(t) /\ conns \in [Connections -> Conns]
  BY DEF RegistryInv, RegistryTypes, FenceInv
<1>1. t.home \in up'
  BY <1>0 DEF FenceOf
<1>2. FenceOf(u)'
  BY <1>0, <1>1, FenceFrame
<1>3. \A s \in fences : FenceOf(s)'
  BY FencesContinue
<1>4. \A s \in fences' : FenceOf(s)'
  BY <1>2, <1>3
<1>5. WaitersDiffer'
  BY DEF RegistryInv, FenceInv, WaitersDiffer
<1>6. fenced' \subseteq Incarnations \X Fingerprints \X Nat
  BY DEF RegistryInv, RegistryTypes
<1> QED
  BY <1>0, <1>4, <1>5, <1>6, QuietStep

\* The connection that waited for a fence is the only one that changes when the fence ends.
LEMMA LocalFenceEndsStep ==
    ASSUME RegistryInv, UNCHANGED <<homes, up, members, participations, quiescence, fenceEvents>>,
           NEW t \in fences, LocalFenceEnds(t)
    PROVE  RegistryInv'
<1>0. /\ t \in FenceRecords /\ FenceOf(t) /\ RegistryTypes /\ fences \subseteq FenceRecords
      /\ conns \in [Connections -> Conns]
      /\ fences' = fences \ {t} /\ fenced' = fenced
  BY DEF RegistryInv, RegistryTypes, FenceInv, LocalFenceEnds
<1>1. CASE t.waiter = NoConnection
  <2>1. conns' = conns
    BY <1>1 DEF LocalFenceEnds
  <2> QED
    BY <1>0, <2>1, FenceGoesOn
<1>2. CASE t.waiter # NoConnection
  <2> DEFINE x == t.waiter
  <2>1. x \in Connections /\ OneQuieter(x)
    BY <1>0, <1>2, WaiterConn
  <2>2. conns[x].phase = "fencing"
    BY <1>0, <1>2 DEF FenceOf
  <2>3. /\ conns' \in [Connections -> Conns]
        /\ \A y \in Connections : conns'[y] = conns[y] \/ Quieter(conns[y], conns'[y])
    BY <2>1 DEF OneQuieter
  <2>4. ASSUME NEW s \in fences' PROVE FenceOf(s)'
    <3>1. s \in fences /\ s # t /\ s \in FenceRecords /\ FenceOf(s)
      BY <1>0, <2>4 DEF RegistryInv, FenceInv
    <3>2. s.waiter # x
      BY <1>2, <3>1 DEF RegistryInv, FenceInv, WaitersDiffer
    <3>3. \A y \in Connections : y # x => conns'[y] = conns[y]
      BY <2>1 DEF OneQuieter
    <3>4. conns'[x].home = conns[x].home /\ conns'[x].phase \notin {"none", "joining", "accepting"}
      BY <2>1, <2>2 DEF OneQuieter, Quieter, Onward
    <3> HIDE DEF x
    <3> QED
      BY <1>0, <3>1, <3>2, <3>3, <3>4 DEF FenceOf, FenceRecords
  <2>5. WaitersDiffer'
    BY <1>0 DEF RegistryInv, FenceInv, WaitersDiffer
  <2>6. fenced' \subseteq Incarnations \X Fingerprints \X Nat /\ fences' \subseteq FenceRecords
    BY <1>0 DEF RegistryInv, RegistryTypes
  <2> QED
    BY <1>0, <2>3, <2>4, <2>5, <2>6, QuietStep
<1> QED
  BY <1>1, <1>2

LEMMA EndStep ==
    ASSUME RegistryInv, UNCHANGED <<homes, up, members, participations, quiescence, fenceEvents>>,
           NEW x \in Connections, EndConnection(x)
    PROVE  RegistryInv'
<1>0. UNCHANGED <<fenced, fences>>
  BY DEF EndConnection
<1>1. RegistryTypes /\ ConnInv(conns[x])
  BY DEF RegistryInv
<1>2. conns[x].phase \in {"closing", "ended"}
  BY <1>1, EndedConn
<1>3. CASE OneQuieter(x) /\ conns'[x].phase = "ended"
  BY <1>0, <1>2, <1>3, QuietConnStep
<1>4. CASE conns' = [conns EXCEPT ![x] = NoConn] /\ \A t \in fences : x \notin t.todo
  <2>1. /\ conns' \in [Connections -> Conns] /\ conns'[x] = NoConn
        /\ \A y \in Connections \ {x} : conns'[y] = conns[y]
    BY <1>1, <1>4 DEF RegistryTypes, Conns
  <2>2. RegistryTypes'
    BY <1>0, <2>1 DEF RegistryInv, RegistryTypes
  <2>3. HomesInv' /\ TablesInv'
    BY SameTables
  <2>4. ASSUME NEW y \in Connections PROVE ConnInv(conns[y])'
    <3>1. CASE y = x
      BY <2>1, <3>1, NoConnPhase DEF ConnInv
    <3>2. CASE y # x
      BY <2>1, <2>2, <3>2, ConnFrame, SameTables DEF RegistryInv
    <3> QED
      BY <3>1, <3>2
  <2>5. FenceInv'
    <3>1. ASSUME NEW s \in fences PROVE FenceOf(s)'
      <4>1. s \in FenceRecords /\ FenceOf(s) /\ x \notin s.todo
        BY <1>4 DEF RegistryInv, RegistryTypes, FenceInv
      <4>2. s.waiter # x
        BY <1>2, <4>1, ConnectionsAssumption DEF FenceOf
      <4> QED
        BY <1>0, <2>1, <4>1, <4>2 DEF FenceOf, FenceRecords
    <3> QED
      BY <1>0, <3>1 DEF RegistryInv, FenceInv, WaitersDiffer
  <2>6. AcknowledgedIsDrained'
    <3>1. \A y \in Connections : conns'[y] = conns[y] \/ Drains(conns[y], conns'[y])
      BY <2>1, NoConnPhase DEF Drains
    <3> QED
      BY <3>1, DrainedFrame DEF RegistryInv
  <2> QED
    BY <2>2, <2>3, <2>4, <2>5, <2>6 DEF RegistryInv
<1> QED
  BY <1>1, <1>3, <1>4, EndedConn

LEMMA LocalStepInv == RegistryInv /\ LocalStep => RegistryInv'
<1> SUFFICES ASSUME RegistryInv, LocalStep PROVE RegistryInv'
  OBVIOUS
<1>0. /\ UNCHANGED <<homes, up, members, participations, quiescence, fenceEvents>>
      /\ RegistryTypes /\ conns \in [Connections -> Conns] /\ up \subseteq Incarnations
      /\ fenceEvents \subseteq Fingerprints \X Nat \X Nat
  BY DEF LocalStep, RegistryInv, RegistryTypes
<1>e. ASSUME NEW x \in Connections, conns[x].phase # "none"
      PROVE  /\ EntryOf(x) \in Incarnations \X Fingerprints \X Nat /\ EntryOf(x)[1] \in up
             /\ EntryOf(x)[1] = conns[x].home
             /\ <<conns[x].home, conns[x].fingerprint, conns[x].at>> \in Incarnations \X Fingerprints \X Nat
             /\ conns[x].home \in up
  <2>1. conns[x] \in ConnRecords /\ conns[x].home \in up
    BY <1>e, ConnTyped DEF RegistryInv, ConnInv
  <2> QED
    BY <1>0, <2>1 DEF EntryOf, ConnRecords
<1>1. ASSUME NEW x \in Connections, HeartbeatFails(x) PROVE RegistryInv'
  <2>1. conns[x].beating /\ conns' = [conns EXCEPT ![x].beating = FALSE] /\ StartFence(EntryOf(x), 0, NoConnection)
    BY <1>1 DEF HeartbeatFails
  <2>2. OneQuieter(x) /\ conns'[x].phase = conns[x].phase
    BY <1>0, <2>1, HeartbeatConn
  <2>3. conns[x].phase # "none"
    BY <2>2 DEF OneQuieter, Quieter, Onward
  <2>4. /\ \A y \in Connections : conns'[y] = conns[y] \/ Quieter(conns[y], conns'[y])
        /\ \A y \in Connections : conns'[y] = conns[y] \/ KeepsFences(conns[y], conns'[y])
        /\ conns' \in [Connections -> Conns]
    BY <2>2, QuietKeepsFences DEF OneQuieter
  <2> QED
    BY <1>0, <1>e, <2>1, <2>3, <2>4, StartFenceStep
<1>2. ASSUME NEW x \in Connections, PongFails(x) PROVE RegistryInv'
  <2>1. OneQuieter(x) /\ conns'[x].phase = conns[x].phase /\ UNCHANGED <<fenced, fences>>
    BY <1>0, <1>2, HeartbeatConn DEF PongFails
  <2> QED
    BY <1>0, <2>1, QuietConnStep
<1>3. ASSUME NEW x \in Connections, FenceAfterPing(x) \/ FenceLocally(x) PROVE RegistryInv'
  <2>1. /\ conns[x].phase \in {"unlive", "local"} /\ conns' = [conns EXCEPT ![x].phase = "fencing"]
        /\ \/ StartFence(EntryOf(x), 0, x)
           \/ StartFence(<<conns[x].home, conns[x].fingerprint, conns[x].at>>, 0, x)
    BY <1>3 DEF FenceAfterPing, FenceLocally
  <2>2. OneQuieter(x) /\ conns'[x].phase = "fencing" /\ conns'[x].home = conns[x].home
    BY <1>0, <2>1, RephasedConn
  <2>4. /\ \A y \in Connections : conns'[y] = conns[y] \/ Quieter(conns[y], conns'[y])
        /\ \A y \in Connections : conns'[y] = conns[y] \/ KeepsFences(conns[y], conns'[y])
        /\ conns' \in [Connections -> Conns]
    BY <2>1, <2>2, QuietKeepsFences DEF OneQuieter
  <2>5. x # NoConnection /\ conns[x].phase # "none"
    BY <2>1, ConnectionsAssumption
  <2>6. PICK e : /\ StartFence(e, 0, x) /\ e \in Incarnations \X Fingerprints \X Nat /\ e[1] = conns[x].home
                 /\ e[1] \in up
    BY <1>e, <2>1, <2>5
  <2> QED
    BY <1>0, <2>1, <2>2, <2>4, <2>5, <2>6, StartFenceStep
<1>4. ASSUME NEW x \in Connections, CancelFails(x) PROVE RegistryInv'
  <2>1. /\ conns[x].phase = "undelivered" /\ conns' = [conns EXCEPT ![x].phase = "local"]
        /\ UNCHANGED <<fenced, fences>>
    BY <1>4 DEF CancelFails
  <2>2. OneQuieter(x)
    BY <1>0, <2>1, RephasedConn
  <2> QED
    BY <1>0, <2>1, <2>2, QuietConnStep
<1>5. ASSUME NEW x \in Connections, CloseSocket(x) \/ Untrack(x) PROVE RegistryInv'
  <2>1. UNCHANGED <<fenced, fences>>
    BY <1>5 DEF CloseSocket, Untrack
  <2>2. OneQuieter(x) /\ conns'[x].phase = conns[x].phase
    BY <1>0, <1>5, ClosedConn DEF RegistryInv, FenceInv
  <2> QED
    BY <1>0, <2>1, <2>2, QuietConnStep
<1>6. ASSUME NEW x \in Connections, EndConnection(x) PROVE RegistryInv'
  BY <1>0, <1>6, EndStep
<1>7. ASSUME NEW h \in Incarnations, NEW event \in fenceEvents, HandleCPAFence(h, event) PROVE RegistryInv'
  <2>1. /\ event[1] \in Fingerprints /\ event[2] \in Nat /\ event[3] \in Nat
    BY <1>0
  <2>2. PICK e : e = <<h, event[1], event[2]>>
    OBVIOUS
  <2>3. /\ e \in Incarnations \X Fingerprints \X Nat /\ e[1] \in up
        /\ StartFence(e, event[3], NoConnection) /\ conns' = conns
    BY <1>7, <2>1, <2>2 DEF HandleCPAFence
  <2> QED
    BY <1>0, <2>1, <2>3, StartFenceStep
<1>8. ASSUME NEW t \in fences, NEW x \in Connections, FenceClosed(t, x) PROVE RegistryInv'
  <2>0. t \in FenceRecords
    BY <1>0 DEF RegistryTypes
  <2>1. PICK u : u = [t EXCEPT !.todo = @ \ {x}]
    OBVIOUS
  <2>2. /\ u \in FenceRecords /\ u.todo \subseteq t.todo
        /\ u.home = t.home /\ u.fingerprint = t.fingerprint /\ u.at = t.at /\ u.waiter = t.waiter
    BY <2>0, <2>1 DEF FenceRecords
  <2>3. fences' = (fences \ {t}) \union {u} /\ UNCHANGED <<conns, fenced>>
    BY <1>8, <2>1 DEF FenceClosed
  <2> QED
    BY <1>0, <2>2, <2>3, FenceGoesOn
<1>9. ASSUME NEW t \in fences, AcknowledgeMismatch(t) \/ CompleteLater(t) PROVE RegistryInv'
  <2>1. fences' = fences \ {t} /\ UNCHANGED <<conns, fenced>> /\ t \in FenceRecords
    BY <1>0, <1>9 DEF AcknowledgeMismatch, CompleteLater, RegistryTypes
  <2> QED
    BY <1>0, <2>1, FenceGoesOn
<1>10. ASSUME NEW t \in fences, LocalFenceEnds(t) PROVE RegistryInv'
  BY <1>0, <1>10, LocalFenceEndsStep
<1> QED
  BY <1>1, <1>2, <1>3, <1>4, <1>5, <1>6, <1>7, <1>8, <1>9, <1>10 DEF LocalStep

-------------------------------------------------------------------------------
(* Steps of the database tables. *)

\* The tables change, no acknowledgement is added, and connections only go onward.
LEMMA TablesStep ==
    ASSUME RegistryInv, RegistryTypes', HomesInv', TablesInv', UNCHANGED <<up, fenced, fences>>,
           \A y \in Connections : conns'[y] = conns[y] \/ (Quieter(conns[y], conns'[y]) /\ KeepsFences(conns[y], conns'[y])),
           \A y \in Connections : conns[y].phase # "none" => KeepsConn(conns[y]),
           \A q \in quiescence' : q.status = "acknowledged" => q \in quiescence
    PROVE  RegistryInv'
<1>1. ASSUME NEW y \in Connections PROVE ConnInv(conns[y])'
  BY ConnFrame DEF RegistryInv, Quieter
<1>2. FenceInv'
  BY FencesKept DEF RegistryInv
<1>3. AcknowledgedIsDrained'
  <2>1. \A y \in Connections : conns'[y] = conns[y] \/ Drains(conns[y], conns'[y])
    BY OnwardFrames
  <2> QED
    BY <2>1, DrainedFrame DEF RegistryInv
<1> QED
  BY <1>1, <1>2, <1>3 DEF RegistryInv

\* What a connection's fingerprint, Home and lifetime are.
LEMMA ConnFacts ==
    ASSUME RegistryInv, NEW y \in Connections, conns[y].phase # "none"
    PROVE  /\ conns[y].fingerprint \in Fingerprints /\ conns[y].home \in up
           /\ members[conns[y].fingerprint].connectedAt \in Nat /\ conns[y].at \in Nat
<1>1. conns[y].fingerprint \in Fingerprints /\ conns[y].home \in up /\ conns[y].at \in Nat
  BY ConnTyped DEF RegistryInv, ConnInv, ConnRecords
<1> QED
  BY <1>1 DEF RegistryInv, RegistryTypes, MemberRecords

\* A cancellation begins: new pending rows, and a membership that is canceling.
LEMMA BeginTables ==
    ASSUME RegistryInv, NEW f \in Fingerprints, BeginCancellation(f), PublishFence(f)
    PROVE  /\ homes' = homes /\ homes' \in [Incarnations -> HomeRecords]
           /\ members' \in [Fingerprints -> MemberRecords]
           /\ quiescence' \subseteq QuiescenceRows
           /\ fenceEvents' \subseteq Fingerprints \X Nat \X Nat
           /\ UNCHANGED <<up, participations>>
           /\ HomesInv' /\ TablesInv'
           /\ \A y \in Connections : conns[y].phase # "none" => KeepsConn(conns[y])
           /\ \A q \in quiescence' : q.status = "acknowledged" => q \in quiescence
<1> DEFINE m == members[f]
           at == m.connectedAt
           candidates == {m.home} \union ParticipantsOf(f, at)
           r == m.cancelRevision + 1
           n == Cardinality(candidates)
           Row(h) == [fingerprint |-> f, connectedAt |-> at, revision |-> r, home |-> h, status |-> "pending"]
           rows == {Row(h) : h \in candidates}
<1>0. /\ m \in MemberRecords /\ m.state = "active" /\ members \in [Fingerprints -> MemberRecords]
      /\ at \in Nat /\ at > 0 /\ r \in Nat /\ m.cancelRevision \in Nat
      /\ homes \in [Incarnations -> HomeRecords] /\ quiescence \subseteq QuiescenceRows
      /\ fenceEvents \subseteq Fingerprints \X Nat \X Nat
      /\ UNCHANGED <<up, participations>>
  BY DEF RegistryInv, RegistryTypes, MemberRecords, BeginCancellation, TablesInv, Open
<1>1. candidates \subseteq Incarnations /\ \A h \in candidates : homes[h].state # "none"
  <2>1. m.home \in Incarnations /\ homes[m.home].state # "none"
    BY <1>0 DEF RegistryInv, HomesInv, Open
  <2>2. \A h \in ParticipantsOf(f, at) : h \in Incarnations /\ homes[h].state # "none"
    BY DEF ParticipantsOf, Serving, RegistryInv, HomesInv
  <2> QED
    BY <2>1, <2>2
<1>2. n \in Nat
  <2>1. IsFiniteSet(candidates)
    BY <1>1, IncarnationsAssumption, FS_Subset
  <2> QED
    BY <2>1, FS_CardinalityType
<1>3. /\ homes' = homes
      /\ \A h \in candidates : ~ HomeReclaimable(homes[h])
  BY <1>1, HomesStay DEF RegistryInv, BeginCancellation
<1>4. quiescence' = quiescence \union rows
  BY <1>1, <1>3, HomesStay DEF RegistryInv, BeginCancellation
<1>5. members' = [members EXCEPT ![f].state = "canceling", ![f].cancelRevision = r, ![f].expected = n]
  BY DEF BeginCancellation
<1> HIDE DEF candidates, n
<1>6. /\ members'[f] \in MemberRecords /\ members'[f].state = "canceling" /\ members'[f].cancelRevision = r
      /\ members'[f].connectedAt = at /\ members'[f].home = m.home
      /\ \A g \in Fingerprints : g # f => members'[g] = members[g]
      /\ members' \in [Fingerprints -> MemberRecords]
  BY <1>0, <1>2, <1>5 DEF MemberRecords, MemberStates
<1> HIDE DEF r, at
<1>7. \A h \in candidates : /\ Row(h) \in QuiescenceRows /\ Row(h).fingerprint = f /\ Row(h).connectedAt = at
                            /\ Row(h).revision = r /\ Row(h).home = h /\ Row(h).status = "pending"
  BY <1>0, <1>1 DEF QuiescenceRows
<1> HIDE DEF Row
<1>8. fenceEvents' \subseteq Fingerprints \X Nat \X Nat
  BY <1>0, <1>6 DEF PublishFence
<1>9. HomesInv'
  <2>1. \A q \in quiescence' : homes[q.home].state # "none"
    BY <1>1, <1>4, <1>7 DEF RegistryInv, HomesInv
  <2>2. \A g \in Fingerprints : Open(g)' => members'[g].home \in Incarnations /\ homes[members'[g].home].state # "none"
    <3> SUFFICES ASSUME NEW g \in Fingerprints, Open(g)'
                 PROVE  members'[g].home \in Incarnations /\ homes[members'[g].home].state # "none"
      OBVIOUS
    <3>1. Open(g) /\ members'[g].home = members[g].home
      BY <1>0, <1>6 DEF Open
    <3> QED
      BY <3>1 DEF RegistryInv, HomesInv
  <2> QED
    BY <1>0, <1>3, <2>1, <2>2 DEF RegistryInv, HomesInv
<1>10. TablesInv'
  <2>1. \A g \in Fingerprints : Open(g)' => members'[g].connectedAt > 0
    BY <1>0, <1>6 DEF Open, RegistryInv, TablesInv
  <2>2. ASSUME NEW q \in quiescence'
        PROVE  /\ q.status # "fenced"
               /\ q.connectedAt <= members'[q.fingerprint].connectedAt
               /\ q.connectedAt = members'[q.fingerprint].connectedAt =>
                      members'[q.fingerprint].state \in {"canceling", "closed"}
    <3>1. CASE q \in quiescence
      <4>1. q.fingerprint \in Fingerprints
        BY <1>0, <3>1 DEF QuiescenceRows
      <4> QED
        BY <1>0, <1>6, <3>1, <4>1 DEF RegistryInv, TablesInv, at
    <3>2. CASE q \in rows
      BY <1>0, <1>6, <1>7, <3>2
    <3> QED
      BY <1>4, <3>1, <3>2
  <2>3. ASSUME NEW p \in participations, members'[p.fingerprint].state = "canceling",
               members'[p.fingerprint].connectedAt = p.connectedAt
        PROVE  \E q \in RowsOf(p.fingerprint, p.connectedAt, members[p.fingerprint].cancelRevision)' : q.home = p.home
    <3>0. p \in Participations
      BY DEF RegistryInv, RegistryTypes
    <3>1. CASE p.fingerprint = f
      <4>1. p = Serving(f, at, p.home) /\ p.home \in Incarnations
        BY <1>6, <2>3, <3>0, <3>1 DEF Participations, Serving
      <4>2. p.home \in candidates
        BY <4>1 DEF candidates, ParticipantsOf, at
      <4>3. Row(p.home) \in quiescence'
        BY <1>4, <4>2
      <4> QED
        BY <1>6, <1>7, <2>3, <3>1, <4>2, <4>3 DEF RowsOf
    <3>2. CASE p.fingerprint # f
      <4>1. p.fingerprint \in Fingerprints /\ members'[p.fingerprint] = members[p.fingerprint]
        BY <1>6, <3>0, <3>2 DEF Participations
      <4>2. PICK q \in RowsOf(p.fingerprint, p.connectedAt, members[p.fingerprint].cancelRevision) : q.home = p.home
        BY <2>3, <4>1 DEF RegistryInv, TablesInv
      <4> QED
        BY <1>4, <4>1, <4>2 DEF RowsOf
    <3> QED
      BY <3>1, <3>2
  <2> QED
    BY <1>0, <2>1, <2>2, <2>3 DEF TablesInv
<1>11. ASSUME NEW y \in Connections, conns[y].phase # "none" PROVE KeepsConn(conns[y])
  <2>1. /\ conns[y].fingerprint \in Fingerprints /\ conns[y].home \in up
        /\ members[conns[y].fingerprint].connectedAt \in Nat
    BY <1>11, ConnFacts
  <2>2. members'[conns[y].fingerprint].connectedAt = members[conns[y].fingerprint].connectedAt
    BY <1>6, <2>1 DEF at
  <2> QED
    BY <1>0, <1>6, <2>1, <2>2 DEF KeepsConn
<1>12. \A q \in quiescence' : q.status = "acknowledged" => q \in quiescence
  BY <1>4, <1>7
<1>13. quiescence' \subseteq QuiescenceRows
  BY <1>0, <1>4, <1>7
<1> QED
  BY <1>0, <1>3, <1>6, <1>8, <1>9, <1>10, <1>11, <1>12, <1>13

LEMMA CancelStepInv ==
    ASSUME RegistryInv,
           (\E x \in Connections : CancelUndelivered(x)) \/ (\E f \in Fingerprints : CleanupStale(f))
    PROVE  RegistryInv'
<1>1. ASSUME NEW f \in Fingerprints, BeginCancellation(f), PublishFence(f), UNCHANGED <<fenced, fences>>,
             conns' \in [Connections -> Conns],
             \A y \in Connections : conns'[y] = conns[y] \/ (Quieter(conns[y], conns'[y]) /\ KeepsFences(conns[y], conns'[y]))
      PROVE  RegistryInv'
  <2>1. RegistryTypes'
    BY <1>1, BeginTables DEF RegistryInv, RegistryTypes
  <2> QED
    BY <1>1, <2>1, BeginTables, TablesStep
<1>0. RegistryTypes /\ conns \in [Connections -> Conns]
  BY DEF RegistryInv, RegistryTypes
<1>2. ASSUME NEW x \in Connections, CancelUndelivered(x) PROVE RegistryInv'
  <2> DEFINE f == conns[x].fingerprint
  <2>1. /\ conns[x].phase = "undelivered" /\ conns' = [conns EXCEPT ![x].phase = "local"]
        /\ UNCHANGED <<fenced, fences>> /\ BeginCancellation(f) /\ PublishFence(f)
    BY <1>2 DEF CancelUndelivered, BeginFingerprintCancellationForLifetime
  <2>2. OneQuieter(x)
    BY <1>0, <2>1, RephasedConn
  <2>3. /\ \A y \in Connections : conns'[y] = conns[y] \/ Quieter(conns[y], conns'[y])
        /\ \A y \in Connections : conns'[y] = conns[y] \/ KeepsFences(conns[y], conns'[y])
        /\ conns' \in [Connections -> Conns]
    BY <2>1, <2>2, QuietKeepsFences DEF OneQuieter
  <2>4. f \in Fingerprints
    BY <2>1, ConnFacts
  <2>5. PICK g \in Fingerprints : BeginCancellation(g) /\ PublishFence(g)
    BY <2>1, <2>4
  <2> QED
    BY <1>1, <2>1, <2>3, <2>5
<1>3. ASSUME NEW f \in Fingerprints, CleanupStale(f) PROVE RegistryInv'
  BY <1>0, <1>1, <1>3 DEF CleanupStale, CleanupStaleMembership
<1> QED
  BY <1>2, <1>3

\* A new lifetime begins: the rows of the old one are dropped, the connection is still handling.
LEMMA SubscribeStepInv ==
    ASSUME RegistryInv, NEW x \in Connections, NEW takeover, SubscribeCommand(x, takeover), UNCHANGED <<homes, up>>
    PROVE  RegistryInv'
<1> DEFINE c == conns[x]
           f == c.fingerprint
           at == members[f].connectedAt
           d == [c EXCEPT !.attach = at + 1]
<1>0. /\ c.phase = "handling" /\ c \in ConnRecords /\ ConnInv(c) /\ conns \in [Connections -> Conns]
      /\ ~ c.granted /\ c.attach = 0
      /\ f \in Fingerprints /\ c.home \in Incarnations /\ c.home \in up /\ at \in Nat /\ c.at \in Nat /\ c.at <= at
      /\ members \in [Fingerprints -> MemberRecords]
  <2>1. c.phase = "handling" /\ c \in ConnRecords /\ ConnInv(c) /\ ~ c.granted /\ c.attach = 0
    BY ConnTyped DEF SubscribeCommand, RegistryInv
  <2>2. f \in Fingerprints /\ c.home \in up /\ at \in Nat /\ c.at \in Nat
    BY <2>1, ConnFacts
  <2> QED
    BY <2>1, <2>2 DEF RegistryInv, RegistryTypes, ConnInv
<1>1. /\ homes[c.home].state = "active"
      /\ participations' = {p \in participations : ~ (Open(f) /\ p.fingerprint = f /\ p.connectedAt = at)}
      /\ quiescence' = {q \in quiescence : ~ (Open(f) /\ q.fingerprint = f /\ q.connectedAt = at)}
      /\ members' = [members EXCEPT ![f] =
            [state |-> "active", home |-> c.home, protocol |-> 1, connectedAt |-> at + 1,
             lifecycleRevision |-> lifecycleRevision, cancelRevision |-> 0, expected |-> 0, age |-> Fresh]]
      /\ lifecycleRevision = 1
      /\ UNCHANGED <<fenced, fences, fenceEvents>>
  BY DEF SubscribeCommand, SubscribeMembership, HomeActive
<1>2. /\ members' \in [Fingerprints -> MemberRecords]
      /\ members'[f].state = "active" /\ members'[f].home = c.home /\ members'[f].connectedAt = at + 1
      /\ \A g \in Fingerprints : g # f => members'[g] = members[g]
  BY <1>0, <1>1 DEF MemberRecords, MemberStates, Fresh, Stale
<1>3. conns' = [conns EXCEPT ![x] = d]
  <2>1. conns' = [conns EXCEPT ![x].attach = members'[f].connectedAt]
    BY DEF SubscribeCommand
  <2> QED
    BY <1>0, <1>2, <2>1
<1>4. /\ d \in ConnRecords /\ d.phase = c.phase /\ d.attach = at + 1 /\ d.granted = c.granted
      /\ d.home = c.home /\ d.fingerprint = c.fingerprint /\ d.at = c.at /\ d.entry = c.entry
      /\ d.open = c.open /\ d.tracked = c.tracked /\ d.closed = c.closed
  BY <1>0 DEF ConnRecords, Phases
<1> HIDE DEF d
<1>5. conns' \in [Connections -> Conns] /\ conns'[x] = d /\ \A y \in Connections \ {x} : conns'[y] = conns[y]
  BY <1>0, <1>3, <1>4 DEF Conns
<1>6. RegistryTypes'
  BY <1>1, <1>2, <1>5 DEF RegistryInv, RegistryTypes
<1>7. HomesInv'
  BY <1>0, <1>1, <1>2 DEF RegistryInv, HomesInv, Open
<1>8. TablesInv'
  <2>1. \A g \in Fingerprints : Open(g)' => members'[g].connectedAt > 0
    BY <1>0, <1>2 DEF Open, RegistryInv, TablesInv
  <2>2. ASSUME NEW q \in quiescence'
        PROVE  /\ q.status # "fenced"
               /\ q.connectedAt <= members'[q.fingerprint].connectedAt
               /\ q.connectedAt = members'[q.fingerprint].connectedAt =>
                      members'[q.fingerprint].state \in {"canceling", "closed"}
    <3>1. q \in quiescence /\ q.fingerprint \in Fingerprints /\ q.connectedAt \in Nat
      BY <1>1 DEF RegistryInv, RegistryTypes, QuiescenceRows
    <3>2. CASE q.fingerprint = f
      BY <1>0, <1>2, <3>1, <3>2 DEF RegistryInv, TablesInv
    <3>3. CASE q.fingerprint # f
      BY <1>2, <3>1, <3>3 DEF RegistryInv, TablesInv
    <3> QED
      BY <3>2, <3>3
  <2>3. ASSUME NEW p \in participations', members'[p.fingerprint].state = "canceling",
               members'[p.fingerprint].connectedAt = p.connectedAt
        PROVE  \E q \in RowsOf(p.fingerprint, p.connectedAt, members[p.fingerprint].cancelRevision)' : q.home = p.home
    <3>1. p \in participations /\ p.fingerprint \in Fingerprints /\ p.fingerprint # f
      BY <1>1, <1>2, <2>3 DEF RegistryInv, RegistryTypes, Participations
    <3>2. members'[p.fingerprint] = members[p.fingerprint]
      BY <1>2, <3>1
    <3>3. PICK q \in RowsOf(p.fingerprint, p.connectedAt, members[p.fingerprint].cancelRevision) : q.home = p.home
      BY <2>3, <3>1, <3>2 DEF RegistryInv, TablesInv
    <3>4. q \in quiescence'
      BY <1>1, <3>1, <3>3 DEF RowsOf
    <3> QED
      BY <3>2, <3>3, <3>4 DEF RowsOf
  <2> QED
    BY <2>1, <2>2, <2>3 DEF TablesInv
<1>9. ASSUME NEW y \in Connections, conns[y].phase # "none" PROVE KeepsConn(conns[y])
  <2>1. /\ conns[y].fingerprint \in Fingerprints /\ conns[y].home \in up
        /\ members[conns[y].fingerprint].connectedAt \in Nat
    BY <1>9, ConnFacts
  <2>2. CASE conns[y].fingerprint = f
    BY <1>0, <1>2, <2>1, <2>2 DEF KeepsConn, SubscribeCommand
  <2>3. CASE conns[y].fingerprint # f
    <3>1. members'[conns[y].fingerprint] = members[conns[y].fingerprint]
      BY <1>2, <2>1, <2>3
    <3>2. Serving(conns[y].fingerprint, conns[y].at, conns[y].home).fingerprint # f
      BY <2>3 DEF Serving
    <3> QED
      BY <1>1, <2>1, <3>1, <3>2 DEF KeepsConn
  <2> QED
    BY <2>2, <2>3
<1>10. ASSUME NEW y \in Connections PROVE ConnInv(conns[y])'
  <2>1. CASE y = x
    <3>1. ConnInv(conns[x])'
      BY <1>0, <1>2, <1>4, <1>5 DEF ConnInv
    <3> QED
      BY <2>1, <3>1
  <2>2. CASE y # x
    BY <1>5, <1>6, <1>9, <2>2, ConnFrame DEF RegistryInv
  <2> QED
    BY <2>1, <2>2
<1>11. Drains(c, conns'[x]) /\ KeepsFences(c, conns'[x])
  BY <1>0, <1>4, <1>5 DEF Drains, KeepsFences
<1>12. \A q \in quiescence' : q \in quiescence
  BY <1>1
<1>13. FenceInv'
  BY <1>1, <1>5, <1>11, <1>12, FencesKept DEF RegistryInv
<1>14. AcknowledgedIsDrained'
  BY <1>5, <1>11, <1>12, DrainedFrame DEF RegistryInv
<1> QED
  BY <1>6, <1>7, <1>8, <1>10, <1>13, <1>14 DEF RegistryInv

\* A heartbeat, and time, change nothing but the age of a membership.
LEMMA AgeStepInv ==
    ASSUME RegistryInv, NEW f \in Fingerprints, NEW a \in {Fresh, Stale},
           members' = [members EXCEPT ![f].age = a],
           UNCHANGED <<homes, up, participations, quiescence, registryVars>>
    PROVE  RegistryInv'
<1>0. members \in [Fingerprints -> MemberRecords] /\ conns \in [Connections -> Conns]
  BY DEF RegistryInv, RegistryTypes
<1>1. /\ members' \in [Fingerprints -> MemberRecords]
      /\ \A g \in Fingerprints :
            /\ members'[g].state = members[g].state /\ members'[g].home = members[g].home
            /\ members'[g].connectedAt = members[g].connectedAt
            /\ members'[g].cancelRevision = members[g].cancelRevision
  BY <1>0 DEF MemberRecords
<1>2. RegistryTypes'
  BY <1>1 DEF RegistryInv, RegistryTypes, registryVars
<1>3. HomesInv'
  BY <1>1 DEF RegistryInv, HomesInv, Open
<1>4. TablesInv'
  <2>1. /\ \A q \in quiescence : q.fingerprint \in Fingerprints
        /\ \A p \in participations : p.fingerprint \in Fingerprints
    BY DEF RegistryInv, RegistryTypes, QuiescenceRows, Participations
  <2> QED
    BY <1>1, <2>1 DEF RegistryInv, TablesInv, Open, RowsOf
<1>5. ASSUME NEW y \in Connections, conns[y].phase # "none" PROVE KeepsConn(conns[y])
  <2>1. /\ conns[y].fingerprint \in Fingerprints /\ conns[y].home \in up
        /\ members[conns[y].fingerprint].connectedAt \in Nat
    BY <1>5, ConnFacts
  <2> QED
    BY <1>1, <2>1 DEF KeepsConn
<1> QED
  BY <1>2, <1>3, <1>4, <1>5, TablesStep DEF registryVars

\* A drained fence acknowledges: nothing of the lifetime is left at this Home.
LEMMA AcknowledgeStepInv ==
    ASSUME RegistryInv, NEW t \in fences, AcknowledgeFence(t), UNCHANGED <<homes, up, fenceEvents>>
    PROVE  RegistryInv'
<1> DEFINE f == t.fingerprint
           e == <<t.home, f, t.at>>
           mine == {row \in RowsOf(f, t.at, t.revision) : row.home = t.home}
           Ack(row) == [row EXCEPT !.status = "acknowledged"]
           acks == {Ack(row) : row \in mine}
<1>0. /\ Drained(t) /\ UNCHANGED <<conns, fenced, members, participations>>
      /\ quiescence' = (quiescence \ mine) \union acks
      /\ fences' = (fences \ {t}) \union {[t EXCEPT !.acknowledged = TRUE]}
      /\ t \in FenceRecords /\ FenceOf(t)
      /\ quiescence \subseteq QuiescenceRows /\ conns \in [Connections -> Conns]
  BY DEF AcknowledgeFence, AcknowledgeQuiescence, RegistryInv, RegistryTypes, FenceInv
<1>1. \A row \in mine :
        /\ Ack(row) \in QuiescenceRows /\ Ack(row).status = "acknowledged"
        /\ Ack(row).fingerprint = row.fingerprint /\ Ack(row).connectedAt = row.connectedAt
        /\ Ack(row).revision = row.revision /\ Ack(row).home = row.home
        /\ row \in quiescence /\ row.fingerprint = f /\ row.connectedAt = t.at /\ row.revision = t.revision
        /\ row.home = t.home
  BY <1>0 DEF RowsOf, QuiescenceRows
<1> HIDE DEF Ack
<1>2. \A a \in acks : /\ a \in QuiescenceRows /\ a.status = "acknowledged"
                      /\ a.fingerprint = f /\ a.connectedAt = t.at /\ a.revision = t.revision /\ a.home = t.home
                      /\ \E row \in quiescence : row.fingerprint = f /\ row.connectedAt = t.at /\ row.home = t.home
  BY <1>1
<1>3. \A q \in quiescence' : (q \in quiescence /\ q \notin mine) \/ q \in acks
  BY <1>0
<1>4. \A row \in quiescence :
        \E q \in quiescence' : q.fingerprint = row.fingerprint /\ q.connectedAt = row.connectedAt
            /\ q.revision = row.revision /\ q.home = row.home
  <2> SUFFICES ASSUME NEW row \in quiescence
               PROVE  \E q \in quiescence' : q.fingerprint = row.fingerprint /\ q.connectedAt = row.connectedAt
                          /\ q.revision = row.revision /\ q.home = row.home
    OBVIOUS
  <2>1. CASE row \in mine
    <3>1. Ack(row) \in quiescence'
      BY <1>0, <2>1
    <3> QED
      BY <1>1, <2>1, <3>1
  <2>2. CASE row \notin mine
    BY <1>0, <2>2
  <2> QED
    BY <2>1, <2>2
<1> HIDE DEF acks, mine
<1>u. PICK u : u = [t EXCEPT !.acknowledged = TRUE]
  OBVIOUS
<1>5. /\ u \in FenceRecords /\ u.home = t.home /\ u.fingerprint = t.fingerprint /\ u.at = t.at
      /\ u.waiter = t.waiter /\ u.todo = t.todo
      /\ fences' = (fences \ {t}) \union {u}
  BY <1>0, <1>u DEF FenceRecords
<1>6. RegistryTypes'
  BY <1>0, <1>2, <1>3, <1>5 DEF RegistryInv, RegistryTypes
<1>7. HomesInv'
  BY <1>0, <1>2, <1>3 DEF RegistryInv, HomesInv, Open
<1>8. TablesInv'
  <2>1. \A g \in Fingerprints : Open(g)' => members'[g].connectedAt > 0
    BY <1>0 DEF Open, RegistryInv, TablesInv
  <2>2. ASSUME NEW q \in quiescence'
        PROVE  /\ q.status # "fenced"
               /\ q.connectedAt <= members'[q.fingerprint].connectedAt
               /\ q.connectedAt = members'[q.fingerprint].connectedAt =>
                      members'[q.fingerprint].state \in {"canceling", "closed"}
    <3>1. CASE q \in quiescence
      BY <1>0, <3>1 DEF RegistryInv, TablesInv
    <3>2. CASE q \in acks
      BY <1>0, <1>2, <3>2 DEF RegistryInv, TablesInv
    <3> QED
      BY <1>3, <3>1, <3>2
  <2>3. ASSUME NEW p \in participations, members'[p.fingerprint].state = "canceling",
               members'[p.fingerprint].connectedAt = p.connectedAt
        PROVE  \E q \in RowsOf(p.fingerprint, p.connectedAt, members[p.fingerprint].cancelRevision)' : q.home = p.home
    <3>1. PICK row \in RowsOf(p.fingerprint, p.connectedAt, members[p.fingerprint].cancelRevision) : row.home = p.home
      BY <1>0, <2>3 DEF RegistryInv, TablesInv
    <3> QED
      BY <1>0, <1>4, <3>1 DEF RowsOf
  <2> QED
    BY <1>0, <2>1, <2>2, <2>3 DEF TablesInv
<1>9. ASSUME NEW y \in Connections PROVE ConnInv(conns[y])'
  BY <1>0 DEF RegistryInv, ConnInv, Open
<1>10. FenceInv'
  <2>1. t.home \in up'
    BY <1>0 DEF FenceOf
  <2>2. FenceOf(u)'
    BY <1>0, <1>5, <2>1, FenceFrame
  <2>3. \A s \in fences : FenceOf(s)'
    BY <1>0, FencesContinue
  <2>4. WaitersDiffer'
    BY <1>5 DEF RegistryInv, FenceInv, WaitersDiffer
  <2>5. \A q \in quiescence' : q.status = "acknowledged" /\ q.home \in up' =>
            <<q.home, q.fingerprint, q.connectedAt>> \in fenced'
    <3>1. <<t.home, f, t.at>> \in fenced
      BY <1>0 DEF FenceOf
    <3> QED
      BY <1>0, <1>2, <1>3, <3>1 DEF RegistryInv, FenceInv
  <2> QED
    BY <1>5, <2>2, <2>3, <2>4, <2>5 DEF FenceInv
<1>11. HandlersOf(e) = {} /\ \A x \in Connections :
          conns[x].home = t.home /\ conns[x].fingerprint = f /\ conns[x].at = t.at /\ conns[x].granted
              => ~ conns[x].open
  <2>1. HandlersOf(e) = {} /\ ConnectionsOf(e) = {}
    BY <1>0 DEF Drained
  <2>2. ASSUME NEW x \in Connections, conns[x].home = t.home, conns[x].fingerprint = f,
               conns[x].at = t.at, conns[x].granted, conns[x].open
        PROVE  FALSE
    <3>1. conns[x].phase # "none" /\ ConnInv(conns[x])
      BY <1>0, <2>2, NoConnPhase DEF Conns, RegistryInv
    <3>2. /\ conns[x].phase \notin {"joining", "accepting"} /\ conns[x].entry = t.at
          /\ conns[x].tracked
      BY <2>2, <3>1 DEF ConnInv, GrantPhases
    <3>3. x \in ConnectionsOf(e)
      BY <2>2, <3>2 DEF ConnectionsOf, EntryOf
    <3> QED
      BY <2>1, <3>3
  <2> QED
    BY <2>1, <2>2
<1>12. AcknowledgedIsDrained'
  <2> SUFFICES ASSUME NEW q \in quiescence', q.status = "acknowledged", q.home \in up'
               PROVE  /\ HandlersOf(<<q.home, q.fingerprint, q.connectedAt>>)' = {}
                      /\ \A x \in Connections :
                          conns'[x].home = q.home /\ conns'[x].fingerprint = q.fingerprint
                          /\ conns'[x].at = q.connectedAt /\ conns'[x].granted => ~ conns'[x].open
    BY DEF AcknowledgedIsDrained
  <2>1. /\ HandlersOf(<<q.home, q.fingerprint, q.connectedAt>>)' = HandlersOf(<<q.home, q.fingerprint, q.connectedAt>>)
        /\ conns' = conns /\ up' = up
    BY <1>0 DEF HandlersOf, EntryOf
  <2>2. CASE q \in quiescence
    BY <2>1, <2>2 DEF RegistryInv, AcknowledgedIsDrained
  <2>3. CASE q \in acks
    BY <1>2, <1>11, <2>1, <2>3
  <2> QED
    BY <1>3, <2>2, <2>3
<1> QED
  BY <1>6, <1>7, <1>8, <1>9, <1>10, <1>12 DEF RegistryInv

\* The membership closes: every participant has acknowledged, so no grant can be delivered.
LEMMA CompleteStepInv ==
    ASSUME RegistryInv, NEW t \in fences, CompleteFence(t), UNCHANGED <<homes, up, fenceEvents>>
    PROVE  RegistryInv'
<1> DEFINE f == t.fingerprint
           at == members[f].connectedAt
<1>0. /\ UNCHANGED <<conns, fenced, quiescence>> /\ fences' = fences \ {t}
      /\ members[f].state = "canceling" /\ members[f].cancelRevision = t.revision /\ t.at = at
      /\ Quiescent(f, RowsOf(f, at, t.revision))
      /\ members' = [members EXCEPT ![f].state = "closed"]
      /\ participations' = {p \in participations : ~ (p.fingerprint = f /\ p.connectedAt = at)}
  BY DEF CompleteFence, CompleteCancellation, CloseMembership
<1>1. /\ t \in FenceRecords /\ f \in Fingerprints /\ members \in [Fingerprints -> MemberRecords]
      /\ conns \in [Connections -> Conns] /\ fences \subseteq FenceRecords
  BY DEF RegistryInv, RegistryTypes, FenceRecords
<1>2. /\ members' \in [Fingerprints -> MemberRecords]
      /\ members'[f].state = "closed" /\ members'[f].connectedAt = at
      /\ \A g \in Fingerprints : g # f => members'[g] = members[g]
  BY <1>0, <1>1 DEF MemberRecords, MemberStates
<1>3. RegistryTypes'
  BY <1>0, <1>2 DEF RegistryInv, RegistryTypes
<1>4. HomesInv'
  BY <1>0, <1>2 DEF RegistryInv, HomesInv, Open
<1>5. TablesInv'
  <2>1. \A g \in Fingerprints : Open(g)' => members'[g].connectedAt > 0
    BY <1>2 DEF Open, RegistryInv, TablesInv
  <2>2. ASSUME NEW q \in quiescence
        PROVE  /\ q.status # "fenced"
               /\ q.connectedAt <= members'[q.fingerprint].connectedAt
               /\ q.connectedAt = members'[q.fingerprint].connectedAt =>
                      members'[q.fingerprint].state \in {"canceling", "closed"}
    <3>1. q.fingerprint \in Fingerprints
      BY DEF RegistryInv, RegistryTypes, QuiescenceRows
    <3> QED
      BY <1>2, <3>1 DEF RegistryInv, TablesInv
  <2>3. ASSUME NEW p \in participations', members'[p.fingerprint].state = "canceling",
               members'[p.fingerprint].connectedAt = p.connectedAt
        PROVE  \E q \in RowsOf(p.fingerprint, p.connectedAt, members[p.fingerprint].cancelRevision)' : q.home = p.home
    <3>1. p \in participations /\ p.fingerprint \in Fingerprints /\ p.fingerprint # f
      BY <1>0, <1>2, <2>3 DEF RegistryInv, RegistryTypes, Participations
    <3>2. members'[p.fingerprint] = members[p.fingerprint]
      BY <1>2, <3>1
    <3> QED
      BY <1>0, <2>3, <3>1, <3>2 DEF RegistryInv, TablesInv, RowsOf
  <2> QED
    BY <1>0, <2>1, <2>2, <2>3 DEF TablesInv
<1>6. ASSUME NEW y \in Connections, conns[y].phase # "none" PROVE KeepsConn(conns[y])
  <2> DEFINE c == conns[y]
  <2>1. /\ c.fingerprint \in Fingerprints /\ c.home \in up /\ c.at \in Nat
        /\ members[c.fingerprint].connectedAt \in Nat /\ ConnInv(c)
    BY <1>6, ConnFacts DEF RegistryInv
  <2>2. CASE c.fingerprint # f
    <3>1. members'[c.fingerprint] = members[c.fingerprint]
      BY <1>2, <2>1, <2>2
    <3>2. Serving(c.fingerprint, c.at, c.home).fingerprint # f
      BY <2>2 DEF Serving
    <3>3. Serving(c.fingerprint, c.at, c.home) \in participations =>
              Serving(c.fingerprint, c.at, c.home) \in participations'
      BY <1>0, <3>2
    <3>4. up' = up
      OBVIOUS
    <3> QED
      BY <2>1, <3>1, <3>3, <3>4 DEF KeepsConn
  <2>3. CASE c.fingerprint = f
    <3>1. ASSUME c.granted, c.at = at PROVE ~ c.open
      <4>1. at > 0 /\ Open(f)
        BY <1>0, <1>1 DEF RegistryInv, TablesInv, Open
      <4>2. Serving(f, at, c.home) \in participations
        BY <1>6, <2>1, <2>3, <3>1, <4>1 DEF ConnInv, GrantPhases
      <4>3. /\ Serving(f, at, c.home).fingerprint = f /\ Serving(f, at, c.home).connectedAt = at
            /\ Serving(f, at, c.home).home = c.home
        BY DEF Serving
      <4>4. PICK q \in RowsOf(f, at, t.revision) : q.home = c.home
        BY <1>0, <4>2, <4>3 DEF RegistryInv, TablesInv
      <4>5. /\ q \in quiescence /\ q.fingerprint = f /\ q.connectedAt = at /\ q.home \in up
            /\ q.status = "acknowledged"
        BY <1>0, <2>1, <4>4 DEF RegistryInv, TablesInv, Quiescent, RowsOf
      <4> QED
        BY <2>3, <3>1, <4>4, <4>5 DEF RegistryInv, AcknowledgedIsDrained
    <3> QED
      BY <1>0, <1>2, <2>1, <2>3, <3>1 DEF KeepsConn
  <2> QED
    BY <2>2, <2>3
<1>7. ASSUME NEW y \in Connections PROVE ConnInv(conns[y])'
  BY <1>0, <1>3, <1>6, ConnFrame DEF RegistryInv
<1>8. FenceInv'
  <2>1. \A s \in fences : FenceOf(s)'
    BY <1>0, FencesContinue
  <2> QED
    BY <1>0, <2>1 DEF RegistryInv, FenceInv, WaitersDiffer
<1>9. AcknowledgedIsDrained'
  BY <1>0, DrainedFrame DEF RegistryInv
<1> QED
  BY <1>3, <1>4, <1>5, <1>7, <1>8, <1>9 DEF RegistryInv

-------------------------------------------------------------------------------
(* Home processes start and stop. *)

LEMMA StartHomeStep ==
    ASSUME RegistryInv, NEW h \in Incarnations, StartHome(h),
           UNCHANGED <<members, participations, quiescence, fenceEvents>>
    PROVE  RegistryInv'
<1>0. /\ homes[h].state = "none" /\ up' = up \union {h}
      /\ homes' = [homes EXCEPT ![h] = [state |-> "active", age |-> Fresh, capable |-> TRUE]]
      /\ UNCHANGED <<conns, fenced, fences>>
      /\ homes \in [Incarnations -> HomeRecords] /\ conns \in [Connections -> Conns]
  BY HomesStay DEF StartHome, RegisterHomeIncarnation, RegistryInv, RegistryTypes
<1>1. /\ homes' \in [Incarnations -> HomeRecords]
      /\ homes'[h].state = "active" /\ homes'[h].age = Fresh
      /\ \A g \in Incarnations : g # h => homes'[g] = homes[g]
  BY <1>0 DEF HomeRecords, HomeStates, Fresh, Dead
<1>2. RegistryTypes'
  BY <1>0, <1>1 DEF RegistryInv, RegistryTypes
<1>3. HomesInv'
  <2>1. \A g \in Incarnations : homes[g].state # "none" => homes'[g].state # "none"
    BY <1>1
  <2>2. /\ \A p \in participations : p.home \in Incarnations
        /\ \A q \in quiescence : q.home \in Incarnations
        /\ up \subseteq Incarnations
    BY DEF RegistryInv, RegistryTypes, Participations, QuiescenceRows
  <2> QED
    BY <1>0, <1>1, <2>1, <2>2 DEF RegistryInv, HomesInv, Open
<1>4. TablesInv'
  BY DEF RegistryInv, TablesInv, Open, RowsOf
<1>5. ASSUME NEW y \in Connections PROVE ConnInv(conns[y])'
  BY <1>0 DEF RegistryInv, ConnInv, Open
<1>6. \A q \in quiescence : q.home # h
  BY <1>0 DEF RegistryInv, HomesInv
<1>7. FenceInv'
  BY <1>0, <1>6 DEF RegistryInv, FenceInv, FenceOf, WaitersDiffer
<1>8. AcknowledgedIsDrained'
  BY <1>0, <1>6, DrainedFrame DEF RegistryInv
<1> QED
  BY <1>2, <1>3, <1>4, <1>5, <1>7, <1>8 DEF RegistryInv

LEMMA StopHomeStep ==
    ASSUME RegistryInv, NEW h \in Incarnations, StopHome(h),
           UNCHANGED <<members, participations, quiescence, fenceEvents>>
    PROVE  RegistryInv'
<1>0. /\ up' = up \ {h}
      /\ conns' = [x \in Connections |-> IF conns[x].home = h THEN NoConn ELSE conns[x]]
      /\ fenced' = {e \in fenced : e[1] # h}
      /\ fences' = {t \in fences : t.home # h}
      /\ homes \in [Incarnations -> HomeRecords] /\ conns \in [Connections -> Conns]
      /\ fences \subseteq FenceRecords
  BY DEF StopHome, CrashHome, RetireHomeIncarnation, RegistryInv, RegistryTypes
<1>1. homes' = homes \/ homes' = [homes EXCEPT ![h].state = "retired"]
  BY DEF StopHome, CrashHome, RetireHomeIncarnation
<1>2. /\ homes' \in [Incarnations -> HomeRecords]
      /\ \A g \in Incarnations : homes'[g].age = homes[g].age /\ (homes[g].state # "none" => homes'[g].state # "none")
  BY <1>0, <1>1 DEF HomeRecords, HomeStates
<1>3. conns' \in [Connections -> Conns] /\ \A x \in Connections :
          conns'[x] = NoConn \/ (conns'[x] = conns[x] /\ conns[x].home # h)
  BY <1>0 DEF Conns
<1>4. RegistryTypes'
  BY <1>0, <1>2, <1>3 DEF RegistryInv, RegistryTypes
<1>5. HomesInv'
  <2>1. /\ \A p \in participations : p.home \in Incarnations
        /\ \A q \in quiescence : q.home \in Incarnations
        /\ up \subseteq Incarnations
    BY DEF RegistryInv, RegistryTypes, Participations, QuiescenceRows
  <2> QED
    BY <1>0, <1>2, <2>1 DEF RegistryInv, HomesInv, Open
<1>6. TablesInv'
  BY DEF RegistryInv, TablesInv, Open, RowsOf
<1>7. ASSUME NEW y \in Connections PROVE ConnInv(conns[y])'
  <2>1. CASE conns'[y] = NoConn
    BY <2>1, NoConnPhase DEF ConnInv
  <2>2. CASE conns'[y] = conns[y] /\ conns[y].home # h
    BY <1>0, <2>2 DEF RegistryInv, ConnInv, Open
  <2> QED
    BY <1>3, <2>1, <2>2
<1>8. FenceInv'
  <2>1. ASSUME NEW t \in fences' PROVE FenceOf(t)'
    <3>1. t \in fences /\ t.home # h /\ FenceOf(t) /\ t \in FenceRecords
      BY <1>0, <2>1 DEF RegistryInv, FenceInv
    <3>2. \A x \in Connections : conns[x].home = t.home => conns'[x] = conns[x]
      BY <1>0, <3>1
    <3>3. <<t.home, t.fingerprint, t.at>> \in fenced'
      BY <1>0, <3>1 DEF FenceOf
    <3> QED
      BY <1>0, <3>1, <3>2, <3>3 DEF FenceOf, FenceRecords
  <2>2. \A q \in quiescence' : q.status = "acknowledged" /\ q.home \in up' =>
            <<q.home, q.fingerprint, q.connectedAt>> \in fenced'
    BY <1>0 DEF RegistryInv, FenceInv
  <2> QED
    BY <1>0, <2>1, <2>2 DEF RegistryInv, FenceInv, WaitersDiffer
<1>9. AcknowledgedIsDrained'
  <2>1. \A y \in Connections : conns'[y] = conns[y] \/ Drains(conns[y], conns'[y])
    BY <1>3, NoConnPhase DEF Drains
  <2> QED
    BY <1>0, <2>1, DrainedFrame DEF RegistryInv
<1> QED
  BY <1>4, <1>5, <1>6, <1>7, <1>8, <1>9 DEF RegistryInv

-------------------------------------------------------------------------------
(* The theorems. *)

LEMMA RegistryInit == Init => RegistryInv
<1> SUFFICES ASSUME Init PROVE RegistryInv
  OBVIOUS
<1>1. NoConn \in Conns
  BY DEF Conns
<1>2. RegistryTypes
  BY <1>1 DEF Init, HomeInit, MemberInit, RegistryTypes, HomeRecords, HomeStates, MemberRecords, MemberStates,
    NoMember, Fresh, Stale, Dead
<1>3. HomesInv /\ TablesInv
  BY DEF Init, HomeInit, MemberInit, HomesInv, TablesInv, Open, NoMember
<1>4. \A x \in Connections : ConnInv(conns[x])
  BY NoConnPhase DEF Init, ConnInv
<1>5. FenceInv /\ AcknowledgedIsDrained
  BY DEF Init, MemberInit, FenceInv, WaitersDiffer, AcknowledgedIsDrained
<1> QED
  BY <1>2, <1>3, <1>4, <1>5 DEF RegistryInv

LEMMA RegistryStep == RegistryInv /\ [Next]_vars => RegistryInv'
<1> SUFFICES ASSUME RegistryInv, [Next]_vars PROVE RegistryInv'
  OBVIOUS
<1>1. CASE ConnectionStep
  BY <1>1, OpenStep, JoinStep, AcceptStep, LoopStepInv DEF ConnectionStep
<1>2. CASE LocalStep
  BY <1>2, LocalStepInv
<1>3. CASE MembershipStep
  <2>1. ASSUME NEW x \in Connections, NEW takeover \in BOOLEAN, SubscribeCommand(x, takeover), UNCHANGED <<homes, up>>
        PROVE  RegistryInv'
    BY <2>1, SubscribeStepInv
  <2>2. ASSUME NEW x \in Connections, RecordLiveness(x), UNCHANGED <<homes, up>>, UNCHANGED registryVars
        PROVE  RegistryInv'
    <3>1. conns[x].phase # "none"
      <4>1. NoConn.beating = FALSE /\ NoConn.subscribed = FALSE
        BY DEF NoConn
      <4> QED
        BY <2>2, <4>1 DEF RecordLiveness, RegistryInv, RegistryTypes, Conns
    <3>2. PICK f \in Fingerprints : f = conns[x].fingerprint
      BY <3>1, ConnFacts
    <3>3. members' = [members EXCEPT ![f].age = Fresh] /\ UNCHANGED <<participations, quiescence>>
      BY <2>2, <3>2 DEF RecordLiveness, RefreshCPALiveness
    <3> QED
      BY <2>2, <3>3, AgeStepInv
  <2>3. ASSUME NEW f \in Fingerprints, MemberAges(f), UNCHANGED <<homes, up>>, UNCHANGED registryVars
        PROVE  RegistryInv'
    <3>1. members' = [members EXCEPT ![f].age = Stale] /\ UNCHANGED <<participations, quiescence>>
      BY <2>3 DEF MemberAges
    <3> QED
      BY <2>3, <3>1, AgeStepInv
  <2>4. ASSUME NEW t \in fences, AcknowledgeFence(t) \/ CompleteFence(t), UNCHANGED <<homes, up, fenceEvents>>
        PROVE  RegistryInv'
    BY <2>4, AcknowledgeStepInv, CompleteStepInv
  <2>5. CASE (\E x \in Connections : CancelUndelivered(x)) \/ (\E f \in Fingerprints : CleanupStale(f))
    BY <2>5, CancelStepInv
  <2> QED
    BY <1>3, <2>1, <2>2, <2>3, <2>4, <2>5 DEF MembershipStep
<1>4. CASE HomeStep
  BY <1>4, StartHomeStep, StopHomeStep DEF HomeStep
<1>5. CASE UNCHANGED vars
  <2>1. UNCHANGED <<homes, up, members, participations, quiescence, conns, fenced, fences, fenceEvents>>
    BY <1>5 DEF vars
  <2> QED
    BY <2>1 DEF RegistryInv, RegistryTypes, HomesInv, TablesInv, ConnInv, FenceInv, FenceOf, WaitersDiffer,
      AcknowledgedIsDrained, HandlersOf, EntryOf, Open, RowsOf
<1> QED
  BY <1>1, <1>2, <1>3, <1>4, <1>5 DEF Next

LEMMA SpecRegistryInv == Spec => []RegistryInv
BY RegistryInit, RegistryStep, PTL DEF Spec

\* FenceAndAcknowledge: a Home acknowledges a cancellation when nothing of the lifetime runs
\* there and no grant of it can still be delivered, and this stays so: the entry stays fenced,
\* and no grant is given under a lifetime that is being canceled.
THEOREM AcknowledgedStaysDrained == Spec => []AcknowledgedIsDrained
<1>1. RegistryInv => AcknowledgedIsDrained
  BY DEF RegistryInv
<1> QED
  BY <1>1, SpecRegistryInv, PTL

\* A connection that carries an admission only goes back to reading by delivering its reply.
LEMMA ReadingAfterReply ==
    ASSUME RegistryInv, Next, NEW x \in Connections, conns[x].granted, conns'[x].phase = "reading"
    PROVE  conns[x].open
<1> DEFINE c == conns[x]
<1>0. /\ conns \in [Connections -> Conns] /\ c \in ConnRecords /\ ConnInv(c) /\ c.phase \in GrantPhases
      /\ RegistryTypes
  <2>1. c.phase # "none"
    BY NoConnPhase DEF RegistryInv, RegistryTypes, Conns
  <2> QED
    BY <2>1, ConnTyped DEF RegistryInv, RegistryTypes, ConnInv
<1>1. c.phase \notin {"none", "joining", "accepting", "reading", "attaching", "closing", "ended"}
  BY <1>0 DEF GrantPhases
<1>2. CASE ConnectionStep
  <2>1. PICK y \in Connections :
          \/ \E f \in Fingerprints, h \in Incarnations : OpenConnection(y, f, h)
          \/ JoinConnection(y) \/ Accept(y) \/ LoopStep(y)
    BY <1>2 DEF ConnectionStep
  <2>2. CASE y # x
    <3>1. conns'[x] = conns[x]
      BY <1>0, <2>1, <2>2 DEF OpenConnection, JoinConnection, Accept, LoopStep, BeginHandler, ReadFails,
        AdmitDispatch, UnsubscribeCommand, PingFails, FinishHandler, Attach, DeliverReply, WriteFails, PeerCloses
    <3> QED
      BY <1>1, <3>1
  <2>3. CASE y = x
    <3>1. LoopStep(x)
      BY <1>1, <2>1, <2>3 DEF OpenConnection, JoinConnection, Accept
    <3>2. CASE DeliverReply(x)
      BY <3>2 DEF DeliverReply
    <3>3. CASE AdmitDispatch(x)
      BY <3>3 DEF AdmitDispatch
    <3>4. CASE UnsubscribeCommand(x)
      BY <1>0, <3>4 DEF UnsubscribeCommand, ConnRecords, Phases
    <3>5. CASE PingFails(x)
      BY <1>0, <3>5 DEF PingFails, ConnRecords, Phases
    <3>6. CASE FinishHandler(x)
      <4>1. PICK p : p \in {"attaching", "replying"} /\ conns' = [conns EXCEPT ![x].phase = p]
        BY <3>6 DEF FinishHandler
      <4> QED
        BY <1>0, <4>1 DEF ConnRecords, Phases
    <3>7. CASE WriteFails(x)
      <4>1. conns' = [conns EXCEPT ![x] = [conns[x] EXCEPT !.phase = "undelivered"]]
        BY <3>7 DEF WriteFails
      <4> QED
        BY <1>0, <4>1 DEF ConnRecords, Phases
    <3>8. CASE PeerCloses(x)
      BY <3>8 DEF PeerCloses
    <3> QED
      BY <1>1, <3>1, <3>2, <3>3, <3>4, <3>5, <3>6, <3>7, <3>8 DEF LoopStep, BeginHandler, ReadFails, Attach
  <2> QED
    BY <2>2, <2>3
<1>3. CASE LocalStep
  <2>1. CASE \E y \in Connections : HeartbeatFails(y) \/ PongFails(y)
    <3>1. PICK y \in Connections : conns[y].beating /\ conns' = [conns EXCEPT ![y].beating = FALSE]
      BY <2>1 DEF HeartbeatFails, PongFails
    <3>2. OneQuieter(y) /\ conns'[y].phase = conns[y].phase
      BY <1>0, <3>1, HeartbeatConn
    <3> QED
      BY <1>1, <3>2 DEF OneQuieter
  <2>2. CASE \E y \in Connections : FenceAfterPing(y) \/ CancelFails(y) \/ FenceLocally(y)
    <3>1. PICK y \in Connections, p \in {"local", "fencing"} :
            /\ conns[y].phase \in {"unlive", "undelivered", "local"}
            /\ conns' = [conns EXCEPT ![y].phase = p]
      BY <2>2 DEF FenceAfterPing, CancelFails, FenceLocally
    <3>2. OneQuieter(y) /\ conns'[y].phase = p
      BY <1>0, <3>1, RephasedConn
    <3> QED
      BY <1>1, <3>2 DEF OneQuieter
  <2>3. CASE \E y \in Connections : CloseSocket(y) \/ Untrack(y)
    <3>1. PICK y \in Connections : OneQuieter(y) /\ conns'[y].phase = conns[y].phase
      BY <1>0, <2>3, ClosedConn DEF RegistryInv, FenceInv
    <3> QED
      BY <1>1, <3>1 DEF OneQuieter
  <2>4. CASE \E y \in Connections : EndConnection(y)
    <3>1. PICK y \in Connections : EndConnection(y)
      BY <2>4
    <3>2. conns'[x] = conns[x]
      BY <1>0, <1>1, <3>1 DEF EndConnection
    <3> QED
      BY <1>1, <3>2
  <2>5. CASE \E t \in fences : LocalFenceEnds(t)
    <3>1. PICK t \in fences : LocalFenceEnds(t)
      BY <2>5
    <3>2. FenceOf(t) /\ t \in FenceRecords
      BY <1>0, <3>1 DEF RegistryInv, RegistryTypes, FenceInv
    <3>3. CASE t.waiter = NoConnection \/ t.waiter # x
      BY <1>0, <1>1, <3>1, <3>3 DEF LocalFenceEnds
    <3>4. CASE t.waiter # NoConnection /\ t.waiter = x
      <4>1. conns' = [conns EXCEPT ![x] = Closing(conns[x])]
        BY <1>0, <3>1, <3>4 DEF LocalFenceEnds
      <4>2. Closing(conns[x]).phase = "closing"
        BY <1>0, <1>1, ClosingOnward
      <4> QED
        BY <1>0, <4>1, <4>2
    <3> QED
      BY <3>3, <3>4
  <2>6. CASE UNCHANGED conns
    BY <1>1, <2>6
  <2> QED
    BY <1>3, <2>1, <2>2, <2>3, <2>4, <2>5, <2>6 DEF LocalStep, HandleCPAFence, FenceClosed, AcknowledgeMismatch,
      CompleteLater
<1>4. CASE MembershipStep
  <2>1. CASE \E y \in Connections, takeover \in BOOLEAN : SubscribeCommand(y, takeover)
    <3>1. PICK y \in Connections, takeover \in BOOLEAN : SubscribeCommand(y, takeover)
      BY <2>1
    <3>2. conns'[x] = conns[x]
      BY <1>0, <3>1 DEF SubscribeCommand
    <3> QED
      BY <1>1, <3>2
  <2>2. CASE \E y \in Connections : CancelUndelivered(y)
    <3>1. PICK y \in Connections : CancelUndelivered(y)
      BY <2>2
    <3>2. conns[y].phase = "undelivered" /\ conns' = [conns EXCEPT ![y].phase = "local"]
      BY <3>1 DEF CancelUndelivered
    <3>3. OneQuieter(y) /\ conns'[y].phase = "local"
      BY <1>0, <3>2, RephasedConn
    <3> QED
      BY <1>1, <3>3 DEF OneQuieter
  <2>3. CASE UNCHANGED conns
    BY <1>1, <2>3
  <2> QED
    BY <1>4, <2>1, <2>2, <2>3 DEF MembershipStep, registryVars, AcknowledgeFence, CompleteFence, CleanupStale
<1>5. CASE HomeStep
  <2>1. conns'[x] = conns[x] \/ conns'[x] = NoConn
    BY <1>5 DEF HomeStep, StartHome, StopHome
  <2> QED
    BY <1>1, <2>1, NoConnPhase
<1> QED
  BY <1>2, <1>3, <1>4, <1>5 DEF Next

\* No grant reaches a CPA once its lifetime is closed and its slots are given to others: the
\* sockets over which one could still be delivered were closed before the last acknowledgement.
THEOREM ReclaimedIsNotGranted == Spec => NoGrantAfterReclaim
<1> DEFINE Delivered(x) ==
             LET c == conns[x] IN
             c.granted /\ conns'[x].phase = "reading" =>
                 ~ (members[c.fingerprint].state = "closed" /\ members[c.fingerprint].connectedAt = c.at)
<1>1. RegistryInv /\ [Next]_vars => [\A x \in Connections : Delivered(x)]_vars
  <2> SUFFICES ASSUME RegistryInv, Next, NEW x \in Connections PROVE Delivered(x)
    OBVIOUS
  <2> SUFFICES ASSUME conns[x].granted, conns'[x].phase = "reading",
                      members[conns[x].fingerprint].state = "closed",
                      members[conns[x].fingerprint].connectedAt = conns[x].at
               PROVE  FALSE
    OBVIOUS
  <2>1. conns[x].open
    BY ReadingAfterReply
  <2>2. conns[x].phase # "none" /\ ConnInv(conns[x])
    BY NoConnPhase DEF RegistryInv, RegistryTypes, Conns
  <2> QED
    BY <2>1, <2>2 DEF ConnInv
<1> QED
  BY <1>1, SpecRegistryInv, PTL DEF Spec, NoGrantAfterReclaim
===============================================================================
