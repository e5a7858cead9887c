----------------------------- MODULE KeyValueStore -----------------------------
(***************************************************************************)
(* The key-value store CPA nodes share through Home (kv_store.go): values  *)
(* with an optional time to live, in database rows that outlive their      *)
(* expiry until something deletes them.                                    *)
(*                                                                         *)
(* A command is a transaction that locks the rows it finds, one key after  *)
(* the other in the order of the keys; a key without a row cannot be       *)
(* locked.  Reads and the purge look at a row in one statement and delete  *)
(* it in another.                                                          *)
(***************************************************************************)
EXTENDS Naturals, Sequences, FiniteSets, SequencesExt

CONSTANTS
    Keys,      \* keys, numbered: their order is the order of the strings
    Clients,   \* concurrent commands, numbered from 1
    MaxValue,  \* bound: values are 0 .. MaxValue, as decimal strings
    MaxNow     \* bound: the clock

ASSUME KVAssumption ==
    /\ Keys \subseteq Nat /\ IsFiniteSet(Keys) /\ Clients \subseteq Nat \ {0}
    /\ MaxValue \in Nat /\ MaxNow \in Nat

VARIABLES
    kvRow,   \* table kv: <<>> or <<[value, expires]>>; expires 0: no expiry
    kvNow,   \* time
    kvLock,  \* row locks: who holds each, 0 if nobody
    kvCommand,\* the command each client runs: op, keys still to visit, changes so far
    kvSpec   \* ghost: what each key should read as, from the commands that committed

kvVars == <<kvRow, kvNow, kvLock, kvCommand, kvSpec>>

NoRow == <<>>
KVRecord(value, expires) == <<[value |-> value, expires |-> expires]>>
ExpiredRow(r, now) == r # NoRow /\ r[1].expires # 0 /\ r[1].expires <= now
(* The active state of a key: what KVGet answers. *)
ActiveRow(r, now) == IF ExpiredRow(r, now) THEN NoRow ELSE r

KVValues == 0 .. MaxValue
TTLs == {0, 1}
ExpiresAt(ttl) == IF ttl = 0 THEN 0 ELSE kvNow + ttl

NoCommand == [op |-> "none", todo |-> <<>>, writes |-> {}]

KVInit ==
    /\ kvRow = [k \in Keys |-> NoRow] /\ kvNow = 1
    /\ kvLock = [k \in Keys |-> 0]
    /\ kvCommand = [c \in Clients |-> NoCommand]
    /\ kvSpec = [k \in Keys |-> NoRow]

(***************************************************************************)
(* What one command makes of the row of one key: <<>> leaves it alone,     *)
(* <<new>> writes it.  An expired row counts as absent, except for MSET,   *)
(* which overwrites whatever row there is.                                 *)
(***************************************************************************)
Effect(cmd, r) ==
    LET live == ActiveRow(r, kvNow)
    IN CASE cmd.op = "set" ->
              IF \/ cmd.mode = "xx" /\ live = NoRow
                 \/ cmd.mode = "nx" /\ live # NoRow
              THEN (IF ExpiredRow(r, kvNow) THEN <<NoRow>> ELSE <<>>)
              ELSE <<KVRecord(cmd.value, ExpiresAt(cmd.ttl))>>
         [] cmd.op = "cas" ->
              IF \/ cmd.expected = NoRow /\ live # NoRow
                 \/ cmd.expected # NoRow /\ (live = NoRow \/ <<live[1].value>> # cmd.expected)
              THEN (IF ExpiredRow(r, kvNow) THEN <<NoRow>> ELSE <<>>)
              ELSE <<KVRecord(cmd.value, ExpiresAt(cmd.ttl))>>
         [] cmd.op = "del" -> IF r = NoRow THEN <<>> ELSE <<NoRow>>
         [] cmd.op = "expire" ->
              IF live = NoRow THEN (IF r = NoRow THEN <<>> ELSE <<NoRow>>)
              ELSE <<KVRecord(live[1].value, kvNow + cmd.ttl)>>
         [] cmd.op = "incr" ->
              IF live = NoRow THEN <<KVRecord(1, 0)>>
              ELSE <<KVRecord((live[1].value + 1) % (MaxValue + 1), live[1].expires)>>
         [] cmd.op = "mset" -> <<KVRecord(cmd.value, 0)>>

Commands ==
    [op : {"set"}, mode : {"always", "nx", "xx"}, value : KVValues, ttl : TTLs]
        \cup [op : {"cas"}, expected : {NoRow} \cup {<<v>> : v \in KVValues}, value : KVValues, ttl : TTLs]
        \cup [op : {"del", "incr"}] \cup [op : {"expire"}, ttl : TTLs] \cup [op : {"mset"}, value : KVValues]

(* KVDel and KVMSet visit their keys in ascending order. *)
AnyOrder(keys) == SetToSeqs(keys)
KeyOrders(keys) ==
    {s \in [1 .. Cardinality(keys) -> keys] : \A i, j \in DOMAIN s : i < j => s[i] < s[j]}

(* SELECT ... FOR UPDATE of the first key of the list, and its change, which nobody sees yet. *)
Visit(c, cmd, order, writes) ==
    LET k == Head(order)
        write == [key |-> k, absent |-> kvRow[k] = NoRow, effect |-> Effect(cmd, kvRow[k])]
    IN /\ kvRow[k] # NoRow => kvLock[k] = 0
       /\ kvLock' = IF kvRow[k] # NoRow THEN [kvLock EXCEPT ![k] = c] ELSE kvLock
       /\ kvCommand' = [kvCommand EXCEPT ![c] =
            [op |-> "run", cmd |-> IF Tail(order) = <<>> THEN <<>> ELSE <<cmd>>,
             todo |-> Tail(order), writes |-> writes \cup {write}]]

StartCommand(c, cmd, keys) ==
    /\ kvCommand[c] = NoCommand
    /\ keys # {} /\ (cmd.op \notin {"del", "mset"} => Cardinality(keys) = 1)
    /\ \E order \in KeyOrders(keys) : Visit(c, cmd, order, {})
    /\ UNCHANGED <<kvRow, kvNow, kvSpec>>

VisitKey(c) ==
    LET cmd == kvCommand[c]
    IN /\ cmd.op = "run" /\ cmd.todo # <<>>
       /\ Visit(c, cmd.cmd[1], cmd.todo, cmd.writes)
       /\ UNCHANGED <<kvRow, kvNow, kvSpec>>

Changes(c) == {w \in kvCommand[c].writes : w.effect # <<>>}
Unlock(c) == kvLock' = [k \in Keys |-> IF kvLock[k] = c THEN 0 ELSE kvLock[k]]

(* A row created by somebody else since it was found absent: the insert fails and all is rolled back. *)
CreateConflicts(c) == \E w \in Changes(c) : w.absent /\ w.effect # <<NoRow>> /\ kvRow[w.key] # NoRow

FinishCommand(c) ==
    LET written == {w.key : w \in Changes(c)}
        new(k) == (CHOOSE w \in Changes(c) : w.key = k).effect[1]
    IN /\ kvCommand[c].op = "run" /\ kvCommand[c].todo = <<>>
       /\ IF CreateConflicts(c)
          THEN UNCHANGED <<kvRow, kvSpec>>
          ELSE /\ kvRow' = [k \in Keys |-> IF k \in written THEN new(k) ELSE kvRow[k]]
               /\ kvSpec' = [k \in Keys |-> IF k \in written THEN new(k) ELSE kvSpec[k]]
       /\ Unlock(c)
       /\ kvCommand' = [kvCommand EXCEPT ![c] = NoCommand]
       /\ UNCHANGED kvNow

(* The transaction fails and is rolled back. *)
AbortCommand(c) ==
    /\ kvCommand[c].op = "run"
    /\ Unlock(c)
    /\ kvCommand' = [kvCommand EXCEPT ![c] = NoCommand]
    /\ UNCHANGED <<kvRow, kvNow, kvSpec>>

(***************************************************************************)
(* KVGet and KVTTL delete a row they found expired, and KVPurgeExpired the *)
(* rows it found expired: in a second statement, which looks at the expiry *)
(* again.                                                                  *)
(***************************************************************************)
FindExpired(c, k) ==
    /\ kvCommand[c] = NoCommand
    /\ ExpiredRow(kvRow[k], kvNow)
    /\ kvCommand' = [kvCommand EXCEPT ![c] = [op |-> "drop", todo |-> <<k>>, writes |-> {}, seen |-> kvNow]]
    /\ UNCHANGED <<kvRow, kvNow, kvLock, kvSpec>>

(* The second statement takes the first one's word for it. *)
StillThere(k, seen) == kvRow[k] # NoRow
StillExpired(k, seen) == ExpiredRow(kvRow[k], seen)

DropExpired(c) ==
    LET k == Head(kvCommand[c].todo)
    IN /\ kvCommand[c].op = "drop"
       /\ kvLock[k] = 0
       /\ kvRow' = IF StillExpired(k, kvCommand[c].seen) THEN [kvRow EXCEPT ![k] = NoRow] ELSE kvRow
       /\ kvCommand' = [kvCommand EXCEPT ![c] = NoCommand]
       /\ UNCHANGED <<kvNow, kvLock, kvSpec>>

KVClockTicks ==
    /\ kvNow < MaxNow
    /\ kvNow' = kvNow + 1
    /\ UNCHANGED <<kvRow, kvLock, kvCommand, kvSpec>>

KVNext ==
    \/ \E c \in Clients, cmd \in Commands, keys \in SUBSET Keys : StartCommand(c, cmd, keys)
    \/ \E c \in Clients : VisitKey(c) \/ FinishCommand(c) \/ AbortCommand(c) \/ DropExpired(c)
    \/ \E c \in Clients, k \in Keys : FindExpired(c, k)
    \/ KVClockTicks

-------------------------------------------------------------------------------
(***************************************************************************)
(* What a key reads as is what the committed commands and the passing of   *)
(* time make of it: the lazy deletion of an expired value and the purge    *)
(* never take a value written since (lazyDeleteExpiredKV, KVPurgeExpired). *)
(***************************************************************************)
ReadsWhatWasWritten ==
    \A k \in Keys : ActiveRow(kvRow[k], kvNow) = ActiveRow(kvSpec[k], kvNow)

(***************************************************************************)
(* Two commands never wait for each other's rows: MSET and DEL of the same *)
(* keys, given in any order, lock them in one order (sort.Strings).        *)
(***************************************************************************)
NoLockCycle ==
    LET waitsFor(c) == IF kvCommand[c].op = "run" /\ kvCommand[c].todo # <<>>
                       THEN kvLock[Head(kvCommand[c].todo)] ELSE 0
    IN ~\E c, d \in Clients : c # d /\ waitsFor(c) = d /\ waitsFor(d) = c
================================================================================
