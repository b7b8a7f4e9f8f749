----------------------------- MODULE ReadThrough -----------------------------
(***************************************************************************)
(* readThrough on one cache key: cache-aside reads that coalesce their     *)
(* builds on a token lock in Redis. Each reader is one request, served by  *)
(* any replica; it checks the entry, takes the lock or waits for its       *)
(* holder, builds, stores and releases.                                    *)
(*                                                                         *)
(* The data a build reads is a version number that Invalidate advances;    *)
(* an entry is fresh when it carries the current one (the caller's         *)
(* isFresh, answered from the same MGET). Time is abstract: a TTL or a     *)
(* deadline may pass at any moment.                                        *)
(***************************************************************************)
EXTENDS Naturals, FiniteSets

CONSTANTS
    Reader,      \* the requests for the key
    MaxVersion,  \* bound: versions of the data
    MaxErrors    \* bound: Redis commands that fail or time out

\* The lock key without a value.
NoLock == "none"
\* The marker of a holder that built with cache: false.
Uncached == "uncached"

\* A token is neither an empty lock nor the marker.
ASSUME ReadersAssumption == Reader \intersect {NoLock, Uncached} = {}
ASSUME LimitsAssumption == MaxVersion \in Nat \ {0} /\ MaxErrors \in Nat

VARIABLES
    version,  \* version of the data
    entry,    \* version the cached entry was built from, 0 without an entry
    lock,     \* value of the lock key
    reader,   \* where each request is, and what it saw
    wire,     \* commands whose caller gave up on them and that Redis may still execute
    errors,   \* Redis commands that failed so far
    lost,     \* history: holders whose lock expired under them
    excused   \* history: something happened that lets readers build side by side

vars == <<version, entry, lock, reader, wire, errors, lost, excused>>

Waiting == {"check", "lock", "wait"}
Holding == {"held", "building", "store", "mark", "unlock"}
Direct == {"direct", "bypassing"}
Ended == {"done", "shed", "gone", "failed", "dead"}

\* start: the version when the request came in; ver: the version of its value, 0 while it has none.
ReaderState == [at : {"idle"} \union Waiting \union Holding \union Direct \union Ended,
                start : 0 .. MaxVersion, ver : 0 .. MaxVersion]
Command == [op : {"lock", "store", "mark", "unlock"}, from : Reader, ver : 0 .. MaxVersion]

TypeOK ==
    /\ version \in 1 .. MaxVersion
    /\ entry \in 0 .. MaxVersion
    /\ lock \in Reader \union {NoLock, Uncached}
    /\ reader \in [Reader -> ReaderState]
    /\ wire \in SUBSET Command
    /\ errors \in 0 .. MaxErrors
    /\ lost \in SUBSET Reader
    /\ excused \in BOOLEAN

Init ==
    /\ version = 1
    /\ entry = 0
    /\ lock = NoLock
    /\ reader = [r \in Reader |-> [at |-> "idle", start |-> 0, ver |-> 0]]
    /\ wire = {}
    /\ errors = 0
    /\ lost = {}
    /\ excused = FALSE

Goes(r, next) == reader' = [reader EXCEPT ![r].at = next]
Answers(r, ver) == reader' = [reader EXCEPT ![r].at = "done", ![r].ver = ver]

-----------------------------------------------------------------------------
(* A request until it holds the lock, has its value or gives up. *)

Start(r) ==
    /\ reader[r].at = "idle"
    /\ reader' = [reader EXCEPT ![r].at = "check", ![r].start = version]
    /\ UNCHANGED <<version, entry, lock, wire, errors, lost, excused>>

\* Mutant: an entry is served without comparing its version.
AnyEntry == entry # 0

\* The entry is there and carries the current version.
Fresh == entry = version

\* tryHit: one MGET of the entry and its version.
Check(r) ==
    /\ reader[r].at = "check"
    /\ IF Fresh THEN Answers(r, entry) ELSE Goes(r, "lock")
    /\ UNCHANGED <<version, entry, lock, wire, errors, lost, excused>>

\* The condition of SET NX.
LockFree == lock = NoLock

\* tryLock, on a first miss or when a waiter found the holder gone.
TakeLock(r) ==
    /\ reader[r].at = "lock"
    /\ IF LockFree
       THEN lock' = r /\ Goes(r, "held")
       ELSE Goes(r, "wait") /\ UNCHANGED lock
    /\ UNCHANGED <<version, entry, wire, errors, lost, excused>>

\* tryHitAndLock: one MGET of the entry, its version and the lock. With the lock
\* held and no fresh entry the waiter sleeps on.
Poll(r) ==
    /\ reader[r].at = "wait"
    /\ \/ Fresh /\ Answers(r, entry)
       \/ ~Fresh /\ lock = Uncached /\ Goes(r, "direct")
       \/ ~Fresh /\ lock = NoLock /\ Goes(r, "lock")
    /\ UNCHANGED <<version, entry, lock, wire, errors, lost, excused>>

\* Mutant: a waiter that waited long enough builds for itself.
GiveUpBuilding == {"direct", "gone"}

\* A waiter that gives up sheds its request, or drops it with its client.
GiveUpTo == {"shed", "gone"}

GiveUp(r) ==
    /\ reader[r].at = "wait"
    /\ \E next \in GiveUpTo : Goes(r, next)
    /\ UNCHANGED <<version, entry, lock, wire, errors, lost, excused>>

\* A Redis command of a reader that does not hold the lock fails or times out: the
\* reader builds directly, and a SET NX that timed out may still reach Redis.
RedisFails(r) ==
    /\ reader[r].at \in Waiting
    /\ errors < MaxErrors
    /\ errors' = errors + 1
    /\ Goes(r, "direct")
    /\ \/ UNCHANGED wire
       \/ reader[r].at = "lock" /\ wire' = wire \union {[op |-> "lock", from |-> r, ver |-> 0]}
    /\ excused' = TRUE
    /\ UNCHANGED <<version, entry, lock, lost>>

-----------------------------------------------------------------------------
(* Building, as the holder or directly. *)

\* The build reads its data.
BuildRead(r) ==
    /\ \/ reader[r].at = "held" /\ reader' = [reader EXCEPT ![r].at = "building", ![r].ver = version]
       \/ reader[r].at = "direct" /\ reader' = [reader EXCEPT ![r].at = "bypassing", ![r].ver = version]
    /\ UNCHANGED <<version, entry, lock, wire, errors, lost, excused>>

BuildEnds(r) ==
    /\ \/ reader[r].at = "building" /\ Goes(r, "store")
       \/ reader[r].at = "bypassing" /\ Goes(r, "done")
    /\ UNCHANGED <<version, entry, lock, wire, errors, lost, excused>>

\* The holder's build asks not to be cached.
BuildUncached(r) ==
    /\ reader[r].at = "building"
    /\ Goes(r, "mark")
    /\ excused' = TRUE
    /\ UNCHANGED <<version, entry, lock, wire, errors, lost>>

\* The build throws: the database fails or its client is gone.
BuildFails(r) ==
    /\ reader' = [reader EXCEPT ![r].ver = 0,
                                ![r].at = IF @ \in Holding THEN "unlock" ELSE "failed"]
    /\ reader[r].at \in {"held", "building"} \union Direct
    /\ UNCHANGED <<version, entry, lock, wire, errors, lost, excused>>

Store(r) ==
    /\ reader[r].at = "store"
    /\ entry' = reader[r].ver
    /\ Goes(r, "unlock")
    /\ UNCHANGED <<version, lock, wire, errors, lost, excused>>

\* Mutant: the lock is released or marked without comparing its token.
OwnsAnyLock(r) == lock \in Reader

\* The comparison of the RELEASE_LOCK and MARK_UNCACHED scripts.
Owns(r) == lock = r

\* What the two scripts leave in the lock.
Released(r, op) ==
    lock' = IF ~Owns(r) THEN lock ELSE IF op = "mark" THEN Uncached ELSE NoLock

\* The finally block: the commands of a reader reach Redis in the order it sent them.
Unlock(r) ==
    /\ reader[r].at \in {"unlock", "mark"}
    /\ \A cmd \in wire : cmd.from # r
    /\ Released(r, reader[r].at)
    /\ Goes(r, IF reader[r].ver = 0 THEN "failed" ELSE "done")
    /\ UNCHANGED <<version, entry, wire, errors, lost, excused>>

\* The holder's SET or script fails or times out; the request goes on, and the
\* command may still reach Redis.
HolderRedisFails(r) ==
    /\ reader[r].at \in {"store", "mark", "unlock"}
    /\ errors < MaxErrors
    /\ errors' = errors + 1
    /\ Goes(r, CASE reader[r].at = "store" -> "unlock"
                 [] reader[r].at # "store" /\ reader[r].ver = 0 -> "failed"
                 [] OTHER -> "done")
    /\ \/ UNCHANGED wire
       \/ wire' = wire \union {[op |-> reader[r].at, from |-> r, ver |-> reader[r].ver]}
    /\ excused' = TRUE
    /\ UNCHANGED <<version, entry, lock, lost>>

-----------------------------------------------------------------------------
(* Redis, the data and the replicas. *)

\* A command whose caller gave up takes effect after all, or never.
Arrive(cmd) ==
    /\ cmd \in wire
    /\ \A other \in wire : other.from = cmd.from /\ other.op = "store" => other = cmd
    /\ wire' = wire \ {cmd}
    /\ CASE cmd.op = "store" -> entry' = cmd.ver /\ UNCHANGED lock
         [] cmd.op = "lock" -> lock' = (IF LockFree THEN cmd.from ELSE lock) /\ UNCHANGED entry
         [] OTHER -> Released(cmd.from, cmd.op) /\ UNCHANGED entry
    /\ UNCHANGED <<version, reader, errors, lost, excused>>

Lose(cmd) ==
    /\ cmd \in wire
    /\ wire' = wire \ {cmd}
    /\ UNCHANGED <<version, entry, lock, reader, errors, lost, excused>>

\* Mutant: the lock is set without a TTL.
NeverExpires == FALSE

\* The lock was set with a TTL.
Expirable == lock \in Reader

\* The lock's TTL passes; under a live holder only if its build outlasts lockMs.
LockExpires ==
    /\ Expirable
    /\ lock' = NoLock
    /\ IF reader[lock].at \in Holding
       THEN lost' = lost \union {lock} /\ excused' = TRUE
       ELSE UNCHANGED <<lost, excused>>
    /\ UNCHANGED <<version, entry, reader, wire, errors>>

MarkExpires ==
    /\ lock = Uncached
    /\ lock' = NoLock
    /\ UNCHANGED <<version, entry, reader, wire, errors, lost, excused>>

EntryExpires ==
    /\ entry # 0
    /\ entry' = 0
    /\ UNCHANGED <<version, lock, reader, wire, errors, lost, excused>>

\* A write changes the data and its version: the entry is stale.
Invalidate ==
    /\ version < MaxVersion
    /\ version' = version + 1
    /\ UNCHANGED <<entry, lock, reader, wire, errors, lost, excused>>

\* The replica serving the request dies.
Crash(r) ==
    /\ reader[r].at \notin Ended \union {"idle"}
    /\ Goes(r, "dead")
    /\ UNCHANGED <<version, entry, lock, wire, errors, lost, excused>>

-----------------------------------------------------------------------------

Request(r) ==
    \/ Start(r) \/ Check(r) \/ TakeLock(r) \/ Poll(r) \/ GiveUp(r) \/ RedisFails(r)
    \/ BuildRead(r) \/ BuildEnds(r) \/ BuildUncached(r) \/ BuildFails(r)
    \/ Store(r) \/ Unlock(r) \/ HolderRedisFails(r) \/ Crash(r)

Environment ==
    \/ LockExpires \/ MarkExpires \/ EntryExpires \/ Invalidate
    \/ \E cmd \in wire : Arrive(cmd) \/ Lose(cmd)

Next == Environment \/ \E r \in Reader : Request(r)

Spec == Init /\ [][Next]_vars

\* A command is answered or times out, a build is bounded by its timeouts, a waiter
\* keeps polling, a TTL passes. Nothing is assumed of deadlines, clients and crashes.
FairSpec ==
    /\ Spec
    /\ \A r \in Reader :
          WF_vars(\/ Check(r) \/ TakeLock(r) \/ Poll(r) \/ BuildRead(r) \/ BuildEnds(r)
                  \/ Store(r) \/ Unlock(r))
    /\ WF_vars(LockExpires)
    /\ WF_vars(MarkExpires)
    /\ WF_vars(\E cmd \in wire : Arrive(cmd) \/ Lose(cmd))

-----------------------------------------------------------------------------
(* Properties. *)

\* Only the passing of its TTL takes the lock from a live holder: no release or
\* marker of an earlier holder (whose lock expired, or whose script arrives late),
\* no takeover by a waiter and no late SET NX does.
HolderKeepsLock ==
    \A r \in Reader : reader[r].at \in Holding /\ r \notin lost => lock = r

\* Builds do not run side by side: at most one reader works on the key at a time
\* through builds that fail, holders that die, waiters that time out or lose their
\* client, entries that expire and versions that move on. The exceptions are the
\* documented ones: a Redis failure, a lock outlived by its build, a build that
\* asked not to be cached.
NoHerd ==
    ~excused => \A r, s \in Reader :
        reader[r].at \in Holding \union Direct /\ reader[s].at \in Holding \union Direct => r = s

\* A request is never answered from data older than the request: not by an entry
\* that an outdated holder or a late SET stored, not by a build, not on the
\* fallbacks.
NeverOlderThanRequest ==
    \A r \in Reader : reader[r].at = "done" => reader[r].ver >= reader[r].start

\* Nobody waits for ever: a request that came in ends even if its deadline never
\* passes and its client stays, whatever happened to the holder it waits for.
EveryRequestEnds == \A r \in Reader : reader[r].at # "idle" ~> reader[r].at \in Ended
=============================================================================
