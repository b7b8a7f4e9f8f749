-------------------------- MODULE ReadThroughProofs --------------------------
(***************************************************************************)
(* Proofs about ReadThrough, for every number of requests, versions and    *)
(* Redis failures. One inductive invariant, Inv, carries them: it adds to  *)
(* the properties what the commands still on the wire may do, and what     *)
(* excuses a direct build.                                                 *)
(***************************************************************************)
EXTENDS ReadThrough, TLAPS

\* A script that arrives late belongs to a request that has ended.
LateScripts ==
    \A cmd \in wire : cmd.op \in {"mark", "unlock"} => reader[cmd.from].at \in Ended

\* What has to happen before readers build side by side.
Excuses ==
    ~excused =>
        /\ wire = {}
        /\ lost = {}
        /\ lock # Uncached
        /\ \A r \in Reader : reader[r].at \notin Direct \union {"mark"}

\* A value is at least as new as the request that will answer with it.
ValuesAreRecent ==
    \A r \in Reader :
        /\ reader[r].start <= version
        /\ reader[r].at \in {"idle", "check", "lock", "wait"} => reader[r].ver = 0
        /\ reader[r].ver # 0 => reader[r].ver >= reader[r].start
        /\ reader[r].at \in {"building", "bypassing", "store", "mark", "done"} => reader[r].ver # 0

Inv == TypeOK /\ HolderKeepsLock /\ LateScripts /\ Excuses /\ ValuesAreRecent

USE DEF NoLock, Uncached

-----------------------------------------------------------------------------
(* Type correctness. *)

\* The places a request can be at.
At == {"idle"} \union Waiting \union Holding \union Direct \union Ended

\* Moving a request on keeps the requests well typed.
LEMMA MovedType ==
  ASSUME TypeOK, NEW r \in Reader, NEW next \in At
  PROVE  Goes(r, next) => reader' \in [Reader -> ReaderState]
  BY DEF TypeOK, ReaderState, Goes, At

\* Answering it does, too.
LEMMA AnsweredType ==
  ASSUME TypeOK, NEW r \in Reader, NEW ver \in 0 .. MaxVersion
  PROVE  Answers(r, ver) => reader' \in [Reader -> ReaderState]
<1> SUFFICES ASSUME Answers(r, ver) PROVE reader' \in [Reader -> ReaderState]
  OBVIOUS
<1>1. reader[r] \in ReaderState /\ "done" \in Ended
  BY DEF TypeOK, Ended
<1>2. [reader[r] EXCEPT !.at = "done", !.ver = ver] \in ReaderState
  BY <1>1 DEF ReaderState
<1>3. reader' = [reader EXCEPT ![r] = [reader[r] EXCEPT !.at = "done", !.ver = ver]]
  BY DEF Answers, TypeOK
<1> QED BY <1>2, <1>3 DEF TypeOK

\* The initial state is well typed.
LEMMA InitType == Init => TypeOK
<1> SUFFICES ASSUME Init PROVE TypeOK
  OBVIOUS
<1>1. version \in 1 .. MaxVersion /\ entry \in 0 .. MaxVersion /\ errors \in 0 .. MaxErrors
  BY LimitsAssumption DEF Init
<1>2. reader \in [Reader -> ReaderState]
  BY LimitsAssumption DEF Init, ReaderState
<1> QED BY <1>1, <1>2 DEF Init, TypeOK

\* Every step keeps the state well typed.
LEMMA StepType == TypeOK /\ [Next]_vars => TypeOK'
<1> SUFFICES ASSUME TypeOK, [Next]_vars PROVE TypeOK'
  OBVIOUS
<1> USE LimitsAssumption, ReadersAssumption
<1>a. /\ version \in 0 .. MaxVersion /\ 0 \in 0 .. MaxVersion
      /\ {"check", "lock", "wait", "held", "building", "store", "mark", "unlock", "direct",
          "bypassing", "done", "shed", "gone", "failed", "dead"} \subseteq At
  BY DEF TypeOK, At, Waiting, Holding, Direct, Ended
<1>1. ASSUME NEW r \in Reader, Start(r) PROVE TypeOK'
  BY <1>a, <1>1 DEF Start, TypeOK, ReaderState, At
<1>2. ASSUME NEW r \in Reader, Check(r) \/ Poll(r) PROVE TypeOK'
  <2>1. reader' \in [Reader -> ReaderState]
    <3>1. entry \in 0 .. MaxVersion BY DEF TypeOK
    <3> QED BY <1>a, <1>2, <3>1, MovedType, AnsweredType DEF Check, Poll
  <2> QED BY <1>2, <2>1 DEF Check, Poll, TypeOK
<1>3. ASSUME NEW r \in Reader, TakeLock(r) PROVE TypeOK'
  <2>1. reader' \in [Reader -> ReaderState]
    BY <1>a, <1>3, MovedType DEF TakeLock
  <2> QED BY <1>3, <2>1 DEF TakeLock, TypeOK
<1>4. ASSUME NEW r \in Reader, GiveUp(r) PROVE TypeOK'
  <2>1. reader' \in [Reader -> ReaderState]
    BY <1>a, <1>4, MovedType DEF GiveUp, GiveUpTo
  <2> QED BY <1>4, <2>1 DEF GiveUp, TypeOK
<1>5. ASSUME NEW r \in Reader, RedisFails(r) PROVE TypeOK'
  <2>1. reader' \in [Reader -> ReaderState]
    BY <1>a, <1>5, MovedType DEF RedisFails
  <2>2. [op |-> "lock", from |-> r, ver |-> 0] \in Command
    BY <1>a DEF Command
  <2>3. errors' \in 0 .. MaxErrors
    BY <1>5 DEF RedisFails, TypeOK
  <2> QED BY <1>5, <2>1, <2>2, <2>3 DEF RedisFails, TypeOK
<1>6. ASSUME NEW r \in Reader, BuildRead(r) \/ BuildEnds(r) \/ BuildUncached(r) \/ BuildFails(r)
      PROVE  TypeOK'
  <2>1. CASE BuildRead(r)
    BY <1>a, <2>1 DEF BuildRead, TypeOK, ReaderState, At
  <2>2. CASE BuildEnds(r) \/ BuildUncached(r)
    <3>1. reader' \in [Reader -> ReaderState]
      BY <1>a, <2>2, MovedType DEF BuildEnds, BuildUncached
    <3> QED BY <2>2, <3>1 DEF BuildEnds, BuildUncached, TypeOK
  <2>3. CASE BuildFails(r)
    BY <1>a, <2>3 DEF BuildFails, TypeOK, ReaderState, At
  <2> QED BY <1>6, <2>1, <2>2, <2>3
<1>7. ASSUME NEW r \in Reader, Store(r) \/ Unlock(r) \/ HolderRedisFails(r) \/ Crash(r)
      PROVE  TypeOK'
  <2>1. reader' \in [Reader -> ReaderState]
    BY <1>a, <1>7, MovedType DEF Store, Unlock, HolderRedisFails, Crash
  <2>2. CASE Store(r)
    <3>1. reader[r].ver \in 0 .. MaxVersion BY DEF TypeOK, ReaderState
    <3> QED BY <2>1, <2>2, <3>1 DEF Store, TypeOK
  <2>3. CASE Unlock(r) \/ Crash(r)
    BY <2>1, <2>3 DEF Unlock, Crash, Released, TypeOK
  <2>4. CASE HolderRedisFails(r)
    <3>1. [op |-> reader[r].at, from |-> r, ver |-> reader[r].ver] \in Command
      BY <2>4 DEF HolderRedisFails, Command, TypeOK, ReaderState
    <3>2. errors' \in 0 .. MaxErrors
      BY <2>4 DEF HolderRedisFails, TypeOK
    <3> QED BY <2>1, <2>4, <3>1, <3>2 DEF HolderRedisFails, TypeOK
  <2> QED BY <1>7, <2>2, <2>3, <2>4
<1>8. CASE Environment
  <2>1. CASE LockExpires \/ MarkExpires
    BY <2>1 DEF LockExpires, Expirable, MarkExpires, TypeOK
  <2>2. CASE EntryExpires \/ Invalidate
    BY <2>2 DEF EntryExpires, Invalidate, TypeOK
  <2>3. ASSUME NEW cmd \in wire, Arrive(cmd) PROVE TypeOK'
    <3>1. cmd.ver \in 0 .. MaxVersion /\ cmd.from \in Reader BY DEF TypeOK, Command
    <3> QED BY <2>3, <3>1 DEF Arrive, Released, LockFree, TypeOK
  <2>4. ASSUME NEW cmd \in wire, Lose(cmd) PROVE TypeOK'
    BY <2>4 DEF Lose, TypeOK
  <2> QED BY <1>8, <2>1, <2>2, <2>3, <2>4 DEF Environment
<1>9. CASE UNCHANGED vars
  BY <1>9 DEF vars, TypeOK
<1> QED
  BY <1>1, <1>2, <1>3, <1>4, <1>5, <1>6, <1>7, <1>8, <1>9 DEF Next, Request

\* Every reachable state is well typed.
THEOREM TypeCorrect == Spec => []TypeOK
  BY InitType, StepType, PTL DEF Spec
-----------------------------------------------------------------------------
(* The invariant. *)

\* A step of request r leaves it with these fields, and the others alone.
Fields(r, at, start, ver) ==
    \A s \in Reader :
        /\ reader'[s].at = IF s = r THEN at ELSE reader[s].at
        /\ reader'[s].start = IF s = r THEN start ELSE reader[s].start
        /\ reader'[s].ver = IF s = r THEN ver ELSE reader[s].ver

\* The fields of a request that moved on.
LEMMA MovedFields ==
  ASSUME TypeOK, NEW r \in Reader, NEW next, Goes(r, next)
  PROVE  Fields(r, next, reader[r].start, reader[r].ver)
  BY DEF TypeOK, ReaderState, Goes, Fields

\* The fields of a request that comes in: all that changes is one record.
LEMMA StartedFields ==
  ASSUME TypeOK, NEW r \in Reader, Start(r)
  PROVE  Fields(r, "check", version, reader[r].ver)
<1> DEFINE new == [reader[r] EXCEPT !.at = "check", !.start = version]
<1>1. \A s \in Reader : reader'[s] = IF s = r THEN new ELSE reader[s]
  BY DEF TypeOK, ReaderState, Start
<1>2. new.at = "check" /\ new.start = version /\ new.ver = reader[r].ver
  BY DEF TypeOK, ReaderState
<1> HIDE DEF new
<1> QED BY <1>1, <1>2 DEF Fields

\* Request r moves on with a value.
Valued(r, next, ver) == reader' = [reader EXCEPT ![r].at = next, ![r].ver = ver]

\* The fields of a request that got a value, from the entry or from the database.
LEMMA ValuedFields ==
  ASSUME TypeOK, NEW r \in Reader, NEW next, NEW ver, Valued(r, next, ver)
  PROVE  Fields(r, next, reader[r].start, ver)
<1> DEFINE new == [reader[r] EXCEPT !.at = next, !.ver = ver]
<1>1. \A s \in Reader : reader'[s] = IF s = r THEN new ELSE reader[s]
  BY DEF TypeOK, ReaderState, Valued
<1>2. new.at = next /\ new.start = reader[r].start /\ new.ver = ver
  BY DEF TypeOK, ReaderState
<1> HIDE DEF new
<1> QED BY <1>1, <1>2 DEF Fields

\* What the three steps of a request that give it a value do to its fields.
LEMMA AnsweredFields ==
  ASSUME TypeOK, NEW r \in Reader
  PROVE  /\ Answers(r, entry) => Fields(r, "done", reader[r].start, entry)
         /\ BuildRead(r) => \/ reader[r].at = "held" /\ Fields(r, "building", reader[r].start, version)
                            \/ reader[r].at = "direct" /\ Fields(r, "bypassing", reader[r].start, version)
         /\ BuildFails(r) => Fields(r, IF reader[r].at \in Holding THEN "unlock" ELSE "failed", reader[r].start, 0)
<1>1. Answers(r, entry) => Fields(r, "done", reader[r].start, entry)
  <2>1. Answers(r, entry) => Valued(r, "done", entry)
    BY DEF Answers, Valued
  <2> QED BY <2>1, ValuedFields
<1>2. BuildRead(r) => \/ reader[r].at = "held" /\ Fields(r, "building", reader[r].start, version)
                      \/ reader[r].at = "direct" /\ Fields(r, "bypassing", reader[r].start, version)
  <2>1. ASSUME BuildRead(r)
        PROVE  \/ reader[r].at = "held" /\ Valued(r, "building", version)
               \/ reader[r].at = "direct" /\ Valued(r, "bypassing", version)
    <3>1. CASE reader[r].at = "held" /\ reader' = [reader EXCEPT ![r].at = "building", ![r].ver = version]
      BY <3>1 DEF Valued
    <3>2. CASE reader[r].at = "direct" /\ reader' = [reader EXCEPT ![r].at = "bypassing", ![r].ver = version]
      BY <3>2 DEF Valued
    <3> QED BY <2>1, <3>1, <3>2 DEF BuildRead
  <2> QED BY <2>1, ValuedFields
<1>3. ASSUME BuildFails(r)
      PROVE  Fields(r, IF reader[r].at \in Holding THEN "unlock" ELSE "failed", reader[r].start, 0)
  <2> DEFINE new == [reader[r] EXCEPT !.at = IF reader[r].at \in Holding THEN "unlock" ELSE "failed", !.ver = 0]
  <2>1. \A s \in Reader : reader'[s] = IF s = r THEN new ELSE reader[s]
    BY <1>3 DEF BuildFails, TypeOK, ReaderState
  <2>2. /\ new.at = IF reader[r].at \in Holding THEN "unlock" ELSE "failed"
        /\ new.start = reader[r].start /\ new.ver = 0
    BY DEF TypeOK, ReaderState
  <2> HIDE DEF new
  <2> QED BY <2>1, <2>2 DEF Fields
<1> QED BY <1>1, <1>2, <1>3

\* The invariant holds initially.
LEMMA InitInv == Init => Inv
<1> SUFFICES ASSUME Init PROVE Inv
  OBVIOUS
<1>1. \A r \in Reader : reader[r].at = "idle" /\ reader[r].start = 0 /\ reader[r].ver = 0
  BY DEF Init
<1> QED
  BY <1>1, InitType DEF Init, Inv, HolderKeepsLock, LateScripts, Excuses, ValuesAreRecent, Holding, Direct

\* Only an expiry parts a live holder from its lock.
LEMMA StepHolder == Inv /\ [Next]_vars => HolderKeepsLock'
<1> SUFFICES ASSUME Inv, [Next]_vars PROVE HolderKeepsLock'
  OBVIOUS
<1> USE ReadersAssumption DEF Inv
<1>1. ASSUME NEW r \in Reader, Start(r) PROVE HolderKeepsLock'
  <2>1. Fields(r, "check", version, reader[r].ver)
    BY <1>1, StartedFields
  <2> QED BY <1>1, <2>1 DEF Start, Fields, HolderKeepsLock, Holding
<1>2. ASSUME NEW r \in Reader, Check(r) \/ Poll(r) PROVE HolderKeepsLock'
  BY <1>2, MovedFields, AnsweredFields DEF Check, Poll, Fields, HolderKeepsLock, Holding
<1>3. ASSUME NEW r \in Reader, TakeLock(r) PROVE HolderKeepsLock'
  BY <1>3, MovedFields DEF TakeLock, LockFree, Fields, HolderKeepsLock, Holding
<1>4. ASSUME NEW r \in Reader, GiveUp(r) \/ RedisFails(r) PROVE HolderKeepsLock'
  BY <1>4, MovedFields DEF GiveUp, GiveUpTo, RedisFails, Fields, HolderKeepsLock, Holding
<1>5. ASSUME NEW r \in Reader, BuildRead(r) \/ BuildFails(r) PROVE HolderKeepsLock'
  <2>1. \A s \in Reader : reader'[s].at \in Holding => reader[s].at \in Holding
    BY <1>5, AnsweredFields DEF BuildRead, BuildFails, Fields, Holding
  <2> QED BY <1>5, <2>1 DEF BuildRead, BuildFails, HolderKeepsLock
<1>6. ASSUME NEW r \in Reader, BuildEnds(r) \/ BuildUncached(r) \/ Store(r) \/ HolderRedisFails(r) \/ Crash(r)
      PROVE  HolderKeepsLock'
  BY <1>6, MovedFields
  DEF BuildEnds, BuildUncached, Store, HolderRedisFails, Crash, Fields, HolderKeepsLock, Holding
<1>7. ASSUME NEW r \in Reader, Unlock(r) PROVE HolderKeepsLock'
  BY <1>7, MovedFields DEF Unlock, Released, Owns, Fields, HolderKeepsLock, Holding
<1>8. ASSUME NEW cmd \in wire, Arrive(cmd) PROVE HolderKeepsLock'
  <2>1. cmd \in Command BY DEF TypeOK
  <2> QED
    BY <1>8, <2>1 DEF Arrive, Released, Owns, LockFree, HolderKeepsLock, LateScripts, Command, Holding, Ended
<1>9. CASE LockExpires \/ MarkExpires
  BY <1>9 DEF LockExpires, Expirable, MarkExpires, HolderKeepsLock
<1>10. CASE EntryExpires \/ Invalidate \/ (\E cmd \in wire : Lose(cmd)) \/ UNCHANGED vars
  BY <1>10 DEF EntryExpires, Invalidate, Lose, vars, HolderKeepsLock
<1> QED
  BY <1>1, <1>2, <1>3, <1>4, <1>5, <1>6, <1>7, <1>8, <1>9, <1>10 DEF Next, Request, Environment

\* Scripts left on the wire belong to requests that have ended, and those stay ended.
LEMMA StepLate == Inv /\ [Next]_vars => LateScripts'
<1> SUFFICES ASSUME Inv, [Next]_vars PROVE LateScripts'
  OBVIOUS
<1> USE DEF Inv
<1>a. \A cmd \in wire : cmd.from \in Reader
  BY DEF TypeOK, Command
<1>1. ASSUME NEW r \in Reader, Request(r) PROVE \A s \in Reader : reader[s].at \in Ended => reader'[s].at \in Ended
  <2>1. CASE Start(r)
    <3>1. Fields(r, "check", version, reader[r].ver)
      BY <2>1, StartedFields
    <3>2. reader[r].at = "idle"
      BY <2>1 DEF Start
    <3> QED BY <3>1, <3>2 DEF Fields, Ended
  <2>2. CASE Check(r) \/ Poll(r)
    BY <2>2, MovedFields, AnsweredFields DEF Check, Poll, Fields, Ended
  <2>5. CASE TakeLock(r) \/ GiveUp(r) \/ RedisFails(r)
    BY <2>5, MovedFields DEF TakeLock, GiveUp, RedisFails, Fields, Waiting, Ended
  <2>3. CASE BuildRead(r) \/ BuildFails(r)
    BY <2>3, AnsweredFields DEF BuildFails, Fields, Direct, Ended
  <2>4. CASE BuildEnds(r) \/ BuildUncached(r) \/ Store(r) \/ Unlock(r) \/ HolderRedisFails(r) \/ Crash(r)
    BY <2>4, MovedFields DEF BuildEnds, BuildUncached, Store, Unlock, HolderRedisFails, Crash, Fields, Ended
  <2> QED BY <1>1, <2>1, <2>2, <2>3, <2>4, <2>5 DEF Request
<1>2. ASSUME NEW r \in Reader, HolderRedisFails(r) PROVE LateScripts'
  <2>1. reader[r].at \in {"mark", "unlock"} => reader'[r].at \in Ended
    BY <1>2, MovedFields DEF HolderRedisFails, Fields, Ended
  <2>2. \A cmd \in wire' : cmd \in wire \/ cmd = [op |-> reader[r].at, from |-> r, ver |-> reader[r].ver]
    BY <1>2 DEF HolderRedisFails
  <2>3. \A s \in Reader : reader[s].at \in Ended => reader'[s].at \in Ended
    BY <1>1, <1>2 DEF Request
  <2> QED BY <1>a, <2>1, <2>2, <2>3 DEF LateScripts
<1>3. ASSUME NEW r \in Reader, RedisFails(r) PROVE LateScripts'
  <2>1. \A cmd \in wire' : cmd \in wire \/ cmd = [op |-> "lock", from |-> r, ver |-> 0]
    BY <1>3 DEF RedisFails
  <2>2. \A s \in Reader : reader[s].at \in Ended => reader'[s].at \in Ended
    BY <1>1, <1>3 DEF Request
  <2> QED BY <1>a, <2>1, <2>2 DEF LateScripts
<1>4. ASSUME NEW r \in Reader, Request(r), ~HolderRedisFails(r), ~RedisFails(r) PROVE LateScripts'
  <2>1. wire' = wire
    BY <1>4 DEF Request, Start, Check, TakeLock, Poll, GiveUp, BuildRead, BuildEnds, BuildUncached, BuildFails,
       Store, Unlock, Crash
  <2> QED BY <1>a, <1>1, <1>4, <2>1 DEF LateScripts
<1>5. CASE Environment \/ UNCHANGED vars
  <2>1. reader' = reader /\ wire' \subseteq wire
    BY <1>5 DEF Environment, LockExpires, MarkExpires, EntryExpires, Invalidate, Arrive, Lose, vars
  <2> QED BY <2>1 DEF LateScripts
<1> QED BY <1>2, <1>3, <1>4, <1>5 DEF Next

\* Direct builds, late commands, lost locks and the marker all have an excuse.
LEMMA StepExcuses == Inv /\ [Next]_vars => Excuses'
<1> SUFFICES ASSUME Inv, [Next]_vars, ~excused' PROVE Excuses'
  BY DEF Excuses
<1> USE DEF Inv
<1>a. ~excused
  <2>1. excused => excused'
    BY DEF Next, Request, Start, Check, TakeLock, Poll, GiveUp, RedisFails, BuildRead, BuildEnds, BuildUncached,
       BuildFails, Store, Unlock, HolderRedisFails, Crash, Environment, LockExpires, MarkExpires, EntryExpires,
       Invalidate, Arrive, Lose, vars
  <2> QED BY <2>1
<1>b. wire = {} /\ lost = {} /\ lock # Uncached /\ \A r \in Reader : reader[r].at \notin Direct \union {"mark"}
  BY <1>a DEF Excuses
<1>1. ASSUME NEW r \in Reader, Start(r) PROVE Excuses'
  <2>1. Fields(r, "check", version, reader[r].ver)
    BY <1>1, StartedFields
  <2>2. UNCHANGED <<lock, wire, lost>>
    BY <1>1 DEF Start
  <2> QED BY <1>b, <2>1, <2>2 DEF Fields, Excuses, Direct
<1>2. ASSUME NEW r \in Reader, Check(r) \/ TakeLock(r) \/ Poll(r) \/ GiveUp(r) PROVE Excuses'
  <2>1. r # Uncached BY ReadersAssumption
  <2> QED
    BY <1>b, <1>2, <2>1, MovedFields, AnsweredFields
    DEF Check, TakeLock, Poll, GiveUp, GiveUpTo, Fields, Excuses, Direct
<1>3. ASSUME NEW r \in Reader, BuildRead(r) PROVE Excuses'
  BY <1>b, <1>3, AnsweredFields DEF BuildRead, Fields, Excuses, Direct
<1>4. ASSUME NEW r \in Reader, BuildFails(r) PROVE Excuses'
  <2>1. Fields(r, IF reader[r].at \in Holding THEN "unlock" ELSE "failed", reader[r].start, 0)
    BY <1>4, AnsweredFields
  <2>2. UNCHANGED <<lock, wire, lost>>
    BY <1>4 DEF BuildFails
  <2> QED BY <1>b, <2>1, <2>2 DEF Fields, Excuses, Direct
<1>5. ASSUME NEW r \in Reader, BuildEnds(r) \/ Store(r) \/ Unlock(r) \/ Crash(r) PROVE Excuses'
  BY <1>b, <1>5, MovedFields DEF BuildEnds, Store, Unlock, Released, Crash, Fields, Excuses, Direct
<1>6. ASSUME NEW r \in Reader, RedisFails(r) \/ BuildUncached(r) \/ HolderRedisFails(r) PROVE FALSE
  BY <1>6 DEF RedisFails, BuildUncached, HolderRedisFails
<1>7. CASE Environment \/ UNCHANGED vars
  BY <1>b, <1>7
  DEF Environment, LockExpires, MarkExpires, EntryExpires, Invalidate, Arrive, Lose, vars, Excuses
<1> QED BY <1>1, <1>2, <1>3, <1>4, <1>5, <1>6, <1>7 DEF Next, Request

\* Every value that is on its way to an answer is recent enough for it.
LEMMA StepRecent == Inv /\ [Next]_vars => ValuesAreRecent'
<1> SUFFICES ASSUME Inv, [Next]_vars PROVE ValuesAreRecent'
  OBVIOUS
<1> USE DEF Inv
<1>a. /\ version \in Nat /\ version # 0 /\ entry \in Nat
      /\ \A r \in Reader : reader[r].start \in Nat /\ reader[r].ver \in Nat
  BY LimitsAssumption DEF TypeOK, ReaderState
<1>1. ASSUME NEW r \in Reader, Start(r) PROVE ValuesAreRecent'
  <2>1. reader[r].ver = 0
    BY <1>1 DEF Start, ValuesAreRecent
  <2>2. Fields(r, "check", version, reader[r].ver)
    BY <1>1, StartedFields
  <2>3. UNCHANGED version
    BY <1>1 DEF Start
  <2> QED BY <1>a, <2>1, <2>2, <2>3 DEF Fields, ValuesAreRecent
<1>2. ASSUME NEW r \in Reader, Check(r) \/ TakeLock(r) \/ Poll(r) PROVE ValuesAreRecent'
  BY <1>a, <1>2, MovedFields, AnsweredFields DEF Check, TakeLock, Poll, Fresh, Fields, ValuesAreRecent
<1>3. ASSUME NEW r \in Reader, GiveUp(r) \/ RedisFails(r) \/ Crash(r) PROVE ValuesAreRecent'
  BY <1>a, <1>3, MovedFields DEF GiveUp, GiveUpTo, RedisFails, Crash, Fields, ValuesAreRecent
<1>4. ASSUME NEW r \in Reader, BuildRead(r) PROVE ValuesAreRecent'
  BY <1>a, <1>4, AnsweredFields DEF BuildRead, Fields, ValuesAreRecent
<1>5. ASSUME NEW r \in Reader, BuildFails(r) PROVE ValuesAreRecent'
  <2>1. Fields(r, IF reader[r].at \in Holding THEN "unlock" ELSE "failed", reader[r].start, 0)
    BY <1>5, AnsweredFields
  <2>2. UNCHANGED version
    BY <1>5 DEF BuildFails
  <2> QED BY <1>a, <2>1, <2>2 DEF Fields, ValuesAreRecent
<1>6. ASSUME NEW r \in Reader, BuildEnds(r) \/ BuildUncached(r) \/ Store(r) \/ Unlock(r) \/ HolderRedisFails(r)
      PROVE  ValuesAreRecent'
  BY <1>a, <1>6, MovedFields
  DEF BuildEnds, BuildUncached, Store, Unlock, HolderRedisFails, Fields, ValuesAreRecent
<1>7. CASE Environment \/ UNCHANGED vars
  <2>1. reader' = reader /\ (version' = version \/ version' = version + 1)
    BY <1>7 DEF Environment, LockExpires, MarkExpires, EntryExpires, Invalidate, Arrive, Lose, vars
  <2> QED BY <1>a, <2>1 DEF ValuesAreRecent
<1> QED BY <1>1, <1>2, <1>3, <1>4, <1>5, <1>6, <1>7 DEF Next, Request

\* The invariant holds in every reachable state.
THEOREM Invariance == Spec => []Inv
<1>1. Inv /\ [Next]_vars => Inv'
  BY StepType, StepHolder, StepLate, StepExcuses, StepRecent DEF Inv
<1> QED BY InitInv, <1>1, PTL DEF Spec

\* Only the passing of its TTL takes the lock from a live holder.
THEOREM LockIsKept == Spec => []HolderKeepsLock
<1>1. Inv => HolderKeepsLock BY DEF Inv
<1> QED BY Invariance, <1>1, PTL

\* Without an excuse no two requests work on the key at the same time: the
\* direct builders need one, and two holders would hold the same token.
THEOREM BuildsAreCoalesced == Spec => []NoHerd
<1>1. Inv => NoHerd
  <2> SUFFICES ASSUME Inv, ~excused, NEW r \in Reader, NEW s \in Reader,
                      reader[r].at \in Holding \union Direct, reader[s].at \in Holding \union Direct
               PROVE  r = s
    BY DEF NoHerd
  <2>1. reader[r].at \in Holding /\ reader[s].at \in Holding /\ lost = {}
    BY DEF Inv, Excuses
  <2> QED BY <2>1 DEF Inv, HolderKeepsLock
<1> QED BY Invariance, <1>1, PTL

\* No request is answered from data older than the request.
THEOREM AnswersAreRecent == Spec => []NeverOlderThanRequest
<1>1. Inv => NeverOlderThanRequest
  BY DEF Inv, ValuesAreRecent, NeverOlderThanRequest
<1> QED BY Invariance, <1>1, PTL
=============================================================================
