---------------------------- MODULE ProductProofs ----------------------------
(***************************************************************************)
(* Proofs about the two numbers of a product that change by themselves:    *)
(* its live stock (StockCounters) and its price (Pricing). The two share   *)
(* nothing but the row, and neither part uses the other.                   *)
(*                                                                         *)
(* Stock, for every number of writers, readers, writes and failures. While *)
(* none of the three exceptions has happened, at most one write is under   *)
(* way and it is the last one (Turns), the counter is no older than the    *)
(* last answered write (CounterRecent), and a backfill that would bring    *)
(* back an older level finds the counter there (FillsBlocked).             *)
(*                                                                         *)
(* Prices, for every set of prices, promotions and category rows, of any   *)
(* magnitude. A text parses to the amount it stands for (ParsedIsWorth)    *)
(* and a stored amount reads back as itself (StoredReadsBack), so the rule *)
(* that priceVendorRow's result follows (PricedByRule) holds of the        *)
(* column. The discounts need one more conjunct: every live promotion      *)
(* passed the percentage check (Valid).                                    *)
(***************************************************************************)
EXTENDS StockCounters, Pricing, TLAPS

Regular == ~overlapped /\ ~raced /\ ~unpublished

Turns ==
    /\ (\A w \in Writer : writer[w].at = "idle") => answered = stock
    /\ \A w \in Writer : writer[w].at # "idle" =>
          /\ writer[w].level = stock
          /\ stock = answered + 1
          /\ \A o \in Writer : o # w => writer[o].at = "idle"

CounterRecent == counter # Missing => counter.level >= answered

FillsBlocked ==
    /\ \A r \in Reader : reader[r].at = "fill" => counter # Missing \/ reader[r].level >= answered
    /\ \A cmd \in wire : cmd.op = "fill" => counter # Missing \/ cmd.level >= answered

\* What the wire can hold: a SET whose writer has not deleted the counter yet, no DEL.
WireOrdered ==
    /\ \A cmd \in wire : cmd.op = "set" =>
          cmd.from \in Writer /\ writer[cmd.from].at = "del" /\ cmd.level = stock
    /\ \A cmd \in wire : cmd.op # "del"

ReadersRecent ==
    \A r \in Reader :
        /\ reader[r].at \in {"get", "fetch"} => reader[r].due <= answered
        /\ reader[r].at \in {"fill", "answer"} => reader[r].level >= reader[r].due

\* No level is from the future.
Levels ==
    /\ counter.level <= stock /\ answered <= stock
    /\ \A w \in Writer : writer[w].level <= stock
    /\ \A r \in Reader : reader[r].level <= stock
    /\ \A cmd \in wire : cmd.level <= stock

RegularInv == Turns /\ CounterRecent /\ FillsBlocked /\ WireOrdered /\ ReadersRecent

Inv == TypeOK /\ Levels /\ (Regular => RegularInv)

-----------------------------------------------------------------------------
(* Types. *)

\* The initial state is well typed.
LEMMA InitTypes == Init => TypeOK
  <1> SUFFICES ASSUME Init PROVE TypeOK
    OBVIOUS
  <1> USE LimitsAssumption DEF Init, Level
  <1>1. 0 \in Level
    OBVIOUS
  <1>2. writer \in [Writer -> [at : {"idle", "set", "del"}, level : Level]]
    BY <1>1
  <1>3. reader \in [Reader -> [at : {"idle", "get", "fetch", "fill", "answer"}, level : Level, due : Level]]
    BY <1>1
  <1>4. counter \in [level : Level, ttl : BOOLEAN] \union {Missing}
    OBVIOUS
  <1>5. wire \in SUBSET [op : {"set", "del", "fill"}, from : Writer \union Reader, level : Level]
    OBVIOUS
  <1>6. stock \in Level /\ answered \in Level /\ faults \in 0 .. MaxFaults
    BY <1>1
  <1>7. overlapped \in BOOLEAN /\ raced \in BOOLEAN /\ unpublished \in BOOLEAN
    OBVIOUS
  <1> HIDE DEF Init, Level
  <1> QED
    BY <1>2, <1>3, <1>4, <1>5, <1>6, <1>7 DEF TypeOK

\* Every step keeps the types.
LEMMA StepTypes == TypeOK /\ [Next]_vars => TypeOK'
  <1> SUFFICES ASSUME TypeOK, [Next]_vars PROVE TypeOK'
    OBVIOUS
  <1> USE LimitsAssumption DEF Level
  <1>1. ASSUME NEW w \in Writer, Write(w) PROVE TypeOK'
    BY <1>1 DEF TypeOK, Write, Missing
  <1>2. ASSUME NEW w \in Writer, Set(w) PROVE TypeOK'
    BY <1>2 DEF TypeOK, Set, Counter, Answers, InOrder, Missing
  <1>3. ASSUME NEW w \in Writer, SetFails(w) PROVE TypeOK'
    BY <1>3 DEF TypeOK, SetFails, Fails, MayArriveLate, Dropped, Missing
  <1>4. ASSUME NEW w \in Writer, Delete(w) PROVE TypeOK'
    BY <1>4 DEF TypeOK, Delete, Answers, InOrder, Backfilling, Missing
  <1>5. ASSUME NEW w \in Writer, DeleteFails(w) PROVE TypeOK'
    BY <1>5 DEF TypeOK, DeleteFails, Fails, MayArriveLate, Answers, Missing
  <1>6. ASSUME NEW w \in Writer, WriterDies(w) PROVE TypeOK'
    BY <1>6 DEF TypeOK, WriterDies, Fails, Missing
  <1>7. ASSUME NEW r \in Reader, Arrive(r) PROVE TypeOK'
    BY <1>7 DEF TypeOK, Arrive, Missing
  <1>8. ASSUME NEW r \in Reader, Get(r) PROVE TypeOK'
    <2>1. counter # Missing => counter.level \in Level
      BY DEF TypeOK, Missing
    <2>2. reader' \in [Reader -> [at : {"idle", "get", "fetch", "fill", "answer"}, level : Level, due : Level]]
      BY <1>8, <2>1 DEF TypeOK, Get, Hit
    <2> QED
      BY <1>8, <2>2 DEF TypeOK, Get
  <1>9. ASSUME NEW r \in Reader, GetFails(r) PROVE TypeOK'
    BY <1>9 DEF TypeOK, GetFails, Fails, Missing
  <1>10. ASSUME NEW r \in Reader, Fetch(r) PROVE TypeOK'
    <2>1. reader' \in [Reader -> [at : {"idle", "get", "fetch", "fill", "answer"}, level : Level, due : Level]]
      BY <1>10 DEF TypeOK, Fetch
    <2> QED
      BY <1>10, <2>1 DEF TypeOK, Fetch
  <1>11. ASSUME NEW r \in Reader, Fill(r) PROVE TypeOK'
    BY <1>11 DEF TypeOK, Fill, InOrder, Backfilled, Counter, Missing
  <1>12. ASSUME NEW r \in Reader, FillFails(r) PROVE TypeOK'
    BY <1>12 DEF TypeOK, FillFails, Fails, MayArriveLate, Missing
  <1>13. ASSUME NEW r \in Reader, Leave(r) PROVE TypeOK'
    BY <1>13 DEF TypeOK, Leave, Missing
  <1>14. ASSUME NEW cmd \in wire, ArriveLate(cmd) PROVE TypeOK'
    BY <1>14 DEF TypeOK, ArriveLate, Counter, Backfilled, Backfilling, Missing
  <1>15. ASSUME NEW cmd \in wire, Lose(cmd) PROVE TypeOK'
    BY <1>15 DEF TypeOK, Lose, Missing
  <1>16. CASE Expire
    BY <1>16 DEF TypeOK, Expire, Missing
  <1>17. CASE UNCHANGED vars
    BY <1>17 DEF TypeOK, vars
  <1> QED
    BY <1>1, <1>2, <1>3, <1>4, <1>5, <1>6, <1>7, <1>8, <1>9, <1>10, <1>11, <1>12, <1>13, <1>14, <1>15, <1>16, <1>17 DEF Next, WriterStep, ReaderStep

\* Every reachable state is well typed.
THEOREM TypeCorrect == Spec => []TypeOK
  <1>1. Init => TypeOK
    BY InitTypes
  <1>2. TypeOK /\ [Next]_vars => TypeOK'
    BY StepTypes
  <1> QED
    BY <1>1, <1>2, PTL DEF Spec

-----------------------------------------------------------------------------
(* The invariant. *)

\* No step ends an exception.
LEMMA RegularBefore == TypeOK /\ [Next]_vars /\ Regular' => Regular
  BY DEF TypeOK, Regular, Next, WriterStep, ReaderStep, vars, Write, Set, SetFails, Delete, DeleteFails, WriterDies,
         Arrive, Get, GetFails, Fetch, Fill, FillFails, Leave, ArriveLate, Lose, Expire

\* Levels only grow with the column.
LEMMA LevelsStep == TypeOK /\ Levels /\ [Next]_vars => Levels'
  <1> SUFFICES ASSUME TypeOK, Levels, [Next]_vars PROVE Levels'
    OBVIOUS
  <1> USE DEF TypeOK, Level, Levels, Missing
  <1>1. ASSUME NEW w \in Writer, Write(w) PROVE Levels'
    BY <1>1 DEF Write
  <1>2. ASSUME NEW w \in Writer, Set(w) PROVE Levels'
    BY <1>2 DEF Set, Counter, Answers
  <1>3. ASSUME NEW w \in Writer, SetFails(w) PROVE Levels'
    BY <1>3 DEF SetFails, Fails, MayArriveLate, Dropped
  <1>4. ASSUME NEW w \in Writer, Delete(w) PROVE Levels'
    BY <1>4 DEF Delete, Answers
  <1>5. ASSUME NEW w \in Writer, DeleteFails(w) PROVE Levels'
    BY <1>5 DEF DeleteFails, Fails, MayArriveLate, Answers
  <1>6. ASSUME NEW w \in Writer, WriterDies(w) PROVE Levels'
    BY <1>6 DEF WriterDies, Fails
  <1>7. ASSUME NEW r \in Reader, Arrive(r) PROVE Levels'
    BY <1>7 DEF Arrive
  <1>8. ASSUME NEW r \in Reader, Get(r) PROVE Levels'
    BY <1>8 DEF Get, Hit
  <1>9. ASSUME NEW r \in Reader, GetFails(r) PROVE Levels'
    BY <1>9 DEF GetFails, Fails
  <1>10. ASSUME NEW r \in Reader, Fetch(r) PROVE Levels'
    BY <1>10 DEF Fetch
  <1>11. ASSUME NEW r \in Reader, Fill(r) PROVE Levels'
    BY <1>11 DEF Fill, Backfilled, Counter
  <1>12. ASSUME NEW r \in Reader, FillFails(r) PROVE Levels'
    BY <1>12 DEF FillFails, Fails, MayArriveLate
  <1>13. ASSUME NEW r \in Reader, Leave(r) PROVE Levels'
    BY <1>13 DEF Leave
  <1>14. ASSUME NEW cmd \in wire, ArriveLate(cmd) PROVE Levels'
    BY <1>14 DEF ArriveLate, Counter, Backfilled
  <1>15. ASSUME NEW cmd \in wire, Lose(cmd) PROVE Levels'
    BY <1>15 DEF Lose
  <1>16. CASE Expire
    BY <1>16 DEF Expire
  <1>17. CASE UNCHANGED vars
    BY <1>17 DEF vars
  <1> QED
    BY <1>1, <1>2, <1>3, <1>4, <1>5, <1>6, <1>7, <1>8, <1>9, <1>10, <1>11, <1>12, <1>13, <1>14, <1>15, <1>16, <1>17 DEF Next, WriterStep, ReaderStep

\* A write finds no other under way, and becomes the last one.
LEMMA WriteRegular ==
  ASSUME TypeOK, TypeOK', Levels, NEW w \in Writer, Write(w), Regular, Regular', RegularInv
  PROVE  RegularInv'
  <1>a. \A o \in Writer : writer[o].at = "idle"
    BY DEF Regular, Write
  <1>b. answered = stock
    BY <1>a DEF RegularInv, Turns
  <1>c. /\ writer'[w].level = stock'
        /\ \A o \in Writer : o # w => writer'[o] = writer[o]
        /\ writer'[w].at # "idle"
    BY DEF TypeOK, Write
  <1>d. stock' = answered' + 1
    BY <1>b DEF Write
  <1>1. Turns'
    BY <1>a, <1>c, <1>d DEF Turns
  <1> USE DEF TypeOK, Level, Levels, Regular, RegularInv, Missing, Write
  <1>2. CounterRecent'
    BY DEF Turns, CounterRecent, FillsBlocked, WireOrdered
  <1>3. FillsBlocked'
    BY DEF Turns, CounterRecent, FillsBlocked, WireOrdered
  <1>4. WireOrdered'
    BY DEF Turns, WireOrdered
  <1>5. ReadersRecent'
    BY DEF Turns, ReadersRecent, CounterRecent, FillsBlocked
  <1> QED
    BY <1>1, <1>2, <1>3, <1>4, <1>5

\* The last write is written through: the counter is right.
LEMMA SetRegular ==
  ASSUME TypeOK, TypeOK', Levels, NEW w \in Writer, Set(w), Regular, Regular', RegularInv
  PROVE  RegularInv'
  <1> USE DEF TypeOK, Level, Levels, Regular, RegularInv, Missing, Set, Counter, Answers, InOrder
  <1>1. Turns'
    BY DEF Turns, CounterRecent
  <1>2. CounterRecent'
    BY DEF Turns, CounterRecent, FillsBlocked, WireOrdered
  <1>3. FillsBlocked'
    BY DEF Turns, CounterRecent, FillsBlocked, WireOrdered
  <1>4. WireOrdered'
    BY DEF Turns, WireOrdered
  <1>5. ReadersRecent'
    BY DEF Turns, ReadersRecent, CounterRecent, FillsBlocked
  <1> QED
    BY <1>1, <1>2, <1>3, <1>4, <1>5

\* The failed SET of the last write precedes its DEL on the wire.
LEMMA SetFailsRegular ==
  ASSUME TypeOK, TypeOK', Levels, NEW w \in Writer, SetFails(w), Regular, Regular', RegularInv
  PROVE  RegularInv'
  <1> USE DEF TypeOK, Level, Levels, Regular, RegularInv, Missing, SetFails, Fails, MayArriveLate, Dropped
  <1>1. Turns'
    BY DEF Turns, CounterRecent
  <1>2. CounterRecent'
    BY DEF Turns, CounterRecent, FillsBlocked, WireOrdered
  <1>3. FillsBlocked'
    BY DEF Turns, CounterRecent, FillsBlocked, WireOrdered
  <1>4. WireOrdered'
    BY DEF Turns, WireOrdered
  <1>5. ReadersRecent'
    BY DEF Turns, ReadersRecent, CounterRecent, FillsBlocked
  <1> QED
    BY <1>1, <1>2, <1>3, <1>4, <1>5

\* A delete that crosses no backfill leaves a missing counter and no old level.
LEMMA DeleteRegular ==
  ASSUME TypeOK, TypeOK', Levels, NEW w \in Writer, Delete(w), Regular, Regular', RegularInv
  PROVE  RegularInv'
  <1> USE DEF TypeOK, Level, Levels, Regular, RegularInv, Missing, Delete, Answers, InOrder, Backfilling
  <1>1. Turns'
    BY DEF Turns, CounterRecent
  <1>2. CounterRecent'
    BY DEF Turns, CounterRecent, FillsBlocked, WireOrdered
  <1>3. FillsBlocked'
    BY DEF Turns, CounterRecent, FillsBlocked, WireOrdered
  <1>4. WireOrdered'
    BY DEF Turns, WireOrdered
  <1>5. ReadersRecent'
    BY DEF Turns, ReadersRecent, CounterRecent, FillsBlocked
  <1> QED
    BY <1>1, <1>2, <1>3, <1>4, <1>5

\* (This step is an exception.)
LEMMA DeleteFailsRegular ==
  ASSUME TypeOK, TypeOK', Levels, NEW w \in Writer, DeleteFails(w), Regular, Regular', RegularInv
  PROVE  RegularInv'
  <1> USE DEF TypeOK, Level, Levels, Regular, RegularInv, Missing, DeleteFails, Fails, MayArriveLate, Answers
  <1>1. Turns'
    BY DEF Turns, CounterRecent
  <1>2. CounterRecent'
    BY DEF Turns, CounterRecent, FillsBlocked, WireOrdered
  <1>3. FillsBlocked'
    BY DEF Turns, CounterRecent, FillsBlocked, WireOrdered
  <1>4. WireOrdered'
    BY DEF Turns, WireOrdered
  <1>5. ReadersRecent'
    BY DEF Turns, ReadersRecent, CounterRecent, FillsBlocked
  <1> QED
    BY <1>1, <1>2, <1>3, <1>4, <1>5

\* (This step is an exception.)
LEMMA WriterDiesRegular ==
  ASSUME TypeOK, TypeOK', Levels, NEW w \in Writer, WriterDies(w), Regular, Regular', RegularInv
  PROVE  RegularInv'
  <1> USE DEF TypeOK, Level, Levels, Regular, RegularInv, Missing, WriterDies, Fails
  <1>1. Turns'
    BY DEF Turns, CounterRecent
  <1>2. CounterRecent'
    BY DEF Turns, CounterRecent, FillsBlocked, WireOrdered
  <1>3. FillsBlocked'
    BY DEF Turns, CounterRecent, FillsBlocked, WireOrdered
  <1>4. WireOrdered'
    BY DEF Turns, WireOrdered
  <1>5. ReadersRecent'
    BY DEF Turns, ReadersRecent, CounterRecent, FillsBlocked
  <1> QED
    BY <1>1, <1>2, <1>3, <1>4, <1>5

\* A read owes the answered writes.
LEMMA ArriveRegular ==
  ASSUME TypeOK, TypeOK', Levels, NEW r \in Reader, Arrive(r), Regular, Regular', RegularInv
  PROVE  RegularInv'
  <1> USE DEF TypeOK, Level, Levels, Regular, RegularInv, Missing, Arrive
  <1>1. Turns'
    BY DEF Turns, CounterRecent
  <1>2. CounterRecent'
    BY DEF Turns, CounterRecent, FillsBlocked, WireOrdered
  <1>3. FillsBlocked'
    BY DEF Turns, CounterRecent, FillsBlocked, WireOrdered
  <1>4. WireOrdered'
    BY DEF Turns, WireOrdered
  <1>5. ReadersRecent'
    BY DEF Turns, ReadersRecent, CounterRecent, FillsBlocked
  <1> QED
    BY <1>1, <1>2, <1>3, <1>4, <1>5

\* A counter that is there is recent enough.
LEMMA GetRegular ==
  ASSUME TypeOK, TypeOK', Levels, NEW r \in Reader, Get(r), Regular, Regular', RegularInv
  PROVE  RegularInv'
  <1> USE DEF TypeOK, Level, Levels, Regular, RegularInv, Missing, Get, Hit
  <1>1. Turns'
    BY DEF Turns, CounterRecent
  <1>2. CounterRecent'
    BY DEF Turns, CounterRecent, FillsBlocked, WireOrdered
  <1>3. FillsBlocked'
    BY DEF Turns, CounterRecent, FillsBlocked, WireOrdered
  <1>4. WireOrdered'
    BY DEF Turns, WireOrdered
  <1>5. ReadersRecent'
    BY DEF Turns, ReadersRecent, CounterRecent, FillsBlocked
  <1> QED
    BY <1>1, <1>2, <1>3, <1>4, <1>5

\* A read that falls back owes the same.
LEMMA GetFailsRegular ==
  ASSUME TypeOK, TypeOK', Levels, NEW r \in Reader, GetFails(r), Regular, Regular', RegularInv
  PROVE  RegularInv'
  <1> USE DEF TypeOK, Level, Levels, Regular, RegularInv, Missing, GetFails, Fails
  <1>1. Turns'
    BY DEF Turns, CounterRecent
  <1>2. CounterRecent'
    BY DEF Turns, CounterRecent, FillsBlocked, WireOrdered
  <1>3. FillsBlocked'
    BY DEF Turns, CounterRecent, FillsBlocked, WireOrdered
  <1>4. WireOrdered'
    BY DEF Turns, WireOrdered
  <1>5. ReadersRecent'
    BY DEF Turns, ReadersRecent, CounterRecent, FillsBlocked
  <1> QED
    BY <1>1, <1>2, <1>3, <1>4, <1>5

\* The column is recent enough.
LEMMA FetchRegular ==
  ASSUME TypeOK, TypeOK', Levels, NEW r \in Reader, Fetch(r), Regular, Regular', RegularInv
  PROVE  RegularInv'
  <1> USE DEF TypeOK, Level, Levels, Regular, RegularInv, Missing, Fetch
  <1>1. Turns'
    BY DEF Turns, CounterRecent
  <1>2. CounterRecent'
    BY DEF Turns, CounterRecent, FillsBlocked, WireOrdered
  <1>3. FillsBlocked'
    BY DEF Turns, CounterRecent, FillsBlocked, WireOrdered
  <1>4. WireOrdered'
    BY DEF Turns, WireOrdered
  <1>5. ReadersRecent'
    BY DEF Turns, ReadersRecent, CounterRecent, FillsBlocked
  <1> QED
    BY <1>1, <1>2, <1>3, <1>4, <1>5

\* A backfill either finds the counter there or is recent.
LEMMA FillRegular ==
  ASSUME TypeOK, TypeOK', Levels, NEW r \in Reader, Fill(r), Regular, Regular', RegularInv
  PROVE  RegularInv'
  <1> USE DEF TypeOK, Level, Levels, Regular, RegularInv, Missing, Fill, InOrder, Backfilled, Counter
  <1>1. Turns'
    BY DEF Turns, CounterRecent
  <1>2. CounterRecent'
    BY DEF Turns, CounterRecent, FillsBlocked, WireOrdered
  <1>3. FillsBlocked'
    BY DEF Turns, CounterRecent, FillsBlocked, WireOrdered
  <1>4. WireOrdered'
    BY DEF Turns, WireOrdered
  <1>5. ReadersRecent'
    BY DEF Turns, ReadersRecent, CounterRecent, FillsBlocked
  <1> QED
    BY <1>1, <1>2, <1>3, <1>4, <1>5

\* A backfill may arrive late.
LEMMA FillFailsRegular ==
  ASSUME TypeOK, TypeOK', Levels, NEW r \in Reader, FillFails(r), Regular, Regular', RegularInv
  PROVE  RegularInv'
  <1> USE DEF TypeOK, Level, Levels, Regular, RegularInv, Missing, FillFails, Fails, MayArriveLate
  <1>1. Turns'
    BY DEF Turns, CounterRecent
  <1>2. CounterRecent'
    BY DEF Turns, CounterRecent, FillsBlocked, WireOrdered
  <1>3. FillsBlocked'
    BY DEF Turns, CounterRecent, FillsBlocked, WireOrdered
  <1>4. WireOrdered'
    BY DEF Turns, WireOrdered
  <1>5. ReadersRecent'
    BY DEF Turns, ReadersRecent, CounterRecent, FillsBlocked
  <1> QED
    BY <1>1, <1>2, <1>3, <1>4, <1>5

\* A read ends.
LEMMA LeaveRegular ==
  ASSUME TypeOK, TypeOK', Levels, NEW r \in Reader, Leave(r), Regular, Regular', RegularInv
  PROVE  RegularInv'
  <1> USE DEF TypeOK, Level, Levels, Regular, RegularInv, Missing, Leave
  <1>1. Turns'
    BY DEF Turns, CounterRecent
  <1>2. CounterRecent'
    BY DEF Turns, CounterRecent, FillsBlocked, WireOrdered
  <1>3. FillsBlocked'
    BY DEF Turns, CounterRecent, FillsBlocked, WireOrdered
  <1>4. WireOrdered'
    BY DEF Turns, WireOrdered
  <1>5. ReadersRecent'
    BY DEF Turns, ReadersRecent, CounterRecent, FillsBlocked
  <1> QED
    BY <1>1, <1>2, <1>3, <1>4, <1>5

\* A late SET is of the last write, a late backfill is blocked or recent.
LEMMA ArriveLateRegular ==
  ASSUME TypeOK, TypeOK', Levels, NEW cmd \in wire, ArriveLate(cmd), Regular, Regular', RegularInv
  PROVE  RegularInv'
  <1> USE DEF TypeOK, Level, Levels, Regular, RegularInv, Missing, ArriveLate, Counter, Backfilled, Backfilling
  <1>1. Turns'
    BY DEF Turns, CounterRecent
  <1>2. CounterRecent'
    BY DEF Turns, CounterRecent, FillsBlocked, WireOrdered
  <1>3. FillsBlocked'
    BY DEF Turns, CounterRecent, FillsBlocked, WireOrdered
  <1>4. WireOrdered'
    BY DEF Turns, WireOrdered
  <1>5. ReadersRecent'
    BY DEF Turns, ReadersRecent, CounterRecent, FillsBlocked
  <1> QED
    BY <1>1, <1>2, <1>3, <1>4, <1>5

\* A lost command changes nothing.
LEMMA LoseRegular ==
  ASSUME TypeOK, TypeOK', Levels, NEW cmd \in wire, Lose(cmd), Regular, Regular', RegularInv
  PROVE  RegularInv'
  <1> USE DEF TypeOK, Level, Levels, Regular, RegularInv, Missing, Lose
  <1>1. Turns'
    BY DEF Turns, CounterRecent
  <1>2. CounterRecent'
    BY DEF Turns, CounterRecent, FillsBlocked, WireOrdered
  <1>3. FillsBlocked'
    BY DEF Turns, CounterRecent, FillsBlocked, WireOrdered
  <1>4. WireOrdered'
    BY DEF Turns, WireOrdered
  <1>5. ReadersRecent'
    BY DEF Turns, ReadersRecent, CounterRecent, FillsBlocked
  <1> QED
    BY <1>1, <1>2, <1>3, <1>4, <1>5

\* The counter is missing after its TTL, and no old level is on its way.
LEMMA ExpireRegular ==
  ASSUME TypeOK, Expire, RegularInv
  PROVE  RegularInv'
  <1> USE DEF RegularInv, Expire, Missing, Backfilling
  <1>1. Turns' /\ CounterRecent'
    BY DEF Turns, CounterRecent
  <1>2. FillsBlocked'
    BY DEF FillsBlocked
  <1>3. WireOrdered' /\ ReadersRecent'
    BY DEF WireOrdered, ReadersRecent
  <1> QED
    BY <1>1, <1>2, <1>3

\* The invariant holds initially.
LEMMA InitInv == Init => Inv
  <1> SUFFICES ASSUME Init PROVE Inv
    OBVIOUS
  <1>1. TypeOK
    BY InitTypes
  <1>2. Levels
    BY DEF Init, Levels, Missing
  <1>3. RegularInv
    BY DEF Init, RegularInv, Turns, CounterRecent, FillsBlocked, WireOrdered, ReadersRecent
  <1> QED
    BY <1>1, <1>2, <1>3 DEF Inv

\* Every step keeps it.
LEMMA StepInv == Inv /\ [Next]_vars => Inv'
  <1> SUFFICES ASSUME Inv, [Next]_vars PROVE Inv'
    OBVIOUS
  <1>1. TypeOK /\ Levels /\ TypeOK' /\ Levels'
    BY StepTypes, LevelsStep DEF Inv
  <1>2. ASSUME Regular' PROVE RegularInv'
    <2>1. Regular /\ RegularInv
      BY <1>1, <1>2, RegularBefore DEF Inv
    <2>2. ASSUME NEW w \in Writer, WriterStep(w) PROVE RegularInv'
      BY <1>1, <1>2, <2>1, <2>2, WriteRegular, SetRegular, SetFailsRegular, DeleteRegular, DeleteFailsRegular,
         WriterDiesRegular DEF WriterStep
    <2>3. ASSUME NEW r \in Reader, ReaderStep(r) PROVE RegularInv'
      BY <1>1, <1>2, <2>1, <2>3, ArriveRegular, GetRegular, GetFailsRegular, FetchRegular, FillRegular,
         FillFailsRegular, LeaveRegular DEF ReaderStep
    <2>4. ASSUME NEW cmd \in wire, ArriveLate(cmd) \/ Lose(cmd) PROVE RegularInv'
      BY <1>1, <1>2, <2>1, <2>4, ArriveLateRegular, LoseRegular
    <2>5. CASE Expire
      BY <1>1, <2>1, <2>5, ExpireRegular
    <2>6. CASE UNCHANGED vars
      BY <2>1, <2>6 DEF vars, RegularInv, Turns, CounterRecent, FillsBlocked, WireOrdered, ReadersRecent
    <2> QED
      BY <2>2, <2>3, <2>4, <2>5, <2>6 DEF Next
  <1> QED
    BY <1>1, <1>2 DEF Inv

\* The invariant is one.
THEOREM Invariance == Spec => []Inv
  <1>1. Init => Inv
    BY InitInv
  <1>2. Inv /\ [Next]_vars => Inv'
    BY StepInv
  <1> QED
    BY <1>1, <1>2, PTL DEF Spec

-----------------------------------------------------------------------------
(* The properties. *)

\* Outside the three exceptions a counter at rest is missing or right: write-through
\* after the commit, delete on failure and backfill with NX are enough.
THEOREM CounterAtRest == Spec => []QuietCounterIsCurrent
  <1>1. Inv => QuietCounterIsCurrent
    <2> SUFFICES ASSUME Inv, Quiet, Regular PROVE Current
      BY DEF QuietCounterIsCurrent, Regular
    <2>1. answered = stock
      BY DEF Inv, RegularInv, Turns, Quiet
    <2>2. counter # Missing => counter.level >= stock /\ counter.level <= stock
      BY <2>1 DEF Inv, RegularInv, CounterRecent, Levels
    <2> QED
      BY <2>2 DEF Inv, TypeOK, Level, Current, Missing
  <1> QED
    BY <1>1, Invariance, PTL

\* Outside the three exceptions a read shows the writes that were answered before it came in.
THEOREM AnsweredWritesShow == Spec => []AnsweredStockIsSeen
  <1>1. Inv => AnsweredStockIsSeen
    BY DEF Inv, RegularInv, Regular, ReadersRecent, AnsweredStockIsSeen
  <1> QED
    BY <1>1, Invariance, PTL

MaxCents == MaxWhole * 100 + 99

-----------------------------------------------------------------------------
(* Money texts and cents. *)

\* Padding puts the digits where the decimals are, so parsing gives what the text stands for.
LEMMA ParsedIsWorth ==
  ASSUME NEW text \in MoneyText
  PROVE  ToCents(text) = Worth(text) /\ ToCents(text) \in 0 .. MaxCents
  <1> DEFINE digits == text.frac
  <1>1. text.whole \in 0 .. MaxWhole /\ digits \in Seq(0 .. 9)
    BY SMT DEF MoneyText
  <1>2. Padded(digits)[1] = (IF Len(digits) >= 1 THEN digits[1] ELSE 0)
    BY <1>1 DEF Padded
  <1>3. Padded(digits)[2] = (IF Len(digits) >= 2 THEN digits[2] ELSE 0)
    BY <1>1 DEF Padded
  <1>4. Len(digits) >= 1 => digits[1] \in 0 .. 9
    BY <1>1
  <1>5. Len(digits) >= 2 => digits[2] \in 0 .. 9
    BY <1>1
  <1> DEFINE first == IF Len(digits) >= 1 THEN digits[1] ELSE 0
             second == IF Len(digits) >= 2 THEN digits[2] ELSE 0
  <1>6. first \in 0 .. 9 /\ second \in 0 .. 9
    BY <1>4, <1>5
  <1>7. ToCents(text) = text.whole * 100 + first * 10 + second
    BY <1>2, <1>3 DEF ToCents
  <1>8. Worth(text) = text.whole * 100 + first * 10 + second
    BY <1>1, <1>6 DEF Worth
  <1>9. text.whole \in 0 .. MaxWhole
    BY <1>1
  <1> HIDE DEF first, second
  <1> QED
    BY <1>6, <1>7, <1>8, <1>9, AmountsAssumption, SMT DEF MaxCents

\* A stored amount reads back as itself.
LEMMA StoredReadsBack ==
  ASSUME NEW cents \in 0 .. MaxCents
  PROVE  FromCents(cents) \in MoneyText /\ ToCents(FromCents(cents)) = cents
  <1> DEFINE whole == cents \div 100
             tens == (cents % 100) \div 10
             ones == cents % 10
  <1>1. whole \in 0 .. MaxWhole
    BY AmountsAssumption, SMT DEF MaxCents
  <1>2. tens \in 0 .. 9 /\ ones \in 0 .. 9
    OBVIOUS
  <1>3. cents = whole * 100 + tens * 10 + ones
    OBVIOUS
  <1>4. <<tens, ones>> \in Seq(0 .. 9) /\ Len(<<tens, ones>>) = 2
    BY <1>2
  <1>5. FromCents(cents) = [whole |-> whole, frac |-> <<tens, ones>>]
    BY DEF FromCents
  <1>6. FromCents(cents) \in MoneyText
    BY <1>1, <1>4, <1>5 DEF MoneyText
  <1>7. Padded(<<tens, ones>>)[1] = tens /\ Padded(<<tens, ones>>)[2] = ones
    BY DEF Padded
  <1> HIDE DEF whole, tens, ones
  <1> QED
    BY <1>3, <1>5, <1>6, <1>7 DEF ToCents

-----------------------------------------------------------------------------
(* The pipeline's steps. *)

\* The price point is the first .99 at or above the amount.
LEMMA PricePoint ==
  ASSUME NEW cents \in Int
  PROVE  /\ RoundUpTo99(cents) \in cents .. cents + 99
         /\ RoundUpTo99(cents) % 100 = 99
  BY DEF RoundUpTo99

\* Rounding moves an amount by at most half a cent.
LEMMA RoundedIsNear ==
  ASSUME NEW n \in Int, NEW cents \in Rounded(n)
  PROVE  cents \in Int /\ cents * 10000 \in n - 5000 .. n + 5000
  BY DEF Rounded

\* What priceVendorRow answers follows the rule, for any row of any category.
LEMMA PricedByRule ==
  ASSUME NEW text \in VendorPrices, NEW row \in Categories, NEW cents \in PriceVendorRow(text, row)
  PROVE  cents \in 0 .. MaxCents /\ FollowsRule(cents, [price |-> text, category |-> row])
  <1> DEFINE vendor == ToCents(text)
             floor == ToCents(row.floor)
             ceiling == ToCents(row.ceiling)
             exact == vendor * (10000 + row.margin)
             q == [price |-> text, category |-> row]
  <1>1. text \in MoneyText /\ row.floor \in MoneyText /\ row.ceiling \in MoneyText /\ row.margin \in Int
    BY PricesAssumption, RequestsAssumption, AmountsAssumption DEF Category, Margins
  <1>2. vendor = Worth(text) /\ vendor \in 0 .. MaxCents
    BY <1>1, ParsedIsWorth
  <1>3. floor = Worth(row.floor) /\ floor \in 0 .. MaxCents
    BY <1>1, ParsedIsWorth
  <1>4. ceiling = Worth(row.ceiling) /\ ceiling \in 0 .. MaxCents
    BY <1>1, ParsedIsWorth
  <1>5. MaxCents \in Nat
    BY AmountsAssumption DEF MaxCents
  <1>6. exact \in Int
    BY <1>1, <1>2, <1>5
  <1>7. PICK c \in Rounded(exact) : cents = ClampCents(RoundUpTo99(c), floor, ceiling)
    BY DEF PriceVendorRow, CategoryPricing, WithMargin
  <1>8. c \in Int /\ c * 10000 \in exact - 5000 .. exact + 5000
    BY <1>6, RoundedIsNear
  <1> DEFINE point == RoundUpTo99(c)
  <1>9. point \in c .. c + 99 /\ point % 100 = 99
    BY <1>8, PricePoint
  <1>10. /\ cents \in 0 .. ceiling
         /\ cents < ceiling => cents >= floor /\ cents >= point
         /\ cents \notin {floor, ceiling} => cents = point
    <2>1. floor \in Nat /\ ceiling \in Nat /\ point \in Int
      BY <1>3, <1>4, <1>5, <1>8, <1>9
    <2>2. cents = ClampCents(point, floor, ceiling)
      BY <1>7
    <2> HIDE DEF floor, ceiling, point
    <2> QED
      BY <2>1, <2>2, SMT DEF ClampCents, AtLeast, AtMost
  <1> HIDE DEF vendor, floor, ceiling, exact, point
  <1>11. cents \in 0 .. MaxCents
    BY <1>4, <1>5, <1>10
  <1>12. cents < ceiling => cents * 10000 + 5000 >= exact
    BY <1>4, <1>5, <1>6, <1>8, <1>9, <1>10, SMT
  <1>13. cents \notin {floor, ceiling} => (cents - 100) * 10000 < exact
    BY <1>3, <1>4, <1>5, <1>6, <1>8, <1>9, <1>10, SMT
  <1>14. exact = Worth(q.price) * (10000 + q.category.margin)
    BY <1>2 DEF exact
  <1>15. Worth(q.category.floor) = floor /\ Worth(q.category.ceiling) = ceiling
    BY <1>3, <1>4
  <1>16. FollowsRule(cents, q)
    BY <1>4, <1>5, <1>9, <1>10, <1>12, <1>13, <1>14, <1>15 DEF FollowsRule, CoversMargin, NotTooDear
  <1> QED
    BY <1>11, <1>16

-----------------------------------------------------------------------------
(* Discounts. *)

\* A factor of at most 10000 scales down.
LEMMA Scaled ==
  ASSUME NEW cents \in Nat, NEW factor \in 0 .. 10000
  PROVE  cents * factor \in 0 .. cents * 10000
  BY SMT

BasisPoints == 0 .. 10000

Off(cents, points) == cents * (10000 - points)

\* A valid percentage leaves between nothing and all of the price, and both
\* sides compute the same cent.
LEMMA Percentage ==
  ASSUME NEW cents \in Nat, NEW points \in BasisPoints
  PROVE  /\ RoundedHalfAway(Off(cents, points)) \in 0 .. cents
         /\ PercentageOffCents(cents, points) = RoundedHalfAway(Off(cents, points))
  <1> DEFINE n == Off(cents, points)
  <1>1. 10000 - points \in 0 .. 10000
    BY DEF BasisPoints
  <1>2. n \in 0 .. cents * 10000
    BY <1>1, Scaled DEF Off, BasisPoints
  <1>3. PercentageOffCents(cents, points) = (n + 5000) \div 10000
    BY DEF PercentageOffCents, Off
  <1> HIDE DEF n
  <1>4. RoundedHalfAway(n) = (n + 5000) \div 10000
    BY <1>2, SMT DEF RoundedHalfAway
  <1>5. (n + 5000) \div 10000 \in 0 .. cents
    BY <1>2, SMT
  <1> QED
    BY <1>3, <1>4, <1>5 DEF n

-----------------------------------------------------------------------------
(* The specification. *)

Valid == \A p \in promotions : ValidDiscount(p)

PricingInv == PricingTypeOK /\ PriceFollowsRule /\ Valid

\* A created product has a stored price and no vendor row.
LEMMA PricingInitInv == PricingInit => PricingInv
  <1> SUFFICES ASSUME PricingInit PROVE PricingInv
    OBVIOUS
  <1>1. PICK text \in BasePrices : base = Column(text)
    BY DEF PricingInit
  <1>2. ToCents(text) \in 0 .. MaxCents
    BY PricesAssumption, ParsedIsWorth
  <1>3. base \in MoneyText
    BY <1>1, <1>2, StoredReadsBack DEF Column
  <1> QED
    BY <1>3 DEF PricingInit, PricingInv, PricingTypeOK, PriceFollowsRule, Valid

\* A step stores a price that follows the rule, or leaves the price alone.
LEMMA PricingStepInv == PricingInv /\ [PricingNext]_pricingVars => PricingInv'
  <1> SUFFICES ASSUME PricingInv, [PricingNext]_pricingVars PROVE PricingInv'
    OBVIOUS
  <1> USE DEF PricingInv
  <1>1. CASE Ingest
    <2>1. PICK text \in VendorPrices, row \in Categories :
             \E cents \in PriceVendorRow(text, row) :
                base' = FromCents(cents) /\ quote' = {[price |-> text, category |-> row]}
      BY <1>1 DEF Ingest
    <2> DEFINE q == [price |-> text, category |-> row]
    <2>2. PICK cents \in PriceVendorRow(text, row) : base' = FromCents(cents) /\ quote' = {q}
      BY <2>1
    <2>3. cents \in 0 .. MaxCents /\ FollowsRule(cents, q)
      BY PricedByRule
    <2>4. base' \in MoneyText /\ ToCents(base') = cents
      BY <2>2, <2>3, StoredReadsBack
    <2>5. Worth(base') = cents
      BY <2>4, ParsedIsWorth
    <2>6. PriceFollowsRule'
      BY <2>2, <2>3, <2>5 DEF PriceFollowsRule
    <2>7. PricingTypeOK' /\ Valid'
      BY <1>1, <2>2, <2>4 DEF Ingest, PricingTypeOK, Valid
    <2> QED
      BY <2>6, <2>7
  <1>2. CASE Promote
    BY <1>2 DEF Promote, PricingTypeOK, PriceFollowsRule, Valid
  <1>3. CASE Cancel
    BY <1>3 DEF Cancel, PricingTypeOK, PriceFollowsRule, Valid
  <1>4. CASE UNCHANGED pricingVars
    BY <1>4 DEF pricingVars, PricingTypeOK, PriceFollowsRule, Valid
  <1> QED
    BY <1>1, <1>2, <1>3, <1>4 DEF PricingNext

\* PricingInv holds of every reachable state.
LEMMA PricingInvariance == PricingSpec => []PricingInv
  BY PricingInitInv, PricingStepInv, PTL DEF PricingSpec

\* What PricingInv says of one live promotion.
LEMMA Discounted ==
  ASSUME PricingInv, NEW p \in promotions
  PROVE  EffectivePrice(base, p) \in 0 .. Worth(base) /\ DiscountedPrice(base, p) = EffectivePrice(base, p)
  <1> DEFINE cents == ToCents(base)
             value == ToCents(p.value)
  <1>1. base \in MoneyText /\ p \in Promotion /\ ValidDiscount(p)
    BY RequestsAssumption DEF PricingInv, PricingTypeOK, Valid
  <1>2. MaxCents \in Nat
    BY AmountsAssumption DEF MaxCents
  <1>3. cents = Worth(base) /\ cents \in Nat
    BY <1>1, <1>2, ParsedIsWorth
  <1>4. value \in Nat
    BY <1>1, <1>2, ParsedIsWorth DEF Promotion
  <1>5. CASE p.type = "percentage"
    <2>1. value <= 10000
      BY <1>1, <1>5 DEF ValidDiscount
    <2>2. EffectivePrice(base, p) = RoundedHalfAway(Off(cents, value))
      BY <1>5 DEF EffectivePrice, Off
    <2>3. DiscountedPrice(base, p) = PercentageOffCents(cents, value)
      BY <1>5 DEF DiscountedPrice
    <2> HIDE DEF value, cents
    <2>4. value \in BasisPoints
      BY <1>4, <2>1 DEF BasisPoints
    <2>5. /\ RoundedHalfAway(Off(cents, value)) \in 0 .. cents
          /\ PercentageOffCents(cents, value) = RoundedHalfAway(Off(cents, value))
      BY <1>3, <2>4, Percentage
    <2> QED
      BY <1>3, <2>2, <2>3, <2>5
  <1>6. CASE p.type # "percentage"
    <2>1. EffectivePrice(base, p) = AtLeast(cents - value, 0) /\ DiscountedPrice(base, p) = AtLeast(cents - value, 0)
      BY <1>6 DEF EffectivePrice, DiscountedPrice
    <2> HIDE DEF value, cents
    <2> QED
      BY <1>3, <1>4, <2>1 DEF AtLeast
  <1> QED
    BY <1>5, <1>6

-----------------------------------------------------------------------------
(* The theorems. *)

\* The stored price is always a money text.
THEOREM PricesTyped == PricingSpec => []PricingTypeOK
  BY PricingInvariance, PTL DEF PricingInv

\* Every price that comes from a vendor row follows the category's rule, for
\* every vendor price and every margin, floor and ceiling (priceVendorRow).
THEOREM PricesFollowTheRule == PricingSpec => []PriceFollowsRule
  BY PricingInvariance, PTL DEF PricingInv

\* No live promotion makes a price negative or dearer (PromotionService.create,
\* effectivePriceExpr).
THEOREM DiscountsInRange == PricingSpec => []DiscountInRange
  <1>1. PricingInv => DiscountInRange
    BY Discounted DEF DiscountInRange
  <1> QED
    BY <1>1, PricingInvariance, PTL

\* The client's cent is the database's cent, for every base price and every
\* discount the API accepts (discountedPrice, effectivePriceExpr).
THEOREM ClientAlwaysAgrees == PricingSpec => []ClientAgrees
  <1>1. PricingInv => ClientAgrees
    BY Discounted DEF ClientAgrees
  <1> QED
    BY <1>1, PricingInvariance, PTL
=============================================================================
