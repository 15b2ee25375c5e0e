-------------------------- MODULE ConversationProofs --------------------------
(* The safety properties of Conversations, for any contacts, messages, users,   *)
(* handlers and faults.  CountIsExact is inductive once a message is known not   *)
(* to be stored more often than faults allow; ClaimHolds needs that the openings *)
(* of an uncontested conversation exclude each other, OverloadHasACause that a   *)
(* user who was picked still has room.                                           *)
EXTENDS Conversations, FiniteSetTheorems, TLAPS

\* A handler is about a message, and only that of a new conversation assigns it.
Busy(h) == handler[h].pc # "idle"
HandlersAreSound ==
    \A h \in Handlers : /\ Busy(h) => handler[h].of \in Messages
                        /\ ~Busy(h) => handler[h] = Free
                        /\ Assigning(h) => handler[h].isNew
                        /\ handler[h].pc = "settle" => handler[h].best \in Users

\* Handlers of a message whose webhook is not answered, and those that have yet to store it.
Live(m) == {h \in Handlers : handler[h].of = m /\ Busy(h) /\ ~Assigning(h)}
Unstored(m) == {h \in Live(m) : handler[h].pc \in {"find", "create", "store"}}

\* A message is handled once, and once more for each fault.
HandledOnce ==
    \A m \in Messages :
      rows[m] + Cardinality(Unstored(m))
        <= faults + (IF Live(m) # {} \/ m \in answered THEN 1 ELSE 0)

TypeInv == TypeOK /\ HandlersAreSound /\ HandledOnce

-------------------------------------------------------------------------------

\* Openings of an uncontested conversation exclude each other, and there is none while
\* somebody who was told that his claim succeeded has it.
Openers(c) == {h \in Handlers : Opens(h, c)}
Claimers(c) == {u \in Users : Claims(u, c)}
OneOpening(c) ==
    /\ \A g, h \in Openers(c) : g = h
    /\ \A u, v \in Claimers(c) : u = v
    /\ Openers(c) = {} \/ Claimers(c) = {}
ToldAlone(c) ==
    told[c] # {} => /\ Openers(c) = {} /\ Claimers(c) = {}
                    /\ status[c] = "active" /\ told[c] = {assignedTo[c]}

ClaimInv == \A c \in Contacts \ contested : OneOpening(c) /\ ToldAlone(c)

-------------------------------------------------------------------------------

\* Without a crowd one handler assigns at a time, and whom it has picked has room.
LoadInv ==
    \/ crowded
    \/ /\ \A g, h \in Handlers : Assigning(g) /\ Assigning(h) => g = h
       /\ \A u \in Users \ byHand : Load(u) <= MaxConcurrent
       /\ \A h \in Handlers : handler[h].pc = "settle" /\ handler[h].best \notin byHand
            => Load(handler[h].best) < MaxConcurrent

IInv == TypeInv /\ CountIsExact /\ ClaimInv /\ LoadInv

-------------------------------------------------------------------------------
(* Handlers *)

LEMMA FreeFields ==
    Free \in Handling /\ Free.pc = "idle" /\ Free.of = NoMessage /\ Free.isNew = FALSE
BY DEF Handling, Free, Steps

LEMMA StepFields ==
    \A r \in Handling, step \in Steps :
      LET moved == [r EXCEPT !.pc = step]
      IN  /\ moved \in Handling /\ moved.pc = step /\ moved.of = r.of
          /\ moved.isNew = r.isNew /\ moved.best = r.best
BY DEF Handling, Steps

LEMMA FindFields ==
    ASSUME NEW m \in Messages
    PROVE  LET new == [Free EXCEPT !.pc = "find", !.of = m]
           IN  new \in Handling /\ new.pc = "find" /\ new.of = m /\ new.isNew = FALSE
BY DEF Handling, Free, Steps

LEMMA CreateFields ==
    \A r \in Handling :
      LET moved == [r EXCEPT !.pc = "store", !.isNew = TRUE]
      IN  moved \in Handling /\ moved.pc = "store" /\ moved.of = r.of /\ moved.isNew = TRUE
BY DEF Handling, Steps

LEMMA SettleFields ==
    \A r \in Handling, u \in Users :
      LET moved == [r EXCEPT !.pc = "settle", !.best = u]
      IN  /\ moved \in Handling /\ moved.pc = "settle" /\ moved.of = r.of
          /\ moved.isNew = r.isNew /\ moved.best = u
BY DEF Handling, Steps

LEMMA Typed ==
    ASSUME TypeOK
    PROVE  /\ handler \in [Handlers -> Handling]
           /\ \A h \in Handlers : handler[h] \in Handling /\ handler[h].isNew \in BOOLEAN
<1>1. handler \in [Handlers -> Handling]
  BY DEF TypeOK
<1> QED
  BY <1>1 DEF Handling

LEMMA Becomes ==
    ASSUME TypeOK, NEW h \in Handlers, NEW r \in Handling, handler' = [handler EXCEPT ![h] = r]
    PROVE  /\ handler' \in [Handlers -> Handling] /\ handler'[h] = r
           /\ \A g \in Handlers \ {h} : handler'[g] = handler[g]
BY Typed

LEMMA GoesOn ==
    ASSUME TypeOK, NEW h \in Handlers, NEW step \in Steps, GoOn(h, step)
    PROVE  /\ handler' \in [Handlers -> Handling]
           /\ handler'[h].pc = step /\ handler'[h].of = handler[h].of
           /\ handler'[h].isNew = handler[h].isNew /\ handler'[h].best = handler[h].best
           /\ \A g \in Handlers \ {h} : handler'[g] = handler[g]
<1> DEFINE moved == [handler[h] EXCEPT !.pc = step]
<1>1. /\ moved \in Handling /\ moved.pc = step /\ moved.of = handler[h].of
      /\ moved.isNew = handler[h].isNew /\ moved.best = handler[h].best
  BY StepFields, Typed
<1>2. handler' = [handler EXCEPT ![h] = moved]
  BY DEF GoOn
<1> HIDE DEF moved
<1> QED
  BY <1>1, <1>2, Becomes

LEMMA DeliverStep ==
    ASSUME TypeOK, NEW h \in Handlers, NEW m \in Messages, Deliver(h, m)
    PROVE  /\ handler' \in [Handlers -> Handling]
           /\ handler'[h].pc = "find" /\ handler'[h].of = m /\ ~handler'[h].isNew
           /\ \A g \in Handlers \ {h} : handler'[g] = handler[g]
<1> DEFINE new == [Free EXCEPT !.pc = "find", !.of = m]
<1>1. new \in Handling /\ new.pc = "find" /\ new.of = m /\ ~new.isNew
  BY FindFields
<1>2. handler' = [handler EXCEPT ![h] = new]
  BY DEF Deliver
<1> HIDE DEF new
<1> QED
  BY <1>1, <1>2, Becomes

LEMMA CreateStep ==
    ASSUME TypeOK, NEW h \in Handlers, Create(h)
    PROVE  /\ handler' \in [Handlers -> Handling]
           /\ handler'[h].pc = "store" /\ handler'[h].of = handler[h].of /\ handler'[h].isNew
           /\ \A g \in Handlers \ {h} : handler'[g] = handler[g]
<1> DEFINE moved == [handler[h] EXCEPT !.pc = "store", !.isNew = TRUE]
<1>1. moved \in Handling /\ moved.pc = "store" /\ moved.of = handler[h].of /\ moved.isNew
  BY CreateFields, Typed
<1>2. handler' = [handler EXCEPT ![h] = moved]
  BY DEF Create
<1> HIDE DEF moved
<1> QED
  BY <1>1, <1>2, Becomes

\* The end of a webhook: on to the auto-assignment of a new conversation, or free.
LEMMA FinishStep ==
    ASSUME TypeOK, NEW h \in Handlers, Finish(h)
    PROVE  /\ handler' \in [Handlers -> Handling]
           /\ \A g \in Handlers \ {h} : handler'[g] = handler[g]
           /\ \/ /\ handler[h].isNew /\ handler'[h].pc = "loads"
                 /\ handler'[h].of = handler[h].of /\ handler'[h].isNew = handler[h].isNew
                 /\ crowded' = (crowded \/ \E g \in Handlers : Assigning(g))
              \/ /\ ~handler[h].isNew /\ handler'[h] = Free /\ crowded' = crowded
<1>1. CASE handler[h].isNew
  BY <1>1, GoesOn DEF Finish, Steps
<1>2. CASE ~handler[h].isNew
  BY <1>2, Becomes, FreeFields DEF Finish
<1> QED
  BY <1>1, <1>2

LEMMA CountLoadsStep ==
    ASSUME TypeOK, NEW h \in Handlers, CountLoads(h)
    PROVE  /\ handler' \in [Handlers -> Handling]
           /\ \A g \in Handlers \ {h} : handler'[g] = handler[g]
           /\ \/ handler'[h] = Free
              \/ /\ handler'[h].pc = "settle" /\ handler'[h].of = handler[h].of
                 /\ handler'[h].isNew = handler[h].isNew /\ handler'[h].best \in LeastLoaded
<1>1. LeastLoaded \subseteq Users
  BY ConstantsAssumption DEF LeastLoaded, Open
<1>2. CASE handler' = [handler EXCEPT ![h] = Free]
  BY <1>2, Becomes, FreeFields
<1>3. ASSUME NEW u \in LeastLoaded, handler' = [handler EXCEPT ![h].pc = "settle", ![h].best = u]
      PROVE  /\ handler' \in [Handlers -> Handling]
             /\ \A g \in Handlers \ {h} : handler'[g] = handler[g]
             /\ handler'[h].pc = "settle" /\ handler'[h].of = handler[h].of
             /\ handler'[h].isNew = handler[h].isNew /\ handler'[h].best = u
  <2> DEFINE moved == [handler[h] EXCEPT !.pc = "settle", !.best = u]
  <2>1. /\ moved \in Handling /\ moved.pc = "settle" /\ moved.of = handler[h].of
        /\ moved.isNew = handler[h].isNew /\ moved.best = u
    BY <1>1, SettleFields, Typed
  <2>2. handler' = [handler EXCEPT ![h] = moved]
    BY <1>3
  <2> HIDE DEF moved
  <2> QED
    BY <2>1, <2>2, Becomes
<1> QED
  BY <1>2, <1>3 DEF CountLoads

LEMMA AutoAssignStep ==
    ASSUME TypeOK, NEW h \in Handlers, AutoAssign(h)
    PROVE  /\ handler' \in [Handlers -> Handling] /\ handler'[h] = Free
           /\ \A g \in Handlers \ {h} : handler'[g] = handler[g]
BY Becomes, FreeFields DEF AutoAssign

LEMMA CrashStep ==
    ASSUME Crash
    PROVE  /\ handler' \in [Handlers -> Handling]
           /\ \A h \in Handlers : handler'[h] = Free
           /\ \A u \in Users : request'[u] = Nothing
BY FreeFields DEF Crash

\* What is so of the handlers after any step of one of them.
LEMMA SoundStep ==
    ASSUME TypeOK, HandlersAreSound, NEW h \in Handlers,
           Webhook(h) \/ \E m \in Messages : Deliver(h, m)
    PROVE  /\ handler' \in [Handlers -> Handling]
           /\ \A g \in Handlers \ {h} : handler'[g] = handler[g]
           /\ HandlersAreSound'
<1> USE FreeFields
<1>1. /\ Busy(h) => handler[h].of \in Messages
      /\ Assigning(h) => handler[h].isNew
      /\ \A r \in {Free} : r.pc = "idle"
  BY DEF HandlersAreSound
<1>2. ASSUME \A g \in Handlers \ {h} : handler'[g] = handler[g],
             \/ handler'[h] = Free
             \/ /\ handler'[h].pc \in {"find", "create", "store", "count", "answer"}
                /\ handler'[h].of \in Messages
             \/ /\ handler'[h].pc \in {"loads", "settle"} /\ handler'[h].isNew
                /\ handler'[h].of \in Messages
                /\ handler'[h].pc = "settle" => handler'[h].best \in Users
      PROVE  HandlersAreSound'
  BY <1>2 DEF HandlersAreSound, Busy, Assigning
<1>3. CASE \E m \in Messages : Deliver(h, m)
  BY <1>2, <1>3, DeliverStep
<1>4. CASE Find(h)
  <2>1. handler[h].pc = "find"
    BY <1>4 DEF Find
  <2>2. \E step \in {"create", "store"} : GoOn(h, step)
    BY <1>4 DEF Find
  <2> QED
    BY <1>1, <1>2, <2>1, <2>2, GoesOn DEF Busy, Steps
<1>5. CASE Create(h)
  BY <1>1, <1>2, <1>5, CreateStep DEF Create, Busy
<1>6. CASE Store(h) \/ Count(h)
  <2>1. Busy(h)
    BY <1>6 DEF Store, Count, Busy
  <2>2. \E step \in {"count", "answer"} : GoOn(h, step)
    BY <1>6 DEF Store, Count
  <2> QED
    BY <1>1, <1>2, <2>1, <2>2, GoesOn DEF Steps
<1>7. CASE Answer(h) \/ LoseAnswer(h)
  <2>1. Busy(h) /\ Finish(h)
    BY <1>7 DEF Answer, LoseAnswer, Busy
  <2> QED
    BY <1>1, <1>2, <2>1, FinishStep
<1>8. CASE CountLoads(h)
  <2>1. Busy(h) /\ Assigning(h)
    BY <1>8 DEF CountLoads, Busy, Assigning
  <2>2. LeastLoaded \subseteq Users
    BY ConstantsAssumption DEF LeastLoaded, Open
  <2> QED
    BY <1>1, <1>2, <1>8, <2>1, <2>2, CountLoadsStep
<1>9. CASE AutoAssign(h)
  BY <1>2, <1>9, AutoAssignStep
<1> QED
  BY <1>3, <1>4, <1>5, <1>6, <1>7, <1>8, <1>9 DEF Webhook

-------------------------------------------------------------------------------
(* How often a message is stored *)

LEMMA Finite ==
    /\ \A S \in SUBSET Handlers : IsFiniteSet(S) /\ Cardinality(S) \in Nat
    /\ \A S \in SUBSET Contacts : IsFiniteSet(S) /\ Cardinality(S) \in Nat
<1>1. ASSUME NEW T, IsFiniteSet(T), NEW S \in SUBSET T
      PROVE  IsFiniteSet(S) /\ Cardinality(S) \in Nat
  BY <1>1, FS_Subset, FS_CardinalityType
<1> QED
  BY <1>1, ConstantsAssumption

LEMMA SameSet ==
    ASSUME NEW S, NEW T, NEW h, S \ {h} = T \ {h}
    PROVE  /\ (h \in S <=> h \in T) => S = T
           /\ h \in S /\ h \notin T => S = T \cup {h}
           /\ h \notin S /\ h \in T => S = T \ {h}
<1>1. \A g : g # h => (g \in S <=> g \in T)
  <2> TAKE g
  <2>1. g \in S \ {h} <=> g \in T \ {h}
    OBVIOUS
  <2> QED
    BY <2>1
<1> QED
  BY <1>1

LEMMA LiveMoves ==
    ASSUME NEW h \in Handlers, \A g \in Handlers \ {h} : handler'[g] = handler[g], NEW m \in Messages
    PROVE  /\ (h \in Live(m)' <=> h \in Live(m)) => Live(m)' = Live(m)
           /\ (h \in Unstored(m)' <=> h \in Unstored(m)) => Unstored(m)' = Unstored(m)
           /\ h \in Unstored(m)' /\ h \notin Unstored(m) => Unstored(m)' = Unstored(m) \cup {h}
           /\ h \notin Unstored(m)' /\ h \in Unstored(m) => Unstored(m)' = Unstored(m) \ {h}
<1>1. Live(m)' \ {h} = Live(m) \ {h} /\ Unstored(m)' \ {h} = Unstored(m) \ {h}
  BY DEF Live, Unstored, Busy, Assigning
<1> QED
  BY <1>1, SameSet

LEMMA LiveIs ==
    ASSUME NEW h \in Handlers, NEW m \in Messages
    PROVE  /\ h \in Live(m) <=> handler[h].of = m /\ Busy(h) /\ ~Assigning(h)
           /\ h \in Unstored(m) <=> handler[h].of = m /\ handler[h].pc \in {"find", "create", "store"}
           /\ h \in Live(m)' <=> handler'[h].of = m /\ Busy(h)' /\ ~Assigning(h)'
           /\ h \in Unstored(m)' <=> handler'[h].of = m /\ handler'[h].pc \in {"find", "create", "store"}
BY DEF Live, Unstored, Busy, Assigning

\* Of one message at a time.
Handled1(m) == rows[m] + Cardinality(Unstored(m))
                 <= faults + (IF Live(m) # {} \/ m \in answered THEN 1 ELSE 0)

LEMMA HandledNumbers ==
    ASSUME TypeOK, NEW m \in Messages
    PROVE  /\ rows[m] \in Nat /\ faults \in Nat
           /\ Cardinality(Unstored(m)) \in Nat /\ IsFiniteSet(Unstored(m))
           /\ \A h \in Handlers :
                /\ Cardinality(Unstored(m) \cup {h}) <= Cardinality(Unstored(m)) + 1
                /\ h \in Unstored(m) => Cardinality(Unstored(m) \ {h}) + 1 = Cardinality(Unstored(m))
<1>1. Unstored(m) \in SUBSET Handlers
  BY DEF Unstored, Live
<1>2. IsFiniteSet(Unstored(m)) /\ Cardinality(Unstored(m)) \in Nat
  BY <1>1, Finite
<1>3. \A h \in Handlers :
        /\ Cardinality(Unstored(m) \cup {h}) <= Cardinality(Unstored(m)) + 1
        /\ h \in Unstored(m) => Cardinality(Unstored(m) \ {h}) + 1 = Cardinality(Unstored(m))
  BY <1>2, FS_AddElement, FS_RemoveElement
<1>4. rows[m] \in Nat /\ faults \in Nat
  BY ConstantsAssumption DEF TypeOK
<1> QED
  BY <1>2, <1>3, <1>4

\* A step that neither delivers nor stores nor answers.
LEMMA HandledKept ==
    ASSUME TypeOK, HandledOnce,
           UNCHANGED <<rows, answered>>, faults' \in {faults, faults + 1},
           \A m \in Messages : Live(m)' = Live(m) /\ Unstored(m)' = Unstored(m)
    PROVE  HandledOnce'
<1>1. ASSUME NEW m \in Messages PROVE Handled1(m)'
  BY HandledNumbers DEF HandledOnce, Handled1
<1> QED
  BY <1>1 DEF HandledOnce, Handled1

LEMMA HandledStep ==
    ASSUME TypeOK, HandlersAreSound, HandledOnce, NEW h \in Handlers,
           Webhook(h) \/ \E m \in Messages : Deliver(h, m)
    PROVE  HandledOnce'
<1> USE FreeFields
<1>1. /\ handler' \in [Handlers -> Handling]
      /\ \A g \in Handlers \ {h} : handler'[g] = handler[g]
  BY SoundStep
<1>2. NoMessage \notin Messages /\ MaxFaults \in Nat
  BY ConstantsAssumption
<1>3. ASSUME UNCHANGED <<rows, answered>>, faults' \in {faults, faults + 1},
             \A m \in Messages : /\ h \in Live(m)' <=> h \in Live(m)
                                 /\ h \in Unstored(m)' <=> h \in Unstored(m)
      PROVE  HandledOnce'
  <2>1. ASSUME NEW m \in Messages PROVE Live(m)' = Live(m) /\ Unstored(m)' = Unstored(m)
    BY <1>1, <1>3, LiveMoves
  <2> QED
    BY <1>3, <2>1, HandledKept
<1>4. ASSUME NEW m \in Messages, Deliver(h, m) PROVE HandledOnce'
  <2>1. /\ handler[h].pc = "idle" /\ m \notin answered /\ UNCHANGED <<rows, answered>>
        /\ IF \E g \in Handlers : handler[g].of = m /\ ~Assigning(g) THEN Fault ELSE faults' = faults
    BY <1>4 DEF Deliver, dataVars
  <2>2. handler'[h].pc = "find" /\ handler'[h].of = m
    BY <1>4, DeliverStep
  <2>3. (\E g \in Handlers : handler[g].of = m /\ ~Assigning(g)) <=> Live(m) # {}
    BY <1>2 DEF Live, HandlersAreSound, Busy
  <2>4. ASSUME NEW n \in Messages, n # m PROVE Handled1(n)'
    <3>1. Live(n)' = Live(n) /\ Unstored(n)' = Unstored(n)
      BY <1>1, <2>1, <2>2, <2>4, LiveIs, LiveMoves DEF Busy
    <3>2. faults' \in {faults, faults + 1} /\ faults \in Nat
      BY <2>1, ConstantsAssumption DEF Fault, TypeOK
    <3>3. /\ rows[n] \in Nat /\ Cardinality(Unstored(n)) \in Nat
      BY HandledNumbers
    <3>4. Handled1(n)
      BY DEF HandledOnce, Handled1
    <3>5. rows'[n] = rows[n] /\ Cardinality(Unstored(n))' = Cardinality(Unstored(n)) /\ answered' = answered
      BY <2>1, <3>1
    <3>6. CASE Live(n) # {} \/ n \in answered
      BY <3>1, <3>2, <3>3, <3>4, <3>5, <3>6 DEF Handled1
    <3>7. CASE ~(Live(n) # {} \/ n \in answered)
      BY <3>1, <3>2, <3>3, <3>4, <3>5, <3>7 DEF Handled1
    <3> QED
      BY <3>6, <3>7
  <2>5. Handled1(m)'
    <3>1. Unstored(m)' = Unstored(m) \cup {h} /\ Live(m)' # {}
      BY <1>1, <2>2, LiveIs, LiveMoves DEF Busy, Assigning
    <3>2. /\ Cardinality(Unstored(m)') <= Cardinality(Unstored(m)) + 1
          /\ Cardinality(Unstored(m)) \in Nat /\ rows[m] \in Nat /\ faults \in Nat
      BY <3>1, HandledNumbers
    <3>3. Cardinality(Unstored(m)') \in Nat
      <4>1. Unstored(m)' \in SUBSET Handlers
        BY DEF Unstored, Live
      <4> QED
        BY <4>1, Finite
    <3>4. Handled1(m)
      BY DEF HandledOnce, Handled1
    <3>5. CASE Live(m) # {}
      <4>1. faults' = faults + 1
        BY <2>1, <2>3, <3>5 DEF Fault
      <4> QED
        BY <2>1, <3>1, <3>2, <3>3, <3>4, <3>5, <4>1 DEF Handled1
    <3>6. CASE Live(m) = {}
      <4>1. faults' = faults
        BY <2>1, <2>3, <3>6
      <4> QED
        BY <2>1, <3>1, <3>2, <3>3, <3>4, <3>6, <4>1 DEF Handled1
    <3> QED
      BY <3>5, <3>6
  <2> QED
    BY <2>4, <2>5 DEF HandledOnce, Handled1
<1>5. CASE Store(h)
  <2>1. handler[h].pc = "store" /\ GoOn(h, "count") /\ UNCHANGED <<answered, faults>>
    BY <1>5 DEF Store
  <2>2. PICK m \in Messages : m = handler[h].of
    BY <2>1 DEF HandlersAreSound, Busy
  <2>3. handler'[h].pc = "count" /\ handler'[h].of = m
    BY <2>1, <2>2, GoesOn DEF Steps
  <2>4. /\ rows'[m] = rows[m] + 1
        /\ \A n \in Messages \ {m} : rows'[n] = rows[n]
    BY <1>5, <2>2 DEF Store, TypeOK
  <2>5. ASSUME NEW n \in Messages, n # m PROVE Handled1(n)'
    <3>1. Live(n)' = Live(n) /\ Unstored(n)' = Unstored(n)
      BY <1>1, <2>2, <2>3, <2>5, LiveIs, LiveMoves
    <3> QED
      BY <2>1, <2>4, <2>5, <3>1 DEF HandledOnce, Handled1
  <2>6. Handled1(m)'
    <3>1. Live(m) # {} /\ Live(m)' = Live(m) /\ Unstored(m)' = Unstored(m) \ {h} /\ h \in Unstored(m)
      BY <1>1, <2>1, <2>2, <2>3, LiveIs, LiveMoves DEF Busy, Assigning
    <3>2. Cardinality(Unstored(m)') + 1 = Cardinality(Unstored(m)) /\ rows[m] \in Nat
      BY <3>1, HandledNumbers
    <3>3. Cardinality(Unstored(m)') \in Nat
      <4>1. Unstored(m)' \in SUBSET Handlers
        BY DEF Unstored, Live
      <4> QED
        BY <4>1, Finite
    <3>4. rows'[m] + Cardinality(Unstored(m)') = rows[m] + Cardinality(Unstored(m))
      BY <2>4, <3>2, <3>3
    <3>5. rows[m] + Cardinality(Unstored(m)) <= faults + 1
      BY <3>1 DEF HandledOnce
    <3> QED
      BY <2>1, <3>1, <3>4, <3>5 DEF Handled1
  <2> QED
    BY <2>5, <2>6 DEF HandledOnce, Handled1
<1>6. CASE Answer(h) \/ LoseAnswer(h)
  <2> DEFINE m == handler[h].of
  <2>1. /\ handler[h].pc = "answer" /\ Finish(h) /\ rows' = rows
        /\ \/ answered' = answered \cup {m} /\ faults' = faults
           \/ answered' = answered /\ faults' = faults + 1
    BY <1>6 DEF Answer, LoseAnswer, Fault, dataVars
  <2>2. handler'[h] = Free \/ (handler'[h].pc = "loads" /\ handler'[h].of = m)
    BY <2>1, FinishStep
  <2> HIDE DEF m
  <2>3. ASSUME NEW n \in Messages PROVE Handled1(n)'
    <3>1. Unstored(n)' = Unstored(n) /\ (n # m => Live(n)' = Live(n))
      BY <1>1, <1>2, <2>1, <2>2, <2>3, LiveIs, LiveMoves DEF m, Assigning
    <3>2. /\ rows[n] \in Nat /\ Cardinality(Unstored(n)) \in Nat /\ faults \in Nat
      BY HandledNumbers
    <3>3. Handled1(n)
      BY DEF HandledOnce, Handled1
    <3>4. rows[n] + Cardinality(Unstored(n)) <= faults + 1
      BY <3>2, <3>3 DEF Handled1
    <3>5. rows'[n] + Cardinality(Unstored(n))' = rows[n] + Cardinality(Unstored(n))
      BY <2>1, <3>1
    <3>6. CASE answered' = answered \cup {m} /\ faults' = faults
      <4>1. n = m => n \in answered'
        BY <3>6
      <4>2. CASE n = m
        BY <3>4, <3>5, <3>6, <4>1, <4>2 DEF Handled1
      <4>3. CASE n # m
        BY <3>1, <3>3, <3>5, <3>6, <4>3 DEF Handled1
      <4> QED
        BY <4>2, <4>3
    <3>7. CASE answered' = answered /\ faults' = faults + 1
      <4>1. rows'[n] + Cardinality(Unstored(n))' <= faults'
        BY <3>4, <3>5, <3>7
      <4>2. /\ rows'[n] + Cardinality(Unstored(n))' \in Nat /\ faults' \in Nat
        BY <3>2, <3>5, <3>7
      <4> QED
        BY <4>1, <4>2 DEF Handled1
    <3> QED
      BY <2>1, <3>6, <3>7
  <2> QED
    BY <2>3 DEF HandledOnce, Handled1
<1>7. CASE Find(h)
  <2>1. /\ handler[h].pc = "find" /\ UNCHANGED <<rows, answered, faults>>
        /\ handler'[h].pc \in {"create", "store"} /\ handler'[h].of = handler[h].of
    BY <1>7, GoesOn DEF Find, Steps, dataVars
  <2> QED
    BY <1>1, <1>3, <2>1, LiveIs, LiveMoves DEF Busy, Assigning
<1>8. CASE Create(h)
  <2>1. /\ handler[h].pc = "create" /\ UNCHANGED <<rows, answered, faults>>
        /\ handler'[h].pc = "store" /\ handler'[h].of = handler[h].of
    BY <1>8, CreateStep DEF Create
  <2> QED
    BY <1>1, <1>3, <2>1, LiveIs, LiveMoves DEF Busy, Assigning
<1>9. CASE Count(h)
  <2>1. /\ handler[h].pc = "count" /\ UNCHANGED <<rows, answered, faults>>
        /\ handler'[h].pc = "answer" /\ handler'[h].of = handler[h].of
    BY <1>9, GoesOn DEF Count, Steps
  <2> QED
    BY <1>1, <1>3, <2>1, LiveIs, LiveMoves DEF Busy, Assigning
<1>10. CASE CountLoads(h) \/ AutoAssign(h)
  <2>1. /\ Assigning(h) /\ UNCHANGED <<rows, answered>> /\ faults' \in {faults, faults + 1}
        /\ handler[h].pc \in {"loads", "settle"}
        /\ handler'[h] = Free \/ handler'[h].pc = "settle"
    BY <1>10, CountLoadsStep, AutoAssignStep DEF CountLoads, AutoAssign, Fault, Assigning, dataVars
  <2> QED
    BY <1>1, <1>3, <2>1, LiveIs, LiveMoves DEF Busy, Assigning
<1> QED
  BY <1>4, <1>5, <1>6, <1>7, <1>8, <1>9, <1>10 DEF Webhook

LEMMA HandledUpdate ==
    ASSUME HandledOnce, UNCHANGED <<handler, rows, answered, faults>>
    PROVE  HandlersAreSound => HandlersAreSound' /\ HandledOnce'
BY DEF HandledOnce, HandlersAreSound, Live, Unstored, Busy, Assigning

LEMMA HandledCrash ==
    ASSUME TypeOK, HandledOnce, Crash
    PROVE  HandlersAreSound' /\ HandledOnce'
<1>1. \A h \in Handlers : handler'[h] = Free
  BY CrashStep
<1>2. HandlersAreSound'
  BY <1>1, FreeFields DEF HandlersAreSound, Busy, Assigning
<1>3. ASSUME NEW m \in Messages PROVE Handled1(m)'
  <2>1. Live(m)' = {} /\ Unstored(m)' = {}
    BY <1>1, FreeFields DEF Live, Unstored, Busy
  <2>2. Cardinality(Unstored(m)') = 0
    BY <2>1, FS_EmptySet
  <2>3. /\ rows[m] \in Nat /\ Cardinality(Unstored(m)) \in Nat /\ faults \in Nat
    BY HandledNumbers
  <2>4. rows' = rows /\ faults' = faults + 1
    BY DEF Crash, Fault, dataVars
  <2>5. rows[m] <= faults + 1
    BY <2>3 DEF HandledOnce
  <2> QED
    BY <2>2, <2>3, <2>4, <2>5 DEF Handled1
<1> QED
  BY <1>2, <1>3 DEF HandledOnce, Handled1

-------------------------------------------------------------------------------
(* Types *)

LEMMA ContactType ==
    ASSUME HandlersAreSound
    PROVE  \A h \in Handlers : Busy(h) => handler[h].of \in Messages /\ Contact(h) \in Contacts
BY ConstantsAssumption DEF HandlersAreSound, Contact

LEMMA FaultType == ASSUME TypeOK, Fault PROVE faults' \in 0..MaxFaults
BY ConstantsAssumption DEF TypeOK, Fault

LEMMA DeliverTypes ==
    ASSUME TypeInv, NEW h \in Handlers, NEW m \in Messages, Deliver(h, m)
    PROVE  TypeOK'
<1>1. handler' \in [Handlers -> Handling]
  BY SoundStep DEF TypeInv
<1>2. faults' \in 0..MaxFaults
  BY FaultType DEF Deliver, TypeInv, TypeOK
<1>3. contested' \subseteq Contacts
  BY ConstantsAssumption DEF Deliver, Contest, TypeInv, TypeOK
<1> QED
  BY <1>1, <1>2, <1>3 DEF Deliver, TypeInv, TypeOK, dataVars

LEMMA StoredOften ==
    ASSUME TypeInv, NEW h \in Handlers, handler[h].pc \in {"find", "create", "store"}
    PROVE  handler[h].of \in Messages /\ rows[handler[h].of] + 1 \in 0..(1 + MaxFaults)
<1>1. PICK m \in Messages : m = handler[h].of
  BY DEF TypeInv, HandlersAreSound, Busy
<1>2. h \in Unstored(m)
  BY <1>1, LiveIs
<1>3. /\ rows[m] \in Nat /\ Cardinality(Unstored(m)) \in Nat /\ faults \in Nat
      /\ Cardinality(Unstored(m)) # 0
  BY <1>2, HandledNumbers, FS_EmptySet DEF TypeInv
<1>4. rows[m] + Cardinality(Unstored(m)) <= faults + 1 /\ faults <= MaxFaults /\ MaxFaults \in Nat
  BY <1>3, ConstantsAssumption DEF TypeInv, HandledOnce, TypeOK
<1> QED
  BY <1>1, <1>3, <1>4

LEMMA WebhookTypes ==
    ASSUME TypeInv, NEW h \in Handlers, Webhook(h)
    PROVE  TypeOK'
<1> USE DEF dataVars, historyVars
<1>1. handler' \in [Handlers -> Handling] /\ TypeOK
  BY SoundStep DEF TypeInv
<1>2. Busy(h) => Contact(h) \in Contacts /\ handler[h].of \in Messages
  BY ContactType DEF TypeInv
<1>3. CASE Find(h)
  BY <1>1, <1>3 DEF Find, TypeOK
<1>4. CASE Create(h)
  BY <1>1, <1>2, <1>4 DEF Create, TypeOK, Busy, Statuses
<1>5. CASE Store(h)
  BY <1>1, <1>2, <1>5, StoredOften DEF Store, TypeOK, Busy
<1>6. CASE Count(h)
  BY <1>1, <1>2, <1>6 DEF Count, TypeOK, Busy
<1>7. CASE Answer(h)
  <2>1. crowded' \in BOOLEAN
    BY <1>1, <1>7 DEF Answer, Finish, TypeOK
  <2> QED
    BY <1>1, <1>2, <1>7, <2>1 DEF Answer, TypeOK, Busy
<1>8. CASE LoseAnswer(h)
  <2>1. crowded' \in BOOLEAN
    BY <1>1, <1>8 DEF LoseAnswer, Finish, TypeOK
  <2> QED
    BY <1>1, <1>8, <2>1, FaultType DEF LoseAnswer, TypeOK
<1>9. CASE CountLoads(h)
  BY <1>1, <1>2, <1>9, FaultType DEF CountLoads, TypeOK, Busy
<1>10. CASE AutoAssign(h)
  <2>1. handler[h].best \in Users \cup {NoUser}
    BY <1>1, Typed DEF Handling
  <2> QED
    BY <1>1, <1>2, <1>10, <2>1 DEF AutoAssign, TypeOK, Busy, Statuses
<1> QED
  BY <1>3, <1>4, <1>5, <1>6, <1>7, <1>8, <1>9, <1>10 DEF Webhook

LEMMA CrashTypes ==
    ASSUME TypeInv, Crash
    PROVE  TypeOK'
<1>1. handler' \in [Handlers -> Handling] /\ TypeOK
  BY CrashStep DEF TypeInv
<1>2. \A c \in Contacts : Cardinality({h \in Handlers : handler[h].pc = "count" /\ Contact(h) = c}) \in Nat
  BY Finite
<1>3. uncounted' \in [Contacts -> Nat]
  BY <1>1, <1>2 DEF Crash, TypeOK
<1>4. request' \in [Users -> Asking]
  BY DEF Crash, Asking, Nothing
<1> QED
  BY <1>1, <1>3, <1>4, FaultType DEF Crash, TypeOK, dataVars

\* Claims and updates, and what any of them leaves alone.
AskStep == \/ \E u \in Users, c \in Handled : AskClaim(u, c)
           \/ \E u \in Users, c \in Handled, kind \in {"close", "unassign", "reassign"},
                 v \in Users \cup {NoUser} : AskUpdate(u, kind, c, v)
UserStep == \E u \in Users : Claim(u) \/ Update(u)

LEMMA AskTypes ==
    ASSUME TypeInv, AskStep
    PROVE  TypeOK' /\ UNCHANGED <<dataVars, answered, handler, faults, told, byHand, crowded, uncounted>>
<1>1. PICK u \in Users, kind \in {"claim", "close", "unassign", "reassign"}, c \in Handled,
           v \in Users \cup {NoUser} : Ask(u, kind, c, v) /\ (contested' = contested \/ Contest(c))
  BY DEF AskStep, AskClaim, AskUpdate
<1>2. c \in Contacts /\ MaxAsked \in Nat
  BY ConstantsAssumption
<1>3. [kind |-> kind, of |-> c, to |-> v] \in Asking
  BY <1>2 DEF Asking
<1>4. request' \in [Users -> Asking]
  BY <1>1, <1>3 DEF Ask, TypeInv, TypeOK
<1>5. asked' \in 0..MaxAsked
  BY <1>1, <1>2 DEF Ask, TypeInv, TypeOK
<1>6. contested' \subseteq Contacts
  BY <1>1, <1>2 DEF Contest, TypeInv, TypeOK
<1> QED
  BY <1>1, <1>4, <1>5, <1>6 DEF Ask, TypeInv, TypeOK, dataVars

LEMMA UserTypes ==
    ASSUME TypeInv, UserStep
    PROVE  /\ TypeOK'
           /\ UNCHANGED <<rows, count, answered, handler, faults, asked, contested, crowded, uncounted>>
<1>1. PICK u \in Users : Claim(u) \/ Update(u)
  BY DEF UserStep
<1>2. TypeOK /\ request[u] \in Asking /\ Nothing \in Asking
  BY DEF TypeInv, TypeOK, Asking, Nothing
<1>3. request' \in [Users -> Asking]
  BY <1>1, <1>2 DEF Claim, Update, TypeOK
<1>4. CASE Claim(u)
  <2>1. status' \in [Contacts -> Statuses]
    BY <1>2, <1>4 DEF Claim, TypeOK, Statuses
  <2>2. assignedTo' \in [Contacts -> Users \cup {NoUser}]
    BY <1>2, <1>4 DEF Claim, TypeOK
  <2>3. told' \in [Contacts -> SUBSET Users]
    BY <1>2, <1>4 DEF Claim, TypeOK
  <2> QED
    BY <1>2, <1>3, <1>4, <2>1, <2>2, <2>3 DEF Claim, TypeOK
<1>5. CASE Update(u)
  <2>1. request[u].to \in Users \cup {NoUser}
    BY <1>2 DEF Asking
  <2>2. status' \in [Contacts -> Statuses]
    BY <1>2, <1>5 DEF Update, TypeOK, Statuses
  <2>3. assignedTo' \in [Contacts -> Users \cup {NoUser}]
    BY <1>2, <1>5, <2>1 DEF Update, TypeOK
  <2>4. told' \in [Contacts -> SUBSET Users]
    BY <1>2, <1>5 DEF Update, TypeOK
  <2>5. byHand' \subseteq Users
    BY <1>2, <1>5, <2>1 DEF Update, TypeOK
  <2> QED
    BY <1>2, <1>3, <1>5, <2>2, <2>3, <2>4, <2>5 DEF Update, TypeOK
<1> QED
  BY <1>1, <1>4, <1>5

LEMMA TypesStep ==
    ASSUME TypeInv, [Next]_vars
    PROVE  TypeInv'
<1>1. ASSUME NEW h \in Handlers, Webhook(h) \/ \E m \in Messages : Deliver(h, m)
      PROVE  TypeInv'
  BY <1>1, SoundStep, HandledStep, DeliverTypes, WebhookTypes DEF TypeInv
<1>2. CASE Crash
  BY <1>2, CrashTypes, HandledCrash DEF TypeInv
<1>3. CASE AskStep
  BY <1>3, AskTypes, HandledUpdate DEF TypeInv, dataVars
<1>4. CASE UserStep
  BY <1>4, UserTypes, HandledUpdate DEF TypeInv
<1>5. CASE UNCHANGED vars
  BY <1>5, HandledUpdate DEF TypeInv, TypeOK, vars, dataVars, historyVars
<1> QED
  BY <1>1, <1>2, <1>3, <1>4, <1>5 DEF Next, AskStep, UserStep

LEMMA TypesInit ==
    ASSUME Init
    PROVE  TypeInv
<1>1. TypeOK
  <2>1. 0 \in 0..(1 + MaxFaults) /\ 0 \in 0..MaxFaults /\ 0 \in 0..MaxAsked
    BY ConstantsAssumption
  <2>2. request \in [Users -> Asking]
    BY DEF Init, Asking, Nothing
  <2>3. handler \in [Handlers -> Handling]
    BY FreeFields DEF Init
  <2> QED
    BY <2>1, <2>2, <2>3 DEF Init, TypeOK, Statuses
<1>2. \A h \in Handlers : handler[h] = Free
  BY DEF Init
<1>3. HandlersAreSound
  BY <1>2, FreeFields DEF HandlersAreSound, Busy, Assigning
<1>4. ASSUME NEW m \in Messages PROVE Handled1(m)
  <2>1. Live(m) = {} /\ Unstored(m) = {}
    BY <1>2, FreeFields DEF Live, Unstored, Busy
  <2>2. Cardinality(Unstored(m)) = 0
    BY <2>1, FS_EmptySet
  <2> QED
    BY <2>1, <2>2 DEF Init, Handled1
<1> QED
  BY <1>1, <1>3, <1>4 DEF TypeInv, HandledOnce, Handled1

-------------------------------------------------------------------------------
(* The count of a conversation *)

LEMMA CountNumbers ==
    ASSUME TypeOK, NEW c \in Contacts
    PROVE  /\ count[c] \in Nat /\ uncounted[c] \in Nat
           /\ IsFiniteSet(RowsOf(c)) /\ Cardinality(RowsOf(c)) \in Nat
           /\ IsFiniteSet(Uncounting(c)) /\ Cardinality(Uncounting(c)) \in Nat
           /\ Cardinality(Uncounting(c)') \in Nat
<1>1. IsFiniteSet(Sent(c)) /\ IsFiniteSet(1..(1 + MaxFaults))
  BY FS_Subset, FS_Interval, ConstantsAssumption DEF Sent
<1>2. IsFiniteSet(RowsOf(c))
  BY <1>1, FS_Product, FS_Subset DEF RowsOf
<1>3. Uncounting(c) \in SUBSET Handlers /\ Uncounting(c)' \in SUBSET Handlers
  BY DEF Uncounting
<1> QED
  BY <1>2, <1>3, Finite, FS_CardinalityType DEF TypeOK

LEMMA UncountingMoves ==
    ASSUME NEW h \in Handlers, \A g \in Handlers \ {h} : handler'[g] = handler[g], NEW c \in Contacts
    PROVE  /\ (h \in Uncounting(c)' <=> h \in Uncounting(c)) => Uncounting(c)' = Uncounting(c)
           /\ h \in Uncounting(c)' /\ h \notin Uncounting(c) => Uncounting(c)' = Uncounting(c) \cup {h}
           /\ h \notin Uncounting(c)' /\ h \in Uncounting(c) => Uncounting(c)' = Uncounting(c) \ {h}
<1>1. Uncounting(c)' \ {h} = Uncounting(c) \ {h}
  BY DEF Uncounting, Contact
<1> QED
  BY <1>1, SameSet

\* Of one contact at a time.
Exact(c) == count[c] + Cardinality(Uncounting(c)) + uncounted[c] = Cardinality(RowsOf(c))

LEMMA ExactKept ==
    ASSUME CountIsExact, NEW c \in Contacts, Uncounting(c)' = Uncounting(c),
           count'[c] = count[c], uncounted'[c] = uncounted[c], rows' = rows
    PROVE  Exact(c)'
BY DEF CountIsExact, Exact, RowsOf, Sent

LEMMA StoreCounts ==
    ASSUME TypeInv, CountIsExact, NEW h \in Handlers, Store(h), NEW c \in Contacts
    PROVE  Exact(c)'
<1>1. PICK m \in Messages : m = handler[h].of
  BY DEF Store, TypeInv, HandlersAreSound, Busy
<1>2. /\ handler[h].pc = "store" /\ handler'[h].pc = "count" /\ handler'[h].of = m
      /\ \A g \in Handlers \ {h} : handler'[g] = handler[g]
  BY <1>1, GoesOn DEF Store, TypeInv, Steps
<1>3. rows[m] \in Nat /\ rows[m] + 1 \in 1..(1 + MaxFaults)
  BY <1>1, <1>2, StoredOften, ConstantsAssumption DEF TypeInv, TypeOK
<1>4. rows'[m] = rows[m] + 1 /\ \A n \in Messages \ {m} : rows'[n] = rows[n]
  BY <1>1 DEF Store, TypeInv, TypeOK
<1>5. count' = count /\ uncounted' = uncounted
  BY DEF Store, historyVars
<1>6. CASE From[m] = c
  <2>1. Uncounting(c)' = Uncounting(c) \cup {h} /\ h \notin Uncounting(c)
    BY <1>1, <1>2, <1>6, UncountingMoves DEF Uncounting, Contact
  <2> DEFINE row == <<m, rows[m] + 1>>
  <2>2. row \in Sent(c) \X (1..(1 + MaxFaults))
    BY <1>3, <1>6 DEF Sent
  <2>3. row \notin RowsOf(c)
    BY <1>3 DEF RowsOf
  <2>4. ASSUME NEW r \in Sent(c) \X (1..(1 + MaxFaults))
        PROVE  r[2] <= rows'[r[1]] <=> r[2] <= rows[r[1]] \/ r = row
    <3>1. PICK n \in Sent(c), i \in 1..(1 + MaxFaults) : r = <<n, i>>
      OBVIOUS
    <3>2. rows[n] \in Nat /\ n \in Messages /\ i \in Nat
      BY ConstantsAssumption DEF TypeInv, TypeOK, Sent
    <3>3. CASE n = m
      BY <1>3, <1>4, <3>1, <3>2, <3>3
    <3>4. CASE n # m
      BY <1>4, <3>1, <3>2, <3>4
    <3> QED
      BY <3>3, <3>4
  <2>5. RowsOf(c)' = RowsOf(c) \cup {row}
    BY <2>2, <2>4 DEF RowsOf, Sent
  <2> HIDE DEF row
  <2>6. Cardinality(RowsOf(c)') = Cardinality(RowsOf(c)) + 1
    BY <2>3, <2>5, CountNumbers, FS_AddElement DEF TypeInv
  <2>7. Cardinality(Uncounting(c)') = Cardinality(Uncounting(c)) + 1
    BY <2>1, CountNumbers, FS_AddElement DEF TypeInv
  <2> QED
    BY <1>5, <2>6, <2>7, CountNumbers DEF CountIsExact, Exact, TypeInv
<1>7. CASE From[m] # c
  <2>1. Uncounting(c)' = Uncounting(c)
    BY <1>1, <1>2, <1>7, UncountingMoves DEF Uncounting, Contact
  <2>2. \A r \in Sent(c) \X (1..(1 + MaxFaults)) : rows'[r[1]] = rows[r[1]]
    BY <1>4, <1>7 DEF Sent
  <2>3. RowsOf(c)' = RowsOf(c)
    BY <2>2 DEF RowsOf, Sent
  <2> QED
    BY <1>5, <2>1, <2>3 DEF CountIsExact, Exact
<1> QED
  BY <1>6, <1>7

LEMMA CountCounts ==
    ASSUME TypeInv, CountIsExact, NEW h \in Handlers, Count(h), NEW c \in Contacts
    PROVE  Exact(c)'
<1>1. /\ handler[h].pc = "count" /\ handler'[h].pc = "answer" /\ Contact(h) \in Contacts
      /\ \A g \in Handlers \ {h} : handler'[g] = handler[g]
  BY GoesOn, ContactType DEF Count, TypeInv, Steps, Busy
<1>2. rows' = rows /\ uncounted' = uncounted
  BY DEF Count, historyVars
<1>3. CASE Contact(h) = c
  <2>1. Uncounting(c)' = Uncounting(c) \ {h} /\ h \in Uncounting(c)
    BY <1>1, <1>3, UncountingMoves DEF Uncounting
  <2>2. Cardinality(Uncounting(c)') = Cardinality(Uncounting(c)) - 1
    BY <2>1, CountNumbers, FS_RemoveElement DEF TypeInv
  <2>3. count'[c] = count[c] + 1
    BY <1>3 DEF Count, TypeInv, TypeOK
  <2>4. RowsOf(c)' = RowsOf(c)
    BY <1>2 DEF RowsOf, Sent
  <2> QED
    BY <1>2, <2>2, <2>3, <2>4, CountNumbers DEF CountIsExact, Exact, TypeInv
<1>4. CASE Contact(h) # c
  <2>1. Uncounting(c)' = Uncounting(c)
    BY <1>1, <1>4, UncountingMoves DEF Uncounting
  <2>2. count'[c] = count[c]
    BY <1>1, <1>4 DEF Count, TypeInv, TypeOK
  <2> QED
    BY <1>2, <2>1, <2>2, ExactKept
<1> QED
  BY <1>3, <1>4

LEMMA CrashCounts ==
    ASSUME TypeInv, CountIsExact, Crash, NEW c \in Contacts
    PROVE  Exact(c)'
<1>1. Uncounting(c)' = {}
  BY CrashStep, FreeFields DEF Uncounting
<1>2. Cardinality(Uncounting(c)') = 0
  BY <1>1, FS_EmptySet
<1>3. uncounted'[c] = uncounted[c] + Cardinality(Uncounting(c)) /\ count' = count /\ rows' = rows
  BY DEF Crash, Uncounting, dataVars
<1>4. RowsOf(c)' = RowsOf(c)
  BY <1>3 DEF RowsOf, Sent
<1> QED
  BY <1>2, <1>3, <1>4, CountNumbers DEF CountIsExact, Exact, TypeInv

\* The other steps of a handler touch neither the counts nor the handlers that count.
LEMMA OtherCounts ==
    ASSUME TypeInv, CountIsExact, NEW h \in Handlers,
           Webhook(h) \/ \E m \in Messages : Deliver(h, m),
           ~Store(h), ~Count(h), NEW c \in Contacts
    PROVE  Exact(c)'
<1> USE DEF dataVars, historyVars
<1>1. rows' = rows /\ count' = count /\ uncounted' = uncounted
  BY DEF Webhook, Deliver, Find, Create, Answer, LoseAnswer, CountLoads, AutoAssign
<1>2. handler[h].pc # "count"
  BY DEF Webhook, Deliver, Find, Create, Answer, LoseAnswer, CountLoads, AutoAssign
<1>3. handler'[h].pc # "count"
  <2>1. CASE \E m \in Messages : Deliver(h, m)
    BY <2>1, DeliverStep DEF TypeInv
  <2>2. CASE Find(h)
    <3>1. \E step \in {"create", "store"} : GoOn(h, step)
      BY <2>2 DEF Find
    <3> QED
      BY <3>1, GoesOn DEF TypeInv, Steps
  <2>3. CASE Create(h)
    BY <2>3, CreateStep DEF TypeInv
  <2>4. CASE Answer(h) \/ LoseAnswer(h)
    BY <2>4, FinishStep, FreeFields DEF Answer, LoseAnswer, TypeInv
  <2>5. CASE CountLoads(h) \/ AutoAssign(h)
    BY <2>5, CountLoadsStep, AutoAssignStep, FreeFields DEF TypeInv
  <2> QED
    BY <2>1, <2>2, <2>3, <2>4, <2>5 DEF Webhook
<1>4. Uncounting(c)' = Uncounting(c)
  BY <1>2, <1>3, SoundStep, UncountingMoves DEF Uncounting, TypeInv
<1> QED
  BY <1>1, <1>4, ExactKept

LEMMA CountStep ==
    ASSUME TypeInv, CountIsExact, [Next]_vars
    PROVE  CountIsExact'
<1> SUFFICES ASSUME NEW c \in Contacts PROVE Exact(c)'
  BY DEF CountIsExact, Exact
<1>1. ASSUME NEW h \in Handlers, Webhook(h) \/ \E m \in Messages : Deliver(h, m)
      PROVE  Exact(c)'
  BY <1>1, StoreCounts, CountCounts, OtherCounts
<1>2. CASE Crash
  BY <1>2, CrashCounts
<1>3. CASE AskStep \/ UserStep \/ UNCHANGED vars
  <2>1. rows' = rows /\ count' = count /\ uncounted' = uncounted /\ handler' = handler
    BY <1>3, AskTypes, UserTypes DEF vars, dataVars, historyVars
  <2>2. Uncounting(c)' = Uncounting(c)
    BY <2>1 DEF Uncounting, Contact
  <2> QED
    BY <2>1, <2>2, ExactKept
<1> QED
  BY <1>1, <1>2, <1>3 DEF Next, AskStep, UserStep

LEMMA CountInit ==
    ASSUME Init
    PROVE  CountIsExact
<1> SUFFICES ASSUME NEW c \in Contacts PROVE Exact(c)
  BY DEF CountIsExact, Exact
<1>1. Uncounting(c) = {}
  BY FreeFields DEF Init, Uncounting
<1>2. RowsOf(c) = {}
  BY DEF Init, RowsOf, Sent
<1> QED
  BY <1>1, <1>2, FS_EmptySet DEF Init, Exact

-------------------------------------------------------------------------------
(* Claims *)

LEMMA ClaimKept ==
    ASSUME NEW c \in Contacts, OneOpening(c), ToldAlone(c),
           Openers(c)' \subseteq Openers(c), Claimers(c)' \subseteq Claimers(c),
           \/ told'[c] = {}
           \/ told'[c] = told[c] /\ status'[c] = status[c] /\ assignedTo'[c] = assignedTo[c]
    PROVE  OneOpening(c)' /\ ToldAlone(c)'
BY DEF OneOpening, ToldAlone

\* Nobody's conversation ceases to exist, so that an opening by status only ends.
LEMMA OpenersMove ==
    ASSUME NEW h \in Handlers, \A g \in Handlers \ {h} : handler'[g] = handler[g],
           NEW c \in Contacts, status'[c] = status[c] \/ status'[c] # "none",
           Opens(h, c)' => Opens(h, c)
    PROVE  Openers(c)' \subseteq Openers(c)
BY DEF Openers, Opens, Contact

LEMMA OpenersStay ==
    ASSUME NEW c \in Contacts, handler' = handler, status'[c] = status[c] \/ status'[c] # "none"
    PROVE  Openers(c)' \subseteq Openers(c)
BY DEF Openers, Opens, Contact

LEMMA DeliverClaims ==
    ASSUME TypeInv, NEW c \in Contacts \ contested', OneOpening(c), ToldAlone(c),
           NEW h \in Handlers, NEW m \in Messages, Deliver(h, m)
    PROVE  OneOpening(c)' /\ ToldAlone(c)'
<1>1. /\ handler[h].pc = "idle" /\ ~handler'[h].isNew /\ handler'[h].pc = "find" /\ handler'[h].of = m
      /\ \A g \in Handlers \ {h} : handler'[g] = handler[g]
  BY DeliverStep DEF Deliver, TypeInv
<1>2. UNCHANGED <<status, assignedTo, told, request>>
  BY DEF Deliver, dataVars
<1>3. Claimers(c)' = Claimers(c)
  BY <1>2 DEF Claimers, Claims
<1>4. CASE From[m] = c /\ status[c] = "none"
  <2>1. Contest(c)
    BY <1>4 DEF Deliver
  <2>2. Openers(c) = {} /\ Claimers(c) = {}
    BY <2>1 DEF Contest, Openers, Claimers
  <2>3. told[c] = {}
    BY <1>4 DEF ToldAlone
  <2>4. Openers(c)' \subseteq {h}
    BY <1>1, <1>2, <2>2 DEF Openers, Opens, Contact
  <2> QED
    BY <1>2, <1>3, <2>2, <2>3, <2>4 DEF OneOpening, ToldAlone
<1>5. CASE ~(From[m] = c /\ status[c] = "none")
  <2>1. ~Opens(h, c)'
    BY <1>1, <1>2, <1>5 DEF Opens, Contact
  <2>2. Openers(c)' \subseteq Openers(c)
    BY <1>1, <1>2, <2>1, OpenersMove
  <2> QED
    BY <1>2, <1>3, <2>2, ClaimKept
<1> QED
  BY <1>4, <1>5

LEMMA WebhookClaims ==
    ASSUME TypeInv, NEW c \in Contacts, OneOpening(c), ToldAlone(c), NEW h \in Handlers, Webhook(h)
    PROVE  OneOpening(c)' /\ ToldAlone(c)'
<1> USE FreeFields DEF dataVars, historyVars
<1>1. \A g \in Handlers \ {h} : handler'[g] = handler[g]
  BY SoundStep DEF TypeInv
<1>2. UNCHANGED <<told, request>>
  BY DEF Webhook, Find, Create, Store, Count, Answer, LoseAnswer, CountLoads, AutoAssign
<1>3. Claimers(c)' = Claimers(c)
  BY <1>2 DEF Claimers, Claims
<1>4. \/ Opens(h, c)
      \/ status'[c] = status[c] /\ assignedTo'[c] = assignedTo[c]
  <2>1. CASE Create(h)
    BY <2>1 DEF Create, TypeInv, TypeOK, Opens
  <2>2. CASE AutoAssign(h)
    <3>1. handler[h].pc = "settle" /\ handler[h].isNew
      BY <2>2 DEF AutoAssign, TypeInv, HandlersAreSound, Assigning
    <3>2. CASE Contact(h) = c
      BY <3>1, <3>2 DEF Opens
    <3>3. CASE Contact(h) # c
      BY <2>2, <3>3 DEF AutoAssign, TypeInv, TypeOK
    <3> QED
      BY <3>2, <3>3
  <2>3. CASE Find(h) \/ Store(h) \/ Count(h) \/ Answer(h) \/ LoseAnswer(h) \/ CountLoads(h)
    BY <2>3 DEF Find, Store, Count, Answer, LoseAnswer, CountLoads
  <2> QED
    BY <2>1, <2>2, <2>3 DEF Webhook
<1>5. status'[c] = status[c] \/ status'[c] # "none"
  BY DEF Webhook, Find, Create, Store, Count, Answer, LoseAnswer, CountLoads, AutoAssign, TypeInv, TypeOK
<1>6. Opens(h, c)' => Opens(h, c)
  <2>1. CASE Find(h)
    <3>1. CASE status[Contact(h)] = "none"
      BY <2>1, <3>1, GoesOn DEF Find, TypeInv, Steps, Opens, Contact
    <3>2. CASE status[Contact(h)] # "none"
      BY <2>1, <3>2, GoesOn DEF Find, TypeInv, Steps, Opens, Contact
    <3> QED
      BY <3>1, <3>2
  <2>2. CASE Create(h)
    BY <2>2, CreateStep DEF Create, TypeInv, Opens, Contact
  <2>3. CASE Store(h) \/ Count(h)
    <3>1. \E step \in {"count", "answer"} : GoOn(h, step)
      BY <2>3 DEF Store, Count
    <3> QED
      BY <1>4, <2>3, <3>1, GoesOn DEF Store, Count, TypeInv, Steps, Opens, Contact
  <2>4. CASE Answer(h) \/ LoseAnswer(h)
    BY <2>4, FinishStep DEF Answer, LoseAnswer, TypeInv, Opens, Contact
  <2>5. CASE CountLoads(h)
    BY <2>5, CountLoadsStep DEF CountLoads, TypeInv, Opens, Contact
  <2>6. CASE AutoAssign(h)
    BY <2>6, AutoAssignStep DEF TypeInv, Opens
  <2> QED
    BY <2>1, <2>2, <2>3, <2>4, <2>5, <2>6 DEF Webhook
<1>7. Openers(c)' \subseteq Openers(c)
  BY <1>1, <1>5, <1>6, OpenersMove
<1>8. Opens(h, c) => told[c] = {}
  BY DEF ToldAlone, Openers
<1> QED
  BY <1>2, <1>3, <1>4, <1>7, <1>8, ClaimKept

LEMMA AskClaims ==
    ASSUME TypeInv, NEW c \in Contacts \ contested', OneOpening(c), ToldAlone(c), AskStep
    PROVE  OneOpening(c)' /\ ToldAlone(c)'
<1>1. UNCHANGED <<status, assignedTo, told, handler>>
  BY AskTypes DEF dataVars
<1>2. Openers(c)' = Openers(c)
  BY <1>1 DEF Openers, Opens, Contact
<1>3. ASSUME NEW u \in Users, NEW kind, NEW d, NEW v, Ask(u, kind, d, v)
      PROVE  /\ \A w \in Users \ {u} : request'[w] = request[w]
             /\ request'[u].kind = kind /\ request'[u].of = d
  BY <1>3 DEF Ask, TypeInv, TypeOK
<1>4. ASSUME NEW u \in Users, AskClaim(u, c)
      PROVE  OneOpening(c)' /\ ToldAlone(c)'
  <2>1. Contest(c) /\ status[c] = "waiting" /\ Ask(u, "claim", c, u)
    BY <1>4 DEF AskClaim
  <2>2. Openers(c) = {} /\ Claimers(c) = {}
    BY <2>1 DEF Contest, Openers, Claimers
  <2>3. Claimers(c)' \subseteq {u}
    BY <1>3, <2>1, <2>2 DEF Claimers, Claims
  <2>4. told[c] = {}
    BY <2>1 DEF ToldAlone
  <2> QED
    BY <1>1, <1>2, <2>2, <2>3, <2>4 DEF OneOpening, ToldAlone
<1>5. ASSUME NEW u \in Users, NEW kind, NEW d, NEW v, Ask(u, kind, d, v), kind # "claim" \/ d # c
      PROVE  OneOpening(c)' /\ ToldAlone(c)'
  <2>1. Claimers(c)' \subseteq Claimers(c)
    BY <1>3, <1>5 DEF Claimers, Claims
  <2> QED
    BY <1>1, <1>2, <2>1, ClaimKept
<1>6. ASSUME NEW u \in Users, NEW d \in Handled, AskClaim(u, d)
      PROVE  OneOpening(c)' /\ ToldAlone(c)'
  BY <1>4, <1>5, <1>6 DEF AskClaim
<1>7. ASSUME NEW u \in Users, NEW d \in Handled, NEW kind \in {"close", "unassign", "reassign"},
             NEW v \in Users \cup {NoUser}, AskUpdate(u, kind, d, v)
      PROVE  OneOpening(c)' /\ ToldAlone(c)'
  BY <1>5, <1>7 DEF AskUpdate
<1> QED
  BY <1>6, <1>7 DEF AskStep

LEMMA UserClaims ==
    ASSUME TypeInv, NEW c \in Contacts, OneOpening(c), ToldAlone(c), UserStep
    PROVE  OneOpening(c)' /\ ToldAlone(c)'
<1>1. PICK u \in Users : Claim(u) \/ Update(u)
  BY DEF UserStep
<1>2. handler' = handler /\ request' = [request EXCEPT ![u] = Nothing]
  BY <1>1 DEF Claim, Update
<1>3. Claimers(c)' = Claimers(c) \ {u}
  BY <1>2 DEF Claimers, Claims, TypeInv, TypeOK, Nothing
<1>4. status'[c] = status[c] \/ status'[c] # "none"
  BY <1>1 DEF Claim, Update, TypeInv, TypeOK
<1>5. Openers(c)' \subseteq Openers(c)
  BY <1>2, <1>4, OpenersStay
<1>6. CASE request[u].of # c
  <2>1. told'[c] = told[c] /\ status'[c] = status[c] /\ assignedTo'[c] = assignedTo[c]
    BY <1>1, <1>6 DEF Claim, Update, TypeInv, TypeOK
  <2> QED
    BY <1>3, <1>5, <2>1, ClaimKept
<1>7. CASE request[u].of = c /\ Claim(u)
  <2>1. u \in Claimers(c)
    BY <1>7 DEF Claim, Claimers, Claims
  <2>2. told[c] = {} /\ Openers(c) = {} /\ Claimers(c)' = {}
    BY <1>3, <2>1 DEF OneOpening, ToldAlone
  <2>3. told'[c] = {u} /\ status'[c] = "active" /\ assignedTo'[c] = u
    BY <1>7, <2>2 DEF Claim, TypeInv, TypeOK
  <2> QED
    BY <1>5, <2>2, <2>3 DEF OneOpening, ToldAlone
<1>8. CASE request[u].of = c /\ Update(u)
  <2>1. told'[c] = {}
    BY <1>8 DEF Update, TypeInv, TypeOK
  <2> QED
    BY <1>3, <1>5, <2>1, ClaimKept
<1> QED
  BY <1>1, <1>6, <1>7, <1>8

LEMMA ContestedStays ==
    ASSUME [Next]_vars
    PROVE  contested \subseteq contested'
BY DEF Next, Webhook, Deliver, Find, Create, Store, Count, Answer, LoseAnswer, CountLoads, AutoAssign, Crash,
       AskClaim, AskUpdate, Claim, Update, Contest, vars, historyVars

LEMMA ClaimStep ==
    ASSUME TypeInv, ClaimInv, [Next]_vars
    PROVE  ClaimInv'
<1> SUFFICES ASSUME NEW c \in Contacts \ contested' PROVE OneOpening(c)' /\ ToldAlone(c)'
  BY DEF ClaimInv
<1>1. OneOpening(c) /\ ToldAlone(c)
  BY ContestedStays DEF ClaimInv
<1>2. ASSUME NEW h \in Handlers, Webhook(h) \/ \E m \in Messages : Deliver(h, m)
      PROVE  OneOpening(c)' /\ ToldAlone(c)'
  BY <1>1, <1>2, DeliverClaims, WebhookClaims
<1>3. CASE Crash
  <2>1. Openers(c)' = {} /\ Claimers(c)' = {}
    BY <1>3, CrashStep, FreeFields DEF Openers, Opens, Claimers, Claims, Nothing
  <2>2. UNCHANGED <<status, assignedTo, told>>
    BY <1>3 DEF Crash, dataVars
  <2> QED
    BY <1>1, <2>1, <2>2, ClaimKept
<1>4. CASE AskStep \/ UserStep
  BY <1>1, <1>4, AskClaims, UserClaims
<1>5. CASE UNCHANGED vars
  BY <1>1, <1>5 DEF OneOpening, ToldAlone, Openers, Opens, Contact, Claimers, Claims, vars, dataVars, historyVars
<1> QED
  BY <1>2, <1>3, <1>4, <1>5 DEF Next, AskStep, UserStep

LEMMA ClaimInit ==
    ASSUME Init
    PROVE  ClaimInv
BY FreeFields DEF Init, ClaimInv, OneOpening, ToldAlone, Openers, Opens, Claimers, Claims, Nothing

-------------------------------------------------------------------------------
(* Loads *)

Has(u, c) == status[c] = "active" /\ assignedTo[c] = u

LEMMA LoadNumbers ==
    ASSUME NEW u
    PROVE  Load(u) \in Nat /\ Load(u)' \in Nat /\ MaxConcurrent \in Nat
<1>1. {c \in Contacts : status[c] = "active" /\ assignedTo[c] = u} \in SUBSET Contacts
  OBVIOUS
<1>2. {c \in Contacts : status'[c] = "active" /\ assignedTo'[c] = u} \in SUBSET Contacts
  OBVIOUS
<1> QED
  BY <1>1, <1>2, Finite, ConstantsAssumption DEF Load

LEMMA LoadShrinks ==
    ASSUME NEW u, \A c \in Contacts : Has(u, c)' => Has(u, c)
    PROVE  Load(u)' <= Load(u)
<1> DEFINE now == {c \in Contacts : status[c] = "active" /\ assignedTo[c] = u}
           then == {c \in Contacts : status'[c] = "active" /\ assignedTo'[c] = u}
<1>1. IsFiniteSet(now) /\ then \subseteq now
  BY Finite DEF Has
<1>2. Cardinality(then) <= Cardinality(now)
  BY <1>1, FS_Subset
<1> QED
  BY <1>2 DEF Load

LEMMA LoadGrows ==
    ASSUME NEW u, NEW c \in Contacts, \A d \in Contacts \ {c} : Has(u, d)' => Has(u, d)
    PROVE  Load(u)' <= Load(u) + 1
<1> DEFINE now == {d \in Contacts : status[d] = "active" /\ assignedTo[d] = u}
           then == {d \in Contacts : status'[d] = "active" /\ assignedTo'[d] = u}
<1>1. IsFiniteSet(now) /\ IsFiniteSet(now \cup {c}) /\ then \subseteq now \cup {c}
  BY Finite, FS_AddElement DEF Has
<1>2. Cardinality(then) <= Cardinality(now \cup {c})
  BY <1>1, FS_Subset
<1>3. Cardinality(now \cup {c}) <= Cardinality(now) + 1 /\ Cardinality(now) \in Nat
  BY <1>1, FS_AddElement, FS_CardinalityType
<1>4. Cardinality(then) \in Nat /\ Cardinality(now \cup {c}) \in Nat
  BY <1>1, Finite, FS_CardinalityType
<1> HIDE DEF now, then
<1>5. Cardinality(then) <= Cardinality(now) + 1
  BY <1>2, <1>3, <1>4
<1> QED
  BY <1>5 DEF Load, now, then

\* A step that lets nobody assign and gives nobody a conversation but by hand.
LEMMA LoadKept ==
    ASSUME TypeInv, TypeInv', LoadInv, crowded' = crowded, byHand \subseteq byHand',
           \A g \in Handlers : Assigning(g)' => Assigning(g),
           \A g \in Handlers : handler'[g].pc = "settle"
             => handler[g].pc = "settle" /\ handler'[g].best = handler[g].best,
           \A u \in Users \ byHand' : Load(u)' <= Load(u)
    PROVE  LoadInv'
<1>1. CASE crowded
  BY <1>1 DEF LoadInv
<1>2. CASE ~crowded
  <2>1. /\ \A g, h \in Handlers : Assigning(g) /\ Assigning(h) => g = h
        /\ \A u \in Users \ byHand : Load(u) <= MaxConcurrent
        /\ \A h \in Handlers : handler[h].pc = "settle" /\ handler[h].best \notin byHand
             => Load(handler[h].best) < MaxConcurrent
    BY <1>2 DEF LoadInv
  <2>2. \A g, h \in Handlers : Assigning(g)' /\ Assigning(h)' => g = h
    BY <2>1
  <2>3. ASSUME NEW u \in Users \ byHand' PROVE Load(u)' <= MaxConcurrent
    <3>1. Load(u)' <= Load(u) /\ Load(u) <= MaxConcurrent
      BY <2>1
    <3> QED
      BY <3>1, LoadNumbers
  <2>4. ASSUME NEW h \in Handlers, NEW u, handler'[h].pc = "settle", handler'[h].best = u, u \notin byHand'
        PROVE  Load(u)' < MaxConcurrent
    <3>1. handler[h].pc = "settle" /\ handler[h].best = u /\ u \in Users \ byHand'
      BY <2>4 DEF TypeInv, HandlersAreSound
    <3>2. Load(u)' <= Load(u) /\ Load(u) < MaxConcurrent
      BY <2>1, <3>1
    <3> QED
      BY <3>2, LoadNumbers
  <2>5. ASSUME NEW h \in Handlers, handler'[h].pc = "settle", handler'[h].best \notin byHand'
        PROVE  Load(handler[h].best)' < MaxConcurrent
    BY <2>4, <2>5
  <2> QED
    BY <2>2, <2>3, <2>5 DEF LoadInv
<1> QED
  BY <1>1, <1>2

LEMMA SameLoads ==
    ASSUME status' = status, assignedTo' = assignedTo
    PROVE  \A u : Load(u)' = Load(u)
BY DEF Load

\* The end of a webhook overlaps no auto-assignment, or is noted.
LEMMA FinishLoads ==
    ASSUME TypeInv, TypeInv', LoadInv, NEW h \in Handlers, Finish(h), handler[h].pc = "answer",
           UNCHANGED <<status, assignedTo, byHand>>
    PROVE  LoadInv'
<1>1. \A u : Load(u)' = Load(u)
  BY SameLoads
<1>2. \A g \in Handlers \ {h} : handler'[g] = handler[g]
  BY FinishStep DEF TypeInv
<1>3. CASE handler'[h] = Free /\ crowded' = crowded
  <2>1. \A g \in Handlers : Assigning(g)' => Assigning(g)
    BY <1>2, <1>3, FreeFields DEF Assigning
  <2>2. \A g \in Handlers : handler'[g].pc = "settle"
          => handler[g].pc = "settle" /\ handler'[g].best = handler[g].best
    BY <1>2, <1>3, FreeFields
  <2> QED
    BY <1>1, <1>3, <2>1, <2>2, LoadKept, LoadNumbers
<1>4. CASE handler'[h].pc = "loads" /\ crowded' = (crowded \/ \E g \in Handlers : Assigning(g))
  <2>1. CASE crowded \/ \E g \in Handlers : Assigning(g)
    BY <1>4, <2>1 DEF LoadInv
  <2>2. CASE ~crowded /\ ~ \E g \in Handlers : Assigning(g)
    <3>1. \A g \in Handlers : Assigning(g)' => g = h
      BY <1>2, <2>2 DEF Assigning
    <3>2. \A g \in Handlers : handler'[g].pc # "settle"
      BY <1>2, <1>4, <2>2 DEF Assigning
    <3>3. \A u \in Users \ byHand' : Load(u)' <= MaxConcurrent
      BY <1>1, <2>2 DEF LoadInv
    <3> QED
      BY <3>1, <3>2, <3>3 DEF LoadInv
  <2> QED
    BY <2>1, <2>2
<1> QED
  BY <1>3, <1>4, FinishStep DEF TypeInv

LEMMA CountLoadsLoads ==
    ASSUME TypeInv, TypeInv', LoadInv, NEW h \in Handlers, CountLoads(h)
    PROVE  LoadInv'
<1>1. /\ handler[h].pc = "loads" /\ \A g \in Handlers \ {h} : handler'[g] = handler[g]
      /\ \/ handler'[h] = Free
         \/ handler'[h].pc = "settle" /\ handler'[h].best \in LeastLoaded
      /\ UNCHANGED <<status, assignedTo, byHand, crowded>>
  BY CountLoadsStep DEF CountLoads, TypeInv, dataVars
<1>2. \A u : Load(u)' = Load(u)
  BY <1>1, SameLoads
<1>3. CASE crowded
  BY <1>1, <1>3 DEF LoadInv
<1>4. CASE ~crowded
  <2>1. \A g \in Handlers : Assigning(g)' => Assigning(g)
    BY <1>1 DEF Assigning
  <2>2. \A g, k \in Handlers : Assigning(g)' /\ Assigning(k)' => g = k
    BY <1>4, <2>1 DEF LoadInv
  <2>3. \A u \in Users \ byHand' : Load(u)' <= MaxConcurrent
    BY <1>1, <1>2, <1>4 DEF LoadInv
  <2>4. ASSUME NEW k \in Handlers, NEW u, handler'[k].pc = "settle", handler'[k].best = u, u \notin byHand'
        PROVE  Load(u)' < MaxConcurrent
    <3>1. CASE k = h
      <4>1. u \in LeastLoaded
        BY <1>1, <2>4, <3>1, FreeFields
      <4> QED
        BY <1>2, <4>1 DEF LeastLoaded, Open
    <3>2. CASE k # h
      BY <1>1, <1>2, <1>4, <2>4, <3>2 DEF LoadInv
    <3> QED
      BY <3>1, <3>2
  <2>5. ASSUME NEW k \in Handlers, handler'[k].pc = "settle", handler'[k].best \notin byHand'
        PROVE  Load(handler[k].best)' < MaxConcurrent
    BY <2>4, <2>5
  <2> QED
    BY <2>2, <2>3, <2>5 DEF LoadInv
<1> QED
  BY <1>3, <1>4

LEMMA AutoAssignLoads ==
    ASSUME TypeInv, LoadInv, NEW h \in Handlers, AutoAssign(h)
    PROVE  LoadInv'
<1>1. /\ handler[h].pc = "settle" /\ handler'[h] = Free /\ UNCHANGED <<byHand, crowded>>
      /\ \A g \in Handlers \ {h} : handler'[g] = handler[g]
  BY AutoAssignStep DEF AutoAssign, TypeInv, historyVars
<1>2. PICK c \in Contacts : c = Contact(h)
  BY <1>1, ContactType DEF TypeInv, Busy
<1>3. PICK best : best = handler[h].best
  OBVIOUS
<1>5. ASSUME NEW u, NEW d \in Contacts, d # c \/ u # best, Has(u, d)'
      PROVE  Has(u, d)
  BY <1>2, <1>3, <1>5 DEF Has, AutoAssign, TypeInv, TypeOK
<1>6. CASE crowded
  BY <1>1, <1>6 DEF LoadInv
<1>7. CASE ~crowded
  <2>1. \A g \in Handlers : ~Assigning(g)'
    BY <1>1, <1>7, FreeFields DEF LoadInv, Assigning
  <2>2. ASSUME NEW u \in Users \ byHand' PROVE Load(u)' <= MaxConcurrent
    <3>1. CASE u = best
      <4>1. Load(u)' <= Load(u) + 1
        BY <1>5, LoadGrows
      <4>2. Load(u) < MaxConcurrent
        BY <1>1, <1>3, <1>7, <3>1 DEF LoadInv
      <4> QED
        BY <4>1, <4>2, LoadNumbers
    <3>2. CASE u # best
      <4>1. Load(u)' <= Load(u)
        BY <1>5, <3>2, LoadShrinks
      <4>2. Load(u) <= MaxConcurrent
        BY <1>1, <1>7 DEF LoadInv
      <4> QED
        BY <4>1, <4>2, LoadNumbers
    <3> QED
      BY <3>1, <3>2
  <2> QED
    BY <2>1, <2>2 DEF LoadInv, Assigning
<1> QED
  BY <1>6, <1>7

\* The steps of a handler before its webhook is answered.
LEMMA EarlyLoads ==
    ASSUME TypeInv, TypeInv', LoadInv, NEW h \in Handlers,
           \/ Find(h) \/ Create(h) \/ Store(h) \/ Count(h)
           \/ \E m \in Messages : Deliver(h, m)
    PROVE  LoadInv'
<1> USE DEF dataVars, historyVars
<1>1. /\ UNCHANGED <<assignedTo, byHand, crowded>>
      /\ \A c \in Contacts : status'[c] = "active" => status[c] = "active"
  BY DEF Find, Create, Store, Count, Deliver, TypeInv, TypeOK
<1>2. \A u \in Users \ byHand' : Load(u)' <= Load(u)
  BY <1>1, LoadShrinks DEF Has
<1>3. /\ handler'[h].pc \in {"find", "create", "store", "count", "answer"}
      /\ \A g \in Handlers \ {h} : handler'[g] = handler[g]
  <2>1. CASE \E m \in Messages : Deliver(h, m)
    BY <2>1, DeliverStep DEF TypeInv
  <2>2. CASE Create(h)
    BY <2>2, CreateStep DEF TypeInv
  <2>3. CASE Find(h) \/ Store(h) \/ Count(h)
    <3>1. \E step \in {"create", "store", "count", "answer"} : GoOn(h, step)
      BY <2>3 DEF Find, Store, Count
    <3> QED
      BY <3>1, GoesOn DEF TypeInv, Steps
  <2> QED
    BY <2>1, <2>2, <2>3
<1>4. \A g \in Handlers : Assigning(g)' => Assigning(g)
  BY <1>3 DEF Assigning
<1>5. \A g \in Handlers : handler'[g].pc = "settle"
        => handler[g].pc = "settle" /\ handler'[g].best = handler[g].best
  BY <1>3
<1> QED
  BY <1>1, <1>2, <1>4, <1>5, LoadKept

LEMMA UserLoads ==
    ASSUME TypeInv, TypeInv', LoadInv, UserStep
    PROVE  LoadInv'
<1>1. PICK u \in Users : Claim(u) \/ Update(u)
  BY DEF UserStep
<1>2. handler' = handler /\ crowded' = crowded /\ byHand \subseteq byHand'
  BY <1>1 DEF Claim, Update
<1>3. ASSUME NEW v \in Users \ byHand', NEW c \in Contacts, Has(v, c)'
      PROVE  Has(v, c)
  <2>1. CASE Claim(u)
    BY <1>3, <2>1 DEF Claim, Has, TypeInv, TypeOK
  <2>2. CASE Update(u)
    <3>1. v # request[u].to
      BY <1>3, <2>2, ConstantsAssumption DEF Update
    <3> QED
      BY <1>3, <2>2, <3>1 DEF Update, Has, TypeInv, TypeOK
  <2> QED
    BY <1>1, <2>1, <2>2
<1>4. \A v \in Users \ byHand' : Load(v)' <= Load(v)
  BY <1>3, LoadShrinks
<1>5. \A g \in Handlers : Assigning(g)' => Assigning(g)
  BY <1>2 DEF Assigning
<1> QED
  BY <1>2, <1>4, <1>5, LoadKept

LEMMA LoadStep ==
    ASSUME TypeInv, LoadInv, [Next]_vars
    PROVE  LoadInv'
<1>1. TypeInv'
  BY TypesStep
<1>2. ASSUME NEW h \in Handlers, Webhook(h) \/ \E m \in Messages : Deliver(h, m)
      PROVE  LoadInv'
  <2>1. CASE Answer(h) \/ LoseAnswer(h)
    BY <1>1, <2>1, FinishLoads DEF Answer, LoseAnswer, dataVars
  <2> QED
    BY <1>1, <1>2, <2>1, CountLoadsLoads, AutoAssignLoads, EarlyLoads DEF Webhook
<1>3. CASE Crash
  <2>1. UNCHANGED <<status, assignedTo, byHand, crowded>>
    BY <1>3 DEF Crash, dataVars
  <2>2. \A g \in Handlers : handler'[g].pc = "idle"
    BY <1>3, CrashStep, FreeFields
  <2>3. \A g \in Handlers : ~Assigning(g)' /\ handler'[g].pc # "settle"
    BY <2>2 DEF Assigning
  <2> QED
    BY <1>1, <2>1, <2>3, LoadKept, SameLoads, LoadNumbers
<1>4. CASE UserStep
  BY <1>1, <1>4, UserLoads
<1>5. CASE AskStep \/ UNCHANGED vars
  <2>1. UNCHANGED <<status, assignedTo, handler, byHand, crowded>>
    BY <1>5, AskTypes DEF vars, dataVars, historyVars
  <2>2. \A g \in Handlers : Assigning(g)' => Assigning(g)
    BY <2>1 DEF Assigning
  <2> QED
    BY <1>1, <2>1, <2>2, LoadKept, SameLoads, LoadNumbers
<1> QED
  BY <1>2, <1>3, <1>4, <1>5 DEF Next, AskStep, UserStep

LEMMA LoadInit ==
    ASSUME Init
    PROVE  LoadInv
<1>1. \A h \in Handlers : ~Assigning(h) /\ handler[h].pc # "settle"
  BY FreeFields DEF Init, Assigning
<1>2. ASSUME NEW u PROVE Load(u) = 0
  <2>1. {c \in Contacts : status[c] = "active" /\ assignedTo[c] = u} = {}
    BY DEF Init
  <2> QED
    BY <2>1, FS_EmptySet DEF Load
<1>3. \A u \in Users : Load(u) <= MaxConcurrent
  BY <1>2, ConstantsAssumption
<1> QED
  BY <1>1, <1>3 DEF LoadInv

-------------------------------------------------------------------------------
(* The theorems *)

LEMMA InductiveInvariant == Spec => []IInv
<1>1. Init => IInv
  BY TypesInit, CountInit, ClaimInit, LoadInit DEF IInv
<1>2. IInv /\ [Next]_vars => IInv'
  BY TypesStep, CountStep, ClaimStep, LoadStep DEF IInv
<1> QED
  BY <1>1, <1>2, PTL DEF Spec

\* The variables have their types in every reachable state; in particular a message is
\* stored at most once more often than there are faults (services/conversations.ts).
THEOREM ConversationTypes == Spec => []TypeOK
<1>1. IInv => TypeOK
  BY DEF IInv, TypeInv
<1> QED
  BY <1>1, InductiveInvariant, PTL

\* messageCount never misses a stored message but those being counted and those a crash
\* came in between, whatever the handlers do at the same time (addMessage of
\* services/conversations.ts).
THEOREM CountsAreExact == Spec => []CountIsExact
<1>1. IInv => CountIsExact
  BY DEF IInv
<1> QED
  BY <1>1, InductiveInvariant, PTL

\* Who was told that the claim succeeded has the conversation until it is updated, unless
\* another opening of it overlapped (POST /{id}/claim of routes/conversations.ts and the
\* auto-assignment of messaging/router.ts).
THEOREM ClaimsHold == Spec => []ClaimHolds
<1>1. IInv => ClaimHolds
  BY DEF IInv, ClaimInv, ToldAlone, ClaimHolds
<1> QED
  BY <1>1, InductiveInvariant, PTL

\* Auto-assignments that do not overlap take nobody over the maximum (tryAutoAssign of
\* messaging/router.ts).
THEOREM OverloadsHaveACause == Spec => []OverloadHasACause
<1>1. IInv => OverloadHasACause
  <2> SUFFICES ASSUME IInv, NEW u \in Users, ~(Load(u) <= MaxConcurrent) PROVE u \in byHand \/ crowded
    BY LoadNumbers DEF OverloadHasACause
  <2> QED
    BY DEF IInv, LoadInv
<1> QED
  BY <1>1, InductiveInvariant, PTL
===============================================================================
