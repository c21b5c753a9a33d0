--------------------------- MODULE PostgresProofs ---------------------------
(***************************************************************************)
(* Postgres.tla for any number of calls, any mix of methods, any pool size *)
(* and any number of repetitions: the pool's accounting, that nothing      *)
(* stays behind, what an answer says of the database, and that the pool    *)
(* cannot block on itself.                                                 *)
(***************************************************************************)
EXTENDS Postgres, FiniteSetTheorems, TLAPS

\* Connections are in hand only between Acquire and the end of the statement or
\* of its rows; a temporary pool lives from Dial to Leave.
PlaceInv ==
  \A c \in Calls :
    /\ c \in held => at[c] \in {"run", "rerun", "rows"}
    /\ temp[c] # "none" =>
         at[c] \in {"acquire", "run", "rows", "reacquire", "rerun", "leave"}
    /\ c \notin held \/ temp[c] = "none"

\* Every effect of a statement that was not answered broke a connection, and how
\* often connections can have broken when the handler is at each place: at most
\* once for each time the statement was started over, and once more for an error.
EffectInv ==
  \A c \in Calls :
    /\ applied[c] <= broken[c] + IF Succeeded(c) THEN 1 ELSE 0
    /\ Succeeded(c) => applied[c] > 0
    /\ at[c] \in {"idle", "entered", "dial"} => broken[c] = 0 /\ bad[c] = 0
    /\ at[c] \in {"acquire", "run"} => broken[c] <= bad[c]
    /\ at[c] \in {"reacquire", "rerun"} =>
         op[c] = "InsertData" /\ broken[c] <= MaxRetries + 1 + bad[c]
    /\ at[c] = "rows" => op[c] \in Reading
    /\ op[c] \in Reading => applied[c] = 0
    /\ at[c] \in {"entered", "dial", "acquire", "run", "rows", "reacquire", "rerun"} => out[c] = "none"
    /\ at[c] = "idle" => out[c] = "none" /\ op[c] = "none"

IInv == TypeOK /\ PoolAccounting /\ PlaceInv /\ EffectInv

-----------------------------------------------------------------------------
(* Counting the calls that hold a connection.                              *)

LEMMA HeldFinite == ASSUME TypeOK PROVE IsFiniteSet(held) /\ Cardinality(held) \in Nat
  BY CallsAssumption, FS_Subset, FS_CardinalityType DEF TypeOK

LEMMA HeldGrows ==
  ASSUME TypeOK, NEW c \in Calls, c \notin held
  PROVE  Cardinality(held \union {c}) = Cardinality(held) + 1
  BY HeldFinite, FS_AddElement

LEMMA HeldShrinks ==
  ASSUME TypeOK, NEW c \in held
  PROVE  Cardinality(held \ {c}) = Cardinality(held) - 1 /\ Cardinality(held) > 0
<1>1. Cardinality(held) # 0
  BY HeldFinite, FS_EmptySet
<1>2. QED
  BY <1>1, HeldFinite, FS_RemoveElement

-----------------------------------------------------------------------------
(* The pool's part of every step.                                          *)

PoolInv == open \in Nat /\ idle \in Nat /\ PoolAccounting

LEMMA ReleaseKeeps ==
  ASSUME TypeOK, PoolAccounting, NEW c \in Calls, Release(c)
  PROVE  PoolInv'
<1>1. CASE c \in held
  BY <1>1, HeldShrinks, HeldFinite, PoolAssumption
     DEF Release, PoolInv, PoolAccounting, TypeOK
<1>2. CASE c \notin held
  BY <1>2 DEF Release, PoolInv, PoolAccounting, TypeOK
<1>3. QED
  BY <1>1, <1>2

LEMMA DiscardKeeps ==
  ASSUME TypeOK, PoolAccounting, NEW c \in Calls, Discard(c)
  PROVE  PoolInv'
<1>1. CASE c \in held
  <2>1. held' = held \ {c} /\ open' = open - 1 /\ idle' = idle
    BY <1>1 DEF Discard
  <2>2. open \in Nat /\ idle \in Nat
    BY DEF TypeOK
  <2>3. /\ Cardinality(held') = Cardinality(held) - 1
        /\ Cardinality(held) \in Nat /\ Cardinality(held) > 0
    BY <1>1, <2>1, HeldShrinks, HeldFinite
  <2>4. QED
    BY <2>1, <2>2, <2>3, PoolAssumption DEF PoolInv, PoolAccounting
<1>2. CASE c \notin held
  BY <1>2 DEF Discard, PoolInv, PoolAccounting, TypeOK
<1>3. QED
  BY <1>1, <1>2

LEMMA AcquireKeeps ==
  ASSUME IInv, NEW c \in Calls, Acquire(c)
  PROVE  PoolInv'
<1>1. c \notin held
  BY DEF IInv, PlaceInv, Acquire, Acquiring
<1>2. CASE temp[c] # "none"
  BY <1>2 DEF IInv, Acquire, PoolInv, PoolAccounting, TypeOK
<1>3. CASE temp[c] = "none"
  <2>1. held' = held \union {c}
    BY <1>3 DEF Acquire
  <2>2. \/ idle > 0 /\ idle' = idle - 1 /\ open' = open
        \/ open < MaxOpen /\ idle' = idle /\ open' = open + 1
    BY <1>3 DEF Acquire, TakesIdle, OpensNew
  <2>3. open \in Nat /\ idle \in Nat /\ TypeOK /\ PoolAccounting
    BY DEF IInv, TypeOK
  <2>4. QED
    BY <1>1, <2>1, <2>2, <2>3, HeldGrows, HeldFinite, PoolAssumption
       DEF PoolInv, PoolAccounting
<1>4. QED
  BY <1>2, <1>3

LEMMA PoolStep ==
  ASSUME IInv, [Next]_vars
  PROVE  PoolInv'
<1>1. ASSUME UNCHANGED <<held, open, idle>>
      PROVE  PoolInv'
  BY <1>1 DEF IInv, TypeOK, PoolInv, PoolAccounting
<1>2. CASE IdleLost
  <2>1. TypeOK /\ PoolAccounting /\ open \in Nat /\ idle \in Nat
    BY DEF IInv, TypeOK
  <2>2. idle > 0 /\ idle' = idle - 1 /\ open' = open - 1 /\ held' = held
    BY <1>2 DEF IdleLost
  <2>3. Cardinality(held) \in Nat
    BY <2>1, HeldFinite
  <2>4. QED
    BY <2>1, <2>2, <2>3, PoolAssumption DEF PoolInv, PoolAccounting
<1>3. ASSUME NEW c \in Calls,
             Arrive(c) \/ Refuse(c) \/ Route(c) \/ Dial(c) \/ AcquireFails(c)
               \/ Leave(c) \/ Expire(c)
      PROVE  UNCHANGED <<held, open, idle>>
  BY <1>3 DEF Arrive, Refuse, Route, Dial, AcquireFails, Leave, Expire
<1>4. ASSUME NEW c \in Calls, StatementEnds(c) \/ RowsEnd(c) \/ RowsCut(c)
      PROVE  PoolInv'
  <2>1. Release(c) \/ Discard(c) \/ UNCHANGED <<held, open, idle>>
    BY <1>4 DEF StatementEnds, Complete, Reject, Cut, StartOver, Breaks, RowsEnd, RowsCut
  <2>2. QED
    BY <1>1, <2>1, ReleaseKeeps, DiscardKeeps DEF IInv
<1>5. CASE AllDone \/ UNCHANGED vars
  BY <1>1, <1>5 DEF AllDone, vars
<1>6. QED
  BY <1>1, <1>2, <1>3, <1>4, <1>5, AcquireKeeps DEF Next, MethodStep

-----------------------------------------------------------------------------
(* The rest of the inductive invariant.                                    *)

Rest == TypeOK /\ PlaceInv /\ EffectInv

LEMMA InitIInv == Init => IInv
<1> SUFFICES ASSUME Init PROVE IInv
  OBVIOUS
<1>1. TypeOK
  BY RetriesAssumption DEF Init, TypeOK, Places, Outcomes
<1>2. PoolAccounting
  BY PoolAssumption, FS_EmptySet DEF Init, PoolAccounting
<1>3. PlaceInv /\ EffectInv
  BY DEF Init, PlaceInv, EffectInv, Succeeded, Writing, Reading
<1>4. QED
  BY <1>1, <1>2, <1>3 DEF IInv

\* Steps that leave the pool and the database alone.
LEMMA ControlStep ==
  ASSUME IInv, NEW c \in Calls,
         Arrive(c) \/ Refuse(c) \/ Route(c) \/ Dial(c) \/ Leave(c) \/ Expire(c)
  PROVE  Rest'
<1> USE RetriesAssumption DEF IInv, Rest, TypeOK, PlaceInv, EffectInv, Succeeded, retries, GoTo, Finish, Places, Outcomes
<1>1. CASE Arrive(c)
  BY <1>1, OpsAssumption DEF Arrive, Methods, Writing
<1>2. CASE Refuse(c)
  BY <1>2 DEF Refuse
<1>3. CASE Route(c)
  BY <1>3 DEF Route
<1>4. CASE Dial(c)
  BY <1>4 DEF Dial
<1>5. CASE Leave(c)
  BY <1>5 DEF Leave
<1>6. CASE Expire(c)
  BY <1>6 DEF Expire
<1>7. QED
  BY <1>1, <1>2, <1>3, <1>4, <1>5, <1>6

\* Steps of a statement: taking a connection, running, failing, iterating.
LEMMA StatementStep ==
  ASSUME IInv, PoolInv', NEW c \in Calls,
         Acquire(c) \/ AcquireFails(c) \/ StatementEnds(c) \/ RowsEnd(c) \/ RowsCut(c)
  PROVE  Rest'
<1> USE RetriesAssumption DEF IInv, Rest, TypeOK, PoolInv, PlaceInv, EffectInv, Succeeded, retries, GoTo, Finish, Places, Outcomes
<1>1. CASE Acquire(c)
  BY <1>1 DEF Acquire, Acquiring
<1>2. CASE AcquireFails(c)
  BY <1>2 DEF AcquireFails, AfterError, Acquiring
<1>3. CASE Complete(c)
  BY <1>3 DEF Complete, Executing, Release, Reading, Writing
<1>4. CASE Reject(c)
  BY <1>4 DEF Reject, AfterError, Executing, Release
<1>5. CASE Cut(c)
  BY <1>5 DEF Cut, Breaks, AfterError, Executing, Discard, Writing, Reading
<1>6. CASE StartOver(c)
  BY <1>6 DEF StartOver, Breaks, Executing, Discard, Writing, Reading
<1>7. CASE RowsEnd(c)
  BY <1>7 DEF RowsEnd, Release, Reading, Writing
<1>8. CASE RowsCut(c)
  BY <1>8 DEF RowsCut, Discard, Reading, Writing
<1>9. QED
  BY <1>1, <1>2, <1>3, <1>4, <1>5, <1>6, <1>7, <1>8 DEF StatementEnds

LEMMA Inductive == IInv /\ [Next]_vars => IInv'
<1> SUFFICES ASSUME IInv, [Next]_vars PROVE IInv'
  OBVIOUS
<1>1. PoolInv'
  BY PoolStep
<1>2. CASE IdleLost \/ AllDone \/ UNCHANGED vars
  BY <1>1, <1>2 DEF IdleLost, AllDone, vars, retries, IInv, Rest, TypeOK, PlaceInv, EffectInv, Succeeded, PoolInv
<1>3. CASE ~(IdleLost \/ AllDone \/ UNCHANGED vars)
  BY <1>1, <1>3, ControlStep, StatementStep DEF Next, MethodStep, IInv, Rest, PoolInv
<1>4. QED
  BY <1>2, <1>3

THEOREM Invariance == Spec => []IInv
  BY InitIInv, Inductive, PTL DEF Spec

-----------------------------------------------------------------------------
(* The results.                                                            *)

\* Every variable keeps to its domain; in particular no write takes effect more
\* often than its statements can be sent, and the pool's counters never go below
\* zero.
THEOREM TypeCorrect == Spec => []TypeOK
  BY Invariance, PTL DEF IInv

\* For every pool size and every number of calls, the default pool stays within
\* SetMaxOpenConns and SetMaxIdleConns and loses no connection.
THEOREM PoolAccountingHolds == Spec => []PoolAccounting
  BY Invariance, PTL DEF IInv

\* No path out of a method leaves a connection or a temporary pool behind.
THEOREM NothingLeftHolds == Spec => []NothingLeft
<1>1. IInv => NothingLeft
  BY DEF IInv, PlaceInv, NothingLeft
<1>2. QED
  BY <1>1, Invariance, PTL

\* Success means the write took effect, and every effect beyond the one answered
\* was made under a connection that broke.
THEOREM EffectMatchesReplyHolds == Spec => []EffectMatchesReply
<1>1. IInv => EffectMatchesReply
  BY DEF IInv, TypeOK, EffectInv, EffectMatchesReply
<1>2. QED
  BY <1>1, Invariance, PTL

\* The pool never blocks on itself, whatever its size and however many calls there
\* are: the connections that are out are all with calls that can end without one.
THEOREM WaitersAreServedHolds == Spec => []WaitersAreServed
<1>1. IInv => WaitersAreServed
  <2> SUFFICES ASSUME IInv, NEW c \in Calls, Acquiring(c), idle = 0, open = MaxOpen
               PROVE  \E d \in Calls \ {c} : d \in held /\ at[d] \in {"run", "rerun", "rows"}
    BY DEF WaitersAreServed
  <2>1. Cardinality(held) > 0
    BY HeldFinite, PoolAssumption DEF IInv, PoolAccounting
  <2>2. PICK d \in held : TRUE
    BY <2>1, FS_EmptySet
  <2>3. d \in Calls /\ at[d] \in {"run", "rerun", "rows"}
    BY <2>2 DEF IInv, TypeOK, PlaceInv
  <2>4. QED
    BY <2>2, <2>3 DEF Acquiring
<1>2. QED
  BY <1>1, Invariance, PTL
=============================================================================
