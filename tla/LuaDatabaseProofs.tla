-------------------------- MODULE LuaDatabaseProofs --------------------------
(***************************************************************************)
(* Proofs of the safety properties of LuaDatabase for any number of        *)
(* queries, data, frames and calls.                                        *)
(***************************************************************************)
EXTENDS LuaDatabase, BlockingQueueProofs

-----------------------------------------------------------------------------
(* Frames *)

\* A frame f is entered, the last frame becomes f, the last frame is left.
Pushed(f) ==
    /\ stack' \in Seq(Frame) /\ Len(stack') = Len(stack) + 1
    /\ \A i \in 1..Len(stack) : stack'[i] = stack[i]
    /\ stack'[Len(stack) + 1] = f

Moved(f) ==
    /\ stack' \in Seq(Frame) /\ Len(stack') = Len(stack)
    /\ \A i \in 1..Len(stack)-1 : stack'[i] = stack[i]
    /\ stack'[Len(stack)] = f

Popped ==
    /\ stack' \in Seq(Frame) /\ Len(stack') = Len(stack) - 1
    /\ \A i \in 1..Len(stack)-1 : stack'[i] = stack[i]

(* The last frame.                                                         *)
LEMMA TopLemma ==
    ASSUME stack \in Seq(Frame), NEW places, At(places)
    PROVE  /\ Len(stack) \in Nat \ {0} /\ DOMAIN stack = 1..Len(stack)
           /\ Top = stack[Len(stack)] /\ Top \in Frame /\ Top.at \in places
           /\ Top = [at |-> Top.at, self |-> Top.self, todo |-> Top.todo, d |-> Top.d]
           /\ Top.todo \in Seq(Data) /\ Top.d \in Data \cup {Null}
           /\ Top.self \in Query \cup {Db}
<1>1. Len(stack) \in Nat \ {0} /\ DOMAIN stack = 1..Len(stack)
  BY DEF At
<1>2. Top = stack[Len(stack)] /\ Top \in Frame /\ Top.at \in places
  BY <1>1 DEF At, Top
<1>3. /\ Top = [at |-> Top.at, self |-> Top.self, todo |-> Top.todo, d |-> Top.d]
      /\ Top.todo \in Seq(Data) /\ Top.d \in Data \cup {Null}
      /\ Top.self \in Query \cup {Db}
  BY <1>2 DEF Frame
<1> QED BY <1>1, <1>2, <1>3

(* Enter puts a frame on the stack.                                        *)
LEMMA EnterLemma ==
    ASSUME stack \in Seq(Frame), NEW at, NEW self, NEW todo, NEW d,
           [at |-> at, self |-> self, todo |-> todo, d |-> d] \in Frame,
           Enter(at, self, todo, d)
    PROVE  Pushed([at |-> at, self |-> self, todo |-> todo, d |-> d])
<1> DEFINE f == [at |-> at, self |-> self, todo |-> todo, d |-> d]
<1>1. f \in Frame /\ stack' = Append(stack, f)
  BY DEF Enter
<1> HIDE DEF f
<1>2. /\ stack' \in Seq(Frame) /\ Len(stack') = Len(stack) + 1
      /\ \A i \in 1..Len(stack) : stack'[i] = stack[i]
      /\ stack'[Len(stack) + 1] = f
  BY <1>1
<1> QED BY <1>2 DEF Pushed, f

(* The last frame becomes another one.                                     *)
LEMMA MoveLemma ==
    ASSUME stack \in Seq(Frame), stack # <<>>, NEW f \in Frame,
           stack' = [stack EXCEPT ![Len(stack)] = f]
    PROVE  Moved(f)
BY DEF Moved

(* Goto changes the place of the last frame only.                          *)
LEMMA GotoLemma ==
    ASSUME stack \in Seq(Frame), stack # <<>>, NEW at,
           [at |-> at, self |-> Top.self, todo |-> Top.todo, d |-> Top.d] \in Frame,
           Goto(at)
    PROVE  Moved([at |-> at, self |-> Top.self, todo |-> Top.todo, d |-> Top.d])
<1> DEFINE f == [at |-> at, self |-> Top.self, todo |-> Top.todo, d |-> Top.d]
<1>1. stack[Len(stack)] \in Frame
  OBVIOUS
<1>2. [stack[Len(stack)] EXCEPT !.at = at] = f
  BY <1>1 DEF Top, Frame
<1>3. stack' = [stack EXCEPT ![Len(stack)] = [stack[Len(stack)] EXCEPT !.at = at]]
  BY DEF Goto
<1>4. stack' = [stack EXCEPT ![Len(stack)] = f]
  BY <1>2, <1>3
<1> HIDE DEF f
<1>5. Moved(f)
  BY <1>4, MoveLemma DEF f
<1> QED BY <1>5 DEF f

(* Return takes the last frame from the stack.                             *)
LEMMA ReturnLemma ==
    ASSUME stack \in Seq(Frame), stack # <<>>, Return
    PROVE  Popped
<1>1. Len(stack) \in Nat \ {0} /\ DOMAIN stack = 1..Len(stack)
  OBVIOUS
<1>2. stack' = SubSeq(stack, 1, Len(stack) - 1)
  BY DEF Return, Front
<1>3. /\ stack' \in Seq(Frame) /\ Len(stack') = Len(stack) - 1
      /\ \A i \in 1..Len(stack)-1 : stack'[i] = stack[i]
  BY <1>1, <1>2
<1> QED BY <1>3 DEF Popped

-----------------------------------------------------------------------------
(* Types, frames, and what is built *)

\* The places in which a frame has data to finish.
Finishing == {"results", "resultCallback", "aborted", "abortedCallback"}

\* A frame when n data are built.
FrameOK(f, n) ==
    /\ f.at \in {"resultCallback", "abortedCallback"} => f.todo # <<>>
    /\ f.at \notin Finishing => f.todo = <<>>
    /\ f.at \in {"waiting", "sleeping"} => f.d \in 1..n
    /\ Range(f.todo) \subseteq 1..n

\* All frames but the last are in a callback.
FrameInv ==
    /\ \A i \in 1..Len(stack) : FrameOK(stack[i], built)
    /\ \A i \in 1..Len(stack)-1 : stack[i].at \in Callback

\* Only data that were built are in use.
BuiltInv ==
    /\ Range(queryQueue) \subseteq 1..built \cup {Null}
    /\ Range(finishedQueries) \subseteq 1..built
    /\ cur \in 1..built \cup {Null}
    /\ running \subseteq 1..built
    /\ \A d \in Data : d > built => ends[d] = 0

BaseInv == TypeOK /\ FrameInv /\ BuiltInv

(* The constants: the poison pill is no data, the database no query.       *)
LEMMA ConstantLemma ==
    /\ MaxData \in Nat /\ Data = 1..MaxData /\ Null = 0 /\ Null \notin Data
    /\ Db \notin Query
BY LuaAssumption DEF Data, Null, Db

(* The empty sequence.                                                     *)
LEMMA EmptyLemma == \A S : <<>> \in Seq(S) /\ Range(<<>>) = {}
BY DEF Range

(* Nothing is built and no call runs in the initial states.                *)
LEMMA BaseInit == Init => BaseInv
<1> SUFFICES ASSUME Init PROVE BaseInv
  OBVIOUS
<1> USE DEF Init
<1>1. TypeOK
  <2>1. /\ <<>> \in Seq(Data \cup {Null}) /\ <<>> \in Seq(Data) /\ <<>> \in Seq(Frame)
        /\ 0 \in 0..MaxData /\ 0 \in 0..MaxPills
    BY EmptyLemma, LuaAssumption
  <2> QED BY <2>1 DEF TypeOK, Reference, None
<1>2. FrameInv
  BY DEF FrameInv
<1>3. BuiltInv
  BY ConstantLemma, EmptyLemma DEF BuiltInv
<1> QED BY <1>1, <1>2, <1>3 DEF BaseInv

(* The greatest of the running data of a query.                            *)
LEMMA LastLemma ==
    ASSUME BaseInv, NEW q \in Query, RunningOf(q) # {}
    PROVE  Max(RunningOf(q)) \in 1..built
<1>1. built \in Nat /\ running \subseteq 1..built
  BY ConstantLemma DEF BaseInv, TypeOK, BuiltInv
<1>2. RunningOf(q) \in SUBSET (1..built)
  BY <1>1 DEF RunningOf
<1> QED BY <1>1, <1>2, GreatestNatLemma DEF Max

(* What abort() removes from the queue.                                    *)
LEMMA RemovedLemma ==
    ASSUME BaseInv, NEW D \in SUBSET running, NEW todo \in [1..Cardinality(D) -> D]
    PROVE  todo \in Seq(Data) /\ Range(todo) \subseteq 1..built
<1>1. built \in Nat /\ running \subseteq 1..built /\ running \subseteq Data
  BY ConstantLemma DEF BaseInv, TypeOK, BuiltInv
<1>2. D \subseteq 1..built /\ D \subseteq Data
  BY <1>1
<1>3. Cardinality(D) \in Nat
  <2>1. IsFiniteSet(1..built)
    BY <1>1, FS_Interval
  <2> QED BY <1>2, <2>1, FS_Subset, FS_CardinalityType
<1>4. todo \in Seq(D) /\ \A i \in DOMAIN todo : todo[i] \in D
  BY <1>3
<1>5. todo \in Seq(Data)
  <2>1. todo \in [1..Cardinality(D) -> Data]
    BY <1>2
  <2> QED BY <1>3, <2>1
<1> QED BY <1>2, <1>4, <1>5 DEF Range

(* A frame with another place, or other data.                              *)
LEMMA FrameLemma ==
    ASSUME NEW t \in Frame, NEW x, NEW y
    PROVE  /\ [t EXCEPT !.todo = y] =
                 [at |-> t.at, self |-> t.self, todo |-> y, d |-> t.d]
           /\ [[t EXCEPT !.at = x] EXCEPT !.todo = y] =
                 [at |-> x, self |-> t.self, todo |-> y, d |-> t.d]
<1> DEFINE u == [t EXCEPT !.at = x]
<1>1. [t EXCEPT !.todo = y] = [at |-> t.at, self |-> t.self, todo |-> y, d |-> t.d]
  BY DEF Frame
<1>2. u = [at |-> x, self |-> t.self, todo |-> t.todo, d |-> t.d]
  BY DEF Frame
<1>3. [u EXCEPT !.todo = y] = [at |-> x, self |-> t.self, todo |-> y, d |-> t.d]
  <2> HIDE DEF u
  <2> QED BY <1>2
<1> QED BY <1>1, <1>3

(* The data a frame has yet to finish.                                     *)
LEMMA TodoLemma ==
    ASSUME NEW todo \in Seq(Data), todo # <<>>
    PROVE  /\ Head(todo) \in Data /\ Tail(todo) \in Seq(Data)
           /\ Range(todo) = {Head(todo)} \cup Range(Tail(todo))
<1>1. NonEmpty(todo)
  BY DEF NonEmpty
<1> QED BY <1>1, TakeLemma

(* The data that comes next in the last frame.                             *)
LEMMA NextLemma ==
    ASSUME BaseInv, NEW places, At(places), Top.todo # <<>>
    PROVE  /\ Head(Top.todo) \in Data /\ Head(Top.todo) \in 1..built
           /\ Top.todo \in Seq(Data) /\ Tail(Top.todo) \in Seq(Data)
           /\ Range(Top.todo) = {Head(Top.todo)} \cup Range(Tail(Top.todo))
<1>0. stack \in Seq(Frame) /\ \A i \in 1..Len(stack) : FrameOK(stack[i], built)
  BY DEF BaseInv, TypeOK, FrameInv
<1>1. Top = stack[Len(stack)] /\ Len(stack) \in 1..Len(stack) /\ Top.todo \in Seq(Data)
  BY <1>0, TopLemma
<1>2. /\ Head(Top.todo) \in Data /\ Tail(Top.todo) \in Seq(Data)
      /\ Range(Top.todo) = {Head(Top.todo)} \cup Range(Tail(Top.todo))
  BY <1>1, TodoLemma
<1>3. Range(Top.todo) \subseteq 1..built
  BY <1>0, <1>1 DEF FrameOK
<1> QED BY <1>1, <1>2, <1>3

(* The last frame when think takes the results.                            *)
LEMMA TakeFrame ==
    ASSUME BaseInv, ThinkTake
    PROVE  /\ stack # <<>> /\ Top.todo = <<>>
           /\ \E f : /\ Moved(f) /\ FrameOK(f, built)
                    /\ f.at = "results" /\ f.todo = finishedQueries
<1> DEFINE f == [at |-> "results", self |-> Top.self, todo |-> finishedQueries,
                 d |-> Top.d]
<1>1. /\ At({"take"})
      /\ stack' = [stack EXCEPT ![Len(stack)].at = "results",
                                ![Len(stack)].todo = finishedQueries]
  BY DEF ThinkTake, Taken
<1>2. /\ stack # <<>> /\ Top.d \in Data \cup {Null} /\ Top.self \in Query \cup {Db}
      /\ Top \in Frame /\ Top = stack[Len(stack)] /\ Top.at = "take"
      /\ Len(stack) \in 1..Len(stack) /\ stack \in Seq(Frame)
  <2>1. stack \in Seq(Frame) /\ At({"take"}) /\ stack # <<>>
    BY <1>1 DEF At, BaseInv, TypeOK
  <2> QED BY <2>1, TopLemma
<1>3. finishedQueries \in Seq(Data) /\ Range(finishedQueries) \subseteq 1..built
  BY DEF BaseInv, TypeOK, BuiltInv
<1>4. f \in Frame
  BY <1>2, <1>3 DEF Frame
<1>5. FrameOK(f, built)
  BY <1>3 DEF FrameOK, Finishing
<1>6. [[Top EXCEPT !.at = "results"] EXCEPT !.todo = finishedQueries] = f
  <2>1. Top \in Frame
    BY <1>2
  <2> QED BY <2>1, FrameLemma
<1>7. stack' = [stack EXCEPT ![Len(stack)] =
                   [[Top EXCEPT !.at = "results"] EXCEPT !.todo = finishedQueries]]
  BY <1>1, <1>2
<1>8. f.at = "results" /\ f.todo = finishedQueries
  OBVIOUS
<1>9. Top.todo = <<>>
  BY <1>2 DEF BaseInv, FrameInv, FrameOK, Finishing
<1> HIDE DEF f
<1>10. Moved(f)
  BY <1>2, <1>4, <1>6, <1>7, MoveLemma
<1> QED BY <1>2, <1>5, <1>8, <1>9, <1>10

\* The first data of the last frame is finished.
Finished ==
    CallbackReturns \/ (RunCallback /\ references[Head(Top.todo)] = "zero")

(* The last frame when its first data is finished.                         *)
LEMMA FinishFrame ==
    ASSUME BaseInv, Finished
    PROVE  /\ stack # <<>> /\ Top.todo # <<>>
           /\ \E f : /\ Moved(f) /\ FrameOK(f, built)
                    /\ f.at \in {"results", "aborted"} /\ f.todo = Tail(Top.todo)
<1> DEFINE at == IF CallbackReturns THEN Place(Top.at) ELSE Top.at
           f == [at |-> at, self |-> Top.self, todo |-> Tail(Top.todo), d |-> Top.d]
<1>1. At(Finishing)
  BY DEF Finished, CallbackReturns, RunCallback, At, Finishing
<1>2. /\ stack # <<>> /\ Top.d \in Data \cup {Null} /\ Top.self \in Query \cup {Db}
      /\ Top \in Frame /\ Top = stack[Len(stack)]
      /\ Len(stack) \in 1..Len(stack) /\ stack \in Seq(Frame) /\ FrameOK(Top, built)
  BY <1>1, TopLemma DEF At, BaseInv, TypeOK, FrameInv
<1>3. Top.todo # <<>>
  BY <1>2 DEF Finished, CallbackReturns, RunCallback, At, FrameOK
<1>4. /\ Tail(Top.todo) \in Seq(Data) /\ Range(Tail(Top.todo)) \subseteq 1..built
  BY <1>1, <1>2, <1>3, NextLemma DEF FrameOK
<1>5. at \in {"results", "aborted"}
  BY DEF Finished, CallbackReturns, RunCallback, At, Place
<1> HIDE DEF at
<1>6. f \in Frame
  BY <1>2, <1>4, <1>5 DEF Frame
<1>7. FrameOK(f, built)
  BY <1>4, <1>5 DEF FrameOK, Finishing
<1>8. f.at = at /\ f.todo = Tail(Top.todo)
  OBVIOUS
<1>9. CASE CallbackReturns
  <2>1. [[Top EXCEPT !.at = Place(Top.at)] EXCEPT !.todo = Tail(Top.todo)] = f
    <3>1. Top \in Frame /\ at = Place(Top.at)
      BY <1>2, <1>9 DEF at
    <3> QED BY <3>1, FrameLemma
  <2>2. stack' = [stack EXCEPT ![Len(stack)] =
                     [[Top EXCEPT !.at = Place(Top.at)] EXCEPT !.todo = Tail(Top.todo)]]
    BY <1>2, <1>9 DEF CallbackReturns
  <2> HIDE DEF f
  <2>3. Moved(f)
    BY <1>2, <1>6, <2>1, <2>2, MoveLemma
  <2> QED BY <1>2, <1>3, <1>5, <1>7, <1>8, <2>3
<1>10. CASE ~CallbackReturns
  <2>1. [Top EXCEPT !.todo = Tail(Top.todo)] = f
    BY <1>2, <1>10, FrameLemma DEF at
  <2>2. stack' = [stack EXCEPT ![Len(stack)] = [Top EXCEPT !.todo = Tail(Top.todo)]]
    BY <1>2, <1>10 DEF Finished, RunCallback
  <2> HIDE DEF f
  <2>3. Moved(f)
    BY <1>2, <1>6, <2>1, <2>2, MoveLemma
  <2> QED BY <1>2, <1>3, <1>5, <1>7, <1>8, <2>3
<1> QED BY <1>9, <1>10

\* A call begins.
Entered(f) ==
    /\ Pushed(f) /\ FrameOK(f, built)
    /\ f.at \notin Callback \cup {"connectionReported"}
    /\ f.at = "destroying" => CollectDatabase
    /\ \A i \in 1..Len(stack) : stack[i].at \in Callback

\* The report of the connection, and of its end.
Reporting == ThinkConnection /\ ~m_dbCallbackRan
Ending ==
    /\ At({"disconnected"}) /\ WasDisconnected
    /\ m_hasOnDisconnected /\ ~m_hasOnDisconnected'
    /\ m_tableReference # "zero" /\ UNCHANGED m_tableReference
    /\ disorder' = disorder \cup (IF ConnectionUnreported THEN {"early"} ELSE {})

\* A frame comes to a place.
Allowed(at) ==
    /\ at # "destroying"
    /\ at \in {"connectionCallback", "connectionReported"} => Reporting
    /\ at = "disconnectedCallback" => Ending

\* The last call goes on: it has nothing to finish, takes results, runs the
\* callback of the first of its data, or has finished that one.
GoesOn(f) ==
    /\ stack # <<>> /\ Moved(f) /\ FrameOK(f, built) /\ Allowed(f.at)
    /\ \/ Top.todo = <<>> /\ f.todo = <<>>
       \/ Top.todo = <<>> /\ ThinkTake /\ f.todo = finishedQueries /\ f.at = "results"
       \/ /\ Top.todo # <<>> /\ f.todo = Top.todo
          /\ Top.at \in {"results", "aborted"} /\ RunCallback
          /\ references[Head(Top.todo)] # "zero"
          /\ f.at \in {"resultCallback", "abortedCallback"}
       \/ /\ Top.todo # <<>> /\ f.todo = Tail(Top.todo)
          /\ f.at \in {"results", "aborted"} /\ Finished

\* The last call returns.
Left == stack # <<>> /\ Popped /\ Top.todo = <<>>

(* The calls and what they have to finish when a step changes the stack.   *)
LEMMA StackStep ==
    ASSUME BaseInv, [Next]_vars
    PROVE  UNCHANGED stack \/ (\E f : Entered(f)) \/ (\E f : GoesOn(f)) \/ Left
<1> DEFINE Goal == UNCHANGED stack \/ (\E f : Entered(f)) \/ (\E f : GoesOn(f)) \/ Left
<1> SUFFICES Goal
  OBVIOUS
<1>0. /\ stack \in Seq(Frame) /\ built \in Nat /\ built <= MaxData
      /\ \A i \in 1..Len(stack) : FrameOK(stack[i], built)
      /\ \A i \in 1..Len(stack)-1 : stack[i].at \in Callback
  BY ConstantLemma DEF BaseInv, TypeOK, FrameInv
<1>1. ASSUME NEW at \in {"waiting", "aborted", "connecting", "joining", "connection",
                        "destroying"},
             NEW self \in Query \cup {Db}, NEW todo \in Seq(Data),
             NEW d \in Data \cup {Null}, Range(todo) \subseteq 1..built,
             at # "aborted" => todo = <<>>,
             at = "waiting" => d \in 1..built, at = "destroying" => CollectDatabase,
             stack = <<>> \/ At(Callback), Enter(at, self, todo, d)
      PROVE  Goal
  <2> DEFINE f == [at |-> at, self |-> self, todo |-> todo, d |-> d]
  <2>1. f \in Frame /\ FrameOK(f, built)
    BY <1>1 DEF Frame, FrameOK, Finishing
  <2>2. Pushed(f)
    BY <1>0, <1>1, <2>1, EnterLemma
  <2>3. \A i \in 1..Len(stack) : stack[i].at \in Callback
    BY <1>0, <1>1, TopLemma
  <2>4. Entered(f)
    <3>1. f.at = at /\ f.todo = todo /\ at \notin Callback \cup {"connectionReported"}
      BY DEF Callback
    <3> HIDE DEF f
    <3> QED BY <1>1, <2>1, <2>2, <2>3, <3>1 DEF Entered
  <2> QED BY <2>4
<1>2. ASSUME NEW at, Allowed(at), stack # <<>>, Top.todo \in Seq(Data), Top.d \in Data \cup {Null},
             Top.self \in Query \cup {Db}, Goto(at),
             [at |-> at, self |-> Top.self, todo |-> Top.todo, d |-> Top.d] \in Frame,
             FrameOK([at |-> at, self |-> Top.self, todo |-> Top.todo, d |-> Top.d], built),
             \/ Top.todo = <<>>
             \/ /\ Top.todo # <<>> /\ at \in {"resultCallback", "abortedCallback"}
                /\ Top.at \in {"results", "aborted"} /\ RunCallback
                /\ references[Head(Top.todo)] # "zero"
      PROVE  Goal
  <2> DEFINE f == [at |-> at, self |-> Top.self, todo |-> Top.todo, d |-> Top.d]
  <2>1. Moved(f)
    BY <1>0, <1>2, GotoLemma
  <2>2. f.at = at /\ f.todo = Top.todo /\ FrameOK(f, built)
    BY <1>2
  <2> HIDE DEF f
  <2>3. GoesOn(f)
    BY <1>2, <2>1, <2>2 DEF GoesOn
  <2> QED BY <2>3
<1>3. ASSUME stack # <<>>, Top.todo = <<>>, Return PROVE Goal
  <2>1. Popped
    BY <1>0, <1>3, ReturnLemma
  <2> QED BY <1>3, <2>1 DEF Left
<1> HIDE DEF Goal
<1>4. CASE UNCHANGED vars
  <2>1. UNCHANGED stack
    BY <1>4 DEF vars
  <2> QED BY <2>1 DEF Goal
<1>5. ASSUME NEW q \in Query, Wait(q) PROVE Goal
  <2>1. Max(RunningOf(q)) \in 1..built
    BY <1>5, LastLemma DEF Wait
  <2>2. Max(RunningOf(q)) \in Data
    BY <2>1, <1>0, ConstantLemma
  <2>3. Enter("waiting", q, <<>>, Max(RunningOf(q))) /\ (stack = <<>> \/ At(Callback))
    BY <1>5 DEF Wait, LuaRuns
  <2> QED BY <2>1, <2>2, <2>3, <1>1, EmptyLemma
<1>6. ASSUME NEW q \in Query, Abort(q) PROVE Goal
  <2> DEFINE D == RunningOf(q) \cap Range(queryQueue)
  <2>1. PICK todo \in [1..Cardinality(D) -> D] : RunAborted(q, todo)
    BY <1>6 DEF Abort
  <2>2. todo \in Seq(Data) /\ Range(todo) \subseteq 1..built
    <3>1. D \in SUBSET running
      BY DEF RunningOf
    <3> HIDE DEF D
    <3> QED BY <3>1, RemovedLemma
  <2>3. Enter("aborted", q, todo, Null) /\ (stack = <<>> \/ At(Callback))
    BY <1>6, <2>1 DEF Abort, LuaRuns, RunAborted, Aborted
  <2> HIDE DEF D
  <2> QED BY <2>2, <2>3, <1>1
<1>7. CASE AbortAll
  <2>1. queryQueue \in Seq(Data) /\ Range(queryQueue) \subseteq 1..built
    <3>1. queryQueue \in Seq(Data \cup {Null}) /\ Null \notin Range(queryQueue)
          /\ Range(queryQueue) \subseteq 1..built \cup {Null}
      BY <1>7 DEF AbortAll, BaseInv, TypeOK, BuiltInv
    <3>2. \A i \in 1..Len(queryQueue) : queryQueue[i] \in Data
      BY <3>1 DEF Range
    <3> QED BY <3>1, <3>2
  <2>2. Enter("aborted", Db, queryQueue, Null) /\ (stack = <<>> \/ At(Callback))
    BY <1>7 DEF AbortAll, LuaRuns, RunAborted, Aborted
  <2> QED BY <2>1, <2>2, <1>1
<1>8. CASE ConnectWait \/ ThinkHook \/ CollectDatabase \/ (Disconnect /\ stack' # stack)
  <2>1. PICK at \in {"connecting", "connection", "destroying", "joining"} :
            /\ Enter(at, Db, <<>>, Null) /\ (stack = <<>> \/ At(Callback))
            /\ at = "destroying" => CollectDatabase
    BY <1>8 DEF ConnectWait, ThinkHook, CollectDatabase, Disconnect, LuaRuns
  <2>2. <<>> \in Seq(Data) /\ Range(<<>>) \subseteq 1..built
    BY EmptyLemma
  <2> QED BY <2>1, <2>2, <1>1
<1>9. ASSUME NEW places, At(places)
      PROVE  /\ stack # <<>> /\ FrameOK(Top, built) /\ Top.at \in places
             /\ Top.todo \in Seq(Data) /\ Top.d \in Data \cup {Null}
             /\ Top.self \in Query \cup {Db}
  <2>1. /\ Len(stack) \in 1..Len(stack) /\ Top = stack[Len(stack)] /\ Top.at \in places
        /\ Top.todo \in Seq(Data) /\ Top.d \in Data \cup {Null}
        /\ Top.self \in Query \cup {Db}
    BY <1>0, <1>9, TopLemma
  <2> QED BY <1>0, <1>9, <2>1 DEF At
\* The last frame goes on, and keeps its data.
<1>10. ASSUME NEW places, At(places), NEW at, Goto(at),
              \/ /\ at \in Callback \cup
                       {"connection", "connectionReported", "take", "results",
                        "disconnected", "aborted", "waiting", "sleeping"}
                 /\ Top.todo = <<>>
                 /\ at \notin {"resultCallback", "abortedCallback"}
                 /\ at = "sleeping" => Top.at = "waiting"
                 /\ at # "waiting" /\ Allowed(at)
              \/ /\ at \in {"resultCallback", "abortedCallback"}
                  /\ Top.todo # <<>> /\ Top.at \in {"results", "aborted"}
                 /\ RunCallback /\ references[Head(Top.todo)] # "zero"
       PROVE  Goal
  <2> DEFINE f == [at |-> at, self |-> Top.self, todo |-> Top.todo, d |-> Top.d]
  <2>1. stack # <<>> /\ FrameOK(Top, built)
        /\ Top.todo \in Seq(Data) /\ Top.d \in Data \cup {Null}
        /\ Top.self \in Query \cup {Db}
    BY <1>9, <1>10
  <2>2. f \in Frame
    BY <1>10, <2>1 DEF Frame, Callback
  <2>3. FrameOK(f, built)
    BY <1>10, <2>1 DEF FrameOK, Finishing
  <2>4. Allowed(at)
    BY <1>10 DEF Callback, Allowed
  <2> QED BY <1>2, <1>10, <2>1, <2>2, <2>3, <2>4
<1>11. CASE WaitForQuery
  <2>1. PICK at \in {"connection", "sleeping"} : Goto(at) /\ At({"waiting"})
    BY <1>11 DEF WaitForQuery
  <2>2. Top.todo = <<>> /\ Top.at = "waiting"
    BY <2>1, <1>9 DEF FrameOK, Finishing
  <2>3. Allowed(at)
    BY <2>1 DEF Allowed
  <2> QED BY <2>1, <2>2, <2>3, <1>10
<1>12. CASE Unblock \/ ThinkConnection \/ (\E kept \in BOOLEAN : Reported(kept))
  <2>1. PICK at \in {"connection", "connectionCallback", "connectionReported", "take"} :
           /\ Goto(at) /\ At({"sleeping", "connecting", "joining", "connection",
                              "connectionCallback", "connectionReported"})
           /\ at \in {"connectionCallback", "connectionReported"} => Reporting
    BY <1>12 DEF Unblock, ThinkConnection, Reported, At, Reporting
  <2>2. Top.todo = <<>>
    BY <2>1, <1>9 DEF FrameOK, Finishing
  <2>3. Allowed(at)
    BY <2>1 DEF Allowed
  <2> QED BY <2>1, <2>2, <2>3, <1>10 DEF Callback
<1>13. CASE ThinkTake
  <2>1. /\ stack # <<>> /\ Top.todo = <<>>
        /\ \E f : /\ Moved(f) /\ FrameOK(f, built)
                 /\ f.at = "results" /\ f.todo = finishedQueries
    BY <1>13, TakeFrame
  <2>2. \E f : GoesOn(f)
    BY <1>13, <2>1 DEF GoesOn, Allowed
  <2> QED BY <2>2 DEF Goal
<1>14. CASE RunCallback /\ references[Head(Top.todo)] # "zero"
  <2>1. /\ At({"results", "aborted"}) /\ Top.todo # <<>>
        /\ references[Head(Top.todo)] # "zero"
        /\ \E at \in {"resultCallback", "abortedCallback"} : Goto(at)
    BY <1>14 DEF RunCallback
  <2>2. Top.at \in {"results", "aborted"}
    BY <2>1, <1>9
  <2> QED BY <1>14, <2>1, <2>2, <1>10
<1>15. CASE Finished
  <2>1. /\ stack # <<>> /\ Top.todo # <<>>
        /\ \E f : /\ Moved(f) /\ FrameOK(f, built)
                 /\ f.at \in {"results", "aborted"} /\ f.todo = Tail(Top.todo)
    BY <1>15, FinishFrame
  <2>2. \E f : GoesOn(f)
    BY <1>15, <2>1 DEF GoesOn, Allowed
  <2> QED BY <2>2 DEF Goal
<1>16. CASE ThinkDisconnected \/ NoMoreCallbacks
  <2>1. CASE Return
    <3>1. stack # <<>> /\ Top.todo = <<>>
      BY <1>16, <1>9 DEF ThinkDisconnected, NoMoreCallbacks, FrameOK, Finishing, At
    <3> QED BY <2>1, <3>1, <1>3
  <2>2. CASE Goto("disconnected") /\ NoMoreCallbacks
    <3>1. At({"results", "aborted"}) /\ Top.todo = <<>>
      BY <2>2 DEF NoMoreCallbacks
    <3>2. Allowed("disconnected")
      BY DEF Allowed
    <3> QED BY <2>2, <3>1, <3>2, <1>10
  <2>3. CASE /\ Goto("disconnectedCallback") /\ ThinkDisconnected
             /\ WasDisconnected /\ m_hasOnDisconnected /\ m_tableReference # "zero"
    <3>1. At({"disconnected"})
      BY <2>3 DEF ThinkDisconnected
    <3>2. Top.todo = <<>>
      BY <3>1, <1>9 DEF FrameOK, Finishing
    <3>3. Allowed("disconnectedCallback")
      BY <2>3, <3>1 DEF Allowed, Ending, ThinkDisconnected
    <3> QED BY <2>3, <3>1, <3>2, <3>3, <1>10 DEF Callback
  <2> QED BY <1>16, <2>1, <2>2, <2>3 DEF ThinkDisconnected, NoMoreCallbacks
<1>17. CASE OnDisconnectedReturns \/ Destroyed
  <2>1. At({"disconnectedCallback", "destroying"}) /\ Return
    BY <1>17 DEF OnDisconnectedReturns, Destroyed, At
  <2>2. stack # <<>> /\ Top.todo = <<>>
    BY <2>1, <1>9 DEF FrameOK, Finishing
  <2> QED BY <2>1, <2>2, <1>3
\* The other actions leave the stack alone.
<1>18. CASE \/ \E q \in Query : CreateQuery(q) \/ Start(q) \/ Collect(q)
           \/ Connect \/ (Disconnect /\ stack' = stack) \/ Forget
           \/ EndConnecting \/ Take \/ Execute \/ EndThread \/ Gone
  <2>1. UNCHANGED stack
    BY <1>18 DEF CreateQuery, Start, Starting, Collect, Connect, Connecting, Disconnect,
       Forget, EndConnecting, Take, Execute, EndThread, Gone, vars
  <2> QED BY <2>1 DEF Goal
<1>19. ConnectionReported => \E kept \in BOOLEAN : Reported(kept)
  BY DEF ConnectionReported, BaseInv, TypeOK
<1> QED
  BY <1>4, <1>5, <1>6, <1>7, <1>8, <1>11, <1>12, <1>13, <1>14, <1>15, <1>16, <1>17,
     <1>18, <1>19
  DEF Next, Call, InCall, ReturnFromCallback, DatabaseThread, Finished

(* A datum is built at a time, by start().                                 *)
LEMMA BuiltStep ==
    ASSUME BaseInv, [Next]_vars
    PROVE  /\ built \in Nat /\ built' \in Nat /\ built <= built' /\ built' <= MaxData
           /\ built' # built => \E q \in Query : Start(q)
<1>0. built \in Nat /\ built <= MaxData
  BY ConstantLemma DEF BaseInv, TypeOK
<1>1. CASE \E q \in Query : Start(q)
  <2>1. built < MaxData /\ built' = built + 1
    BY <1>1 DEF Start, Starting
  <2> QED BY <1>0, <1>1, <2>1, ConstantLemma
<1>2. CASE \A q \in Query : ~Start(q)
  <2>1. UNCHANGED built
    BY <1>2 DEF Next, Call, InCall, ReturnFromCallback, DatabaseThread, Gone, vars,
       CreateQuery, Wait, Abort, AbortAll, RunAborted, Aborted, Connect, Connecting,
       ConnectWait, Disconnect, Forget, ThinkHook, WaitForQuery, Unblock,
       ThinkConnection, ConnectionReported, Reported, ThinkTake, Taken, RunCallback,
       NoMoreCallbacks, ThinkDisconnected, Destroyed, CallbackReturns,
       OnDisconnectedReturns, Collect, CollectDatabase, EndConnecting, Take, Execute,
       EndThread, dataVars
  <2> QED BY <1>0, <2>1
<1> QED BY <1>1, <1>2

(* Every frame stays as FrameOK wants it.                                  *)
LEMMA FrameStep ==
    ASSUME BaseInv, [Next]_vars
    PROVE  stack' \in Seq(Frame) /\ FrameInv'
<1>0. /\ stack \in Seq(Frame) /\ built \in Nat /\ built' \in Nat /\ built <= built'
      /\ \A i \in 1..Len(stack) : FrameOK(stack[i], built)
      /\ \A i \in 1..Len(stack)-1 : stack[i].at \in Callback
  BY BuiltStep DEF BaseInv, TypeOK, FrameInv
<1>1. ASSUME NEW f, FrameOK(f, built) PROVE FrameOK(f, built')
  <2>1. 1..built \subseteq 1..built'
    BY <1>0
  <2> QED BY <1>1, <2>1 DEF FrameOK
<1>2. Len(stack) \in Nat /\ (stack # <<>> => Len(stack) > 0)
  BY <1>0
<1>3. SUFFICES /\ stack' \in Seq(Frame)
               /\ \A i \in 1..Len(stack') : FrameOK(stack'[i], built)
               /\ \A i \in 1..Len(stack')-1 : stack'[i].at \in Callback
  BY <1>1 DEF FrameInv
<1>4. CASE UNCHANGED stack
  BY <1>0, <1>4
<1>5. ASSUME NEW f, Entered(f)
      PROVE  /\ stack' \in Seq(Frame)
             /\ \A i \in 1..Len(stack') : FrameOK(stack'[i], built)
             /\ \A i \in 1..Len(stack')-1 : stack'[i].at \in Callback
  BY <1>0, <1>2, <1>5 DEF Entered, Pushed
<1>6. ASSUME NEW f, GoesOn(f)
      PROVE  /\ stack' \in Seq(Frame)
             /\ \A i \in 1..Len(stack') : FrameOK(stack'[i], built)
             /\ \A i \in 1..Len(stack')-1 : stack'[i].at \in Callback
  BY <1>0, <1>2, <1>6 DEF GoesOn, Moved
<1>7. CASE Left
  BY <1>0, <1>2, <1>7 DEF Left, Popped
<1> QED BY <1>4, <1>5, <1>6, <1>7, StackStep

\* The queues and the datum in hand.
QueueOK ==
    /\ queryQueue \in Seq(Data \cup {Null}) /\ finishedQueries \in Seq(Data)
    /\ cur \in Data \cup {Null}
    /\ Range(queryQueue) \subseteq 1..built \cup {Null}
    /\ Range(finishedQueries) \subseteq 1..built
    /\ cur \in 1..built \cup {Null}

(* An element of T is put into a queue of elements of T.                   *)
LEMMA PutWithinLemma ==
    ASSUME NEW S, NEW T \in SUBSET S, NEW q \in Seq(S), Range(q) \subseteq T, NEW e \in T
    PROVE  put(q, e) \in Seq(S) /\ Range(put(q, e)) \subseteq T
<1>1. e \in S
  OBVIOUS
<1>2. put(q, e) \in Seq(S) /\ Range(put(q, e)) = Range(q) \cup {e}
  BY <1>1, PutLemma
<1> QED BY <1>2

(* The queues hold data that were built.                                   *)
LEMMA QueueStep ==
    ASSUME BaseInv, [Next]_vars
    PROVE  QueueOK'
<1>0. /\ queryQueue \in Seq(Data \cup {Null}) /\ finishedQueries \in Seq(Data)
      /\ cur \in Data \cup {Null}
      /\ Range(queryQueue) \subseteq 1..built' \cup {Null}
      /\ Range(finishedQueries) \subseteq 1..built'
      /\ cur \in 1..built' \cup {Null}
      /\ 1..built \subseteq 1..built' /\ 1..built' \subseteq Data
      /\ built' \in Nat
      /\ stack \in Seq(Frame)
  <2>1. /\ queryQueue \in Seq(Data \cup {Null}) /\ finishedQueries \in Seq(Data)
        /\ cur \in Data \cup {Null} /\ stack \in Seq(Frame)
        /\ Range(queryQueue) \subseteq 1..built \cup {Null}
        /\ Range(finishedQueries) \subseteq 1..built
        /\ cur \in 1..built \cup {Null}
    BY DEF BaseInv, TypeOK, BuiltInv
  <2>2. built \in Nat /\ built' \in Nat /\ built <= built' /\ built' <= MaxData
    BY BuiltStep
  <2>3. 1..built \subseteq 1..built' /\ 1..built' \subseteq Data
    BY <2>2, ConstantLemma
  <2> QED BY <2>1, <2>2, <2>3
\* What may be added to a queue.
<1>1. ASSUME NEW e \in 1..built' \cup {Null} PROVE
         /\ put(queryQueue, e) \in Seq(Data \cup {Null})
         /\ Range(put(queryQueue, e)) \subseteq 1..built' \cup {Null}
  <2>1. 1..built' \cup {Null} \in SUBSET (Data \cup {Null})
    BY <1>0
  <2>2. queryQueue \in Seq(Data \cup {Null}) /\ Range(queryQueue) \subseteq 1..built' \cup {Null}
    BY <1>0
  <2> QED BY <2>1, <2>2, PutWithinLemma
<1>2. ASSUME NEW e \in 1..built' PROVE
         /\ put(finishedQueries, e) \in Seq(Data)
         /\ Range(put(finishedQueries, e)) \subseteq 1..built'
  <2>1. 1..built' \in SUBSET Data /\ finishedQueries \in Seq(Data)
        /\ Range(finishedQueries) \subseteq 1..built'
    BY <1>0
  <2> QED BY <2>1, PutWithinLemma
<1>3. CASE UNCHANGED <<queryQueue, finishedQueries, cur>>
  BY <1>0, <1>3 DEF QueueOK
<1>4. CASE UNCHANGED <<finishedQueries, cur>> /\ \E e \in 1..built' \cup {Null} :
              queryQueue' = put(queryQueue, e)
  BY <1>0, <1>1, <1>4 DEF QueueOK
<1>5. ASSUME UNCHANGED <<queryQueue, cur>>, NEW d \in 1..built',
             finishedQueries' = put(finishedQueries, d)
      PROVE  QueueOK'
  BY <1>0, <1>2, <1>5 DEF QueueOK
<1>6. ASSUME NEW q \in Query, Start(q) PROVE QueueOK'
  <2>1. queryQueue' = put(queryQueue, built') /\ UNCHANGED <<finishedQueries, cur>>
    BY <1>6 DEF Start, Starting, threadVars
  <2>2. built' \in 1..built'
    BY <1>0, <1>6, ConstantLemma DEF Start, Starting, BaseInv, TypeOK
  <2> QED BY <2>1, <2>2, <1>4
<1>7. ASSUME NEW q \in Query, Wait(q) PROVE QueueOK'
  <2>1. CASE queryQueue' = queryQueue
    BY <1>3, <1>7, <2>1 DEF Wait, threadVars
  <2>2. CASE queryQueue' = swapToFrontIf(queryQueue, Max(RunningOf(q)))
    <3>1. /\ queryQueue' \in Seq(Data \cup {Null})
          /\ Range(queryQueue') = Range(queryQueue)
      BY <1>0, <2>2, SwapLemma
    <3> QED BY <1>0, <1>7, <3>1 DEF QueueOK, Wait, threadVars
  <2> QED BY <1>7, <2>1, <2>2 DEF Wait
<1>8. ASSUME NEW self, NEW todo, RunAborted(self, todo) PROVE QueueOK'
  <2>1. /\ queryQueue' = removeIf(queryQueue, Range(todo))
        /\ UNCHANGED <<finishedQueries, cur>>
    BY <1>8 DEF RunAborted, Aborted
  <2>2. /\ queryQueue' \in Seq(Data \cup {Null})
        /\ Range(queryQueue') = Range(queryQueue) \ Range(todo)
    BY <1>0, <2>1, RemoveLemma
  <2> QED BY <1>0, <2>1, <2>2 DEF QueueOK
<1>9. CASE Disconnect \/ CollectDatabase
  <2>1. queryQueue' = put(queryQueue, Null) /\ UNCHANGED <<finishedQueries, cur>>
    BY <1>9 DEF Disconnect, CollectDatabase, threadVars
  <2> QED BY <2>1, <1>4
<1>10. CASE WaitForQuery
  <2>1. At({"waiting"})
    BY <1>10 DEF WaitForQuery
  <2>2. Top.d \in 1..built'
    <3>1. Top = stack[Len(stack)] /\ Len(stack) \in 1..Len(stack) /\ Top.at = "waiting"
      BY <1>0, <2>1, TopLemma
    <3> QED BY <1>0, <3>1 DEF BaseInv, FrameInv, FrameOK
  <2> QED BY <1>3, <1>5, <1>10, <2>2 DEF WaitForQuery
<1>11. CASE Take
  <2>1. /\ NonEmpty(queryQueue) /\ queryQueue' = Tail(queryQueue)
        /\ cur' = Head(queryQueue) /\ UNCHANGED finishedQueries
    BY <1>11 DEF Take
  <2>2. /\ Tail(queryQueue) \in Seq(Data \cup {Null}) /\ Head(queryQueue) \in Data \cup {Null}
        /\ Range(queryQueue) = {Head(queryQueue)} \cup Range(Tail(queryQueue))
    BY <1>0, <2>1, TakeLemma
  <2> QED BY <1>0, <2>1, <2>2 DEF QueueOK
<1>12. CASE Execute
  <2>1. /\ finishedQueries' = put(finishedQueries, cur) /\ cur \in 1..built' /\ cur' = Null
        /\ UNCHANGED queryQueue
    BY <1>0, <1>12 DEF Execute
  <2> QED BY <1>0, <1>2, <2>1 DEF QueueOK
<1>13. CASE EndThread
  <2>1. CASE At({"sleeping"}) /\ ~finished[Top.d]
    <3>1. /\ Top = stack[Len(stack)] /\ Len(stack) \in 1..Len(stack) /\ Top.at = "sleeping"
      BY <1>0, <2>1, TopLemma
    <3>2. Top.d \in 1..built'
      BY <1>0, <3>1 DEF BaseInv, FrameInv, FrameOK
    <3>3. finishedQueries' = finishedQueries \o <<Top.d>> /\ UNCHANGED <<queryQueue, cur>>
      BY <1>13, <2>1 DEF EndThread
    <3>4. finishedQueries' = put(finishedQueries, Top.d)
      BY <1>0, <3>2, <3>3 DEF put
    <3> QED BY <1>5, <3>2, <3>3, <3>4
  <2>2. CASE ~(At({"sleeping"}) /\ ~finished[Top.d])
    <3>1. finishedQueries' = finishedQueries \o <<>> /\ UNCHANGED <<queryQueue, cur>>
      BY <1>13, <2>2 DEF EndThread
    <3> QED BY <1>0, <1>3, <3>1
  <2> QED BY <2>1, <2>2
<1>14. CASE Destroyed \/ ThinkTake
  <2>1. queryQueue' \in {queryQueue, <<>>} /\ finishedQueries' = <<>> /\ UNCHANGED cur
    BY <1>14 DEF Destroyed, ThinkTake, Taken, threadVars
  <2> QED BY <1>0, <2>1, EmptyLemma DEF QueueOK
<1>15. CASE \/ \E q \in Query : CreateQuery(q) \/ Collect(q)
           \/ Connect \/ ConnectWait \/ Forget \/ ThinkHook \/ Unblock
           \/ ThinkConnection \/ ConnectionReported \/ RunCallback \/ CallbackReturns
           \/ NoMoreCallbacks \/ ThinkDisconnected \/ OnDisconnectedReturns
           \/ EndConnecting \/ Gone \/ UNCHANGED vars
  <2>1. UNCHANGED <<queryQueue, finishedQueries, cur>>
    BY <1>15 DEF CreateQuery, Collect, Connect, Connecting, ConnectWait, Forget, ThinkHook,
       Unblock, ThinkConnection, ConnectionReported, Reported, RunCallback,
       CallbackReturns, NoMoreCallbacks, ThinkDisconnected, OnDisconnectedReturns,
       EndConnecting, Gone, vars, queueVars, threadVars
  <2> QED BY <2>1, <1>3
<1> QED
  BY <1>6, <1>7, <1>8, <1>9, <1>10, <1>11, <1>12, <1>13, <1>14, <1>15
  DEF Next, Call, InCall, ReturnFromCallback, DatabaseThread, Abort, AbortAll

(* The started data change when a query is started, when a callback runs   *)
(* and when it returns.                                                    *)
LEMMA DataUnchanged ==
    ASSUME [Next]_vars, \A q \in Query : ~Start(q), ~RunCallback, ~CallbackReturns
    PROVE  UNCHANGED <<built, owner, running, references, ends>>
BY DEF Next, Call, InCall, ReturnFromCallback, DatabaseThread, Gone, vars, CreateQuery,
   Wait, Abort, AbortAll, RunAborted, Aborted, Connect, Connecting, ConnectWait,
   Disconnect, Forget, ThinkHook, WaitForQuery, Unblock, ThinkConnection,
   ConnectionReported, Reported, ThinkTake, Taken, NoMoreCallbacks, ThinkDisconnected,
   Destroyed, OnDisconnectedReturns, Collect, CollectDatabase, EndConnecting, Take,
   Execute, EndThread, dataVars, historyVars

(* The started data keep their types, and their callbacks come after them. *)
LEMMA DataStep ==
    ASSUME BaseInv, [Next]_vars
    PROVE  /\ built' \in 0..MaxData /\ owner' \in [Data -> Query \cup {None}]
           /\ running' \in SUBSET Data /\ references' \in [Data -> Reference]
           /\ ends' \in [Data -> Nat] /\ running' \subseteq 1..built'
           /\ \A d \in Data : d > built' => ends'[d] = 0
<1>0. /\ built \in 0..MaxData /\ owner \in [Data -> Query \cup {None}]
      /\ running \in SUBSET Data /\ references \in [Data -> Reference]
      /\ ends \in [Data -> Nat] /\ running \subseteq 1..built
      /\ \A d \in Data : d > built => ends[d] = 0
  BY DEF BaseInv, TypeOK, BuiltInv
<1>1. ASSUME NEW q \in Query, Start(q)
      PROVE  /\ built' \in 0..MaxData /\ owner' \in [Data -> Query \cup {None}]
             /\ running' \in SUBSET Data /\ references' \in [Data -> Reference]
             /\ ends' \in [Data -> Nat] /\ running' \subseteq 1..built'
             /\ \A d \in Data : d > built' => ends'[d] = 0
  <2>1. /\ built' = built + 1 /\ owner' = [owner EXCEPT ![built + 1] = q]
        /\ built < MaxData /\ running' = running \cup {built + 1}
        /\ references' = [references EXCEPT ![built + 1] = "live"]
        /\ ends' = ends
    BY <1>1 DEF Start, Starting, historyVars
  <2>2. built' \in 0..MaxData /\ built + 1 \in Data /\ 1..built \subseteq 1..built'
        /\ built' \in 1..built' /\ built' > built
    BY <1>0, <2>1, ConstantLemma
  <2>3. owner' \in [Data -> Query \cup {None}] /\ references' \in [Data -> Reference]
    BY <1>0, <2>1 DEF Reference
  <2>4. running' \in SUBSET Data /\ running' \subseteq 1..built'
    BY <1>0, <2>1, <2>2
  <2>5. \A d \in Data : d > built' => ends'[d] = 0
    BY <1>0, <2>1, ConstantLemma
  <2> QED BY <1>0, <2>1, <2>2, <2>3, <2>4, <2>5
<1>2. CASE RunCallback \/ CallbackReturns
  <2> DEFINE d == Head(Top.todo)
  <2>1. d \in Data /\ d \in 1..built
    <3>1. CASE RunCallback
      BY <3>1, NextLemma DEF RunCallback
    <3>2. CASE CallbackReturns
      <4>1. At({"resultCallback", "abortedCallback"})
        BY <3>2 DEF CallbackReturns
      <4>2. Top.todo # <<>>
        <5>1. /\ Top = stack[Len(stack)] /\ Len(stack) \in 1..Len(stack)
              /\ Top.at \in {"resultCallback", "abortedCallback"}
          BY <4>1, TopLemma DEF BaseInv, TypeOK
        <5> QED BY <5>1 DEF BaseInv, FrameInv, FrameOK
      <4> QED BY <4>1, <4>2, NextLemma
    <3> QED BY <1>2, <3>1, <3>2
  <2>2. /\ UNCHANGED <<built, owner>>
        /\ running' \in {running, running \ {d}}
        /\ references' \in {references, [references EXCEPT ![d] = "zero"]}
        /\ ends' \in {ends, [ends EXCEPT ![d] = @ + 1]}
    BY <1>2 DEF RunCallback, CallbackReturns, FinishLuaQueryData
  <2> HIDE DEF d
  <2>3. references' \in [Data -> Reference]
    BY <1>0, <2>2 DEF Reference
  <2>4. ends' \in [Data -> Nat]
    BY <1>0, <2>1, <2>2
  <2>5. \A e \in Data : e > built => ends'[e] = 0
    BY <1>0, <2>1, <2>2, ConstantLemma
  <2>6. running' \subseteq running
    BY <2>2
  <2> QED BY <1>0, <2>2, <2>3, <2>4, <2>5, <2>6
<1> QED BY <1>0, <1>1, <1>2, DataUnchanged

\* The variables that the rest of this module says less about.
RestOK ==
    /\ thread \in {"none", "connecting", "up", "failed", "poisoned", "ended"}
    /\ m_success \in BOOLEAN
    /\ finished \in [Data -> BOOLEAN]
    /\ m_tableReference \in Reference
    /\ m_hasOnDisconnected \in BOOLEAN /\ m_dbCallbackRan \in BOOLEAN
    /\ queries \in SUBSET Query /\ held \in SUBSET Query
    /\ dbHeld \in BOOLEAN /\ destroyed \in BOOLEAN
    /\ failed \in SUBSET Data
    /\ pills \in 0..MaxPills /\ disorder \in SUBSET {"early", "again"}
    /\ misuse \in {None, "use", "free"}

(* The other variables keep their types.                                   *)
LEMMA RestStep ==
    ASSUME BaseInv, [Next]_vars
    PROVE  RestOK'
<1>0. /\ RestOK /\ stack \in Seq(Frame) /\ built \in Nat
      /\ \A i \in 1..Len(stack) : FrameOK(stack[i], built)
  BY ConstantLemma DEF RestOK, BaseInv, TypeOK, FrameInv
<1> USE DEF RestOK
<1>1. ASSUME NEW q \in Query, CreateQuery(q) \/ Collect(q) PROVE RestOK'
  <2>1. queries' \in SUBSET Query /\ held' \in SUBSET Query
    BY <1>0, <1>1 DEF CreateQuery, Collect
  <2>2. UNCHANGED <<threadVars, tableVars, dbHeld, destroyed, historyVars>>
    BY <1>1 DEF CreateQuery, Collect
  <2> QED BY <1>0, <2>1, <2>2 DEF threadVars, tableVars, historyVars
<1>2. ASSUME NEW q \in Query, Start(q) \/ Wait(q) PROVE RestOK'
  <2>1. UNCHANGED <<threadVars, tableVars, objectVars, historyVars>>
    BY <1>2 DEF Start, Starting, Wait
  <2> QED BY <1>0, <2>1 DEF threadVars, tableVars, objectVars, historyVars
<1>3. ASSUME NEW self, NEW todo, RunAborted(self, todo) PROVE RestOK'
  <2>1. finished' \in [Data -> BOOLEAN]
    BY <1>0, <1>3 DEF RunAborted, Aborted
  <2> QED BY <1>0, <1>3, <2>1 DEF RunAborted, Aborted, tableVars, objectVars, historyVars
<1>4. CASE Connect
  <2>1. /\ thread' \in {thread, "connecting"} /\ m_hasOnDisconnected' \in BOOLEAN
        /\ m_tableReference' \in Reference
    BY <1>0, <1>4 DEF Connect, Connecting, Reference
  <2>2. disorder' \in SUBSET {"early", "again"} /\ misuse' \in {None, "use", "free"}
    <3>1. disorder' = disorder \cup (IF thread = "none" THEN {} ELSE {"again"})
      BY <1>4 DEF Connect, Connecting
    <3>2. misuse' \in {None, "use"}
      BY <1>4 DEF Connect, Connecting
    <3>3. disorder' \in SUBSET {"early", "again"}
      BY <1>0, <3>1
    <3> QED BY <3>2, <3>3
  <2>3. UNCHANGED <<m_success, finished, m_dbCallbackRan, objectVars, failed, pills>>
    BY <1>4 DEF Connect, Connecting
  <2>4. /\ m_success' \in BOOLEAN /\ finished' \in [Data -> BOOLEAN]
        /\ m_dbCallbackRan' \in BOOLEAN /\ failed' \in SUBSET Data
        /\ pills' \in 0..MaxPills
    BY <1>0, <2>3
  <2>5. /\ queries' \in SUBSET Query /\ held' \in SUBSET Query
        /\ dbHeld' \in BOOLEAN /\ destroyed' \in BOOLEAN
    BY <1>0, <2>3 DEF objectVars
  <2>6. thread' \in {"none", "connecting", "up", "failed", "poisoned", "ended"}
    BY <1>0, <2>1
  <2> QED BY <2>1, <2>2, <2>4, <2>5, <2>6
<1>5. CASE ConnectWait \/ Forget \/ ThinkHook \/ Unblock
  <2>1. CASE ConnectWait
    BY <1>0, <2>1 DEF ConnectWait, threadVars, tableVars, objectVars, historyVars
  <2>2. CASE Forget
    BY <1>0, <2>2 DEF Forget, threadVars, tableVars, historyVars
  <2>3. CASE ThinkHook
    BY <1>0, <2>3 DEF ThinkHook, threadVars, tableVars, objectVars, historyVars
  <2>4. CASE Unblock
    BY <1>0, <2>4 DEF Unblock, threadVars, tableVars, objectVars, historyVars
  <2> QED BY <1>5, <2>1, <2>2, <2>3, <2>4
<1>6. CASE Disconnect
  <2>1. pills' \in 0..MaxPills
    BY <1>0, <1>6, LuaAssumption DEF Disconnect
  <2> QED BY <1>0, <1>6, <2>1 DEF Disconnect, threadVars, tableVars, objectVars
<1>7. CASE WaitForQuery
  <2>1. At({"waiting"})
    BY <1>7 DEF WaitForQuery
  <2>2. Top.d \in Data
    <3>1. Top = stack[Len(stack)] /\ Len(stack) \in 1..Len(stack) /\ Top.at = "waiting"
      BY <1>0, <2>1, TopLemma
    <3>2. built <= MaxData
      BY DEF BaseInv, TypeOK
    <3> QED BY <1>0, <3>1, <3>2, ConstantLemma DEF FrameOK
  <2>3. failed' \in SUBSET Data /\ finished' \in [Data -> BOOLEAN]
    BY <1>0, <1>7, <2>2 DEF WaitForQuery
  <2> QED BY <1>0, <1>7, <2>3 DEF WaitForQuery, tableVars, objectVars
<1>8. CASE ThinkConnection
  <2>1. m_dbCallbackRan' \in BOOLEAN /\ misuse' \in {None, "use", "free"}
    BY <1>0, <1>8 DEF ThinkConnection
  <2> QED BY <1>0, <1>8, <2>1 DEF ThinkConnection, threadVars, objectVars
<1>18. ASSUME NEW kept, Reported(kept) PROVE RestOK'
  <2>1. m_tableReference' \in Reference /\ misuse' \in {None, "use", "free"}
    BY <1>0, <1>18 DEF Reported, Reference
  <2> QED BY <1>0, <1>18, <2>1 DEF Reported, threadVars, objectVars
<1>9. CASE ThinkTake \/ NoMoreCallbacks \/ Destroyed
  BY <1>0, <1>9 DEF ThinkTake, Taken, NoMoreCallbacks, Destroyed, threadVars, tableVars,
     objectVars, historyVars
<1>10. CASE RunCallback \/ CallbackReturns
  BY <1>0, <1>10 DEF RunCallback, CallbackReturns, FinishLuaQueryData, threadVars,
     tableVars, objectVars
<1>11. CASE ThinkDisconnected \/ OnDisconnectedReturns
  <2>1. /\ m_hasOnDisconnected' \in BOOLEAN /\ disorder' \in SUBSET {"early", "again"}
        /\ m_tableReference' \in Reference
    BY <1>0, <1>11 DEF ThinkDisconnected, OnDisconnectedReturns, Reference, historyVars
  <2>2. UNCHANGED <<threadVars, m_dbCallbackRan, objectVars, failed, pills>>
    BY <1>11 DEF ThinkDisconnected, OnDisconnectedReturns, historyVars
  <2>3. misuse' \in {None, "use", "free"}
    BY <1>0, <1>11 DEF ThinkDisconnected, OnDisconnectedReturns
  <2> QED BY <1>0, <2>1, <2>2, <2>3 DEF threadVars, objectVars
<1>12. CASE CollectDatabase
  BY <1>0, <1>12 DEF CollectDatabase, threadVars, tableVars, historyVars
<1>13. CASE EndConnecting
  BY <1>0, <1>13 DEF EndConnecting, tableVars, objectVars, historyVars
<1>14. CASE Take \/ Execute
  BY <1>0, <1>14 DEF Take, Execute, tableVars, objectVars, historyVars
<1>15. CASE EndThread
  <2>1. CASE At({"sleeping"}) /\ ~finished[Top.d]
    <3>1. /\ Top = stack[Len(stack)] /\ Len(stack) \in 1..Len(stack) /\ Top.at = "sleeping"
      BY <1>0, <2>1, TopLemma
    <3>2. built <= MaxData
      BY DEF BaseInv, TypeOK
    <3>3. Top.d \in Data
      BY <1>0, <3>1, <3>2, ConstantLemma DEF FrameOK
    <3>4. failed' = failed \cup Range(<<Top.d>>)
      BY <1>15, <2>1 DEF EndThread
    <3>5. failed' \in SUBSET Data
      BY <1>0, <3>3, <3>4 DEF Range
    <3> QED BY <1>0, <1>15, <3>5 DEF EndThread, tableVars, objectVars
  <2>2. CASE ~(At({"sleeping"}) /\ ~finished[Top.d])
    <3>1. failed' = failed \cup Range(<<>>)
      BY <1>15, <2>2 DEF EndThread
    <3>2. failed' \in SUBSET Data
      BY <1>0, <3>1, EmptyLemma
    <3>3. thread' = "ended" /\ finished' \in [Data -> BOOLEAN]
      BY <1>15 DEF EndThread
    <3>4. UNCHANGED <<m_success, tableVars, objectVars, pills, disorder, misuse>>
      BY <1>15 DEF EndThread
    <3> QED BY <1>0, <3>2, <3>3, <3>4 DEF tableVars, objectVars
  <2> QED BY <2>1, <2>2
<1>16. CASE UNCHANGED vars \/ Gone
  BY <1>0, <1>16 DEF Gone, vars, threadVars, tableVars, objectVars, historyVars
<1>17. ConnectionReported => Reported(m_hasOnDisconnected)
  BY DEF ConnectionReported
<1> QED
  BY <1>1, <1>2, <1>3, <1>4, <1>5, <1>6, <1>7, <1>8, <1>9, <1>10, <1>11, <1>12, <1>13,
     <1>14, <1>15, <1>16, <1>17, <1>18
  DEF Next, Call, InCall, ReturnFromCallback, DatabaseThread, Abort, AbortAll

(* BaseInv is inductive.                                                   *)
LEMMA BaseStep == BaseInv /\ [Next]_vars => BaseInv'
<1> SUFFICES ASSUME BaseInv, [Next]_vars PROVE BaseInv'
  OBVIOUS
<1>1. TypeOK'
  BY FrameStep, QueueStep, DataStep, RestStep DEF TypeOK, QueueOK, RestOK
<1>2. BuiltInv'
  BY QueueStep, DataStep DEF BuiltInv, QueueOK
<1> QED BY <1>1, <1>2, FrameStep DEF BaseInv

(* Hence it is invariant.                                                  *)
LEMMA BaseCorrect == Spec => []BaseInv
BY BaseInit, BaseStep, PTL DEF Spec

(* Every variable holds a value of its type: a frame that runs the         *)
(* callback of a data has one, and a call that waits waits for a data that *)
(* was started.                                                            *)
THEOREM LuaTypeCorrect == Spec => []TypeOK
<1>1. BaseInv => TypeOK
  BY DEF BaseInv
<1> QED BY <1>1, BaseCorrect, PTL

-----------------------------------------------------------------------------
(* What keeps the objects alive *)

EndCallback == {"resultCallback", "abortedCallback"}

\* A data is running while Lua holds its references; its query exists then, and
\* as long as the query is on the Lua stack for its callback.
AliveInv ==
    /\ held \subseteq queries
    /\ \A d \in Data : references[d] = IF d \in running THEN "live" ELSE "zero"
    /\ \A d \in running : owner[d] \in queries
    /\ \A i \in 1..Len(stack) :
          stack[i].at \in EndCallback => owner[Head(stack[i].todo)] \in queries
    /\ destroyed => running = {}

(* Nothing is referenced in the initial states.                            *)
LEMMA AliveInit == Init => AliveInv
BY DEF Init, AliveInv

(* A frame in the callback of a data has one that was started.             *)
LEMMA CallbackLemma ==
    ASSUME BaseInv, NEW i \in 1..Len(stack), stack[i].at \in EndCallback
    PROVE  /\ Head(stack[i].todo) \in Data /\ Head(stack[i].todo) \in 1..built
           /\ stack[i].todo # <<>> /\ stack[i].todo \in Seq(Data)
           /\ Head(stack[i].todo) \in Range(stack[i].todo)
<1>1. stack[i] \in Frame /\ FrameOK(stack[i], built)
  BY DEF BaseInv, TypeOK, FrameInv
<1>2. stack[i].todo \in Seq(Data) /\ stack[i].todo # <<>>
  BY <1>1 DEF Frame, FrameOK, EndCallback
<1>3. /\ Head(stack[i].todo) \in Data
      /\ Range(stack[i].todo) = {Head(stack[i].todo)} \cup Range(Tail(stack[i].todo))
  BY <1>2, TodoLemma
<1>4. Range(stack[i].todo) \subseteq 1..built
  BY <1>1 DEF FrameOK
<1> QED BY <1>2, <1>3, <1>4

(* Only RunCallback enters the callback of a data, the next one; all other *)
(* frames in such callbacks stay as they are.                              *)
LEMMA CallbackFrames ==
    ASSUME BaseInv, [Next]_vars, NEW i \in 1..Len(stack'), stack'[i].at \in EndCallback
    PROVE  \/ i \in 1..Len(stack) /\ stack'[i] = stack[i]
           \/ /\ RunCallback /\ stack # <<>> /\ i = Len(stack)
              /\ Len(stack') = Len(stack) /\ stack'[i].todo = Top.todo
              /\ Top.todo # <<>> /\ references[Head(Top.todo)] # "zero"
<1>0. stack \in Seq(Frame) /\ Len(stack) \in Nat
  BY DEF BaseInv, TypeOK
<1>1. CASE UNCHANGED stack
  BY <1>0, <1>1
<1>2. ASSUME NEW f, Entered(f) PROVE i \in 1..Len(stack) /\ stack'[i] = stack[i]
  BY <1>0, <1>2 DEF Entered, Pushed, EndCallback, Callback
<1>3. ASSUME NEW f, GoesOn(f)
      PROVE  \/ i \in 1..Len(stack) /\ stack'[i] = stack[i]
             \/ /\ RunCallback /\ stack # <<>> /\ i = Len(stack)
                /\ Len(stack') = Len(stack) /\ stack'[i].todo = Top.todo
                /\ Top.todo # <<>> /\ references[Head(Top.todo)] # "zero"
  <2>1. Moved(f) /\ stack # <<>>
    BY <1>3 DEF GoesOn
  <2>2. CASE i # Len(stack)
    BY <1>0, <2>1, <2>2 DEF Moved
  <2>3. CASE i = Len(stack)
    <3>1. stack'[i] = f /\ f.at \in EndCallback
      BY <2>1, <2>3 DEF Moved
    <3>2. f.todo # <<>>
      BY <1>3, <3>1 DEF GoesOn, FrameOK, EndCallback
    <3> QED BY <1>3, <2>1, <2>3, <3>1, <3>2 DEF GoesOn, Moved, EndCallback
  <2> QED BY <2>2, <2>3
<1>4. CASE Left
  BY <1>0, <1>4 DEF Left, Popped
<1> QED BY <1>1, <1>2, <1>3, <1>4, StackStep

(* The objects change when a query is created, forgotten and collected.    *)
LEMMA ObjectsUnchanged ==
    ASSUME [Next]_vars, \A q \in Query : ~CreateQuery(q) /\ ~Collect(q), ~Forget,
           ~CollectDatabase
    PROVE  UNCHANGED objectVars
BY DEF Next, Call, InCall, ReturnFromCallback, DatabaseThread, Gone, vars, Start, Starting,
   Wait, Abort, AbortAll, RunAborted, Aborted, Connect, Connecting, ConnectWait,
   Disconnect, ThinkHook, WaitForQuery, Unblock, ThinkConnection, ConnectionReported,
   Reported, ThinkTake, Taken, RunCallback, CallbackReturns, NoMoreCallbacks,
   ThinkDisconnected, Destroyed, OnDisconnectedReturns, EndConnecting, Take, Execute,
   EndThread
(* AliveInv is inductive, relative to BaseInv: start() references the      *)
(* query, and only the end of a callback frees it.                         *)
LEMMA AliveStep ==
    ASSUME BaseInv, AliveInv, [Next]_vars
    PROVE  AliveInv'
<1> DEFINE Referenced == \A d \in Data : references[d] = IF d \in running THEN "live" ELSE "zero"
           Owned == \A d \in running : owner[d] \in queries
           Called == \A i \in 1..Len(stack) :
                        stack[i].at \in EndCallback => owner[Head(stack[i].todo)] \in queries
           Kept1 == held \subseteq queries
           Gone1 == destroyed => running = {}
<1>0. /\ Kept1 /\ Referenced /\ Owned /\ Called /\ Gone1
      /\ built \in Nat /\ built \in 0..MaxData /\ running \subseteq 1..built
      /\ running \subseteq Data
      /\ owner \in [Data -> Query \cup {None}] /\ references \in [Data -> Reference]
      /\ stack \in Seq(Frame)
  BY ConstantLemma DEF AliveInv, BaseInv, TypeOK, BuiltInv
<1>1. SUFFICES Kept1' /\ Referenced' /\ Owned' /\ Called' /\ Gone1'
  BY DEF AliveInv
\* Frames keep their query, if it is not collected.
<1>2. ASSUME \A d \in 1..built : owner'[d] = owner[d],
             \A i \in 1..Len(stack) :
                stack[i].at \in EndCallback => owner[Head(stack[i].todo)] \in queries'
      PROVE  Called'
  <2> SUFFICES ASSUME NEW i \in 1..Len(stack'), stack'[i].at \in EndCallback
               PROVE  owner'[Head(stack'[i].todo)] \in queries'
    OBVIOUS
  <2>1. CASE i \in 1..Len(stack) /\ stack'[i] = stack[i]
    <3>1. Head(stack[i].todo) \in 1..built
      BY <2>1, CallbackLemma
    <3> QED BY <1>2, <2>1, <3>1
  <2>2. CASE /\ RunCallback /\ stack'[i].todo = Top.todo
             /\ Top.todo # <<>> /\ references[Head(Top.todo)] # "zero"
    <3>1. Head(Top.todo) \in Data
      BY <2>2, NextLemma DEF RunCallback
    <3>2. Head(Top.todo) \in running
      BY <1>0, <2>2, <3>1
    <3>3. UNCHANGED <<owner, queries>>
      BY <2>2 DEF RunCallback, objectVars
    <3> QED BY <1>0, <2>2, <3>2, <3>3
  <2> QED BY <2>1, <2>2, CallbackFrames
<1> HIDE DEF Called
<1>3. ASSUME NEW q \in Query, CreateQuery(q)
      PROVE  Kept1' /\ Referenced' /\ Owned' /\ Called' /\ Gone1'
  <2>1. /\ queries' = queries \cup {q} /\ held' = held \cup {q}
        /\ UNCHANGED <<built, owner, running, references, destroyed>>
    BY <1>3 DEF CreateQuery, dataVars
  <2>2. Called'
    BY <1>0, <1>2, <2>1 DEF Called
  <2> QED BY <1>0, <2>1, <2>2
<1>4. ASSUME NEW q \in Query, Start(q)
      PROVE  Kept1' /\ Referenced' /\ Owned' /\ Called' /\ Gone1'
  <2>1. /\ built' = built + 1 /\ owner' = [owner EXCEPT ![built + 1] = q]
        /\ built < MaxData /\ running' = running \cup {built + 1}
        /\ references' = [references EXCEPT ![built + 1] = "live"]
        /\ UNCHANGED <<queries, held, destroyed>> /\ ~destroyed
        /\ q \in held \/ (At(EndCallback) /\ owner[Head(Top.todo)] = q)
    BY <1>4 DEF Start, Starting, objectVars, LuaRuns, Reaches, EndCallback
  <2>2. built + 1 \in Data /\ built + 1 \notin 1..built
    BY <1>0, <2>1, ConstantLemma
  <2>3. q \in queries
    <3>1. CASE At(EndCallback) /\ owner[Head(Top.todo)] = q
      <4>1. Len(stack) \in 1..Len(stack) /\ Top = stack[Len(stack)] /\ Top.at \in EndCallback
        BY <1>0, <3>1, TopLemma
      <4> QED BY <1>0, <3>1, <4>1 DEF Called
    <3> QED BY <1>0, <2>1, <3>1
  <2>4. \A d \in 1..built : owner'[d] = owner[d]
    BY <1>0, <2>1, <2>2
  <2>5. Called'
    BY <1>0, <1>2, <2>1, <2>4 DEF Called
  <2>6. Referenced'
    BY <1>0, <2>1, <2>2
  <2>7. Owned'
    BY <1>0, <2>1, <2>2, <2>3, <2>4
  <2> QED BY <1>0, <2>1, <2>5, <2>6, <2>7
<1>5. CASE RunCallback \/ CallbackReturns
  <2> DEFINE d == Head(Top.todo)
  <2>1. d \in Data
    <3>1. CASE RunCallback
      BY <3>1, NextLemma DEF RunCallback
    <3>2. CASE CallbackReturns
      <4>1. Len(stack) \in 1..Len(stack) /\ Top = stack[Len(stack)] /\ Top.at \in EndCallback
        BY <1>0, <3>2, TopLemma DEF CallbackReturns, EndCallback
      <4> QED BY <4>1, CallbackLemma
    <3> QED BY <1>5, <3>1, <3>2
  <2>2. /\ UNCHANGED <<built, owner, queries, held, destroyed>>
        /\ \/ UNCHANGED <<running, references>>
           \/ /\ running' = running \ {d}
              /\ references' = [references EXCEPT ![d] = "zero"]
    BY <1>5 DEF RunCallback, CallbackReturns, FinishLuaQueryData, objectVars
  <2> HIDE DEF d
  <2>3. Called'
    BY <1>0, <1>2, <2>2 DEF Called
  <2>4. Referenced'
    BY <1>0, <2>1, <2>2
  <2> QED BY <1>0, <2>2, <2>3, <2>4
<1>6. CASE Forget
  <2>1. /\ held' \subseteq held
        /\ UNCHANGED <<built, owner, running, references, queries, destroyed>>
    BY <1>6 DEF Forget, dataVars
  <2>2. Called'
    BY <1>0, <1>2, <2>1 DEF Called
  <2> QED BY <1>0, <2>1, <2>2
<1>7. ASSUME NEW q \in Query, Collect(q)
      PROVE  Kept1' /\ Referenced' /\ Owned' /\ Called' /\ Gone1'
  <2>1. /\ queries' = queries \ {q} /\ q \notin held /\ ~OnStack(q)
        /\ \A d \in Data : owner[d] = q => references[d] # "live"
        /\ UNCHANGED <<built, owner, running, references, held, destroyed>>
    BY <1>7 DEF Collect, dataVars
  <2>2. Called'
    <3>1. \A i \in 1..Len(stack) :
             stack[i].at \in EndCallback => owner[Head(stack[i].todo)] # q
      BY <1>0, <2>1 DEF OnStack, EndCallback
    <3> QED BY <1>0, <1>2, <2>1, <3>1 DEF Called
  <2>3. Owned'
    BY <1>0, <2>1
  <2> QED BY <1>0, <2>1, <2>2, <2>3
<1>8. CASE CollectDatabase
  <2>1. /\ queries = {} /\ UNCHANGED <<built, owner, running, references, queries, held>>
    BY <1>8 DEF CollectDatabase, DatabaseReferences, dataVars
  <2>2. Called'
    BY <1>0, <1>2, <2>1 DEF Called
  <2> QED BY <1>0, <2>1, <2>2
<1>9. CASE UNCHANGED <<built, owner, running, references, objectVars>>
  <2>1. Called'
    BY <1>0, <1>2, <1>9 DEF Called, objectVars
  <2> QED BY <1>0, <1>9, <2>1 DEF objectVars
<1> QED
  BY <1>3, <1>4, <1>5, <1>6, <1>7, <1>8, <1>9, DataUnchanged, ObjectsUnchanged

(* Hence both are invariant.                                               *)
LEMMA AliveCorrect == Spec => [](BaseInv /\ AliveInv)
<1>1. Init => BaseInv /\ AliveInv
  BY BaseInit, AliveInit
<1>2. BaseInv /\ AliveInv /\ [Next]_vars => (BaseInv /\ AliveInv)'
  BY BaseStep, AliveStep
<1> QED BY <1>1, <1>2, PTL DEF Spec

(* "Used to ensure that the database stays alive while the query exists"   *)
(* (LuaIQuery.h): the references that start() creates keep the query of    *)
(* every data whose callback is to come, and its reference the database.   *)
THEOREM AlwaysKeptAlive == Spec => []KeptAlive
<1>1. AliveInv => KeptAlive
  BY DEF AliveInv, KeptAlive
<1> QED BY <1>1, AliveCorrect, PTL

-----------------------------------------------------------------------------
(* The end callbacks of a data *)

\* While a data runs, its callbacks are still on their way; one that has no
\* references has been told its end.
NestInv ==
    /\ \A d \in running : ends[d] > 0 =>
          \E i \in 1..Len(stack) : stack[i].at \in EndCallback /\ Head(stack[i].todo) = d
    /\ \A i \in 1..Len(stack) :
          stack[i].at \in EndCallback => ends[Head(stack[i].todo)] > 0
    /\ \A d \in 1..built \ running : ends[d] > 0

(* No callback has run in the initial states.                              *)
LEMMA NestInit == Init => NestInv
BY DEF Init, NestInv

(* A frame stays in the callback of a data until the callback returns.     *)
LEMMA CallbacksStay ==
    ASSUME BaseInv, [Next]_vars, NEW i \in 1..Len(stack), stack[i].at \in EndCallback,
           ~(CallbackReturns /\ i = Len(stack))
    PROVE  i \in 1..Len(stack') /\ stack'[i] = stack[i]
<1>0. stack \in Seq(Frame) /\ Len(stack) \in Nat /\ stack[i].todo # <<>>
  BY CallbackLemma DEF BaseInv, TypeOK
<1>1. CASE UNCHANGED stack
  BY <1>0, <1>1
<1>2. ASSUME NEW f, Entered(f) PROVE i \in 1..Len(stack') /\ stack'[i] = stack[i]
  BY <1>0, <1>2 DEF Entered, Pushed
<1>3. ASSUME NEW f, GoesOn(f) PROVE i \in 1..Len(stack') /\ stack'[i] = stack[i]
  <2>1. Moved(f)
    BY <1>3 DEF GoesOn
  <2>2. CASE i # Len(stack)
    BY <1>0, <2>1, <2>2 DEF Moved
  <2>3. CASE i = Len(stack)
    <3>1. Top = stack[i]
      BY <2>3 DEF Top
    <3>2. ~RunCallback
      BY <3>1 DEF RunCallback, At, EndCallback
    <3> QED BY <1>0, <1>3, <2>3, <3>1, <3>2 DEF GoesOn, Finished, EndCallback
  <2> QED BY <2>2, <2>3
<1>4. CASE Left
  <2>1. i # Len(stack)
    BY <1>0, <1>4 DEF Left, Top
  <2> QED BY <1>0, <1>4, <2>1 DEF Left, Popped
<1> QED BY <1>1, <1>2, <1>3, <1>4, StackStep

(* The stack, when the callback of a data runs and when it returns.        *)
LEMMA RunLemma ==
    ASSUME BaseInv, AliveInv, RunCallback
    PROVE  /\ Head(Top.todo) \in Data /\ Head(Top.todo) \in 1..built
           /\ Len(stack) \in Nat \ {0} /\ Top = stack[Len(stack)]
           /\ Top.at \in {"results", "aborted"} /\ Top.todo # <<>>
           /\ UNCHANGED <<built, owner>>
           /\ \/ /\ Head(Top.todo) \in running /\ UNCHANGED <<running, references>>
                 /\ ends' = [ends EXCEPT ![Head(Top.todo)] = @ + 1]
                 /\ Len(stack') = Len(stack) /\ stack'[Len(stack)].todo = Top.todo
                 /\ stack'[Len(stack)].at \in EndCallback
              \/ /\ Head(Top.todo) \notin running
                 /\ UNCHANGED <<running, ends>>
<1>0. stack \in Seq(Frame) /\ At({"results", "aborted"}) /\ Top.todo # <<>>
  BY DEF RunCallback, BaseInv, TypeOK
<1>1. /\ Head(Top.todo) \in Data /\ Head(Top.todo) \in 1..built
      /\ Len(stack) \in Nat \ {0} /\ Top = stack[Len(stack)]
      /\ Top.at \in {"results", "aborted"}
  BY <1>0, TopLemma, NextLemma
<1>2. UNCHANGED <<built, owner>>
  BY DEF RunCallback
<1>3. CASE references[Head(Top.todo)] # "zero"
  <2>1. Head(Top.todo) \in running
    BY <1>1, <1>3 DEF AliveInv
  <2>2. /\ UNCHANGED <<running, references>>
        /\ ends' = [ends EXCEPT ![Head(Top.todo)] = @ + 1]
    BY <1>3 DEF RunCallback
  <2>3. PICK at \in EndCallback : Goto(at)
    BY <1>3 DEF RunCallback, EndCallback
  <2>4. Len(stack') = Len(stack) /\ stack'[Len(stack)] = [Top EXCEPT !.at = at]
    BY <1>0, <1>1, <2>3 DEF Goto
  <2>5. Top \in Frame
    BY <1>0, TopLemma
  <2>6. [Top EXCEPT !.at = at].at = at /\ [Top EXCEPT !.at = at].todo = Top.todo
    BY <2>5 DEF Frame
  <2> QED BY <1>0, <1>1, <1>2, <2>1, <2>2, <2>4, <2>6
<1>4. CASE references[Head(Top.todo)] = "zero"
  <2>1. Head(Top.todo) \notin running
    BY <1>1, <1>4 DEF AliveInv
  <2>2. running' = running \ {Head(Top.todo)} /\ UNCHANGED ends
    BY <1>4 DEF RunCallback, FinishLuaQueryData
  <2> QED BY <1>0, <1>1, <1>2, <2>1, <2>2
<1> QED BY <1>3, <1>4

(* The data whose callback returns is not running any more.                *)
LEMMA ReturnsLemma ==
    ASSUME BaseInv, CallbackReturns
    PROVE  /\ Head(Top.todo) \in Data /\ Head(Top.todo) \in 1..built
           /\ Len(stack) \in Nat \ {0} /\ Top = stack[Len(stack)]
           /\ Top.at \in EndCallback /\ Top.todo # <<>>
           /\ running' = running \ {Head(Top.todo)}
           /\ UNCHANGED <<built, owner, ends>>
<1>0. stack \in Seq(Frame) /\ At(EndCallback)
  BY DEF CallbackReturns, BaseInv, TypeOK, EndCallback
<1>1. Len(stack) \in Nat \ {0} /\ Top = stack[Len(stack)] /\ Top.at \in EndCallback
  BY <1>0, TopLemma
<1>2. /\ Head(Top.todo) \in Data /\ Head(Top.todo) \in 1..built /\ Top.todo # <<>>
  BY <1>1, CallbackLemma
<1>3. /\ running' = running \ {Head(Top.todo)} /\ UNCHANGED <<built, owner, ends>>
  BY DEF CallbackReturns, FinishLuaQueryData
<1> QED BY <1>1, <1>2, <1>3

(* NestInv is inductive, relative to BaseInv and AliveInv.                 *)
LEMMA NestStep ==
    ASSUME BaseInv, AliveInv, NestInv, [Next]_vars
    PROVE  NestInv'
<1>0. /\ built \in Nat /\ running \subseteq 1..built /\ ends \in [Data -> Nat]
      /\ stack \in Seq(Frame) /\ Len(stack) \in Nat /\ 1..built \subseteq Data
  BY ConstantLemma DEF BaseInv, TypeOK, BuiltInv
<1>1. ASSUME \A q \in Query : ~Start(q), ~RunCallback, ~CallbackReturns PROVE NestInv'
  <2>1. UNCHANGED <<built, running, ends>>
    BY <1>1, DataUnchanged
  <2>2. ASSUME NEW i \in 1..Len(stack), stack[i].at \in EndCallback
        PROVE  i \in 1..Len(stack') /\ stack'[i] = stack[i]
    BY <1>1, <2>2, CallbacksStay
  <2>3. ASSUME NEW i \in 1..Len(stack'), stack'[i].at \in EndCallback
        PROVE  i \in 1..Len(stack) /\ stack'[i] = stack[i]
    BY <1>1, <2>3, CallbackFrames
  <2> QED BY <2>1, <2>2, <2>3 DEF NestInv
<1>2. ASSUME NEW q \in Query, Start(q) PROVE NestInv'
  <2>1. /\ built' = built + 1 /\ running' = running \cup {built + 1}
        /\ built < MaxData /\ UNCHANGED <<stack, ends>>
    BY <1>2 DEF Start, Starting, historyVars
  <2>2. ends[built + 1] = 0
    BY <1>0, <2>1, ConstantLemma DEF BaseInv, BuiltInv
  <2>3. \A d \in 1..built' : d = built + 1 \/ d \in 1..built
    BY <1>0, <2>1
  <2>4. \A d \in 1..built' \ running' : ends'[d] > 0
    BY <2>1, <2>3 DEF NestInv
  <2>5. \A d \in running' : ends'[d] > 0 => d \in running
    BY <2>1, <2>2
  <2> QED BY <2>1, <2>4, <2>5 DEF NestInv
<1>3. CASE RunCallback
  <2> DEFINE h == Head(Top.todo)
             n == Len(stack)
  <2>1. /\ h \in Data /\ n \in Nat \ {0} /\ stack[n].at \notin EndCallback
        /\ UNCHANGED <<built, running>>
        /\ \/ /\ h \in running /\ ends' = [ends EXCEPT ![h] = @ + 1]
              /\ Len(stack') = n /\ Head(stack'[n].todo) = h
              /\ stack'[n].at \in EndCallback
           \/ h \notin running /\ UNCHANGED ends
    BY <1>3, RunLemma DEF EndCallback
  <2> HIDE DEF h
  <2>2. \A d \in Data : ends'[d] >= ends[d] /\ (d # h => ends'[d] = ends[d])
    BY <1>0, <2>1
  <2>3. ASSUME NEW i \in 1..Len(stack), stack[i].at \in EndCallback
        PROVE  i \in 1..Len(stack') /\ stack'[i] = stack[i]
    <3>1. ~CallbackReturns
      BY <1>3 DEF RunCallback, CallbackReturns, At
    <3> QED BY <2>3, <3>1, CallbacksStay
  <2>4. \A d \in running' : ends'[d] > 0 =>
          \E i \in 1..Len(stack') : stack'[i].at \in EndCallback /\ Head(stack'[i].todo) = d
    <3> SUFFICES ASSUME NEW d \in running', ends'[d] > 0
                 PROVE  \E i \in 1..Len(stack') :
                           stack'[i].at \in EndCallback /\ Head(stack'[i].todo) = d
      OBVIOUS
    <3>1. d \in running /\ d \in Data
      BY <1>0, <2>1
    <3>2. CASE ends[d] > 0
      <4>1. PICK i \in 1..Len(stack) : stack[i].at \in EndCallback /\ Head(stack[i].todo) = d
        BY <3>1, <3>2 DEF NestInv
      <4> QED BY <2>3, <4>1
    <3>3. CASE ~(ends[d] > 0)
      <4>1. d = h /\ h \in running
        BY <1>0, <2>2, <3>1, <3>3
      <4>2. Len(stack') = n /\ Head(stack'[n].todo) = h /\ stack'[n].at \in EndCallback
            /\ n \in 1..Len(stack')
        BY <2>1, <4>1
      <4> QED BY <4>1, <4>2
    <3> QED BY <3>2, <3>3
  <2>5. \A i \in 1..Len(stack') :
           stack'[i].at \in EndCallback => ends'[Head(stack'[i].todo)] > 0
    <3> SUFFICES ASSUME NEW i \in 1..Len(stack'), stack'[i].at \in EndCallback
                 PROVE  ends'[Head(stack'[i].todo)] > 0
      OBVIOUS
    <3>1. CASE i \in 1..Len(stack) /\ stack'[i] = stack[i]
      <4>1. PICK e \in Data : e = Head(stack[i].todo) /\ ends[e] > 0
        BY <3>1, CallbackLemma DEF NestInv
      <4>2. ends'[e] \in Nat /\ ends[e] \in Nat /\ ends'[e] >= ends[e]
        BY <1>0, <2>1, <2>2
      <4>3. ends'[e] > 0
        BY <4>1, <4>2
      <4> QED BY <3>1, <4>1, <4>3
    <3>2. CASE stack'[i].todo = Top.todo /\ references[Head(Top.todo)] # "zero"
      <4>1. h \in running
        BY <2>1, <3>2 DEF AliveInv, h
      <4>2. ends'[h] = ends[h] + 1
        BY <1>0, <2>1, <4>1
      <4> QED BY <1>0, <2>1, <3>2, <4>2 DEF h
    <3> QED BY <3>1, <3>2, CallbackFrames
  <2>6. \A d \in 1..built' \ running' : ends'[d] > 0
    BY <1>0, <2>1, <2>2 DEF NestInv
  <2> QED BY <2>4, <2>5, <2>6 DEF NestInv
<1>4. CASE CallbackReturns
  <2> DEFINE h == Head(Top.todo)
             n == Len(stack)
  <2>1. /\ h \in Data /\ n \in Nat \ {0} /\ stack[n].at \in EndCallback
        /\ h = Head(stack[n].todo)
        /\ running' = running \ {h} /\ UNCHANGED <<built, ends>>
    BY <1>4, ReturnsLemma
  <2> HIDE DEF h
  <2>2. ASSUME NEW i \in 1..Len(stack), stack[i].at \in EndCallback, i # n
        PROVE  i \in 1..Len(stack') /\ stack'[i] = stack[i]
    BY <2>2, CallbacksStay
  <2>3. ASSUME NEW i \in 1..Len(stack'), stack'[i].at \in EndCallback
        PROVE  i \in 1..Len(stack) /\ stack'[i] = stack[i]
    <3>1. ~RunCallback
      BY <1>4 DEF RunCallback, CallbackReturns, At
    <3> QED BY <2>3, <3>1, CallbackFrames
  <2>4. \A d \in running' : ends'[d] > 0 =>
          \E i \in 1..Len(stack') : stack'[i].at \in EndCallback /\ Head(stack'[i].todo) = d
    <3> SUFFICES ASSUME NEW d \in running', ends'[d] > 0
                 PROVE  \E i \in 1..Len(stack') :
                           stack'[i].at \in EndCallback /\ Head(stack'[i].todo) = d
      OBVIOUS
    <3>1. PICK i \in 1..Len(stack) : stack[i].at \in EndCallback /\ Head(stack[i].todo) = d
      BY <2>1 DEF NestInv
    <3> QED BY <2>1, <2>2, <3>1
  <2>5. \A d \in 1..built' \ running' : ends'[d] > 0
    BY <1>0, <2>1 DEF NestInv
  <2> QED BY <2>1, <2>3, <2>4, <2>5 DEF NestInv
<1> QED BY <1>1, <1>2, <1>3, <1>4

(* Hence it is invariant.                                                  *)
LEMMA NestCorrect == Spec => [](BaseInv /\ AliveInv /\ NestInv)
<1>1. Init => BaseInv /\ AliveInv /\ NestInv
  BY BaseInit, AliveInit, NestInit
<1>2. BaseInv /\ AliveInv /\ NestInv /\ [Next]_vars => (BaseInv /\ AliveInv /\ NestInv)'
  BY BaseStep, AliveStep, NestStep
<1> QED BY <1>1, <1>2, PTL DEF Spec

(* A second end callback of a data runs within the first one only: when a  *)
(* callback returns, finishLuaQueryData leaves nothing that a second one   *)
(* could use.                                                              *)
THEOREM SecondIsNested == Spec => SecondCallbackIsNested
<1> DEFINE Nested == \A d \in Data : ends'[d] > ends[d] /\ ends[d] > 0 =>
                        \E i \in 1..Len(stack)-1 :
                            /\ stack[i].at \in {"resultCallback", "abortedCallback"}
                            /\ Head(stack[i].todo) = d
<1>1. BaseInv /\ AliveInv /\ NestInv /\ [Next]_vars => [Nested]_vars
  <2> SUFFICES ASSUME BaseInv, AliveInv, NestInv, [Next]_vars,
                      NEW d \in Data, ends'[d] > ends[d], ends[d] > 0
               PROVE  \E i \in 1..Len(stack)-1 :
                          /\ stack[i].at \in {"resultCallback", "abortedCallback"}
                          /\ Head(stack[i].todo) = d
    OBVIOUS
  <2>0. ends \in [Data -> Nat] /\ ends[d] \in Nat
    BY DEF BaseInv, TypeOK
  <2>1. RunCallback
    <3>1. ends' # ends
      BY <2>0
    <3>2. \A q \in Query : ~Start(q)
      BY <3>1 DEF Start, Starting, historyVars
    <3>3. ~CallbackReturns
      BY <3>1 DEF CallbackReturns
    <3> QED BY <3>1, <3>2, <3>3, DataUnchanged
  <2>2. /\ Len(stack) \in Nat \ {0} /\ Top = stack[Len(stack)]
        /\ Top.at \in {"results", "aborted"}
        /\ ends' # ends => Head(Top.todo) \in running
                            /\ ends' = [ends EXCEPT ![Head(Top.todo)] = @ + 1]
    BY <2>1, RunLemma
  <2>3. d = Head(Top.todo) /\ d \in running
    BY <2>0, <2>2
  <2>4. PICK i \in 1..Len(stack) : stack[i].at \in EndCallback /\ Head(stack[i].todo) = d
    BY <2>3 DEF NestInv
  <2>5. i # Len(stack)
    BY <2>2, <2>4 DEF EndCallback
  <2> QED BY <2>2, <2>4, <2>5 DEF EndCallback
<1> QED BY <1>1, NestCorrect, PTL DEF Spec, SecondCallbackIsNested

-----------------------------------------------------------------------------
(* Where a data is until its callback *)

\* The sites of the data: the queue, the database thread, the finished queries,
\* and then the frames.
Content ==
    [p \in Nat |-> IF p = 0 THEN queryQueue
                   ELSE IF p = 1 THEN IF cur = Null THEN <<>> ELSE <<cur>>
                   ELSE IF p = 2 THEN finishedQueries
                   ELSE IF p <= Len(stack) + 2 THEN stack[p - 2].todo
                   ELSE <<>>]

\* All sites but those of P are left alone.
Others(P) == \A p \in Nat \ P : Content'[p] = Content[p]

\* How the data move in a step.
Stand == Others({})
Reorder ==
    /\ Others({0})
    /\ Range(Content'[0]) = Range(Content[0])
    /\ NoneTwice(Content[0], Null) => NoneTwice(Content'[0], Null)
Add(e) == Others({0}) /\ Content'[0] = put(Content[0], e)
AbortThem(todo) ==
    LET n == Len(stack) + 3 IN
    /\ Others({0, n})
    /\ Content[n] = <<>> /\ Content'[n] = todo /\ Content'[0] = removeIf(Content[0], Range(todo))
    /\ Range(todo) \subseteq Range(Content[0])
    /\ NoneTwice(Content[0], Null) => NoneTwice(todo, Null)
Fail(d) == Others({2}) /\ Content'[2] = put(Content[2], d)
TakeResults ==
    LET n == Len(stack) + 2 IN
    Others({2, n}) /\ n > 2 /\ Content[n] = <<>> /\ Content'[n] = Content[2] /\ Content'[2] = <<>>
Finish ==
    LET n == Len(stack) + 2 IN
    /\ Others({n}) /\ n > 2 /\ Content[n] = Top.todo /\ Top.todo # <<>>
    /\ Content'[n] = Tail(Content[n])
TakeOne ==
    /\ Others({0, 1}) /\ NonEmpty(Content[0]) /\ Content[1] = <<>>
    /\ Content'[0] = Tail(Content[0])
    /\ Content'[1] = IF Head(Content[0]) = Null THEN <<>> ELSE <<Head(Content[0])>>
ExecuteOne ==
    /\ Others({1, 2}) /\ cur # Null /\ Content[1] = <<cur>>
    /\ Content'[1] = <<>> /\ Content'[2] = put(Content[2], cur)
Clear == Others({0, 2}) /\ Content'[0] = <<>> /\ Content'[2] = <<>>

(* The sites, before and after a step.                                     *)
LEMMA ContentLemma ==
    /\ Content[0] = queryQueue
    /\ Content[1] = IF cur = Null THEN <<>> ELSE <<cur>>
    /\ Content[2] = finishedQueries
    /\ \A p \in Nat : p > 2 => Content[p] = IF p <= Len(stack) + 2 THEN stack[p - 2].todo
                                           ELSE <<>>
    /\ Content'[0] = queryQueue'
    /\ Content'[1] = IF cur' = Null THEN <<>> ELSE <<cur'>>
    /\ Content'[2] = finishedQueries'
    /\ \A p \in Nat : p > 2 => Content'[p] = IF p <= Len(stack') + 2 THEN stack'[p - 2].todo
                                            ELSE <<>>
BY ConstantLemma DEF Content

\* The frames keep what they have to finish.
Quiet == \A p \in Nat : p > 2 => Content'[p] = Content[p]

(* A step that enters a frame with nothing to finish, moves the last one,  *)
(* or leaves it with nothing to finish, leaves the data where they are.    *)
LEMMA QuietLemma ==
    ASSUME stack \in Seq(Frame),
           \/ UNCHANGED stack
           \/ \E at, self, d : Enter(at, self, <<>>, d)
           \/ stack # <<>> /\ \E at : Goto(at)
           \/ stack # <<>> /\ Top.todo = <<>> /\ Return
    PROVE  Quiet
<1>0. Len(stack) \in Nat /\ (stack # <<>> => Len(stack) > 0)
  OBVIOUS
<1> SUFFICES ASSUME NEW p \in Nat, p > 2 PROVE Content'[p] = Content[p]
  BY DEF Quiet
<1>1. CASE UNCHANGED stack
  BY <1>1, ContentLemma
<1>2. ASSUME NEW at, NEW self, NEW d, Enter(at, self, <<>>, d)
      PROVE  Content'[p] = Content[p]
  <2> DEFINE f == [at |-> at, self |-> self, todo |-> <<>>, d |-> d]
  <2>1. stack' = Append(stack, f) /\ f.todo = <<>>
    BY <1>2 DEF Enter
  <2> HIDE DEF f
  <2>2. /\ Len(stack') = Len(stack) + 1 /\ f = stack'[Len(stack) + 1]
        /\ \A i \in 1..Len(stack) : stack'[i] = stack[i]
    BY <2>1
  <2>3. CASE p = Len(stack) + 3
    <3>1. p - 2 = Len(stack) + 1 /\ ~(p <= Len(stack) + 2) /\ p <= Len(stack') + 2
      BY <1>0, <2>2, <2>3
    <3>2. stack'[p - 2].todo = <<>>
      BY <2>1, <2>2, <3>1
    <3> QED BY <3>1, <3>2, ContentLemma
  <2>4. CASE p < Len(stack) + 3
    <3>1. p - 2 \in 1..Len(stack) /\ p <= Len(stack) + 2 /\ p <= Len(stack') + 2
      BY <1>0, <2>2, <2>4
    <3>2. Content[p] = stack[p - 2].todo /\ Content'[p] = stack'[p - 2].todo
      BY <3>1, ContentLemma
    <3> QED BY <2>2, <3>1, <3>2
  <2>5. CASE p > Len(stack) + 3
    <3>1. ~(p <= Len(stack) + 2) /\ ~(p <= Len(stack') + 2)
      BY <1>0, <2>2, <2>5
    <3> QED BY <3>1, ContentLemma
  <2> QED BY <1>0, <2>3, <2>4, <2>5
<1>3. ASSUME stack # <<>>, NEW at, Goto(at) PROVE Content'[p] = Content[p]
  <2>1. /\ Len(stack') = Len(stack)
        /\ \A i \in 1..Len(stack)-1 : stack'[i] = stack[i]
        /\ stack'[Len(stack)] = [stack[Len(stack)] EXCEPT !.at = at]
    BY <1>3 DEF Goto
  <2>2. stack[Len(stack)] \in Frame
    BY <1>0, <1>3
  <2>3. stack'[Len(stack)].todo = stack[Len(stack)].todo
    BY <2>1, <2>2 DEF Frame
  <2>4. \A i \in 1..Len(stack) : stack'[i].todo = stack[i].todo
    <3> SUFFICES ASSUME NEW i \in 1..Len(stack) PROVE stack'[i].todo = stack[i].todo
      OBVIOUS
    <3>1. i = Len(stack) \/ i \in 1..Len(stack)-1
      BY <1>0
    <3> QED BY <2>1, <2>3, <3>1
  <2>5. p <= Len(stack) + 2 => p - 2 \in 1..Len(stack)
    BY <1>0
  <2> QED BY <2>1, <2>4, <2>5, ContentLemma
<1>4. CASE stack # <<>> /\ Top.todo = <<>> /\ Return
  <2>1. /\ Len(stack') = Len(stack) - 1
        /\ \A i \in 1..Len(stack)-1 : stack'[i] = stack[i]
        /\ stack[Len(stack)].todo = <<>>
    BY <1>4, ReturnLemma DEF Popped, Top
  <2>2. CASE p = Len(stack) + 2
    <3>1. p - 2 = Len(stack) /\ p <= Len(stack) + 2 /\ ~(p <= Len(stack') + 2)
      BY <1>0, <2>1, <2>2
    <3> QED BY <2>1, <3>1, ContentLemma
  <2>3. CASE p < Len(stack) + 2
    <3>1. p - 2 \in 1..Len(stack)-1 /\ p <= Len(stack) + 2 /\ p <= Len(stack') + 2
      BY <1>0, <2>1, <2>3
    <3>2. Content[p] = stack[p - 2].todo /\ Content'[p] = stack'[p - 2].todo
      BY <3>1, ContentLemma
    <3> QED BY <2>1, <3>1, <3>2
  <2>4. CASE p > Len(stack) + 2
    <3>1. ~(p <= Len(stack) + 2) /\ ~(p <= Len(stack') + 2)
      BY <1>0, <2>1, <2>4
    <3> QED BY <3>1, ContentLemma
  <2> QED BY <1>0, <2>2, <2>3, <2>4
<1> QED BY <1>1, <1>2, <1>3, <1>4

(* The same when the last frame changes what it has to finish.             *)
LEMMA MovedLemma ==
    ASSUME stack \in Seq(Frame), stack # <<>>, NEW f, Moved(f)
    PROVE  LET n == Len(stack) + 2 IN
           /\ n \in Nat /\ n > 2 /\ Content[n] = Top.todo /\ Content'[n] = f.todo
           /\ \A p \in Nat : p > 2 /\ p # n => Content'[p] = Content[p]
<1> DEFINE n == Len(stack) + 2
<1>1. /\ Len(stack) \in Nat /\ Len(stack) > 0 /\ n \in Nat /\ n > 2
      /\ n - 2 = Len(stack)
  OBVIOUS
<1>2. /\ Len(stack') = Len(stack) /\ stack'[Len(stack)] = f
      /\ \A i \in 1..Len(stack)-1 : stack'[i] = stack[i]
  BY DEF Moved
<1>3. Content[n] = Top.todo
  BY <1>1, ContentLemma DEF Top
<1>4. Content'[n] = f.todo
  BY <1>1, <1>2, ContentLemma
<1>5. ASSUME NEW p \in Nat, p > 2, p # n PROVE Content'[p] = Content[p]
  <2>1. p <= Len(stack) + 2 => p - 2 \in 1..Len(stack)-1
    BY <1>1, <1>5
  <2> QED BY <1>2, <1>5, <2>1, ContentLemma
<1> QED BY <1>1, <1>3, <1>4, <1>5

(* Every step moves the data in one of these ways.                         *)
LEMMA ContentStep ==
    ASSUME BaseInv, [Next]_vars
    PROVE  \/ Stand
           \/ Reorder
           \/ Add(Null)
           \/ \E q \in Query : Start(q) /\ Add(built + 1)
           \/ \E self, todo : RunAborted(self, todo) /\ AbortThem(todo)
           \/ \E d \in failed' : Fail(d)
           \/ TakeResults
           \/ Finished /\ Finish
           \/ TakeOne
           \/ ExecuteOne
           \/ At({"destroying"}) /\ Clear
<1> DEFINE Goal ==
           \/ Stand
           \/ Reorder
           \/ Add(Null)
           \/ \E q \in Query : Start(q) /\ Add(built + 1)
           \/ \E self, todo : RunAborted(self, todo) /\ AbortThem(todo)
           \/ \E d \in failed' : Fail(d)
           \/ TakeResults
           \/ Finished /\ Finish
           \/ TakeOne
           \/ ExecuteOne
           \/ At({"destroying"}) /\ Clear
<1> SUFFICES Goal
  OBVIOUS
<1>0. /\ stack \in Seq(Frame) /\ Len(stack) \in Nat
      /\ queryQueue \in Seq(Data \cup {Null}) /\ finishedQueries \in Seq(Data)
      /\ cur \in Data \cup {Null} /\ built \in Nat
  BY ConstantLemma DEF BaseInv, TypeOK
<1> HIDE DEF Goal
<1>1. ASSUME Quiet, UNCHANGED <<queryQueue, finishedQueries, cur>> PROVE Goal
  <2>1. Stand
    BY <1>1, ContentLemma DEF Stand, Others, Quiet
  <2> QED BY <2>1 DEF Goal
<1>2. ASSUME Quiet, UNCHANGED <<finishedQueries, cur>> PROVE Others({0})
  BY <1>2, ContentLemma DEF Others, Quiet
<1>3. ASSUME Quiet, UNCHANGED <<queryQueue, cur>>, NEW d \in failed',
             finishedQueries' = put(finishedQueries, d)
      PROVE  Goal
  <2>1. Fail(d)
    BY <1>3, ContentLemma DEF Fail, Others, Quiet
  <2> QED BY <2>1 DEF Goal
<1>4. ASSUME Quiet, queryQueue' = put(queryQueue, Null), UNCHANGED <<finishedQueries, cur>>
      PROVE  Goal
  <2>1. Add(Null)
    BY <1>2, <1>4, ContentLemma DEF Add
  <2> QED BY <2>1 DEF Goal
<1>5. ASSUME NEW q \in Query, Start(q) PROVE Goal
  <2>1. /\ UNCHANGED <<stack, finishedQueries, cur>>
        /\ queryQueue' = put(queryQueue, built + 1)
    BY <1>5 DEF Start, Starting, threadVars
  <2>2. Quiet
    BY <1>0, <2>1, QuietLemma
  <2>3. Add(built + 1)
    BY <1>2, <2>1, <2>2, ContentLemma DEF Add
  <2> QED BY <1>5, <2>3 DEF Goal
<1>6. ASSUME NEW q \in Query, Wait(q) PROVE Goal
  <2>1. /\ UNCHANGED <<finishedQueries, cur>> /\ \E d : Enter("waiting", q, <<>>, d)
        /\ \E d : queryQueue' \in {queryQueue, swapToFrontIf(queryQueue, d)}
    BY <1>6 DEF Wait, threadVars
  <2>2. Quiet
    BY <1>0, <2>1, QuietLemma
  <2>3. CASE UNCHANGED queryQueue
    BY <1>1, <2>1, <2>2, <2>3
  <2>4. ASSUME NEW d, queryQueue' = swapToFrontIf(queryQueue, d) PROVE Goal
    <3>1. /\ Range(queryQueue') = Range(queryQueue)
          /\ NoneTwice(queryQueue, Null) => NoneTwice(queryQueue', Null)
      BY <1>0, <2>4, SwapLemma
    <3>2. Reorder
      BY <1>2, <2>1, <2>2, <3>1, ContentLemma DEF Reorder
    <3> QED BY <3>2 DEF Goal
  <2> QED BY <2>1, <2>3, <2>4
\* A call that aborts todo.
<1>7. ASSUME NEW self, NEW todo, RunAborted(self, todo),
             Range(todo) \subseteq Range(queryQueue),
             NoneTwice(queryQueue, Null) => NoneTwice(todo, Null)
      PROVE  Goal
  <2> DEFINE n == Len(stack) + 3
             f == [at |-> "aborted", self |-> self, todo |-> todo, d |-> Null]
  <2>1. /\ queryQueue' = removeIf(queryQueue, Range(todo)) /\ UNCHANGED <<finishedQueries, cur>>
        /\ stack' = Append(stack, f) /\ f.todo = todo
    BY <1>7 DEF RunAborted, Aborted, Enter
  <2> HIDE DEF f
  <2>2. /\ Len(stack') = Len(stack) + 1 /\ f = stack'[Len(stack) + 1]
        /\ \A i \in 1..Len(stack) : stack'[i] = stack[i]
    BY <1>0, <2>1
  <2>3. Content[n] = <<>> /\ Content'[n] = todo
    <3>1. n \in Nat /\ n > 2 /\ ~(n <= Len(stack) + 2) /\ n <= Len(stack') + 2
          /\ n - 2 = Len(stack) + 1
      BY <1>0, <2>2
    <3> HIDE DEF n
    <3>2. stack'[n - 2].todo = todo
      BY <2>1, <2>2, <3>1
    <3> QED BY <3>1, <3>2, ContentLemma
  <2>4. Others({0, n})
    <3> SUFFICES ASSUME NEW p \in Nat \ {0, n} PROVE Content'[p] = Content[p]
      BY DEF Others
    <3>1. CASE p \in {1, 2}
      BY <2>1, <3>1, ContentLemma
    <3>2. CASE p > 2 /\ p <= Len(stack) + 2
      <4>1. p - 2 \in 1..Len(stack) /\ p <= Len(stack') + 2
        BY <1>0, <2>2, <3>2
      <4> QED BY <2>2, <3>2, <4>1, ContentLemma, SMTT(30)
    <3>3. CASE p > Len(stack) + 2
      <4>1. ~(p <= Len(stack') + 2) /\ p > 2 /\ ~(p <= Len(stack) + 2)
        BY <1>0, <2>2, <3>3
      <4> QED BY <4>1, ContentLemma
    <3> QED BY <1>0, <3>1, <3>2, <3>3
  <2>5. AbortThem(todo)
    BY <1>7, <2>1, <2>3, <2>4, ContentLemma DEF AbortThem
  <2> QED BY <1>7, <2>5 DEF Goal
<1>8. ASSUME NEW q \in Query, Abort(q) PROVE Goal
  <2> DEFINE D == RunningOf(q) \cap Range(queryQueue)
  <2>1. PICK todo \in [1..Cardinality(D) -> D] :
           /\ \A i, j \in DOMAIN todo : i < j => todo[i] < todo[j]
           /\ RunAborted(q, todo)
    BY <1>8 DEF Abort
  <2>2. D \subseteq Nat
    <3>1. D \subseteq running /\ running \subseteq Data
      BY DEF RunningOf, BaseInv, TypeOK
    <3>2. Data \subseteq Nat
      BY ConstantLemma
    <3> QED BY <3>1, <3>2
  <2>3. todo \in Seq(Data)
    <3>1. D \in SUBSET running
      BY DEF RunningOf
    <3> HIDE DEF D
    <3> QED BY <2>1, <3>1, RemovedLemma
  <2>4. \A i \in DOMAIN todo : todo[i] \in D
    BY <2>1
  <2>5. Range(todo) \subseteq Range(queryQueue)
    BY <2>4 DEF Range
  <2>6. NoneTwice(todo, Null)
    <3> HIDE DEF D
    <3>1. DOMAIN todo \subseteq Nat
      BY <2>3
    <3> SUFFICES ASSUME NEW i \in DOMAIN todo, NEW j \in DOMAIN todo, todo[i] = todo[j]
                 PROVE  i = j
      BY DEF NoneTwice
    <3>2. todo[i] \in Nat
      BY <2>2, <2>4
    <3>3. ~(todo[i] < todo[j]) /\ ~(todo[j] < todo[i])
      BY <3>2
    <3>4. ~(i < j) /\ ~(j < i)
      BY <2>1, <3>3
    <3> QED BY <3>1, <3>4
  <2> HIDE DEF D
  <2> QED BY <1>7, <2>1, <2>5, <2>6
<1>9. CASE AbortAll
  BY <1>7, <1>9 DEF AbortAll
<1>10. CASE Disconnect \/ CollectDatabase
  <2>1. /\ queryQueue' = put(queryQueue, Null) /\ UNCHANGED <<finishedQueries, cur>>
        /\ UNCHANGED stack \/ \E at, self, d : Enter(at, self, <<>>, d)
    BY <1>10 DEF Disconnect, CollectDatabase, threadVars
  <2>2. Quiet
    BY <1>0, <2>1, QuietLemma
  <2> QED BY <1>4, <2>1, <2>2
<1>11. CASE WaitForQuery
  <2>1. /\ stack # <<>> /\ (\E at : Goto(at)) /\ UNCHANGED <<queryQueue, cur>>
        /\ \/ UNCHANGED finishedQueries
           \/ finishedQueries' = put(finishedQueries, Top.d) /\ Top.d \in failed'
    BY <1>11 DEF WaitForQuery, At
  <2>2. Quiet
    BY <1>0, <2>1, QuietLemma
  <2> QED BY <1>1, <1>3, <2>1, <2>2
<1>12. CASE ThinkTake
  <2>1. PICK f : Moved(f) /\ f.todo = finishedQueries /\ stack # <<>> /\ Top.todo = <<>>
    BY <1>12, TakeFrame
  <2>2. UNCHANGED <<queryQueue, cur>> /\ finishedQueries' = <<>>
    BY <1>12 DEF ThinkTake, Taken, threadVars
  <2> DEFINE n == Len(stack) + 2
  <2>3. /\ n \in Nat /\ n > 2 /\ Content[n] = <<>> /\ Content'[n] = finishedQueries
        /\ \A p \in Nat : p > 2 /\ p # n => Content'[p] = Content[p]
    BY <1>0, <2>1, MovedLemma
  <2> HIDE DEF n
  <2>4. Others({2, n})
    BY <2>2, <2>3, ContentLemma DEF Others
  <2>5. TakeResults
    BY <2>2, <2>3, <2>4, ContentLemma DEF TakeResults, n
  <2> QED BY <2>5 DEF Goal
<1>13. CASE Finished
  <2>1. PICK f : Moved(f) /\ f.todo = Tail(Top.todo) /\ stack # <<>> /\ Top.todo # <<>>
    BY <1>13, FinishFrame
  <2>2. UNCHANGED <<queryQueue, cur, finishedQueries>>
    BY <1>13 DEF Finished, CallbackReturns, RunCallback, threadVars, queueVars
  <2> DEFINE n == Len(stack) + 2
  <2>3. /\ n \in Nat /\ n > 2 /\ Content[n] = Top.todo /\ Content'[n] = Tail(Top.todo)
        /\ \A p \in Nat : p > 2 /\ p # n => Content'[p] = Content[p]
    BY <1>0, <2>1, MovedLemma
  <2> HIDE DEF n
  <2>4. Others({n})
    BY <2>2, <2>3, ContentLemma DEF Others
  <2>5. Finish
    BY <2>1, <2>3, <2>4 DEF Finish, n
  <2> QED BY <1>13, <2>5 DEF Goal
<1>14. CASE Take
  <2>1. /\ NonEmpty(queryQueue) /\ queryQueue' = Tail(queryQueue) /\ cur = Null
        /\ cur' = Head(queryQueue) /\ UNCHANGED <<finishedQueries, stack>>
    BY <1>14 DEF Take
  <2>2. Quiet
    BY <1>0, <2>1, QuietLemma
  <2>3. TakeOne
    BY <2>1, <2>2, ContentLemma DEF TakeOne, Others, Quiet
  <2> QED BY <2>3 DEF Goal
<1>15. CASE Execute
  <2>1. /\ finishedQueries' = put(finishedQueries, cur) /\ cur # Null /\ cur' = Null
        /\ UNCHANGED <<queryQueue, stack>>
    BY <1>15 DEF Execute
  <2>2. Quiet
    BY <1>0, <2>1, QuietLemma
  <2>3. ExecuteOne
    BY <2>1, <2>2, ContentLemma DEF ExecuteOne, Others, Quiet
  <2> QED BY <2>3 DEF Goal
<1>16. CASE EndThread
  <2>1. UNCHANGED <<queryQueue, cur, stack>>
    BY <1>16 DEF EndThread
  <2>2. Quiet
    BY <1>0, <2>1, QuietLemma
  <2>3. CASE At({"sleeping"}) /\ ~finished[Top.d]
    <3>1. finishedQueries' = finishedQueries \o <<Top.d>> /\ failed' = failed \cup Range(<<Top.d>>)
      BY <1>16, <2>3 DEF EndThread
    <3>2. Top.d \in Data
      <4>1. Top \in Frame /\ Top.at = "sleeping" /\ Top = stack[Len(stack)]
            /\ Len(stack) \in 1..Len(stack)
        BY <1>0, <2>3, TopLemma
      <4>2. Top.d \in 1..built /\ 1..built \subseteq Data
        BY <4>1, ConstantLemma DEF BaseInv, TypeOK, FrameInv, FrameOK
      <4> QED BY <4>2
    <3>3. Top.d \in failed' /\ finishedQueries' = put(finishedQueries, Top.d)
      BY <1>0, <3>1, <3>2 DEF put, Range
    <3> QED BY <1>3, <2>1, <2>2, <3>3
  <2>4. CASE ~(At({"sleeping"}) /\ ~finished[Top.d])
    <3>1. finishedQueries' = finishedQueries \o <<>>
      BY <1>16, <2>4 DEF EndThread
    <3> QED BY <1>0, <1>1, <2>1, <2>2, <3>1
  <2> QED BY <2>3, <2>4
<1>17. CASE Destroyed
  <2>1. /\ At({"destroying"}) /\ queryQueue' = <<>> /\ finishedQueries' = <<>>
        /\ UNCHANGED cur /\ stack # <<>> /\ Return
    BY <1>17 DEF Destroyed, threadVars, At
  <2>2. Top.todo = <<>>
    <3>1. Top.at = "destroying" /\ Top = stack[Len(stack)] /\ Len(stack) \in 1..Len(stack)
      BY <1>0, <2>1, TopLemma
    <3> QED BY <3>1 DEF BaseInv, FrameInv, FrameOK, Finishing
  <2>3. Quiet
    BY <1>0, <2>1, <2>2, QuietLemma
  <2>4. Clear
    BY <2>1, <2>3, ContentLemma DEF Clear, Others, Quiet
  <2> QED BY <2>1, <2>4 DEF Goal
<1>18. CASE \/ \E q \in Query : CreateQuery(q) \/ Collect(q)
           \/ Connect \/ ConnectWait \/ Forget \/ ThinkHook \/ Unblock
           \/ ThinkConnection \/ ConnectionReported
           \/ (RunCallback /\ references[Head(Top.todo)] # "zero")
           \/ EndConnecting \/ Gone \/ UNCHANGED vars
  <2>1. /\ UNCHANGED <<queryQueue, finishedQueries, cur>>
        /\ \/ UNCHANGED stack
           \/ \E at, self, d : Enter(at, self, <<>>, d)
           \/ stack # <<>> /\ \E at : Goto(at)
    BY <1>18 DEF CreateQuery, Collect, Connect, Connecting, ConnectWait, Forget, ThinkHook,
       Unblock, ThinkConnection, ConnectionReported, Reported, RunCallback,
       EndConnecting, Gone, vars, queueVars, threadVars, At
  <2>2. Quiet
    BY <1>0, <2>1, QuietLemma
  <2> QED BY <1>1, <2>1, <2>2
<1>19. CASE NoMoreCallbacks \/ ThinkDisconnected \/ OnDisconnectedReturns
  <2>1. /\ UNCHANGED <<queryQueue, finishedQueries, cur>> /\ stack # <<>>
        /\ At({"results", "aborted", "disconnected", "disconnectedCallback"})
        /\ At({"results", "aborted"}) => Top.todo = <<>>
        /\ Return \/ \E at : Goto(at)
    BY <1>19 DEF NoMoreCallbacks, ThinkDisconnected, OnDisconnectedReturns, queueVars,
       threadVars, At
  <2>2. Top.todo = <<>>
    <3>1. /\ Top.at \in {"results", "aborted", "disconnected", "disconnectedCallback"}
          /\ Top = stack[Len(stack)] /\ Len(stack) \in 1..Len(stack)
      BY <1>0, <2>1, TopLemma
    <3>2. CASE Top.at \in {"results", "aborted"}
      BY <2>1, <3>2 DEF At
    <3>3. CASE Top.at \in {"disconnected", "disconnectedCallback"}
      BY <3>1, <3>3 DEF BaseInv, FrameInv, FrameOK, Finishing
    <3> QED BY <3>1, <3>2, <3>3
  <2>3. Quiet
    BY <1>0, <2>1, <2>2, QuietLemma
  <2> QED BY <1>1, <2>1, <2>3
<1> QED
  BY <1>5, <1>6, <1>8, <1>9, <1>10, <1>11, <1>12, <1>13, <1>14, <1>15, <1>16, <1>17,
     <1>18, <1>19
  DEF Next, Call, InCall, ReturnFromCallback, DatabaseThread, Finished

(* The sites hold data that were built.                                    *)
LEMMA ContentType ==
    ASSUME BaseInv, NEW p \in Nat
    PROVE  Content[p] \in Seq(Data \cup {Null}) /\ Range(Content[p]) \subseteq 1..built \cup {Null}
<1>0. /\ queryQueue \in Seq(Data \cup {Null}) /\ finishedQueries \in Seq(Data)
      /\ cur \in Data \cup {Null} /\ stack \in Seq(Frame)
      /\ Range(queryQueue) \subseteq 1..built \cup {Null}
      /\ Range(finishedQueries) \subseteq 1..built /\ cur \in 1..built \cup {Null}
  BY DEF BaseInv, TypeOK, BuiltInv
<1>1. CASE p = 0
  BY <1>0, <1>1, ContentLemma
<1>2. CASE p = 1
  <2>1. CASE cur = Null
    BY <1>2, <2>1, ContentLemma, EmptyLemma
  <2>2. CASE cur # Null
    <3>1. Content[p] = <<cur>> /\ <<cur>> \in Seq(Data \cup {Null})
      BY <1>0, <1>2, <2>2, ContentLemma
    <3>2. Range(<<cur>>) = {cur}
      BY DEF Range
    <3> QED BY <1>0, <3>1, <3>2
  <2> QED BY <2>1, <2>2
<1>3. CASE p = 2
  BY <1>0, <1>3, ContentLemma
<1>4. CASE p > 2 /\ p <= Len(stack) + 2
  <2>1. Content[p] = stack[p - 2].todo /\ p - 2 \in 1..Len(stack)
    BY <1>0, <1>4, ContentLemma
  <2>2. stack[p - 2] \in Frame /\ FrameOK(stack[p - 2], built)
    BY <1>0, <2>1 DEF BaseInv, FrameInv
  <2>3. stack[p - 2].todo \in Seq(Data) /\ Range(stack[p - 2].todo) \subseteq 1..built
    BY <2>2 DEF Frame, FrameOK
  <2> QED BY <2>1, <2>3
<1>5. CASE p > 2 /\ ~(p <= Len(stack) + 2)
  BY <1>5, ContentLemma, EmptyLemma
<1> QED BY <1>1, <1>2, <1>3, <1>4, <1>5

\* A data whose callback has not run is somewhere; only a collected database
\* waits for its thread in order to clear the queues.
ComingInv ==
    /\ \A d \in running : \E p \in Nat : d \in Range(Content[p])
    /\ \A i \in 1..Len(stack) : stack[i].at = "destroying" => destroyed

(* Nothing runs in the initial states.                                     *)
LEMMA ComingInit == Init => ComingInv
BY DEF Init, ComingInv

(* No step loses a data that stays in runningQueryData.                    *)
LEMMA ComingContent ==
    ASSUME BaseInv, AliveInv, ComingInv, [Next]_vars, NEW d \in running, d \in running'
    PROVE  \E p \in Nat : d \in Range(Content'[p])
<1> DEFINE Goal == \E p \in Nat : d \in Range(Content'[p])
<1> SUFFICES Goal
  OBVIOUS
<1>0. /\ stack \in Seq(Frame) /\ Len(stack) + 2 \in Nat /\ Len(stack) + 3 \in Nat
      /\ Len(stack) + 3 # 0 /\ d \in Data /\ d # Null
  BY ConstantLemma DEF BaseInv, TypeOK
<1>1. PICK p \in Nat : d \in Range(Content[p])
  BY DEF ComingInv
<1>2. /\ Content[p] \in Seq(Data \cup {Null}) /\ Content[0] \in Seq(Data \cup {Null})
      /\ Content[1] \in Seq(Data \cup {Null}) /\ Content[2] \in Seq(Data \cup {Null})
  BY <1>1, ContentType
<1>3. ASSUME NEW P, Others(P), p \notin P PROVE Goal
  BY <1>1, <1>3 DEF Others
<1>4. \A e \in Data \cup {Null} : \A q \in Seq(Data \cup {Null}) :
         Range(put(q, e)) = Range(q) \cup {e}
  BY PutLemma
<1>5. CASE Stand
  BY <1>3, <1>5 DEF Stand
<1>6. CASE Reorder
  <2>1. CASE p = 0
    BY <1>1, <1>6, <2>1 DEF Reorder
  <2> QED BY <1>3, <1>6, <2>1 DEF Reorder
<1>7. ASSUME NEW e \in Data \cup {Null}, Add(e) PROVE Goal
  <2>1. CASE p = 0
    <3>1. d \in Range(Content'[0])
      BY <1>1, <1>2, <1>4, <1>7, <2>1 DEF Add
    <3> QED BY <3>1
  <2> QED BY <1>3, <1>7, <2>1 DEF Add
<1>8. ASSUME NEW q \in Query, Start(q), Add(built + 1) PROVE Goal
  <2>1. built + 1 \in Data
    BY <1>8, ConstantLemma DEF Start, Starting, BaseInv, TypeOK
  <2> QED BY <1>7, <1>8, <2>1
<1>9. ASSUME NEW todo, AbortThem(todo) PROVE Goal
  <2>1. CASE p = 0
    <3>1. Range(Content'[0]) = Range(Content[0]) \ Range(todo)
      <4>1. Content'[0] = removeIf(Content[0], Range(todo))
        BY <1>9 DEF AbortThem
      <4>2. Content[0] \in Seq(Data \cup {Null})
        BY <1>2
      <4>3. ASSUME NEW q \in Seq(Data \cup {Null}), NEW E
            PROVE  Range(removeIf(q, E)) = Range(q) \ E
        BY RemoveLemma, Zenon
      <4> QED BY <4>1, <4>2, <4>3
    <3>2. Content'[Len(stack) + 3] = todo
      BY <1>9 DEF AbortThem
    <3> QED BY <1>0, <1>1, <2>1, <3>1, <3>2
  <2>2. p # Len(stack) + 3
    BY <1>1, <1>9, EmptyLemma DEF AbortThem
  <2> QED BY <1>3, <1>9, <2>1, <2>2 DEF AbortThem
<1>10. ASSUME NEW e \in failed', Fail(e) PROVE Goal
  <2>1. e \in Data
    BY <1>10, RestStep DEF RestOK
  <2>2. CASE p = 2
    <3>1. d \in Range(Content'[2])
      BY <1>1, <1>2, <1>4, <1>10, <2>1, <2>2 DEF Fail
    <3> QED BY <3>1
  <2> QED BY <1>3, <1>10, <2>2 DEF Fail
<1>11. CASE TakeResults
  <2>1. CASE p = 2
    BY <1>0, <1>1, <1>11, <2>1 DEF TakeResults
  <2>2. p # Len(stack) + 2
    BY <1>1, <1>11, EmptyLemma DEF TakeResults
  <2> QED BY <1>3, <1>11, <2>1, <2>2 DEF TakeResults
<1>12. CASE Finished /\ Finish
  <2>1. CASE p = Len(stack) + 2
    <3>1. Top.todo # <<>> /\ Top.todo = Content[p] /\ Content'[p] = Tail(Content[p])
      BY <1>12, <2>1 DEF Finish
    <3>2. Top.todo \in Seq(Data)
      <4>1. stack # <<>>
        BY <1>12 DEF Finished, CallbackReturns, RunCallback, At
      <4>2. stack[Len(stack)] \in Frame
        BY <1>0, <4>1
      <4> QED BY <4>2 DEF Top, Frame
    <3>3. Range(Top.todo) = {Head(Top.todo)} \cup Range(Tail(Top.todo))
      BY <3>1, <3>2, TodoLemma
    <3>4. d # Head(Top.todo)
      <4>1. CASE CallbackReturns
        BY <4>1 DEF CallbackReturns, FinishLuaQueryData
      <4>2. CASE references[Head(Top.todo)] = "zero"
        BY <1>0, <4>2 DEF AliveInv
      <4> QED BY <1>12, <4>1, <4>2 DEF Finished
    <3> QED BY <1>1, <3>1, <3>3, <3>4
  <2> QED BY <1>3, <1>12, <2>1 DEF Finish
<1>13. CASE TakeOne
  <2>1. CASE p = 0
    <3>1. Range(Content[0]) = {Head(Content[0])} \cup Range(Tail(Content[0]))
      BY <1>2, <1>13, TakeLemma DEF TakeOne
    <3>2. CASE d \in Range(Tail(Content[0]))
      BY <1>13, <3>2 DEF TakeOne
    <3>3. CASE d = Head(Content[0])
      <4>1. Content'[1] = <<d>>
        BY <1>0, <1>13, <3>3 DEF TakeOne
      <4>2. d \in Range(Content'[1])
        BY <4>1 DEF Range
      <4> QED BY <4>2
    <3> QED BY <1>1, <2>1, <3>1, <3>2, <3>3
  <2>2. p # 1
    BY <1>1, <1>13, EmptyLemma DEF TakeOne
  <2> QED BY <1>3, <1>13, <2>1, <2>2 DEF TakeOne
<1>14. CASE ExecuteOne
  <2>0. cur \in Data \cup {Null} /\ Range(Content'[2]) = Range(Content[2]) \cup {cur}
    BY <1>2, <1>4, <1>14 DEF ExecuteOne, BaseInv, TypeOK
  <2>1. CASE p = 1
    <3>1. d = cur
      BY <1>1, <1>14, <2>1 DEF ExecuteOne, Range
    <3> QED BY <2>0, <3>1
  <2>2. CASE p = 2
    BY <1>1, <2>0, <2>2
  <2> QED BY <1>3, <1>14, <2>1, <2>2 DEF ExecuteOne
<1>15. CASE At({"destroying"}) /\ Clear
  <2>1. Top = stack[Len(stack)] /\ Len(stack) \in 1..Len(stack) /\ Top.at = "destroying"
    BY <1>0, <1>15, TopLemma
  <2> QED BY <2>1 DEF ComingInv, AliveInv
<1> HIDE DEF Goal
<1>16. Null \in Data \cup {Null}
  OBVIOUS
<1> QED
  BY <1>5, <1>6, <1>7, <1>8, <1>9, <1>10, <1>11, <1>12, <1>13, <1>14, <1>15, <1>16,
     ContentStep

(* ComingInv is inductive, relative to BaseInv and AliveInv.               *)
LEMMA ComingStep ==
    ASSUME BaseInv, AliveInv, ComingInv, [Next]_vars
    PROVE  ComingInv'
<1>1. ASSUME NEW d \in running' PROVE \E p \in Nat : d \in Range(Content'[p])
  <2>1. CASE d \in running
    BY <1>1, <2>1, ComingContent
  <2>2. CASE d \notin running
    <3>1. \E q \in Query : Start(q)
      <4>1. CASE RunCallback \/ CallbackReturns
        BY <1>1, <2>2, <4>1 DEF RunCallback, CallbackReturns, FinishLuaQueryData
      <4> QED BY <1>1, <2>2, <4>1, DataUnchanged
    <3>2. d = built + 1 /\ queryQueue' = put(queryQueue, d)
      BY <1>1, <2>2, <3>1 DEF Start, Starting
    <3>3. d \in Data /\ queryQueue \in Seq(Data \cup {Null})
      BY <1>1, DataStep DEF BaseInv, TypeOK
    <3>4. d \in Range(queryQueue')
      <4>1. d \in Data \cup {Null}
        BY <3>3
      <4> QED BY <3>2, <3>3, <4>1, PutLemma
    <3> QED BY <3>4, ContentLemma
  <2> QED BY <2>1, <2>2
<1>2. ASSUME NEW i \in 1..Len(stack'), stack'[i].at = "destroying" PROVE destroyed'
  <2>0. stack \in Seq(Frame) /\ Len(stack) \in Nat
    BY DEF BaseInv, TypeOK
  <2>1. destroyed => destroyed'
    BY ObjectsUnchanged DEF objectVars, CreateQuery, Collect, Forget, CollectDatabase
  <2>2. CASE i \in 1..Len(stack) /\ stack'[i] = stack[i]
    BY <1>2, <2>1, <2>2 DEF ComingInv
  <2>3. CASE UNCHANGED stack
    BY <1>2, <2>2, <2>3
  <2>4. ASSUME NEW f, Entered(f) PROVE destroyed'
    BY <1>2, <2>0, <2>2, <2>4 DEF Entered, Pushed, CollectDatabase
  <2>5. ASSUME NEW f, GoesOn(f) PROVE destroyed'
    BY <1>2, <2>0, <2>2, <2>5 DEF GoesOn, Allowed, Moved
  <2>6. CASE Left
    BY <1>2, <2>0, <2>2, <2>6 DEF Left, Popped
  <2> QED BY <2>3, <2>4, <2>5, <2>6, StackStep
<1> QED BY <1>1, <1>2 DEF ComingInv

(* Hence it is invariant.                                                  *)
LEMMA ComingCorrect == Spec => [](BaseInv /\ AliveInv /\ ComingInv)
<1>1. Init => BaseInv /\ AliveInv /\ ComingInv
  BY BaseInit, AliveInit, ComingInit
<1>2. BaseInv /\ AliveInv /\ ComingInv /\ [Next]_vars => (BaseInv /\ AliveInv /\ ComingInv)'
  BY BaseStep, AliveStep, ComingStep
<1> QED BY <1>1, <1>2, PTL DEF Spec

(* However the calls nest, a data whose callback has not run is queued,    *)
(* executing, finished or in a frame that will come to it.                 *)
THEOREM CallbackIsAlwaysComing == Spec => []CallbackIsComing
<1>1. BaseInv /\ ComingInv => CallbackIsComing
  <2> SUFFICES ASSUME BaseInv, ComingInv, NEW d \in running
               PROVE  \/ d \in Range(queryQueue) \cup Range(finishedQueries) \cup {cur}
                      \/ \E i \in DOMAIN stack : d \in Range(stack[i].todo)
    BY DEF CallbackIsComing
  <2>0. stack \in Seq(Frame)
    BY DEF BaseInv, TypeOK
  <2>1. PICK p \in Nat : d \in Range(Content[p])
    BY DEF ComingInv
  <2>2. CASE p \in {0, 1, 2}
    BY <2>1, <2>2, ContentLemma, EmptyLemma DEF Range
  <2>3. CASE p > 2
    <3>1. p <= Len(stack) + 2 /\ Content[p] = stack[p - 2].todo
      BY <2>1, <2>3, ContentLemma, EmptyLemma
    <3>2. p - 2 \in DOMAIN stack
      BY <2>0, <2>3, <3>1
    <3> QED BY <2>1, <3>1, <3>2
  <2> QED BY <2>2, <2>3
<1> QED BY <1>1, ComingCorrect, PTL

-----------------------------------------------------------------------------
(* One callback for each data *)

OnceIn(q, d) == \A i, j \in DOMAIN q : q[i] = d /\ q[j] = d => i = j

\* d is at one site at most, and there once.
Single(d) ==
    /\ \A p \in Nat : OnceIn(Content[p], d)
    /\ \A p, r \in Nat : d \in Range(Content[p]) /\ d \in Range(Content[r]) => p = r

\* A data that wait() has not failed is in one place; when its callback runs it
\* is the one in the frame of the callback.
OnceInv ==
    /\ NoneTwice(queryQueue, Null)
    /\ \A d \in 1..built \ failed :
          /\ Single(d) /\ ends[d] <= 1
          /\ \A p \in Nat : ends[d] > 0 /\ d \in Range(Content[p]) =>
                p > 2 /\ stack[p - 2].at \in EndCallback /\ Head(stack[p - 2].todo) = d

(* Nothing is built in the initial states.                                 *)
LEMMA OnceInit == Init => OnceInv
BY ConstantLemma DEF Init, OnceInv, NoneTwice

(* What putting does to the data that are in a sequence once.              *)
LEMMA OncePutLemma ==
    ASSUME NEW S, NEW q \in Seq(S), NEW d \in S, NEW e \in S,
           \/ OnceIn(q, d) /\ e # d
           \/ d \notin Range(q)
    PROVE  OnceIn(put(q, e), d)
<1>0. DOMAIN q = 1..Len(q) /\ Len(q) \in Nat
  OBVIOUS
<1>1. /\ put(q, e) \in Seq(S) /\ Len(put(q, e)) = Len(q) + 1
      /\ \A i \in 1..Len(q) : put(q, e)[i] = q[i]
      /\ put(q, e)[Len(q) + 1] = e
  BY DEF put
<1>2. DOMAIN put(q, e) = 1..Len(q) + 1
  BY <1>1
<1>3. \A i \in 1..Len(q) + 1 : i \in 1..Len(q) \/ i = Len(q) + 1
  BY <1>0
<1> QED BY <1>0, <1>1, <1>2, <1>3 DEF OnceIn, Range

(* What taking does to the data that are in a sequence once.               *)
LEMMA OnceLemma ==
    ASSUME NEW S, NEW q \in Seq(S), NEW d \in S
    PROVE  /\ d \notin Range(q) => OnceIn(q, d)
           /\ \A n : NoneTwice(q, n) /\ d # n => OnceIn(q, d)
           /\ NonEmpty(q) /\ OnceIn(q, d) =>
                 OnceIn(Tail(q), d) /\ (Head(q) = d => d \notin Range(Tail(q)))
<1>0. DOMAIN q = 1..Len(q) /\ Len(q) \in Nat
  OBVIOUS
<1>1. d \notin Range(q) => OnceIn(q, d)
  BY DEF OnceIn, Range
<1>2. \A n : NoneTwice(q, n) /\ d # n => OnceIn(q, d)
  BY DEF OnceIn, NoneTwice
<1>3. ASSUME NonEmpty(q), OnceIn(q, d)
      PROVE  OnceIn(Tail(q), d) /\ (Head(q) = d => d \notin Range(Tail(q)))
  <2>1. /\ Len(q) > 0 /\ Head(q) = q[1] /\ Tail(q) \in Seq(S)
        /\ Len(Tail(q)) = Len(q) - 1
        /\ \A i \in 1..Len(q)-1 : Tail(q)[i] = q[i + 1]
    BY <1>3 DEF NonEmpty
  <2>2. DOMAIN Tail(q) = 1..Len(q)-1
    BY <2>1
  <2>3. \A i \in 1..Len(q)-1 : i \in Nat /\ i + 1 \in 1..Len(q) /\ i + 1 # 1
    BY <1>0
  <2>4. OnceIn(Tail(q), d)
    <3> SUFFICES ASSUME NEW i \in 1..Len(q)-1, NEW j \in 1..Len(q)-1,
                        q[i + 1] = d, q[j + 1] = d
                 PROVE  i = j
      BY <2>1, <2>2 DEF OnceIn
    <3>1. i + 1 = j + 1
      BY <1>0, <1>3, <2>3 DEF OnceIn
    <3> QED BY <2>3, <3>1
  <2>5. ASSUME Head(q) = d, NEW i \in 1..Len(q)-1, Tail(q)[i] = d PROVE FALSE
    <3>1. 1 \in 1..Len(q) /\ q[1] = d /\ q[i + 1] = d
      BY <1>0, <2>1, <2>5
    <3>2. i + 1 = 1
      BY <1>0, <1>3, <2>3, <3>1 DEF OnceIn
    <3> QED BY <2>3, <3>2
  <2> QED BY <2>2, <2>4, <2>5 DEF Range
<1> QED BY <1>1, <1>2, <1>3

\* Between a and b (or at a) d may move, but it does not multiply.
Transfer(d, a, b) ==
    /\ Others({a, b})
    /\ OnceIn(Content'[a], d) /\ OnceIn(Content'[b], d)
    /\ d \in Range(Content'[a]) \cup Range(Content'[b]) =>
          d \in Range(Content[a]) \cup Range(Content[b])
    /\ a # b /\ d \in Range(Content'[a]) => d \notin Range(Content'[b])

(* A data that may move from a to b stays single.                          *)
LEMMA TransferLemma ==
    ASSUME NEW d, NEW a \in Nat, NEW b \in Nat, Single(d), Transfer(d, a, b)
    PROVE  /\ \A p \in Nat : OnceIn(Content'[p], d)
           /\ \A p, r \in Nat :
                d \in Range(Content'[p]) /\ d \in Range(Content'[r]) => p = r
           /\ \A p \in Nat : d \in Range(Content'[p]) =>
                \E r \in Nat : d \in Range(Content[r])
<1>1. \A p \in Nat : p # a /\ p # b => Content'[p] = Content[p]
  BY DEF Transfer, Others
<1>2. \A p \in Nat : OnceIn(Content'[p], d)
  BY <1>1 DEF Transfer, Single
<1>3. ASSUME NEW p \in Nat, NEW r \in Nat,
             d \in Range(Content'[p]), d \in Range(Content'[r])
      PROVE  p = r
  <2>1. CASE p \notin {a, b} /\ r \notin {a, b}
    BY <1>1, <1>3, <2>1 DEF Single
  <2>2. CASE p \in {a, b} /\ r \in {a, b}
    BY <1>3, <2>2 DEF Transfer
  <2>3. CASE p \in {a, b} /\ r \notin {a, b}
    <3>1. d \in Range(Content[r]) /\ d \in Range(Content[a]) \cup Range(Content[b])
      BY <1>1, <1>3, <2>3 DEF Transfer
    <3> QED BY <2>3, <3>1 DEF Single
  <2>4. CASE p \notin {a, b} /\ r \in {a, b}
    <3>1. d \in Range(Content[p]) /\ d \in Range(Content[a]) \cup Range(Content[b])
      BY <1>1, <1>3, <2>4 DEF Transfer
    <3> QED BY <2>4, <3>1 DEF Single
  <2> QED BY <2>1, <2>2, <2>3, <2>4
<1>4. ASSUME NEW p \in Nat, d \in Range(Content'[p])
      PROVE  \E r \in Nat : d \in Range(Content[r])
  <2>1. CASE p \in {a, b}
    BY <1>4, <2>1 DEF Transfer
  <2>2. CASE p \notin {a, b}
    BY <1>1, <1>4, <2>2
  <2> QED BY <2>1, <2>2
<1> QED BY <1>2, <1>3, <1>4

(* A step moves a data that is there once, if wait() does not fail it.     *)
LEMMA SingleStep ==
    ASSUME BaseInv, NoneTwice(queryQueue, Null), [Next]_vars,
           NEW d \in 1..built, d \notin failed', Single(d)
    PROVE  /\ \A p \in Nat : OnceIn(Content'[p], d)
           /\ \A p, r \in Nat :
                d \in Range(Content'[p]) /\ d \in Range(Content'[r]) => p = r
           /\ \A p \in Nat : d \in Range(Content'[p]) =>
                \E r \in Nat : d \in Range(Content[r])
<1> DEFINE Goal == \E a, b \in Nat : Transfer(d, a, b)
<1> SUFFICES Goal
  BY TransferLemma
<1>0. /\ stack \in Seq(Frame) /\ Len(stack) + 2 \in Nat /\ Len(stack) + 3 \in Nat
      /\ Len(stack) + 3 # 0 /\ d \in Data /\ d # Null /\ d # built + 1
      /\ d \in Data \cup {Null} /\ Null \in Data \cup {Null}
      /\ NoneTwice(Content[0], Null)
  <2>1. stack \in Seq(Frame) /\ built \in 0..MaxData
    BY DEF BaseInv, TypeOK
  <2> QED BY <2>1, ConstantLemma, ContentLemma
<1>1. \A p \in Nat : Content[p] \in Seq(Data \cup {Null}) /\ OnceIn(Content[p], d)
  BY ContentType DEF Single
<1>2. ASSUME NEW e \in Data \cup {Null}, NEW p \in Nat
      PROVE  /\ Range(put(Content[p], e)) = Range(Content[p]) \cup {e}
             /\ e # d \/ d \notin Range(Content[p]) => OnceIn(put(Content[p], e), d)
  <2>1. Range(put(Content[p], e)) = Range(Content[p]) \cup {e}
    BY <1>1, PutLemma
  <2>2. /\ OnceIn(Content[p], d) /\ e # d => OnceIn(put(Content[p], e), d)
        /\ d \notin Range(Content[p]) => OnceIn(put(Content[p], e), d)
    <3>1. ASSUME \/ OnceIn(Content[p], d) /\ e # d
                 \/ d \notin Range(Content[p])
          PROVE  OnceIn(put(Content[p], e), d)
      BY <1>0, <1>1, <3>1, OncePutLemma
    <3> QED BY <3>1
  <2> QED BY <1>1, <2>1, <2>2
<1>3. /\ OnceIn(<<>>, d) /\ d \notin Range(<<>>)
      /\ \A e : OnceIn(<<e>>, d) /\ Range(<<e>>) = {e}
  BY DEF OnceIn, Range
<1>4. CASE Stand
  <2>1. Transfer(d, 0, 0)
    BY <1>1, <1>4 DEF Transfer, Stand, Others
  <2> QED BY <2>1
<1>5. CASE Reorder
  <2>1. OnceIn(Content'[0], d)
    BY <1>0, <1>5 DEF Reorder, OnceIn, NoneTwice
  <2>2. Transfer(d, 0, 0)
    BY <1>5, <2>1 DEF Transfer, Reorder
  <2> QED BY <2>2
<1>6. ASSUME NEW e \in Data \cup {Null}, e # d, Add(e) PROVE Goal
  <2>1. /\ Range(put(Content[0], e)) = Range(Content[0]) \cup {e}
        /\ OnceIn(put(Content[0], e), d)
    BY <1>2, <1>6
  <2>2. Others({0, 0}) /\ Content'[0] = put(Content[0], e)
    BY <1>6 DEF Add, Others
  <2>3. Transfer(d, 0, 0)
    BY <1>6, <2>1, <2>2 DEF Transfer
  <2> QED BY <2>3
<1>7. ASSUME NEW q \in Query, Start(q), Add(built + 1) PROVE Goal
  <2>1. built + 1 \in Data
    BY <1>7, ConstantLemma DEF Start, Starting, BaseInv, TypeOK
  <2> QED BY <1>0, <1>6, <1>7, <2>1
<1>8. ASSUME NEW todo, AbortThem(todo) PROVE Goal
  <2> DEFINE n == Len(stack) + 3
  <2>1. /\ Others({0, n}) /\ Content'[n] = todo
        /\ Content'[0] = removeIf(Content[0], Range(todo))
        /\ Range(todo) \subseteq Range(Content[0]) /\ NoneTwice(todo, Null)
    BY <1>0, <1>8 DEF AbortThem
  <2>2. /\ Range(removeIf(Content[0], Range(todo))) = Range(Content[0]) \ Range(todo)
        /\ NoneTwice(removeIf(Content[0], Range(todo)), Null)
    BY <1>0, <1>1, RemoveLemma
  <2>3. OnceIn(Content'[0], d) /\ OnceIn(Content'[n], d)
    BY <1>0, <2>1, <2>2 DEF OnceIn, NoneTwice
  <2>4. n \in Nat
    BY <1>0
  <2> HIDE DEF n
  <2>5. Transfer(d, 0, n)
    BY <2>1, <2>2, <2>3 DEF Transfer
  <2> QED BY <2>4, <2>5
<1>9. ASSUME NEW e \in failed', Fail(e) PROVE Goal
  <2>1. e \in Data \cup {Null} /\ e # d
    BY <1>9, RestStep DEF RestOK
  <2>2. /\ Range(put(Content[2], e)) = Range(Content[2]) \cup {e}
        /\ OnceIn(put(Content[2], e), d)
    BY <1>2, <2>1
  <2>3. Others({2, 2}) /\ Content'[2] = put(Content[2], e)
    BY <1>9 DEF Fail, Others
  <2>4. Transfer(d, 2, 2)
    BY <2>1, <2>2, <2>3 DEF Transfer
  <2> QED BY <2>4
<1>10. CASE TakeResults
  <2> DEFINE n == Len(stack) + 2
  <2>1. /\ Others({2, n}) /\ Content'[n] = Content[2] /\ Content'[2] = <<>> /\ n \in Nat
    BY <1>0, <1>10 DEF TakeResults
  <2> HIDE DEF n
  <2>2. Transfer(d, 2, n)
    BY <1>1, <1>3, <2>1 DEF Transfer
  <2> QED BY <2>1, <2>2
<1>11. CASE Finish
  <2> DEFINE n == Len(stack) + 2
  <2>1. /\ Others({n}) /\ Content'[n] = Tail(Content[n]) /\ Content[n] # <<>> /\ n \in Nat
    BY <1>0, <1>11 DEF Finish
  <2> HIDE DEF n
  <2>2. NonEmpty(Content[n]) /\ Content[n] \in Seq(Data \cup {Null})
    BY <1>1, <2>1 DEF NonEmpty
  <2>3. OnceIn(Tail(Content[n]), d)
    BY <1>0, <1>1, <2>1, <2>2, OnceLemma
  <2>4. Range(Tail(Content[n])) \subseteq Range(Content[n])
    BY <2>2, TakeLemma
  <2>5. Transfer(d, n, n)
    BY <2>1, <2>3, <2>4 DEF Transfer
  <2> QED BY <2>1, <2>5
<1>12. CASE TakeOne
  <2>1. /\ NonEmpty(Content[0]) /\ Content[0] \in Seq(Data \cup {Null})
        /\ OnceIn(Content[0], d)
        /\ Others({0, 1}) /\ Content'[0] = Tail(Content[0])
        /\ Content'[1] = IF Head(Content[0]) = Null THEN <<>> ELSE <<Head(Content[0])>>
    BY <1>1, <1>12 DEF TakeOne
  <2>2. /\ OnceIn(Tail(Content[0]), d)
        /\ Head(Content[0]) = d => d \notin Range(Tail(Content[0]))
    BY <1>0, <2>1, OnceLemma
  <2>3. Range(Content[0]) = {Head(Content[0])} \cup Range(Tail(Content[0]))
    BY <2>1, TakeLemma
  <2>4. /\ OnceIn(Content'[1], d)
        /\ d \in Range(Content'[1]) => d = Head(Content[0])
    BY <1>3, <2>1
  <2>5. Transfer(d, 0, 1)
    BY <2>1, <2>2, <2>3, <2>4 DEF Transfer
  <2> QED BY <2>5
<1>13. CASE ExecuteOne
  <2>1. /\ Others({1, 2}) /\ Content[1] = <<cur>> /\ Content'[1] = <<>>
        /\ Content'[2] = put(Content[2], cur) /\ cur \in Data \cup {Null}
    BY <1>13 DEF ExecuteOne, BaseInv, TypeOK
  <2>2. Range(Content'[2]) = Range(Content[2]) \cup Range(Content[1])
    BY <1>1, <1>2, <1>3, <2>1
  <2>3. cur = d => d \notin Range(Content[2])
    <3>1. cur = d => d \in Range(Content[1])
      BY <1>3, <2>1
    <3> QED BY <3>1 DEF Single
  <2>4. OnceIn(Content'[2], d)
    <3>1. cur # d \/ d \notin Range(Content[2]) => OnceIn(put(Content[2], cur), d)
      BY <1>2, <2>1
    <3> QED BY <2>1, <2>3, <3>1
  <2>5. Transfer(d, 1, 2)
    BY <1>3, <2>1, <2>2, <2>4 DEF Transfer
  <2> QED BY <2>5
<1>14. CASE Clear
  <2>1. Transfer(d, 0, 2)
    BY <1>3, <1>14 DEF Transfer, Clear
  <2> QED BY <2>1
<1> HIDE DEF Goal
<1> QED
  BY <1>0, <1>4, <1>5, <1>6, <1>7, <1>8, <1>9, <1>10, <1>11, <1>12, <1>13, <1>14,
     ContentStep

(* No data is twice in the queue.                                          *)
LEMMA QueueOnceStep ==
    ASSUME BaseInv, NoneTwice(queryQueue, Null), [Next]_vars
    PROVE  NoneTwice(queryQueue', Null)
<1>0. /\ Content[0] = queryQueue /\ Content'[0] = queryQueue'
      /\ queryQueue \in Seq(Data \cup {Null}) /\ built \in Nat
      /\ Range(queryQueue) \subseteq 1..built \cup {Null}
      /\ 0 \in Nat /\ Len(stack) + 2 # 0
  BY ContentLemma, ConstantLemma DEF BaseInv, TypeOK, BuiltInv
<1>1. CASE \E P : Others(P) /\ 0 \notin P
  BY <1>0, <1>1 DEF Others
<1>2. CASE Reorder
  BY <1>0, <1>2 DEF Reorder
<1>3. CASE Add(Null)
  <2>1. Null \in Data \cup {Null}
    OBVIOUS
  <2> QED BY <1>0, <1>3, <2>1, PutLemma DEF Add
<1>4. ASSUME NEW q \in Query, Start(q), Add(built + 1) PROVE NoneTwice(queryQueue', Null)
  <2>1. built + 1 \in Data \cup {Null}
    BY <1>4, ConstantLemma DEF Start, Starting, BaseInv, TypeOK
  <2>2. built + 1 \notin Range(queryQueue)
    BY <1>0, ConstantLemma
  <2> QED BY <1>0, <1>4, <2>1, <2>2, PutLemma DEF Add
<1>5. ASSUME NEW todo, AbortThem(todo) PROVE NoneTwice(queryQueue', Null)
  <2>1. queryQueue' = removeIf(queryQueue, Range(todo))
    BY <1>0, <1>5 DEF AbortThem
  <2> QED BY <1>0, <2>1, RemoveLemma
<1>6. CASE TakeOne
  <2>1. NonEmpty(queryQueue) /\ queryQueue' = Tail(queryQueue)
    BY <1>0, <1>6 DEF TakeOne
  <2> QED BY <1>0, <2>1, TakeLemma
<1>7. CASE Clear
  <2>1. queryQueue' = <<>>
    BY <1>0, <1>7 DEF Clear
  <2> QED BY <2>1 DEF NoneTwice
<1>8. CASE Stand \/ (\E d \in failed' : Fail(d)) \/ TakeResults \/ Finish \/ ExecuteOne
  <2>1. \E P : Others(P) /\ 0 \notin P
    <3>1. 0 \notin {} /\ 0 \notin {2} /\ 0 \notin {2, Len(stack) + 2}
          /\ 0 \notin {Len(stack) + 2} /\ 0 \notin {1, 2}
      BY <1>0
    <3> QED BY <1>8, <3>1 DEF Stand, Fail, TakeResults, Finish, ExecuteOne
  <2> QED BY <1>1, <2>1
<1> QED BY <1>2, <1>3, <1>4, <1>5, <1>6, <1>7, <1>8, ContentStep

(* wait() never takes back that a data failed.                             *)
LEMMA FailedStep == [Next]_vars => failed \subseteq failed'
BY DEF Next, Call, InCall, ReturnFromCallback, DatabaseThread, Gone, vars, CreateQuery,
   Start, Starting, Wait, Abort, AbortAll, RunAborted, Aborted, Connect, Connecting,
   ConnectWait, Disconnect, Forget, ThinkHook, WaitForQuery, Unblock, ThinkConnection,
   ConnectionReported, Reported, ThinkTake, Taken, RunCallback, CallbackReturns,
   NoMoreCallbacks, ThinkDisconnected, Destroyed, OnDisconnectedReturns, Collect,
   CollectDatabase, EndConnecting, Take, Execute, EndThread, historyVars

(* A data that is started now is in the queue only.                        *)
LEMMA StartedSingle ==
    ASSUME BaseInv, NEW q \in Query, Start(q)
    PROVE  /\ \A p \in Nat : OnceIn(Content'[p], built + 1)
           /\ \A p, r \in Nat : built + 1 \in Range(Content'[p])
                                /\ built + 1 \in Range(Content'[r]) => p = r
           /\ ends'[built + 1] = 0
<1>0. /\ built \in Nat /\ built + 1 \in Data /\ built + 1 \in Data \cup {Null}
      /\ UNCHANGED <<stack, finishedQueries, cur, ends>>
      /\ queryQueue' = put(queryQueue, built + 1) /\ stack \in Seq(Frame)
  BY ConstantLemma DEF Start, Starting, threadVars, historyVars, BaseInv, TypeOK
<1>1. Quiet
  BY <1>0, QuietLemma
<1>2. \A p \in Nat : p # 0 => Content'[p] = Content[p]
  BY <1>0, <1>1, ContentLemma DEF Quiet
<1>3. Content'[0] = put(Content[0], built + 1)
  BY <1>0, ContentLemma
<1>4. ASSUME NEW p \in Nat
      PROVE  Content[p] \in Seq(Data \cup {Null}) /\ built + 1 \notin Range(Content[p])
  <2>1. Content[p] \in Seq(Data \cup {Null}) /\ Range(Content[p]) \subseteq 1..built \cup {Null}
    BY ContentType
  <2>2. built + 1 \notin 1..built \cup {Null}
    BY <1>0, ConstantLemma
  <2> QED BY <2>1, <2>2
<1>5. ASSUME NEW p \in Nat PROVE OnceIn(Content'[p], built + 1)
  <2>1. CASE p = 0
    BY <1>0, <1>3, <1>4, <2>1, OncePutLemma
  <2>2. CASE p # 0
    BY <1>0, <1>2, <1>4, <2>2, OnceLemma
  <2> QED BY <2>1, <2>2
<1>6. ends'[built + 1] = 0
  BY <1>0 DEF BaseInv, BuiltInv
<1> QED BY <1>2, <1>4, <1>5, <1>6

(* OnceInv is inductive, relative to the invariants before it: the         *)
(* callback of a single data runs in the only frame that has it.           *)
LEMMA OnceStep ==
    ASSUME BaseInv, AliveInv, NestInv, OnceInv, [Next]_vars
    PROVE  OnceInv'
<1>0. /\ built \in Nat /\ 1..built \subseteq Data /\ ends \in [Data -> Nat]
      /\ stack \in Seq(Frame) /\ Len(stack) \in Nat
      /\ stack' \in Seq(Frame) /\ Len(stack') \in Nat
  <2>1. built \in 0..MaxData /\ ends \in [Data -> Nat] /\ stack \in Seq(Frame)
    BY DEF BaseInv, TypeOK
  <2>2. stack' \in Seq(Frame)
    BY FrameStep
  <2> QED BY <2>1, <2>2, ConstantLemma
<1>1. NoneTwice(queryQueue', Null)
  BY QueueOnceStep DEF OnceInv
\* What has to be shown of a data.
<1> DEFINE Apart(d) ==
              /\ \A p \in Nat : OnceIn(Content'[p], d)
              /\ \A p, r \in Nat :
                   d \in Range(Content'[p]) /\ d \in Range(Content'[r]) => p = r
           Called(d) ==
              \A p \in Nat : ends'[d] > 0 /\ d \in Range(Content'[p]) =>
                 p > 2 /\ stack'[p - 2].at \in EndCallback /\ Head(stack'[p - 2].todo) = d
<1>2. ASSUME NEW d \in 1..built, d \notin failed'
      PROVE  Apart(d) /\ ends'[d] <= 1 /\ Called(d)
  <2>0. /\ d \in Data /\ Single(d) /\ ends[d] <= 1 /\ ends[d] \in Nat
        /\ \A p \in Nat : ends[d] > 0 /\ d \in Range(Content[p]) =>
              p > 2 /\ stack[p - 2].at \in EndCallback /\ Head(stack[p - 2].todo) = d
    BY <1>0, <1>2, FailedStep DEF OnceInv
  <2>1. Apart(d)
    BY <1>2, <2>0, SingleStep DEF OnceInv
  <2>2. CASE RunCallback /\ d = Head(Top.todo) /\ ends' # ends
    <3> DEFINE n == Len(stack)
    <3>1. /\ n \in Nat \ {0} /\ Top = stack[n] /\ Top.at \in {"results", "aborted"}
          /\ Top.todo # <<>>
          /\ ends' = [ends EXCEPT ![d] = @ + 1]
          /\ Len(stack') = n /\ stack'[n].todo = Top.todo /\ stack'[n].at \in EndCallback
      BY <2>2, RunLemma
    <3>2. n \in Nat /\ n + 2 \in Nat /\ n + 2 > 2 /\ n + 2 <= Len(stack) + 2
          /\ n + 2 <= Len(stack') + 2 /\ (n + 2) - 2 = n
      BY <3>1
    <3> HIDE DEF n
    <3>3. Content[n + 2] = Top.todo /\ Content'[n + 2] = Top.todo
      BY <3>1, <3>2, ContentLemma
    <3>4. d \in Range(Top.todo)
      BY <2>2, NextLemma DEF RunCallback
    <3>5. ends[d] = 0
      <4>1. ~(ends[d] > 0)
        <5> SUFFICES ASSUME ends[d] > 0 PROVE FALSE
          OBVIOUS
        <5>1. stack[n].at \in EndCallback
          BY <2>0, <3>2, <3>3, <3>4
        <5> QED BY <3>1, <5>1 DEF EndCallback
      <4> QED BY <2>0, <4>1
    <3>6. ends'[d] <= 1
      BY <1>0, <2>0, <3>1, <3>5
    <3>7. \A p \in Nat : d \in Range(Content'[p]) => p = n + 2
      BY <2>1, <3>2, <3>3, <3>4
    <3>8. Called(d)
      BY <2>2, <3>1, <3>2, <3>7
    <3> QED BY <2>1, <3>6, <3>8
  <2>3. CASE ~(RunCallback /\ d = Head(Top.todo) /\ ends' # ends)
    <3>1. ends'[d] = ends[d]
      <4>1. CASE RunCallback
        <5>1. ends' # ends => ends' = [ends EXCEPT ![Head(Top.todo)] = @ + 1]
          BY <4>1, RunLemma
        <5> QED BY <1>0, <2>0, <2>3, <4>1, <5>1
      <4>2. CASE \E q \in Query : Start(q)
        BY <4>2 DEF Start, Starting, historyVars
      <4>3. CASE CallbackReturns
        BY <4>3 DEF CallbackReturns
      <4> QED BY <4>1, <4>2, <4>3, DataUnchanged
    <3>2. ASSUME ends[d] > 0, NEW p \in Nat, d \in Range(Content'[p])
          PROVE  p > 2 /\ stack'[p - 2].at \in EndCallback /\ Head(stack'[p - 2].todo) = d
      <4>1. PICK r \in Nat : d \in Range(Content[r])
        BY <1>2, <2>0, <3>2, SingleStep DEF OnceInv
      <4> DEFINE i == r - 2
      <4>2. r > 2 /\ stack[i].at \in EndCallback /\ Head(stack[i].todo) = d
        BY <2>0, <3>2, <4>1
      <4>3. Content[r] = stack[i].todo /\ r <= Len(stack) + 2
        BY <4>1, <4>2, ContentLemma, EmptyLemma
      <4>4. i \in 1..Len(stack) /\ r = i + 2
        BY <1>0, <4>2, <4>3
      <4> HIDE DEF i
      <4>5. CASE ~(CallbackReturns /\ i = Len(stack))
        <5>1. i \in 1..Len(stack') /\ stack'[i] = stack[i]
          BY <4>2, <4>4, <4>5, CallbacksStay
        <5>2. r <= Len(stack') + 2 /\ r - 2 = i
          BY <1>0, <4>4, <5>1
        <5>3. Content'[r] = stack[i].todo
          BY <4>2, <5>1, <5>2, ContentLemma
        <5>4. p = r
          BY <2>1, <3>2, <4>1, <4>3, <5>3
        <5> QED BY <4>2, <5>1, <5>2, <5>4
      <4>6. CASE CallbackReturns /\ i = Len(stack)
        <5>1. PICK f : Moved(f) /\ f.todo = Tail(Top.todo) /\ stack # <<>> /\ Top.todo # <<>>
          BY <4>6, FinishFrame DEF Finished
        <5>2. /\ Content[r] = Top.todo /\ Content'[r] = Tail(Top.todo)
              /\ \A x \in Nat : x > 2 /\ x # r => Content'[x] = Content[x]
          BY <1>0, <4>4, <4>6, <5>1, MovedLemma
        <5>3. UNCHANGED <<queryQueue, finishedQueries, cur>>
          BY <4>6 DEF CallbackReturns, threadVars, queueVars
        <5>4. p # r => Content'[p] = Content[p]
          BY <5>2, <5>3, ContentLemma
        <5>5. p = r
          BY <2>0, <3>2, <4>1, <5>4 DEF Single
        <5>6. d \notin Range(Tail(Content[r]))
          <6>1. /\ Content[r] \in Seq(Data \cup {Null}) /\ NonEmpty(Content[r])
                /\ d \in Data \cup {Null} /\ OnceIn(Content[r], d)
            BY <2>0, <5>1, <5>2, ContentType DEF Single, NonEmpty
          <6>2. Head(Content[r]) = d
            BY <4>2, <4>3
          <6> QED BY <6>1, <6>2, OnceLemma
        <5> QED BY <3>2, <5>2, <5>5, <5>6
      <4> QED BY <4>5, <4>6
    <3> QED BY <2>0, <2>1, <3>1, <3>2
  <2> QED BY <2>2, <2>3
<1>3. ASSUME NEW q \in Query, Start(q)
      PROVE  Apart(built + 1) /\ ends'[built + 1] <= 1 /\ Called(built + 1)
  BY <1>3, StartedSingle
<1>4. ASSUME NEW d \in 1..built', d \notin failed'
      PROVE  Apart(d) /\ ends'[d] <= 1 /\ Called(d)
  <2>1. d \in 1..built \/ (d = built + 1 /\ \E q \in Query : Start(q))
    <3>1. CASE built' = built
      BY <3>1
    <3>2. CASE built' # built
      <4>1. PICK q \in Query : Start(q)
        BY <3>2, BuiltStep
      <4>2. built' = built + 1
        BY <4>1 DEF Start, Starting
      <4> QED BY <1>0, <1>4, <4>1, <4>2
    <3> QED BY <3>1, <3>2
  <2> QED BY <1>2, <1>3, <1>4, <2>1
<1> QED BY <1>1, <1>4 DEF OnceInv, Single

(* Hence it is invariant.                                                  *)
LEMMA OnceCorrect == Spec => [](BaseInv /\ AliveInv /\ NestInv /\ OnceInv)
<1>1. Init => BaseInv /\ AliveInv /\ NestInv /\ OnceInv
  BY BaseInit, AliveInit, NestInit, OnceInit
<1>2. BaseInv /\ AliveInv /\ NestInv /\ OnceInv /\ [Next]_vars
        => (BaseInv /\ AliveInv /\ NestInv /\ OnceInv)'
  BY BaseStep, AliveStep, NestStep, OnceStep
<1> QED BY <1>1, <1>2, PTL DEF Spec

(* Each start gets one end callback, and only a data that wait() failed    *)
(* can get more than one.                                                  *)
THEOREM EndsExactlyOnce == Spec => []EndsOnce
<1>1. BaseInv /\ NestInv /\ OnceInv => EndsOnce
  <2> SUFFICES ASSUME BaseInv, NestInv, OnceInv, NEW d \in 1..built
               PROVE  /\ d \notin failed => ends[d] <= 1
                      /\ d \notin running => ends[d] >= 1
    BY DEF EndsOnce
  <2>1. ends[d] \in Nat
    BY ConstantLemma DEF BaseInv, TypeOK
  <2>2. d \notin failed => ends[d] <= 1
    BY DEF OnceInv
  <2>3. d \notin running => ends[d] > 0
    BY DEF NestInv
  <2> QED BY <2>1, <2>2, <2>3
<1> QED BY <1>1, OnceCorrect, PTL

-----------------------------------------------------------------------------
(* The reference to the table of the database *)

ReportPlaces == {"connectionCallback", "connectionReported"}

\* connect() creates the reference.  When it has been freed, or is about to be, the
\* connection has been reported, no frame is in its report, and onDisconnected is
\* not called again; it is about to be freed in one frame only.
RefInv ==
    /\ thread = "none" =>
          /\ m_tableReference = "zero"
          /\ \A i \in 1..Len(stack) : stack[i].at # "disconnectedCallback"
    /\ disorder = {} =>
          /\ misuse = None
          /\ \/ m_tableReference = "freed"
             \/ \E i \in 1..Len(stack) : stack[i].at = "disconnectedCallback"
             => /\ m_dbCallbackRan /\ ~m_hasOnDisconnected
                /\ \A i \in 1..Len(stack) : stack[i].at \notin ReportPlaces
          /\ \A i \in 1..Len(stack) : stack[i].at = "disconnectedCallback" =>
                /\ m_tableReference = "live"
                /\ \A j \in 1..Len(stack) : stack[j].at = "disconnectedCallback" => i = j

(* There is no reference in the initial states.                            *)
LEMMA RefInit == Init => RefInv
BY DEF Init, RefInv

(* What changes the reference, and what may misuse one.                    *)
LEMMA RefActions ==
    ASSUME [Next]_vars
    PROVE  /\ thread' = "none" => thread = "none"
           /\ disorder \subseteq disorder'
           /\ m_dbCallbackRan => m_dbCallbackRan'
           /\ \/ m_tableReference' = m_tableReference
              \/ Connect \/ ConnectionReported \/ OnDisconnectedReturns
           /\ m_hasOnDisconnected' => m_hasOnDisconnected \/ Connect
           /\ \/ misuse' = misuse
              \/ Connect \/ ThinkConnection \/ ConnectionReported \/ RunCallback
              \/ CallbackReturns \/ ThinkDisconnected \/ OnDisconnectedReturns
<1> USE DEF Next, Call, InCall, ReturnFromCallback, DatabaseThread, Gone, vars, CreateQuery,
       Start, Starting, Wait, Abort, AbortAll, RunAborted, Aborted, ConnectWait, Disconnect,
       Forget, ThinkHook, WaitForQuery, Unblock, ThinkTake, Taken, NoMoreCallbacks,
       Destroyed, Collect, CollectDatabase, EndConnecting, Take, Execute, EndThread,
       threadVars, tableVars, historyVars
<1>1. thread' = "none" => thread = "none"
  BY DEF Connect, Connecting, ThinkConnection, ConnectionReported, Reported, RunCallback,
     CallbackReturns, ThinkDisconnected, OnDisconnectedReturns
<1>2. disorder \subseteq disorder'
  BY DEF Connect, Connecting, ThinkConnection, ConnectionReported, Reported, RunCallback,
     CallbackReturns, ThinkDisconnected, OnDisconnectedReturns
<1>3. m_dbCallbackRan => m_dbCallbackRan'
  BY DEF Connect, Connecting, ThinkConnection, ConnectionReported, Reported, RunCallback,
     CallbackReturns, ThinkDisconnected, OnDisconnectedReturns
<1>4. \/ m_tableReference' = m_tableReference
      \/ Connect \/ ConnectionReported \/ OnDisconnectedReturns
  BY DEF ThinkConnection, RunCallback, CallbackReturns, ThinkDisconnected
<1>5. m_hasOnDisconnected' => m_hasOnDisconnected \/ Connect
  BY DEF ThinkConnection, ConnectionReported, Reported, RunCallback, CallbackReturns,
     ThinkDisconnected, OnDisconnectedReturns
<1>6. \/ misuse' = misuse
      \/ Connect \/ ThinkConnection \/ ConnectionReported \/ RunCallback
      \/ CallbackReturns \/ ThinkDisconnected \/ OnDisconnectedReturns
  OBVIOUS
<1> QED BY <1>1, <1>2, <1>3, <1>4, <1>5, <1>6

(* Frames that report the connection, or its end, came to it as they       *)
(* should.                                                                 *)
LEMMA ReportFrames ==
    ASSUME BaseInv, [Next]_vars, NEW i \in 1..Len(stack'),
           stack'[i].at \in ReportPlaces \cup {"disconnectedCallback"}
    PROVE  \/ i \in 1..Len(stack) /\ stack'[i] = stack[i]
           \/ stack'[i].at \in ReportPlaces /\ Reporting
           \/ stack'[i].at = "disconnectedCallback" /\ Ending /\ i = Len(stack)
<1>0. stack \in Seq(Frame) /\ Len(stack) \in Nat
  BY DEF BaseInv, TypeOK
<1>1. CASE UNCHANGED stack
  BY <1>0, <1>1
<1>2. ASSUME NEW f, Entered(f) PROVE i \in 1..Len(stack) /\ stack'[i] = stack[i]
  BY <1>0, <1>2 DEF Entered, Pushed, ReportPlaces, Callback
<1>3. ASSUME NEW f, GoesOn(f)
      PROVE  \/ i \in 1..Len(stack) /\ stack'[i] = stack[i]
             \/ stack'[i].at \in ReportPlaces /\ Reporting
             \/ stack'[i].at = "disconnectedCallback" /\ Ending /\ i = Len(stack)
  <2>1. Moved(f) /\ stack # <<>> /\ Allowed(f.at)
    BY <1>3 DEF GoesOn
  <2>2. CASE i # Len(stack)
    BY <1>0, <2>1, <2>2 DEF Moved
  <2>3. CASE i = Len(stack)
    BY <2>1, <2>3 DEF Moved, Allowed, ReportPlaces
  <2> QED BY <2>2, <2>3
<1>4. CASE Left
  BY <1>0, <1>4 DEF Left, Popped
<1> QED BY <1>1, <1>2, <1>3, <1>4, StackStep

(* RefInv is inductive, relative to BaseInv and AliveInv.                  *)
LEMMA RefStep ==
    ASSUME BaseInv, AliveInv, RefInv, [Next]_vars
    PROVE  RefInv'
<1>0. /\ stack \in Seq(Frame) /\ Len(stack) \in Nat
      /\ m_dbCallbackRan \in BOOLEAN /\ m_tableReference \in Reference
  BY DEF BaseInv, TypeOK
<1>1. ASSUME thread' = "none"
      PROVE  /\ m_tableReference' = "zero"
             /\ \A i \in 1..Len(stack') : stack'[i].at # "disconnectedCallback"
  <2>1. /\ thread = "none" /\ m_tableReference = "zero"
        /\ \A i \in 1..Len(stack) : stack[i].at # "disconnectedCallback"
    BY <1>1, RefActions DEF RefInv
  <2>2. ~Connect
    BY <1>1 DEF Connect, Connecting
  <2>3. ~OnDisconnectedReturns
    <3> SUFFICES ASSUME OnDisconnectedReturns PROVE FALSE
      OBVIOUS
    <3>1. Len(stack) \in 1..Len(stack) /\ stack[Len(stack)].at = "disconnectedCallback"
      BY <1>0, TopLemma DEF OnDisconnectedReturns
    <3> QED BY <2>1, <3>1
  <2>4. m_tableReference' = "zero"
    BY <2>1, <2>2, <2>3, RefActions DEF ConnectionReported, Reported
  <2>5. \A i \in 1..Len(stack') : stack'[i].at # "disconnectedCallback"
    <3>1. ~Ending
      BY <2>1 DEF Ending, WasDisconnected
    <3> QED BY <2>1, <3>1, ReportFrames DEF ReportPlaces
  <2> QED BY <2>4, <2>5
<1>2. ASSUME disorder' = {} PROVE disorder = {} /\ misuse = None
  BY <1>2, RefActions DEF RefInv
\* Before a freed reference could be used again.
<1>3. ASSUME disorder' = {}, m_tableReference = "freed"
      PROVE  ~Connect /\ ~Reporting /\ ~ConnectionReported
  <2>1. /\ m_dbCallbackRan /\ thread # "none"
        /\ \A i \in 1..Len(stack) : stack[i].at \notin ReportPlaces
    BY <1>2, <1>3 DEF RefInv
  <2>2. ~Connect
    BY <1>3, <2>1 DEF Connect, Connecting
  <2>3. ~ConnectionReported
    <3> SUFFICES ASSUME ConnectionReported PROVE FALSE
      OBVIOUS
    <3>1. Len(stack) \in 1..Len(stack) /\ stack[Len(stack)].at \in ReportPlaces
      BY <1>0, TopLemma DEF ConnectionReported, Reported, ReportPlaces
    <3> QED BY <2>1, <3>1
  <2> QED BY <2>1, <2>2, <2>3 DEF Reporting
<1>4. ASSUME disorder' = {} PROVE misuse' = None
  <2>1. CASE Connect
    BY <1>2, <1>3, <1>4, <2>1 DEF Connect, Connecting
  <2>2. CASE ThinkConnection
    BY <1>2, <1>3, <1>4, <2>2 DEF ThinkConnection, Reporting
  <2>3. CASE ConnectionReported
    BY <1>2, <1>3, <1>4, <2>3 DEF ConnectionReported, Reported
  <2>4. CASE RunCallback
    <3>1. references[Head(Top.todo)] # "freed"
      <4>1. Head(Top.todo) \in Data
        BY <2>4, NextLemma DEF RunCallback
      <4> QED BY <4>1 DEF AliveInv
    <3> QED BY <2>4, <3>1 DEF RunCallback, FinishLuaQueryData
  <2>5. CASE CallbackReturns
    <3>1. references[Head(Top.todo)] # "freed"
      BY <2>5, ReturnsLemma DEF AliveInv
    <3> QED BY <2>5, <3>1 DEF CallbackReturns, FinishLuaQueryData
  <2>6. CASE ThinkDisconnected
    BY <1>2, <1>4, <2>6 DEF RefInv, ThinkDisconnected
  <2>7. CASE OnDisconnectedReturns
    <3>1. Len(stack) \in 1..Len(stack) /\ stack[Len(stack)].at = "disconnectedCallback"
      BY <1>0, <2>7, TopLemma DEF OnDisconnectedReturns
    <3> QED BY <1>2, <1>4, <2>7, <3>1 DEF RefInv, OnDisconnectedReturns
  <2> QED BY <1>2, <1>4, <2>1, <2>2, <2>3, <2>4, <2>5, <2>6, <2>7, RefActions
<1>5. ASSUME disorder' = {},
             \/ m_tableReference' = "freed"
             \/ \E i \in 1..Len(stack') : stack'[i].at = "disconnectedCallback"
      PROVE  /\ m_dbCallbackRan' /\ ~m_hasOnDisconnected'
             /\ \A i \in 1..Len(stack') : stack'[i].at \notin ReportPlaces
  <2>1. /\ m_dbCallbackRan /\ ~m_hasOnDisconnected'
        /\ \A i \in 1..Len(stack) : stack[i].at \notin ReportPlaces
    <3>1. CASE \/ m_tableReference = "freed"
               \/ \E i \in 1..Len(stack) : stack[i].at = "disconnectedCallback"
      <4>1. /\ m_dbCallbackRan /\ ~m_hasOnDisconnected /\ thread # "none"
            /\ \A i \in 1..Len(stack) : stack[i].at \notin ReportPlaces
        BY <1>2, <1>5, <3>1 DEF RefInv
      <4>2. ~Connect
        BY <1>5, <4>1 DEF Connect, Connecting
      <4> QED BY <4>1, <4>2, RefActions
    <3>2. CASE OnDisconnectedReturns
      <4>1. Len(stack) \in 1..Len(stack) /\ stack[Len(stack)].at = "disconnectedCallback"
        BY <1>0, <3>2, TopLemma DEF OnDisconnectedReturns
      <4> QED BY <3>1, <4>1
    <3>3. CASE Ending
      <4>1. ~ConnectionUnreported
        BY <1>5, <3>3 DEF Ending
      <4>2. \A i \in 1..Len(stack) : stack[i].at # "connectionCallback"
        BY <1>0, <4>1 DEF ConnectionUnreported
      <4>3. \A i \in 1..Len(stack)-1 : stack[i].at \in Callback
        BY DEF BaseInv, FrameInv
      <4>4. stack[Len(stack)].at = "disconnected" /\ Len(stack) \in 1..Len(stack)
        BY <1>0, <3>3, TopLemma DEF Ending
      <4>5. \A i \in 1..Len(stack) : stack[i].at # "connectionReported"
        <5> SUFFICES ASSUME NEW i \in 1..Len(stack), stack[i].at = "connectionReported"
                     PROVE  FALSE
          OBVIOUS
        <5>1. i # Len(stack) /\ Len(stack) \in Nat
          BY <1>0, <4>4
        <5>2. i \in 1..Len(stack)-1
          BY <5>1
        <5> QED BY <4>3, <5>2 DEF Callback
      <4>6. ~m_hasOnDisconnected'
        BY <3>3 DEF Ending
      <4> QED BY <4>1, <4>2, <4>5, <4>6 DEF ConnectionUnreported, ReportPlaces
    <3>4. CASE m_tableReference' = "freed"
      <4>1. CASE Connect
        BY <3>1, <3>4, <4>1 DEF Connect, Connecting
      <4>2. CASE ConnectionReported
        BY <3>1, <3>4, <4>2 DEF ConnectionReported, Reported
      <4> QED BY <3>1, <3>2, <3>4, <4>1, <4>2, RefActions
    <3>5. CASE \E i \in 1..Len(stack') : stack'[i].at = "disconnectedCallback"
      BY <3>1, <3>3, <3>5, ReportFrames DEF ReportPlaces
    <3> QED BY <1>5, <3>4, <3>5
  <2>2. m_dbCallbackRan' /\ ~Reporting
    BY <2>1, RefActions DEF Reporting
  <2> QED BY <2>1, <2>2, ReportFrames DEF ReportPlaces
\* onDisconnected runs in one frame, and the reference is live there.
<1>6. ASSUME disorder' = {}, NEW i \in 1..Len(stack'), NEW j \in 1..Len(stack'),
             stack'[i].at = "disconnectedCallback"
      PROVE  /\ m_tableReference' = "live"
             /\ stack'[j].at = "disconnectedCallback" => i = j
  <2>1. CASE Ending
    <3>1. \A k \in 1..Len(stack) : stack[k].at # "disconnectedCallback"
      BY <1>2, <1>6, <2>1 DEF RefInv, Ending
    <3>2. m_tableReference' = "live"
      BY <1>0, <1>2, <1>6, <2>1 DEF RefInv, Ending, Reference
    <3> QED BY <1>6, <3>1, <3>2, ReportFrames DEF ReportPlaces
  <2>2. CASE ~Ending
    <3>1. i \in 1..Len(stack) /\ stack[i].at = "disconnectedCallback"
      BY <1>6, <2>2, ReportFrames DEF ReportPlaces
    <3>2. /\ m_tableReference = "live" /\ thread # "none"
          /\ \A k \in 1..Len(stack) : stack[k].at = "disconnectedCallback" => i = k
          /\ \A k \in 1..Len(stack) : stack[k].at \notin ReportPlaces
      BY <1>2, <1>6, <3>1 DEF RefInv
    <3>3. stack'[j].at = "disconnectedCallback" => i = j
      BY <2>2, <3>2, ReportFrames DEF ReportPlaces
    <3>4. ~Connect
      BY <1>6, <3>2 DEF Connect, Connecting
    <3>5. ~ConnectionReported
      <4> SUFFICES ASSUME ConnectionReported PROVE FALSE
        OBVIOUS
      <4>1. Len(stack) \in 1..Len(stack) /\ stack[Len(stack)].at \in ReportPlaces
        BY <1>0, TopLemma DEF ConnectionReported, Reported, ReportPlaces
      <4> QED BY <3>2, <4>1
    <3>6. ~OnDisconnectedReturns
      <4> SUFFICES ASSUME OnDisconnectedReturns PROVE FALSE
        OBVIOUS
      <4>1. Len(stack) \in 1..Len(stack) /\ stack[Len(stack)].at = "disconnectedCallback"
        BY <1>0, TopLemma DEF OnDisconnectedReturns
      <4>2. Len(stack') = Len(stack) - 1
        BY <1>0, ReturnLemma DEF OnDisconnectedReturns, At, Popped
      <4>3. i = Len(stack)
        BY <3>2, <4>1
      <4> QED BY <1>0, <1>6, <4>2, <4>3
    <3> QED BY <3>2, <3>3, <3>4, <3>5, <3>6, RefActions
  <2> QED BY <2>1, <2>2
<1> QED BY <1>1, <1>4, <1>5, <1>6 DEF RefInv

(* Hence it is invariant.                                                  *)
LEMMA RefCorrect == Spec => [](BaseInv /\ AliveInv /\ RefInv)
<1>1. Init => BaseInv /\ AliveInv /\ RefInv
  BY BaseInit, AliveInit, RefInit
<1>2. BaseInv /\ AliveInv /\ RefInv /\ [Next]_vars => (BaseInv /\ AliveInv /\ RefInv)'
  BY BaseStep, AliveStep, RefStep
<1> QED BY <1>1, <1>2, PTL DEF Spec

(* No freed reference is used or freed again, but in the two situations    *)
(* that ReferencesSound names.                                             *)
THEOREM ReferencesAlwaysSound == Spec => []ReferencesSound
<1>1. RefInv => ReferencesSound
  BY DEF RefInv, ReferencesSound
<1> QED BY <1>1, RefCorrect, PTL
=============================================================================
