--------------------------- MODULE LifecycleProofs ---------------------------
(***************************************************************************)
(* Proofs of the safety properties of Lifecycle, for any number of         *)
(* controllers, loops, watermark tasks and flush permits.                  *)
(***************************************************************************)
EXTENDS Lifecycle, FiniteSetTheorems, TLAPS

USE DEF vars, loopVars, callVars, bounds

-----------------------------------------------------------------------------
(* Types.                                                                  *)

FlagType ==
    /\ running \in BOOLEAN
    /\ handles \in Gens \cup {None}
    /\ inflight \subseteq Triggers
    /\ slow \subseteq Triggers /\ late \subseteq Triggers
    /\ starts \in Nat /\ stops \in Nat
LoopType ==
    /\ loop \in [Gens -> [Loops -> LoopState]]
    /\ aborted \subseteq Gens /\ inner \subseteq Gens
TaskType == task \in [Triggers -> {"seen", "ready", "flush", "done"}]
CallType ==
    /\ ctl \in [Controllers -> CtlState]
    /\ held \in [Controllers -> Gens \cup {None}]
    /\ awaited \in [Controllers -> SUBSET Triggers]
    /\ alone \in [Controllers -> BOOLEAN]
PlainType == FlagType /\ LoopType /\ TaskType /\ CallType

(* A stop holds handles exactly while it gives the loops their grace.      *)
HeldShape == \A c \in Controllers : ctl[c] = "grace" <=> held[c] # None

(* Who holds a permit.                                                     *)
Callers == {c \in Controllers : ctl[c] = "flush"}
Tasks == {t \in Triggers : task[t] = "flush"}

PermitCount ==
    /\ free \in Nat
    /\ free + Cardinality(inner) + Cardinality(Callers) + Cardinality(Tasks) = Permits

(* A call that moves on keeps the calls well typed.                        *)
LEMMA GotoType ==
  ASSUME CallType, NEW c \in Controllers, NEW p \in CtlState, Goto(c, p)
  PROVE  /\ ctl' \in [Controllers -> CtlState]
         /\ ctl'[c] = p
         /\ \A d \in Controllers \ {c} : ctl'[d] = ctl[d]
BY DEF CallType, Goto

(* Entering a call resets who has the agent to itself.                     *)
LEMMA EnterType ==
  ASSUME CallType, NEW c \in Controllers, NEW p \in CtlState, Enter(c, p),
         UNCHANGED <<held, awaited>>
  PROVE  CallType'
<1>1. ctl' \in [Controllers -> CtlState]
  BY GotoType DEF Enter
<1>2. alone' \in [Controllers -> BOOLEAN]
  BY DEF Enter
<1>3. QED
  BY <1>1, <1>2 DEF CallType

(* The steps of start and stop.                                            *)
LEMMA CallStepType ==
  ASSUME PlainType, HeldShape, NEW c \in Controllers, Start(c) \/ Stop(c) \/ CallStep(c)
  PROVE  PlainType'
<1>0. FlagType /\ LoopType /\ TaskType /\ CallType /\ None \notin Gens
  BY LifecycleAssumption DEF PlainType
<1>1. CASE Start(c)
  <2>1. CallType'
    BY <1>0, <1>1, EnterType DEF Start, CtlState
  <2>2. FlagType'
    BY <1>0, <1>1 DEF FlagType, Start, Enter
  <2>3. LoopType' /\ TaskType'
    BY <1>0, <1>1 DEF LoopType, TaskType, Start
  <2>4. QED
    BY <2>1, <2>2, <2>3 DEF PlainType
<1>2. CASE Stop(c)
  <2>1. CallType'
    BY <1>0, <1>2, EnterType DEF Stop, CtlState
  <2>2. FlagType'
    <3>1. running' \in BOOLEAN /\ UNCHANGED <<handles, inflight, slow, late, starts>>
      BY <1>2 DEF Stop, Enter
    <3>2. stops' \in Nat
      BY <1>0, <1>2 DEF FlagType, Stop
    <3>3. QED
      BY <1>0, <3>1, <3>2 DEF FlagType
  <2>3. LoopType' /\ TaskType'
    BY <1>0, <1>2 DEF LoopType, TaskType, Stop
  <2>4. QED
    BY <2>1, <2>2, <2>3 DEF PlainType
<1>3. CASE SpawnLoops(c)
  <2> DEFINE g == CHOOSE h \in Gens : Fresh(h)
  <2>1. MaySpawn => g \in Gens
    BY <1>3 DEF SpawnLoops
  <2> HIDE DEF g
  <2>2. \/ /\ handles' = g /\ g \in Gens
           /\ loop' = [loop EXCEPT ![g] = [l \in Loops |-> "busy"]]
           /\ aborted' = aborted \ {g}
        \/ UNCHANGED <<handles, loop, aborted>>
    BY <1>3, <2>1 DEF SpawnLoops, g
  <2>3. UNCHANGED <<running, inflight, slow, late, starts, stops, inner, task, held,
                  awaited, alone>>
    BY <1>3 DEF SpawnLoops
  <2>4. CallType'
    BY <1>0, <1>3, <2>3, GotoType DEF SpawnLoops, CallType, CtlState
  <2>5. FlagType' /\ TaskType'
    BY <1>0, <2>2, <2>3 DEF FlagType, TaskType
  <2>6. [l \in Loops |-> "busy"] \in [Loops -> LoopState]
    BY DEF LoopState
  <2>7. LoopType'
    BY <1>0, <2>2, <2>3, <2>6 DEF LoopType
  <2>8. QED
    BY <2>4, <2>5, <2>7 DEF PlainType
<1>4. CASE NotifyWaiters(c)
  <2>1. CallType'
    BY <1>0, <1>4, GotoType DEF NotifyWaiters, CallType, CtlState
  <2>2. FlagType' /\ TaskType'
    BY <1>0, <1>4 DEF NotifyWaiters, FlagType, TaskType
  <2>3. \A g \in Gens, l \in Loops :
           (IF loop[g][l] = "wait" THEN "notified" ELSE loop[g][l]) \in LoopState
    BY <1>0 DEF LoopType, LoopState
  <2>4. LoopType'
    BY <1>0, <1>4, <2>3 DEF NotifyWaiters, LoopType
  <2>5. QED
    BY <2>1, <2>2, <2>4 DEF PlainType
<1>5. CASE TakeHandles(c) \/ JoinLoops(c) \/ GraceExpires(c)
  <2>1. CallType'
    <3>1. ctl' \in [Controllers -> CtlState]
      BY <1>0, <1>5, GotoType DEF TakeHandles, JoinLoops, GraceExpires, CtlState
    <3>2. held' \in [Controllers -> Gens \cup {None}]
      BY <1>0, <1>5 DEF TakeHandles, JoinLoops, GraceExpires, CallType, FlagType
    <3>3. QED
      BY <1>0, <1>5, <3>1, <3>2 DEF TakeHandles, JoinLoops, GraceExpires, CallType
  <2>2. FlagType' /\ TaskType'
    BY <1>0, <1>5 DEF TakeHandles, JoinLoops, GraceExpires, FlagType, TaskType
  <2>3. LoopType'
    <3>1. CASE GraceExpires(c)
      <4>1. held[c] \in Gens
        BY <1>0, <3>1 DEF CallType, HeldShape, GraceExpires
      <4>2. QED
        BY <1>0, <3>1, <4>1 DEF GraceExpires, LoopType, CallType
    <3>2. CASE TakeHandles(c) \/ JoinLoops(c)
      BY <1>0, <3>2 DEF TakeHandles, JoinLoops, LoopType
    <3>3. QED
      BY <1>5, <3>1, <3>2
  <2>4. QED
    BY <2>1, <2>2, <2>3 DEF PlainType
<1>6. CASE CollectInflight(c) \/ AwaitInflight(c)
  <2>1. CallType'
    <3>1. ctl' \in [Controllers -> CtlState]
      BY <1>0, <1>6, GotoType DEF CollectInflight, AwaitInflight, CtlState
    <3>2. awaited' \in [Controllers -> SUBSET Triggers]
      BY <1>0, <1>6 DEF CollectInflight, AwaitInflight, CallType, FlagType
    <3>3. QED
      BY <1>0, <1>6, <3>1, <3>2 DEF CollectInflight, AwaitInflight, CallType
  <2>2. FlagType' /\ TaskType' /\ LoopType'
    BY <1>0, <1>6 DEF CollectInflight, AwaitInflight, FlagType, TaskType, LoopType, Unfinished
  <2>3. QED
    BY <2>1, <2>2 DEF PlainType
<1>7. CASE AcquirePermit(c) \/ FinalFlushDone(c)
  <2>1. CallType'
    BY <1>0, <1>7, GotoType DEF AcquirePermit, FinalFlushDone, CallType, CtlState
  <2>2. FlagType' /\ TaskType' /\ LoopType'
    BY <1>0, <1>7 DEF AcquirePermit, FinalFlushDone, FlagType, TaskType, LoopType
  <2>3. QED
    BY <2>1, <2>2 DEF PlainType
<1>8. QED
  BY <1>1, <1>2, <1>3, <1>4, <1>5, <1>6, <1>7 DEF CallStep

(* The steps of the loops and of the watermark tasks.                      *)
LEMMA TaskStepType ==
  ASSUME PlainType,
         \/ \E g \in Gens : InnerDone(g) \/ \E l \in Loops : LoopStep(g, l)
         \/ \E t \in Triggers : SeeRunning(t) \/ TrackInflight(t) \/ RunTask(t) \/ TaskDone(t)
  PROVE  PlainType'
<1>0. FlagType /\ LoopType /\ TaskType /\ CallType
  BY DEF PlainType
<1>1. ASSUME NEW g \in Gens, InnerDone(g) PROVE PlainType'
  BY <1>0, <1>1 DEF InnerDone, PlainType, FlagType, LoopType, TaskType, CallType
<1>2. ASSUME NEW g \in Gens, NEW l \in Loops, LoopStep(g, l) PROVE PlainType'
  <2>1. PICK from, to \in LoopState : Move(g, l, from, to)
    BY <1>2 DEF LoopStep, Wait, Notified, Tick, CheckRunning, Cancel, LoopState
  <2>2. inner' \subseteq Gens
    BY <1>0, <1>2 DEF LoopStep, Wait, Notified, Tick, CheckRunning, Cancel, LoopType
  <2>3. loop' \in [Gens -> [Loops -> LoopState]]
    BY <1>0, <2>1 DEF Move, LoopType
  <2>4. FlagType' /\ TaskType' /\ CallType' /\ UNCHANGED aborted
    BY <1>0, <2>1 DEF Move, FlagType, TaskType, CallType
  <2>5. QED
    BY <1>0, <2>2, <2>3, <2>4 DEF PlainType, LoopType
<1>3. ASSUME NEW t \in Triggers, SeeRunning(t) \/ TrackInflight(t) \/ RunTask(t) \/ TaskDone(t)
      PROVE  PlainType'
  <2>1. TaskType'
    BY <1>0, <1>3 DEF SeeRunning, TrackInflight, RunTask, TaskDone, SetTask, TaskType
  <2>2. LoopType' /\ CallType'
    BY <1>0, <1>3 DEF SeeRunning, TrackInflight, RunTask, TaskDone, LoopType, CallType
  <2>3. FlagType'
    BY <1>0, <1>3 DEF SeeRunning, TrackInflight, RunTask, TaskDone, FlagType
  <2>4. QED
    BY <2>1, <2>2, <2>3 DEF PlainType
<1>4. QED
  BY <1>1, <1>2, <1>3

(* Handles are taken on the way into the grace period and dropped on the   *)
(* way out of it.                                                          *)
LEMMA StepHeldShape ==
  ASSUME PlainType, HeldShape, [Next]_vars
  PROVE  HeldShape'
<1>0. CallType /\ FlagType /\ None \notin Gens
  BY LifecycleAssumption DEF PlainType
<1>1. ASSUME NEW c \in Controllers, TakeHandles(c) PROVE HeldShape'
  <2>1. held[c] = None /\ held'[c] = handles /\ \A d \in Controllers \ {c} : held'[d] = held[d]
    BY <1>0, <1>1 DEF TakeHandles, HeldShape, CallType
  <2>2. /\ ctl'[c] = IF handles = None THEN "collect" ELSE "grace"
        /\ \A d \in Controllers \ {c} : ctl'[d] = ctl[d]
    BY <1>0, <1>1 DEF TakeHandles, Goto, CallType
  <2>3. QED
    BY <2>1, <2>2 DEF HeldShape
<1>2. ASSUME NEW c \in Controllers, JoinLoops(c) \/ GraceExpires(c) PROVE HeldShape'
  <2>1. held'[c] = None /\ \A d \in Controllers \ {c} : held'[d] = held[d]
    BY <1>0, <1>2 DEF JoinLoops, GraceExpires, CallType
  <2>2. ctl'[c] = "collect" /\ \A d \in Controllers \ {c} : ctl'[d] = ctl[d]
    BY <1>0, <1>2 DEF JoinLoops, GraceExpires, Goto, CallType
  <2>3. QED
    BY <2>1, <2>2 DEF HeldShape
<1>3. ASSUME NEW c \in Controllers,
             \/ Start(c) \/ Stop(c) \/ SpawnLoops(c) \/ NotifyWaiters(c) \/ CollectInflight(c)
             \/ AwaitInflight(c) \/ AcquirePermit(c) \/ FinalFlushDone(c)
      PROVE  HeldShape'
  <2>1. UNCHANGED held
    BY <1>3 DEF Start, Stop, SpawnLoops, NotifyWaiters, CollectInflight, AwaitInflight,
       AcquirePermit, FinalFlushDone
  <2>2. ctl[c] # "grace" /\ ctl'[c] # "grace" /\ \A d \in Controllers \ {c} : ctl'[d] = ctl[d]
    BY <1>0, <1>3 DEF Start, Stop, SpawnLoops, NotifyWaiters, CollectInflight, AwaitInflight,
       AcquirePermit, FinalFlushDone, Enter, Goto, CallType
  <2>3. QED
    BY <2>1, <2>2 DEF HeldShape
<1>4. ASSUME \/ \E g \in Gens : InnerDone(g) \/ \E l \in Loops : LoopStep(g, l)
             \/ \E t \in Triggers : SeeRunning(t) \/ TrackInflight(t) \/ RunTask(t) \/ TaskDone(t)
             \/ UNCHANGED vars
      PROVE  HeldShape'
  <2>1. UNCHANGED <<ctl, held>>
    BY <1>4 DEF InnerDone, LoopStep, Wait, Notified, Tick, CheckRunning, Cancel, Move,
       SeeRunning, TrackInflight, RunTask, TaskDone
  <2>2. QED
    BY <2>1 DEF HeldShape
<1>5. QED
  BY <1>1, <1>2, <1>3, <1>4 DEF Next, CallStep

-----------------------------------------------------------------------------
(* Generations of loops.                                                   *)

(* A flush task runs beside the flush loop that awaits it, or survived the *)
(* abort of that loop.                                                     *)
InnerShape ==
    \A g \in inner : \/ loop[g]["flush"] = "busy"
                     \/ loop[g]["flush"] = "ended" /\ g \in aborted

(* What a start spawns: a generation nobody refers to.                     *)
LEMMA SpawnEffect ==
  ASSUME PlainType, NEW c \in Controllers, SpawnLoops(c)
  PROVE  \/ UNCHANGED <<handles, loop, aborted>>
         \/ \E g \in Gens :
               /\ Fresh(g) /\ handles = None /\ handles' = g
               /\ aborted' = aborted \ {g}
               /\ loop'[g] = [l \in Loops |-> "busy"]
               /\ \A h \in Gens \ {g} : loop'[h] = loop[h]
<1> DEFINE g == CHOOSE h \in Gens : Fresh(h)
<1>1. CASE MaySpawn
  <2>1. g \in Gens /\ Fresh(g)
    BY <1>1 DEF SpawnLoops
  <2> HIDE DEF g
  <2>2. /\ handles' = g
        /\ loop' = [loop EXCEPT ![g] = [l \in Loops |-> "busy"]]
        /\ aborted' = aborted \ {g}
    BY <1>1 DEF SpawnLoops, g
  <2>3. QED
    BY <1>1, <2>1, <2>2 DEF PlainType, LoopType, MaySpawn
<1>2. CASE ~MaySpawn
  BY <1>2 DEF SpawnLoops
<1>3. QED
  BY <1>1, <1>2

(* What one step of a loop does to the loops.                              *)
LEMMA MoveEffect ==
  ASSUME PlainType, NEW g \in Gens, NEW l \in Loops, NEW from, NEW to, Move(g, l, from, to)
  PROVE  /\ loop[g][l] = from /\ loop'[g][l] = to
         /\ \A h \in Gens, k \in Loops : h # g \/ k # l => loop'[h][k] = loop[h][k]
BY DEF PlainType, LoopType, Move

(* A loop that has ended does not come back, except by a start.            *)
LEMMA EndedStays ==
  ASSUME PlainType, NEW g \in Gens, NEW l \in Loops, LoopStep(g, l)
  PROVE  /\ loop[g][l] # "ended"
         /\ \A h \in Gens, k \in Loops : h # g \/ k # l => loop'[h][k] = loop[h][k]
         /\ UNCHANGED <<running, handles, inflight, aborted, task, callVars, bounds>>
<1>1. PICK from, to : Move(g, l, from, to) /\ from # "ended"
  BY DEF LoopStep, Wait, Notified, Tick, CheckRunning, Cancel
<1>2. UNCHANGED <<running, handles, inflight, aborted, task, callVars, bounds>>
  BY <1>1 DEF Move
<1>3. QED
  BY <1>1, <1>2, MoveEffect

(* Only an abort separates a flush loop from the flush task it awaits.     *)
LEMMA StepInner ==
  ASSUME PlainType, HeldShape, InnerShape, [Next]_vars
  PROVE  InnerShape'
<1>0. LoopType /\ "flush" \in Loops /\ inner \subseteq Gens
  BY LifecycleAssumption DEF PlainType, LoopType
<1>1. ASSUME NEW c \in Controllers, SpawnLoops(c) PROVE InnerShape'
  <2>1. UNCHANGED inner
    BY <1>1 DEF SpawnLoops
  <2>2. QED
    BY <1>0, <1>1, <2>1, SpawnEffect DEF InnerShape, Fresh
<1>2. ASSUME NEW c \in Controllers, NotifyWaiters(c) PROVE InnerShape'
  <2>1. /\ UNCHANGED <<inner, aborted>>
        /\ \A g \in Gens : loop[g]["flush"] # "wait" => loop'[g]["flush"] = loop[g]["flush"]
    BY <1>0, <1>2 DEF NotifyWaiters
  <2>2. QED
    BY <1>0, <2>1 DEF InnerShape
<1>3. ASSUME NEW c \in Controllers,
             \/ Start(c) \/ Stop(c) \/ TakeHandles(c) \/ JoinLoops(c) \/ GraceExpires(c)
             \/ CollectInflight(c) \/ AwaitInflight(c) \/ AcquirePermit(c) \/ FinalFlushDone(c)
      PROVE  InnerShape'
  <2>1. UNCHANGED <<inner, loop>> /\ aborted \subseteq aborted'
    BY <1>3 DEF Start, Stop, TakeHandles, JoinLoops, GraceExpires, CollectInflight,
       AwaitInflight, AcquirePermit, FinalFlushDone
  <2>2. QED
    BY <2>1 DEF InnerShape
<1>4. ASSUME NEW g \in Gens, InnerDone(g) PROVE InnerShape'
  BY <1>4 DEF InnerDone, InnerShape
<1>5. ASSUME NEW g \in Gens, NEW l \in Loops, LoopStep(g, l) PROVE InnerShape'
  <2>1. /\ \A h \in Gens : h # g \/ l # "flush" => loop'[h]["flush"] = loop[h]["flush"]
        /\ UNCHANGED aborted
    BY <1>0, <1>5, EndedStays
  <2>2. CASE l # "flush"
    <3>1. UNCHANGED inner
      BY <1>5, <2>2 DEF LoopStep, Wait, Notified, Tick, CheckRunning, Cancel
    <3>2. QED
      BY <1>0, <2>1, <2>2, <3>1 DEF InnerShape
  <2>3. CASE l = "flush"
    <3>1. CASE CheckRunning(g, l)
      <4>1. loop[g][l] = "check" /\ loop'[g][l] \in {"busy", "ended"}
            /\ (UNCHANGED inner \/ (inner' = inner \cup {g} /\ loop'[g][l] = "busy"))
        BY <3>1, MoveEffect DEF CheckRunning
      <4>2. g \notin inner
        BY <2>3, <4>1 DEF InnerShape
      <4>3. QED
        BY <1>0, <2>1, <2>3, <4>1, <4>2 DEF InnerShape
    <3>2. CASE Cancel(g, l)
      <4>1. loop'[g][l] = "ended" /\ g \in aborted /\ UNCHANGED inner
        BY <3>2, MoveEffect DEF Cancel
      <4>2. QED
        BY <1>0, <2>1, <2>3, <4>1 DEF InnerShape
    <3>3. CASE Wait(g, l) \/ Notified(g, l) \/ Tick(g, l)
      <4>1. g \notin inner /\ UNCHANGED inner
        BY <2>3, <3>3 DEF Wait, Notified, Tick, Move, InnerShape
      <4>2. QED
        BY <1>0, <2>1, <4>1 DEF InnerShape
    <3>4. QED
      BY <1>5, <3>1, <3>2, <3>3 DEF LoopStep
  <2>4. QED
    BY <2>2, <2>3
<1>6. ASSUME \/ \E t \in Triggers : SeeRunning(t) \/ TrackInflight(t) \/ RunTask(t) \/ TaskDone(t)
             \/ UNCHANGED vars
      PROVE  InnerShape'
  <2>1. UNCHANGED <<inner, loop, aborted>>
    BY <1>6 DEF SeeRunning, TrackInflight, RunTask, TaskDone
  <2>2. QED
    BY <2>1 DEF InnerShape
<1>7. QED
  BY <1>1, <1>2, <1>3, <1>4, <1>5, <1>6 DEF Next, CallStep

-----------------------------------------------------------------------------
(* Permits.                                                                *)

(* Counting a set that gains or loses one element.                         *)
LEMMA OneMore ==
  ASSUME NEW S, IsFiniteSet(S), NEW x, x \notin S
  PROVE  /\ Cardinality(S \cup {x}) = Cardinality(S) + 1
         /\ Cardinality(S) \in Nat
BY FS_AddElement, FS_CardinalityType

(* The same for an element that goes.                                      *)
LEMMA OneLess ==
  ASSUME NEW S, IsFiniteSet(S), NEW x \in S
  PROVE  /\ Cardinality(S \ {x}) = Cardinality(S) - 1
         /\ Cardinality(S) \in Nat /\ Cardinality(S \ {x}) \in Nat
BY FS_RemoveElement, FS_CardinalityType

(* The holders of permits are finitely many.                               *)
LEMMA HoldersFinite ==
  ASSUME PlainType
  PROVE  /\ IsFiniteSet(inner) /\ IsFiniteSet(Callers) /\ IsFiniteSet(Tasks)
         /\ Cardinality(inner) \in Nat /\ Cardinality(Callers) \in Nat
         /\ Cardinality(Tasks) \in Nat
<1>1. inner \subseteq Gens /\ Callers \subseteq Controllers /\ Tasks \subseteq Triggers
  BY DEF PlainType, LoopType, Callers, Tasks
<1>2. IsFiniteSet(inner) /\ IsFiniteSet(Callers) /\ IsFiniteSet(Tasks)
  BY <1>1, LifecycleAssumption, FS_Subset
<1>3. QED
  BY <1>2, FS_CardinalityType

(* A permit that is handed out is held by one more flush, and one that is  *)
(* returned by one less.                                                   *)
LEMMA StepPermits ==
  ASSUME PlainType, InnerShape, PermitCount, [Next]_vars
  PROVE  PermitCount'
<1> DEFINE i == Cardinality(inner)
           n == Cardinality(Callers)
           m == Cardinality(Tasks)
<1>0. /\ i \in Nat /\ n \in Nat /\ m \in Nat /\ free \in Nat /\ Permits \in Nat
      /\ free + i + n + m = Permits
      /\ IsFiniteSet(inner) /\ IsFiniteSet(Callers) /\ IsFiniteSet(Tasks)
      /\ CallType /\ LoopType /\ TaskType
  BY HoldersFinite, LifecycleAssumption DEF PermitCount, PlainType
<1>q. ASSUME inner' = inner, Callers' = Callers, Tasks' = Tasks, free' = free PROVE PermitCount'
  BY <1>q DEF PermitCount
<1>1. ASSUME NEW c \in Controllers, AcquirePermit(c) PROVE PermitCount'
  <2>1. Callers' = Callers \cup {c} /\ c \notin Callers
    BY <1>0, <1>1 DEF AcquirePermit, Goto, CallType, Callers
  <2>2. Cardinality(Callers') = n + 1
    BY <1>0, <2>1, OneMore
  <2>3. inner' = inner /\ Tasks' = Tasks /\ free' = free - 1 /\ free > 0
    BY <1>1 DEF AcquirePermit, Tasks
  <2>4. QED
    BY <1>0, <2>2, <2>3 DEF PermitCount
<1>2. ASSUME NEW c \in Controllers, FinalFlushDone(c) PROVE PermitCount'
  <2>1. Callers' = Callers \ {c} /\ c \in Callers
    BY <1>0, <1>2 DEF FinalFlushDone, Goto, CallType, Callers
  <2>2. Cardinality(Callers') = n - 1 /\ Cardinality(Callers') \in Nat
    BY <1>0, <2>1, OneLess
  <2>3. inner' = inner /\ Tasks' = Tasks /\ free' = free + 1
    BY <1>2 DEF FinalFlushDone, Tasks
  <2>4. QED
    BY <1>0, <2>2, <2>3 DEF PermitCount
<1>3. ASSUME NEW c \in Controllers,
             \/ Start(c) \/ Stop(c) \/ SpawnLoops(c) \/ NotifyWaiters(c) \/ TakeHandles(c)
             \/ JoinLoops(c) \/ GraceExpires(c) \/ CollectInflight(c) \/ AwaitInflight(c)
      PROVE  PermitCount'
  <2>1. UNCHANGED <<inner, task, free>>
    BY <1>3 DEF Start, Stop, SpawnLoops, NotifyWaiters, TakeHandles, JoinLoops, GraceExpires,
       CollectInflight, AwaitInflight
  <2>2. ctl[c] # "flush" /\ ctl'[c] # "flush" /\ \A d \in Controllers \ {c} : ctl'[d] = ctl[d]
    BY <1>0, <1>3 DEF Start, Stop, SpawnLoops, NotifyWaiters, TakeHandles, JoinLoops,
       GraceExpires, CollectInflight, AwaitInflight, Enter, Goto, CallType
  <2>3. Callers' = Callers /\ Tasks' = Tasks
    BY <2>1, <2>2 DEF Callers, Tasks
  <2>4. QED
    BY <1>q, <2>1, <2>3
<1>4. ASSUME NEW g \in Gens, InnerDone(g) PROVE PermitCount'
  <2>1. inner' = inner \ {g} /\ g \in inner /\ free' = free + 1 /\ UNCHANGED <<ctl, task>>
    BY <1>4 DEF InnerDone
  <2>2. Cardinality(inner') = i - 1 /\ Cardinality(inner') \in Nat
    BY <1>0, <2>1, OneLess
  <2>3. Callers' = Callers /\ Tasks' = Tasks
    BY <2>1 DEF Callers, Tasks
  <2>4. QED
    BY <1>0, <2>1, <2>2, <2>3 DEF PermitCount
<1>5. ASSUME NEW g \in Gens, NEW l \in Loops, LoopStep(g, l) PROVE PermitCount'
  <2>1. UNCHANGED <<ctl, task>>
    BY <1>5, EndedStays
  <2>2. Callers' = Callers /\ Tasks' = Tasks
    BY <2>1 DEF Callers, Tasks
  <2>3. CASE UNCHANGED <<free, inner>>
    BY <1>q, <2>2, <2>3
  <2>4. CASE free > 0 /\ free' = free - 1 /\ inner' = inner \cup {g} /\ l = "flush"
             /\ loop[g][l] = "check"
    <3>1. g \notin inner
      BY <2>4 DEF InnerShape
    <3>2. Cardinality(inner') = i + 1
      BY <1>0, <2>4, <3>1, OneMore
    <3>3. QED
      BY <1>0, <2>2, <2>4, <3>2 DEF PermitCount
  <2>5. QED
    BY <1>5, <2>3, <2>4 DEF LoopStep, Wait, Notified, Tick, CheckRunning, Cancel, Move
<1>6. ASSUME NEW t \in Triggers, SeeRunning(t) \/ TrackInflight(t) PROVE PermitCount'
  <2>1. UNCHANGED <<free, inner, ctl>>
    BY <1>6 DEF SeeRunning, TrackInflight
  <2>2. task[t] # "flush" /\ task'[t] # "flush" /\ \A u \in Triggers \ {t} : task'[u] = task[u]
    BY <1>0, <1>6 DEF SeeRunning, TrackInflight, SetTask, TaskType
  <2>3. Callers' = Callers /\ Tasks' = Tasks
    BY <2>1, <2>2 DEF Callers, Tasks
  <2>4. QED
    BY <1>q, <2>1, <2>3
<1>7. ASSUME NEW t \in Triggers, RunTask(t) PROVE PermitCount'
  <2>1. inner' = inner /\ Callers' = Callers
    BY <1>7 DEF RunTask, Callers
  <2>2. CASE free > 0
    <3>1. task[t] = "ready" /\ task' = [task EXCEPT ![t] = "flush"] /\ free' = free - 1
      BY <1>7, <2>2 DEF RunTask, SetTask
    <3>2. Tasks' = Tasks \cup {t} /\ t \notin Tasks
      BY <1>0, <3>1 DEF Tasks, TaskType
    <3>3. Cardinality(Tasks') = m + 1
      BY <1>0, <3>2, OneMore
    <3>4. QED
      BY <1>0, <2>1, <2>2, <3>1, <3>3 DEF PermitCount
  <2>3. CASE ~(free > 0)
    <3>1. task[t] = "ready" /\ task' = [task EXCEPT ![t] = "done"] /\ free' = free
      BY <1>7, <2>3 DEF RunTask, SetTask
    <3>2. Tasks' = Tasks
      BY <1>0, <3>1 DEF Tasks, TaskType
    <3>3. QED
      BY <1>q, <2>1, <3>1, <3>2
  <2>4. QED
    BY <2>2, <2>3
<1>8. ASSUME NEW t \in Triggers, TaskDone(t) PROVE PermitCount'
  <2>1. inner' = inner /\ Callers' = Callers /\ free' = free + 1
    BY <1>8 DEF TaskDone, Callers
  <2>2. Tasks' = Tasks \ {t} /\ t \in Tasks
    BY <1>0, <1>8 DEF TaskDone, SetTask, Tasks, TaskType
  <2>3. Cardinality(Tasks') = m - 1 /\ Cardinality(Tasks') \in Nat
    BY <1>0, <2>2, OneLess
  <2>4. QED
    BY <1>0, <2>1, <2>3 DEF PermitCount
<1>9. CASE UNCHANGED vars
  <2>1. inner' = inner /\ Callers' = Callers /\ Tasks' = Tasks /\ free' = free
    BY <1>9 DEF Callers, Tasks
  <2>2. QED
    BY <1>q, <2>1
<1>10. QED
  BY <1>1, <1>2, <1>3, <1>4, <1>5, <1>6, <1>7, <1>8, <1>9 DEF Next, CallStep

(* Types, handles, flush tasks and permits together are inductive.         *)
TypeInv == PlainType /\ HeldShape /\ InnerShape /\ PermitCount

(* Nothing runs at first, and all permits are free.                        *)
LEMMA InitTypes == Init => TypeInv
<1> SUFFICES ASSUME Init PROVE TypeInv
  OBVIOUS
<1>1. PlainType
  <2>1. FlagType
    BY LifecycleAssumption DEF Init, FlagType
  <2>2. LoopType /\ TaskType /\ CallType
    BY DEF Init, LoopType, TaskType, CallType, LoopState, CtlState
  <2>3. QED
    BY <2>1, <2>2 DEF PlainType
<1>2. HeldShape /\ InnerShape
  BY DEF Init, HeldShape, InnerShape
<1>3. Callers = {} /\ Tasks = {} /\ inner = {} /\ free = Permits
  BY DEF Init, Callers, Tasks
<1>4. Cardinality({}) = 0
  BY FS_EmptySet
<1>5. PermitCount
  BY <1>3, <1>4, LifecycleAssumption DEF PermitCount
<1>6. QED
  BY <1>1, <1>2, <1>5 DEF TypeInv

(* Every step keeps them.                                                  *)
LEMMA StepTypes == TypeInv /\ [Next]_vars => TypeInv'
<1> SUFFICES ASSUME TypeInv, [Next]_vars PROVE TypeInv'
  OBVIOUS
<1>1. PlainType'
  <2>1. CASE UNCHANGED vars
    BY <2>1 DEF TypeInv, PlainType, FlagType, LoopType, TaskType, CallType
  <2>2. QED
    BY <2>1, CallStepType, TaskStepType DEF TypeInv, Next
<1>2. HeldShape' /\ InnerShape' /\ PermitCount'
  BY StepHeldShape, StepInner, StepPermits DEF TypeInv
<1>3. QED
  BY <1>1, <1>2 DEF TypeInv

(* The state is well typed, and every flush permit is free or held by      *)
(* exactly one flush: of a loop, of a watermark task or of a stop.         *)
THEOREM PermitsAccounted == Spec => []TypeOK
<1>1. TypeInv => TypeOK
  <2> SUFFICES ASSUME TypeInv PROVE TypeOK
    OBVIOUS
  <2>1. PlainType /\ PermitCount
    BY DEF TypeInv
  <2>2. free + Cardinality(inner) + Cardinality({c \in Controllers : ctl[c] = "flush"})
            + Cardinality({t \in Triggers : task[t] = "flush"}) = Permits
    BY <2>1 DEF PermitCount, Callers, Tasks
  <2>3. QED
    BY <2>1, <2>2 DEF TypeOK, PlainType, FlagType, LoopType, TaskType, CallType
<1>2. QED
  BY <1>1, InitTypes, StepTypes, PTL DEF Spec

-----------------------------------------------------------------------------
(* No loop without an owner.                                               *)

(* A loop that is alive after a step was alive before it, or has just been *)
(* spawned.                                                                *)
LEMMA AliveEarlier ==
  ASSUME PlainType, [Next]_vars, NEW g \in Gens, Alive(g)' # {},
         \A c \in Controllers : SpawnLoops(c) => UNCHANGED loop
  PROVE  Alive(g) # {}
<1>1. PICK l \in Loops : loop'[g][l] # "ended"
  BY DEF Alive
<1>2. loop[g][l] # "ended"
  <2>1. ASSUME NEW c \in Controllers, NotifyWaiters(c) PROVE loop[g][l] # "ended"
    BY <1>1, <2>1 DEF NotifyWaiters
  <2>2. ASSUME NEW h \in Gens, NEW k \in Loops, LoopStep(h, k) PROVE loop[g][l] # "ended"
    BY <1>1, <2>2, EndedStays
  <2>3. CASE UNCHANGED loop
    BY <1>1, <2>3
  <2>4. ASSUME NEW c \in Controllers, Start(c) \/ Stop(c) \/ CallStep(c), ~NotifyWaiters(c)
        PROVE  UNCHANGED loop
    BY <2>4 DEF Start, Stop, CallStep, TakeHandles, JoinLoops, GraceExpires, CollectInflight,
       AwaitInflight, AcquirePermit, FinalFlushDone
  <2>5. ASSUME \/ \E h \in Gens : InnerDone(h)
               \/ \E t \in Triggers : SeeRunning(t) \/ TrackInflight(t) \/ RunTask(t) \/ TaskDone(t)
               \/ UNCHANGED vars
        PROVE  UNCHANGED loop
    BY <2>5 DEF InnerDone, SeeRunning, TrackInflight, RunTask, TaskDone
  <2>6. QED
    BY <2>1, <2>2, <2>3, <2>4, <2>5 DEF Next, CallStep
<1>3. QED
  BY <1>2 DEF Alive

(* Who owns a loop changes hands, but is never nobody.                     *)
LEMMA StepOwned ==
  ASSUME TypeInv, OwnedLoops, [Next]_vars
  PROVE  OwnedLoops'
<1>0. PlainType /\ HeldShape /\ CallType /\ FlagType /\ None \notin Gens
  BY LifecycleAssumption DEF TypeInv, PlainType
<1> SUFFICES ASSUME NEW g \in Gens, Alive(g)' # {}
             PROVE  g = handles' \/ g \in aborted' \/ \E c \in Controllers : held'[c] = g
  BY DEF OwnedLoops
<1> DEFINE Owned == g = handles' \/ g \in aborted' \/ \E c \in Controllers : held'[c] = g
<1>1. ASSUME NEW c \in Controllers, SpawnLoops(c), ~UNCHANGED loop PROVE Owned
  <2>1. UNCHANGED held
    BY <1>1 DEF SpawnLoops
  <2>2. PICK h \in Gens : /\ handles = None /\ handles' = h
                          /\ aborted' = aborted \ {h}
                          /\ \A k \in Gens \ {h} : loop'[k] = loop[k]
    BY <1>0, <1>1, SpawnEffect
  <2>3. CASE g # h
    <3>1. Alive(g) # {}
      BY <2>2, <2>3 DEF Alive
    <3>2. g \in aborted \/ \E d \in Controllers : held[d] = g
      BY <1>0, <2>2, <3>1 DEF OwnedLoops
    <3>3. QED
      BY <2>1, <2>2, <2>3, <3>2
  <2>4. QED
    BY <2>2, <2>3
<1>2. CASE \A c \in Controllers : SpawnLoops(c) => UNCHANGED loop
  <2>1. Alive(g) # {} /\ (g = handles \/ g \in aborted \/ \E c \in Controllers : held[c] = g)
    BY <1>0, <1>2, AliveEarlier DEF OwnedLoops
  <2>2. ASSUME NEW c \in Controllers, TakeHandles(c) PROVE Owned
    <3>1. held[c] = None /\ held'[c] = handles /\ UNCHANGED aborted
          /\ \A d \in Controllers \ {c} : held'[d] = held[d]
      BY <1>0, <2>2 DEF TakeHandles, HeldShape, CallType
    <3>2. QED
      BY <1>0, <2>1, <3>1
  <2>3. ASSUME NEW c \in Controllers, JoinLoops(c) \/ GraceExpires(c) PROVE Owned
    <3>1. UNCHANGED handles /\ aborted \subseteq aborted'
          /\ \A d \in Controllers \ {c} : held'[d] = held[d]
      BY <1>0, <2>3 DEF JoinLoops, GraceExpires, CallType
    <3>2. held[c] = g => g \in aborted'
      BY <2>1, <2>3 DEF JoinLoops, GraceExpires
    <3>3. QED
      BY <2>1, <3>1, <3>2
  <2>4. ASSUME NEW c \in Controllers, SpawnLoops(c) PROVE Owned
    <3>1. UNCHANGED <<held, loop>>
      BY <1>2, <2>4 DEF SpawnLoops
    <3>2. CASE UNCHANGED <<handles, aborted>>
      BY <2>1, <3>1, <3>2
    <3>3. ASSUME NEW h \in Gens, Fresh(h), handles = None, aborted' = aborted \ {h}
          PROVE  Owned
      <4>1. g # h
        BY <2>1, <3>3 DEF Fresh
      <4>2. QED
        BY <1>0, <2>1, <3>1, <3>3, <4>1
    <3>4. QED
      BY <1>0, <2>4, <3>2, <3>3, SpawnEffect
  <2>5. CASE UNCHANGED <<handles, aborted, held>>
    BY <2>1, <2>5
  <2>6. ASSUME NEW c \in Controllers,
               \/ Start(c) \/ Stop(c) \/ NotifyWaiters(c) \/ CollectInflight(c)
               \/ AwaitInflight(c) \/ AcquirePermit(c) \/ FinalFlushDone(c)
        PROVE  UNCHANGED <<handles, aborted, held>>
    BY <2>6 DEF Start, Stop, NotifyWaiters, CollectInflight, AwaitInflight, AcquirePermit,
       FinalFlushDone
  <2>7. ASSUME \/ \E h \in Gens : InnerDone(h) \/ \E l \in Loops : LoopStep(h, l)
               \/ \E t \in Triggers : SeeRunning(t) \/ TrackInflight(t) \/ RunTask(t) \/ TaskDone(t)
               \/ UNCHANGED vars
        PROVE  UNCHANGED <<handles, aborted, held>>
    BY <1>0, <2>7, EndedStays DEF InnerDone, SeeRunning, TrackInflight, RunTask, TaskDone
  <2>8. QED
    BY <2>2, <2>3, <2>4, <2>5, <2>6, <2>7 DEF Next, CallStep
<1>3. QED
  BY <1>1, <1>2

(* No orphans: at every moment each living loop's handle is in `loops`, or *)
(* held by a stop that will join or abort it, or the loop is aborted; for  *)
(* any number of overlapping starts and stops.                             *)
THEOREM NoOrphanLoops == Spec => []OwnedLoops
<1>1. Init => OwnedLoops
  BY DEF Init, OwnedLoops, Alive
<1>2. TypeInv /\ OwnedLoops /\ [Next]_vars => OwnedLoops'
  BY StepOwned
<1>3. QED
  BY <1>1, <1>2, InitTypes, StepTypes, PTL DEF Spec

-----------------------------------------------------------------------------
(* A stop on its own.                                                      *)

Stopping == {"notify", "take", "grace", "collect", "await", "acquire", "flush"}

(* While a call has the agent to itself nobody else is in one; a stop has  *)
(* cleared `running`, and past the take there are no handles left.         *)
AloneShape ==
    \A c \in Controllers : alone[c] =>
        /\ ctl[c] # "idle" => \A d \in Controllers \ {c} : ctl[d] = "idle"
        /\ ctl[c] \in Stopping => ~running
        /\ ctl[c] \in Stopping \ {"notify", "take"} => handles = None

(* A new call takes the agent away from every other one.                   *)
LEMMA StepAlone ==
  ASSUME PlainType, AloneShape, [Next]_vars
  PROVE  AloneShape'
<1>0. CallType
  BY DEF PlainType
<1>1. ASSUME NEW c \in Controllers, Start(c) \/ Stop(c) PROVE AloneShape'
  <2>1. ctl' \in [Controllers -> CtlState] /\ ctl'[c] \in {"load", "notify"}
        /\ \A d \in Controllers \ {c} : ctl'[d] = ctl[d]
    BY <1>0, <1>1, GotoType DEF Start, Stop, Enter, CtlState
  <2>2. \A d \in Controllers : alone'[d] => d = c /\ \A e \in Controllers : ctl[e] = "idle"
    BY <1>1 DEF Start, Stop, Enter
  <2>3. ctl'[c] = "notify" => ~running'
    BY <1>0, <1>1, GotoType DEF Start, Stop, Enter, CtlState
  <2>4. QED
    BY <2>1, <2>2, <2>3 DEF AloneShape, Stopping
<1>2. ASSUME NEW c \in Controllers, SpawnLoops(c) PROVE AloneShape'
  <2>1. ctl[c] = "load" /\ ctl'[c] = "idle" /\ \A d \in Controllers \ {c} : ctl'[d] = ctl[d]
    BY <1>0, <1>2 DEF SpawnLoops, Goto, CallType
  <2>2. UNCHANGED <<running, alone>>
    BY <1>2 DEF SpawnLoops
  <2>3. \A d \in Controllers : alone[d] /\ ctl[d] # "idle" => d = c
    BY <2>1 DEF AloneShape
  <2>4. \A d \in Controllers : alone'[d] => ctl'[d] = "idle"
    BY <2>1, <2>2, <2>3
  <2>5. QED
    BY <2>4 DEF AloneShape, Stopping
<1>3. ASSUME NEW c \in Controllers,
             \/ NotifyWaiters(c) \/ TakeHandles(c) \/ JoinLoops(c) \/ GraceExpires(c)
             \/ CollectInflight(c) \/ AwaitInflight(c) \/ AcquirePermit(c) \/ FinalFlushDone(c)
      PROVE  AloneShape'
  <2>1. /\ ctl[c] \in Stopping /\ \A d \in Controllers \ {c} : ctl'[d] = ctl[d]
        /\ ctl'[c] \in Stopping \cup {"idle"}
        /\ UNCHANGED <<running, alone>> /\ handles' \in {handles, None}
    BY <1>0, <1>3 DEF NotifyWaiters, TakeHandles, JoinLoops, GraceExpires, CollectInflight,
       AwaitInflight, AcquirePermit, FinalFlushDone, Goto, CallType, Stopping
  <2>2. ctl'[c] \in Stopping \ {"notify", "take"} =>
           handles' = None \/ ctl[c] \in Stopping \ {"notify", "take"}
    BY <1>0, <1>3 DEF NotifyWaiters, TakeHandles, JoinLoops, GraceExpires, CollectInflight,
       AwaitInflight, AcquirePermit, FinalFlushDone, Goto, CallType, Stopping
  <2>3. QED
    BY <2>1, <2>2 DEF AloneShape, Stopping
<1>4. ASSUME \/ \E h \in Gens : InnerDone(h) \/ \E l \in Loops : LoopStep(h, l)
             \/ \E t \in Triggers : SeeRunning(t) \/ TrackInflight(t) \/ RunTask(t) \/ TaskDone(t)
             \/ UNCHANGED vars
      PROVE  AloneShape'
  <2>1. UNCHANGED <<running, handles, ctl, alone>>
    BY <1>4, EndedStays DEF InnerDone, SeeRunning, TrackInflight, RunTask, TaskDone
  <2>2. QED
    BY <2>1 DEF AloneShape
<1>5. QED
  BY <1>1, <1>2, <1>3, <1>4 DEF Next, CallStep

(* What a stop leaves of the loops follows from who may own them.          *)
LEMMA StoppedLoops ==
  ASSUME TypeInv, OwnedLoops, AloneShape, NEW c \in Controllers, alone[c],
         ctl[c] \in {"collect", "await", "acquire", "flush"}
  PROVE  ~running /\ handles = None /\ \A g \in Gens : Alive(g) # {} => g \in aborted
<1>0. HeldShape /\ None \notin Gens
  BY LifecycleAssumption DEF TypeInv
<1>1. ~running /\ handles = None /\ \A d \in Controllers : ctl[d] # "grace"
  BY DEF AloneShape, Stopping
<1>2. \A d \in Controllers : held[d] = None
  BY <1>0, <1>1 DEF HeldShape
<1>3. QED
  BY <1>0, <1>1, <1>2 DEF OwnedLoops

(* A stop that nobody overlapped has stopped the agent when it comes to    *)
(* its final flush: the flag is down, no handles are left behind and every *)
(* loop has ended or is aborted.                                           *)
THEOREM StopsForGood == Spec => []StopStops
<1>1. Init => OwnedLoops /\ AloneShape
  BY DEF Init, OwnedLoops, Alive, AloneShape
<1>2. TypeInv /\ OwnedLoops /\ AloneShape /\ [Next]_vars => OwnedLoops' /\ AloneShape'
  BY StepOwned, StepAlone DEF TypeInv
<1>3. TypeInv /\ OwnedLoops /\ AloneShape => StopStops
  BY StoppedLoops DEF StopStops
<1>4. QED
  BY <1>1, <1>2, <1>3, InitTypes, StepTypes, PTL DEF Spec

-----------------------------------------------------------------------------
(* What a stop waits for.                                                  *)

(* A watermark task that has not finished is in the list, or in a list     *)
(* some stop is waiting for, or outlasts the grace period.                 *)
Tracked ==
    \A t \in Unfinished : \/ t \in inflight \cup slow
                          \/ \E d \in Controllers : t \in awaited[d]

(* Once a stop on its own has taken the list, nobody sees the agent run.   *)
(* What is tracked from then on was on its way before.                     *)
LateShape ==
    \A c \in Controllers : alone[c] /\ ctl[c] \in {"await", "acquire", "flush"} =>
        \A t \in Triggers : task[t] = "seen" \/ t \in inflight \cap Unfinished => t \in late

(* Only a stop that waits holds such a list.                               *)
AwaitShape == \A d \in Controllers : ctl[d] # "await" => awaited[d] = {}

(* Lists are taken on the way into the wait and dropped on the way out.    *)
LEMMA StepAwait ==
  ASSUME PlainType, AwaitShape, [Next]_vars
  PROVE  AwaitShape'
<1>0. CallType
  BY DEF PlainType
<1>1. ASSUME NEW c \in Controllers, CollectInflight(c) PROVE AwaitShape'
  <2>1. /\ ctl'[c] = "await" /\ \A d \in Controllers \ {c} : ctl'[d] = ctl[d]
        /\ \A d \in Controllers \ {c} : awaited'[d] = awaited[d]
    BY <1>0, <1>1 DEF CollectInflight, Goto, CallType
  <2>2. QED
    BY <2>1 DEF AwaitShape
<1>2. ASSUME NEW c \in Controllers, AwaitInflight(c) PROVE AwaitShape'
  <2>1. /\ awaited'[c] = {} /\ \A d \in Controllers \ {c} : ctl'[d] = ctl[d]
        /\ \A d \in Controllers \ {c} : awaited'[d] = awaited[d]
    BY <1>0, <1>2 DEF AwaitInflight, Goto, CallType
  <2>2. QED
    BY <2>1 DEF AwaitShape
<1>3. ASSUME NEW c \in Controllers,
             \/ Start(c) \/ Stop(c) \/ SpawnLoops(c) \/ NotifyWaiters(c) \/ TakeHandles(c)
             \/ JoinLoops(c) \/ GraceExpires(c) \/ AcquirePermit(c) \/ FinalFlushDone(c)
      PROVE  AwaitShape'
  <2>1. UNCHANGED awaited
    BY <1>3 DEF Start, Stop, SpawnLoops, NotifyWaiters, TakeHandles, JoinLoops, GraceExpires,
       AcquirePermit, FinalFlushDone
  <2>2. ctl[c] # "await" /\ \A d \in Controllers \ {c} : ctl'[d] = ctl[d]
    BY <1>0, <1>3 DEF Start, Stop, SpawnLoops, NotifyWaiters, TakeHandles, JoinLoops,
       GraceExpires, AcquirePermit, FinalFlushDone, Enter, Goto, CallType
  <2>3. QED
    BY <2>1, <2>2 DEF AwaitShape
<1>4. ASSUME \/ \E g \in Gens : InnerDone(g) \/ \E l \in Loops : LoopStep(g, l)
             \/ \E t \in Triggers : SeeRunning(t) \/ TrackInflight(t) \/ RunTask(t) \/ TaskDone(t)
             \/ UNCHANGED vars
      PROVE  AwaitShape'
  <2>1. UNCHANGED <<ctl, awaited>>
    BY <1>4, EndedStays DEF InnerDone, SeeRunning, TrackInflight, RunTask, TaskDone
  <2>2. QED
    BY <2>1 DEF AwaitShape
<1>5. QED
  BY <1>1, <1>2, <1>3, <1>4 DEF Next, CallStep

(* No step loses sight of a task that has still to finish.                 *)
LEMMA StepTracked ==
  ASSUME PlainType, AwaitShape, Tracked, [Next]_vars
  PROVE  Tracked'
<1>0. CallType /\ TaskType
  BY DEF PlainType
<1>1. ASSUME NEW c \in Controllers, CollectInflight(c) PROVE Tracked'
  <2>1. /\ UNCHANGED <<task, slow>> /\ awaited[c] = {} /\ awaited'[c] = inflight
        /\ \A d \in Controllers \ {c} : awaited'[d] = awaited[d]
    BY <1>0, <1>1 DEF CollectInflight, CallType, AwaitShape
  <2>2. QED
    BY <2>1 DEF Tracked, Unfinished
<1>2. ASSUME NEW c \in Controllers, AwaitInflight(c) PROVE Tracked'
  <2>1. /\ UNCHANGED <<task, inflight, slow>>
        /\ awaited[c] \cap Unfinished \subseteq slow
        /\ \A d \in Controllers \ {c} : awaited'[d] = awaited[d]
    BY <1>0, <1>2 DEF AwaitInflight, CallType
  <2>2. QED
    BY <2>1 DEF Tracked, Unfinished
<1>3. ASSUME NEW t \in Triggers, SeeRunning(t) PROVE Tracked'
  <2>1. /\ task'[t] = "seen" /\ \A u \in Triggers \ {t} : task'[u] = task[u]
        /\ inflight' = inflight \ {t} /\ slow \ {t} \subseteq slow' /\ UNCHANGED awaited
    BY <1>0, <1>3 DEF SeeRunning, SetTask, TaskType
  <2>2. QED
    BY <2>1 DEF Tracked, Unfinished
<1>4. ASSUME NEW t \in Triggers, TrackInflight(t) PROVE Tracked'
  <2>1. /\ task'[t] = "ready" /\ \A u \in Triggers \ {t} : task'[u] = task[u]
        /\ inflight' = (inflight \cap Unfinished) \cup {t} /\ UNCHANGED <<slow, awaited>>
    BY <1>0, <1>4 DEF TrackInflight, SetTask, TaskType
  <2>2. QED
    BY <2>1 DEF Tracked, Unfinished
<1>5. ASSUME NEW t \in Triggers, RunTask(t) \/ TaskDone(t) PROVE Tracked'
  <2>1. /\ task[t] \in {"ready", "flush"} /\ \A u \in Triggers \ {t} : task'[u] = task[u]
        /\ UNCHANGED <<inflight, slow, awaited>>
    BY <1>0, <1>5 DEF RunTask, TaskDone, SetTask, TaskType
  <2>2. QED
    BY <2>1 DEF Tracked, Unfinished
<1>6. CASE UNCHANGED <<task, inflight, slow, awaited>>
  BY <1>6 DEF Tracked, Unfinished
<1>7. ASSUME NEW c \in Controllers,
             \/ Start(c) \/ Stop(c) \/ SpawnLoops(c) \/ NotifyWaiters(c) \/ TakeHandles(c)
             \/ JoinLoops(c) \/ GraceExpires(c) \/ AcquirePermit(c) \/ FinalFlushDone(c)
      PROVE  UNCHANGED <<task, inflight, slow, awaited>>
  BY <1>7 DEF Start, Stop, SpawnLoops, NotifyWaiters, TakeHandles, JoinLoops, GraceExpires,
     AcquirePermit, FinalFlushDone, Enter
<1>8. ASSUME \/ \E g \in Gens : InnerDone(g) \/ \E l \in Loops : LoopStep(g, l)
             \/ UNCHANGED vars
      PROVE  UNCHANGED <<task, inflight, slow, awaited>>
  BY <1>8, EndedStays DEF InnerDone
<1>9. QED
  BY <1>1, <1>2, <1>3, <1>4, <1>5, <1>6, <1>7, <1>8 DEF Next, CallStep

(* Behind a stop on its own the list grows by late tasks only.             *)
LEMMA StepLate ==
  ASSUME PlainType, AloneShape, LateShape, [Next]_vars
  PROVE  LateShape'
<1>0. CallType /\ TaskType
  BY DEF PlainType
<1> DEFINE Waiting(c) == alone[c] /\ ctl[c] \in {"await", "acquire", "flush"}
<1>1. ASSUME NEW c \in Controllers, Start(c) \/ Stop(c) PROVE LateShape'
  <2>1. ctl'[c] \in {"load", "notify"}
    BY <1>0, <1>1, GotoType DEF Start, Stop, Enter, CtlState
  <2>2. \A d \in Controllers : alone'[d] => d = c
    BY <1>1 DEF Start, Stop, Enter
  <2>3. QED
    BY <2>1, <2>2 DEF LateShape
<1>2. ASSUME NEW c \in Controllers, CollectInflight(c) PROVE LateShape'
  <2>1. inflight' = {} /\ late' = {t \in Triggers : task[t] = "seen"} /\ UNCHANGED task
    BY <1>2 DEF CollectInflight
  <2>2. QED
    BY <2>1 DEF LateShape
<1>3. ASSUME NEW c \in Controllers,
             \/ SpawnLoops(c) \/ NotifyWaiters(c) \/ TakeHandles(c) \/ JoinLoops(c)
             \/ GraceExpires(c) \/ AwaitInflight(c) \/ AcquirePermit(c) \/ FinalFlushDone(c)
      PROVE  LateShape'
  <2>1. UNCHANGED <<task, inflight, late, alone>>
    BY <1>3 DEF SpawnLoops, NotifyWaiters, TakeHandles, JoinLoops, GraceExpires,
       AwaitInflight, AcquirePermit, FinalFlushDone
  <2>2. \A d \in Controllers : Waiting(d)' => Waiting(d)
    BY <1>0, <1>3, <2>1 DEF SpawnLoops, NotifyWaiters, TakeHandles, JoinLoops, GraceExpires,
       AwaitInflight, AcquirePermit, FinalFlushDone, Goto, CallType
  <2>3. QED
    BY <2>1, <2>2 DEF LateShape, Unfinished
<1>4. ASSUME NEW t \in Triggers, SeeRunning(t) PROVE LateShape'
  <2>1. running /\ UNCHANGED <<ctl, alone>>
    BY <1>4 DEF SeeRunning
  <2>2. \A d \in Controllers : ~Waiting(d)'
    BY <2>1 DEF AloneShape, Stopping
  <2>3. QED
    BY <2>2 DEF LateShape
<1>5. ASSUME NEW t \in Triggers, TrackInflight(t) PROVE LateShape'
  <2>1. /\ task[t] = "seen" /\ task'[t] = "ready"
        /\ \A u \in Triggers \ {t} : task'[u] = task[u]
        /\ inflight' = (inflight \cap Unfinished) \cup {t} /\ UNCHANGED <<ctl, alone, late>>
    BY <1>0, <1>5 DEF TrackInflight, SetTask, TaskType
  <2>2. QED
    BY <2>1 DEF LateShape, Unfinished
<1>6. ASSUME NEW t \in Triggers, RunTask(t) \/ TaskDone(t) PROVE LateShape'
  <2>1. /\ task[t] \in {"ready", "flush"} /\ task'[t] # "seen"
        /\ \A u \in Triggers \ {t} : task'[u] = task[u]
        /\ UNCHANGED <<inflight, ctl, alone, late>>
    BY <1>0, <1>6 DEF RunTask, TaskDone, SetTask, TaskType
  <2>2. QED
    BY <2>1 DEF LateShape, Unfinished
<1>7. ASSUME \/ \E g \in Gens : InnerDone(g) \/ \E l \in Loops : LoopStep(g, l)
             \/ UNCHANGED vars
      PROVE  LateShape'
  <2>1. UNCHANGED <<task, inflight, ctl, alone, late>>
    BY <1>7, EndedStays DEF InnerDone
  <2>2. QED
    BY <2>1 DEF LateShape, Unfinished
<1>8. QED
  BY <1>1, <1>2, <1>3, <1>4, <1>5, <1>6, <1>7 DEF Next, CallStep

(* What is left when a stop that nobody overlapped has waited.             *)
LEMMA StopWaited ==
  ASSUME TypeInv, OwnedLoops, AloneShape, AwaitShape, Tracked, LateShape,
         NEW c \in Controllers, ctl[c] = "acquire", alone[c]
  PROVE  Unfinished \subseteq slow \cup late /\ inner \subseteq aborted
<1>1. \A d \in Controllers : awaited[d] = {}
  BY DEF AloneShape, AwaitShape
<1>2. Unfinished \subseteq slow \cup late
  BY <1>1 DEF Tracked, LateShape, Unfinished
<1>3. \A g \in Gens : Alive(g) # {} => g \in aborted
  BY StoppedLoops
<1>4. ASSUME NEW g \in inner PROVE g \in aborted
  <2>1. g \in Gens /\ "flush" \in Loops
    BY LifecycleAssumption DEF TypeInv, PlainType, LoopType
  <2>2. CASE loop[g]["flush"] = "busy"
    BY <1>3, <2>1, <2>2 DEF Alive
  <2>3. QED
    BY <2>2 DEF TypeInv, InnerShape
<1>5. QED
  BY <1>2, <1>4

(* When a stop that nobody overlapped asks for the permit of its final     *)
(* flush, every watermark flush still at work outlasts the grace period or *)
(* was tracked only after the stop had taken the list, and every flush of  *)
(* a loop belongs to an aborted one.                                       *)
THEOREM StopAwaitsInflight == Spec => []InflightAwaited
<1> DEFINE J == OwnedLoops /\ AloneShape /\ AwaitShape /\ Tracked /\ LateShape
<1>1. Init => J
  BY DEF Init, OwnedLoops, Alive, AloneShape, AwaitShape, Tracked, LateShape, Unfinished
<1>2. TypeInv /\ J /\ [Next]_vars => J'
  BY StepOwned, StepAlone, StepAwait, StepTracked, StepLate DEF TypeInv
<1>3. TypeInv /\ J => InflightAwaited
  BY StopWaited DEF InflightAwaited
<1>4. QED
  BY <1>1, <1>2, <1>3, InitTypes, StepTypes, PTL DEF Spec
=============================================================================
