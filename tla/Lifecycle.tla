------------------------------ MODULE Lifecycle ------------------------------
(***************************************************************************)
(* start and stop of the agent (src/src/agent.rs) called by several tasks  *)
(* that share one GuardAgent, the three background loops they spawn and    *)
(* join, and the flush tasks that stop waits for.                          *)
(*                                                                         *)
(* A generation is one LoopHandles value.  notify_waiters wakes only loops *)
(* that wait in their select; abort takes effect at the next await of the  *)
(* aborted task; the flush a loop spawned is a task of its own and         *)
(* survives the abort.  What a flush does is FlushPipeline's business, the *)
(* connection and reload inside start too.                                 *)
(***************************************************************************)
EXTENDS Naturals, FiniteSets

CONSTANTS
    Controllers,    \* tasks that call start and stop
    Loops,          \* "flush" and the loops that work inside their own task
    Gens,           \* bound: identities of LoopHandles values
    Triggers,       \* watermark-triggered flush tasks
    MaxStarts,      \* bound: starts that find the agent stopped
    MaxStops,       \* bound: stops
    Permits,        \* max_concurrent_flushes
    None

ASSUME LifecycleAssumption ==
    /\ "flush" \in Loops
    /\ None \notin Gens
    /\ Permits \in Nat \ {0}
    /\ MaxStarts \in Nat /\ MaxStops \in Nat
    /\ IsFiniteSet(Controllers) /\ IsFiniteSet(Gens) /\ IsFiniteSet(Triggers)

VARIABLES
    \* Shared.running, GuardAgent.loops, free flush permits, Shared.inflight
    running, handles, free, inflight,
    \* each loop's control point, generations told to abort, generations
    \* whose flush loop has a flush task running
    loop, aborted, inner,
    \* the watermark tasks
    task,
    \* control point of each caller, the handles and tasks a stop has taken
    ctl, held, awaited,
    \* watermark tasks whose flush outlasts LOOP_SHUTDOWN_GRACE
    slow,
    \* history: has the current call had the agent to itself; watermark
    \* tasks not tracked yet when the last stop took the list
    alone, late,
    \* starts and stops left
    starts, stops

loopVars == <<loop, aborted, inner>>
callVars == <<ctl, held, awaited, slow, alone, late>>
bounds == <<starts, stops>>
vars == <<running, handles, free, inflight, loopVars, task, callVars, bounds>>

Init ==
    /\ running = FALSE
    /\ handles = None
    /\ free = Permits
    /\ inflight = {}
    /\ loop = [g \in Gens |-> [l \in Loops |-> "ended"]]
    /\ aborted = {}
    /\ inner = {}
    /\ task = [t \in Triggers |-> "done"]
    /\ ctl = [c \in Controllers |-> "idle"]
    /\ held = [c \in Controllers |-> None]
    /\ awaited = [c \in Controllers |-> {}]
    /\ alone = [c \in Controllers |-> FALSE]
    /\ slow = {}
    /\ late = {}
    /\ starts = MaxStarts
    /\ stops = MaxStops

Alive(g) == {l \in Loops : loop[g][l] # "ended"}
Unfinished == {t \in Triggers : task[t] \in {"ready", "flush"}}

(* A generation nobody refers to: its tasks have ended.                    *)
Fresh(g) ==
    /\ Alive(g) = {} /\ g \notin inner
    /\ g # handles /\ \A c \in Controllers : held[c] # g

-----------------------------------------------------------------------------
(* The two calls.                                                          *)

Goto(c, place) == ctl' = [ctl EXCEPT ![c] = place]

Enter(c, place) ==
    /\ ctl[c] = "idle"
    /\ Goto(c, place)
    /\ UNCHANGED <<slow, late>>
    /\ alone' = [d \in Controllers |->
                    d = c /\ \A e \in Controllers : ctl[e] = "idle"]

(* start goes on when its swap finds the agent stopped; otherwise it       *)
(* returns at once, which changes nothing.                                 *)
Start(c) ==
    /\ ~running
    /\ starts > 0 /\ starts' = starts - 1
    /\ running' = TRUE
    /\ Enter(c, "load")
    /\ UNCHANGED <<handles, free, inflight, loopVars, task, held, awaited, stops>>

(* Mutant of MaySpawn: handles left by another start are overwritten.      *)
MaySpawnAlways == TRUE

MaySpawn == handles = None

(* After the reload: spawn the loops unless `loops` holds handles already. *)
(* The identity of the new handles is one of the bounded set Gens.         *)
SpawnLoops(c) ==
    /\ ctl[c] = "load"
    /\ MaySpawn => \E h \in Gens : Fresh(h)
    /\ Goto(c, "idle")
    /\ IF MaySpawn
       THEN LET g == CHOOSE h \in Gens : Fresh(h) IN
               /\ handles' = g
               /\ loop' = [loop EXCEPT ![g] = [l \in Loops |-> "busy"]]
               /\ aborted' = aborted \ {g}
       ELSE UNCHANGED <<handles, loop, aborted>>
    /\ UNCHANGED <<running, free, inflight, inner, task, held, awaited, slow,
                   alone, late, bounds>>

Stop(c) ==
    /\ stops > 0 /\ stops' = stops - 1
    /\ running' = FALSE
    /\ Enter(c, "notify")
    /\ UNCHANGED <<handles, free, inflight, loopVars, task, held, awaited, starts>>

NotifyWaiters(c) ==
    /\ ctl[c] = "notify"
    /\ Goto(c, "take")
    /\ loop' = [g \in Gens |-> [l \in Loops |->
                   IF loop[g][l] = "wait" THEN "notified" ELSE loop[g][l]]]
    /\ UNCHANGED <<running, handles, free, inflight, aborted, inner, task,
                   held, awaited, slow, alone, late, bounds>>

(* Mutant of TakeHandles: the handles stay in `loops`.                     *)
TakeHandlesKept(c) ==
    /\ ctl[c] = "take"
    /\ Goto(c, IF handles = None THEN "collect" ELSE "grace")
    /\ held' = [held EXCEPT ![c] = handles]
    /\ UNCHANGED <<running, handles, free, inflight, loopVars, task, awaited,
                   slow, alone, late, bounds>>

TakeHandles(c) ==
    /\ ctl[c] = "take"
    /\ Goto(c, IF handles = None THEN "collect" ELSE "grace")
    /\ held' = [held EXCEPT ![c] = handles]
    /\ handles' = None
    /\ UNCHANGED <<running, free, inflight, loopVars, task, awaited, slow, alone,
                   late, bounds>>

(* The three handles complete ...                                          *)
JoinLoops(c) ==
    /\ ctl[c] = "grace"
    /\ Alive(held[c]) = {}
    /\ Goto(c, "collect")
    /\ held' = [held EXCEPT ![c] = None]
    /\ UNCHANGED <<running, handles, free, inflight, loopVars, task, awaited,
                   slow, alone, late, bounds>>

(* Mutant of GraceExpires: no timeout around the joins.                    *)
GraceNeverExpires(c) == ctl[c] = "never" /\ UNCHANGED vars

(* ... or LOOP_SHUTDOWN_GRACE passes and all three are aborted.            *)
GraceExpires(c) ==
    /\ ctl[c] = "grace"
    /\ Alive(held[c]) # {}
    /\ Goto(c, "collect")
    /\ aborted' = aborted \cup {held[c]}
    /\ held' = [held EXCEPT ![c] = None]
    /\ UNCHANGED <<running, handles, free, inflight, loop, inner, task, awaited,
                   slow, alone, late, bounds>>

(* Mutant of CollectInflight: the handles are dropped, not awaited.        *)
CollectAndForget(c) ==
    /\ ctl[c] = "collect"
    /\ Goto(c, "await")
    /\ inflight' = {}
    /\ late' = {t \in Triggers : task[t] = "seen"}
    /\ UNCHANGED <<running, handles, free, loopVars, task, held, awaited, slow,
                   alone, bounds>>

(* await_inflight takes the list of watermark tasks.  A task spawned but   *)
(* not tracked yet is not in it.                                           *)
CollectInflight(c) ==
    /\ ctl[c] = "collect"
    /\ Goto(c, "await")
    /\ awaited' = [awaited EXCEPT ![c] = inflight]
    /\ inflight' = {}
    /\ late' = {t \in Triggers : task[t] = "seen"}
    /\ UNCHANGED <<running, handles, free, loopVars, task, held, slow, alone, bounds>>

(* The wait ends when the tasks of the list have finished; the timeout     *)
(* cuts off only those that take longer than the grace period.             *)
AwaitInflight(c) ==
    /\ ctl[c] = "await"
    /\ awaited[c] \cap Unfinished \subseteq slow
    /\ Goto(c, "acquire")
    /\ awaited' = [awaited EXCEPT ![c] = {}]
    /\ UNCHANGED <<running, handles, free, inflight, loopVars, task, held, slow,
                   alone, late, bounds>>

(* flush_buffer: wait for a permit, flush, release it.                     *)
AcquirePermit(c) ==
    /\ ctl[c] = "acquire"
    /\ free > 0
    /\ free' = free - 1
    /\ Goto(c, "flush")
    /\ UNCHANGED <<running, handles, inflight, loopVars, task, held, awaited, slow,
                   alone, late, bounds>>

FinalFlushDone(c) ==
    /\ ctl[c] = "flush"
    /\ free' = free + 1
    /\ Goto(c, "idle")
    /\ UNCHANGED <<running, handles, inflight, loopVars, task, held, awaited, slow,
                   alone, late, bounds>>

CallStep(c) ==
    \/ SpawnLoops(c) \/ NotifyWaiters(c) \/ TakeHandles(c) \/ JoinLoops(c)
    \/ GraceExpires(c) \/ CollectInflight(c) \/ AwaitInflight(c)
    \/ AcquirePermit(c) \/ FinalFlushDone(c)

-----------------------------------------------------------------------------
(* The loops.                                                              *)

Move(g, l, from, to) ==
    /\ loop[g][l] = from
    /\ loop' = [loop EXCEPT ![g][l] = to]
    /\ UNCHANGED <<running, handles, inflight, aborted, task, callVars, bounds>>

(* Not yet polled, or the push, the refresh or the awaited flush task is   *)
(* over: into the select, where from now on a notification is heard.       *)
Wait(g, l) ==
    /\ g \notin aborted
    /\ l = "flush" => g \notin inner
    /\ Move(g, l, "busy", "wait")
    /\ UNCHANGED <<free, inner>>

(* The notified arm breaks out of the loop.                                *)
Notified(g, l) == Move(g, l, "notified", "ended") /\ UNCHANGED <<free, inner>>

(* The interval passes; the select may prefer this arm to a notification.  *)
Tick(g, l) ==
    /\ g \notin aborted
    /\ Move(g, l, "wait", "check") \/ Move(g, l, "notified", "check")
    /\ UNCHANGED <<free, inner>>

(* Mutant of KeepsRunning: the check is compiled out.                      *)
KeepsRunningUnchecked == TRUE

KeepsRunning == running

(* After a tick `running` is read again.  The flush loop then tries for a  *)
(* permit and hands it to a flush task.                                    *)
CheckRunning(g, l) ==
    \/ ~KeepsRunning /\ Move(g, l, "check", "ended") /\ UNCHANGED <<free, inner>>
    \/ /\ KeepsRunning /\ l # "flush"
       /\ Move(g, l, "check", "busy")
       /\ UNCHANGED <<free, inner>>
    \/ /\ KeepsRunning /\ l = "flush" /\ free > 0
       /\ Move(g, l, "check", "busy")
       /\ free' = free - 1
       /\ inner' = inner \cup {g}
    \/ /\ KeepsRunning /\ l = "flush" /\ free = 0
       /\ Move(g, l, "check", "busy")
       /\ UNCHANGED <<free, inner>>

(* The flush task itself ends, with or without a loop that waits for it.   *)
InnerDone(g) ==
    /\ g \in inner
    /\ inner' = inner \ {g}
    /\ free' = free + 1
    /\ UNCHANGED <<running, handles, inflight, loop, aborted, task, callVars, bounds>>

(* An aborted loop is dropped at the await it is in.                       *)
Cancel(g, l) ==
    /\ g \in aborted
    /\ \E place \in {"busy", "wait", "notified"} : Move(g, l, place, "ended")
    /\ UNCHANGED <<free, inner>>

LoopStep(g, l) ==
    \/ Wait(g, l) \/ Notified(g, l) \/ Tick(g, l) \/ CheckRunning(g, l)
    \/ Cancel(g, l)

-----------------------------------------------------------------------------
(* Watermark tasks.                                                        *)

SetTask(t, from, to) == task[t] = from /\ task' = [task EXCEPT ![t] = to]

(* spawn_gated_flush reads `running` ... How long the flush it is about to *)
(* spawn will take is the server's choice.                                 *)
SeeRunning(t) ==
    /\ running
    /\ SetTask(t, "done", "seen")
    /\ \A c \in Controllers : t \notin awaited[c]
    /\ inflight' = inflight \ {t}
    /\ slow' \in {slow \ {t}, slow \cup {t}}
    /\ late' = late \ {t}
    /\ UNCHANGED <<running, handles, free, loopVars, ctl, held, awaited, alone,
                   bounds>>

(* ... then spawns the task and tracks its handle, dropping finished ones. *)
TrackInflight(t) ==
    /\ SetTask(t, "seen", "ready")
    /\ inflight' = (inflight \cap Unfinished) \cup {t}
    /\ UNCHANGED <<running, handles, free, loopVars, callVars, bounds>>

(* Mutant of RunTask: the flush goes ahead without a permit.               *)
RunTaskUnpermitted(t) ==
    /\ SetTask(t, "ready", "flush")
    /\ UNCHANGED <<running, handles, free, inflight, loopVars, callVars, bounds>>

RunTask(t) ==
    /\ IF free > 0
       THEN SetTask(t, "ready", "flush") /\ free' = free - 1
       ELSE SetTask(t, "ready", "done") /\ UNCHANGED free
    /\ UNCHANGED <<running, handles, inflight, loopVars, callVars, bounds>>

TaskDone(t) ==
    /\ SetTask(t, "flush", "done")
    /\ free' = free + 1
    /\ UNCHANGED <<running, handles, inflight, loopVars, callVars, bounds>>

Next ==
    \/ \E c \in Controllers : Start(c) \/ Stop(c) \/ CallStep(c)
    \/ \E g \in Gens : InnerDone(g) \/ \E l \in Loops : LoopStep(g, l)
    \/ \E t \in Triggers : SeeRunning(t) \/ TrackInflight(t) \/ RunTask(t) \/ TaskDone(t)

Spec == Init /\ [][Next]_vars

(* Tasks that can run do run, timers fire and flushes end (FlushPipeline   *)
(* and Transport); permits are handed out in order, so a stop that waits   *)
(* for one gets it (strong fairness).  Nobody is obliged to call.          *)
Fairness ==
    /\ \A c \in Controllers : WF_vars(CallStep(c)) /\ SF_vars(AcquirePermit(c))
    /\ \A g \in Gens : /\ WF_vars(InnerDone(g))
                       /\ \A l \in Loops : WF_vars(LoopStep(g, l))
    /\ \A t \in Triggers : WF_vars(TrackInflight(t) \/ RunTask(t) \/ TaskDone(t))

FairSpec == Spec /\ Fairness

-----------------------------------------------------------------------------
LoopState == {"busy", "wait", "notified", "check", "ended"}
CtlState == {"idle", "load", "notify", "take", "grace", "collect", "await",
             "acquire", "flush"}

(* Type correctness; every flush permit is free or held by one flush.      *)
TypeOK ==
    /\ running \in BOOLEAN
    /\ handles \in Gens \cup {None}
    /\ loop \in [Gens -> [Loops -> LoopState]]
    /\ aborted \subseteq Gens /\ inner \subseteq Gens
    /\ task \in [Triggers -> {"seen", "ready", "flush", "done"}]
    /\ inflight \subseteq Triggers
    /\ ctl \in [Controllers -> CtlState]
    /\ held \in [Controllers -> Gens \cup {None}]
    /\ awaited \in [Controllers -> SUBSET Triggers]
    /\ alone \in [Controllers -> BOOLEAN]
    /\ slow \subseteq Triggers /\ late \subseteq Triggers
    /\ starts \in Nat /\ stops \in Nat
    /\ free + Cardinality(inner) + Cardinality({c \in Controllers : ctl[c] = "flush"})
            + Cardinality({t \in Triggers : task[t] = "flush"}) = Permits

(* No orphans: a loop that still runs can be stopped.  Its handle is in    *)
(* `loops`, or a stop holds it and will abort it, or it is aborted.        *)
OwnedLoops ==
    \A g \in Gens : Alive(g) # {} =>
        g = handles \/ g \in aborted \/ \E c \in Controllers : held[c] = g

(* A stop that no other call overlapped stops: when it comes to its final  *)
(* flush the agent is not running and no loop will do any more work, but   *)
(* for one caught between its tick and its next await by the abort.        *)
StopStops ==
    \A c \in Controllers : ctl[c] \in {"acquire", "flush"} /\ alone[c] =>
        /\ ~running /\ handles = None
        /\ \A g \in Gens : Alive(g) # {} => g \in aborted

(* stop: in-flight flushes are awaited.  When a stop that no other call    *)
(* overlapped asks for the permit of its final flush, every watermark task *)
(* has finished but those that outlast the grace period and those caught   *)
(* between the read of `running` and the tracking of their handle when the *)
(* stop took the list; and no loop's flush runs but of an aborted loop.    *)
InflightAwaited ==
    \A c \in Controllers : ctl[c] = "acquire" /\ alone[c] =>
        Unfinished \subseteq slow \cup late /\ inner \subseteq aborted

(* start and stop return, whatever the loops are doing and whoever calls   *)
(* the other meanwhile.                                                    *)
CallsComplete == \A c \in Controllers : ctl[c] # "idle" ~> ctl[c] = "idle"

(* Loops that a start spawned after a concurrent stop had looked for them  *)
(* die by themselves, at the latest when their timer fires: in an agent    *)
(* that stays stopped no loop stays alive.                                 *)
LateLoopsDie == ~running ~> (running \/ \A g \in Gens : Alive(g) = {})

(* AgentStats.running: whether the background loops are running.  After a  *)
(* start that no other call overlapped, an agent that says so has all its  *)
(* loops.                                                                  *)
RunningMeansLoops ==
    (/\ running
     /\ \A c \in Controllers : ctl[c] = "idle"
     /\ \E c \in Controllers : alone[c]) =>
        \E g \in Gens : g = handles /\ Alive(g) = Loops
=============================================================================
