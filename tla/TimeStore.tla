----------------------------- MODULE TimeStore -----------------------------
(***************************************************************************)
(* The timers of a reactor.  TimeStore keeps them in a vector in no        *)
(* particular order, together with mint, the time the reactor sleeps to.   *)
(* Every Timer knows its place in the vector.  A removal moves the last    *)
(* entry to the hole.                                                      *)
(*                                                                         *)
(* pop(time) calls the callback of an expired timer in the middle of its   *)
(* loop, and a callback may arm, re-arm or cancel any timer of its object. *)
(* Everything but the clock happens on the reactor's thread.               *)
(***************************************************************************)
EXTENDS Naturals, Sequences

CONSTANTS
    Timers,     \* the timers of the objects on the reactor
    MaxTime,    \* timers are armed up to this time
    MaxSleep,   \* maxwait of computeWaitTimeMilliseconds
    ArmsPast    \* callbacks arm timers for a time pop() still goes up to: it may then never end

TimeAssumption == MaxTime \in Nat /\ MaxSleep \in Nat \ {0} /\ ArmsPast \in BOOLEAN

VARIABLES
    tv,         \* the vector: the time and the timer of every entry
    mint,       \* TimeStore::mint
    storeidx,   \* Timer::storeidx
    f,          \* the timers that have a callback to call
    now,        \* the clock
    tpc,        \* where the reactor is
    deadline,   \* when the wait in progress ends at the latest
    i,          \* pop(): the loop index, from 1
    crtmin,     \* pop(): the smallest time it has kept
    rt,         \* pop(): the time it pops up to
    moved       \* a callback has removed or changed an entry during the last pop()

timevars == <<tv, mint, storeidx, f, now, tpc, deadline, i, crtmin, rt, moved>>

Last == MaxTime + MaxSleep   \* the bound on the clock
Maximum == Last + 1          \* NanoTime::maximum, which no clock reaches
NoIndex == 0                 \* InvalidIndex()

TimeInit ==
    /\ tv = <<>> /\ mint = Maximum
    /\ storeidx = [t \in Timers |-> NoIndex] /\ f = {}
    /\ now = 0 /\ tpc = "handlers" /\ deadline = 0
    /\ i = 1 /\ crtmin = Maximum /\ rt = 0 /\ moved = FALSE

Least(a, b) == IF a < b THEN a ELSE b

(***************************************************************************)
(* TimeStore                                                               *)
(***************************************************************************)
pushTimer(t, tm) ==
    /\ tv' = Append(tv, [time |-> tm, timer |-> t])
    /\ storeidx' = [storeidx EXCEPT ![t] = Len(tv) + 1]
    /\ mint' = Least(mint, tm)

changeTimer(t, tm) ==
    /\ tv' = [tv EXCEPT ![storeidx[t]].time = tm]
    /\ mint' = Least(mint, tm)
    /\ UNCHANGED storeidx

\* The last entry takes the place of entry k, and its timer is told so.
popTimer(k) ==
    /\ tv' = SubSeq([tv EXCEPT ![k] = tv[Len(tv)]], 1, Len(tv) - 1)
    /\ storeidx' = [storeidx EXCEPT ![tv[Len(tv)].timer] = k, ![tv[k].timer] = NoIndex]

(***************************************************************************)
(* Timer: called from the handlers of an object, and from the callbacks.   *)
(***************************************************************************)
InCode == tpc \in {"handlers", "callback"}

\* waitUntil(): aio::Timer also moves a timer that is armed already.  The time may have passed.
waitUntil(t, tm) ==
    /\ InCode /\ (tpc = "callback" /\ tm <= rt => ArmsPast)
    /\ f' = f \union {t}
    /\ IF storeidx[t] = NoIndex THEN pushTimer(t, tm) ELSE changeTimer(t, tm)
    /\ moved' = (moved \/ (tpc = "callback" /\ storeidx[t] # NoIndex))
    /\ UNCHANGED <<now, tpc, deadline, i, crtmin, rt>>

\* silentCancel(), cancel() and the clearing of a handler that is deactivated
cancel(t) ==
    /\ InCode /\ t \in f
    /\ f' = f \ {t}
    /\ popTimer(storeidx[t])
    /\ moved' = (moved \/ tpc = "callback")
    /\ UNCHANGED <<mint, now, tpc, deadline, i, crtmin, rt>>

(***************************************************************************)
(* The reactor's loop                                                      *)
(***************************************************************************)
Tick ==
    /\ now < Last
    /\ now' = now + 1
    /\ UNCHANGED <<tv, mint, storeidx, f, tpc, deadline, i, crtmin, rt, moved>>

\* computeWaitTimeMilliseconds(): without a timer the wait has no end.
WaitTime == IF now < mint THEN Least(mint, now + MaxSleep) ELSE now

BeginWait ==
    /\ tpc = "handlers"
    /\ tpc' = "wait"
    /\ deadline' = WaitTime
    /\ UNCHANGED <<tv, mint, storeidx, f, now, i, crtmin, rt, moved>>

BeginPop ==
    /\ tpc = "wait"
    /\ tpc' = "pop" /\ i' = 1 /\ crtmin' = Maximum /\ rt' = now /\ moved' = FALSE /\ deadline' = 0
    /\ UNCHANGED <<tv, mint, storeidx, f, now>>

\* The wait ends at its deadline, or at any time for an event of another kind.
TimeOut == tv # <<>> /\ now >= deadline /\ BeginPop

KeepForgetsMin ==
    /\ tpc = "pop" /\ i <= Len(tv) /\ tv[i].time > rt
    /\ crtmin' = IF crtmin = Maximum THEN tv[i].time ELSE crtmin
    /\ i' = i + 1
    /\ UNCHANGED <<tv, mint, storeidx, f, now, tpc, deadline, rt, moved>>

Keep ==
    /\ tpc = "pop" /\ i <= Len(tv) /\ tv[i].time > rt
    /\ crtmin' = Least(crtmin, tv[i].time)
    /\ i' = i + 1
    /\ UNCHANGED <<tv, mint, storeidx, f, now, tpc, deadline, rt, moved>>

\* The entry is removed before onTimer() calls back.
Expire ==
    /\ tpc = "pop" /\ i <= Len(tv) /\ tv[i].time <= rt
    /\ f' = f \ {tv[i].timer}
    /\ popTimer(i)
    /\ tpc' = "callback"
    /\ UNCHANGED <<mint, now, deadline, i, crtmin, rt, moved>>

CallbackReturns ==
    /\ tpc = "callback"
    /\ tpc' = "pop"
    /\ UNCHANGED <<tv, mint, storeidx, f, now, deadline, i, crtmin, rt, moved>>

EndPop ==
    /\ tpc = "pop" /\ i > Len(tv)
    /\ mint' = crtmin
    /\ tpc' = "handlers" /\ i' = 1 /\ crtmin' = Maximum /\ rt' = 0
    /\ UNCHANGED <<tv, storeidx, f, now, deadline, moved>>

TimeNext ==
    \/ Tick \/ BeginWait \/ BeginPop \/ Keep \/ Expire \/ CallbackReturns \/ EndPop
    \/ \E t \in Timers : cancel(t) \/ \E tm \in 0..MaxTime : waitUntil(t, tm)

\* The reactor's own steps; no event that would end a wait early is promised
ReactorStep == TimeOut \/ BeginWait \/ Keep \/ Expire \/ CallbackReturns \/ EndPop

TimeSpec == TimeInit /\ [][TimeNext]_timevars

(***************************************************************************)
(* Properties                                                              *)
(***************************************************************************)

\* Timer and vector agree, in the middle of pop() too: a timer that has a callback
\* is in the vector once.
IndexAgrees ==
    /\ \A k \in DOMAIN tv : storeidx[tv[k].timer] = k
    /\ \A t \in Timers : IF t \in f THEN storeidx[t] \in DOMAIN tv ELSE storeidx[t] = NoIndex

\* When the reactor is about to sleep no timer is due before mint, unless a
\* callback removed or re-armed an entry of the vector that pop() was walking.
\* The asserts of doUpdateTimerIndex (storeidx == _oldidx) and of addTimer (idx ==
\* idxreactor) hold throughout.
NextIsEarliest ==
    /\ IndexAgrees
    /\ tpc \in {"handlers", "wait"} /\ ~moved => \A k \in DOMAIN tv : mint <= tv[k].time

\* A timer that is waiting to be called
Armed(t) == t \in f
=============================================================================
